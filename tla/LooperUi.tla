------------------------------ MODULE LooperUi ------------------------------
(***************************************************************************)
(* The user interface and the engine as two parties that only poll: the    *)
(* message thread posts commands and reads a snapshot, the audio thread    *)
(* handles the commands, pushes events and publishes the snapshot at the   *)
(* end of a block (MainComponent.cpp, TopBar.cpp, TrackRow.cpp,            *)
(* EngineBridge.h, and the queues and snapshot of LooperEngine).           *)
(*                                                                         *)
(* Every control but PLAY sends an absolute value it computes from the     *)
(* snapshot: the record key sends start or stop, a chip the value after    *)
(* the one the snapshot has.  Both queues refuse when they are full, and   *)
(* nobody looks at the refusal.  Of the engine there is one track, what it *)
(* does at a bar one or at the end of a take being its own choice; the     *)
(* module LooperEngine has the rest.                                       *)
(***************************************************************************)
EXTENDS Naturals, Sequences

CONSTANTS Fields,           \* what is set by a chip or key: the metronome, bars, ...
          Metronome,        \* the field of the M key: 0 is off, 1 is on
          Size,             \* the number of values of each, which a click cycles
          QueueSize,        \* kCommandQueueCapacity
          EventSize,        \* kEventQueueCapacity
          MaxPresses        \* bound: what the user does in a behaviour

ASSUME UiAssumption == /\ Metronome \in Fields
                       /\ Size \in [Fields -> Nat \ {0}] /\ Size[Metronome] = 2
                       /\ QueueSize \in Nat \ {0} /\ EventSize \in Nat \ {0}
                       /\ MaxPresses \in Nat

VARIABLES
    take,          \* the record state of the track
    playing,       \* Transport
    locked,        \* whether there is a tempo
    field,         \* the value the engine has of each field
    block,         \* "commands" or "publish": where the audio thread is
    commands,      \* m_commandQueue
    events,        \* m_eventQueue
    snap,          \* the m_snap atomics
    drawn,         \* what the top bar and the track row show
    timer,         \* whether timerCallback is draining events
    auto,          \* Settings: metronomeAutoOnAfterFirstRecord
    autoTriggered, \* m_metronomeAutoTriggered
    switchedOn,    \* how often the program itself posted to switch the metronome on
    refused,       \* whether such a post met a full queue
    reached,       \* whether the engine ever handled one
    eventLost,     \* whether an event met a full queue
    presses        \* counts against MaxPresses

takeVars == <<take, playing, locked>>
autoVars == <<autoTriggered, switchedOn, refused>>
uiVars == <<drawn, timer, auto, autoVars, presses>>
vars == <<takeVars, field, block, commands, reached, events, eventLost, snap, uiVars>>

\* What there is to know of the engine's state.
State == [take |-> take, playing |-> playing, locked |-> locked,
          field |-> field]

\* TopBar::update and TrackRow::update: what each shows of a snapshot.
TopBarOf(s) == [rec |-> s.take = "Recording", countIn |-> s.take = "CountIn",
                play |-> s.playing, bpm |-> s.locked, metro |-> s.field[Metronome]]
TrackRowOf(s) == [rec |-> s.take = "Recording", field |-> s.field]
ViewOf(s) == [top |-> TopBarOf(s), row |-> TrackRowOf(s)]

Set(f, v) == [kind |-> "Set", field |-> f, value |-> v]

Key(kind) == [kind |-> kind]

\* SetMetronomeEnabled like that of the M key, and named for who sends it.
AutoOn == [kind |-> "AutoOn"]

-----------------------------------------------------------------------------
(* The audio thread *)

\* Mutant: a kept take does not tell that there is a tempo.
PushAllButLocks(evs) ==
    LET kept == SelectSeq(evs, LAMBDA e : e # "BpmLocked")
        all == events \o kept
    IN  /\ events' = IF Len(all) <= EventSize THEN all ELSE SubSeq(all, 1, EventSize)
        /\ eventLost' = (eventLost \/ Len(all) > EventSize)

\* pushEvent: what does not fit is dropped.
Push(evs) ==
    LET all == events \o evs
    IN  /\ events' = IF Len(all) <= EventSize THEN all ELSE SubSeq(all, 1, EventSize)
        /\ eventLost' = (eventLost \/ Len(all) > EventSize)

\* A take ends as a new loop, in an overdub, or rejected; a count-in is cancelled.
EndTake ==
    /\ take' = "Idle"
    /\ \/ take = "Recording" /\ locked' = TRUE
          /\ Push(<<"RecordingComplete", "BpmLocked">>)
       \/ take = "Recording" /\ locked /\ UNCHANGED locked
          /\ Push(<<"RecordingComplete">>)
       \/ take = "Recording" /\ UNCHANGED locked /\ Push(<<"BpmFitFailed">>)
       \/ take # "Recording" /\ UNCHANGED <<locked, events, eventLost>>

StartRecord ==
    \/ /\ take = "Idle"
       /\ playing' = TRUE
       /\ IF locked THEN take' = "CountIn" /\ UNCHANGED <<events, eventLost>>
                    ELSE take' = "Recording" /\ Push(<<"RecordingStarted">>)
       /\ UNCHANGED <<locked, field>>
    \/ /\ take # "Idle"
       /\ UNCHANGED <<takeVars, field, events, eventLost>>

StopRecord == EndTake /\ UNCHANGED <<playing, field>>

TogglePlay == /\ playing' = ~playing
              /\ IF playing THEN EndTake
                            ELSE UNCHANGED <<take, locked, events, eventLost>>
              /\ UNCHANGED field

SetField(f, v) == /\ field' = [field EXCEPT ![f] = v]
                  /\ UNCHANGED <<takeVars, events, eventLost>>

\* The tryPop loop of processBlock.
HandleCommand ==
    /\ block = "commands" /\ commands # <<>>
    /\ commands' = Tail(commands)
    /\ LET c == Head(commands)
       IN  \/ c.kind = "Start" /\ StartRecord
           \/ c.kind = "Stop" /\ StopRecord
           \/ c.kind = "Toggle" /\ TogglePlay
           \/ c.kind = "Set" /\ SetField(c.field, c.value)
           \/ c.kind = "AutoOn" /\ SetField(Metronome, 1)
    /\ reached' = (reached \/ Head(commands).kind = "AutoOn")
    /\ UNCHANGED <<block, snap, uiVars>>

\* The block itself: it may hold the bar one a count-in waits for, or the end of a
\* take that stops by itself, which is longer than a block.
Roll == /\ block = "commands" /\ commands = <<>>
        /\ block' = "publish"
        /\ \/ UNCHANGED <<takeVars, events, eventLost>>
           \/ /\ playing /\ take = "CountIn" /\ take' = "Recording"
              /\ Push(<<"RecordingStarted">>)
              /\ UNCHANGED <<playing, locked>>
           \/ playing /\ take = "Recording" /\ locked /\ EndTake /\ UNCHANGED playing
        /\ UNCHANGED <<field, commands, reached, snap, uiVars>>

\* Mutant: nothing is published while the transport stands still.
PublishPlaying == /\ block = "publish" /\ block' = "commands"
                  /\ snap' = IF playing THEN State ELSE snap
                  /\ UNCHANGED <<takeVars, field, commands, reached, events, eventLost,
                                 uiVars>>

\* writeSnapshotAtomics, at the end of the block.
Publish == /\ block = "publish" /\ block' = "commands"
           /\ snap' = State
           /\ UNCHANGED <<takeVars, field, commands, reached, events, eventLost,
                          uiVars>>

-----------------------------------------------------------------------------
(* The message thread *)

\* Mutant: the queue is as long as it takes.
PostUnbounded(c) == commands' = Append(commands, c)

\* EngineBridge: a full queue refuses the command, unnoticed.
Post(c) == commands' = IF Len(commands) < QueueSize THEN Append(commands, c)
                                                    ELSE commands

engineVars == <<takeVars, field, block, reached, events, eventLost, snap>>

UserActs == /\ ~timer /\ presses < MaxPresses
            /\ presses' = presses + 1
            /\ UNCHANGED <<engineVars, drawn, timer, autoVars>>

\* The R key and the REC chip: stop if any track records or counts in.
PressRecord == /\ UserActs
               /\ Post(Key(IF snap.take = "Idle" THEN "Start" ELSE "Stop"))
               /\ UNCHANGED auto

PressPlay == UserActs /\ Post(Key("Toggle")) /\ UNCHANGED auto

\* The M key and the METRO, BARS, IN, mode and mute chips: the value after the one
\* the snapshot has.
ClickField(f) == /\ UserActs
                 /\ Post(Set(f, (snap.field[f] + 1) % Size[f]))
                 /\ UNCHANGED auto

\* The toggle in the settings window.
ClickAuto == UserActs /\ auto' = ~auto /\ UNCHANGED commands

\* Mutant: the flag is not kept.
OnBpmLockedAlways ==
    /\ IF auto
       THEN /\ Post(AutoOn) /\ switchedOn' = switchedOn + 1
            /\ refused' = (refused \/ commands' = commands)
       ELSE UNCHANGED <<commands, switchedOn, refused>>
    /\ UNCHANGED autoTriggered

\* The first BpmLocked that finds the setting on posts to switch the metronome on; the
\* flag is set whether or not the queue takes the command.
OnBpmLocked ==
    IF ~autoTriggered /\ auto
    THEN /\ Post(AutoOn)
         /\ autoTriggered' = TRUE /\ switchedOn' = switchedOn + 1
         /\ refused' = (commands' = commands)
    ELSE UNCHANGED <<commands, autoVars>>

\* timerCallback: the events one by one, then the picture.
DrainEvent == /\ events # <<>>
              /\ timer' = TRUE
              /\ events' = Tail(events)
              /\ \/ Head(events) = "BpmLocked" /\ OnBpmLocked
                 \/ /\ Head(events) # "BpmLocked"
                    /\ UNCHANGED <<commands, autoVars>>
              /\ UNCHANGED <<takeVars, field, block, reached, eventLost, snap, drawn,
                             auto, presses>>

Redraw == /\ events = <<>>
          /\ timer' = FALSE
          /\ drawn' = ViewOf(snap)
          /\ UNCHANGED <<engineVars, commands, auto, autoVars, presses>>

-----------------------------------------------------------------------------

\* The constructor posts the persisted settings; here one of them, the default bars.
Init == /\ take = "Idle" /\ playing = FALSE /\ locked = FALSE
        /\ field = [f \in Fields |-> 0]
        /\ block = "commands"
        /\ \E f \in Fields \ {Metronome} : \E v \in 0 .. Size[f] - 1 :
             commands = <<Set(f, v)>>
        /\ events = <<>> /\ eventLost = FALSE
        /\ snap = State
        /\ drawn = ViewOf(State)
        /\ timer = FALSE
        /\ auto \in BOOLEAN /\ autoTriggered = FALSE /\ switchedOn = 0
        /\ refused = FALSE /\ reached = FALSE
        /\ presses = 0

AudioThread == HandleCommand \/ Roll \/ Publish
Timer == DrainEvent \/ Redraw

Next == \/ HandleCommand \/ Roll \/ Publish
        \/ PressRecord \/ PressPlay \/ ClickAuto
        \/ \E f \in Fields : ClickField(f)
        \/ DrainEvent \/ Redraw

\* The device calls for blocks and the timer ticks for ever.  Nothing obliges the user.
Spec == Init /\ [][Next]_vars /\ WF_vars(AudioThread) /\ WF_vars(Timer)

-----------------------------------------------------------------------------
(* Properties *)

\* Queues keep to their capacity, and fields to their values.
TypeOK == /\ take \in {"Idle", "CountIn", "Recording"}
          /\ playing \in BOOLEAN /\ locked \in BOOLEAN
          /\ field \in [Fields -> Nat] /\ \A f \in Fields : field[f] < Size[f]
          /\ Len(commands) <= QueueSize /\ Len(events) <= EventSize
          /\ block \in {"commands", "publish"} /\ timer \in BOOLEAN

\* The program switches the metronome on once and leaves it to the user from then on
\* ("auto-enable after the first tempo lock", feature-brief.md:21), although every
\* take that is kept announces a lock.
SwitchedOnOnce == switchedOn <= 1

\* With the setting on, the first tempo lock switches the metronome on, unless the queue
\* of events was full or that of commands: either refuses without a sign, and the flag is
\* set all the same (MainComponent.cpp:114-115), so that no later lock tries again.
LockReachesMetronome == []auto => (locked ~> reached \/ eventLost \/ refused)

\* Once the user rests, the picture is the truth: what is drawn is what the engine
\* does, with every command handled that was not refused ("Surfaces must not lie",
\* feature-brief.md:147).
PictureIsTrue == <>[](commands = <<>> /\ drawn = ViewOf(State))
=============================================================================
