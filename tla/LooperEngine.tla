---------------------------- MODULE LooperEngine ----------------------------
(***************************************************************************)
(* The looper engine: what the audio thread does to its tracks, transport  *)
(* and recording buffers in each processBlock, and what other threads do   *)
(* to the inbox of finished timbre transfers and read from the published   *)
(* loop handles (LooperEngine.cpp, Track.h, Transport.h, RecordingBuffer.h).*)
(*                                                                         *)
(* The audio thread is a program with a counter, `phase': it handles the   *)
(* queued commands, drains the inbox, scans the block for bar one while it *)
(* captures the input, stops the takes that are complete, and advances.    *)
(* The actions of the UI and worker threads interleave with its steps.     *)
(*                                                                         *)
(* Audio is abstracted to lengths.  Settings that only shape the sound     *)
(* (mute, input channel, gains, metronome) are not part of the state.      *)
(***************************************************************************)
EXTENDS Timebase, Sequences, FiniteSets

CONSTANTS NumTracks,        \* kNumTracks
          DefaultBars,      \* a new track's bar count
          LongestBars,      \* the bar count the recording buffers are sized for
          BlockSize,        \* numSamples of processBlock
          HasInput,         \* whether the device delivers input channels
          Commands,         \* the commands the UI posts: [kind, track, arg]
          ActivateChoices,  \* the values of submitLoop's activateOnNextBar
          MaxLoops          \* bound: a track that would exceed it starts nothing

ASSUME EngineAssumption == /\ NumTracks \in Nat \ {0}
                           /\ BlockSize \in Nat \ {0}
                           /\ LongestBars \in Nat \ {0}
                           /\ DefaultBars \in AllowedBars
                           /\ HasInput \in BOOLEAN
                           /\ ActivateChoices \subseteq BOOLEAN
                           /\ MaxLoops \in Nat

Track == 0 .. NumTracks - 1
NoLoop == -1
RecordModes == <<"New", "Overdub", "Replace">>

ASSUME CommandAssumption ==
    \A c \in Commands : c.track \in Track /\ c.arg \in Nat \union {NoLoop}

VARIABLES
    armed, bars, mode,   \* Track: what the next take will be
    recState,            \* Track: "Idle", "CountIn" or "Recording"
    written,             \* RecordingBuffer: samples captured by the take
    loops,               \* Track: the loops, each with its bars and its length
    active,              \* Track: index of the loop that plays, from 0, or NoLoop
    pending,             \* m_pendingActiveLoopIx: index to play from bar one on
    uiLoop,              \* m_uiActiveLoop: index of the loop published to the UI
    bpm, beatsPerBar,    \* Transport: the timebase
    totalLen, totalBars, \* Transport: the length of the loop window
    position, playing,   \* Transport
    comp,                \* m_latencyCompensationSamples
    inbox,               \* m_loopInbox
    draining,            \* drainLoopInbox: the entries taken, not yet handled
    immediate,           \* drainLoopInbox: anyImmediateActivation
    transfers,           \* the loops being converted, oldest first, per track
    phase, todo,         \* where the audio thread is, and its loop counter
    halt,                \* whether the transport stops after stopAllRecordings
    emitted              \* the events pushed by the last step

settingVars == <<armed, bars, mode>>
takeVars == <<recState, written>>
loopVars == <<loops, active, pending, uiLoop>>
tempoVars == <<bpm, beatsPerBar, comp>>
windowVars == <<totalLen, totalBars, position>>
handoffVars == <<inbox, draining, immediate, transfers>>
controlVars == <<phase, todo, halt>>
vars == <<settingVars, takeVars, loopVars, tempoVars, windowVars, playing,
          handoffVars, controlVars, emitted>>

-----------------------------------------------------------------------------
(* Helpers *)

Event(kind, t, val) == [kind |-> kind, track |-> t, val |-> val]

maxRecordingSamples == LongestBars * 4 * SampleRate

Smaller(a, b) == IF a <= b THEN a ELSE b

\* The loop at an index of a list, and the length of the one that plays (0: none).
LoopAt(ls, ix) == ls[ix + 1]
LengthOf(ls, ix) == IF ix = NoLoop THEN 0 ELSE LoopAt(ls, ix).len

\* updateTransportLength: the first of the tracks with the longest active loop.
IsLongest(t, ls, ac) == \A u \in Track :
    \/ LengthOf(ls[u], ac[u]) < LengthOf(ls[t], ac[t])
    \/ LengthOf(ls[u], ac[u]) = LengthOf(ls[t], ac[t]) /\ t <= u

SetLength(ls, ac) ==
    \E t \in Track :
        /\ IsLongest(t, ls, ac)
        /\ totalLen' = LengthOf(ls[t], ac[t])
        /\ totalBars' = IF ac[t] = NoLoop THEN 0 ELSE LoopAt(ls[t], ac[t]).bars

\* Mutant: a shorter window leaves the position where it is.
WrapPositionNot == position' = position

\* setTotalLengthSamples wraps the position into a window that is not empty.
WrapPosition == position' = IF totalLen' > 0 /\ position >= totalLen'
                            THEN position % totalLen' ELSE position

SetWindow(ls, ac) == SetLength(ls, ac) /\ WrapPosition

\* What a track holds or is about to hold: the bound MaxLoops counts all of it.
Holds(t) ==
    Len(loops[t])
    + Cardinality({k \in DOMAIN inbox : inbox[k].track = t})
    + Cardinality({k \in DOMAIN draining : draining[k].track = t})
    + Len(transfers[t])
    + (IF recState[t] = "Idle" THEN 0 ELSE 1)
Room(t) == Holds(t) < MaxLoops

Init == /\ armed = [t \in Track |-> FALSE]
        /\ bars = [t \in Track |-> DefaultBars]
        /\ mode = [t \in Track |-> "New"]
        /\ recState = [t \in Track |-> "Idle"]
        /\ written = [t \in Track |-> 0]
        /\ loops = [t \in Track |-> <<>>]
        /\ active = [t \in Track |-> NoLoop]
        /\ pending = [t \in Track |-> NoLoop]
        /\ uiLoop = [t \in Track |-> NoLoop]
        /\ bpm = NoTempo /\ beatsPerBar = 4
        /\ totalLen = 0 /\ totalBars = 0 /\ position = 0 /\ playing = FALSE
        /\ comp = 0
        /\ inbox = <<>> /\ draining = <<>> /\ immediate = FALSE
        /\ transfers = [t \in Track |-> <<>>]
        /\ phase = "commands" /\ todo = 0 /\ halt = FALSE
        /\ emitted = {}

-----------------------------------------------------------------------------
(* finishRecording *)

\* The samples left of a take once the latency is cut from its start.
Captured(t) == written[t] - comp

\* Mutant: a rejected take tells nobody.
RejectSilently(t) ==
    /\ \/ written[t] <= comp
       \/ mode[t] # "New" /\ active[t] = NoLoop
       \/ mode[t] = "New" /\ bpm = NoTempo /\ Fits(Captured(t)) = {}
    /\ emitted' = {}
    /\ UNCHANGED <<bars, loopVars, bpm, windowVars>>

Reject(t) ==
    /\ \/ written[t] <= comp
       \/ mode[t] # "New" /\ active[t] = NoLoop
       \/ mode[t] = "New" /\ bpm = NoTempo /\ Fits(Captured(t)) = {}
    /\ emitted' = {Event("BpmFitFailed", t, 0)}
    /\ UNCHANGED <<bars, loopVars, bpm, windowVars>>

\* Overdub and Replace change the audio of the active loop in place.
Merge(t) ==
    /\ written[t] > comp /\ mode[t] # "New" /\ active[t] # NoLoop
    /\ uiLoop' = [uiLoop EXCEPT ![t] = active[t]]
    /\ emitted' = {Event("RecordingComplete", t,
                         Smaller(Captured(t), LengthOf(loops[t], active[t])))}
    /\ UNCHANGED <<bars, loops, active, pending, bpm, windowVars>>

\* A take becomes a new loop, cut to whole bars if it is long enough.
CutLength(takenBars, tempo, n) ==
    LET whole == samplesForBars(takenBars, tempo, beatsPerBar)
    IN  IF whole = 0 \/ whole > n THEN n ELSE whole

\* Mutant: the window takes the length of the new loop.
KeepAsOwnWindow(t, takenBars, tempo) ==
    LET len == CutLength(takenBars, tempo, Captured(t))
    IN  /\ loops' = [loops EXCEPT ![t] = Append(@, [bars |-> takenBars, len |-> len])]
        /\ active' = [active EXCEPT ![t] = Len(loops[t])]
        /\ totalLen' = len /\ totalBars' = takenBars /\ position' = 0
        /\ uiLoop' = [uiLoop EXCEPT ![t] = Len(loops[t])]
        /\ emitted' = {Event("RecordingComplete", t, len),
                       Event("BpmLocked", t, takenBars)}
        /\ UNCHANGED pending

KeepAs(t, takenBars, tempo) ==
    LET len == CutLength(takenBars, tempo, Captured(t))
        ls == [loops EXCEPT ![t] = Append(@, [bars |-> takenBars, len |-> len])]
        ac == [active EXCEPT ![t] = Len(loops[t])]
    IN  /\ loops' = ls
        /\ active' = ac
        /\ SetLength(ls, ac)
        /\ position' = 0
        /\ uiLoop' = [uiLoop EXCEPT ![t] = ac[t]]
        /\ emitted' = {Event("RecordingComplete", t, len),
                       Event("BpmLocked", t, takenBars)}
        /\ UNCHANGED pending

\* Mutant: every take sets the tempo.
KeepFirstAlways(t) ==
    /\ written[t] > comp /\ mode[t] = "New"
    /\ \E fit \in AllowedBars :
         /\ IsBestFit(fit, Captured(t))
         /\ bpm' = BpmOf(fit, Captured(t))
         /\ bars' = [bars EXCEPT ![t] = fit]
         /\ KeepAs(t, fit, BpmOf(fit, Captured(t)))

\* The first loop of the session sets the tempo.
KeepFirst(t) ==
    /\ written[t] > comp /\ mode[t] = "New" /\ bpm = NoTempo
    /\ \E fit \in AllowedBars :
         /\ IsBestFit(fit, Captured(t))
         /\ bpm' = BpmOf(fit, Captured(t))
         /\ bars' = [bars EXCEPT ![t] = fit]
         /\ KeepAs(t, fit, BpmOf(fit, Captured(t)))

KeepNext(t) ==
    /\ written[t] > comp /\ mode[t] = "New" /\ bpm # NoTempo
    /\ KeepAs(t, bars[t], bpm)
    /\ UNCHANGED <<bpm, bars>>

\* Mutant: a rejected take stays in the buffer.
finishRecordingDirty(t) ==
    /\ recState' = [recState EXCEPT ![t] = "Idle"]
    /\ \/ Reject(t) /\ UNCHANGED written
       \/ /\ Merge(t) \/ KeepFirst(t) \/ KeepNext(t)
          /\ written' = [written EXCEPT ![t] = 0]
    /\ UNCHANGED <<armed, mode, beatsPerBar, comp, playing, handoffVars>>

finishRecording(t) ==
    /\ recState' = [recState EXCEPT ![t] = "Idle"]
    /\ written' = [written EXCEPT ![t] = 0]
    /\ Reject(t) \/ Merge(t) \/ KeepFirst(t) \/ KeepNext(t)
    /\ UNCHANGED <<armed, mode, beatsPerBar, comp, playing, handoffVars>>

-----------------------------------------------------------------------------
(* handleCommand, at the top of processBlock *)

\* A command that runs stopAllRecordings enters the loop over the tracks.
EnterStop(thenHalt) ==
    /\ phase' = "stopping" /\ todo' = 0 /\ halt' = thenHalt
    /\ emitted' = {}
    /\ UNCHANGED <<settingVars, takeVars, loopVars, tempoVars, windowVars,
                   playing, handoffVars>>

\* A command that only sets something leaves the audio thread where it is.
Stay == emitted' = {} /\ UNCHANGED <<controlVars, handoffVars>>

\* Mutant: the transport stops without ending the takes.
SetPlayingOnly(on) ==
    /\ playing' = on /\ Stay
    /\ UNCHANGED <<settingVars, takeVars, loopVars, tempoVars, windowVars>>

SetPlaying(on) ==
    \/ ~on /\ EnterStop(TRUE)
    \/ /\ on /\ playing' = TRUE /\ Stay
       /\ UNCHANGED <<settingVars, takeVars, loopVars, tempoVars, windowVars>>

TogglePlay == SetPlaying(~playing)

StopRecord == EnterStop(FALSE)

\* startRecordingOrCountIn: at once if nothing is there to be in time with.
StartRecord ==
    LET started == {t \in Track : armed[t] /\ recState[t] = "Idle"}
        first == bpm = NoTempo \/ totalLen = 0
    IN  /\ \A t \in started : Room(t)
        /\ written' = [t \in Track |-> IF t \in started THEN 0 ELSE written[t]]
        /\ recState' = [t \in Track |->
                          IF t \notin started THEN recState[t]
                          ELSE IF first THEN "Recording" ELSE "CountIn"]
        /\ emitted' = IF first THEN {Event("RecordingStarted", t, 0) : t \in started}
                               ELSE {}
        /\ playing' = (playing \/ started # {})
        /\ UNCHANGED <<settingVars, loopVars, tempoVars, windowVars, handoffVars,
                       controlVars>>

ResetPosition ==
    /\ position' = 0 /\ Stay
    /\ UNCHANGED <<settingVars, takeVars, loopVars, tempoVars, totalLen, totalBars,
                   playing>>

SetTempo(newBpm, newBeats, newComp) ==
    /\ bpm' = newBpm /\ beatsPerBar' = newBeats /\ comp' = newComp /\ Stay
    /\ UNCHANGED <<settingVars, takeVars, loopVars, windowVars, playing>>

SetBpm(x) == x \in Nat /\ SetTempo(x, beatsPerBar, comp)
SetBeatsPerBar(n) == n \in Nat /\ SetTempo(bpm, n, comp)
SetLatencyCompensation(n) ==
    SetTempo(bpm, beatsPerBar, IF n < 0 THEN 0 ELSE n)

SetTrack(newArmed, newBars, newMode) ==
    /\ armed' = newArmed /\ bars' = newBars /\ mode' = newMode /\ Stay
    /\ UNCHANGED <<takeVars, loopVars, tempoVars, windowVars, playing>>

SetTrackArmed(t, on) == SetTrack([armed EXCEPT ![t] = on], bars, mode)
SelectTrack(t) == SetTrack([u \in Track |-> u = t], bars, mode)
SetTrackBars(t, n) ==
    SetTrack(armed, IF n \in AllowedBars THEN [bars EXCEPT ![t] = n] ELSE bars, mode)
SetTrackMode(t, m) ==
    m + 1 \in DOMAIN RecordModes
    /\ SetTrack(armed, bars, [mode EXCEPT ![t] = RecordModes[m + 1]])

\* The commands that choose another loop: at once, dropping what was pending.
ChooseLoop(t, ix) ==
    LET ac == [active EXCEPT ![t] = ix]
    IN  /\ active' = ac
        /\ pending' = [pending EXCEPT ![t] = NoLoop]
        /\ SetWindow(loops, ac)
        /\ uiLoop' = [uiLoop EXCEPT ![t] = ix]
        /\ Stay
        /\ UNCHANGED <<settingVars, takeVars, loops, tempoVars, playing>>

CycleNextLoop(t) ==
    ChooseLoop(t, IF loops[t] = <<>> THEN active[t]
                  ELSE (active[t] + 1) % Len(loops[t]))

\* One step back is one step forward less than a full turn.
CyclePrevLoop(t) ==
    ChooseLoop(t, IF Len(loops[t]) <= 1 THEN active[t]
                  ELSE (active[t] + Len(loops[t]) - 1) % Len(loops[t]))

SwitchActiveLoop(t, ix) ==
    ChooseLoop(t, IF ix < 0 THEN NoLoop
                  ELSE IF ix < Len(loops[t]) THEN ix ELSE active[t])

\* The loop keeps its length; its handle is published again.
ClearActiveLoop(t) ==
    /\ uiLoop' = [uiLoop EXCEPT ![t] = active[t]]
    /\ Stay
    /\ UNCHANGED <<settingVars, takeVars, loops, active, pending, tempoVars,
                   windowVars, playing>>

Handle(c) ==
    \/ c.kind = "SetPlaying" /\ SetPlaying(c.arg = 1)
    \/ c.kind = "TogglePlay" /\ TogglePlay
    \/ c.kind = "StartRecord" /\ StartRecord
    \/ c.kind = "StopRecord" /\ StopRecord
    \/ c.kind = "ResetPosition" /\ ResetPosition
    \/ c.kind = "SetBpm" /\ SetBpm(c.arg)
    \/ c.kind = "SetBeatsPerBar" /\ SetBeatsPerBar(c.arg)
    \/ c.kind = "SetLatencyCompensation" /\ SetLatencyCompensation(c.arg)
    \/ c.kind = "SetTrackArmed" /\ SetTrackArmed(c.track, c.arg = 1)
    \/ c.kind = "SelectTrack" /\ SelectTrack(c.track)
    \/ c.kind = "SetTrackBars" /\ SetTrackBars(c.track, c.arg)
    \/ c.kind = "SetTrackMode" /\ SetTrackMode(c.track, c.arg)
    \/ c.kind = "CycleNextLoop" /\ CycleNextLoop(c.track)
    \/ c.kind = "CyclePrevLoop" /\ CyclePrevLoop(c.track)
    \/ c.kind = "SwitchActiveLoop" /\ SwitchActiveLoop(c.track, c.arg)
    \/ c.kind = "ClearActiveLoop" /\ ClearActiveLoop(c.track)

HandleCommand == phase = "commands" /\ \E c \in Commands : Handle(c)

\* stopAllRecordings: the first track from `todo' on that is not idle.
IsNextToStop(t) == /\ phase = "stopping"
                   /\ t >= todo /\ recState[t] # "Idle"
                   /\ \A u \in Track : u >= todo /\ u < t => recState[u] = "Idle"

StopTake(t) == /\ IsNextToStop(t) /\ recState[t] = "Recording"
               /\ finishRecording(t)
               /\ todo' = t + 1
               /\ UNCHANGED <<phase, halt>>

CancelCountIn(t) == /\ IsNextToStop(t) /\ recState[t] = "CountIn"
                    /\ recState' = [recState EXCEPT ![t] = "Idle"]
                    /\ todo' = t + 1
                    /\ emitted' = {}
                    /\ UNCHANGED <<written, phase, halt, settingVars, loopVars,
                                   tempoVars, windowVars, playing, handoffVars>>

StopDone == /\ phase = "stopping"
            /\ \A t \in Track : t >= todo => recState[t] = "Idle"
            /\ phase' = "commands" /\ todo' = 0 /\ halt' = FALSE
            /\ playing' = (playing /\ ~halt)
            /\ emitted' = {}
            /\ UNCHANGED <<settingVars, takeVars, loopVars, tempoVars, windowVars,
                           handoffVars>>

-----------------------------------------------------------------------------
(* drainLoopInbox, after the commands *)

\* The inbox is empty, or another thread holds its mutex: the audio thread does
\* not wait for it.
SkipInbox == /\ phase = "commands"
             /\ phase' = "crossing"
             /\ emitted' = {}
             /\ UNCHANGED <<todo, halt, settingVars, takeVars, loopVars, tempoVars,
                            windowVars, playing, handoffVars>>

TakeInbox == /\ phase = "commands" /\ inbox # <<>>
             /\ phase' = "draining"
             /\ draining' = inbox
             /\ inbox' = <<>>
             /\ emitted' = {}
             /\ UNCHANGED <<todo, halt, immediate, transfers, settingVars, takeVars,
                            loopVars, tempoVars, windowVars, playing>>

\* Mutant: Track::addLoop where Track::appendLoop belongs.
DrainEntryActive ==
    /\ phase = "draining" /\ draining # <<>>
    /\ LET e == Head(draining)
           new == Len(loops[e.track])
       IN  /\ loops' = [loops EXCEPT ![e.track] = Append(@, e.loop)]
           /\ active' = [active EXCEPT ![e.track] = new]
           /\ uiLoop' = [uiLoop EXCEPT ![e.track] = new]
           /\ emitted' = {Event("LoopAdded", e.track, new)}
    /\ immediate' = TRUE
    /\ draining' = Tail(draining)
    /\ UNCHANGED <<controlVars, inbox, transfers, pending, settingVars, takeVars,
                   tempoVars, windowVars, playing>>

\* Track::appendLoop, then the activation the submitter asked for.
DrainEntry ==
    /\ phase = "draining" /\ draining # <<>>
    /\ LET e == Head(draining)
           t == e.track
           new == Len(loops[t])
           rolling == playing /\ totalLen > 0
           appended == IF active[t] = NoLoop THEN new ELSE active[t]
       IN  /\ loops' = [loops EXCEPT ![t] = Append(@, e.loop)]
           /\ emitted' = {Event("LoopAdded", t, new)}
           /\ \/ /\ ~e.activate
                 /\ active' = [active EXCEPT ![t] = appended]
                 /\ UNCHANGED <<pending, uiLoop, immediate>>
              \/ /\ e.activate /\ rolling
                 /\ active' = [active EXCEPT ![t] = appended]
                 /\ pending' = [pending EXCEPT ![t] = new]
                 /\ UNCHANGED <<uiLoop, immediate>>
              \/ /\ e.activate /\ ~rolling
                 /\ active' = [active EXCEPT ![t] = new]
                 /\ uiLoop' = [uiLoop EXCEPT ![t] = new]
                 /\ immediate' = TRUE
                 /\ UNCHANGED pending
    /\ draining' = Tail(draining)
    /\ UNCHANGED <<controlVars, inbox, transfers, settingVars, takeVars, tempoVars,
                   windowVars, playing>>

DrainDone == /\ phase = "draining" /\ draining = <<>>
             /\ phase' = "crossing"
             /\ IF immediate THEN SetWindow(loops, active) ELSE UNCHANGED windowVars
             /\ immediate' = FALSE
             /\ emitted' = {}
             /\ UNCHANGED <<todo, halt, inbox, draining, transfers, settingVars, takeVars,
                            loopVars, tempoVars, playing>>

-----------------------------------------------------------------------------
(* The rest of processBlock *)

\* A block longer than the reservation is answered with silence and forgotten.
OversizedBlock == /\ phase = "crossing"
                  /\ phase' = "commands"
                  /\ emitted' = {}
                  /\ UNCHANGED <<todo, halt, settingVars, takeVars, loopVars, tempoVars,
                                 windowVars, playing, handoffVars>>

Rolling == playing /\ totalLen > 0
AbsAt(s) == (position + s) % totalLen

\* Mutant: the end of the window is taken for its start.
BarOnesAtEnd == IF Rolling THEN {s \in 0 .. BlockSize - 1 : AbsAt(s) = totalLen} ELSE {}

\* The offsets of the block at which the window starts.
BarOnes == IF Rolling THEN {s \in 0 .. BlockSize - 1 : AbsAt(s) = 0} ELSE {}

\* One tick per beat and track while the track counts in; the scan of the block
\* turns it into a recording at the first bar one.
CountInTicks ==
    LET beat == samplesPerBeat(bpm)
        before == {s \in 0 .. BlockSize - 1 : \A o \in BarOnes : s < o}
        onBeat == IF Rolling /\ beat > 0
                  THEN {s \in before : AbsAt(s) % beat = 0} ELSE {}
    IN  {Event("CountInTick", t, (totalLen - AbsAt(s)) \div beat) :
            s \in onBeat, t \in {u \in Track : recState[u] = "CountIn"}}

\* Mutant: append writes past the end of the buffer.
AppendToUnbounded(n, count) == IF HasInput THEN n + count ELSE n

\* RecordingBuffer::append saturates at the capacity of the buffer.
AppendTo(n, count) == IF HasInput THEN Smaller(n + count, maxRecordingSamples) ELSE n

\* handleTransportCrossings and captureInputs, in a block with no bar one.
ScanPlain ==
    /\ BarOnes = {}
    /\ written' = [t \in Track |-> IF recState[t] = "Recording"
                                   THEN AppendTo(written[t], BlockSize)
                                   ELSE written[t]]
    /\ emitted' = CountInTicks
    /\ UNCHANGED <<recState, loopVars>>

\* Mutants: the block is captured from its start; the switch is not published.
ScanBarOneWhole ==
    /\ BarOnes # {}
    /\ recState' = [t \in Track |-> IF recState[t] = "CountIn" THEN "Recording"
                                    ELSE recState[t]]
    /\ written' = [t \in Track |-> IF recState'[t] = "Recording"
                                   THEN AppendTo(written[t], BlockSize) ELSE written[t]]
    /\ active' = [t \in Track |-> IF pending[t] = NoLoop THEN active[t] ELSE pending[t]]
    /\ uiLoop' = [t \in Track |-> IF pending[t] = NoLoop THEN uiLoop[t] ELSE pending[t]]
    /\ pending' = [t \in Track |-> NoLoop]
    /\ emitted' = CountInTicks
    /\ UNCHANGED loops

ScanBarOneUnpublished ==
    /\ BarOnes # {}
    /\ active' = [t \in Track |-> IF pending[t] = NoLoop THEN active[t] ELSE pending[t]]
    /\ pending' = [t \in Track |-> NoLoop]
    /\ emitted' = {}
    /\ UNCHANGED <<loops, uiLoop, takeVars>>

\* In a block with a bar one: the tracks that count in begin to capture at its
\* offset, and the loops that were pending begin to play.
ScanBarOne ==
    /\ BarOnes # {}
    /\ recState' = [t \in Track |-> IF recState[t] = "CountIn" THEN "Recording"
                                    ELSE recState[t]]
    /\ \E first \in BarOnes :
         /\ \A s \in BarOnes : first <= s
         /\ written' = [t \in Track |->
              CASE recState[t] = "Recording" -> AppendTo(written[t], BlockSize)
                [] recState[t] = "CountIn" -> AppendTo(0, BlockSize - first)
                [] OTHER -> written[t]]
    /\ active' = [t \in Track |-> IF pending[t] = NoLoop THEN active[t] ELSE pending[t]]
    /\ uiLoop' = [t \in Track |-> IF pending[t] = NoLoop THEN uiLoop[t] ELSE pending[t]]
    /\ pending' = [t \in Track |-> NoLoop]
    /\ emitted' = CountInTicks \union
         {Event("RecordingStarted", t, 0) : t \in {u \in Track : recState[u] = "CountIn"}}
    /\ UNCHANGED loops

ScanBlock == /\ phase = "crossing"
             /\ phase' = "autostop" /\ todo' = 0
             /\ ScanPlain \/ ScanBarOne
             /\ UNCHANGED <<halt, settingVars, tempoVars, windowVars, playing,
                            handoffVars>>

\* Mutant: the target forgets the samples the compensation will cut.
TargetUncompensated(t) ==
    IF mode[t] # "New" THEN LengthOf(loops[t], active[t])
    ELSE IF bpm = NoTempo THEN 0 ELSE samplesForBars(bars[t], bpm, beatsPerBar)

\* recordingTargetSamples: 0 for a take that only the user stops.
Target(t) ==
    IF mode[t] # "New"
    THEN IF active[t] = NoLoop THEN 0 ELSE LengthOf(loops[t], active[t]) + comp
    ELSE IF bpm = NoTempo THEN 0 ELSE samplesForBars(bars[t], bpm, beatsPerBar) + comp

\* Mutant: only a take that hits its target exactly is complete.
IsCompleteExactly(t) == /\ recState[t] = "Recording"
                        /\ Target(t) # 0
                        /\ written[t] = Target(t)

IsComplete(t) == /\ recState[t] = "Recording"
                 /\ Target(t) # 0
                 /\ written[t] >= Target(t)

\* autoStopCompletedRecordings: the first complete take from `todo' on.
AutoStop(t) == /\ phase = "autostop"
               /\ t >= todo /\ IsComplete(t)
               /\ \A u \in Track : u >= todo /\ u < t => ~ IsComplete(u)
               /\ finishRecording(t)
               /\ todo' = t + 1
               /\ UNCHANGED <<phase, halt>>

EndBlock == /\ phase = "autostop"
            /\ \A t \in Track : t >= todo => ~ IsComplete(t)
            /\ phase' = "commands" /\ todo' = 0
            /\ position' = IF Rolling THEN AbsAt(BlockSize) ELSE position
            /\ emitted' = {}
            /\ UNCHANGED <<halt, settingVars, takeVars, loopVars, tempoVars, totalLen,
                           totalBars, playing, handoffVars>>

-----------------------------------------------------------------------------
(* The UI thread and the timbre-transfer worker *)

engineVars == <<settingVars, takeVars, loopVars, tempoVars, windowVars, playing,
                draining, immediate, controlVars>>

\* EngineBridge::convertActiveLoop takes the published loop.  The service runs one
\* transfer of a track at a time, but takes the next before the UI thread has run
\* the completion of the last; completions run in order.
ConvertActiveLoop(t) ==
    /\ uiLoop[t] # NoLoop
    /\ Room(t)
    /\ transfers' = [transfers EXCEPT ![t] = Append(@, uiLoop[t])]
    /\ emitted' = {}
    /\ UNCHANGED <<inbox, engineVars>>

\* The completion: a loop as long as its source goes to the inbox.
submitLoop(t, activate) ==
    /\ transfers[t] # <<>>
    /\ inbox' = Append(inbox, [track |-> t, activate |-> activate,
                               loop |-> LoopAt(loops[t], Head(transfers[t]))])
    /\ transfers' = [transfers EXCEPT ![t] = Tail(@)]
    /\ emitted' = {}
    /\ UNCHANGED engineVars

ConvertFails(t) == /\ transfers[t] # <<>>
                   /\ transfers' = [transfers EXCEPT ![t] = Tail(@)]
                   /\ emitted' = {}
                   /\ UNCHANGED <<inbox, engineVars>>

-----------------------------------------------------------------------------

Stopping == (\E t \in Track : StopTake(t) \/ CancelCountIn(t)) \/ StopDone
Draining == DrainEntry \/ DrainDone
Finishing == (\E t \in Track : AutoStop(t)) \/ EndBlock

Next == \/ HandleCommand
        \/ \E t \in Track : StopTake(t) \/ CancelCountIn(t)
        \/ StopDone
        \/ SkipInbox \/ TakeInbox
        \/ DrainEntry \/ DrainDone
        \/ OversizedBlock \/ ScanBlock
        \/ \E t \in Track : AutoStop(t)
        \/ EndBlock
        \/ \E t \in Track : \/ ConvertActiveLoop(t)
                            \/ \E a \in ActivateChoices : submitLoop(t, a)
                            \/ ConvertFails(t)

\* The device calls processBlock for ever.  A callback ends: only finitely many
\* commands are in the queue, nobody holds the inbox's mutex at every callback,
\* and an oversized block is the exception.  Nothing obliges the user to act.
Fairness == /\ WF_vars(Stopping) /\ WF_vars(Draining) /\ WF_vars(Finishing)
            /\ SF_vars(SkipInbox \/ TakeInbox) /\ SF_vars(TakeInbox)
            /\ SF_vars(ScanBlock)

Spec == Init /\ [][Next]_vars /\ Fairness

-----------------------------------------------------------------------------
(* State properties *)

Shape == [bars : AllowedBars, len : Nat \ {0}]
Entry == [track : Track, loop : Shape, activate : BOOLEAN]
LoopIndex(t) == 0 .. Len(loops[t]) - 1
MaybeIndex(t) == LoopIndex(t) \union {NoLoop}

SettingsOK == /\ armed \in [Track -> BOOLEAN]
              /\ bars \in [Track -> AllowedBars]
              /\ mode \in [Track -> {"New", "Overdub", "Replace"}]
TakesOK == /\ recState \in [Track -> {"Idle", "CountIn", "Recording"}]
           /\ written \in [Track -> 0 .. maxRecordingSamples]
LoopsOK == /\ loops \in [Track -> Seq(Shape)]
           /\ active \in [Track -> Int] /\ pending \in [Track -> Int]
           /\ uiLoop \in [Track -> Int]
           /\ \A t \in Track : /\ active[t] \in MaybeIndex(t)
                               /\ pending[t] \in MaybeIndex(t)
                               /\ uiLoop[t] \in MaybeIndex(t)
TransportOK == /\ bpm \in Nat /\ beatsPerBar \in Nat /\ comp \in Nat
               /\ totalLen \in Nat /\ totalBars \in Nat /\ position \in Nat
               /\ playing \in BOOLEAN
TransfersOK == /\ transfers \in [Track -> Seq(Nat)]
               /\ \A t \in Track : \A k \in 1 .. Len(transfers[t]) :
                    transfers[t][k] \in LoopIndex(t)
HandoffOK == /\ inbox \in Seq(Entry) /\ draining \in Seq(Entry)
             /\ immediate \in BOOLEAN
ControlOK == /\ phase \in {"commands", "stopping", "draining", "crossing", "autostop"}
             /\ todo \in 0 .. NumTracks /\ halt \in BOOLEAN

\* Every variable stays in its domain; in particular the index of the loop that
\* plays, waits, is shown or is being converted is always the index of a loop, so
\* Track::activeLoop never reads past the end (Track.h:77-80).
TypeOK == /\ SettingsOK /\ TakesOK /\ LoopsOK /\ TransportOK
          /\ TransfersOK /\ HandoffOK /\ ControlOK

\* A track records or counts in only while the transport runs: stopping the
\* transport first ends every take (LooperEngine.cpp:337-349), so no take is left
\* behind that no block would ever capture or stop.
TakesNeedTransport == \A t \in Track : recState[t] # "Idle" => playing

\* What the UI is shown is what plays: "The audio thread republishes this handle
\* whenever the active loop changes" (LooperEngine.h:84-85).
UiSeesActive == uiLoop = active

\* The window is as long as the longest active loop (Transport.h:23).
WindowFitsLongest ==
    phase # "draining" =>
    \E t \in Track : /\ IsLongest(t, loops, active)
                   /\ totalLen = LengthOf(loops[t], active[t])

\* The position never leaves the window, whatever shortens it.
PositionInWindow == totalLen > 0 => position < totalLen

\* "How many samples have been captured so far in the current recording ... Zero
\* when not recording" (LooperEngine.h:100-101): every way a take ends empties the
\* buffer.
BufferEmptyUnlessRecording ==
    \A t \in Track : recState[t] # "Recording" => written[t] = 0

\* A take that began with a count-in stays in phase with the window: between
\* blocks, what it has captured ends where the transport is.
TakesInPhase ==
    phase = "commands" /\ totalLen > 0 =>
        \A t \in Track :
          recState[t] = "Recording" /\ written[t] < maxRecordingSamples =>
            (written[t] - position) % totalLen = 0

-----------------------------------------------------------------------------
(* Action properties *)

EventsOf(t, kinds) == {e \in emitted : e.track = t /\ e.kind \in kinds}
Begun(t) == EventsOf(t, {"RecordingStarted"})
Ended(t) == EventsOf(t, {"RecordingComplete", "BpmFitFailed"})

\* The events bracket every take: one start when a track begins to record, one
\* outcome when it ceases to, and none at any other step.
EventsBracketTakes ==
    [][\A t \in Track :
         /\ Cardinality(Begun(t)') =
              IF recState[t] # "Recording" /\ recState'[t] = "Recording" THEN 1 ELSE 0
         /\ Cardinality(Ended(t)') =
              IF recState[t] = "Recording" /\ recState'[t] # "Recording" THEN 1 ELSE 0
      ]_vars

\* A take that is stopped automatically becomes a loop of exactly the track's bars
\* at the session's tempo, whatever the latency compensation cuts from it
\* (feature-brief.md:59, "Capture runs for exactly the track's configured bar
\* count").
AutoStopsOnTheGrid ==
    [][phase = "autostop" =>
         \A t \in Track : Len(loops'[t]) > Len(loops[t]) =>
           LengthOf(loops'[t], Len(loops[t])) = samplesForBars(bars[t], bpm, beatsPerBar)
      ]_vars

\* The tempo the first loop set stays: no later take detects another one.
TempoStaysLocked == [][bpm # NoTempo => bpm' = bpm]_bpm

\* While the transport rolls, a track goes over to another of its loops only in a
\* block that contains a bar one ("Loop swaps, AI conversion results, and similar
\* transitions always land at bar one", feature-brief.md:146).  A take that ends
\* starts a new bar one of its own.
SwapsLandOnBarOne ==
    [][\A t \in Track :
         Rolling /\ active[t] # NoLoop /\ active'[t] # active[t]
           => BarOnes # {} \/ (recState[t] = "Recording" /\ recState'[t] = "Idle")
      ]_vars

-----------------------------------------------------------------------------
(* Liveness *)

\* A count-in ends: the transport reaches bar one, or the user cancels.
CountInEnds == \A t \in Track : recState[t] = "CountIn" ~> recState[t] # "CountIn"

\* A take ends on its own once the session has a tempo ("Capture runs for exactly
\* the track's configured bar count and stops automatically", feature-brief.md:59).
TakesEnd == \A t \in Track :
    recState[t] = "Recording" /\ bpm # NoTempo ~> recState[t] # "Recording"

\* What the code does achieve: a take ends if its target is one the buffer can
\* reach, unless the user moves the target out of reach meanwhile.
InReach(t) == Target(t) \in 1 .. maxRecordingSamples
TakesInReachEnd == \A t \in Track :
    recState[t] = "Recording" /\ InReach(t) ~> recState[t] # "Recording" \/ ~ InReach(t)

\* A loop that waits for bar one begins to play there, unless the transport stops or
\* the user chooses another loop first (LooperEngine.h:90-92).
PendingBegins ==
    \A t \in Track : pending[t] # NoLoop ~> pending[t] = NoLoop \/ ~ Rolling
=============================================================================
