--------------------------- MODULE LooperUiProofs ---------------------------
(***************************************************************************)
(* The queues between the user interface and the engine, for every number  *)
(* of fields, capacity and user: they never exceed their capacity, every   *)
(* field keeps one of its values, and the program switches the metronome   *)
(* on at most once.                                                        *)
(***************************************************************************)
EXTENDS LooperUi, TLAPS

Event == {"RecordingStarted", "RecordingComplete", "BpmFitFailed", "BpmLocked"}

\* What may be in the queue of commands, and what the engine may publish.
FieldCommand == {Set(f, v) : f \in Fields, v \in Nat}
KeyCommand == [kind : {"Start", "Stop", "Toggle", "AutoOn"}]
InRange(c) == c.kind = "Set" => c.field \in Fields /\ c.value \in 0 .. Size[c.field] - 1
Command == {c \in FieldCommand \union KeyCommand : InRange(c)}

\* Fields are in range wherever they are copied.
FieldOK(g) == g \in [Fields -> Nat] /\ \A f \in Fields : g[f] < Size[f]

QueuesOK == /\ commands \in Seq(Command) /\ Len(commands) <= QueueSize
            /\ events \in Seq(Event) /\ Len(events) <= EventSize

ControlOK == /\ take \in {"Idle", "CountIn", "Recording"}
             /\ playing \in BOOLEAN /\ locked \in BOOLEAN
             /\ block \in {"commands", "publish"} /\ timer \in BOOLEAN

\* The flag remembers that the metronome was switched on.
OnceOK == switchedOn = IF autoTriggered THEN 1 ELSE 0

UiInv == ControlOK /\ QueuesOK /\ FieldOK(field) /\ FieldOK(snap.field) /\ OnceOK

-----------------------------------------------------------------------------
(* The queues *)

LEMMA SizeIsPositive == Size \in [Fields -> Nat \ {0}] /\ Metronome \in Fields
                        /\ Size[Metronome] = 2 /\ QueueSize \in Nat \ {0}
                        /\ EventSize \in Nat \ {0}
BY UiAssumption DEF UiAssumption

LEMMA SetIsCommand ==
    ASSUME NEW f \in Fields, NEW v \in 0 .. Size[f] - 1
    PROVE  Set(f, v) \in Command
<1>1. v \in Nat
  BY SizeIsPositive
<1>2. Set(f, v) \in FieldCommand
  BY <1>1 DEF FieldCommand
<1>3. InRange(Set(f, v))
  BY DEF InRange, Set
<1> QED
  BY <1>2, <1>3 DEF Command

LEMMA PostFits ==
    ASSUME QueuesOK, NEW c \in Command, Post(c)
    PROVE  commands' \in Seq(Command) /\ Len(commands') <= QueueSize
BY SizeIsPositive DEF QueuesOK, Post

LEMMA PushFits ==
    ASSUME QueuesOK, NEW evs \in Seq(Event), Push(evs)
    PROVE  events' \in Seq(Event) /\ Len(events') <= EventSize
<1> DEFINE all == events \o evs
<1>1. all \in Seq(Event)
  BY DEF QueuesOK
<1>2. CASE Len(all) <= EventSize
  BY <1>1, <1>2 DEF Push
<1>3. CASE ~(Len(all) <= EventSize)
  <2>1. Len(all) \in Nat
    BY <1>1
  <2>2. SubSeq(all, 1, EventSize) \in Seq(Event) /\ Len(SubSeq(all, 1, EventSize)) = EventSize
    BY <1>1, <1>3, <2>1, SizeIsPositive
  <2> QED
    BY <1>3, <2>2, SizeIsPositive DEF Push
<1> QED
  BY <1>2, <1>3

LEMMA EndTakeFits ==
    ASSUME QueuesOK, EndTake, locked \in BOOLEAN
    PROVE  /\ events' \in Seq(Event) /\ Len(events') <= EventSize
           /\ take' = "Idle" /\ locked' \in BOOLEAN
<1>1. /\ <<"RecordingComplete", "BpmLocked">> \in Seq(Event)
      /\ <<"RecordingComplete">> \in Seq(Event) /\ <<"BpmFitFailed">> \in Seq(Event)
  BY DEF Event
<1>2. ASSUME UNCHANGED <<events, eventLost>>
      PROVE  events' \in Seq(Event) /\ Len(events') <= EventSize
  BY <1>2 DEF QueuesOK
<1>3. events' \in Seq(Event) /\ Len(events') <= EventSize
  BY <1>1, <1>2, PushFits DEF EndTake
<1> QED
  BY <1>3 DEF EndTake

-----------------------------------------------------------------------------
(* The steps *)

LEMMA InitInv == Init => UiInv
<1> SUFFICES ASSUME Init PROVE UiInv
  OBVIOUS
<1>1. PICK f \in Fields \ {Metronome} : \E v \in 0 .. Size[f] - 1 : commands = <<Set(f, v)>>
  BY DEF Init
<1>2. commands \in Seq(Command) /\ Len(commands) = 1
  BY <1>1, SetIsCommand
<1>3. QueuesOK
  BY <1>2, SizeIsPositive DEF Init, QueuesOK
<1>4. FieldOK(field) /\ FieldOK(snap.field)
  BY SizeIsPositive DEF Init, FieldOK, State
<1> QED
  BY <1>3, <1>4 DEF Init, UiInv, ControlOK, OnceOK

LEMMA HandleKeepsInv == ASSUME UiInv, HandleCommand PROVE UiInv'
<1> DEFINE c == Head(commands)
<1>1. c \in Command /\ Tail(commands) \in Seq(Command) /\ Len(Tail(commands)) <= QueueSize
  BY SizeIsPositive DEF UiInv, QueuesOK, HandleCommand
<1>2. FieldOK(snap.field)' /\ OnceOK'
  BY DEF UiInv, FieldOK, OnceOK, HandleCommand, uiVars, autoVars
<1>3. CASE c.kind = "Set" /\ SetField(c.field, c.value)
  <2>1. InRange(c)
    BY <1>1 DEF Command
  <2>2. c.field \in Fields /\ c.value \in 0 .. Size[c.field] - 1
    BY <2>1, <1>3 DEF InRange
  <2>3. c.value \in Nat /\ c.value < Size[c.field]
    BY <2>2, SizeIsPositive
  <2>4. field' = [field EXCEPT ![c.field] = c.value]
    BY <1>3 DEF SetField
  <2>5. FieldOK(field)'
    BY <2>2, <2>3, <2>4, SizeIsPositive DEF UiInv, FieldOK
  <2> QED
    BY <1>1, <1>2, <1>3, <2>5
       DEF UiInv, QueuesOK, ControlOK, HandleCommand, SetField, takeVars, uiVars
<1>4. CASE StartRecord
  <2>1. events' \in Seq(Event) /\ Len(events') <= EventSize
    <3>1. <<"RecordingStarted">> \in Seq(Event)
      BY DEF Event
    <3>2. ASSUME UNCHANGED events PROVE events' \in Seq(Event) /\ Len(events') <= EventSize
      BY <3>2 DEF UiInv, QueuesOK
    <3> QED
      BY <1>4, <3>1, <3>2, PushFits DEF UiInv, StartRecord
  <2>2. ControlOK' /\ FieldOK(field)'
    BY <1>4 DEF UiInv, ControlOK, FieldOK, HandleCommand, StartRecord, takeVars, uiVars
  <2> QED
    BY <1>1, <1>2, <2>1, <2>2 DEF UiInv, QueuesOK, HandleCommand
<1>5. CASE StopRecord \/ TogglePlay
  <2>1. UNCHANGED <<take, locked, events, eventLost>> \/ EndTake
    BY <1>5 DEF StopRecord, TogglePlay
  <2>2. events' \in Seq(Event) /\ Len(events') <= EventSize /\ locked' \in BOOLEAN
        /\ take' \in {"Idle", "CountIn", "Recording"}
    BY <2>1, EndTakeFits DEF UiInv, ControlOK, QueuesOK
  <2>3. ControlOK' /\ FieldOK(field)'
    BY <1>5, <2>2 DEF UiInv, ControlOK, FieldOK, HandleCommand, StopRecord, TogglePlay, uiVars
  <2> QED
    BY <1>1, <1>2, <2>2, <2>3 DEF UiInv, QueuesOK, HandleCommand
<1>6. CASE SetField(Metronome, 1)
  <2>1. field' = [field EXCEPT ![Metronome] = 1]
    BY <1>6 DEF SetField
  <2>2. FieldOK(field)'
    BY <2>1, SizeIsPositive DEF UiInv, FieldOK
  <2> QED
    BY <1>1, <1>2, <1>6, <2>2
       DEF UiInv, QueuesOK, ControlOK, HandleCommand, SetField, takeVars, uiVars
<1> QED
  BY <1>3, <1>4, <1>5, <1>6 DEF HandleCommand

LEMMA BlockKeepsInv == ASSUME UiInv, Roll \/ Publish PROVE UiInv'
<1>1. CASE Roll
  <2>1. <<"RecordingStarted">> \in Seq(Event)
    BY DEF Event
  <2>2. CASE UNCHANGED <<takeVars, events, eventLost>>
    BY <1>1, <2>2 DEF UiInv, ControlOK, QueuesOK, FieldOK, OnceOK, Roll, takeVars, uiVars, autoVars
  <2>3. CASE /\ take' = "Recording" /\ Push(<<"RecordingStarted">>)
             /\ UNCHANGED <<playing, locked>>
    <3>1. events' \in Seq(Event) /\ Len(events') <= EventSize
      BY <2>1, <2>3, PushFits DEF UiInv
    <3> QED
      BY <1>1, <2>3, <3>1 DEF UiInv, ControlOK, QueuesOK, FieldOK, OnceOK, Roll, uiVars, autoVars
  <2>4. CASE EndTake /\ UNCHANGED playing
    <3>1. /\ events' \in Seq(Event) /\ Len(events') <= EventSize
          /\ take' = "Idle" /\ locked' \in BOOLEAN
      BY <2>4, EndTakeFits DEF UiInv, ControlOK
    <3> QED
      BY <1>1, <2>4, <3>1 DEF UiInv, ControlOK, QueuesOK, FieldOK, OnceOK, Roll, uiVars, autoVars
  <2> QED
    BY <1>1, <2>2, <2>3, <2>4 DEF Roll
<1>2. CASE Publish
  BY <1>2 DEF UiInv, ControlOK, QueuesOK, FieldOK, OnceOK, Publish, State, takeVars, uiVars,
     autoVars
<1> QED
  BY <1>1, <1>2

LEMMA UserKeepsInv ==
    ASSUME UiInv, PressRecord \/ PressPlay \/ ClickAuto \/ \E f \in Fields : ClickField(f)
    PROVE  UiInv'
<1>1. ASSUME UserActs, commands' \in Seq(Command), Len(commands') <= QueueSize PROVE UiInv'
  BY <1>1 DEF UiInv, ControlOK, QueuesOK, FieldOK, OnceOK, UserActs, engineVars, takeVars,
     autoVars
<1>2. ASSUME NEW k \in {"Start", "Stop", "Toggle"} PROVE Key(k) \in Command
  <2>1. Key(k) \in KeyCommand
    BY DEF KeyCommand, Key
  <2>2. InRange(Key(k))
    BY DEF InRange, Key
  <2> QED
    BY <2>1, <2>2 DEF Command
<1>3. CASE PressRecord
  BY <1>1, <1>2, <1>3, PostFits DEF PressRecord, UiInv
<1>4. CASE PressPlay
  BY <1>1, <1>2, <1>4, PostFits DEF PressPlay, UiInv
<1>5. CASE ClickAuto
  BY <1>1, <1>5 DEF ClickAuto, UiInv, QueuesOK
<1>6. ASSUME NEW f \in Fields, ClickField(f) PROVE UiInv'
  <2>1. snap.field[f] + 1 \in Nat /\ Size[f] \in Nat \ {0}
    BY SizeIsPositive DEF UiInv, FieldOK
  <2>2. (snap.field[f] + 1) % Size[f] \in 0 .. Size[f] - 1
    BY <2>1
  <2>3. Set(f, (snap.field[f] + 1) % Size[f]) \in Command
    BY <2>2, SetIsCommand
  <2> QED
    BY <1>1, <1>6, <2>3, PostFits DEF ClickField, UiInv
<1> QED
  BY <1>3, <1>4, <1>5, <1>6

LEMMA TimerKeepsInv == ASSUME UiInv, DrainEvent \/ Redraw PROVE UiInv'
<1>1. AutoOn \in Command
  BY DEF AutoOn, Command, KeyCommand, InRange
<1>2. CASE DrainEvent
  <2>1. Tail(events) \in Seq(Event) /\ Len(Tail(events)) <= EventSize
    BY <1>2, SizeIsPositive DEF UiInv, QueuesOK, DrainEvent
  <2>2. /\ commands' \in Seq(Command) /\ Len(commands') <= QueueSize
    BY <1>1, <1>2, PostFits DEF DrainEvent, OnBpmLocked, UiInv, QueuesOK
  <2>3. OnceOK'
    BY <1>2 DEF UiInv, OnceOK, DrainEvent, OnBpmLocked, autoVars
  <2> QED
    BY <1>2, <2>1, <2>2, <2>3 DEF UiInv, ControlOK, QueuesOK, FieldOK, DrainEvent, takeVars
<1>3. CASE Redraw
  BY <1>3 DEF UiInv, ControlOK, QueuesOK, FieldOK, OnceOK, Redraw, engineVars, takeVars,
     autoVars
<1> QED
  BY <1>2, <1>3

LEMMA Inductive == Spec => []UiInv
<1>1. UiInv /\ UNCHANGED vars => UiInv'
  BY DEF UiInv, ControlOK, QueuesOK, FieldOK, OnceOK, vars, takeVars, uiVars, autoVars
<1>2. UiInv /\ [Next]_vars => UiInv'
  BY <1>1, HandleKeepsInv, BlockKeepsInv, UserKeepsInv, TimerKeepsInv DEF Next
<1> QED
  BY InitInv, <1>2, PTL DEF Spec

-----------------------------------------------------------------------------

\* Neither queue exceeds its capacity, and no chip or key sets a field to a value it
\* does not have, whatever snapshot it was computed from.
THEOREM TypeCorrect == Spec => []TypeOK
<1>1. UiInv => TypeOK
  BY DEF UiInv, ControlOK, QueuesOK, FieldOK, TypeOK
<1> QED
  BY Inductive, <1>1, PTL

\* However many takes announce a lock, and whenever the setting is changed, the program
\* switches the metronome on at most once (MainComponent.cpp:111-116).
THEOREM MetronomeSwitchedOnOnce == Spec => []SwitchedOnOnce
<1>1. UiInv => SwitchedOnOnce
  BY DEF UiInv, OnceOK, SwitchedOnOnce
<1> QED
  BY Inductive, <1>1, PTL
=============================================================================
