---------------------- MODULE LooperEngineActionProofs ----------------------
(***************************************************************************)
(* What the engine's steps tell the UI and do to the loops that play, for  *)
(* every number of tracks, block size, sample rate and bound.  Theorems    *)
(* that need the user to leave a command alone say so as an assumption on  *)
(* the command alphabet.                                                   *)
(***************************************************************************)
EXTENDS LooperEngineProofs, FiniteSetTheorems

-----------------------------------------------------------------------------
(* The events of a take *)

\* What EventsBracketTakes says of a step and a track.
Brackets(t) ==
    /\ Cardinality(Begun(t)') =
         IF recState[t] # "Recording" /\ recState'[t] = "Recording" THEN 1 ELSE 0
    /\ Cardinality(Ended(t)') =
         IF recState[t] = "Recording" /\ recState'[t] # "Recording" THEN 1 ELSE 0

\* The kinds of events that say nothing about the start or the end of a take.
Asides == {"BpmLocked", "CountInTick", "LoopAdded"}

LEMMA NoEvent ==
    ASSUME NEW t, NEW kinds, \A e \in emitted' : ~ (e.track = t /\ e.kind \in kinds)
    PROVE  Cardinality(EventsOf(t, kinds)') = 0
<1>1. EventsOf(t, kinds)' = {}
  BY DEF EventsOf
<1> QED
  BY <1>1, FS_EmptySet

LEMMA OneEvent ==
    ASSUME NEW t, NEW kinds, NEW x \in emitted', x.track = t, x.kind \in kinds,
           \A e \in emitted' : e.track = t /\ e.kind \in kinds => e = x
    PROVE  Cardinality(EventsOf(t, kinds)') = 1
<1>1. EventsOf(t, kinds)' = {x}
  BY DEF EventsOf
<1> QED
  BY <1>1, FS_Singleton

\* A step at which no take starts or ends and no event says that one does.
LEMMA AsidesBracket ==
    ASSUME \A e \in emitted' : e.kind \in Asides,
           NEW t \in Track, (recState[t] = "Recording") <=> (recState'[t] = "Recording")
    PROVE  Brackets(t)
<1>1. \A e \in emitted' : e.kind \notin {"RecordingStarted"}
                          /\ e.kind \notin {"RecordingComplete", "BpmFitFailed"}
  BY DEF Asides
<1>2. Cardinality(Begun(t)') = 0 /\ Cardinality(Ended(t)') = 0
  BY <1>1, NoEvent DEF Begun, Ended
<1> QED
  BY <1>2 DEF Brackets

\* The tracks of `begins' start to record, and there is an event for each of them.
LEMMA StartsBracket ==
    ASSUME NEW begins \in SUBSET Track, NEW ticks,
           \A e \in ticks : e.kind \in Asides,
           emitted' = ticks \union {Event("RecordingStarted", u, 0) : u \in begins},
           \A u \in begins : recState[u] # "Recording" /\ recState'[u] = "Recording",
           \A u \in Track \ begins :
              (recState[u] = "Recording") <=> (recState'[u] = "Recording"),
           NEW t \in Track
    PROVE  Brackets(t)
<1>1. \A e \in emitted' : e \in ticks \/ e.kind = "RecordingStarted"
  BY DEF Event
<1>2. \A e \in emitted' : e.kind \notin {"RecordingComplete", "BpmFitFailed"}
  BY <1>1 DEF Asides
<1>3. Cardinality(Ended(t)') = 0
  BY <1>2, NoEvent DEF Ended
<1>4. CASE t \in begins
  <2> DEFINE x == Event("RecordingStarted", t, 0)
  <2>1. x \in emitted' /\ x.track = t /\ x.kind \in {"RecordingStarted"}
    BY <1>4 DEF Event
  <2>2. \A e \in emitted' : e.track = t /\ e.kind \in {"RecordingStarted"} => e = x
    BY DEF Event, Asides
  <2> HIDE DEF x
  <2>3. Cardinality(Begun(t)') = 1
    BY <2>1, <2>2, OneEvent DEF Begun
  <2> QED
    BY <1>3, <1>4, <2>3 DEF Brackets
<1>5. CASE t \notin begins
  <2>1. \A e \in emitted' : ~ (e.track = t /\ e.kind \in {"RecordingStarted"})
    BY <1>5 DEF Event, Asides
  <2>2. Cardinality(Begun(t)') = 0
    BY <2>1, NoEvent DEF Begun
  <2> QED
    BY <1>3, <1>5, <2>2 DEF Brackets
<1> QED
  BY <1>4, <1>5

\* A take that ends is answered by one outcome, that of its own track.
LEMMA FinishBrackets ==
    ASSUME TypeOK, NEW t \in Track, recState[t] = "Recording", finishRecording(t),
           NEW u \in Track
    PROVE  Brackets(u)
<1>1. recState' = [recState EXCEPT ![t] = "Idle"]
      /\ recState \in [Track -> {"Idle", "CountIn", "Recording"}]
  BY DEF finishRecording, TypeOK, TakesOK
<1>2. PICK x \in emitted' :
         /\ x.track = t /\ x.kind \in {"RecordingComplete", "BpmFitFailed"}
         /\ \A e \in emitted' : e = x \/ e.kind \in Asides
  <2>1. ASSUME NEW b, NEW tempo, KeepAs(t, b, tempo)
        PROVE  \E x \in emitted' :
                 /\ x.track = t /\ x.kind \in {"RecordingComplete", "BpmFitFailed"}
                 /\ \A e \in emitted' : e = x \/ e.kind \in Asides
    <3>1. emitted' = {Event("RecordingComplete", t, CutLength(b, tempo, Captured(t))),
                      Event("BpmLocked", t, b)}
      BY <2>1 DEF KeepAs
    <3> QED
      BY <3>1 DEF Event, Asides
  <2>2. CASE Reject(t) \/ Merge(t)
    BY <2>2 DEF Reject, Merge, Event
  <2>3. CASE KeepFirst(t) \/ KeepNext(t)
    BY <2>1, <2>3 DEF KeepFirst, KeepNext
  <2> QED
    BY <2>2, <2>3 DEF finishRecording
<1>3. \A e \in emitted' : e.kind \notin {"RecordingStarted"}
  BY <1>2 DEF Asides
<1>4. Cardinality(Begun(u)') = 0
  BY <1>3, NoEvent DEF Begun
<1>5. CASE u = t
  <2>1. \A e \in emitted' : e.track = t /\ e.kind \in {"RecordingComplete", "BpmFitFailed"}
                              => e = x
    BY <1>2 DEF Asides
  <2>2. Cardinality(Ended(t)') = 1
    BY <1>2, <2>1, OneEvent DEF Ended
  <2> QED
    BY <1>1, <1>4, <1>5, <2>2 DEF Brackets
<1>6. CASE u # t
  <2>1. \A e \in emitted' :
          ~ (e.track = u /\ e.kind \in {"RecordingComplete", "BpmFitFailed"})
    BY <1>2, <1>6 DEF Asides
  <2>2. Cardinality(Ended(u)') = 0
    BY <2>1, NoEvent DEF Ended
  <2> QED
    BY <1>1, <1>4, <1>6, <2>2 DEF Brackets
<1> QED
  BY <1>5, <1>6

LEMMA CommandBrackets ==
    ASSUME TypeOK, HandleCommand, NEW t \in Track PROVE Brackets(t)
<1>1. PICK c \in Commands : Handle(c)
  BY DEF HandleCommand
<1>2. CASE StartRecord
  <2> DEFINE started == {u \in Track : armed[u] /\ recState[u] = "Idle"}
             first == bpm = NoTempo \/ totalLen = 0
  <2>1. /\ recState' = [u \in Track |-> IF u \notin started THEN recState[u]
                                        ELSE IF first THEN "Recording" ELSE "CountIn"]
        /\ emitted' = IF first THEN {Event("RecordingStarted", u, 0) : u \in started}
                               ELSE {}
    BY <1>2 DEF StartRecord
  <2>2. CASE first
    <3> DEFINE ticks == {}
    <3>1. emitted' = ticks \union {Event("RecordingStarted", u, 0) : u \in started}
      BY <2>1, <2>2
    <3>2. \A u \in started : recState[u] # "Recording" /\ recState'[u] = "Recording"
      BY <2>1, <2>2
    <3>3. \A u \in Track \ started :
            (recState[u] = "Recording") <=> (recState'[u] = "Recording")
      BY <2>1
    <3>4. started \in SUBSET Track
      OBVIOUS
    <3>5. \A e \in ticks : e.kind \in Asides
      OBVIOUS
    <3> HIDE DEF started, first, ticks
    <3> QED
      BY <3>1, <3>2, <3>3, <3>4, <3>5, StartsBracket
  <2>3. CASE ~first
    <3>1. emitted' = {} /\ ((recState[t] = "Recording") <=> (recState'[t] = "Recording"))
      BY <2>1, <2>3
    <3> QED
      BY <3>1, AsidesBracket
  <2> QED
    BY <2>2, <2>3
<1>3. ASSUME emitted' = {}, recState' = recState PROVE Brackets(t)
  BY <1>3, AsidesBracket
<1>4. CASE \/ SetPlaying(c.arg = 1) \/ TogglePlay \/ StopRecord \/ ResetPosition
           \/ SetBpm(c.arg) \/ SetBeatsPerBar(c.arg) \/ SetLatencyCompensation(c.arg)
  BY <1>3, <1>4 DEF SetPlaying, TogglePlay, StopRecord, EnterStop, ResetPosition, SetBpm,
     SetBeatsPerBar, SetLatencyCompensation, SetTempo, Stay, takeVars
<1>5. CASE \/ SetTrackArmed(c.track, c.arg = 1) \/ SelectTrack(c.track)
           \/ SetTrackBars(c.track, c.arg) \/ SetTrackMode(c.track, c.arg)
  BY <1>3, <1>5 DEF SetTrackArmed, SelectTrack, SetTrackBars, SetTrackMode, SetTrack,
     Stay, takeVars
<1>6. CASE \/ CycleNextLoop(c.track) \/ CyclePrevLoop(c.track)
           \/ SwitchActiveLoop(c.track, c.arg) \/ ClearActiveLoop(c.track)
  BY <1>3, <1>6 DEF CycleNextLoop, CyclePrevLoop, SwitchActiveLoop, ChooseLoop,
     ClearActiveLoop, Stay, takeVars
<1> QED
  BY <1>1, <1>2, <1>4, <1>5, <1>6 DEF Handle

LEMMA ScanBrackets ==
    ASSUME TypeOK, ScanBlock, NEW t \in Track PROVE Brackets(t)
<1>1. \A e \in CountInTicks : e.kind \in Asides
  BY DEF CountInTicks, Event, Asides
<1>2. CASE ScanPlain
  <2>1. emitted' = CountInTicks /\ recState' = recState
    BY <1>2 DEF ScanPlain
  <2> QED
    BY <1>1, <2>1, AsidesBracket
<1>3. CASE ScanBarOne
  <2> DEFINE waiting == {u \in Track : recState[u] = "CountIn"}
  <2>1. /\ recState' = [u \in Track |-> IF recState[u] = "CountIn" THEN "Recording"
                                        ELSE recState[u]]
        /\ emitted' = CountInTicks \union
                        {Event("RecordingStarted", u, 0) : u \in waiting}
    BY <1>3 DEF ScanBarOne
  <2>2. \A u \in waiting : recState[u] # "Recording" /\ recState'[u] = "Recording"
    BY <2>1
  <2>3. \A u \in Track \ waiting :
          (recState[u] = "Recording") <=> (recState'[u] = "Recording")
    BY <2>1
  <2>4. waiting \in SUBSET Track
    OBVIOUS
  <2> HIDE DEF waiting
  <2> QED
    BY <1>1, <2>1, <2>2, <2>3, <2>4, StartsBracket
<1> QED
  BY <1>2, <1>3 DEF ScanBlock

LEMMA NextBrackets ==
    ASSUME TypeOK, Next, NEW t \in Track PROVE Brackets(t)
<1>1. ASSUME emitted' = {}, recState' = recState PROVE Brackets(t)
  BY <1>1, AsidesBracket
<1>2. CASE HandleCommand
  BY <1>2, CommandBrackets
<1>3. CASE \E u \in Track : StopTake(u) \/ AutoStop(u)
  <2>1. PICK u \in Track : recState[u] = "Recording" /\ finishRecording(u)
    BY <1>3 DEF StopTake, AutoStop, IsComplete
  <2> QED
    BY <2>1, FinishBrackets
<1>4. CASE \E u \in Track : CancelCountIn(u)
  <2>1. PICK u \in Track : /\ recState[u] = "CountIn"
                           /\ recState' = [recState EXCEPT ![u] = "Idle"]
                           /\ emitted' = {}
    BY <1>4 DEF CancelCountIn
  <2>2. (recState[t] = "Recording") <=> (recState'[t] = "Recording")
    BY <2>1 DEF TypeOK, TakesOK
  <2> QED
    BY <2>1, <2>2, AsidesBracket
<1>5. CASE StopDone \/ SkipInbox \/ TakeInbox \/ DrainDone \/ OversizedBlock \/ EndBlock
  BY <1>1, <1>5 DEF StopDone, SkipInbox, TakeInbox, DrainDone, OversizedBlock, EndBlock,
     takeVars
<1>6. CASE DrainEntry
  <2>1. \A e \in emitted' : e.kind \in Asides
    BY <1>6 DEF DrainEntry, Event, Asides
  <2>2. recState' = recState
    BY <1>6 DEF DrainEntry, takeVars
  <2> QED
    BY <2>1, <2>2, AsidesBracket
<1>7. CASE ScanBlock
  BY <1>7, ScanBrackets
<1>8. CASE \E u \in Track : \/ ConvertActiveLoop(u)
                            \/ \E a \in ActivateChoices : submitLoop(u, a)
                            \/ ConvertFails(u)
  BY <1>1, <1>8 DEF ConvertActiveLoop, submitLoop, ConvertFails, engineVars, takeVars
<1> QED
  BY <1>2, <1>3, <1>4, <1>5, <1>6, <1>7, <1>8 DEF Next

\* Every take the UI hears begin it hears end, once and with one outcome, however
\* it ends (stopped by the user, complete, rejected, merged or kept), and it hears
\* of no take that is not there (RecordingStarted, RecordingComplete and
\* BpmFitFailed, LooperEngine.cpp:81-91, 112-196, 541-549).
THEOREM EventsAreBrackets == Spec => EventsBracketTakes
<1>1. TypeOK /\ [Next]_vars => [\A t \in Track : Brackets(t)]_vars
  BY NextBrackets
<1>2. [\A t \in Track : Brackets(t)]_vars =>
        [\A t \in Track :
           /\ Cardinality(Begun(t)') =
                IF recState[t] # "Recording" /\ recState'[t] = "Recording" THEN 1 ELSE 0
           /\ Cardinality(Ended(t)') =
                IF recState[t] = "Recording" /\ recState'[t] # "Recording" THEN 1 ELSE 0
          ]_vars
  BY DEF Brackets
<1> QED
  BY <1>1, <1>2, TypeCorrect, PTL DEF Spec, EventsBracketTakes

-----------------------------------------------------------------------------
(* The loop that plays and the one the UI is shown *)

\* A track that plays a loop can be told to play none only by a SwitchActiveLoop with
\* a negative index (LooperEngine.cpp:451-457).  The UI posts none: it cycles.
NeverDeselects == \A c \in Commands : c.kind = "SwitchActiveLoop" => c.arg # NoLoop

\* What a command may do to the loops: nothing, publish one again, or choose one.
LEMMA CommandOnLoops ==
    ASSUME TypeOK, NEW c \in Commands, Handle(c)
    PROVE  \/ UNCHANGED <<loopVars, totalLen, handoffVars>>
           \/ ClearActiveLoop(c.track)
           \/ /\ c.kind \in {"CycleNextLoop", "CyclePrevLoop", "SwitchActiveLoop"}
              /\ \E ix \in MaybeIndex(c.track) :
                   /\ ChooseLoop(c.track, ix)
                   /\ NeverDeselects /\ active[c.track] # NoLoop => ix # NoLoop
<1> DEFINE t == c.track
           Chooses == \E ix \in MaybeIndex(t) :
                         /\ ChooseLoop(t, ix)
                         /\ NeverDeselects /\ active[t] # NoLoop => ix # NoLoop
<1>1. t \in Track /\ c.arg \in Nat \union {NoLoop}
  BY CommandAssumption
<1>2. loops[t] \in Seq(Shape) /\ active[t] \in MaybeIndex(t)
  BY <1>1 DEF TypeOK, LoopsOK
<1>3. CASE \/ SetPlaying(c.arg = 1) \/ TogglePlay \/ StopRecord \/ StartRecord
           \/ ResetPosition
           \/ SetBpm(c.arg) \/ SetBeatsPerBar(c.arg) \/ SetLatencyCompensation(c.arg)
  BY <1>3 DEF SetPlaying, TogglePlay, StopRecord, EnterStop, StartRecord, ResetPosition,
     SetBpm, SetBeatsPerBar, SetLatencyCompensation, SetTempo, Stay, windowVars
<1>4. CASE \/ SetTrackArmed(c.track, c.arg = 1) \/ SelectTrack(c.track)
           \/ SetTrackBars(c.track, c.arg) \/ SetTrackMode(c.track, c.arg)
  BY <1>4 DEF SetTrackArmed, SelectTrack, SetTrackBars, SetTrackMode, SetTrack, Stay,
     windowVars
<1>5. CASE c.kind = "CycleNextLoop" /\ CycleNextLoop(t)
  <2>1. CASE loops[t] = <<>>
    <3>1. ChooseLoop(t, active[t])
      BY <1>5, <2>1 DEF CycleNextLoop
    <3> QED
      BY <1>2, <1>5, <3>1
  <2>2. CASE loops[t] # <<>>
    <3> DEFINE ix == (active[t] + 1) % Len(loops[t])
    <3>1. Len(loops[t]) \in Nat \ {0} /\ active[t] + 1 \in Nat
      BY <1>2, <2>2 DEF MaybeIndex, LoopIndex, NoLoop
    <3>2. ix \in MaybeIndex(t) /\ ix # NoLoop
      BY <3>1, Remainder DEF MaybeIndex, LoopIndex, NoLoop
    <3>3. ChooseLoop(t, ix)
      BY <1>5, <2>2 DEF CycleNextLoop
    <3> HIDE DEF ix
    <3> QED
      BY <1>5, <3>2, <3>3
  <2> QED
    BY <2>1, <2>2
<1>6. CASE c.kind = "CyclePrevLoop" /\ CyclePrevLoop(t)
  <2>1. CASE Len(loops[t]) <= 1
    <3>1. ChooseLoop(t, active[t])
      BY <1>6, <2>1 DEF CyclePrevLoop
    <3> QED
      BY <1>2, <1>6, <3>1
  <2>2. CASE ~ (Len(loops[t]) <= 1)
    <3> DEFINE ix == (active[t] + Len(loops[t]) - 1) % Len(loops[t])
    <3>1. Len(loops[t]) \in Nat \ {0} /\ active[t] + Len(loops[t]) - 1 \in Nat
      BY <1>2, <2>2 DEF MaybeIndex, LoopIndex, NoLoop
    <3>2. ix \in MaybeIndex(t) /\ ix # NoLoop
      BY <3>1, Remainder DEF MaybeIndex, LoopIndex, NoLoop
    <3>3. ChooseLoop(t, ix)
      BY <1>6, <2>2 DEF CyclePrevLoop
    <3> HIDE DEF ix
    <3> QED
      BY <1>6, <3>2, <3>3
  <2> QED
    BY <2>1, <2>2
<1>7. CASE c.kind = "SwitchActiveLoop" /\ SwitchActiveLoop(t, c.arg)
  <2> DEFINE ix == IF c.arg < 0 THEN NoLoop
                   ELSE IF c.arg < Len(loops[t]) THEN c.arg ELSE active[t]
  <2>1. ix \in MaybeIndex(t)
    BY <1>1, <1>2 DEF MaybeIndex, LoopIndex, NoLoop
  <2>2. NeverDeselects /\ active[t] # NoLoop => ix # NoLoop
    BY <1>1, <1>7 DEF NeverDeselects, NoLoop
  <2>3. ChooseLoop(t, ix)
    BY <1>7 DEF SwitchActiveLoop
  <2> HIDE DEF ix
  <2> QED
    BY <1>7, <2>1, <2>2, <2>3
<1> QED
  BY <1>3, <1>4, <1>5, <1>6, <1>7 DEF Handle

\* What makes UiSeesActive inductive.  Track::appendLoop makes a loop active without
\* publishing it when its track has none, so no loop may come out of the inbox for a
\* track that plays none; and none does, because a transfer begins with the loop the
\* UI is shown and no track goes back to playing none.
Playing(q) == \A k \in 1 .. Len(q) : active[q[k].track] # NoLoop
UiInv == /\ UiSeesActive
         /\ \A t \in Track : transfers[t] # <<>> => active[t] # NoLoop
         /\ Playing(inbox) /\ Playing(draining)

LEMMA EntryTracks ==
    ASSUME TypeOK
    PROVE  /\ \A k \in 1 .. Len(inbox) : inbox[k].track \in Track
           /\ \A k \in 1 .. Len(draining) : draining[k].track \in Track
<1>1. inbox \in Seq(Entry) /\ draining \in Seq(Entry)
  BY DEF TypeOK, HandoffOK
<1>2. \A e \in Entry : e.track \in Track
  BY DEF Entry
<1> QED
  BY <1>1, <1>2

LEMMA UiInvStays ==
    ASSUME TypeOK, UiInv, UNCHANGED <<inbox, draining, transfers>>, uiLoop' = active',
           \A t \in Track : active[t] # NoLoop => active'[t] # NoLoop
    PROVE  UiInv'
<1>1. Playing(inbox)' /\ Playing(draining)'
  BY EntryTracks DEF UiInv, Playing
<1> QED
  BY <1>1 DEF UiInv, UiSeesActive

LEMMA FinishKeepsUi ==
    ASSUME TypeOK, UiInv, NEW t \in Track, finishRecording(t) PROVE UiInv'
<1>1. UNCHANGED <<inbox, draining, transfers>>
  BY DEF finishRecording, handoffVars
<1>2. uiLoop = active /\ active \in [Track -> Int] /\ Len(loops[t]) # NoLoop
  BY DEF UiInv, UiSeesActive, TypeOK, LoopsOK, NoLoop
<1>3. CASE Reject(t) \/ Merge(t)
  <2>1. active' = active /\ uiLoop' = active
    BY <1>2, <1>3 DEF Reject, Merge, loopVars
  <2> QED
    BY <1>1, <2>1, UiInvStays
<1>4. CASE KeepFirst(t) \/ KeepNext(t)
  <2>1. active' = [active EXCEPT ![t] = Len(loops[t])] /\ uiLoop' = active'
    BY <1>2, <1>4 DEF KeepFirst, KeepNext, KeepAs
  <2>2. \A u \in Track : active[u] # NoLoop => active'[u] # NoLoop
    BY <1>2, <2>1
  <2> QED
    BY <1>1, <2>1, <2>2, UiInvStays
<1> QED
  BY <1>3, <1>4 DEF finishRecording

LEMMA ChooseKeepsUi ==
    ASSUME TypeOK, UiInv, NEW t \in Track, NEW ix \in MaybeIndex(t),
           ChooseLoop(t, ix), active[t] # NoLoop => ix # NoLoop
    PROVE  UiInv'
<1>1. /\ UNCHANGED <<inbox, draining, transfers>>
      /\ active' = [active EXCEPT ![t] = ix]
      /\ uiLoop' = [uiLoop EXCEPT ![t] = ix]
  BY DEF ChooseLoop, Stay, handoffVars
<1>2. uiLoop = active /\ active \in [Track -> Int]
  BY DEF UiInv, UiSeesActive, TypeOK, LoopsOK
<1>3. \A u \in Track : active[u] # NoLoop => active'[u] # NoLoop
  BY <1>1, <1>2
<1> QED
  BY <1>1, <1>2, <1>3, UiInvStays

LEMMA DrainEntryKeepsUi == ASSUME TypeOK, UiInv, DrainEntry PROVE UiInv'
<1>1. draining # <<>> /\ draining \in Seq(Entry)
  BY DEF DrainEntry, TypeOK, HandoffOK
<1>2. PICK e \in Entry : e = Head(draining)
  BY <1>1
<1> DEFINE t == e.track
           new == Len(loops[t])
<1>3. t \in Track /\ active[t] # NoLoop
  <2>1. Head(draining) = draining[1] /\ 1 \in 1 .. Len(draining)
    BY <1>1
  <2> QED
    BY <1>2, <2>1 DEF UiInv, Playing, Entry
<1>4. /\ uiLoop = active /\ active \in [Track -> Int]
      /\ new # NoLoop
  BY <1>3 DEF UiInv, UiSeesActive, TypeOK, LoopsOK, NoLoop
<1>5. /\ draining' = Tail(draining)
      /\ UNCHANGED <<inbox, transfers>>
      /\ \/ active' = [active EXCEPT ![t] = active[t]] /\ UNCHANGED uiLoop
         \/ active' = [active EXCEPT ![t] = new] /\ uiLoop' = [uiLoop EXCEPT ![t] = new]
  BY <1>2, <1>3 DEF DrainEntry
<1> HIDE DEF t, new
<1>6. /\ uiLoop' = active'
      /\ \A u \in Track : active[u] # NoLoop => active'[u] # NoLoop
  BY <1>3, <1>4, <1>5
<1>7. Playing(draining)'
  <2> SUFFICES ASSUME NEW k \in 1 .. Len(Tail(draining))
               PROVE  active'[Tail(draining)[k].track] # NoLoop
    BY <1>5 DEF Playing
  <2>1. k + 1 \in 1 .. Len(draining) /\ Tail(draining)[k] = draining[k + 1]
    BY <1>1
  <2>2. draining[k + 1].track \in Track
    BY <2>1, EntryTracks
  <2> QED
    BY <1>6, <2>1, <2>2 DEF UiInv, Playing
<1>8. Playing(inbox)'
  BY <1>5, <1>6, EntryTracks DEF UiInv, Playing
<1> QED
  BY <1>5, <1>6, <1>7, <1>8 DEF UiInv, UiSeesActive

LEMMA TransferKeepsUi ==
    ASSUME TypeOK, UiInv, NEW t \in Track,
           \/ ConvertActiveLoop(t) \/ \E a \in ActivateChoices : submitLoop(t, a)
           \/ ConvertFails(t)
    PROVE  UiInv'
<1>1. UNCHANGED <<active, uiLoop, draining>>
  BY DEF ConvertActiveLoop, submitLoop, ConvertFails, engineVars, loopVars
<1>2. active[t] # NoLoop
  BY DEF ConvertActiveLoop, submitLoop, ConvertFails, UiInv, UiSeesActive
<1>3. \A u \in Track : u # t => transfers'[u] = transfers[u]
  BY DEF ConvertActiveLoop, submitLoop, ConvertFails, TypeOK, TransfersOK
<1>4. \A u \in Track : transfers'[u] # <<>> => active'[u] # NoLoop
  BY <1>1, <1>2, <1>3 DEF UiInv
<1>5. Playing(inbox)'
  <2>1. CASE inbox' = inbox
    BY <1>1, <2>1 DEF UiInv, Playing
  <2>2. CASE \E a \in ActivateChoices : submitLoop(t, a)
    <3>1. PICK e : inbox' = Append(inbox, e) /\ e.track = t
      BY <2>2 DEF submitLoop
    <3>2. inbox \in Seq(Entry)
      BY DEF TypeOK, HandoffOK
    <3>3. /\ Len(inbox') = Len(inbox) + 1 /\ Len(inbox) \in Nat
          /\ \A k \in 1 .. Len(inbox) : inbox'[k] = inbox[k]
          /\ inbox'[Len(inbox) + 1] = e
      BY <3>1, <3>2
    <3>4. ASSUME NEW k \in 1 .. Len(inbox') PROVE active'[inbox'[k].track] # NoLoop
      <4>1. k \in 1 .. Len(inbox) \/ k = Len(inbox) + 1
        BY <3>3
      <4> QED
        BY <1>1, <1>2, <3>1, <3>3, <4>1 DEF UiInv, Playing
    <3> QED
      BY <3>4 DEF Playing
  <2> QED
    BY <2>1, <2>2 DEF ConvertActiveLoop, ConvertFails
<1> QED
  BY <1>1, <1>4, <1>5 DEF UiInv, UiSeesActive, Playing

LEMMA NextKeepsUi ==
    ASSUME NeverDeselects, TypeOK, UiInv, [Next]_vars PROVE UiInv'
<1>0. uiLoop = active
  BY DEF UiInv, UiSeesActive
<1>1. ASSUME UNCHANGED <<uiLoop, active, inbox, draining, transfers>> PROVE UiInv'
  BY <1>0, <1>1, UiInvStays
<1>2. CASE HandleCommand
  <2>1. PICK c \in Commands : Handle(c)
    BY <1>2 DEF HandleCommand
  <2>2. c.track \in Track
    BY CommandAssumption
  <2>3. CASE UNCHANGED <<loopVars, totalLen, handoffVars>>
    BY <1>1, <2>3 DEF loopVars, handoffVars
  <2>4. CASE ClearActiveLoop(c.track)
    BY <1>0, <1>1, <2>2, <2>4 DEF ClearActiveLoop, Stay, handoffVars, TypeOK, LoopsOK
  <2>5. CASE \E ix \in MaybeIndex(c.track) :
                /\ ChooseLoop(c.track, ix)
                /\ NeverDeselects /\ active[c.track] # NoLoop => ix # NoLoop
    BY <2>2, <2>5, ChooseKeepsUi
  <2> QED
    BY <2>1, <2>3, <2>4, <2>5, CommandOnLoops
<1>3. CASE \E t \in Track : StopTake(t) \/ AutoStop(t)
  BY <1>3, FinishKeepsUi DEF StopTake, AutoStop
<1>4. CASE \/ \E t \in Track : CancelCountIn(t)
           \/ StopDone \/ SkipInbox \/ OversizedBlock \/ EndBlock
  BY <1>1, <1>4 DEF CancelCountIn, StopDone, SkipInbox, OversizedBlock, EndBlock,
     loopVars, handoffVars
<1>5. CASE TakeInbox
  <2>1. /\ draining' = inbox /\ inbox' = <<>>
        /\ UNCHANGED <<active, uiLoop, transfers>>
    BY <1>5 DEF TakeInbox, loopVars
  <2> QED
    BY <2>1 DEF UiInv, UiSeesActive, Playing
<1>6. CASE DrainEntry
  BY <1>6, DrainEntryKeepsUi
<1>7. CASE DrainDone
  BY <1>1, <1>7 DEF DrainDone, loopVars
<1>8. CASE ScanBlock
  <2>1. UNCHANGED <<inbox, draining, transfers>>
    BY <1>8 DEF ScanBlock, handoffVars
  <2>2. CASE ScanPlain
    BY <1>1, <2>1, <2>2 DEF ScanPlain, loopVars
  <2>3. CASE ScanBarOne
    <3>1. uiLoop' = active'
      BY <1>0, <2>3 DEF ScanBarOne
    <3>2. \A t \in Track : active[t] # NoLoop => active'[t] # NoLoop
      BY <2>3 DEF ScanBarOne
    <3> QED
      BY <2>1, <3>1, <3>2, UiInvStays
  <2> QED
    BY <1>8, <2>2, <2>3 DEF ScanBlock
<1>9. CASE \E t \in Track : \/ ConvertActiveLoop(t)
                            \/ \E a \in ActivateChoices : submitLoop(t, a)
                            \/ ConvertFails(t)
  BY <1>9, TransferKeepsUi
<1>10. CASE UNCHANGED vars
  BY <1>1, <1>10 DEF vars, loopVars, handoffVars
<1> QED
  BY <1>2, <1>3, <1>4, <1>5, <1>6, <1>7, <1>8, <1>9, <1>10 DEF Next

LEMMA InitUi == Init => UiInv
  BY DEF Init, UiInv, UiSeesActive, Playing

\* The handle the UI draws, measures and converts is always that of the loop the
\* track plays, at every step of the audio thread and of the transfers ("The audio
\* thread republishes this handle whenever the active loop changes",
\* LooperEngine.h:84-85; publishActiveLoopForUi, LooperEngine.cpp:249-254).
THEOREM UiIsShownWhatPlays ==
    ASSUME NeverDeselects PROVE Spec => []UiSeesActive
<1>1. TypeOK /\ UiInv /\ [Next]_vars => UiInv'
  BY NextKeepsUi
<1>2. UiInv => UiSeesActive
  BY DEF UiInv
<1> QED
  BY <1>1, <1>2, InitUi, TypeCorrect, PTL DEF Spec

-----------------------------------------------------------------------------
(* Where a swap lands *)

\* What SwapsLandOnBarOne says of a step and a track.
Lands(t) ==
    Rolling /\ active[t] # NoLoop /\ active'[t] # active[t]
      => BarOnes # {} \/ (recState[t] = "Recording" /\ recState'[t] = "Idle")

\* The commands by which the user chooses another loop, and at once.
NeverChooses ==
    \A c \in Commands :
       c.kind \notin {"CycleNextLoop", "CyclePrevLoop", "SwitchActiveLoop"}

LEMMA NextLands ==
    ASSUME NeverChooses, TypeOK, Next, NEW t \in Track PROVE Lands(t)
<1>0. active \in [Track -> Int] /\ recState \in [Track -> {"Idle", "CountIn", "Recording"}]
  BY DEF TypeOK, LoopsOK, TakesOK
<1>1. ASSUME active' = active PROVE Lands(t)
  BY <1>1 DEF Lands
<1>2. CASE HandleCommand
  <2>1. PICK c \in Commands : Handle(c)
    BY <1>2 DEF HandleCommand
  <2>2. UNCHANGED loopVars \/ ClearActiveLoop(c.track)
    BY <2>1, CommandOnLoops DEF NeverChooses
  <2> QED
    BY <1>1, <2>2 DEF ClearActiveLoop, loopVars
<1>3. CASE \E u \in Track : StopTake(u) \/ AutoStop(u)
  <2>1. PICK u \in Track : recState[u] = "Recording" /\ finishRecording(u)
    BY <1>3 DEF StopTake, AutoStop, IsComplete
  <2>2. recState' = [recState EXCEPT ![u] = "Idle"]
    BY <2>1 DEF finishRecording
  <2>3. CASE Reject(u) \/ Merge(u)
    BY <1>1, <2>3 DEF Reject, Merge, loopVars
  <2>4. CASE KeepFirst(u) \/ KeepNext(u)
    <3>1. active' = [active EXCEPT ![u] = Len(loops[u])]
      BY <2>4 DEF KeepFirst, KeepNext, KeepAs
    <3> QED
      BY <1>0, <2>1, <2>2, <3>1 DEF Lands
  <2> QED
    BY <2>1, <2>3, <2>4 DEF finishRecording
<1>4. CASE \/ \E u \in Track : CancelCountIn(u)
           \/ StopDone \/ SkipInbox \/ TakeInbox \/ DrainDone \/ OversizedBlock
           \/ EndBlock
  BY <1>1, <1>4 DEF CancelCountIn, StopDone, SkipInbox, TakeInbox, DrainDone,
     OversizedBlock, EndBlock, loopVars
<1>5. CASE DrainEntry
  <2> SUFFICES ASSUME Rolling, active[t] # NoLoop PROVE active'[t] = active[t]
    BY DEF Lands
  <2> DEFINE u == Head(draining).track
  <2>1. active' = [active EXCEPT ![u] = IF active[u] = NoLoop THEN Len(loops[u])
                                        ELSE active[u]]
    BY <1>5 DEF DrainEntry, Rolling
  <2> HIDE DEF u
  <2> QED
    BY <1>0, <2>1
<1>6. CASE ScanBlock
  BY <1>1, <1>6 DEF ScanBlock, ScanPlain, ScanBarOne, Lands, loopVars
<1>7. CASE \E u \in Track : \/ ConvertActiveLoop(u)
                            \/ \E a \in ActivateChoices : submitLoop(u, a)
                            \/ ConvertFails(u)
  BY <1>1, <1>7 DEF ConvertActiveLoop, submitLoop, ConvertFails, engineVars, loopVars
<1> QED
  BY <1>2, <1>3, <1>4, <1>5, <1>6, <1>7 DEF Next

\* Unless the user chooses a loop by hand, a track that plays goes over to another
\* loop only in a block that contains a bar one, or by keeping a take of its own
\* (the drain waits for bar one when the transport rolls, LooperEngine.cpp:300-318;
\* the switch is in handleTransportCrossings, LooperEngine.cpp:550-557).
THEOREM SwapsWaitForBarOne ==
    ASSUME NeverChooses PROVE Spec => SwapsLandOnBarOne
<1>1. TypeOK /\ [Next]_vars => [\A t \in Track : Lands(t)]_vars
  BY NextLands
<1>2. [\A t \in Track : Lands(t)]_vars =>
        [\A t \in Track :
           Rolling /\ active[t] # NoLoop /\ active'[t] # active[t]
             => BarOnes # {} \/ (recState[t] = "Recording" /\ recState'[t] = "Idle")
          ]_vars
  BY DEF Lands
<1> QED
  BY <1>1, <1>2, TypeCorrect, PTL DEF Spec, SwapsLandOnBarOne

-----------------------------------------------------------------------------
(* Takes that end on their own *)

\* What AutoStopsOnTheGrid says of a step.
OnTheGrid ==
    phase = "autostop" =>
      \A t \in Track : Len(loops'[t]) > Len(loops[t]) =>
        LengthOf(loops'[t], Len(loops[t])) = samplesForBars(bars[t], bpm, beatsPerBar)

\* The timebase is the one takes are fitted to: the UI posts neither command
\* (EngineBridge.h:29 has no caller, and there is none for the beats of a bar).
TempoIsDetected == \A c \in Commands : c.kind \notin {"SetBpm", "SetBeatsPerBar"}

\* The tempo comes from the detector, so that a bar is never shorter than a sample.
TempoInv == beatsPerBar = 4 /\ (bpm = NoTempo \/ bpm \in MinBpm .. MaxBpm)

LEMMA CommandKeepsTimebase ==
    ASSUME TempoIsDetected, NEW c \in Commands, Handle(c)
    PROVE  UNCHANGED <<bpm, beatsPerBar>>
<1>1. c.kind # "SetBpm" /\ c.kind # "SetBeatsPerBar"
  BY DEF TempoIsDetected
<1>2. beatsPerBar' = beatsPerBar
  BY <1>1 DEF Handle, SetPlaying, TogglePlay, EnterStop, StartRecord, StopRecord,
     ResetPosition, SetLatencyCompensation, SetTempo, SetTrackArmed, SelectTrack,
     SetTrackBars, SetTrackMode, SetTrack, CycleNextLoop, CyclePrevLoop,
     SwitchActiveLoop, ClearActiveLoop, ChooseLoop, tempoVars
<1> QED
  BY <1>1, <1>2, CommandKeepsTempo

LEMMA NextKeepsTimebase ==
    ASSUME TempoIsDetected, TempoInv, [Next]_vars PROVE TempoInv'
<1>1. ASSUME UNCHANGED <<bpm, beatsPerBar>> PROVE TempoInv'
  BY <1>1 DEF TempoInv
<1>2. CASE HandleCommand
  BY <1>1, <1>2, CommandKeepsTimebase DEF HandleCommand
<1>3. CASE \E t \in Track : StopTake(t) \/ AutoStop(t)
  <2>1. PICK t \in Track : finishRecording(t)
    BY <1>3 DEF StopTake, AutoStop
  <2>2. beatsPerBar' = beatsPerBar
    BY <2>1 DEF finishRecording
  <2>3. CASE Reject(t) \/ Merge(t) \/ KeepNext(t)
    BY <1>1, <2>2, <2>3 DEF Reject, Merge, KeepNext
  <2>4. CASE KeepFirst(t)
    <3>1. bpm' \in MinBpm .. MaxBpm
      BY <2>4 DEF KeepFirst, IsBestFit, Fits
    <3> QED
      BY <2>2, <3>1 DEF TempoInv
  <2> QED
    BY <2>1, <2>3, <2>4 DEF finishRecording
<1>4. CASE \/ \E t \in Track : CancelCountIn(t)
           \/ StopDone \/ SkipInbox \/ TakeInbox \/ DrainEntry \/ DrainDone
  BY <1>1, <1>4 DEF CancelCountIn, StopDone, SkipInbox, TakeInbox, DrainEntry,
     DrainDone, tempoVars
<1>5. CASE OversizedBlock \/ ScanBlock \/ EndBlock
  BY <1>1, <1>5 DEF OversizedBlock, ScanBlock, EndBlock, tempoVars
<1>6. CASE \E t \in Track : \/ ConvertActiveLoop(t)
                            \/ \E a \in ActivateChoices : submitLoop(t, a)
                            \/ ConvertFails(t)
  BY <1>1, <1>6 DEF ConvertActiveLoop, submitLoop, ConvertFails, engineVars, tempoVars
<1>7. CASE UNCHANGED vars
  BY <1>1, <1>7 DEF vars, tempoVars
<1> QED
  BY <1>2, <1>3, <1>4, <1>5, <1>6, <1>7 DEF Next

LEMMA ProductNotSmaller == ASSUME NEW k \in Nat, NEW r \in Nat \ {0} PROVE k * r >= k
  OBVIOUS

LEMMA QuotientNotZero ==
    ASSUME NEW x \in Nat, NEW y \in Nat \ {0}, x >= y PROVE x \div y \in Nat \ {0}
  OBVIOUS

\* At a tempo in the detector's range no bar count gives an empty target.
LEMMA BarsTakeTime ==
    ASSUME NEW n \in AllowedBars, NEW tempo \in MinBpm .. MaxBpm
    PROVE  samplesForBars(n, tempo, 4) \in Nat \ {0}
<1> DEFINE k == n * 4 * 6000
           a == k * SampleRate
<1>1. k \in Nat /\ k >= 24000
  BY BarsAssumption
<1>2. SampleRate \in Nat \ {0}
  BY RateAssumption
<1> HIDE DEF k
<1>3. a \in Nat /\ a >= k
  BY <1>1, <1>2, Product, ProductNotSmaller
<1> HIDE DEF a
<1>4. tempo \in Nat \ {0} /\ tempo <= 14000
  BY DEF MinBpm, MaxBpm
<1>5. 2 * a + tempo \in Nat /\ 2 * tempo \in Nat \ {0} /\ 2 * a + tempo >= 2 * tempo
  BY <1>1, <1>3, <1>4
<1>6. Rounded(a, tempo) \in Nat \ {0}
  BY <1>5, QuotientNotZero DEF Rounded
<1> QED
  BY <1>6 DEF samplesForBars, SamplesOfBeats, a, k

LEMMA NextStaysOnTheGrid ==
    ASSUME TypeOK, TempoInv, Next PROVE OnTheGrid
<1> SUFFICES ASSUME phase = "autostop", NEW t \in Track, Len(loops'[t]) > Len(loops[t])
             PROVE  LengthOf(loops'[t], Len(loops[t]))
                      = samplesForBars(bars[t], bpm, beatsPerBar)
  BY DEF OnTheGrid
<1>1. loops \in [Track -> Seq(Shape)] /\ written \in [Track -> 0 .. maxRecordingSamples]
      /\ comp \in Nat /\ bars \in [Track -> AllowedBars]
  BY DEF TypeOK, LoopsOK, TakesOK, TransportOK, SettingsOK
<1>2. loops' # loops
  BY <1>1
<1>3. PICK u \in Track : AutoStop(u)
  <2>1. ~ (HandleCommand \/ StopDone \/ SkipInbox \/ TakeInbox \/ DrainEntry \/ DrainDone
             \/ OversizedBlock \/ ScanBlock)
    BY DEF HandleCommand, StopDone, SkipInbox, TakeInbox, DrainEntry, DrainDone,
       OversizedBlock, ScanBlock
  <2>2. \A v \in Track : ~ (StopTake(v) \/ CancelCountIn(v))
    BY DEF StopTake, CancelCountIn, IsNextToStop
  <2>3. ~EndBlock
    BY <1>2 DEF EndBlock, loopVars
  <2>4. \A v \in Track : ~ ( \/ ConvertActiveLoop(v)
                             \/ \E a \in ActivateChoices : submitLoop(v, a)
                             \/ ConvertFails(v) )
    BY <1>2 DEF ConvertActiveLoop, submitLoop, ConvertFails, engineVars, loopVars
  <2> QED
    BY <2>1, <2>2, <2>3, <2>4 DEF Next
<1>4. Target(u) # 0 /\ written[u] >= Target(u) /\ finishRecording(u)
  BY <1>3 DEF AutoStop, IsComplete
<1>5. CASE Reject(u) \/ Merge(u)
  BY <1>2, <1>5 DEF Reject, Merge, loopVars
<1>6. CASE KeepFirst(u)
  BY <1>4, <1>6 DEF KeepFirst, Target
<1>7. CASE KeepNext(u)
  <2> DEFINE whole == samplesForBars(bars[u], bpm, beatsPerBar)
             lp == [bars |-> bars[u], len |-> CutLength(bars[u], bpm, Captured(u))]
  <2>1. bpm # NoTempo /\ mode[u] = "New"
        /\ loops' = [loops EXCEPT ![u] = Append(@, lp)]
    BY <1>7 DEF KeepNext, KeepAs
  <2>2. whole \in Nat \ {0}
    BY <1>1, <2>1, BarsTakeTime DEF TempoInv
  <2>3. written[u] >= whole + comp
    BY <1>4, <2>1 DEF Target
  <2>4. lp.len = whole
    <3> HIDE DEF whole
    <3>1. written[u] \in Int /\ ~ (whole > written[u] - comp)
      BY <1>1, <2>2, <2>3, CapacityIsNatural
    <3>2. CutLength(bars[u], bpm, Captured(u)) = whole
      BY <2>2, <3>1 DEF CutLength, Captured, whole
    <3> QED
      BY <3>2
  <2> HIDE DEF lp, whole
  <2>5. t = u /\ loops'[u] = Append(loops[u], lp) /\ loops[u] \in Seq(Shape)
    BY <1>1, <2>1
  <2>6. Len(loops[u]) # NoLoop /\ LoopAt(loops'[u], Len(loops[u])) = lp
    BY <2>5 DEF LoopAt, NoLoop
  <2> QED
    BY <2>4, <2>5, <2>6 DEF LengthOf, whole
<1> QED
  BY <1>4, <1>5, <1>6, <1>7 DEF finishRecording

LEMMA TempoInvHolds == ASSUME TempoIsDetected PROVE Spec => []TempoInv
<1>1. Init => TempoInv
  BY DEF Init, TempoInv
<1>2. TempoInv /\ [Next]_vars => TempoInv'
  BY NextKeepsTimebase
<1> QED
  BY <1>1, <1>2, PTL DEF Spec

\* A take that the engine stops is exactly as long as its track's bars at the
\* session's tempo, whatever the compensation cuts from its start and however many
\* samples of the last block come after its end (recordingTargetSamples and
\* finishRecording, LooperEngine.cpp:181-187, 198-221).
THEOREM AutoStopsAreWhole ==
    ASSUME TempoIsDetected PROVE Spec => AutoStopsOnTheGrid
<1>1. TypeOK /\ TempoInv /\ [Next]_vars => [OnTheGrid]_vars
  BY NextStaysOnTheGrid
<1>2. [OnTheGrid]_vars =>
        [phase = "autostop" =>
           \A t \in Track : Len(loops'[t]) > Len(loops[t]) =>
             LengthOf(loops'[t], Len(loops[t])) = samplesForBars(bars[t], bpm, beatsPerBar)
          ]_vars
  BY DEF OnTheGrid
<1> QED
  BY <1>1, <1>2, TypeCorrect, TempoInvHolds, PTL DEF Spec, AutoStopsOnTheGrid

-----------------------------------------------------------------------------
(* The window and the longest loop *)

\* WindowFitsLongest without its exemption of the drain, and what makes it inductive:
\* the drain changes the window once, at its end, and remembers that it must.
WindowFits == \E t \in Track : /\ IsLongest(t, loops, active)
                               /\ totalLen = LengthOf(loops[t], active[t])
WindowInv == /\ immediate => phase = "draining"
             /\ ~immediate => WindowFits

\* The one step that does not look after the window: a pending loop of another
\* length than the one it takes over from begins to play at bar one
\* (LooperEngine.cpp:550-557; the run WindowAfterConvert).
SwitchAtBarOne ==
    /\ ScanBlock /\ BarOnes # {}
    /\ \E t \in Track : /\ pending[t] # NoLoop
                        /\ LengthOf(loops[t], pending[t]) # LengthOf(loops[t], active[t])

LEMMA SameLengthsFit ==
    ASSUME WindowFits, totalLen' = totalLen,
           \A t \in Track : LengthOf(loops'[t], active'[t]) = LengthOf(loops[t], active[t])
    PROVE  WindowFits'
  BY DEF WindowFits, IsLongest

LEMMA NewLengthFits ==
    ASSUME NEW ls, NEW ac, SetLength(ls, ac), loops' = ls, active' = ac
    PROVE  WindowFits'
  BY DEF SetLength, WindowFits, IsLongest

LEMMA FinishKeepsWindow ==
    ASSUME WindowInv, NEW t \in Track, finishRecording(t), phase # "draining"
    PROVE  WindowFits' /\ immediate' = immediate /\ ~immediate
<1>1. immediate' = immediate /\ ~immediate /\ WindowFits
  BY DEF finishRecording, handoffVars, WindowInv
<1>2. CASE Reject(t) \/ Merge(t)
  BY <1>1, <1>2, SameLengthsFit DEF Reject, Merge, windowVars, loopVars
<1>3. CASE KeepFirst(t) \/ KeepNext(t)
  <2>1. PICK b, tempo : KeepAs(t, b, tempo)
    BY <1>3 DEF KeepFirst, KeepNext
  <2>2. PICK ls, ac : SetLength(ls, ac) /\ loops' = ls /\ active' = ac
    BY <2>1 DEF KeepAs
  <2> QED
    BY <1>1, <2>2, NewLengthFits
<1> QED
  BY <1>1, <1>2, <1>3 DEF finishRecording

LEMMA DrainEntryKeepsWindow ==
    ASSUME TypeOK, UiInv, WindowInv, DrainEntry PROVE WindowInv'
<1>1. phase = "draining" /\ phase' = "draining" /\ totalLen' = totalLen
  BY DEF DrainEntry, controlVars, windowVars
<1>2. CASE immediate'
  BY <1>1, <1>2 DEF WindowInv
<1>3. CASE ~immediate'
  <2>1. draining # <<>> /\ draining \in Seq(Entry)
    BY DEF DrainEntry, TypeOK, HandoffOK
  <2>2. PICK e \in Entry : e = Head(draining)
    BY <2>1
  <2> DEFINE t == e.track
  <2>3. t \in Track /\ active[t] # NoLoop
    <3>1. Head(draining) = draining[1] /\ 1 \in 1 .. Len(draining)
      BY <2>1
    <3> QED
      BY <2>2, <3>1 DEF UiInv, Playing, Entry
  <2>4. /\ loops' = [loops EXCEPT ![t] = Append(@, e.loop)]
        /\ active' = [active EXCEPT ![t] = active[t]]
        /\ ~immediate
    BY <1>3, <2>2, <2>3 DEF DrainEntry
  <2>5. /\ loops \in [Track -> Seq(Shape)] /\ active \in [Track -> Int]
        /\ \A u \in Track : active[u] \in MaybeIndex(u)
    BY DEF TypeOK, LoopsOK
  <2> HIDE DEF t
  <2>6. ASSUME NEW u \in Track
        PROVE  LengthOf(loops'[u], active'[u]) = LengthOf(loops[u], active[u])
    <3>1. active'[u] = active[u]
      BY <2>4, <2>5
    <3>2. CASE u # t
      BY <2>4, <2>5, <3>1, <3>2
    <3>3. CASE u = t
      <4>1. loops'[t] = Append(loops[t], e.loop) /\ loops[t] \in Seq(Shape)
        BY <2>3, <2>4, <2>5
      <4>2. active[t] + 1 \in 1 .. Len(loops[t])
        BY <2>3, <2>5 DEF MaybeIndex, LoopIndex
      <4>3. loops'[t][active[t] + 1] = loops[t][active[t] + 1]
        BY <4>1, <4>2
      <4> QED
        BY <3>1, <3>3, <4>3 DEF LengthOf, LoopAt
    <3> QED
      BY <3>2, <3>3
  <2>7. WindowFits
    BY <2>4 DEF WindowInv
  <2> QED
    BY <1>1, <1>3, <2>6, <2>7, SameLengthsFit DEF WindowInv
<1> QED
  BY <1>2, <1>3

LEMMA NextKeepsWindow ==
    ASSUME TypeOK, UiInv, WindowInv, [Next]_vars, ~SwitchAtBarOne PROVE WindowInv'
<1>1. ASSUME UNCHANGED <<loops, active, totalLen, immediate>>, phase' # "draining" => ~immediate
      PROVE  WindowInv'
  BY <1>1, SameLengthsFit DEF WindowInv
<1>2. CASE HandleCommand
  <2>1. PICK c \in Commands : phase = "commands" /\ Handle(c)
    BY <1>2 DEF HandleCommand
  <2>2. ~immediate
    BY <2>1 DEF WindowInv
  <2>3. CASE UNCHANGED <<loopVars, totalLen, handoffVars>>
    BY <1>1, <2>2, <2>3 DEF loopVars, handoffVars
  <2>4. CASE ClearActiveLoop(c.track)
    BY <1>1, <2>2, <2>4 DEF ClearActiveLoop, Stay, handoffVars, windowVars
  <2>5. CASE \E ix \in MaybeIndex(c.track) : ChooseLoop(c.track, ix)
    <3>1. PICK ac : SetLength(loops, ac) /\ active' = ac
      BY <2>5 DEF ChooseLoop, SetWindow
    <3>2. loops' = loops /\ immediate' = immediate
      BY <2>5 DEF ChooseLoop, Stay, handoffVars
    <3> QED
      BY <2>2, <3>1, <3>2, NewLengthFits DEF WindowInv
  <2> QED
    BY <2>1, <2>3, <2>4, <2>5, CommandOnLoops
<1>3. CASE \E t \in Track : StopTake(t) \/ AutoStop(t)
  <2>1. PICK t \in Track : finishRecording(t) /\ phase # "draining"
    BY <1>3 DEF StopTake, AutoStop, IsNextToStop
  <2> QED
    BY <2>1, FinishKeepsWindow DEF WindowInv
<1>4. CASE \/ \E t \in Track : CancelCountIn(t)
           \/ StopDone \/ SkipInbox \/ TakeInbox
  <2>1. phase # "draining"
    BY <1>4 DEF CancelCountIn, IsNextToStop, StopDone, SkipInbox, TakeInbox
  <2>2. UNCHANGED <<loops, active, totalLen, immediate>>
    BY <1>4 DEF CancelCountIn, StopDone, SkipInbox, TakeInbox, loopVars, windowVars,
       handoffVars
  <2> QED
    BY <1>1, <2>1, <2>2 DEF WindowInv
<1>5. CASE OversizedBlock \/ EndBlock
  <2>1. phase # "draining"
    BY <1>5 DEF OversizedBlock, EndBlock
  <2>2. UNCHANGED <<loops, active, totalLen, immediate>>
    BY <1>5 DEF OversizedBlock, EndBlock, loopVars, windowVars, handoffVars
  <2> QED
    BY <1>1, <2>1, <2>2 DEF WindowInv
<1>6. CASE DrainEntry
  BY <1>6, DrainEntryKeepsWindow
<1>7. CASE DrainDone
  <2>1. immediate' = FALSE /\ UNCHANGED <<loops, active>>
    BY <1>7 DEF DrainDone, loopVars
  <2>2. CASE immediate
    <3>1. SetLength(loops, active)
      BY <1>7, <2>2 DEF DrainDone, SetWindow
    <3> QED
      BY <2>1, <3>1, NewLengthFits DEF WindowInv
  <2>3. CASE ~immediate
    <3>1. totalLen' = totalLen
      BY <1>7, <2>3 DEF DrainDone, windowVars
    <3> QED
      BY <2>1, <2>3, <3>1, SameLengthsFit DEF WindowInv
  <2> QED
    BY <2>2, <2>3
<1>8. CASE ScanBlock
  <2>1. /\ phase = "crossing"
        /\ UNCHANGED <<totalLen, immediate>>
    BY <1>8 DEF ScanBlock, windowVars, handoffVars
  <2>2. ~immediate /\ WindowFits
    BY <2>1 DEF WindowInv
  <2>3. CASE ScanPlain
    BY <1>1, <2>1, <2>2, <2>3 DEF ScanPlain, loopVars
  <2>4. CASE ScanBarOne
    <3>1. /\ loops' = loops /\ BarOnes # {}
          /\ active' = [t \in Track |-> IF pending[t] = NoLoop THEN active[t]
                                        ELSE pending[t]]
      BY <2>4 DEF ScanBarOne
    <3>2. \A t \in Track : pending[t] # NoLoop =>
             LengthOf(loops[t], pending[t]) = LengthOf(loops[t], active[t])
      BY <1>8, <3>1 DEF SwitchAtBarOne
    <3>3. \A t \in Track :
             LengthOf(loops'[t], active'[t]) = LengthOf(loops[t], active[t])
      BY <3>1, <3>2
    <3> QED
      BY <2>1, <2>2, <3>3, SameLengthsFit DEF WindowInv
  <2> QED
    BY <1>8, <2>3, <2>4 DEF ScanBlock
<1>9. CASE \E t \in Track : \/ ConvertActiveLoop(t)
                            \/ \E a \in ActivateChoices : submitLoop(t, a)
                            \/ ConvertFails(t)
  <2>1. UNCHANGED <<loops, active, totalLen, immediate, phase>>
    BY <1>9 DEF ConvertActiveLoop, submitLoop, ConvertFails, engineVars, loopVars,
       windowVars, controlVars
  <2> QED
    BY <1>1, <2>1 DEF WindowInv
<1>10. CASE UNCHANGED vars
  <2>1. UNCHANGED <<loops, active, totalLen, immediate, phase>>
    BY <1>10 DEF vars, loopVars, windowVars, handoffVars, controlVars
  <2> QED
    BY <1>1, <2>1 DEF WindowInv
<1> QED
  BY <1>2, <1>3, <1>4, <1>5, <1>6, <1>7, <1>8, <1>9, <1>10 DEF Next

LEMMA InitWindow == Init => WindowInv
<1> SUFFICES ASSUME Init PROVE WindowInv
  OBVIOUS
<1>1. 0 \in Track /\ \A u \in Track : 0 <= u
  BY EngineAssumption DEF Track
<1>2. \A u \in Track : LengthOf(loops[u], active[u]) = 0
  BY DEF Init, LengthOf
<1>3. IsLongest(0, loops, active) /\ totalLen = LengthOf(loops[0], active[0])
  BY <1>1, <1>2 DEF Init, IsLongest
<1> QED
  BY <1>1, <1>3 DEF Init, WindowInv, WindowFits

\* Every step that changes which loops play, or adds one, leaves the window as long as
\* the longest loop that plays, except the one that the run WindowAfterConvert shows
\* to break it: so a behaviour without that step never has a wrong window
\* (updateTransportLength is called by addLoop's and setActiveLoopIx's callers,
\* LooperEngine.cpp:188, 317, 425-455, and not by handleTransportCrossings).
THEOREM WindowFitsUntilSwitch ==
    ASSUME NeverDeselects
    PROVE  Spec /\ [][~SwitchAtBarOne]_vars => []WindowFitsLongest
<1>1. TypeOK /\ UiInv /\ [Next]_vars => UiInv'
  BY NextKeepsUi
<1>2. TypeOK /\ UiInv /\ WindowInv /\ [Next]_vars /\ [~SwitchAtBarOne]_vars => WindowInv'
  <2> SUFFICES ASSUME TypeOK, UiInv, WindowInv, [Next]_vars, [~SwitchAtBarOne]_vars
               PROVE  WindowInv'
    OBVIOUS
  <2>1. CASE ~SwitchAtBarOne
    BY <2>1, NextKeepsWindow
  <2>2. CASE UNCHANGED vars
    <3>1. ~SwitchAtBarOne
      BY <2>2 DEF SwitchAtBarOne, ScanBlock, vars, controlVars
    <3> QED
      BY <3>1, NextKeepsWindow
  <2> QED
    BY <2>1, <2>2
<1>3. WindowInv => WindowFitsLongest
  BY DEF WindowInv, WindowFits, WindowFitsLongest
<1> QED
  BY <1>1, <1>2, <1>3, InitUi, InitWindow, TypeCorrect, PTL DEF Spec

-----------------------------------------------------------------------------
(* Takes in phase with the window *)

LEMMA DivMod ==
    ASSUME NEW x \in Int, NEW n \in Nat \ {0}
    PROVE  x = (x \div n) * n + (x % n) /\ x \div n \in Int
  OBVIOUS

LEMMA MultipleHasNoRest ==
    ASSUME NEW n \in Nat \ {0}, NEW q \in Int PROVE (q * n) % n = 0
  OBVIOUS

LEMMA Multiples ==
    ASSUME NEW n \in Nat, NEW q \in Int, NEW p \in Int
    PROVE  (q + p) * n = q * n + p * n /\ (-q) * n = - (q * n)
  OBVIOUS

\* The take has w samples, the transport has come to p in a window of n.
InPhase(w, p, n) == \E q \in Int : w - p = q * n

LEMMA InPhaseIsNoRest ==
    ASSUME NEW w \in Int, NEW p \in Int, NEW n \in Nat \ {0}, InPhase(w, p, n)
    PROVE  (w - p) % n = 0
  BY MultipleHasNoRest DEF InPhase

\* Going round the window keeps the phase.
LEMMA PhaseRound ==
    ASSUME NEW w \in Int, NEW p \in Int, NEW n \in Nat \ {0}, InPhase(w, p, n)
    PROVE  InPhase(w, p % n, n)
<1>1. PICK q \in Int : w - p = q * n
  BY DEF InPhase
<1> DEFINE d == p \div n
           r == p % n
<1>2. p = d * n + r /\ d \in Int /\ r \in Int
  BY DivMod
<1> HIDE DEF d, r
<1>3. d * n \in Int /\ q * n \in Int
  BY <1>2
<1>4. w - r = q * n + d * n
  BY <1>1, <1>2, <1>3
<1>5. w - r = (q + d) * n /\ q + d \in Int
  BY <1>2, <1>4, Multiples
<1> QED
  BY <1>5 DEF InPhase, r

\* Where the transport will be at the end of what has been captured.
Reached == IF phase = "autostop" THEN position + BlockSize ELSE position

TakePhase(t) ==
    totalLen > 0 /\ recState[t] = "Recording" /\ written[t] < maxRecordingSamples
      => InPhase(written[t], Reached, totalLen)

\* A session without a tempo has no loops, so that a take that begins without a
\* count-in begins without a window.
NoTempoInv ==
    bpm = NoTempo => /\ totalLen = 0 /\ inbox = <<>> /\ draining = <<>>
                     /\ \A t \in Track : loops[t] = <<>> /\ transfers[t] = <<>>

NeverSetsTempo == \A c \in Commands : c.kind # "SetBpm"

\* Something other than the passing of time moves the transport or changes the window
\* while a track goes on recording: another track keeps its take, or the user chooses a
\* loop or rewinds (LooperEngine.cpp:188-189, 421-457; the run TwoTakes).
MovesUnderATake ==
    /\ \E t \in Track : recState[t] = "Recording" /\ recState'[t] = "Recording"
    /\ ~EndBlock
    /\ totalLen' # totalLen \/ position' # position

\* Without loops there is no window.
LEMMA NoLoopsNoWindow ==
    ASSUME NEW ac, \A t \in Track : loops[t] = <<>> /\ ac[t] \in MaybeIndex(t),
           SetLength(loops, ac)
    PROVE  totalLen' = 0
<1>1. \A t \in Track : ac[t] = NoLoop
  BY DEF MaybeIndex, LoopIndex
<1> QED
  BY <1>1 DEF SetLength, LengthOf

LEMMA NextKeepsNoTempo ==
    ASSUME NeverSetsTempo, TypeOK, NoTempoInv, [Next]_vars PROVE NoTempoInv'
<1>0. \A t \in Track : /\ active[t] \in MaybeIndex(t) /\ uiLoop[t] \in MaybeIndex(t)
                       /\ loops[t] = <<>> => uiLoop[t] = NoLoop
  BY DEF TypeOK, LoopsOK, MaybeIndex, LoopIndex
<1>1. ASSUME UNCHANGED <<bpm, totalLen, inbox, draining, loops, transfers>>
      PROVE  NoTempoInv'
  BY <1>1 DEF NoTempoInv
<1>2. ASSUME bpm # NoTempo, bpm' = bpm PROVE NoTempoInv'
  BY <1>2 DEF NoTempoInv
<1>3. CASE HandleCommand
  <2>1. PICK c \in Commands : Handle(c)
    BY <1>3 DEF HandleCommand
  <2>2. bpm' = bpm /\ c.track \in Track
    BY <2>1, CommandKeepsTempo, CommandAssumption DEF NeverSetsTempo
  <2>3. CASE UNCHANGED <<loopVars, totalLen, handoffVars>>
    BY <1>1, <2>2, <2>3 DEF loopVars, handoffVars
  <2>4. CASE ClearActiveLoop(c.track)
    BY <1>1, <2>2, <2>4 DEF ClearActiveLoop, Stay, windowVars, handoffVars
  <2>5. CASE \E ix \in MaybeIndex(c.track) : ChooseLoop(c.track, ix)
    <3>1. PICK ix \in MaybeIndex(c.track) : ChooseLoop(c.track, ix)
      BY <2>5
    <3> DEFINE ac == [active EXCEPT ![c.track] = ix]
    <3>2. /\ SetLength(loops, ac)
          /\ UNCHANGED <<loops, inbox, draining, transfers>>
      BY <3>1 DEF ChooseLoop, SetWindow, Stay, handoffVars
    <3>3. \A t \in Track : ac[t] \in MaybeIndex(t)
      BY <1>0, <2>2 DEF TypeOK, LoopsOK
    <3> HIDE DEF ac
    <3>4. CASE bpm = NoTempo
      <4>1. \A t \in Track : loops[t] = <<>>
        BY <3>4 DEF NoTempoInv
      <4>2. totalLen' = 0
        BY <3>2, <3>3, <4>1, NoLoopsNoWindow
      <4> QED
        BY <2>2, <3>2, <4>2 DEF NoTempoInv
    <3> QED
      BY <1>2, <2>2, <3>4
  <2> QED
    BY <2>1, <2>3, <2>4, <2>5, CommandOnLoops
<1>4. CASE \E t \in Track : StopTake(t) \/ AutoStop(t)
  <2>1. PICK t \in Track : finishRecording(t)
    BY <1>4 DEF StopTake, AutoStop
  <2>2. UNCHANGED <<inbox, draining, transfers>>
    BY <2>1 DEF finishRecording, handoffVars
  <2>3. CASE Reject(t) \/ Merge(t)
    BY <1>1, <2>2, <2>3 DEF Reject, Merge, loopVars, windowVars
  <2>4. CASE KeepFirst(t)
    <3>1. bpm' # NoTempo
      BY <2>4, FitIsATempo DEF KeepFirst, NoTempo
    <3> QED
      BY <3>1 DEF NoTempoInv
  <2>5. CASE KeepNext(t)
    BY <1>2, <2>5 DEF KeepNext
  <2> QED
    BY <2>1, <2>3, <2>4, <2>5 DEF finishRecording
<1>5. CASE \/ \E t \in Track : CancelCountIn(t)
           \/ StopDone \/ SkipInbox \/ OversizedBlock \/ EndBlock
  BY <1>1, <1>5 DEF CancelCountIn, StopDone, SkipInbox, OversizedBlock, EndBlock,
     tempoVars, windowVars, loopVars, handoffVars
<1>6. CASE TakeInbox
  BY <1>2, <1>6 DEF TakeInbox, tempoVars, NoTempoInv
<1>7. CASE DrainEntry
  BY <1>2, <1>7 DEF DrainEntry, tempoVars, NoTempoInv
<1>8. CASE DrainDone
  <2>1. UNCHANGED <<bpm, inbox, draining, loops, transfers>>
    BY <1>8 DEF DrainDone, tempoVars, loopVars
  <2>2. CASE immediate /\ bpm = NoTempo
    <3>1. SetLength(loops, active) /\ \A t \in Track : loops[t] = <<>>
      BY <1>8, <2>2 DEF DrainDone, SetWindow, NoTempoInv
    <3>2. totalLen' = 0
      BY <1>0, <3>1, NoLoopsNoWindow
    <3> QED
      BY <2>1, <3>2 DEF NoTempoInv
  <2>3. CASE ~immediate
    BY <1>1, <1>8, <2>1, <2>3 DEF DrainDone, windowVars
  <2> QED
    BY <1>2, <2>1, <2>2, <2>3
<1>9. CASE ScanBlock
  BY <1>1, <1>9 DEF ScanBlock, ScanPlain, ScanBarOne, tempoVars, windowVars, loopVars,
     handoffVars
<1>10. CASE \E t \in Track : \/ ConvertActiveLoop(t)
                             \/ \E a \in ActivateChoices : submitLoop(t, a)
                             \/ ConvertFails(t)
  <2>1. bpm' = bpm
    BY <1>10 DEF ConvertActiveLoop, submitLoop, ConvertFails, engineVars, tempoVars
  <2>2. bpm # NoTempo
    BY <1>0, <1>10 DEF ConvertActiveLoop, submitLoop, ConvertFails, NoTempoInv
  <2> QED
    BY <1>2, <2>1, <2>2
<1>11. CASE UNCHANGED vars
  BY <1>1, <1>11 DEF vars, tempoVars, windowVars, loopVars, handoffVars
<1> QED
  BY <1>3, <1>4, <1>5, <1>6, <1>7, <1>8, <1>9, <1>10, <1>11 DEF Next

\* The commands, the stop and the drain capture nothing, and only StartRecord and the
\* end of a take change a record state.
LEMMA CommandOnTakes ==
    ASSUME NEW c \in Commands, Handle(c)
    PROVE  /\ StartRecord \/ UNCHANGED takeVars
           /\ phase' \in {phase, "stopping"}
<1>1. CASE \/ SetPlaying(c.arg = 1) \/ TogglePlay \/ StopRecord \/ ResetPosition
           \/ SetBpm(c.arg) \/ SetBeatsPerBar(c.arg) \/ SetLatencyCompensation(c.arg)
  BY <1>1 DEF SetPlaying, TogglePlay, StopRecord, EnterStop, ResetPosition, SetBpm,
     SetBeatsPerBar, SetLatencyCompensation, SetTempo, Stay, controlVars
<1>2. CASE StartRecord
  BY <1>2 DEF StartRecord, controlVars
<1>3. CASE \/ SetTrackArmed(c.track, c.arg = 1) \/ SelectTrack(c.track)
           \/ SetTrackBars(c.track, c.arg) \/ SetTrackMode(c.track, c.arg)
  BY <1>3 DEF SetTrackArmed, SelectTrack, SetTrackBars, SetTrackMode, SetTrack, Stay,
     controlVars
<1>4. CASE \/ CycleNextLoop(c.track) \/ CyclePrevLoop(c.track)
           \/ SwitchActiveLoop(c.track, c.arg) \/ ClearActiveLoop(c.track)
  BY <1>4 DEF CycleNextLoop, CyclePrevLoop, SwitchActiveLoop, ClearActiveLoop,
     ChooseLoop, Stay, controlVars
<1> QED
  BY <1>1, <1>2, <1>3, <1>4 DEF Handle

\* A block adds as many samples to a take as the transport goes on by.
LEMMA ScanKeepsPhase ==
    ASSUME HasInput, TypeOK, NEW t \in Track, TakePhase(t), ScanBlock PROVE TakePhase(t)'
<1> SUFFICES ASSUME totalLen' > 0, recState'[t] = "Recording",
                    written'[t] < maxRecordingSamples
             PROVE  InPhase(written'[t], position + BlockSize, totalLen)
  <2>1. /\ phase' = "autostop" /\ totalLen' = totalLen /\ position' = position
    BY DEF ScanBlock, windowVars
  <2> QED
    BY <2>1 DEF TakePhase, Reached, maxRecordingSamples
<1>1. phase = "crossing" /\ totalLen' = totalLen /\ (ScanPlain \/ ScanBarOne)
  BY DEF ScanBlock, windowVars
<1>2. /\ totalLen \in Nat \ {0} /\ position \in Nat /\ BlockSize \in Nat
      /\ written \in [Track -> 0 .. maxRecordingSamples]
      /\ maxRecordingSamples \in Nat
  BY <1>1, EngineAssumption, CapacityIsNatural DEF TypeOK, TransportOK, TakesOK
<1>3. CASE recState[t] = "Recording"
  <2>1. written'[t] = AppendTo(written[t], BlockSize)
    BY <1>1, <1>3 DEF ScanPlain, ScanBarOne
  <2>2. written'[t] = written[t] + BlockSize /\ written[t] < maxRecordingSamples
    BY <1>2, <2>1 DEF AppendTo, Smaller
  <2>3. InPhase(written[t], position, totalLen)
    BY <1>1, <1>3, <2>2 DEF TakePhase, Reached
  <2>4. written'[t] - (position + BlockSize) = written[t] - position
    BY <1>2, <2>2
  <2> QED
    BY <2>3, <2>4 DEF InPhase
<1>4. CASE recState[t] = "CountIn"
  <2>1. ScanBarOne
    BY <1>1, <1>4 DEF ScanPlain
  <2>2. PICK first \in BarOnes : written'[t] = AppendTo(0, BlockSize - first)
    BY <1>4, <2>1 DEF ScanBarOne
  <2>3. first \in Nat /\ first < BlockSize /\ AbsAt(first) = 0
    BY <1>2, <2>2 DEF BarOnes
  <2>4. written'[t] = BlockSize - first
    BY <1>2, <2>2, <2>3 DEF AppendTo, Smaller
  <2> DEFINE d == (position + first) \div totalLen
  <2>5. position + first = d * totalLen /\ d \in Int
    <3>1. position + first = d * totalLen + ((position + first) % totalLen) /\ d \in Int
      BY <1>2, <2>3, DivMod
    <3>2. (position + first) % totalLen = 0
      BY <2>3 DEF AbsAt
    <3> HIDE DEF d
    <3>3. d * totalLen \in Int
      BY <1>2, <3>1
    <3> QED
      BY <3>1, <3>2, <3>3
  <2> HIDE DEF d
  <2>6. written'[t] - (position + BlockSize) = - (position + first)
    BY <1>2, <2>3, <2>4
  <2>7. written'[t] - (position + BlockSize) = (-d) * totalLen /\ -d \in Int
    BY <1>2, <2>5, <2>6, Multiples
  <2> QED
    BY <2>7 DEF InPhase
<1>5. CASE recState[t] \notin {"Recording", "CountIn"}
  BY <1>1, <1>5 DEF ScanPlain, ScanBarOne
<1> QED
  BY <1>3, <1>4, <1>5

LEMMA EndBlockKeepsPhase ==
    ASSUME TypeOK, TakesInv, NEW t \in Track, TakePhase(t), EndBlock PROVE TakePhase(t)'
<1>1. /\ phase = "autostop" /\ phase' = "commands"
      /\ position' = IF Rolling THEN AbsAt(BlockSize) ELSE position
      /\ UNCHANGED <<takeVars, totalLen>>
  BY DEF EndBlock
<1> SUFFICES ASSUME totalLen > 0, recState[t] = "Recording",
                    written[t] < maxRecordingSamples
             PROVE  InPhase(written[t], position', totalLen)
  BY <1>1 DEF TakePhase, Reached, takeVars, maxRecordingSamples
<1>2. playing
  BY DEF TakesInv, TakesNeedTransport
<1>3. position' = (position + BlockSize) % totalLen
  BY <1>1, <1>2 DEF Rolling, AbsAt
<1>4. /\ totalLen \in Nat \ {0} /\ position + BlockSize \in Int
      /\ written[t] \in Int
  BY EngineAssumption, CapacityIsNatural DEF TypeOK, TransportOK, TakesOK
<1>5. InPhase(written[t], position + BlockSize, totalLen)
  BY <1>1 DEF TakePhase, Reached
<1> QED
  BY <1>3, <1>4, <1>5, PhaseRound

LEMMA NextKeepsPhase ==
    ASSUME HasInput, TypeOK, TakesInv, NoTempoInv, NEW t \in Track, TakePhase(t), Next,
           ~MovesUnderATake
    PROVE  TakePhase(t)'
<1>1. ASSUME recState[t] = "Recording", written'[t] = written[t], ~EndBlock,
             phase' = phase \/ (phase # "autostop" /\ phase' # "autostop")
      PROVE  TakePhase(t)'
  <2>1. CASE recState'[t] = "Recording"
    <3>1. totalLen' = totalLen /\ position' = position
      BY <1>1, <2>1 DEF MovesUnderATake
    <3> QED
      BY <1>1, <3>1 DEF TakePhase, Reached, maxRecordingSamples
  <2>2. CASE recState'[t] # "Recording"
    BY <2>2 DEF TakePhase
  <2> QED
    BY <2>1, <2>2
<1>2. ASSUME recState'[t] # "Recording" PROVE TakePhase(t)'
  BY <1>2 DEF TakePhase
<1>3. ASSUME UNCHANGED takeVars, ~EndBlock,
             phase' = phase \/ (phase # "autostop" /\ phase' # "autostop")
      PROVE  TakePhase(t)'
  BY <1>1, <1>2, <1>3 DEF takeVars
<1>4. CASE HandleCommand
  <2>1. PICK c \in Commands : phase = "commands" /\ Handle(c)
    BY <1>4 DEF HandleCommand
  <2>2. /\ StartRecord \/ UNCHANGED takeVars
        /\ phase' \in {"commands", "stopping"}
    BY <2>1, CommandOnTakes
  <2>3. ~EndBlock
    BY <2>1 DEF EndBlock
  <2>4. CASE StartRecord
    <3>1. CASE recState[t] = "Recording"
      <4>1. written'[t] = written[t]
        BY <2>4, <3>1 DEF StartRecord
      <4> QED
        BY <1>1, <2>1, <2>2, <2>3, <3>1, <4>1
    <3>2. CASE recState[t] # "Recording" /\ recState'[t] = "Recording"
      <4>1. totalLen' = totalLen /\ (bpm = NoTempo \/ totalLen = 0)
        BY <2>4, <3>2 DEF StartRecord, windowVars
      <4>2. totalLen' = 0
        BY <4>1 DEF NoTempoInv
      <4> QED
        BY <4>2 DEF TakePhase
    <3> QED
      BY <1>2, <3>1, <3>2
  <2> QED
    BY <1>3, <2>1, <2>2, <2>3, <2>4
<1>5. CASE \E u \in Track : StopTake(u) \/ AutoStop(u)
  <2>1. PICK u \in Track : /\ recState[u] = "Recording" /\ finishRecording(u)
                           /\ phase' = phase
    BY <1>5 DEF StopTake, AutoStop, IsComplete
  <2>2. /\ recState' = [recState EXCEPT ![u] = "Idle"]
        /\ written' = [written EXCEPT ![u] = 0]
    BY <2>1 DEF finishRecording
  <2>3. ~EndBlock
    <3>1. recState' # recState
      BY <2>1, <2>2 DEF TypeOK, TakesOK
    <3> QED
      BY <3>1 DEF EndBlock, takeVars
  <2>4. CASE t = u
    BY <1>2, <2>2, <2>4 DEF TypeOK, TakesOK
  <2>5. CASE t # u
    <3>1. recState'[t] = recState[t] /\ written'[t] = written[t]
      BY <2>2, <2>5 DEF TypeOK, TakesOK
    <3> QED
      BY <1>1, <1>2, <2>1, <2>3, <3>1
  <2> QED
    BY <2>4, <2>5
<1>6. CASE \E u \in Track : CancelCountIn(u)
  <2>1. PICK u \in Track : /\ recState' = [recState EXCEPT ![u] = "Idle"]
                           /\ UNCHANGED <<written, phase>> /\ phase = "stopping"
    BY <1>6 DEF CancelCountIn, IsNextToStop
  <2>2. ~EndBlock
    BY <2>1 DEF EndBlock
  <2>3. recState'[t] = recState[t] \/ recState'[t] # "Recording"
    BY <2>1 DEF TypeOK, TakesOK
  <2> QED
    BY <1>1, <1>2, <2>1, <2>2, <2>3
<1>7. CASE StopDone \/ SkipInbox \/ TakeInbox \/ DrainEntry \/ DrainDone \/ OversizedBlock
  <2>1. /\ UNCHANGED takeVars
        /\ phase # "autostop" /\ phase' # "autostop"
    BY <1>7 DEF StopDone, SkipInbox, TakeInbox, DrainEntry, DrainDone, OversizedBlock,
       controlVars
  <2>2. ~EndBlock
    BY <2>1 DEF EndBlock
  <2> QED
    BY <1>3, <2>1, <2>2
<1>8. CASE ScanBlock
  BY <1>8, ScanKeepsPhase
<1>9. CASE EndBlock
  BY <1>9, EndBlockKeepsPhase
<1>10. CASE \E u \in Track : \/ ConvertActiveLoop(u)
                             \/ \E a \in ActivateChoices : submitLoop(u, a)
                             \/ ConvertFails(u)
  <2>1. UNCHANGED <<takeVars, phase, totalLen, position>>
    BY <1>10 DEF ConvertActiveLoop, submitLoop, ConvertFails, engineVars, controlVars,
       windowVars
  <2> QED
    BY <2>1 DEF TakePhase, Reached, takeVars, maxRecordingSamples
<1> QED
  BY <1>4, <1>5, <1>6, <1>7, <1>8, <1>9, <1>10 DEF Next

PhaseInv == NoTempoInv /\ \A t \in Track : TakePhase(t)

LEMMA StepKeepsPhase ==
    ASSUME HasInput, NeverSetsTempo, TypeOK, TakesInv, PhaseInv, [Next]_vars,
           [~MovesUnderATake]_vars
    PROVE  PhaseInv'
<1>1. NoTempoInv'
  BY NextKeepsNoTempo DEF PhaseInv
<1>2. CASE Next /\ ~MovesUnderATake
  <2>1. \A t \in Track : TakePhase(t)'
    BY <1>2, NextKeepsPhase DEF PhaseInv
  <2> QED
    BY <1>1, <2>1 DEF PhaseInv
<1>3. CASE UNCHANGED vars
  <2>1. UNCHANGED <<takeVars, phase, totalLen, position>>
    BY <1>3 DEF vars, controlVars, windowVars
  <2>2. \A t \in Track : TakePhase(t)'
    BY <2>1 DEF PhaseInv, TakePhase, Reached, takeVars, maxRecordingSamples
  <2> QED
    BY <1>1, <2>2 DEF PhaseInv
<1> QED
  BY <1>2, <1>3

LEMMA InitPhase == Init => PhaseInv
  BY DEF Init, PhaseInv, NoTempoInv, TakePhase

LEMMA PhaseInvIsPhase == TypeOK /\ PhaseInv => TakesInPhase
<1> SUFFICES ASSUME TypeOK, PhaseInv, phase = "commands", totalLen > 0, NEW t \in Track,
                    recState[t] = "Recording", written[t] < maxRecordingSamples
             PROVE  (written[t] - position) % totalLen = 0
  BY DEF TakesInPhase
<1>1. InPhase(written[t], position, totalLen)
  BY DEF PhaseInv, TakePhase, Reached
<1>2. written[t] \in Int /\ position \in Int /\ totalLen \in Nat \ {0}
  BY CapacityIsNatural DEF TypeOK, TakesOK, TransportOK
<1> QED
  BY <1>1, <1>2, InPhaseIsNoRest

\* The samples of a take are where the transport was when they were captured: block by
\* block, count-in by count-in, for every block size, even one longer than the window,
\* as long as nothing but time moves the transport (captureInputs and the offset of
\* bar one, LooperEngine.cpp:500-562).
THEOREM TakesStayInPhase ==
    ASSUME HasInput, NeverSetsTempo
    PROVE  Spec /\ [][~MovesUnderATake]_vars => []TakesInPhase
<1>1. TypeOK /\ TakesInv /\ PhaseInv /\ [Next]_vars /\ [~MovesUnderATake]_vars => PhaseInv'
  BY StepKeepsPhase
<1> QED
  BY <1>1, InitPhase, PhaseInvIsPhase, TypeCorrect, TakesInvHolds, PTL DEF Spec
=============================================================================
