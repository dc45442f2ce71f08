------------------------ MODULE LooperEngineProofs -------------------------
(***************************************************************************)
(* The engine's invariants for every number of tracks, block size, sample  *)
(* rate, command alphabet and bound.                                       *)
(***************************************************************************)
EXTENDS LooperEngine, TLAPS

-----------------------------------------------------------------------------
(* Arithmetic *)

LEMMA Product == ASSUME NEW a \in Nat, NEW b \in Nat PROVE a * b \in Nat
  OBVIOUS

LEMMA Quotient == ASSUME NEW a \in Nat, NEW b \in Nat \ {0} PROVE a \div b \in Nat
  OBVIOUS

LEMMA Remainder == ASSUME NEW a \in Nat, NEW b \in Nat \ {0}
                   PROVE  a % b \in Nat /\ a % b < b
  OBVIOUS

LEMMA RoundedIsNatural ==
    ASSUME NEW a \in Nat, NEW b \in Nat \ {0} PROVE Rounded(a, b) \in Nat
<1>1. 2 * a + b \in Nat /\ 2 * b \in Nat \ {0}
  OBVIOUS
<1> QED
  BY <1>1, Quotient DEF Rounded

\* The length of a number of bars is a number of samples.
LEMMA SamplesForBarsIsNatural ==
    ASSUME NEW n \in AllowedBars, NEW tempo \in Nat \ {0}, NEW perBar \in Nat
    PROVE  samplesForBars(n, tempo, perBar) \in Nat
<1>1. n \in Nat /\ SampleRate \in Nat
  BY BarsAssumption, RateAssumption
<1>2. n * perBar \in Nat
  BY <1>1, Product
<1>3. (n * perBar) * 6000 \in Nat
  BY <1>2
<1>4. (n * perBar) * 6000 * SampleRate \in Nat
  BY <1>1, <1>3, Product
<1> QED
  BY <1>4, RoundedIsNatural DEF samplesForBars, SamplesOfBeats

LEMMA CapacityIsNatural == maxRecordingSamples \in Nat
<1>1. LongestBars * 4 \in Nat /\ SampleRate \in Nat
  BY EngineAssumption, RateAssumption
<1> QED
  BY <1>1, Product DEF maxRecordingSamples

\* A best fit gives a tempo in the detector's range.
LEMMA FitIsATempo ==
    ASSUME NEW b, NEW n, IsBestFit(b, n)
    PROVE  b \in AllowedBars /\ BpmOf(b, n) \in Nat \ {0}
<1>1. b \in AllowedBars /\ BpmOf(b, n) \in MinBpm .. MaxBpm
  BY DEF IsBestFit, Fits
<1>2. \A x \in MinBpm .. MaxBpm : x \in Nat \ {0}
  BY DEF MinBpm, MaxBpm
<1> QED
  BY <1>1, <1>2

\* A take is cut to a length that is not zero.
LEMMA CutIsALength ==
    ASSUME NEW b \in AllowedBars, NEW tempo \in Nat \ {0}, NEW n \in Nat \ {0},
           beatsPerBar \in Nat
    PROVE  CutLength(b, tempo, n) \in Nat \ {0}
<1>1. samplesForBars(b, tempo, beatsPerBar) \in Nat
  BY SamplesForBarsIsNatural
<1> QED
  BY <1>1 DEF CutLength

-----------------------------------------------------------------------------
(* Frames and the loop lists *)

LEMMA TrackIsInteger == Track \subseteq Nat /\ \A t \in Track : t + 1 \in 0 .. NumTracks
  BY EngineAssumption DEF Track

LEMMA Frame ==
    ASSUME TypeOK
    PROVE  /\ UNCHANGED settingVars => SettingsOK'
           /\ UNCHANGED takeVars => TakesOK'
           /\ UNCHANGED loopVars => LoopsOK'
           /\ UNCHANGED <<tempoVars, windowVars, playing>> => TransportOK'
           /\ UNCHANGED <<loops, transfers>> => TransfersOK'
           /\ UNCHANGED <<inbox, draining, immediate>> => HandoffOK'
           /\ UNCHANGED controlVars => ControlOK'
<1>1. UNCHANGED settingVars => SettingsOK'
  BY DEF TypeOK, SettingsOK, settingVars
<1>2. UNCHANGED takeVars => TakesOK'
  BY DEF TypeOK, TakesOK, takeVars
<1>3. UNCHANGED loopVars => LoopsOK'
  BY DEF TypeOK, LoopsOK, loopVars, MaybeIndex, LoopIndex
<1>4. UNCHANGED <<tempoVars, windowVars, playing>> => TransportOK'
  BY DEF TypeOK, TransportOK, tempoVars, windowVars
<1>5. UNCHANGED <<loops, transfers>> => TransfersOK'
  BY DEF TypeOK, TransfersOK, LoopIndex
<1>6. UNCHANGED <<inbox, draining, immediate>> => HandoffOK'
  BY DEF TypeOK, HandoffOK
<1>7. UNCHANGED controlVars => ControlOK'
  BY DEF TypeOK, ControlOK, controlVars
<1> QED
  BY <1>1, <1>2, <1>3, <1>4, <1>5, <1>6, <1>7

\* A loop is appended to a track's list and nothing is taken from any.
LEMMA Appended ==
    ASSUME TypeOK, NEW t \in Track, NEW lp \in Shape,
           loops' = [loops EXCEPT ![t] = Append(@, lp)]
    PROVE  /\ loops' \in [Track -> Seq(Shape)]
           /\ Len(loops[t]) \in Nat /\ Len(loops'[t]) = Len(loops[t]) + 1
           /\ \A u \in Track : u # t => loops'[u] = loops[u]
           /\ \A u \in Track : /\ LoopIndex(u) \subseteq LoopIndex(u)'
                               /\ MaybeIndex(u) \subseteq MaybeIndex(u)'
           /\ Len(loops[t]) \in LoopIndex(t)'
           /\ UNCHANGED transfers => TransfersOK'
<1>1. loops \in [Track -> Seq(Shape)]
  BY DEF TypeOK, LoopsOK
<1>2. loops'[t] = Append(loops[t], lp) /\ loops[t] \in Seq(Shape)
  BY <1>1
<1>3. \A u \in Track : u # t => loops'[u] = loops[u]
  BY <1>1
<1>4. Append(loops[t], lp) \in Seq(Shape) /\ Len(Append(loops[t], lp)) = Len(loops[t]) + 1
      /\ Len(loops[t]) \in Nat
  BY <1>2
<1>5. loops' \in [Track -> Seq(Shape)]
  BY <1>1, <1>2, <1>4
<1>6. \A u \in Track : Len(loops[u]) \in Nat /\ Len(loops'[u]) \in Nat
                       /\ Len(loops[u]) <= Len(loops'[u])
  BY <1>1, <1>2, <1>3, <1>4
<1>7. \A u \in Track : LoopIndex(u) \subseteq LoopIndex(u)'
  BY <1>6 DEF LoopIndex
<1>8. UNCHANGED transfers => TransfersOK'
  BY <1>7 DEF TypeOK, TransfersOK
<1> QED
  BY <1>2, <1>3, <1>4, <1>5, <1>7, <1>8 DEF LoopIndex, MaybeIndex

\* The loop at a legal index, and its length.
LEMMA LoopAtIsShape ==
    ASSUME NEW ls \in Seq(Shape), NEW ix \in 0 .. Len(ls) - 1
    PROVE  LoopAt(ls, ix) \in Shape
  BY DEF LoopAt

LEMMA ShapeFields ==
    ASSUME NEW lp \in Shape PROVE lp.bars \in Nat /\ lp.len \in Nat \ {0}
<1>1. lp.bars \in AllowedBars /\ lp.len \in Nat \ {0}
  BY DEF Shape
<1>2. AllowedBars \subseteq Nat
  BY BarsAssumption
<1> QED
  BY <1>1, <1>2

LEMMA LengthIsNatural ==
    ASSUME NEW ls \in Seq(Shape), NEW ix \in 0 .. Len(ls) - 1 \union {NoLoop}
    PROVE  LengthOf(ls, ix) \in Nat
<1>1. CASE ix = NoLoop
  BY <1>1 DEF LengthOf
<1>2. CASE ix # NoLoop
  <2>1. LoopAt(ls, ix) \in Shape
    BY <1>2, LoopAtIsShape
  <2> QED
    BY <1>2, <2>1, ShapeFields DEF LengthOf
<1> QED
  BY <1>1, <1>2

\* updateTransportLength gives the window a length and a number of bars.
LEMMA WindowIsTyped ==
    ASSUME NEW ls \in [Track -> Seq(Shape)], NEW ac,
           \A t \in Track : ac[t] \in 0 .. Len(ls[t]) - 1 \union {NoLoop},
           SetLength(ls, ac)
    PROVE  totalLen' \in Nat /\ totalBars' \in Nat
<1>1. PICK t \in Track : /\ totalLen' = LengthOf(ls[t], ac[t])
                         /\ totalBars' = IF ac[t] = NoLoop THEN 0
                                         ELSE LoopAt(ls[t], ac[t]).bars
  BY DEF SetLength
<1>2. totalLen' \in Nat
  BY <1>1, LengthIsNatural
<1>3. ac[t] # NoLoop => LoopAt(ls[t], ac[t]) \in Shape
  BY LoopAtIsShape
<1>4. totalBars' \in Nat
  BY <1>1, <1>3, ShapeFields
<1> QED
  BY <1>2, <1>4

LEMMA WrapIsTyped ==
    ASSUME totalLen' \in Nat, position \in Nat, WrapPosition
    PROVE  position' \in Nat /\ (totalLen' > 0 => position' < totalLen')
<1>0. position' = IF totalLen' > 0 /\ position >= totalLen'
                  THEN position % totalLen' ELSE position
  BY DEF WrapPosition
<1>1. CASE totalLen' > 0 /\ position >= totalLen'
  <2>1. position' = position % totalLen'
    BY <1>0, <1>1
  <2>2. position % totalLen' \in Nat /\ position % totalLen' < totalLen'
    <3>1. position \in Nat /\ totalLen' \in Nat \ {0}
      BY <1>1
    <3> QED
      BY <3>1, Remainder
  <2> QED
    BY <2>1, <2>2
<1>2. CASE ~ (totalLen' > 0 /\ position >= totalLen')
  <2>1. position' = position
    BY <1>0, <1>2
  <2> QED
    BY <1>2, <2>1
<1> QED
  BY <1>1, <1>2

-----------------------------------------------------------------------------
(* Types: the commands *)

LEMMA EnterStopTyped ==
    ASSUME TypeOK, NEW h \in BOOLEAN, EnterStop(h) PROVE TypeOK'
<1>1. ControlOK'
  BY EngineAssumption DEF EnterStop, ControlOK
<1>2. UNCHANGED <<settingVars, takeVars, loopVars, tempoVars, windowVars, playing,
                  handoffVars>>
  BY DEF EnterStop
<1>3. UNCHANGED <<loops, transfers, inbox, draining, immediate>>
  BY <1>2 DEF loopVars, handoffVars
<1> QED
  BY <1>1, <1>2, <1>3, Frame DEF TypeOK

LEMMA SetPlayingTyped ==
    ASSUME TypeOK, NEW on \in BOOLEAN, SetPlaying(on) PROVE TypeOK'
<1>1. CASE EnterStop(TRUE)
  BY <1>1, EnterStopTyped
<1>2. CASE on /\ playing' = TRUE /\ Stay
           /\ UNCHANGED <<settingVars, takeVars, loopVars, tempoVars, windowVars>>
  <2>1. TransportOK'
    BY <1>2 DEF TypeOK, TransportOK, tempoVars, windowVars
  <2>2. UNCHANGED <<loops, transfers, inbox, draining, immediate, controlVars>>
    BY <1>2 DEF loopVars, handoffVars, Stay
  <2> QED
    BY <1>2, <2>1, <2>2, Frame DEF TypeOK
<1> QED
  BY <1>1, <1>2 DEF SetPlaying

LEMMA StartRecordTyped == ASSUME TypeOK, StartRecord PROVE TypeOK'
<1>1. TakesOK'
  BY CapacityIsNatural DEF StartRecord, TypeOK, TakesOK
<1>2. playing' \in BOOLEAN
  BY DEF StartRecord, TypeOK, TransportOK
<1>3. UNCHANGED <<settingVars, loopVars, tempoVars, windowVars, handoffVars, controlVars>>
  BY DEF StartRecord
<1>4. TransportOK'
  BY <1>2, <1>3 DEF TypeOK, TransportOK, tempoVars, windowVars
<1>5. UNCHANGED <<loops, transfers, inbox, draining, immediate>>
  BY <1>3 DEF loopVars, handoffVars
<1> QED
  BY <1>1, <1>3, <1>4, <1>5, Frame DEF TypeOK

LEMMA ResetPositionTyped == ASSUME TypeOK, ResetPosition PROVE TypeOK'
<1>1. TransportOK'
  BY DEF ResetPosition, TypeOK, TransportOK, tempoVars
<1>2. UNCHANGED <<settingVars, takeVars, loopVars, controlVars, handoffVars>>
  BY DEF ResetPosition, Stay
<1>3. UNCHANGED <<loops, transfers, inbox, draining, immediate>>
  BY <1>2 DEF loopVars, handoffVars
<1> QED
  BY <1>1, <1>2, <1>3, Frame DEF TypeOK

LEMMA SetTempoTyped ==
    ASSUME TypeOK, NEW b \in Nat, NEW n \in Nat, NEW k \in Nat, SetTempo(b, n, k)
    PROVE  TypeOK'
<1>1. TransportOK'
  BY DEF SetTempo, TypeOK, TransportOK, windowVars
<1>2. UNCHANGED <<settingVars, takeVars, loopVars, controlVars, handoffVars>>
  BY DEF SetTempo, Stay
<1>3. UNCHANGED <<loops, transfers, inbox, draining, immediate>>
  BY <1>2 DEF loopVars, handoffVars
<1> QED
  BY <1>1, <1>2, <1>3, Frame DEF TypeOK

LEMMA SetTrackTyped ==
    ASSUME TypeOK, NEW a \in [Track -> BOOLEAN], NEW b \in [Track -> AllowedBars],
           NEW m \in [Track -> {"New", "Overdub", "Replace"}], SetTrack(a, b, m)
    PROVE  TypeOK'
<1>1. SettingsOK'
  BY DEF SetTrack, SettingsOK
<1>2. UNCHANGED <<takeVars, loopVars, tempoVars, windowVars, playing, controlVars,
                  handoffVars>>
  BY DEF SetTrack, Stay
<1>3. UNCHANGED <<loops, transfers, inbox, draining, immediate>>
  BY <1>2 DEF loopVars, handoffVars
<1> QED
  BY <1>1, <1>2, <1>3, Frame DEF TypeOK

LEMMA ChooseLoopTyped ==
    ASSUME TypeOK, NEW t \in Track, NEW ix \in MaybeIndex(t), ChooseLoop(t, ix)
    PROVE  TypeOK'
<1> DEFINE ac == [active EXCEPT ![t] = ix]
<1>1. /\ active' = ac
      /\ pending' = [pending EXCEPT ![t] = NoLoop]
      /\ uiLoop' = [uiLoop EXCEPT ![t] = ix]
      /\ SetWindow(loops, ac)
      /\ UNCHANGED <<settingVars, takeVars, loops, tempoVars, playing, controlVars,
                     handoffVars>>
  BY DEF ChooseLoop, Stay
<1>2. /\ loops \in [Track -> Seq(Shape)] /\ active \in [Track -> Int]
      /\ pending \in [Track -> Int] /\ uiLoop \in [Track -> Int]
      /\ \A u \in Track : /\ active[u] \in MaybeIndex(u)
                          /\ pending[u] \in MaybeIndex(u)
                          /\ uiLoop[u] \in MaybeIndex(u)
  BY DEF TypeOK, LoopsOK
<1>3. ix \in Int /\ NoLoop \in Int /\ NoLoop \in MaybeIndex(t)
  BY DEF MaybeIndex, LoopIndex, NoLoop
<1>4. \A u \in Track : ac[u] \in 0 .. Len(loops[u]) - 1 \union {NoLoop}
  BY <1>2 DEF MaybeIndex, LoopIndex
<1>5. LoopsOK'
  BY <1>1, <1>2, <1>3 DEF LoopsOK, MaybeIndex, LoopIndex
<1>6. totalLen' \in Nat /\ totalBars' \in Nat /\ position' \in Nat
  <2>1. SetLength(loops, ac) /\ WrapPosition
    BY <1>1 DEF SetWindow
  <2>2. totalLen' \in Nat /\ totalBars' \in Nat
    <3> HIDE DEF ac
    <3> QED
      BY <1>2, <1>4, <2>1, WindowIsTyped
  <2>3. position \in Nat
    BY DEF TypeOK, TransportOK
  <2> QED
    BY <2>1, <2>2, <2>3, WrapIsTyped
<1>7. TransportOK'
  BY <1>1, <1>6 DEF TypeOK, TransportOK, tempoVars
<1>8. UNCHANGED <<loops, transfers, inbox, draining, immediate>>
  BY <1>1 DEF handoffVars
<1> QED
  BY <1>1, <1>5, <1>7, <1>8, Frame DEF TypeOK

LEMMA CycleNextLoopTyped ==
    ASSUME TypeOK, NEW t \in Track, CycleNextLoop(t) PROVE TypeOK'
<1>1. loops[t] \in Seq(Shape) /\ active[t] \in MaybeIndex(t)
  BY DEF TypeOK, LoopsOK
<1>2. CASE loops[t] = <<>>
  BY <1>1, <1>2, ChooseLoopTyped DEF CycleNextLoop
<1>3. CASE loops[t] # <<>>
  <2>1. Len(loops[t]) \in Nat \ {0} /\ active[t] + 1 \in Nat
    BY <1>1, <1>3 DEF MaybeIndex, LoopIndex, NoLoop
  <2>2. (active[t] + 1) % Len(loops[t]) \in MaybeIndex(t)
    BY <2>1, Remainder DEF MaybeIndex, LoopIndex
  <2> QED
    BY <1>3, <2>2, ChooseLoopTyped DEF CycleNextLoop
<1> QED
  BY <1>2, <1>3

LEMMA CyclePrevLoopTyped ==
    ASSUME TypeOK, NEW t \in Track, CyclePrevLoop(t) PROVE TypeOK'
<1>1. loops[t] \in Seq(Shape) /\ active[t] \in MaybeIndex(t)
  BY DEF TypeOK, LoopsOK
<1>2. CASE Len(loops[t]) <= 1
  BY <1>1, <1>2, ChooseLoopTyped DEF CyclePrevLoop
<1>3. CASE ~ (Len(loops[t]) <= 1)
  <2>1. Len(loops[t]) \in Nat \ {0} /\ active[t] + Len(loops[t]) - 1 \in Nat
    BY <1>1, <1>3 DEF MaybeIndex, LoopIndex, NoLoop
  <2>2. (active[t] + Len(loops[t]) - 1) % Len(loops[t]) \in MaybeIndex(t)
    BY <2>1, Remainder DEF MaybeIndex, LoopIndex
  <2> QED
    BY <1>3, <2>2, ChooseLoopTyped DEF CyclePrevLoop
<1> QED
  BY <1>2, <1>3

LEMMA SwitchActiveLoopTyped ==
    ASSUME TypeOK, NEW t \in Track, NEW ix \in Nat \union {NoLoop},
           SwitchActiveLoop(t, ix)
    PROVE  TypeOK'
<1>1. loops[t] \in Seq(Shape) /\ active[t] \in MaybeIndex(t)
  BY DEF TypeOK, LoopsOK
<1>2. (IF ix < 0 THEN NoLoop ELSE IF ix < Len(loops[t]) THEN ix ELSE active[t])
        \in MaybeIndex(t)
  BY <1>1 DEF MaybeIndex, LoopIndex, NoLoop
<1> QED
  BY <1>2, ChooseLoopTyped DEF SwitchActiveLoop

LEMMA ClearActiveLoopTyped ==
    ASSUME TypeOK, NEW t \in Track, ClearActiveLoop(t) PROVE TypeOK'
<1>1. /\ uiLoop' = [uiLoop EXCEPT ![t] = active[t]]
      /\ UNCHANGED <<settingVars, takeVars, loops, active, pending, tempoVars,
                     windowVars, playing, controlVars, handoffVars>>
  BY DEF ClearActiveLoop, Stay
<1>2. LoopsOK'
  BY <1>1 DEF TypeOK, LoopsOK, MaybeIndex, LoopIndex
<1>3. UNCHANGED <<loops, transfers, inbox, draining, immediate>>
  BY <1>1 DEF handoffVars
<1> QED
  BY <1>1, <1>2, <1>3, Frame DEF TypeOK

\* The commands that set a track's next take.
LEMMA TrackSettingsTyped ==
    ASSUME TypeOK, NEW t \in Track, NEW n \in Nat \union {NoLoop},
           \/ SetTrackArmed(t, n = 1) \/ SelectTrack(t)
           \/ SetTrackBars(t, n) \/ SetTrackMode(t, n)
    PROVE  TypeOK'
<1>1. armed \in [Track -> BOOLEAN] /\ bars \in [Track -> AllowedBars]
      /\ mode \in [Track -> {"New", "Overdub", "Replace"}]
  BY DEF TypeOK, SettingsOK
<1>2. CASE SetTrackArmed(t, n = 1)
  <2>1. [armed EXCEPT ![t] = (n = 1)] \in [Track -> BOOLEAN]
    BY <1>1
  <2> QED
    BY <1>1, <1>2, <2>1, SetTrackTyped DEF SetTrackArmed
<1>3. CASE SelectTrack(t)
  <2>1. [u \in Track |-> u = t] \in [Track -> BOOLEAN]
    OBVIOUS
  <2> QED
    BY <1>1, <1>3, <2>1, SetTrackTyped DEF SelectTrack
<1>4. CASE SetTrackBars(t, n)
  <2>1. (IF n \in AllowedBars THEN [bars EXCEPT ![t] = n] ELSE bars)
          \in [Track -> AllowedBars]
    BY <1>1
  <2> QED
    BY <1>1, <1>4, <2>1, SetTrackTyped DEF SetTrackBars
<1>5. CASE SetTrackMode(t, n)
  <2>1. RecordModes[n + 1] \in {"New", "Overdub", "Replace"}
    BY <1>5 DEF SetTrackMode, RecordModes
  <2>2. [mode EXCEPT ![t] = RecordModes[n + 1]]
          \in [Track -> {"New", "Overdub", "Replace"}]
    BY <1>1, <2>1
  <2> QED
    BY <1>1, <1>5, <2>2, SetTrackTyped DEF SetTrackMode
<1> QED
  BY <1>2, <1>3, <1>4, <1>5

LEMMA TempoTyped ==
    ASSUME TypeOK, NEW n \in Nat \union {NoLoop},
           SetBpm(n) \/ SetBeatsPerBar(n) \/ SetLatencyCompensation(n)
    PROVE  TypeOK'
<1>1. bpm \in Nat /\ beatsPerBar \in Nat /\ comp \in Nat
  BY DEF TypeOK, TransportOK
<1>2. (IF n < 0 THEN 0 ELSE n) \in Nat
  BY DEF NoLoop
<1>3. CASE SetBpm(n)
  BY <1>1, <1>3, SetTempoTyped DEF SetBpm
<1>4. CASE SetBeatsPerBar(n)
  BY <1>1, <1>4, SetTempoTyped DEF SetBeatsPerBar
<1>5. CASE SetLatencyCompensation(n)
  BY <1>1, <1>2, <1>5, SetTempoTyped DEF SetLatencyCompensation
<1> QED
  BY <1>3, <1>4, <1>5

LEMMA HandleCommandTyped == ASSUME TypeOK, HandleCommand PROVE TypeOK'
<1>1. PICK c \in Commands : Handle(c)
  BY DEF HandleCommand
<1>2. c.track \in Track /\ c.arg \in Nat \union {NoLoop}
  BY CommandAssumption
<1>3. playing \in BOOLEAN
  BY DEF TypeOK, TransportOK
<1>4. CASE SetPlaying(c.arg = 1) \/ TogglePlay
  BY <1>3, <1>4, SetPlayingTyped DEF TogglePlay
<1>5. CASE StopRecord
  BY <1>5, EnterStopTyped DEF StopRecord
<1>6. CASE StartRecord \/ ResetPosition
  BY <1>6, StartRecordTyped, ResetPositionTyped
<1>7. CASE SetBpm(c.arg) \/ SetBeatsPerBar(c.arg) \/ SetLatencyCompensation(c.arg)
  BY <1>2, <1>7, TempoTyped
<1>8. CASE \/ SetTrackArmed(c.track, c.arg = 1) \/ SelectTrack(c.track)
           \/ SetTrackBars(c.track, c.arg) \/ SetTrackMode(c.track, c.arg)
  BY <1>2, <1>8, TrackSettingsTyped
<1>9. CASE \/ CycleNextLoop(c.track) \/ CyclePrevLoop(c.track)
           \/ SwitchActiveLoop(c.track, c.arg) \/ ClearActiveLoop(c.track)
  BY <1>2, <1>9, CycleNextLoopTyped, CyclePrevLoopTyped, SwitchActiveLoopTyped,
     ClearActiveLoopTyped
<1> QED
  BY <1>1, <1>4, <1>5, <1>6, <1>7, <1>8, <1>9 DEF Handle

-----------------------------------------------------------------------------
(* Types: the end of a take *)

LEMMA KeepAsTyped ==
    ASSUME TypeOK, NEW t \in Track, NEW b \in AllowedBars, NEW tempo \in Nat \ {0},
           written[t] > comp, KeepAs(t, b, tempo)
    PROVE  /\ LoopsOK'
           /\ totalLen' \in Nat /\ totalBars' \in Nat /\ position' = 0
           /\ UNCHANGED transfers => TransfersOK'
<1> DEFINE lp == [bars |-> b, len |-> CutLength(b, tempo, Captured(t))]
           ls == [loops EXCEPT ![t] = Append(@, lp)]
           ac == [active EXCEPT ![t] = Len(loops[t])]
<1>1. /\ loops' = ls /\ active' = ac /\ SetLength(ls, ac)
      /\ position' = 0
      /\ uiLoop' = [uiLoop EXCEPT ![t] = ac[t]]
      /\ pending' = pending
  BY DEF KeepAs
<1>2. lp \in Shape
  <2>1. Captured(t) \in Nat \ {0} /\ beatsPerBar \in Nat
    BY CapacityIsNatural DEF Captured, TypeOK, TakesOK, TransportOK
  <2>2. CutLength(b, tempo, Captured(t)) \in Nat \ {0}
    BY <2>1, CutIsALength
  <2> QED
    BY <2>2 DEF Shape
<1> HIDE DEF lp
<1>3. /\ loops' \in [Track -> Seq(Shape)]
      /\ Len(loops[t]) \in Nat
      /\ \A u \in Track : MaybeIndex(u) \subseteq MaybeIndex(u)'
      /\ Len(loops[t]) \in LoopIndex(t)'
      /\ UNCHANGED transfers => TransfersOK'
  BY <1>1, <1>2, Appended
<1>4. /\ active \in [Track -> Int] /\ pending \in [Track -> Int]
      /\ uiLoop \in [Track -> Int]
      /\ \A u \in Track : /\ active[u] \in MaybeIndex(u)
                          /\ pending[u] \in MaybeIndex(u)
                          /\ uiLoop[u] \in MaybeIndex(u)
  BY DEF TypeOK, LoopsOK
<1>5. Len(loops[t]) \in MaybeIndex(t)'
  BY <1>3 DEF MaybeIndex
<1>6. \A u \in Track : ac[u] \in MaybeIndex(u)'
  BY <1>3, <1>4, <1>5
<1>7. LoopsOK'
  BY <1>1, <1>3, <1>4, <1>5, <1>6 DEF LoopsOK
<1>8. totalLen' \in Nat /\ totalBars' \in Nat
  <2>1. \A u \in Track : ac[u] \in 0 .. Len(ls[u]) - 1 \union {NoLoop}
    BY <1>1, <1>6 DEF MaybeIndex, LoopIndex
  <2>2. ls \in [Track -> Seq(Shape)]
    BY <1>1, <1>3
  <2> HIDE DEF ls, ac
  <2> QED
    BY <1>1, <2>1, <2>2, WindowIsTyped
<1> QED
  BY <1>1, <1>3, <1>7, <1>8

LEMMA FinishTyped ==
    ASSUME TypeOK, NEW t \in Track, finishRecording(t), ControlOK' PROVE TypeOK'
<1>1. /\ recState' = [recState EXCEPT ![t] = "Idle"]
      /\ written' = [written EXCEPT ![t] = 0]
      /\ UNCHANGED <<armed, mode, beatsPerBar, comp, playing, handoffVars>>
  BY DEF finishRecording
<1>2. TakesOK'
  BY <1>1, CapacityIsNatural DEF TypeOK, TakesOK
<1>3. UNCHANGED <<transfers, inbox, draining, immediate>>
  BY <1>1 DEF handoffVars
<1>4. HandoffOK'
  BY <1>3, Frame
<1>5. CASE Reject(t)
  <2>1. UNCHANGED <<bars, loopVars, bpm, windowVars>>
    BY <1>5 DEF Reject
  <2>2. UNCHANGED <<settingVars, loops, tempoVars>>
    BY <1>1, <2>1 DEF settingVars, loopVars, tempoVars
  <2> QED
    BY <1>1, <1>2, <1>3, <1>4, <2>1, <2>2, Frame DEF TypeOK
<1>6. CASE Merge(t)
  <2>1. /\ uiLoop' = [uiLoop EXCEPT ![t] = active[t]]
        /\ UNCHANGED <<bars, loops, active, pending, bpm, windowVars>>
    BY <1>6 DEF Merge
  <2>2. LoopsOK'
    BY <2>1 DEF TypeOK, LoopsOK, MaybeIndex, LoopIndex
  <2>3. UNCHANGED <<settingVars, loops, tempoVars>>
    BY <1>1, <2>1 DEF settingVars, tempoVars
  <2> QED
    BY <1>1, <1>2, <1>3, <1>4, <2>1, <2>2, <2>3, Frame DEF TypeOK
<1>7. CASE KeepFirst(t)
  <2>1. PICK fit \in AllowedBars :
           /\ IsBestFit(fit, Captured(t))
           /\ bpm' = BpmOf(fit, Captured(t))
           /\ bars' = [bars EXCEPT ![t] = fit]
           /\ KeepAs(t, fit, BpmOf(fit, Captured(t)))
    BY <1>7 DEF KeepFirst
  <2>2. BpmOf(fit, Captured(t)) \in Nat \ {0}
    BY <2>1, FitIsATempo
  <2>3. written[t] > comp
    BY <1>7 DEF KeepFirst
  <2>4. LoopsOK' /\ totalLen' \in Nat /\ totalBars' \in Nat /\ position' = 0
        /\ TransfersOK'
    BY <1>3, <2>1, <2>2, <2>3, KeepAsTyped
  <2>5. SettingsOK'
    BY <1>1, <2>1 DEF TypeOK, SettingsOK
  <2>6. TransportOK'
    BY <1>1, <2>1, <2>2, <2>4 DEF TypeOK, TransportOK
  <2> QED
    BY <1>2, <1>4, <2>4, <2>5, <2>6 DEF TypeOK
<1>8. CASE KeepNext(t)
  <2>1. written[t] > comp /\ bpm # NoTempo /\ KeepAs(t, bars[t], bpm)
        /\ UNCHANGED <<bpm, bars>>
    BY <1>8 DEF KeepNext
  <2>2. bars[t] \in AllowedBars /\ bpm \in Nat \ {0}
    BY <2>1 DEF TypeOK, SettingsOK, TransportOK, NoTempo
  <2>3. LoopsOK' /\ totalLen' \in Nat /\ totalBars' \in Nat /\ position' = 0
        /\ TransfersOK'
    BY <1>3, <2>1, <2>2, KeepAsTyped
  <2>4. UNCHANGED settingVars
    BY <1>1, <2>1 DEF settingVars
  <2>5. TransportOK'
    BY <1>1, <2>1, <2>3 DEF TypeOK, TransportOK
  <2> QED
    BY <1>2, <1>4, <2>3, <2>4, <2>5, Frame DEF TypeOK
<1> QED
  BY <1>5, <1>6, <1>7, <1>8 DEF finishRecording

LEMMA StoppingTyped ==
    ASSUME TypeOK, NEW t \in Track, StopTake(t) \/ CancelCountIn(t) PROVE TypeOK'
<1>1. todo' = t + 1 /\ UNCHANGED <<phase, halt>>
  BY DEF StopTake, CancelCountIn
<1>2. ControlOK'
  BY <1>1, TrackIsInteger DEF TypeOK, ControlOK
<1>3. CASE StopTake(t)
  BY <1>2, <1>3, FinishTyped DEF StopTake
<1>4. CASE CancelCountIn(t)
  <2>1. /\ recState' = [recState EXCEPT ![t] = "Idle"]
        /\ UNCHANGED <<written, settingVars, loopVars, tempoVars, windowVars, playing,
                       handoffVars>>
    BY <1>4 DEF CancelCountIn
  <2>2. TakesOK'
    BY <2>1 DEF TypeOK, TakesOK
  <2>3. UNCHANGED <<loops, transfers, inbox, draining, immediate>>
    BY <2>1 DEF loopVars, handoffVars
  <2> QED
    BY <1>2, <2>1, <2>2, <2>3, Frame DEF TypeOK
<1> QED
  BY <1>3, <1>4

LEMMA StopDoneTyped == ASSUME TypeOK, StopDone PROVE TypeOK'
<1>1. ControlOK'
  <2>1. phase' = "commands" /\ todo' = 0 /\ halt' = FALSE
    BY DEF StopDone
  <2>2. phase' \in {"commands", "stopping", "draining", "crossing", "autostop"}
        /\ todo' \in 0 .. NumTracks
    BY <2>1, EngineAssumption
  <2>3. halt' \in BOOLEAN
    BY <2>1
  <2> QED
    BY <2>2, <2>3 DEF ControlOK
<1>2. UNCHANGED <<settingVars, takeVars, loopVars, tempoVars, windowVars, handoffVars>>
      /\ playing' = (playing /\ ~halt)
  BY DEF StopDone
<1>3. TransportOK'
  BY <1>2 DEF TypeOK, TransportOK, tempoVars, windowVars
<1>4. UNCHANGED <<loops, transfers, inbox, draining, immediate>>
  BY <1>2 DEF loopVars, handoffVars
<1> QED
  BY <1>1, <1>2, <1>3, <1>4, Frame DEF TypeOK

-----------------------------------------------------------------------------
(* Types: the inbox *)

LEMMA InboxTyped == ASSUME TypeOK, SkipInbox \/ TakeInbox PROVE TypeOK'
<1>1. CASE SkipInbox
  <2>1. /\ UNCHANGED <<todo, halt, settingVars, takeVars, loopVars, tempoVars,
                       windowVars, playing, handoffVars>>
        /\ phase' = "crossing"
    BY <1>1 DEF SkipInbox
  <2>2. ControlOK'
    BY <2>1 DEF TypeOK, ControlOK
  <2>3. UNCHANGED <<loops, transfers, inbox, draining, immediate>>
    BY <2>1 DEF loopVars, handoffVars
  <2> QED
    BY <2>1, <2>2, <2>3, Frame DEF TypeOK
<1>2. CASE TakeInbox
  <2>1. /\ UNCHANGED <<todo, halt, immediate, transfers, settingVars, takeVars,
                       loopVars, tempoVars, windowVars, playing>>
        /\ phase' = "draining" /\ draining' = inbox /\ inbox' = <<>>
    BY <1>2 DEF TakeInbox
  <2>2. ControlOK' /\ HandoffOK'
    BY <2>1 DEF TypeOK, ControlOK, HandoffOK
  <2>3. UNCHANGED <<loops, transfers>>
    BY <2>1 DEF loopVars
  <2> QED
    BY <2>1, <2>2, <2>3, Frame DEF TypeOK
<1> QED
  BY <1>1, <1>2

LEMMA DrainEntryTyped == ASSUME TypeOK, DrainEntry PROVE TypeOK'
<1>0. draining # <<>> /\ draining \in Seq(Entry)
  BY DEF DrainEntry, TypeOK, HandoffOK
<1>e. PICK e \in Entry : e = Head(draining)
  BY <1>0
<1> DEFINE t == e.track
           new == Len(loops[t])
           appended == IF active[t] = NoLoop THEN new ELSE active[t]
<1>1. /\ draining # <<>> /\ draining' = Tail(draining)
      /\ loops' = [loops EXCEPT ![t] = Append(@, e.loop)]
      /\ UNCHANGED <<controlVars, inbox, transfers, settingVars, takeVars, tempoVars,
                     windowVars, playing>>
  BY <1>e DEF DrainEntry
<1>2. \/ /\ active' = [active EXCEPT ![t] = appended]
         /\ UNCHANGED <<pending, uiLoop, immediate>>
      \/ /\ active' = [active EXCEPT ![t] = appended]
         /\ pending' = [pending EXCEPT ![t] = new]
         /\ UNCHANGED <<uiLoop, immediate>>
      \/ /\ active' = [active EXCEPT ![t] = new]
         /\ uiLoop' = [uiLoop EXCEPT ![t] = new]
         /\ immediate' = TRUE
         /\ UNCHANGED pending
  BY <1>e DEF DrainEntry
<1>3. draining' \in Seq(Entry)
  BY <1>0, <1>1
<1>4. t \in Track /\ e.loop \in Shape
  BY DEF Entry
<1> HIDE DEF t
<1>5. /\ loops' \in [Track -> Seq(Shape)]
      /\ new \in Nat
      /\ \A u \in Track : MaybeIndex(u) \subseteq MaybeIndex(u)'
      /\ new \in MaybeIndex(t)'
      /\ TransfersOK'
  BY <1>1, <1>4, Appended DEF MaybeIndex
<1> HIDE DEF new
<1>6. /\ active \in [Track -> Int] /\ pending \in [Track -> Int]
      /\ uiLoop \in [Track -> Int]
      /\ \A u \in Track : /\ active[u] \in MaybeIndex(u)
                          /\ pending[u] \in MaybeIndex(u)
                          /\ uiLoop[u] \in MaybeIndex(u)
  BY DEF TypeOK, LoopsOK
<1>7. appended \in Int /\ appended \in MaybeIndex(t)'
  BY <1>4, <1>5, <1>6
<1> HIDE DEF appended
<1>n. new \in Int
  BY <1>5
<1>8. LoopsOK'
  <2>1. active' \in [Track -> Int] /\ \A u \in Track : active'[u] \in MaybeIndex(u)'
    BY <1>n, <1>2, <1>4, <1>5, <1>6, <1>7
  <2>2. pending' \in [Track -> Int] /\ \A u \in Track : pending'[u] \in MaybeIndex(u)'
    BY <1>n, <1>2, <1>4, <1>5, <1>6
  <2>3. uiLoop' \in [Track -> Int] /\ \A u \in Track : uiLoop'[u] \in MaybeIndex(u)'
    BY <1>n, <1>2, <1>4, <1>5, <1>6
  <2> QED
    BY <1>5, <2>1, <2>2, <2>3 DEF LoopsOK
<1>9. HandoffOK'
  BY <1>1, <1>2, <1>3 DEF TypeOK, HandoffOK
<1> QED
  BY <1>1, <1>5, <1>8, <1>9, Frame DEF TypeOK

\* The window a list of active loops gives, after the drain or a choice.
LEMMA SetWindowTyped ==
    ASSUME TypeOK, SetWindow(loops, active)
    PROVE  totalLen' \in Nat /\ totalBars' \in Nat /\ position' \in Nat
<1>1. /\ loops \in [Track -> Seq(Shape)]
      /\ \A u \in Track : active[u] \in 0 .. Len(loops[u]) - 1 \union {NoLoop}
      /\ position \in Nat
  BY DEF TypeOK, LoopsOK, TransportOK, MaybeIndex, LoopIndex
<1>2. SetLength(loops, active) /\ WrapPosition
  BY DEF SetWindow
<1>3. totalLen' \in Nat /\ totalBars' \in Nat
  BY <1>1, <1>2, WindowIsTyped
<1> QED
  BY <1>1, <1>2, <1>3, WrapIsTyped

LEMMA DrainDoneTyped == ASSUME TypeOK, DrainDone PROVE TypeOK'
<1>1. /\ IF immediate THEN SetWindow(loops, active) ELSE UNCHANGED windowVars
      /\ immediate' = FALSE /\ phase' = "crossing"
      /\ UNCHANGED <<todo, halt, inbox, draining, transfers, settingVars, takeVars,
                     loopVars, tempoVars, playing>>
  BY DEF DrainDone
<1>2. totalLen' \in Nat /\ totalBars' \in Nat /\ position' \in Nat
  <2>1. CASE immediate
    BY <1>1, <2>1, SetWindowTyped
  <2>2. CASE ~immediate
    BY <1>1, <2>2 DEF TypeOK, TransportOK, windowVars
  <2> QED
    BY <2>1, <2>2
<1>3. TransportOK'
  BY <1>1, <1>2 DEF TypeOK, TransportOK, tempoVars
<1>4. ControlOK' /\ HandoffOK'
  BY <1>1 DEF TypeOK, ControlOK, HandoffOK
<1>5. UNCHANGED <<loops, transfers>>
  BY <1>1 DEF loopVars
<1> QED
  BY <1>1, <1>3, <1>4, <1>5, Frame DEF TypeOK

-----------------------------------------------------------------------------
(* Types: the block *)

LEMMA OversizedBlockTyped == ASSUME TypeOK, OversizedBlock PROVE TypeOK'
<1>1. /\ UNCHANGED <<todo, halt, settingVars, takeVars, loopVars, tempoVars, windowVars,
                     playing, handoffVars>>
      /\ phase' = "commands"
  BY DEF OversizedBlock
<1>2. ControlOK'
  BY <1>1 DEF TypeOK, ControlOK
<1>3. UNCHANGED <<loops, transfers, inbox, draining, immediate>>
  BY <1>1 DEF loopVars, handoffVars
<1> QED
  BY <1>1, <1>2, <1>3, Frame DEF TypeOK

\* An append never fills the buffer past its capacity.
LEMMA AppendToTyped ==
    ASSUME NEW n \in 0 .. maxRecordingSamples, NEW k \in Nat
    PROVE  AppendTo(n, k) \in 0 .. maxRecordingSamples
  BY CapacityIsNatural DEF AppendTo, Smaller

LEMMA ScanBlockTyped == ASSUME TypeOK, ScanBlock PROVE TypeOK'
<1>1. /\ phase' = "autostop" /\ todo' = 0
      /\ UNCHANGED <<halt, settingVars, tempoVars, windowVars, playing, handoffVars>>
  BY DEF ScanBlock
<1>2. ControlOK'
  BY <1>1, EngineAssumption DEF TypeOK, ControlOK
<1>3. UNCHANGED <<transfers, inbox, draining, immediate>>
  BY <1>1 DEF handoffVars
<1>4. BlockSize \in Nat /\ 0 \in 0 .. maxRecordingSamples
  BY EngineAssumption, CapacityIsNatural
<1>5. written \in [Track -> 0 .. maxRecordingSamples]
      /\ recState \in [Track -> {"Idle", "CountIn", "Recording"}]
  BY DEF TypeOK, TakesOK
<1>6. CASE ScanPlain
  <2>1. /\ written' = [t \in Track |-> IF recState[t] = "Recording"
                                       THEN AppendTo(written[t], BlockSize)
                                       ELSE written[t]]
        /\ UNCHANGED <<recState, loopVars>>
    BY <1>6 DEF ScanPlain
  <2>2. TakesOK'
    <3>1. \A t \in Track : AppendTo(written[t], BlockSize) \in 0 .. maxRecordingSamples
      BY <1>4, <1>5, AppendToTyped
    <3> QED
      BY <1>5, <2>1, <3>1 DEF TakesOK, maxRecordingSamples
  <2>3. UNCHANGED loops
    BY <2>1 DEF loopVars
  <2> QED
    BY <1>1, <1>2, <1>3, <2>1, <2>2, <2>3, Frame DEF TypeOK
<1>7. CASE ScanBarOne
  <2>1. /\ recState' = [t \in Track |-> IF recState[t] = "CountIn" THEN "Recording"
                                        ELSE recState[t]]
        /\ active' = [t \in Track |-> IF pending[t] = NoLoop THEN active[t]
                                      ELSE pending[t]]
        /\ uiLoop' = [t \in Track |-> IF pending[t] = NoLoop THEN uiLoop[t]
                                      ELSE pending[t]]
        /\ pending' = [t \in Track |-> NoLoop]
        /\ UNCHANGED loops
    BY <1>7 DEF ScanBarOne
  <2>2. PICK first \in BarOnes :
          written' = [t \in Track |->
              CASE recState[t] = "Recording" -> AppendTo(written[t], BlockSize)
                [] recState[t] = "CountIn" -> AppendTo(0, BlockSize - first)
                [] OTHER -> written[t]]
    BY <1>7 DEF ScanBarOne
  <2>3. BlockSize - first \in Nat
    BY <1>4, <2>2 DEF BarOnes
  <2>4. TakesOK'
    <3>1. \A t \in Track : AppendTo(written[t], BlockSize) \in 0 .. maxRecordingSamples
      BY <1>4, <1>5, AppendToTyped
    <3>2. AppendTo(0, BlockSize - first) \in 0 .. maxRecordingSamples
      BY <1>4, <2>3, AppendToTyped
    <3> QED
      BY <1>5, <2>1, <2>2, <3>1, <3>2 DEF TakesOK, maxRecordingSamples
  <2>5. LoopsOK'
    BY <2>1 DEF TypeOK, LoopsOK, MaybeIndex, LoopIndex, NoLoop
  <2> QED
    BY <1>1, <1>2, <1>3, <2>1, <2>4, <2>5, Frame DEF TypeOK
<1> QED
  BY <1>6, <1>7 DEF ScanBlock

LEMMA AutoStopTyped ==
    ASSUME TypeOK, NEW t \in Track, AutoStop(t) PROVE TypeOK'
<1>1. ControlOK'
  BY TrackIsInteger DEF AutoStop, TypeOK, ControlOK
<1> QED
  BY <1>1, FinishTyped DEF AutoStop

\* advance keeps the position in the window.
LEMMA AbsAtInWindow ==
    ASSUME TypeOK, NEW s \in Nat, Rolling PROVE AbsAt(s) \in Nat /\ AbsAt(s) < totalLen
<1>1. position + s \in Nat /\ totalLen \in Nat \ {0}
  BY DEF Rolling, TypeOK, TransportOK
<1> QED
  BY <1>1, Remainder DEF AbsAt

LEMMA EndBlockTyped == ASSUME TypeOK, EndBlock PROVE TypeOK'
<1>1. /\ phase' = "commands" /\ todo' = 0
      /\ position' = IF Rolling THEN AbsAt(BlockSize) ELSE position
      /\ UNCHANGED <<halt, settingVars, takeVars, loopVars, tempoVars, totalLen,
                     totalBars, playing, handoffVars>>
  BY DEF EndBlock
<1>2. ControlOK'
  BY <1>1, EngineAssumption DEF TypeOK, ControlOK
<1>3. position' \in Nat
  BY <1>1, EngineAssumption, AbsAtInWindow DEF TypeOK, TransportOK
<1>4. TransportOK'
  BY <1>1, <1>3 DEF TypeOK, TransportOK, tempoVars
<1>5. UNCHANGED <<loops, transfers, inbox, draining, immediate>>
  BY <1>1 DEF loopVars, handoffVars
<1> QED
  BY <1>1, <1>2, <1>4, <1>5, Frame DEF TypeOK

-----------------------------------------------------------------------------
(* Types: the other threads, and the theorem *)

LEMMA EngineFrame ==
    ASSUME TypeOK, UNCHANGED engineVars
    PROVE  /\ SettingsOK' /\ TakesOK' /\ LoopsOK' /\ TransportOK' /\ ControlOK'
           /\ loops' = loops /\ draining' = draining /\ immediate' = immediate
<1>1. UNCHANGED <<settingVars, takeVars, loopVars, tempoVars, windowVars, playing,
                  draining, immediate, controlVars>>
  BY DEF engineVars
<1>2. loops' = loops
  BY <1>1 DEF loopVars
<1> QED
  BY <1>1, <1>2, Frame

LEMMA ConvertActiveLoopTyped ==
    ASSUME TypeOK, NEW t \in Track, ConvertActiveLoop(t) PROVE TypeOK'
<1>1. /\ uiLoop[t] # NoLoop
      /\ transfers' = [transfers EXCEPT ![t] = Append(@, uiLoop[t])]
      /\ UNCHANGED <<inbox, engineVars>>
  BY DEF ConvertActiveLoop
<1>2. HandoffOK'
  BY <1>1, EngineFrame DEF TypeOK, HandoffOK
<1>3. uiLoop[t] \in LoopIndex(t) /\ uiLoop[t] \in Nat
  BY <1>1 DEF TypeOK, LoopsOK, MaybeIndex, LoopIndex
<1>4. transfers \in [Track -> Seq(Nat)]
      /\ \A u \in Track : \A k \in 1 .. Len(transfers[u]) :
            transfers[u][k] \in LoopIndex(u)
  BY DEF TypeOK, TransfersOK
<1>5. transfers' \in [Track -> Seq(Nat)]
  BY <1>1, <1>3, <1>4
<1>6. ASSUME NEW u \in Track, NEW k \in 1 .. Len(transfers'[u])
      PROVE  transfers'[u][k] \in LoopIndex(u)
  <2>1. CASE u = t
    <3>1. transfers'[t] = Append(transfers[t], uiLoop[t]) /\ transfers[t] \in Seq(Nat)
      BY <1>1, <1>4
    <3>2. CASE k <= Len(transfers[t])
      BY <1>4, <2>1, <3>1, <3>2
    <3>3. CASE k > Len(transfers[t])
      BY <1>3, <2>1, <3>1, <3>3
    <3> QED
      BY <3>1, <3>2, <3>3
  <2>2. CASE u # t
    BY <1>1, <1>4, <2>2
  <2> QED
    BY <2>1, <2>2
<1>7. TransfersOK'
  BY <1>1, <1>5, <1>6, EngineFrame DEF TransfersOK, LoopIndex
<1> QED
  BY <1>1, <1>2, <1>7, EngineFrame DEF TypeOK

\* Taking the oldest transfer off a track's list.
LEMMA TransferEnds ==
    ASSUME TypeOK, NEW t \in Track, transfers[t] # <<>>, UNCHANGED engineVars,
           transfers' = [transfers EXCEPT ![t] = Tail(@)]
    PROVE  TransfersOK'
<1>1. transfers \in [Track -> Seq(Nat)]
      /\ \A u \in Track : \A k \in 1 .. Len(transfers[u]) :
            transfers[u][k] \in LoopIndex(u)
  BY DEF TypeOK, TransfersOK
<1>2. transfers' \in [Track -> Seq(Nat)]
  BY <1>1
<1>3. ASSUME NEW u \in Track, NEW k \in 1 .. Len(transfers'[u])
      PROVE  transfers'[u][k] \in LoopIndex(u)
  <2>1. CASE u = t
    <3>1. transfers'[t] = Tail(transfers[t]) /\ transfers[t] \in Seq(Nat)
      BY <1>1
    <3>2. Len(Tail(transfers[t])) = Len(transfers[t]) - 1
          /\ Len(transfers[t]) \in Nat \ {0}
      BY <3>1
    <3>3. k \in 1 .. Len(transfers[t]) - 1
      BY <2>1, <3>1, <3>2
    <3>4. k + 1 \in 1 .. Len(transfers[t]) /\ Tail(transfers[t])[k] = transfers[t][k + 1]
      BY <3>1, <3>2, <3>3
    <3> QED
      BY <1>1, <2>1, <3>1, <3>4
  <2>2. CASE u # t
    BY <1>1, <2>2
  <2> QED
    BY <2>1, <2>2
<1> QED
  BY <1>2, <1>3, EngineFrame DEF TransfersOK, LoopIndex

LEMMA TransferTyped ==
    ASSUME TypeOK, NEW t \in Track, NEW a \in ActivateChoices,
           submitLoop(t, a) \/ ConvertFails(t)
    PROVE  TypeOK'
<1>1. /\ transfers[t] # <<>>
      /\ transfers' = [transfers EXCEPT ![t] = Tail(@)]
      /\ UNCHANGED engineVars
  BY DEF submitLoop, ConvertFails
<1>2. TransfersOK'
  BY <1>1, TransferEnds
<1>3. inbox' \in Seq(Entry)
  <2>1. CASE submitLoop(t, a)
    <3>1. Head(transfers[t]) \in LoopIndex(t) /\ loops[t] \in Seq(Shape)
      <4>1. transfers[t] \in Seq(Nat) /\ Head(transfers[t]) = transfers[t][1]
            /\ 1 \in 1 .. Len(transfers[t])
        BY <1>1 DEF TypeOK, TransfersOK
      <4> QED
        BY <4>1 DEF TypeOK, TransfersOK, LoopsOK
    <3>2. LoopAt(loops[t], Head(transfers[t])) \in Shape
      BY <3>1, LoopAtIsShape DEF LoopIndex
    <3>3. [track |-> t, activate |-> a, loop |-> LoopAt(loops[t], Head(transfers[t]))]
            \in Entry
      BY <3>2, EngineAssumption DEF Entry
    <3> QED
      BY <2>1, <3>3 DEF submitLoop, TypeOK, HandoffOK
  <2>2. CASE ConvertFails(t)
    BY <2>2 DEF ConvertFails, TypeOK, HandoffOK
  <2> QED
    BY <2>1, <2>2
<1>4. HandoffOK'
  BY <1>1, <1>3, EngineFrame DEF TypeOK, HandoffOK
<1> QED
  BY <1>1, <1>2, <1>4, EngineFrame DEF TypeOK

LEMMA InitTyped == Init => TypeOK
<1> SUFFICES ASSUME Init PROVE TypeOK
  OBVIOUS
<1> USE DEF Init
<1>1. SettingsOK
  BY EngineAssumption DEF SettingsOK
<1>2. TakesOK
  BY CapacityIsNatural DEF TakesOK
<1>3. LoopsOK
  BY DEF LoopsOK, MaybeIndex, LoopIndex, NoLoop
<1>4. TransportOK
  BY DEF TransportOK, NoTempo
<1>5. TransfersOK
  BY DEF TransfersOK
<1>6. HandoffOK
  <2>1. inbox = <<>> /\ draining = <<>> /\ immediate = FALSE
    OBVIOUS
  <2> HIDE DEF Init
  <2>2. inbox \in Seq(Entry) /\ draining \in Seq(Entry)
    BY <2>1
  <2>3. immediate \in BOOLEAN
    BY <2>1
  <2> QED
    BY <2>2, <2>3 DEF HandoffOK
<1>7. ControlOK
  <2>1. phase = "commands" /\ todo = 0 /\ halt = FALSE
    OBVIOUS
  <2>2. 0 \in 0 .. NumTracks
    BY EngineAssumption
  <2> HIDE DEF Init
  <2> QED
    BY <2>1, <2>2 DEF ControlOK
<1> QED
  BY <1>1, <1>2, <1>3, <1>4, <1>5, <1>6, <1>7 DEF TypeOK

LEMMA NextTyped == TypeOK /\ [Next]_vars => TypeOK'
<1> SUFFICES ASSUME TypeOK, [Next]_vars PROVE TypeOK'
  OBVIOUS
<1>1. CASE HandleCommand
  BY <1>1, HandleCommandTyped
<1>2. CASE \E t \in Track : StopTake(t) \/ CancelCountIn(t)
  BY <1>2, StoppingTyped
<1>3. CASE StopDone
  BY <1>3, StopDoneTyped
<1>4. CASE SkipInbox \/ TakeInbox
  BY <1>4, InboxTyped
<1>5. CASE DrainEntry \/ DrainDone
  BY <1>5, DrainEntryTyped, DrainDoneTyped
<1>6. CASE OversizedBlock \/ ScanBlock
  BY <1>6, OversizedBlockTyped, ScanBlockTyped
<1>7. CASE \E t \in Track : AutoStop(t)
  BY <1>7, AutoStopTyped
<1>8. CASE EndBlock
  BY <1>8, EndBlockTyped
<1>9. CASE \E t \in Track : \/ ConvertActiveLoop(t)
                            \/ \E a \in ActivateChoices : submitLoop(t, a)
                            \/ ConvertFails(t)
  <2>1. PICK t \in Track : \/ ConvertActiveLoop(t)
                           \/ \E a \in ActivateChoices : submitLoop(t, a)
                           \/ ConvertFails(t)
    BY <1>9
  <2>2. CASE ConvertActiveLoop(t)
    BY <2>2, ConvertActiveLoopTyped
  <2>3. CASE \E a \in ActivateChoices : submitLoop(t, a)
    BY <2>3, TransferTyped
  <2>4. CASE ConvertFails(t)
    <3>1. TransfersOK' /\ UNCHANGED <<inbox, engineVars>>
      BY <2>4, TransferEnds DEF ConvertFails
    <3> QED
      BY <3>1, EngineFrame DEF TypeOK, HandoffOK
  <2> QED
    BY <2>1, <2>2, <2>3, <2>4
<1>10. CASE UNCHANGED vars
  <2>1. UNCHANGED <<settingVars, takeVars, loopVars, tempoVars, windowVars, playing,
                    handoffVars, controlVars>>
    BY <1>10 DEF vars
  <2>2. UNCHANGED <<loops, transfers, inbox, draining, immediate>>
    BY <2>1 DEF loopVars, handoffVars
  <2> QED
    BY <2>1, <2>2, Frame DEF TypeOK
<1> QED
  BY <1>1, <1>2, <1>3, <1>4, <1>5, <1>6, <1>7, <1>8, <1>9, <1>10 DEF Next

\* Every variable keeps its domain, and every index of a loop (of the one that
\* plays, waits, is shown, or is being converted) is the index of a loop its track
\* has: Track::activeLoop, which does not check it (Track.h:79), reads a loop.
THEOREM TypeCorrect == Spec => []TypeOK
  BY InitTyped, NextTyped, PTL DEF Spec

-----------------------------------------------------------------------------
(* Takes, the transport and the buffers *)

\* What makes TakesNeedTransport inductive: stopAllRecordings has ended the takes
\* of the tracks it has passed, and the transport only stops when it has passed
\* all of them.
Stopped == phase = "stopping" => \A t \in Track : t < todo => recState[t] = "Idle"
HaltIsPlanned == halt => phase = "stopping"

TakesInv == TakesNeedTransport /\ BufferEmptyUnlessRecording /\ Stopped /\ HaltIsPlanned

\* A take that ends leaves an idle track with an empty buffer.
LEMMA FinishKeepsTakes ==
    ASSUME TypeOK, TakesInv, NEW t \in Track, finishRecording(t), UNCHANGED halt
    PROVE  /\ TakesNeedTransport' /\ BufferEmptyUnlessRecording'
           /\ recState' = [recState EXCEPT ![t] = "Idle"]
<1>1. /\ recState' = [recState EXCEPT ![t] = "Idle"]
      /\ written' = [written EXCEPT ![t] = 0]
      /\ playing' = playing
  BY DEF finishRecording
<1>2. recState \in [Track -> {"Idle", "CountIn", "Recording"}]
      /\ written \in [Track -> 0 .. maxRecordingSamples]
  BY DEF TypeOK, TakesOK
<1>3. TakesNeedTransport'
  BY <1>1, <1>2 DEF TakesInv, TakesNeedTransport
<1>4. BufferEmptyUnlessRecording'
  BY <1>1, <1>2 DEF TakesInv, BufferEmptyUnlessRecording
<1> QED
  BY <1>1, <1>3, <1>4

\* A step that leaves the takes alone and stops neither the transport nor a stop.
LEMMA TakesUntouched ==
    ASSUME TakesInv, UNCHANGED takeVars, playing => playing',
           Stopped', HaltIsPlanned'
    PROVE  TakesInv'
  BY DEF TakesInv, TakesNeedTransport, BufferEmptyUnlessRecording, takeVars

LEMMA CommandKeepsTakes == ASSUME TypeOK, TakesInv, HandleCommand PROVE TakesInv'
<1>1. phase = "commands"
  BY DEF HandleCommand
<1>2. PICK c \in Commands : Handle(c)
  BY DEF HandleCommand
<1>3. CASE \E h \in BOOLEAN : EnterStop(h)
  <2>1. UNCHANGED takeVars /\ playing' = playing /\ phase' = "stopping" /\ todo' = 0
    BY <1>3 DEF EnterStop
  <2>2. Stopped' /\ HaltIsPlanned'
    BY <2>1, TrackIsInteger DEF Stopped, HaltIsPlanned
  <2> QED
    BY <2>1, <2>2, TakesUntouched
<1>4. CASE StartRecord
  <2> DEFINE started == {t \in Track : armed[t] /\ recState[t] = "Idle"}
  <2>1. /\ written' = [t \in Track |-> IF t \in started THEN 0 ELSE written[t]]
        /\ \A t \in Track : t \notin started => recState'[t] = recState[t]
        /\ playing' = (playing \/ started # {})
        /\ UNCHANGED controlVars
    BY <1>4 DEF StartRecord
  <2>2. TakesNeedTransport'
    BY <2>1 DEF TakesInv, TakesNeedTransport
  <2>3. BufferEmptyUnlessRecording'
    BY <2>1 DEF TakesInv, BufferEmptyUnlessRecording
  <2>4. Stopped' /\ HaltIsPlanned'
    BY <1>1, <2>1 DEF TakesInv, Stopped, HaltIsPlanned, controlVars
  <2> QED
    BY <2>2, <2>3, <2>4 DEF TakesInv
<1>5. CASE UNCHANGED <<takeVars, controlVars>> /\ (playing' = playing \/ playing')
  <2>1. Stopped' /\ HaltIsPlanned'
    BY <1>1, <1>5 DEF TakesInv, Stopped, HaltIsPlanned, controlVars
  <2> QED
    BY <1>5, <2>1, TakesUntouched
<1>6. CASE SetPlaying(c.arg = 1) \/ TogglePlay
  <2>1. PICK on \in BOOLEAN : SetPlaying(on)
    BY <1>6 DEF TogglePlay
  <2> QED
    BY <1>3, <1>5, <2>1 DEF SetPlaying, Stay
<1>7. CASE StopRecord
  BY <1>3, <1>7 DEF StopRecord
<1>8. CASE \/ SetTrackArmed(c.track, c.arg = 1) \/ SelectTrack(c.track)
           \/ SetTrackBars(c.track, c.arg) \/ SetTrackMode(c.track, c.arg)
  BY <1>5, <1>8 DEF SetTrackArmed, SelectTrack, SetTrackBars, SetTrackMode, SetTrack, Stay
<1>9. CASE SetBpm(c.arg) \/ SetBeatsPerBar(c.arg) \/ SetLatencyCompensation(c.arg)
           \/ ResetPosition
  BY <1>5, <1>9 DEF SetBpm, SetBeatsPerBar, SetLatencyCompensation, SetTempo,
     ResetPosition, Stay
<1>10. CASE \/ CycleNextLoop(c.track) \/ CyclePrevLoop(c.track)
            \/ SwitchActiveLoop(c.track, c.arg) \/ ClearActiveLoop(c.track)
  BY <1>5, <1>10 DEF CycleNextLoop, CyclePrevLoop, SwitchActiveLoop, ChooseLoop,
     ClearActiveLoop, Stay
<1> QED
  BY <1>2, <1>4, <1>6, <1>7, <1>8, <1>9, <1>10 DEF Handle

LEMMA StopKeepsTakes ==
    ASSUME TypeOK, TakesInv, NEW t \in Track, StopTake(t) \/ CancelCountIn(t)
    PROVE  TakesInv'
<1>1. /\ phase = "stopping" /\ t >= todo /\ todo' = t + 1
      /\ UNCHANGED <<phase, halt>>
      /\ \A u \in Track : u >= todo /\ u < t => recState[u] = "Idle"
  BY DEF StopTake, CancelCountIn, IsNextToStop
<1>2. \A u \in Track : u < todo => recState[u] = "Idle"
  BY <1>1 DEF TakesInv, Stopped
<1>3. /\ TakesNeedTransport' /\ BufferEmptyUnlessRecording'
      /\ recState' = [recState EXCEPT ![t] = "Idle"]
  <2>1. CASE StopTake(t)
    BY <1>1, <2>1, FinishKeepsTakes DEF StopTake
  <2>2. CASE CancelCountIn(t)
    BY <2>2 DEF CancelCountIn, TypeOK, TakesOK, TakesInv, TakesNeedTransport,
       BufferEmptyUnlessRecording
  <2> QED
    BY <2>1, <2>2
<1>4. Stopped'
  <2> SUFFICES ASSUME NEW u \in Track, u < t + 1 PROVE recState'[u] = "Idle"
    BY <1>1 DEF Stopped
  <2>1. u = t \/ u < todo \/ (u >= todo /\ u < t)
    BY TrackIsInteger DEF TypeOK, ControlOK
  <2> QED
    BY <1>1, <1>2, <1>3, <2>1 DEF TypeOK, TakesOK
<1> QED
  BY <1>1, <1>3, <1>4 DEF TakesInv, HaltIsPlanned

LEMMA StopDoneKeepsTakes == ASSUME TypeOK, TakesInv, StopDone PROVE TakesInv'
<1>1. /\ phase = "stopping" /\ phase' = "commands" /\ halt' = FALSE
      /\ \A t \in Track : t >= todo => recState[t] = "Idle"
      /\ UNCHANGED takeVars
  BY DEF StopDone
<1>2. \A t \in Track : recState[t] = "Idle"
  BY <1>1, TrackIsInteger DEF TakesInv, Stopped, TypeOK, ControlOK
<1>3. TakesNeedTransport'
  BY <1>1, <1>2 DEF TakesNeedTransport, takeVars
<1>4. BufferEmptyUnlessRecording'
  BY <1>1 DEF TakesInv, BufferEmptyUnlessRecording, takeVars
<1>5. Stopped' /\ HaltIsPlanned'
  BY <1>1 DEF Stopped, HaltIsPlanned
<1> QED
  BY <1>3, <1>4, <1>5 DEF TakesInv

\* The bar one at which a count-in becomes a take only exists while the transport
\* runs, and only the tracks that record write to their buffers.
LEMMA ScanKeepsTakes == ASSUME TypeOK, TakesInv, ScanBlock PROVE TakesInv'
<1>1. phase = "crossing" /\ phase' = "autostop" /\ UNCHANGED <<halt, playing>>
      /\ (ScanPlain \/ ScanBarOne)
  BY DEF ScanBlock
<1>2. Stopped' /\ HaltIsPlanned'
  BY <1>1 DEF TakesInv, Stopped, HaltIsPlanned
<1>3. /\ \A t \in Track : recState'[t] # "Idle" => recState[t] # "Idle"
      /\ \A t \in Track : recState'[t] # "Recording"
                            => recState[t] # "Recording" /\ written'[t] = written[t]
  <2>1. CASE ScanPlain
    BY <2>1 DEF ScanPlain
  <2>2. CASE ScanBarOne
    <3>1. recState' = [t \in Track |-> IF recState[t] = "CountIn" THEN "Recording"
                                      ELSE recState[t]]
      BY <2>2 DEF ScanBarOne
    <3>2. PICK first \in BarOnes :
            written' = [t \in Track |->
              CASE recState[t] = "Recording" -> AppendTo(written[t], BlockSize)
                [] recState[t] = "CountIn" -> AppendTo(0, BlockSize - first)
                [] OTHER -> written[t]]
      BY <2>2 DEF ScanBarOne
    <3> QED
      BY <3>1, <3>2
  <2> QED
    BY <1>1, <2>1, <2>2
<1> QED
  BY <1>1, <1>2, <1>3 DEF TakesInv, TakesNeedTransport, BufferEmptyUnlessRecording

LEMMA AutoStopKeepsTakes ==
    ASSUME TypeOK, TakesInv, NEW t \in Track, AutoStop(t) PROVE TakesInv'
<1>1. phase = "autostop" /\ UNCHANGED <<phase, halt>> /\ finishRecording(t)
  BY DEF AutoStop
<1>2. TakesNeedTransport' /\ BufferEmptyUnlessRecording'
  BY <1>1, FinishKeepsTakes
<1> QED
  BY <1>1, <1>2 DEF TakesInv, Stopped, HaltIsPlanned

LEMMA NextKeepsTakes == TypeOK /\ TakesInv /\ [Next]_vars => TakesInv'
<1> SUFFICES ASSUME TypeOK, TakesInv, [Next]_vars PROVE TakesInv'
  OBVIOUS
<1>1. CASE HandleCommand
  BY <1>1, CommandKeepsTakes
<1>2. CASE \E t \in Track : StopTake(t) \/ CancelCountIn(t)
  BY <1>2, StopKeepsTakes
<1>3. CASE StopDone
  BY <1>3, StopDoneKeepsTakes
<1>4. CASE SkipInbox \/ TakeInbox \/ DrainEntry \/ DrainDone \/ OversizedBlock \/ EndBlock
  <2>1. /\ UNCHANGED <<takeVars, playing, halt>>
        /\ phase # "stopping" /\ phase' # "stopping"
    BY <1>4 DEF SkipInbox, TakeInbox, DrainEntry, DrainDone, OversizedBlock, EndBlock,
       controlVars
  <2>2. Stopped' /\ HaltIsPlanned'
    BY <2>1 DEF TakesInv, Stopped, HaltIsPlanned
  <2> QED
    BY <2>1, <2>2, TakesUntouched
<1>5. CASE ScanBlock
  BY <1>5, ScanKeepsTakes
<1>6. CASE \E t \in Track : AutoStop(t)
  BY <1>6, AutoStopKeepsTakes
<1>7. ASSUME UNCHANGED <<takeVars, playing, controlVars>> PROVE TakesInv'
  <2>1. Stopped' /\ HaltIsPlanned'
    BY <1>7 DEF TakesInv, Stopped, HaltIsPlanned, takeVars, controlVars
  <2> QED
    BY <1>7, <2>1, TakesUntouched
<1>8. CASE \E t \in Track : \/ ConvertActiveLoop(t)
                            \/ \E a \in ActivateChoices : submitLoop(t, a)
                            \/ ConvertFails(t)
  BY <1>7, <1>8 DEF ConvertActiveLoop, submitLoop, ConvertFails, engineVars
<1>9. CASE UNCHANGED vars
  BY <1>7, <1>9 DEF vars
<1> QED
  BY <1>1, <1>2, <1>3, <1>4, <1>5, <1>6, <1>8, <1>9 DEF Next

LEMMA TakesInvHolds == Spec => []TakesInv
<1>1. Init => TakesInv
  BY DEF Init, TakesInv, TakesNeedTransport, BufferEmptyUnlessRecording, Stopped,
     HaltIsPlanned
<1> QED
  BY <1>1, NextKeepsTakes, TypeCorrect, PTL DEF Spec

\* No track is left recording or counting in by a transport that has stopped: such
\* a take would never be captured, completed or started (SetPlaying and TogglePlay,
\* LooperEngine.cpp:337-349).
THEOREM TakesRunWithTransport == Spec => []TakesNeedTransport
<1>1. TakesInv => TakesNeedTransport
  BY DEF TakesInv
<1> QED
  BY <1>1, TakesInvHolds, PTL

\* However a take ends, nothing of it is left in the buffer for the next one, and
\* no track but a recording one writes to its buffer (finishRecording,
\* LooperEngine.cpp:112-196).
THEOREM BuffersAreEmptied == Spec => []BufferEmptyUnlessRecording
<1>1. TakesInv => BufferEmptyUnlessRecording
  BY DEF TakesInv
<1> QED
  BY <1>1, TakesInvHolds, PTL

-----------------------------------------------------------------------------
(* The position *)

LEMMA FinishKeepsPosition ==
    ASSUME PositionInWindow, NEW t \in Track, finishRecording(t)
    PROVE  PositionInWindow'
<1>1. CASE Reject(t) \/ Merge(t)
  BY <1>1 DEF Reject, Merge, PositionInWindow, windowVars
<1>2. CASE KeepFirst(t) \/ KeepNext(t)
  BY <1>2 DEF KeepFirst, KeepNext, KeepAs, PositionInWindow
<1> QED
  BY <1>1, <1>2 DEF finishRecording

LEMMA WindowStepKeepsPosition ==
    ASSUME TypeOK, PositionInWindow, totalLen' \in Nat, WrapPosition
    PROVE  PositionInWindow'
  BY WrapIsTyped DEF TypeOK, TransportOK, PositionInWindow

LEMMA NextKeepsPosition ==
    TypeOK /\ TypeOK' /\ PositionInWindow /\ [Next]_vars => PositionInWindow'
<1> SUFFICES ASSUME TypeOK, TypeOK', PositionInWindow, [Next]_vars PROVE PositionInWindow'
  OBVIOUS
<1>0. totalLen \in Nat /\ position \in Nat /\ totalLen' \in Nat
  BY DEF TypeOK, TransportOK
<1>1. ASSUME UNCHANGED <<totalLen, position>> PROVE PositionInWindow'
  BY <1>1 DEF PositionInWindow
<1>2. CASE HandleCommand
  <2>1. PICK c \in Commands : Handle(c)
    BY <1>2 DEF HandleCommand
  <2>2. ASSUME NEW ix, NEW t, ChooseLoop(t, ix) PROVE PositionInWindow'
    <3>1. WrapPosition
      BY <2>2 DEF ChooseLoop, SetWindow
    <3> QED
      BY <1>0, <3>1, WindowStepKeepsPosition
  <2>3. CASE \/ CycleNextLoop(c.track) \/ CyclePrevLoop(c.track)
             \/ SwitchActiveLoop(c.track, c.arg)
    BY <2>2, <2>3 DEF CycleNextLoop, CyclePrevLoop, SwitchActiveLoop
  <2>4. CASE ClearActiveLoop(c.track)
    BY <1>1, <2>4 DEF ClearActiveLoop, windowVars
  <2>5. CASE ResetPosition
    BY <1>0, <2>5 DEF ResetPosition, PositionInWindow
  <2>6. CASE \/ SetPlaying(c.arg = 1) \/ TogglePlay \/ StartRecord \/ StopRecord
    BY <1>1, <2>6 DEF SetPlaying, TogglePlay, StartRecord, StopRecord, EnterStop,
       windowVars
  <2>7. CASE \/ SetTrackArmed(c.track, c.arg = 1) \/ SelectTrack(c.track)
             \/ SetTrackBars(c.track, c.arg) \/ SetTrackMode(c.track, c.arg)
    BY <1>1, <2>7 DEF SetTrackArmed, SelectTrack, SetTrackBars, SetTrackMode, SetTrack,
       windowVars
  <2>8. CASE SetBpm(c.arg) \/ SetBeatsPerBar(c.arg) \/ SetLatencyCompensation(c.arg)
    BY <1>1, <2>8 DEF SetBpm, SetBeatsPerBar, SetLatencyCompensation, SetTempo,
       windowVars
  <2> QED
    BY <2>1, <2>3, <2>4, <2>5, <2>6, <2>7, <2>8 DEF Handle
<1>3. CASE \E t \in Track : StopTake(t) \/ AutoStop(t)
  BY <1>3, FinishKeepsPosition DEF StopTake, AutoStop
<1>4. CASE \/ \E t \in Track : CancelCountIn(t)
           \/ StopDone \/ SkipInbox \/ TakeInbox \/ DrainEntry \/ OversizedBlock
  BY <1>1, <1>4 DEF CancelCountIn, StopDone, SkipInbox, TakeInbox, DrainEntry,
     OversizedBlock, windowVars
<1>5. CASE DrainDone
  <2>1. WrapPosition \/ UNCHANGED <<totalLen, position>>
    BY <1>5 DEF DrainDone, SetWindow, windowVars
  <2> QED
    BY <1>0, <1>1, <2>1, WindowStepKeepsPosition
<1>6. CASE ScanBlock
  BY <1>1, <1>6 DEF ScanBlock, windowVars
<1>7. CASE EndBlock
  <2>1. totalLen' = totalLen
        /\ position' = IF Rolling THEN AbsAt(BlockSize) ELSE position
    BY <1>7 DEF EndBlock
  <2>2. CASE Rolling
    BY <2>1, <2>2, AbsAtInWindow, EngineAssumption DEF PositionInWindow
  <2>3. CASE ~Rolling
    BY <1>1, <2>1, <2>3
  <2> QED
    BY <2>2, <2>3
<1>8. CASE \E t \in Track : \/ ConvertActiveLoop(t)
                            \/ \E a \in ActivateChoices : submitLoop(t, a)
                            \/ ConvertFails(t)
  BY <1>1, <1>8 DEF ConvertActiveLoop, submitLoop, ConvertFails, engineVars, windowVars
<1>9. CASE UNCHANGED vars
  BY <1>1, <1>9 DEF vars, windowVars
<1> QED
  BY <1>2, <1>3, <1>4, <1>5, <1>6, <1>7, <1>8, <1>9 DEF Next

\* Whatever shortens the window (another loop is chosen, a transfer is activated,
\* a take is kept) the transport stays inside it (setTotalLengthSamples,
\* Transport.h:26-31).
THEOREM PositionStaysInWindow == Spec => []PositionInWindow
<1>1. Init => PositionInWindow
  BY DEF Init, PositionInWindow
<1> QED
  BY <1>1, NextKeepsPosition, TypeCorrect, PTL DEF Spec
-----------------------------------------------------------------------------
(* The tempo *)

\* The ways a command touches the tempo: none but SetBpm does.
LEMMA CommandKeepsTempo ==
    ASSUME NEW c \in Commands, c.kind # "SetBpm", Handle(c) PROVE bpm' = bpm
BY DEF Handle, SetPlaying, TogglePlay, EnterStop, StartRecord, StopRecord, ResetPosition,
       SetBeatsPerBar, SetLatencyCompensation, SetTempo, SetTrackArmed, SelectTrack,
       SetTrackBars, SetTrackMode, SetTrack, CycleNextLoop, CyclePrevLoop,
       SwitchActiveLoop, ClearActiveLoop, ChooseLoop, tempoVars

LEMMA FinishKeepsTempo ==
    ASSUME NEW t \in Track, bpm # NoTempo, finishRecording(t) PROVE bpm' = bpm
BY DEF finishRecording, Reject, Merge, KeepFirst, KeepNext

\* Once the first loop has set the tempo no take detects another one: only the
\* command SetBpm could change it, and nothing in the UI calls EngineBridge::setBpm
\* (LooperEngine.cpp:167-179, 355-360; EngineBridge.h:29).
THEOREM TempoIsLocked ==
    ASSUME \A c \in Commands : c.kind # "SetBpm"
    PROVE  Spec => TempoStaysLocked
<1>1. ASSUME [Next]_vars PROVE [bpm # NoTempo => bpm' = bpm]_bpm
  <2> SUFFICES ASSUME bpm # NoTempo PROVE bpm' = bpm
    OBVIOUS
  <2>1. CASE HandleCommand
    BY <2>1, CommandKeepsTempo DEF HandleCommand
  <2>2. CASE \E t \in Track : StopTake(t) \/ CancelCountIn(t)
    BY <2>2, FinishKeepsTempo DEF StopTake, CancelCountIn, tempoVars
  <2>3. CASE \E t \in Track : AutoStop(t)
    BY <2>3, FinishKeepsTempo DEF AutoStop
  <2>4. CASE StopDone \/ SkipInbox \/ TakeInbox \/ DrainEntry \/ DrainDone
    BY <2>4 DEF StopDone, SkipInbox, TakeInbox, DrainEntry, DrainDone, tempoVars
  <2>5. CASE OversizedBlock \/ ScanBlock \/ EndBlock
    BY <2>5 DEF OversizedBlock, ScanBlock, EndBlock, tempoVars
  <2>6. CASE \E t \in Track : \/ ConvertActiveLoop(t)
                              \/ \E a \in ActivateChoices : submitLoop(t, a)
                              \/ ConvertFails(t)
    BY <2>6 DEF ConvertActiveLoop, submitLoop, ConvertFails, engineVars, tempoVars
  <2>7. CASE UNCHANGED vars
    BY <2>7 DEF vars, tempoVars
  <2> QED
    BY <1>1, <2>1, <2>2, <2>3, <2>4, <2>5, <2>6, <2>7 DEF Next
<1> QED
  BY <1>1, PTL DEF Spec, TempoStaysLocked
=============================================================================
