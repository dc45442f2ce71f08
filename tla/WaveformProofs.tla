--------------------------- MODULE WaveformProofs ---------------------------
(***************************************************************************)
(* The waveform view for any loops of any length, peaks of any size, any   *)
(* viewport and any number of changes: what is kept of a loop, what the    *)
(* overlay of a count-in tells, and where the lines of the grid are.       *)
(***************************************************************************)
EXTENDS Waveform, WaveformFrame, TLAPS

-----------------------------------------------------------------------------
(* Arithmetic *)

\* A quotient, times its divisor, is less than a divisor away.
LEMMA QuotientIsClose ==
    ASSUME NEW x \in Int, NEW n \in Nat \ {0}
    PROVE  x \div n \in Int /\ (x \div n) * n <= x /\ x < (x \div n) * n + n
  OBVIOUS

\* The quotient rounded up, written as the code's ceil is here.
LEMMA CeilingIsClose ==
    ASSUME NEW x \in Int, NEW n \in Nat \ {0}
    PROVE  LET q == -((-x) \div n)
           IN  q \in Int /\ x <= q * n /\ (q - 1) * n < x
<1> DEFINE r == (-x) \div n
<1>1. r \in Int /\ r * n <= -x /\ -x < r * n + n
  BY QuotientIsClose
<1> HIDE DEF r
<1>2. (-r) * n = -(r * n) /\ (-r - 1) * n = -(r * n) - n /\ r * n \in Int
  BY <1>1
<1>3. -r \in Int /\ x <= (-r) * n /\ (-r - 1) * n < x
  BY <1>1, <1>2
<1> QED
  BY <1>3 DEF r

LEMMA ProductOrder ==
    ASSUME NEW a \in Int, NEW b \in Int, NEW n \in Nat \ {0}
    PROVE  (a * n < b * n <=> a < b) /\ (a * n <= b * n <=> a <= b)
  OBVIOUS

-----------------------------------------------------------------------------
(* The peaks *)

LEMMA PeaksCover ==
    ASSUME NEW l \in Loop
    PROVE  /\ Length[l] \in Nat \ {0}
           /\ PeakCount(l) \in Nat \ {0} /\ PeakCount(l) * SamplesPerPeak >= Length[l]
           /\ WriteCount(l) \in 1 .. PeakCount(l)
           /\ WriteCount(l) = PeakCount(l) \/ WriteCount(l) = MaxPeakCount
<1> DEFINE x == Length[l] + SamplesPerPeak - 1
<1>1. Length[l] \in Nat \ {0} /\ SamplesPerPeak \in Nat \ {0} /\ MaxPeakCount \in Nat \ {0}
  BY WaveformAssumption
<1>2. x \in Nat /\ PeakCount(l) = x \div SamplesPerPeak
  BY <1>1 DEF PeakCount
<1> HIDE DEF x
<1>3. PeakCount(l) \in Int /\ x < PeakCount(l) * SamplesPerPeak + SamplesPerPeak
  BY <1>1, <1>2, QuotientIsClose
<1>4. PeakCount(l) * SamplesPerPeak \in Int
  BY <1>1, <1>3
<1>5. PeakCount(l) * SamplesPerPeak >= Length[l]
  BY <1>1, <1>3, <1>4 DEF x
<1>6. 0 * SamplesPerPeak < PeakCount(l) * SamplesPerPeak
  BY <1>1, <1>4, <1>5
<1>7. 0 < PeakCount(l)
  BY <1>1, <1>3, <1>6, ProductOrder
<1> QED
  BY <1>1, <1>3, <1>5, <1>7 DEF WriteCount

Located(f) == DOMAIN f = Loop /\ \A l \in Loop : DOMAIN f[l] = Location(l)

\* Samples are never newer than the version of their loop; the view never ahead of the
\* audio thread.
StoredInv ==
    /\ Located(own) /\ Located(seen) /\ Located(released)
    /\ \A l \in Loop : \A i \in Location(l) :
         /\ own[l][i] \in 0 .. MaxVersion /\ own[l][i] <= own[l][Version]
         /\ released[l][i] \in 0 .. own[l][i] /\ seen[l][i] \in 0 .. own[l][i]

\* The peaks of a frame in progress are fewer than those of its loop; the cache is
\* complete.
FrameInv ==
    /\ {active, hand, cache.loop} \subseteq Loop \union {NoLoop}
    /\ frame \in {"idle", "version", "peaks"}
    /\ frame \in {"version", "peaks"} => hand \in Loop
    /\ frame = "peaks" => scratch \in Seq(Nat) /\ Len(scratch) < WriteCount(hand)
    /\ cache.loop # NoLoop => Len(cache.peaks) = WriteCount(cache.loop)

LEMMA InitView == Init => StoredInv /\ FrameInv
<1> SUFFICES ASSUME Init PROVE StoredInv /\ FrameInv
  OBVIOUS
<1>1. own = [l \in Loop |-> [i \in Location(l) |-> 0]] /\ seen = own /\ released = own
  BY DEF Init
<1>2. \A l \in Loop : Version \in Location(l)
  BY DEF Location
<1>3. StoredInv
  BY <1>1, <1>2, WaveformAssumption DEF StoredInv, Located
<1>4. FrameInv
  BY DEF Init, FrameInv, NoPeaks
<1> QED
  BY <1>3, <1>4

\* The audio thread stores under a version that is newer than all it has stored.
LEMMA StoreKeepsStored ==
    ASSUME StoredInv, NEW l \in Loop, NEW g \in [Location(l) -> 0 .. MaxVersion],
           own' = [own EXCEPT ![l] = g],
           \A i \in Location(l) : own[l][i] <= g[i] /\ g[i] <= g[Version],
           UNCHANGED seen, released' = own' \/ released' = released
    PROVE  StoredInv'
<1>1. own'[l] = g /\ \A m \in Loop \ {l} : own'[m] = own[m]
  BY DEF StoredInv, Located
<1>2. Located(own') /\ Located(seen') /\ Located(released')
  BY <1>1 DEF StoredInv, Located
<1>3. ASSUME NEW m \in Loop, NEW i \in Location(m)
      PROVE  /\ own'[m][i] \in 0 .. MaxVersion /\ own'[m][i] <= own'[m][Version]
             /\ own[m][i] \in Nat /\ own[m][i] <= own'[m][i]
             /\ released[m][i] \in 0 .. own[m][i] /\ seen[m][i] \in 0 .. own[m][i]
  <2>1. CASE m = l
    BY <1>1, <1>3, <2>1, WaveformAssumption DEF StoredInv
  <2>2. CASE m # l
    BY <1>1, <1>3, <2>2, WaveformAssumption DEF StoredInv
  <2> QED
    BY <2>1, <2>2
<1>4. ASSUME NEW m \in Loop, NEW i \in Location(m)
      PROVE  released'[m][i] \in 0 .. own'[m][i] /\ seen'[m][i] \in 0 .. own'[m][i]
  <2>1. own[m][i] \in Nat /\ own'[m][i] \in Nat /\ own[m][i] <= own'[m][i]
    BY <1>3, <1>4, WaveformAssumption
  <2>2. released[m][i] \in 0 .. own[m][i] /\ seen'[m][i] \in 0 .. own[m][i]
    BY <1>3, <1>4
  <2>3. released'[m][i] = own'[m][i] \/ released'[m][i] = released[m][i]
    OBVIOUS
  <2> QED
    BY <2>1, <2>2, <2>3
<1> QED
  BY <1>2, <1>3, <1>4 DEF StoredInv, Located

LEMMA StoredStep ==
    ASSUME StoredInv, FrameInv, [Next]_vars PROVE StoredInv'
<1>0. \A l \in Loop : Version \in Location(l)
  BY DEF Location
<1>1. CASE UNCHANGED <<own, released, seen>>
  BY <1>1 DEF StoredInv, Located
<1>2. ASSUME NEW l \in Loop, Keep(l) PROVE StoredInv'
  <2> DEFINE g == [i \in Location(l) |-> 1]
  <2>1. own' = [own EXCEPT ![l] = g] /\ UNCHANGED seen /\ released' = own'
        /\ ~ (own[l][Version] > 0)
    BY <1>2 DEF Keep, Kept, Publish
  <2>2. g \in [Location(l) -> 0 .. MaxVersion]
    BY WaveformAssumption
  <2>3. \A i \in Location(l) : own[l][i] <= g[i] /\ g[i] <= g[Version]
    BY <1>0, <2>1, WaveformAssumption DEF StoredInv
  <2> HIDE DEF g
  <2> QED
    BY <2>1, <2>2, <2>3, StoreKeepsStored
<1>3. ASSUME NEW n \in 1 .. PeakCount(active), active \in Loop, Overdub(n) PROVE StoredInv'
  <2> DEFINE g == [i \in Location(active) |->
                     IF i \in {Version} \union 1 .. n THEN own[active][Version] + 1
                                                      ELSE own[active][i]]
  <2>1. own' = [own EXCEPT ![active] = g] /\ UNCHANGED seen /\ released' = released
        /\ own[active][Version] < MaxVersion
    BY <1>3 DEF Overdub, Store
  <2>2. own[active][Version] \in 0 .. MaxVersion
    BY <1>0, <1>3 DEF StoredInv
  <2>3. g \in [Location(active) -> 0 .. MaxVersion]
    BY <1>3, <2>1, <2>2, WaveformAssumption DEF StoredInv
  <2>4. g[Version] = own[active][Version] + 1
    BY <1>0, <1>3
  <2>5. \A i \in Location(active) : own[active][i] <= g[i] /\ g[i] <= g[Version]
    BY <1>3, <2>2, <2>4, WaveformAssumption DEF StoredInv
  <2> HIDE DEF g
  <2> QED
    BY <1>3, <2>1, <2>3, <2>5, StoreKeepsStored
<1>4. ASSUME UNCHANGED <<own, seen>>, released' = own' PROVE StoredInv'
  BY <1>4, WaveformAssumption DEF StoredInv, Located
<1>5. CASE \/ \E l \in Loop : Cycle(l)
           \/ PublishAgain
  BY <1>4, <1>5 DEF Cycle, PublishAgain, Publish
<1>6. CASE ReadVersion \/ ReadPeak \/ UNCHANGED vars
  BY <1>1, <1>6 DEF ReadVersion, ReadPeak, audioVars, vars
<1>7. CASE TakeHandle
  <2>1. UNCHANGED <<own, released>>
    BY <1>7 DEF TakeHandle, audioVars
  <2>2. \A l \in Loop : \A i \in Location(l) :
          seen'[l][i] = IF released[l][i] > seen[l][i] THEN released[l][i] ELSE seen[l][i]
    BY <1>7 DEF TakeHandle
  <2>3. Located(seen')
    BY <1>7 DEF TakeHandle, Located
  <2> QED
    BY <2>1, <2>2, <2>3, WaveformAssumption DEF StoredInv, Located
<1>8. ASSUME NEW l \in Loop, NEW i \in Location(l), BecomeVisible(l, i) PROVE StoredInv'
  <2>1. UNCHANGED <<own, released>> /\ seen' = [seen EXCEPT ![l][i] = own[l][i]]
    BY <1>8 DEF BecomeVisible, audioVars
  <2>2. Located(seen')
    BY <2>1 DEF StoredInv, Located
  <2>3. \A m \in Loop : \A j \in Location(m) :
          seen'[m][j] = IF m = l /\ j = i THEN own[l][i] ELSE seen[m][j]
    BY <2>1 DEF StoredInv, Located
  <2> QED
    BY <2>1, <2>2, <2>3, WaveformAssumption DEF StoredInv, Located
<1>9. ASSUME NEW l \in Loop, NEW n \in 1 .. PeakCount(l), l = active, Overdub(n)
      PROVE  StoredInv'
  BY <1>3, <1>9
<1> QED
  BY <1>2, <1>5, <1>6, <1>7, <1>8, <1>9 DEF Next, AudioThread, Render

LEMMA FrameStep ==
    ASSUME StoredInv, FrameInv, [Next]_vars PROVE FrameInv'
<1>1. CASE UNCHANGED <<frame, frameVars>> /\ active' \in Loop \union {NoLoop}
  BY <1>1 DEF FrameInv, frameVars
<1>2. CASE AudioThread
  <2>1. UNCHANGED <<frame, frameVars>>
    BY <1>2 DEF AudioThread, Keep, Cycle, Overdub, PublishAgain
  <2>2. active' \in Loop \union {NoLoop}
    BY <1>2 DEF AudioThread, Keep, Cycle, Overdub, PublishAgain, Publish, FrameInv
  <2> QED
    BY <1>1, <2>1, <2>2
<1>3. CASE \/ \E l \in Loop : \E i \in Location(l) : BecomeVisible(l, i)
           \/ UNCHANGED vars
  BY <1>1, <1>3 DEF BecomeVisible, audioVars, vars, FrameInv
<1>4. CASE TakeHandle
  <2>1. UNCHANGED active /\ hand' = active
    BY <1>4 DEF TakeHandle, audioVars
  <2>2. CASE active = NoLoop
    <3>1. cache' = NoPeaks /\ frame' = "idle"
      BY <1>4, <2>2 DEF TakeHandle
    <3> QED
      BY <2>1, <3>1 DEF FrameInv, NoPeaks
  <2>3. CASE active # NoLoop
    <3>1. cache' = cache /\ frame' = "version"
      BY <1>4, <2>3 DEF TakeHandle
    <3> QED
      BY <2>1, <2>3, <3>1 DEF FrameInv
  <2> QED
    BY <2>2, <2>3
<1>5. CASE ReadVersion
  <2>1. UNCHANGED <<active, cache>> /\ hand \in Loop
    BY <1>5 DEF ReadVersion, audioVars, FrameInv
  <2>2. \/ frame' = "idle" /\ hand' = NoLoop
        \/ frame' = "peaks" /\ hand' = hand /\ scratch' = <<>>
    BY <1>5 DEF ReadVersion, Done
  <2>3. 0 < WriteCount(hand)
    BY <2>1, PeaksCover
  <2>4. scratch' = <<>> => scratch' \in Seq(Nat) /\ Len(scratch') = 0
    OBVIOUS
  <2> QED
    BY <2>1, <2>2, <2>3, <2>4 DEF FrameInv
<1>6. CASE ReadPeak
  <2> DEFINE i == Len(scratch) + 1
  <2>1. /\ UNCHANGED active
        /\ hand \in Loop /\ scratch \in Seq(Nat) /\ Len(scratch) < WriteCount(hand)
        /\ WriteCount(hand) \in 1 .. PeakCount(hand) /\ PeakCount(hand) \in Nat
    BY <1>6, PeaksCover DEF ReadPeak, audioVars, FrameInv
  <2>2. i \in Location(hand) /\ i <= WriteCount(hand)
    BY <2>1 DEF Location
  <2>3. seen[hand][i] \in Nat
    BY <2>1, <2>2, WaveformAssumption DEF StoredInv
  <2> DEFINE read == Append(scratch, seen[hand][i])
  <2>5. read \in Seq(Nat) /\ Len(read) = i
    BY <2>1, <2>3
  <2>6. CASE i < WriteCount(hand)
    <3>1. UNCHANGED <<frame, hand, cache>> /\ scratch' = read
      BY <1>6, <2>6 DEF ReadPeak
    <3> QED
      BY <2>1, <2>5, <2>6, <3>1 DEF FrameInv
  <2>7. CASE ~ (i < WriteCount(hand))
    <3>1. frame' = "idle" /\ hand' = NoLoop /\ cache'.loop = hand /\ cache'.peaks = read
      BY <1>6, <2>7 DEF ReadPeak, Done
    <3>2. Len(cache'.peaks) = WriteCount(hand)
      BY <2>1, <2>2, <2>5, <2>7, <3>1
    <3> QED
      BY <2>1, <3>1, <3>2 DEF FrameInv
  <2> QED
    BY <2>6, <2>7
<1> QED
  BY <1>2, <1>3, <1>4, <1>5, <1>6 DEF Next, Render

LEMMA ViewInductive == Spec => [](StoredInv /\ FrameInv)
<1>1. StoredInv /\ FrameInv /\ [Next]_vars => StoredInv' /\ FrameInv'
  BY StoredStep, FrameStep
<1> QED
  BY <1>1, InitView, PTL DEF Spec

\* Nothing is drawn that was not played, whatever becomes visible before what; and the
\* peaks kept of a loop reach to its end, or fill the buffer (WaveformView.mm:201-239).
THEOREM TypeCorrect == Spec => []TypeOK
<1>1. StoredInv /\ FrameInv => TypeOK
  <2> SUFFICES ASSUME StoredInv, FrameInv PROVE TypeOK
    OBVIOUS
  <2>1. \A l \in Loop : \A i \in Location(l) : /\ own[l][i] \in 0 .. MaxVersion
                                              /\ released[l][i] <= own[l][i]
                                              /\ seen[l][i] <= own[l][i]
    BY WaveformAssumption DEF StoredInv
  <2>2. cache.loop # NoLoop => \/ Len(cache.peaks) = MaxPeakCount
                              \/ Len(cache.peaks) * SamplesPerPeak >= Length[cache.loop]
    BY PeaksCover DEF FrameInv
  <2> QED
    BY <2>1, <2>2 DEF TypeOK, FrameInv
<1> QED
  BY <1>1, ViewInductive, PTL

-----------------------------------------------------------------------------
(* The count-in *)

LEMMA BeatsArePositive ==
    ASSUME NEW l \in Shapes
    PROVE  Beats(l) \in Nat \ {0} /\ Beats(l) <= l.length /\ l.length \in Nat \ {0}
<1>1. l.bars \in Nat \ {0} /\ BeatsPerBar \in Nat \ {0} /\ l.length \in Nat \ {0}
      /\ l.length >= l.bars * BeatsPerBar
  <2>1. l \in [length : Nat \ {0}, bars : Nat \ {0}]
    BY FrameAssumption
  <2>2. l.length >= Beats(l)
    BY FrameAssumption
  <2> QED
    BY <2>1, <2>2, FrameAssumption DEF Beats
<1>2. l.bars * BeatsPerBar \in Nat \ {0}
  BY <1>1
<1> QED
  BY <1>1, <1>2 DEF Beats

\* The beats that are left, rounded up, are at least one and never more than there are.
LEMMA BeatsLeftAreTrue ==
    ASSUME NEW s, Whole(s), s.position \in Nat
    PROVE  LET left == (s.length - s.position) * Beats(s)
           IN  \E n \in 1 .. Beats(s) :
                 /\ BeatsLeft(s) = {n}
                 /\ (n - 1) * s.length < left /\ left <= n * s.length
<1> DEFINE l == [length |-> s.length, bars |-> s.bars]
           left == (s.length - s.position) * Beats(s)
           c == -((-left) \div s.length)
<1>1. /\ Beats(s) \in Nat \ {0} /\ s.length \in Nat \ {0} /\ Beats(s) <= s.length
      /\ s.bars # 0
  <2>1. l \in Shapes /\ l.length = s.length /\ l.bars = s.bars
    BY DEF Whole
  <2>2. Beats(l) = Beats(s)
    BY <2>1 DEF Beats
  <2>3. l.bars \in Nat \ {0}
    BY <2>1, FrameAssumption
  <2> HIDE DEF l
  <2> QED
    BY <2>1, <2>2, <2>3, BeatsArePositive
<1>2. s.length - s.position \in 1 .. s.length
  BY <1>1 DEF Whole
<1>3. left \in Int /\ 0 < left /\ left <= Beats(s) * s.length
  <2>1. 1 * Beats(s) <= left /\ left <= s.length * Beats(s) /\ left \in Int
    BY <1>1, <1>2, ProductOrder
  <2>2. s.length * Beats(s) = Beats(s) * s.length /\ 1 * Beats(s) = Beats(s)
    BY <1>1
  <2> QED
    BY <1>1, <2>1, <2>2
<1> HIDE DEF left
<1>4. c \in Int /\ left <= c * s.length /\ (c - 1) * s.length < left
  BY <1>1, <1>3, CeilingIsClose
<1>5. 0 < c /\ c - 1 < Beats(s)
  <2> HIDE DEF c
  <2>1. c * s.length \in Int /\ (c - 1) * s.length \in Int /\ Beats(s) * s.length \in Int
    BY <1>1, <1>4
  <2>2. 0 * s.length < c * s.length /\ (c - 1) * s.length < Beats(s) * s.length
    BY <1>1, <1>3, <1>4, <2>1
  <2> QED
    BY <1>1, <1>4, <2>2, ProductOrder
<1>6. BeatsLeft(s) = {c}
  <2>1. ~ (s.length = 0 \/ s.bars = 0) /\ ~ (s.position > s.length)
    BY <1>1 DEF Whole
  <2>2. (IF s.length > Beats(s) THEN s.length ELSE Beats(s)) = s.length
    BY <1>1
  <2>3. -(s.length - s.position) * Beats(s) = -left
    BY <1>1, <1>2 DEF left
  <2>4. ~ (c < 1)
    BY <1>4, <1>5
  <2> HIDE DEF c
  <2> QED
    BY <2>1, <2>2, <2>3, <2>4 DEF BeatsLeft, c
<1>7. c \in 1 .. Beats(s)
  BY <1>1, <1>4, <1>5
<1> HIDE DEF c
<1> QED
  BY <1>4, <1>6, <1>7 DEF left

\* The number that is remembered is the one that is shown: so no frame takes a number
\* of an earlier count-in for its own.
OverlayInv ==
    /\ overlay = lastCountIn
    /\ loop \in Shapes \union {NoShape} /\ window \in Shapes \union {NoShape}
    /\ position \in Nat /\ published.position \in Nat
    /\ picture.loop \in Shapes \union {NoShape} /\ picture.snapshot.position \in Nat
    /\ OverlayTells

LEMMA EngineMoves ==
    ASSUME OverlayInv, Engine
    PROVE  /\ loop' \in Shapes \union {NoShape} /\ window' \in Shapes \union {NoShape}
           /\ position' \in Nat
           /\ UNCHANGED <<published, overlay, lastCountIn, picture>>
<1>1. \A s \in Shapes : s.length \in Nat \ {0}
  BY FrameAssumption
<1>2. CASE StartRecord \/ CancelCountIn \/ BeginTake \/ SwitchAtBarOne
  BY <1>2 DEF OverlayInv, StartRecord, CancelCountIn, BeginTake, SwitchAtBarOne
<1>3. CASE EndTake \/ EndOtherTake
  BY <1>3 DEF OverlayInv, EndTake, EndOtherTake, updateTransportLength
<1>4. CASE ChooseLoop
  <2>1. window' \in Shapes /\ position' = position % window'.length
    BY <1>4 DEF ChooseLoop, updateTransportLength
  <2>2. position' \in Nat
    <3>1. ASSUME NEW n \in Nat \ {0}, NEW p \in Nat PROVE p % n \in Nat
      OBVIOUS
    <3> QED
      BY <1>1, <2>1, <3>1 DEF OverlayInv
  <2>3. loop' \in Shapes \union {NoShape}
    BY <1>4 DEF ChooseLoop, OverlayInv
  <2> QED
    BY <1>4, <2>1, <2>2, <2>3 DEF ChooseLoop
<1>5. CASE Advance
  <2>1. window.length \in Nat
    BY <1>1 DEF OverlayInv, NoShape
  <2> QED
    BY <1>5, <2>1 DEF Advance, OverlayInv
<1> QED
  BY <1>2, <1>3, <1>4, <1>5 DEF Engine

LEMMA OverlayStep ==
    ASSUME OverlayInv, [FrameNext]_viewVars PROVE OverlayInv'
<1>1. CASE Engine
  BY <1>1, EngineMoves DEF OverlayInv, OverlayTells
<1>2. CASE writeSnapshotAtomics
  <2>1. /\ published'.position = position
        /\ UNCHANGED <<loop, window, position, overlay, lastCountIn, picture>>
    BY <1>2 DEF writeSnapshotAtomics, Fields
  <2> QED
    BY <2>1 DEF OverlayInv, OverlayTells
<1>3. CASE PresentFrame
  <2>1. PICK s \in Snapshots : /\ picture' = [snapshot |-> s, loop |-> loop]
                               /\ updateCountInOverlay(s)
                               /\ UNCHANGED engineVars
    BY <1>3 DEF PresentFrame
  <2>2. s.position \in Nat
    <3>1. PICK p \in {published.position, position} : s.position = p
      BY DEF Snapshots
    <3> QED
      BY <3>1 DEF OverlayInv
  <2>3. /\ overlay' = lastCountIn'
        /\ IF s.record = "CountIn" THEN overlay' \in BeatsLeft(s) ELSE overlay' = Hidden
    BY <2>1 DEF updateCountInOverlay, ShowOverlay, HideOverlay, OverlayInv, Hidden
  <2>4. picture'.snapshot = s /\ picture'.loop = loop
    BY <2>1
  <2>5. OverlayTells'
    <3>1. CASE s.record # "CountIn"
      BY <2>3, <2>4, <3>1 DEF OverlayTells
    <3>2. CASE s.record = "CountIn" /\ ~ Whole(s)
      BY <2>4, <3>2 DEF OverlayTells, Whole
    <3>3. CASE s.record = "CountIn" /\ Whole(s)
      <4>1. /\ overlay' \in 1 .. Beats(s)
            /\ (overlay' - 1) * s.length < (s.length - s.position) * Beats(s)
            /\ (s.length - s.position) * Beats(s) <= overlay' * s.length
        BY <2>2, <2>3, <3>3, BeatsLeftAreTrue
      <4> QED
        BY <2>4, <3>3, <4>1 DEF OverlayTells, Beats
    <3> QED
      BY <3>1, <3>2, <3>3
  <2> QED
    BY <2>1, <2>2, <2>3, <2>4, <2>5 DEF OverlayInv, engineVars
<1>4. CASE LoseFrame \/ UNCHANGED viewVars
  BY <1>4 DEF LoseFrame, viewVars, engineVars, OverlayInv, OverlayTells
<1> QED
  BY <1>1, <1>2, <1>3, <1>4 DEF FrameNext

LEMMA OverlayInductive == FrameSpec => []OverlayInv
<1>1. FrameInit => OverlayInv
  BY DEF FrameInit, OverlayInv, OverlayTells, Hidden, NoPicture
<1>2. OverlayInv /\ [FrameNext]_viewVars => OverlayInv'
  BY OverlayStep
<1> QED
  BY <1>1, <1>2, PTL DEF FrameSpec

\* For every loop with a sample to a beat, on a track with or without a loop of its own,
\* and however many frames are lost in between: a frame that is presented with a snapshot
\* that is not torn shows the beats that are left, whatever was shown before
\* (WaveformView.mm:241-276).
THEOREM OverlayIsTrue == FrameSpec => []OverlayTells
<1>1. OverlayInv => OverlayTells
  BY DEF OverlayInv
<1> QED
  BY <1>1, OverlayInductive, PTL

-----------------------------------------------------------------------------
(* The grid *)

LEMMA MultipleHasNoRest ==
    ASSUME NEW n \in Nat \ {0}, NEW q \in Int PROVE (q * n) % n = 0
  OBVIOUS

LEMMA NoRestIsMultiple ==
    ASSUME NEW x \in Int, NEW n \in Nat \ {0}, x % n = 0
    PROVE  x \div n \in Int /\ x = (x \div n) * n
  OBVIOUS

LEMMA BarsAndBeats ==
    ASSUME NEW l \in Shapes
    PROVE  /\ BeatsPerBar \in Nat \ {0} /\ l.bars \in Nat \ {0}
           /\ Beats(l) = l.bars * BeatsPerBar
  BY FrameAssumption DEF Beats

\* The beat k is the first of a bar, or of the loop.
LEMMA LoopsStartBars ==
    ASSUME NEW l \in Shapes, NEW k \in Int, k % Beats(l) = 0 PROVE k % BeatsPerBar = 0
<1> DEFINE q == k \div Beats(l)
<1>1. Beats(l) \in Nat \ {0}
  BY BeatsArePositive
<1>2. q \in Int /\ k = q * Beats(l)
  BY <1>1, NoRestIsMultiple
<1> HIDE DEF q
<1>3. q * (l.bars * BeatsPerBar) = (q * l.bars) * BeatsPerBar /\ q * l.bars \in Int
  BY <1>2, BarsAndBeats
<1>4. k = (q * l.bars) * BeatsPerBar
  BY <1>2, <1>3, BarsAndBeats
<1> QED
  BY <1>3, <1>4, BarsAndBeats, MultipleHasNoRest

LEMMA BarsThatStartLoops ==
    ASSUME NEW l \in Shapes, NEW m \in Int
    PROVE  (m * BeatsPerBar) % Beats(l) = 0 <=> m % l.bars = 0
<1>1. Beats(l) \in Nat \ {0}
  BY BeatsArePositive
<1>2. ASSUME (m * BeatsPerBar) % Beats(l) = 0 PROVE m % l.bars = 0
  <2> DEFINE x == m * BeatsPerBar
             q == x \div Beats(l)
  <2>1. x \in Int
    BY BarsAndBeats
  <2>2. q \in Int /\ x = q * Beats(l)
    BY <1>1, <1>2, <2>1, NoRestIsMultiple
  <2> HIDE DEF q
  <2>3. q * (l.bars * BeatsPerBar) = (q * l.bars) * BeatsPerBar /\ q * l.bars \in Int
    BY <2>2, BarsAndBeats
  <2>4. m * BeatsPerBar = (q * l.bars) * BeatsPerBar
    BY <2>2, <2>3, BarsAndBeats
  <2>5. m * BeatsPerBar <= (q * l.bars) * BeatsPerBar
        /\ (q * l.bars) * BeatsPerBar <= m * BeatsPerBar
    BY <2>1, <2>4
  <2>6. m <= q * l.bars /\ q * l.bars <= m
    BY <2>3, <2>5, BarsAndBeats, ProductOrder
  <2>7. m = q * l.bars
    BY <2>3, <2>6
  <2> QED
    BY <2>2, <2>7, BarsAndBeats, MultipleHasNoRest
<1>3. ASSUME m % l.bars = 0 PROVE (m * BeatsPerBar) % Beats(l) = 0
  <2> DEFINE q == m \div l.bars
  <2>1. q \in Int /\ m = q * l.bars
    BY <1>3, BarsAndBeats, NoRestIsMultiple
  <2> HIDE DEF q
  <2>2. (q * l.bars) * BeatsPerBar = q * (l.bars * BeatsPerBar)
    BY <2>1, BarsAndBeats
  <2>3. m * BeatsPerBar = q * Beats(l)
    BY <2>1, <2>2, BarsAndBeats
  <2> QED
    BY <1>1, <2>1, <2>3, MultipleHasNoRest
<1> QED
  BY <1>2, <1>3

LEMMA AtMultiple ==
    ASSUME NEW l \in Shapes, NEW n \in Int, NEW b \in Nat \ {0}
    PROVE  At(l, b) \in Nat \ {0} /\ At(l, n * b) = n * At(l, b)
<1>1. l.length \in Nat \ {0}
  BY BeatsArePositive
<1>2. 2 * b * l.length \in Nat \ {0}
  BY <1>1
<1>3. 2 * (n * b) * l.length = n * (2 * b * l.length)
  BY <1>1
<1> QED
  BY <1>2, <1>3 DEF At

\* What is looked at takes in all that is in view.
LEMMA ViewIsSearched ==
    ASSUME NEW l \in Shapes, NEW p \in Nat, NEW step \in Nat \ {0}, NEW n \in Int,
           InView(l, p, n * step)
    PROVE  n \in Multiples(l, p, step)
<1> DEFINE left == LeftOf(l, p)
           right == left + 2 * Beats(l) * Viewport
           first == left \div step
           last == -((-right) \div step)
<1>1. Beats(l) \in Nat /\ Viewport \in Nat
  BY BeatsArePositive, FrameAssumption
<1>2. left \in Int /\ right \in Int
  BY <1>1 DEF LeftOf
<1>3. left <= n * step /\ n * step < right /\ n * step \in Int
  BY DEF InView
<1> HIDE DEF left, right
<1>4. first \in Int /\ first * step <= left
  BY <1>2, QuotientIsClose
<1>5. last \in Int /\ right <= last * step
  BY <1>2, CeilingIsClose
<1>6. first * step \in Int /\ last * step \in Int
  BY <1>4, <1>5
<1>7. first * step <= n * step /\ n * step < last * step
  BY <1>2, <1>3, <1>4, <1>5, <1>6
<1>8. first <= n /\ n < last
  BY <1>4, <1>5, <1>7, ProductOrder
<1>9. n \in first .. last
  BY <1>4, <1>5, <1>8
<1> QED
  BY <1>9 DEF Multiples, first, last, left, right

LEMMA ViewIsInReach ==
    ASSUME NEW l \in Shapes, NEW p \in Nat, NEW k \in Int, InView(l, p, At(l, k))
    PROVE  LET reach == 2 * Beats(l) * (Viewport + p) IN k \in -reach .. reach
<1> DEFINE bp == Beats(l) * p
           bv == Beats(l) * Viewport
           kl == k * l.length
<1>1. Beats(l) \in Nat /\ Viewport \in Nat /\ l.length \in Nat \ {0}
  BY BeatsArePositive, FrameAssumption
<1>2. bp \in Nat /\ bv \in Nat /\ kl \in Int
  BY <1>1
<1>3. /\ LeftOf(l, p) = 2 * bp - bv /\ 2 * Beats(l) * Viewport = 2 * bv
      /\ At(l, k) = 2 * kl /\ 2 * Beats(l) * (Viewport + p) = 2 * bv + 2 * bp
  BY <1>1 DEF LeftOf, At
<1>4. k >= 0 => kl >= k
  BY <1>1
<1>5. k < 0 => kl <= k
  BY <1>1
<1> HIDE DEF bp, bv, kl
<1>6. 2 * bp - bv <= 2 * kl /\ 2 * kl < 2 * bp + bv
  BY <1>2, <1>3 DEF InView
<1>7. k <= 2 * bv + 2 * bp /\ -(2 * bv + 2 * bp) <= k
  BY <1>2, <1>4, <1>5, <1>6
<1>8. 2 * bv + 2 * bp \in Int
  BY <1>2
<1> QED
  BY <1>3, <1>7, <1>8

\* The line that a beat deserves.
LineOf(l, k) == [at |-> At(l, k),
                 kind |-> IF k % Beats(l) = 0 THEN "loop"
                          ELSE IF k % BeatsPerBar = 0 THEN "bar" ELSE "beat"]

LEMMA LinesAreOfBeats ==
    ASSUME NEW l \in Shapes, NEW p \in Nat, NEW line \in Lines(l, p)
    PROVE  \E k \in Int : InView(l, p, At(l, k)) /\ line = LineOf(l, k)
<1>1. InView(l, p, line.at)
  BY DEF Lines
<1>2. Beats(l) \in Nat \ {0} /\ BeatsPerBar \in Nat \ {0}
  BY BeatsArePositive, BarsAndBeats
<1>3. ASSUME NEW step PROVE Multiples(l, p, step) \subseteq Int
  BY DEF Multiples
<1>4. CASE line \in BeatLines(l, p)
  <2>1. PICK k \in Multiples(l, p, At(l, 1)) :
          k % BeatsPerBar # 0 /\ line = [at |-> At(l, k), kind |-> "beat"]
    BY <1>4 DEF BeatLines
  <2>2. k \in Int
    BY <1>3
  <2>3. k % Beats(l) # 0
    BY <2>1, <2>2, LoopsStartBars
  <2> QED
    BY <1>1, <2>1, <2>2, <2>3 DEF LineOf
<1>5. CASE line \in BarLines(l, p)
  <2>1. PICK m \in Multiples(l, p, At(l, BeatsPerBar)) :
          m % l.bars # 0 /\ line = [at |-> At(l, m * BeatsPerBar), kind |-> "bar"]
    BY <1>5 DEF BarLines
  <2>2. m \in Int /\ m * BeatsPerBar \in Int
    BY <1>2, <1>3
  <2>3. (m * BeatsPerBar) % Beats(l) # 0 /\ (m * BeatsPerBar) % BeatsPerBar = 0
    BY <1>2, <2>1, <2>2, BarsThatStartLoops, MultipleHasNoRest
  <2> QED
    BY <1>1, <2>1, <2>2, <2>3 DEF LineOf
<1>6. CASE line \in LoopLines(l, p)
  <2>1. PICK n \in Multiples(l, p, At(l, Beats(l))) :
          line = [at |-> At(l, n * Beats(l)), kind |-> "loop"]
    BY <1>6 DEF LoopLines
  <2>2. n \in Int /\ n * Beats(l) \in Int
    BY <1>2, <1>3
  <2>3. (n * Beats(l)) % Beats(l) = 0
    BY <1>2, <2>2, MultipleHasNoRest
  <2> QED
    BY <1>1, <2>1, <2>2, <2>3 DEF LineOf
<1> QED
  BY <1>4, <1>5, <1>6 DEF Lines

LEMMA BeatsHaveLines ==
    ASSUME NEW l \in Shapes, NEW p \in Nat, NEW k \in Int, InView(l, p, At(l, k))
    PROVE  LineOf(l, k) \in Lines(l, p)
<1>1. Beats(l) \in Nat \ {0} /\ BeatsPerBar \in Nat \ {0}
  BY BeatsArePositive, BarsAndBeats
<1>2. InView(l, p, LineOf(l, k).at)
  BY DEF LineOf
<1>3. CASE k % Beats(l) = 0
  <2> DEFINE n == k \div Beats(l)
  <2>1. n \in Int /\ k = n * Beats(l)
    BY <1>1, <1>3, NoRestIsMultiple
  <2> HIDE DEF n
  <2>2. n \in Multiples(l, p, At(l, Beats(l)))
    <3>1. At(l, Beats(l)) \in Nat \ {0} /\ At(l, n * Beats(l)) = n * At(l, Beats(l))
      BY <1>1, <2>1, AtMultiple
    <3>2. InView(l, p, n * At(l, Beats(l)))
      BY <2>1, <3>1
    <3> QED
      BY <2>1, <3>1, <3>2, ViewIsSearched
  <2>3. LineOf(l, k) = [at |-> At(l, n * Beats(l)), kind |-> "loop"]
    BY <1>3, <2>1 DEF LineOf
  <2>4. LineOf(l, k) \in LoopLines(l, p)
    BY <2>2, <2>3 DEF LoopLines
  <2> QED
    BY <1>2, <2>4 DEF Lines
<1>4. CASE k % Beats(l) # 0 /\ k % BeatsPerBar = 0
  <2> DEFINE m == k \div BeatsPerBar
  <2>1. m \in Int /\ k = m * BeatsPerBar
    BY <1>1, <1>4, NoRestIsMultiple
  <2> HIDE DEF m
  <2>2. m \in Multiples(l, p, At(l, BeatsPerBar))
    <3>1. At(l, BeatsPerBar) \in Nat \ {0} /\ At(l, m * BeatsPerBar) = m * At(l, BeatsPerBar)
      BY <1>1, <2>1, AtMultiple
    <3>2. InView(l, p, m * At(l, BeatsPerBar))
      BY <2>1, <3>1
    <3> QED
      BY <2>1, <3>1, <3>2, ViewIsSearched
  <2>3. m % l.bars # 0
    BY <1>4, <2>1, BarsThatStartLoops
  <2>4. LineOf(l, k) = [at |-> At(l, m * BeatsPerBar), kind |-> "bar"]
    BY <1>4, <2>1 DEF LineOf
  <2>5. LineOf(l, k) \in BarLines(l, p)
    BY <2>2, <2>3, <2>4 DEF BarLines
  <2> QED
    BY <1>2, <2>5 DEF Lines
<1>5. CASE k % BeatsPerBar # 0
  <2>1. k % Beats(l) # 0
    BY <1>5, LoopsStartBars
  <2>2. At(l, 1) \in Nat \ {0} /\ At(l, k) = k * At(l, 1)
    <3>1. k * 1 = k
      OBVIOUS
    <3> QED
      BY <3>1, AtMultiple
  <2>3. k \in Multiples(l, p, At(l, 1))
    BY <2>2, ViewIsSearched
  <2>4. LineOf(l, k) = [at |-> At(l, k), kind |-> "beat"]
    BY <1>5, <2>1 DEF LineOf
  <2>5. LineOf(l, k) \in BeatLines(l, p)
    BY <1>5, <2>3, <2>4 DEF BeatLines
  <2> QED
    BY <1>2, <2>5 DEF Lines
<1> QED
  BY <1>3, <1>4, <1>5

\* Whatever the length of a loop, its bars and beats, and where the transport is: each
\* beat in view has one line, of its kind, and there is no other line
\* (WaveformView.mm:286-398).
THEOREM GridHasEveryBeat == FrameSpec => []GridIsTrue
<1>1. OverlayInv => GridIsTrue
  <2> SUFFICES ASSUME OverlayInv, picture.loop # NoShape
               PROVE  LET l == picture.loop
                          p == picture.snapshot.position
                          reach == 2 * Beats(l) * (Viewport + p)
                      IN  Lines(l, p) =
                            {LineOf(l, k) :
                               k \in {b \in -reach .. reach : InView(l, p, At(l, b))}}
    BY DEF GridIsTrue, LineOf
  <2> DEFINE l == picture.loop
             p == picture.snapshot.position
             reach == 2 * Beats(l) * (Viewport + p)
             beats == {b \in -reach .. reach : InView(l, p, At(l, b))}
  <2>1. l \in Shapes /\ p \in Nat
    BY DEF OverlayInv
  <2>2. \A k : k \in beats <=> k \in Int /\ InView(l, p, At(l, k))
    BY <2>1, ViewIsInReach
  <2> HIDE DEF l, p, beats
  <2>3. Lines(l, p) \subseteq {LineOf(l, k) : k \in beats}
    BY <2>1, <2>2, LinesAreOfBeats
  <2>4. {LineOf(l, k) : k \in beats} \subseteq Lines(l, p)
    BY <2>1, <2>2, BeatsHaveLines
  <2> QED
    BY <2>3, <2>4 DEF l, p, beats
<1> QED
  BY <1>1, OverlayInductive, PTL
=============================================================================
