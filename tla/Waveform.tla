------------------------------ MODULE Waveform ------------------------------
(***************************************************************************)
(* The peaks of one track's waveform view beside the audio thread          *)
(* (WaveformView.mm, Loop.cpp, and the handles of LooperEngine.cpp).       *)
(*                                                                         *)
(* The view keeps the peaks of the loop it drew last and computes them     *)
(* again when the loop is another one or its version has changed.  The     *)
(* audio thread writes samples and then adds to the version, both without  *)
(* an order other threads could rely on: on the processors the program is  *)
(* built for, what is stored becomes visible in any order.  Only the mutex *)
(* around the published handle orders the two threads.                     *)
(*                                                                         *)
(* The samples of one peak are one location, which holds the version of    *)
(* the loop they were written for.  The peaks are refreshed at the start   *)
(* of a frame, whatever becomes of the rest of it; the rest is the module  *)
(* WaveformFrame's.                                                        *)
(***************************************************************************)
EXTENDS Integers, Sequences

CONSTANTS Loop,          \* the loops of the track
          NoLoop,
          Length,        \* the length of each, in samples
          SamplesPerPeak,\* kSamplesPerPeak
          MaxPeakCount,  \* kMaxPeakCount
          MaxVersion     \* bound: the changes of a loop

ASSUME WaveformAssumption ==
    /\ NoLoop \notin Loop
    /\ Length \in [Loop -> Nat \ {0}]
    /\ SamplesPerPeak \in Nat \ {0} /\ MaxPeakCount \in Nat \ {0}
    /\ MaxVersion \in Nat \ {0}

VARIABLES
    own,       \* per loop, what the audio thread has stored at each location
    seen,      \* per loop, what of it is visible to the message thread
    released,  \* what was stored when a handle was last published
    merged,    \* whether finishRecording has yet to publish the handle again
    active,    \* m_uiActiveLoop: the published handle
    frame,     \* where the message thread is in render
    hand,      \* the loop of the frame
    version,   \* the version read in the frame
    scratch,   \* peakScratch
    cache,     \* peaksLoopPtr, peaksVersion and the buffer of peaks
    early      \* whether the version was visible before the samples it is for

audioVars == <<own, released, merged, active>>
frameVars == <<hand, version, scratch, cache, early>>
vars == <<audioVars, seen, frame, frameVars>>

\* The locations of a loop are its version, at 0, and the samples of each peak.
Version == 0
PeakCount(l) == (Length[l] + SamplesPerPeak - 1) \div SamplesPerPeak
Location(l) == {Version} \union 1 .. PeakCount(l)
Kept(l) == own[l][Version] > 0

-----------------------------------------------------------------------------
(* The audio thread *)

Publish(l) == active' = l /\ released' = own'

\* A take is kept as a new loop, and becomes the active one.
Keep(l) == /\ ~Kept(l) /\ ~merged
           /\ own' = [own EXCEPT ![l] = [i \in Location(l) |-> 1]]
           /\ Publish(l)
           /\ UNCHANGED <<merged, seen, frame, frameVars>>

Cycle(l) == /\ Kept(l) /\ active # l /\ ~merged
            /\ UNCHANGED own /\ Publish(l)
            /\ UNCHANGED <<merged, seen, frame, frameVars>>

\* overdubSum, replaceRegion and clearAudio: the first n peaks' samples, then the version.
Store(l, n) ==
    own' = [own EXCEPT ![l] = [i \in Location(l) |->
              IF i \in {Version} \union 1 .. n THEN own[l][Version] + 1 ELSE own[l][i]]]

\* A take is merged into the active loop ...
Overdub(n) ==
    /\ active # NoLoop /\ own[active][Version] < MaxVersion
    /\ n \in 1 .. PeakCount(active)
    /\ ~merged
    /\ Store(active, n)
    /\ merged' = TRUE
    /\ UNCHANGED <<released, active, seen, frame, frameVars>>

\* ... and the same handle is published again.
PublishAgain == /\ merged /\ merged' = FALSE
                /\ UNCHANGED own /\ Publish(active)
                /\ UNCHANGED <<seen, frame, frameVars>>

\* What is stored becomes visible, in any order.
BecomeVisible(l, i) ==
    /\ seen[l][i] # own[l][i]
    /\ seen' = [seen EXCEPT ![l][i] = own[l][i]]
    /\ UNCHANGED <<audioVars, frame, frameVars>>

-----------------------------------------------------------------------------
(* The message thread: the start of render *)

NoPeaks == [loop |-> NoLoop, version |-> 0, peaks |-> <<>>]

\* activeLoopForUi: with the mutex comes all that was stored before it was released.
TakeHandle ==
    /\ frame = "idle"
    /\ hand' = active
    /\ seen' = [l \in Loop |-> [i \in Location(l) |->
                  IF released[l][i] > seen[l][i] THEN released[l][i] ELSE seen[l][i]]]
    /\ IF active = NoLoop THEN cache' = NoPeaks /\ frame' = "idle"
                          ELSE UNCHANGED cache /\ frame' = "version"
    /\ UNCHANGED <<audioVars, version, scratch, early>>

Done == frame' = "idle" /\ hand' = NoLoop /\ version' = 0 /\ scratch' = <<>>

\* Mutant: a loop is taken for the one drawn last if it has the same version.
IsCurrentByVersion(l, v) == cache.version = v

IsCurrent(l, v) == cache.loop = l /\ cache.version = v

ReadVersion ==
    /\ frame = "version"
    /\ LET v == seen[hand][Version]
       IN  IF IsCurrent(hand, v)
           THEN Done /\ UNCHANGED early
           ELSE /\ frame' = "peaks" /\ UNCHANGED hand
                /\ version' = v /\ scratch' = <<>> /\ early' = FALSE
    /\ UNCHANGED <<audioVars, seen, cache>>

\* Mutant: the samples beyond the last whole peak have none.
WriteCountFloor(l) == Length[l] \div SamplesPerPeak

\* The buffer of peaks has its size once and for all.
WriteCount(l) == IF PeakCount(l) < MaxPeakCount THEN PeakCount(l) ELSE MaxPeakCount

\* One peak after the other; the last of them completes the cache.
ReadPeak ==
    /\ frame = "peaks"
    /\ LET i == Len(scratch) + 1
           s == seen[hand][i]
           read == Append(scratch, s)
       IN  /\ early' = (early \/ (s # own[hand][i] /\ version = own[hand][Version]))
           /\ IF i < WriteCount(hand)
              THEN scratch' = read /\ UNCHANGED <<frame, hand, version, cache>>
              ELSE /\ cache' = [loop |-> hand, version |-> version, peaks |-> read]
                   /\ Done
    /\ UNCHANGED <<audioVars, seen>>

-----------------------------------------------------------------------------

Init == /\ own = [l \in Loop |-> [i \in Location(l) |-> 0]]
        /\ seen = own /\ released = own /\ merged = FALSE
        /\ active = NoLoop
        /\ frame = "idle" /\ hand = NoLoop /\ version = 0 /\ scratch = <<>>
        /\ cache = NoPeaks /\ early = FALSE

AudioThread == \/ \E l \in Loop : Keep(l) \/ Cycle(l)
               \/ \E l \in Loop : \E n \in 1 .. PeakCount(l) : l = active /\ Overdub(n)
               \/ PublishAgain

Render == TakeHandle \/ ReadVersion \/ ReadPeak

Next == \/ AudioThread
        \/ Render
        \/ \E l \in Loop : \E i \in Location(l) : BecomeVisible(l, i)

\* Frames are drawn for ever and are finished, and so is what the audio thread began;
\* what is stored does become visible.
Spec == /\ Init /\ [][Next]_vars
        /\ WF_vars(Render) /\ WF_vars(PublishAgain)
        /\ \A l \in Loop : \A i \in Location(l) : WF_vars(BecomeVisible(l, i))

-----------------------------------------------------------------------------
(* Properties *)

\* Nothing is seen that was not stored, and the peaks kept of a loop cover it, or fill
\* their buffer.
TypeOK ==
    /\ \A l \in Loop : \A i \in Location(l) : /\ own[l][i] \in 0 .. MaxVersion
                                             /\ released[l][i] <= own[l][i]
                                             /\ seen[l][i] <= own[l][i]
    /\ {active, hand, cache.loop} \subseteq Loop \union {NoLoop}
    /\ frame \in {"idle", "version", "peaks"}
    /\ cache.loop # NoLoop => \/ Len(cache.peaks) = MaxPeakCount
                              \/ Len(cache.peaks) * SamplesPerPeak >= Length[cache.loop]

\* What is drawn of a loop is what the loop holds.
Drawn(l) == cache.loop = l /\ \A i \in 1 .. PeakCount(l) : cache.peaks[i] = own[l][i]

\* "Readers use it to invalidate caches derived from the samples" (Loop.h:27-29): once
\* a loop stays active and nobody changes it, its peaks are drawn as they are, however
\* its changes fell between the reads of a frame.  But both are stored without an order
\* (Loop.cpp:35): a frame in progress that sees the new version before the samples
\* keeps the old peaks under the new version, and no later frame looks again.
PeaksCatchUpUnlessEarly == \A l \in Loop : <>[](active = l) => <>[](Drawn(l) \/ early)
=============================================================================
