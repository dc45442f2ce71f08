------------------------------ MODULE Timebase ------------------------------
(***************************************************************************)
(* The arithmetic of tempo and length: BpmDetector.cpp and the timebase of *)
(* Transport.h.  Lengths are in samples.  A tempo is in hundredths of a    *)
(* beat per minute, the precision detectBpm rounds to, and 0 stands for a  *)
(* session that has none.  The code computes in doubles and rounds half    *)
(* away from zero; here the quotients are exact and rounded the same way.  *)
(***************************************************************************)
EXTENDS Integers

CONSTANTS SampleRate,   \* samples per second
          AllowedBars   \* the bar counts a loop may have

ASSUME RateAssumption == SampleRate \in Nat \ {0}
\* BpmDetectorConfig::allowedBars and kAllowedBarCounts.
ASSUME BarsAssumption == AllowedBars \subseteq {1, 2, 4, 8, 16}

NoTempo == 0
MinBpm == 6000
MaxBpm == 14000

\* a / b rounded to the nearest integer, halves upwards.
Rounded(a, b) == (2 * a + b) \div (2 * b)

\* The number of samples of that many beats at that tempo.
SamplesOfBeats(beats, bpm) == Rounded(beats * 6000 * SampleRate, bpm)

samplesForBars(bars, bpm, beatsPerBar) == SamplesOfBeats(bars * beatsPerBar, bpm)

samplesPerBeat(bpm) == IF bpm = NoTempo THEN 0 ELSE SamplesOfBeats(1, bpm)

\* The tempo at which n samples are that many bars of four beats.
BpmOf(bars, n) == Rounded(bars * 4 * 6000 * SampleRate, n)

\* The bar counts for which a take of n samples has a tempo in range; detectBpm
\* prefers the largest.  There is no fit when the set is empty.
Fits(n) == {b \in AllowedBars : n > 0 /\ BpmOf(b, n) \in MinBpm .. MaxBpm}
IsBestFit(b, n) == b \in Fits(n) /\ \A c \in Fits(n) : c <= b
=============================================================================
