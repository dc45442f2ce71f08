--------------------------- MODULE WaveformFrame ----------------------------
(***************************************************************************)
(* What a frame of one track's waveform view shows of the engine: the grid *)
(* and the number of beats left of a count-in (WaveformView.mm), from a    *)
(* snapshot whose fields are read one by one while the audio thread writes *)
(* them (LooperEngine.cpp).                                                *)
(*                                                                         *)
(* Of the engine there is what the snapshot and the published handle tell: *)
(* the window, the position in it, and the record state and active loop of *)
(* the track.  Where a block moves the position, and when it crosses bar   *)
(* one, is the engine's own matter (LooperEngine.tla): here the transport  *)
(* may be anywhere in its window, and longer loops of other tracks may     *)
(* come and go.  A loop has at least a sample to a beat, and a power of    *)
(* two of bars, so that the quotients of doubles are exact where they meet *)
(* a whole number.                                                         *)
(***************************************************************************)
EXTENDS Integers

CONSTANTS Shapes,      \* what loops there may be: their lengths and their bars
          BeatsPerBar,
          Viewport     \* the samples in view: kViewportSeconds

Beats(s) == s.bars * BeatsPerBar

ASSUME FrameAssumption ==
    /\ Shapes \subseteq [length : Nat \ {0}, bars : Nat \ {0}]
    /\ BeatsPerBar \in Nat \ {0} /\ Viewport \in Nat \ {0}
    /\ \A s \in Shapes : s.length >= Beats(s)

VARIABLES
    loop,       \* the active loop of the track
    window,     \* the length and the bars of the transport
    position,
    record,     \* the record state of the track
    published,  \* the fields of the snapshot, as the last block wrote them
    overlay,    \* the number on the layer of the count-in, or Hidden
    lastCountIn,
    picture     \* the snapshot and the loop of the last frame that was presented

engineVars == <<loop, window, position, record, published>>
viewVars == <<engineVars, overlay, lastCountIn, picture>>

NoShape == [length |-> 0, bars |-> 0]

-----------------------------------------------------------------------------
(* The audio thread *)

\* The window is that of a longest active loop, which may be another track's.
updateTransportLength(l) == window' \in {w \in Shapes : w.length >= l.length}

\* R starts a count-in on the window there is, on a track with or without a loop.
StartRecord ==
    /\ record = "Idle"
    /\ record' = IF window.length = 0 THEN "Recording" ELSE "CountIn"
    /\ UNCHANGED <<loop, window, position, published, overlay, lastCountIn, picture>>

CancelCountIn ==
    /\ record = "CountIn" /\ record' = "Idle"
    /\ UNCHANGED <<loop, window, position, published, overlay, lastCountIn, picture>>

\* At bar one a count-in becomes a take ...
BeginTake ==
    /\ record = "CountIn" /\ record' = "Recording"
    /\ UNCHANGED <<loop, window, position, published, overlay, lastCountIn, picture>>

\* ... and a converted loop begins, for which nobody updates the window.
SwitchAtBarOne ==
    /\ loop # NoShape /\ loop' \in Shapes
    /\ UNCHANGED <<window, position, record, published, overlay, lastCountIn, picture>>

\* A take is merged or comes to nothing, or is kept as a new loop.
EndTake ==
    /\ record = "Recording" /\ record' = "Idle"
    /\ \/ UNCHANGED <<loop, window, position>>
       \/ loop' \in Shapes /\ updateTransportLength(loop') /\ position' = 0
    /\ UNCHANGED <<published, overlay, lastCountIn, picture>>

\* Another track keeps a take.
EndOtherTake ==
    /\ updateTransportLength(loop) /\ position' = 0
    /\ UNCHANGED <<loop, record, published, overlay, lastCountIn, picture>>

\* Another loop is chosen, on this track or another.
ChooseLoop ==
    /\ window # NoShape
    /\ \/ UNCHANGED loop
       \/ loop # NoShape /\ loop' \in Shapes
    /\ updateTransportLength(loop') /\ position' = position % window'.length
    /\ UNCHANGED <<record, published, overlay, lastCountIn, picture>>

Advance ==
    /\ window # NoShape /\ position' \in 0 .. window.length - 1
    /\ UNCHANGED <<loop, window, record, published, overlay, lastCountIn, picture>>

Fields == [position |-> position, length |-> window.length, bars |-> window.bars,
           record |-> record]

\* The end of a block; what it stores becomes visible field by field, hence Snapshots.
writeSnapshotAtomics ==
    /\ published' = Fields
    /\ UNCHANGED <<loop, window, position, record, overlay, lastCountIn, picture>>

-----------------------------------------------------------------------------
(* The overlay *)

Hidden == -1
TooMany == 2147483647

\* The beats left.  A position from a longer window makes the unsigned difference wrap;
\* the conversion of such a number to an int is undefined.
BeatsLeft(s) ==
    IF s.length = 0 \/ s.bars = 0 THEN {0}
    ELSE IF s.position > s.length THEN {1, TooMany}
    ELSE LET unit == IF s.length > Beats(s) THEN s.length ELSE Beats(s)
             n == -((-(s.length - s.position) * Beats(s)) \div unit)
         IN  IF n < 1 THEN {1} ELSE {n}

\* Mutant: the number shown last is remembered beyond the end of a count-in.
HideOverlayOnly == overlay' = Hidden /\ UNCHANGED lastCountIn

HideOverlay == IF overlay # Hidden THEN overlay' = Hidden /\ lastCountIn' = -1
                                   ELSE UNCHANGED <<overlay, lastCountIn>>

ShowOverlay(n) == IF n # lastCountIn THEN overlay' = n /\ lastCountIn' = n
                                     ELSE UNCHANGED <<overlay, lastCountIn>>

\* Mutant: the overlay stays during the take.
updateCountInOverlayInTakes(s) ==
    IF s.record # "Idle" THEN \E n \in BeatsLeft(s) : ShowOverlay(n) ELSE HideOverlay

updateCountInOverlay(s) ==
    IF s.record = "CountIn" THEN \E n \in BeatsLeft(s) : ShowOverlay(n) ELSE HideOverlay

-----------------------------------------------------------------------------
(* The grid of buildLineVertices, in units of half a sample per beat *)

At(l, beat) == 2 * beat * l.length
LeftOf(l, p) == 2 * Beats(l) * p - Beats(l) * Viewport
InView(l, p, x) == x >= LeftOf(l, p) /\ x < LeftOf(l, p) + 2 * Beats(l) * Viewport

\* The multiples of a step that are looked at: from the floor of the left end to the
\* ceiling of the right one.
Multiples(l, p, step) ==
    LET left == LeftOf(l, p)
        right == left + 2 * Beats(l) * Viewport
    IN  left \div step .. -((-right) \div step)

\* Mutant: a line is drawn for each beat, whatever else is there.
BeatLinesAll(l, p) ==
    {[at |-> At(l, k), kind |-> "beat"] : k \in Multiples(l, p, At(l, 1))}

BeatLines(l, p) ==
    {[at |-> At(l, k), kind |-> "beat"] :
        k \in {b \in Multiples(l, p, At(l, 1)) : b % BeatsPerBar # 0}}

BarLines(l, p) ==
    {[at |-> At(l, m * BeatsPerBar), kind |-> "bar"] :
        m \in {b \in Multiples(l, p, At(l, BeatsPerBar)) : b % l.bars # 0}}

LoopLines(l, p) ==
    {[at |-> At(l, n * Beats(l)), kind |-> "loop"] : n \in Multiples(l, p, At(l, Beats(l)))}

\* Drawn unless the frame is of a take, or there is no loop.
Lines(l, p) == {line \in BeatLines(l, p) \union BarLines(l, p) \union LoopLines(l, p) :
                  InView(l, p, line.at)}

-----------------------------------------------------------------------------
(* The message thread *)

\* Each field is of the last block or of the one that is being published.
Snapshots == {[position |-> p, length |-> n, bars |-> b, record |-> r] :
                p \in {published.position, position},
                n \in {published.length, window.length},
                b \in {published.bars, window.bars},
                r \in {published.record, record}}

\* The handle is the newest, the snapshot that of the frame's beginning.
PresentFrame ==
    \E s \in Snapshots :
        /\ picture' = [snapshot |-> s, loop |-> loop]
        /\ updateCountInOverlay(s)
        /\ UNCHANGED engineVars

\* Without Metal, a size, a drawable or a texture, render returns before it presents
\* anything and before it looks at the overlay.
LoseFrame == UNCHANGED viewVars

-----------------------------------------------------------------------------

NoPicture == [snapshot |-> [position |-> 0, length |-> 0, bars |-> 0, record |-> "Idle"],
              loop |-> NoShape]

FrameInit == /\ loop = NoShape /\ window = NoShape /\ position = 0 /\ record = "Idle"
             /\ published = NoPicture.snapshot
             /\ overlay = Hidden /\ lastCountIn = -1
             /\ picture = NoPicture

Engine == \/ StartRecord \/ CancelCountIn \/ BeginTake \/ SwitchAtBarOne
          \/ EndTake \/ EndOtherTake \/ ChooseLoop \/ Advance

FrameNext == Engine \/ writeSnapshotAtomics \/ PresentFrame \/ LoseFrame

\* The device goes on calling for blocks, and drawables come again.
FrameSpec == /\ FrameInit /\ [][FrameNext]_viewVars
             /\ WF_viewVars(writeSnapshotAtomics) /\ WF_viewVars(PresentFrame)

-----------------------------------------------------------------------------
(* Properties *)

\* A window that a block had, or a mixture that looks like one.
Whole(s) == [length |-> s.length, bars |-> s.bars] \in Shapes /\ s.position < s.length

\* "Communicating remaining beats to the user" (feature-brief.md:58): what a frame leaves
\* on the screen is its own number, the beats left of its window rounded up, and no
\* number of an earlier count-in; outside of a count-in there is none.  That holds of
\* frames that are presented, and of snapshots that are not torn.
OverlayTells ==
    LET s == picture.snapshot
        left == (s.length - s.position) * Beats(s)
    IN  IF s.record # "CountIn" THEN overlay = Hidden
        ELSE Whole(s) => /\ overlay \in 1 .. Beats(s)
                         /\ (overlay - 1) * s.length < left /\ left <= overlay * s.length

\* Every beat in view has one line, of the strongest kind it deserves, and nothing
\* else has, also while the snapshot is older than the loop.
GridIsTrue ==
    LET l == picture.loop
        p == picture.snapshot.position
        reach == 2 * Beats(l) * (Viewport + p)
    IN  l # NoShape /\ picture.snapshot.record # "Recording" =>
          Lines(l, p) =
            {[at |-> At(l, k),
              kind |-> IF k % Beats(l) = 0 THEN "loop"
                       ELSE IF k % BeatsPerBar = 0 THEN "bar" ELSE "beat"] :
               k \in {b \in -reach .. reach : InView(l, p, At(l, b))}}

\* The number of a count-in goes when there is no count-in any more, although frames
\* that find no drawable leave it (WaveformView.mm:461).
OverlayGoes == <>[](record # "CountIn") => <>[](overlay = Hidden)
=============================================================================
