--------------------------- MODULE MCLooperEngine ---------------------------
(***************************************************************************)
(* The command alphabets of the runs of LooperEngine.                      *)
(***************************************************************************)
EXTENDS LooperEngine

Cmd(kind, t, arg) == [kind |-> kind, track |-> t, arg |-> arg]
Global(kind) == Cmd(kind, 0, 0)

\* What the R and Space keys post, on tracks the user has selected.
TransportKeys == {Global("TogglePlay"), Global("StartRecord"), Global("StopRecord")}
Select(ts) == {Cmd("SelectTrack", t, 0) : t \in ts}

\* Recording on two tracks, new loops of one or two bars and overdubs.
RecordCommands ==
    TransportKeys \union Select({0, 1})
    \union {Cmd("SetTrackBars", 1, 1), Cmd("SetTrackMode", 0, 1)}

\* One track on its own, with a device whose latency becomes one sample.
SingleCommands ==
    TransportKeys \union Select({0})
    \union {Cmd("SetTrackBars", 0, 1), Cmd("SetTrackBars", 0, 2),
            Cmd("SetTrackMode", 0, 0), Cmd("SetTrackMode", 0, 2),
            Cmd("SetLatencyCompensation", 0, 1)}

\* Recording, converting and choosing among a track's loops.
CycleCommands ==
    TransportKeys \union Select({0})
    \union {Cmd("CycleNextLoop", 0, 0), Cmd("SetTrackBars", 0, 1)}
=============================================================================
