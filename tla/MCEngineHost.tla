---------------------------- MODULE MCEngineHost ----------------------------
(***************************************************************************)
(* Every kind of command on one track, on devices of different latency.    *)
(***************************************************************************)
EXTENDS EngineHost

CONSTANT Usb   \* the device that has a latency

HostLatency == [d \in Devices |-> IF d = Usb THEN 1 ELSE 0]

Cmd(kind, arg) == [kind |-> kind, track |-> 0, arg |-> arg]

\* All but SetLatencyCompensation, which the device posts.
HostCommands ==
    {Cmd("SetPlaying", 0), Cmd("SetPlaying", 1), Cmd("TogglePlay", 0),
     Cmd("StartRecord", 0), Cmd("StopRecord", 0),
     Cmd("ResetPosition", 0), Cmd("SetBpm", 12000), Cmd("SetBeatsPerBar", 3),
     Cmd("SelectTrack", 0), Cmd("SetTrackBars", 1), Cmd("SetTrackMode", 1),
     Cmd("SetTrackArmed", 1), Cmd("SetTrackArmed", 0),
     Cmd("SwitchActiveLoop", 0), Cmd("SwitchActiveLoop", NoLoop),
     Cmd("CycleNextLoop", 0), Cmd("CyclePrevLoop", 0), Cmd("ClearActiveLoop", 0)}
=============================================================================
