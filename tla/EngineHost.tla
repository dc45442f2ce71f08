----------------------------- MODULE EngineHost -----------------------------
(***************************************************************************)
(* The audio device around the looper engine (EngineHost.cpp, and the      *)
(* prepareToPlay and releaseResources of LooperEngine.cpp).                *)
(*                                                                         *)
(* The device calls processBlock only between audioDeviceAboutToStart and  *)
(* audioDeviceStopped.  A restart replaces the recording buffers, possibly *)
(* in the middle of a take, and posts the latency of the new device behind *)
(* whatever the user has queued meanwhile.                                 *)
(*                                                                         *)
(* What JUCE does is external: it opens, stops and restarts devices, and   *)
(* calls these callbacks while no processBlock runs.  All devices run at   *)
(* the one sample rate that start asks for: a restart at another rate,     *)
(* which would change the metronome's and the loops' lengths in samples,   *)
(* is not modelled.  That the device is remembered in the settings is in   *)
(* the module Settings.                                                    *)
(***************************************************************************)
EXTENDS LooperEngine

CONSTANTS Devices,     \* the audio devices there are
          NoDevice,
          Latency      \* input plus output latency of each, in samples

ASSUME HostAssumption == /\ NoDevice \notin Devices
                         /\ Latency \in [Devices -> Int]

VARIABLES
    host,        \* "new", "started", "failed" or "stopped"
    device,      \* the device opened last
    running,     \* between audioDeviceAboutToStart and audioDeviceStopped
    queuedComp,  \* the argument of a SetLatencyCompensation still in the command
                 \* queue, or Nothing
    refused      \* whether the last such command met a full queue

Nothing == -1
deviceVars == <<host, device, running, queuedComp, refused>>
hostVars == <<vars, deviceVars>>

HostInit == /\ Init
            /\ host = "new" /\ device = NoDevice /\ running = FALSE
            /\ queuedComp = Nothing /\ refused = FALSE

-----------------------------------------------------------------------------
(* The device callbacks *)

\* Mutant: a restart keeps the buffers, and what they hold.
ReplaceBuffersNot ==
    /\ phase = "commands"
    /\ emitted' = {}
    /\ UNCHANGED <<written, recState, settingVars, loopVars, tempoVars, windowVars,
                   playing, handoffVars, controlVars>>

\* prepareToPlay and releaseResources: the buffers of all tracks are replaced or
\* freed, whatever their record state, and nothing else is touched.
ReplaceBuffers ==
    /\ phase = "commands"
    /\ written' = [t \in Track |-> 0]
    /\ emitted' = {}
    /\ UNCHANGED <<recState, settingVars, loopVars, tempoVars, windowVars, playing,
                   handoffVars, controlVars>>

Compensation(d) == IF Latency[d] > 0 THEN Latency[d] ELSE 0

audioDeviceAboutToStart(d) ==
    /\ ReplaceBuffers
    /\ device' = d /\ running' = TRUE
    /\ \/ queuedComp' = Compensation(d) /\ refused' = FALSE
       \/ queuedComp' = queuedComp /\ refused' = TRUE

audioDeviceStopped == /\ running
                      /\ ReplaceBuffers
                      /\ running' = FALSE
                      /\ UNCHANGED <<device, queuedComp, refused>>

-----------------------------------------------------------------------------
(* The message thread *)

\* A device is opened, asked for 48 kHz and 128 samples, and the callback added.
start == /\ host = "new" /\ host' = "started"
         /\ \E d \in Devices : audioDeviceAboutToStart(d)

\* The device manager fails: the callback is never added.
startFails == /\ host = "new" /\ host' = "failed"
              /\ emitted' = {}
              /\ UNCHANGED <<takeVars, settingVars, loopVars, tempoVars, windowVars,
                             playing, handoffVars, controlVars, device, running,
                             queuedComp, refused>>

\* A device is unplugged or fails, or is closed to open another: the user's choice in
\* the settings, or its own restart.
DeviceCloses == host = "started" /\ audioDeviceStopped /\ UNCHANGED host

DeviceOpens(d) == /\ host = "started" /\ ~running
                  /\ audioDeviceAboutToStart(d)
                  /\ UNCHANGED host

stop == /\ host = "started" /\ host' = "stopped"
        /\ ReplaceBuffers
        /\ running' = FALSE
        /\ UNCHANGED <<device, queuedComp, refused>>

-----------------------------------------------------------------------------
(* The audio thread *)

\* The posted latency comes out of the queue.
HandleCompensation == /\ phase = "commands" /\ queuedComp # Nothing
                      /\ SetLatencyCompensation(queuedComp)
                      /\ queuedComp' = Nothing
                      /\ UNCHANGED <<host, device, running, refused>>

\* processBlock handles the queue until it is empty.
LeaveCommands == queuedComp = Nothing /\ (SkipInbox \/ TakeInbox)

Callback == \/ HandleCommand \/ Stopping \/ LeaveCommands \/ Draining
            \/ OversizedBlock \/ ScanBlock \/ Finishing

\* The UI thread and the worker do not ask whether a device runs.
OtherThreads == \E t \in Track : \/ ConvertActiveLoop(t)
                                 \/ \E a \in ActivateChoices : submitLoop(t, a)
                                 \/ ConvertFails(t)

HostNext ==
    \/ start \/ startFails \/ stop
    \/ DeviceCloses \/ \E d \in Devices : DeviceOpens(d)
    \/ running /\ HandleCompensation
    \/ running /\ Callback /\ UNCHANGED deviceVars
    \/ OtherThreads /\ UNCHANGED deviceVars

HostSpec == HostInit /\ [][HostNext]_hostVars

-----------------------------------------------------------------------------
(* Properties *)

\* Whatever a buffer holds will be cut by the latency of the device it was captured
\* from ("Compensation re-evaluates when the audio device changes",
\* feature-brief.md:62): a restart, even in the middle of a take, neither leaves
\* samples of the old device behind nor captures any before the new latency is in
\* force.  The code relies on the queue to take the command: a full one refuses it.
TakesUseTheirLatency ==
    ~refused => \A t \in Track : written[t] > 0 => comp = Compensation(device)
=============================================================================
