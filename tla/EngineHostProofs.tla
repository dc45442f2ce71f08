-------------------------- MODULE EngineHostProofs --------------------------
(***************************************************************************)
(* The engine's invariants under a device that comes and goes, and which   *)
(* latency a take is cut by, for every set of devices and their latencies, *)
(* number of tracks, block size and command alphabet.                      *)
(***************************************************************************)
EXTENDS EngineHost, LooperEngineProofs

-----------------------------------------------------------------------------
(* The steps of the host *)

\* What a device callback does to the engine: the buffers are emptied, or nothing.
Rebuffers ==
    /\ phase' = phase
    /\ written' = [t \in Track |-> 0] \/ written' = written
    /\ UNCHANGED <<recState, settingVars, loopVars, tempoVars, windowVars, playing,
                   handoffVars, controlVars>>

LEMMA HostSteps ==
    ASSUME [HostNext]_hostVars
    PROVE  \/ Rebuffers
           \/ HandleCompensation
           \/ Next /\ UNCHANGED deviceVars
<1>1. ASSUME ReplaceBuffers PROVE Rebuffers
  BY <1>1 DEF ReplaceBuffers, Rebuffers, controlVars
<1>2. CASE start \/ stop \/ DeviceCloses \/ \E d \in Devices : DeviceOpens(d)
  BY <1>1, <1>2 DEF start, stop, DeviceCloses, DeviceOpens, audioDeviceAboutToStart,
     audioDeviceStopped
<1>3. CASE startFails
  BY <1>3 DEF startFails, Rebuffers, takeVars, controlVars
<1>4. CASE Callback /\ UNCHANGED deviceVars
  BY <1>4 DEF Callback, Stopping, LeaveCommands, Draining, Finishing, Next
<1>5. CASE OtherThreads /\ UNCHANGED deviceVars
  BY <1>5 DEF OtherThreads, Next
<1>6. CASE UNCHANGED hostVars
  BY <1>6 DEF hostVars, vars, takeVars, controlVars, Rebuffers
<1> QED
  BY <1>2, <1>3, <1>4, <1>5, <1>6 DEF HostNext

-----------------------------------------------------------------------------
(* Types *)

\* The argument of the latency command that is queued.
QueuedOK == queuedComp \in Nat \union {Nothing}

LEMMA CompensationIsNatural ==
    ASSUME NEW d \in Devices PROVE Compensation(d) \in Nat
  BY HostAssumption DEF Compensation

LEMMA NextKeepsQueued == QueuedOK /\ [HostNext]_hostVars => QueuedOK'
<1> SUFFICES ASSUME QueuedOK, [HostNext]_hostVars PROVE QueuedOK'
  OBVIOUS
<1>1. ASSUME NEW d \in Devices, audioDeviceAboutToStart(d) PROVE QueuedOK'
  BY <1>1, CompensationIsNatural DEF audioDeviceAboutToStart, QueuedOK
<1>2. CASE start \/ \E d \in Devices : DeviceOpens(d)
  BY <1>1, <1>2 DEF start, DeviceOpens
<1>3. CASE \/ stop \/ startFails \/ DeviceCloses \/ UNCHANGED deviceVars
           \/ UNCHANGED hostVars
  BY <1>3 DEF stop, startFails, DeviceCloses, audioDeviceStopped, deviceVars, hostVars,
     QueuedOK
<1>4. CASE HandleCompensation
  BY <1>4 DEF HandleCompensation, QueuedOK
<1> QED
  BY <1>2, <1>3, <1>4 DEF HostNext

LEMMA RebuffersTyped == ASSUME TypeOK, Rebuffers PROVE TypeOK'
<1>1. UNCHANGED <<recState, settingVars, loopVars, tempoVars, windowVars, playing,
                  handoffVars, controlVars>>
  BY DEF Rebuffers
<1>2. TakesOK'
  BY CapacityIsNatural DEF Rebuffers, TypeOK, TakesOK
<1>3. UNCHANGED <<loops, transfers, inbox, draining, immediate>>
  BY <1>1 DEF loopVars, handoffVars
<1> QED
  BY <1>1, <1>2, <1>3, Frame DEF TypeOK

LEMMA HostTyped == TypeOK /\ QueuedOK /\ [HostNext]_hostVars => TypeOK'
<1> SUFFICES ASSUME TypeOK, QueuedOK, [HostNext]_hostVars PROVE TypeOK'
  OBVIOUS
<1>1. CASE HandleCompensation
  <2>1. SetLatencyCompensation(queuedComp) /\ queuedComp \in Nat
    BY <1>1 DEF HandleCompensation, QueuedOK
  <2> QED
    BY <2>1, TempoTyped
<1> QED
  BY <1>1, HostSteps, RebuffersTyped, NextTyped

\* A device that fails, is unplugged or closed for another at any moment between two
\* callbacks leaves every variable of the engine in its domain (prepareToPlay and
\* releaseResources, LooperEngine.cpp:28-68).
THEOREM HostTypeCorrect == HostSpec => [](TypeOK /\ QueuedOK)
<1>1. HostInit => TypeOK /\ QueuedOK
  BY InitTyped DEF HostInit, QueuedOK
<1> QED
  BY <1>1, HostTyped, NextKeepsQueued, PTL DEF HostSpec

-----------------------------------------------------------------------------
(* The transport and the position *)

LEMMA HostKeepsTakes ==
    TypeOK /\ TakesInv /\ [HostNext]_hostVars => TakesInv'
<1> SUFFICES ASSUME TypeOK, TakesInv, [HostNext]_hostVars PROVE TakesInv'
  OBVIOUS
<1>1. CASE Rebuffers
  BY <1>1 DEF Rebuffers, TakesInv, TakesNeedTransport, BufferEmptyUnlessRecording,
     Stopped, HaltIsPlanned, controlVars
<1>2. CASE HandleCompensation
  <2>1. UNCHANGED <<takeVars, playing, controlVars>>
    BY <1>2 DEF HandleCompensation, SetLatencyCompensation, SetTempo, Stay
  <2>2. Stopped' /\ HaltIsPlanned'
    BY <2>1 DEF TakesInv, Stopped, HaltIsPlanned, takeVars, controlVars
  <2> QED
    BY <2>1, <2>2, TakesUntouched
<1> QED
  BY <1>1, <1>2, HostSteps, NextKeepsTakes

LEMMA HostKeepsPosition ==
    TypeOK /\ TypeOK' /\ PositionInWindow /\ [HostNext]_hostVars => PositionInWindow'
<1> SUFFICES ASSUME TypeOK, TypeOK', PositionInWindow, [HostNext]_hostVars
             PROVE  PositionInWindow'
  OBVIOUS
<1>1. CASE Rebuffers \/ HandleCompensation
  BY <1>1 DEF Rebuffers, HandleCompensation, SetLatencyCompensation, SetTempo, windowVars,
     PositionInWindow
<1> QED
  BY <1>1, HostSteps, NextKeepsPosition

\* A restart of the device in the middle of a take, or in the middle of ending all of
\* them, leaves no track recording under a transport that stands still.
THEOREM HostTakesRunWithTransport == HostSpec => []TakesNeedTransport
<1>1. HostInit => TakesInv
  BY DEF HostInit, Init, TakesInv, TakesNeedTransport, BufferEmptyUnlessRecording,
     Stopped, HaltIsPlanned
<1>2. TakesInv => TakesNeedTransport
  BY DEF TakesInv
<1> QED
  BY <1>1, <1>2, HostKeepsTakes, HostTypeCorrect, PTL DEF HostSpec

\* Nor does a restart, or the latency of another device, put the position outside the
\* window.
THEOREM HostPositionStaysInWindow == HostSpec => []PositionInWindow
<1>1. HostInit => PositionInWindow
  BY DEF HostInit, Init, PositionInWindow
<1> QED
  BY <1>1, HostKeepsPosition, HostTypeCorrect, PTL DEF HostSpec

-----------------------------------------------------------------------------
(* The latency of a take *)

\* The host is the only one to post the latency (EngineHost.cpp:151; EngineBridge.h
\* has no method for it).
OnlyHostSetsLatency == \A c \in Commands : c.kind # "SetLatencyCompensation"

BuffersEmpty == \A t \in Track : written[t] = 0

\* What makes TakesUseTheirLatency inductive.  Between the callback that announces a
\* device and the first block it delivers, its latency is in the queue and the buffers
\* are empty; processBlock empties the queue before it captures anything.
LatencyInv ==
    /\ device \in Devices \union {NoDevice}
    /\ running => device \in Devices
    /\ device = NoDevice => BuffersEmpty
    /\ queuedComp # Nothing => phase \in {"commands", "stopping"} /\ BuffersEmpty
    /\ ~refused /\ device \in Devices =>
         \/ queuedComp = Compensation(device)
         \/ queuedComp = Nothing /\ comp = Compensation(device)

LEMMA CommandKeepsLatency ==
    ASSUME OnlyHostSetsLatency, HandleCommand PROVE comp' = comp
<1>1. PICK c \in Commands : Handle(c) /\ c.kind # "SetLatencyCompensation"
  BY DEF HandleCommand, OnlyHostSetsLatency
<1> QED
  BY <1>1 DEF Handle, SetPlaying, TogglePlay, EnterStop, StartRecord, StopRecord,
     ResetPosition, SetBpm, SetBeatsPerBar, SetTempo, SetTrackArmed, SelectTrack,
     SetTrackBars, SetTrackMode, SetTrack, CycleNextLoop, CyclePrevLoop,
     SwitchActiveLoop, ClearActiveLoop, ChooseLoop, tempoVars

LEMMA NextKeepsLatency ==
    ASSUME OnlyHostSetsLatency, Next PROVE comp' = comp
<1>1. CASE HandleCommand
  BY <1>1, CommandKeepsLatency
<1>2. CASE \E t \in Track : StopTake(t) \/ CancelCountIn(t) \/ AutoStop(t)
  BY <1>2 DEF StopTake, CancelCountIn, AutoStop, finishRecording, tempoVars
<1>3. CASE StopDone \/ SkipInbox \/ TakeInbox \/ DrainEntry \/ DrainDone
  BY <1>3 DEF StopDone, SkipInbox, TakeInbox, DrainEntry, DrainDone, tempoVars
<1>4. CASE OversizedBlock \/ ScanBlock \/ EndBlock
  BY <1>4 DEF OversizedBlock, ScanBlock, EndBlock, tempoVars
<1>5. CASE \E t \in Track : \/ ConvertActiveLoop(t)
                            \/ \E a \in ActivateChoices : submitLoop(t, a)
                            \/ ConvertFails(t)
  BY <1>5 DEF ConvertActiveLoop, submitLoop, ConvertFails, engineVars, tempoVars
<1> QED
  BY <1>1, <1>2, <1>3, <1>4, <1>5 DEF Next

\* Only the scan of a block captures anything.
LEMMA OnlyScanCaptures ==
    ASSUME TypeOK, Next, BuffersEmpty, phase # "crossing" PROVE BuffersEmpty'
<1>0. written \in [Track -> 0 .. maxRecordingSamples]
  BY DEF TypeOK, TakesOK
<1>1. ASSUME UNCHANGED takeVars PROVE BuffersEmpty'
  BY <1>1 DEF BuffersEmpty, takeVars
<1>2. CASE HandleCommand
  <2>1. PICK c \in Commands : Handle(c)
    BY <1>2 DEF HandleCommand
  <2>2. CASE StartRecord
    BY <2>2 DEF StartRecord, BuffersEmpty
  <2>3. CASE \/ SetPlaying(c.arg = 1) \/ TogglePlay \/ StopRecord \/ ResetPosition
             \/ SetBpm(c.arg) \/ SetBeatsPerBar(c.arg) \/ SetLatencyCompensation(c.arg)
    BY <1>1, <2>3 DEF SetPlaying, TogglePlay, StopRecord, EnterStop, ResetPosition,
       SetBpm, SetBeatsPerBar, SetLatencyCompensation, SetTempo
  <2>4. CASE \/ SetTrackArmed(c.track, c.arg = 1) \/ SelectTrack(c.track)
             \/ SetTrackBars(c.track, c.arg) \/ SetTrackMode(c.track, c.arg)
    BY <1>1, <2>4 DEF SetTrackArmed, SelectTrack, SetTrackBars, SetTrackMode, SetTrack
  <2>5. CASE \/ CycleNextLoop(c.track) \/ CyclePrevLoop(c.track)
             \/ SwitchActiveLoop(c.track, c.arg) \/ ClearActiveLoop(c.track)
    BY <1>1, <2>5 DEF CycleNextLoop, CyclePrevLoop, SwitchActiveLoop, ChooseLoop,
       ClearActiveLoop
  <2> QED
    BY <2>1, <2>2, <2>3, <2>4, <2>5 DEF Handle
<1>3. CASE \E t \in Track : StopTake(t) \/ AutoStop(t)
  <2>1. PICK t \in Track : written' = [written EXCEPT ![t] = 0]
    BY <1>3 DEF StopTake, AutoStop, finishRecording
  <2> QED
    BY <1>0, <2>1 DEF BuffersEmpty
<1>4. CASE \E t \in Track : CancelCountIn(t)
  BY <1>4 DEF CancelCountIn, BuffersEmpty
<1>5. CASE StopDone \/ SkipInbox \/ TakeInbox \/ DrainEntry \/ DrainDone
  BY <1>1, <1>5 DEF StopDone, SkipInbox, TakeInbox, DrainEntry, DrainDone
<1>6. CASE OversizedBlock \/ ScanBlock \/ EndBlock
  BY <1>1, <1>6 DEF OversizedBlock, ScanBlock, EndBlock
<1>7. CASE \E t \in Track : \/ ConvertActiveLoop(t)
                            \/ \E a \in ActivateChoices : submitLoop(t, a)
                            \/ ConvertFails(t)
  BY <1>1, <1>7 DEF ConvertActiveLoop, submitLoop, ConvertFails, engineVars
<1> QED
  BY <1>2, <1>3, <1>4, <1>5, <1>6, <1>7 DEF Next


\* Only leaving the queue leads out of the command phases.
LEMMA QueueFirst ==
    ASSUME Callback, phase \in {"commands", "stopping"}, queuedComp # Nothing
    PROVE  phase' \in {"commands", "stopping"}
<1>1. CASE HandleCommand
  <2>1. PICK c \in Commands : Handle(c)
    BY <1>1 DEF HandleCommand
  <2>2. CASE \/ SetPlaying(c.arg = 1) \/ TogglePlay \/ StopRecord \/ ResetPosition
             \/ SetBpm(c.arg) \/ SetBeatsPerBar(c.arg) \/ SetLatencyCompensation(c.arg)
             \/ StartRecord
    BY <2>2 DEF SetPlaying, TogglePlay, StopRecord, EnterStop, ResetPosition, SetBpm,
       SetBeatsPerBar, SetLatencyCompensation, SetTempo, StartRecord, Stay, controlVars
  <2>3. CASE \/ SetTrackArmed(c.track, c.arg = 1) \/ SelectTrack(c.track)
             \/ SetTrackBars(c.track, c.arg) \/ SetTrackMode(c.track, c.arg)
    BY <2>3 DEF SetTrackArmed, SelectTrack, SetTrackBars, SetTrackMode, SetTrack, Stay,
       controlVars
  <2>4. CASE \/ CycleNextLoop(c.track) \/ CyclePrevLoop(c.track)
             \/ SwitchActiveLoop(c.track, c.arg) \/ ClearActiveLoop(c.track)
    BY <2>4 DEF CycleNextLoop, CyclePrevLoop, SwitchActiveLoop, ClearActiveLoop,
       ChooseLoop, Stay, controlVars
  <2> QED
    BY <2>1, <2>2, <2>3, <2>4 DEF Handle
<1>2. CASE Stopping
  BY <1>2 DEF Stopping, StopTake, CancelCountIn, StopDone
<1>3. CASE LeaveCommands \/ Draining \/ OversizedBlock \/ ScanBlock \/ Finishing
  BY <1>3 DEF LeaveCommands, Draining, DrainEntry, DrainDone, OversizedBlock, ScanBlock,
     Finishing, AutoStop, EndBlock
<1> QED
  BY <1>1, <1>2, <1>3 DEF Callback

LEMMA ReplacedAreEmpty == ASSUME ReplaceBuffers PROVE BuffersEmpty' /\ comp' = comp
  BY DEF ReplaceBuffers, BuffersEmpty, tempoVars

LEMMA LatencyKept ==
    ASSUME OnlyHostSetsLatency, TypeOK, QueuedOK, LatencyInv, [HostNext]_hostVars
    PROVE  LatencyInv'
<1>1. ASSUME NEW d \in Devices, audioDeviceAboutToStart(d) PROVE LatencyInv'
  <2>1. BuffersEmpty' /\ phase' = "commands"
    BY <1>1, ReplacedAreEmpty DEF audioDeviceAboutToStart, ReplaceBuffers, controlVars
  <2>2. device' = d /\ (queuedComp' = Compensation(d) \/ refused' = TRUE)
    BY <1>1 DEF audioDeviceAboutToStart
  <2>3. Compensation(d) = Compensation(device)'
    BY <2>2 DEF Compensation
  <2> QED
    BY <2>1, <2>2, <2>3 DEF LatencyInv
<1>2. CASE start \/ \E d \in Devices : DeviceOpens(d)
  BY <1>1, <1>2 DEF start, DeviceOpens
<1>3. CASE stop \/ DeviceCloses
  <2>1. ReplaceBuffers /\ UNCHANGED <<device, queuedComp, refused>> /\ ~ running'
    BY <1>3 DEF stop, DeviceCloses, audioDeviceStopped
  <2>2. BuffersEmpty' /\ comp' = comp /\ phase' = phase
    BY <2>1, ReplacedAreEmpty DEF ReplaceBuffers, controlVars
  <2>3. Compensation(device)' = Compensation(device)
    BY <2>1 DEF Compensation
  <2> QED
    BY <2>1, <2>2, <2>3 DEF LatencyInv
<1>4. CASE startFails \/ UNCHANGED hostVars \/ (OtherThreads /\ UNCHANGED deviceVars)
  <2>1. UNCHANGED <<device, running, queuedComp, refused, written, comp, phase>>
    BY <1>4 DEF startFails, hostVars, vars, deviceVars, takeVars, tempoVars, controlVars,
       OtherThreads, ConvertActiveLoop, submitLoop, ConvertFails, engineVars
  <2>2. Compensation(device)' = Compensation(device) /\ BuffersEmpty' = BuffersEmpty
    BY <2>1 DEF Compensation, BuffersEmpty
  <2> QED
    BY <2>1, <2>2 DEF LatencyInv
<1>5. CASE HandleCompensation
  <2>1. /\ queuedComp' = Nothing /\ comp' = queuedComp /\ queuedComp # Nothing
        /\ UNCHANGED <<device, running, refused, written, phase>>
    BY <1>5 DEF HandleCompensation, SetLatencyCompensation, SetTempo, Stay, takeVars,
       controlVars, QueuedOK, Nothing
  <2>2. Compensation(device)' = Compensation(device) /\ BuffersEmpty' = BuffersEmpty
    BY <2>1 DEF Compensation, BuffersEmpty
  <2> QED
    BY <2>1, <2>2 DEF LatencyInv
<1>6. CASE running /\ Callback /\ UNCHANGED deviceVars
  <2>1. Next /\ device \in Devices
    BY <1>6 DEF Callback, Stopping, LeaveCommands, Draining, Finishing, Next, LatencyInv
  <2>2. comp' = comp /\ UNCHANGED <<device, running, queuedComp, refused>>
    BY <1>6, <2>1, NextKeepsLatency DEF deviceVars
  <2>3. queuedComp # Nothing => phase' \in {"commands", "stopping"} /\ BuffersEmpty'
    BY <1>6, <2>1, QueueFirst, OnlyScanCaptures DEF LatencyInv
  <2>4. device # NoDevice
    BY <2>1, HostAssumption
  <2>5. Compensation(device)' = Compensation(device)
    BY <2>2 DEF Compensation
  <2> QED
    BY <2>1, <2>2, <2>3, <2>4, <2>5 DEF LatencyInv
<1> QED
  BY <1>2, <1>3, <1>4, <1>5, <1>6 DEF HostNext

LEMMA LatencyIsRight ==
    ASSUME QueuedOK, TypeOK, LatencyInv PROVE TakesUseTheirLatency
<1> SUFFICES ASSUME ~ refused, NEW t \in Track, written[t] > 0
             PROVE  comp = Compensation(device)
  BY DEF TakesUseTheirLatency
<1>1. ~ BuffersEmpty
  BY DEF BuffersEmpty
<1>2. device \in Devices /\ queuedComp = Nothing
  BY <1>1 DEF LatencyInv
<1>3. queuedComp # Compensation(device)
  BY <1>2, CompensationIsNatural DEF Nothing
<1> QED
  BY <1>2, <1>3 DEF LatencyInv

\* Whatever the devices, their latencies, and the moment one replaces another, no
\* take is cut by the latency of a device it was not captured from
\* (EngineHost.cpp:142-155), unless the queue refused that latency.
THEOREM TakesKeepTheirLatency ==
    ASSUME OnlyHostSetsLatency PROVE HostSpec => []TakesUseTheirLatency
<1>1. HostInit => LatencyInv
  BY HostAssumption DEF HostInit, Init, LatencyInv, BuffersEmpty
<1>2. TypeOK /\ QueuedOK /\ LatencyInv /\ [HostNext]_hostVars => LatencyInv'
  BY LatencyKept
<1>3. TypeOK /\ QueuedOK /\ LatencyInv => TakesUseTheirLatency
  BY LatencyIsRight
<1> QED
  BY <1>1, <1>2, <1>3, HostTypeCorrect, PTL DEF HostSpec
=============================================================================
