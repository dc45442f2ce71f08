# Loopa in TLA+

Loopa is a four-track live looper: a JUCE application whose audio thread records,
plays and aligns loops, whose user interface drives it through lock-free queues,
and whose background worker converts loops with a neural model. This directory
models its core, checks the models with TLC on small instances and proves the
invariants that matter with TLAPS. Paths below are relative to the repository's
root; `core/` and `app/` stand for `src/core/` and `src/app/`.

## 1. The system

### Components, their state and their operations

| Component | State | Operations |
|---|---|---|
| `core/LockFreeQueue.h` | `m_head`, `m_tail`, `m_storage` | `tryPush` (one producer), `tryPop` (one consumer) |
| `core/LooperEngine.*` | tracks, transport, recording buffers, pending activations, published handles, inbox, compensation, snapshot atomics | `processBlock` (commands, inbox, crossings, capture, auto-stop, mix, advance), `postCommand`, `drainEvent`, `submitLoop`, `activeLoopForUi`, `snapshot`, `prepareToPlay`, `releaseResources` |
| `core/Track.h` | armed, bars, mode, record state, loops, active index | setters, `addLoop`, `appendLoop`, `cycleNextLoop`, `setActiveLoopIx` |
| `core/Transport.h` | timebase, length and bars of the window, position, playing | `setTotalLengthSamples`, `advance`, `samplesPerBeat`, display queries |
| `core/RecordingBuffer.h` | written, overflowed | `reset`, `append` |
| `core/BpmDetector.*` | none | `detectBpm`, `samplesForBars` |
| `app/TimbreTransferService.*` | busy flags, job queue, shutdown flag, model | `submit`, `isBusy`, `deliver`, `workerMain`, destructor |
| `app/EngineBridge.h` | none | one method per UI command; `convertActiveLoop` |
| `core/Loop.*`, `AudioBuffer.h` | samples, bars, tempo, version | `overdubSum`, `replaceRegion`, `clearAudio`, `readWrapped`, `snapshot` |
| `core/Metronome.*` | position in the click, amplitude | `trigger`, `render` |
| `app/EngineHost.*` | device manager, engine, service | `start`, `stop`, the device callbacks, `changeListenerCallback` |
| `app/MainComponent`, `TopBar`, `TrackRow` | what was last drawn, auto-metronome flag | key presses, clicks, the timer that drains events and redraws |
| `app/WaveformView.mm`, `MetalContext.mm` | peak cache by loop and version, count-in overlay | `render` once per frame |
| `app/Settings.*`, `SettingsComponent` | one record, one file | `load`, setters that change and save |
| `core/Timbre`, `core/AiPreprocess` | the loaded models | `transfer`, `process`; `ensureModel` for each stage |
| `core/Logger.*` | one file | `log`, rotation |
| `core/UndoStack.h`, `core/MidiMap.h` | bounded stacks; a binding table | used by their tests only |

### How they interact

* **UI -> engine**: commands through an SPSC queue of 256, drained at the top of
  every `processBlock`. **Engine -> UI**: events through one of 1024, drained by a
  timer; a snapshot of atomics at the end of a block; a handle to each track's active
  loop under `m_uiLoopMutex`. A full queue refuses, and no caller looks at the refusal.
* **Conversion**: `EngineBridge::convertActiveLoop` takes the published handle and
  submits it. The worker reads the switches of the pre-processing, runs those stages
  over a copy, transfers it, clears the busy flag and posts a completion to the message
  thread, which hands the new loop to the engine's inbox (`submitLoop`). The audio
  thread drains the inbox with `try_lock` and activates the loop at the next bar one,
  or at once when the transport does not roll.
* **Device -> engine**: `audioDeviceAboutToStart` replaces the recording buffers and
  posts the latency compensation behind whatever the queue holds.
* **Settings**: loaded once, changed by the message thread, read by the worker without
  the mutex; the device is remembered whenever one is opened.
* **Engine -> waveform**: the samples of a loop and its version are written by the audio
  thread and read by the view; only the mutex of the handle orders the two.

### What is hard

1. Two threads in the ring at once, with stale views and wrapping counters.
2. `processBlock` is a sequence of phases that share state; another thread's loop or
   conversion can arrive between any two, and takes can end in three of them.
3. The phase relation: the window is the longest active loop, and everything that
   moves the position or changes a length moves every track.
4. Deferred activation: a loop index remembered now and used at a later bar one.
5. Count-ins and auto-stops must happen, on a sample count, for every length.
6. A device that restarts in the middle of a take, with another latency.
7. Submit, worker and destructor share a condition variable; the busy flag is
   cleared before the completion runs.
8. Keys and chips compute what they send from a snapshot that lags behind.
9. A cache keyed by a version that is read apart from the samples it stands for.
10. A crash between a change of the settings and its write; switches that change
    while a job reads them.

`PROJECT.json` lists each hazard with its line and the property that covers it.

### What makes each component correct

* Queue: no overrun, no race on a slot, FIFO without loss, delivery.
* Engine: no take without a running transport; buffers emptied by every outcome; one
  start and one outcome event per take; window = longest active loop; position in the
  window; takes in phase; auto-stopped takes are whole bars; tempo set once; swaps at
  bar one; count-ins, takes and waiting loops end.
* Device host: no buffer mixes the samples of two devices, or is cut by the latency of
  another; the engine's invariants survive a restart at any time.
* Service: one conversion per track; no lost wakeup; orderly shutdown; each accepted
  conversion completes once, in order.
* User interface: the picture becomes true again, whatever the queues have refused; the
  metronome is switched on by the program once, and the engine gets to know of it unless
  a full queue refuses.
* Waveform: peaks catch up with the samples; the overlay counts the beats that are left,
  and goes when the count-in does; one line per beat, of the right kind.
* Settings: within their limits whatever the file holds; a launch finds what the last
  setter left.
* Conversion: stages follow the switches; a missing model is looked for once; the
  result has the source's length and the timbre asked for, and is silent at its end only
  where a model has not answered.

## 2. The modules

| Module | Models | Reads as |
|---|---|---|
| `BoundedFifo` | what a queue promises | abstract: a FIFO whose ends hear of each other late |
| `LockFreeQueue` | `LockFreeQueue.h` | one action per access to a shared location |
| `LockFreeQueueProofs` | | occupancy, freedom from data races, and the steps of the refinement |
| `Timebase` | `BpmDetector.*`, `Transport::samplesPerBeat` | pure operators |
| `LooperEngine` | `LooperEngine.*`, `Track.h`, `Transport.h`, `RecordingBuffer.h`, `EngineBridge::convertActiveLoop` | the audio thread as a program with a counter, UI and worker interleaved |
| `MCLooperEngine` | | the command alphabets of the runs |
| `LooperEngineProofs` | | types, takes and the transport, buffers, position, tempo |
| `LooperEngineActionProofs` | | events, the UI's handle, swaps, auto-stops, the window, the phase of takes |
| `Conversions` | what the service promises | abstract: one queue of transfers, oldest first |
| `TimbreTransferService` | `TimbreTransferService.*` | message thread and worker, one action per critical section, atomic or notification |
| `TimbreTransferServiceProofs` | | wakeups, shutdown, one conversion per track, and the steps of the refinement |
| `EngineHost`, `MCEngineHost` | `EngineHost.*`, `prepareToPlay`, `releaseResources` | extends `LooperEngine` with the device and its callbacks |
| `EngineHostProofs` | | the engine's invariants across restarts, the latency of takes |
| `LooperUi`, `MCLooperUi` | `MainComponent`, `TopBar`, `TrackRow`, the queues and snapshot between them and the engine | two parties that poll, the engine abstract |
| `LooperUiProofs` | | the bounds of the queues and the automatic metronome |
| `Waveform`, `MCWaveform` | the peak cache of `WaveformView.mm`, the version of `Loop.*` | the audio thread and the frames of a view, with relaxed memory |
| `WaveformFrame`, `MCWaveformFrame` | overlay and grid of `WaveformView.mm`, the snapshot they are drawn from | what the engine shows of itself, and the frames that are presented or lost |
| `WaveformProofs` | | what a view sees, the overlay, the grid |
| `Settings` | `Settings.*`, `SettingsComponent.cpp`, `Main.cpp` | a record, a file, crashes |
| `Conversion`, `MCConversion` | the job of `workerMain`, `TimbreTransfer.cpp`, `AiPreprocess.cpp`, `AudioResample.h` | extends `Settings` with the worker |
| `ConversionProofs` | | restarts, stages, models and the result |

`LockFreeQueue` implements `BoundedFifo` and `TimbreTransferService` implements
`Conversions`: each refinement mapping is an `INSTANCE ... WITH` at the end of the
detailed module, and a run checks the abstract specification, its liveness included.

### LockFreeQueue

`tryPush` and `tryPop` are split at each load and store: load the other side's counter,
test, touch the slot, publish. A relaxed load of the side's own counter is exact. An
acquire load of the other's may return any value from the one last seen to the current
one (`Visible`). Counters are reduced modulo `WordSize`, a multiple of the capacity.

### LooperEngine

Audio is abstracted to lengths: a loop is its bar count and its length in samples, a
take is the number of samples captured. Tempo is in hundredths of a beat per minute,
the precision `detectBpm` rounds to; quotients are exact and rounded as the code rounds
its doubles.

The program counter `phase` follows `processBlock`:

| `phase` | Code | Actions |
|---|---|---|
| `commands` | the `tryPop` loop, then `drainLoopInbox`'s `try_lock` | `HandleCommand`, `SkipInbox`, `TakeInbox` |
| `stopping` | the loop of `stopAllRecordings`, one track a step | `StopTake`, `CancelCountIn`, `StopDone` |
| `draining` | the loop of `drainLoopInbox`, one entry a step | `DrainEntry`, `DrainDone` |
| `crossing` | scan of the block and capture, or the oversized block | `ScanBlock`, `OversizedBlock` |
| `autostop` | `autoStopCompletedRecordings`, then `advance` | `AutoStop`, `EndBlock` |

`finishRecording` is one operator with an alternative per outcome: `Reject` (its four
rejections), `Merge` (overdub and replace), `KeepFirst` (which sets the tempo) and
`KeepNext`. `SetWindow` is `updateTransportLength`, with the wrap of the position.
Between any two steps the other threads may convert the published loop
(`ConvertActiveLoop`), complete a transfer (`submitLoop`) or fail one
(`ConvertFails`). `emitted` holds the events of the last step.

A command is any member of `Commands`, so a run's alphabet says what its user does.
`ScanBlock` treats the samples of a block as sets of offsets: all the loop in
`handleTransportCrossings` does at a bar one or a beat does not depend on the order of
samples inside a block, except that a count-in begins at the first bar one.

### TimbreTransferService

A critical section of `m_mutex` is one action, as are an access to an atomic and a call
of the condition variable. The wait's predicate is evaluated with the mutex held, so
testing it and falling asleep is one step; spurious wakeups are allowed. Loading the
model and transferring are an outcome each. `RunCompletion` is the lambda given to
`callAsync`; when the destructor runs, the message loop has ended. `submit` refuses a
busy track and changes nothing, so refusal is the guard of `Submit`.

### EngineHost

The device calls `processBlock` only between `audioDeviceAboutToStart` and
`audioDeviceStopped`, and neither while a callback runs, so `ReplaceBuffers` has the
guard `phase = "commands"`. The command with the latency of a device is kept apart from
the engine's alphabet, in `queuedComp`, and comes out of the queue at any point of the
command loop, but before the loop ends; `refused` remembers a full queue. Opening,
closing and restarting devices is JUCE's and external. All devices have one sample
rate, the 48 kHz `start` asks for: `prepareToPlay` would also take another rate over into
the timebase and the size of the buffers (`LooperEngine.cpp:48`, `:51-61`), and the
lengths of the loops there are would then mean other durations. That is not modelled.

### LooperUi

The engine is one track whose record state changes as `LooperEngine` lets it: at a
command, at a bar one, at the end of a take. What counts is what passes between the two
threads: `Post` and `Push` drop what does not fit, `Publish` copies the state at the end
of a block, `Redraw` copies the snapshot into the picture, and each key and chip sends
what it computes from the snapshot (`PressRecord`, `ClickField`) or a toggle
(`PressPlay`). The command that switches the metronome on by itself is like that of the M
key; in the model it has a name of its own (`AutoOn`), so that `reached` can tell when
the engine handles it, and `refused` when the queue did not take it. Both are history.

### Waveform

A location is the samples of one peak, or the version; it holds the version of the loop
it was written for. `own` is what the audio thread has stored, `seen` what the message
thread can see of it; `BecomeVisible` lets one store become visible, in any order, as
relaxed atomics and plain stores do on the processors the program is built for. Taking
the handle (`TakeHandle`) is the one acquire. A frame is `TakeHandle`, `ReadVersion`,
one `ReadPeak` for each peak. What is drawn from the peaks is not a step of its own.

### WaveformFrame

Of the engine there is what a frame is drawn from: the track's loop, the window and the
position, its record state, and `published`, the fields the last block has stored. A
count-in needs a window, not a loop on the track: the main case is a second track
without one. `Snapshots` mixes the fields of two blocks, since each is an atomic of its
own and nothing orders them. `PresentFrame` takes one of these and the newest handle,
draws the grid and updates the overlay. `LoseFrame` is each early return of `render`
(`WaveformView.mm:438-439`, `:461`, `:464`): nothing is presented, and the overlay
keeps what an earlier frame has left there. The position may be anywhere in the
window at each block, which is more than the transport does. The grid is in units of
half a sample per beat, so the code's quotients are exact, and `Multiples` has its floor
and ceiling; bars are powers of two (`FrameAssumption` does not say so: other values round
a double where the model does not).

### Settings and Conversion

A setter is two steps, `mutate` and `save`, since the mutex is released in between and
the program can end there. `save` replaces the file or fails. `settled` and `spoilt` are
history: what the last setter that returned has left, and whether a write failed.

`Conversion` follows one job. Each read of a switch is a step (`ReadAny`, which stops at
the first that is on, then `ReadOption`), each stage a step of `process`, and `transfer`
is one. Audio is its length, the part at its end that is silent, and its timbre.
`Resampled` rounds as `llround` does, and chunks are cut as the code cuts them. The models
are files the program is given, and nothing checks how many samples they answer with: each
answer may be short by a member of `Shortfalls`, and what is missing is filled with zeros
as the code fills it (`AiPreprocess.cpp:211-218`, `:261-267`, `TimbreTransfer.cpp:391-402`).
`unanswered` is the history of that; what is too long is cut, which is no worse than an
answer of the right length. All chunks of a job are answered alike, since they are all
of one length.

## 3. The runs

| Run | Instance | Question |
|---|---|---|
| `LockFreeQueue` | 2 messages, capacity 2, words of 2 bits | does every interleaving implement a FIFO that delivers? |
| `Record` | 2 tracks; record, stop, play, select, bars, overdub; conversions | do window, buffers, events, handles and tempo stay consistent, and do swaps land on bar one? |
| `Single` | 1 track; all modes, both bar counts, one sample of latency; conversions | are takes in phase and on the grid, do count-ins and takes end, do waiting loops begin? |
| `Host` | 1 track, 2 devices; every kind of command but the latency's, which the device posts; both activations | do the engine's invariants hold whatever is posted and around device restarts? |
| `Service` | 2 tracks, 2 sources, at most 3 open transfers | conversions once and in order, no lost wakeup, orderly shutdown? |
| `Ui` | queues of 2, 4 actions of the user, the metronome and a chip of 3 values | does the picture become true, does a lock reach the metronome, and once? |
| `Waveform` | 2 loops of 1 and 2 peaks, 2 versions | do peaks catch up with the samples? |
| `WaveformFrame` | loops of 3 samples and 1 bar and of 4 samples and 2 bars, 3 samples in view | are overlay and grid right, and does the overlay go? |
| `Conversion` | 3 jobs at 2 rates, 3 changes of the settings, answers complete or 2 samples short | do stages follow the switches, results keep their length, restarts find the settings? |

All of these pass. The three runs below each check one property a document or comment of
the repository states and the code does not keep; TLC finds the counterexample.

| Run | Property | What happens |
|---|---|---|
| `WindowAfterConvert` | `WindowFitsLongest` | bar-one activation does not recompute the window (`LooperEngine.cpp:550-554`); `Transport.h:23` says it matches the longest loop |
| `TwoTakes` | `TakesInPhase` | a take that ends resets the position under another take (`:189`); `docs/feature-brief.md:51` |
| `EndlessTake` | `TakesEnd` | a target of zero, or beyond the buffer, is never reached (`:205-207`); `docs/feature-brief.md:59` |

`TakesInPhase` and `WindowFitsLongest` are also checked by passing runs whose users stay
clear of the divergence, so they say what does hold: with one track, without a longer
pending loop. `TakesInReachEnd` is the part of `TakesEnd` the code achieves.

More divergences are on record without a run; the first four showed in TLC's
counterexamples while the properties were written:

* cycling swaps at once (`LooperEngine.cpp:421-428`), against
  `docs/feature-brief.md:146`; so `SwapsLandOnBarOne` is checked without cycling;
* the bar one that an auto-stop creates is passed over by `advance` (`:189`, `:634`),
  against the comment at `:538-540`;
* a frame that sees the new version before the samples keeps the old peaks for good
  (`Loop.cpp:35` is relaxed, `WaveformView.mm:209`), against `Loop.h:27-29`; so
  `PeaksCatchUpUnlessEarly` excepts it;
* the flag that the metronome has been switched on is set although the command queue may
  refuse the command (`MainComponent.cpp:114-115`, `EngineBridge.h:123-129`), and no later
  lock tries again, against `docs/feature-brief.md:21`; so `LockReachesMetronome` excepts
  it, as it does a lock that met a full queue of events;
* a model that answers with fewer samples than it was given leaves the end of the loop
  silent without a sign (`AiPreprocess.cpp:215-218`); so `ResultIsWhole` allows for what
  the answers lack, and for no more;
* a frame that finds no drawable leaves the number of an earlier one over the waveform
  (`WaveformView.mm:461`); so `OverlayTells` is about presented frames, and `OverlayGoes`
  about what is left;
* a count-in can announce 0 beats (`:575`), where `EngineMessages.h:56` says N..1;
* a take stopped by hand keeps a bar count it does not fill (`:182`, against
  `Loop.h:12-13`);
* a loop submitted without activation to a track with no active loop becomes active
  unpublished (`:302`, against `LooperEngine.h:84-85`); no caller does that today.

Every property of a passing run has a mutant: an operator that changes the modelled
code the way a bug would, placed before the operator it replaces, with which TLC finds
the property violated.

### Bounds, and why they are enough

* `SampleRate = 1` with `AllowedBars = {1, 2}`: at 120 BPM a bar is 2 samples, at 60 BPM
  4. Lengths differ by a factor of two and more, takes may be shorter or longer than
  their bars, and `BlockSize = 2` puts the start of a window inside a block, at its
  edge, and twice in one block.
* `LongestBars = 2`: the buffer saturates within a run, as 64 seconds of input do.
* `MaxLoops` bounds what a track holds or is about to hold: loops, inbox entries, open
  transfers and the current take. Two are enough for a loop and its successor of
  another length; `WindowAfterConvert` needs three. An action that would exceed it is
  not taken; the bound is named `Room` in the module.
* Two tracks: every interaction between tracks in the code is pairwise, through the
  window, the position or the tempo.
* The ring of two slots and four counter values wraps after two turns.
* `Host` has one track, since a restart treats all alike, and two latencies, 0 and 1.
  Deadlock is not checked: with the device stopped, or never opened, nothing more
  happens.
* `QueueSize = EventSize = 2` in `Ui`: the two events of one kept take fill the queue of
  events, and two commands in one block that of commands, so both refuse within
  `MaxPresses = 4` actions of the user: a take, its end and two more.
* `MaxVersion = 2`: a loop as it was kept and one change, which is what one frame can
  straddle; the loops have 3 and 4 samples, so that the last peak of one is full and of
  the other is not.
* `WaveformFrame`: 1 and 2 bars of 2 beats, so that all three kinds of lines meet, and two
  lengths, so that a position can lie beyond the window it is read with.
* `MaxChanges = 3` changes of the settings: each switch once, or one switch on, off and on
  during one job. Rates 4, 7, 8 and 16 stand for the models' 24 and 42 kHz and for devices
  of 48 and 96 kHz; lengths 2, 8 and 13 leave the last chunk of 3 samples full or not,
  and too short for a measure of loudness. A shortfall of 2 leaves nothing of the
  shortest loop, and a third of a chunk.
* `MaxTransfers` bounds the open transfers: two of one track, one running and one whose
  completion has not run, beside one of the other.

### Fairness, and why the code justifies it

* Queue: both sides are polled for ever (`processBlock`, `timerCallback`); stores become
  visible in finite time (strong fairness of a load that returns the current value). No
  push is owed.
* Engine: the device calls `processBlock` for ever and a callback ends, so the steps of
  a callback are weakly fair. Strong fairness of leaving the command loop, of taking a
  non-empty inbox and of scanning a block say that the queue does not refill for ever
  inside one callback, that the mutex is not held at every callback, and that not every
  block is oversized. No user or worker step is owed.
* Service: the worker and the steps inside a call go on; a posted completion is run
  unless the program closes first (the message queue is FIFO). Neither clicks nor
  spurious wakeups are owed.
* Ui: the device calls for blocks and the timer ticks for ever: weak fairness of
  `AudioThread` and `Timer` as wholes, since each does one thing after the other. The
  user owes nothing.
* Waveform: frames are drawn and finished (`Render`), the audio thread finishes what it
  began (`PublishAgain`), and each store becomes visible in the end. No take, cycle or
  overdub is owed.
* WaveformFrame: blocks are published for ever, and frames are presented again and again:
  drawables come back in the end. The second is Metal's, an assumption about what is
  external; the code only asks again at the next frame. No take is owed.
* `EngineHost`, `Settings` and `Conversion` state no fairness: their properties are
  safety.

## 4. What is proved

For every value of the constants that satisfies the named assumptions
(`CapacityAssumption`, `WordAssumption`, `MessageAssumption`; `RateAssumption`,
`BarsAssumption`, `EngineAssumption`, `CommandAssumption`; `ServiceAssumption`;
`UiAssumption`; `WaveformAssumption`, `FrameAssumption`; `SettingsAssumption`, `NoRecord`,
`ConversionAssumption`):

| Theorem | States |
|---|---|
| `LockFreeQueueProofs!TypeCorrect` | `Spec => []TypeOK` |
| `LockFreeQueueProofs!NeverOverfull` | `Spec => []OccupancyBound` |
| `LockFreeQueueProofs!RaceFree` | `Spec => []NoDataRace` |
| `LockFreeQueueProofs!RingIsFifo` | `Spec => Fifo!Init /\ [][Fifo!Next]_(Fifo!vars)`: the steps of `FifoSpec` |
| `LockFreeQueueProofs!PushAddsItsArgument` | `Spec => [][PushPublish => Fifo!Push(value)]_vars` |
| `LooperEngineProofs!TypeCorrect` | `Spec => []TypeOK`: all loop indices are valid |
| `LooperEngineProofs!TakesRunWithTransport` | `Spec => []TakesNeedTransport` |
| `LooperEngineProofs!BuffersAreEmptied` | `Spec => []BufferEmptyUnlessRecording` |
| `LooperEngineProofs!PositionStaysInWindow` | `Spec => []PositionInWindow` |
| `LooperEngineProofs!TempoIsLocked` | without `SetBpm` commands, `Spec => TempoStaysLocked` |
| `LooperEngineActionProofs!EventsAreBrackets` | `Spec => EventsBracketTakes` |
| `LooperEngineActionProofs!UiIsShownWhatPlays` | if nothing deselects, `Spec => []UiSeesActive` |
| `LooperEngineActionProofs!SwapsWaitForBarOne` | if nobody chooses loops, `Spec => SwapsLandOnBarOne` |
| `LooperEngineActionProofs!AutoStopsAreWhole` | if the timebase is detected, `Spec => AutoStopsOnTheGrid` |
| `LooperEngineActionProofs!WindowFitsUntilSwitch` | if nothing deselects, `Spec /\ [][~SwitchAtBarOne]_vars => []WindowFitsLongest` |
| `LooperEngineActionProofs!TakesStayInPhase` | without `SetBpm`, `Spec /\ [][~MovesUnderATake]_vars => []TakesInPhase` |
| `EngineHostProofs!HostTypeCorrect` | `HostSpec => [](TypeOK /\ QueuedOK)` |
| `EngineHostProofs!HostTakesRunWithTransport` | `HostSpec => []TakesNeedTransport` |
| `EngineHostProofs!HostPositionStaysInWindow` | `HostSpec => []PositionInWindow` |
| `EngineHostProofs!TakesKeepTheirLatency` | if only the host sets the latency, `HostSpec => []TakesUseTheirLatency` |
| `TimbreTransferServiceProofs!TypeCorrect` | `Spec => []TypeOK` |
| `TimbreTransferServiceProofs!WakeupsAreKept` | `Spec => []NoLostWakeup` |
| `TimbreTransferServiceProofs!NothingLeftBehind` | `Spec => []JoinedWhenGone` |
| `TimbreTransferServiceProofs!OneConversionPerTrack` | `Spec => []OneJobPerTrack` |
| `TimbreTransferServiceProofs!ConversionsAreOrdered` | `Spec => Promise!Init /\ [][Promise!Next]_(Promise!vars)`: the steps of `ConversionsSpec` |
| `LooperUiProofs!TypeCorrect` | `Spec => []TypeOK`: neither queue exceeds its size |
| `LooperUiProofs!MetronomeSwitchedOnOnce` | `Spec => []SwitchedOnOnce` |
| `WaveformProofs!TypeCorrect` | `Spec => []TypeOK`: the view never sees what was not stored |
| `WaveformProofs!OverlayIsTrue` | `FrameSpec => []OverlayTells` |
| `WaveformProofs!GridHasEveryBeat` | `FrameSpec => []GridIsTrue` |
| `ConversionProofs!TypeCorrect` | `ConversionSpec => []TypeOK` |
| `ConversionProofs!SettingsSurvive` | `ConversionSpec => RestartRestores` |
| `ConversionProofs!StagesAreThoseAsked` | `ConversionSpec => []StagesFollowTheSettings` |
| `ConversionProofs!ModelsLookedForOnce` | `ConversionSpec => []ModelsAreLookedForOnce` |
| `ConversionProofs!ConvertedIsWhole` | if every timbre is one of the menu's, `ConversionSpec => []ResultIsWhole` |

**The ring.** `OccupancyBound` is not inductive: a producer past its test acts on an old
value of the tail. The invariant adds that each side's view lies between what it knew
and the truth, as distances modulo the word (`Views`), and what is true of a side that
has passed its test (`Filled`). The lemmas on `Minus` and `Visible` carry the modular
arithmetic. `RaceFree` follows from the same invariant: while both sides are between the
move and the store, the counters are more than zero and less than a capacity apart, and
`SlotsDiffer` shows that such counters never share a slot. It is where the proof uses
that the capacity divides the word size, the consequence of the `static_assert` that the
capacity is a power of two.

`RingIsFifo` is the step simulation of `BoundedFifo`. Beside the same invariant it needs
`Moves`: what the consumer has moved out is the oldest message until it publishes
(`OutIsOldest`), and what the producer is about to publish is its argument
(`ArgumentIsStored`). Each action has its lemma: `PushIsPush` and `PopIsPop` for the two
that publish, `StoreIsInvisible` for a slot written beyond the queue, `LoadsAreHearing`
for a load that hears of the other end, `TestsAreJust` for a test that refuses.

**The engine.** `TypeOK` is inductive by itself, with `active`, `pending`, `uiLoop` and
`transfers` as indices into lists that only grow (`Appended`, `Frame`). One lemma per
action; `KeepAsTyped` and `CutIsALength` carry the arithmetic of lengths.
`TakesNeedTransport` is not inductive: a stop command ends the takes one step at a time
before it stops the transport. The invariant `TakesInv` adds that tracks already passed
by the loop are idle, that a stop that will halt the transport was planned in this
phase, and that the buffers of idle tracks are empty. `PositionInWindow` needs only
`TypeOK`. `TempoIsLocked` assumes a command set without `SetBpm`; the bridge has a
method for it, `setBpm`, which nothing in the application calls.

Six theorems more are in `LooperEngineActionProofs`. Some hold for some users only, and
say so in an assumption on `Commands`, named for what the user does not do. Nothing
in the application posts `SwitchActiveLoop` (`NeverDeselects`), `SetBeatsPerBar` or
`SetBpm` (`TempoIsDetected`, `NeverSetsTempo`); the chip that cycles loops
(`TrackRow.cpp:88`) is excluded only by `NeverChooses`, in `SwapsWaitForBarOne`.

* `EventsBracketTakes` and `SwapsLandOnBarOne` are properties of one step, from `TypeOK`:
  `Brackets` and `Lands` are shown for each action, the block that begins several takes
  at once included. Without `NeverChooses` the second is false, as the divergence on
  cycling says.
* `UiSeesActive` is not inductive, since `appendLoop` makes a loop active unpublished when
  the track has none. `UiInv` adds that a track with a transfer or an inbox entry
  plays a loop, which is so because a transfer begins with the published loop.
* `AutoStopsOnTheGrid` needs that a bar is not shorter than a sample, hence `TempoInv`: the
  tempo is one the detector can return.
* `WindowInv` says that only the drain leaves the window behind, and remembers it in
  `immediate`. It is inductive but for one step, `SwitchAtBarOne`: a pending loop of
  another length takes over. `WindowFitsUntilSwitch` therefore assumes that this step is
  not taken, and with the run `WindowAfterConvert`, which takes it, tells exactly
  where the code departs from `Transport.h:23`.
* `TakesInPhase` is about devices with an input (`HasInput`): without one a take captures
  nothing while the transport moves on. `TakePhase` strengthens it to all phases, with
  the position a block will have reached. `NoTempoInv` says that a session without a
  tempo has no loops, so that a first take has no window to be in phase with. What
  breaks it is `MovesUnderATake`, a step that moves the transport or its window while a
  take goes on; the run `TwoTakes` takes such a step.

**The device host.** The engine's lemmas are about single actions, so the theorems about
`EngineHost` cite them for the engine's steps and add the device's: the command that
comes out of the queue late, new buffers, blocks that begin and end with a device.
`LatencyInv` says that from the announcement of a device to the end of the first command
loop its latency is in the queue and the buffers are empty, and later that the
compensation is the device's, unless the queue refused.

**The service.** `ServiceInv` adds to the properties that a job is in hand exactly while
someone works on it, and that shutdown begins only after the last submit has notified.
`OneJobPerTrack` is about the sequence of unfinished jobs: the one in transfer, those
queued, the one submit is about to queue. `UnfinishedSteps` shows that every step but two
leaves that sequence as it is, although jobs change hands: `Submit` appends one and
`ClearBusy` takes the first away. `AppendIsOnePerTrack` and `TailIsOnePerTrack` show that
both keep the tracks distinct and the busy flags equal to the tracks that occur.
`ConversionsAreOrdered` maps the service to `Conversions` by the sequence of open
transfers: completions posted, the job in hand, those queued, the one about to be.
`OpenSteps` shows that handing a job on moves the boundary between these parts and not
the sequence, and `CompletionIsOfTheOldest` that a completion takes its head.

**The user interface.** `UiInv` adds to `TypeOK` that every queued command is in range,
also those the chips compute modulo their number of values from a snapshot, and for
`SwitchedOnOnce` that the flag is set whenever the metronome was switched on.

**Settings and conversions.** `RestartRestores` is an action property. Its invariant,
`SettingsInv`, says that unless a write failed the file, once read, gives what was
settled (`Loaded(file) = settled`); `ReadAsWritten` is the round trip of a valid record,
which needs that the limits on reading reject nothing a setter accepts. `StagesInv`
relates the switches read so far (`Before`) to those that were on or off at some time
during the job; `StageByStage` is the induction over the three stages written out.
`ResultInv` follows the silent end, and what the models have left unanswered, through the
job; that a stage still to run has left nothing unanswered is part of it, so that each
silence is excused by its own cause (`MoreUnanswered`). `QuotientIsClose` and
`ResampledIsClose` bound a rounded quotient from both sides, `RoundTrip` the two
resamplings of a stage with a short answer in between, and `ChunksCover` shows that the last chunk ends beyond the audio.
`TimbresAreOffered` says that a job asks for a timbre of the row's menu
(`TrackRow.cpp:283-306`).

**The waveform.** `StoredInv` relates what is stored, what is released and what is seen of
each location, and `FrameInv` what a frame in progress has read to the loop it holds.
`OverlayInv` adds that the number that is remembered is the one that is shown, through
frames that are lost, and `BeatsLeftAreTrue` is the arithmetic of the rounded-up quotient.
`GridHasEveryBeat` has two halves: `LinesAreOfBeats`, that the nested loops draw no line
but a beat's and the right one, and `BeatsHaveLines`, that each beat in view is met by
one of them; `ViewIsSearched` and `ViewIsInReach` show that the bounds of the
code's loops, and of the property, leave out no beat in view.

### What is only model-checked

Every safety property a passing run checks is stated by a theorem, with the hypotheses
named above, the safety part of the two refinements included. Left to TLC is liveness,
which is outside the prover's reach: `Delivery`, `CountInEnds`, `TakesInReachEnd`,
`PendingBegins`, `ShutdownEnds`, `LockReachesMetronome`, `PictureIsTrue`,
`PeaksCatchUpUnlessEarly`, `OverlayGoes`, and the fairness in `FifoSpec` and
`ConversionsSpec`. The mutants and the counterexamples of section 3 are TLC's too.

## 5. What is not modelled

* Samples and their arithmetic: overdub sums, gains, the mix, filters, inference, loudness
  in decibels. A conversion that copies a loop while it is overdubbed mixes samples of
  before and after; its length and timbre do not depend on it.
* Layout, painting, colours, shaders and the resources of Metal; the live trace of a
  take, which reads a pointer and a count of a buffer the audio thread writes, and on
  which nothing but the drawing of one frame depends; widgets.
* The display queries of `Transport` (`currentBar`, `currentBeat`, `totalBars`) and of
  the bridge, which no state depends on. With a length that is not a multiple of the
  bars the first of them shows one bar too many at the very end of a window.
* Settings that only shape the sound (gains), and the text of the file.
* `Metronome` (triggered and rendered by the audio thread, feeding nothing back),
  `Logger` (every call under one mutex), `UndoStack` and `MidiMap` (their tests are
  their only users), `removeLoop` and `replaceActiveLoop` (no caller).

The double arithmetic of the timebase is exact here; its rounding error at 64 seconds of
samples is far below half a sample, so the rounded results agree except at exact
halves.

## 6. Plan

Models, in order: a composition of `LooperEngine` and `Conversions`, replacing the
engine's own account of transfers; `LooperUi`'s track as a refinement target of
`LooperEngine`; `Timebase` against a reference (round trip of `detectBpm` and
`samplesForBars`).

Proofs: `TakesInPhase` for several tracks
that keep one take at a time, to replace a hypothesis on steps by one on users;
`WindowFitsLongest` when all conversions keep the length of their source.
