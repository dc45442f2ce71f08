-------------------------- MODULE ConversionProofs --------------------------
(***************************************************************************)
(* The settings and the conversions, for every set of devices and allowed  *)
(* bars, every job, rate and length of a chunk: what a restart finds, and  *)
(* which stages a conversion has run.                                      *)
(***************************************************************************)
EXTENDS Conversion, TLAPS

-----------------------------------------------------------------------------
(* The settings, whatever the worker does *)

\* The file is none, or broken, or a record whose bars may be off their limits.
FileOK == \/ file \in {NoFile, Corrupt}
          \/ file \in [bars : AllowedBars \union {0}, device : Devices \union {NoDevice},
                       pre : SUBSET Stage]

\* Unless a write failed, the file holds what the last setter that returned has left.
SettingsInv == /\ SettingsTypeOK /\ FileOK
               /\ app \in {"down", "starting", "running"} /\ saving \in BOOLEAN
               /\ ~spoilt => Loaded(file) = settled

LEMMA LoadedIsValid ==
    ASSUME FileOK
    PROVE  Loaded(file) \in Limits
  BY SettingsAssumption DEF FileOK, Loaded, Valid, Limits, Defaults

\* What is valid is read as it was written.
LEMMA ReadAsWritten ==
    ASSUME NEW d \in Limits
    PROVE  Loaded(d) = d
<1>1. d.bars \in AllowedBars /\ d = [d EXCEPT !.bars = d.bars]
  BY DEF Limits
<1> QED
  BY <1>1, NoRecord DEF Loaded, Valid

LEMMA SettingsInitially == ConversionInit => SettingsInv
<1> SUFFICES ASSUME SettingsInit PROVE SettingsInv
  BY DEF ConversionInit
<1>1. Defaults \in Limits
  BY SettingsAssumption DEF Defaults, Limits
<1>2. [Defaults EXCEPT !.bars = 0]
        \in [bars : AllowedBars \union {0}, device : Devices \union {NoDevice},
            pre : SUBSET Stage]
  BY <1>1 DEF Limits
<1> QED
  BY <1>1, <1>2 DEF SettingsInit, SettingsInv, SettingsTypeOK, FileOK

LEMMA MutateKeepsLimits ==
    ASSUME SettingsInv, NEW d \in Limits, mutate(d)
    PROVE  SettingsInv'
  BY DEF SettingsInv, SettingsTypeOK, FileOK, mutate, Loaded

LEMMA SettingsStep ==
    ASSUME SettingsInv, SettingsNext \/ UNCHANGED settingsVars
    PROVE  SettingsInv'
<1>1. CASE Launch
  BY <1>1, LoadedIsValid DEF Launch, SettingsInv, SettingsTypeOK, FileOK, Loaded
<1>2. CASE StartHost
  <2>1. ASSUME NEW x \in Devices
        PROVE  [data EXCEPT !.device = x] \in Limits
    BY DEF SettingsInv, SettingsTypeOK, Limits
  <2>2. data' \in Limits /\ saving' \in BOOLEAN
    BY <1>2, <2>1 DEF StartHost, SettingsInv, SettingsTypeOK
  <2> QED
    BY <1>2, <2>2 DEF StartHost, SettingsInv, SettingsTypeOK, FileOK, Loaded
<1>3. CASE Change
  <2>1. ASSUME NEW b \in AllowedBars, mutate([data EXCEPT !.bars = b]) PROVE SettingsInv'
    <3>1. [data EXCEPT !.bars = b] \in Limits
      BY DEF SettingsInv, SettingsTypeOK, Limits
    <3> QED
      BY <2>1, <3>1, MutateKeepsLimits
  <2>2. ASSUME NEW x \in Devices, mutate([data EXCEPT !.device = x]) PROVE SettingsInv'
    <3>1. [data EXCEPT !.device = x] \in Limits
      BY DEF SettingsInv, SettingsTypeOK, Limits
    <3> QED
      BY <2>2, <3>1, MutateKeepsLimits
  <2>3. ASSUME NEW s \in Stage,
               mutate([data EXCEPT !.pre = IF s \in @ THEN @ \ {s} ELSE @ \union {s}])
        PROVE  SettingsInv'
    <3>1. [data EXCEPT !.pre = IF s \in @ THEN @ \ {s} ELSE @ \union {s}] \in Limits
      BY DEF SettingsInv, SettingsTypeOK, Limits
    <3> QED
      BY <2>3, <3>1, MutateKeepsLimits
  <2> QED
    BY <1>3, <2>1, <2>2, <2>3 DEF Change
<1>4. CASE save
  <2>1. Loaded(data) = data
    BY ReadAsWritten DEF SettingsInv, SettingsTypeOK
  <2>2. FileOK'
    BY <1>4 DEF save, SettingsInv, SettingsTypeOK, FileOK, Limits
  <2> QED
    BY <1>4, <2>1, <2>2 DEF save, SettingsInv, SettingsTypeOK, Loaded
<1>5. CASE Down
  BY <1>5, SettingsAssumption
  DEF Down, SettingsInv, SettingsTypeOK, FileOK, Loaded, Limits, Defaults
<1>6. CASE UNCHANGED settingsVars
  BY <1>6 DEF settingsVars, SettingsInv, SettingsTypeOK, FileOK, Loaded
<1> QED
  BY <1>1, <1>2, <1>3, <1>4, <1>5, <1>6 DEF SettingsNext

\* A step of the worker leaves the settings alone.
LEMMA StepsOfSettings ==
    ASSUME [ConversionNext]_conversionVars
    PROVE  SettingsNext \/ UNCHANGED settingsVars
<1>1. CASE UNCHANGED conversionVars
  BY <1>1 DEF conversionVars
<1>2. ASSUME NEW j \in Jobs, Begin(j) PROVE UNCHANGED settingsVars
  BY <1>2 DEF Begin
<1>3. CASE Worker
  BY <1>3 DEF Worker, ReadAny, ReadOption, UnchangedByReads, process, transfer, Deliver
<1>4. CASE Meanwhile \/ Restart
  BY <1>4 DEF Meanwhile, Restart, SettingsNext
<1> QED
  BY <1>1, <1>2, <1>3, <1>4 DEF ConversionNext

LEMMA SettingsInductive == ConversionSpec => []SettingsInv
<1>1. SettingsInv /\ [ConversionNext]_conversionVars => SettingsInv'
  BY SettingsStep, StepsOfSettings
<1> QED
  BY <1>1, SettingsInitially, PTL DEF ConversionSpec

\* Whatever crash or failed write there is, a launch finds what the last setter that
\* returned has left (Settings.h:29-30), unless a write failed.
THEOREM SettingsSurvive == ConversionSpec => RestartRestores
<1>1. SettingsInv /\ [ConversionNext]_conversionVars
      => [app = "down" /\ app' = "starting" /\ ~spoilt => data' = settled]_settingsVars
  <2> SUFFICES ASSUME SettingsInv, [ConversionNext]_conversionVars,
                      app = "down", app' = "starting", ~spoilt
               PROVE  data' = settled
    OBVIOUS
  <2>1. Launch
    BY StepsOfSettings DEF SettingsNext, StartHost, Change, mutate, save, Down, settingsVars
  <2> QED
    BY <2>1 DEF Launch, SettingsInv
<1> QED
  BY <1>1, SettingsInductive, PTL DEF ConversionSpec, RestartRestores

-----------------------------------------------------------------------------
(* The stages that a conversion runs *)

\* The stages whose switch is read, or which are run, before the n-th.
Before(n) == {Stages[i] : i \in 1 .. (n - 1)}

\* What is on now was on, and what is off was off; what has been read, and then run,
\* agrees with that.
StagesInv ==
    /\ worker \in {"idle", "any", "options", "process", "transfer", "done"}
    /\ at \in 1 .. 3
    /\ worker = "idle" => at = 1 /\ applied = {} /\ options = {} /\ ~copied
    /\ worker # "idle" => data.pre \subseteq wasOn /\ Stage \ data.pre \subseteq wasOff
    /\ applied \subseteq wasOn /\ options \subseteq wasOn
    /\ copied => wasOn # {}
    /\ worker = "any" => Before(at) \subseteq wasOff
    /\ worker = "options" => Before(at) \ wasOff \subseteq options
    /\ worker = "process" => /\ Stage \ wasOff \subseteq options
                            /\ options \intersect Before(at) \subseteq applied \union skipped
    /\ worker \in {"transfer", "done"} => Stage \ wasOff \subseteq applied \union skipped

LEMMA StageByStage ==
    /\ \A n \in 1 .. 3 : Stages[n] \in Stage
    /\ Before(1) = {}
    /\ \A n \in 1 .. 2 : Before(n + 1) = Before(n) \union {Stages[n]}
    /\ Stage = Before(3) \union {Stages[3]}
<1>1. Stages[1] = "denoise" /\ Stages[2] = "vocal" /\ Stages[3] = "loudness"
  BY DEF Stages
<1>2. Before(1) = {} /\ Before(2) = {Stages[1]} /\ Before(3) = {Stages[1], Stages[2]}
  BY DEF Before
<1> QED
  BY <1>1, <1>2 DEF Stage

LEMMA ReadAnyStep ==
    ASSUME StagesInv, ReadAny
    PROVE  StagesInv'
<1>1. CASE Stages[at] \in data.pre
  BY <1>1, StageByStage
  DEF StagesInv, ReadAny, UnchangedByReads, settingsVars, modelVars, Before
<1>2. CASE Stages[at] \notin data.pre /\ at < 3
  <2>1. at \in 1 .. 2 /\ at' = at + 1 /\ worker' = "any" /\ Stages[at] \in wasOff
    BY <1>2, StageByStage DEF StagesInv, ReadAny
  <2>2. Before(at') \subseteq wasOff
    BY <1>2, <2>1, StageByStage DEF StagesInv, ReadAny
  <2> QED
    BY <1>2, <2>1, <2>2
    DEF StagesInv, ReadAny, UnchangedByReads, settingsVars, modelVars, Before
<1>3. CASE Stages[at] \notin data.pre /\ ~(at < 3)
  <2>1. at = 3 /\ Stage \subseteq wasOff
    BY <1>3, StageByStage DEF StagesInv, ReadAny
  <2> QED
    BY <1>3, <2>1 DEF StagesInv, ReadAny, UnchangedByReads, settingsVars, modelVars
<1> QED
  BY <1>1, <1>2, <1>3

LEMMA ReadOptionStep ==
    ASSUME StagesInv, ReadOption
    PROVE  StagesInv'
<1>1. (Before(at) \union {Stages[at]}) \ wasOff \subseteq options'
  BY StageByStage DEF StagesInv, ReadOption
<1>2. options' \subseteq wasOn
  BY DEF StagesInv, ReadOption
<1>3. CASE at < 3
  <2>1. at \in 1 .. 2 /\ Before(at') = Before(at) \union {Stages[at]}
    BY <1>3, StageByStage DEF StagesInv, ReadOption
  <2> QED
    BY <1>1, <1>2, <1>3, <2>1
    DEF StagesInv, ReadOption, UnchangedByReads, settingsVars, modelVars, Before
<1>4. CASE ~(at < 3)
  <2>1. at = 3 /\ Stage \ wasOff \subseteq options' /\ Before(1) = {}
    BY <1>1, <1>4, StageByStage DEF StagesInv
  <2> QED
    BY <1>2, <1>4, <2>1
    DEF StagesInv, ReadOption, UnchangedByReads, settingsVars, modelVars, Before
<1> QED
  BY <1>3, <1>4

\* A stage that is to run is applied or skipped, and a model is at hand if it is applied.
LEMMA ProcessRuns ==
    ASSUME process, at \in 1 .. 3
    PROVE  /\ applied \subseteq applied' /\ skipped \subseteq skipped'
           /\ applied' \subseteq applied \union ({Stages[at]} \intersect options)
           /\ Stages[at] \in options => Stages[at] \in applied' \union skipped'
<1>1. CASE Stages[at] \notin options
  BY <1>1 DEF process
<1>2. CASE Stages[at] \in options
  <2>1. \/ runDenoise /\ Stages[at] = "denoise"
        \/ runVocalIsolate /\ Stages[at] = "vocal"
        \/ runLoudnessNormalize /\ Stages[at] = "loudness"
    BY <1>2, StageByStage DEF process, Stage
  <2>2. CASE runDenoise /\ Stages[at] = "denoise"
    BY <1>2, <2>2 DEF runDenoise, Apply, Skip
  <2>3. CASE runVocalIsolate /\ Stages[at] = "vocal"
    BY <1>2, <2>3 DEF runVocalIsolate, Apply, Skip
  <2>4. CASE runLoudnessNormalize /\ Stages[at] = "loudness"
    <3>1. PICK audible \in BOOLEAN :
            IF HasLoudness(audible) THEN Apply("loudness", 0, 0) ELSE Skip("loudness")
      BY <2>4 DEF runLoudnessNormalize
    <3> QED
      BY <1>2, <2>4, <3>1 DEF Apply, Skip
  <2> QED
    BY <2>1, <2>2, <2>3, <2>4
<1> QED
  BY <1>1, <1>2

LEMMA ProcessStep ==
    ASSUME StagesInv, process
    PROVE  StagesInv'
<1>1. /\ applied \subseteq applied' /\ skipped \subseteq skipped'
      /\ applied' \subseteq applied \union ({Stages[at]} \intersect options)
      /\ Stages[at] \in options => Stages[at] \in applied' \union skipped'
  BY ProcessRuns DEF StagesInv
<1>2. /\ applied' \subseteq wasOn
      /\ options \intersect (Before(at) \union {Stages[at]}) \subseteq applied' \union skipped'
  BY <1>1 DEF StagesInv, process
<1>3. UNCHANGED <<options, copied, wasOn, wasOff, data>>
  BY DEF process, settingsVars
<1>4. CASE at < 3
  <2>1. at \in 1 .. 2 /\ Before(at') = Before(at) \union {Stages[at]} /\ at' = at + 1
        /\ worker = "process" /\ worker' = "process"
    BY <1>4, StageByStage DEF StagesInv, process
  <2> QED
    BY <1>2, <1>3, <2>1 DEF StagesInv, Before
<1>5. CASE ~(at < 3)
  <2>1. at = 3 /\ at' = 3 /\ worker' = "transfer" /\ worker = "process"
        /\ options \intersect Stage \subseteq applied' \union skipped'
    BY <1>2, <1>5, StageByStage DEF StagesInv, process
  <2> QED
    BY <1>2, <1>3, <2>1 DEF StagesInv
<1> QED
  BY <1>4, <1>5

LEMMA IdleStep ==
    ASSUME Idle
    PROVE  StagesInv'
  BY DEF Idle, StagesInv

LEMMA StagesStep ==
    ASSUME StagesInv, [ConversionNext]_conversionVars
    PROVE  StagesInv'
<1>1. ASSUME NEW j \in Jobs, Begin(j) PROVE StagesInv'
  <2>1. /\ worker' = "any" /\ wasOn' = data.pre
        /\ wasOff' = Stage \ data.pre /\ UNCHANGED <<data, at, applied, options, copied>>
        /\ at = 1 /\ applied = {} /\ options = {} /\ ~copied
    BY <1>1 DEF Begin, settingsVars, StagesInv
  <2> QED
    BY <2>1, StageByStage DEF StagesInv
<1>2. CASE transfer
  BY <1>2 DEF transfer, StagesInv, settingsVars, modelVars
<1>3. CASE Deliver \/ Restart
  BY <1>3, IdleStep DEF Deliver, Restart
<1>4. CASE Meanwhile
  BY <1>4 DEF Meanwhile, StagesInv, jobVars, modelVars, Before
<1>5. CASE UNCHANGED conversionVars
  BY <1>5 DEF conversionVars, settingsVars, jobVars, modelVars, StagesInv, Before
<1> QED
  BY <1>1, <1>2, <1>3, <1>4, <1>5, ReadAnyStep, ReadOptionStep, ProcessStep
  DEF ConversionNext, Worker

LEMMA StagesInductive == ConversionSpec => []StagesInv
<1>1. ConversionInit => StagesInv
  BY DEF ConversionInit, StagesInv
<1>2. StagesInv /\ [ConversionNext]_conversionVars => StagesInv'
  BY StagesStep
<1> QED
  BY <1>1, <1>2, PTL DEF ConversionSpec

\* However the switches change while they are read one by one, the stages that ran are
\* those that were on (TimbreTransferService.cpp:160-161).
THEOREM StagesAreThoseAsked == ConversionSpec => []StagesFollowTheSettings
<1>1. StagesInv => StagesFollowTheSettings
  BY DEF StagesInv, StagesFollowTheSettings
<1> QED
  BY <1>1, StagesInductive, PTL

-----------------------------------------------------------------------------
(* The models of the stages *)

ModelsInv ==
    /\ model \in [Modelled -> {"untried", "loaded", "disabled"}]
    /\ lookups = [s \in Modelled |-> IF model[s] = "untried" THEN 0 ELSE 1]
    /\ \A s \in Modelled : s \in applied => model[s] = "loaded"

LEMMA EnsureKeepsOthers ==
    ASSUME ModelsInv, NEW s \in Modelled, ensureModel(s)
    PROVE  /\ model' \in [Modelled -> {"untried", "loaded", "disabled"}]
           /\ lookups' = [t \in Modelled |-> IF model'[t] = "untried" THEN 0 ELSE 1]
           /\ \A t \in Modelled : model[t] = "loaded" => model'[t] = "loaded"
<1>1. CASE model[s] # "untried"
  BY <1>1 DEF ensureModel, modelVars, ModelsInv
<1>2. CASE model[s] = "untried"
  <2>1. PICK m \in {"disabled", "loaded"} : model' = [model EXCEPT ![s] = m]
    BY <1>2 DEF ensureModel
  <2>2. lookups' = [lookups EXCEPT ![s] = 1]
    BY <1>2 DEF ensureModel, ModelsInv
  <2> QED
    BY <1>2, <2>1, <2>2 DEF ModelsInv
<1> QED
  BY <1>1, <1>2

LEMMA ModelsStep ==
    ASSUME ModelsInv, StagesInv, [ConversionNext]_conversionVars
    PROVE  ModelsInv'
<1>1. CASE process
  <2>1. CASE Stages[at] \notin options
    BY <1>1, <2>1 DEF process, modelVars, ModelsInv
  <2>2. CASE Stages[at] \in options /\ Stages[at] = "denoise"
    <3>1. runDenoise
      BY <1>1, <2>2 DEF process
    <3>2. "denoise" \in Modelled /\ ensureModel("denoise")
      BY <3>1 DEF runDenoise, Modelled
    <3>3. \/ applied' = applied
          \/ applied' = applied \union {"denoise"} /\ model'["denoise"] = "loaded"
      BY <3>1 DEF runDenoise, Apply, Skip
    <3> QED
      BY <3>2, <3>3, EnsureKeepsOthers DEF ModelsInv
  <2>3. CASE Stages[at] \in options /\ Stages[at] = "vocal"
    <3>1. runVocalIsolate
      BY <1>1, <2>3 DEF process
    <3>2. "vocal" \in Modelled /\ ensureModel("vocal")
      BY <3>1 DEF runVocalIsolate, Modelled
    <3>3. \/ applied' = applied
          \/ applied' = applied \union {"vocal"} /\ model'["vocal"] = "loaded"
      BY <3>1 DEF runVocalIsolate, Apply, Skip
    <3> QED
      BY <3>2, <3>3, EnsureKeepsOthers DEF ModelsInv
  <2>4. CASE Stages[at] \in options /\ Stages[at] = "loudness"
    <3>1. runLoudnessNormalize
      BY <1>1, <2>4 DEF process
    <3>2. UNCHANGED modelVars /\ applied' \subseteq applied \union {"loudness"}
      BY <3>1 DEF runLoudnessNormalize, Apply, Skip
    <3> QED
      BY <3>2 DEF ModelsInv, modelVars, Modelled
  <2> QED
    BY <2>1, <2>2, <2>3, <2>4, StageByStage DEF StagesInv, Stage
<1>2. CASE UNCHANGED <<modelVars, applied>>
  BY <1>2 DEF modelVars, ModelsInv
<1>3. ASSUME NEW j \in Jobs, Begin(j) PROVE UNCHANGED <<modelVars, applied>>
  BY <1>3 DEF Begin
<1>4. CASE ReadAny \/ ReadOption \/ transfer \/ Meanwhile \/ UNCHANGED conversionVars
  BY <1>2, <1>4
  DEF ReadAny, ReadOption, UnchangedByReads, transfer, Meanwhile, jobVars, conversionVars
<1>5. CASE Deliver
  BY <1>5 DEF Deliver, Idle, modelVars, ModelsInv
<1>6. CASE Restart
  BY <1>6 DEF Restart, Idle, ModelsInv
<1> QED
  BY <1>1, <1>2, <1>3, <1>4, <1>5, <1>6 DEF ConversionNext, Worker

\* Between two launches no model is looked for twice, and no stage has run without its
\* model (AiPreprocess.h:18-20).
THEOREM ModelsLookedForOnce == ConversionSpec => []ModelsAreLookedForOnce
<1>1. ConversionInit => ModelsInv
  BY DEF ConversionInit, ModelsInv
<1>2. ModelsInv /\ StagesInv /\ [ConversionNext]_conversionVars => ModelsInv'
  BY ModelsStep
<1>3. ModelsInv => ModelsAreLookedForOnce
  BY DEF ModelsInv, ModelsAreLookedForOnce
<1> QED
  BY <1>1, <1>2, <1>3, StagesInductive, PTL DEF ConversionSpec

-----------------------------------------------------------------------------
(* Types *)

\* The copy, which is as long as the job says, and what its stages silence in it.
CopyOK == /\ job \in Jobs \union {NoJob} /\ copied \in BOOLEAN /\ silent \in Nat
          /\ unanswered \in [Stage \union {"decoder"} -> Nat]
          /\ skipped \subseteq Stage /\ wasOn \subseteq Stage /\ wasOff \subseteq Stage

LEMMA MissingIsNat ==
    ASSUME NEW len \in Int, NEW n \in Int
    PROVE  Missing(len, n) \in Nat
  BY DEF Missing

LEMMA ChunksIsInt ==
    ASSUME NEW n \in Int
    PROVE  Chunks(n) \in Int
  BY ConversionAssumption DEF Chunks, Positive

LEMMA ResampledIsInt ==
    ASSUME NEW len \in Int, NEW from \in Positive, NEW to \in Positive
    PROVE  Resampled(len, from, to) \in Int
<1>1. 2 * len * to + from \in Int /\ 2 * from \in Nat /\ 2 * from > 0
  BY DEF Positive
<1> QED
  BY <1>1 DEF Resampled

\* What a stage that is to run does to the copy.
LEMMA StageRuns ==
    ASSUME CopyOK, StagesInv, process, Stages[at] \in options
    PROVE  \/ Skip(Stages[at])
           \/ /\ Stages[at] = "denoise"
              /\ \E short \in Shortfalls :
                    Apply("denoise", short, Missing(job.length - short, job.length))
           \/ /\ Stages[at] = "vocal"
              /\ \E short \in Shortfalls :
                    Apply("vocal", short,
                          Missing(Resampled(Resampled(job.length, job.rate, VocalRate) - short,
                                            VocalRate, job.rate), job.length))
           \/ Stages[at] = "loudness" /\ Apply("loudness", 0, 0)
<1>1. CASE Stages[at] = "denoise"
  BY <1>1 DEF process, runDenoise
<1>2. CASE Stages[at] = "vocal"
  BY <1>2 DEF process, runVocalIsolate
<1>3. CASE Stages[at] = "loudness"
  <2>1. runLoudnessNormalize
    BY <1>3 DEF process
  <2> QED
    BY <1>3, <2>1 DEF runLoudnessNormalize
<1> QED
  BY <1>1, <1>2, <1>3, StageByStage DEF StagesInv, Stage

\* The job, its lengths at either rate, and what may be left out of them.
LEMMA JobTypes ==
    ASSUME CopyOK
    PROVE  /\ job.length \in Positive /\ job.length \in Int /\ job.rate \in Positive
           /\ VocalRate \in Positive /\ ModelRate \in Positive /\ XLength \in Positive
           /\ Shortfalls \subseteq Nat
           /\ Resampled(job.length, job.rate, VocalRate) \in Int
<1>1. /\ job.length \in Positive /\ job.length \in Int /\ job.rate \in Positive
      /\ VocalRate \in Positive /\ ModelRate \in Positive /\ XLength \in Positive
      /\ Shortfalls \subseteq Nat
  BY ConversionAssumption DEF CopyOK, NoJob, Positive
<1> QED
  BY <1>1, ResampledIsInt

LEMMA ProcessCopies ==
    ASSUME CopyOK, StagesInv, process
    PROVE  /\ silent' \in Nat /\ skipped' \subseteq Stage
           /\ unanswered' \in [Stage \union {"decoder"} -> Nat]
<1>1. ASSUME NEW s \in Stage, NEW short \in Nat, NEW zeroed \in Nat,
             Apply(s, short, zeroed) \/ Skip(s)
      PROVE  /\ silent' \in Nat /\ skipped' \subseteq Stage
             /\ unanswered' \in [Stage \union {"decoder"} -> Nat]
  BY <1>1 DEF Apply, Skip, CopyOK
<1>2. CASE Stages[at] \notin options
  BY <1>2 DEF process, CopyOK
<1>3. CASE Stages[at] \in options
  <2>1. CASE Skip(Stages[at])
    <3>1. Stages[at] \in Stage
      BY StageByStage DEF StagesInv
    <3> QED
      BY <1>1, <2>1, <3>1
  <2>2. ASSUME NEW short \in Shortfalls,
               Apply("denoise", short, Missing(job.length - short, job.length))
        PROVE  /\ silent' \in Nat /\ skipped' \subseteq Stage
               /\ unanswered' \in [Stage \union {"decoder"} -> Nat]
    <3>1. short \in Nat /\ job.length \in Int /\ job.length - short \in Int
      BY JobTypes
    <3>2. Missing(job.length - short, job.length) \in Nat
      BY <3>1, MissingIsNat
    <3> QED
      BY <1>1, <2>2, <3>1, <3>2 DEF Stage
  <2>3. ASSUME NEW short \in Shortfalls,
               Apply("vocal", short,
                     Missing(Resampled(Resampled(job.length, job.rate, VocalRate) - short,
                                       VocalRate, job.rate), job.length))
        PROVE  /\ silent' \in Nat /\ skipped' \subseteq Stage
               /\ unanswered' \in [Stage \union {"decoder"} -> Nat]
    <3> DEFINE n == Resampled(job.length, job.rate, VocalRate) - short
               back == Resampled(n, VocalRate, job.rate)
    <3>1. short \in Nat /\ n \in Int
      BY JobTypes
    <3>2. back \in Int
      BY <3>1, JobTypes, ResampledIsInt
    <3>3. Missing(back, job.length) \in Nat
      BY <3>2, JobTypes, MissingIsNat
    <3> QED
      BY <1>1, <2>3, <3>1, <3>3 DEF Stage
  <2>4. CASE Apply("loudness", 0, 0)
    BY <1>1, <2>4 DEF Stage
  <2> QED
    BY <1>3, <2>1, <2>2, <2>3, <2>4, StageRuns
<1> QED
  BY <1>2, <1>3

LEMMA CopyStep ==
    ASSUME CopyOK, SettingsInv, StagesInv, [ConversionNext]_conversionVars
    PROVE  CopyOK'
<1>1. data.pre \subseteq Stage /\ data'.pre \subseteq Stage
  BY SettingsStep, StepsOfSettings DEF SettingsInv, SettingsTypeOK, Limits
<1>2. ASSUME NEW j \in Jobs, Begin(j) PROVE CopyOK'
  BY <1>1, <1>2 DEF Begin, CopyOK
<1>3. CASE process
  BY <1>3, ProcessCopies DEF process, CopyOK
<1>4. CASE ReadAny \/ ReadOption
  BY <1>4 DEF ReadAny, ReadOption, UnchangedByReads, CopyOK
<1>5. CASE transfer
  <2>1. ChunksOf(job) \in Int
    <3>1. Resampled(job.length, job.rate, ModelRate) \in Int
      BY JobTypes, ResampledIsInt
    <3> QED
      BY <3>1, ChunksIsInt DEF ChunksOf
  <2>2. ASSUME NEW short \in Shortfalls, ChunksOf(job) > 0,
               unanswered' = [unanswered EXCEPT !["decoder"] = ChunksOf(job) * short]
        PROVE  unanswered' \in [Stage \union {"decoder"} -> Nat]
    <3>1. short \in Nat
      BY JobTypes
    <3>2. ChunksOf(job) * short \in Nat
      BY <2>1, <2>2, <3>1
    <3> QED
      BY <2>2, <3>2 DEF CopyOK
  <2>3. unanswered' \in [Stage \union {"decoder"} -> Nat]
    BY <1>5, <2>2 DEF transfer, CopyOK
  <2> QED
    BY <1>5, <2>3 DEF transfer, CopyOK
<1>6. CASE Deliver \/ Restart
  <2>1. job' = NoJob /\ copied' = FALSE /\ silent' = 0 /\ skipped' = {}
        /\ wasOn' = {} /\ wasOff' = {} /\ unanswered' = NoneUnanswered
    BY <1>6 DEF Deliver, Restart, Idle
  <2> QED
    BY <2>1 DEF CopyOK, NoneUnanswered
<1>7. CASE Meanwhile
  BY <1>1, <1>7 DEF Meanwhile, jobVars, CopyOK, Change
<1>8. CASE UNCHANGED conversionVars
  BY <1>8 DEF conversionVars, jobVars, CopyOK
<1> QED
  BY <1>2, <1>3, <1>4, <1>5, <1>6, <1>7, <1>8 DEF ConversionNext, Worker

\* The type invariant of the settings and the conversions.
THEOREM TypeCorrect == ConversionSpec => []TypeOK
<1>1. ConversionInit => CopyOK /\ ModelsInv
  <2>1. ASSUME ConversionInit PROVE CopyOK
    <3>1. job = NoJob /\ copied = FALSE /\ silent = 0 /\ skipped = {}
          /\ wasOn = {} /\ wasOff = {} /\ unanswered = NoneUnanswered
      BY <2>1 DEF ConversionInit
    <3> QED
      BY <3>1 DEF CopyOK, NoneUnanswered
  <2>2. ConversionInit => ModelsInv
    BY DEF ConversionInit, ModelsInv
  <2> QED
    BY <2>1, <2>2
<1>2. CopyOK /\ SettingsInv /\ StagesInv /\ [ConversionNext]_conversionVars => CopyOK'
  BY CopyStep
<1>3. ModelsInv /\ StagesInv /\ [ConversionNext]_conversionVars => ModelsInv'
  BY ModelsStep
<1>4. CopyOK /\ SettingsInv /\ StagesInv /\ ModelsInv => TypeOK
  <2> SUFFICES ASSUME CopyOK, SettingsInv, StagesInv, ModelsInv PROVE TypeOK
    OBVIOUS
  <2>1. applied \subseteq Stage /\ options \subseteq Stage
    BY DEF CopyOK, StagesInv
  <2>2. lookups \in [Modelled -> Nat]
    BY DEF ModelsInv
  <2> QED
    BY <2>1, <2>2 DEF TypeOK, CopyOK, SettingsInv, StagesInv, ModelsInv
<1> QED
  BY <1>1, <1>2, <1>3, <1>4, SettingsInductive, StagesInductive, PTL DEF ConversionSpec

-----------------------------------------------------------------------------
(* The result *)

\* A quotient, times its divisor, is less than a divisor away.
LEMMA QuotientIsClose ==
    ASSUME NEW x \in Int, NEW n \in Nat \ {0}
    PROVE  x \div n \in Int /\ (x \div n) * n <= x /\ x < (x \div n) * n + n
  OBVIOUS

\* Any timbre the row's menu offers, and the one it begins with (TrackRow.cpp:283-306).
TimbresAreOffered == \A j \in Jobs : j.timbre = 0 \/ j.timbre < NumPresets

LEMMA ResampledIsClose ==
    ASSUME NEW len \in Int, NEW from \in Positive, NEW to \in Positive
    PROVE  /\ Resampled(len, from, to) \in Int
           /\ 2 * (len * to) - from < 2 * (Resampled(len, from, to) * from)
<1> DEFINE x == 2 * len * to + from
           d == 2 * from
           q == x \div d
<1>1. x \in Int /\ d \in Nat \ {0} /\ q = Resampled(len, from, to)
  BY DEF Positive, Resampled
<1>2. q \in Int /\ x < q * d + d
  BY <1>1, QuotientIsClose
<1>3. len * to \in Int /\ q * from \in Int
  BY <1>2 DEF Positive
<1>4. x = 2 * (len * to) + from /\ q * d = 2 * (q * from)
  BY <1>2 DEF Positive
<1> HIDE DEF x, d, q
<1>5. 2 * (len * to) + from < 2 * (q * from) + 2 * from
  BY <1>2, <1>4 DEF d
<1>6. 2 * (len * to) - from < 2 * (q * from)
  BY <1>3, <1>5 DEF Positive
<1> QED
  BY <1>1, <1>2, <1>6

\* Resampled there and back, by an answer that lacks some of the samples that the first
\* resampling gave, a loop lacks no more of its end than these and the rounding of one
\* of them.
LEMMA RoundTrip ==
    ASSUME NEW len \in Positive, NEW rate \in Positive, NEW other \in Positive,
           NEW short \in Nat, NEW n \in Int, n >= Resampled(len, rate, other) - short
    PROVE  2 * other * Missing(Resampled(n, other, rate), len)
             <= rate + other + 2 * rate * short
<1> DEFINE there == Resampled(len, rate, other)
           back == Resampled(n, other, rate)
<1>1. there \in Int /\ 2 * (len * other) - rate < 2 * (there * rate)
  BY ResampledIsClose DEF Positive
<1>2. back \in Int /\ 2 * (n * rate) - other < 2 * (back * other)
  BY ResampledIsClose
<1> HIDE DEF there, back
<1>3. (there - short) * rate <= n * rate
  BY <1>1 DEF Positive, there
<1>4. (there - short) * rate = there * rate - rate * short
  BY <1>1 DEF Positive
<1>5. /\ len * other \in Int /\ there * rate \in Int /\ n * rate \in Int
      /\ back * other \in Int /\ rate * short \in Nat
  BY <1>1, <1>2 DEF Positive
<1>6. 2 * (len * other) - rate - other - 2 * (rate * short) < 2 * (back * other)
  BY <1>1, <1>2, <1>3, <1>4, <1>5 DEF Positive
<1>7. 2 * other * (len - back) = 2 * (len * other) - 2 * (back * other)
  BY <1>2 DEF Positive
<1>8. 2 * rate * short = 2 * (rate * short)
  BY DEF Positive
<1>9. 2 * other * (len - back) <= rate + other + 2 * rate * short
  BY <1>5, <1>6, <1>7, <1>8 DEF Positive
<1>10. 2 * other * 0 <= rate + other + 2 * rate * short
  BY <1>5, <1>8 DEF Positive
<1> QED
  BY <1>9, <1>10 DEF Missing, back

\* The chunks are filled up, and so are no shorter than what is transferred.
LEMMA ChunksCover ==
    ASSUME NEW n \in Int PROVE Chunks(n) \in Int /\ Chunks(n) * XLength >= n
<1> DEFINE x == n + XLength - 1
<1>1. XLength \in Nat \ {0} /\ x \in Int
  BY ConversionAssumption DEF Positive
<1>2. x \div XLength \in Int /\ x < (x \div XLength) * XLength + XLength
  BY <1>1, QuotientIsClose
<1>3. (x \div XLength) * XLength \in Int
  BY <1>1, <1>2
<1> QED
  BY <1>1, <1>2, <1>3 DEF Chunks

\* No step of the sampler divides by the level it ends at when that is 0.
LEMMA NoDivisionByZero == 0 \notin Divisors
  BY ConversionAssumption DEF Divisors, Level, Positive

\* What is silenced stays short of what was not answered, and a stage that is still to
\* run has left nothing unanswered; there is no result before the transfer.
ResultInv ==
    /\ worker \in {"idle", "any", "options"} => silent = 0 /\ unanswered = NoneUnanswered
    /\ worker = "process" => \A i \in at .. 3 : unanswered[Stages[i]] = 0
    /\ ShortAt(VocalRate, silent, unanswered["vocal"], unanswered["denoise"])
    /\ worker # "done" => result = NoResult
    /\ result.ok => /\ result.finite /\ result.timbre = job.timbre
                    /\ ShortAt(ModelRate, result.tail, unanswered["decoder"], 0)

\* A longer silence is excused by whatever excuses its cause, and more left unanswered
\* excuses no less.
LEMMA MoreUnanswered ==
    ASSUME CopyOK, NEW silence \in Nat, NEW v \in Nat, NEW d \in Nat,
           NEW w \in Nat, NEW e \in Nat, v <= w, d <= e,
           ShortAt(VocalRate, silence, v, d)
    PROVE  ShortAt(VocalRate, silence, w, e)
<1> DEFINE r == job.rate
           q == VocalRate
<1>1. r \in Nat /\ q \in Nat /\ r >= 0 /\ q >= 0
  BY JobTypes DEF Positive
<1>2. 2 * q * silence <= r + q + 2 * r * v + 2 * q * d
  BY DEF ShortAt
<1> HIDE DEF r, q
<1>3. r * v <= r * w /\ q * d <= q * e
  BY <1>1
<1>4. /\ 2 * r * v = 2 * (r * v) /\ 2 * r * w = 2 * (r * w)
      /\ 2 * q * d = 2 * (q * d) /\ 2 * q * e = 2 * (q * e) /\ 2 * q * silence \in Int
      /\ r * v \in Int /\ r * w \in Int /\ q * d \in Int /\ q * e \in Int
  BY <1>1
<1>5. 2 * q * silence <= r + q + 2 * r * w + 2 * q * e
  BY <1>1, <1>2, <1>3, <1>4
<1> QED
  BY <1>5 DEF ShortAt, r, q

LEMMA SilenceIsShort ==
    ASSUME CopyOK, StagesInv, ResultInv, process
    PROVE  ShortAt(VocalRate, silent', unanswered'["vocal"], unanswered'["denoise"])
<1> DEFINE v == unanswered["vocal"]
           d == unanswered["denoise"]
<1>1. /\ ShortAt(VocalRate, silent, v, d) /\ silent \in Nat /\ v \in Nat /\ d \in Nat
      /\ unanswered \in [Stage \union {"decoder"} -> Nat]
      /\ Stages[at] \in Stage /\ unanswered[Stages[at]] = 0
  <2>1. worker = "process" /\ at \in 1 .. 3
    BY DEF process, StagesInv
  <2> QED
    BY <2>1, StageByStage DEF ResultInv, CopyOK, Stage
<1>2. CASE Stages[at] \notin options \/ Skip(Stages[at])
  <2>1. silent' = silent /\ unanswered' = unanswered
    BY <1>2 DEF process, Skip
  <2> QED
    BY <1>1, <2>1
<1>3. ASSUME Stages[at] = "denoise", NEW short \in Shortfalls,
             Apply("denoise", short, Missing(job.length - short, job.length))
      PROVE  ShortAt(VocalRate, silent', unanswered'["vocal"], unanswered'["denoise"])
  <2>1. short \in Nat /\ Missing(job.length - short, job.length) = short
    BY JobTypes DEF Missing, Positive
  <2>2. /\ unanswered'["vocal"] = v /\ unanswered'["denoise"] = short /\ d = 0
        /\ silent' = silent \/ silent' = short
    BY <1>1, <1>3, <2>1 DEF Apply, Stage
  <2>3. ShortAt(VocalRate, silent, v, short)
    BY <1>1, <2>1, <2>2, MoreUnanswered
  <2>4. ShortAt(VocalRate, short, v, short)
    <3>1. job.rate \in Nat /\ VocalRate \in Nat
      BY JobTypes DEF Positive
    <3>2. job.rate * v \in Nat /\ 2 * job.rate * v = 2 * (job.rate * v)
          /\ 2 * VocalRate * short \in Nat
      BY <1>1, <2>1, <3>1
    <3> QED
      BY <3>1, <3>2 DEF ShortAt
  <2> QED
    BY <2>2, <2>3, <2>4
<1>4. ASSUME Stages[at] = "vocal", NEW short \in Shortfalls,
             Apply("vocal", short,
                   Missing(Resampled(Resampled(job.length, job.rate, VocalRate) - short,
                                     VocalRate, job.rate), job.length))
      PROVE  ShortAt(VocalRate, silent', unanswered'["vocal"], unanswered'["denoise"])
  <2> DEFINE n == Resampled(job.length, job.rate, VocalRate) - short
             zeroed == Missing(Resampled(n, VocalRate, job.rate), job.length)
  <2>1. short \in Nat /\ n \in Int /\ n >= Resampled(job.length, job.rate, VocalRate) - short
    BY JobTypes
  <2>2. 2 * VocalRate * zeroed <= job.rate + VocalRate + 2 * job.rate * short
    BY <2>1, JobTypes, RoundTrip
  <2>3. zeroed \in Nat
    <3>1. Resampled(n, VocalRate, job.rate) \in Int
      BY <2>1, JobTypes, ResampledIsInt
    <3> QED
      BY <3>1, JobTypes, MissingIsNat
  <2>4. Apply("vocal", short, zeroed)
    BY <1>4
  <2> HIDE DEF n, zeroed
  <2>5. /\ unanswered'["vocal"] = short /\ unanswered'["denoise"] = d /\ v = 0
        /\ silent' = silent \/ silent' = zeroed
    BY <1>1, <1>4, <2>4 DEF Apply, Stage
  <2>6. ShortAt(VocalRate, silent, short, d)
    BY <1>1, <2>1, <2>5, MoreUnanswered
  <2>7. ShortAt(VocalRate, zeroed, short, 0)
    <3>1. job.rate \in Nat /\ VocalRate \in Nat
      BY JobTypes DEF Positive
    <3>2. 2 * job.rate * short \in Nat /\ 2 * VocalRate * 0 = 0 /\ 2 * VocalRate * zeroed \in Nat
      BY <2>1, <2>3, <3>1
    <3> QED
      BY <2>2, <3>1, <3>2 DEF ShortAt
  <2>8. ShortAt(VocalRate, zeroed, short, d)
    BY <1>1, <2>1, <2>3, <2>7, MoreUnanswered
  <2> QED
    BY <2>5, <2>6, <2>8
<1>5. CASE Apply("loudness", 0, 0)
  <2>1. /\ unanswered'["vocal"] = v /\ unanswered'["denoise"] = d /\ silent' = silent
    BY <1>1, <1>5 DEF Apply, Stage
  <2> QED
    BY <1>1, <2>1
<1> QED
  BY <1>2, <1>3, <1>4, <1>5, StageRuns

\* A stage that runs leaves the answers of the others as they are.
LEMMA LaterStagesWait ==
    ASSUME CopyOK, StagesInv, ResultInv, process, worker' = "process"
    PROVE  \A i \in at' .. 3 : unanswered'[Stages[i]] = 0
<1>1. at \in 1 .. 2 /\ at' = at + 1 /\ worker = "process"
  BY DEF process, StagesInv
<1>2. ASSUME NEW i \in at' .. 3 PROVE unanswered'[Stages[i]] = 0
  <2>1. i \in 1 .. 3 /\ unanswered[Stages[i]] = 0 /\ Stages[i] # Stages[at]
        /\ Stages[i] \in Stage
    BY <1>1, StageByStage DEF ResultInv, Stages
  <2>2. CASE unanswered' = unanswered
    BY <2>1, <2>2
  <2>3. ASSUME NEW short, NEW zeroed, Apply(Stages[at], short, zeroed)
        PROVE  unanswered'[Stages[i]] = 0
    BY <2>1, <2>3 DEF Apply, CopyOK
  <2>4. CASE Stages[at] \notin options \/ Skip(Stages[at])
    BY <2>2, <2>4 DEF process, Skip
  <2> QED
    BY <2>3, <2>4, StageRuns
<1> QED
  BY <1>2

LEMMA TransferredIsWhole ==
    ASSUME TimbresAreOffered, CopyOK, NEW short \in Shortfalls
    PROVE  LET r == Transferred(job, short)
           IN  /\ r.finite /\ r.timbre = job.timbre
               /\ ShortAt(ModelRate, r.tail, ChunksOf(job) * short, 0)
<1> DEFINE r == Transferred(job, short)
           there == Resampled(job.length, job.rate, ModelRate)
           chunks == Chunks(there)
           decoded == chunks * (XLength - short)
<1>1. /\ job.rate \in Positive /\ job.length \in Positive /\ ModelRate \in Positive
      /\ XLength \in Positive /\ short \in Nat
  BY JobTypes
<1>2. job.timbre \in Nat /\ (job.timbre = 0 \/ job.timbre < NumPresets)
  BY ConversionAssumption DEF CopyOK, NoJob, TimbresAreOffered
<1>3. r.timbre = job.timbre /\ r.finite
  BY <1>2, NoDivisionByZero DEF Transferred, RunChunk, InRange
<1>4. there \in Int
  BY JobTypes, ResampledIsInt
<1>5. chunks \in Int /\ chunks * XLength >= there
  BY <1>4, ChunksCover
<1>6. chunks \in Nat
  <2>1. chunks * XLength > -XLength /\ there >= 0
    <3>1. 2 * (job.length * ModelRate) - job.rate < 2 * (there * job.rate)
      BY JobTypes, ResampledIsClose
    <3>2. job.length * ModelRate >= 0
      BY <1>1 DEF Positive
    <3>3. there * job.rate > -job.rate
      <4>1. job.length * ModelRate \in Int /\ there * job.rate \in Int
        BY <1>1, <1>4 DEF Positive
      <4> QED
        BY <1>1, <3>1, <3>2, <4>1 DEF Positive
    <3>4. there > -1
      BY <1>1, <1>4, <3>3 DEF Positive
    <3> QED
      BY <1>1, <1>4, <1>5, <3>4 DEF Positive
  <2> QED
    BY <1>1, <1>5, <2>1 DEF Positive
<1> HIDE DEF there, chunks, r
<1>7. /\ decoded \in Int /\ chunks * short \in Nat
      /\ decoded >= there - chunks * short
  <2>1. chunks * short \in Nat /\ chunks * XLength \in Int
        /\ chunks * (XLength - short) = chunks * XLength - chunks * short
    BY <1>1, <1>6 DEF Positive
  <2> QED
    BY <1>4, <1>5, <2>1
<1>8. r.tail = Missing(Resampled(decoded, ModelRate, job.rate), job.length)
      /\ ChunksOf(job) = chunks
  BY DEF Transferred, RunChunk, ChunksOf, r, chunks, there
<1>9. ShortAt(ModelRate, r.tail, chunks * short, 0)
  <2> DEFINE lost == chunks * short
  <2>1. lost \in Nat /\ decoded \in Int
        /\ decoded >= Resampled(job.length, job.rate, ModelRate) - lost
    BY <1>7 DEF there
  <2> HIDE DEF decoded, lost
  <2>2. 2 * ModelRate * Missing(Resampled(decoded, ModelRate, job.rate), job.length)
          <= job.rate + ModelRate + 2 * job.rate * lost
    BY <1>1, <2>1, RoundTrip
  <2>3. 2 * ModelRate * 0 = 0 /\ 2 * job.rate * lost \in Int
    BY <1>1, <2>1 DEF Positive
  <2>4. ShortAt(ModelRate, r.tail, lost, 0)
    BY <1>1, <1>8, <2>2, <2>3 DEF ShortAt, Positive
  <2> QED
    BY <2>4 DEF lost
<1> QED
  BY <1>3, <1>8, <1>9 DEF r

LEMMA ResultStep ==
    ASSUME TimbresAreOffered, CopyOK, CopyOK', StagesInv, ResultInv,
           [ConversionNext]_conversionVars
    PROVE  ResultInv'
<1>1. job'.rate \in Positive /\ VocalRate \in Positive
  BY ConversionAssumption DEF CopyOK, NoJob, Positive
<1>2. ASSUME silent' = 0, unanswered' = NoneUnanswered
      PROVE  ShortAt(VocalRate, silent, unanswered["vocal"], unanswered["denoise"])'
  <2>1. unanswered'["vocal"] = 0 /\ unanswered'["denoise"] = 0
    BY <1>2 DEF NoneUnanswered, Stage
  <2> QED
    BY <1>1, <1>2, <2>1 DEF ShortAt, Positive
<1>3. ASSUME NEW j \in Jobs, Begin(j) PROVE ResultInv'
  <2>1. worker = "idle" /\ worker' = "any" /\ UNCHANGED <<silent, unanswered, result>>
    BY <1>3 DEF Begin
  <2>2. silent' = 0 /\ unanswered' = NoneUnanswered /\ result' = NoResult
    BY <2>1 DEF ResultInv
  <2> QED
    BY <1>2, <2>1, <2>2 DEF ResultInv, NoResult
<1>4. CASE ReadAny
  <2>1. worker = "any" /\ worker' \in {"any", "options", "transfer"}
        /\ UNCHANGED <<silent, unanswered, result, job>>
    BY <1>4 DEF ReadAny, UnchangedByReads
  <2> QED
    BY <2>1 DEF ResultInv, ShortAt
<1>5. CASE ReadOption
  <2>1. worker = "options" /\ worker' \in {"options", "process"}
        /\ UNCHANGED <<silent, unanswered, result, job>>
    BY <1>5 DEF ReadOption, UnchangedByReads
  <2>2. at' \in 1 .. 3
    BY <1>5 DEF ReadOption, StagesInv
  <2>3. \A i \in at' .. 3 : unanswered'[Stages[i]] = 0
    BY <2>1, <2>2, StageByStage DEF ResultInv, NoneUnanswered
  <2> QED
    BY <2>1, <2>3 DEF ResultInv, ShortAt
<1>6. CASE process
  <2>1. worker = "process" /\ worker' \in {"process", "transfer"} /\ UNCHANGED <<result, job>>
    BY <1>6 DEF process
  <2>2. ShortAt(VocalRate, silent, unanswered["vocal"], unanswered["denoise"])'
    BY <1>6, <2>1, SilenceIsShort DEF ShortAt
  <2>3. worker' = "process" => \A i \in at' .. 3 : unanswered'[Stages[i]] = 0
    BY <1>6, LaterStagesWait
  <2> QED
    BY <2>1, <2>2, <2>3 DEF ResultInv, NoResult
<1>7. CASE transfer
  <2>1. worker' = "done" /\ worker = "transfer" /\ UNCHANGED <<silent, job>>
    BY <1>7 DEF transfer
  <2>2. ASSUME NEW short \in Shortfalls, result' = Transferred(job, short),
               unanswered' = [unanswered EXCEPT !["decoder"] = ChunksOf(job) * short]
        PROVE  ResultInv'
    <3>1. /\ unanswered'["decoder"] = ChunksOf(job) * short
          /\ unanswered'["vocal"] = unanswered["vocal"]
          /\ unanswered'["denoise"] = unanswered["denoise"]
      BY <2>2 DEF CopyOK, Stage
    <3>2. /\ result'.finite /\ result'.timbre = job.timbre
          /\ ShortAt(ModelRate, result'.tail, unanswered'["decoder"], 0)
      BY <2>2, <3>1, TransferredIsWhole
    <3> QED
      BY <2>1, <3>1, <3>2 DEF ResultInv, ShortAt
  <2>3. CASE UNCHANGED <<result, unanswered>>
    BY <2>1, <2>3 DEF ResultInv, NoResult, ShortAt
  <2> QED
    BY <1>7, <2>2, <2>3 DEF transfer
<1>8. CASE Deliver \/ Restart
  <2>1. silent' = 0 /\ unanswered' = NoneUnanswered /\ result' = NoResult /\ worker' = "idle"
    BY <1>8 DEF Deliver, Restart, Idle
  <2> QED
    BY <1>2, <2>1 DEF ResultInv, NoResult
<1>9. CASE Meanwhile \/ UNCHANGED conversionVars
  <2>1. UNCHANGED <<worker, at, silent, unanswered, result, job>>
    BY <1>9 DEF Meanwhile, conversionVars, jobVars
  <2> QED
    BY <2>1 DEF ResultInv, ShortAt
<1> QED
  BY <1>3, <1>4, <1>5, <1>6, <1>7, <1>8, <1>9 DEF ConversionNext, Worker

\* For every length and rate of a loop, rate and chunk of the models, answers of the
\* models however short, and number of steps of the sampler: a conversion is in the timbre
\* asked for, finite, and sound to its end but for what the models did not answer and the
\* rounding of one resampling (TimbreTransfer.h:42-43).
THEOREM ConvertedIsWhole ==
    ASSUME TimbresAreOffered PROVE ConversionSpec => []ResultIsWhole
<1>1. ConversionInit => CopyOK /\ ResultInv
  <2> SUFFICES ASSUME ConversionInit PROVE CopyOK /\ ResultInv
    OBVIOUS
  <2>1. job = NoJob /\ copied = FALSE /\ silent = 0 /\ skipped = {} /\ wasOn = {}
        /\ wasOff = {} /\ result = NoResult /\ unanswered = NoneUnanswered
        /\ worker = "idle"
    BY DEF ConversionInit
  <2>2. CopyOK
    BY <2>1 DEF CopyOK, NoneUnanswered
  <2>3. ShortAt(VocalRate, silent, unanswered["vocal"], unanswered["denoise"])
    <3>1. unanswered["vocal"] = 0 /\ unanswered["denoise"] = 0
      BY <2>1 DEF NoneUnanswered, Stage
    <3> QED
      BY <2>1, <3>1, ConversionAssumption DEF ShortAt, NoJob, Positive
  <2> QED
    BY <2>1, <2>2, <2>3 DEF ResultInv, NoResult
<1>2. CopyOK /\ SettingsInv /\ StagesInv /\ [ConversionNext]_conversionVars => CopyOK'
  BY CopyStep
<1>3. CopyOK /\ CopyOK' /\ StagesInv /\ ResultInv /\ [ConversionNext]_conversionVars
      => ResultInv'
  BY ResultStep
<1>4. ResultInv => ResultIsWhole
  BY DEF ResultInv, ResultIsWhole
<1> QED
  BY <1>1, <1>2, <1>3, <1>4, SettingsInductive, StagesInductive, PTL DEF ConversionSpec
=============================================================================
