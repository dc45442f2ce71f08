----------------------------- MODULE Conversion -----------------------------
(***************************************************************************)
(* What the worker of TimbreTransferService does with one job: it reads    *)
(* which stages of the pre-processing are on, runs them over a copy of the *)
(* loop (AiPreprocess.cpp), and transfers the result to another timbre     *)
(* (TimbreTransfer.cpp).                                                   *)
(*                                                                         *)
(* The switches are members of the settings' record, which the message     *)
(* thread changes meanwhile; the worker reads them without the mutex, one  *)
(* by one, first to see whether any is on and then each of them again.  So *)
(* each read is a step.  The audio is its length, the part at its end that *)
(* was filled with silence, and the timbre it was given.  Whether the      *)
(* engine is loaded already, and the queue of the jobs, are                *)
(* TimbreTransferService's.                                                *)
(***************************************************************************)
EXTENDS Settings, Integers, Sequences

CONSTANTS Jobs,       \* what is converted: the length and rate of a loop, a timbre
          NumPresets, \* the timbre presets found on the disk
          ModelRate, VocalRate,  \* kModelSampleRate, kVocalModelSr
          XLength,    \* kXLength: the samples of a chunk
          NbSteps,    \* kNbSteps
          Shortfalls  \* by how many samples a model's answer may be too short

Positive == Nat \ {0}

ASSUME ConversionAssumption ==
    /\ Jobs \subseteq [length : Positive, rate : Positive, timbre : Nat]
    /\ NumPresets \in Nat /\ ModelRate \in Positive /\ VocalRate \in Positive
    /\ XLength \in Positive /\ NbSteps \in Positive /\ Shortfalls \subseteq Nat

VARIABLES worker,   \* where the worker is with its job
          at,       \* the stage whose switch is read, or which is run, next
          options,  \* AiPreprocessor::Options, as far as they are read
          job,
          copied,   \* whether the loop was copied
          applied,  \* the stages that have changed the copy
          skipped,  \* the stages that were to run and left the copy as it was
          silent,   \* the samples at the copy's end that the stages have silenced
          unanswered,  \* the samples that each model's answer was short of (a history)
          result,
          model,    \* the models of the stages: "untried", "loaded" or "disabled"
          lookups,  \* how often each was looked for since the launch
          wasOn, wasOff  \* the switches that were on, and off, at some time during the job

jobVars == <<worker, at, options, job, copied, applied, skipped, silent, unanswered, result>>
modelVars == <<model, lookups>>
conversionVars == <<settingsVars, jobVars, modelVars, wasOn, wasOff>>

Stages == <<"denoise", "vocal", "loudness">>
Modelled == {"denoise", "vocal"}

NoJob == [length |-> 1, rate |-> 1, timbre |-> 0]
NoResult == [ok |-> FALSE]
NoneUnanswered == [s \in Stage \union {"decoder"} |-> 0]

-----------------------------------------------------------------------------
(* Lengths *)

\* resampleMono: llround of len * to / from.
Resampled(len, from, to) == (2 * len * to + from) \div (2 * from)

\* Mutant: the tail that does not fill a chunk is cut off.
ChunksFloor(n) == n \div XLength

Chunks(n) == (n + XLength - 1) \div XLength

\* The samples the copy loop finds missing at the end, and fills with zeros.
Missing(len, n) == IF len < n THEN n - len ELSE 0

-----------------------------------------------------------------------------
(* The job *)

Idle == /\ worker' = "idle" /\ at' = 1 /\ options' = {} /\ job' = NoJob
        /\ copied' = FALSE /\ applied' = {} /\ skipped' = {} /\ silent' = 0
        /\ unanswered' = NoneUnanswered /\ result' = NoResult

Begin(j) == /\ app = "running" /\ worker = "idle"
            /\ job' = j /\ worker' = "any"
            /\ wasOn' = data.pre /\ wasOff' = Stage \ data.pre
            /\ UNCHANGED <<settingsVars, at, options, copied, applied, skipped, silent,
                           unanswered, result, modelVars>>

UnchangedByReads == UNCHANGED <<settingsVars, job, applied, skipped, silent, unanswered,
                                result, modelVars, wasOn, wasOff>>

\* Mutant: the loudness is forgotten in the test for any.
ReadAnyModelled ==
    /\ worker = "any"
    /\ IF Stages[at] \in data.pre /\ Stages[at] # "loudness"
       THEN worker' = "options" /\ at' = 1 /\ copied' = TRUE
       ELSE IF at < 3 THEN at' = at + 1 /\ UNCHANGED <<worker, copied>>
                      ELSE worker' = "transfer" /\ UNCHANGED <<at, copied>>
    /\ UNCHANGED options /\ UnchangedByReads

\* anyPreOn, which stops at the first switch that is on; then the loop is copied.
ReadAny ==
    /\ worker = "any"
    /\ IF Stages[at] \in data.pre
       THEN worker' = "options" /\ at' = 1 /\ copied' = TRUE
       ELSE IF at < 3 THEN at' = at + 1 /\ UNCHANGED <<worker, copied>>
                      ELSE worker' = "transfer" /\ UNCHANGED <<at, copied>>
    /\ UNCHANGED options /\ UnchangedByReads

\* The switches are read again for the options.
ReadOption ==
    /\ worker = "options"
    /\ options' = options \union ({Stages[at]} \intersect data.pre)
    /\ IF at < 3 THEN at' = at + 1 /\ UNCHANGED worker
                 ELSE at' = 1 /\ worker' = "process"
    /\ UNCHANGED copied /\ UnchangedByReads

-----------------------------------------------------------------------------
(* The pre-processing *)

\* Mutant: a model that is missing is looked for again.
ensureModelAgain(s) ==
    IF model[s] = "loaded" THEN UNCHANGED modelVars
    ELSE /\ \E m \in {"untried", "loaded"} : model' = [model EXCEPT ![s] = m]
         /\ lookups' = [lookups EXCEPT ![s] = @ + 1]

\* The model is looked for once; missing or broken, it stays disabled.
ensureModel(s) ==
    IF model[s] # "untried" THEN UNCHANGED modelVars
    ELSE /\ \E m \in {"disabled", "loaded"} : model' = [model EXCEPT ![s] = m]
         /\ lookups' = [lookups EXCEPT ![s] = @ + 1]

Apply(s, short, zeroed) == /\ applied' = applied \union {s}
                           /\ unanswered' = [unanswered EXCEPT ![s] = short]
                           /\ silent' = IF silent < zeroed THEN zeroed ELSE silent
                           /\ UNCHANGED skipped
Skip(s) == skipped' = skipped \union {s} /\ UNCHANGED <<applied, silent, unanswered>>

\* A stage changes the copy once its model has answered: an exception comes before.  What
\* a short answer lacks is filled with zeros; what a long one has too many is cut off.
runDenoise ==
    /\ ensureModel("denoise")
    /\ \/ /\ model["denoise"]' = "loaded"
          /\ \E short \in Shortfalls :
                /\ short <= job.length
                /\ Apply("denoise", short, Missing(job.length - short, job.length))
       \/ Skip("denoise")

\* The isolation works at a rate of its own, and its answer is resampled back.
runVocalIsolate ==
    /\ ensureModel("vocal")
    /\ \/ /\ model["vocal"]' = "loaded"
          /\ LET there == Resampled(job.length, job.rate, VocalRate)
             IN  \E short \in Shortfalls :
                   /\ short <= there
                   /\ Apply("vocal", short,
                            Missing(Resampled(there - short, VocalRate, job.rate), job.length))
       \/ Skip("vocal")

\* computeIntegratedLufs has a value when a whole block of 0.4 s is over the gate; the
\* blocks are 0.1 s apart.
HasLoudness(audible) == /\ (2 * job.rate) \div 5 \in 1..job.length
                        /\ job.rate \div 10 > 0 /\ audible

runLoudnessNormalize ==
    /\ UNCHANGED modelVars
    /\ \E audible \in BOOLEAN :
          IF HasLoudness(audible) THEN Apply("loudness", 0, 0) ELSE Skip("loudness")

\* AiPreprocessor::process.
process == /\ worker = "process"
           /\ IF Stages[at] \in options
              THEN CASE Stages[at] = "denoise" -> runDenoise
                     [] Stages[at] = "vocal" -> runVocalIsolate
                     [] OTHER -> runLoudnessNormalize
              ELSE UNCHANGED <<applied, skipped, silent, unanswered, modelVars>>
           /\ IF at < 3 THEN at' = at + 1 /\ UNCHANGED worker
                        ELSE worker' = "transfer" /\ UNCHANGED at
           /\ UNCHANGED <<settingsVars, options, job, copied, result, wasOn, wasOff>>

-----------------------------------------------------------------------------
(* The transfer *)

\* The noise levels fall to 0; Heun's method divides by the level a step begins at and,
\* except in the last step, by the one it ends at.
Level(i) == NbSteps - i
Divisors == {Level(i) : i \in 0..(NbSteps - 1)} \union {Level(i) : i \in 1..(NbSteps - 1)}

\* Mutant: every step is corrected.
RunChunkAllHeun(timbre, short) ==
    [length |-> XLength - short, timbre |-> timbre,
     finite |-> 0 \notin {Level(i) : i \in 0..NbSteps}]

\* The decoder's answer is taken as long as it is.
RunChunk(timbre, short) ==
    [length |-> XLength - short, timbre |-> timbre, finite |-> 0 \notin Divisors]

\* A timbre that is out of range is the first one.
InRange(timbre) == IF timbre < NumPresets THEN timbre ELSE 0

ChunksOf(j) == Chunks(Resampled(j.length, j.rate, ModelRate))

\* TimbreTransferEngine::transfer: all chunks in one timbre, resampled back, cut or
\* filled up to the length of the source.
Transferred(j, short) ==
    LET chunk == RunChunk(InRange(j.timbre), short)
        decoded == ChunksOf(j) * chunk.length
    IN  [ok |-> TRUE, timbre |-> chunk.timbre, finite |-> chunk.finite,
         tail |-> Missing(Resampled(decoded, ModelRate, j.rate), j.length)]

\* The engine may not be there, and any part of it may fail; no chunks, no timbre, or an
\* empty answer of the decoder, which has no peak, is a failure.
transfer == /\ worker = "transfer" /\ worker' = "done"
            /\ \/ /\ NumPresets > 0 /\ ChunksOf(job) > 0
                  /\ \E short \in Shortfalls :
                        /\ short < XLength
                        /\ result' = Transferred(job, short)
                        /\ unanswered' = [unanswered EXCEPT !["decoder"] =
                                              ChunksOf(job) * short]
               \/ UNCHANGED <<result, unanswered>>
            /\ UNCHANGED <<settingsVars, at, options, job, copied, applied, skipped,
                           silent, modelVars, wasOn, wasOff>>

Deliver == /\ worker = "done" /\ Idle
           /\ wasOn' = {} /\ wasOff' = {}
           /\ UNCHANGED <<settingsVars, modelVars>>

-----------------------------------------------------------------------------

Worker == ReadAny \/ ReadOption \/ process \/ transfer \/ Deliver

\* What the message thread does with the settings while the worker is at work.
Meanwhile == /\ StartHost \/ Change \/ save
             /\ IF worker = "idle" THEN UNCHANGED <<wasOn, wasOff>>
                ELSE /\ wasOn' = wasOn \union data'.pre
                     /\ wasOff' = wasOff \union (Stage \ data'.pre)
             /\ UNCHANGED <<jobVars, modelVars>>

Restart == /\ Launch \/ Down
           /\ Idle /\ wasOn' = {} /\ wasOff' = {}
           /\ model' = [s \in Modelled |-> "untried"]
           /\ lookups' = [s \in Modelled |-> 0]

ConversionInit ==
    /\ SettingsInit
    /\ worker = "idle" /\ at = 1 /\ options = {} /\ job = NoJob /\ copied = FALSE
    /\ applied = {} /\ skipped = {} /\ silent = 0
    /\ unanswered = NoneUnanswered /\ result = NoResult
    /\ model = [s \in Modelled |-> "untried"] /\ lookups = [s \in Modelled |-> 0]
    /\ wasOn = {} /\ wasOff = {}

ConversionNext == \/ \E j \in Jobs : Begin(j)
                  \/ Worker \/ Meanwhile \/ Restart

ConversionSpec == ConversionInit /\ [][ConversionNext]_conversionVars

-----------------------------------------------------------------------------
(* Properties *)

\* Every variable stays in its domain, the settings among them.
TypeOK == /\ SettingsTypeOK
          /\ worker \in {"idle", "any", "options", "process", "transfer", "done"}
          /\ at \in 1..3 /\ options \subseteq Stage /\ job \in Jobs \union {NoJob}
          /\ copied \in BOOLEAN /\ silent \in Nat
          /\ unanswered \in [Stage \union {"decoder"} -> Nat]
          /\ \A ss \in {applied, skipped, wasOn, wasOff} : ss \subseteq Stage
          /\ model \in [Modelled -> {"untried", "loaded", "disabled"}]
          /\ lookups \in [Modelled -> Nat]

\* "Read pre-process settings at the moment of conversion. If every toggle is off, move
\* the source through unchanged" (TimbreTransferService.cpp:160-161): however the
\* switches are changed during a job, a stage that was off all the time has not run, one
\* that was on all the time has run unless it could not, and with all of them off there
\* was no copy.
StagesFollowTheSettings ==
    /\ applied \subseteq wasOn
    /\ copied => wasOn # {}
    /\ worker = "done" => Stage \ wasOff \subseteq applied \union skipped

\* "missing model files log a one-time WARN and the stage becomes a no-op for the
\* lifetime of this AiPreprocessor" (AiPreprocess.h:18-20): a model is looked for at
\* most once between two launches, and its stage has not run without it.
ModelsAreLookedForOnce ==
    \A s \in Modelled : /\ lookups[s] <= 1
                        /\ s \in applied => model[s] = "loaded"

\* What is silent at the end of a loop that plays on and on, at any rate of the device,
\* comes from the samples the models at that rate, or at the device's, have left out of
\* their answers, and from less than the rounding of one of the two resamplings.
ShortAt(rate, silence, lacking, lackingHere) ==
    2 * rate * silence <= job.rate + rate + 2 * job.rate * lacking + 2 * rate * lackingHere

\* "Returns a new Loop with the source's bars/bpm/sampleRate/length"
\* (TimbreTransfer.h:42-43): of a loop that was converted no more is silent at its end
\* than what the models did not answer and that rounding, whatever its length and rate
\* and the chunks it is cut into; it is in the timbre that was asked for, and no step of
\* the sampler has divided by zero.
ResultIsWhole ==
    /\ ShortAt(VocalRate, silent, unanswered["vocal"], unanswered["denoise"])
    /\ result.ok => /\ result.finite /\ result.timbre = job.timbre
                    /\ ShortAt(ModelRate, result.tail, unanswered["decoder"], 0)
=============================================================================
