----------------------- MODULE TimbreTransferService -----------------------
(***************************************************************************)
(* The background service that converts loops (TimbreTransferService.cpp): *)
(* the message thread submits jobs and runs their completions, one worker  *)
(* thread takes them from a queue.                                         *)
(*                                                                         *)
(* A section that holds m_mutex is one action, and so is each access to an *)
(* atomic and each call of the condition variable; the wait's predicate is *)
(* evaluated with the mutex held, so testing it and falling asleep is one  *)
(* step too.                                                               *)
(***************************************************************************)
EXTENDS Naturals, Sequences

CONSTANTS Track,       \* the tracks
          Source,      \* the loops that are converted
          NoJob,       \* no job in hand
          MaxTransfers \* bound: with that many transfers open none is submitted

ASSUME ServiceAssumption ==
    MaxTransfers \in Nat \ {0} /\ NoJob \notin [track : Track, source : Source]

VARIABLES busy,      \* m_busy
          jobs,      \* m_jobs
          shutdown,  \* m_shutdown
          loaded,    \* m_engine: whether the model is loaded
          ui,        \* where the message thread is in submit or the destructor
          request,   \* the job submit is about to push
          worker,    \* where the worker is in workerMain
          job,       \* the worker's job
          outcome,   \* whether the job's transfer succeeded
          posted,    \* the completions in the message queue, oldest first
          completed  \* the last completion that ran

messageVars == <<ui, request, completed>>
workerVars == <<worker, job, outcome, loaded>>
vars == <<busy, jobs, shutdown, messageVars, workerVars, posted>>

Job == [track : Track, source : Source]

\* The jobs submit has accepted whose completion has not run yet, oldest first.
InHand == IF worker \in {"work", "clear", "post"} THEN <<job>> ELSE <<>>
Requested == IF ui = "push" THEN <<request>> ELSE <<>>
PostedJobs == [k \in DOMAIN posted |-> posted[k].job]
Open == PostedJobs \o InHand \o jobs \o Requested

Init == /\ busy = [t \in Track |-> FALSE]
        /\ jobs = <<>> /\ shutdown = FALSE /\ loaded = FALSE
        /\ ui = "free" /\ request = NoJob
        /\ worker = "preload" /\ job = NoJob /\ outcome = FALSE
        /\ posted = <<>> /\ completed = <<>>

-----------------------------------------------------------------------------
(* submit, on the message thread *)

\* Mutant: submit sets the flag without looking at it.
SubmitUnchecked(t, src) ==
    /\ ui = "free" /\ ~shutdown
    /\ Len(Open) < MaxTransfers
    /\ busy' = [busy EXCEPT ![t] = TRUE]
    /\ request' = [track |-> t, source |-> src]
    /\ ui' = "push"
    /\ UNCHANGED <<jobs, shutdown, completed, workerVars, posted>>

\* The exchange of m_busy succeeds; where it fails submit has changed nothing.
Submit(t, src) ==
    /\ ui = "free" /\ ~shutdown
    /\ ~busy[t]
    /\ Len(Open) < MaxTransfers
    /\ busy' = [busy EXCEPT ![t] = TRUE]
    /\ request' = [track |-> t, source |-> src]
    /\ ui' = "push"
    /\ UNCHANGED <<jobs, shutdown, completed, workerVars, posted>>

\* Mutant: the worker is not notified of the job.
PushJobSilently ==
    /\ ui = "push"
    /\ jobs' = Append(jobs, request)
    /\ request' = NoJob
    /\ ui' = "free"
    /\ UNCHANGED <<busy, shutdown, completed, workerVars, posted>>

\* Mutant: the job is moved from before it is pushed.
PushJobMoved ==
    /\ ui = "push"
    /\ request' = NoJob
    /\ jobs' = Append(jobs, request')
    /\ ui' = "notify"
    /\ UNCHANGED <<busy, shutdown, completed, workerVars, posted>>

PushJob == /\ ui = "push"
           /\ jobs' = Append(jobs, request)
           /\ request' = NoJob
           /\ ui' = "notify"
           /\ UNCHANGED <<busy, shutdown, completed, workerVars, posted>>

Woken == IF worker = "asleep" THEN "wait" ELSE worker

NotifyOne == /\ ui = "notify"
             /\ worker' = Woken
             /\ ui' = "free"
             /\ UNCHANGED <<busy, jobs, shutdown, request, completed, job,
                            outcome, loaded, posted>>

\* The message loop runs the oldest completion that callAsync has posted.
RunCompletion == /\ ui = "free" /\ ~shutdown /\ posted # <<>>
                 /\ completed' = <<Head(posted).job.track, Head(posted).job.source,
                                   Head(posted).ok>>
                 /\ posted' = Tail(posted)
                 /\ UNCHANGED <<busy, jobs, shutdown, ui, request, workerVars>>

-----------------------------------------------------------------------------
(* The destructor, on the message thread when its loop has ended *)

\* Mutant: nobody tells the worker to look at the flag.
BeginShutdownSilently ==
    /\ ui = "free" /\ ~shutdown
    /\ shutdown' = TRUE
    /\ ui' = "join"
    /\ UNCHANGED <<busy, jobs, request, completed, workerVars, posted>>

BeginShutdown == /\ ui = "free" /\ ~shutdown
                 /\ shutdown' = TRUE
                 /\ ui' = "notify_all"
                 /\ UNCHANGED <<busy, jobs, request, completed, workerVars, posted>>

NotifyAll == /\ ui = "notify_all"
             /\ worker' = Woken
             /\ ui' = "join"
             /\ UNCHANGED <<busy, jobs, shutdown, request, completed, job,
                            outcome, loaded, posted>>

Join == /\ ui = "join" /\ worker = "exited"
        /\ ui' = "gone"
        /\ UNCHANGED <<busy, jobs, shutdown, request, completed, workerVars,
                       posted>>

-----------------------------------------------------------------------------
(* workerMain *)

\* The eager preload; when it fails the next job tries again.
Preload == /\ worker = "preload"
           /\ loaded' \in BOOLEAN
           /\ worker' = "wait"
           /\ UNCHANGED <<busy, jobs, shutdown, messageVars, job, outcome, posted>>

\* Mutant: a worker that is asked to stop leaves the jobs in the queue.
WaitAbandons ==
    /\ worker = "wait"
    /\ \/ shutdown /\ worker' = "exited" /\ UNCHANGED <<jobs, job>>
       \/ /\ ~shutdown /\ jobs # <<>> /\ worker' = "work"
          /\ job' = Head(jobs) /\ jobs' = Tail(jobs)
       \/ ~shutdown /\ jobs = <<>> /\ worker' = "asleep" /\ UNCHANGED <<jobs, job>>
    /\ UNCHANGED <<busy, shutdown, messageVars, outcome, loaded, posted>>

\* The wait, and what follows it in the same critical section.
Wait ==
    /\ worker = "wait"
    /\ \/ /\ jobs # <<>> /\ worker' = "work"
          /\ job' = Head(jobs) /\ jobs' = Tail(jobs)
       \/ shutdown /\ jobs = <<>> /\ worker' = "exited" /\ UNCHANGED <<jobs, job>>
       \/ ~shutdown /\ jobs = <<>> /\ worker' = "asleep" /\ UNCHANGED <<jobs, job>>
    /\ UNCHANGED <<busy, shutdown, messageVars, outcome, loaded, posted>>

SpuriousWakeup == /\ worker = "asleep"
                  /\ worker' = "wait"
                  /\ UNCHANGED <<busy, jobs, shutdown, messageVars, job, outcome, loaded,
                                 posted>>

\* The model is loaded if it is not; without it the job fails.
LoadModel == /\ worker = "work" /\ ~loaded
             /\ \/ loaded' = TRUE /\ UNCHANGED <<worker, outcome>>
                \/ outcome' = FALSE /\ worker' = "clear" /\ UNCHANGED loaded
             /\ UNCHANGED <<busy, jobs, shutdown, messageVars, job, posted>>

\* The pre-processing and the transfer; an exception is an outcome too.
Transfer == /\ worker = "work" /\ loaded
            /\ outcome' \in BOOLEAN
            /\ worker' = "clear"
            /\ UNCHANGED <<busy, jobs, shutdown, messageVars, job, loaded, posted>>

\* deliver: the flag is cleared before the completion is posted.
ClearBusy == /\ worker = "clear"
             /\ busy' = [busy EXCEPT ![job.track] = FALSE]
             /\ worker' = "post"
             /\ UNCHANGED <<jobs, shutdown, messageVars, job, outcome, loaded, posted>>

\* Mutant: a transfer that failed is not reported.
PostSuccessOnly ==
    /\ worker = "post"
    /\ posted' = IF outcome THEN Append(posted, [job |-> job, ok |-> outcome]) ELSE posted
    /\ job' = NoJob /\ outcome' = FALSE /\ worker' = "wait"
    /\ UNCHANGED <<busy, jobs, shutdown, messageVars, loaded>>

Post == /\ worker = "post"
        /\ posted' = Append(posted, [job |-> job, ok |-> outcome])
        /\ job' = NoJob /\ outcome' = FALSE /\ worker' = "wait"
        /\ UNCHANGED <<busy, jobs, shutdown, messageVars, loaded>>

-----------------------------------------------------------------------------

MessageStep == PushJob \/ NotifyOne \/ RunCompletion \/ NotifyAll \/ Join
WorkerStep == Preload \/ Wait \/ LoadModel \/ Transfer \/ ClearBusy \/ Post

Closed == ui = "gone" /\ UNCHANGED vars

Next == \/ \E t \in Track, src \in Source : Submit(t, src)
        \/ MessageStep
        \/ BeginShutdown
        \/ WorkerStep
        \/ SpuriousWakeup
        \/ Closed

\* The operating system runs the worker, the message loop its queue: the steps
\* inside a call are never abandoned, and a completion that is posted is run unless
\* the program is closed first.  Neither clicks nor spurious wakeups are owed.
Fairness == /\ WF_vars(WorkerStep)
            /\ WF_vars(PushJob \/ NotifyOne \/ NotifyAll \/ Join)
            /\ SF_vars(RunCompletion)

Spec == Init /\ [][Next]_vars /\ Fairness

-----------------------------------------------------------------------------
(* Properties *)

\* Every variable stays in its domain: what is queued or posted is always a job.
TypeOK == /\ busy \in [Track -> BOOLEAN]
          /\ jobs \in Seq(Job) /\ job \in Job \union {NoJob}
          /\ shutdown \in BOOLEAN /\ loaded \in BOOLEAN /\ outcome \in BOOLEAN
          /\ ui \in {"free", "push", "notify", "notify_all", "join", "gone"}
          /\ request \in Job \union {NoJob}
          /\ worker \in {"preload", "wait", "asleep", "work", "clear", "post", "exited"}
          /\ posted \in Seq([job : Job, ok : BOOLEAN])

\* The jobs between submit and deliver.
InTransfer == IF worker \in {"work", "clear"} THEN <<job>> ELSE <<>>
Unfinished == InTransfer \o jobs \o Requested

\* No two of some jobs are of one track, and the flags say which tracks have one.
OnePerTrack(js, flags) ==
    /\ \A i, k \in DOMAIN js : js[i].track = js[k].track => i = k
    /\ \A t \in Track : flags[t] <=> \E i \in DOMAIN js : js[i].track = t

\* A track has at most one job between submit and deliver, and it is busy exactly
\* while it has one: "While a track is converting, the same track cannot start
\* another conversion" (feature-brief.md:71).
OneJobPerTrack == OnePerTrack(Unfinished, busy)

\* No wakeup is lost: a worker that sleeps while there is a job for it, or while it
\* is asked to stop, is about to be notified.
NoLostWakeup ==
    worker = "asleep" =>
        /\ jobs # <<>> => ui = "notify"
        /\ shutdown => ui = "notify_all"

\* "The service is destroyed before the engine so in-flight jobs are joined"
\* (EngineHost.h:16-17): when the destructor returns, no job is queued or running.
JoinedWhenGone == ui = "gone" => jobs = <<>> /\ job = NoJob /\ worker = "exited"

\* The destructor returns.
ShutdownEnds == shutdown ~> ui = "gone"

\* The service keeps its promise to the rest of the program: each accepted
\* conversion completes once, in order, on the message thread.
Promise == INSTANCE Conversions WITH transfers <- Open, open <- ~shutdown

ConversionsSpec == Promise!Spec
=============================================================================
