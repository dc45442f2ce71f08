-------------------- MODULE TimbreTransferServiceProofs --------------------
(***************************************************************************)
(* The handshake between submit, the destructor and the worker, for every  *)
(* set of tracks and loops: no wakeup is lost, a destructor that has       *)
(* returned leaves no job behind, and conversions complete in the order    *)
(* they were accepted.                                                     *)
(***************************************************************************)
EXTENDS TimbreTransferService, SequenceTheorems, TLAPS

\* A job is in hand exactly while submit or the worker is at work on it.
HandsOK == /\ ui = "push" => request \in Job
           /\ worker \in {"work", "clear", "post"} => job \in Job
           /\ worker \notin {"work", "clear", "post"} => job = NoJob

\* The destructor runs after the last submit, and the worker exits for it alone,
\* leaving nothing.
ExitOK == /\ shutdown <=> ui \in {"notify_all", "join", "gone"}
          /\ worker = "exited" => shutdown /\ jobs = <<>>
          /\ ui = "gone" => worker = "exited"

ServiceInv == TypeOK /\ HandsOK /\ ExitOK /\ NoLostWakeup

-----------------------------------------------------------------------------

LEMMA InitInv == Init => ServiceInv
<1>1. ASSUME Init PROVE TypeOK
  <2>1. <<>> \in Seq(Job) /\ <<>> \in Seq([job : Job, ok : BOOLEAN])
    OBVIOUS
  <2>2. busy \in [Track -> BOOLEAN]
    BY <1>1 DEF Init
  <2> QED
    BY <1>1, <2>1, <2>2 DEF Init, TypeOK
<1>2. ASSUME Init PROVE HandsOK /\ ExitOK /\ NoLostWakeup
  BY <1>2 DEF Init, HandsOK, ExitOK, NoLostWakeup
<1> QED
  BY <1>1, <1>2 DEF ServiceInv

LEMMA SubmitKeepsInv ==
    ASSUME ServiceInv, NEW t \in Track, NEW src \in Source, Submit(t, src)
    PROVE  ServiceInv'
<1>1. TypeOK'
  BY DEF ServiceInv, TypeOK, Submit, Job, workerVars
<1>2. HandsOK'
  BY DEF ServiceInv, HandsOK, Submit, Job, workerVars
<1>3. ExitOK' /\ NoLostWakeup'
  BY DEF ServiceInv, ExitOK, NoLostWakeup, Submit, workerVars
<1> QED
  BY <1>1, <1>2, <1>3 DEF ServiceInv

LEMMA MessageKeepsInv ==
    ASSUME ServiceInv, MessageStep \/ BeginShutdown PROVE ServiceInv'
<1>1. CASE PushJob
  <2>1. request \in Job
    BY <1>1 DEF ServiceInv, HandsOK, PushJob
  <2>2. TypeOK'
    BY <1>1, <2>1 DEF ServiceInv, TypeOK, PushJob, workerVars
  <2>3. HandsOK'
    BY <1>1 DEF ServiceInv, HandsOK, PushJob, workerVars
  <2>4. ExitOK' /\ NoLostWakeup'
    BY <1>1 DEF ServiceInv, ExitOK, NoLostWakeup, PushJob, workerVars
  <2> QED
    BY <2>2, <2>3, <2>4 DEF ServiceInv
<1>2. CASE NotifyOne \/ NotifyAll
  <2>1. TypeOK'
    BY <1>2 DEF ServiceInv, TypeOK, NotifyOne, NotifyAll, Woken
  <2>2. HandsOK'
    BY <1>2 DEF ServiceInv, HandsOK, NotifyOne, NotifyAll, Woken
  <2>3. ExitOK' /\ NoLostWakeup'
    BY <1>2 DEF ServiceInv, ExitOK, NoLostWakeup, NotifyOne, NotifyAll, Woken
  <2> QED
    BY <2>1, <2>2, <2>3 DEF ServiceInv
<1>3. CASE RunCompletion
  <2>1. TypeOK'
    BY <1>3 DEF ServiceInv, TypeOK, RunCompletion, workerVars
  <2>2. HandsOK' /\ ExitOK' /\ NoLostWakeup'
    BY <1>3 DEF ServiceInv, HandsOK, ExitOK, NoLostWakeup, RunCompletion, workerVars
  <2> QED
    BY <2>1, <2>2 DEF ServiceInv
<1>4. CASE Join \/ BeginShutdown
  <2>1. TypeOK'
    BY <1>4 DEF ServiceInv, TypeOK, Join, BeginShutdown, workerVars
  <2>2. HandsOK'
    BY <1>4 DEF ServiceInv, HandsOK, Join, BeginShutdown, workerVars
  <2>3. ExitOK' /\ NoLostWakeup'
    BY <1>4 DEF ServiceInv, ExitOK, NoLostWakeup, Join, BeginShutdown, workerVars
  <2> QED
    BY <2>1, <2>2, <2>3 DEF ServiceInv
<1> QED
  BY <1>1, <1>2, <1>3, <1>4 DEF MessageStep

LEMMA WorkerKeepsInv ==
    ASSUME ServiceInv, WorkerStep \/ SpuriousWakeup PROVE ServiceInv'
<1>1. CASE Wait
  <2>1. jobs # <<>> => Head(jobs) \in Job /\ Tail(jobs) \in Seq(Job)
    BY DEF ServiceInv, TypeOK
  <2>2. TypeOK'
    BY <1>1, <2>1 DEF ServiceInv, TypeOK, Wait, messageVars
  <2>3. HandsOK'
    BY <1>1, <2>1 DEF ServiceInv, HandsOK, Wait, messageVars
  <2>4. ExitOK' /\ NoLostWakeup'
    BY <1>1 DEF ServiceInv, ExitOK, NoLostWakeup, Wait, messageVars
  <2> QED
    BY <2>2, <2>3, <2>4 DEF ServiceInv
<1>2. CASE Post
  <2>1. job \in Job
    BY <1>2 DEF ServiceInv, HandsOK, Post
  <2>2. posted' \in Seq([job : Job, ok : BOOLEAN])
    <3>1. [job |-> job, ok |-> outcome] \in [job : Job, ok : BOOLEAN]
      BY <2>1 DEF ServiceInv, TypeOK
    <3> QED
      BY <1>2, <3>1 DEF ServiceInv, TypeOK, Post
  <2>3. TypeOK'
    BY <1>2, <2>2 DEF ServiceInv, TypeOK, Post, messageVars
  <2>4. HandsOK' /\ ExitOK' /\ NoLostWakeup'
    BY <1>2 DEF ServiceInv, HandsOK, ExitOK, NoLostWakeup, Post, messageVars
  <2> QED
    BY <2>3, <2>4 DEF ServiceInv
<1>3. CASE Preload \/ LoadModel \/ Transfer \/ ClearBusy \/ SpuriousWakeup
  <2> USE DEF Preload, LoadModel, Transfer, ClearBusy, SpuriousWakeup, messageVars
  <2>1. TypeOK'
    BY <1>3 DEF ServiceInv, TypeOK
  <2>2. HandsOK'
    BY <1>3 DEF ServiceInv, HandsOK
  <2>3. ExitOK' /\ NoLostWakeup'
    BY <1>3 DEF ServiceInv, ExitOK, NoLostWakeup
  <2> QED
    BY <2>1, <2>2, <2>3 DEF ServiceInv
<1> QED
  BY <1>1, <1>2, <1>3 DEF WorkerStep

LEMMA Inductive == Spec => []ServiceInv
<1>1. ServiceInv /\ UNCHANGED vars => ServiceInv'
  BY DEF ServiceInv, TypeOK, HandsOK, ExitOK, NoLostWakeup, vars, messageVars, workerVars
<1>2. ServiceInv /\ [Next]_vars => ServiceInv'
  BY <1>1, SubmitKeepsInv, MessageKeepsInv, WorkerKeepsInv DEF Next, Closed
<1> QED
  BY InitInv, <1>2, PTL DEF Spec

-----------------------------------------------------------------------------

\* What is queued or posted is always a job (the queue holds no moved-from entry).
THEOREM TypeCorrect == Spec => []TypeOK
BY Inductive, PTL DEF ServiceInv

\* The worker never sleeps through a job or through the request to stop: whoever
\* makes the predicate of its wait true is about to notify it
\* (TimbreTransferService.cpp:77-81, 40-44, 139).
THEOREM WakeupsAreKept == Spec => []NoLostWakeup
BY Inductive, PTL DEF ServiceInv

\* When the destructor has returned, no job is queued or running, so no transfer
\* can touch the engine that is destroyed next (EngineHost.h:15-17).
THEOREM NothingLeftBehind == Spec => []JoinedWhenGone
<1>1. ServiceInv => JoinedWhenGone
  BY DEF ServiceInv, HandsOK, ExitOK, JoinedWhenGone
<1> QED
  BY Inductive, <1>1, PTL
-----------------------------------------------------------------------------
(* One job per track *)

LEMMA AppendIsOnePerTrack ==
    ASSUME NEW js \in Seq(Job), NEW j \in Job, NEW flags \in [Track -> BOOLEAN],
           OnePerTrack(js, flags), ~flags[j.track]
    PROVE  OnePerTrack(Append(js, j), [flags EXCEPT ![j.track] = TRUE])
<1> DEFINE js2 == Append(js, j)
           flags2 == [flags EXCEPT ![j.track] = TRUE]
<1>1. /\ DOMAIN js = 1 .. Len(js) /\ DOMAIN js2 = 1 .. Len(js) + 1 /\ Len(js) \in Nat
      /\ \A i \in 1 .. Len(js) : js2[i] = js[i] /\ js[i] \in Job
      /\ js2[Len(js) + 1] = j
  OBVIOUS
<1>2. \A job0 \in Job : job0.track \in Track
  BY DEF Job
<1>3. \A i \in 1 .. Len(js) : js[i].track # j.track
  BY <1>1, <1>2 DEF OnePerTrack
<1>4. ASSUME NEW i \in DOMAIN js2, NEW k \in DOMAIN js2, js2[i].track = js2[k].track
      PROVE  i = k
  <2>1. CASE i \in 1 .. Len(js) /\ k \in 1 .. Len(js)
    BY <1>1, <1>4, <2>1 DEF OnePerTrack
  <2>2. CASE i = Len(js) + 1 \/ k = Len(js) + 1
    BY <1>1, <1>3, <1>4, <2>2
  <2> QED
    BY <1>1, <2>1, <2>2
<1>5. ASSUME NEW t \in Track
      PROVE  flags2[t] <=> \E i \in DOMAIN js2 : js2[i].track = t
  <2>1. CASE t = j.track
    BY <1>1, <2>1
  <2>2. CASE t # j.track
    <3>1. flags2[t] = flags[t]
      BY <2>2
    <3>2. (\E i \in DOMAIN js2 : js2[i].track = t) <=> (\E i \in DOMAIN js : js[i].track = t)
      BY <1>1, <2>2
    <3> QED
      BY <3>1, <3>2 DEF OnePerTrack
  <2> QED
    BY <2>1, <2>2
<1> QED
  BY <1>4, <1>5 DEF OnePerTrack

LEMMA TailIsOnePerTrack ==
    ASSUME NEW js \in Seq(Job), NEW j \in Job, NEW flags \in [Track -> BOOLEAN],
           OnePerTrack(<<j>> \o js, flags)
    PROVE  OnePerTrack(js, [flags EXCEPT ![j.track] = FALSE])
<1> DEFINE js2 == <<j>> \o js
           flags2 == [flags EXCEPT ![j.track] = FALSE]
<1>1. /\ DOMAIN js = 1 .. Len(js) /\ DOMAIN js2 = 1 .. Len(js) + 1 /\ Len(js) \in Nat
      /\ \A i \in 1 .. Len(js) : js2[i + 1] = js[i] /\ js[i] \in Job
      /\ js2[1] = j
  OBVIOUS
<1>2. \A i \in 1 .. Len(js) : js[i].track # j.track
  <2> SUFFICES ASSUME NEW i \in 1 .. Len(js), js[i].track = j.track PROVE FALSE
    OBVIOUS
  <2>1. i + 1 \in DOMAIN js2 /\ 1 \in DOMAIN js2 /\ js2[i + 1].track = js2[1].track
    BY <1>1
  <2>2. i + 1 = 1
    BY <2>1 DEF OnePerTrack
  <2> QED
    BY <2>2
<1>3. ASSUME NEW i \in DOMAIN js, NEW k \in DOMAIN js, js[i].track = js[k].track
      PROVE  i = k
  <2>1. i + 1 \in DOMAIN js2 /\ k + 1 \in DOMAIN js2 /\ js2[i + 1].track = js2[k + 1].track
    BY <1>1, <1>3
  <2>2. i + 1 = k + 1
    BY <2>1 DEF OnePerTrack
  <2> QED
    BY <1>1, <2>2
<1>4. ASSUME NEW t \in Track
      PROVE  flags2[t] <=> \E i \in DOMAIN js : js[i].track = t
  <2>1. CASE t = j.track
    BY <1>1, <1>2, <2>1
  <2>2. CASE t # j.track
    <3>1. flags2[t] = flags[t]
      BY <2>2
    <3>2. (\E i \in DOMAIN js2 : js2[i].track = t) => \E i \in DOMAIN js : js[i].track = t
      <4> SUFFICES ASSUME NEW i \in DOMAIN js2, js2[i].track = t
                   PROVE  \E k \in DOMAIN js : js[k].track = t
        OBVIOUS
      <4>1. i # 1
        BY <1>1, <2>2
      <4>2. i - 1 \in 1 .. Len(js) /\ js[i - 1] = js2[i]
        BY <1>1, <4>1
      <4> QED
        BY <1>1, <4>2
    <3>3. (\E i \in DOMAIN js : js[i].track = t) => \E i \in DOMAIN js2 : js2[i].track = t
      <4> SUFFICES ASSUME NEW i \in DOMAIN js, js[i].track = t
                   PROVE  \E k \in DOMAIN js2 : js2[k].track = t
        OBVIOUS
      <4>1. i + 1 \in DOMAIN js2 /\ js2[i + 1].track = t
        BY <1>1
      <4> QED
        BY <4>1
    <3> QED
      BY <3>1, <3>2, <3>3 DEF OnePerTrack
  <2> QED
    BY <2>1, <2>2
<1> QED
  BY <1>3, <1>4 DEF OnePerTrack

LEMMA AppendAfter ==
    ASSUME NEW a \in Seq(Job), NEW b \in Seq(Job), NEW x \in Job
    PROVE  (a \o b) \o <<x>> = a \o Append(b, x)
<1> DEFINE one == (a \o b) \o <<x>>
           two == a \o Append(b, x)
<1>1. /\ a \o b \in Seq(Job) /\ Append(b, x) \in Seq(Job)
      /\ one \in Seq(Job) /\ two \in Seq(Job)
  OBVIOUS
<1>2. Len(one) = Len(a) + Len(b) + 1 /\ Len(two) = Len(a) + Len(b) + 1
  OBVIOUS
<1>3. ASSUME NEW i \in 1 .. Len(a) + Len(b) + 1
      PROVE  one[i] = two[i]
  OBVIOUS
<1> HIDE DEF one, two
<1>4. one = two
  BY <1>1, <1>2, <1>3, SeqEqual
<1> QED
  BY <1>4 DEF one, two

\* The job in hand moves along the unfinished ones; only submit adds one, and only
\* deliver removes one.
LEMMA UnfinishedSteps ==
    ASSUME ServiceInv, [Next]_vars
    PROVE  \/ /\ \E t \in Track, src \in Source : Submit(t, src)
              /\ Unfinished' = Append(Unfinished, request')
           \/ ClearBusy /\ Unfinished = <<job>> \o Unfinished'
           \/ UNCHANGED <<Unfinished, busy>>
<1>1. /\ jobs \in Seq(Job) /\ (ui = "push" => request \in Job)
      /\ (worker \in {"work", "clear", "post"} => job \in Job)
  BY DEF ServiceInv, TypeOK, HandsOK
<1> DEFINE held == InTransfer
<1>2. held \in Seq(Job) /\ Requested \in Seq(Job)
  BY <1>1 DEF InTransfer, Requested
<1>3. ASSUME NEW t \in Track, NEW src \in Source, Submit(t, src)
      PROVE  Unfinished' = Append(Unfinished, request')
  <2>1. Requested = <<>> /\ Requested' = <<request'>> /\ UNCHANGED <<InTransfer, jobs>>
    BY <1>3 DEF Submit, Requested, InTransfer, workerVars
  <2>2. request' \in Job
    BY <1>3 DEF Submit, Job
  <2>3. held \o jobs \in Seq(Job)
    BY <1>1, <1>2
  <2>4. Unfinished = held \o jobs /\ Unfinished' = (held \o jobs) \o <<request'>>
    BY <2>1, <2>3 DEF Unfinished
  <2> QED
    BY <2>2, <2>3, <2>4
<1>4. CASE PushJob
  <2>1. Requested = <<request>> /\ Requested' = <<>> /\ UNCHANGED InTransfer
        /\ jobs' = Append(jobs, request) /\ request \in Job
    BY <1>1, <1>4 DEF PushJob, Requested, InTransfer, workerVars
  <2>2. /\ held \o jobs \in Seq(Job) /\ held \o Append(jobs, request) \in Seq(Job)
        /\ Append(jobs, request) \in Seq(Job)
    BY <1>1, <1>2, <2>1
  <2>3. (held \o jobs) \o <<request>> = held \o Append(jobs, request)
    BY <1>1, <1>2, <2>1, AppendAfter
  <2>4. (held \o Append(jobs, request)) \o <<>> = held \o Append(jobs, request)
    BY <2>2, ConcatEmptySeq
  <2> QED
    BY <1>4, <2>1, <2>3, <2>4 DEF Unfinished, PushJob
<1>5. CASE Wait
  <2>1. UNCHANGED <<Requested, busy>> /\ InTransfer = <<>>
    BY <1>5 DEF Wait, Requested, InTransfer, messageVars
  <2>2. CASE jobs # <<>>
    <3>1. InTransfer' = <<Head(jobs)>> /\ jobs' = Tail(jobs)
      BY <1>5, <2>2 DEF Wait, InTransfer
    <3>2. <<Head(jobs)>> \o Tail(jobs) = <<>> \o jobs
      BY <1>1, <2>2
    <3> QED
      BY <2>1, <3>1, <3>2 DEF Unfinished
  <2>3. CASE jobs = <<>>
    BY <1>5, <2>1, <2>3 DEF Wait, Unfinished, InTransfer
  <2> QED
    BY <2>2, <2>3
<1>6. CASE ClearBusy
  <2>1. InTransfer = <<job>> /\ InTransfer' = <<>> /\ UNCHANGED <<jobs, Requested>>
        /\ job \in Job
    BY <1>1, <1>6 DEF ClearBusy, InTransfer, Requested, messageVars
  <2>2. (<<job>> \o jobs) \o Requested = <<job>> \o ((<<>> \o jobs) \o Requested)
    BY <1>1, <1>2, <2>1
  <2> QED
    BY <1>6, <2>1, <2>2 DEF Unfinished
<1>7. ASSUME UNCHANGED <<InTransfer, jobs, Requested, busy>>
      PROVE  UNCHANGED <<Unfinished, busy>>
  BY <1>7 DEF Unfinished
<1>8. CASE NotifyOne \/ RunCompletion \/ NotifyAll \/ Join \/ BeginShutdown
  BY <1>7, <1>8 DEF NotifyOne, RunCompletion, NotifyAll, Join, BeginShutdown, Woken,
     InTransfer, Requested, workerVars
<1>9. CASE Preload \/ LoadModel \/ Transfer \/ Post \/ SpuriousWakeup
  BY <1>7, <1>9 DEF Preload, LoadModel, Transfer, Post, SpuriousWakeup,
     InTransfer, Requested, messageVars
<1>10. CASE UNCHANGED vars
  BY <1>7, <1>10 DEF vars, messageVars, workerVars, InTransfer, Requested
<1> QED
  BY <1>3, <1>4, <1>5, <1>6, <1>8, <1>9, <1>10 DEF Next, MessageStep, WorkerStep, Closed

\* However clicks, the queue and the worker interleave, no track has two conversions
\* under way, and its flag says whether it has one (TimbreTransferService.cpp:64-67, 94).
THEOREM OneConversionPerTrack == Spec => []OneJobPerTrack
<1>1. Init => OneJobPerTrack
  <2> SUFFICES ASSUME Init PROVE OneJobPerTrack
    OBVIOUS
  <2>1. Unfinished = <<>>
    BY DEF Init, Unfinished, InTransfer, Requested
  <2> QED
    BY <2>1 DEF Init, OneJobPerTrack, OnePerTrack
<1>2. ServiceInv /\ OneJobPerTrack /\ [Next]_vars => OneJobPerTrack'
  <2> SUFFICES ASSUME ServiceInv, OneJobPerTrack, [Next]_vars PROVE OneJobPerTrack'
    OBVIOUS
  <2>1. Unfinished \in Seq(Job) /\ busy \in [Track -> BOOLEAN]
    BY DEF ServiceInv, TypeOK, HandsOK, Unfinished, InTransfer, Requested
  <2>2. ASSUME NEW t \in Track, NEW src \in Source, Submit(t, src),
               Unfinished' = Append(Unfinished, request')
        PROVE  OneJobPerTrack'
    <3>1. request' \in Job /\ request'.track = t
      BY <2>2 DEF Submit, Job
    <3>2. OnePerTrack(Append(Unfinished, request'), [busy EXCEPT ![request'.track] = TRUE])
      BY <2>1, <2>2, <3>1, AppendIsOnePerTrack DEF OneJobPerTrack, Submit
    <3> QED
      BY <2>2, <3>1, <3>2 DEF OneJobPerTrack, OnePerTrack, Submit
  <2>3. ASSUME ClearBusy, Unfinished = <<job>> \o Unfinished' PROVE OneJobPerTrack'
    <3>1. job \in Job
      BY <2>3 DEF ServiceInv, HandsOK, ClearBusy
    <3>2. Unfinished' \in Seq(Job)
      BY <2>3 DEF ServiceInv, TypeOK, HandsOK, Unfinished, InTransfer, Requested,
                  ClearBusy, messageVars
    <3>3. OnePerTrack(Unfinished', [busy EXCEPT ![job.track] = FALSE])
      BY <2>1, <2>3, <3>1, <3>2, TailIsOnePerTrack DEF OneJobPerTrack
    <3> QED
      BY <2>3, <3>3 DEF OneJobPerTrack, OnePerTrack, ClearBusy
  <2>4. ASSUME UNCHANGED <<Unfinished, busy>> PROVE OneJobPerTrack'
    BY <2>4 DEF OneJobPerTrack, OnePerTrack
  <2> QED
    BY <2>2, <2>3, <2>4, UnfinishedSteps
<1> QED
  BY <1>1, <1>2, Inductive, PTL DEF Spec

-----------------------------------------------------------------------------
(* The promise *)

LEMMA PostedAreJobs ==
    ASSUME ServiceInv
    PROVE  /\ PostedJobs \in Seq(Job) /\ Len(PostedJobs) = Len(posted)
           /\ InHand \in Seq(Job) /\ jobs \in Seq(Job) /\ Requested \in Seq(Job)
<1>1. posted \in Seq([job : Job, ok : BOOLEAN])
  BY DEF ServiceInv, TypeOK
<1>2. PostedJobs \in [1 .. Len(posted) -> Job] /\ Len(posted) \in Nat
  <2>1. /\ DOMAIN posted = 1 .. Len(posted) /\ Len(posted) \in Nat
        /\ posted \in [1 .. Len(posted) -> [job : Job, ok : BOOLEAN]]
    BY <1>1, ElementOfSeq, LenProperties
  <2>2. \A k \in 1 .. Len(posted) : posted[k].job \in Job
    <3> SUFFICES ASSUME NEW k \in 1 .. Len(posted) PROVE posted[k].job \in Job
      OBVIOUS
    <3>1. posted[k] \in [job : Job, ok : BOOLEAN]
      BY <2>1
    <3> QED
      BY <3>1
  <2> QED
    BY <2>1, <2>2 DEF PostedJobs
<1>3. PostedJobs \in Seq(Job) /\ Len(PostedJobs) = Len(posted)
  BY <1>2
<1> QED
  BY <1>3 DEF ServiceInv, TypeOK, HandsOK, InHand, Requested

\* A completion is of the oldest transfer that is open.
LEMMA CompletionIsOfTheOldest ==
    ASSUME ServiceInv, RunCompletion
    PROVE  /\ Open # <<>> /\ Head(Open) = Head(posted).job
           /\ Open' = Tail(Open)
<1> DEFINE rest == (InHand \o jobs) \o Requested
<1>1. /\ posted \in Seq([job : Job, ok : BOOLEAN]) /\ posted # <<>>
      /\ posted' = Tail(posted) /\ UNCHANGED <<InHand, jobs, Requested>>
  BY DEF ServiceInv, TypeOK, RunCompletion, InHand, Requested, workerVars
<1>2. rest \in Seq(Job) /\ PostedJobs \in Seq(Job)
  BY PostedAreJobs
<1>3. Open = PostedJobs \o rest
  BY PostedAreJobs DEF Open
<1>4. PostedJobs # <<>> /\ Head(PostedJobs) = Head(posted).job
  BY <1>1, <1>2, PostedAreJobs DEF PostedJobs
<1>5. PostedJobs' = Tail(PostedJobs)
  <2>1. /\ Len(Tail(posted)) = Len(posted) - 1
        /\ \A k \in 1 .. Len(posted) - 1 : Tail(posted)[k] = posted[k + 1]
    BY <1>1
  <2>2. /\ Tail(PostedJobs) \in Seq(Job) /\ Len(Tail(PostedJobs)) = Len(posted) - 1
        /\ \A k \in 1 .. Len(posted) - 1 : Tail(PostedJobs)[k] = PostedJobs[k + 1]
    BY <1>2, <1>4, PostedAreJobs
  <2>3. \A k \in 1 .. Len(posted) - 1 : PostedJobs[k + 1] = posted[k + 1].job
    BY <1>1 DEF PostedJobs
  <2>4. PostedJobs' = [k \in 1 .. Len(posted) - 1 |-> Tail(posted)[k].job]
    BY <1>1, <2>1 DEF PostedJobs
  <2> DEFINE end == Tail(PostedJobs)
  <2> HIDE DEF end
  <2>5. end = [k \in 1 .. Len(end) |-> end[k]]
    <3>1. end \in Seq(Job)
      BY <2>2 DEF end
    <3> QED
      BY <3>1
  <2> QED
    BY <2>1, <2>2, <2>3, <2>4, <2>5 DEF end
<1>6. Open' = Tail(PostedJobs) \o rest
  <2>1. Tail(PostedJobs) \in Seq(Job)
    BY <1>2, <1>4
  <2>2. Open' = ((Tail(PostedJobs) \o InHand) \o jobs) \o Requested
    BY <1>1, <1>5 DEF Open
  <2> QED
    BY <2>1, <2>2, PostedAreJobs
<1> HIDE DEF rest
<1> QED
  BY <1>2, <1>3, <1>4, <1>6

\* Handing the job on, from the queue to the worker and from the worker to the message
\* queue, leaves the open transfers and their order alone.
LEMMA OpenSteps ==
    ASSUME ServiceInv, [Next]_vars
    PROVE  \/ /\ \E t \in Track, src \in Source : Submit(t, src)
              /\ Open' = Append(Open, request')
           \/ RunCompletion
           \/ UNCHANGED <<Open, completed>>
<1> DEFINE early == PostedJobs \o InHand
<1>1. /\ PostedJobs \in Seq(Job) /\ InHand \in Seq(Job) /\ jobs \in Seq(Job)
      /\ Requested \in Seq(Job) /\ early \in Seq(Job)
  BY PostedAreJobs
<1>2. ASSUME NEW t \in Track, NEW src \in Source, Submit(t, src)
      PROVE  Open' = Append(Open, request')
  <2>1. Requested = <<>> /\ Requested' = <<request'>>
        /\ UNCHANGED <<PostedJobs, InHand, jobs>>
    BY <1>2 DEF Submit, Requested, InHand, PostedJobs, workerVars
  <2>2. request' \in Job
    BY <1>2 DEF Submit, Job
  <2>3. early \o jobs \in Seq(Job)
    BY <1>1
  <2>4. Open = early \o jobs /\ Open' = (early \o jobs) \o <<request'>>
    BY <2>1, <2>3 DEF Open
  <2> QED
    BY <2>2, <2>3, <2>4
<1>3. CASE PushJob
  <2>1. Requested = <<request>> /\ Requested' = <<>> /\ UNCHANGED <<PostedJobs, InHand>>
        /\ jobs' = Append(jobs, request) /\ request \in Job /\ completed' = completed
    BY <1>3 DEF ServiceInv, HandsOK, PushJob, Requested, InHand, PostedJobs, workerVars
  <2>2. (early \o jobs) \o <<request>> = early \o Append(jobs, request)
    BY <1>1, <2>1, AppendAfter
  <2>3. early \o Append(jobs, request) \in Seq(Job)
    BY <1>1, <2>1
  <2>4. (early \o Append(jobs, request)) \o <<>> = early \o Append(jobs, request)
    BY <2>3, ConcatEmptySeq
  <2> QED
    BY <2>1, <2>2, <2>4 DEF Open
<1>4. CASE Wait
  <2>1. UNCHANGED <<PostedJobs, Requested, completed>> /\ InHand = <<>>
    BY <1>4 DEF Wait, Requested, InHand, PostedJobs, messageVars
  <2>2. CASE jobs # <<>>
    <3>1. InHand' = <<Head(jobs)>> /\ jobs' = Tail(jobs)
      BY <1>4, <2>2 DEF Wait, InHand
    <3>2. (PostedJobs \o <<Head(jobs)>>) \o Tail(jobs) = (PostedJobs \o <<>>) \o jobs
      BY <1>1, <2>2
    <3> QED
      BY <2>1, <3>1, <3>2 DEF Open
  <2>3. CASE jobs = <<>>
    <3>1. InHand' = <<>> /\ jobs' = jobs
      BY <1>4, <2>3 DEF Wait, InHand
    <3> QED
      BY <2>1, <3>1 DEF Open
  <2> QED
    BY <2>2, <2>3
<1>5. CASE Post
  <2>1. /\ InHand = <<job>> /\ InHand' = <<>> /\ job \in Job
        /\ posted' = Append(posted, [job |-> job, ok |-> outcome])
        /\ UNCHANGED <<jobs, Requested, completed>>
    BY <1>5 DEF ServiceInv, HandsOK, Post, InHand, Requested, messageVars
  <2>2. PostedJobs' = Append(PostedJobs, job)
    <3>1. posted \in Seq([job : Job, ok : BOOLEAN])
      BY DEF ServiceInv, TypeOK
    <3>2. /\ DOMAIN posted = 1 .. Len(posted) /\ Len(posted) \in Nat
          /\ DOMAIN posted' = 1 .. Len(posted) + 1
          /\ posted'[Len(posted) + 1] = [job |-> job, ok |-> outcome]
          /\ \A k \in 1 .. Len(posted) : posted'[k] = posted[k]
      BY <2>1, <3>1
    <3>3. PostedJobs' = [k \in 1 .. Len(posted) + 1 |-> posted'[k].job]
      BY <3>2 DEF PostedJobs
    <3> DEFINE app == Append(PostedJobs, job)
    <3>4. /\ app \in Seq(Job) /\ Len(app) = Len(posted) + 1
          /\ app[Len(posted) + 1] = job
          /\ \A k \in 1 .. Len(posted) : app[k] = PostedJobs[k]
      BY <1>1, <2>1, PostedAreJobs, AppendProperties
    <3>5. \A k \in 1 .. Len(posted) : PostedJobs[k] = posted[k].job
      BY <3>2 DEF PostedJobs
    <3> HIDE DEF app
    <3>6. app = [k \in 1 .. Len(app) |-> app[k]]
      BY <3>4
    <3>7. \A k \in 1 .. Len(posted) + 1 : app[k] = posted'[k].job
      BY <2>1, <3>2, <3>4, <3>5
    <3>8. PostedJobs' = app
      BY <3>3, <3>4, <3>6, <3>7
    <3> QED
      BY <3>8 DEF app
  <2>3. PostedJobs \o <<job>> = Append(PostedJobs, job) \o <<>>
    BY <1>1, <2>1
  <2> QED
    BY <2>1, <2>2, <2>3 DEF Open
<1>6. ASSUME UNCHANGED <<posted, InHand, jobs, Requested, completed>>
      PROVE  UNCHANGED <<Open, completed>>
  BY <1>6 DEF Open, PostedJobs
<1>7. CASE NotifyOne \/ NotifyAll \/ Join \/ BeginShutdown
  BY <1>6, <1>7 DEF NotifyOne, NotifyAll, Join, BeginShutdown, Woken, InHand, Requested,
     workerVars
<1>8. CASE Preload \/ LoadModel \/ Transfer \/ ClearBusy \/ SpuriousWakeup
  BY <1>6, <1>8 DEF Preload, LoadModel, Transfer, ClearBusy, SpuriousWakeup, InHand,
     Requested, messageVars
<1>9. CASE UNCHANGED vars
  BY <1>6, <1>9 DEF vars, messageVars, workerVars, InHand, Requested
<1> QED
  BY <1>2, <1>3, <1>4, <1>5, <1>7, <1>8, <1>9 DEF Next, MessageStep, WorkerStep, Closed


LEMMA ServiceStepIsPromised ==
    ASSUME ServiceInv, ServiceInv', [Next]_vars PROVE [Promise!Next]_(Promise!vars)
<1>1. shutdown \in BOOLEAN /\ shutdown' \in BOOLEAN
  BY DEF ServiceInv, TypeOK
<1>2. ASSUME NEW t \in Track, NEW src \in Source, Submit(t, src),
             Open' = Append(Open, request')
      PROVE  Promise!Next
  <2>1. /\ ~shutdown /\ ~shutdown' /\ completed' = completed
        /\ request' = [track |-> t, source |-> src]
    BY <1>2 DEF Submit
  <2>2. Promise!Accept(t, src)
    BY <1>2, <2>1 DEF Promise!Accept
  <2> QED
    BY <2>2 DEF Promise!Next
<1>3. CASE RunCompletion
  <2>1. /\ ~shutdown /\ ~shutdown'
        /\ completed' = <<Head(posted).job.track, Head(posted).job.source, Head(posted).ok>>
    BY <1>3 DEF RunCompletion
  <2>2. Head(posted).ok \in BOOLEAN
    <3>1. posted \in Seq([job : Job, ok : BOOLEAN]) /\ posted # <<>>
      BY <1>3 DEF ServiceInv, TypeOK, RunCompletion
    <3>2. Head(posted) \in [job : Job, ok : BOOLEAN]
      BY <3>1, HeadTailProperties
    <3> QED
      BY <3>2
  <2>3. Promise!Complete
    BY <1>3, <2>1, <2>2, CompletionIsOfTheOldest DEF Promise!Complete
  <2> QED
    BY <2>3 DEF Promise!Next
<1>4. CASE UNCHANGED <<Open, completed>>
  <2>1. CASE shutdown' = shutdown
    BY <1>4, <2>1 DEF Promise!vars
  <2>2. CASE BeginShutdown
    <3>1. ~shutdown /\ shutdown'
      BY <2>2 DEF BeginShutdown
    <3> QED
      BY <1>4, <3>1 DEF Promise!Close, Promise!Next
  <2>3. shutdown' = shutdown \/ BeginShutdown
    <3>1. MessageStep => shutdown' = shutdown
      BY DEF MessageStep, PushJob, NotifyOne, RunCompletion, NotifyAll, Join
    <3>2. WorkerStep \/ SpuriousWakeup => shutdown' = shutdown
      BY DEF WorkerStep, Preload, Wait, LoadModel, Transfer, ClearBusy, Post,
         SpuriousWakeup
    <3>3. ASSUME NEW t \in Track, NEW src \in Source, Submit(t, src)
          PROVE  shutdown' = shutdown
      BY <3>3 DEF Submit
    <3>4. UNCHANGED vars => shutdown' = shutdown
      BY DEF vars
    <3> QED
      BY <3>1, <3>2, <3>3, <3>4 DEF Next, Closed
  <2> QED
    BY <2>1, <2>2, <2>3
<1> QED
  BY <1>2, <1>3, <1>4, OpenSteps

\* Every step of submit, the worker, the message loop and the destructor is one of the
\* promise, or invisible: conversions complete once each, in the order submit accepted
\* them, and none after the destructor has begun (TimbreTransferService.cpp:35-104).
THEOREM ConversionsAreOrdered == Spec => Promise!Init /\ [][Promise!Next]_(Promise!vars)
<1>1. Init => Promise!Init
  <2> SUFFICES ASSUME Init PROVE Promise!Init
    OBVIOUS
  <2>1. PostedJobs = <<>> /\ InHand = <<>> /\ jobs = <<>> /\ Requested = <<>>
    BY DEF Init, PostedJobs, InHand, Requested
  <2>2. Open = <<>>
    BY <2>1 DEF Open
  <2> QED
    BY <2>2 DEF Init, Promise!Init
<1>2. ServiceInv /\ ServiceInv' /\ [Next]_vars => [Promise!Next]_(Promise!vars)
  BY ServiceStepIsPromised
<1> QED
  BY <1>1, <1>2, Inductive, PTL DEF Spec
=============================================================================
