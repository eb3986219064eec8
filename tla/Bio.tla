-------------------------------- MODULE Bio ---------------------------------
(***************************************************************************)
(* The background workers of bio.c.  Each worker has a queue, a mutex and  *)
(* one condition variable, on which the worker waits for jobs and the main *)
(* thread, in bioDrainWorker, for the queue to empty.  Completion requests *)
(* come back to the main thread through bio_comp_list and a non-blocking   *)
(* pipe that makes the event loop call bioPipeReadJobCompList.             *)
(*                                                                         *)
(* A job is "work" (close, fsync, lazy free: what it does is the business  *)
(* of its submitter) or "comp".  The two critical sections of              *)
(* bio_mutex_comp contain nothing that blocks and are single steps.        *)
(***************************************************************************)
EXTENDS Integers, Sequences, FiniteSets

CONSTANTS
  Worker,
  MaxJobs,     \* bound: jobs ever submitted
  PipeSize,    \* capacity of the pipe
  BufSize      \* sizeof(buf) of bioPipeReadJobCompList

ASSUME BioAssumption == MaxJobs \in Nat /\ PipeSize \in Nat \ {0} /\ BufSize \in Nat \ {0}

VARIABLES
  bio_mutex,         \* per worker: "free", "worker" or "main"
  bio_newjob_cond,   \* per worker: the threads asleep on the condition variable
  bio_jobs,          \* per worker: the queue
  bio_jobs_counter,  \* per worker and kind: pending jobs
  bio_comp_list,     \* completion responses
  job_comp_pipe,     \* bytes in the pipe
  worker_pc,
  main_pc,
  target,            \* the worker the main thread is locking, locked or waits for
  tmp_list,          \* the responses whose callbacks the main thread is running
  next,              \* history: number of the next job
  notified           \* history: callbacks that have run

lockVars   == <<bio_mutex, bio_newjob_cond>>
queueVars  == <<bio_jobs, bio_jobs_counter>>
compVars   == <<bio_comp_list, job_comp_pipe, tmp_list, notified>>
mainVars   == <<main_pc, target, next>>
vars == <<lockVars, queueVars, compVars, worker_pc, mainVars>>

Kind == {"work", "comp"}
JobType == [id : Nat, kind : Kind, worker : Worker]
NewJob(w, k) == [id |-> next, kind |-> k, worker |-> w]

Init ==
  /\ bio_mutex = [w \in Worker |-> "free"] /\ bio_newjob_cond = [w \in Worker |-> {}]
  /\ bio_jobs = [w \in Worker |-> <<>>]
  /\ bio_jobs_counter = [w \in Worker |-> [k \in Kind |-> 0]]
  /\ bio_comp_list = <<>> /\ job_comp_pipe = 0 /\ tmp_list = <<>> /\ notified = <<>>
  /\ worker_pc = [w \in Worker |-> "start"] /\ main_pc = "loop"
  /\ target \in Worker /\ next = 1

pthread_mutex_lock(w, thread) ==
  /\ bio_mutex[w] = "free"
  /\ bio_mutex' = [bio_mutex EXCEPT ![w] = thread]

pthread_mutex_unlock(w) == bio_mutex' = [bio_mutex EXCEPT ![w] = "free"]

\* Wakes one of the threads asleep, if there is one.
pthread_cond_signal(w) ==
  \/ bio_newjob_cond[w] = {} /\ UNCHANGED bio_newjob_cond
  \/ \E t \in bio_newjob_cond[w] : bio_newjob_cond' = [bio_newjob_cond EXCEPT ![w] = @ \ {t}]

\* Releases the mutex and falls asleep in one step.
pthread_cond_wait(w, thread) ==
  /\ bio_newjob_cond' = [bio_newjob_cond EXCEPT ![w] = @ \cup {thread}]
  /\ pthread_mutex_unlock(w)

\* Condition variables may wake a thread for no reason.
SpuriousWakeup(w, thread) ==
  /\ thread \in bio_newjob_cond[w]
  /\ bio_newjob_cond' = [bio_newjob_cond EXCEPT ![w] = @ \ {thread}]
  /\ UNCHANGED <<bio_mutex, queueVars, compVars, worker_pc, mainVars>>

-----------------------------------------------------------------------------
(* The main thread.                                                        *)

\* bioSubmitJob and bioDrainWorker begin by locking the worker's mutex.
BeginCall(w, call) ==
  /\ main_pc = "loop" /\ (call = "submit" => next <= MaxJobs)
  /\ main_pc' = call /\ target' = w
  /\ UNCHANGED <<lockVars, queueVars, compVars, worker_pc, next>>

MainLock ==
  /\ main_pc \in {"submit", "drain"}
  /\ pthread_mutex_lock(target, "main")
  /\ main_pc' = IF main_pc = "submit" THEN "submit_locked" ELSE "drain_locked"
  /\ UNCHANGED <<bio_newjob_cond, queueVars, compVars, worker_pc, target, next>>

\* Faulty variant: the worker is not signalled.
bioSubmitJob_NoSignal(k) ==
  /\ main_pc = "submit_locked"
  /\ bio_jobs' = [bio_jobs EXCEPT ![target] = Append(@, NewJob(target, k))]
  /\ bio_jobs_counter' = [bio_jobs_counter EXCEPT ![target][k] = @ + 1]
  /\ pthread_mutex_unlock(target)
  /\ next' = next + 1
  /\ main_pc' = "loop"
  /\ UNCHANGED <<bio_newjob_cond, compVars, worker_pc, target>>

bioSubmitJob(k) ==
  /\ main_pc = "submit_locked"
  /\ bio_jobs' = [bio_jobs EXCEPT ![target] = Append(@, NewJob(target, k))]
  /\ bio_jobs_counter' = [bio_jobs_counter EXCEPT ![target][k] = @ + 1]
  /\ pthread_cond_signal(target)
  /\ pthread_mutex_unlock(target)
  /\ next' = next + 1
  /\ main_pc' = "loop"
  /\ UNCHANGED <<compVars, worker_pc, target>>

bioDrainWorker ==
  /\ main_pc = "drain_locked"
  /\ \/ /\ bio_jobs[target] # <<>>
        /\ pthread_cond_wait(target, "main")
        /\ main_pc' = "drain_wait"
     \/ /\ bio_jobs[target] = <<>>
        /\ pthread_mutex_unlock(target)
        /\ main_pc' = "loop" /\ UNCHANGED bio_newjob_cond
  /\ UNCHANGED <<queueVars, compVars, worker_pc, target, next>>

\* Faulty variant: a wakeup is taken for an empty queue.
MainWakes_NoRecheck ==
  /\ main_pc = "drain_wait" /\ "main" \notin bio_newjob_cond[target]
  /\ main_pc' = "loop"
  /\ UNCHANGED <<lockVars, queueVars, compVars, worker_pc, target, next>>

MainWakes ==
  /\ main_pc = "drain_wait" /\ "main" \notin bio_newjob_cond[target]
  /\ pthread_mutex_lock(target, "main")
  /\ main_pc' = "drain_locked"
  /\ UNCHANGED <<bio_newjob_cond, queueVars, compVars, worker_pc, target, next>>

\* The value bioPendingJobsOfType returns to a caller that gets the mutex.
bioPendingJobsOfType(w, k) == bio_jobs_counter[w][k]

\* bioPipeReadJobCompList, called while the pipe is readable: empty the pipe,
\* take the list, run the callbacks.
PipeRead ==
  /\ \/ main_pc = "loop" /\ job_comp_pipe > 0
     \/ main_pc = "pipe_read"
  /\ LET n == IF job_comp_pipe < BufSize THEN job_comp_pipe ELSE BufSize IN
       /\ job_comp_pipe' = job_comp_pipe - n
       /\ main_pc' = IF n = BufSize THEN "pipe_read" ELSE "take_list"
  /\ UNCHANGED <<lockVars, queueVars, bio_comp_list, tmp_list, notified, worker_pc, target, next>>

TakeCompList ==
  /\ main_pc = "take_list"
  /\ tmp_list' = bio_comp_list /\ bio_comp_list' = <<>>
  /\ main_pc' = IF bio_comp_list = <<>> THEN "loop" ELSE "callbacks"
  /\ UNCHANGED <<lockVars, queueVars, job_comp_pipe, notified, worker_pc, target, next>>

\* Faulty variant: the pipe is emptied after the callbacks.
Callback_EmptiesPipe ==
  /\ main_pc = "callbacks"
  /\ notified' = Append(notified, Head(tmp_list))
  /\ tmp_list' = Tail(tmp_list)
  /\ main_pc' = IF Tail(tmp_list) = <<>> THEN "loop" ELSE "callbacks"
  /\ job_comp_pipe' = 0
  /\ UNCHANGED <<lockVars, queueVars, bio_comp_list, worker_pc, target, next>>

Callback ==
  /\ main_pc = "callbacks"
  /\ notified' = Append(notified, Head(tmp_list))
  /\ tmp_list' = Tail(tmp_list)
  /\ main_pc' = IF Tail(tmp_list) = <<>> THEN "loop" ELSE "callbacks"
  /\ UNCHANGED <<lockVars, queueVars, bio_comp_list, job_comp_pipe, worker_pc, target, next>>

-----------------------------------------------------------------------------
(* bioProcessBackgroundJobs.                                               *)

Job(w) == Head(bio_jobs[w])

\* The worker takes its mutex: at the start, after a job, after a wakeup.
WorkerLock(w) ==
  /\ \/ worker_pc[w] \in {"start", "relock"}
     \/ worker_pc[w] = "wait" /\ "worker" \notin bio_newjob_cond[w]
  /\ pthread_mutex_lock(w, "worker")
  /\ worker_pc' = [worker_pc EXCEPT ![w] = IF @ = "relock" THEN "remove" ELSE "check"]
  /\ UNCHANGED <<bio_newjob_cond, queueVars, compVars, mainVars>>

\* The head of the loop: sleep on an empty queue, else look at the first job
\* and leave the critical section with the job still in the queue.
WorkerCheck(w) ==
  /\ worker_pc[w] = "check"
  /\ \/ /\ bio_jobs[w] = <<>>
        /\ pthread_cond_wait(w, "worker")
        /\ worker_pc' = [worker_pc EXCEPT ![w] = "wait"]
     \/ /\ bio_jobs[w] # <<>>
        /\ pthread_mutex_unlock(w)
        /\ worker_pc' = [worker_pc EXCEPT ![w] = "process"]
        /\ UNCHANGED bio_newjob_cond
  /\ UNCHANGED <<queueVars, compVars, mainVars>>

ProcessWork(w) ==
  /\ worker_pc[w] = "process" /\ Job(w).kind = "work"
  /\ worker_pc' = [worker_pc EXCEPT ![w] = "relock"]
  /\ UNCHANGED <<lockVars, queueVars, compVars, mainVars>>

ProcessComp(w) ==
  /\ worker_pc[w] = "process" /\ Job(w).kind = "comp"
  /\ bio_comp_list' = Append(bio_comp_list, Job(w))
  /\ worker_pc' = [worker_pc EXCEPT ![w] = "pipe_write"]
  /\ UNCHANGED <<lockVars, queueVars, job_comp_pipe, tmp_list, notified, mainVars>>

\* The write fails, silently, when the pipe is full.
PipeWrite(w) ==
  /\ worker_pc[w] = "pipe_write"
  /\ job_comp_pipe' = IF job_comp_pipe < PipeSize THEN job_comp_pipe + 1 ELSE job_comp_pipe
  /\ worker_pc' = [worker_pc EXCEPT ![w] = "relock"]
  /\ UNCHANGED <<lockVars, queueVars, bio_comp_list, tmp_list, notified, mainVars>>

\* Faulty variant: the drainer is not signalled.
WorkerRemove_NoSignal(w) ==
  /\ worker_pc[w] = "remove"
  /\ bio_jobs' = [bio_jobs EXCEPT ![w] = Tail(@)]
  /\ bio_jobs_counter' = [bio_jobs_counter EXCEPT ![w][Job(w).kind] = @ - 1]
  /\ worker_pc' = [worker_pc EXCEPT ![w] = "check"]
  /\ UNCHANGED <<bio_newjob_cond, bio_mutex, compVars, mainVars>>

WorkerRemove(w) ==
  /\ worker_pc[w] = "remove"
  /\ bio_jobs' = [bio_jobs EXCEPT ![w] = Tail(@)]
  /\ bio_jobs_counter' = [bio_jobs_counter EXCEPT ![w][Job(w).kind] = @ - 1]
  /\ pthread_cond_signal(w)
  /\ worker_pc' = [worker_pc EXCEPT ![w] = "check"]
  /\ UNCHANGED <<bio_mutex, compVars, mainVars>>

-----------------------------------------------------------------------------
MainStep == \/ MainLock \/ MainWakes \/ bioDrainWorker \/ TakeCompList \/ Callback \/ PipeRead
            \/ \E k \in Kind : bioSubmitJob(k)

WorkerStep(w) == \/ WorkerLock(w) \/ WorkerCheck(w) \/ ProcessWork(w) \/ ProcessComp(w)
                 \/ PipeWrite(w) \/ WorkerRemove(w)

Next ==
  \/ MainStep
  \/ \E w \in Worker : \/ WorkerStep(w)
                       \/ \E call \in {"submit", "drain"} : BeginCall(w, call)
                       \/ \E t \in {"worker", "main"} : SpuriousWakeup(w, t)

Spec == Init /\ [][Next]_vars

\* Threads run, a thread that wants a mutex gets it in the end, and the event
\* loop serves a readable pipe however busy it is.
FairSpec == /\ Spec
            /\ WF_vars(MainStep) /\ SF_vars(MainLock) /\ SF_vars(MainWakes) /\ SF_vars(PipeRead)
            /\ \A w \in Worker : WF_vars(WorkerStep(w)) /\ SF_vars(WorkerLock(w))

-----------------------------------------------------------------------------
(* Properties.                                                             *)

Elements(s) == {s[i] : i \in 1..Len(s)}

\* Every variable has its type.
TypeOK ==
  /\ bio_mutex \in [Worker -> {"free", "worker", "main"}]
  /\ bio_newjob_cond \in [Worker -> SUBSET {"worker", "main"}]
  /\ bio_jobs \in [Worker -> Seq(JobType)]
  /\ bio_jobs_counter \in [Worker -> [Kind -> Nat]]
  /\ bio_comp_list \in Seq(JobType) /\ tmp_list \in Seq(JobType) /\ notified \in Seq(JobType)
  /\ job_comp_pipe \in 0..PipeSize
  /\ worker_pc \in [Worker -> {"start", "check", "wait", "process", "pipe_write", "relock",
                               "remove"}]
  /\ main_pc \in {"loop", "submit", "submit_locked", "drain", "drain_locked", "drain_wait",
                  "pipe_read", "take_list", "callbacks"}
  /\ target \in Worker /\ next \in Nat

\* bioPendingJobsOfType counts the jobs whose effects may not be visible yet:
\* a job in service is counted until the worker has removed it.
PendingExact ==
  \A w \in Worker : \A k \in Kind :
    bioPendingJobsOfType(w, k) = Cardinality({i \in 1..Len(bio_jobs[w]) : bio_jobs[w][i].kind = k})

\* The condition variable serves two purposes with one waiter woken per signal,
\* yet no wakeup is lost: outside the critical sections the worker sleeps only
\* on an empty queue and bioDrainWorker only on a queue that is not empty.
NoLostWakeup ==
  \A w \in Worker : bio_mutex[w] = "free" =>
    /\ "worker" \in bio_newjob_cond[w] => bio_jobs[w] = <<>>
    /\ "main" \in bio_newjob_cond[w] => bio_jobs[w] # <<>>

\* A response in bio_comp_list has woken, or will wake, the event loop, also
\* when the pipe was full and the byte was dropped.
CompletionSignalled ==
  bio_comp_list # <<>> =>
    \/ job_comp_pipe > 0 \/ main_pc \in {"pipe_read", "take_list"}
    \/ \E w \in Worker : worker_pc[w] = "pipe_write"

\* The callback of a completion request finds every job that was given to the
\* worker before the request executed and out of the queue.
CompletionAfterJobs ==
  \A j \in Elements(notified) \cup Elements(tmp_list) \cup Elements(bio_comp_list) :
    \A i \in 1..Len(bio_jobs[j.worker]) : bio_jobs[j.worker][i].id >= j.id

Queue == INSTANCE BioQueue WITH
           queue <- bio_jobs,
           served <- [w \in Worker |-> IF worker_pc[w] \in {"pipe_write", "relock", "remove"}
                                         THEN "yes" ELSE "no"],
           due <- Elements(bio_comp_list) \cup Elements(tmp_list),
           draining <- IF main_pc \in {"drain", "drain_locked", "drain_wait"} THEN {target} ELSE {}

\* The threads, locks and the pipe implement the abstract queue: jobs are
\* executed once and in order, a drain returns on an empty queue, and each
\* callback runs once.
ImplementsQueue == Queue!Spec

\* Every job is executed and removed.
JobsServed == \A n \in 1..MaxJobs :
  (next > n) ~> (\A w \in Worker : \A i \in 1..Len(bio_jobs[w]) : bio_jobs[w][i].id # n)

\* bioDrainWorker returns.
DrainReturns == (main_pc = "drain") ~> (main_pc = "loop")

\* Every completion request is answered by its callback.
CompletionsNotified ==
  \A n \in 1..MaxJobs : \A w \in Worker :
    (\E i \in 1..Len(bio_jobs[w]) : bio_jobs[w][i].id = n /\ bio_jobs[w][i].kind = "comp")
      ~> (\E i \in 1..Len(notified) : notified[i].id = n)

=============================================================================
