----------------------------- MODULE BioProofs ------------------------------
(***************************************************************************)
(* Proofs about bio.c for any set of workers, any number of jobs and any   *)
(* size of the pipe: its safety properties, and that the threads implement *)
(* the abstract queue.                                                     *)
(***************************************************************************)
EXTENDS Bio, FiniteSetTheorems, TLAPS

Serving == {"process", "pipe_write", "relock", "remove"}
Served  == {"pipe_write", "relock", "remove"}
Comps   == Elements(bio_comp_list) \cup Elements(tmp_list) \cup Elements(notified)

\* Who holds a mutex, who sleeps, and on what: a thread sleeps only where the
\* code waits, the worker only on an empty queue, the main thread only on one
\* that is not empty; a job in service is in the queue.
LockOf(w) ==
  /\ bio_mutex[w] = "worker" <=> worker_pc[w] \in {"check", "remove"}
  /\ bio_mutex[w] = "main" <=> target = w /\ main_pc \in {"submit_locked", "drain_locked"}
  /\ "worker" \in bio_newjob_cond[w] => worker_pc[w] = "wait" /\ bio_jobs[w] = <<>>
  /\ "main" \in bio_newjob_cond[w] => target = w /\ main_pc = "drain_wait" /\ bio_jobs[w] # <<>>
  /\ worker_pc[w] \in Serving => bio_jobs[w] # <<>>
LockInv == \A w \in Worker : LockOf(w)

\* The main thread has responses in hand exactly while it runs callbacks.
MainInv ==
  /\ main_pc = "callbacks" <=> tmp_list # <<>>
  /\ main_pc \in {"submit", "submit_locked"} => next <= MaxJobs

\* The jobs of a queue are its worker's, numbered in the order of submission.
OrderOf(w) ==
  \A i \in 1..Len(bio_jobs[w]) :
    /\ bio_jobs[w][i].worker = w /\ bio_jobs[w][i].id < next
    /\ \A j \in 1..Len(bio_jobs[w]) : i < j => bio_jobs[w][i].id < bio_jobs[w][j].id
OrderInv == \A w \in Worker : OrderOf(w)

\* A response is older than every job of its worker, except its own request
\* until the worker has removed it.
Older(c) ==
  /\ c.id < next
  /\ \A i \in 1..Len(bio_jobs[c.worker]) :
       /\ c.id <= bio_jobs[c.worker][i].id
       /\ worker_pc[c.worker] \notin Served => c.id < bio_jobs[c.worker][i].id
CompInv == \A c \in Comps : Older(c)

\* No response is listed twice.
OnceInv ==
  /\ \A i, j \in 1..Len(bio_comp_list) : i # j => bio_comp_list[i] # bio_comp_list[j]
  /\ \A i, j \in 1..Len(tmp_list) : i # j => tmp_list[i] # tmp_list[j]
  /\ Elements(bio_comp_list) \cap Elements(tmp_list) = {}

BioInv == /\ TypeOK /\ PendingExact /\ LockInv /\ MainInv
          /\ OrderInv /\ CompInv /\ OnceInv /\ CompletionSignalled

(***************************************************************************)
(* Queues.                                                                 *)
(***************************************************************************)

OfKind(s, k) == {i \in 1..Len(s) : s[i].kind = k}

\* A queue with one more job: the new one is last, the others keep their place.
LEMMA AppendJob ==
  ASSUME NEW s \in Seq(JobType), NEW e \in JobType
  PROVE  /\ Append(s, e) \in Seq(JobType) /\ Len(s) \in Nat
         /\ Len(Append(s, e)) = Len(s) + 1 /\ Append(s, e) # <<>>
         /\ Append(s, e)[Len(s) + 1] = e
         /\ \A i \in 1..Len(s) : Append(s, e)[i] = s[i]
  OBVIOUS

\* Where a job of the longer queue comes from.
LEMMA AppendIndex ==
  ASSUME NEW s \in Seq(JobType), NEW e \in JobType, NEW i \in 1..Len(Append(s, e))
  PROVE  \/ i \in 1..Len(s) /\ Append(s, e)[i] = s[i]
         \/ i = Len(s) + 1 /\ Append(s, e)[i] = e
<1>1. Len(s) \in Nat /\ i \in 1..(Len(s) + 1)
  BY AppendJob, Zenon
<1>2. i \in 1..Len(s) \/ i = Len(s) + 1
  BY <1>1
<1> QED
  BY <1>2, AppendJob

\* A queue without its head: the others move up.
LEMMA RemoveJob ==
  ASSUME NEW s \in Seq(JobType), s # <<>>
  PROVE  /\ Tail(s) \in Seq(JobType) /\ Head(s) = s[1] /\ Head(s) \in JobType
         /\ Len(s) \in Nat /\ Len(s) >= 1 /\ Len(Tail(s)) = Len(s) - 1
         /\ \A i \in 1..Len(Tail(s)) : i + 1 \in 1..Len(s) /\ Tail(s)[i] = s[i + 1]
  OBVIOUS

\* Where a job of the shorter queue comes from.
LEMMA TailIndex ==
  ASSUME NEW s \in Seq(JobType), s # <<>>
  PROVE  /\ 1 \in 1..Len(s)
         /\ \A i \in 1..Len(Tail(s)) :
              i \in Nat /\ 1 < i + 1 /\ i + 1 \in 1..Len(s) /\ Tail(s)[i] = s[i + 1]
  BY RemoveJob

\* What a list of responses holds after one is added.
LEMMA ElementsAppend ==
  ASSUME NEW s \in Seq(JobType), NEW e \in JobType
  PROVE  Elements(Append(s, e)) = Elements(s) \cup {e}
<1>1. \A i \in 1..Len(Append(s, e)) : i \in 1..Len(s) \/ i = Len(s) + 1
  BY AppendJob
<1>2. 1..Len(s) \subseteq 1..Len(Append(s, e)) /\ Len(s) + 1 \in 1..Len(Append(s, e))
  BY AppendJob
<1> QED
  BY <1>1, <1>2, AppendJob DEF Elements

\* What it holds is its head and the rest.
LEMMA ElementsTail ==
  ASSUME NEW s \in Seq(JobType), s # <<>>
  PROVE  Elements(s) = {Head(s)} \cup Elements(Tail(s))
<1>1. \A i \in 1..Len(s) : i = 1 \/ (i - 1 \in 1..Len(Tail(s)) /\ Tail(s)[i - 1] = s[i])
  BY RemoveJob
<1>2. \A i \in 1..Len(Tail(s)) : i + 1 \in 1..Len(s) /\ Tail(s)[i] = s[i + 1]
  BY RemoveJob, Zenon
<1>3. 1 \in 1..Len(s) /\ Head(s) = s[1]
  BY RemoveJob
<1> QED
  BY <1>1, <1>2, <1>3 DEF Elements

\* The pending jobs of a kind are finite in number.
LEMMA CountFinite ==
  ASSUME NEW s \in Seq(JobType), NEW k
  PROVE  IsFiniteSet(OfKind(s, k)) /\ Cardinality(OfKind(s, k)) \in Nat
<1>1. Len(s) \in Nat
  OBVIOUS
<1>2. IsFiniteSet(1..Len(s))
  BY <1>1, FS_Interval
<1>3. OfKind(s, k) \subseteq 1..Len(s)
  BY Zenon DEF OfKind
<1> QED
  BY <1>2, <1>3, FS_Subset, FS_CardinalityType, Zenon

\* Submitting a job adds one to the count of its kind.
LEMMA CountAppend ==
  ASSUME NEW s \in Seq(JobType), NEW e \in JobType, NEW k
  PROVE  Cardinality(OfKind(Append(s, e), k))
           = Cardinality(OfKind(s, k)) + (IF e.kind = k THEN 1 ELSE 0)
<1>1. \A i : i \in 1..Len(Append(s, e)) <=> i \in 1..Len(s) \/ i = Len(s) + 1
  BY AppendJob
<1>2. CASE e.kind = k
  <2>1. OfKind(Append(s, e), k) = OfKind(s, k) \cup {Len(s) + 1}
    BY <1>1, <1>2, AppendJob, Zenon DEF OfKind
  <2>2. Len(s) + 1 \notin OfKind(s, k)
    BY AppendJob DEF OfKind
  <2>3. IsFiniteSet(OfKind(s, k)) /\ Cardinality(OfKind(s, k)) \in Nat
    BY CountFinite, Zenon
  <2>4. Cardinality(OfKind(s, k) \cup {Len(s) + 1}) = Cardinality(OfKind(s, k)) + 1
    BY <2>2, <2>3, FS_AddElement, Zenon
  <2> QED
    BY <1>2, <2>1, <2>4, Zenon
<1>3. CASE e.kind # k
  <2>1. OfKind(Append(s, e), k) = OfKind(s, k)
    BY <1>1, <1>3, AppendJob DEF OfKind
  <2> QED
    BY <1>3, <2>1, CountFinite
<1> QED
  BY <1>2, <1>3, Zenon

\* Removing the head takes one from the count of its kind.
LEMMA CountTail ==
  ASSUME NEW s \in Seq(JobType), s # <<>>, NEW k
  PROVE  Cardinality(OfKind(s, k))
           = Cardinality(OfKind(Tail(s), k)) + (IF Head(s).kind = k THEN 1 ELSE 0)
<1> DEFINE R == OfKind(s, k) \ {1}
           T == OfKind(Tail(s), k)
           f == [i \in T |-> i + 1]
<1>1. \A i \in T : i \in Nat /\ i + 1 \in R
  BY RemoveJob DEF OfKind
<1>2. \A i \in R : i - 1 \in T /\ (i - 1) + 1 = i
  <2>1. \A i \in R : i \in 2..Len(s) /\ i - 1 \in 1..Len(Tail(s)) /\ (i - 1) + 1 = i /\ s[i].kind = k
    BY RemoveJob DEF OfKind
  <2>2. \A i \in R : Tail(s)[i - 1] = s[i]
    BY <2>1, RemoveJob
  <2> QED
    BY <2>1, <2>2, Zenon DEF OfKind
<1>3. f \in Bijection(T, R)
  <2>1. f \in [T -> R]
    BY <1>1, Zenon
  <2>2. \A a, b \in T : f[a] = f[b] => a = b
    BY <1>1
  <2>3. \A r \in R : \E a \in T : f[a] = r
    BY <1>2, Zenon
  <2> QED
    BY <2>1, <2>2, <2>3, Zenon DEF Bijection, Injection, Surjection, IsInjective
<1>4. ExistsBijection(T, R)
  BY <1>3, Zenon DEF ExistsBijection
<1>5. IsFiniteSet(T) /\ Tail(s) \in Seq(JobType)
  BY CountFinite, RemoveJob, Zenon
<1>6. Cardinality(R) = Cardinality(T) /\ IsFiniteSet(R)
  BY <1>4, <1>5, FS_Bijection, Zenon
<1>7. CASE Head(s).kind = k
  <2>1. OfKind(s, k) = R \cup {1}
    BY <1>7, RemoveJob DEF OfKind
  <2>2. Cardinality(T) \in Nat
    BY <1>5, CountFinite, Zenon
  <2>3. Cardinality(OfKind(s, k)) = Cardinality(R) + 1
    BY <2>1, <1>6, FS_AddElement, Zenon
  <2> QED
    BY <1>6, <1>7, <2>3, Zenon
<1>8. CASE Head(s).kind # k
  <2>1. OfKind(s, k) = R
    BY <1>8, RemoveJob, Zenon DEF OfKind
  <2>2. Cardinality(T) \in Nat
    BY <1>5, CountFinite, Zenon
  <2>3. Cardinality(OfKind(s, k)) = Cardinality(T)
    BY <1>6, <2>1, Zenon
  <2> QED
    BY <1>8, <2>2, <2>3
<1> QED
  BY <1>7, <1>8, Zenon

(***************************************************************************)
(* Types and counts.                                                       *)
(***************************************************************************)

\* A new job has the type of jobs.
LEMMA NewJobType ==
  ASSUME TypeOK, NEW w \in Worker, NEW k \in Kind
  PROVE  NewJob(w, k) \in JobType
  BY Zenon DEF TypeOK, NewJob, JobType

\* The jobs a worker serves have the type of jobs.
LEMMA ServedJob ==
  ASSUME TypeOK, LockInv, NEW w \in Worker, worker_pc[w] \in Serving
  PROVE  /\ bio_jobs[w] \in Seq(JobType) /\ bio_jobs[w] # <<>>
         /\ Job(w) \in JobType /\ Job(w).kind \in Kind
<1>1. bio_jobs[w] \in Seq(JobType) /\ bio_jobs[w] # <<>>
  BY Zenon DEF TypeOK, LockInv, LockOf
<1>2. Head(bio_jobs[w]) \in JobType
  BY <1>1, RemoveJob, Zenon
<1> QED
  BY <1>1, <1>2, Zenon DEF Job, JobType

\* The counter of the kind of a job in service is positive.
LEMMA CounterPositive ==
  ASSUME TypeOK, LockInv, PendingExact, NEW w \in Worker, worker_pc[w] \in Serving
  PROVE  bio_jobs_counter[w][Job(w).kind] \in Nat /\ bio_jobs_counter[w][Job(w).kind] >= 1
<1>1. bio_jobs[w] \in Seq(JobType) /\ bio_jobs[w] # <<>> /\ Job(w).kind \in Kind
  BY ServedJob, Zenon
<1>2. bio_jobs_counter[w][Job(w).kind] = Cardinality(OfKind(bio_jobs[w], Job(w).kind))
  BY <1>1, Zenon DEF PendingExact, bioPendingJobsOfType, OfKind
<1>3. Cardinality(OfKind(bio_jobs[w], Job(w).kind))
        = Cardinality(OfKind(Tail(bio_jobs[w]), Job(w).kind)) + 1
  BY <1>1, CountTail, Zenon DEF Job
<1>4. Cardinality(OfKind(Tail(bio_jobs[w]), Job(w).kind)) \in Nat
  BY <1>1, RemoveJob, CountFinite, Zenon
<1> QED
  BY <1>2, <1>3, <1>4

\* Locking, unlocking, sleeping and waking keep the types of the locks.
LEMMA TypeLocks ==
  ASSUME TypeOK, NEW w \in Worker
  PROVE  /\ \A t \in {"worker", "main"} :
              /\ pthread_mutex_lock(w, t) => bio_mutex' \in [Worker -> {"free", "worker", "main"}]
              /\ pthread_cond_wait(w, t) =>
                   bio_newjob_cond' \in [Worker -> SUBSET {"worker", "main"}]
              /\ SpuriousWakeup(w, t) =>
                   bio_newjob_cond' \in [Worker -> SUBSET {"worker", "main"}]
         /\ pthread_mutex_unlock(w) => bio_mutex' \in [Worker -> {"free", "worker", "main"}]
         /\ pthread_cond_signal(w) => bio_newjob_cond' \in [Worker -> SUBSET {"worker", "main"}]
<1>1. /\ bio_mutex \in [Worker -> {"free", "worker", "main"}]
      /\ bio_newjob_cond \in [Worker -> SUBSET {"worker", "main"}]
  BY Zenon DEF TypeOK
<1>2. \A t \in {"worker", "main"} :
        /\ pthread_mutex_lock(w, t) => bio_mutex' \in [Worker -> {"free", "worker", "main"}]
        /\ pthread_cond_wait(w, t) => bio_newjob_cond' \in [Worker -> SUBSET {"worker", "main"}]
  BY <1>1 DEF pthread_mutex_lock, pthread_cond_wait
<1>3. \A t \in {"worker", "main"} : SpuriousWakeup(w, t) =>
        bio_newjob_cond' \in [Worker -> SUBSET {"worker", "main"}]
  BY <1>1 DEF SpuriousWakeup
<1>4. pthread_mutex_unlock(w) => bio_mutex' \in [Worker -> {"free", "worker", "main"}]
  BY <1>1, Zenon DEF pthread_mutex_unlock
<1>5. pthread_cond_signal(w) => bio_newjob_cond' \in [Worker -> SUBSET {"worker", "main"}]
  BY <1>1, Zenon DEF pthread_cond_signal
<1> QED
  BY <1>2, <1>3, <1>4, <1>5, Zenon

\* A step of the main thread keeps the types.
LEMMA TypeMain ==
  ASSUME TypeOK, LockInv, MainInv, MainStep
  PROVE  TypeOK'
<1> USE BioAssumption
<1>0. target \in Worker
  BY Zenon DEF TypeOK
<1>1. CASE MainLock
  BY <1>0, <1>1, TypeLocks, Zenon DEF TypeOK, MainLock, queueVars, compVars
<1>2. CASE MainWakes
  BY <1>0, <1>2, TypeLocks, Zenon DEF TypeOK, MainWakes, queueVars, compVars
<1>3. CASE bioDrainWorker
  <2>1. bio_mutex' \in [Worker -> {"free", "worker", "main"}]
    BY <1>0, <1>3, TypeLocks, Zenon DEF bioDrainWorker, pthread_cond_wait
  <2>2. bio_newjob_cond' \in [Worker -> SUBSET {"worker", "main"}]
    BY <1>0, <1>3, TypeLocks, Zenon DEF TypeOK, bioDrainWorker
  <2> QED
    BY <1>3, <2>1, <2>2 DEF TypeOK, bioDrainWorker, queueVars, compVars
<1>4. CASE TakeCompList
  BY <1>4 DEF TypeOK, TakeCompList, lockVars, queueVars
<1>5. CASE Callback
  <2>1. tmp_list \in Seq(JobType) /\ tmp_list # <<>> /\ notified \in Seq(JobType)
    BY <1>5, Zenon DEF TypeOK, MainInv, Callback
  <2>2. tmp_list' \in Seq(JobType) /\ notified' \in Seq(JobType)
    BY <1>5, <2>1, RemoveJob, AppendJob, Zenon DEF Callback
  <2> QED
    BY <1>5, <2>2, Zenon DEF TypeOK, Callback, lockVars, queueVars
<1>6. CASE PipeRead
  BY <1>6 DEF TypeOK, PipeRead, lockVars, queueVars
<1>7. ASSUME NEW k \in Kind, bioSubmitJob(k)
      PROVE  TypeOK'
  <2>1. bio_jobs' \in [Worker -> Seq(JobType)]
    BY <1>0, <1>7, NewJobType, AppendJob, Zenon DEF TypeOK, bioSubmitJob
  <2>2. bio_jobs_counter' \in [Worker -> [Kind -> Nat]]
    BY <1>0, <1>7 DEF TypeOK, bioSubmitJob
  <2>3. /\ bio_mutex' \in [Worker -> {"free", "worker", "main"}]
        /\ bio_newjob_cond' \in [Worker -> SUBSET {"worker", "main"}]
    BY <1>0, <1>7, TypeLocks, Zenon DEF bioSubmitJob
  <2> QED
    BY <1>7, <2>1, <2>2, <2>3 DEF TypeOK, bioSubmitJob, compVars
<1> QED
  BY <1>1, <1>2, <1>3, <1>4, <1>5, <1>6, <1>7, Zenon DEF MainStep

\* A step of a worker keeps the types.
LEMMA TypeWorker ==
  ASSUME TypeOK, LockInv, PendingExact, NEW w \in Worker, WorkerStep(w)
  PROVE  TypeOK'
<1> USE BioAssumption
<1>1. CASE WorkerLock(w)
  BY <1>1, TypeLocks, Zenon DEF TypeOK, WorkerLock, queueVars, compVars, mainVars
<1>2. CASE WorkerCheck(w)
  <2>1. bio_mutex' \in [Worker -> {"free", "worker", "main"}]
    BY <1>2, TypeLocks, Zenon DEF WorkerCheck, pthread_cond_wait
  <2>2. bio_newjob_cond' \in [Worker -> SUBSET {"worker", "main"}]
    BY <1>2, TypeLocks, Zenon DEF TypeOK, WorkerCheck
  <2> QED
    BY <1>2, <2>1, <2>2, Zenon DEF TypeOK, WorkerCheck, queueVars, compVars, mainVars
<1>3. CASE ProcessWork(w)
  BY <1>3, Zenon DEF TypeOK, ProcessWork, lockVars, queueVars, compVars, mainVars
<1>4. CASE ProcessComp(w)
  <2>1. Job(w) \in JobType /\ bio_comp_list \in Seq(JobType)
    BY <1>4, ServedJob, Zenon DEF ProcessComp, Serving, TypeOK
  <2>2. bio_comp_list' \in Seq(JobType)
    BY <1>4, <2>1, AppendJob, Zenon DEF ProcessComp
  <2> QED
    BY <1>4, <2>2, Zenon DEF TypeOK, ProcessComp, lockVars, queueVars, mainVars
<1>5. CASE PipeWrite(w)
  BY <1>5 DEF TypeOK, PipeWrite, lockVars, queueVars, mainVars
<1>6. CASE WorkerRemove(w)
  <2>0. worker_pc[w] \in Serving
    BY <1>6, Zenon DEF WorkerRemove, Serving
  <2>1. bio_jobs' \in [Worker -> Seq(JobType)]
    BY <1>6, <2>0, ServedJob, RemoveJob, Zenon DEF TypeOK, WorkerRemove
  <2>2. bio_jobs_counter' \in [Worker -> [Kind -> Nat]]
    <3>1. Job(w).kind \in Kind /\ bio_jobs_counter[w][Job(w).kind] - 1 \in Nat
      BY <2>0, ServedJob, CounterPositive
    <3> QED
      BY <1>6, <3>1, Zenon DEF TypeOK, WorkerRemove
  <2>3. bio_newjob_cond' \in [Worker -> SUBSET {"worker", "main"}]
    BY <1>6, TypeLocks DEF WorkerRemove
  <2> QED
    BY <1>6, <2>1, <2>2, <2>3, Zenon DEF TypeOK, WorkerRemove, compVars, mainVars
<1> QED
  BY <1>1, <1>2, <1>3, <1>4, <1>5, <1>6, Zenon DEF WorkerStep

\* The counters stay exact: they change with the queue, under its mutex.
LEMMA PendingStep ==
  ASSUME TypeOK, LockInv, PendingExact, [Next]_vars
  PROVE  PendingExact'
<1>1. CASE UNCHANGED queueVars
  BY <1>1, Zenon DEF PendingExact, bioPendingJobsOfType, queueVars
<1>2. ASSUME NEW k \in Kind, bioSubmitJob(k)
      PROVE  PendingExact'
  <2> SUFFICES ASSUME NEW w \in Worker, NEW l \in Kind
               PROVE  bio_jobs_counter'[w][l] = Cardinality(OfKind(bio_jobs'[w], l))
    BY Zenon DEF PendingExact, bioPendingJobsOfType, OfKind
  <2>1. bio_jobs_counter[w][l] = Cardinality(OfKind(bio_jobs[w], l))
    BY Zenon DEF PendingExact, bioPendingJobsOfType, OfKind
  <2>2. CASE w # target
    BY <1>2, <2>1, <2>2, Zenon DEF bioSubmitJob, TypeOK
  <2>3. CASE w = target
    <3>1. bio_jobs'[w] = Append(bio_jobs[w], NewJob(w, k)) /\ NewJob(w, k).kind = k
      BY <1>2, <2>3, Zenon DEF bioSubmitJob, TypeOK, NewJob
    <3>2. bio_jobs_counter'[w][l] = bio_jobs_counter[w][l] + (IF k = l THEN 1 ELSE 0)
      BY <1>2, <2>3 DEF bioSubmitJob, TypeOK
    <3>3. bio_jobs[w] \in Seq(JobType) /\ NewJob(w, k) \in JobType
      BY NewJobType, <1>2, Zenon DEF TypeOK
    <3>4. Cardinality(OfKind(bio_jobs'[w], l))
            = Cardinality(OfKind(bio_jobs[w], l)) + (IF k = l THEN 1 ELSE 0)
      BY <3>1, <3>3, CountAppend
    <3> QED
      BY <2>1, <3>2, <3>4, Zenon
  <2> QED
    BY <2>2, <2>3, Zenon
<1>3. ASSUME NEW v \in Worker, WorkerRemove(v)
      PROVE  PendingExact'
  <2> SUFFICES ASSUME NEW w \in Worker, NEW l \in Kind
               PROVE  bio_jobs_counter'[w][l] = Cardinality(OfKind(bio_jobs'[w], l))
    BY Zenon DEF PendingExact, bioPendingJobsOfType, OfKind
  <2>1. bio_jobs_counter[w][l] = Cardinality(OfKind(bio_jobs[w], l))
    BY Zenon DEF PendingExact, bioPendingJobsOfType, OfKind
  <2>2. CASE w # v
    BY <1>3, <2>1, <2>2, Zenon DEF WorkerRemove, TypeOK
  <2>3. CASE w = v
    <3>0. worker_pc[w] \in Serving
      BY <1>3, <2>3, Zenon DEF WorkerRemove, Serving
    <3>1. bio_jobs[w] \in Seq(JobType) /\ bio_jobs[w] # <<>> /\ Job(w).kind \in Kind
      BY <3>0, ServedJob, Zenon
    <3>2. bio_jobs'[w] = Tail(bio_jobs[w])
      BY <1>3, <2>3, Zenon DEF WorkerRemove, TypeOK
    <3>3. bio_jobs_counter'[w][l]
            = IF Job(w).kind = l THEN bio_jobs_counter[w][l] - 1 ELSE bio_jobs_counter[w][l]
      BY <1>3, <2>3, <3>1, Zenon DEF WorkerRemove, TypeOK
    <3>4. Cardinality(OfKind(bio_jobs[w], l))
            = Cardinality(OfKind(bio_jobs'[w], l)) + (IF Job(w).kind = l THEN 1 ELSE 0)
      BY <3>1, <3>2, CountTail, Zenon DEF Job
    <3>5. Cardinality(OfKind(bio_jobs'[w], l)) \in Nat
      BY <3>1, <3>2, RemoveJob, CountFinite, Zenon
    <3> QED
      BY <2>1, <3>3, <3>4, <3>5
  <2> QED
    BY <2>2, <2>3, Zenon
<1> QED
  BY <1>1, <1>2, <1>3, Zenon DEF Next, vars, MainStep, WorkerStep, MainLock, MainWakes, bioDrainWorker,
    TakeCompList, Callback, PipeRead, WorkerLock, WorkerCheck, ProcessWork, ProcessComp, PipeWrite,
    BeginCall, SpuriousWakeup

(***************************************************************************)
(* Locks and wakeups.                                                      *)
(***************************************************************************)

\* A signal wakes the only thread that sleeps.
LEMMA SignalWakes ==
  ASSUME TypeOK, NEW w \in Worker, NEW t \in {"worker", "main"}, t \notin bio_newjob_cond[w],
         pthread_cond_signal(w)
  PROVE  /\ bio_newjob_cond'[w] = {}
         /\ \A v \in Worker \ {w} : bio_newjob_cond'[v] = bio_newjob_cond[v]
<1>1. bio_newjob_cond \in [Worker -> SUBSET {"worker", "main"}]
  BY Zenon DEF TypeOK
<1>2. CASE bio_newjob_cond[w] = {} /\ UNCHANGED bio_newjob_cond
  BY <1>2, Zenon
<1>3. ASSUME NEW u \in bio_newjob_cond[w],
             bio_newjob_cond' = [bio_newjob_cond EXCEPT ![w] = @ \ {u}]
      PROVE  /\ bio_newjob_cond'[w] = {}
             /\ \A v \in Worker \ {w} : bio_newjob_cond'[v] = bio_newjob_cond[v]
  <2>1. bio_newjob_cond[w] = {u}
    BY <1>1, <1>3
  <2> QED
    BY <1>1, <1>3, <2>1, Zenon
<1> QED
  BY <1>2, <1>3, Zenon DEF pthread_cond_signal

\* The steps of the main thread keep the locking discipline.
LEMMA LockMain ==
  ASSUME TypeOK, LockInv, MainStep
  PROVE  LockInv'
<1> SUFFICES ASSUME NEW w \in Worker PROVE LockOf(w)'
  BY Zenon DEF LockInv
<1>0. LockOf(w) /\ LockOf(target) /\ target \in Worker
  BY Zenon DEF LockInv, TypeOK
<1>1. CASE MainLock
  BY <1>0, <1>1, Zenon DEF LockOf, TypeOK, MainLock, pthread_mutex_lock, queueVars
<1>2. CASE MainWakes
  BY <1>0, <1>2, Zenon DEF LockOf, TypeOK, MainWakes, pthread_mutex_lock, queueVars
<1>3. CASE bioDrainWorker
  BY <1>0, <1>3 DEF LockOf, TypeOK, bioDrainWorker, pthread_cond_wait, pthread_mutex_unlock, queueVars
<1>4. CASE TakeCompList \/ Callback \/ PipeRead
  BY <1>0, <1>4, Zenon DEF LockOf, TakeCompList, Callback, PipeRead, lockVars, queueVars
<1>5. ASSUME NEW k \in Kind, bioSubmitJob(k)
      PROVE  LockOf(w)'
  <2>1. CASE w # target
    BY <1>0, <1>5, <2>1, Zenon DEF LockOf, TypeOK, bioSubmitJob, pthread_mutex_unlock, pthread_cond_signal
  <2>2. CASE w = target
    <3>1. bio_jobs'[w] # <<>>
      <4>1. bio_jobs \in [Worker -> Seq(JobType)] /\ bio_jobs[w] \in Seq(JobType)
        BY Zenon DEF TypeOK
      <4>2. bio_jobs'[w] = Append(bio_jobs[w], NewJob(w, k))
        BY <1>5, <2>2, <4>1, Zenon DEF bioSubmitJob
      <4>3. NewJob(w, k) \in JobType
        BY <1>5, NewJobType, Zenon
      <4>4. Append(bio_jobs[w], NewJob(w, k)) # <<>>
        BY <4>1, <4>3, AppendJob, ZenonT(30)
      <4> QED
        BY <4>2, <4>4, Zenon
    <3>2. "main" \notin bio_newjob_cond[w] /\ bio_newjob_cond[w] \subseteq {"worker", "main"}
      BY <1>0, <1>5, <2>2, Zenon DEF LockOf, TypeOK, bioSubmitJob
    <3>3. bio_newjob_cond'[w] = {}
      BY <1>5, <2>2, <3>2, SignalWakes, Zenon DEF bioSubmitJob
    <3>4. bio_mutex'[w] = "free" /\ bio_mutex[w] = "main" /\ worker_pc' = worker_pc /\ main_pc' = "loop"
      BY <1>0, <1>5, <2>2, Zenon DEF LockOf, TypeOK, bioSubmitJob, pthread_mutex_unlock
    <3> QED
      BY <1>0, <3>1, <3>3, <3>4, Zenon DEF LockOf
  <2> QED
    BY <2>1, <2>2, Zenon
<1> QED
  BY <1>1, <1>2, <1>3, <1>4, <1>5, Zenon DEF MainStep

\* So do the steps of a worker.
LEMMA LockWorker ==
  ASSUME TypeOK, LockInv, NEW v \in Worker, WorkerStep(v)
  PROVE  LockInv'
<1> SUFFICES ASSUME NEW w \in Worker PROVE LockOf(w)'
  BY Zenon DEF LockInv
<1> USE DEF Serving
<1>0. LockOf(w) /\ LockOf(v)
  BY Zenon DEF LockInv
<1>1. CASE WorkerLock(v)
  BY <1>0, <1>1, Zenon DEF LockOf, TypeOK, WorkerLock, pthread_mutex_lock, queueVars, mainVars
<1>2. CASE WorkerCheck(v)
  <2>1. CASE w # v
    BY <1>0, <1>2, <2>1 DEF LockOf, TypeOK, WorkerCheck, pthread_cond_wait, pthread_mutex_unlock,
      queueVars, mainVars
  <2>2. CASE w = v /\ bio_jobs[v] = <<>>
    BY <1>0, <1>2, <2>2 DEF LockOf, TypeOK, WorkerCheck, pthread_cond_wait, pthread_mutex_unlock,
      queueVars, mainVars
  <2>3. CASE w = v /\ bio_jobs[v] # <<>>
    BY <1>0, <1>2, <2>3, Zenon DEF LockOf, TypeOK, WorkerCheck, pthread_mutex_unlock, queueVars, mainVars
  <2> QED
    BY <2>1, <2>2, <2>3, Zenon
<1>3. CASE ProcessWork(v) \/ ProcessComp(v) \/ PipeWrite(v)
  BY <1>0, <1>3 DEF LockOf, TypeOK, ProcessWork, ProcessComp, PipeWrite, lockVars, queueVars, mainVars
<1>4. CASE WorkerRemove(v)
  <2>1. CASE w # v
    BY <1>0, <1>4, <2>1, Zenon DEF LockOf, TypeOK, WorkerRemove, pthread_cond_signal, mainVars
  <2>2. CASE w = v
    <3>1. "worker" \notin bio_newjob_cond[w] /\ bio_newjob_cond[w] \subseteq {"worker", "main"}
      BY <1>0, <1>4, <2>2, Zenon DEF LockOf, TypeOK, WorkerRemove
    <3>2. bio_newjob_cond'[w] = {}
      BY <1>4, <2>2, <3>1, SignalWakes, Zenon DEF WorkerRemove
    <3>3. /\ worker_pc'[w] = "check" /\ worker_pc[w] = "remove"
          /\ UNCHANGED <<bio_mutex, main_pc, target>>
      BY <1>4, <2>2, Zenon DEF TypeOK, WorkerRemove, mainVars
    <3> QED
      BY <1>0, <3>2, <3>3, Zenon DEF LockOf
  <2> QED
    BY <2>1, <2>2, Zenon
<1> QED
  BY <1>1, <1>2, <1>3, <1>4, Zenon DEF WorkerStep

\* A call that begins and a spurious wakeup do not disturb it.
LEMMA LockOther ==
  ASSUME TypeOK, LockInv, NEW v \in Worker,
         \/ \E call \in {"submit", "drain"} : BeginCall(v, call)
         \/ \E t \in {"worker", "main"} : SpuriousWakeup(v, t)
  PROVE  LockInv'
<1> SUFFICES ASSUME NEW w \in Worker PROVE LockOf(w)'
  BY Zenon DEF LockInv
<1>0. LockOf(w)
  BY Zenon DEF LockInv
<1>1. ASSUME NEW call \in {"submit", "drain"}, BeginCall(v, call)
      PROVE  LockOf(w)'
  BY <1>0, <1>1, Zenon DEF LockOf, BeginCall, lockVars, queueVars
<1>2. ASSUME NEW t \in {"worker", "main"}, SpuriousWakeup(v, t)
      PROVE  LockOf(w)'
  BY <1>0, <1>2, Zenon DEF LockOf, TypeOK, SpuriousWakeup, queueVars, mainVars
<1> QED
  BY <1>1, <1>2, Zenon

(***************************************************************************)
(* Order of jobs and responses.                                            *)
(***************************************************************************)

\* The main thread's place in the code says what it has in hand.
LEMMA MainStepInv ==
  ASSUME TypeOK, MainInv, [Next]_vars
  PROVE  MainInv'
<1>1. CASE MainStep
  <2>1. ASSUME NEW k \in Kind, bioSubmitJob(k) PROVE MainInv'
    BY <2>1, Zenon DEF MainInv, bioSubmitJob, compVars
  <2>2. CASE Callback \/ TakeCompList
    BY <2>2, Zenon DEF MainInv, Callback, TakeCompList
  <2>3. CASE MainLock \/ MainWakes \/ bioDrainWorker \/ PipeRead
    BY <2>3, Zenon DEF MainInv, MainLock, MainWakes, bioDrainWorker, PipeRead, compVars
  <2> QED
    BY <1>1, <2>1, <2>2, <2>3, Zenon DEF MainStep
<1>2. ASSUME NEW w \in Worker, WorkerStep(w) PROVE MainInv'
  BY <1>2, Zenon DEF MainInv, WorkerStep, WorkerLock, WorkerCheck, ProcessWork, ProcessComp, PipeWrite,
    WorkerRemove, compVars, mainVars
<1>3. ASSUME NEW w \in Worker, NEW call \in {"submit", "drain"}, BeginCall(w, call) PROVE MainInv'
  BY <1>3, Zenon DEF MainInv, BeginCall, compVars
<1>4. ASSUME NEW w \in Worker, NEW t \in {"worker", "main"}, SpuriousWakeup(w, t) PROVE MainInv'
  BY <1>4, Zenon DEF MainInv, SpuriousWakeup, compVars, mainVars
<1>5. CASE UNCHANGED vars
  BY <1>5, Zenon DEF MainInv, vars, compVars, mainVars
<1> QED
  BY <1>1, <1>2, <1>3, <1>4, <1>5, Zenon DEF Next

\* A response that waits in bio_comp_list keeps its wakeup.
LEMMA SignalledStep ==
  ASSUME TypeOK, CompletionSignalled, [Next]_vars
  PROVE  CompletionSignalled'
<1> USE BioAssumption DEF CompletionSignalled
<1>1. CASE MainStep
  <2>1. ASSUME NEW k \in Kind, bioSubmitJob(k) PROVE CompletionSignalled'
    BY <2>1, Zenon DEF bioSubmitJob, compVars
  <2>2. CASE TakeCompList \/ PipeRead
    BY <2>2, Zenon DEF TypeOK, TakeCompList, PipeRead
  <2>3. CASE MainLock \/ MainWakes \/ bioDrainWorker \/ Callback
    BY <2>3, Zenon DEF MainLock, MainWakes, bioDrainWorker, Callback, compVars
  <2> QED
    BY <1>1, <2>1, <2>2, <2>3, Zenon DEF MainStep
<1>2. ASSUME NEW w \in Worker, WorkerStep(w) PROVE CompletionSignalled'
  <2>1. CASE ProcessComp(w)
    BY <2>1, Zenon DEF ProcessComp, TypeOK
  <2>2. CASE PipeWrite(w)
    <3>1. job_comp_pipe' > 0
      BY <2>2 DEF PipeWrite, TypeOK
    <3> QED
      BY <3>1, Zenon
  <2>3. CASE WorkerLock(w) \/ WorkerCheck(w) \/ ProcessWork(w) \/ WorkerRemove(w)
    <3>1. /\ UNCHANGED <<bio_comp_list, job_comp_pipe, main_pc>>
          /\ \A v \in Worker : worker_pc[v] = "pipe_write" => worker_pc'[v] = "pipe_write"
      BY <2>3, Zenon DEF WorkerLock, WorkerCheck, ProcessWork, WorkerRemove, TypeOK, compVars, mainVars
    <3> QED
      BY <3>1, Zenon
  <2> QED
    BY <1>2, <2>1, <2>2, <2>3, Zenon DEF WorkerStep
<1>3. ASSUME NEW w \in Worker, NEW call \in {"submit", "drain"}, BeginCall(w, call)
      PROVE  CompletionSignalled'
  BY <1>3, Zenon DEF BeginCall, compVars
<1>4. ASSUME NEW w \in Worker, NEW t \in {"worker", "main"}, SpuriousWakeup(w, t)
      PROVE  CompletionSignalled'
  BY <1>4, Zenon DEF SpuriousWakeup, compVars, mainVars
<1>5. CASE UNCHANGED vars
  BY <1>5, Zenon DEF vars, compVars, mainVars
<1> QED
  BY <1>1, <1>2, <1>3, <1>4, <1>5, Zenon DEF Next

\* The jobs in a queue, by type.
LEMMA JobFacts ==
  ASSUME TypeOK, NEW w \in Worker
  PROVE  /\ bio_jobs[w] \in Seq(JobType) /\ Len(bio_jobs[w]) \in Nat /\ next \in Nat
         /\ \A i \in 1..Len(bio_jobs[w]) : bio_jobs[w][i] \in JobType /\ bio_jobs[w][i].id \in Nat
<1>1. bio_jobs[w] \in Seq(JobType) /\ next \in Nat
  BY Zenon DEF TypeOK
<1>2. \A i \in 1..Len(bio_jobs[w]) : bio_jobs[w][i] \in JobType
  BY <1>1
<1> QED
  BY <1>1, <1>2 DEF JobType

\* The queues and the numbering change only in bioSubmitJob and in the removal.
LEMMA QueueSteps ==
  ASSUME [Next]_vars
  PROVE  \/ UNCHANGED <<bio_jobs, next>>
         \/ \E k \in Kind : bioSubmitJob(k)
         \/ \E w \in Worker : WorkerRemove(w)
  BY Zenon DEF Next, vars, MainStep, WorkerStep, MainLock, MainWakes, bioDrainWorker,
    TakeCompList, Callback, PipeRead, WorkerLock, WorkerCheck, ProcessWork, ProcessComp, PipeWrite,
    BeginCall, SpuriousWakeup, queueVars, mainVars

\* Jobs stay in the order of their submission.
LEMMA OrderStep ==
  ASSUME TypeOK, LockInv, OrderInv, [Next]_vars
  PROVE  OrderInv'
<1> SUFFICES ASSUME NEW w \in Worker PROVE OrderOf(w)'
  BY Zenon DEF OrderInv
<1>0. OrderOf(w)
  BY Zenon DEF OrderInv
<1>1. CASE UNCHANGED <<bio_jobs, next>>
  BY <1>0, <1>1, Zenon DEF OrderOf
<1>2. ASSUME NEW k \in Kind, bioSubmitJob(k) PROVE OrderOf(w)'
  <2>0. next' = next + 1 /\ next \in Nat
    BY <1>2, JobFacts, Zenon DEF bioSubmitJob
  <2>1. CASE w # target
    <3>1. bio_jobs'[w] = bio_jobs[w]
      BY <1>2, <2>1, Zenon DEF bioSubmitJob, TypeOK
    <3> QED
      BY <1>0, <2>0, <3>1, JobFacts DEF OrderOf
  <2>2. CASE w = target
    <3>1. bio_jobs'[w] = Append(bio_jobs[w], NewJob(w, k))
      BY <1>2, <2>2, Zenon DEF bioSubmitJob, TypeOK
    <3>2. NewJob(w, k) \in JobType /\ NewJob(w, k).worker = w /\ NewJob(w, k).id = next
      BY NewJobType, <1>2, Zenon DEF NewJob
    <3>3. \A i \in 1..Len(bio_jobs'[w]) :
            \/ i \in 1..Len(bio_jobs[w]) /\ bio_jobs'[w][i] = bio_jobs[w][i]
            \/ i = Len(bio_jobs[w]) + 1 /\ bio_jobs'[w][i] = NewJob(w, k)
      <4>1. bio_jobs[w] \in Seq(JobType)
        BY JobFacts, Zenon
      <4> QED
        BY <3>1, <3>2, <4>1, AppendIndex, Zenon
    <3>4. \A i \in 1..Len(bio_jobs'[w]) : bio_jobs'[w][i].worker = w /\ bio_jobs'[w][i].id < next + 1
      BY <1>0, <3>2, <3>3, JobFacts DEF OrderOf
    <3>5. ASSUME NEW i \in 1..Len(bio_jobs'[w]), NEW j \in 1..Len(bio_jobs'[w]), i < j
          PROVE  bio_jobs'[w][i].id < bio_jobs'[w][j].id
      <4>1. i \in 1..Len(bio_jobs[w]) /\ bio_jobs'[w][i] = bio_jobs[w][i]
        BY <3>3, <3>5, JobFacts
      <4> QED
        BY <1>0, <3>2, <3>3, <3>5, <4>1, JobFacts, Zenon DEF OrderOf
    <3> QED
      BY <2>0, <3>4, <3>5, Zenon DEF OrderOf
  <2> QED
    BY <2>1, <2>2, Zenon
<1>3. ASSUME NEW v \in Worker, WorkerRemove(v) PROVE OrderOf(w)'
  <2>0. next' = next
    BY <1>3 DEF WorkerRemove, mainVars
  <2>1. CASE w # v
    BY <1>0, <1>3, <2>0, <2>1 DEF OrderOf, WorkerRemove, TypeOK
  <2>2. CASE w = v
    <3>1. bio_jobs'[w] = Tail(bio_jobs[w]) /\ bio_jobs[w] # <<>>
      BY <1>3, <2>2, ServedJob DEF WorkerRemove, TypeOK, Serving
    <3>2. \A i \in 1..Len(bio_jobs'[w]) :
            i \in Nat /\ i + 1 \in 1..Len(bio_jobs[w]) /\ bio_jobs'[w][i] = bio_jobs[w][i + 1]
      <4>1. bio_jobs[w] \in Seq(JobType)
        BY JobFacts, Zenon
      <4> QED
        BY <3>1, <4>1, TailIndex, Zenon
    <3>3. \A i, j \in 1..Len(bio_jobs'[w]) : i < j => i + 1 < j + 1
      BY <3>2
    <3> QED
      BY <1>0, <2>0, <3>2, <3>3, Zenon DEF OrderOf
  <2> QED
    BY <2>1, <2>2, Zenon
<1> QED
  BY <1>1, <1>2, <1>3, QueueSteps, Zenon

\* The responses, by type.
LEMMA CompFacts ==
  ASSUME TypeOK, NEW c \in Comps
  PROVE  c \in JobType /\ c.id \in Nat /\ c.worker \in Worker
<1>1. \A s \in Seq(JobType) : Elements(s) \subseteq JobType
  BY DEF Elements
<1>2. c \in JobType
  BY <1>1, Zenon DEF TypeOK, Comps
<1> QED
  BY <1>2, Zenon DEF JobType

\* Responses are created by ProcessComp and then only move between the lists.
LEMMA CompsChange ==
  ASSUME TypeOK, LockInv, MainInv, [Next]_vars
  PROVE  \/ Comps' = Comps
         \/ \E w \in Worker : ProcessComp(w) /\ Comps' = Comps \cup {Job(w)}
<1>1. CASE TakeCompList
  <2>1. tmp_list = <<>> /\ Elements(<<>>) = {}
    BY <1>1 DEF MainInv, TakeCompList, Elements
  <2> QED
    BY <1>1, <2>1, Zenon DEF TakeCompList, Comps
<1>2. CASE Callback
  <2>1. tmp_list # <<>> /\ tmp_list \in Seq(JobType) /\ notified \in Seq(JobType)
    BY <1>2, Zenon DEF MainInv, Callback, TypeOK
  <2>2. Head(tmp_list) \in JobType
    BY <2>1, RemoveJob
  <2>3. Elements(notified') = Elements(notified) \cup {Head(tmp_list)}
    BY <1>2, <2>1, <2>2, ElementsAppend, Zenon DEF Callback
  <2>4. Elements(tmp_list) = {Head(tmp_list)} \cup Elements(tmp_list')
    BY <1>2, <2>1, ElementsTail, Zenon DEF Callback
  <2>5. bio_comp_list' = bio_comp_list
    BY <1>2 DEF Callback
  <2> QED
    BY <2>3, <2>4, <2>5, Zenon DEF Comps
<1>3. ASSUME NEW w \in Worker, ProcessComp(w)
      PROVE  Comps' = Comps \cup {Job(w)}
  <2>1. Job(w) \in JobType /\ bio_comp_list \in Seq(JobType)
    BY <1>3, ServedJob, Zenon DEF ProcessComp, Serving, TypeOK
  <2>2. Elements(bio_comp_list') = Elements(bio_comp_list) \cup {Job(w)}
    BY <1>3, <2>1, ElementsAppend DEF ProcessComp
  <2> QED
    BY <1>3, <2>2, Zenon DEF ProcessComp, Comps
<1>4. CASE UNCHANGED <<bio_comp_list, tmp_list, notified>>
  BY <1>4, Zenon DEF Comps
<1> QED
  BY <1>1, <1>2, <1>3, <1>4 DEF Next, vars, MainStep, WorkerStep, MainLock, MainWakes,
    bioDrainWorker, PipeRead, bioSubmitJob, WorkerLock, WorkerCheck, ProcessWork, PipeWrite,
    WorkerRemove, BeginCall, SpuriousWakeup, compVars

\* A job that was executed counts as executed until it is removed.
LEMMA StaysServed ==
  ASSUME TypeOK, [Next]_vars, NEW w \in Worker, ~WorkerRemove(w), worker_pc[w] \in Served
  PROVE  worker_pc'[w] \in Served
<1>1. ASSUME NEW v \in Worker, WorkerStep(v) PROVE worker_pc'[w] \in Served
  <2>1. CASE v = w
    BY <1>1, <2>1 DEF TypeOK, Served, WorkerStep, WorkerLock, WorkerCheck, ProcessWork, ProcessComp,
      PipeWrite
  <2>2. CASE v # w
    BY <1>1, <2>2, Zenon DEF TypeOK, WorkerStep, WorkerLock, WorkerCheck, ProcessWork, ProcessComp,
      PipeWrite, WorkerRemove
  <2> QED
    BY <2>1, <2>2
<1> QED
  BY <1>1, Zenon DEF Next, vars, MainStep, MainLock, MainWakes, bioDrainWorker, TakeCompList, Callback,
    PipeRead, bioSubmitJob, BeginCall, SpuriousWakeup

\* A response stays older than the jobs left in its worker's queue.
LEMMA OlderStep ==
  ASSUME TypeOK, LockInv, OrderInv, [Next]_vars, NEW c \in Comps, Older(c)
  PROVE  Older(c)'
<1> DEFINE w == c.worker
<1>0. c.id \in Nat /\ w \in Worker
  BY CompFacts, Zenon
<1>1. CASE UNCHANGED <<bio_jobs, next>> /\ ~WorkerRemove(w)
  <2>1. worker_pc'[w] \notin Served => worker_pc[w] \notin Served
    BY <1>0, <1>1, StaysServed
  <2> QED
    BY <1>1, <2>1, Zenon DEF Older
<1>2. ASSUME NEW k \in Kind, bioSubmitJob(k) PROVE Older(c)'
  <2>0. next' = next + 1 /\ next \in Nat /\ c.id < next' /\ worker_pc' = worker_pc
    BY <1>0, <1>2, JobFacts DEF bioSubmitJob, Older
  <2>1. CASE w # target
    <3>1. bio_jobs'[w] = bio_jobs[w]
      BY <1>0, <1>2, <2>1, Zenon DEF bioSubmitJob, TypeOK
    <3> QED
      BY <2>0, <3>1, Zenon DEF Older
  <2>2. CASE w = target
    <3>1. bio_jobs'[w] = Append(bio_jobs[w], NewJob(w, k))
      BY <1>0, <1>2, <2>2 DEF bioSubmitJob, TypeOK
    <3>2. NewJob(w, k) \in JobType /\ NewJob(w, k).id = next
      BY <1>0, NewJobType, <1>2, Zenon DEF NewJob
    <3>3. \A i \in 1..Len(bio_jobs'[w]) :
            \/ i \in 1..Len(bio_jobs[w]) /\ bio_jobs'[w][i] = bio_jobs[w][i]
            \/ i = Len(bio_jobs[w]) + 1 /\ bio_jobs'[w][i] = NewJob(w, k)
      <4>1. bio_jobs[w] \in Seq(JobType)
        BY <1>0, JobFacts, Zenon
      <4> QED
        BY <3>1, <3>2, <4>1, AppendIndex
    <3>4. c.id <= next /\ c.id < next
      BY <1>0, <2>0 DEF Older
    <3> QED
      BY <2>0, <3>2, <3>3, <3>4 DEF Older
  <2> QED
    BY <2>1, <2>2, Zenon
<1>3. ASSUME NEW v \in Worker, WorkerRemove(v) PROVE Older(c)'
  <2>0. next' = next
    BY <1>3, Zenon DEF WorkerRemove, mainVars
  <2>1. CASE w # v
    BY <1>0, <1>3, <2>0, <2>1 DEF Older, WorkerRemove, TypeOK
  <2>2. CASE w = v
    <3>0. bio_jobs[w] \in Seq(JobType)
      BY <1>0, JobFacts, Zenon
    <3>1. bio_jobs'[w] = Tail(bio_jobs[w]) /\ bio_jobs[w] # <<>>
      BY <1>0, <1>3, <2>2, ServedJob DEF WorkerRemove, TypeOK, Serving
    <3>2. \A i \in 1..Len(bio_jobs'[w]) :
            1 < i + 1 /\ i + 1 \in 1..Len(bio_jobs[w]) /\ bio_jobs'[w][i] = bio_jobs[w][i + 1]
      BY <3>0, <3>1, TailIndex, Zenon
    <3>3. 1 \in 1..Len(bio_jobs[w]) /\ c.id <= bio_jobs[w][1].id
      BY <3>0, <3>1, TailIndex, Zenon DEF Older
    <3>4. \A i \in 1..Len(bio_jobs'[w]) : bio_jobs[w][1].id < bio_jobs'[w][i].id
      BY <1>0, <3>2, <3>3 DEF OrderInv, OrderOf
    <3>5. \A i \in 1..Len(bio_jobs'[w]) : bio_jobs'[w][i].id \in Nat
      BY <1>0, <3>2, JobFacts
    <3>6. \A i \in 1..Len(bio_jobs'[w]) : c.id <= bio_jobs'[w][i].id /\ c.id < bio_jobs'[w][i].id
      BY <1>0, <3>3, <3>4, <3>5, JobFacts
    <3> QED
      BY <2>0, <3>6, Zenon DEF Older
  <2> QED
    BY <2>1, <2>2, Zenon
<1> QED
  BY <1>0, <1>1, <1>2, <1>3, QueueSteps

\* A new response is the head of its worker's queue and so the oldest there.
LEMMA NewComp ==
  ASSUME TypeOK, LockInv, OrderInv, NEW w \in Worker, ProcessComp(w)
  PROVE  /\ Job(w) = bio_jobs[w][1] /\ Job(w).worker = w /\ 1 \in 1..Len(bio_jobs[w])
         /\ Older(Job(w))'
<1>0. bio_jobs[w] \in Seq(JobType) /\ bio_jobs[w] # <<>>
  BY ServedJob, Zenon DEF ProcessComp, Serving
<1>1. Job(w) = bio_jobs[w][1] /\ 1 \in 1..Len(bio_jobs[w])
  BY <1>0, RemoveJob DEF Job
<1>2. Job(w).worker = w /\ Job(w).id < next
  BY <1>1, Zenon DEF OrderInv, OrderOf
<1>3. \A i \in 1..Len(bio_jobs[w]) : bio_jobs[w][1].id <= bio_jobs[w][i].id
  <2>1. \A i \in 1..Len(bio_jobs[w]) : i = 1 \/ 1 < i
    OBVIOUS
  <2> QED
    BY <1>1, <2>1, JobFacts DEF OrderInv, OrderOf
<1>4. UNCHANGED <<bio_jobs, next>> /\ worker_pc'[w] \in Served
  BY Zenon DEF ProcessComp, TypeOK, Served, queueVars, mainVars
<1>5. Job(w)' = Job(w)
  BY <1>4, Zenon DEF Job
<1>6. Older(Job(w))'
  BY <1>1, <1>2, <1>3, <1>4, <1>5, Zenon DEF Older
<1> QED
  BY <1>1, <1>2, <1>6, Zenon

\* Every response stays older than the jobs left.
LEMMA CompStep ==
  ASSUME TypeOK, LockInv, MainInv, OrderInv, CompInv, [Next]_vars
  PROVE  CompInv'
<1>1. \A c \in Comps : Older(c)'
  BY OlderStep DEF CompInv
<1>2. CASE Comps' = Comps
  BY <1>1, <1>2, Zenon DEF CompInv
<1>3. ASSUME NEW w \in Worker, ProcessComp(w), Comps' = Comps \cup {Job(w)}
      PROVE  CompInv'
  <2>1. Older(Job(w))'
    BY <1>3, NewComp
  <2>2. Job(w)' = Job(w)
    BY <1>3 DEF ProcessComp, Job, queueVars
  <2> QED
    BY <1>1, <1>3, <2>1, <2>2, Zenon DEF CompInv, Older
<1> QED
  BY <1>2, <1>3, CompsChange, Zenon

\* No response is listed a second time.
LEMMA OnceStep ==
  ASSUME TypeOK, LockInv, MainInv, OrderInv, CompInv, OnceInv, [Next]_vars
  PROVE  OnceInv'
<1>1. CASE TakeCompList
  <2>1. bio_comp_list' = <<>> /\ tmp_list' = bio_comp_list
    BY <1>1, Zenon DEF TakeCompList
  <2>2. Elements(<<>>) = {} /\ \A i \in 1..Len(<<>>) : FALSE
    BY DEF Elements
  <2> QED
    BY <2>1, <2>2, Zenon DEF OnceInv
<1>2. CASE Callback
  <2>1. tmp_list \in Seq(JobType) /\ tmp_list # <<>>
    BY <1>2, Zenon DEF TypeOK, MainInv, Callback
  <2>2. tmp_list' = Tail(tmp_list) /\ bio_comp_list' = bio_comp_list
    BY <1>2 DEF Callback
  <2>3. \A i \in 1..Len(tmp_list') :
          i \in Nat /\ i + 1 \in 1..Len(tmp_list) /\ tmp_list'[i] = tmp_list[i + 1]
    BY <2>1, <2>2, RemoveJob
  <2>4. \A i, j \in 1..Len(tmp_list') : i # j => i + 1 # j + 1
    BY <2>3
  <2>5. \A i, j \in 1..Len(tmp_list') : i # j => tmp_list'[i] # tmp_list'[j]
    BY <2>3, <2>4 DEF OnceInv
  <2>6. Elements(tmp_list') \subseteq Elements(tmp_list)
    BY <2>1, <2>2, ElementsTail, Zenon
  <2> QED
    BY <2>2, <2>5, <2>6 DEF OnceInv
<1>3. ASSUME NEW w \in Worker, ProcessComp(w)
      PROVE  OnceInv'
  <2>1. Job(w) \in JobType /\ bio_comp_list \in Seq(JobType) /\ Job(w).id \in Nat
    BY <1>3, ServedJob, Zenon DEF ProcessComp, Serving, TypeOK, JobType
  <2>2. Job(w) \notin Comps
    <3> SUFFICES ASSUME Job(w) \in Comps PROVE FALSE
      BY Zenon
    <3>1. /\ Job(w).worker = w /\ Job(w) = bio_jobs[w][1] /\ 1 \in 1..Len(bio_jobs[w])
          /\ worker_pc[w] \notin Served
      BY <1>3, NewComp, Zenon DEF ProcessComp, Served
    <3>2. Job(w).id < bio_jobs[w][1].id
      BY <3>1, Zenon DEF CompInv, Older
    <3> QED
      BY <2>1, <3>1, <3>2
  <2>3. bio_comp_list' = Append(bio_comp_list, Job(w)) /\ tmp_list' = tmp_list
    BY <1>3 DEF ProcessComp
  <2>4. Elements(bio_comp_list') = Elements(bio_comp_list) \cup {Job(w)}
    BY <2>1, <2>3, ElementsAppend, Zenon
  <2>5. \A i \in 1..Len(bio_comp_list') :
          \/ i \in 1..Len(bio_comp_list) /\ bio_comp_list'[i] = bio_comp_list[i]
          \/ i = Len(bio_comp_list) + 1 /\ bio_comp_list'[i] = Job(w)
    BY <2>1, <2>3, AppendJob
  <2>6. \A i \in 1..Len(bio_comp_list) : bio_comp_list[i] # Job(w)
    BY <2>2, Zenon DEF Comps, Elements
  <2>7. \A i, j \in 1..Len(bio_comp_list') : i # j => bio_comp_list'[i] # bio_comp_list'[j]
    BY <2>5, <2>6, Zenon DEF OnceInv
  <2> QED
    BY <2>2, <2>3, <2>4, <2>7 DEF OnceInv, Comps
<1>4. CASE UNCHANGED <<bio_comp_list, tmp_list>>
  BY <1>4 DEF OnceInv
<1> QED
  BY <1>1, <1>2, <1>3, <1>4 DEF Next, vars, MainStep, WorkerStep, MainLock, MainWakes,
    bioDrainWorker, PipeRead, bioSubmitJob, WorkerLock, WorkerCheck, ProcessWork, PipeWrite,
    WorkerRemove, BeginCall, SpuriousWakeup, compVars

(***************************************************************************)
(* The invariant and what follows from it.                                 *)
(***************************************************************************)

\* The threads start in a state of the invariant.
LEMMA BioInit == Init => BioInv
<1> SUFFICES ASSUME Init PROVE BioInv
  BY Zenon
<1>0. Elements(<<>>) = {} /\ \A i \in 1..Len(<<>>) : FALSE
  BY DEF Elements
<1>1. TypeOK
  BY BioAssumption DEF Init, TypeOK
<1>2. PendingExact
  <2>1. \A w \in Worker : \A k \in Kind :
          {i \in 1..Len(bio_jobs[w]) : bio_jobs[w][i].kind = k} = {}
    BY <1>0, Zenon DEF Init
  <2> QED
    BY <2>1, FS_EmptySet DEF Init, PendingExact, bioPendingJobsOfType
<1>3. LockInv
  BY Zenon DEF Init, LockInv, LockOf, Serving
<1>4. MainInv /\ CompletionSignalled
  BY Zenon DEF Init, MainInv, CompletionSignalled
<1>5. OrderInv
  BY <1>0, Zenon DEF Init, OrderInv, OrderOf
<1>6. CompInv /\ OnceInv
  BY <1>0, Zenon DEF Init, CompInv, OnceInv, Comps
<1> QED
  BY <1>1, <1>2, <1>3, <1>4, <1>5, <1>6, Zenon DEF BioInv

\* Every step keeps it.
LEMMA BioStepInv == BioInv /\ [Next]_vars => BioInv'
<1> SUFFICES ASSUME BioInv, [Next]_vars PROVE BioInv'
  OBVIOUS
<1>0. /\ TypeOK /\ PendingExact /\ LockInv /\ MainInv
      /\ OrderInv /\ CompInv /\ OnceInv /\ CompletionSignalled
  BY DEF BioInv
<1>1. TypeOK'
  <2>1. ASSUME NEW w \in Worker, NEW call \in {"submit", "drain"}, BeginCall(w, call) PROVE TypeOK'
    BY <1>0, <2>1 DEF TypeOK, BeginCall, lockVars, queueVars, compVars
  <2>2. ASSUME NEW w \in Worker, NEW t \in {"worker", "main"}, SpuriousWakeup(w, t) PROVE TypeOK'
    BY <1>0, <2>2, TypeLocks DEF TypeOK, SpuriousWakeup, queueVars, compVars, mainVars
  <2>3. CASE UNCHANGED vars
    BY <1>0, <2>3, Zenon DEF TypeOK, vars, lockVars, queueVars, compVars, mainVars
  <2> QED
    BY <1>0, <2>1, <2>2, <2>3, TypeMain, TypeWorker, Zenon DEF Next
<1>2. LockInv'
  <2>1. CASE UNCHANGED vars
    BY <1>0, <2>1, Zenon DEF LockInv, LockOf, vars, lockVars, queueVars, mainVars
  <2> QED
    BY <1>0, <2>1, LockMain, LockWorker, LockOther DEF Next
<1>3. PendingExact' /\ MainInv' /\ OrderInv' /\ CompletionSignalled'
  BY <1>0, PendingStep, MainStepInv, OrderStep, SignalledStep, Zenon
<1>4. CompInv' /\ OnceInv'
  BY <1>0, CompStep, OnceStep
<1> QED
  BY <1>1, <1>2, <1>3, <1>4, Zenon DEF BioInv

\* It always holds.
LEMMA BioInductive == Spec => []BioInv
  BY BioInit, BioStepInv, PTL DEF Spec

\* The variables of bio.c keep their types; in particular the counters of
\* pending jobs never become negative.
THEOREM BioTypeCorrect == Spec => []TypeOK
<1>1. BioInv => TypeOK
  BY DEF BioInv
<1> QED
  BY <1>1, BioInductive, PTL

\* bioPendingJobsOfType counts exactly the jobs that are queued or in service.
THEOREM PendingCorrect == Spec => []PendingExact
<1>1. BioInv => PendingExact
  BY Zenon DEF BioInv
<1> QED
  BY <1>1, BioInductive, PTL

\* With one condition variable for two purposes and one waiter woken by a
\* signal, no wakeup of a worker or of bioDrainWorker is lost.
THEOREM WakeupsCorrect == Spec => []NoLostWakeup
<1>1. BioInv => NoLostWakeup
  BY Zenon DEF BioInv, LockInv, LockOf, NoLostWakeup
<1> QED
  BY <1>1, BioInductive, PTL

\* A response in bio_comp_list wakes the event loop for any capacity of the
\* pipe, although bytes are dropped when it is full.
THEOREM SignalsCorrect == Spec => []CompletionSignalled
<1>1. BioInv => CompletionSignalled
  BY DEF BioInv
<1> QED
  BY <1>1, BioInductive, PTL

\* When the callback of a completion request runs, the jobs submitted to the
\* worker before it have left the queue.
THEOREM CompletionsCorrect == Spec => []CompletionAfterJobs
<1>1. BioInv => CompletionAfterJobs
  <2> SUFFICES ASSUME BioInv, NEW c \in Comps, NEW i \in 1..Len(bio_jobs[c.worker])
               PROVE  bio_jobs[c.worker][i].id >= c.id
    BY Zenon DEF CompletionAfterJobs, Comps
  <2>1. c.id \in Nat /\ c.worker \in Worker /\ TypeOK
    BY CompFacts, Zenon DEF BioInv
  <2>2. bio_jobs[c.worker][i].id \in Nat
    BY <2>1, JobFacts, Zenon
  <2>3. c.id <= bio_jobs[c.worker][i].id
    BY Zenon DEF BioInv, CompInv, Older
  <2> QED
    BY <2>1, <2>2, <2>3, Zenon
<1> QED
  BY <1>1, BioInductive, PTL

(***************************************************************************)
(* Refinement: each step of the threads is a step of BioQueue or changes   *)
(* nothing there.                                                          *)
(***************************************************************************)

ServedMap == [w \in Worker |-> IF worker_pc[w] \in {"pipe_write", "relock", "remove"}
                                 THEN "yes" ELSE "no"]
DueMap    == Elements(bio_comp_list) \cup Elements(tmp_list)
DrainMap  == IF main_pc \in {"drain", "drain_locked", "drain_wait"} THEN {target} ELSE {}

\* The threads start with empty queues.
LEMMA RefinesInit == Init => Queue!Init
<1>1. Elements(<<>>) = {}
  BY DEF Elements
<1> QED
  BY <1>1, Zenon DEF Init, Queue!Init

\* A step that leaves the mapped state alone is a stutter.
LEMMA RefinesStutter ==
  ASSUME UNCHANGED <<bio_jobs, next, notified, ServedMap, DueMap, DrainMap>>
  PROVE  UNCHANGED Queue!vars
  BY Zenon DEF Queue!vars, ServedMap, DueMap, DrainMap

\* The steps of the main thread.
LEMMA RefinesMain ==
  ASSUME BioInv, MainStep
  PROVE  Queue!Next \/ UNCHANGED Queue!vars
<1>0. TypeOK /\ MainInv /\ OnceInv /\ target \in Worker
  BY Zenon DEF BioInv, TypeOK
<1>1. CASE MainLock \/ MainWakes \/ PipeRead
  <2>1. UNCHANGED <<bio_jobs, next, notified, worker_pc, bio_comp_list, tmp_list, target>>
    BY <1>1, Zenon DEF MainLock, MainWakes, PipeRead, queueVars, compVars
  <2>2. DrainMap' = DrainMap
    BY <1>1, <2>1, Zenon DEF MainLock, MainWakes, PipeRead, DrainMap
  <2> QED
    BY <2>1, <2>2, RefinesStutter DEF ServedMap, DueMap
<1>2. CASE TakeCompList
  <2>1. tmp_list = <<>> /\ Elements(<<>>) = {}
    BY <1>0, <1>2 DEF MainInv, TakeCompList, Elements
  <2>2. DueMap' = DueMap
    BY <1>2, <2>1, Zenon DEF TakeCompList, DueMap
  <2>3. DrainMap' = DrainMap /\ UNCHANGED <<bio_jobs, next, notified, worker_pc>>
    BY <1>2, Zenon DEF TakeCompList, DrainMap, queueVars
  <2> QED
    BY <2>2, <2>3, RefinesStutter DEF ServedMap
<1>3. CASE bioDrainWorker
  <2>1. UNCHANGED <<bio_jobs, next, notified, worker_pc, bio_comp_list, tmp_list, target>>
    BY <1>3 DEF bioDrainWorker, queueVars, compVars
  <2>2. CASE bio_jobs[target] # <<>>
    <3>1. DrainMap' = DrainMap
      BY <1>3, <2>1, <2>2, Zenon DEF bioDrainWorker, DrainMap
    <3> QED
      BY <2>1, <3>1, RefinesStutter, Zenon DEF ServedMap, DueMap
  <2>3. CASE bio_jobs[target] = <<>>
    <3>1. main_pc = "drain_locked" /\ main_pc' = "loop"
      BY <1>3, <2>3 DEF bioDrainWorker
    <3>2. Queue!DrainReturns(target)
      BY <2>1, <2>3, <3>1, Zenon DEF Queue!DrainReturns
    <3> QED
      BY <1>0, <3>2, Zenon DEF Queue!Next
  <2> QED
    BY <2>2, <2>3, Zenon
<1>4. CASE Callback
  <2>0. tmp_list \in Seq(JobType) /\ tmp_list # <<>>
    BY <1>0, <1>4 DEF TypeOK, MainInv, Callback
  <2> DEFINE j == Head(tmp_list)
  <2>1. Elements(tmp_list) = {j} \cup Elements(tmp_list')
    BY <1>4, <2>0, ElementsTail, Zenon DEF Callback
  <2>2. j \notin Elements(tmp_list')
    <3>1. j = tmp_list[1] /\ 1 \in 1..Len(tmp_list)
      BY <2>0, RemoveJob
    <3>2. \A i \in 1..Len(tmp_list') : i + 1 \in 1..Len(tmp_list) /\ tmp_list'[i] = tmp_list[i + 1]
      BY <1>4, <2>0, RemoveJob, Zenon DEF Callback
    <3>3. \A i \in 1..Len(tmp_list') : 1 # i + 1
      OBVIOUS
    <3>4. \A i \in 1..Len(tmp_list') : tmp_list'[i] # j
      BY <1>0, <3>1, <3>2, <3>3 DEF OnceInv
    <3> QED
      BY <3>4, Zenon DEF Elements
  <2>3. j \notin Elements(bio_comp_list)
    BY <1>0, <2>1, Zenon DEF OnceInv
  <2>4. DueMap' = DueMap \ {j} /\ j \in DueMap
    BY <1>4, <2>1, <2>2, <2>3, Zenon DEF Callback, DueMap
  <2>5. /\ main_pc = "callbacks" /\ main_pc' \in {"loop", "callbacks"}
        /\ notified' = Append(notified, j)
        /\ UNCHANGED <<bio_jobs, next, worker_pc>>
    BY <1>4, Zenon DEF Callback, queueVars
  <2>6. Queue!Notify(j)
    BY <2>4, <2>5, Zenon DEF Queue!Notify, DueMap
  <2>7. \E w \in Worker : \E c \in DueMap : Queue!Notify(c)
    BY <1>0, <2>4, <2>6, Zenon
  <2> QED
    BY <2>7, Zenon DEF Queue!Next, DueMap
<1>5. ASSUME NEW k \in Kind, bioSubmitJob(k)
      PROVE  Queue!Next
  <2>1. /\ main_pc = "submit_locked" /\ main_pc' = "loop" /\ next <= MaxJobs /\ next' = next + 1
        /\ UNCHANGED <<notified, worker_pc, bio_comp_list, tmp_list>>
    BY <1>0, <1>5, Zenon DEF bioSubmitJob, MainInv, compVars
  <2>2. bio_jobs' = [bio_jobs EXCEPT ![target] =
                       Append(@, [id |-> next, kind |-> k, worker |-> target])]
    BY <1>5, Zenon DEF bioSubmitJob, NewJob
  <2>3. Queue!Submit(target, k)
    BY <2>1, <2>2, Zenon DEF Queue!Submit
  <2> QED
    BY <1>0, <1>5, <2>3, Zenon DEF Queue!Next, Queue!Kind, Kind
<1> QED
  BY <1>1, <1>2, <1>3, <1>4, <1>5, Zenon DEF MainStep

\* The steps of a worker.
LEMMA RefinesWorker ==
  ASSUME BioInv, NEW w \in Worker, WorkerStep(w)
  PROVE  Queue!Next \/ UNCHANGED Queue!vars
<1>0. TypeOK /\ LockInv /\ worker_pc \in [Worker -> {"start", "check", "wait", "process",
                                         "pipe_write", "relock", "remove"}]
  BY Zenon DEF BioInv, TypeOK
<1>1. CASE WorkerLock(w) \/ WorkerCheck(w) \/ PipeWrite(w)
  <2>1. UNCHANGED <<bio_jobs, next, notified, bio_comp_list, tmp_list, target, main_pc>>
    BY <1>1, Zenon DEF WorkerLock, WorkerCheck, PipeWrite, queueVars, compVars, mainVars
  <2>2. ServedMap' = ServedMap
    BY <1>0, <1>1, Zenon DEF WorkerLock, WorkerCheck, PipeWrite, ServedMap
  <2> QED
    BY <2>1, <2>2, RefinesStutter, Zenon DEF DueMap, DrainMap
<1>2. CASE ProcessWork(w) \/ ProcessComp(w)
  <2>1. /\ worker_pc[w] = "process" /\ bio_jobs[w] # <<>>
        /\ UNCHANGED <<bio_jobs, next, notified, tmp_list, target, main_pc>>
    BY <1>0, <1>2, ServedJob, Zenon DEF ProcessWork, ProcessComp, queueVars, compVars, mainVars, Serving
  <2>2. ServedMap' = [ServedMap EXCEPT ![w] = "yes"] /\ ServedMap[w] = "no"
    BY <1>0, <1>2, Zenon DEF ProcessWork, ProcessComp, ServedMap
  <2>3. DueMap' = IF Head(bio_jobs[w]).kind = "comp" THEN DueMap \cup {Head(bio_jobs[w])} ELSE DueMap
    <3>1. CASE ProcessWork(w)
      BY <3>1, Zenon DEF ProcessWork, Job, DueMap, compVars
    <3>2. CASE ProcessComp(w)
      <4>1. Job(w) \in JobType /\ bio_comp_list \in Seq(JobType)
        BY <1>0, <3>2, ServedJob DEF ProcessComp, Serving, TypeOK
      <4>2. Elements(bio_comp_list') = Elements(bio_comp_list) \cup {Job(w)}
        BY <3>2, <4>1, ElementsAppend, Zenon DEF ProcessComp
      <4> QED
        BY <3>2, <4>2, Zenon DEF ProcessComp, Job, DueMap
    <3> QED
      BY <1>2, <3>1, <3>2, Zenon
  <2>4. Queue!Execute(w)
    BY <2>1, <2>2, <2>3, Zenon DEF Queue!Execute, ServedMap, DueMap
  <2> QED
    BY <2>4, Zenon DEF Queue!Next
<1>3. CASE WorkerRemove(w)
  <2>1. /\ worker_pc[w] = "remove" /\ bio_jobs[w] # <<>>
        /\ bio_jobs' = [bio_jobs EXCEPT ![w] = Tail(@)]
        /\ UNCHANGED <<next, notified, bio_comp_list, tmp_list, target, main_pc>>
    BY <1>0, <1>3, ServedJob, Zenon DEF WorkerRemove, compVars, mainVars, Serving
  <2>2. ServedMap' = [ServedMap EXCEPT ![w] = "no"] /\ ServedMap[w] = "yes"
    BY <1>0, <1>3, Zenon DEF WorkerRemove, ServedMap
  <2>3. Queue!Remove(w)
    BY <2>1, <2>2 DEF Queue!Remove, ServedMap
  <2> QED
    BY <2>3, Zenon DEF Queue!Next
<1> QED
  BY <1>1, <1>2, <1>3, Zenon DEF WorkerStep

\* A call that begins, and a spurious wakeup.
LEMMA RefinesOther ==
  ASSUME BioInv, NEW w \in Worker,
         \/ \E call \in {"submit", "drain"} : BeginCall(w, call)
         \/ \E t \in {"worker", "main"} : SpuriousWakeup(w, t)
  PROVE  Queue!Next \/ UNCHANGED Queue!vars
<1>1. CASE BeginCall(w, "submit")
  <2>1. UNCHANGED <<bio_jobs, next, notified, worker_pc, bio_comp_list, tmp_list>>
    BY <1>1, Zenon DEF BeginCall, queueVars, compVars
  <2>2. DrainMap' = DrainMap
    BY <1>1, Zenon DEF BeginCall, DrainMap
  <2> QED
    BY <2>1, <2>2, RefinesStutter, Zenon DEF ServedMap, DueMap
<1>2. CASE BeginCall(w, "drain")
  <2>1. /\ UNCHANGED <<bio_jobs, next, notified, worker_pc, bio_comp_list, tmp_list>>
        /\ main_pc = "loop" /\ main_pc' = "drain" /\ target' = w
    BY <1>2, Zenon DEF BeginCall, queueVars, compVars
  <2>2. Queue!DrainBegins(w)
    BY <2>1, Zenon DEF Queue!DrainBegins
  <2> QED
    BY <2>2, Zenon DEF Queue!Next
<1>3. ASSUME NEW t \in {"worker", "main"}, SpuriousWakeup(w, t)
      PROVE  UNCHANGED Queue!vars
  BY <1>3, RefinesStutter, Zenon DEF SpuriousWakeup, queueVars, compVars, mainVars, ServedMap, DueMap,
    DrainMap
<1> QED
  BY <1>1, <1>2, <1>3, Zenon

\* The mutexes, the condition variables, the completion list and the pipe of
\* bio.c implement the abstract queue: jobs run once and in order, a drain
\* returns on an empty queue, and each completion callback runs once.
THEOREM BioImplementsQueue == Spec => ImplementsQueue
<1>1. BioInv /\ [Next]_vars => [Queue!Next]_(Queue!vars)
  <2> SUFFICES ASSUME BioInv, [Next]_vars PROVE Queue!Next \/ UNCHANGED Queue!vars
    BY Zenon
  <2>1. CASE UNCHANGED vars
    BY <2>1, RefinesStutter, Zenon DEF vars, queueVars, compVars, mainVars, ServedMap, DueMap, DrainMap
  <2> QED
    BY <2>1, RefinesMain, RefinesWorker, RefinesOther, Zenon DEF Next
<1> QED
  BY <1>1, RefinesInit, BioInductive, PTL DEF Spec, ImplementsQueue, Queue!Spec
=============================================================================
