--------------------------- MODULE AofFlushProofs ---------------------------
(***************************************************************************)
(* Proofs about AofFlush, for every value of its constants.                *)
(***************************************************************************)
EXTENDS AofFlush, TLAPS

USE DEF Idle, NotWaiting, aof_background_fsync, aof_background_fsync_and_close

(***************************************************************************)
(* Type correctness.                                                       *)
(***************************************************************************)

\* The files and jobs the server creates are well formed.
LEMMA Constructors ==
  /\ 1 \in Files /\ NoFile \in File /\ NoReply \in Reply
  /\ \A f \in Files : f < MaxFiles => f + 1 \in Files
  /\ \A f \in Files, o \in Nat : /\ [type |-> "fsync", fd |-> f, offset |-> o] \in Job
                                 /\ [type |-> "close", fd |-> f, offset |-> o] \in Job
  BY BoundsAssumption DEF Files, File, Job, Reply, NoFile, NoReply

\* Appending to a file, fsyncing it and opening a new one yield a well-formed disk.
LEMMA DiskUpdates ==
  ASSUME NEW d \in [Files -> File], NEW f \in Files, NEW n \in Nat
  PROVE  /\ [d EXCEPT ![f].size = @ + n] \in [Files -> File]
         /\ [d EXCEPT ![f].durable = n] \in [Files -> File]
         /\ [d EXCEPT ![f].durable = d[f].size] \in [Files -> File]
         /\ [d EXCEPT ![f].durable = IF @ < n THEN n ELSE @] \in [Files -> File]
         /\ \A g \in Files : [d EXCEPT ![g] = [start |-> d[f].start + d[f].size,
                                               size |-> 0, durable |-> 0]] \in [Files -> File]
  BY DEF File

\* The answer of WAITAOF is a reply.
LEMMA WaitaofReplyType == \A o \in Nat : WaitaofReply(o) \in Reply
  BY DEF WaitaofReply, acklocal, Reply

\* Every initial state of the write path is well typed.
LEMMA TypeInit == Init => TypeOK
  BY Constructors DEF Init, TypeOK, Files

\* Where flushAppendOnlyFile is called from, and where its callers go on.
LEMMA ReturnPcType ==
  /\ DOMAIN ReturnPc = {"flush", "cron_flush", "rewrite_flush", "shutdown_flush"}
  /\ \A p \in DOMAIN ReturnPc :
       ReturnPc[p] \in {"reploff", "before", "rewrite_open", "shutdown_fsync"}
  BY DEF ReturnPc

\* The fsync at the end of flushAppendOnlyFile keeps what it changes in its type.
LEMMA TypeTryFsync ==
  ASSUME TypeOK, pc \in DOMAIN ReturnPc,
         NEW size \in Nat, NEW d \in [Files -> File], TryFsync(size, d)
  PROVE  /\ pc' \in {"reploff", "before", "rewrite_open", "shutdown_fsync", "dead"}
         /\ aof_last_incr_fsync_offset' \in Nat
         /\ aof_last_fsync' \in 0..1
         /\ fsynced_reploff_pending' \in Nat
         /\ bio_jobs' \in Seq(Job)
         /\ disk' \in [Files -> File]
         /\ faults' \in Nat
<1>1. /\ pc' \in {"reploff", "before", "rewrite_open", "shutdown_fsync", "dead"}
      /\ aof_last_incr_fsync_offset' \in Nat
      /\ aof_last_fsync' \in 0..1
      /\ fsynced_reploff_pending' \in Nat
      /\ faults' \in Nat
  BY ReturnPcType, SMTT(30) DEF TypeOK, TryFsync, FsyncNow, FsyncInBackground, Fault
<1>2. bio_jobs' \in Seq(Job)
  <2>1. [type |-> "fsync", fd |-> aof_fd, offset |-> master_repl_offset] \in Job
    BY Constructors, Zenon DEF TypeOK
  <2>2. bio_jobs \in Seq(Job)
    BY Zenon DEF TypeOK
  <2> QED
    BY <2>1, <2>2 DEF TryFsync, FsyncNow, FsyncInBackground
<1>3. disk' \in [Files -> File]
  <2>1. [d EXCEPT ![aof_fd].durable = size] \in [Files -> File]
    BY DiskUpdates, Zenon DEF TypeOK
  <2> QED
    BY <2>1, Zenon DEF TryFsync, FsyncNow, FsyncInBackground
<1> QED
  BY <1>1, <1>2, <1>3, Zenon

\* The steps of flushAppendOnlyFile keep every variable in its type.
LEMMA TypeFlush == TypeOK /\ Flush => TypeOK'
<1> SUFFICES ASSUME TypeOK, Flush PROVE TypeOK'
  BY Zenon
<1> USE ReturnPcType DEF flushLeaves, replVars, clientVars, timeVars
<1>1. CASE FlushNothing
  BY <1>1, SMTT(30) DEF TypeOK, FlushNothing
<1>2. CASE FlushPostponed
  BY <1>2, SMTT(30) DEF TypeOK, FlushPostponed
<1>3. ASSUME NEW n \in 0..MaxOffset, FlushWriteError(n) PROVE TypeOK'
  <2>1. n \in Nat
    BY <1>3, BoundsAssumption
  <2>2. [disk EXCEPT ![aof_fd].size = @ + n] \in [Files -> File]
    BY <2>1, DiskUpdates, Zenon DEF TypeOK
  <2>3. disk' \in [Files -> File]
    BY <1>3, <2>2, Zenon DEF FlushWriteError
  <2>4. aof_buf - n \in Nat /\ aof_last_incr_size + n \in Nat /\ faults + 1 \in Nat
    <3>1. n < aof_buf
      BY <1>3, Zenon DEF FlushWriteError
    <3>2. aof_buf \in Nat /\ aof_last_incr_size \in Nat /\ faults \in Nat
      BY Zenon DEF TypeOK
    <3> QED
      BY <2>1, <3>1, <3>2
  <2> QED
    BY <1>3, <2>3, <2>4, SMTT(90) DEF TypeOK, FlushWriteError, Fault
<1>4. CASE FlushFsyncOnly
  <2>1. /\ aof_last_incr_size \in Nat /\ disk \in [Files -> File]
        /\ TryFsync(aof_last_incr_size, disk) /\ pc \in DOMAIN ReturnPc
    BY <1>4, Zenon DEF TypeOK, FlushFsyncOnly
  <2> QED
    BY <1>4, <2>1, TypeTryFsync, SMTT(30) DEF TypeOK, FlushFsyncOnly
<1>5. CASE FlushWrite
  <2> DEFINE d == [disk EXCEPT ![aof_fd].size = @ + aof_buf]
  <2>1. TryFsync(aof_last_incr_size + aof_buf, d) /\ pc \in DOMAIN ReturnPc
    BY <1>5, Zenon DEF FlushWrite
  <2>2. aof_last_incr_size + aof_buf \in Nat
    BY DEF TypeOK
  <2>3. d \in [Files -> File]
    BY DiskUpdates, Zenon DEF TypeOK
  <2> HIDE DEF d
  <2> QED
    BY <1>5, <2>1, <2>2, <2>3, TypeTryFsync, SMTT(30) DEF TypeOK, FlushWrite
<1> QED
  BY <1>1, <1>2, <1>3, <1>4, <1>5, Zenon DEF Flush

\* The commands and CONFIG SET keep every variable in its type.
LEMMA TypeClient ==
  ASSUME TypeOK, ClientStep \/ \E p \in Policies : updateAppendFsync(p)
  PROVE  TypeOK'
<1> USE DEF flushVars, fileVars, timeVars, bioVars, histVars, offsetVars, replVars, clientVars
<1>1. ASSUME NEW c \in Client, WriteCommand(c) PROVE TypeOK'
  <2>1. master_repl_offset + 1 \in Nat
    BY DEF TypeOK
  <2>2. [kind |-> "write", off |-> master_repl_offset + 1, local |-> 0] \in Reply
    BY <2>1 DEF Reply
  <2> QED
    BY <1>1, <2>1, <2>2, SMTT(30) DEF TypeOK, WriteCommand, feedAppendOnlyFile
<1>2. ASSUME NEW c \in Client, ReplOnlyCommand(c) PROVE TypeOK'
  BY <1>2, SMTT(30) DEF TypeOK, ReplOnlyCommand
<1>3. ASSUME NEW c \in Client, waitaofCommand(c) PROVE TypeOK'
  <2>1. woff[c] \in Nat
    BY Zenon DEF TypeOK
  <2>2. WaitaofReply(woff[c]) \in Reply
    BY <2>1, WaitaofReplyType, Zenon
  <2>3. out' \in [Client -> Reply] /\ wait' \in [Client -> Nat \cup {NotWaiting}]
    BY <1>3, <2>1, <2>2, Zenon DEF TypeOK, waitaofCommand
  <2> QED
    BY <1>3, <2>3, SMTT(30) DEF TypeOK, waitaofCommand
<1>4. ASSUME NEW p \in Policies, updateAppendFsync(p) PROVE TypeOK'
  BY <1>4, SMTT(30) DEF TypeOK, updateAppendFsync
<1> QED
  BY <1>1, <1>2, <1>3, <1>4, Zenon DEF ClientStep

\* The steps of the event loop other than the flush, and the cron, the clock,
\* the children and the start of a shutdown, keep every variable in its type.
LEMMA TypeLoop ==
  ASSUME TypeOK,
         \/ EndOfEvents \/ UpdateFsyncedReploff \/ handleClientsWithPendingWrites
         \/ \E timedOut \in SUBSET Client : blockedBeforeSleep(timedOut)
         \/ bioDrainWorker \/ openNewIncrAofForAppend \/ OpenNewIncrFails \/ finishShutdown
         \/ serverCron \/ Tick \/ ForkOrReapChild \/ rewriteAppendOnlyFileBackground \/ Shutdown
  PROVE  TypeOK'
<1> USE ReturnPcType
    DEF allButPc, flushVars, fileVars, timeVars, bioVars, histVars, offsetVars, replVars, clientVars
<1>1. CASE EndOfEvents \/ serverCron \/ bioDrainWorker \/ rewriteAppendOnlyFileBackground
  BY <1>1, SMTT(90) DEF TypeOK, EndOfEvents, serverCron, bioDrainWorker,
                        rewriteAppendOnlyFileBackground
<1>2. CASE UpdateFsyncedReploff \/ ForkOrReapChild \/ Shutdown
  BY <1>2, SMTT(30) DEF TypeOK, UpdateFsyncedReploff, ForkOrReapChild, Shutdown
<1>3. CASE handleClientsWithPendingWrites
  BY <1>3, Constructors, SMTT(30) DEF TypeOK, handleClientsWithPendingWrites
<1>4. ASSUME NEW timedOut \in SUBSET Client, blockedBeforeSleep(timedOut) PROVE TypeOK'
  <2>1. \A c \in Client : wait[c] # NotWaiting => wait[c] \in Nat
    BY Zenon DEF TypeOK
  <2>3. \A c \in Client : wait[c] # NotWaiting => WaitaofReply(wait[c]) \in Reply
    BY <2>1, WaitaofReplyType, Zenon
  <2>2. out' \in [Client -> Reply] /\ wait' \in [Client -> Nat \cup {NotWaiting}]
    BY <1>4, <2>3, Zenon DEF TypeOK, blockedBeforeSleep
  <2> QED
    BY <1>4, <2>2, SMTT(30) DEF TypeOK, blockedBeforeSleep
<1>5. CASE openNewIncrAofForAppend
  <2>1. [type |-> "close", fd |-> aof_fd, offset |-> master_repl_offset] \in Job
    BY Constructors, Zenon DEF TypeOK
  <2>2. aof_fd + 1 \in Files
    BY <1>5, Constructors, Zenon DEF TypeOK, openNewIncrAofForAppend
  <2>3. disk' \in [Files -> File]
    BY <1>5, <2>2, DiskUpdates, Zenon DEF TypeOK, openNewIncrAofForAppend
  <2> QED
    BY <1>5, <2>1, <2>2, <2>3, SMTT(30) DEF TypeOK, openNewIncrAofForAppend, Fault
<1>6. CASE OpenNewIncrFails
  BY <1>6, SMTT(30) DEF TypeOK, OpenNewIncrFails, Fault
<1>7. CASE finishShutdown
  <2>1. [disk EXCEPT ![aof_fd].durable = disk[aof_fd].size] \in [Files -> File]
    BY DiskUpdates, Zenon DEF TypeOK
  <2>2. disk' \in [Files -> File]
    BY <1>7, <2>1, Zenon DEF TypeOK, finishShutdown
  <2> QED
    BY <1>7, <2>2, SMTT(30) DEF TypeOK, finishShutdown, Fault
<1>8. CASE Tick
  BY <1>8, SMTT(30) DEF TypeOK, Tick
<1> QED
  BY <1>1, <1>2, <1>3, <1>4, <1>5, <1>6, <1>7, <1>8

\* The steps of the bio worker keep every variable in its type.
LEMMA TypeBio ==
  ASSUME TypeOK, WorkerInv, BioStep
  PROVE  TypeOK'
<1> USE DEF bioLeaves, flushVars, fileVars, timeVars, histVars, replVars, clientVars
<1>1. CASE BioTakeJob
  <2>1. Head(bio_jobs) \in Job
    BY <1>1 DEF TypeOK, BioTakeJob
  <2>2. bio_worker' \in [state : {"idle", "fsync", "done"}, size : Nat]
    BY <1>1, <2>1, Zenon DEF TypeOK, BioTakeJob, Job, File
  <2> QED
    BY <1>1, <2>2, SMTT(30) DEF TypeOK, BioTakeJob
<1>2. CASE BioFsynced
  <2>1. Head(bio_jobs) \in Job
    BY <1>2 DEF TypeOK, BioFsynced, WorkerInv, ServedJobIsHead
  <2>2. Head(bio_jobs).fd \in Files /\ Head(bio_jobs).offset \in Nat
    BY <2>1, Zenon DEF Job
  <2>3. disk' \in [Files -> File]
    BY <1>2, <2>2, DiskUpdates, Zenon DEF TypeOK, BioFsynced
  <2>4. /\ aof_bio_fsync_status' \in {"ok", "err"} /\ fsynced_reploff_pending' \in Nat
        /\ bio_worker' \in [state : {"idle", "fsync", "done"}, size : Nat]
    BY <1>2, <2>2, Zenon DEF TypeOK, BioFsynced
  <2>5. UNCHANGED <<pc, aof_fsync, aof_buf, aof_fd, aof_last_incr_size,
                    aof_last_incr_fsync_offset, timeVars, aof_last_write_status, replVars,
                    child_type, bio_jobs, clientVars, histVars>>
    BY <1>2, Zenon DEF BioFsynced
  <2> QED
    BY <2>3, <2>4, <2>5, SMTT(30) DEF TypeOK
<1>3. CASE BioFsyncFailed
  BY <1>3, SMTT(90) DEF TypeOK, BioFsyncFailed, Fault
<1>4. CASE BioRemoveJob
  <2>1. bio_jobs # <<>>
    BY <1>4, Zenon DEF BioRemoveJob, WorkerInv, ServedJobIsHead
  <2>2. bio_jobs' \in Seq(Job)
    BY <1>4, <2>1 DEF TypeOK, BioRemoveJob
  <2> QED
    BY <1>4, <2>2, SMTT(30) DEF TypeOK, BioRemoveJob
<1> QED
  BY <1>1, <1>2, <1>3, <1>4, Zenon DEF BioStep

\* Every step of the system keeps every variable in its type.
LEMMA TypeStep == TypeOK /\ WorkerInv /\ [Next]_vars => TypeOK'
<1> SUFFICES ASSUME TypeOK, WorkerInv, [Next]_vars PROVE TypeOK'
  BY Zenon
<1>1. CASE UNCHANGED vars
  BY <1>1, SMTT(30) DEF TypeOK, vars, allButPc, flushVars, fileVars, timeVars, bioVars, histVars,
                        offsetVars, replVars, clientVars
<1> QED
  BY <1>1, TypeClient, TypeLoop, TypeFlush, TypeBio, Zenon DEF Next, LoopStep

(***************************************************************************)
(* The accounting of the log and of the fsyncs.                            *)
(***************************************************************************)

\* The accounting that holds under every policy.
LogInv == LogAccounted /\ WorkerInv

\* What the fsync at the end of a flush does to the disk: it may extend the
\* durable part of the current file to the size it is given, and nothing else.
LEMMA TryFsyncEffect ==
  ASSUME NEW size, NEW d, TryFsync(size, d)
  PROVE  disk' \in {d, [d EXCEPT ![aof_fd].durable = size]}
  BY Zenon DEF TryFsync, FsyncNow, FsyncInBackground

\* flushAppendOnlyFile moves units from the buffer to the end of the current
\* file and may fsync that file; a short write is accounted for.
LEMMA FlushEffect ==
  ASSUME TypeOK, LogInv, Flush
  PROVE  /\ \A f \in Files \ {aof_fd} : disk'[f] = disk[f]
         /\ disk'[aof_fd].start = disk[aof_fd].start
         /\ disk'[aof_fd].size >= disk[aof_fd].size
         /\ pc' # "dead" => disk'[aof_fd].size = aof_last_incr_size'
         /\ aof_last_incr_size' + aof_buf' = aof_last_incr_size + aof_buf
         /\ disk'[aof_fd].durable \in {disk[aof_fd].durable, disk'[aof_fd].size}
<1>1. pc \in DOMAIN ReturnPc
  BY Zenon DEF Flush, FlushNothing, FlushPostponed, FlushFsyncOnly, FlushWrite, FlushWriteError
<1>2. disk[aof_fd].size = aof_last_incr_size
  BY <1>1, ReturnPcType, Zenon DEF LogInv, LogAccounted, SizeKnown
<1>3. /\ disk \in [Files -> File] /\ disk[aof_fd] \in File /\ aof_fd \in Files
      /\ aof_buf \in Nat /\ aof_last_incr_size \in Nat
  BY Zenon DEF TypeOK
<1>4. CASE FlushNothing \/ FlushPostponed
  BY <1>2, <1>3, <1>4 DEF FlushNothing, FlushPostponed, File
<1>5. ASSUME NEW n \in 0..MaxOffset, FlushWriteError(n)
      PROVE  /\ disk' = [disk EXCEPT ![aof_fd].size = @ + n]
             /\ n \in Nat
             /\ pc' # "dead" => aof_last_incr_size' = aof_last_incr_size + n
             /\ aof_last_incr_size' + aof_buf' = aof_last_incr_size + aof_buf
  <2>1. n \in Nat
    BY BoundsAssumption
  <2>2. CASE aof_fsync = "always"
    BY <1>3, <1>5, <2>1, <2>2, Zenon DEF FlushWriteError
  <2>3. CASE aof_fsync # "always"
    BY <1>3, <1>5, <2>1, <2>3 DEF FlushWriteError
  <2> QED
    BY <2>2, <2>3, Zenon
<1>6. CASE \E n \in 0..MaxOffset : FlushWriteError(n)
  BY <1>2, <1>3, <1>5, <1>6 DEF File
<1>7. CASE FlushFsyncOnly
  <2>1. disk' \in {disk, [disk EXCEPT ![aof_fd].durable = aof_last_incr_size]}
    BY <1>7, TryFsyncEffect, Zenon DEF FlushFsyncOnly
  <2> QED
    BY <1>2, <1>3, <1>7, <2>1 DEF FlushFsyncOnly, File
<1>8. CASE FlushWrite
  <2> DEFINE d == [disk EXCEPT ![aof_fd].size = @ + aof_buf]
  <2>1. disk' \in {d, [d EXCEPT ![aof_fd].durable = aof_last_incr_size + aof_buf]}
    BY <1>8, TryFsyncEffect, Zenon DEF FlushWrite
  <2>2. /\ d \in [Files -> File]
        /\ d[aof_fd].start = disk[aof_fd].start
        /\ d[aof_fd].size = aof_last_incr_size + aof_buf
        /\ d[aof_fd].durable = disk[aof_fd].durable
        /\ \A f \in Files \ {aof_fd} : d[f] = disk[f]
    BY <1>2, <1>3 DEF File
  <2>3. aof_last_incr_size' = aof_last_incr_size + aof_buf /\ aof_buf' = 0
    BY <1>8, Zenon DEF FlushWrite
  <2> HIDE DEF d
  <2> QED
    BY <1>2, <1>3, <2>1, <2>2, <2>3 DEF File
<1> QED
  BY <1>4, <1>6, <1>7, <1>8, Zenon DEF Flush

\* What the proofs below use of the types.
LEMMA TypeFacts ==
  ASSUME TypeOK
  PROVE  /\ aof_fd \in Files /\ Files \subseteq Nat /\ \A f \in 1..aof_fd : f \in Files
         /\ \A f \in Files : /\ disk[f].start \in Nat /\ disk[f].size \in Nat
                             /\ disk[f].durable \in Nat
         /\ aof_buf \in Nat /\ aof_last_incr_size \in Nat
         /\ bio_jobs \in Seq(Job) /\ bio_worker.size \in Nat
         /\ stream \in Seq(Nat) /\ master_repl_offset \in Nat
<1>1. aof_fd \in Files /\ disk \in [Files -> File] /\ aof_buf \in Nat /\ aof_last_incr_size \in Nat
  BY Zenon DEF TypeOK
<1>2. /\ bio_jobs \in Seq(Job) /\ bio_worker.size \in Nat
      /\ stream \in Seq(Nat) /\ master_repl_offset \in Nat
  BY Zenon DEF TypeOK
<1>3. /\ Files \subseteq Nat /\ \A f \in 1..aof_fd : f \in Files
      /\ \A f \in Files : disk[f].start \in Nat /\ disk[f].size \in Nat /\ disk[f].durable \in Nat
  BY <1>1, BoundsAssumption DEF Files, File
<1> QED
  BY <1>1, <1>2, <1>3, Zenon

\* The counters among them.
LEMMA CountFacts ==
  ASSUME TypeOK
  PROVE  /\ aof_fd \in Nat /\ aof_buf \in Nat /\ master_repl_offset \in Nat
         /\ Len(stream) \in Nat
<1>1. aof_fd \in Files /\ aof_buf \in Nat /\ master_repl_offset \in Nat /\ stream \in Seq(Nat)
  BY Zenon DEF TypeOK
<1>2. Files \subseteq Nat
  BY BoundsAssumption DEF Files
<1> QED
  BY <1>1, <1>2

\* A queue with one more job: the new one is last, the others keep their place.
LEMMA OneMoreJob ==
  ASSUME NEW q \in Seq(Job), NEW j, NEW i \in 1..Len(Append(q, j))
  PROVE  \/ Append(q, j)[i] = j
         \/ i \in 1..Len(q) /\ Append(q, j)[i] = q[i]
<1>1. Len(q) \in Nat /\ Len(Append(q, j)) = Len(q) + 1
  OBVIOUS
<1>2. CASE i = Len(q) + 1
  BY <1>1, <1>2
<1>3. CASE i \in 1..Len(q)
  BY <1>1, <1>3
<1> QED
  BY <1>1, <1>2, <1>3

\* The head of a non-empty queue is a job.
LEMMA HeadOfQueue ==
  ASSUME TypeOK, bio_jobs # <<>>
  PROVE  Head(bio_jobs).fd \in Files /\ Head(bio_jobs).offset \in Nat
<1>1. Head(bio_jobs) \in Job
  BY DEF TypeOK
<1> QED
  BY <1>1, Zenon DEF Job

\* A flush preserves the accounting.
LEMMA LogFlush ==
  ASSUME TypeOK, TypeOK', LogInv, Flush
  PROVE  LogInv'
<1> USE DEF LogInv
<1>1. aof_fd' = aof_fd /\ stream' = stream /\ bio_worker' = bio_worker
  BY Zenon DEF Flush, FlushNothing, FlushPostponed, FlushFsyncOnly, FlushWrite, FlushWriteError,
         flushLeaves
<1>2. bio_jobs' \in {bio_jobs, Append(bio_jobs, [type |-> "fsync", fd |-> aof_fd,
                                                 offset |-> master_repl_offset])}
  BY Zenon DEF Flush, FlushNothing, FlushPostponed, FlushFsyncOnly, FlushWrite, FlushWriteError,
         TryFsync, FsyncNow, FsyncInBackground
<1>3. /\ aof_fd \in Files /\ aof_buf \in Nat /\ aof_last_incr_size \in Nat
      /\ disk[aof_fd].start \in Nat /\ disk[aof_fd].size \in Nat /\ disk[aof_fd].durable \in Nat
  BY TypeFacts, Zenon
<1>4. disk'[aof_fd].size \in Nat /\ aof_last_incr_size' \in Nat /\ aof_buf' \in Nat
  <2>1. disk' \in [Files -> File] /\ aof_buf' \in Nat /\ aof_last_incr_size' \in Nat
    BY Zenon DEF TypeOK
  <2> QED
    BY <1>3, <2>1, Zenon DEF File
<1>5. \A f \in Files \ {aof_fd} : disk'[f] = disk[f]
  BY FlushEffect, Zenon
<1>6. /\ disk'[aof_fd].start = disk[aof_fd].start
      /\ disk'[aof_fd].size >= disk[aof_fd].size
      /\ pc' # "dead" => disk'[aof_fd].size = aof_last_incr_size'
      /\ aof_last_incr_size' + aof_buf' = aof_last_incr_size + aof_buf
      /\ disk'[aof_fd].durable \in {disk[aof_fd].durable, disk'[aof_fd].size}
  BY FlushEffect, Zenon
<1>7. SizeKnown' /\ LogLength'
  <2>1. disk[aof_fd].start + (aof_last_incr_size + aof_buf) = Len(stream)
    BY <1>3, SMTT(30) DEF LogAccounted, LogLength
  <2>2. \A a, x, y \in Nat : (a + x) + y = a + (x + y)
    OBVIOUS
  <2>3. disk'[aof_fd].start + aof_last_incr_size' + aof_buf'
          = disk[aof_fd].start + (aof_last_incr_size' + aof_buf')
    BY <1>3, <1>4, <1>6, <2>2
  <2>4. disk'[aof_fd].start + aof_last_incr_size' + aof_buf' = Len(stream)
    BY <1>6, <2>1, <2>3, Zenon
  <2> QED
    BY <1>1, <1>6, <2>4, Zenon DEF SizeKnown, LogLength
<1>8. Contiguous'
  <2>1. \A f \in 1..(aof_fd - 1) : f \in Files \ {aof_fd} /\ f + 1 \in Files
    BY <1>3, BoundsAssumption DEF Files
  <2>2. \A f \in Files : disk'[f].start = disk[f].start
    BY <1>5, <1>6, Zenon
  <2> QED
    BY <1>1, <1>5, <2>1, <2>2, Zenon DEF LogAccounted, Contiguous
<1>9. DurableWithin'
  BY <1>3, <1>4, <1>5, <1>6 DEF WorkerInv, DurableWithin
<1>10. JobsOfOpenFiles'
  <2>1. bio_jobs \in Seq(Job) /\ aof_fd \in Nat
    BY TypeFacts, Zenon
  <2> QED
    BY <1>1, <1>2, <2>1 DEF WorkerInv, JobsOfOpenFiles
<1>11. ServedJobIsHead'
  <2> SUFFICES ASSUME bio_worker.state # "idle"
               PROVE  bio_jobs' # <<>> /\ bio_worker'.size <= disk'[Head(bio_jobs').fd].size
    BY <1>1, Zenon DEF ServedJobIsHead
  <2>1. bio_jobs # <<>> /\ bio_worker.size <= disk[Head(bio_jobs).fd].size
    BY Zenon DEF WorkerInv, ServedJobIsHead
  <2>2. bio_jobs \in Seq(Job) /\ bio_worker.size \in Nat
    BY TypeFacts, Zenon
  <2>3. Head(bio_jobs') = Head(bio_jobs) /\ bio_jobs' # <<>>
    BY <1>2, <2>1, <2>2
  <2>4. Head(bio_jobs).fd \in Files /\ disk[Head(bio_jobs).fd].size \in Nat
    BY <2>1, HeadOfQueue, TypeFacts, Zenon
  <2>5. CASE Head(bio_jobs).fd = aof_fd
    BY <1>1, <1>3, <1>4, <1>6, <2>1, <2>2, <2>3, <2>5
  <2>6. CASE Head(bio_jobs).fd # aof_fd
    BY <1>1, <1>5, <2>1, <2>3, <2>4, <2>6, Zenon
  <2> QED
    BY <2>5, <2>6, Zenon
<1> QED
  BY <1>7, <1>8, <1>9, <1>10, <1>11, Zenon DEF LogAccounted, WorkerInv

\* Steps that leave the log, the files and the worker alone preserve the accounting.
LEMMA LogUnchanged ==
  ASSUME LogInv, pc = "dead" => pc' = "dead",
         UNCHANGED <<aof_buf, fileVars, bio_jobs, bio_worker, stream>>
  PROVE  LogInv'
  BY Zenon DEF LogInv, LogAccounted, SizeKnown, LogLength, Contiguous, fileVars,
         WorkerInv, ServedJobIsHead, JobsOfOpenFiles, DurableWithin

\* Extending the durable part of files, within their size, preserves the
\* accounting, whatever becomes of the worker.
LEMMA DiskSyncKeepsLog ==
  ASSUME TypeOK, LogAccounted, DurableWithin,
         UNCHANGED <<aof_buf, aof_fd, aof_last_incr_size, stream>>,
         pc = "dead" => pc' = "dead",
         \A f \in Files : /\ disk'[f].start = disk[f].start /\ disk'[f].size = disk[f].size
                          /\ disk'[f].durable <= disk[f].size
  PROVE  LogAccounted' /\ DurableWithin'
<1>1. aof_fd \in Files /\ \A f \in 1..(aof_fd - 1) : f \in Files /\ f + 1 \in Files
  BY TypeFacts, BoundsAssumption DEF Files
<1>2. SizeKnown' /\ LogLength'
  BY <1>1, Zenon DEF LogAccounted, SizeKnown, LogLength
<1>3. Contiguous'
  BY <1>1, Zenon DEF LogAccounted, Contiguous
<1>4. DurableWithin'
  BY Zenon DEF DurableWithin
<1> QED
  BY <1>2, <1>3, <1>4, Zenon DEF LogAccounted

\* Propagating a command adds one unit to the buffer and one to the log.
LEMMA LogWriteCommand ==
  ASSUME TypeOK, LogInv, NEW c \in Client, WriteCommand(c)
  PROVE  LogInv'
<1> USE DEF LogInv
<1>1. /\ aof_buf' = aof_buf + 1
      /\ stream' = Append(stream, master_repl_offset + 1)
      /\ UNCHANGED <<pc, aof_fd, aof_last_incr_size, disk, bio_jobs, bio_worker>>
  BY Zenon DEF WriteCommand, feedAppendOnlyFile, fileVars, bioVars
<1>2. SizeKnown' /\ Contiguous' /\ WorkerInv'
  BY <1>1, Zenon DEF LogAccounted, SizeKnown, Contiguous, WorkerInv, ServedJobIsHead, JobsOfOpenFiles,
              DurableWithin
<1>3. LogLength'
  <2>1. Len(stream') = Len(stream) + 1
    BY <1>1, TypeFacts
  <2>2. /\ disk[aof_fd].start \in Nat /\ aof_last_incr_size \in Nat /\ aof_buf \in Nat
        /\ Len(stream) \in Nat
    BY TypeFacts
  <2> DEFINE s == disk[aof_fd].start + aof_last_incr_size
  <2>3. s \in Nat
    BY <2>2
  <2>4. s + aof_buf = Len(stream)
    BY Zenon DEF LogAccounted, LogLength
  <2> HIDE DEF s
  <2>5. s + (aof_buf + 1) = Len(stream) + 1
    BY <2>2, <2>3, <2>4
  <2> QED
    BY <1>1, <2>1, <2>5, Zenon DEF LogLength, s
<1> QED
  BY <1>2, <1>3, Zenon DEF LogAccounted

\* A rewrite's new INCR file starts where the old one ends.
LEMMA LogOpenNewIncr ==
  ASSUME TypeOK, LogInv, openNewIncrAofForAppend
  PROVE  LogInv'
<1> USE DEF LogInv
<1> DEFINE new == [start |-> disk[aof_fd].start + disk[aof_fd].size, size |-> 0, durable |-> 0]
<1>1. /\ aof_fd' = aof_fd + 1 /\ aof_last_incr_size' = 0 /\ pc = "rewrite_open"
      /\ disk' = [disk EXCEPT ![aof_fd + 1] = new]
      /\ bio_jobs' = Append(bio_jobs, [type |-> "close", fd |-> aof_fd,
                                       offset |-> master_repl_offset])
      /\ UNCHANGED <<aof_buf, bio_worker, stream>>
  BY Zenon DEF openNewIncrAofForAppend
<1>2. aof_fd \in Files /\ aof_fd + 1 \in Files /\ disk \in [Files -> File] /\ Files \subseteq Nat
  BY Constructors, TypeFacts, Zenon DEF TypeOK, openNewIncrAofForAppend
<1>3. disk'[aof_fd + 1] = new /\ \A f \in Files \ {aof_fd + 1} : disk'[f] = disk[f]
  BY <1>1, <1>2, Zenon
<1>4. /\ disk[aof_fd].start \in Nat /\ disk[aof_fd].size \in Nat
      /\ aof_last_incr_size \in Nat /\ aof_buf \in Nat
  BY TypeFacts, Zenon
<1>5. disk[aof_fd].size = aof_last_incr_size
  BY <1>1, Zenon DEF LogAccounted, SizeKnown
<1>6. SizeKnown'
  BY <1>1, <1>3 DEF SizeKnown
<1>7. LogLength'
  BY <1>1, <1>3, <1>4, <1>5 DEF LogAccounted, LogLength
<1>8. Contiguous'
  <2>1. \A f \in 1..aof_fd : f \in Files \ {aof_fd + 1}
    BY <1>2, BoundsAssumption DEF Files
  <2>2. disk'[aof_fd].start + disk'[aof_fd].size = disk'[aof_fd + 1].start
    BY <1>2, <1>3, <1>4
  <2>3. ASSUME NEW f \in 1..(aof_fd - 1)
        PROVE  disk'[f].start + disk'[f].size = disk'[f + 1].start
    <3>1. f \in 1..aof_fd /\ f + 1 \in 1..aof_fd
      BY <1>2
    <3>2. disk[f].start + disk[f].size = disk[f + 1].start
      BY Zenon DEF LogAccounted, Contiguous
    <3> QED
      BY <1>3, <2>1, <3>1, <3>2, Zenon
  <2>4. \A f \in 1..aof_fd : f = aof_fd \/ f \in 1..(aof_fd - 1)
    BY <1>2
  <2> QED
    BY <1>1, <1>2, <2>2, <2>3, <2>4 DEF Contiguous
<1>9. DurableWithin'
  BY <1>3 DEF WorkerInv, DurableWithin
<1>10. JobsOfOpenFiles'
  <2>1. bio_jobs \in Seq(Job) /\ aof_fd \in Nat
    BY TypeFacts, Zenon
  <2>2. \A i \in 1..Len(bio_jobs) : bio_jobs[i] \in Job
    BY <2>1
  <2>3. \A i \in 1..Len(bio_jobs) : bio_jobs[i].fd \in Nat /\ bio_jobs[i].fd <= aof_fd
    BY <2>2 DEF Job, Files, WorkerInv, JobsOfOpenFiles
  <2>4. \A i \in 1..Len(bio_jobs') : bio_jobs'[i].fd <= aof_fd + 1
    BY <1>1, <2>1, <2>3
  <2> QED
    BY <1>1, <2>4, Zenon DEF JobsOfOpenFiles
<1>11. ServedJobIsHead'
  <2> SUFFICES ASSUME bio_worker.state # "idle"
               PROVE  bio_jobs' # <<>> /\ bio_worker.size <= disk'[Head(bio_jobs').fd].size
    BY <1>1, Zenon DEF ServedJobIsHead
  <2>1. bio_jobs # <<>> /\ bio_worker.size <= disk[Head(bio_jobs).fd].size
    BY Zenon DEF WorkerInv, ServedJobIsHead
  <2>a. bio_jobs \in Seq(Job)
    BY Zenon DEF TypeOK
  <2>2. Head(bio_jobs') = Head(bio_jobs) /\ bio_jobs' # <<>> /\ Head(bio_jobs) = bio_jobs[1]
    BY <1>1, <2>1, <2>a
  <2>3. 1 \in 1..Len(bio_jobs)
    BY <2>1, TypeFacts
  <2>4. Head(bio_jobs).fd \in Files
    BY <2>1, HeadOfQueue, Zenon
  <2>5. Head(bio_jobs).fd <= aof_fd
    BY <2>2, <2>3, Zenon DEF WorkerInv, JobsOfOpenFiles
  <2>6. disk'[Head(bio_jobs).fd] = disk[Head(bio_jobs).fd]
    <3>1. Head(bio_jobs).fd \in Nat /\ aof_fd \in Nat
      BY <1>2, <2>4, Zenon
    <3>2. Head(bio_jobs).fd # aof_fd + 1
      BY <2>5, <3>1
    <3> QED
      BY <1>3, <2>4, <3>2, Zenon
  <2> QED
    BY <2>1, <2>2, <2>6, Zenon
<1> QED
  BY <1>6, <1>7, <1>8, <1>9, <1>10, <1>11, Zenon DEF LogAccounted, WorkerInv

\* The fsync of finishShutdown only extends the durable part of the current file.
LEMMA LogFinishShutdown ==
  ASSUME TypeOK, LogInv, finishShutdown
  PROVE  LogInv'
<1> USE DEF LogInv
<1>1. /\ UNCHANGED <<aof_buf, aof_fd, aof_last_incr_size, bio_jobs, bio_worker, stream>>
      /\ pc # "dead" /\ pc' # "dead"
      /\ disk' \in {disk, [disk EXCEPT ![aof_fd].durable = disk[aof_fd].size]}
  BY Zenon DEF finishShutdown, bioVars
<1>2. \A f \in Files : /\ disk'[f].start = disk[f].start /\ disk'[f].size = disk[f].size
                       /\ disk'[f].durable \in {disk[f].durable, disk[f].size}
  <2>1. disk \in [Files -> File]
    BY Zenon DEF TypeOK
  <2> QED
    BY <1>1, <2>1 DEF File
<1>3. LogAccounted' /\ DurableWithin'
  <2>1. \A f \in Files : disk[f].durable <= disk[f].size /\ disk[f].size \in Nat
    BY TypeFacts, Zenon DEF WorkerInv, DurableWithin
  <2>2. \A f \in Files : disk'[f].durable <= disk[f].size
    BY <1>2, <2>1
  <2> QED
    BY <1>1, <1>2, <2>2, DiskSyncKeepsLog, Zenon DEF WorkerInv
<1>4. JobsOfOpenFiles'
  BY <1>1, Zenon DEF WorkerInv, JobsOfOpenFiles
<1>5. ServedJobIsHead'
  BY <1>1, <1>2, HeadOfQueue, Zenon DEF WorkerInv, ServedJobIsHead
<1> QED
  BY <1>3, <1>4, <1>5, Zenon DEF WorkerInv

\* The steps of the bio worker preserve the accounting.
LEMMA LogBio ==
  ASSUME TypeOK, LogInv, BioStep
  PROVE  LogInv'
<1> USE DEF LogInv, bioLeaves, flushVars, fileVars
<1>1. CASE BioTakeJob
  <2>1. /\ UNCHANGED <<pc, aof_buf, aof_fd, aof_last_incr_size, disk, bio_jobs, stream>>
        /\ bio_jobs # <<>>
        /\ bio_worker' = [state |-> "fsync", size |-> disk[Head(bio_jobs).fd].size]
    BY <1>1, Zenon DEF BioTakeJob
  <2>2. LogAccounted' /\ JobsOfOpenFiles' /\ DurableWithin'
    BY <2>1, Zenon DEF LogAccounted, SizeKnown, LogLength, Contiguous, WorkerInv, JobsOfOpenFiles,
                DurableWithin
  <2>3. disk[Head(bio_jobs).fd].size \in Nat
    BY <2>1, HeadOfQueue, TypeFacts, Zenon
  <2>4. ServedJobIsHead'
    BY <2>1, <2>3 DEF ServedJobIsHead
  <2> QED
    BY <2>2, <2>4, Zenon DEF WorkerInv
<1>2. CASE BioFsynced
  <2> DEFINE f == Head(bio_jobs).fd
  <2>1. /\ UNCHANGED <<pc, aof_buf, aof_fd, aof_last_incr_size, bio_jobs, stream>>
        /\ bio_worker' = [bio_worker EXCEPT !.state = "done"]
        /\ bio_worker.state # "idle"
    BY <1>2, Zenon DEF BioFsynced, histVars
  <2>9. disk' = [disk EXCEPT ![f].durable = IF @ < bio_worker.size THEN bio_worker.size ELSE @]
    BY <1>2, Zenon DEF BioFsynced
  <2>2. bio_jobs # <<>> /\ bio_worker.size <= disk[f].size
    BY <2>1, Zenon DEF WorkerInv, ServedJobIsHead
  <2>3. f \in Files /\ disk \in [Files -> File]
    BY <2>2, HeadOfQueue, Zenon DEF TypeOK
  <2> HIDE DEF f
  <2>4. \A g \in Files : /\ disk'[g].start = disk[g].start /\ disk'[g].size = disk[g].size
                         /\ disk'[g].durable \in {disk[g].durable, disk[f].durable, bio_worker.size}
                         /\ g # f => disk'[g] = disk[g]
    BY <2>3, <2>9, Zenon DEF File
  <2>5. \A g \in Files : disk'[g].durable <= disk[g].size
    <3>1. disk[f].durable <= disk[f].size /\ disk'[f].durable <= disk[f].size
      BY <2>2, <2>3, <2>4, Zenon DEF WorkerInv, DurableWithin
    <3>2. \A g \in Files \ {f} : disk'[g].durable <= disk[g].size
      BY <2>4, Zenon DEF WorkerInv, DurableWithin
    <3> QED
      BY <3>1, <3>2, Zenon
  <2>6. LogAccounted' /\ DurableWithin'
    BY <2>1, <2>4, <2>5, DiskSyncKeepsLog, Zenon DEF WorkerInv
  <2>7. JobsOfOpenFiles'
    BY <2>1, Zenon DEF WorkerInv, JobsOfOpenFiles
  <2>8. ServedJobIsHead'
    <3>1. bio_worker'.size = bio_worker.size
      BY <2>1, Zenon DEF TypeOK
    <3> QED
      BY <2>1, <2>2, <2>3, <2>4, <3>1, Zenon DEF ServedJobIsHead, f
  <2> QED
    BY <2>6, <2>7, <2>8, Zenon DEF WorkerInv
<1>3. CASE BioFsyncFailed
  <2>1. /\ UNCHANGED <<pc, aof_buf, aof_fd, aof_last_incr_size, disk, bio_jobs, stream>>
        /\ bio_worker.state # "idle" /\ bio_worker'.size = bio_worker.size
    BY <1>3, Zenon DEF BioFsyncFailed, TypeOK
  <2> QED
    BY <2>1, Zenon DEF LogAccounted, SizeKnown, LogLength, Contiguous, WorkerInv, ServedJobIsHead,
                JobsOfOpenFiles, DurableWithin
<1>4. CASE BioRemoveJob
  <2>1. /\ UNCHANGED <<pc, aof_buf, aof_fd, aof_last_incr_size, disk, stream>>
        /\ bio_worker' = Idle /\ bio_jobs' = Tail(bio_jobs) /\ bio_worker.state # "idle"
    BY <1>4, Zenon DEF BioRemoveJob
  <2>2. bio_jobs # <<>> /\ bio_jobs \in Seq(Job)
    BY <2>1, TypeFacts, Zenon DEF WorkerInv, ServedJobIsHead
  <2>3. \A i \in 1..Len(bio_jobs') : i + 1 \in 1..Len(bio_jobs) /\ bio_jobs'[i] = bio_jobs[i + 1]
    BY <2>1, <2>2
  <2>4. JobsOfOpenFiles'
    BY <2>1, <2>3, Zenon DEF WorkerInv, JobsOfOpenFiles
  <2>5. ServedJobIsHead'
    BY <2>1, Zenon DEF ServedJobIsHead
  <2>6. LogAccounted' /\ DurableWithin'
    BY <2>1, Zenon DEF LogAccounted, SizeKnown, LogLength, Contiguous, WorkerInv, DurableWithin
  <2> QED
    BY <2>4, <2>5, <2>6, Zenon DEF WorkerInv
<1> QED
  BY <1>1, <1>2, <1>3, <1>4, Zenon DEF BioStep

\* The accounting holds initially.
LEMMA LogInit == Init => LogInv
<1> SUFFICES ASSUME Init PROVE LogInv
  BY Zenon
<1>1. \A f \in Files : disk[f] = NoFile
  BY Zenon DEF Init, Files
<1>2. /\ pc = "events" /\ aof_fd = 1 /\ aof_buf = 0 /\ aof_last_incr_size = 0
      /\ stream = <<>> /\ bio_jobs = <<>> /\ bio_worker = Idle
  BY Zenon DEF Init
<1>3. disk[1] = NoFile
  BY <1>1, Constructors, Zenon
<1> QED
  BY <1>1, <1>2, <1>3 DEF LogInv, LogAccounted, SizeKnown, LogLength, Contiguous, WorkerInv,
                          ServedJobIsHead, JobsOfOpenFiles, DurableWithin, NoFile

\* Every step preserves the accounting.
LEMMA LogStep == TypeOK /\ TypeOK' /\ LogInv /\ [Next]_vars => LogInv'
<1> SUFFICES ASSUME TypeOK, TypeOK', LogInv, [Next]_vars PROVE LogInv'
  BY Zenon
<1>1. CASE Flush
  BY <1>1, LogFlush, Zenon
<1>2. CASE \E c \in Client : WriteCommand(c)
  BY <1>2, LogWriteCommand, Zenon
<1>3. CASE openNewIncrAofForAppend \/ finishShutdown \/ BioStep
  BY <1>3, LogOpenNewIncr, LogFinishShutdown, LogBio, Zenon
<1>4. CASE \/ UNCHANGED vars
           \/ \E c \in Client : ReplOnlyCommand(c) \/ waitaofCommand(c)
           \/ \E p \in Policies : updateAppendFsync(p)
           \/ \E timedOut \in SUBSET Client : blockedBeforeSleep(timedOut)
           \/ EndOfEvents \/ UpdateFsyncedReploff \/ handleClientsWithPendingWrites
           \/ bioDrainWorker \/ OpenNewIncrFails \/ serverCron \/ Tick \/ ForkOrReapChild
           \/ rewriteAppendOnlyFileBackground \/ Shutdown
  <2>1. /\ pc = "dead" => pc' = "dead"
        /\ UNCHANGED <<aof_buf, fileVars, bio_jobs, bio_worker, stream>>
    BY <1>4, Zenon DEF vars, allButPc, flushVars, bioVars, histVars, Ready,
                ReplOnlyCommand, waitaofCommand, updateAppendFsync, blockedBeforeSleep, EndOfEvents,
                UpdateFsyncedReploff, handleClientsWithPendingWrites, bioDrainWorker,
                OpenNewIncrFails, serverCron, Tick, ForkOrReapChild,
                rewriteAppendOnlyFileBackground, Shutdown
  <2> QED
    BY <2>1, LogUnchanged, Zenon
<1> QED
  BY <1>1, <1>2, <1>3, <1>4, Zenon DEF Next, ClientStep, LoopStep

\* Types and accounting together are inductive.
LEMMA LogInductive ==
  /\ Init => TypeOK /\ LogInv
  /\ TypeOK /\ LogInv /\ [Next]_vars => TypeOK' /\ LogInv'
<1>1. Init => TypeOK /\ LogInv
  BY TypeInit, LogInit, Zenon
<1>2. ASSUME TypeOK, LogInv, [Next]_vars PROVE TypeOK' /\ LogInv'
  <2>1. TypeOK'
    BY <1>2, TypeStep, Zenon DEF LogInv
  <2> QED
    BY <1>2, <2>1, LogStep, Zenon
<1> QED
  BY <1>1, <1>2, Zenon

\* Every variable of the write path keeps its type.
THEOREM TypeCorrect == Spec => []TypeOK
  BY LogInductive, PTL DEF Spec

\* Under every policy, and whatever the disk does, the INCR files and aof_buf
\* together are exactly the commands fed to the AOF, in order.
THEOREM LogCorrect == Spec => []LogAccounted
<1>1. LogInv => LogAccounted
  BY Zenon DEF LogInv
<1> QED
  BY <1>1, LogInductive, PTL DEF Spec

\* The worker serves the head of its queue, for files already opened, and no
\* fsync covers more than its file holds.
THEOREM WorkerCorrect == Spec => []WorkerInv
<1>1. LogInv => WorkerInv
  BY Zenon DEF LogInv
<1> QED
  BY <1>1, LogInductive, PTL DEF Spec

(***************************************************************************)
(* The contract of appendfsync always.                                     *)
(***************************************************************************)

\* The safe offsets are closed downwards.
LEMMA SafeDown ==
  ASSUME TypeOK, NEW o \in SafeOffsets, NEW p \in Nat, p <= o
  PROVE  p \in SafeOffsets
<1>1. \A i \in 1..Len(stream) : stream[i] \in Nat
  BY TypeFacts
<1>2. master_repl_offset \in Nat
  BY TypeFacts, Zenon
<1> QED
  BY <1>1, <1>2 DEF SafeOffsets

\* With an empty buffer the current offset is safe.
LEMMA SafeWhenFlushed ==
  ASSUME TypeOK, aof_buf' = 0, stream' = stream, master_repl_offset' = master_repl_offset
  PROVE  master_repl_offset \in SafeOffsets'
<1>1. master_repl_offset \in Nat /\ Len(stream) \in Nat
  BY TypeFacts
<1> QED
  BY <1>1 DEF SafeOffsets

\* Safe offsets stay safe when the buffer shrinks or a command is propagated.
LEMMA SafeGrows ==
  ASSUME TypeOK, aof_buf' \in Nat, master_repl_offset' \in Nat,
         \/ /\ stream' = stream /\ master_repl_offset' >= master_repl_offset
            /\ aof_buf' <= aof_buf
         \/ /\ stream' = Append(stream, master_repl_offset + 1)
            /\ master_repl_offset' = master_repl_offset + 1 /\ aof_buf' = aof_buf + 1
  PROVE  SafeOffsets \subseteq SafeOffsets'
<1>1. aof_buf \in Nat /\ master_repl_offset \in Nat /\ stream \in Seq(Nat)
  BY TypeFacts, Zenon
<1> SUFFICES ASSUME NEW o \in SafeOffsets PROVE o \in SafeOffsets'
  BY Zenon
<1>2. /\ o \in 0..master_repl_offset
      /\ \A i \in 1..Len(stream) : stream[i] <= o => i <= Len(stream) - aof_buf
  BY Zenon DEF SafeOffsets
<1>3. o \in 0..master_repl_offset'
  BY <1>1, <1>2
<1>4. ASSUME NEW i \in 1..Len(stream'), stream'[i] <= o
      PROVE  i <= Len(stream') - aof_buf'
  <2>1. CASE /\ stream' = stream /\ aof_buf' <= aof_buf
    BY <1>1, <1>2, <1>4, <2>1
  <2>2. CASE /\ stream' = Append(stream, master_repl_offset + 1)
             /\ aof_buf' = aof_buf + 1
    <3>1. Len(stream') = Len(stream) + 1
      BY <1>1, <2>2
    <3>2. i # Len(stream) + 1
      BY <1>1, <1>2, <1>4, <2>2
    <3>3. i \in 1..Len(stream) /\ stream'[i] = stream[i]
      BY <1>1, <2>2, <3>1, <3>2
    <3> QED
      BY <1>1, <1>2, <1>4, <2>2, <3>1, <3>3
  <2> QED
    BY <2>1, <2>2, Zenon
<1> QED
  BY <1>3, <1>4, Zenon DEF SafeOffsets

\* What is durable stays durable while files keep their place and their durable part.
LEMMA DurableGrows ==
  ASSUME TypeOK, aof_fd' \in Nat, aof_fd' >= aof_fd,
         \A f \in 1..aof_fd : /\ disk'[f].start = disk[f].start
                              /\ disk'[f].durable \in Nat
                              /\ disk'[f].durable >= disk[f].durable,
         NEW i \in Nat, Durable(i)
  PROVE  Durable(i)'
<1>1. PICK f \in 1..aof_fd : disk[f].start < i /\ i <= disk[f].start + disk[f].durable
  BY Zenon DEF Durable
<1>2. f \in 1..aof_fd' /\ aof_fd \in Nat
  BY <1>1, TypeFacts
<1>3. disk[f].start \in Nat /\ disk[f].durable \in Nat
  BY <1>1, TypeFacts, Zenon
<1>4. disk'[f].start < i /\ i <= disk'[f].start + disk'[f].durable
  BY <1>1, <1>3
<1> QED
  BY <1>2, <1>4, Zenon DEF Durable

\* The published and the promised offsets stay safe.
LEMMA OffsetsKept ==
  ASSUME TypeOK, OffsetsSafe, SafeOffsets \subseteq SafeOffsets',
         fsynced_reploff_pending' \in SafeOffsets',
         fsynced_reploff' \in {fsynced_reploff, fsynced_reploff_pending},
         \A i \in 1..Len(bio_jobs') : bio_jobs'[i].offset \in SafeOffsets',
         \A c \in Client : (out'[c].kind = "waitaof" /\ out'[c].local = 1) =>
            \/ out'[c] = out[c]
            \/ out'[c].off \in Nat /\ out'[c].off <= fsynced_reploff
  PROVE  OffsetsSafe'
<1>1. fsynced_reploff' \in SafeOffsets'
  BY Zenon DEF OffsetsSafe
<1>2. ASSUME NEW c \in Client, out'[c].kind = "waitaof", out'[c].local = 1
      PROVE  out'[c].off \in SafeOffsets'
  <2>1. CASE out'[c] = out[c]
    BY <1>2, <2>1, Zenon DEF OffsetsSafe
  <2>2. CASE out'[c].off \in Nat /\ out'[c].off <= fsynced_reploff
    <3>1. fsynced_reploff \in SafeOffsets
      BY Zenon DEF OffsetsSafe
    <3>2. out'[c].off \in SafeOffsets
      BY <2>2, <3>1, SafeDown, Zenon
    <3> QED
      BY <3>2, Zenon
  <2> QED
    BY <1>2, <2>1, <2>2, Zenon
<1> QED
  BY <1>1, <1>2, Zenon DEF OffsetsSafe

\* appendfsync always, with no exemption during rewrites.
AlwaysOnly == Policies = {"always"} /\ NoFsyncOnRewrite = FALSE

\* flushAppendOnlyFile under policy always: it exits the process, or it leaves
\* the buffer empty and everything it wrote durable.
LEMMA AlwaysFlushEffect ==
  ASSUME AlwaysOnly, TypeOK, LogInv, Flush
  PROVE  /\ UNCHANGED <<stream, master_repl_offset, fsynced_reploff, bio_jobs, out>>
         /\ aof_buf' \in {0, aof_buf}
         /\ pc' # "dead" => aof_buf' = 0
         /\ fsynced_reploff_pending' # fsynced_reploff_pending =>
              aof_buf' = 0 /\ fsynced_reploff_pending' = master_repl_offset
         /\ \/ pc' = "dead"
            \/ disk' = disk /\ aof_buf = 0
            \/ disk'[aof_fd].durable = disk'[aof_fd].size
<1>1. aof_fsync = "always" /\ ~NoFsyncOnRewrite
  BY Zenon DEF AlwaysOnly, TypeOK
<1> USE DEF flushLeaves, replVars, clientVars
<1>2. CASE FlushNothing
  BY <1>1, <1>2, Zenon DEF FlushNothing
<1>3. CASE FlushPostponed
  BY <1>1, <1>3, Zenon DEF FlushPostponed, Postpone
<1>4. CASE \E n \in 0..MaxOffset : FlushWriteError(n)
  <2>1. PICK n \in 0..MaxOffset : FlushWriteError(n)
    BY <1>4, Zenon
  <2>2. /\ pc' = "dead"
        /\ UNCHANGED <<aof_buf, stream, master_repl_offset, fsynced_reploff,
                       fsynced_reploff_pending, bio_jobs, out>>
    BY <1>1, <2>1, Zenon DEF FlushWriteError
  <2> QED
    BY <2>2, Zenon
<1>5. disk \in [Files -> File] /\ aof_fd \in Files
  BY Zenon DEF TypeOK
<1>6. CASE FlushFsyncOnly
  <2>1. FsyncNow(aof_last_incr_size, disk) /\ UNCHANGED <<aof_buf, stream, replVars, out>>
        /\ aof_buf = 0 /\ pc # "dead"
    BY <1>1, <1>6, ReturnPcType, Zenon DEF FlushFsyncOnly, TryFsync
  <2>2. disk[aof_fd].size = aof_last_incr_size
    BY <2>1, Zenon DEF LogInv, LogAccounted, SizeKnown
  <2> QED
    BY <1>5, <2>1, <2>2, Zenon DEF FsyncNow, File
<1>7. CASE FlushWrite
  <2> DEFINE d == [disk EXCEPT ![aof_fd].size = @ + aof_buf]
  <2>1. FsyncNow(aof_last_incr_size + aof_buf, d) /\ UNCHANGED <<stream, replVars, out>>
        /\ aof_buf' = 0 /\ pc # "dead"
    BY <1>1, <1>7, ReturnPcType, Zenon DEF FlushWrite, TryFsync
  <2>2. d \in [Files -> File] /\ d[aof_fd].size = aof_last_incr_size + aof_buf
    <3>1. disk[aof_fd].size = aof_last_incr_size
      BY <2>1, Zenon DEF LogInv, LogAccounted, SizeKnown
    <3>2. d \in [Files -> File]
      BY DiskUpdates, Zenon DEF TypeOK
    <3> QED
      BY <1>5, <3>1, <3>2, Zenon DEF File
  <2> HIDE DEF d
  <2>3. CASE disk' = [d EXCEPT ![aof_fd].durable = aof_last_incr_size + aof_buf]
    <3>1. disk'[aof_fd].durable = disk'[aof_fd].size
      BY <1>5, <2>2, <2>3, Zenon DEF File
    <3> QED
      BY <2>1, <3>1, Zenon DEF FsyncNow
  <2>4. CASE pc' = "dead"
    BY <2>1, <2>4, Zenon DEF FsyncNow
  <2>5. \/ disk' = [d EXCEPT ![aof_fd].durable = aof_last_incr_size + aof_buf]
        \/ pc' = "dead"
    BY <2>1, Zenon DEF FsyncNow
  <2> QED
    BY <2>3, <2>4, <2>5, Zenon
<1> QED
  BY <1>2, <1>3, <1>4, <1>6, <1>7, Zenon DEF Flush

\* A flush under policy always preserves the contract's invariant.
LEMMA AlwaysFlush ==
  ASSUME AlwaysOnly, TypeOK, TypeOK', LogInv, LogInv', AlwaysInv, Flush
  PROVE  AlwaysInv'
<1>1. /\ UNCHANGED <<stream, master_repl_offset, fsynced_reploff, bio_jobs, out>>
      /\ aof_buf' \in {0, aof_buf}
      /\ pc' # "dead" => aof_buf' = 0
      /\ fsynced_reploff_pending' # fsynced_reploff_pending =>
           aof_buf' = 0 /\ fsynced_reploff_pending' = master_repl_offset
      /\ \/ pc' = "dead"
         \/ disk' = disk /\ aof_buf = 0
         \/ disk'[aof_fd].durable = disk'[aof_fd].size
  BY AlwaysFlushEffect, Zenon
<1>2. /\ aof_buf \in Nat /\ aof_fd \in Files /\ master_repl_offset \in Nat /\ Len(stream) \in Nat
      /\ aof_buf' \in Nat /\ Files \subseteq Nat /\ \A f \in 1..aof_fd : f \in Files
  BY <1>1, TypeFacts
<1>3. FlushedBeforeUse'
  BY <1>1, Zenon DEF FlushedBeforeUse
<1>4. OffsetsSafe'
  <2>1. SafeOffsets \subseteq SafeOffsets'
    BY <1>1, <1>2, SafeGrows
  <2>2. aof_buf' = 0 => master_repl_offset \in SafeOffsets'
    BY <1>1, SafeWhenFlushed, Zenon
  <2>3. OffsetsSafe
    BY Zenon DEF AlwaysInv
  <2>4. fsynced_reploff_pending' \in SafeOffsets'
    BY <1>1, <2>1, <2>2, <2>3, Zenon DEF OffsetsSafe
  <2>5. \A i \in 1..Len(bio_jobs') : bio_jobs'[i].offset \in SafeOffsets'
    BY <1>1, <2>1, <2>3, Zenon DEF OffsetsSafe
  <2> QED
    BY <1>1, <2>1, <2>3, <2>4, <2>5, OffsetsKept, Zenon
<1>5. WrittenDurable'
  <2> SUFFICES ASSUME pc' # "dead", NEW i \in 1..Len(stream)
               PROVE  Durable(i)'
    BY <1>1, <1>2 DEF WrittenDurable
  <2>1. pc # "dead" /\ i \in Nat
    BY ReturnPcType, <1>2 DEF Flush, FlushNothing, FlushPostponed, FlushFsyncOnly, FlushWrite,
                              FlushWriteError
  <2>2. aof_fd' = aof_fd
    BY Zenon DEF Flush, FlushNothing, FlushPostponed, FlushFsyncOnly, FlushWrite, FlushWriteError,
           flushLeaves
  <2>3. CASE disk' = disk /\ aof_buf = 0
    <3>1. Durable(i)
      BY <1>2, <2>1, <2>3 DEF AlwaysInv, WrittenDurable
    <3> QED
      BY <2>2, <2>3, <3>1, Zenon DEF Durable
  <2>4. CASE disk'[aof_fd].durable = disk'[aof_fd].size
    <3>1. /\ \A f \in Files \ {aof_fd} : disk'[f] = disk[f]
          /\ disk'[aof_fd].start = disk[aof_fd].start
          /\ disk'[aof_fd].size >= disk[aof_fd].size
      BY FlushEffect, Zenon
    <3>2. /\ \A f \in Files : disk[f].start \in Nat /\ disk[f].durable \in Nat
          /\ disk[aof_fd].size \in Nat /\ disk'[aof_fd].size \in Nat
      <4>1. disk' \in [Files -> File]
        BY Zenon DEF TypeOK
      <4> QED
        BY <1>2, <4>1, TypeFacts, Zenon DEF File
    <3>3. CASE i \in 1..(Len(stream) - aof_buf)
      <4>1. Durable(i)
        BY <2>1, <3>3, Zenon DEF AlwaysInv, WrittenDurable
      <4>2. disk[aof_fd].durable <= disk[aof_fd].size
        BY <1>2, Zenon DEF LogInv, WorkerInv, DurableWithin
      <4>3. disk'[aof_fd].durable \in Nat /\ disk'[aof_fd].durable >= disk[aof_fd].durable
        BY <1>2, <2>4, <3>1, <3>2, <4>2
      <4>4. \A f \in 1..aof_fd : /\ disk'[f].start = disk[f].start
                                 /\ disk'[f].durable \in Nat
                                 /\ disk'[f].durable >= disk[f].durable
        BY <1>2, <3>1, <3>2, <4>3
      <4>5. aof_fd' \in Nat /\ aof_fd' >= aof_fd
        BY <1>2, <2>2
      <4> QED
        BY <2>1, <4>1, <4>4, <4>5, DurableGrows, Zenon
    <3>4. CASE i \notin 1..(Len(stream) - aof_buf)
      <4>1. disk[aof_fd].start < i
        <5>1. disk[aof_fd].start + aof_last_incr_size + aof_buf = Len(stream)
          BY Zenon DEF LogInv, LogAccounted, LogLength
        <5>2. aof_last_incr_size \in Nat
          BY TypeFacts, Zenon
        <5> QED
          BY <1>2, <2>1, <3>2, <3>4, <5>1, <5>2, SMTT(30)
      <4>2. i <= disk'[aof_fd].start + disk'[aof_fd].durable
        <5>1. disk'[aof_fd].start + aof_last_incr_size' + aof_buf' = Len(stream)
          BY <1>1, <2>2, Zenon DEF LogInv, LogAccounted, LogLength
        <5>2. disk'[aof_fd].size = aof_last_incr_size' /\ aof_buf' = 0
          BY <1>1, <2>2, Zenon DEF LogInv, LogAccounted, SizeKnown
        <5> QED
          BY <1>2, <2>1, <2>4, <3>1, <3>2, <5>1, <5>2
      <4>3. aof_fd \in 1..aof_fd'
        BY <1>2, <2>2, BoundsAssumption DEF Files
      <4> QED
        BY <2>2, <3>1, <4>1, <4>2, <4>3, Zenon DEF Durable
    <3> QED
      BY <3>3, <3>4, Zenon
  <2> QED
    BY <1>1, <2>3, <2>4, Zenon
<1> QED
  BY <1>3, <1>4, <1>5, Zenon DEF AlwaysInv

\* Steps outside the flush that leave the log, the current file's position and
\* the queue alone preserve the invariant, provided they go on to nothing that
\* relies on a flush they did not make and answer WAITAOF from fsynced_reploff.
LEMMA AlwaysOther ==
  ASSUME TypeOK, LogInv, AlwaysInv,
         UNCHANGED <<aof_buf, fileVars, stream, bio_jobs, fsynced_reploff_pending>>,
         master_repl_offset' \in Nat, master_repl_offset' >= master_repl_offset,
         fsynced_reploff' \in {fsynced_reploff, fsynced_reploff_pending},
         pc = "dead" => pc' = "dead",
         pc' \in {"reploff", "replies", "rewrite_open", "shutdown_fsync"} =>
            pc \in {"reploff", "replies", "rewrite_open", "shutdown_fsync"},
         \A c \in Client : (out'[c].kind = "waitaof" /\ out'[c].local = 1) =>
            \/ out'[c] = out[c]
            \/ out'[c].off \in Nat /\ out'[c].off <= fsynced_reploff
  PROVE  AlwaysInv'
<1>1. FlushedBeforeUse'
  BY Zenon DEF AlwaysInv, FlushedBeforeUse
<1>2. WrittenDurable'
  BY Zenon DEF AlwaysInv, WrittenDurable, Durable, fileVars
<1>3. OffsetsSafe'
  <2>1. aof_buf \in Nat /\ aof_buf' <= aof_buf /\ aof_buf' \in Nat
    BY CountFacts
  <2>2. SafeOffsets \subseteq SafeOffsets'
    BY <2>1, SafeGrows, Zenon
  <2>3. OffsetsSafe
    BY Zenon DEF AlwaysInv
  <2>4. /\ fsynced_reploff_pending' \in SafeOffsets'
        /\ \A i \in 1..Len(bio_jobs') : bio_jobs'[i].offset \in SafeOffsets'
    BY <2>2, <2>3, Zenon DEF OffsetsSafe
  <2> QED
    BY <2>2, <2>3, <2>4, OffsetsKept, Zenon
<1> QED
  BY <1>1, <1>2, <1>3, Zenon DEF AlwaysInv

\* A command's unit is not durable yet, and its offset is beyond every safe one.
LEMMA AlwaysWriteCommand ==
  ASSUME TypeOK, LogInv, AlwaysInv, NEW c \in Client, WriteCommand(c)
  PROVE  AlwaysInv'
<1>1. /\ pc = "events" /\ aof_buf' = aof_buf + 1
      /\ stream' = Append(stream, master_repl_offset + 1)
      /\ master_repl_offset' = master_repl_offset + 1
      /\ UNCHANGED <<pc, aof_fd, disk, bio_jobs, fsynced_reploff_pending, fsynced_reploff>>
  BY Zenon DEF WriteCommand, Ready, feedAppendOnlyFile, fileVars, bioVars
<1>2. aof_buf \in Nat /\ master_repl_offset \in Nat /\ stream \in Seq(Nat) /\ Len(stream) \in Nat
  BY TypeFacts
<1>3. FlushedBeforeUse'
  BY <1>1, Zenon DEF FlushedBeforeUse
<1>4. WrittenDurable'
  <2>1. Len(stream') - aof_buf' = Len(stream) - aof_buf
    BY <1>1, <1>2
  <2> QED
    BY <1>1, <2>1, Zenon DEF AlwaysInv, WrittenDurable, Durable
<1>5. OffsetsSafe'
  <2>1. SafeOffsets \subseteq SafeOffsets'
    BY <1>1, <1>2, SafeGrows
  <2>2. OffsetsSafe
    BY Zenon DEF AlwaysInv
  <2>3. /\ fsynced_reploff_pending' \in SafeOffsets'
        /\ \A i \in 1..Len(bio_jobs') : bio_jobs'[i].offset \in SafeOffsets'
    BY <1>1, <2>1, <2>2, Zenon DEF OffsetsSafe
  <2>4. \A b \in Client : out'[b] = out[b] \/ out'[b].kind = "write"
    BY Zenon DEF WriteCommand, TypeOK
  <2> QED
    BY <1>1, <2>1, <2>2, <2>3, <2>4, OffsetsKept, Zenon
<1> QED
  BY <1>3, <1>4, <1>5, Zenon DEF AlwaysInv

\* The rotation finds an empty buffer, so the offset of its close job is safe.
LEMMA AlwaysOpenNewIncr ==
  ASSUME TypeOK, LogInv, AlwaysInv, openNewIncrAofForAppend
  PROVE  AlwaysInv'
<1>1. /\ pc = "rewrite_open" /\ pc' = "events"
      /\ aof_fd' = aof_fd + 1
      /\ bio_jobs' = Append(bio_jobs, [type |-> "close", fd |-> aof_fd,
                                       offset |-> master_repl_offset])
      /\ UNCHANGED <<aof_buf, stream, master_repl_offset, fsynced_reploff_pending,
                     fsynced_reploff, out>>
  BY Zenon DEF openNewIncrAofForAppend, offsetVars, replVars, clientVars
<1>2. /\ aof_buf \in Nat /\ master_repl_offset \in Nat /\ aof_buf = 0 /\ aof_fd \in Nat
      /\ Len(stream) \in Nat
  <2>1. FlushedBeforeUse
    BY Zenon DEF AlwaysInv
  <2>2. aof_buf = 0
    BY <1>1, <2>1, Zenon DEF FlushedBeforeUse
  <2> QED
    BY <2>2, CountFacts, Zenon
<1>3. FlushedBeforeUse'
  BY <1>1, Zenon DEF FlushedBeforeUse
<1>4. OffsetsSafe'
  <2>1. SafeOffsets \subseteq SafeOffsets'
    BY <1>1, <1>2, SafeGrows
  <2>2. master_repl_offset \in SafeOffsets'
    BY <1>1, <1>2, SafeWhenFlushed, Zenon
  <2>3. OffsetsSafe
    BY Zenon DEF AlwaysInv
  <2>4. bio_jobs \in Seq(Job)
    BY TypeFacts, Zenon
  <2>5. \A i \in 1..Len(bio_jobs') :
          \/ bio_jobs'[i].offset = master_repl_offset
          \/ i \in 1..Len(bio_jobs) /\ bio_jobs'[i] = bio_jobs[i]
    BY <1>1, <2>4, OneMoreJob
  <2>6. \A i \in 1..Len(bio_jobs') : bio_jobs'[i].offset \in SafeOffsets'
    BY <2>1, <2>2, <2>3, <2>5, Zenon DEF OffsetsSafe
  <2>7. fsynced_reploff_pending' \in SafeOffsets'
    BY <1>1, <2>1, <2>3, Zenon DEF OffsetsSafe
  <2> QED
    BY <1>1, <2>1, <2>3, <2>6, <2>7, OffsetsKept, Zenon
<1>5. WrittenDurable'
  <2> SUFFICES ASSUME NEW i \in 1..(Len(stream) - aof_buf) PROVE Durable(i)'
    BY <1>1, Zenon DEF WrittenDurable
  <2>1. Durable(i) /\ i \in Nat
    BY <1>1, <1>2 DEF AlwaysInv, WrittenDurable
  <2>2. aof_fd + 1 \in Files /\ disk \in [Files -> File]
    BY Constructors, Zenon DEF openNewIncrAofForAppend, TypeOK
  <2>3. \A f \in Files \ {aof_fd + 1} : disk'[f] = disk[f]
    BY <2>2, Zenon DEF openNewIncrAofForAppend
  <2>4. \A f \in 1..aof_fd : f \in Files \ {aof_fd + 1}
    <3>1. \A f \in 1..aof_fd : f # aof_fd + 1
      BY <1>2
    <3> QED
      BY <3>1, TypeFacts, Zenon
  <2>5. \A f \in Files : disk[f].durable \in Nat
    BY TypeFacts, Zenon
  <2>6. \A f \in 1..aof_fd : /\ disk'[f].start = disk[f].start
                             /\ disk'[f].durable \in Nat
                             /\ disk'[f].durable >= disk[f].durable
    BY <2>3, <2>4, <2>5
  <2>7. aof_fd' \in Nat /\ aof_fd' >= aof_fd
    BY <1>1, <1>2
  <2> QED
    BY <2>1, <2>6, <2>7, DurableGrows, Zenon
<1> QED
  BY <1>3, <1>4, <1>5, Zenon DEF AlwaysInv

\* A step that only extends the durable part of files preserves the durability
\* of what was written.
LEMMA AlwaysSync ==
  ASSUME TypeOK, LogInv, WrittenDurable,
         UNCHANGED <<aof_buf, aof_fd, stream>>, pc # "dead",
         \A f \in Files : /\ disk'[f].start = disk[f].start
                          /\ disk'[f].durable \in Nat /\ disk'[f].durable >= disk[f].durable
  PROVE  WrittenDurable'
<1>1. aof_fd \in Nat /\ aof_buf \in Nat /\ Len(stream) \in Nat
  BY CountFacts, Zenon
<1> SUFFICES ASSUME NEW i \in 1..(Len(stream) - aof_buf) PROVE Durable(i)'
  BY Zenon DEF WrittenDurable
<1>2. Durable(i) /\ i \in Nat
  BY <1>1, SMTT(30) DEF WrittenDurable
<1>3. \A f \in 1..aof_fd : f \in Files
  BY TypeFacts, Zenon
<1>4. \A f \in 1..aof_fd : /\ disk'[f].start = disk[f].start
                           /\ disk'[f].durable \in Nat
                           /\ disk'[f].durable >= disk[f].durable
  BY <1>3, Zenon
<1>5. aof_fd' \in Nat /\ aof_fd' >= aof_fd
  BY <1>1
<1> QED
  BY <1>2, <1>4, <1>5, DurableGrows, Zenon

\* The fsync of finishShutdown preserves the invariant.
LEMMA AlwaysFinishShutdown ==
  ASSUME TypeOK, LogInv, AlwaysInv, finishShutdown
  PROVE  AlwaysInv'
<1>1. /\ pc = "shutdown_fsync" /\ pc' \in {"exited", "events"}
      /\ UNCHANGED <<aof_buf, aof_fd, stream, bio_jobs, fsynced_reploff_pending, fsynced_reploff,
                     master_repl_offset, out>>
      /\ disk' \in {disk, [disk EXCEPT ![aof_fd].durable = disk[aof_fd].size]}
  BY Zenon DEF finishShutdown, bioVars, offsetVars, replVars, clientVars
<1>2. \A f \in Files : /\ disk'[f].start = disk[f].start
                       /\ disk'[f].durable \in {disk[f].durable, disk[f].size}
  <2>1. disk \in [Files -> File]
    BY Zenon DEF TypeOK
  <2> QED
    BY <1>1, <2>1 DEF File
<1>3. \A f \in Files : /\ disk[f].durable <= disk[f].size
                       /\ disk[f].durable \in Nat /\ disk[f].size \in Nat
  BY TypeFacts, Zenon DEF LogInv, WorkerInv, DurableWithin
<1>4. \A f \in Files : /\ disk'[f].start = disk[f].start
                       /\ disk'[f].durable \in Nat /\ disk'[f].durable >= disk[f].durable
  BY <1>2, <1>3
<1>5. WrittenDurable'
  BY <1>1, <1>4, AlwaysSync, Zenon DEF AlwaysInv
<1>6. FlushedBeforeUse'
  BY <1>1, Zenon DEF FlushedBeforeUse
<1>7. OffsetsSafe'
  BY <1>1, Zenon DEF AlwaysInv, OffsetsSafe, SafeOffsets
<1> QED
  BY <1>5, <1>6, <1>7, Zenon DEF AlwaysInv

\* The worker publishes only offsets that were safe when the job was made.
LEMMA AlwaysBio ==
  ASSUME TypeOK, LogInv, AlwaysInv, BioStep
  PROVE  AlwaysInv'
<1> USE DEF bioLeaves, flushVars, fileVars, replVars, clientVars, histVars
<1>1. /\ UNCHANGED <<pc, aof_buf, aof_fd, stream, fsynced_reploff, master_repl_offset, out>>
      /\ pc # "dead"
  BY Zenon DEF BioStep, BioTakeJob, BioFsynced, BioFsyncFailed, BioRemoveJob, Running
<1>2. FlushedBeforeUse'
  BY <1>1, Zenon DEF AlwaysInv, FlushedBeforeUse
<1>3. SafeOffsets' = SafeOffsets
  BY <1>1, Zenon DEF SafeOffsets
<1>4. OffsetsSafe /\ bio_jobs \in Seq(Job)
  BY TypeFacts, Zenon DEF AlwaysInv
<1>5. CASE BioFsynced
  <2> DEFINE f == Head(bio_jobs).fd
  <2>1. /\ UNCHANGED bio_jobs /\ fsynced_reploff_pending' = Head(bio_jobs).offset
        /\ bio_worker.state # "idle"
    BY <1>5, Zenon DEF BioFsynced
  <2>2. disk' = [disk EXCEPT ![f].durable = IF @ < bio_worker.size THEN bio_worker.size ELSE @]
    BY <1>5, Zenon DEF BioFsynced
  <2>3. bio_jobs # <<>>
    BY <2>1, Zenon DEF LogInv, WorkerInv, ServedJobIsHead
  <2>4. f \in Files /\ disk \in [Files -> File] /\ bio_worker.size \in Nat
    BY <2>3, HeadOfQueue, Zenon DEF TypeOK
  <2>5. Head(bio_jobs) = bio_jobs[1] /\ 1 \in 1..Len(bio_jobs)
    BY <1>4, <2>3
  <2>6. OffsetsSafe'
    BY <1>1, <1>3, <1>4, <2>1, <2>5, Zenon DEF OffsetsSafe
  <2> HIDE DEF f
  <2>7. \A g \in Files : /\ disk'[g].start = disk[g].start
                         /\ disk'[g].durable \in Nat /\ disk'[g].durable >= disk[g].durable
    BY <2>2, <2>4 DEF File
  <2>8. WrittenDurable'
    BY <1>1, <2>7, AlwaysSync, Zenon DEF AlwaysInv
  <2> QED
    BY <1>2, <2>6, <2>8, Zenon DEF AlwaysInv
<1>6. CASE BioTakeJob \/ BioFsyncFailed \/ BioRemoveJob
  <2>1. /\ UNCHANGED <<disk, fsynced_reploff_pending>>
        /\ \/ bio_jobs' = bio_jobs
           \/ bio_jobs' = Tail(bio_jobs) /\ bio_worker.state # "idle"
    BY <1>6, Zenon DEF BioTakeJob, BioFsyncFailed, BioRemoveJob
  <2>2. WrittenDurable'
    BY <1>1, <2>1, Zenon DEF AlwaysInv, WrittenDurable, Durable
  <2>3. bio_worker.state # "idle" => bio_jobs # <<>>
    BY Zenon DEF LogInv, WorkerInv, ServedJobIsHead
  <2>4. \A i \in 1..Len(bio_jobs') :
          \E j \in 1..Len(bio_jobs) : bio_jobs'[i] = bio_jobs[j]
    <3>1. CASE bio_jobs' = bio_jobs
      BY <3>1, Zenon
    <3>2. CASE bio_jobs' = Tail(bio_jobs) /\ bio_jobs # <<>>
      <4>1. \A i \in 1..Len(bio_jobs') : /\ i + 1 \in 1..Len(bio_jobs)
                                         /\ bio_jobs'[i] = bio_jobs[i + 1]
        BY <1>4, <3>2
      <4> QED
        BY <4>1, Zenon
    <3> QED
      BY <2>1, <2>3, <3>1, <3>2, Zenon
  <2>5. OffsetsSafe'
    BY <1>1, <1>3, <1>4, <2>1, <2>4, Zenon DEF OffsetsSafe
  <2> QED
    BY <1>2, <2>2, <2>5, Zenon DEF AlwaysInv
<1> QED
  BY <1>5, <1>6, Zenon DEF BioStep

\* The remaining steps preserve the invariant.
LEMMA AlwaysRest ==
  ASSUME TypeOK, TypeOK', LogInv, AlwaysInv,
         \/ UNCHANGED vars
         \/ \E c \in Client : ReplOnlyCommand(c) \/ waitaofCommand(c)
         \/ \E p \in Policies : updateAppendFsync(p)
         \/ \E timedOut \in SUBSET Client : blockedBeforeSleep(timedOut)
         \/ EndOfEvents \/ UpdateFsyncedReploff \/ handleClientsWithPendingWrites
         \/ bioDrainWorker \/ OpenNewIncrFails \/ serverCron \/ Tick \/ ForkOrReapChild
         \/ rewriteAppendOnlyFileBackground \/ Shutdown
  PROVE  AlwaysInv'
<1>1. /\ UNCHANGED <<aof_buf, fileVars, stream, bio_jobs, fsynced_reploff_pending>>
      /\ fsynced_reploff' \in {fsynced_reploff, fsynced_reploff_pending}
      /\ pc = "dead" => pc' = "dead"
      /\ pc' \in {"reploff", "replies", "rewrite_open", "shutdown_fsync"} =>
           pc \in {"reploff", "replies", "rewrite_open", "shutdown_fsync"}
  BY Zenon DEF vars, allButPc, flushVars, bioVars, histVars, offsetVars, replVars, Ready,
         ReplOnlyCommand, waitaofCommand, updateAppendFsync, blockedBeforeSleep, EndOfEvents,
         UpdateFsyncedReploff, handleClientsWithPendingWrites, bioDrainWorker,
         OpenNewIncrFails, serverCron, Tick, ForkOrReapChild,
         rewriteAppendOnlyFileBackground, Shutdown
<1>2. master_repl_offset' \in Nat /\ master_repl_offset' >= master_repl_offset
  <2>1. master_repl_offset' \in {master_repl_offset, master_repl_offset + 1}
    BY Zenon DEF vars, allButPc, offsetVars, replVars,
           ReplOnlyCommand, waitaofCommand, updateAppendFsync, blockedBeforeSleep, EndOfEvents,
           UpdateFsyncedReploff, handleClientsWithPendingWrites, bioDrainWorker,
           OpenNewIncrFails, serverCron, Tick, ForkOrReapChild,
           rewriteAppendOnlyFileBackground, Shutdown
  <2>2. master_repl_offset \in Nat
    BY TypeFacts, Zenon
  <2> QED
    BY <2>1, <2>2
<1>3. \A c \in Client : (out'[c].kind = "waitaof" /\ out'[c].local = 1) =>
         \/ out'[c] = out[c]
         \/ out'[c].off \in Nat /\ out'[c].off <= fsynced_reploff
  <2>1. \A o \in Nat : WaitaofReply(o).local = 1 => /\ WaitaofReply(o).off = o
                                                    /\ o <= fsynced_reploff
    <3>1. fsynced_reploff \in Nat
      BY Zenon DEF TypeOK
    <3> QED
      BY <3>1 DEF WaitaofReply, acklocal
  <2>2. CASE \E c \in Client : waitaofCommand(c)
    <3>1. PICK c \in Client : waitaofCommand(c)
      BY <2>2, Zenon
    <3>2. woff[c] \in Nat /\ out \in [Client -> Reply]
      BY Zenon DEF TypeOK
    <3>3. \A b \in Client : out'[b] = out[b] \/ out'[b] = WaitaofReply(woff[c])
      BY <3>1, <3>2, Zenon DEF waitaofCommand
    <3> QED
      BY <2>1, <3>2, <3>3, Zenon
  <2>3. CASE \E timedOut \in SUBSET Client : blockedBeforeSleep(timedOut)
    <3>1. \A c \in Client : wait[c] # NotWaiting => wait[c] \in Nat
      BY Zenon DEF TypeOK
    <3>2. \A c \in Client : \/ out'[c] = out[c]
                            \/ wait[c] # NotWaiting /\ out'[c] = WaitaofReply(wait[c])
      BY <2>3, Zenon DEF blockedBeforeSleep
    <3> QED
      BY <2>1, <3>1, <3>2
  <2>4. CASE handleClientsWithPendingWrites
    BY <2>4, Zenon DEF handleClientsWithPendingWrites, NoReply
  <2>5. CASE UNCHANGED out
    BY <2>5, Zenon
  <2> QED
    BY <2>2, <2>3, <2>4, <2>5, Zenon
       DEF vars, allButPc, clientVars, ReplOnlyCommand, updateAppendFsync, EndOfEvents,
           UpdateFsyncedReploff, bioDrainWorker, OpenNewIncrFails, serverCron, Tick,
           ForkOrReapChild, rewriteAppendOnlyFileBackground, Shutdown
<1> QED
  BY <1>1, <1>2, <1>3, AlwaysOther, Zenon

\* Initially nothing is written and nothing is promised.
LEMMA AlwaysInit == Init => AlwaysInv
<1> SUFFICES ASSUME Init PROVE AlwaysInv
  BY Zenon
<1>1. /\ pc = "events" /\ aof_buf = 0 /\ stream = <<>> /\ bio_jobs = <<>>
      /\ fsynced_reploff_pending = 0 /\ fsynced_reploff = 0 /\ master_repl_offset = 0
      /\ \A c \in Client : out[c].kind = "none"
  BY Zenon DEF Init, NoReply
<1>2. 0 \in SafeOffsets
  BY <1>1 DEF SafeOffsets
<1>3. FlushedBeforeUse
  BY <1>1, Zenon DEF FlushedBeforeUse
<1>4. WrittenDurable
  BY <1>1 DEF WrittenDurable
<1>5. OffsetsSafe
  BY <1>1, <1>2 DEF OffsetsSafe
<1> QED
  BY <1>3, <1>4, <1>5, Zenon DEF AlwaysInv

\* Under policy always every step preserves the invariant.
LEMMA AlwaysStep ==
  ASSUME AlwaysOnly, TypeOK, TypeOK', LogInv, LogInv', AlwaysInv, [Next]_vars
  PROVE  AlwaysInv'
<1>1. CASE Flush
  BY <1>1, AlwaysFlush, Zenon
<1>2. CASE \E c \in Client : WriteCommand(c)
  BY <1>2, AlwaysWriteCommand, Zenon
<1>3. CASE openNewIncrAofForAppend \/ finishShutdown \/ BioStep
  BY <1>3, AlwaysOpenNewIncr, AlwaysFinishShutdown, AlwaysBio, Zenon
<1> QED
  BY <1>1, <1>2, <1>3, AlwaysRest, Zenon DEF Next, ClientStep, LoopStep

\* With appendfsync always in force, whatever the disk and the clients do:
\* the invariant of the contract holds in every reachable state.
THEOREM AlwaysCorrect == ASSUME AlwaysOnly PROVE Spec => []AlwaysInv
<1>1. Init => TypeOK /\ LogInv /\ AlwaysInv
  BY LogInductive, AlwaysInit, Zenon
<1>2. TypeOK /\ LogInv /\ AlwaysInv /\ [Next]_vars => TypeOK' /\ LogInv' /\ AlwaysInv'
  BY LogInductive, AlwaysStep, Zenon
<1> QED
  BY <1>1, <1>2, PTL DEF Spec

\* With appendfsync always, a reply that acknowledges a write is sent only when
\* the write is durable: the contract stated in flushAppendOnlyFile.
THEOREM AlwaysAcknowledges == ASSUME AlwaysOnly PROVE Spec => []AckDurable
<1>1. TypeOK /\ AlwaysInv => AckDurable
  <2> SUFFICES ASSUME TypeOK, AlwaysInv, pc = "replies", NEW i \in 1..Len(stream)
               PROVE  Durable(i)
    BY Zenon DEF AckDurable
  <2>1. aof_buf = 0 /\ Len(stream) \in Nat
    BY TypeFacts DEF AlwaysInv, FlushedBeforeUse
  <2> QED
    BY <2>1 DEF AlwaysInv, WrittenDurable
<1> QED
  BY <1>1, TypeCorrect, AlwaysCorrect, PTL

\* With appendfsync always, WAITAOF never reports the local AOF in sync before
\* everything the client had written is durable.
THEOREM AlwaysWaitaof == ASSUME AlwaysOnly PROVE Spec => []WaitaofTruthful
<1>1. TypeOK /\ AlwaysInv => WaitaofTruthful
  <2> SUFFICES ASSUME TypeOK, AlwaysInv, pc # "dead", NEW c \in Client,
                      out[c].kind = "waitaof", out[c].local = 1,
                      NEW i \in 1..Len(stream), stream[i] <= out[c].off
               PROVE  Durable(i)
    BY Zenon DEF WaitaofTruthful, DurableUpTo
  <2>1. out[c].off \in SafeOffsets
    BY Zenon DEF AlwaysInv, OffsetsSafe
  <2>2. i <= Len(stream) - aof_buf
    BY <2>1, Zenon DEF SafeOffsets
  <2>3. i \in 1..(Len(stream) - aof_buf)
    BY <2>2, TypeFacts
  <2> QED
    BY <2>3, Zenon DEF AlwaysInv, WrittenDurable
<1> QED
  BY <1>1, TypeCorrect, AlwaysCorrect, PTL

(***************************************************************************)
(* Nothing written is forgotten, and what the worker publishes is durable. *)
(***************************************************************************)

\* Job i is in the queue and the worker has not begun to serve it.
Untaken(i) == i > 1 \/ bio_worker.state = "idle"

\* The worker is in the fsync of a job for file f.
Syncing(f) == bio_worker.state = "fsync" /\ Head(bio_jobs).fd = f

\* Making the first k units of file f durable leaves none to be forgotten:
\* those past aof_last_incr_fsync_offset are fsynced by a later flush.
Enough(f, k) == IF f = aof_fd THEN aof_last_incr_fsync_offset <= k ELSE disk[f].size <= k

Kept(f) == \/ \E i \in 1..Len(bio_jobs) : bio_jobs[i].fd = f /\ Untaken(i)
           \/ Syncing(f) /\ Enough(f, bio_worker.size)
           \/ Enough(f, disk[f].durable)

\* Unit k of the log is in file f.
Holds(f, k) == disk[f].start < k /\ k <= disk[f].start + disk[f].size

\* The fsync of job j, or one that is under way for it, makes unit k durable.
Syncs(j, k) == /\ Holds(bio_jobs[j].fd, k)
               /\ \/ Untaken(j)
                  \/ bio_worker.state = "fsync" /\ k <= disk[bio_jobs[j].fd].start + bio_worker.size

OffsetBehind == aof_last_incr_fsync_offset <= aof_last_incr_size
RewriteFlushed == pc = "rewrite_open" => aof_buf = 0
AllKept == \A f \in 1..aof_fd : Kept(f)
AllHeld == \A k \in 1..(Len(stream) - aof_buf) : \E f \in 1..aof_fd : Holds(f, k)

\* By the time job i is done, all units up to its offset are durable.
Covers(i) == /\ bio_jobs[i].offset <= master_repl_offset
             /\ \A k \in 1..Len(stream) : stream[k] <= bio_jobs[i].offset =>
                  Durable(k) \/ \E j \in 1..i : Syncs(j, k)

AllCovered == \A i \in 1..Len(bio_jobs) : Covers(i)

Sound == Running /\ faults = 0

SyncInv == Sound => OffsetBehind /\ RewriteFlushed /\ AllKept /\ AllHeld /\ AllCovered

\* Steps only append to files, fsync them and open new ones.
FilesGrow ==
  /\ aof_fd' \in Nat /\ aof_fd <= aof_fd'
  /\ \A f \in 1..aof_fd : /\ disk'[f].start = disk[f].start
                          /\ disk'[f].size >= disk[f].size
                          /\ disk'[f].durable >= disk[f].durable

\* The open files are files in the next state as well, and their numbers numbers.
LEMMA FileCounts ==
  ASSUME TypeOK, TypeOK', FilesGrow, NEW f \in 1..aof_fd
  PROVE  /\ f \in 1..aof_fd' /\ f \in Files /\ aof_fd \in Nat /\ aof_fd' \in Nat
         /\ disk[f].start \in Nat /\ disk[f].size \in Nat /\ disk[f].durable \in Nat
         /\ disk'[f].start \in Nat /\ disk'[f].size \in Nat /\ disk'[f].durable \in Nat
<1>1. f \in Files /\ aof_fd \in Nat
  BY TypeFacts, Zenon
<1>2. f \in 1..aof_fd' /\ aof_fd' \in Nat
  BY <1>1 DEF FilesGrow
<1>3. disk[f] \in File /\ disk'[f] \in File
  BY <1>1, Zenon DEF TypeOK
<1> QED
  BY <1>1, <1>2, <1>3, Zenon DEF File

\* A unit stays in its file.
LEMMA HeldGrows ==
  ASSUME TypeOK, TypeOK', FilesGrow, NEW f \in 1..aof_fd, NEW k \in Nat, Holds(f, k)
  PROVE  f \in 1..aof_fd' /\ Holds(f, k)'
<1>1. /\ f \in 1..aof_fd' /\ disk[f].start \in Nat /\ disk[f].size \in Nat
      /\ disk'[f].size \in Nat
  BY FileCounts, Zenon
<1>2. disk'[f].start = disk[f].start /\ disk'[f].size >= disk[f].size
  BY Zenon DEF FilesGrow
<1> QED
  BY <1>1, <1>2 DEF Holds

\* A durable unit stays durable.
LEMMA UnitsStayDurable ==
  ASSUME TypeOK, TypeOK', FilesGrow, NEW k \in Nat, Durable(k)
  PROVE  Durable(k)'
<1>1. \A f \in 1..aof_fd : disk'[f].durable \in Nat
  BY FileCounts, Zenon
<1> QED
  BY <1>1, DurableGrows, Zenon DEF FilesGrow

\* The jobs in the queue are for files that are open.
LEMMA JobFacts ==
  ASSUME TypeOK, LogInv, NEW j \in 1..Len(bio_jobs)
  PROVE  /\ bio_jobs[j].fd \in 1..aof_fd /\ bio_jobs[j].offset \in Nat
         /\ j \in Nat /\ Len(bio_jobs) \in Nat
<1>1. bio_jobs \in Seq(Job) /\ aof_fd \in Nat
  BY TypeFacts, Zenon
<1>2. bio_jobs[j] \in Job /\ Len(bio_jobs) \in Nat
  BY <1>1
<1>3. bio_jobs[j].fd \in Nat /\ bio_jobs[j].fd >= 1 /\ bio_jobs[j].offset \in Nat
  BY <1>2, BoundsAssumption DEF Job, Files
<1>4. bio_jobs[j].fd <= aof_fd
  BY Zenon DEF LogInv, WorkerInv, JobsOfOpenFiles
<1> QED
  BY <1>1, <1>2, <1>3, <1>4

\* A job's promise outlives commands, writes, fsyncs and further jobs.
LEMMA CoversKept ==
  ASSUME TypeOK, TypeOK', LogInv, FilesGrow, NEW i \in 1..Len(bio_jobs), Covers(i),
         \A j \in 1..i : bio_jobs'[j] = bio_jobs[j],
         bio_worker' = bio_worker,
         master_repl_offset' >= master_repl_offset,
         \/ stream' = stream
         \/ stream' = Append(stream, master_repl_offset + 1)
  PROVE  Covers(i)'
<1>1. /\ i \in Nat /\ Len(bio_jobs) \in Nat /\ bio_jobs[i].offset \in Nat
      /\ master_repl_offset \in Nat /\ stream \in Seq(Nat) /\ Len(stream) \in Nat
  BY JobFacts, TypeFacts
<1>2. master_repl_offset' \in Nat
  BY Zenon DEF TypeOK
<1>3. bio_jobs'[i] = bio_jobs[i]
  BY <1>1
<1>4. bio_jobs'[i].offset <= master_repl_offset'
  BY <1>1, <1>2, <1>3 DEF Covers
<1>5. ASSUME NEW k \in 1..Len(stream'), stream'[k] <= bio_jobs[i].offset
      PROVE  k \in 1..Len(stream) /\ stream'[k] = stream[k]
  <2>1. CASE stream' = stream
    BY <2>1, Zenon
  <2>2. CASE stream' = Append(stream, master_repl_offset + 1)
    <3>1. bio_jobs[i].offset <= master_repl_offset
      BY Zenon DEF Covers
    <3>2. k # Len(stream) + 1
      <4>1. k = Len(stream) + 1 => stream'[k] = master_repl_offset + 1
        BY <1>1, <2>2
      <4> QED
        BY <1>1, <1>5, <3>1, <4>1
    <3>3. Len(stream') = Len(stream) + 1
      BY <1>1, <2>2
    <3>4. k \in 1..Len(stream)
      BY <1>1, <3>2, <3>3
    <3> QED
      BY <1>1, <2>2, <3>4
  <2> QED
    BY <2>1, <2>2, Zenon
<1>6. ASSUME NEW k \in 1..Len(stream'), stream'[k] <= bio_jobs'[i].offset
      PROVE  Durable(k)' \/ \E j \in 1..i : Syncs(j, k)'
  <2>1. k \in 1..Len(stream) /\ stream'[k] = stream[k] /\ k \in Nat
    BY <1>1, <1>3, <1>5, <1>6
  <2>2. Durable(k) \/ \E j \in 1..i : Syncs(j, k)
    BY <1>3, <1>6, <2>1, Zenon DEF Covers
  <2>3. CASE Durable(k)
    BY <2>1, <2>3, UnitsStayDurable, Zenon
  <2>4. ASSUME NEW j \in 1..i, Syncs(j, k) PROVE Syncs(j, k)'
    <3>1. j \in 1..Len(bio_jobs)
      BY <1>1
    <3>2. bio_jobs[j].fd \in 1..aof_fd /\ bio_jobs'[j] = bio_jobs[j]
      BY <3>1, JobFacts, Zenon
    <3>3. PICK f \in 1..aof_fd : f = bio_jobs[j].fd
      BY <3>2, Zenon
    <3>4. Holds(f, k)' /\ disk'[f].start = disk[f].start
      BY <2>1, <2>4, <3>3, HeldGrows, Zenon DEF Syncs, FilesGrow
    <3> QED
      BY <2>4, <3>2, <3>3, <3>4, Zenon DEF Syncs, Untaken, Holds
  <2> QED
    BY <2>2, <2>3, <2>4, Zenon
<1> QED
  BY <1>4, <1>6, Zenon DEF Covers

\* A file stays kept while the queue only grows.
LEMMA KeptStays ==
  ASSUME TypeOK, TypeOK', LogInv, FilesGrow, NEW f \in 1..aof_fd, Kept(f),
         bio_worker' = bio_worker,
         \A j \in 1..Len(bio_jobs) : j \in 1..Len(bio_jobs') /\ bio_jobs'[j] = bio_jobs[j],
         \A m \in Nat : Enough(f, m) => Enough(f, m)',
         \A m \in Nat, l \in Nat : Enough(f, m) /\ l >= m => Enough(f, l)
  PROVE  Kept(f)'
<1>1. /\ disk[f].durable \in Nat /\ disk'[f].durable \in Nat /\ bio_worker.size \in Nat
      /\ disk'[f].durable >= disk[f].durable
  BY FileCounts, TypeFacts, Zenon DEF FilesGrow
<1>2. CASE \E i \in 1..Len(bio_jobs) : bio_jobs[i].fd = f /\ Untaken(i)
  BY <1>2, Zenon DEF Kept, Untaken
<1>3. CASE Syncing(f) /\ Enough(f, bio_worker.size)
  <2>1. bio_jobs # <<>> /\ bio_jobs \in Seq(Job) /\ bio_jobs' \in Seq(Job)
    BY <1>3, Zenon DEF Syncing, LogInv, WorkerInv, ServedJobIsHead, TypeOK
  <2>2. 1 \in 1..Len(bio_jobs) /\ Head(bio_jobs) = bio_jobs[1]
    BY <2>1
  <2>3. 1 \in 1..Len(bio_jobs') /\ bio_jobs'[1] = bio_jobs[1]
    BY <2>2, Zenon
  <2>4. Head(bio_jobs') = bio_jobs'[1]
    BY <2>1, <2>3
  <2>5. Syncing(f)'
    BY <1>3, <2>2, <2>3, <2>4, Zenon DEF Syncing
  <2>6. Enough(f, bio_worker.size)'
    BY <1>1, <1>3, Zenon DEF Enough
  <2> QED
    BY <2>5, <2>6, Zenon DEF Kept
<1>4. CASE Enough(f, disk[f].durable)
  <2>1. Enough(f, disk'[f].durable)
    BY <1>1, <1>4, Zenon
  <2>2. PICK m \in Nat : m = disk'[f].durable
    BY <1>1, Zenon
  <2>3. Enough(f, m)'
    BY <2>1, <2>2, Zenon
  <2> QED
    BY <2>2, <2>3, Zenon DEF Kept, Enough
<1> QED
  BY <1>2, <1>3, <1>4, Zenon DEF Kept

\* A job submitted when everything fed to the log is in a file covers all of
\* it: what is not durable has a job before it, or is in the file it is for.
LEMMA NewJobCovers ==
  ASSUME TypeOK, TypeOK', LogInv, FilesGrow, AllKept, UNCHANGED <<bio_worker, stream>>,
         master_repl_offset' = master_repl_offset,
         NEW n \in Nat, n = Len(bio_jobs),
         NEW job, job.fd = aof_fd, job.offset = master_repl_offset,
         bio_jobs' = Append(bio_jobs, job),
         \A f \in 1..aof_fd : f # aof_fd => disk'[f] = disk[f],
         \A k \in 1..Len(stream) : \E f \in 1..aof_fd : Holds(f, k)'
  PROVE  Covers(n + 1)' /\ Untaken(n + 1)'
<1>1. bio_jobs \in Seq(Job) /\ Len(stream) \in Nat /\ master_repl_offset \in Nat
  BY TypeFacts
<1>3. bio_jobs'[n + 1] = job /\ \A j \in 1..n : bio_jobs'[j] = bio_jobs[j]
  BY <1>1
<1>4. Untaken(n + 1)'
  <2>1. n = 0 => bio_worker.state = "idle"
    <3>1. bio_worker.state # "idle" => bio_jobs # <<>>
      BY Zenon DEF LogInv, WorkerInv, ServedJobIsHead
    <3>2. bio_jobs # <<>> => n >= 1
      <4>1. bio_jobs # <<>> => Len(bio_jobs) >= 1
        BY <1>1
      <4> QED
        BY <4>1, Zenon
    <3> QED
      BY <3>1, <3>2
  <2> QED
    BY <2>1 DEF Untaken
<1>5. ASSUME NEW k \in 1..Len(stream)
      PROVE  Durable(k)' \/ \E j \in 1..(n + 1) : Syncs(j, k)'
  <2>1. PICK f \in 1..aof_fd : Holds(f, k)'
    BY <1>5, Zenon
  <2>2. k \in Nat /\ f \in 1..aof_fd'
    BY <1>1, FileCounts
  <2>3. CASE f = aof_fd
    <3>1. Syncs(n + 1, k)'
      BY <1>3, <1>4, <2>1, <2>3, Zenon DEF Syncs, Holds
    <3> QED
      BY <3>1
  <2>4. CASE f # aof_fd
    <3>1. disk'[f] = disk[f] /\ Kept(f)
      BY <2>4, Zenon DEF AllKept
    <3>2. /\ disk[f].start \in Nat /\ disk[f].size \in Nat /\ disk[f].durable \in Nat
          /\ bio_worker.size \in Nat
      BY FileCounts, TypeFacts, Zenon
    <3>3. disk[f].start < k /\ k <= disk[f].start + disk[f].size
      BY <2>1, <3>1, Zenon DEF Holds
    <3>4. CASE \E i \in 1..n : bio_jobs[i].fd = f /\ Untaken(i)
      <4>1. PICK i \in 1..n : bio_jobs[i].fd = f /\ Untaken(i)
        BY <3>4, Zenon
      <4>2. bio_jobs'[i].fd = f /\ Untaken(i)'
        BY <1>3, <4>1, Zenon DEF Untaken
      <4>3. Syncs(i, k)'
        BY <2>1, <4>2, Zenon DEF Syncs, Holds
      <4>4. i \in 1..(n + 1)
        OBVIOUS
      <4> QED
        BY <4>3, <4>4, Zenon
    <3>5. CASE Syncing(f) /\ Enough(f, bio_worker.size)
      <4>1. bio_jobs # <<>>
        BY <3>5, Zenon DEF Syncing, LogInv, WorkerInv, ServedJobIsHead
      <4>2. 1 \in 1..n /\ bio_jobs[1].fd = f /\ 1 \in 1..(n + 1)
        BY <1>1, <3>5, <4>1 DEF Syncing
      <4>3. bio_jobs'[1].fd = f
        BY <1>3, <4>2, Zenon
      <4>4. disk[f].size <= bio_worker.size
        BY <2>4, <3>5, Zenon DEF Enough
      <4>5. k <= disk'[f].start + bio_worker'.size
        BY <2>2, <3>1, <3>2, <3>3, <4>4
      <4>6. Syncs(1, k)'
        BY <2>1, <3>5, <4>3, <4>5, Zenon DEF Syncs, Holds, Syncing
      <4> QED
        BY <4>2, <4>6, Zenon
    <3>6. CASE Enough(f, disk[f].durable)
      <4>1. disk[f].size <= disk[f].durable
        BY <2>4, <3>6, Zenon DEF Enough
      <4>2. k <= disk'[f].start + disk'[f].durable /\ disk'[f].start < k
        BY <2>2, <3>1, <3>2, <3>3, <4>1, SMTT(30)
      <4> QED
        BY <2>2, <4>2, Zenon DEF Durable
    <3> QED
      BY <3>1, <3>4, <3>5, <3>6, Zenon DEF Kept
  <2> QED
    BY <2>3, <2>4, Zenon
<1>6. bio_jobs'[n + 1].offset <= master_repl_offset'
  BY <1>1, <1>3
<1> QED
  BY <1>4, <1>5, <1>6, Zenon DEF Covers

\* What flushAppendOnlyFile does when no call fails: it writes the buffer or
\* leaves it, and fsyncs inline, submits a job or does neither.
LEMMA SoundFlushEffect ==
  ASSUME TypeOK, LogInv, LogInv', SyncInv, Flush, Sound'
  PROVE  /\ Sound /\ pc # "rewrite_open"
         /\ UNCHANGED <<aof_fd, stream, master_repl_offset, bio_worker>>
         /\ pc' = "rewrite_open" => aof_buf' = 0
         /\ \/ UNCHANGED <<bio_jobs, aof_last_incr_fsync_offset>>
            \/ /\ UNCHANGED bio_jobs /\ aof_last_incr_fsync_offset' = aof_last_incr_size'
               /\ disk'[aof_fd].durable = aof_last_incr_size'
            \/ /\ bio_jobs' = Append(bio_jobs, [type |-> "fsync", fd |-> aof_fd,
                                                offset |-> master_repl_offset])
               /\ aof_last_incr_fsync_offset' = aof_last_incr_size' /\ aof_buf' = 0
<1> USE DEF flushLeaves, replVars, clientVars
<1>1. pc \in DOMAIN ReturnPc /\ faults' = 0
  BY Zenon DEF Flush, FlushNothing, FlushPostponed, FlushFsyncOnly, FlushWrite, FlushWriteError, Sound
<1>2. pc \notin {"dead", "exited", "rewrite_open"} /\ (ReturnPc[pc] = "rewrite_open" => force)
  BY <1>1 DEF ReturnPc, force
<1>3. faults \in Nat /\ aof_fd \in Files /\ disk \in [Files -> File]
  BY Zenon DEF TypeOK
<1>4. UNCHANGED <<aof_fd, stream, master_repl_offset, bio_worker>>
  BY Zenon DEF Flush, FlushNothing, FlushPostponed, FlushFsyncOnly, FlushWrite, FlushWriteError
<1>5. ~ \E n \in 0..MaxOffset : FlushWriteError(n)
  BY <1>1, <1>3 DEF FlushWriteError, Fault
<1>6. CASE FlushNothing
  BY <1>1, <1>2, <1>4, <1>6, Zenon DEF FlushNothing, Sound, Running
<1>7. CASE FlushPostponed
  BY <1>1, <1>2, <1>4, <1>7, Zenon DEF FlushPostponed, Postpone, Sound, Running
<1>8. ASSUME NEW size, NEW d \in [Files -> File], TryFsync(size, d), aof_last_incr_size' = size,
             aof_buf' = 0
      PROVE  /\ faults = 0 /\ pc' = ReturnPc[pc]
             /\ \/ UNCHANGED <<bio_jobs, aof_last_incr_fsync_offset>>
                \/ /\ UNCHANGED bio_jobs /\ aof_last_incr_fsync_offset' = aof_last_incr_size'
                   /\ disk'[aof_fd].durable = aof_last_incr_size'
                \/ /\ bio_jobs' = Append(bio_jobs, [type |-> "fsync", fd |-> aof_fd,
                                                    offset |-> master_repl_offset])
                   /\ aof_last_incr_fsync_offset' = aof_last_incr_size' /\ aof_buf' = 0
  <2>1. CASE FsyncNow(size, d)
    <3>1. /\ disk' = [d EXCEPT ![aof_fd].durable = size]
          /\ aof_last_incr_fsync_offset' = size /\ pc' = ReturnPc[pc] /\ UNCHANGED <<bio_jobs, faults>>
      BY <1>1, <1>3, <2>1 DEF FsyncNow, Fault
    <3>2. disk'[aof_fd].durable = size
      BY <1>3, <3>1, Zenon DEF File
    <3> QED
      BY <1>1, <1>8, <3>1, <3>2, Zenon
  <2>2. CASE FsyncInBackground(size, d)
    BY <1>1, <1>8, <2>2, Zenon DEF FsyncInBackground
  <2>3. CASE /\ pc' = ReturnPc[pc]
             /\ UNCHANGED <<aof_last_incr_fsync_offset, bio_jobs, faults>>
    BY <1>1, <1>8, <2>3, Zenon
  <2> QED
    BY <1>8, <2>1, <2>2, <2>3, Zenon DEF TryFsync
<1>9. CASE FlushFsyncOnly
  <2>1. /\ TryFsync(aof_last_incr_size, disk) /\ aof_last_incr_size' = aof_last_incr_size
        /\ aof_buf' = 0
    BY <1>9, Zenon DEF FlushFsyncOnly
  <2> QED
    BY <1>2, <1>3, <1>4, <1>8, <2>1, Zenon DEF Sound, Running
<1>10. CASE FlushWrite
  <2>1. PICK d : d = [disk EXCEPT ![aof_fd].size = @ + aof_buf]
    BY Zenon
  <2>2. /\ TryFsync(aof_last_incr_size + aof_buf, d) /\ aof_buf' = 0
        /\ aof_last_incr_size' = aof_last_incr_size + aof_buf
    BY <1>10, <2>1 DEF FlushWrite
  <2>3. d \in [Files -> File]
    BY <2>1, DiskUpdates, Zenon DEF TypeOK
  <2> QED
    BY <1>2, <1>4, <1>8, <2>2, <2>3, Zenon DEF Sound, Running
<1> QED
  BY <1>5, <1>6, <1>7, <1>9, <1>10, Zenon DEF Flush

\* Files grow in a flush.
LEMMA FlushGrows ==
  ASSUME TypeOK, TypeOK', LogInv, Flush, aof_fd' = aof_fd
  PROVE  /\ FilesGrow
         /\ \A f \in 1..aof_fd : f # aof_fd => disk'[f] = disk[f]
<1>1. /\ \A f \in Files \ {aof_fd} : disk'[f] = disk[f]
      /\ disk'[aof_fd].start = disk[aof_fd].start
      /\ disk'[aof_fd].size >= disk[aof_fd].size
      /\ disk'[aof_fd].durable \in {disk[aof_fd].durable, disk'[aof_fd].size}
  BY FlushEffect, Zenon
<1>2. /\ aof_fd \in Nat /\ aof_fd \in Files /\ \A f \in 1..aof_fd : f \in Files
      /\ \A f \in Files : disk[f].size \in Nat /\ disk[f].durable \in Nat
      /\ disk[aof_fd].durable <= disk[aof_fd].size
  BY TypeFacts, Zenon DEF LogInv, WorkerInv, DurableWithin
<1>3. disk'[aof_fd].size \in Nat
  <2>1. disk'[aof_fd] \in File
    BY <1>2, Zenon DEF TypeOK
  <2> QED
    BY <2>1 DEF File
<1>4. disk'[aof_fd].durable >= disk[aof_fd].durable
  BY <1>1, <1>2, <1>3
<1>5. \A f \in 1..aof_fd : f # aof_fd => disk'[f] = disk[f]
  BY <1>1, <1>2, Zenon
<1>6. \A f \in 1..aof_fd : /\ disk'[f].start = disk[f].start
                           /\ disk'[f].size >= disk[f].size
                           /\ disk'[f].durable >= disk[f].durable
  BY <1>1, <1>2, <1>4, <1>5
<1> QED
  BY <1>2, <1>5, <1>6 DEF FilesGrow

\* flushAppendOnlyFile forgets nothing, and a job it submits covers all that
\* was fed to the log.
LEMMA SyncFlush ==
  ASSUME TypeOK, TypeOK', LogInv, LogInv', SyncInv, Flush
  PROVE  SyncInv'
<1> SUFFICES ASSUME Sound'
             PROVE  OffsetBehind' /\ RewriteFlushed' /\ AllKept' /\ AllHeld' /\ AllCovered'
  BY Zenon DEF SyncInv
<1> DEFINE job == [type |-> "fsync", fd |-> aof_fd, offset |-> master_repl_offset]
<1>1. /\ Sound
      /\ UNCHANGED <<aof_fd, stream, master_repl_offset, bio_worker>>
      /\ pc' = "rewrite_open" => aof_buf' = 0
      /\ \/ UNCHANGED <<bio_jobs, aof_last_incr_fsync_offset>>
         \/ /\ UNCHANGED bio_jobs /\ aof_last_incr_fsync_offset' = aof_last_incr_size'
            /\ disk'[aof_fd].durable = aof_last_incr_size'
         \/ /\ bio_jobs' = Append(bio_jobs, job)
            /\ aof_last_incr_fsync_offset' = aof_last_incr_size' /\ aof_buf' = 0
  BY SoundFlushEffect, Zenon
<1> HIDE DEF job
<1>2. OffsetBehind /\ AllKept /\ AllHeld /\ AllCovered
  BY <1>1, Zenon DEF SyncInv
<1>3. FilesGrow /\ \A f \in 1..aof_fd : f # aof_fd => disk'[f] = disk[f]
  BY <1>1, FlushGrows, Zenon
<1>4. /\ aof_last_incr_size \in Nat /\ aof_last_incr_size' \in Nat
      /\ aof_last_incr_fsync_offset \in Nat /\ aof_last_incr_fsync_offset' \in Nat
      /\ aof_buf \in Nat /\ aof_buf' \in Nat /\ faults \in Nat
  BY Zenon DEF TypeOK
<1>5. /\ aof_fd \in Nat /\ aof_fd \in Files /\ aof_fd \in 1..aof_fd /\ Len(stream) \in Nat
      /\ disk[aof_fd].start \in Nat /\ disk[aof_fd].durable \in Nat /\ disk'[aof_fd].durable \in Nat
  <2>1. aof_fd \in Nat /\ aof_fd \in Files /\ aof_fd \in 1..aof_fd /\ Len(stream) \in Nat
    BY TypeFacts, BoundsAssumption DEF Files
  <2> QED
    BY <1>3, <2>1, FileCounts, Zenon
<1>6. /\ disk[aof_fd].start + aof_last_incr_size + aof_buf = Len(stream)
      /\ disk[aof_fd].start + aof_last_incr_size' + aof_buf' = Len(stream)
      /\ disk[aof_fd].size = aof_last_incr_size /\ disk'[aof_fd].size = aof_last_incr_size'
      /\ disk'[aof_fd].start = disk[aof_fd].start
      /\ aof_last_incr_size <= aof_last_incr_size'
  <2>1. pc # "dead" /\ pc' # "dead"
    BY <1>1, Zenon DEF Sound, Running
  <2>2. /\ disk'[aof_fd].start = disk[aof_fd].start /\ disk'[aof_fd].size >= disk[aof_fd].size
    BY <1>3, <1>5, Zenon DEF FilesGrow
  <2>3. /\ disk[aof_fd].start + aof_last_incr_size + aof_buf = Len(stream)
        /\ disk'[aof_fd].start + aof_last_incr_size' + aof_buf' = Len(stream)
    BY <1>1, Zenon DEF LogInv, LogAccounted, LogLength
  <2>4. disk[aof_fd].size = aof_last_incr_size /\ disk'[aof_fd].size = aof_last_incr_size'
    BY <1>1, <2>1, Zenon DEF LogInv, LogAccounted, SizeKnown
  <2> QED
    BY <2>2, <2>3, <2>4, Zenon
<1>7. OffsetBehind'
  BY <1>1, <1>2, <1>4, <1>6 DEF OffsetBehind
<1>8. RewriteFlushed'
  BY <1>1, Zenon DEF RewriteFlushed
<1>9. AllHeld'
  <2> SUFFICES ASSUME NEW k \in 1..(Len(stream) - aof_buf')
               PROVE  \E f \in 1..aof_fd : Holds(f, k)'
    BY <1>1, Zenon DEF AllHeld
  <2>1. k \in Nat
    BY <1>4, <1>5
  <2>2. CASE k \in 1..(Len(stream) - aof_buf)
    <3>1. PICK f \in 1..aof_fd : Holds(f, k)
      BY <1>2, <2>2, Zenon DEF AllHeld
    <3> QED
      BY <1>3, <2>1, <3>1, HeldGrows, Zenon
  <2>3. CASE k \notin 1..(Len(stream) - aof_buf)
    <3>1. disk[aof_fd].start < k
      BY <1>4, <1>5, <1>6, <2>1, <2>3, SMTT(30)
    <3>2. k <= disk[aof_fd].start + aof_last_incr_size'
      BY <1>4, <1>5, <1>6, <2>1, SMTT(30)
    <3>3. Holds(aof_fd, k)'
      BY <1>1, <1>6, <3>1, <3>2, Zenon DEF Holds
    <3> QED
      BY <1>1, <1>5, <3>3, Zenon DEF Holds
  <2> QED
    BY <2>2, <2>3, Zenon
<1>10. PICK n \in Nat : n = Len(bio_jobs)
  BY TypeFacts
<1>11. /\ \A j \in 1..n : j \in 1..Len(bio_jobs') /\ bio_jobs'[j] = bio_jobs[j]
       /\ bio_jobs' = Append(bio_jobs, job) =>
            Len(bio_jobs') = n + 1 /\ bio_jobs'[n + 1] = job
       /\ Len(bio_jobs') \in {n, n + 1}
       /\ bio_jobs' = bio_jobs => Len(bio_jobs') = n
  <2>1. bio_jobs \in Seq(Job)
    BY TypeFacts, Zenon
  <2>2. CASE bio_jobs' = bio_jobs
    <3>1. bio_jobs # Append(bio_jobs, job)
      <4>1. Len(Append(bio_jobs, job)) = n + 1
        BY <1>10, <2>1
      <4> QED
        BY <1>10, <4>1
    <3> QED
      BY <1>10, <2>2, <3>1, Zenon
  <2>3. CASE bio_jobs' = Append(bio_jobs, job)
    <3>1. Len(bio_jobs') = n + 1 /\ bio_jobs'[n + 1] = job
      BY <1>10, <2>1, <2>3
    <3>2. \A j \in 1..n : bio_jobs'[j] = bio_jobs[j]
      BY <1>10, <2>1, <2>3
    <3> QED
      BY <1>10, <3>1, <3>2
  <2> QED
    BY <1>1, <2>2, <2>3, Zenon
<1>12. bio_jobs' = Append(bio_jobs, job) => Covers(n + 1)' /\ Untaken(n + 1)'
  <2> SUFFICES ASSUME bio_jobs' = Append(bio_jobs, job) PROVE Covers(n + 1)' /\ Untaken(n + 1)'
    BY Zenon
  <2>1. aof_buf' = 0
    BY <1>1, <1>10, <1>11
  <2>2. \A k \in 1..Len(stream) : \E f \in 1..aof_fd : Holds(f, k)'
    <3>1. Len(stream') - aof_buf' = Len(stream)
      BY <1>1, <1>5, <2>1
    <3> QED
      BY <1>1, <1>9, <3>1, Zenon DEF AllHeld
  <2>3. job.fd = aof_fd /\ job.offset = master_repl_offset
    BY Zenon DEF job
  <2> QED
    BY <1>1, <1>2, <1>3, <1>10, <2>2, <2>3, NewJobCovers, Zenon
<1>13. AllCovered'
  <2> SUFFICES ASSUME NEW i \in 1..Len(bio_jobs') PROVE Covers(i)'
    BY Zenon DEF AllCovered
  <2>1. CASE i \in 1..n
    <3>1. Covers(i)
      BY <1>2, <1>10, <2>1, Zenon DEF AllCovered
    <3>2. \A j \in 1..i : bio_jobs'[j] = bio_jobs[j]
      BY <1>10, <1>11, <2>1
    <3>3. master_repl_offset' >= master_repl_offset
      BY <1>1, CountFacts
    <3> QED
      BY <1>1, <1>3, <1>10, <2>1, <3>1, <3>2, <3>3, CoversKept
  <2>2. CASE i \notin 1..n
    <3>1. Len(bio_jobs') = n + 1 /\ i = n + 1
      BY <1>10, <1>11, <2>2
    <3>2. bio_jobs' = Append(bio_jobs, job)
      BY <1>1, <1>10, <1>11, <3>1
    <3> QED
      BY <1>12, <3>1, <3>2, Zenon
  <2> QED
    BY <2>1, <2>2, Zenon
<1>14. AllKept'
  <2> SUFFICES ASSUME NEW f \in 1..aof_fd PROVE Kept(f)'
    BY <1>1, Zenon DEF AllKept
  <2>1. Kept(f)
    BY <1>2, Zenon DEF AllKept
  <2>2. \A m, l \in Nat : Enough(f, m) /\ l >= m => Enough(f, l)
    <3>1. disk[f].size \in Nat
      BY <1>3, FileCounts, Zenon
    <3> QED
      BY <1>4, <3>1 DEF Enough
  <2>3. CASE f # aof_fd \/ aof_last_incr_fsync_offset' = aof_last_incr_fsync_offset
    <3>1. \A m \in Nat : Enough(f, m) => Enough(f, m)'
      BY <1>1, <1>3, <2>3, Zenon DEF Enough
    <3> QED
      BY <1>1, <1>3, <1>10, <1>11, <2>1, <2>2, <3>1, KeptStays, Zenon
  <2>4. CASE f = aof_fd /\ disk'[aof_fd].durable = aof_last_incr_fsync_offset'
    BY <1>1, <1>4, <2>4 DEF Kept, Enough
  <2>5. CASE f = aof_fd /\ bio_jobs' = Append(bio_jobs, job)
    <3>1. bio_jobs'[n + 1].fd = f /\ n + 1 \in 1..Len(bio_jobs') /\ Untaken(n + 1)'
      BY <1>10, <1>11, <1>12, <2>5 DEF job
    <3> QED
      BY <3>1, Zenon DEF Kept, Untaken
  <2> QED
    BY <1>1, <2>3, <2>4, <2>5, Zenon
<1> QED
  BY <1>7, <1>8, <1>9, <1>13, <1>14, Zenon

\* The rotation submits the fsync of the file it closes, and the new one is empty.
LEMMA SyncOpenNewIncr ==
  ASSUME TypeOK, TypeOK', LogInv, LogInv', SyncInv, openNewIncrAofForAppend
  PROVE  SyncInv'
<1> SUFFICES ASSUME Sound'
             PROVE  OffsetBehind' /\ RewriteFlushed' /\ AllKept' /\ AllHeld' /\ AllCovered'
  BY Zenon DEF SyncInv
<1> DEFINE job == [type |-> "close", fd |-> aof_fd, offset |-> master_repl_offset]
           new == [start |-> disk[aof_fd].start + disk[aof_fd].size, size |-> 0, durable |-> 0]
<1>1. /\ pc = "rewrite_open" /\ pc' = "events" /\ aof_fd' = aof_fd + 1 /\ aof_fd < MaxFiles
      /\ bio_jobs' = Append(bio_jobs, job) /\ disk' = [disk EXCEPT ![aof_fd + 1] = new]
      /\ aof_last_incr_size' = 0 /\ aof_last_incr_fsync_offset' = 0
      /\ UNCHANGED <<aof_buf, stream, master_repl_offset, bio_worker>>
  BY Zenon DEF openNewIncrAofForAppend, offsetVars, replVars
<1>2. Sound
  <2>1. faults' = 0 /\ faults \in Nat
    BY Zenon DEF Sound, TypeOK
  <2>2. faults = 0
    BY <2>1 DEF openNewIncrAofForAppend, Fault
  <2> QED
    BY <1>1, <2>2, Zenon DEF Sound, Running
<1>3. AllKept /\ AllHeld /\ AllCovered /\ aof_buf = 0
  BY <1>1, <1>2, Zenon DEF SyncInv, RewriteFlushed
<1>4. /\ aof_fd \in Nat /\ aof_fd >= 1 /\ aof_fd + 1 \in Files /\ \A f \in 1..aof_fd : f \in Files
      /\ Len(stream) \in Nat
  BY <1>1, TypeFacts, Constructors, BoundsAssumption DEF Files
<1>5. /\ disk'[aof_fd + 1] = new
      /\ \A f \in 1..aof_fd : disk'[f] = disk[f]
  <2>1. disk \in [Files -> File]
    BY Zenon DEF TypeOK
  <2>2. \A f \in 1..aof_fd : f # aof_fd + 1
    BY <1>4
  <2> QED
    BY <1>1, <1>4, <2>1, <2>2, Zenon
<1>6. FilesGrow
  <2>1. \A f \in 1..aof_fd : disk[f].size >= disk[f].size /\ disk[f].durable >= disk[f].durable
    BY <1>4, TypeFacts
  <2> QED
    BY <1>1, <1>4, <1>5, <2>1 DEF FilesGrow
<1> HIDE DEF job, new
<1>7. OffsetBehind'
  BY <1>1 DEF OffsetBehind
<1>8. RewriteFlushed'
  BY <1>1, Zenon DEF RewriteFlushed
<1>9. \A k \in 1..Len(stream) : \E f \in 1..aof_fd : Holds(f, k)'
  <2> SUFFICES ASSUME NEW k \in 1..Len(stream) PROVE \E f \in 1..aof_fd : Holds(f, k)'
    BY Zenon
  <2>1. k \in 1..(Len(stream) - aof_buf) /\ k \in Nat
    BY <1>3, <1>4
  <2>2. PICK f \in 1..aof_fd : Holds(f, k)
    BY <1>3, <2>1, Zenon DEF AllHeld
  <2> QED
    BY <1>6, <2>1, <2>2, HeldGrows, Zenon
<1>10. AllHeld'
  <2>1. \A k \in 1..(Len(stream') - aof_buf') : k \in 1..Len(stream)
    BY <1>1, <1>3, <1>4
  <2>2. \A f \in 1..aof_fd : f \in 1..aof_fd'
    BY <1>1, <1>4
  <2> QED
    BY <1>9, <2>1, <2>2, Zenon DEF AllHeld
<1>11. PICK n \in Nat : n = Len(bio_jobs)
  BY TypeFacts
<1>12. /\ \A j \in 1..n : j \in 1..Len(bio_jobs') /\ bio_jobs'[j] = bio_jobs[j]
       /\ Len(bio_jobs') = n + 1 /\ bio_jobs'[n + 1] = job
  <2>1. bio_jobs \in Seq(Job)
    BY TypeFacts, Zenon
  <2>2. Len(bio_jobs') = n + 1 /\ bio_jobs'[n + 1] = job
    BY <1>1, <1>11, <2>1
  <2>3. \A j \in 1..n : bio_jobs'[j] = bio_jobs[j]
    BY <1>1, <1>11, <2>1
  <2> QED
    BY <1>11, <2>2, <2>3
<1>13. Covers(n + 1)' /\ Untaken(n + 1)'
  <2>1. job.fd = aof_fd /\ job.offset = master_repl_offset
    BY Zenon DEF job
  <2> QED
    BY <1>1, <1>3, <1>5, <1>6, <1>9, <1>11, <2>1, NewJobCovers, Zenon
<1>14. AllCovered'
  <2> SUFFICES ASSUME NEW i \in 1..Len(bio_jobs') PROVE Covers(i)'
    BY Zenon DEF AllCovered
  <2>1. CASE i \in 1..n
    <3>1. Covers(i)
      BY <1>3, <1>11, <2>1, Zenon DEF AllCovered
    <3>2. \A j \in 1..i : bio_jobs'[j] = bio_jobs[j]
      BY <1>11, <1>12, <2>1
    <3>3. master_repl_offset' >= master_repl_offset
      BY <1>1, CountFacts
    <3> QED
      BY <1>1, <1>6, <1>11, <2>1, <3>1, <3>2, <3>3, CoversKept
  <2>2. CASE i \notin 1..n
    <3>1. i = n + 1
      BY <1>11, <1>12, <2>2
    <3> QED
      BY <1>13, <3>1, Zenon
  <2> QED
    BY <2>1, <2>2, Zenon
<1>15. AllKept'
  <2> SUFFICES ASSUME NEW f \in 1..(aof_fd + 1) PROVE Kept(f)'
    BY <1>1, Zenon DEF AllKept
  <2>1. CASE f = aof_fd + 1
    <3>1. disk'[f].durable = 0
      BY <1>5, <2>1 DEF new
    <3> QED
      BY <1>1, <2>1, <3>1 DEF Kept, Enough
  <2>2. CASE f = aof_fd
    <3>1. bio_jobs'[n + 1].fd = f /\ n + 1 \in 1..Len(bio_jobs')
      BY <1>11, <1>12, <2>2 DEF job
    <3> QED
      BY <1>13, <3>1, Zenon DEF Kept, Untaken
  <2>3. CASE f # aof_fd + 1 /\ f # aof_fd
    <3>1. f \in 1..aof_fd /\ f # aof_fd /\ f # aof_fd + 1
      BY <1>4, <2>3
    <3>2. Kept(f) /\ disk[f].size \in Nat
      BY <1>3, <1>4, <3>1, TypeFacts, Zenon DEF AllKept
    <3>3. \A m, l \in Nat : Enough(f, m) /\ l >= m => Enough(f, l)
      BY <3>1, <3>2 DEF Enough
    <3>4. \A m \in Nat : Enough(f, m) => Enough(f, m)'
      BY <1>1, <1>5, <3>1, Zenon DEF Enough
    <3> QED
      BY <1>1, <1>6, <1>11, <1>12, <3>1, <3>2, <3>3, <3>4, KeptStays, Zenon
  <2> QED
    BY <2>1, <2>2, <2>3, Zenon
<1> QED
  BY <1>7, <1>8, <1>10, <1>14, <1>15, Zenon

\* Steps that leave the queue, the worker and the current file's counters
\* alone, and fsync at most: the shutdown, a command, the rest of the loop.
LEMMA SyncOther ==
  ASSUME TypeOK, TypeOK', LogInv, SyncInv, FilesGrow,
         UNCHANGED <<aof_fd, aof_last_incr_size, aof_last_incr_fsync_offset, bio_jobs, bio_worker>>,
         \A f \in 1..aof_fd : disk'[f].size = disk[f].size,
         master_repl_offset' >= master_repl_offset,
         \/ stream' = stream /\ aof_buf' = aof_buf
         \/ stream' = Append(stream, master_repl_offset + 1) /\ aof_buf' = aof_buf + 1,
         Sound' => Sound, pc' = "rewrite_open" => pc = "rewrite_open" /\ aof_buf' = aof_buf
  PROVE  SyncInv'
<1> SUFFICES ASSUME Sound'
             PROVE  OffsetBehind' /\ RewriteFlushed' /\ AllKept' /\ AllHeld' /\ AllCovered'
  BY Zenon DEF SyncInv
<1>1. OffsetBehind /\ RewriteFlushed /\ AllKept /\ AllHeld /\ AllCovered
  BY Zenon DEF SyncInv
<1>2. OffsetBehind' /\ RewriteFlushed'
  BY <1>1, Zenon DEF OffsetBehind, RewriteFlushed
<1>3. AllHeld'
  <2>1. aof_buf \in Nat /\ Len(stream) \in Nat /\ stream \in Seq(Nat)
    BY TypeFacts
  <2>2. Len(stream') - aof_buf' = Len(stream) - aof_buf
    <3>1. CASE stream' = stream /\ aof_buf' = aof_buf
      BY <3>1, Zenon
    <3>2. CASE stream' = Append(stream, master_repl_offset + 1) /\ aof_buf' = aof_buf + 1
      <4>1. Len(stream') = Len(stream) + 1
        BY <2>1, <3>2
      <4> QED
        BY <2>1, <3>2, <4>1
    <3> QED
      BY <3>1, <3>2, Zenon
  <2> SUFFICES ASSUME NEW k \in 1..(Len(stream) - aof_buf)
               PROVE  \E f \in 1..aof_fd' : Holds(f, k)'
    BY <2>2, Zenon DEF AllHeld
  <2>3. PICK f \in 1..aof_fd : Holds(f, k)
    BY <1>1, Zenon DEF AllHeld
  <2>4. k \in Nat
    BY <2>1
  <2> QED
    BY <2>3, <2>4, HeldGrows, Zenon
<1>4. AllCovered'
  <2> SUFFICES ASSUME NEW i \in 1..Len(bio_jobs) PROVE Covers(i)'
    BY Zenon DEF AllCovered
  <2>1. Covers(i)
    BY <1>1, Zenon DEF AllCovered
  <2> QED
    BY <2>1, CoversKept, Zenon
<1>5. AllKept'
  <2> SUFFICES ASSUME NEW f \in 1..aof_fd PROVE Kept(f)'
    BY Zenon DEF AllKept
  <2>1. Kept(f) /\ disk[f].size \in Nat /\ aof_last_incr_fsync_offset \in Nat
    BY <1>1, FileCounts DEF AllKept, TypeOK
  <2>2. \A m, l \in Nat : Enough(f, m) /\ l >= m => Enough(f, l)
    BY <2>1 DEF Enough
  <2>3. \A m \in Nat : Enough(f, m) => Enough(f, m)'
    BY Zenon DEF Enough
  <2> QED
    BY <2>1, <2>2, <2>3, KeptStays, Zenon
<1> QED
  BY <1>2, <1>3, <1>4, <1>5, Zenon

\* The worker forgets nothing: it captures the whole file when it takes a job,
\* and a job leaves the queue only after its fsync.
LEMMA SyncBio ==
  ASSUME TypeOK, TypeOK', LogInv, LogInv', SyncInv, BioStep
  PROVE  SyncInv' /\ (BioFsynced /\ faults = 0 => DurableUpTo(fsynced_reploff_pending)')
<1> USE DEF bioLeaves, flushVars, fileVars, replVars, clientVars, histVars
<1>1. /\ UNCHANGED <<pc, aof_buf, aof_fd, stream, master_repl_offset, aof_last_incr_size,
                     aof_last_incr_fsync_offset>>
      /\ Running
  BY Zenon DEF BioStep, BioTakeJob, BioFsynced, BioFsyncFailed, BioRemoveJob
<1>2. faults' = 0 => faults = 0
  <2>1. faults \in Nat
    BY Zenon DEF TypeOK
  <2> QED
    BY <2>1 DEF BioStep, BioTakeJob, BioFsynced, BioFsyncFailed, BioRemoveJob, Fault
<1> SUFFICES ASSUME faults' = 0
             PROVE  /\ OffsetBehind' /\ RewriteFlushed' /\ AllKept' /\ AllHeld' /\ AllCovered'
                    /\ BioFsynced => DurableUpTo(fsynced_reploff_pending)'
  BY <1>1, Zenon DEF SyncInv, Sound, BioFsynced
<1>3. OffsetBehind /\ RewriteFlushed /\ AllKept /\ AllHeld /\ AllCovered
  BY <1>1, <1>2, Zenon DEF SyncInv, Sound
<1>4. OffsetBehind' /\ RewriteFlushed'
  BY <1>1, <1>3, Zenon DEF OffsetBehind, RewriteFlushed
<1>5. /\ bio_jobs \in Seq(Job) /\ aof_fd \in Nat /\ \A f \in 1..aof_fd : f \in Files
      /\ \A f \in Files : disk[f].start \in Nat /\ disk[f].size \in Nat /\ disk[f].durable \in Nat
      /\ bio_worker.size \in Nat /\ Len(stream) \in Nat /\ aof_last_incr_fsync_offset \in Nat
  BY TypeFacts, SMTT(30) DEF TypeOK
<1>6. PICK n \in Nat : n = Len(bio_jobs)
  BY <1>5
<1>7. bio_jobs # <<>> => n >= 1 /\ 1 \in 1..n /\ Head(bio_jobs) = bio_jobs[1]
  <2>1. bio_jobs # <<>> => Len(bio_jobs) >= 1 /\ Head(bio_jobs) = bio_jobs[1]
    BY <1>5
  <2> QED
    BY <1>6, <2>1
<1>8. bio_worker.state # "idle" =>
        bio_jobs # <<>> /\ bio_worker.size <= disk[Head(bio_jobs).fd].size
  BY Zenon DEF LogInv, WorkerInv, ServedJobIsHead
<1>9. ~BioFsyncFailed
  BY <1>2, <1>5 DEF BioFsyncFailed, Fault
<1>10. CASE BioTakeJob
  <2>1. /\ bio_worker.state = "idle" /\ bio_jobs # <<>>
        /\ bio_worker' = [state |-> "fsync", size |-> disk[Head(bio_jobs).fd].size]
        /\ UNCHANGED <<bio_jobs, disk>>
    BY <1>10, Zenon DEF BioTakeJob
  <2>2. PICK g \in 1..aof_fd : g = bio_jobs[1].fd
    BY <1>6, <1>7, <2>1, JobFacts, Zenon
  <2>3. bio_worker'.state = "fsync" /\ bio_worker'.size = disk[g].size /\ disk[g].size \in Nat
    BY <1>5, <1>7, <2>1, <2>2, Zenon
  <2>4. AllHeld'
    BY <1>1, <1>3, <2>1 DEF AllHeld, Holds
  <2>5. ASSUME NEW j \in 1..n, NEW k \in Nat, Syncs(j, k) PROVE Syncs(j, k)'
    <3>1. Holds(bio_jobs[j].fd, k) /\ Holds(bio_jobs[j].fd, k)'
      BY <2>1, <2>5, Zenon DEF Syncs, Holds
    <3>2. CASE j > 1
      BY <2>1, <3>1, <3>2, Zenon DEF Syncs, Untaken
    <3>3. CASE j = 1
      <4>1. k <= disk[g].start + disk[g].size
        BY <2>2, <3>1, <3>3 DEF Holds
      <4> QED
        BY <2>1, <2>2, <2>3, <3>1, <3>3, <4>1, Zenon DEF Syncs
    <3> QED
      BY <1>6, <3>2, <3>3
  <2>6. AllCovered'
    <3> SUFFICES ASSUME NEW i \in 1..n, NEW k \in 1..Len(stream), stream[k] <= bio_jobs[i].offset
                 PROVE  Durable(k)' \/ \E j \in 1..i : Syncs(j, k)'
      BY <1>1, <1>3, <1>6, <2>1, Zenon DEF AllCovered, Covers
    <3>1. Durable(k) \/ \E j \in 1..i : Syncs(j, k)
      BY <1>3, <1>6 DEF AllCovered, Covers
    <3>2. \A j \in 1..i : j \in 1..n
      BY <1>6
    <3>3. k \in Nat /\ (Durable(k) => Durable(k)')
      BY <1>1, <1>5, <2>1, SMTT(90) DEF Durable
    <3> QED
      BY <2>5, <3>1, <3>2, <3>3
  <2>7. AllKept'
    <3> SUFFICES ASSUME NEW f \in 1..aof_fd PROVE Kept(f)'
      BY <1>1, Zenon DEF AllKept
    <3>1. Kept(f)
      BY <1>3, Zenon DEF AllKept
    <3>2. CASE Enough(f, disk[f].durable)
      BY <1>1, <2>1, <3>2, Zenon DEF Kept, Enough
    <3>3. CASE f = g
      <4>1. Syncing(f)'
        BY <1>7, <2>1, <2>2, <2>3, <3>3, Zenon DEF Syncing
      <4>2. aof_fd = g => disk[g].size = aof_last_incr_size
        BY <1>1, Zenon DEF LogInv, LogAccounted, SizeKnown, Running
      <4>3. Enough(f, bio_worker.size)'
        BY <1>1, <1>3, <2>1, <2>3, <3>3, <4>2, SMTT(90) DEF Enough, OffsetBehind
      <4> QED
        BY <4>1, <4>3 DEF Kept
    <3>4. CASE \E i \in 1..n : bio_jobs[i].fd = f /\ f # g
      <4>1. PICK i \in 1..n : bio_jobs[i].fd = f /\ f # g
        BY <3>4, Zenon
      <4>2. i > 1
        BY <1>6, <2>2, <4>1
      <4> QED
        BY <1>6, <2>1, <4>1, <4>2, Zenon DEF Kept, Untaken
    <3> QED
      BY <1>6, <2>1, <3>1, <3>2, <3>3, <3>4, Zenon DEF Kept, Syncing
  <2> QED
    BY <1>4, <2>1, <2>3, <2>4, <2>6, <2>7, Zenon DEF BioFsynced
<1>11. CASE BioFsynced
  <2>1. /\ UNCHANGED bio_jobs /\ fsynced_reploff_pending' = Head(bio_jobs).offset
        /\ bio_worker' = [bio_worker EXCEPT !.state = "done"] /\ bio_worker.state = "fsync"
    BY <1>11, Zenon DEF BioFsynced
  <2>2. PICK g \in 1..aof_fd : g = bio_jobs[1].fd /\ g = Head(bio_jobs).fd
    BY <1>6, <1>7, <1>8, <2>1, JobFacts, Zenon
  <2>3. disk' = [disk EXCEPT ![g].durable = IF @ < bio_worker.size THEN bio_worker.size ELSE @]
    BY <1>11, <2>2, Zenon DEF BioFsynced
  <2>4. bio_worker'.state = "done"
    <3>1. bio_worker \in [state : {"idle", "fsync", "done"}, size : Nat]
      BY Zenon DEF TypeOK
    <3> QED
      BY <2>1, <3>1, Zenon
  <2>5. /\ \A f \in Files : /\ disk'[f].start = disk[f].start /\ disk'[f].size = disk[f].size
                            /\ disk'[f].durable \in Nat /\ disk'[f].durable >= disk[f].durable
        /\ disk'[g].durable >= bio_worker.size
    <3>1. disk \in [Files -> File] /\ g \in Files
      BY <1>5, <2>2 DEF TypeOK
    <3> QED
      BY <1>5, <2>3, <3>1, SMTT(30) DEF File
  <2>6. FilesGrow
    <3>1. \A f \in Files : disk[f].size >= disk[f].size
      BY <1>5
    <3> QED
      BY <1>1, <1>5, <2>5, <3>1, SMTT(30) DEF FilesGrow
  <2>7. AllHeld'
    BY <1>1, <1>3, <1>5, <2>5 DEF AllHeld, Holds
  <2>8. ASSUME NEW i \in 1..n, NEW k \in 1..Len(stream), stream[k] <= bio_jobs[i].offset
        PROVE  Durable(k)' \/ \E j \in 1..i : j > 1 /\ Syncs(j, k)'
    <3>1. k \in Nat /\ (Durable(k) \/ \E j \in 1..i : Syncs(j, k))
      BY <1>3, <1>5, <1>6, <2>8, SMTT(30) DEF AllCovered, Covers
    <3>2. CASE Durable(k)
      BY <2>6, <3>1, <3>2, UnitsStayDurable, Zenon
    <3>3. CASE \E j \in 1..i : Syncs(j, k)
      <4>1. PICK j \in 1..i : Syncs(j, k)
        BY <3>3, Zenon
      <4>2. j \in 1..n
        BY <1>6
      <4>3. bio_jobs[j].fd \in 1..aof_fd /\ bio_jobs[j].fd \in Files
        BY <1>5, <1>6, <4>2, JobFacts, Zenon
      <4>4. CASE j > 1
        <5>1. Holds(bio_jobs[j].fd, k)'
          BY <2>1, <2>5, <4>1, <4>3, Zenon DEF Syncs, Holds
        <5> QED
          BY <2>1, <4>4, <5>1, Zenon DEF Syncs, Untaken, Holds
      <4>5. CASE j = 1
        <5>1. disk[g].start < k /\ k <= disk[g].start + bio_worker.size
          BY <2>1, <2>2, <4>1, <4>5 DEF Syncs, Holds, Untaken
        <5>2. g \in Files /\ disk'[g].start = disk[g].start
          BY <1>5, <2>2, <2>5, Zenon
        <5>3. disk'[g].start < k /\ k <= disk'[g].start + disk'[g].durable
          BY <1>5, <2>5, <3>1, <5>1, <5>2, SMTT(30)
        <5> QED
          BY <1>1, <2>2, <5>3 DEF Durable
      <4> QED
        BY <1>6, <4>2, <4>4, <4>5
    <3> QED
      BY <3>1, <3>2, <3>3, Zenon
  <2>9. AllCovered'
    BY <1>1, <1>3, <1>6, <2>1, <2>8, Zenon DEF AllCovered, Covers
  <2>10. DurableUpTo(fsynced_reploff_pending)'
    <3>1. 1 \in 1..n /\ fsynced_reploff_pending' = bio_jobs[1].offset
      BY <1>7, <1>8, <2>1, Zenon
    <3>2. \A j \in 1..1 : ~(j > 1)
      OBVIOUS
    <3>3. \A k \in 1..Len(stream) : stream[k] <= bio_jobs[1].offset => Durable(k)'
      BY <2>8, <3>1, <3>2
    <3> QED
      BY <1>1, <3>1, <3>3, Zenon DEF DurableUpTo
  <2>11. AllKept'
    <3> SUFFICES ASSUME NEW f \in 1..aof_fd PROVE Kept(f)'
      BY <1>1, Zenon DEF AllKept
    <3>1. Kept(f) /\ f \in Files
      BY <1>3, <1>5, Zenon DEF AllKept
    <3>2. /\ disk[f].durable \in Nat /\ disk'[f].durable \in Nat /\ disk[f].size \in Nat
          /\ disk'[f].durable >= disk[f].durable /\ disk'[f].size = disk[f].size
      BY <1>5, <2>5, <3>1, Zenon
    <3>3. CASE \E i \in 1..n : bio_jobs[i].fd = f /\ Untaken(i)
      BY <1>6, <2>1, <3>3 DEF Kept, Untaken
    <3>4. CASE Syncing(f) /\ Enough(f, bio_worker.size)
      <4>1. f = g
        BY <2>2, <3>4, Zenon DEF Syncing
      <4>2. Enough(f, disk[f].durable)'
        BY <1>1, <1>5, <2>5, <3>2, <3>4, <4>1, SMTT(90) DEF Enough
      <4> QED
        BY <4>2, Zenon DEF Kept
    <3>5. CASE Enough(f, disk[f].durable)
      <4>1. Enough(f, disk[f].durable)'
        BY <1>1, <1>5, <3>2, <3>5, SMTT(90) DEF Enough
      <4> QED
        BY <4>1, Zenon DEF Kept
    <3> QED
      BY <1>6, <3>1, <3>3, <3>4, <3>5, Zenon DEF Kept
  <2> QED
    BY <1>4, <2>7, <2>9, <2>10, <2>11, Zenon
<1>12. CASE BioRemoveJob
  <2>1. /\ UNCHANGED disk /\ bio_worker' = Idle /\ bio_jobs' = Tail(bio_jobs)
        /\ bio_worker.state = "done"
    BY <1>12, Zenon DEF BioRemoveJob
  <2>2. bio_jobs # <<>> /\ n >= 1
    BY <1>7, <1>8, <2>1, Zenon
  <2>3. PICK m \in Nat : m = n - 1
    BY <1>6, <2>2
  <2>4. Len(bio_jobs') = m /\ \A j \in 1..m : bio_jobs'[j] = bio_jobs[j + 1]
    <3>1. Len(Tail(bio_jobs)) = Len(bio_jobs) - 1
      BY <1>5, <2>2
    <3>2. \A j \in 1..Len(Tail(bio_jobs)) : Tail(bio_jobs)[j] = bio_jobs[j + 1]
      BY <1>5, <2>2
    <3> QED
      BY <1>6, <2>1, <2>3, <3>1, <3>2, Zenon
  <2>5. \A j \in 2..n : j - 1 \in 1..m /\ bio_jobs'[j - 1] = bio_jobs[j]
    BY <1>6, <2>3, <2>4
  <2>6. \A j \in 1..m : Untaken(j)'
    BY <2>1, Zenon DEF Untaken
  <2>7. AllHeld'
    BY <1>1, <1>3, <2>1 DEF AllHeld, Holds
  <2>8. AllCovered'
    <3> SUFFICES ASSUME NEW i \in 1..m PROVE Covers(i)'
      BY <2>4 DEF AllCovered
    <3>1. i + 1 \in 1..n /\ bio_jobs'[i] = bio_jobs[i + 1] /\ Covers(i + 1)
      BY <1>3, <1>6, <2>3, <2>4 DEF AllCovered
    <3>2. ASSUME NEW k \in 1..Len(stream), stream[k] <= bio_jobs[i + 1].offset
          PROVE  Durable(k)' \/ \E j \in 1..i : Syncs(j, k)'
      <4>1. Durable(k) \/ \E j \in 1..(i + 1) : Syncs(j, k)
        BY <3>1, <3>2, Zenon DEF Covers
      <4>2. CASE Durable(k)
        BY <1>1, <2>1, <4>2, Zenon DEF Durable
      <4>3. CASE \E j \in 1..(i + 1) : Syncs(j, k)
        <5>1. PICK j \in 1..(i + 1) : Syncs(j, k)
          BY <4>3, Zenon
        <5>2. Untaken(j) /\ Holds(bio_jobs[j].fd, k)
          BY <2>1, <5>1, Zenon DEF Syncs
        <5>3. j > 1
          BY <2>1, <5>2 DEF Untaken
        <5>4. PICK l \in 1..i : l = j - 1 /\ l \in 1..m /\ bio_jobs'[l] = bio_jobs[j]
          <6>1. j \in 2..n /\ j - 1 \in 1..i
            BY <1>6, <3>1, <5>3
          <6> QED
            BY <2>5, <6>1, Zenon
        <5>5. Syncs(l, k)'
          BY <2>1, <2>6, <5>2, <5>4, Zenon DEF Syncs, Holds
        <5> QED
          BY <5>5, Zenon
      <4> QED
        BY <4>1, <4>2, <4>3, Zenon
    <3> QED
      BY <1>1, <3>1, <3>2, Zenon DEF Covers
  <2>9. AllKept'
    <3> SUFFICES ASSUME NEW f \in 1..aof_fd PROVE Kept(f)'
      BY <1>1, Zenon DEF AllKept
    <3>1. Kept(f)
      BY <1>3, Zenon DEF AllKept
    <3>2. CASE Enough(f, disk[f].durable)
      BY <1>1, <2>1, <3>2, Zenon DEF Kept, Enough
    <3>3. CASE \E i \in 1..n : bio_jobs[i].fd = f /\ Untaken(i)
      <4>1. PICK i \in 1..n : bio_jobs[i].fd = f /\ Untaken(i)
        BY <3>3, Zenon
      <4>2. i \in 2..n
        BY <1>6, <2>1, <4>1 DEF Untaken
      <4>3. PICK l \in 1..m : bio_jobs'[l] = bio_jobs[i]
        BY <2>5, <4>2, Zenon
      <4>4. bio_jobs'[l].fd = f /\ Untaken(l)'
        BY <2>6, <4>1, <4>3, Zenon
      <4> QED
        BY <2>4, <4>4, Zenon DEF Kept, Untaken
    <3> QED
      BY <1>6, <2>1, <3>1, <3>2, <3>3, Zenon DEF Kept, Syncing
  <2> QED
    BY <1>4, <2>1, <2>7, <2>8, <2>9, Zenon DEF BioFsynced
<1> QED
  BY <1>9, <1>10, <1>11, <1>12, Zenon DEF BioStep

\* finishShutdown only fsyncs the current file.
LEMMA SyncFinishShutdown ==
  ASSUME TypeOK, TypeOK', LogInv, SyncInv, finishShutdown
  PROVE  SyncInv'
<1>1. /\ UNCHANGED <<aof_buf, aof_fd, aof_last_incr_size, aof_last_incr_fsync_offset,
                     master_repl_offset, bio_jobs, bio_worker, stream>>
      /\ pc = "shutdown_fsync" /\ pc' \in {"exited", "events"}
      /\ \/ disk' = [disk EXCEPT ![aof_fd].durable = disk[aof_fd].size] /\ UNCHANGED faults
         \/ faults' = faults + 1 /\ UNCHANGED disk
  BY Zenon DEF finishShutdown, Fault, offsetVars, replVars, bioVars
<1>2. /\ disk \in [Files -> File] /\ aof_fd \in Files /\ aof_fd \in Nat /\ faults \in Nat
      /\ \A f \in 1..aof_fd : f \in Files
      /\ \A f \in Files : disk[f].size \in Nat /\ disk[f].durable \in Nat
                          /\ disk[f].durable <= disk[f].size
      /\ master_repl_offset \in Nat
  BY TypeFacts, Zenon DEF TypeOK, LogInv, WorkerInv, DurableWithin
<1>3. Sound' => Sound
  BY <1>1, <1>2 DEF Sound, Running
<1>4. \A f \in 1..aof_fd : /\ disk'[f].start = disk[f].start /\ disk'[f].size = disk[f].size
                           /\ disk'[f].durable >= disk[f].durable
  BY <1>1, <1>2 DEF File
<1>5. FilesGrow
  BY <1>1, <1>2, <1>4 DEF FilesGrow
<1>6. master_repl_offset' >= master_repl_offset
  BY <1>1, <1>2
<1> QED
  BY <1>1, <1>3, <1>4, <1>5, <1>6, SyncOther

\* A command is appended to the buffer and to no file.
LEMMA SyncWriteCommand ==
  ASSUME TypeOK, TypeOK', LogInv, SyncInv, NEW c \in Client, WriteCommand(c)
  PROVE  SyncInv'
<1>1. /\ UNCHANGED <<pc, aof_fd, disk, aof_last_incr_size, aof_last_incr_fsync_offset,
                     bio_jobs, bio_worker, faults>>
      /\ pc = "events" /\ master_repl_offset' = master_repl_offset + 1
      /\ stream' = Append(stream, master_repl_offset + 1) /\ aof_buf' = aof_buf + 1
  BY Zenon DEF WriteCommand, Ready, feedAppendOnlyFile, fileVars, bioVars
<1>2. /\ aof_fd \in Nat /\ master_repl_offset \in Nat
      /\ \A f \in 1..aof_fd : disk[f].size \in Nat /\ disk[f].durable \in Nat
  BY TypeFacts, FileCounts, Zenon
<1>3. FilesGrow
  BY <1>1, <1>2 DEF FilesGrow
<1>4. Sound' => Sound
  BY <1>1, Zenon DEF Sound, Running
<1>5. master_repl_offset' >= master_repl_offset
  BY <1>1, <1>2
<1> QED
  BY <1>1, <1>3, <1>4, <1>5, SyncOther, Zenon

\* The other steps leave the files, the queue and the worker alone.
LEMMA SyncRest ==
  ASSUME TypeOK, TypeOK', LogInv, SyncInv,
         \/ UNCHANGED vars
         \/ \E c \in Client : ReplOnlyCommand(c) \/ waitaofCommand(c)
         \/ \E p \in Policies : updateAppendFsync(p)
         \/ \E timedOut \in SUBSET Client : blockedBeforeSleep(timedOut)
         \/ EndOfEvents \/ UpdateFsyncedReploff \/ handleClientsWithPendingWrites
         \/ bioDrainWorker \/ OpenNewIncrFails \/ serverCron \/ Tick \/ ForkOrReapChild
         \/ rewriteAppendOnlyFileBackground \/ Shutdown
  PROVE  SyncInv'
<1>1. /\ UNCHANGED <<aof_buf, fileVars, stream, bio_jobs, bio_worker>>
      /\ master_repl_offset' \in {master_repl_offset, master_repl_offset + 1}
      /\ pc = "dead" => pc' = "dead"
      /\ pc = "exited" => pc' = "exited"
      /\ pc' = "rewrite_open" => pc = "rewrite_open"
  BY Zenon DEF vars, allButPc, flushVars, bioVars, histVars, offsetVars, replVars, Ready,
         ReplOnlyCommand, waitaofCommand, updateAppendFsync, blockedBeforeSleep, EndOfEvents,
         UpdateFsyncedReploff, handleClientsWithPendingWrites, bioDrainWorker,
         OpenNewIncrFails, serverCron, Tick, ForkOrReapChild,
         rewriteAppendOnlyFileBackground, Shutdown
<1>2. faults' \in {faults, faults + 1}
  BY Zenon DEF vars, allButPc, flushVars, histVars, Fault,
         ReplOnlyCommand, waitaofCommand, updateAppendFsync, blockedBeforeSleep, EndOfEvents,
         UpdateFsyncedReploff, handleClientsWithPendingWrites, bioDrainWorker,
         OpenNewIncrFails, serverCron, Tick, ForkOrReapChild,
         rewriteAppendOnlyFileBackground, Shutdown
<1>3. /\ aof_fd \in Nat /\ master_repl_offset \in Nat /\ faults \in Nat
      /\ \A f \in 1..aof_fd : disk[f].size \in Nat /\ disk[f].durable \in Nat
  BY TypeFacts, FileCounts, Zenon DEF TypeOK
<1>4. FilesGrow
  BY <1>1, <1>3 DEF FilesGrow, fileVars
<1>5. Sound' => Sound
  BY <1>1, <1>2, <1>3 DEF Sound, Running
<1>6. master_repl_offset' >= master_repl_offset
  BY <1>1, <1>3
<1> QED
  BY <1>1, <1>4, <1>5, <1>6, SyncOther, Zenon DEF fileVars

\* Initially the only file is empty and no job is queued.
LEMMA SyncInit == Init => SyncInv
<1> SUFFICES ASSUME Init PROVE SyncInv
  BY Zenon
<1>1. /\ pc = "events" /\ aof_buf = 0 /\ stream = <<>> /\ bio_jobs = <<>> /\ aof_fd = 1
      /\ aof_last_incr_size = 0 /\ aof_last_incr_fsync_offset = 0
  BY Zenon DEF Init
<1>2. disk[1].durable = 0 /\ Len(stream) = 0 /\ Len(bio_jobs) = 0
  BY <1>1, BoundsAssumption, SMTT(30) DEF Init, NoFile
<1>3. OffsetBehind /\ RewriteFlushed
  BY <1>1 DEF OffsetBehind, RewriteFlushed
<1>4. AllKept
  BY <1>1, <1>2, SMTT(30) DEF AllKept, Kept, Enough
<1>5. AllHeld /\ AllCovered
  BY <1>1, <1>2 DEF AllHeld, AllCovered
<1> QED
  BY <1>3, <1>4, <1>5 DEF SyncInv

\* Every step preserves the invariant, whatever the policy.
LEMMA SyncStep ==
  ASSUME TypeOK, TypeOK', LogInv, LogInv', SyncInv, [Next]_vars
  PROVE  SyncInv' /\ (BioFsynced /\ faults = 0 => DurableUpTo(fsynced_reploff_pending)')
<1>1. CASE Flush
  BY <1>1, SyncFlush, SyncBio, Zenon DEF BioStep
<1>2. CASE \E c \in Client : WriteCommand(c)
  BY <1>2, SyncWriteCommand, SyncBio, Zenon DEF BioStep
<1>3. CASE openNewIncrAofForAppend \/ finishShutdown \/ BioStep
  BY <1>3, SyncOpenNewIncr, SyncFinishShutdown, SyncBio, Zenon DEF BioStep
<1> QED
  BY <1>1, <1>2, <1>3, SyncRest, SyncBio, Zenon DEF Next, ClientStep, LoopStep, BioStep

\* On a sound disk, under every policy and every change of it: the bookkeeping
\* of the fsyncs still owed holds in every reachable state.
THEOREM SyncCorrect == Spec => [](TypeOK /\ LogInv /\ SyncInv)
<1>1. Init => TypeOK /\ LogInv /\ SyncInv
  BY LogInductive, SyncInit, Zenon
<1>2. TypeOK /\ LogInv /\ SyncInv /\ [Next]_vars => TypeOK' /\ LogInv' /\ SyncInv'
  BY LogInductive, SyncStep, Zenon
<1> QED
  BY <1>1, <1>2, PTL DEF Spec

\* On a sound disk no file's fsync is forgotten: bytes that are not durable have
\* a job queued or lie past the offset the next flush compares (aof.c:1051-1070).
THEOREM NoFsyncForgotten == Spec => []NothingForgotten
<1>1. TypeOK /\ LogInv /\ SyncInv => NothingForgotten
  <2> SUFFICES ASSUME TypeOK, LogInv, SyncInv, Running, faults = 0, NEW f \in 1..aof_fd
               PROVE  \/ \E i \in 1..Len(bio_jobs) : bio_jobs[i].fd = f
                      \/ disk[f].durable = disk[f].size
                      \/ f = aof_fd /\ aof_last_incr_fsync_offset <= disk[f].durable
    BY Zenon DEF NothingForgotten
  <2>1. Kept(f)
    BY Zenon DEF SyncInv, Sound, AllKept
  <2>2. CASE \E i \in 1..Len(bio_jobs) : bio_jobs[i].fd = f /\ Untaken(i)
    BY <2>2
  <2>3. CASE Syncing(f)
    <3>1. bio_jobs # <<>> /\ bio_jobs \in Seq(Job)
      BY <2>3, Zenon DEF Syncing, LogInv, WorkerInv, ServedJobIsHead, TypeOK
    <3>2. Len(bio_jobs) >= 1 /\ Len(bio_jobs) \in Nat /\ Head(bio_jobs) = bio_jobs[1]
      BY <3>1
    <3> QED
      BY <2>3, <3>2 DEF Syncing
  <2>4. CASE Enough(f, disk[f].durable)
    <3>1. /\ f \in Files /\ disk[f].durable <= disk[f].size
          /\ disk[f].durable \in Nat /\ disk[f].size \in Nat
      BY TypeFacts, FileCounts, Zenon DEF LogInv, WorkerInv, DurableWithin, TypeOK
    <3> QED
      BY <2>4, <3>1 DEF Enough
  <2> QED
    BY <2>1, <2>2, <2>3, <2>4, Zenon DEF Kept
<1> QED
  BY <1>1, SyncCorrect, PTL

\* On a sound disk the offset that the worker publishes in
\* fsynced_reploff_pending covers durable commands only, whatever was rotated or
\* written since the job was submitted (bio.c:317-324).
THEOREM PublishedIsDurable == Spec => BioPublishesDurable
<1>1. TypeOK /\ LogInv /\ SyncInv /\ [Next]_vars =>
        [BioFsynced /\ faults = 0 => DurableUpTo(fsynced_reploff_pending)']_vars
  BY LogInductive, SyncStep, Zenon
<1> QED
  BY <1>1, SyncCorrect, PTL DEF Spec, BioPublishesDurable
=============================================================================
