------------------------------ MODULE AofFlush ------------------------------
(***************************************************************************)
(* The write path of the append-only file of the Redis server: commands    *)
(* feed aof_buf, the event loop flushes it with write(2), the AOF is       *)
(* fsynced inline or by the bio worker, and only then are replies sent.    *)
(* WAITAOF answers from fsynced_reploff.  aof_state is AOF_ON throughout.  *)
(*                                                                         *)
(* A unit of the log is one command.  File contents are counted, not       *)
(* stored: appends are contiguous, so a file is the interval of units      *)
(* start+1 .. start+size, of which the first `durable' ones are known to   *)
(* survive a power loss.  Times are ages in seconds, saturated at the      *)
(* thresholds the code compares them with.                                 *)
(***************************************************************************)
EXTENDS Integers, Sequences

CONSTANTS
  Client,            \* connections
  Policies,          \* the appendfsync values in use; CONFIG SET picks among them
  NoFsyncOnRewrite,  \* no-appendfsync-on-rewrite
  Faults,            \* the disk faults that may occur
  MaxFaults,         \* bound: number of disk faults
  MaxOffset,         \* bound: replication offset
  MaxFiles           \* bound: INCR files ever opened

ASSUME PoliciesAssumption == Policies # {} /\ Policies \subseteq {"always", "everysec", "no"}
ASSUME FlagAssumption     == NoFsyncOnRewrite \in BOOLEAN
ASSUME FaultsAssumption   == Faults \subseteq {"write", "truncate", "fsync", "open", "fork"}
ASSUME BoundsAssumption   == MaxFaults \in Nat /\ MaxOffset \in Nat /\ MaxFiles \in Nat \ {0}

VARIABLES
  pc,                          \* where the main thread is in the event loop
  aof_fsync,                   \* server.aof_fsync
  aof_buf,                     \* units in server.aof_buf
  aof_fd,                      \* the INCR file being appended to
  aof_last_incr_size,
  aof_last_incr_fsync_offset,
  aof_last_fsync,              \* age of the last fsync: 0, or 1 for >= 1000 ms
  aof_flush_postponed_start,   \* -1: not postponed; else its age, 2 for >= 2000 ms
  aof_last_write_status,
  aof_bio_fsync_status,        \* atomic, shared with the bio worker
  fsynced_reploff_pending,     \* atomic, shared with the bio worker
  fsynced_reploff,
  master_repl_offset,
  child_type,                  \* "none", or "active" for a child of any kind
  bio_jobs,                    \* queue of the AOF bio worker; the head is in service
  bio_worker,                  \* [state, size]: what the worker is doing
  disk,                        \* per file: start, size (page cache), durable
  woff, wait, out,             \* per client: c->woff, WAITAOF target, reply buffer
  stream,                      \* history: replication offset of every unit fed
  faults                       \* history: faults so far

fileVars  == <<aof_fd, aof_last_incr_size, aof_last_incr_fsync_offset, disk>>
timeVars  == <<aof_last_fsync, aof_flush_postponed_start>>
replVars  == <<fsynced_reploff, master_repl_offset>>
bioVars   == <<bio_jobs, bio_worker, aof_bio_fsync_status>>
flushVars == <<aof_buf, fileVars, timeVars, aof_last_write_status>>
offsetVars == <<fsynced_reploff_pending, replVars>>
clientVars == <<woff, wait, out>>
histVars  == <<stream, faults>>
allButPc  == <<aof_fsync, flushVars, offsetVars, child_type, bioVars, clientVars, histVars>>
vars == <<pc, allButPc>>

NoReply == [kind |-> "none", off |-> 0, local |-> 0]
NoFile  == [start |-> 0, size |-> 0, durable |-> 0]
Idle    == [state |-> "idle", size |-> 0]
NotWaiting == -1

Init ==
  /\ pc = "events"
  /\ aof_fsync \in Policies
  /\ aof_buf = 0 /\ aof_fd = 1
  /\ aof_last_incr_size = 0 /\ aof_last_incr_fsync_offset = 0
  /\ aof_last_fsync = 1 /\ aof_flush_postponed_start = -1
  /\ aof_last_write_status = "ok" /\ aof_bio_fsync_status = "ok"
  /\ fsynced_reploff_pending = 0 /\ fsynced_reploff = 0 /\ master_repl_offset = 0
  /\ child_type = "none"
  /\ bio_jobs = <<>> /\ bio_worker = Idle
  /\ disk = [f \in 1..MaxFiles |-> NoFile]
  /\ woff = [c \in Client |-> 0]
  /\ wait = [c \in Client |-> NotWaiting]
  /\ out = [c \in Client |-> NoReply]
  /\ stream = <<>> /\ faults = 0

hasActiveChildProcess == child_type # "none"

Fault(kind) == kind \in Faults /\ faults < MaxFaults /\ faults' = faults + 1

-----------------------------------------------------------------------------
(* Commands, executed while the event loop serves its file events.         *)

Ready(c) == pc = "events" /\ wait[c] = NotWaiting /\ out[c] = NoReply

writeCommandsDeniedByDiskError ==
  aof_last_write_status = "err" \/ aof_bio_fsync_status = "err"

feedAppendOnlyFile ==
  /\ aof_buf' = aof_buf + 1
  /\ stream' = Append(stream, master_repl_offset + 1)

\* A write command: executed, propagated to the AOF buffer and to the
\* replication stream; its reply waits in the client's output buffer.
WriteCommand(c) ==
  /\ Ready(c) /\ master_repl_offset < MaxOffset
  /\ ~writeCommandsDeniedByDiskError
  /\ feedAppendOnlyFile
  /\ master_repl_offset' = master_repl_offset + 1
  /\ woff' = [woff EXCEPT ![c] = master_repl_offset + 1]
  /\ out' = [out EXCEPT ![c] = [kind |-> "write", off |-> master_repl_offset + 1, local |-> 0]]
  /\ UNCHANGED <<pc, aof_fsync, fileVars, timeVars, aof_last_write_status,
                 fsynced_reploff_pending, fsynced_reploff, child_type, bioVars, wait, faults>>

\* Propagation to the replication stream only (a module's RM_Call with
\* NO_AOF, or a PING to the replicas): the offset moves, the AOF does not.
\* The client, if there is one, remembers the offset.
ReplOnlyCommand(c) ==
  /\ Ready(c) /\ master_repl_offset < MaxOffset
  /\ master_repl_offset' = master_repl_offset + 1
  /\ woff' \in {woff, [woff EXCEPT ![c] = master_repl_offset + 1]}
  /\ UNCHANGED <<pc, aof_fsync, flushVars, fsynced_reploff_pending, fsynced_reploff, child_type,
                 bioVars, wait, out, histVars>>

\* Faulty variant: WAITAOF is satisfied one offset early.
acklocal_OffByOne(off) == IF fsynced_reploff + 1 >= off THEN 1 ELSE 0

acklocal(off) == IF fsynced_reploff >= off THEN 1 ELSE 0

WaitaofReply(off) == [kind |-> "waitaof", off |-> off, local |-> acklocal(off)]

\* WAITAOF 1 0 timeout: answered at once, or the client blocks.  It may be
\* pipelined behind a write whose reply is still in the output buffer.
waitaofCommand(c) ==
  /\ Ready(c) \/ (pc = "events" /\ wait[c] = NotWaiting /\ out[c].kind = "write")
  /\ IF acklocal(woff[c]) = 1
       THEN out' = [out EXCEPT ![c] = WaitaofReply(woff[c])] /\ UNCHANGED wait
       ELSE wait' = [wait EXCEPT ![c] = woff[c]] /\ UNCHANGED out
  /\ UNCHANGED <<pc, aof_fsync, flushVars, offsetVars, child_type, bioVars, woff, histVars>>

\* Faulty variant: the switch to always does not wait for the bio worker.
updateAppendFsync_NoDrain(p) ==
  /\ pc = "events" /\ p # aof_fsync
  /\ aof_fsync' = p
  /\ pc' = "events"
  /\ UNCHANGED <<flushVars, offsetVars, child_type, bioVars, clientVars, histVars>>

\* CONFIG SET appendfsync; a switch to always waits for the bio worker.
updateAppendFsync(p) ==
  /\ pc = "events" /\ p # aof_fsync
  /\ aof_fsync' = p
  /\ pc' = IF p = "always" THEN "drain" ELSE "events"
  /\ UNCHANGED <<flushVars, offsetVars, child_type, bioVars, clientVars, histVars>>

bioDrainWorker ==
  /\ pc = "drain" /\ bio_jobs = <<>>
  /\ pc' = "events"
  /\ UNCHANGED allButPc

-----------------------------------------------------------------------------
(* flushAppendOnlyFile.  It is called at the end of beforeSleep, by the    *)
(* cron, before a rewrite and at shutdown; the last two force the write.   *)

ReturnPc == [flush |-> "reploff", cron_flush |-> "before",
             rewrite_flush |-> "rewrite_open", shutdown_flush |-> "shutdown_fsync"]
force == pc \in {"rewrite_flush", "shutdown_flush"}
flushLeaves == UNCHANGED <<aof_fsync, aof_fd, replVars, child_type, bio_worker,
                           aof_bio_fsync_status, clientVars, stream>>

aofFsyncInProgress == \E i \in 1..Len(bio_jobs) : bio_jobs[i].type = "fsync"

FsyncOffsetBehind == aof_last_incr_fsync_offset # aof_last_incr_size

\* Faulty variant: everysec never fsyncs on an empty buffer.
FsyncDueOnEmptyBuffer_NotEverysec ==
  /\ FsyncOffsetBehind
  /\ aof_fsync = "always"

FsyncDueOnEmptyBuffer ==
  /\ FsyncOffsetBehind
  /\ \/ aof_fsync = "everysec" /\ aof_last_fsync = 1 /\ ~aofFsyncInProgress
     \/ aof_fsync = "always"

\* The condition of the EVERYSEC test short-circuits: sync_in_progress keeps
\* its initial 0 unless every conjunct before the call was true.
SyncSeenOnEmptyBuffer ==
  aof_fsync = "everysec" /\ FsyncOffsetBehind /\ aof_last_fsync = 1 /\ aofFsyncInProgress

\* Faulty variant: the offset does not catch up when there is nothing to fsync.
FlushNothing_NoCatchUp ==
  /\ pc \in DOMAIN ReturnPc /\ aof_buf = 0 /\ ~FsyncDueOnEmptyBuffer
  /\ UNCHANGED fsynced_reploff_pending
  /\ pc' = ReturnPc[pc]
  /\ flushLeaves
  /\ UNCHANGED <<aof_buf, aof_last_incr_size, aof_last_incr_fsync_offset, disk, timeVars,
                 aof_last_write_status, bio_jobs, faults>>

\* Nothing to write and nothing to fsync: fsynced_reploff_pending catches up.
FlushNothing ==
  /\ pc \in DOMAIN ReturnPc /\ aof_buf = 0 /\ ~FsyncDueOnEmptyBuffer
  /\ fsynced_reploff_pending' =
       IF SyncSeenOnEmptyBuffer \/ aof_fsync = "no" THEN fsynced_reploff_pending
                                                   ELSE master_repl_offset
  /\ pc' = ReturnPc[pc]
  /\ flushLeaves
  /\ UNCHANGED <<aof_buf, aof_last_incr_size, aof_last_incr_fsync_offset, disk, timeVars,
                 aof_last_write_status, bio_jobs, faults>>

\* The inline fsync of policy always: it succeeds or the process exits.
FsyncNow(size, d) ==
  \/ /\ disk' = [d EXCEPT ![aof_fd].durable = size]
     /\ aof_last_incr_fsync_offset' = size
     /\ aof_last_fsync' = 0
     /\ fsynced_reploff_pending' = master_repl_offset
     /\ pc' = ReturnPc[pc]
     /\ UNCHANGED <<bio_jobs, faults>>
  \/ /\ Fault("fsync")
     /\ disk' = d /\ pc' = "dead"
     /\ UNCHANGED <<aof_last_incr_fsync_offset, aof_last_fsync, fsynced_reploff_pending, bio_jobs>>

aof_background_fsync ==
  bio_jobs' = Append(bio_jobs, [type |-> "fsync", fd |-> aof_fd, offset |-> master_repl_offset])

\* The background fsync of policy everysec, unless one is under way.
FsyncInBackground(size, d) ==
  /\ IF aofFsyncInProgress
       THEN UNCHANGED <<bio_jobs, aof_last_incr_fsync_offset>>
       ELSE /\ aof_background_fsync
            /\ aof_last_incr_fsync_offset' = size
  /\ aof_last_fsync' = 0
  /\ disk' = d /\ pc' = ReturnPc[pc]
  /\ UNCHANGED <<fsynced_reploff_pending, faults>>

\* Faulty variant: policy always is rate limited like everysec.
TryFsync_RateLimited(size, d) ==
  LET skip == NoFsyncOnRewrite /\ hasActiveChildProcess IN
  \/ ~skip /\ aof_fsync = "always" /\ aof_last_fsync = 1 /\ FsyncNow(size, d)
  \/ ~skip /\ aof_fsync = "everysec" /\ aof_last_fsync = 1 /\ FsyncInBackground(size, d)
  \/ /\ skip \/ aof_fsync = "no" \/ (aof_fsync # "no" /\ aof_last_fsync = 0)
     /\ disk' = d /\ pc' = ReturnPc[pc]
     /\ UNCHANGED <<aof_last_incr_fsync_offset, aof_last_fsync, fsynced_reploff_pending,
                    bio_jobs, faults>>

\* The try_fsync label: `size' and `d' are the file size and the disk after
\* the write.
TryFsync(size, d) ==
  LET skip == NoFsyncOnRewrite /\ hasActiveChildProcess IN
  \/ ~skip /\ aof_fsync = "always" /\ FsyncNow(size, d)
  \/ ~skip /\ aof_fsync = "everysec" /\ aof_last_fsync = 1 /\ FsyncInBackground(size, d)
  \/ /\ skip \/ aof_fsync = "no" \/ (aof_fsync = "everysec" /\ aof_last_fsync = 0)
     /\ disk' = d /\ pc' = ReturnPc[pc]
     /\ UNCHANGED <<aof_last_incr_fsync_offset, aof_last_fsync, fsynced_reploff_pending,
                    bio_jobs, faults>>

FlushFsyncOnly ==
  /\ pc \in DOMAIN ReturnPc /\ aof_buf = 0 /\ FsyncDueOnEmptyBuffer
  /\ TryFsync(aof_last_incr_size, disk)
  /\ flushLeaves
  /\ UNCHANGED <<aof_buf, aof_last_incr_size, aof_flush_postponed_start, aof_last_write_status>>

\* Policy everysec with a background fsync still running: for two seconds
\* the write is put off.
Postpone == /\ aof_fsync = "everysec" /\ ~force /\ aofFsyncInProgress
            /\ aof_flush_postponed_start < 2

FlushPostponed ==
  /\ pc \in DOMAIN ReturnPc /\ aof_buf > 0 /\ Postpone
  /\ aof_flush_postponed_start' =
       IF aof_flush_postponed_start = -1 THEN 0 ELSE aof_flush_postponed_start
  /\ pc' = ReturnPc[pc]
  /\ flushLeaves
  /\ UNCHANGED <<aof_buf, aof_last_incr_size, aof_last_incr_fsync_offset, disk, aof_last_fsync,
                 aof_last_write_status, fsynced_reploff_pending, bio_jobs, faults>>

\* Faulty variant: aof_buf is not cleared after the write.
FlushWrite_KeepsBuffer ==
  /\ pc \in DOMAIN ReturnPc /\ aof_buf > 0 /\ ~Postpone
  /\ aof_last_incr_size' = aof_last_incr_size + aof_buf
  /\ UNCHANGED aof_buf
  /\ aof_flush_postponed_start' = -1
  /\ aof_last_write_status' = "ok"
  /\ TryFsync(aof_last_incr_size + aof_buf, [disk EXCEPT ![aof_fd].size = @ + aof_buf])
  /\ flushLeaves

FlushWrite ==
  /\ pc \in DOMAIN ReturnPc /\ aof_buf > 0 /\ ~Postpone
  /\ aof_last_incr_size' = aof_last_incr_size + aof_buf
  /\ aof_buf' = 0
  /\ aof_flush_postponed_start' = -1
  /\ aof_last_write_status' = "ok"
  /\ TryFsync(aof_last_incr_size + aof_buf, [disk EXCEPT ![aof_fd].size = @ + aof_buf])
  /\ flushLeaves

\* write(2) fails after n units.  A partial write is undone with ftruncate,
\* unless that fails too.  Policy always gives up; the others keep the rest
\* of the buffer and stop accepting writes.
FlushWriteError(n) ==
  /\ pc \in DOMAIN ReturnPc /\ n < aof_buf /\ ~Postpone
  /\ n > 0 => "truncate" \in Faults
  /\ Fault("write")
  /\ disk' = [disk EXCEPT ![aof_fd].size = @ + n]
  /\ aof_flush_postponed_start' = -1
  /\ IF aof_fsync = "always"
       THEN /\ pc' = "dead"
            /\ UNCHANGED <<aof_last_write_status, aof_last_incr_size, aof_buf>>
       ELSE /\ pc' = ReturnPc[pc]
            /\ aof_last_write_status' = "err"
            /\ aof_last_incr_size' = aof_last_incr_size + n
            /\ aof_buf' = aof_buf - n
  /\ flushLeaves
  /\ UNCHANGED <<aof_last_incr_fsync_offset, aof_last_fsync, fsynced_reploff_pending, bio_jobs>>

-----------------------------------------------------------------------------
(* The event loop around the flush.                                        *)

\* serverCron retries a postponed flush and, once a second, a failed write.
serverCron ==
  /\ pc = "events"
  /\ aof_flush_postponed_start # -1 \/ aof_last_write_status = "err"
  /\ pc' = "cron_flush"
  /\ UNCHANGED allButPc

\* The file events are served: control goes to beforeSleep.
EndOfEvents ==
  /\ pc = "events"
  /\ pc' = "before"
  /\ UNCHANGED allButPc

\* blockedBeforeSleep: the clients in `timedOut' give up waiting, the
\* others are answered once fsynced_reploff has reached their offset.
blockedBeforeSleep(timedOut) ==
  LET served == {c \in Client : wait[c] # NotWaiting
                                  /\ (c \in timedOut \/ acklocal(wait[c]) = 1)} IN
  /\ pc = "before"
  /\ out' = [c \in Client |-> IF c \in served THEN WaitaofReply(wait[c]) ELSE out[c]]
  /\ wait' = [c \in Client |-> IF c \in served THEN NotWaiting ELSE wait[c]]
  /\ pc' = "flush"
  /\ UNCHANGED <<aof_fsync, flushVars, offsetVars, child_type, bioVars, woff, histVars>>

UpdateFsyncedReploff ==
  /\ pc = "reploff"
  /\ fsynced_reploff' = fsynced_reploff_pending
  /\ pc' = "replies"
  /\ UNCHANGED <<aof_fsync, flushVars, fsynced_reploff_pending, master_repl_offset, child_type,
                 bioVars, clientVars, histVars>>

handleClientsWithPendingWrites ==
  /\ pc = "replies"
  /\ out' = [c \in Client |-> NoReply]
  /\ pc' = "events"
  /\ UNCHANGED <<aof_fsync, flushVars, offsetVars, child_type, bioVars, woff, wait, histVars>>

\* A second of wall-clock time passes.
Tick ==
  /\ aof_last_fsync' = 1
  /\ aof_flush_postponed_start' =
       IF aof_flush_postponed_start \in {0, 1} THEN aof_flush_postponed_start + 1
                                               ELSE aof_flush_postponed_start
  /\ UNCHANGED <<pc, aof_fsync, aof_buf, fileVars, aof_last_write_status, offsetVars, child_type,
                 bioVars, clientVars, histVars>>

\* BGSAVE forks; a child of any kind is reaped.
ForkOrReapChild ==
  /\ pc = "events"
  /\ child_type' = IF hasActiveChildProcess THEN "none" ELSE "active"
  /\ UNCHANGED <<pc, aof_fsync, flushVars, offsetVars, bioVars, clientVars, histVars>>

\* A rewrite starts: flush, switch to a new INCR file, fork.
rewriteAppendOnlyFileBackground ==
  /\ pc = "events" /\ ~hasActiveChildProcess /\ aof_fd < MaxFiles
  /\ pc' = "rewrite_flush"
  /\ UNCHANGED allButPc

\* Faulty variant: the rotated file is closed without an fsync.
aof_background_fsync_and_close_Skipped ==
  UNCHANGED bio_jobs

aof_background_fsync_and_close ==
  bio_jobs' = Append(bio_jobs, [type |-> "close", fd |-> aof_fd, offset |-> master_repl_offset])

openNewIncrAofForAppend ==
  /\ pc = "rewrite_open" /\ aof_fd < MaxFiles
  /\ aof_background_fsync_and_close
  /\ aof_last_fsync' = 0
  /\ aof_fd' = aof_fd + 1
  /\ disk' = [disk EXCEPT ![aof_fd + 1] =
                 [start |-> disk[aof_fd].start + disk[aof_fd].size, size |-> 0, durable |-> 0]]
  /\ aof_last_incr_size' = 0 /\ aof_last_incr_fsync_offset' = 0
  /\ \/ child_type' = "active" /\ UNCHANGED faults
     \/ Fault("fork") /\ UNCHANGED child_type
  /\ pc' = "events"
  /\ UNCHANGED <<aof_fsync, aof_buf, aof_flush_postponed_start, aof_last_write_status,
                 offsetVars, bio_worker, aof_bio_fsync_status, clientVars, stream>>

OpenNewIncrFails ==
  /\ pc = "rewrite_open"
  /\ Fault("open")
  /\ pc' = "events"
  /\ UNCHANGED <<aof_fsync, flushVars, offsetVars, child_type, bioVars, clientVars, stream>>

\* finishShutdown: children are killed (an RDB child is not waited for), the
\* buffer is flushed and the current file fsynced, whatever that returns.  If
\* the final RDB cannot be saved the shutdown is cancelled.
Shutdown ==
  /\ pc = "events"
  /\ child_type' \in {child_type, "none"}
  /\ pc' = "shutdown_flush"
  /\ UNCHANGED <<aof_fsync, flushVars, offsetVars, bioVars, clientVars, histVars>>

finishShutdown ==
  /\ pc = "shutdown_fsync"
  /\ \/ disk' = [disk EXCEPT ![aof_fd].durable = disk[aof_fd].size] /\ UNCHANGED faults
     \/ Fault("fsync") /\ UNCHANGED disk
  /\ pc' \in {"exited", "events"}
  /\ UNCHANGED <<aof_fsync, aof_buf, aof_fd, aof_last_incr_size, aof_last_incr_fsync_offset,
                 timeVars, aof_last_write_status, offsetVars, child_type, bioVars, clientVars,
                 stream>>

-----------------------------------------------------------------------------
(* The AOF worker of bio.c (BIO_AOF_FSYNC and BIO_CLOSE_AOF jobs).  A job  *)
(* leaves the queue only after its effects are visible.                    *)

Running == pc \notin {"dead", "exited"}
bioLeaves == UNCHANGED <<pc, aof_fsync, flushVars, replVars, child_type, clientVars, stream>>

BioTakeJob ==
  /\ Running /\ bio_worker = Idle /\ bio_jobs # <<>>
  /\ bio_worker' = [state |-> "fsync", size |-> disk[Head(bio_jobs).fd].size]
  /\ bioLeaves
  /\ UNCHANGED <<fsynced_reploff_pending, bio_jobs, aof_bio_fsync_status, faults>>

\* Faulty variant: the worker publishes the offset of its completion.
BioFsynced_CurrentOffset ==
  LET job == Head(bio_jobs) IN
  /\ Running /\ bio_worker.state = "fsync"
  /\ disk' = [disk EXCEPT ![job.fd].durable = IF @ < bio_worker.size THEN bio_worker.size ELSE @]
  /\ aof_bio_fsync_status' = "ok"
  /\ fsynced_reploff_pending' = master_repl_offset
  /\ bio_worker' = [bio_worker EXCEPT !.state = "done"]
  /\ UNCHANGED <<pc, aof_fsync, aof_buf, aof_fd, aof_last_incr_size, aof_last_incr_fsync_offset,
                 timeVars, aof_last_write_status, replVars, child_type, bio_jobs, clientVars,
                 histVars>>

\* fsync covers at least what the file held when the call started.
BioFsynced ==
  LET job == Head(bio_jobs) IN
  /\ Running /\ bio_worker.state = "fsync"
  /\ disk' = [disk EXCEPT ![job.fd].durable = IF @ < bio_worker.size THEN bio_worker.size ELSE @]
  /\ aof_bio_fsync_status' = "ok"
  /\ fsynced_reploff_pending' = job.offset
  /\ bio_worker' = [bio_worker EXCEPT !.state = "done"]
  /\ UNCHANGED <<pc, aof_fsync, aof_buf, aof_fd, aof_last_incr_size, aof_last_incr_fsync_offset,
                 timeVars, aof_last_write_status, replVars, child_type, bio_jobs, clientVars,
                 histVars>>

BioFsyncFailed ==
  /\ Running /\ bio_worker.state = "fsync"
  /\ Fault("fsync")
  /\ aof_bio_fsync_status' = "err"
  /\ bio_worker' = [bio_worker EXCEPT !.state = "done"]
  /\ bioLeaves
  /\ UNCHANGED <<fsynced_reploff_pending, bio_jobs>>

BioRemoveJob ==
  /\ Running /\ bio_worker.state = "done"
  /\ bio_jobs' = Tail(bio_jobs)
  /\ bio_worker' = Idle
  /\ bioLeaves
  /\ UNCHANGED <<fsynced_reploff_pending, aof_bio_fsync_status, faults>>

-----------------------------------------------------------------------------
ClientStep == \E c \in Client : WriteCommand(c) \/ ReplOnlyCommand(c) \/ waitaofCommand(c)

Flush == \/ FlushNothing \/ FlushFsyncOnly \/ FlushPostponed \/ FlushWrite
         \/ \E n \in 0..MaxOffset : FlushWriteError(n)

\* The steps the event loop always goes on to take.
LoopStep ==
  \/ EndOfEvents \/ Flush \/ UpdateFsyncedReploff \/ handleClientsWithPendingWrites
  \/ \E timedOut \in SUBSET Client : blockedBeforeSleep(timedOut)
  \/ bioDrainWorker \/ openNewIncrAofForAppend \/ OpenNewIncrFails \/ finishShutdown

BioStep == BioTakeJob \/ BioFsynced \/ BioFsyncFailed \/ BioRemoveJob

Next ==
  \/ ClientStep \/ LoopStep \/ BioStep
  \/ \E p \in Policies : updateAppendFsync(p)
  \/ serverCron \/ Tick \/ ForkOrReapChild \/ rewriteAppendOnlyFileBackground \/ Shutdown

Spec == Init /\ [][Next]_vars

\* The main thread never stops looping and an iteration serves finitely many
\* events, the worker never stops serving its queue, and time passes.
FairSpec == /\ Spec
            /\ WF_vars(LoopStep) /\ SF_vars(EndOfEvents)
            /\ WF_vars(BioStep) /\ WF_vars(Tick)

-----------------------------------------------------------------------------
(* Properties.                                                             *)

Files == 1..MaxFiles
File  == [start : Nat, size : Nat, durable : Nat]
Job   == [type : {"fsync", "close"}, fd : Files, offset : Nat]
Reply == [kind : {"none", "write", "waitaof"}, off : Nat, local : 0..1]

\* Every variable has its type.
TypeOK ==
  /\ pc \in {"events", "drain", "before", "reploff", "replies", "rewrite_open",
             "shutdown_fsync", "dead", "exited"} \cup DOMAIN ReturnPc
  /\ aof_fsync \in Policies /\ aof_buf \in Nat /\ aof_fd \in Files
  /\ aof_last_incr_size \in Nat /\ aof_last_incr_fsync_offset \in Nat
  /\ aof_last_fsync \in 0..1 /\ aof_flush_postponed_start \in -1..2
  /\ aof_last_write_status \in {"ok", "err"} /\ aof_bio_fsync_status \in {"ok", "err"}
  /\ fsynced_reploff_pending \in Nat /\ fsynced_reploff \in Nat /\ master_repl_offset \in Nat
  /\ child_type \in {"none", "active"}
  /\ bio_jobs \in Seq(Job)
  /\ bio_worker \in [state : {"idle", "fsync", "done"}, size : Nat]
  /\ disk \in [Files -> File]
  /\ woff \in [Client -> Nat] /\ wait \in [Client -> Nat \cup {NotWaiting}]
  /\ out \in [Client -> Reply]
  /\ stream \in Seq(Nat) /\ faults \in Nat

\* Unit i of the log would survive a power loss.
Durable(i) == \E f \in 1..aof_fd : /\ disk[f].start < i
                                   /\ i <= disk[f].start + disk[f].durable

\* Everything propagated to the AOF up to replication offset off is durable.
DurableUpTo(off) == \A i \in 1..Len(stream) : stream[i] <= off => Durable(i)

SizeKnown  == pc # "dead" => disk[aof_fd].size = aof_last_incr_size
LogLength  == disk[aof_fd].start + aof_last_incr_size + aof_buf = Len(stream)
Contiguous == \A f \in 1..(aof_fd - 1) : disk[f].start + disk[f].size = disk[f + 1].start

\* The files and the buffer hold the log without a gap or an overlap: the
\* bookkeeping of flushAppendOnlyFile (short writes and their ftruncate
\* included) and of openNewIncrAofForAppend loses and repeats no command.
LogAccounted == SizeKnown /\ LogLength /\ Contiguous

ServedJobIsHead == bio_worker.state # "idle" =>
                     bio_jobs # <<>> /\ bio_worker.size <= disk[Head(bio_jobs).fd].size
JobsOfOpenFiles == \A i \in 1..Len(bio_jobs) : bio_jobs[i].fd <= aof_fd
DurableWithin   == \A f \in Files : disk[f].durable <= disk[f].size

\* The bio worker's bookkeeping: the job being served is still the head of the
\* queue (bio.c removes it only afterwards), jobs are for files already opened,
\* and no fsync ever covers more than its file holds.
WorkerInv == ServedJobIsHead /\ JobsOfOpenFiles /\ DurableWithin

\* appendfsync always: whenever the loop is about to send replies, every write
\* they acknowledge, and every earlier one, is on disk ("we have a contract
\* with the user", aof.c:1179), after any history of policy changes, rewrites
\* and faults.
AckDurable ==
  (pc = "replies" /\ aof_fsync = "always" /\ ~(NoFsyncOnRewrite /\ hasActiveChildProcess))
    => \A i \in 1..Len(stream) : Durable(i)

\* A WAITAOF reply that reports the local AOF in sync is true: all the
\* client's preceding writes are durable.  (The replies of a server that
\* exited on a disk error are never sent.)
WaitaofTruthful ==
  pc # "dead" => \A c \in Client :
    (out[c].kind = "waitaof" /\ out[c].local = 1) => DurableUpTo(out[c].off)

\* The offsets that no unit still in the buffer, or fed later, carries.
SafeOffsets == {o \in 0..master_repl_offset :
                  \A i \in 1..Len(stream) : stream[i] <= o => i <= Len(stream) - aof_buf}

FlushedBeforeUse == pc \in {"reploff", "replies", "rewrite_open", "shutdown_fsync"} => aof_buf = 0
WrittenDurable   == pc # "dead" => \A i \in 1..(Len(stream) - aof_buf) : Durable(i)
OffsetsSafe ==
  /\ fsynced_reploff_pending \in SafeOffsets /\ fsynced_reploff \in SafeOffsets
  /\ \A i \in 1..Len(bio_jobs) : bio_jobs[i].offset \in SafeOffsets
  /\ \A c \in Client : (out[c].kind = "waitaof" /\ out[c].local = 1) => out[c].off \in SafeOffsets

\* What makes the two contracts above inductive under appendfsync always: the
\* flush leaves the buffer empty before anything that relies on it, whatever
\* has left the buffer is durable, and every offset that was, or will be,
\* published as fsynced is safe.
AlwaysInv == FlushedBeforeUse /\ WrittenDurable /\ OffsetsSafe

\* While the server runs and fsync has not failed, no written byte is
\* forgotten: what is not durable is in the file being appended to, past
\* aof_last_incr_fsync_offset, or has a job of the bio worker waiting.
NothingForgotten ==
  (Running /\ faults = 0) =>
    \A f \in 1..aof_fd :
      \/ \E i \in 1..Len(bio_jobs) : bio_jobs[i].fd = f
      \/ disk[f].durable = disk[f].size
      \/ f = aof_fd /\ aof_last_incr_fsync_offset <= disk[f].durable

\* While the server denies writes after a failed write(2) there is something
\* left to write, whatever is retried, cut short or rotated meanwhile: only a
\* successful write clears the error (server.c:1458-1461).
WriteErrorHasBuffer == Running /\ aof_last_write_status = "err" => aof_buf > 0

\* An orderly shutdown on a sound disk leaves nothing in the buffer and the
\* current file synced.
ShutdownFlushes ==
  (pc = "exited" /\ faults = 0) => aof_buf = 0 /\ disk[aof_fd].durable = disk[aof_fd].size

\* What finishShutdown and the rotation promise together: an orderly exit on a
\* sound disk leaves every command of the log durable (aof.c:812-814, "it's ok
\* to delay the fsync as long as we grantee it happens").
ShutdownSyncsAll ==
  (pc = "exited" /\ faults = 0) => \A i \in 1..Len(stream) : Durable(i)

\* The offset the bio worker publishes is truthful: a job carries the
\* replication offset of its submission, and by its completion everything up
\* to it is durable, rotations included.
BioPublishesDurable ==
  [][(BioFsynced /\ faults = 0) => DurableUpTo(fsynced_reploff_pending)']_vars

\* Every command fed to the AOF becomes durable within the policy everysec
\* even if no further write arrives (aof.c:1051-1055).
EventuallyDurable ==
  \A i \in 1..MaxOffset : (Len(stream) >= i) ~> (Durable(i) \/ ~Running)

\* WAITAOF does not hang, also when the offset moved without the AOF
\* (aof.c:1071-1075).
WaitaofAnswered == \A c \in Client : (wait[c] # NotWaiting) ~> (wait[c] = NotWaiting \/ ~Running)

=============================================================================
