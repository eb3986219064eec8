----------------------------- MODULE AofRewrite -----------------------------
(***************************************************************************)
(* The life of the multi-part AOF: background rewrites, rotation of INCR   *)
(* files, turning the AOF on and off, the manifest, crashes and restarts.  *)
(*                                                                         *)
(* The dataset is the sequence of the commands executed so far, 1..n.  A   *)
(* file, or the buffer, holds the commands from+1..to; a BASE file is the  *)
(* snapshot 1..to.  A crash kills the process: memory is lost, files stay. *)
(* The handlers run on the main thread without interruption, except that a *)
(* crash may fall between any two of their system calls; each step below   *)
(* has at most one effect on the disk.                                     *)
(***************************************************************************)
EXTENDS Integers, Sequences, FiniteSetsExt

CONSTANTS
  Events,       \* which of "crash", "toggle", "exec", "bgsave" happen
  Faults,       \* which system calls may fail
  MaxFaults,    \* bound: failures
  MaxCrashes,   \* bound: crashes
  MaxCommands,  \* bound: write commands
  MaxSeq        \* bound: sequence numbers of BASE and of INCR files

ASSUME RewriteAssumption ==
  /\ Events \subseteq {"crash", "toggle", "exec", "bgsave"}
  /\ Faults \subseteq {"write", "open", "rename", "manifest", "dirsync", "fork", "child"}
  /\ MaxFaults \in Nat /\ MaxCrashes \in Nat /\ MaxCommands \in Nat /\ MaxSeq \in Nat

VARIABLES
  pc,                     \* where the main thread is
  n,                      \* commands in the dataset
  aof_state,              \* "off", "wait" (AOF_WAIT_REWRITE) or "on"
  aof_fd,                 \* name of the file open for append, or NoFile
  aof_buf,                \* the commands not yet written
  aof_last_write_status,
  aof_rewrite_scheduled,  \* 0 or 1
  aof_manifest,           \* the manifest in memory
  temp_am,                \* the copy a handler is modifying
  child_type,             \* "none", "aof" or "other"
  snapshot,               \* what the AOF child saw at fork
  starting,               \* 1 while startAppendOnly runs the rewrite, else 0
  files,                  \* disk: the contents of the files of aof_dirname
  manifest_file,          \* disk: the manifest
  logged,                 \* history: commands 1..logged are in the AOF, says the server
  faults, crashes         \* history

memVars  == <<aof_state, aof_fd, aof_buf, aof_last_write_status, aof_rewrite_scheduled>>
amVars   == <<aof_manifest, temp_am>>
childVars == <<child_type, snapshot, starting>>
diskVars == <<files, manifest_file>>
vars == <<pc, n, memVars, amVars, childVars, diskVars, logged, faults, crashes>>

Base(k) == <<"base", k>>
Incr(k) == <<"incr", k>>
Temp    == <<"temp", 0>>
NoFile  == <<"none", 0>>

Interval(a, b) == [from |-> a, to |-> b, state |-> "whole"]
Empty          == Interval(n, n)
EmptyManifest  == [base |-> 0, incr |-> <<>>, hist |-> {}, incr_seq |-> 0]

\* What `content' becomes when the commands of the buffer b are appended.
Appended(content, b) ==
  IF content.from = content.to
    THEN [content EXCEPT !.from = b.from, !.to = b.to]
    ELSE [content EXCEPT !.to = b.to,
                         !.state = IF content.to = b.from /\ b.state = "whole" THEN @
                                                                             ELSE "broken"]

IsEmpty(b) == b.from = b.to

\* The file system with file f changed to c.
With(fs, f, c) == [g \in DOMAIN fs \cup {f} |-> IF g = f THEN c ELSE fs[g]]
Without(fs, S) == [g \in DOMAIN fs \ S |-> fs[g]]
Renamed(fs, f, g) == With(Without(fs, {f}), g, fs[f])

Fault(kind) == kind \in Faults /\ faults < MaxFaults /\ faults' = faults + 1
NoFault == UNCHANGED faults

Init ==
  /\ pc = "down" /\ n = 0
  /\ aof_state = "off" /\ aof_fd = NoFile /\ aof_buf = Interval(0, 0)
  /\ aof_last_write_status = "ok" /\ aof_rewrite_scheduled = 0
  /\ aof_manifest = EmptyManifest /\ temp_am = EmptyManifest
  /\ child_type = "none" /\ snapshot = 0 /\ starting = 0
  /\ files = <<>> /\ manifest_file = EmptyManifest
  /\ logged = 0 /\ faults = 0 /\ crashes = 0

-----------------------------------------------------------------------------
(* The manifest.                                                           *)

getNewBaseFileNameAndMarkPreAsHistory(am) ==
  [am EXCEPT !.base = @ + 1,
             !.hist = IF am.base = 0 THEN @ ELSE @ \cup {Base(am.base)}]

getNewIncrAofName(am) ==
  [am EXCEPT !.incr_seq = @ + 1, !.incr = Append(@, am.incr_seq + 1)]

getLastIncrAofName(am) == IF am.incr = <<>> THEN getNewIncrAofName(am) ELSE am

LastIncr(am) == Incr(am.incr[Len(am.incr)])

\* Faulty variant: the INCR file being written becomes history as well.
markRewrittenIncrAofAsHistory_All(am) ==
  [am EXCEPT !.incr = <<>>, !.hist = @ \cup {Incr(am.incr[i]) : i \in 1..Len(am.incr)}]

\* All INCR files become history, except the last when the server appends to it.
markRewrittenIncrAofAsHistory(am) ==
  LET kept == IF aof_fd # NoFile /\ am.incr # <<>> THEN Len(am.incr) - 1 ELSE Len(am.incr) IN
  [am EXCEPT !.incr = SubSeq(@, kept + 1, Len(@)),
             !.hist = @ \cup {Incr(am.incr[i]) : i \in 1..kept}]

\* What reading the manifest back gives: the sequence numbers are those of
\* the BASE file and of the last INCR file.
aofLoadManifestFromDisk ==
  [manifest_file EXCEPT !.incr_seq = IF manifest_file.incr = <<>> THEN 0
                                     ELSE manifest_file.incr[Len(manifest_file.incr)]]

\* persistAofManifest(am): done, failed before the new file was renamed into
\* place, or failed afterwards, in the fsync of the directory.
Persisted(am)    == manifest_file' = am /\ NoFault
PersistFails(am) == \/ Fault("manifest") /\ UNCHANGED manifest_file
                    \/ Fault("dirsync") /\ manifest_file' = am

-----------------------------------------------------------------------------
(* Loading.                                                                *)

\* The files the manifest am lists for loading, in order.
LiveFiles(am) == (IF am.base = 0 THEN <<>> ELSE <<Base(am.base)>>)
                   \o [i \in 1..Len(am.incr) |-> Incr(am.incr[i])]

\* Where the dataset stands after each of the files ls has been loaded: at the
\* end of the last one so far that holds a command.
LoadedTo(ls, fs) ==
  [i \in 0..Len(ls) |->
     LET full == {j \in 1..i : ~IsEmpty(fs[ls[j]])}
     IN  IF full = {} THEN 0 ELSE fs[ls[Max(full)]].to]

\* The server refuses to start if a file is missing or if one that is not the
\* last has an incomplete command at its end.
Refused(ls, fs) ==
  \/ \E i \in 1..Len(ls) : ls[i] \notin DOMAIN fs
  \/ \E i \in 1..(Len(ls) - 1) : fs[ls[i]].state = "torn"

\* The commands read are 1, 2, 3, ...: none missing, none twice.
InSequence(ls, fs) ==
  \A i \in 1..Len(ls) : \/ IsEmpty(fs[ls[i]])
                        \/ /\ fs[ls[i]].from = LoadedTo(ls, fs)[i - 1]
                           /\ fs[ls[i]].state # "broken"

\* A file with an incomplete command at its end is truncated when it is read
\* (aof-load-truncated), even if the server then refuses to start.
Repaired(ls, fs) ==
  LET torn == {i \in 1..Len(ls) : fs[ls[i]].state = "torn"} IN
  IF torn = {} THEN fs
  ELSE [fs EXCEPT ![ls[CHOOSE i \in torn : \A j \in torn : i <= j]].state = "whole"]

\* The start of the server, with appendonly yes: the manifest and the files.
loadAppendOnlyFiles ==
  LET am   == aofLoadManifestFromDisk
      live == LiveFiles(am)
  IN
  /\ pc = "down"
  /\ files' = IF \A i \in 1..Len(live) : live[i] \in DOMAIN files
                THEN Repaired(live, files) ELSE files
  /\ IF Refused(live, files)
       THEN pc' = "refused" /\ UNCHANGED <<n, memVars, amVars, childVars, logged>>
       ELSE /\ n' = LoadedTo(live, files)[Len(live)] /\ logged' = n'
            /\ aof_state' = "on" /\ aof_fd' = NoFile /\ aof_buf' = Interval(n', n')
            /\ aof_last_write_status' = "ok" /\ aof_rewrite_scheduled' = 0
            /\ aof_manifest' = am /\ temp_am' = EmptyManifest
            /\ child_type' = "none" /\ snapshot' = 0 /\ starting' = 0
            /\ pc' = "start_base"
  /\ UNCHANGED <<manifest_file, faults, crashes>>

\* aofOpenIfNeededOnServerStart: a BASE file for an empty directory, then the
\* last INCR file, opened for append or created, then the manifest.
StartBase ==
  /\ pc = "start_base" /\ pc' = "start_open"
  /\ IF aof_manifest.base = 0 /\ aof_manifest.incr = <<>>
       THEN /\ aof_manifest' = getNewBaseFileNameAndMarkPreAsHistory(aof_manifest)
            /\ files' = With(files, Base(aof_manifest'.base), Interval(0, n))
       ELSE UNCHANGED <<aof_manifest, files>>
  /\ UNCHANGED <<n, memVars, temp_am, childVars, manifest_file, logged, faults, crashes>>

\* Faulty variant: the INCR file is opened with O_TRUNC.
StartOpen_Truncates ==
  /\ pc = "start_open" /\ pc' = "start_persist"
  /\ aof_manifest' = getLastIncrAofName(aof_manifest)
  /\ aof_fd' = LastIncr(aof_manifest')
  /\ files' = With(files, aof_fd', Empty)
  /\ UNCHANGED <<n, aof_state, aof_buf, aof_last_write_status, aof_rewrite_scheduled, temp_am,
                 childVars, manifest_file, logged, faults, crashes>>

StartOpen ==
  /\ pc = "start_open" /\ pc' = "start_persist"
  /\ aof_manifest' = getLastIncrAofName(aof_manifest)
  /\ aof_fd' = LastIncr(aof_manifest')
  /\ files' = IF aof_fd' \in DOMAIN files THEN files ELSE With(files, aof_fd', Empty)
  /\ UNCHANGED <<n, aof_state, aof_buf, aof_last_write_status, aof_rewrite_scheduled, temp_am,
                 childVars, manifest_file, logged, faults, crashes>>

\* The manifest is written if it changed: there are new names in it.
StartPersist ==
  /\ pc = "start_persist" /\ pc' = "gc"
  /\ manifest_file' = IF LiveFiles(aof_manifest) = LiveFiles(manifest_file) THEN manifest_file
                                                                           ELSE aof_manifest
  /\ UNCHANGED <<n, memVars, amVars, childVars, files, logged, faults, crashes>>

\* Faulty variant: history entries are dropped, their files stay.
GcUnlink_Forgets ==
  /\ pc = "gc" /\ pc' = "loop"
  /\ aof_manifest' = [aof_manifest EXCEPT !.hist = {}]
  /\ UNCHANGED <<n, memVars, temp_am, childVars, diskVars, logged, faults, crashes>>

\* aofDelHistoryFiles: unlink the history files, then write the manifest;
\* a failure is ignored.
GcUnlink ==
  /\ pc = "gc"
  /\ \/ aof_manifest.hist = {} /\ pc' = "loop" /\ UNCHANGED <<aof_manifest, files>>
     \/ \E f \in aof_manifest.hist :
          /\ files' = Without(files, {f})
          /\ aof_manifest' = [aof_manifest EXCEPT !.hist = @ \ {f}]
          /\ pc' = IF aof_manifest.hist = {f} THEN "gc_persist" ELSE "gc"
  /\ UNCHANGED <<n, memVars, temp_am, childVars, manifest_file, logged, faults, crashes>>

GcPersist ==
  /\ pc = "gc_persist" /\ pc' = "loop"
  /\ Persisted(aof_manifest) \/ PersistFails(aof_manifest)
  /\ UNCHANGED <<n, memVars, amVars, childVars, files, logged, crashes>>

-----------------------------------------------------------------------------
(* Commands and the buffer.                                                *)

\* feedAppendOnlyFile: while waiting for the rewrite that turns the AOF on,
\* commands are kept only from the fork of its child on.
feedAppendOnlyFile ==
  aof_buf' = IF \/ aof_state = "on"
                \/ aof_state = "wait" /\ child_type = "aof"
               THEN Appended(aof_buf, Interval(n, n + 1))
             ELSE IF IsEmpty(aof_buf) THEN Interval(n + 1, n + 1) ELSE aof_buf

\* A write command; refused after a failed write of the AOF.
writeCommandsDeniedByDiskError == aof_state # "off" /\ aof_last_write_status = "err"

WriteCommand ==
  /\ pc = "loop" /\ n < MaxCommands
  /\ ~writeCommandsDeniedByDiskError
  /\ n' = n + 1
  /\ feedAppendOnlyFile
  /\ UNCHANGED <<pc, aof_state, aof_fd, aof_last_write_status, aof_rewrite_scheduled,
                 amVars, childVars, diskVars, logged, faults, crashes>>

\* flushAppendOnlyFile, all of the buffer or nothing.  A descriptor whose
\* file was unlinked can be written to; descriptor -1 cannot.
FlushOk ==
  /\ aof_fd # NoFile
  /\ files' = IF aof_fd \in DOMAIN files
                THEN [files EXCEPT ![aof_fd] = Appended(@, aof_buf)] ELSE files
  /\ logged' = IF aof_state = "on" THEN aof_buf.to ELSE logged
  /\ aof_buf' = Interval(aof_buf.to, aof_buf.to)
  /\ aof_last_write_status' = "ok"
  /\ NoFault

FlushFails ==
  /\ IF aof_fd = NoFile THEN NoFault ELSE Fault("write")
  /\ aof_last_write_status' = "err"
  /\ UNCHANGED <<aof_buf, files, logged>>

flushAppendOnlyFile ==
  IF IsEmpty(aof_buf) THEN UNCHANGED <<aof_buf, aof_last_write_status, files, logged, faults>>
                      ELSE FlushOk \/ FlushFails

Flush ==
  /\ pc = "loop" /\ aof_state # "off" /\ ~IsEmpty(aof_buf)
  /\ flushAppendOnlyFile
  /\ UNCHANGED <<pc, n, aof_state, aof_fd, aof_rewrite_scheduled, amVars, childVars,
                 manifest_file, crashes>>

-----------------------------------------------------------------------------
(* Starting a rewrite.                                                     *)

\* BGREWRITEAOF: the rewrite starts, or is scheduled if there is another child
\* or in a transaction.
bgrewriteaofCommand ==
  /\ pc = "loop" /\ child_type # "aof"
  /\ aof_manifest.base + 1 < MaxSeq /\ aof_manifest.incr_seq + 1 < MaxSeq
  /\ \/ /\ child_type = "other" \/ "exec" \in Events
        /\ aof_rewrite_scheduled' = 1 /\ UNCHANGED pc
     \/ child_type = "none" /\ pc' = "rw_flush" /\ UNCHANGED aof_rewrite_scheduled
  /\ UNCHANGED <<n, aof_state, aof_fd, aof_buf, aof_last_write_status, amVars, childVars,
                 diskVars, logged, faults, crashes>>

\* serverCron starts a rewrite because the log has grown.
RewriteOnGrowth ==
  /\ pc = "loop" /\ aof_state = "on" /\ child_type = "none"
  /\ aof_manifest.base + 1 < MaxSeq /\ aof_manifest.incr_seq + 1 < MaxSeq
  /\ pc' = "rw_flush"
  /\ UNCHANGED <<n, memVars, amVars, childVars, diskVars, logged, faults, crashes>>

\* serverCron runs a scheduled rewrite.
serverCron ==
  /\ pc = "loop" /\ child_type = "none" /\ aof_rewrite_scheduled = 1
  /\ aof_manifest.base < MaxSeq /\ aof_manifest.incr_seq < MaxSeq
  /\ pc' = "rw_flush"
  /\ UNCHANGED <<n, memVars, amVars, childVars, diskVars, logged, faults, crashes>>

\* rewriteAppendOnlyFileBackground returns C_ERR; startAppendOnly then gives up.
RewriteError ==
  /\ pc' = "loop"
  /\ aof_state' = IF starting = 1 THEN "off" ELSE aof_state
  /\ starting' = 0

RewriteFlush ==
  /\ pc = "rw_flush" /\ pc' = "rw_open"
  /\ flushAppendOnlyFile
  /\ UNCHANGED <<n, aof_state, aof_fd, aof_rewrite_scheduled, amVars, childVars,
                 manifest_file, crashes>>

\* Faulty variant: the manifest in memory is modified in place.
OpenNewIncr_InPlace ==
  /\ pc = "rw_open" /\ aof_state = "on" /\ pc' = "rw_persist"
  /\ temp_am' = getNewIncrAofName(aof_manifest) /\ aof_manifest' = temp_am'
  /\ files' = With(files, LastIncr(temp_am'), Empty)
  /\ NoFault
  /\ UNCHANGED <<n, memVars, childVars, manifest_file, logged, crashes>>

\* openNewIncrAofForAppend, up to the open(2).
OpenNewIncr ==
  /\ pc = "rw_open"
  /\ \/ aof_state = "off" /\ pc' = "rw_fork" /\ UNCHANGED <<files, aof_fd, temp_am>>
     \/ /\ aof_state = "wait" /\ pc' = "rw_fork"
        /\ aof_fd' = Temp /\ files' = With(files, Temp, Empty)
        /\ UNCHANGED temp_am
     \/ /\ aof_state = "on" /\ pc' = "rw_persist"
        /\ temp_am' = getNewIncrAofName(aof_manifest)
        /\ files' = With(files, LastIncr(temp_am'), Empty)
        /\ UNCHANGED aof_fd
  /\ NoFault
  /\ UNCHANGED <<n, aof_state, aof_buf, aof_last_write_status, aof_rewrite_scheduled,
                 aof_manifest, childVars, manifest_file, logged, crashes>>

OpenNewIncrFails ==
  /\ pc = "rw_open" /\ aof_state # "off" /\ Fault("open")
  /\ RewriteError
  /\ UNCHANGED <<n, aof_fd, aof_buf, aof_last_write_status, aof_rewrite_scheduled, amVars,
                 child_type, snapshot, diskVars, logged, crashes>>

\* The rest of openNewIncrAofForAppend when the AOF is on.
PersistNewIncr ==
  /\ pc = "rw_persist"
  /\ \/ /\ Persisted(temp_am)
        /\ aof_manifest' = temp_am /\ aof_fd' = LastIncr(temp_am)
        /\ pc' = "rw_fork" /\ UNCHANGED <<aof_state, starting>>
     \/ PersistFails(temp_am) /\ RewriteError /\ UNCHANGED <<aof_manifest, aof_fd>>
  /\ UNCHANGED <<n, aof_buf, aof_last_write_status, aof_rewrite_scheduled, temp_am,
                 child_type, snapshot, files, logged, crashes>>

\* fork(2), and what startAppendOnly does when the rewrite has started.
RewriteFork ==
  /\ pc = "rw_fork"
  /\ \/ /\ pc' = "loop" /\ NoFault
        /\ child_type' = "aof" /\ snapshot' = n /\ aof_rewrite_scheduled' = 0
        /\ aof_last_write_status' = IF starting = 1 THEN "ok" ELSE aof_last_write_status
        /\ starting' = 0 /\ UNCHANGED aof_state
     \/ /\ Fault("fork") /\ RewriteError
        /\ UNCHANGED <<child_type, snapshot, aof_rewrite_scheduled, aof_last_write_status>>
  /\ UNCHANGED <<n, aof_fd, aof_buf, amVars, diskVars, logged, crashes>>

-----------------------------------------------------------------------------
(* The child is done: backgroundRewriteDoneHandler.                        *)

\* Faulty variant: a failed rewrite is not scheduled again.
Cleanup_NotScheduled(fs) ==
  /\ pc' = "loop" /\ child_type' = "none"
  /\ IF aof_state = "wait"
       THEN aof_buf' = Interval(n, n) /\ files' = Without(fs, {Temp})
       ELSE files' = fs /\ UNCHANGED aof_buf
  /\ UNCHANGED aof_rewrite_scheduled

\* Its cleanup section, when files fs remain.
Cleanup(fs) ==
  /\ pc' = "loop" /\ child_type' = "none"
  /\ IF aof_state = "wait"
       THEN /\ aof_buf' = Interval(n, n) /\ files' = Without(fs, {Temp})
            /\ aof_rewrite_scheduled' = 1
       ELSE files' = fs /\ UNCHANGED <<aof_buf, aof_rewrite_scheduled>>

ChildFails ==
  /\ pc = "loop" /\ child_type = "aof" /\ Fault("child")
  /\ Cleanup(files)
  /\ UNCHANGED <<n, aof_state, aof_fd, aof_last_write_status, amVars, snapshot, starting,
                 manifest_file, logged, crashes>>

\* The snapshot is renamed to its BASE file.
RenameBase ==
  /\ pc = "loop" /\ child_type = "aof"
  /\ temp_am' = getNewBaseFileNameAndMarkPreAsHistory(aof_manifest)
  /\ \/ /\ NoFault
        /\ files' = With(files, Base(temp_am'.base), Interval(0, snapshot))
        /\ pc' = IF aof_state = "wait" THEN "done_incr" ELSE "done_persist"
        /\ UNCHANGED <<child_type, aof_buf, aof_rewrite_scheduled>>
     \/ Fault("rename") /\ Cleanup(files)
  /\ UNCHANGED <<n, aof_state, aof_fd, aof_last_write_status, aof_manifest, snapshot,
                 starting, manifest_file, logged, crashes>>

\* The temporary INCR file is renamed to its INCR file; the descriptor follows.
RenameIncr ==
  /\ pc = "done_incr"
  /\ temp_am' = getNewIncrAofName(temp_am)
  /\ \/ /\ Temp \in DOMAIN files /\ NoFault
        /\ files' = Renamed(files, Temp, LastIncr(temp_am'))
        /\ aof_fd' = IF aof_fd = Temp THEN LastIncr(temp_am') ELSE aof_fd
        /\ pc' = "done_persist"
        /\ UNCHANGED <<child_type, aof_buf, aof_rewrite_scheduled>>
     \/ /\ IF Temp \in DOMAIN files THEN Fault("rename") ELSE NoFault
        /\ Cleanup(Without(files, {Base(temp_am.base)}))
        /\ UNCHANGED aof_fd
  /\ UNCHANGED <<n, aof_state, aof_last_write_status, aof_manifest, snapshot, starting,
                 manifest_file, logged, crashes>>

\* The manifest with the new BASE file is written; on failure the new files go.
PersistRewrite ==
  LET am == markRewrittenIncrAofAsHistory(temp_am)
      created == {Base(am.base)} \cup (IF aof_state = "wait" THEN {LastIncr(temp_am)} ELSE {})
  IN
  /\ pc = "done_persist"
  /\ \/ /\ Persisted(am) /\ aof_manifest' = am /\ pc' = "gc" /\ child_type' = "none"
        /\ IF aof_state = "wait"
             THEN aof_state' = "on" /\ logged' = aof_buf.from
             ELSE UNCHANGED <<aof_state, logged>>
        /\ UNCHANGED <<files, aof_buf, aof_rewrite_scheduled>>
     \/ /\ PersistFails(am) /\ Cleanup(Without(files, created))
        /\ UNCHANGED <<aof_manifest, aof_state, logged>>
  /\ UNCHANGED <<n, aof_fd, aof_last_write_status, temp_am, snapshot, starting, crashes>>

-----------------------------------------------------------------------------
(* CONFIG SET appendonly, other children, crashes.                         *)

\* Faulty variant: a running rewrite is taken for the one to wait for.
startAppendOnly_KeepsChild ==
  /\ pc = "loop" /\ "toggle" \in Events /\ aof_state = "off"
  /\ aof_manifest.base < MaxSeq /\ aof_manifest.incr_seq < MaxSeq
  /\ aof_state' = "wait"
  /\ IF child_type = "none"
       THEN starting' = 1 /\ pc' = "rw_flush" /\ UNCHANGED aof_rewrite_scheduled
       ELSE aof_rewrite_scheduled' = 1 /\ UNCHANGED <<pc, starting>>
  /\ UNCHANGED <<n, aof_fd, aof_buf, aof_last_write_status, amVars, child_type, snapshot,
                 diskVars, logged, faults, crashes>>

\* "appendonly yes".  With another child, or inside a transaction, the rewrite
\* is left to serverCron; otherwise a running rewrite is replaced by a new one.
startAppendOnly ==
  /\ pc = "loop" /\ "toggle" \in Events /\ aof_state = "off"
  /\ aof_manifest.base < MaxSeq /\ aof_manifest.incr_seq < MaxSeq
  /\ aof_state' = "wait"
  /\ \/ /\ child_type = "other" \/ "exec" \in Events
        /\ aof_rewrite_scheduled' = 1 /\ aof_last_write_status' = "ok"
        /\ UNCHANGED <<pc, child_type, starting>>
     \/ /\ child_type # "other"
        /\ child_type' = "none" /\ starting' = 1 /\ pc' = "rw_flush"
        /\ UNCHANGED <<aof_rewrite_scheduled, aof_last_write_status>>
  /\ UNCHANGED <<n, aof_fd, aof_buf, amVars, snapshot, diskVars, logged, faults, crashes>>

\* "appendonly no": a last flush, then the file is closed, the child killed
\* and what is left of the buffer dropped.
StopFlush ==
  /\ pc = "loop" /\ "toggle" \in Events /\ aof_state # "off" /\ pc' = "stop"
  /\ flushAppendOnlyFile
  /\ UNCHANGED <<n, aof_state, aof_fd, aof_rewrite_scheduled, amVars, childVars,
                 manifest_file, crashes>>

\* Faulty variant: the descriptor is not reset.
StopClose_KeepsFd ==
  /\ pc = "stop" /\ pc' = "loop"
  /\ aof_state' = "off" /\ aof_rewrite_scheduled' = 0
  /\ child_type' = IF child_type = "aof" THEN "none" ELSE child_type
  /\ aof_buf' = Interval(n, n)
  /\ UNCHANGED <<n, aof_fd, aof_last_write_status, amVars, snapshot, starting, diskVars, logged,
                 faults, crashes>>

StopClose ==
  /\ pc = "stop" /\ pc' = "loop"
  /\ aof_fd' = NoFile /\ aof_state' = "off" /\ aof_rewrite_scheduled' = 0
  /\ child_type' = IF child_type = "aof" THEN "none" ELSE child_type
  /\ aof_buf' = Interval(n, n)
  /\ UNCHANGED <<n, aof_last_write_status, amVars, snapshot, starting, diskVars, logged,
                 faults, crashes>>

\* A child of another kind (BGSAVE, replication) starts or ends.
OtherChild ==
  /\ pc = "loop" /\ "bgsave" \in Events /\ child_type = "none" /\ child_type' = "other"
  /\ UNCHANGED <<pc, n, memVars, amVars, snapshot, starting, diskVars, logged, faults, crashes>>

OtherChildExits ==
  /\ pc = "loop" /\ child_type = "other" /\ child_type' = "none"
  /\ UNCHANGED <<pc, n, memVars, amVars, snapshot, starting, diskVars, logged, faults, crashes>>

\* The process dies, perhaps within a write(2) of the buffer.
Crash ==
  /\ "crash" \in Events /\ crashes < MaxCrashes /\ crashes' = crashes + 1
  /\ pc \notin {"down", "refused"} /\ pc' = "down"
  /\ \/ UNCHANGED files
     \/ /\ pc \in {"loop", "rw_flush"} /\ aof_state # "off" /\ aof_fd \in DOMAIN files
        /\ \E k \in aof_buf.from..(aof_buf.to - 1) :
             files' = [files EXCEPT ![aof_fd] =
                         [Appended(@, Interval(aof_buf.from, k)) EXCEPT !.state = "torn"]]
  /\ UNCHANGED <<n, memVars, amVars, childVars, manifest_file, logged, faults>>

Start == loadAppendOnlyFiles \/ StartBase \/ StartOpen \/ StartPersist

Rewrite == \/ RewriteFlush \/ OpenNewIncr \/ OpenNewIncrFails \/ PersistNewIncr \/ RewriteFork

Done == RenameIncr \/ PersistRewrite \/ GcUnlink \/ GcPersist

Next ==
  \/ Start \/ Rewrite \/ Done
  \/ WriteCommand \/ Flush
  \/ bgrewriteaofCommand \/ RewriteOnGrowth \/ serverCron
  \/ ChildFails \/ RenameBase
  \/ startAppendOnly \/ StopFlush \/ StopClose
  \/ OtherChild \/ OtherChildExits
  \/ Crash

Spec == Init /\ [][Next]_vars

\* The main thread finishes what it is doing, a child ends, and serverCron
\* finds a moment without a child for a rewrite that stays scheduled.
FairSpec == /\ Spec
            /\ WF_vars(Start) /\ WF_vars(Rewrite) /\ WF_vars(Done) /\ WF_vars(StopClose)
            /\ WF_vars(ChildFails \/ RenameBase) /\ WF_vars(OtherChildExits)
            /\ SF_vars(serverCron)

-----------------------------------------------------------------------------
(* Properties.                                                             *)

Live == LiveFiles(aofLoadManifestFromDisk)

Contents == [from : 0..MaxCommands, to : 0..MaxCommands, state : {"whole", "torn", "broken"}]
Names == {Base(k) : k \in 1..(MaxSeq + 1)} \cup {Incr(k) : k \in 1..(MaxSeq + 1)} \cup {Temp}
Manifests == [base : 0..MaxSeq, incr : Seq(1..MaxSeq), hist : SUBSET Names, incr_seq : 0..MaxSeq]

\* Every variable keeps its type; in particular no handler runs with a
\* descriptor, a child or a manifest of a kind it does not know.
TypeOK ==
  /\ pc \in {"down", "refused", "start_base", "start_open", "start_persist", "loop", "stop",
             "rw_flush", "rw_open", "rw_persist", "rw_fork", "done_incr", "done_persist",
             "gc", "gc_persist"}
  /\ n \in 0..MaxCommands /\ logged \in 0..MaxCommands /\ snapshot \in 0..MaxCommands
  /\ aof_state \in {"off", "wait", "on"} /\ aof_fd \in Names \cup {NoFile}
  /\ aof_buf \in Contents /\ aof_last_write_status \in {"ok", "err"}
  /\ aof_rewrite_scheduled \in 0..1 /\ starting \in 0..1
  /\ aof_manifest \in Manifests /\ temp_am \in Manifests /\ manifest_file \in Manifests
  /\ child_type \in {"none", "aof", "other"}
  /\ DOMAIN files \subseteq Names /\ \A f \in DOMAIN files : files[f] \in Contents
  /\ faults \in 0..MaxFaults /\ crashes \in 0..MaxCrashes

\* Whenever the process dies, the files on disk load: none the manifest lists
\* is missing, and the commands in them are 1, 2, 3, ... without a gap or a
\* repetition, up to at least the last command the server wrote to its log.
RestartSafe ==
  /\ pc # "refused"
  /\ ~Refused(Live, files)
  /\ InSequence(Live, files)
  /\ logged <= LoadedTo(Live, files)[Len(Live)] /\ LoadedTo(Live, files)[Len(Live)] <= n

\* While the AOF is on, the log on disk followed by the buffer is the dataset:
\* a rotation or a finished rewrite loses no command and repeats none.
LogComplete ==
  pc = "loop" /\ aof_state = "on" =>
    /\ aof_manifest.incr # <<>> /\ aof_fd = LastIncr(aof_manifest)
    /\ LoadedTo(Live, files)[Len(Live)] = aof_buf.from
    /\ aof_buf.to = n /\ aof_buf.state = "whole"

\* The manifest in memory and the one on disk list the same files whenever the
\* event loop runs: every failed update was rolled back on both sides.
ManifestAgrees == pc = "loop" => LiveFiles(aof_manifest) = Live

\* Failed and interrupted rewrites leave at most the files that the next
\* rewrite will overwrite: the directory does not fill up.
NoGarbage ==
  pc = "loop" => \A f \in DOMAIN files :
    \/ \E i \in 1..Len(Live) : Live[i] = f
    \/ f \in {Base(aof_manifest.base + 1), Incr(aof_manifest.incr_seq + 1), Temp}

\* No step removes, truncates or rewrites a file that the manifest on disk
\* lists for loading, whatever the order of unlinks and manifest updates.
LiveFilesKept ==
  [][\A i \in 1..Len(Live) : Live[i] \in DOMAIN files =>
       /\ Live[i] \in DOMAIN files'
       /\ \/ IsEmpty(files[Live[i]])
          \/ /\ files'[Live[i]].from = files[Live[i]].from
             /\ files'[Live[i]].to >= files[Live[i]].to]_vars

\* A child that runs while the AOF waits for its rewrite is one whose INCR
\* file accumulates the commands executed since its fork.
WaitAccumulates ==
  pc = "loop" /\ aof_state = "wait" /\ child_type = "aof" =>
    aof_fd = Temp /\ Temp \in DOMAIN files

\* Turning the AOF on ends: the rewrite it waits for is done, or it is turned
\* off again, whatever children fail or are in the way.
EnableCompletes == aof_state = "wait" ~> aof_state # "wait"
=============================================================================
