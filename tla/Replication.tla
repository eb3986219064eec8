----------------------------- MODULE Replication -----------------------------
(***************************************************************************)
(* Master/replica replication (replication.c): replication IDs and         *)
(* offsets, the backlog, PSYNC with partial and full resynchronisation,    *)
(* the RDB child that feeds a full resynchronisation, chained replicas,    *)
(* REPLICAOF, the coordinated FAILOVER, link failures and restarts.        *)
(*                                                                         *)
(* srv[n] is the part of "struct redisServer" of node n that replication   *)
(* uses, with the source's field names.  The dataset is the sequence of    *)
(* the writes applied to it.  A command of the replication stream (a write *)
(* or the PING of replicationCron) is one unit of the offset and one block *)
(* of the replication buffer.                                              *)
(*                                                                         *)
(* chan[r] is what the node r connected to has sent and r has not read     *)
(* (a TCP stream: in order, cut by a link failure).  psync holds the PSYNC *)
(* commands sent and not served.                                           *)
(***************************************************************************)
EXTENDS Integers, Sequences, FiniteSets

CONSTANTS
    Node,           \* the server instances
    None,           \* NULL
    InitMaster,     \* the "replicaof" directive each node is started with
    BacklogSize,    \* repl-backlog-size, in commands
    SaveParams,     \* TRUE: "save" points are configured
    SyncTargets,    \* repl-diskless-sync: dumps to "disk", to the "socket", or either
    Loads,          \* repl-diskless-load: "disk", "flush" (from the socket), "swapdb"
    MaxWrites,      \* bound: commands that enter a replication stream
    MaxCommands,    \* bound: REPLICAOF, FAILOVER and BGSAVE commands
    MaxFaults       \* bound: link failures, crashes, failed loads and saves, timeouts

ASSUME ReplicationAssumption ==
    /\ None \notin Node
    /\ InitMaster \in [Node -> Node \cup {None}]
    /\ \A n \in Node : InitMaster[n] # n
    /\ SyncTargets \subseteq {"disk", "socket"} /\ SyncTargets # {}
    /\ Loads \subseteq {"disk", "flush", "swapdb"} /\ Loads # {}
    /\ BacklogSize \in Nat /\ SaveParams \in BOOLEAN
    /\ MaxWrites \in Nat /\ MaxCommands \in Nat /\ MaxFaults \in Nat

VARIABLES srv, chan, psync, writes, commands, faults

vars == <<srv, chan, psync, writes, commands, faults>>
bounds == <<writes, commands, faults>>

-----------------------------------------------------------------------------
(* Messages of a replication connection.                                   *)

Eof        == [t |-> "eof"]
Error      == [t |-> "error"]                       \* -NOMASTERLINK, -ERR
Continue(id)       == [t |-> "continue", replid |-> id]
FullResync(id, o)  == [t |-> "fullresync", replid |-> id, off |-> o]
Rdb(d)     == [t |-> "rdb", data |-> d]
Cmd(w)     == [t |-> "cmd", w |-> w]

NoFailover == [state |-> "none", target |-> None, force |-> FALSE, timeout |-> FALSE]

NoSlaves == [r \in {} |-> None]

Without(f, r) == [x \in DOMAIN f \ {r} |-> f[x]]

(* A node as started without a dump to load (initServerConfig).            *)
Fresh(n, host, k) ==
    [me |-> n, masterhost |-> host, repl_state |-> IF host = None THEN "none" ELSE "connect",
     replid |-> <<n, k>>, ids |-> k, replid2 |-> None, second_replid_offset |-> -1,
     master_repl_offset |-> 0, repl_backlog |-> None,
     master |-> None, cached_master |-> None, initial |-> None,
     slaves |-> NoSlaves, child |-> None, failover |-> NoFailover, data |-> <<>>,
     rdb_file |-> [data |-> <<>>, replid |-> None, off |-> 0]]

Init ==
    /\ srv = [n \in Node |-> Fresh(n, InitMaster[n], 1)]
    /\ chan = [n \in Node |-> <<>>]
    /\ psync = {}
    /\ writes = 0 /\ commands = 0 /\ faults = 0

-----------------------------------------------------------------------------
(* Replication IDs and backlog, as functions of a node's state.            *)

changeReplicationId(s) ==
    [s EXCEPT !.ids = @ + 1, !.replid = <<s.me, s.ids + 1>>]

clearReplicationId2(s) ==
    [s EXCEPT !.replid2 = None, !.second_replid_offset = -1]


(* Mutant: a promoted replica goes on under its master's replication ID.   *)
shiftReplicationId_SameId(s) ==
    [s EXCEPT !.replid2 = s.replid, !.second_replid_offset = s.master_repl_offset + 1]

shiftReplicationId(s) ==
    changeReplicationId(
        [s EXCEPT !.replid2 = s.replid,
                  !.second_replid_offset = s.master_repl_offset + 1])

createReplicationBacklog(s) ==
    IF s.repl_backlog = None THEN [s EXCEPT !.repl_backlog = <<>>] ELSE s

BacklogOffset(s) == s.master_repl_offset - Len(s.repl_backlog) + 1

(* The replicas that read the replication buffer, and the oldest command   *)
(* one of them still has to be sent: the block it references is kept.      *)
Feedable(s) == {r \in DOMAIN s.slaves : s.slaves[r].replstate # "wait_bgsave_start"}

OldestReferenced(s) ==
    LET refs == {s.slaves[r].pos : r \in Feedable(s)} \cup {s.master_repl_offset + 1}
    IN CHOOSE p \in refs : \A q \in refs : p <= q

incrementalTrimReplicationBacklog(s) ==
    LET excess == Len(s.repl_backlog) - (BacklogSize + 1)
        free   == OldestReferenced(s) - BacklogOffset(s)
        n      == IF excess < free THEN excess ELSE free
    IN IF n <= 0 THEN s
       ELSE [s EXCEPT !.repl_backlog = SubSeq(@, n + 1, Len(@))]

feedReplicationBuffer(s, w) ==
    IF s.repl_backlog = None THEN s
    ELSE incrementalTrimReplicationBacklog(
            [s EXCEPT !.repl_backlog = Append(@, w), !.master_repl_offset = @ + 1])

(* A write or a PING enters the stream of a master.  Without a backlog     *)
(* the offset advances all the same.                                       *)
replicationFeedSlaves(s, w) ==
    IF s.repl_backlog = None /\ DOMAIN s.slaves = {}
    THEN [s EXCEPT !.master_repl_offset = @ + 1]
    ELSE feedReplicationBuffer(s, w)

Pending(s, r) ==
    SubSeq(s.repl_backlog, s.slaves[r].pos - BacklogOffset(s) + 1, Len(s.repl_backlog))

-----------------------------------------------------------------------------
(* The RDB child and the replicas that wait for it.                        *)

(* rdbPopulateSaveInfo: whether a dump records the replication ID.         *)
HasSaveInfo(s) ==
    \/ s.masterhost = None /\ s.repl_backlog # None
    \/ s.master # None
    \/ s.cached_master # None

Snapshot(s) ==
    [data |-> s.data, replid |-> IF HasSaveInfo(s) THEN s.replid ELSE None,
     off |-> s.master_repl_offset]

WaitingStart(s) == {r \in DOMAIN s.slaves : s.slaves[r].replstate = "wait_bgsave_start"}
WaitingEnd(s)   == {r \in DOMAIN s.slaves : s.slaves[r].replstate = "wait_bgsave_end"}

(* startBgsaveForReplication: the dump is of the dataset now, and every    *)
(* replica that waits for a BGSAVE gets the differences from now on.       *)
startBgsaveForReplication(s, target) ==
    [s EXCEPT !.child = [type |-> target, rdb |-> Snapshot(s)],
              !.slaves = [r \in DOMAIN s.slaves |->
                  IF r \in WaitingStart(s)
                  THEN [s.slaves[r] EXCEPT !.replstate = "wait_bgsave_end",
                                           !.pos = s.master_repl_offset + 1]
                  ELSE s.slaves[r]]]

(* What startBgsaveForReplication writes to the replicas it sets up.       *)
StartReplies(s, ch) ==
    [r \in Node |-> IF r \in WaitingStart(s)
                    THEN Append(ch[r], FullResync(s.replid, s.master_repl_offset))
                    ELSE ch[r]]

(* freeClient for a replica: a dump nobody waits for any more is killed    *)
(* when no save points ask for it.                                         *)
FreeSlave(s, r) ==
    IF r \notin DOMAIN s.slaves THEN s
    ELSE LET t == [s EXCEPT !.slaves = Without(@, r)]
             u == IF t.repl_backlog = None THEN t ELSE incrementalTrimReplicationBacklog(t)
         IN IF /\ ~SaveParams
               /\ r \in WaitingEnd(s) /\ WaitingEnd(u) = {}
               /\ s.child # None /\ s.child.type = "disk"
            THEN [u EXCEPT !.child = None]
            ELSE u

disconnectSlaves(s) ==
    LET t == [s EXCEPT !.slaves = NoSlaves]
    IN IF t.repl_backlog = None THEN t ELSE incrementalTrimReplicationBacklog(t)

-----------------------------------------------------------------------------
(* Role changes, as functions of a node's state.                           *)

replicationUnsetMaster(s) ==
    disconnectSlaves(shiftReplicationId(
        [s EXCEPT !.masterhost = None, !.master = None, !.cached_master = None,
                  !.repl_state = "none", !.initial = None]))

(* A master turned replica offers its own history to the new master, a     *)
(* replica that changes master the history it received so far.             *)
replicationSetMaster(s, host) ==
    [s EXCEPT !.masterhost = host, !.repl_state = "connect", !.initial = None,
              !.master = None,
              !.cached_master =
                  IF s.masterhost = None
                  THEN [replid |-> s.replid, reploff |-> s.master_repl_offset]
                  ELSE IF s.master # None THEN s.master ELSE s.cached_master]

clearFailoverState(s) == [s EXCEPT !.failover = NoFailover]

abortFailover(s) ==
    IF s.failover.state = "in_progress"
    THEN clearFailoverState(replicationUnsetMaster(s))
    ELSE clearFailoverState(s)

(* The connection to the master is gone: a master that was connected is    *)
(* cached (replicationCacheMaster), a handshake or a transfer abandoned.   *)
replicationHandleMasterDisconnection(s) ==
    [s EXCEPT !.repl_state = "connect", !.master = None, !.initial = None,
              !.cached_master = IF s.master # None THEN s.master ELSE @]


(* Mutant: the cached master survives the load of another dataset.         *)
replicationAttachToNewMaster_KeepsCached(s) ==
    [disconnectSlaves(s) EXCEPT !.repl_backlog = None]

replicationAttachToNewMaster(s) ==
    [disconnectSlaves([s EXCEPT !.cached_master = None]) EXCEPT !.repl_backlog = None]

-----------------------------------------------------------------------------
(* Node n goes to state s.  up: it closes its connection to its master,    *)
(* which frees n's client, and whatever was in flight on it is lost (but   *)
(* a PSYNC FAILOVER already in the other node's socket is still read).     *)
(* down: the replicas whose clients n frees read what was sent to them and *)
(* then the end of the stream.                                             *)
Commit(n, s, up, down, ch, requests) ==
    /\ srv' = [x \in Node |->
                  CASE x = n -> s
                    [] x # n /\ up /\ x = srv[n].masterhost -> FreeSlave(srv[x], n)
                    [] OTHER -> srv[x]]
    /\ chan' = [x \in Node |->
                  CASE x = n /\ up -> <<>>
                    [] x \in down -> Append(ch[x], Eof)
                    [] OTHER -> ch[x]]
    /\ psync' = IF up
                THEN {p \in requests : p.from # n}
                     \cup {[p EXCEPT !.open = FALSE] :
                              p \in {q \in requests : q.from = n /\ q.failover}}
                ELSE requests

Replicas(s) == DOMAIN s.slaves

-----------------------------------------------------------------------------
(* Writes, and the PING a master sends its replicas.                       *)

Feed(m) ==
    /\ writes < MaxWrites
    /\ srv[m].masterhost = None
    /\ writes' = writes + 1
    /\ srv' = [srv EXCEPT ![m] = [replicationFeedSlaves(@, writes + 1)
                                     EXCEPT !.data = Append(@, writes + 1)]]
    /\ UNCHANGED <<chan, psync, commands, faults>>

(* Clients' writes are paused while a failover is under way.               *)
ClientWrite(m) ==
    /\ srv[m].failover.state = "none"
    /\ Feed(m)

(* The PING is held back only for a FAILOVER with a timeout.               *)
Ping(m) ==
    /\ Replicas(srv[m]) # {}
    /\ srv[m].failover.state # "none" /\ ~srv[m].failover.timeout
    /\ Feed(m)

-----------------------------------------------------------------------------

(* Mutant: the replica asks for the last command it has once more.         *)
SendPsync_LastAgain(r) ==
    LET s == srv[r]
        cached == s.cached_master
    IN /\ s.masterhost # None /\ s.repl_state = "connect"
       /\ srv' = [srv EXCEPT ![r].repl_state = "receive_psync_reply",
                             ![r].initial = None]
       /\ chan' = [chan EXCEPT ![r] = <<>>]
       /\ psync' = psync \cup
            {[from |-> r, to |-> s.masterhost, open |-> TRUE,
              replid |-> IF cached = None THEN None ELSE cached.replid,
              off |-> IF cached = None THEN -1 ELSE cached.reploff,
              failover |-> s.failover.state = "in_progress"]}
       /\ UNCHANGED bounds

(* The replica connects and sends PSYNC (connectWithMaster, syncWithMaster *)
(* down to the writing half of slaveTryPartialResynchronization).          *)
SendPsync(r) ==
    LET s == srv[r]
        cached == s.cached_master
    IN /\ s.masterhost # None /\ s.repl_state = "connect"
       /\ srv' = [srv EXCEPT ![r].repl_state = "receive_psync_reply",
                             ![r].initial = None]
       /\ chan' = [chan EXCEPT ![r] = <<>>]
       /\ psync' = psync \cup
            {[from |-> r, to |-> s.masterhost, open |-> TRUE,
              replid |-> IF cached = None THEN None ELSE cached.replid,
              off |-> IF cached = None THEN -1 ELSE cached.reploff + 1,
              failover |-> s.failover.state = "in_progress"]}
       /\ UNCHANGED bounds

(* syncCommand.  A PSYNC FAILOVER first makes a replica with the same      *)
(* replication ID a master.                                                *)
Promotes(s, p) == p.failover /\ s.masterhost # None /\ p.replid = s.replid

AfterPromotion(s, p) == IF Promotes(s, p) THEN replicationUnsetMaster(s) ELSE s

Refuses(s, p) ==
    \/ p.failover /\ ~Promotes(s, p)
    \/ AfterPromotion(s, p).failover.state # "none"
    \/ /\ AfterPromotion(s, p).masterhost # None
       /\ AfterPromotion(s, p).repl_state # "connected"


masterTryPartialResynchronization(s, id, off) ==
    /\ id # None
    /\ id = s.replid \/ (id = s.replid2 /\ off <= s.second_replid_offset)
    /\ s.repl_backlog # None
    /\ BacklogOffset(s) <= off /\ off <= BacklogOffset(s) + Len(s.repl_backlog)

NewSlave(state, pos) ==
    [replstate |-> state, pos |-> pos, repl_ack_off |-> 0,
     start_on_ack |-> FALSE, rdb |-> None]

AddSlave(s, r, slave) ==
    [s EXCEPT !.slaves = [x \in DOMAIN @ \cup {r} |-> IF x = r THEN slave ELSE @[x]]]

(* What syncCommand does in every branch: it may close the node's own      *)
(* links on promotion, and it answers on p's connection.                   *)
Serve(m, p, s, ch) ==
    /\ Commit(m, s, Promotes(srv[m], p),
              IF Promotes(srv[m], p) THEN Replicas(srv[m]) ELSE {}, ch, psync \ {p})
    /\ UNCHANGED bounds

SyncRefuse(m, p) ==
    /\ Refuses(srv[m], p)
    /\ Serve(m, p, AfterPromotion(srv[m], p),
             IF p.open THEN [chan EXCEPT ![p.from] = Append(@, Error)] ELSE chan)

(* A request whose sender is gone has no other effect than the promotion:  *)
(* the client it creates is freed as soon as its end of stream is read.    *)
SyncAbandoned(m, p) ==
    /\ ~p.open /\ ~Refuses(srv[m], p)
    /\ Serve(m, p, AfterPromotion(srv[m], p), chan)

SyncPartial(m, p) ==
    LET s == AfterPromotion(srv[m], p)
    IN /\ p.open /\ ~Refuses(srv[m], p)
       /\ masterTryPartialResynchronization(s, p.replid, p.off)
       /\ Serve(m, p, AddSlave(s, p.from, NewSlave("online", p.off)),
                [chan EXCEPT ![p.from] = Append(@, Continue(s.replid))])

(* A full resynchronisation.  The replica joins a BGSAVE to disk another   *)
(* replica already waits for, waits for the next one (always an option     *)
(* for a diskless one, which replicationCron delays), or starts its own.   *)
SyncFull(m, p) ==
    LET promoted == AfterPromotion(srv[m], p)
        withId == IF promoted.repl_backlog = None /\ Replicas(promoted) = {}
                  THEN createReplicationBacklog(clearReplicationId2(
                           changeReplicationId(promoted)))
                  ELSE promoted
        s == AddSlave(withId, p.from, NewSlave("wait_bgsave_start", 0))
        joins == s.child # None /\ s.child.type = "disk" /\ WaitingEnd(s) # {}
        other == s.slaves[CHOOSE r \in WaitingEnd(s) : TRUE]
    IN /\ p.open /\ ~Refuses(srv[m], p)
       /\ ~masterTryPartialResynchronization(promoted, p.replid, p.off)
       /\ \/ /\ joins
             /\ Serve(m, p, AddSlave(s, p.from, other),
                      [chan EXCEPT ![p.from] =
                          Append(@, FullResync(s.replid, other.pos - 1))])
          \/ /\ ~joins
             /\ s.child # None \/ "socket" \in SyncTargets
             /\ Serve(m, p, s, chan)
          \/ /\ s.child = None
             /\ \E target \in SyncTargets :
                   Serve(m, p, startBgsaveForReplication(s, target), StartReplies(s, chan))

syncCommand(m) ==
    \E p \in psync :
        /\ p.to = m
        /\ \/ SyncRefuse(m, p)
           \/ SyncAbandoned(m, p)
           \/ SyncPartial(m, p)
           \/ SyncFull(m, p)

-----------------------------------------------------------------------------
(* The master's side of a synchronisation.                                 *)

(* replicationStartPendingFork.  When the fork fails the waiting replicas  *)
(* get an error and their connections are closed.                          *)
replicationStartPendingFork(m, target) ==
    /\ srv[m].child = None /\ WaitingStart(srv[m]) # {}
    /\ srv' = [srv EXCEPT ![m] = startBgsaveForReplication(@, target)]
    /\ chan' = StartReplies(srv[m], chan)
    /\ UNCHANGED <<psync, bounds>>

ForkFails(m) ==
    LET waiting == WaitingStart(srv[m])
    IN /\ faults < MaxFaults
       /\ srv[m].child = None /\ waiting # {}
       /\ srv' = [srv EXCEPT ![m].slaves =
                     [r \in DOMAIN @ \ waiting |-> @[r]]]
       /\ chan' = [r \in Node |->
                     IF r \in waiting THEN chan[r] \o <<Error, Eof>> ELSE chan[r]]
       /\ faults' = faults + 1
       /\ UNCHANGED <<psync, writes, commands>>

(* backgroundSaveDoneHandler and updateSlavesWaitingBgsave.  A dump to     *)
(* disk is then sent from the file; one to the sockets has been sent, and  *)
(* the stream waits for the replica's first ACK.                           *)
Saved(s) ==
    [s EXCEPT !.child = None,
              !.rdb_file = IF s.child.type = "disk" THEN s.child.rdb ELSE @,
              !.slaves = [r \in DOMAIN @ |->
                  IF r \notin WaitingEnd(s) THEN @[r]
                  ELSE IF s.child.type = "disk"
                       THEN [@[r] EXCEPT !.replstate = "send_bulk", !.rdb = s.child.rdb]
                       ELSE [@[r] EXCEPT !.replstate = "online", !.start_on_ack = TRUE]]]

backgroundSaveDone(m) ==
    LET s == srv[m]
    IN /\ s.child # None
       /\ srv' = [srv EXCEPT ![m] = Saved(s)]
       /\ chan' = [r \in Node |->
                      IF s.child.type = "socket" /\ r \in WaitingEnd(s)
                      THEN Append(chan[r], Rdb(s.child.rdb)) ELSE chan[r]]
       /\ UNCHANGED <<psync, bounds>>

KillChild(s) ==
    IF s.child = None THEN s
    ELSE [s EXCEPT !.child = None,
                   !.slaves = [r \in DOMAIN @ \ WaitingEnd(s) |-> @[r]]]

WaitingForChild(s) == IF s.child = None THEN {} ELSE WaitingEnd(s)

BgsaveFails(m) ==
    /\ faults < MaxFaults
    /\ srv[m].child # None
    /\ Commit(m, KillChild(srv[m]), FALSE, WaitingForChild(srv[m]), chan, psync)
    /\ faults' = faults + 1
    /\ UNCHANGED <<writes, commands>>

sendBulkToSlave(m, r) ==
    /\ r \in Replicas(srv[m]) /\ srv[m].slaves[r].replstate = "send_bulk"
    /\ chan' = [chan EXCEPT ![r] = Append(@, Rdb(srv[m].slaves[r].rdb))]
    /\ srv' = [srv EXCEPT ![m].slaves[r] = [@ EXCEPT !.replstate = "online", !.rdb = None]]
    /\ UNCHANGED <<psync, bounds>>

(* The replication buffer is written to an online replica's socket.        *)
writeToClient(m, r) ==
    LET s == srv[m]
    IN /\ r \in Replicas(s)
       /\ s.slaves[r].replstate = "online" /\ ~s.slaves[r].start_on_ack
       /\ Pending(s, r) # <<>>
       /\ chan' = [chan EXCEPT ![r] =
                      @ \o [i \in DOMAIN Pending(s, r) |-> Cmd(Pending(s, r)[i])]]
       /\ srv' = [srv EXCEPT ![m] = incrementalTrimReplicationBacklog(
                     [s EXCEPT !.slaves[r].pos = s.master_repl_offset + 1])]
       /\ UNCHANGED <<psync, bounds>>


(* Mutant: the first ACK does not start the command stream.                *)
Acked_NoStart(m, r) ==
    [srv[m].slaves[r] EXCEPT
        !.repl_ack_off = IF srv[r].master.reploff > @ THEN srv[r].master.reploff ELSE @]

(* REPLCONF ACK: sent by the replica every second, read by the master.     *)
Acked(m, r) ==
    LET slave == srv[m].slaves[r]
        off == srv[r].master.reploff
    IN [slave EXCEPT
          !.repl_ack_off = IF off > slave.repl_ack_off THEN off ELSE @,
          !.start_on_ack = @ /\ slave.replstate # "online"]

ReplconfAck(m, r) ==
    /\ srv[r].masterhost = m /\ srv[r].repl_state = "connected"
    /\ r \in Replicas(srv[m])
    /\ Acked(m, r) # srv[m].slaves[r]
    /\ srv' = [srv EXCEPT ![m].slaves[r] = Acked(m, r)]
    /\ UNCHANGED <<chan, psync, bounds>>

(* The master closes a replica: a timeout, a write error or an output      *)
(* buffer over its limit.                                                  *)
CloseSlave(m, r) ==
    /\ faults < MaxFaults
    /\ r \in Replicas(srv[m])
    /\ Commit(m, FreeSlave(srv[m], r), FALSE, {r}, chan, psync)
    /\ faults' = faults + 1
    /\ UNCHANGED <<writes, commands>>

(* replicationCron: a master without replicas frees its backlog, and its   *)
(* history gets a new ID.                                                  *)
BacklogTimeout(m) ==
    LET s == srv[m]
    IN /\ faults < MaxFaults
       /\ Replicas(s) = {} /\ s.repl_backlog # None /\ s.masterhost = None
       /\ srv' = [srv EXCEPT ![m] =
                     [clearReplicationId2(changeReplicationId(s)) EXCEPT !.repl_backlog = None]]
       /\ faults' = faults + 1
       /\ UNCHANGED <<chan, psync, writes, commands>>

-----------------------------------------------------------------------------
(* The replica reads its connection.                                       *)

Received(r, kind) == chan[r] # <<>> /\ Head(chan[r]).t = kind
Rest(r) == [chan EXCEPT ![r] = Tail(@)]

ReceiveFullResync(r) ==
    LET h == Head(chan[r])
    IN /\ Received(r, "fullresync")
       /\ Commit(r, clearFailoverState(
                       [srv[r] EXCEPT !.repl_state = "transfer",
                                      !.initial = [replid |-> h.replid, reploff |-> h.off]]),
                 FALSE, {}, Rest(r), psync)
       /\ UNCHANGED bounds

(* +CONTINUE.  When the master's ID is not the one the replica asked for,  *)
(* the old one becomes the secondary ID and the sub-replicas are closed,   *)
(* so that they learn of it.                                               *)
ReceiveContinue(r) ==
    LET s == clearFailoverState(srv[r])
        id == Head(chan[r]).replid
        changed == id # s.cached_master.replid
        shifted == IF changed
                   THEN disconnectSlaves(
                          [s EXCEPT !.replid2 = s.cached_master.replid,
                                    !.second_replid_offset = s.master_repl_offset + 1,
                                    !.replid = id])
                   ELSE s
    IN /\ Received(r, "continue")
       /\ Commit(r, createReplicationBacklog(
                       [shifted EXCEPT !.master = [replid |-> id,
                                                   reploff |-> s.cached_master.reploff],
                                       !.cached_master = None,
                                       !.repl_state = "connected"]),
                 FALSE, IF changed THEN Replicas(s) ELSE {}, Rest(r), psync)
       /\ UNCHANGED bounds

(* An error, or the end of the stream.  A failover in progress whose PSYNC *)
(* gets either is aborted: the node is a master again.                     *)
MasterGone(s) ==
    IF s.failover.state = "in_progress" THEN abortFailover(s)
    ELSE replicationHandleMasterDisconnection(s)

ReceiveFailure(r) ==
    /\ Received(r, "error") \/ Received(r, "eof")
    /\ Commit(r, MasterGone(srv[r]), TRUE,
              IF srv[r].failover.state = "in_progress" THEN Replicas(srv[r]) ELSE {},
              chan, psync)
    /\ UNCHANGED bounds

(* readSyncBulkPayload once the payload is there.  load = "disk": the dump *)
(* replaces the node's own RDB file and is loaded from it; "flush": loaded *)
(* from the socket into the emptied dataset; "swapdb": loaded beside it.   *)
Loaded(s, rdb, load) ==
    createReplicationBacklog(clearReplicationId2(
        [replicationAttachToNewMaster(KillChild(s)) EXCEPT
            !.data = rdb.data, !.replid = s.initial.replid,
            !.master_repl_offset = s.initial.reploff,
            !.master = s.initial, !.initial = None, !.repl_state = "connected",
            !.rdb_file = IF load = "disk" THEN rdb ELSE @]))

LoadSucceeds(r, load) ==
    /\ Received(r, "rdb")
    /\ Commit(r, Loaded(srv[r], Head(chan[r]).data, load), FALSE,
              Replicas(srv[r]), Rest(r), psync)
    /\ UNCHANGED bounds

(* A failed load leaves an empty dataset, except with swapdb.  A load from *)
(* disk can fail before and after the dump replaced the file.              *)
LoadFailed(s, rdb, load, renamed) ==
    LET t == IF load = "swapdb" THEN KillChild(s)
             ELSE [replicationAttachToNewMaster(KillChild(s)) EXCEPT !.data = <<>>]
    IN replicationHandleMasterDisconnection(
         [t EXCEPT !.rdb_file = IF load = "disk" /\ renamed THEN rdb ELSE @])

LoadFails(r, load, renamed) ==
    /\ faults < MaxFaults
    /\ Received(r, "rdb")
    /\ Commit(r, LoadFailed(srv[r], Head(chan[r]).data, load, renamed), TRUE,
              IF load = "swapdb" THEN WaitingForChild(srv[r]) ELSE Replicas(srv[r]),
              chan, psync)
    /\ faults' = faults + 1
    /\ UNCHANGED <<writes, commands>>

(* A command of the stream is executed and, with the replica's own offset, *)
(* proxied to its backlog and sub-replicas (commandProcessed).             *)
ReceiveCommand(r) ==
    LET s == srv[r]
        w == Head(chan[r]).w
    IN /\ Received(r, "cmd")
       /\ srv' = [srv EXCEPT ![r] =
                     feedReplicationBuffer([s EXCEPT !.data = Append(@, w),
                                                     !.master.reploff = @ + 1], w)]
       /\ chan' = Rest(r)
       /\ UNCHANGED <<psync, bounds>>

(* replicationCron: nothing heard for repl-timeout.  A failover is not     *)
(* aborted: its PSYNC FAILOVER is sent again.                              *)
MasterTimeout(r) ==
    /\ faults < MaxFaults
    /\ srv[r].masterhost # None /\ srv[r].repl_state # "connect"
    /\ Commit(r, replicationHandleMasterDisconnection(srv[r]), TRUE, {}, chan, psync)
    /\ faults' = faults + 1
    /\ UNCHANGED <<writes, commands>>

-----------------------------------------------------------------------------
(* Commands of the operator.                                               *)

Command == commands < MaxCommands /\ commands' = commands + 1

replicaofCommand(n, host) ==
    /\ Command
    /\ srv[n].failover.state = "none"
    /\ host # n /\ host # srv[n].masterhost
    /\ IF host = None
       THEN Commit(n, replicationUnsetMaster(srv[n]), TRUE, Replicas(srv[n]), chan, psync)
       ELSE Commit(n, replicationSetMaster(srv[n], host), srv[n].masterhost # None, {},
                   chan, psync)
    /\ UNCHANGED <<writes, faults>>

(* FAILOVER [TO target [FORCE]] [TIMEOUT ms]                               *)
failoverCommand(m, target, force, timeout) ==
    /\ Command
    /\ srv[m].failover.state = "none" /\ srv[m].masterhost = None
    /\ Replicas(srv[m]) # {}
    /\ force => timeout /\ target # None
    /\ target # None => /\ target \in Replicas(srv[m])
                        /\ srv[m].slaves[target].replstate = "online"
    /\ srv' = [srv EXCEPT ![m].failover = [state |-> "wait_for_sync", target |-> target,
                                           force |-> force, timeout |-> timeout]]
    /\ UNCHANGED <<chan, psync, writes, faults>>

(* FAILOVER ABORT, once per FAILOVER at most: MaxCommands bounds both.     *)
FailoverAbort(m) ==
    /\ srv[m].failover.state # "none"
    /\ Commit(m, abortFailover(srv[m]), srv[m].masterhost # None,
              IF srv[m].masterhost # None THEN Replicas(srv[m]) ELSE {}, chan, psync)
    /\ UNCHANGED bounds

bgsaveCommand(n) ==
    /\ Command
    /\ srv[n].child = None
    /\ srv' = [srv EXCEPT ![n].child = [type |-> "disk", rdb |-> Snapshot(srv[n])]]
    /\ UNCHANGED <<chan, psync, writes, faults>>

(* updateFailoverStatus: once a replica has acknowledged everything, the   *)
(* master becomes its replica.                                             *)
StartFailover(m, target) ==
    srv' = [srv EXCEPT ![m] = [replicationSetMaster(@, target)
                                 EXCEPT !.failover.state = "in_progress",
                                        !.failover.target = target]]


(* Mutant: the target's acknowledged offset is not checked.                *)
FailoverSynced_Unchecked(m, target) ==
    /\ srv[m].failover.state = "wait_for_sync"
    /\ srv[m].failover.target \in {None, target}
    /\ target \in Replicas(srv[m])
    /\ StartFailover(m, target)
    /\ UNCHANGED <<chan, psync, bounds>>

FailoverSynced(m, target) ==
    /\ srv[m].failover.state = "wait_for_sync"
    /\ srv[m].failover.target \in {None, target}
    /\ target \in Replicas(srv[m])
    /\ srv[m].slaves[target].repl_ack_off = srv[m].master_repl_offset
    /\ StartFailover(m, target)
    /\ UNCHANGED <<chan, psync, bounds>>

FailoverTimeout(m) ==
    /\ faults < MaxFaults
    /\ srv[m].failover.state = "wait_for_sync" /\ srv[m].failover.timeout
    /\ IF srv[m].failover.force
       THEN StartFailover(m, srv[m].failover.target)
       ELSE srv' = [srv EXCEPT ![m] = abortFailover(@)]
    /\ faults' = faults + 1
    /\ UNCHANGED <<chan, psync, writes, commands>>

-----------------------------------------------------------------------------
(* A crash and a restart (loadDataFromDisk): the dataset is that of the    *)
(* RDB file.  A replica resumes the history the file names; a master gets  *)
(* a new ID and keeps that one as secondary, for as far as the file goes.  *)
loadDataFromDisk(n, host) ==
    LET file == srv[n].rdb_file
        s == [Fresh(n, host, srv[n].ids + 1) EXCEPT !.rdb_file = file, !.data = file.data]
    IN IF file.replid = None THEN s
       ELSE IF host = None
       THEN [s EXCEPT !.replid2 = file.replid, !.second_replid_offset = file.off + 1,
                      !.master_repl_offset = file.off, !.repl_backlog = <<>>]
       ELSE [s EXCEPT !.replid = file.replid, !.master_repl_offset = file.off,
                      !.cached_master = [replid |-> file.replid, reploff |-> file.off]]

(* The node comes back with the role of its configuration file, which      *)
(* CONFIG REWRITE may have brought up to date.                             *)
Restart(n, host) ==
    LET asking == {p.from : p \in {q \in psync : q.to = n /\ q.open}}
    IN /\ faults < MaxFaults
       /\ host \in {InitMaster[n], srv[n].masterhost}
       /\ Commit(n, loadDataFromDisk(n, host), srv[n].masterhost # None,
                 Replicas(srv[n]) \cup asking, [chan EXCEPT ![n] = <<>>],
                 {p \in psync : p.to # n})
       /\ faults' = faults + 1
       /\ UNCHANGED <<writes, commands>>

-----------------------------------------------------------------------------

Work(n) ==
    \/ SendPsync(n)
    \/ syncCommand(n)
    \/ \E target \in SyncTargets : replicationStartPendingFork(n, target)
    \/ backgroundSaveDone(n)
    \/ \E r \in Node : sendBulkToSlave(n, r) \/ writeToClient(n, r) \/ ReplconfAck(n, r)
    \/ ReceiveFullResync(n)
    \/ ReceiveContinue(n)
    \/ ReceiveFailure(n)
    \/ \E load \in Loads : LoadSucceeds(n, load)
    \/ ReceiveCommand(n)
    \/ \E target \in Node : FailoverSynced(n, target)

Operate(n) ==
    \/ ClientWrite(n)
    \/ Ping(n)
    \/ \E host \in Node \cup {None} : replicaofCommand(n, host)
    \/ \E target \in Node \cup {None}, force, timeout \in BOOLEAN :
          failoverCommand(n, target, force, timeout)
    \/ FailoverAbort(n)
    \/ bgsaveCommand(n)

Fault(n) ==
    \/ ForkFails(n)
    \/ BgsaveFails(n)
    \/ \E r \in Node : CloseSlave(n, r)
    \/ BacklogTimeout(n)
    \/ \E load \in Loads, renamed \in BOOLEAN :
          LoadFails(n, load, renamed)
    \/ MasterTimeout(n)
    \/ FailoverTimeout(n)
    \/ \E host \in Node \cup {None} : Restart(n, host)

Next == \E n \in Node : Work(n) \/ Operate(n) \/ Fault(n)

Spec == Init /\ [][Next]_vars

(* Sockets are served by the event loop, children finish, replicationCron  *)
(* runs every second.                                                      *)
Fairness == \A n \in Node : WF_vars(Work(n))

FairSpec == Spec /\ Fairness

-----------------------------------------------------------------------------
(* Properties.                                                             *)

Cmds(ch) == LET c == SelectSeq(ch, LAMBDA msg : msg.t = "cmd")
            IN [i \in DOMAIN c |-> c[i].w]

From(s, off) == SubSeq(s.repl_backlog, off - BacklogOffset(s) + 1, Len(s.repl_backlog))

(* A partial resynchronisation never diverges: whenever a master would     *)
(* accept, by its first or its second replication ID, the history a        *)
(* replica (or the dump a node would restart from) offers, that dataset    *)
(* followed by the part of the backlog sent is the master's dataset        *)
(* (masterTryPartialResynchronization).                                    *)
PsyncSound ==
    \A m, r \in Node :
        LET s == srv[m]
            cached == srv[r].cached_master
            file == srv[r].rdb_file
        IN m # r =>
           /\ cached # None /\ masterTryPartialResynchronization(s, cached.replid, cached.reploff + 1)
                => srv[r].data \o From(s, cached.reploff + 1) = s.data
           /\ file.replid # None /\ masterTryPartialResynchronization(s, file.replid, file.off + 1)
                => file.data \o From(s, file.off + 1) = s.data

(* Nothing is lost or repeated on a link: the dataset a replica has (or    *)
(* the dump it will load), what is in its socket and what the master has   *)
(* still to send it from the replication buffer make up the master's       *)
(* dataset, through the BGSAVE, the dump's transfer and the stream         *)
(* (feedReplicationBuffer, incrementalTrimReplicationBacklog,              *)
(* updateSlavesWaitingBgsave).                                             *)
Base(m, r) ==
    LET dumps == SelectSeq(chan[r], LAMBDA msg : msg.t = "rdb")
        slave == srv[m].slaves[r]
    IN CASE dumps # <<>>                         -> dumps[1].data.data
         [] slave.replstate = "wait_bgsave_end"  -> srv[m].child.rdb.data
         [] slave.replstate = "send_bulk"        -> slave.rdb.data
         [] OTHER                                -> srv[r].data

StreamComplete ==
    \A m \in Node : \A r \in Replicas(srv[m]) :
        srv[m].slaves[r].replstate # "wait_bgsave_start" =>
            Base(m, r) \o Cmds(chan[r]) \o Pending(srv[m], r) = srv[m].data

(* The assertions of the source and the pointers it follows unchecked:     *)
(* replicas imply a backlog (replicationFeedSlaves), a replica that waits  *)
(* for a dump to a child that writes it, a connected replica has a master  *)
(* and no cached one (replicationCacheMaster), a +CONTINUE finds the       *)
(* cached master it resurrects, a dump started for replicas records the    *)
(* replication ID (startBgsaveForReplication).                             *)
ServerAsserts ==
    \A n \in Node :
        LET s == srv[n]
        IN /\ Replicas(s) # {} => s.repl_backlog # None
           /\ WaitingEnd(s) # {} => s.child # None /\ s.child.rdb.replid = s.replid
           /\ WaitingStart(s) # {} => HasSaveInfo(s)
           /\ s.repl_state = "connected" <=> s.master # None
           /\ s.master # None => s.cached_master = None
           /\ Received(n, "continue") => s.cached_master # None
           /\ Received(n, "rdb") => s.initial # None

(* A FAILOVER without FORCE loses nothing: when the target turns master    *)
(* for a PSYNC FAILOVER of a node still failing over to it, its dataset    *)
(* is that node's, as long as it was that node's replica all along         *)
(* (syncCommand, updateFailoverStatus).  The exception is a target that    *)
(* restarted since it acknowledged everything: it has the ID of its dump,  *)
(* no backlog yet, and is promoted with what the dump holds.               *)
FailoverLossless ==
    [][\A p \in psync :
          LET old == srv[p.from]
          IN /\ p \notin psync' /\ Promotes(srv[p.to], p)
             /\ srv'[p.to].masterhost = None /\ p.replid = old.replid
             /\ old.failover.state = "in_progress" /\ old.failover.target = p.to
             /\ ~old.failover.force
             /\ srv[p.to].masterhost = p.from /\ srv[p.to].repl_backlog # None
             => srv[p.to].data = old.data]_vars

(* Once commands and faults stop, every replica of a master that is not    *)
(* failing over ends up connected and with the master's dataset.           *)
ReplicasSync ==
    <>[](\A r, m \in Node :
            /\ srv[r].masterhost = m
            /\ srv[m].masterhost = None /\ srv[m].failover.state = "none"
            => srv[r].repl_state = "connected" /\ srv[r].data = srv[m].data)

=============================================================================
