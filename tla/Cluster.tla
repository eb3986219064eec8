------------------------------ MODULE Cluster ------------------------------
(***************************************************************************)
(* Redis Cluster's configuration protocol (cluster_legacy.c): who is       *)
(* master of which hash slots, how a failed master is detected, how a      *)
(* replica is elected in its place, and how the new configuration spreads. *)
(*                                                                         *)
(* srv[n] is server.cluster of node n: its epochs, its table of nodes (one *)
(* function per field), the slot map and the state of its own election.    *)
(* disk[n] is its nodes.conf.  An action is one event handler of a node    *)
(* and the clusterBeforeSleep that follows it: what the handler saves is   *)
(* on disk before the messages it queued are written to a socket.  net     *)
(* holds the messages under way; a message that is never received is a     *)
(* message lost with its link.                                             *)
(*                                                                         *)
(* The nodes know each other from the start: the handshake, CLUSTER MEET,  *)
(* FORGET, RESET and the resharding commands are not modelled, so the      *)
(* shard of a node never changes.                                          *)
(***************************************************************************)
EXTENDS Integers, FiniteSets, FiniteSetsExt

CONSTANTS
    Node,             \* the nodes of the cluster
    Slot,             \* the hash slots, numbers
    None,             \* "no node"
    Id,               \* [Node -> Nat]: the order of the node IDs (memcmp)
    InitSlaveof,      \* [Node -> Node \cup {None}]: the initial replicas
    InitSlots,        \* [Slot -> Node]: the initial owners
    InitEpoch,        \* [Node -> Nat]: the initial config epochs
    Alive,            \* the nodes that run; the others are down for good
    Links,            \* the pairs <<m, n>> where m's heartbeats reach n
    SlowLinks,        \* the ones on which a heartbeat may be late
    InitFailed,       \* the nodes every table flags FAIL at the start
    Suspects,         \* the nodes whose link may time out
    Restarting,       \* the nodes that may crash and restart
    Commands,         \* subset of Node \X {"force", "takeover", "bumpepoch"}
    Timing,           \* races allowed: subset of {"lateVotes", "promptRetry"}
    MaxEpoch,         \* bound on currentEpoch
    MaxTimeouts,      \* bound on link timeouts
    MaxRestarts,      \* bound on restarts
    MaxCommands,      \* bound on CLUSTER FAILOVER / BUMPEPOCH commands
    MaxDelayed        \* bound on heartbeats delivered late

ASSUME ClusterAssumption ==
    /\ None \notin Node /\ Slot \subseteq Nat
    /\ Id \in [Node -> Nat] /\ \A m, n \in Node : Id[m] = Id[n] => m = n
    /\ InitSlaveof \in [Node -> Node \cup {None}]
    /\ InitSlots \in [Slot -> Node] /\ InitEpoch \in [Node -> 0..MaxEpoch]
    /\ \A s \in Slot : InitSlaveof[InitSlots[s]] = None
    /\ \A n \in Node : InitSlaveof[n] # None => InitSlaveof[InitSlaveof[n]] = None
    /\ SlowLinks \subseteq Links /\ Links \subseteq {l \in Node \X Node : l[1] # l[2]}
    /\ Alive \cup InitFailed \cup Suspects \cup Restarting \subseteq Node
    /\ Commands \subseteq Node \X {"force", "takeover", "bumpepoch"}
    /\ Timing \subseteq {"lateVotes", "promptRetry"}
    /\ {MaxEpoch, MaxTimeouts, MaxRestarts, MaxCommands, MaxDelayed} \subseteq Nat

VARIABLES
    srv,      \* [Node -> server.cluster]
    disk,     \* [Restarting -> what nodes.conf holds]
    net,      \* the messages under way
    votes,    \* history: <<voter, epoch, candidate>>
    elected,  \* history: <<node, epoch>> of each election won
    replaced, \* history: <<new epoch, replaced master's epoch>> of the last promotion
    spent     \* the budgets used

vars == <<srv, disk, net, votes, elected, replaced, spent>>

-----------------------------------------------------------------------------
(* The node table.                                                         *)

\* The shard of a node, shard_id: its initial master's.
Shard(n) == IF InitSlaveof[n] = None THEN n ELSE InitSlaveof[n]

IsMaster(v, m) == v.slaveof[m] = None

\* node->slots and node->numslots, kept in step with the slot map by
\* clusterAddSlot and clusterDelSlot.
SlotsOf(v, m) == {s \in Slot : v.slots[s] = m}

\* server.cluster->size as clusterUpdateState computes it: the masters that
\* serve a slot.  A master that restarted keeps the initial size 0 until
\* CLUSTER_WRITABLE_DELAY has passed.
Size(v) ==
    IF v.rejoining THEN 0
    ELSE Cardinality({m \in Node : IsMaster(v, m) /\ SlotsOf(v, m) # {}})

Quorum(v) == (Size(v) \div 2) + 1

isSlotUnclaimed(v, s) == v.slots[s] = None \/ s \in v.unclaiming

\* clusterDelSlot and clusterAddSlot for a set of slots.
Rebind(v, ss, m) ==
    [v EXCEPT !.slots = [s \in Slot |-> IF s \in ss THEN m ELSE v.slots[s]],
              !.unclaiming = @ \ ss]

clusterSetNodeAsMaster(v, m) == [v EXCEPT !.slaveof[m] = None]

resetManualFailover(v) == [v EXCEPT !.mf = FALSE]

clusterSetMaster(v, me, m) ==
    resetManualFailover([v EXCEPT !.slaveof[me] = m, !.masterhost = m])

clusterGetMaxEpoch(v) ==
    Max({v.currentEpoch} \cup {v.configEpoch[m] : m \in Node})

\* A node announces the slots and the epoch of its master, or its own.
clusterBuildMessageHdr(v, me) ==
    LET m == IF IsMaster(v, me) THEN me ELSE v.slaveof[me]
    IN  [from |-> me, slaveof |-> v.slaveof[me], currentEpoch |-> v.currentEpoch,
         configEpoch |-> v.configEpoch[m], slots |-> SlotsOf(v, m)]

Message(type, v, me, to, arg) ==
    [type |-> type, to |-> to, hdr |-> clusterBuildMessageHdr(v, me), arg |-> arg]

Broadcast(type, v, me, arg) == {Message(type, v, me, to, arg) : to \in Alive \ {me}}

-----------------------------------------------------------------------------
(* nodes.conf.                                                             *)

clusterSaveConfig(v) ==
    [currentEpoch |-> v.currentEpoch, lastVoteEpoch |-> v.lastVoteEpoch,
     slaveof |-> v.slaveof, configEpoch |-> v.configEpoch, slots |-> v.slots,
     flag |-> v.flag]

\* Faulty variant: a vote is not saved.
VoteNotSaved(old, new) ==
    \/ old.configEpoch # new.configEpoch
    \/ old.slaveof # new.slaveof
    \/ old.slots # new.slots
    \/ old.flag # new.flag

\* The fields whose change asks for CLUSTER_TODO_SAVE_CONFIG.  A newer
\* currentEpoch alone is not saved.
SaveNeeded(old, new) ==
    \/ old.configEpoch # new.configEpoch
    \/ old.slaveof # new.slaveof
    \/ old.slots # new.slots
    \/ old.flag # new.flag
    \/ old.lastVoteEpoch # new.lastVoteEpoch

\* A replica's config epoch is loaded as 0, and currentEpoch is at least the
\* greatest config epoch of the file.
clusterLoadConfig(me, d) ==
    LET epochs == [m \in Node |-> IF d.slaveof[m] # None THEN 0 ELSE d.configEpoch[m]]
    IN  [currentEpoch |-> Max({d.currentEpoch} \cup {epochs[m] : m \in Node}),
         lastVoteEpoch |-> d.lastVoteEpoch, slaveof |-> d.slaveof,
         configEpoch |-> epochs, slots |-> d.slots, flag |-> d.flag,
         unclaiming |-> {}, reports |-> [m \in Node |-> {}],
         masterhost |-> d.slaveof[me], mf |-> FALSE,
         failover_auth_sent |-> FALSE, failover_auth_count |-> 0,
         failover_auth_epoch |-> 0, old |-> TRUE, about |-> None,
         rejoining |-> d.slaveof[me] = None]

-----------------------------------------------------------------------------
(* What a packet does to the node table.                                   *)

\* Every packet: the newer epochs of its header.
UpdateEpochs(v, h) ==
    [v EXCEPT !.currentEpoch = Max({@, h.currentEpoch}),
              !.configEpoch[h.from] = Max({@, h.configEpoch})]

\* A PONG on our own link clears PFAIL; FAIL is cleared for a replica or a
\* master without slots, and for another master once the flag is old.
ClearFailure(v, m, reply, old) ==
    IF /\ reply
       /\ \/ v.flag[m] = "pfail"
          \/ v.flag[m] = "fail" /\ (~IsMaster(v, m) \/ SlotsOf(v, m) = {} \/ old)
    THEN [v EXCEPT !.flag[m] = "ok"] ELSE v

\* The role switch: a sender that was a master and is now a replica gives its
\* slots to its new master when both are of one shard, unless the header is
\* older than what is known of the sender; otherwise it just loses them.
RoleSwitch(v, h) ==
    LET turned == IsMaster(v, h.from)
        moved  == [Rebind(v, SlotsOf(v, h.from), h.slaveof)
                      EXCEPT !.slaveof[h.slaveof] = None,
                             !.configEpoch[h.slaveof] = h.configEpoch]
        v1 == IF ~turned THEN v
              ELSE IF Shard(h.slaveof) # Shard(h.from)
                   THEN Rebind(v, SlotsOf(v, h.from), None)
              ELSE IF v.configEpoch[h.from] > h.configEpoch THEN v ELSE moved
    IN  IF h.slaveof = None THEN clusterSetNodeAsMaster(v, h.from)
        ELSE [v1 EXCEPT !.slaveof[h.from] = h.slaveof]

\* Faulty variant: any claim of a slot of ours demotes us, whatever its epoch.
DemotedByAnyClaim(v, me, sender, epoch, claimed) ==
    LET curmaster == IF IsMaster(v, me) THEN me ELSE v.slaveof[me]
        bound == {s \in claimed : isSlotUnclaimed(v, s) \/ v.configEpoch[v.slots[s]] < epoch}
    IN  IF sender # me /\ \E s \in claimed : v.slots[s] = curmaster
        THEN clusterSetMaster(Rebind(v, bound, sender), me, sender)
        ELSE Rebind(v, bound, sender)

\* Faulty variant: a slot that has an owner is never rebound.
OwnerKept(v, me, sender, epoch, claimed) ==
    Rebind(v, {s \in claimed : isSlotUnclaimed(v, s)}, sender)

\* Rebind the claimed slots that are unclaimed or owned under an older epoch.
\* A node whose master (itself included) has lost its last slot this way
\* becomes a replica of the new owner; a replica of a replica moves up
\* (cluster-allow-replica-migration is at its default, yes).
clusterUpdateSlotsConfigWith(v, me, sender, epoch, claimed) ==
    LET curmaster == IF IsMaster(v, me) THEN me ELSE v.slaveof[me]
        bound == {s \in claimed : /\ v.slots[s] # sender
                                  /\ \/ isSlotUnclaimed(v, s)
                                     \/ v.configEpoch[v.slots[s]] < epoch}
        v1 == [Rebind(v, bound, sender) EXCEPT !.unclaiming =
                  (@ \ {s \in claimed : v.slots[s] = sender})
                     \cup (SlotsOf(v, sender) \ claimed)]
        up == v1.slaveof[me]
    IN  IF sender = me THEN v
        ELSE IF SlotsOf(v1, curmaster) = {} /\ \E s \in bound : v.slots[s] = curmaster
        THEN clusterSetMaster(v1, me, sender)
        ELSE IF up # None /\ v1.slaveof[up] \notin {None, me}
        THEN clusterSetMaster(v1, me, v1.slaveof[up])
        ELSE v1

\* Two masters with one config epoch: the smaller ID takes a new one.
clusterHandleConfigEpochCollision(v, me, h) ==
    IF /\ IsMaster(v, me) /\ IsMaster(v, h.from)
       /\ h.configEpoch = v.configEpoch[me]
       /\ v.configEpoch[h.from] = v.configEpoch[me]
       /\ Id[h.from] > Id[me]
    THEN [v EXCEPT !.currentEpoch = @ + 1, !.configEpoch[me] = v.currentEpoch + 1]
    ELSE v

\* The gossip section of a master adds and removes its failure reports.
AddReports(v, me, from, gossip) ==
    [v EXCEPT !.reports = [m \in Node |->
        IF m \in {me, from} THEN v.reports[m]
        ELSE IF gossip[m] = "ok" THEN v.reports[m] \ {from}
        ELSE v.reports[m] \cup {from}]]

\* markNodeAsFailingIfNeeded for the nodes the gossip reports as failing.
Failing(v, me, from, gossip) ==
    {m \in Node \ {me, from} :
        /\ gossip[m] # "ok" /\ v.flag[m] = "pfail"
        /\ Cardinality(v.reports[m]) + (IF IsMaster(v, me) THEN 1 ELSE 0) >= Quorum(v)}

MarkFailing(v, ms) ==
    [v EXCEPT !.flag = [m \in Node |-> IF m \in ms THEN "fail" ELSE v.flag[m]]]

\* The gossip section as a whole; only a master's is read for failures.
clusterProcessGossipSection(v, me, from, gossip) ==
    LET v1 == AddReports(v, me, from, gossip)
    IN  IF IsMaster(v, from)
        THEN MarkFailing(v1, Failing(v1, me, from, gossip)) ELSE v

-----------------------------------------------------------------------------
(* A handler's end: the new table, the saved file, the messages.           *)

Saved(n, v) == IF n \in Restarting THEN [disk EXCEPT ![n] = clusterSaveConfig(v)] ELSE disk

Install(n, v, out) ==
    /\ v.currentEpoch <= MaxEpoch
    /\ srv' = [srv EXCEPT ![n] = v]
    /\ disk' = IF SaveNeeded(srv[n], v) THEN Saved(n, v) ELSE disk
    /\ net' = out

\* The slots a sender claims, if they differ from the table: rebound when the
\* sender is a master ...
DirtySlots(v, h) ==
    SlotsOf(v, IF IsMaster(v, h.from) THEN h.from ELSE v.slaveof[h.from]) # h.slots

ClaimSlots(v, me, h) ==
    IF DirtySlots(v, h) /\ IsMaster(v, h.from)
    THEN clusterUpdateSlotsConfigWith(v, me, h.from, h.configEpoch, h.slots) ELSE v

\* ... and answered with an UPDATE about an owner of a greater epoch.
clusterSendUpdate(v, me, h) ==
    LET stale == {s \in h.slots : /\ v.slots[s] # h.from /\ ~isSlotUnclaimed(v, s)
                                  /\ v.configEpoch[v.slots[s]] > h.configEpoch}
        owner == v.slots[Min(stale)]
    IN  IF stale = {} THEN {}
        ELSE {Message("update", v, me, h.from,
                 [about |-> owner, configEpoch |-> v.configEpoch[owner],
                  slots |-> SlotsOf(v, owner) \ v.unclaiming])}

Corrections(v1, v2, me, h) == IF DirtySlots(v1, h) THEN clusterSendUpdate(v2, me, h) ELSE {}

\* The nodes marked as failing between v and w are told to everyone.
FailNews(v, w, me) ==
    UNION {Broadcast("fail", w, me, m) : m \in {x \in Node : v.flag[x] # w.flag[x]}}

\* A PING or PONG, stage by stage: v1 is the table after the epochs, the flags
\* and the role of the sender, v2 after its slots, v3 after an epoch collision,
\* v4 after its gossip.  reply says whether it is the PONG to our own PING, old
\* whether a FAIL flag of the sender is old enough to be undone.
Heartbeat(n, msg, reply, old, rest) ==
    \E h \in {msg.hdr} :
    \E v0 \in {UpdateEpochs(srv[n], h)} :
    \E v1 \in {RoleSwitch(ClearFailure(v0, h.from, reply, old), h)} :
    \E v2 \in {ClaimSlots(v1, n, h)} :
    \E v3 \in {clusterHandleConfigEpochCollision(v2, n, h)} :
    \E v4 \in {clusterProcessGossipSection(v3, n, h.from, msg.arg)} :
        Install(n, v4, rest \cup Corrections(v1, v2, n, h) \cup FailNews(v3, v4, n))

\* A heartbeat without any of these leaves the receiver as it was.
News(v, me, h, gossip) ==
    \/ h.currentEpoch > v.currentEpoch \/ h.configEpoch > v.configEpoch[h.from]
    \/ h.slaveof # v.slaveof[h.from]
    \/ h.slots # SlotsOf(v, IF h.slaveof = None THEN h.from ELSE h.slaveof)
    \/ h.slaveof = None /\ h.configEpoch = v.configEpoch[me]
    \/ v.flag[h.from] # "ok"
    \/ \E m \in Node : gossip[m] # "ok" \/ h.from \in v.reports[m]

\* n receives the heartbeat m sends now, with m's flags as its gossip.  Nodes
\* ping each other all the time and answer a PING with a PONG, so a heartbeat
\* may be sent at any moment in either direction.
ReceiveHeartbeat(n, m) ==
    /\ m \in Alive /\ <<m, n>> \in Links
    /\ \E msg \in {Message("ping", srv[m], m, n, srv[m].flag)} :
          /\ News(srv[n], n, msg.hdr, msg.arg)
          /\ \E reply, old \in IF srv[n].flag[m] = "ok" THEN {FALSE} ELSE BOOLEAN :
                Heartbeat(n, msg, reply, old, net)
    /\ UNCHANGED <<votes, elected, replaced, spent>>

\* A heartbeat that stays in a socket buffer while other packets pass.
DelayHeartbeat(m, n) ==
    /\ <<m, n>> \in SlowLinks /\ spent.delayed < MaxDelayed
    /\ net' = net \cup {Message("ping", srv[m], m, n, srv[m].flag)}
    /\ spent' = [spent EXCEPT !.delayed = @ + 1]
    /\ UNCHANGED <<srv, disk, votes, elected, replaced>>

\* The delayed heartbeat; it is not the PONG to a PING of ours.
ReceiveDelayed(n) ==
    /\ \E msg \in net : /\ msg.type = "ping" /\ msg.to = n
                        /\ Heartbeat(n, msg, FALSE, FALSE, net \ {msg})
    /\ UNCHANGED <<votes, elected, replaced, spent>>

ReceiveFail(n) ==
    /\ \E msg \in net :
          /\ msg.type = "fail" /\ msg.to = n
          /\ Install(n, MarkFailing(UpdateEpochs(srv[n], msg.hdr), {msg.arg} \ {n}), net \ {msg})
    /\ UNCHANGED <<votes, elected, replaced, spent>>

\* An UPDATE about a node is read only if it brings a newer config epoch.
TakeUpdate(v, me, u) ==
    IF v.configEpoch[u.about] >= u.configEpoch THEN v
    ELSE clusterUpdateSlotsConfigWith(
             [clusterSetNodeAsMaster(v, u.about) EXCEPT !.configEpoch[u.about] = u.configEpoch],
             me, u.about, u.configEpoch, u.slots)

ReceiveUpdate(n) ==
    /\ \E msg \in net :
          /\ msg.type = "update" /\ msg.to = n
          /\ Install(n, TakeUpdate(UpdateEpochs(srv[n], msg.hdr), n, msg.arg), net \ {msg})
    /\ UNCHANGED <<votes, elected, replaced, spent>>

-----------------------------------------------------------------------------
(* Failure detection and elections.                                        *)

\* clusterCron: no PONG and no data from m for cluster-node-timeout.  PFAIL
\* alone is not saved; the only master of a cluster marks m as failing at once.
NodeTimeout(n, m) ==
    LET v     == [srv[n] EXCEPT !.flag[m] = "pfail"]
        alone == IsMaster(v, n) /\ Size(v) = 1
    IN  /\ m # n /\ m \in Suspects /\ spent.timeouts < MaxTimeouts
        /\ srv[n].flag[m] = "ok"
        /\ srv' = [srv EXCEPT ![n] = IF alone THEN MarkFailing(v, {m}) ELSE v]
        /\ disk' = IF alone THEN Saved(n, MarkFailing(v, {m})) ELSE disk
        /\ net' = IF alone THEN net \cup Broadcast("fail", v, n, m) ELSE net
        /\ spent' = [spent EXCEPT !.timeouts = @ + 1]
        /\ UNCHANGED <<votes, elected, replaced>>

\* A failure report older than twice the node timeout is dropped.
ReportExpires(n) ==
    /\ \E m \in Node : \E from \in srv[n].reports[m] :
          srv' = [srv EXCEPT ![n].reports[m] = @ \ {from}]
    /\ UNCHANGED <<disk, net, votes, elected, replaced, spent>>

\* Faulty variant: the last vote is not looked at.
VotesAgain(v, me, h, force) ==
    LET master == v.slaveof[h.from]
    IN  /\ IsMaster(v, me) /\ SlotsOf(v, me) # {}
        /\ h.currentEpoch >= v.currentEpoch
        /\ master # None /\ (v.flag[master] = "fail" \/ force)
        /\ \A s \in h.slots : \/ isSlotUnclaimed(v, s)
                              \/ v.configEpoch[v.slots[s]] <= h.configEpoch

\* The tests of clusterSendFailoverAuthIfNeeded, in the voter's table v after
\* the header's epochs.  The wait of two node timeouts between votes about one
\* master is time, and only delays a vote.
MayVote(v, me, h, force) ==
    LET master == v.slaveof[h.from]
    IN  /\ IsMaster(v, me) /\ SlotsOf(v, me) # {}
        /\ h.currentEpoch >= v.currentEpoch
        /\ v.lastVoteEpoch # v.currentEpoch
        /\ master # None /\ (v.flag[master] = "fail" \/ force)
        /\ \A s \in h.slots : \/ isSlotUnclaimed(v, s)
                              \/ v.configEpoch[v.slots[s]] <= h.configEpoch

Vote(v) == [v EXCEPT !.lastVoteEpoch = v.currentEpoch]

\* FAILOVER_AUTH_REQUEST: the vote is on disk before the ACK leaves.
clusterSendFailoverAuthIfNeeded(n) ==
    /\ \E msg \in net :
          /\ msg.type = "request" /\ msg.to = n
          /\ \E v \in {UpdateEpochs(srv[n], msg.hdr)} :
                IF MayVote(v, n, msg.hdr, msg.arg)
                THEN /\ Install(n, Vote(v), (net \ {msg}) \cup
                                            {Message("ack", Vote(v), n, msg.hdr.from, None)})
                     /\ votes' = votes \cup {<<n, v.currentEpoch, msg.hdr.from>>}
                ELSE /\ Install(n, v, net \ {msg})
                     /\ UNCHANGED votes
    /\ UNCHANGED <<elected, replaced, spent>>

\* FAILOVER_AUTH_ACK: a vote of a master with slots, of this epoch or later.
CountVote(v, h) ==
    IF /\ IsMaster(v, h.from) /\ SlotsOf(v, h.from) # {}
       /\ h.currentEpoch >= v.failover_auth_epoch
    THEN [v EXCEPT !.failover_auth_count = @ + 1] ELSE v

ReceiveAck(n) ==
    /\ \E msg \in net :
          /\ msg.type = "ack" /\ msg.to = n
          /\ Install(n, CountVote(UpdateEpochs(srv[n], msg.hdr), msg.hdr), net \ {msg})
    /\ UNCHANGED <<votes, elected, replaced, spent>>

\* The clock of an election: auth_age exceeds auth_retry_time.  Before
\* failover_auth_time, and between auth_timeout and auth_retry_time, the
\* replica does nothing: the two waits are behaviours that take no election step.
ElectionClock(n) ==
    /\ ~srv[n].old
    /\ srv' = [srv EXCEPT ![n].old = TRUE]
    /\ UNCHANGED <<disk, net, votes, elected, replaced, spent>>

\* Why a replica would fail over at all.
FailoverWanted(v, me) ==
    LET master == v.slaveof[me]
    IN  /\ master # None
        /\ v.flag[master] = "fail" \/ v.mf
        /\ SlotsOf(v, master) # {}

\* A new attempt.  Without "lateVotes" the requests and the votes of the attempt
\* before have arrived or were lost by now.
NewAttempt(v) ==
    [v EXCEPT !.failover_auth_count = 0, !.failover_auth_sent = FALSE, !.old = FALSE]

ScheduleElection(n) ==
    /\ FailoverWanted(srv[n], n) /\ srv[n].old
    /\ srv' = [srv EXCEPT ![n] = NewAttempt(@)]
    /\ net' = IF "lateVotes" \in Timing THEN net
              ELSE {msg \in net : /\ msg.type = "ack" => msg.to # n
                                  /\ msg.type = "request" => msg.hdr.from # n}
    /\ UNCHANGED <<disk, votes, elected, replaced, spent>>

\* The nodes that are masters now.  A request that reaches a replica tells it
\* the epoch only, as a heartbeat does.
Voters == {m \in Alive : IsMaster(srv[m], m)}

\* Ask for votes, in a new epoch.
Candidate(v, me) ==
    [v EXCEPT !.currentEpoch = @ + 1, !.failover_auth_epoch = v.currentEpoch + 1,
              !.failover_auth_sent = TRUE, !.about = v.slaveof[me]]

RequestAuth(n) ==
    \E v \in {Candidate(srv[n], n)} :
        /\ FailoverWanted(srv[n], n) /\ ~srv[n].old /\ ~srv[n].failover_auth_sent
        /\ v.currentEpoch <= MaxEpoch
        /\ srv' = [srv EXCEPT ![n] = v]
        /\ disk' = IF v.mf THEN disk   \* queued from clusterBeforeSleep: saved by the next one
                   ELSE Saved(n, v)
        /\ net' = net \cup {Message("request", v, n, to, v.mf) : to \in Voters \ {n}}
        /\ UNCHANGED <<votes, elected, replaced, spent>>

\* A node takes the config epoch e.
Bumped(v, me, e) == [v EXCEPT !.configEpoch[me] = e, !.currentEpoch = Max({@, e})]

\* clusterFailoverReplaceYourMaster with the config epoch e.  The PONGs it sends
\* to everyone are heartbeats, which a node may send at any moment.
Promoted(v, me, e) ==
    Bumped([Rebind(clusterSetNodeAsMaster(v, me), SlotsOf(v, v.slaveof[me]), me)
               EXCEPT !.masterhost = None, !.mf = FALSE, !.about = None], me, e)

ReplaceYourMaster(n, e) ==
    /\ Install(n, Promoted(srv[n], n, e), net)
    /\ replaced' = <<e, srv[n].configEpoch[srv[n].slaveof[n]]>>

\* The election is won.  Without "promptRetry" the votes are about the master
\* that is replaced: an election's window has closed before its winner, or its
\* loser, is a replica that fails over again.
WinElection(n) ==
    LET v == srv[n]
        e == Max({v.configEpoch[n], v.failover_auth_epoch})
    IN  /\ FailoverWanted(v, n) /\ ~v.old /\ v.failover_auth_sent
        /\ v.failover_auth_count >= Quorum(v)
        /\ "promptRetry" \in Timing \/ v.about = v.slaveof[n]
        /\ ReplaceYourMaster(n, e)
        /\ elected' = elected \cup {<<n, e>>}
        /\ UNCHANGED <<votes, spent>>

-----------------------------------------------------------------------------
(* Commands, restarts.                                                     *)

Command(n, what) ==
    /\ <<n, what>> \in Commands /\ spent.commands < MaxCommands
    /\ spent' = [spent EXCEPT !.commands = @ + 1]

\* CLUSTER FAILOVER FORCE, and CLUSTER FAILOVER once the offsets agree.
failoverForce(n) ==
    /\ Command(n, "force") /\ ~IsMaster(srv[n], n)
    /\ srv' = [srv EXCEPT ![n].mf = TRUE]
    /\ UNCHANGED <<disk, net, votes, elected, replaced>>

manualFailoverCheckTimeout(n) ==
    /\ srv[n].mf
    /\ srv' = [srv EXCEPT ![n] = resetManualFailover(@)]
    /\ UNCHANGED <<disk, net, votes, elected, replaced, spent>>

\* Faulty variant: the current epoch is taken for a new one.
EpochReused(v, me) ==
    IF v.configEpoch[me] = 0 \/ v.configEpoch[me] # clusterGetMaxEpoch(v)
    THEN v.currentEpoch ELSE v.configEpoch[me]

\* The epoch clusterBumpConfigEpochWithoutConsensus leaves to the node.
BumpedEpoch(v, me) ==
    IF v.configEpoch[me] = 0 \/ v.configEpoch[me] # clusterGetMaxEpoch(v)
    THEN v.currentEpoch + 1 ELSE v.configEpoch[me]

\* CLUSTER FAILOVER TAKEOVER: a new epoch without a vote.
failoverTakeover(n) ==
    /\ Command(n, "takeover") /\ ~IsMaster(srv[n], n)
    /\ BumpedEpoch(srv[n], n) <= MaxEpoch
    /\ ReplaceYourMaster(n, BumpedEpoch(srv[n], n))
    /\ UNCHANGED <<votes, elected>>

\* CLUSTER BUMPEPOCH.
bumpepoch(n) ==
    /\ Command(n, "bumpepoch")
    /\ Install(n, Bumped(srv[n], n, BumpedEpoch(srv[n], n)), net)
    /\ UNCHANGED <<votes, elected, replaced>>

\* A crash and a restart from nodes.conf; the links, and what is under way on
\* them, are lost.
Restart(n) ==
    /\ n \in Restarting /\ spent.restarts < MaxRestarts
    /\ srv' = [srv EXCEPT ![n] = clusterLoadConfig(n, disk[n])]
    /\ net' = {msg \in net : n \notin {msg.to, msg.hdr.from}}
    /\ spent' = [spent EXCEPT !.restarts = @ + 1]
    /\ UNCHANGED <<disk, votes, elected, replaced>>

\* clusterUpdateState after CLUSTER_WRITABLE_DELAY.
WritableDelayPassed(n) ==
    /\ srv[n].rejoining
    /\ srv' = [srv EXCEPT ![n].rejoining = FALSE]
    /\ UNCHANGED <<disk, net, votes, elected, replaced, spent>>

-----------------------------------------------------------------------------
InitDisk ==
    [currentEpoch |-> Max({InitEpoch[m] : m \in Node}), lastVoteEpoch |-> 0,
     slaveof |-> InitSlaveof, configEpoch |-> InitEpoch, slots |-> InitSlots,
     flag |-> [m \in Node |-> IF m \in InitFailed THEN "fail" ELSE "ok"]]

\* The cluster is formed and every node knows the configuration.
Init ==
    /\ disk = [n \in Restarting |-> InitDisk]
    /\ srv = [n \in Node |-> [clusterLoadConfig(n, InitDisk) EXCEPT !.rejoining = FALSE]]
    /\ net = {} /\ votes = {} /\ elected = {} /\ replaced = <<1, 0>>
    /\ spent = [timeouts |-> 0, restarts |-> 0, commands |-> 0, delayed |-> 0]

Protocol(n) ==
    \/ \E m \in Node : ReceiveHeartbeat(n, m)
    \/ ReceiveDelayed(n) \/ ReceiveFail(n) \/ ReceiveUpdate(n)
    \/ clusterSendFailoverAuthIfNeeded(n) \/ ReceiveAck(n)
    \/ ElectionClock(n) \/ ScheduleElection(n) \/ RequestAuth(n) \/ WinElection(n)
    \/ manualFailoverCheckTimeout(n) \/ WritableDelayPassed(n) \/ ReportExpires(n)

Environment(n) ==
    \/ \E m \in Node : NodeTimeout(n, m) \/ DelayHeartbeat(n, m)
    \/ failoverForce(n) \/ failoverTakeover(n) \/ bumpepoch(n)
    \/ Restart(n)

Next == \E n \in Alive : Protocol(n) \/ Environment(n)

Spec == Init /\ [][Next]_vars

\* Every node keeps pinging every other one (clusterCron), and no link is
\* down for ever.
Fairness ==
    \A m, n \in Alive : WF_vars(ReceiveHeartbeat(n, m))

FairSpec == Spec /\ Fairness

-----------------------------------------------------------------------------
(* Properties.                                                             *)

Flag == {"ok", "pfail", "fail"}
Roles == [Node -> Node \cup {None}]
Epochs == [Node -> Nat]
Owners == [Slot -> Node \cup {None}]

\* server.cluster, nodes.conf and the packets.
Table ==
    [currentEpoch : Nat, lastVoteEpoch : Nat, slaveof : Roles, configEpoch : Epochs,
     slots : Owners, flag : [Node -> Flag], unclaiming : SUBSET Slot,
     reports : [Node -> SUBSET Node], masterhost : Node \cup {None}, mf : BOOLEAN,
     failover_auth_sent : BOOLEAN, failover_auth_count : Nat, failover_auth_epoch : Nat,
     old : BOOLEAN, about : Node \cup {None}, rejoining : BOOLEAN]

File ==
    [currentEpoch : Nat, lastVoteEpoch : Nat, slaveof : Roles, configEpoch : Epochs,
     slots : Owners, flag : [Node -> Flag]]

Header ==
    [from : Node, slaveof : Node \cup {None}, currentEpoch : Nat, configEpoch : Nat,
     slots : SUBSET Slot]

Packet(msg) ==
    /\ msg.to \in Node /\ msg.hdr \in Header
    /\ CASE msg.type = "ping"    -> msg.arg \in [Node -> Flag]
         [] msg.type = "fail"    -> msg.arg \in Node
         [] msg.type = "update"  -> msg.arg \in [about : Node, configEpoch : Nat, slots : SUBSET Slot]
         [] msg.type = "request" -> msg.arg \in BOOLEAN
         [] msg.type = "ack"     -> msg.arg = None
         [] OTHER -> FALSE

\* Every table, file and packet has its type.
TypeOK ==
    /\ srv \in [Node -> Table]
    /\ disk \in [Restarting -> File]
    /\ \A msg \in net : Packet(msg)
    /\ votes \subseteq Node \X Nat \X Node
    /\ elected \subseteq Node \X Nat
    /\ replaced \in Nat \X Nat
    /\ spent \in [timeouts : Nat, restarts : Nat, commands : Nat, delayed : Nat]

\* No two replicas win an election of the same epoch, whatever is lost,
\* delayed or restarted (clusterHandleSlaveFailover, and the one vote per
\* epoch that clusterSendFailoverAuthIfNeeded keeps in nodes.conf).
ElectionUnique ==
    \A w1, w2 \in elected : w1[2] = w2[2] => w1 = w2

\* A promotion is in an epoch newer than the one of the master it replaces, as
\* the promoted replica knows it, so the others will take its slots
\* (clusterFailoverReplaceYourMaster).
PromotionSupersedes == replaced[1] > replaced[2]

\* A voter grants one vote per epoch, restarts included (lastVoteEpoch).
OneVotePerEpoch ==
    \A x, y \in votes : x[1] = y[1] /\ x[2] = y[2] => x = y

\* A replica owns no slot in its own table (the assertion of
\* clusterSetMaster).
ReplicaOwnsNothing ==
    \A n \in Node : ~IsMaster(srv[n], n) => SlotsOf(srv[n], n) = {}

\* Once commands, elections and failures are over, all the tables agree on who
\* serves each slot, whatever was taken over by whom
\* (clusterUpdateSlotsConfigWith, clusterHandleConfigEpochCollision).
Converges ==
    <>[](\A m, n \in Alive : srv[m].slots = srv[n].slots)

=============================================================================
