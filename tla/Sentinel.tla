------------------------------ MODULE Sentinel ------------------------------
(***************************************************************************)
(* Redis Sentinel (sentinel.c): a group of sentinels watches one master    *)
(* and its replicas, agrees that the master is down, elects the sentinel   *)
(* that will fail it over, promotes a replica, and spreads the new         *)
(* configuration until every sentinel and every Redis follows it.          *)
(*                                                                         *)
(* current_epoch, leader and leader_epoch of a sentinel are variables of   *)
(* their own; mon[s] holds the other fields of the sentinelRedisInstance   *)
(* of the monitored master, peer[s][o] what s keeps about sentinel o,      *)
(* reconf[s][r] the SRI_RECONF_* flags of replica r, conf[s] what          *)
(* sentinelFlushConfig last wrote.  An action is one reply or message      *)
(* processed, or one run of the timer for the monitored master.            *)
(*                                                                         *)
(* Every sentinel knows the others and every Redis from the start:         *)
(* discovery, SENTINEL RESET / MONITOR / REMOVE / SET and the scripts are  *)
(* not modelled.  parallel-syncs has its default, 1; with it the timeout   *)
(* of a replica in RECONF_SENT is never looked at.                         *)
(***************************************************************************)
EXTENDS Integers, FiniteSets

CONSTANTS
    Sentinel,         \* the sentinels, known by their runid
    Redis,            \* the addresses of the monitored master and replicas
    Nobody,           \* no leader, no promoted replica, SLAVEOF NO ONE
    Master0,          \* the master at the start
    Quorum,           \* master->quorum
    Tilted,           \* sentinels in TILT mode: they answer, vote and listen, but do not act
    Lossy,            \* pairs <<s, o>> such that o's replies to s may get lost
    Suspicious,       \* sentinels that may lose the link to a working master
    Operated,         \* sentinels that may be sent SENTINEL FAILOVER
    Restarting,       \* sentinels that may crash and restart
    Crashing,         \* Redis instances that may crash
    Recovering,       \* Redis instances that may start again
    Timely,           \* hellos arrive within the time the code waits for them
    Overlapping,      \* a failover delay may end during a failover of another
    MaxEpoch,         \* bound on current_epoch
    MaxRestarts,      \* bound on restarts of sentinels
    MaxIncidents      \* bound on crashes of Redis instances and SENTINEL FAILOVERs

ASSUME SentinelAssumption ==
    /\ IsFiniteSet(Sentinel) /\ Nobody \notin Sentinel \cup Redis
    /\ Master0 \in Redis /\ Quorum \in Nat \ {0}
    /\ Lossy \subseteq Sentinel \X Sentinel /\ Tilted \cup Suspicious \cup Operated \cup Restarting \subseteq Sentinel
    /\ Crashing \cup Recovering \subseteq Redis /\ {Timely, Overlapping} \subseteq BOOLEAN
    /\ {MaxEpoch, MaxRestarts, MaxIncidents} \subseteq Nat

VARIABLES
    current_epoch,  \* [Sentinel -> Nat]
    leader,         \* [Sentinel -> the sentinel it voted for, or Nobody]
    leader_epoch,   \* [Sentinel -> the epoch of that vote]
    mon,            \* [Sentinel -> the monitored master]
    peer,           \* [Sentinel -> [Sentinel -> the other sentinel]]
    reconf,         \* [Sentinel -> [Redis -> the SRI_RECONF_ flags]]
    conf,           \* [Sentinel -> the configuration file]
    ask,            \* [Sentinel -> the is-master-down-by-addr it sends to the others]
    cmd,            \* [Sentinel -> [Redis -> the pending SLAVEOF, or "none"]]
    redis,          \* [Redis -> is it up, and the master it replicates from]
    votes,          \* history: <<voter, epoch, candidate>>
    elected,        \* history: <<sentinel, failover_epoch, current_epoch>> of each majority
    spent           \* the budgets used

vars == <<current_epoch, leader, leader_epoch, mon, peer, reconf, conf, ask, cmd,
          redis, votes, elected, spent>>

Peers(s) == Sentinel \ {s}
Slaves(m) == Redis \ {m.addr}

\* No request is-master-down-by-addr; nothing known of another sentinel.
Idle == [type |-> "idle"]
NoInfo == [down |-> FALSE, leader |-> Nobody, epoch |-> 0]

Init ==
    /\ current_epoch = [s \in Sentinel |-> 0]
    /\ leader = [s \in Sentinel |-> Nobody]
    /\ leader_epoch = [s \in Sentinel |-> 0]
    /\ mon = [s \in Sentinel |->
                [addr |-> Master0, config_epoch |-> 0, role_reported |-> "master",
                 sdown |-> FALSE, state |-> "none", failover_epoch |-> 0,
                 force |-> FALSE, promoted |-> Nobody, recent |-> FALSE]]
    /\ peer = [s \in Sentinel |-> [o \in Sentinel |-> NoInfo]]
    /\ reconf = [s \in Sentinel |-> [r \in Redis |-> "no"]]
    /\ conf = [s \in Sentinel |-> [addr |-> Master0, config_epoch |-> 0,
                                   current_epoch |-> 0, leader_epoch |-> 0]]
    /\ ask = [s \in Sentinel |-> Idle]
    /\ cmd = [s \in Sentinel |-> [r \in Redis |-> "none"]]
    /\ redis = [r \in Redis |-> [up |-> TRUE, master |-> IF r = Master0 THEN Nobody ELSE Master0]]
    /\ votes = {} /\ elected = {}
    /\ spent = [restarts |-> 0, incidents |-> 0]

-----------------------------------------------------------------------------
(* The monitored master, m, of one sentinel.                               *)

InProgress(m) == m.state # "none"

\* Faulty variant: the promoted replica is not announced.
OldAddr(m) == m.addr

\* sentinelGetCurrentMasterAddress: the promoted replica once it is a master.
CurrentAddr(m) == IF m.state = "reconf_slaves" THEN m.promoted ELSE m.addr

\* The master is not SDOWN; ODOWN implies SDOWN and is computed anew by each timer.
MasterLooksSane(m) == m.role_reported = "master" /\ ~m.sdown

\* Faulty variant: the leader epoch is not saved.
FlushedWithoutVote(m, epoch, lepoch) ==
    [addr |-> CurrentAddr(m), config_epoch |-> m.config_epoch,
     current_epoch |-> epoch, leader_epoch |-> 0]

\* sentinelFlushConfig: what of the state a restart finds again.
Flushed(m, epoch, lepoch) ==
    [addr |-> CurrentAddr(m), config_epoch |-> m.config_epoch,
     current_epoch |-> epoch, leader_epoch |-> lepoch]

\* sentinelResetMasterAndChangeAddress.  leader is reset by the caller, the
\* leader epoch and what is known of the other sentinels stay.
ResetTo(m, addr) ==
    [m EXCEPT !.addr = addr, !.role_reported = "master", !.sdown = FALSE,
              !.state = "none", !.failover_epoch = 0, !.force = FALSE, !.promoted = Nobody,
              !.recent = FALSE]

\* failover_epoch is not used outside a failover: 0 stands for any old value.
AbortFailover(m) ==
    [m EXCEPT !.state = "none", !.failover_epoch = 0, !.force = FALSE, !.promoted = Nobody]

StartFailover(m, epoch) ==
    [m EXCEPT !.state = "wait_start", !.failover_epoch = epoch, !.recent = TRUE]

\* sentinelCheckSubjectivelyDown: the master does not answer, or says it is a
\* replica; a working one is down for those whose link fails.
SubjectivelyDown(s) ==
    IF ~redis[mon[s].addr].up \/ mon[s].role_reported = "slave" THEN {TRUE}
    ELSE IF s \in Suspicious THEN BOOLEAN ELSE {FALSE}

\* sentinelCheckObjectivelyDown.
ObjectivelyDown(s, sdown) ==
    sdown /\ 1 + Cardinality({o \in Peers(s) : peer[s][o].down}) >= Quorum

\* sentinelStartFailoverIfNeeded.
StartNeeded(s, sdown) ==
    /\ ObjectivelyDown(s, sdown) /\ ~InProgress(mon[s])
    /\ ~mon[s].recent /\ current_epoch[s] < MaxEpoch

\* The first half of sentinelHandleRedisInstance for the master: the pairs of
\* its state and the current epoch the failover state machine starts from.
Monitored(s) ==
    {LET m == [mon[s] EXCEPT !.sdown = sdown]
     IN  IF StartNeeded(s, sdown)
         THEN [m |-> StartFailover(m, current_epoch[s] + 1), epoch |-> current_epoch[s] + 1]
         ELSE [m |-> m, epoch |-> current_epoch[s]] : sdown \in SubjectivelyDown(s)}

\* sentinelAskMasterStateToOtherSentinels, the end of each timer run: the
\* answers of a time when the master was down are forgotten, and the others are
\* asked again, for their vote too if a failover is under way.
AskOthers(s, m, epoch) ==
    /\ \/ UNCHANGED peer
       \/ ~m.sdown /\ peer' = [peer EXCEPT ![s] = [o \in Sentinel |-> NoInfo]]
    /\ ask' = [ask EXCEPT ![s] =
                 IF m.sdown THEN [type |-> "request", addr |-> m.addr, epoch |-> epoch,
                                  runid |-> IF InProgress(m) THEN s ELSE Nobody]
                 ELSE Idle]

Send(s, r, target) == cmd[s][r] = "none" /\ cmd' = [cmd EXCEPT ![s][r] = target]

-----------------------------------------------------------------------------
(* Votes.                                                                  *)

\* Faulty variant: a second vote in the epoch of the first.
GrantsAgain(epoch, lepoch, e) == lepoch <= e /\ epoch <= e

\* sentinelVoteLeader(master, e, c): the vote is given.
Grants(epoch, lepoch, e) == lepoch < e /\ epoch <= e

\* sentinelVoteLeader by s, whose current epoch is now epoch and whose monitored
\* master is m.  What changed is on disk before a reply or a request leaves.
VoteLeader(s, m, epoch, e, c) ==
    LET grant == Grants(epoch, leader_epoch[s], e)
        bumped == IF e > epoch THEN e ELSE epoch
    IN  /\ current_epoch' = [current_epoch EXCEPT ![s] = bumped]
        /\ leader' = [leader EXCEPT ![s] = IF grant THEN c ELSE leader[s]]
        /\ leader_epoch' = [leader_epoch EXCEPT ![s] = IF grant THEN e ELSE leader_epoch[s]]
        /\ votes' = IF grant THEN votes \cup {<<s, e, c>>} ELSE votes
        /\ conf' = IF grant \/ e > epoch
                   THEN [conf EXCEPT ![s] = Flushed(m, bumped, IF grant THEN e ELSE leader_epoch[s])]
                   ELSE conf

\* The other sentinels whose last reply is a vote for c in the current epoch.
Support(s, epoch, c) == {o \in Peers(s) : peer[s][o].leader = c /\ peer[s][o].epoch = epoch}

\* The candidates with the most votes so far; s itself if there is no vote.
Winners(s, epoch) ==
    LET voted == {c \in Sentinel : Support(s, epoch, c) # {}}
    IN  IF voted = {} THEN {s}
        ELSE {c \in voted : \A d \in voted :
                Cardinality(Support(s, epoch, d)) <= Cardinality(Support(s, epoch, c))}

\* sentinelGetLeader(master, e) after s voted: s is the winner.  With more than
\* half of the votes no other sentinel has as many, however ties were broken.
IsLeader(s, epoch, e) ==
    LET mine == IF leader'[s] = s /\ leader_epoch'[s] = e THEN {s} ELSE {}
        n == Cardinality(Support(s, epoch, s) \cup mine)
    IN  n >= (Cardinality(Sentinel) \div 2) + 1 /\ n >= Quorum

-----------------------------------------------------------------------------
(* The timer: one action for each state of the failover state machine.     *)

\* No failover in progress.
Watch(s) ==
    \E x \in Monitored(s) :
        /\ ~InProgress(x.m)
        /\ mon' = [mon EXCEPT ![s] = x.m]
        /\ AskOthers(s, x.m, x.epoch)
        /\ UNCHANGED <<current_epoch, leader, leader_epoch, reconf, conf, cmd, redis,
                       votes, elected, spent>>

\* sentinelFailoverWaitStart: vote for the sentinel that has most votes, count,
\* and go on as the leader; give up after the election timeout.
FailoverWaitStart(s, timedOut) ==
    \E x \in Monitored(s) :
        /\ x.m.state = "wait_start"
        /\ \E c \in Winners(s, x.epoch) : VoteLeader(s, x.m, x.epoch, x.m.failover_epoch, c)
        /\ \E won \in {IsLeader(s, x.epoch, x.m.failover_epoch)} :
           \E m \in {IF won \/ x.m.force THEN [x.m EXCEPT !.state = "select_slave"]
                     ELSE IF timedOut THEN AbortFailover(x.m) ELSE x.m} :
              /\ mon' = [mon EXCEPT ![s] = m]
              /\ AskOthers(s, m, x.epoch)
              /\ elected' = IF won THEN elected \cup {<<s, m.failover_epoch, x.epoch>>} ELSE elected
        /\ UNCHANGED <<reconf, cmd, redis, spent>>

\* sentinelFailoverSelectSlave: the best of the replicas that answer, which by
\* priority, offset and runid may be any of them; none does: give up.
FailoverSelectSlave(s) ==
    \E x \in Monitored(s) :
        /\ x.m.state = "select_slave"
        /\ \E m \in LET up == {r \in Slaves(x.m) : redis[r].up}
                    IN  IF up = {} THEN {AbortFailover(x.m)}
                        ELSE {[x.m EXCEPT !.state = "send_slaveof_noone", !.promoted = r] : r \in up} :
              /\ mon' = [mon EXCEPT ![s] = m]
              /\ AskOthers(s, m, x.epoch)
        /\ UNCHANGED <<current_epoch, leader, leader_epoch, reconf, conf, cmd, redis,
                       votes, elected, spent>>

\* sentinelFailoverSendSlaveOfNoOne: retried while the replica is disconnected,
\* until the failover times out.
FailoverSendSlaveOfNoOne(s) ==
    \E x \in Monitored(s) :
        /\ x.m.state = "send_slaveof_noone"
        /\ \E m \in {IF redis[x.m.promoted].up THEN [x.m EXCEPT !.state = "wait_promotion"]
                     ELSE AbortFailover(x.m)} :
              /\ mon' = [mon EXCEPT ![s] = m]
              /\ AskOthers(s, m, x.epoch)
        /\ IF redis[x.m.promoted].up THEN Send(s, x.m.promoted, Nobody) ELSE UNCHANGED cmd
        /\ UNCHANGED <<current_epoch, leader, leader_epoch, reconf, conf, redis,
                       votes, elected, spent>>

\* sentinelFailoverWaitPromotion handles the timeout only.
FailoverWaitPromotion(s, timedOut) ==
    \E x \in Monitored(s) :
        /\ x.m.state = "wait_promotion"
        /\ \E m \in {IF timedOut THEN AbortFailover(x.m) ELSE x.m} :
              /\ mon' = [mon EXCEPT ![s] = m]
              /\ AskOthers(s, m, x.epoch)
        /\ UNCHANGED <<current_epoch, leader, leader_epoch, reconf, conf, cmd, redis,
                       votes, elected, spent>>

\* The replicas that still follow no new master, of those that can be reached.
Unconfigured(s, m) ==
    {r \in Slaves(m) \ {m.promoted} : reconf[s][r] # "done" /\ redis[r].up}

\* What the state reconf_slaves writes: SLAVEOF to the replicas of sent, unless one
\* is on its way, and the promoted replica as the monitored master once the
\* failover is over.
Reconfigure(s, x, over, sent) ==
    \E m \in {IF over THEN ResetTo(x.m, x.m.promoted) ELSE x.m} :
        /\ cmd' = [cmd EXCEPT ![s] = [r \in Redis |->
                     IF r \in sent /\ cmd[s][r] = "none" THEN x.m.promoted ELSE cmd[s][r]]]
        /\ reconf' = [reconf EXCEPT ![s] = [r \in Redis |->
                        IF over THEN "no" ELSE IF r \in sent THEN "sent" ELSE reconf[s][r]]]
        /\ mon' = [mon EXCEPT ![s] = m]
        /\ leader' = [leader EXCEPT ![s] = IF over THEN Nobody ELSE leader[s]]
        /\ conf' = IF over THEN [conf EXCEPT ![s] = Flushed(m, x.epoch, leader_epoch[s])]
                   ELSE conf
        /\ AskOthers(s, x.m, x.epoch)

\* sentinelFailoverReconfNextSlave: one replica at a time is told to follow the
\* promoted one.  Then sentinelFailoverDetectEnd: once every reachable replica
\* is done, or after the failover timeout with a last SLAVEOF to the rest,
\* sentinelFailoverSwitchToPromotedSlave ends the failover.
FailoverReconfSlaves(s, timedOut) ==
    \E x \in Monitored(s) :
        /\ x.m.state = "reconf_slaves"
        /\ \E busy \in {\E r \in Slaves(x.m) : reconf[s][r] \in {"sent", "inprog"}} :
           \E next \in LET todo == {r \in Unconfigured(s, x.m) : reconf[s][r] = "no"}
                       IN  IF busy \/ todo = {} THEN {{}} ELSE {{r} : r \in todo} :
           \E over \in {/\ redis[x.m.promoted].up
                        /\ timedOut \/ Unconfigured(s, x.m) = {}} :
           \E sent \in {IF over /\ timedOut
                        THEN {r \in Unconfigured(s, x.m) : reconf[s][r] # "sent"} \cup next
                        ELSE next} :
              Reconfigure(s, x, over, sent)
        /\ UNCHANGED <<current_epoch, leader_epoch, redis, votes, elected, spent>>

-----------------------------------------------------------------------------
(* Replies and messages.                                                   *)

\* The is-master-down-by-addr of s is executed by o: the down state of the master
\* at that address, and o's vote if s seeks it.  sentinelReceiveIsMasterDownReply
\* takes note of the reply, which changes nothing else; if it does not arrive, a
\* later request will get the same vote.
IsMasterDownByAddr(s, o, arrives) ==
    LET q == ask[s]
        known == q.addr = mon[o].addr
        voting == known /\ q.runid # Nobody
        down == known /\ mon[o].sdown
    IN  /\ q # Idle /\ (arrives \/ <<s, o>> \in Lossy)
        /\ IF voting
           THEN /\ VoteLeader(o, mon[o], current_epoch[o], q.epoch, q.runid)
                /\ mon' = [mon EXCEPT ![o].recent = @ \/ Grants(current_epoch[o], leader_epoch[o], q.epoch)]
           ELSE UNCHANGED <<current_epoch, leader, leader_epoch, votes, conf, mon>>
        /\ peer' = IF ~arrives THEN peer
                   ELSE [peer EXCEPT ![s][o] =
                           IF voting /\ leader'[o] # Nobody
                           THEN [down |-> down, leader |-> leader'[o], epoch |-> leader_epoch'[o]]
                           ELSE [@ EXCEPT !.down = down]]
        /\ UNCHANGED <<reconf, ask, cmd, redis, elected, spent>>

\* Faulty variant: the configuration is compared with the current epoch, just updated.
ProcessHelloLate(s, o) ==
    LET epoch == IF current_epoch[s] > current_epoch[o] THEN current_epoch[s] ELSE current_epoch[o]
        newer == mon[s].config_epoch > epoch
        addr == CurrentAddr(mon[s])
        switch == newer /\ addr # mon[o].addr
        m0 == IF newer THEN [mon[o] EXCEPT !.config_epoch = mon[s].config_epoch] ELSE mon[o]
        m == IF switch THEN ResetTo(m0, addr) ELSE m0
    IN  /\ current_epoch' = [current_epoch EXCEPT ![o] = epoch]
        /\ mon' = [mon EXCEPT ![o] = m]
        /\ leader' = IF switch THEN [leader EXCEPT ![o] = Nobody] ELSE leader
        /\ reconf' = IF switch THEN [reconf EXCEPT ![o] = [r \in Redis |-> "no"]] ELSE reconf
        /\ conf' = IF switch THEN [conf EXCEPT ![o] = Flushed(m, epoch, leader_epoch[o])]
                   ELSE IF epoch # current_epoch[o]
                   THEN [conf EXCEPT ![o] = Flushed(mon[o], epoch, leader_epoch[o])]
                   ELSE conf
        /\ UNCHANGED <<leader_epoch, peer, ask, cmd, redis, votes, elected, spent>>

\* sentinelProcessHelloMessage: o gets the hello s published, by way of a Redis
\* instance or sent to it directly.  A newer configuration for the address o has
\* already is taken over without saving it.
ProcessHello(s, o) ==
    LET epoch == IF current_epoch[s] > current_epoch[o] THEN current_epoch[s] ELSE current_epoch[o]
        newer == mon[s].config_epoch > mon[o].config_epoch
        addr == CurrentAddr(mon[s])
        switch == newer /\ addr # mon[o].addr
        m0 == IF newer THEN [mon[o] EXCEPT !.config_epoch = mon[s].config_epoch] ELSE mon[o]
        m == IF switch THEN ResetTo(m0, addr) ELSE m0
    IN  /\ current_epoch' = [current_epoch EXCEPT ![o] = epoch]
        /\ mon' = [mon EXCEPT ![o] = m]
        /\ leader' = IF switch THEN [leader EXCEPT ![o] = Nobody] ELSE leader
        /\ reconf' = IF switch THEN [reconf EXCEPT ![o] = [r \in Redis |-> "no"]] ELSE reconf
        /\ conf' = IF switch THEN [conf EXCEPT ![o] = Flushed(m, epoch, leader_epoch[o])]
                   ELSE IF epoch # current_epoch[o]
                   THEN [conf EXCEPT ![o] = Flushed(mon[o], epoch, leader_epoch[o])]
                   ELSE conf
        /\ UNCHANGED <<leader_epoch, peer, ask, cmd, redis, votes, elected, spent>>

\* The times the code waits before it corrects a replica: hellos with a newer
\* configuration, and the INFO the leader of a failover waits for, come first.
Waited(s, r) ==
    Timely => \A o \in Sentinel :
                 /\ mon[o].config_epoch <= mon[s].config_epoch
                 /\ ~(mon[o].state = "wait_promotion" /\ mon[o].promoted = r)

\* sentinelRefreshInstanceInfo for the INFO of the master.
RefreshMaster(s) ==
    LET r == mon[s].addr
    IN  /\ redis[r].up
        /\ mon' = [mon EXCEPT ![s].role_reported =
                     IF redis[r].master = Nobody THEN "master" ELSE "slave"]
        /\ UNCHANGED <<current_epoch, leader, leader_epoch, peer, reconf, conf, ask, cmd, redis,
                       votes, elected, spent>>

\* The INFO of the promoted replica: it is a master now.
RefreshPromoted(s) ==
    LET r == mon[s].promoted
        m == [mon[s] EXCEPT !.config_epoch = mon[s].failover_epoch, !.state = "reconf_slaves"]
    IN  /\ s \notin Tilted /\ mon[s].state = "wait_promotion"
        /\ redis[r].up /\ redis[r].master = Nobody
        /\ mon' = [mon EXCEPT ![s] = m]
        /\ conf' = [conf EXCEPT ![s] = Flushed(m, current_epoch[s], leader_epoch[s])]
        /\ UNCHANGED <<current_epoch, leader, leader_epoch, peer, reconf, ask, cmd, redis,
                       votes, elected, spent>>

\* The INFO of another replica: one that is a master (+convert-to-slave) or that
\* follows another master (+fix-slave-config) is told to follow the master.
RefreshStray(s, r) ==
    /\ s \notin Tilted /\ r \in Slaves(mon[s]) /\ redis[r].up
    /\ redis[r].master = Nobody => r # mon[s].promoted
    /\ redis[r].master # mon[s].addr
    /\ mon[s].state = "reconf_slaves" => redis[r].master = Nobody
    /\ MasterLooksSane(mon[s]) /\ Waited(s, r)
    /\ Send(s, r, mon[s].addr)
    /\ UNCHANGED <<current_epoch, leader, leader_epoch, mon, peer, reconf, conf, ask, redis,
                   votes, elected, spent>>

\* The INFO of a replica that is being reconfigured: it follows the promoted
\* one, and perhaps it is in sync with it already.
RefreshReconf(s, r) ==
    /\ s \notin Tilted /\ reconf[s][r] \in {"sent", "inprog"} /\ redis[r].up /\ redis[r].master # Nobody
    /\ \E inprog \in {reconf[s][r] = "inprog" \/ redis[r].master = mon[s].promoted} :
       \E synced \in {FALSE, redis[redis[r].master].up} :
          /\ inprog
          /\ reconf' = [reconf EXCEPT ![s][r] = IF synced THEN "done" ELSE "inprog"]
    /\ UNCHANGED <<current_epoch, leader, leader_epoch, mon, peer, conf, ask, cmd, redis,
                   votes, elected, spent>>

-----------------------------------------------------------------------------
(* The operator, time, and the faults.                                     *)

\* SENTINEL FAILOVER: no agreement is asked for, the epoch is saved later.
FailoverCommand(s) ==
    /\ s \in Operated /\ spent.incidents < MaxIncidents
    /\ ~InProgress(mon[s]) /\ current_epoch[s] < MaxEpoch
    /\ \E r \in Slaves(mon[s]) : redis[r].up
    /\ current_epoch' = [current_epoch EXCEPT ![s] = @ + 1]
    /\ mon' = [mon EXCEPT ![s] = [StartFailover(@, current_epoch[s] + 1) EXCEPT !.force = TRUE]]
    /\ spent' = [spent EXCEPT !.incidents = @ + 1]
    /\ UNCHANGED <<leader, leader_epoch, peer, reconf, conf, ask, cmd, redis, votes, elected>>

\* Twice the failover timeout has passed since s started a failover or voted
\* for another sentinel.
DelayOver(s) ==
    /\ mon[s].recent /\ ~InProgress(mon[s])
    /\ Overlapping \/ \A o \in Sentinel : ~InProgress(mon[o])
    /\ mon' = [mon EXCEPT ![s].recent = FALSE]
    /\ UNCHANGED <<current_epoch, leader, leader_epoch, peer, reconf, conf, ask, cmd, redis,
                   votes, elected, spent>>

\* A Redis instance executes the SLAVEOF of s, and rewrites its configuration.
SlaveOf(s, r) ==
    /\ cmd[s][r] # "none" /\ redis[r].up
    /\ redis' = [redis EXCEPT ![r].master = cmd[s][r]]
    /\ cmd' = [cmd EXCEPT ![s][r] = "none"]
    /\ UNCHANGED <<current_epoch, leader, leader_epoch, mon, peer, reconf, conf, ask,
                   votes, elected, spent>>

\* The commands on their way to a Redis instance are lost with it.
Crash(r) ==
    /\ r \in Crashing /\ redis[r].up /\ spent.incidents < MaxIncidents
    /\ redis' = [redis EXCEPT ![r].up = FALSE]
    /\ cmd' = [s \in Sentinel |-> [cmd[s] EXCEPT ![r] = "none"]]
    /\ spent' = [spent EXCEPT !.incidents = @ + 1]
    /\ UNCHANGED <<current_epoch, leader, leader_epoch, mon, peer, reconf, conf, ask, votes, elected>>

Recover(r) ==
    /\ r \in Recovering /\ ~redis[r].up
    /\ redis' = [redis EXCEPT ![r].up = TRUE]
    /\ UNCHANGED <<current_epoch, leader, leader_epoch, mon, peer, reconf, conf, ask, cmd,
                   votes, elected, spent>>

\* A sentinel crashes and starts again from its configuration file
\* (sentinelHandleConfiguration).  Its links break; the SLAVEOF commands that
\* left already still arrive.
Restart(s) ==
    /\ s \in Restarting /\ spent.restarts < MaxRestarts
    /\ current_epoch' = [current_epoch EXCEPT ![s] =
                           IF conf[s].config_epoch > conf[s].current_epoch
                           THEN conf[s].config_epoch ELSE conf[s].current_epoch]
    /\ leader' = [leader EXCEPT ![s] = Nobody]
    /\ leader_epoch' = [leader_epoch EXCEPT ![s] = conf[s].leader_epoch]
    /\ mon' = [mon EXCEPT ![s] = [ResetTo(mon[s], conf[s].addr) EXCEPT
                                    !.config_epoch = conf[s].config_epoch]]
    /\ peer' = [peer EXCEPT ![s] = [o \in Sentinel |-> NoInfo]]
    /\ reconf' = [reconf EXCEPT ![s] = [r \in Redis |-> "no"]]
    /\ ask' = [ask EXCEPT ![s] = Idle]
    /\ spent' = [spent EXCEPT !.restarts = @ + 1]
    /\ UNCHANGED <<conf, cmd, redis, votes, elected>>

-----------------------------------------------------------------------------

\* In TILT mode the acting half of the timer is skipped, and so is that of
\* sentinelRefreshInstanceInfo.
Timer(s) ==
    /\ s \notin Tilted
    /\ \/ Watch(s)
       \/ \E timedOut \in BOOLEAN : \/ FailoverWaitStart(s, timedOut)
                                    \/ FailoverWaitPromotion(s, timedOut)
                                    \/ FailoverReconfSlaves(s, timedOut)
       \/ FailoverSelectSlave(s)
       \/ FailoverSendSlaveOfNoOne(s)

Next ==
    \E s \in Sentinel :
        \/ Timer(s)
        \/ \E o \in Peers(s) : \/ \E arrives \in BOOLEAN : IsMasterDownByAddr(s, o, arrives)
                               \/ ProcessHello(s, o)
        \/ RefreshMaster(s)
        \/ RefreshPromoted(s)
        \/ \E r \in Redis : RefreshStray(s, r) \/ RefreshReconf(s, r) \/ SlaveOf(s, r)
                            \/ Crash(r) \/ Recover(r)
        \/ FailoverCommand(s)
        \/ DelayOver(s)
        \/ Restart(s)

\* The timer of s finds that its failover takes too long.
TimeOut(s) ==
    /\ s \notin Tilted
    /\ FailoverWaitStart(s, TRUE) \/ FailoverWaitPromotion(s, TRUE) \/ FailoverReconfSlaves(s, TRUE)

\* The event loops run, the network delivers, and time passes: a timeout that
\* keeps being due occurs.
Fairness ==
    /\ \A s \in Sentinel :
        /\ WF_vars(Timer(s)) /\ WF_vars(TimeOut(s))
        /\ WF_vars(RefreshMaster(s)) /\ WF_vars(RefreshPromoted(s)) /\ WF_vars(DelayOver(s))
        /\ \A o \in Peers(s) : /\ WF_vars(IsMasterDownByAddr(s, o, TRUE))
                               /\ WF_vars(ProcessHello(s, o))
        /\ \A r \in Redis : WF_vars(RefreshStray(s, r)) /\ WF_vars(SlaveOf(s, r))

Spec == Init /\ [][Next]_vars

FairSpec == Spec /\ Fairness

-----------------------------------------------------------------------------
(* Properties.                                                             *)

States == {"none", "wait_start", "select_slave", "send_slaveof_noone", "wait_promotion",
           "reconf_slaves"}

MasterRecord ==
    [addr : Redis, config_epoch : Nat, role_reported : {"master", "slave"}, sdown : BOOLEAN,
     state : States, failover_epoch : Nat, force : BOOLEAN, promoted : Redis \cup {Nobody},
     recent : BOOLEAN]

PeerRecord == [down : BOOLEAN, leader : Sentinel \cup {Nobody}, epoch : Nat]

ConfigFile == [addr : Redis, config_epoch : Nat, current_epoch : Nat, leader_epoch : Nat]

Request == [type : {"request"}, addr : Redis, epoch : Nat, runid : Sentinel \cup {Nobody}]

\* A failover past the selection of a replica has one.
HasPromoted(m) ==
    m.state \in {"send_slaveof_noone", "wait_promotion", "reconf_slaves"} => m.promoted \in Redis

\* Every variable has its type, and no step of a failover loses the replica that
\* sentinelFailoverSelectSlave has chosen.
TypeOK ==
    /\ current_epoch \in [Sentinel -> Nat]
    /\ leader \in [Sentinel -> Sentinel \cup {Nobody}]
    /\ leader_epoch \in [Sentinel -> Nat]
    /\ mon \in [Sentinel -> MasterRecord]
    /\ \A s \in Sentinel : HasPromoted(mon[s])
    /\ peer \in [Sentinel -> [Sentinel -> PeerRecord]]
    /\ reconf \in [Sentinel -> [Redis -> {"no", "sent", "inprog", "done"}]]
    /\ conf \in [Sentinel -> ConfigFile]
    /\ ask \in [Sentinel -> Request \cup {Idle}]
    /\ cmd \in [Sentinel -> [Redis -> Redis \cup {Nobody, "none"}]]
    /\ redis \in [Redis -> [up : BOOLEAN, master : Redis \cup {Nobody}]]
    /\ votes \subseteq Sentinel \X Nat \X Sentinel
    /\ elected \subseteq Sentinel \X Nat \X Nat
    /\ spent \in [restarts : Nat, incidents : Nat]

\* "Each Sentinel can vote just one time per epoch" (is-master-down-by-addr):
\* neither a restart, nor a reset of the monitored master, nor its own election
\* makes a sentinel vote for two candidates in one epoch.
OneVotePerEpoch ==
    \A v, w \in votes : v[1] = w[1] /\ v[2] = w[2] => v[3] = w[3]

\* sentinelGetLeader counts the votes of the current epoch.  Two sentinels that
\* won a majority while that was still the epoch of their failover are one.
LeaderUnique ==
    \A x, y \in elected : x[2] = x[3] /\ y[2] = y[3] /\ x[2] = y[2] => x[1] = y[1]

\* The configuration epoch names the configuration: sentinels that have the same
\* one agree on the address of the master, so that hellos can never leave two
\* of them with different masters for good.
ConfigAgrees ==
    \A s, o \in Sentinel :
        mon[s].config_epoch = mon[o].config_epoch => CurrentAddr(mon[s]) = CurrentAddr(mon[o])

\* One master: every sentinel monitors it, it is a master if it is up, and every
\* other Redis instance that is up replicates from it.
Settled ==
    \E a \in Redis :
        /\ \A s \in Sentinel : mon[s].addr = a /\ ~InProgress(mon[s])
        /\ redis[a].up /\ redis[a].master = Nobody
        /\ \A r \in Redis \ {a} : redis[r].up => redis[r].master = a

\* The bound on the epochs keeps a sentinel from starting a failover.
OutOfEpochs ==
    \E s \in Sentinel : /\ ObjectivelyDown(s, mon[s].sdown) /\ ~InProgress(mon[s])
                        /\ ~mon[s].recent /\ current_epoch[s] = MaxEpoch

\* The failover completes: whatever the crashes, timeouts and lost elections,
\* in the end there is one master that works and that all follow.
Converges == <>[]Settled \/ <>OutOfEpochs

=============================================================================
