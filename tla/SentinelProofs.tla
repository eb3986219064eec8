--------------------------- MODULE SentinelProofs ---------------------------
(***************************************************************************)
(* Proofs about Sentinel, for any number of sentinels and Redis instances, *)
(* any quorum and any faults: type correctness, one vote per epoch, and    *)
(* one leader per epoch among those elected in the epoch of their failover.*)
(***************************************************************************)
EXTENDS Sentinel, FiniteSetTheorems, TLAPS

-----------------------------------------------------------------------------
(* The operators on the monitored master.                                  *)

\* sentinelResetMasterAndChangeAddress leaves a well-formed record without a failover.
LEMMA ResetToType ==
    ASSUME NEW m \in MasterRecord, NEW a \in Redis
    PROVE  ResetTo(m, a) \in MasterRecord /\ HasPromoted(ResetTo(m, a))
BY Zenon DEF ResetTo, MasterRecord, States, HasPromoted

\* So does sentinelAbortFailover.
LEMMA AbortType ==
    ASSUME NEW m \in MasterRecord
    PROVE  AbortFailover(m) \in MasterRecord /\ HasPromoted(AbortFailover(m))
BY Zenon DEF AbortFailover, MasterRecord, States, HasPromoted

\* sentinelStartFailover: wait_start needs no promoted replica.
LEMMA StartType ==
    ASSUME NEW m \in MasterRecord, NEW e \in Nat
    PROVE  StartFailover(m, e) \in MasterRecord /\ HasPromoted(StartFailover(m, e))
BY Zenon DEF StartFailover, MasterRecord, States, HasPromoted

\* The address a sentinel announces and saves is one of a Redis instance.
LEMMA FlushedType ==
    ASSUME NEW m \in MasterRecord, HasPromoted(m), NEW e \in Nat, NEW l \in Nat
    PROVE  /\ CurrentAddr(m) \in Redis
           /\ Flushed(m, e, l) \in ConfigFile
           /\ Flushed(m, e, l).leader_epoch = l
BY Zenon DEF Flushed, CurrentAddr, ConfigFile, MasterRecord, HasPromoted

\* The first half of the timer keeps the record well formed.
LEMMA MonitoredType ==
    ASSUME TypeOK, NEW s \in Sentinel, NEW x \in Monitored(s)
    PROVE  /\ x.m \in MasterRecord /\ HasPromoted(x.m)
           /\ x.epoch \in Nat
<1> DEFINE m(d) == [mon[s] EXCEPT !.sdown = d]
<1>1. mon[s] \in MasterRecord /\ HasPromoted(mon[s]) /\ current_epoch[s] \in Nat
  BY Zenon DEF TypeOK
<1>2. PICK d \in SubjectivelyDown(s) :
        x = IF StartNeeded(s, d)
            THEN [m |-> StartFailover(m(d), current_epoch[s] + 1), epoch |-> current_epoch[s] + 1]
            ELSE [m |-> m(d), epoch |-> current_epoch[s]]
  BY Zenon DEF Monitored
<1>3. d \in BOOLEAN
  BY Zenon DEF SubjectivelyDown
<1>4. m(d) \in MasterRecord /\ HasPromoted(m(d))
  BY <1>1, <1>3, Zenon DEF MasterRecord, HasPromoted
<1>5. /\ StartFailover(m(d), current_epoch[s] + 1) \in MasterRecord
      /\ HasPromoted(StartFailover(m(d), current_epoch[s] + 1))
  BY <1>1, <1>4, StartType
<1> HIDE DEF m
<1> QED
  BY <1>1, <1>2, <1>4, <1>5

\* sentinelAskMasterStateToOtherSentinels sends a well-formed request, and can only
\* forget what the other sentinels answered.
LEMMA AskOthersType ==
    ASSUME TypeOK, NEW s \in Sentinel, NEW m \in MasterRecord, NEW e \in Nat, AskOthers(s, m, e)
    PROVE  /\ ask' \in [Sentinel -> Request \cup {Idle}]
           /\ peer' \in [Sentinel -> [Sentinel -> PeerRecord]]
           /\ \A t, o \in Sentinel : peer'[t][o] \in {peer[t][o], NoInfo}
<1>1. ask' \in [Sentinel -> Request \cup {Idle}]
  BY Zenon DEF TypeOK, AskOthers, Request, MasterRecord
<1>2. [o \in Sentinel |-> NoInfo] \in [Sentinel -> PeerRecord]
  BY Zenon DEF NoInfo, PeerRecord
<1>3. peer' = peer \/ peer' = [peer EXCEPT ![s] = [o \in Sentinel |-> NoInfo]]
  BY Zenon DEF AskOthers
<1>4. peer' \in [Sentinel -> [Sentinel -> PeerRecord]]
  BY <1>2, <1>3, Zenon DEF TypeOK
<1>5. ASSUME NEW t \in Sentinel, NEW o \in Sentinel
      PROVE  peer'[t][o] \in {peer[t][o], NoInfo}
  <2>1. CASE peer' = peer
    BY <2>1, Zenon
  <2>2. CASE peer' = [peer EXCEPT ![s] = [p \in Sentinel |-> NoInfo]]
    <3>1. CASE t = s
      BY <2>2, <3>1, Zenon DEF TypeOK
    <3>2. CASE t # s
      BY <2>2, <3>2, Zenon DEF TypeOK
    <3> QED
      BY <3>1, <3>2, Zenon
  <2> QED
    BY <1>3, <2>1, <2>2, Zenon
<1> QED
  BY <1>1, <1>4, <1>5, Zenon

\* sentinelVoteLeader and the configuration it saves.
LEMMA VoteLeaderType ==
    ASSUME TypeOK, NEW s \in Sentinel, NEW m \in MasterRecord, HasPromoted(m), NEW epoch \in Nat,
           NEW e \in Nat, NEW c \in Sentinel, VoteLeader(s, m, epoch, e, c)
    PROVE  /\ current_epoch' \in [Sentinel -> Nat]
           /\ leader' \in [Sentinel -> Sentinel \cup {Nobody}]
           /\ leader_epoch' \in [Sentinel -> Nat]
           /\ votes' \subseteq Sentinel \X Nat \X Sentinel
           /\ conf' \in [Sentinel -> ConfigFile]
<1> DEFINE grant == Grants(epoch, leader_epoch[s], e)
           bumped == IF e > epoch THEN e ELSE epoch
           lepoch == IF grant THEN e ELSE leader_epoch[s]
<1>1. bumped \in Nat /\ lepoch \in Nat
  BY Zenon DEF TypeOK
<1>2. Flushed(m, bumped, lepoch) \in ConfigFile
  BY <1>1, FlushedType, Zenon
<1>3. conf' \in [Sentinel -> ConfigFile]
  BY <1>2, Zenon DEF VoteLeader, TypeOK
<1>4. /\ current_epoch' \in [Sentinel -> Nat]
      /\ leader' \in [Sentinel -> Sentinel \cup {Nobody}]
      /\ leader_epoch' \in [Sentinel -> Nat]
  BY <1>1, Zenon DEF VoteLeader, TypeOK
<1>5. votes' \subseteq Sentinel \X Nat \X Sentinel
  BY DEF VoteLeader, TypeOK
<1> QED
  BY <1>3, <1>4, <1>5, Zenon

\* What a step writes to the monitored master of one sentinel.
LEMMA MonType ==
    ASSUME TypeOK, NEW s \in Sentinel, NEW m \in MasterRecord, HasPromoted(m),
           mon' = [mon EXCEPT ![s] = m]
    PROVE  /\ mon' \in [Sentinel -> MasterRecord]
           /\ \A t \in Sentinel : HasPromoted(mon'[t])
<1>1. mon \in [Sentinel -> MasterRecord] /\ \A t \in Sentinel : HasPromoted(mon[t])
  BY Zenon DEF TypeOK
<1>2. mon' \in [Sentinel -> MasterRecord]
  BY <1>1, Zenon
<1>3. \A t \in Sentinel : mon'[t] = IF t = s THEN m ELSE mon[t]
  BY <1>1, Zenon
<1> QED
  BY <1>1, <1>2, <1>3, Zenon

\* A table keeps its type when one entry, or one row, is replaced.
LEMMA TableType ==
    ASSUME NEW A, NEW B, NEW C, NEW f \in [A -> [B -> C]], NEW a \in A
    PROVE  /\ \A b \in B, c \in C : [f EXCEPT ![a][b] = c] \in [A -> [B -> C]]
           /\ \A g \in [B -> C] : [f EXCEPT ![a] = g] \in [A -> [B -> C]]
BY Zenon

-----------------------------------------------------------------------------
(* Type correctness: one lemma for each action that does more than update  *)
(* a field.                                                                *)

LEMMA InitType == Init => TypeOK
<1> SUFFICES ASSUME Init PROVE TypeOK
  BY Zenon
<1>1. /\ current_epoch \in [Sentinel -> Nat] /\ leader \in [Sentinel -> Sentinel \cup {Nobody}]
      /\ leader_epoch \in [Sentinel -> Nat]
      /\ ask \in [Sentinel -> Request \cup {Idle}]
      /\ votes \subseteq Sentinel \X Nat \X Sentinel /\ elected \subseteq Sentinel \X Nat \X Nat
      /\ spent \in [restarts : Nat, incidents : Nat]
  BY Zenon DEF Init
<1>2. mon \in [Sentinel -> MasterRecord] /\ \A s \in Sentinel : HasPromoted(mon[s])
  BY SentinelAssumption, Zenon DEF Init, MasterRecord, States, HasPromoted
<1>3. peer \in [Sentinel -> [Sentinel -> PeerRecord]]
  BY Zenon DEF Init, NoInfo, PeerRecord
<1>4. conf \in [Sentinel -> ConfigFile]
  BY SentinelAssumption, Zenon DEF Init, ConfigFile
<1>5. /\ cmd \in [Sentinel -> [Redis -> Redis \cup {Nobody, "none"}]]
      /\ reconf \in [Sentinel -> [Redis -> {"no", "sent", "inprog", "done"}]]
  BY Zenon DEF Init
<1>6. redis \in [Redis -> [up : BOOLEAN, master : Redis \cup {Nobody}]]
  BY SentinelAssumption, Zenon DEF Init
<1> QED
  BY <1>1, <1>2, <1>3, <1>4, <1>5, <1>6, Zenon DEF TypeOK

LEMMA WatchType == ASSUME TypeOK, NEW s \in Sentinel, Watch(s) PROVE TypeOK'
<1>1. PICK x \in Monitored(s) : /\ mon' = [mon EXCEPT ![s] = x.m] /\ AskOthers(s, x.m, x.epoch)
  BY Zenon DEF Watch
<1>2. x.m \in MasterRecord /\ HasPromoted(x.m) /\ x.epoch \in Nat
  BY MonitoredType, Zenon
<1>3. mon' \in [Sentinel -> MasterRecord] /\ \A t \in Sentinel : HasPromoted(mon'[t])
  BY <1>1, <1>2, MonType, Zenon
<1>4. /\ ask' \in [Sentinel -> Request \cup {Idle}]
      /\ peer' \in [Sentinel -> [Sentinel -> PeerRecord]]
  BY <1>1, <1>2, AskOthersType, Zenon
<1> QED
  BY <1>3, <1>4, Zenon DEF Watch, TypeOK

LEMMA WinnersType ==
    ASSUME NEW s \in Sentinel, NEW e \in Nat, NEW c \in Winners(s, e)
    PROVE  c \in Sentinel
BY Zenon DEF Winners

LEMMA WaitStartType ==
    ASSUME TypeOK, NEW s \in Sentinel, NEW timedOut \in BOOLEAN, FailoverWaitStart(s, timedOut)
    PROVE  TypeOK'
<1>1. PICK x \in Monitored(s) :
        /\ \E c \in Winners(s, x.epoch) : VoteLeader(s, x.m, x.epoch, x.m.failover_epoch, c)
        /\ \E won \in {IsLeader(s, x.epoch, x.m.failover_epoch)} :
           \E m \in {IF won \/ x.m.force THEN [x.m EXCEPT !.state = "select_slave"]
                     ELSE IF timedOut THEN AbortFailover(x.m) ELSE x.m} :
              /\ mon' = [mon EXCEPT ![s] = m]
              /\ AskOthers(s, m, x.epoch)
              /\ elected' = IF won THEN elected \cup {<<s, m.failover_epoch, x.epoch>>} ELSE elected
  BY Zenon DEF FailoverWaitStart
<1>2. x.m \in MasterRecord /\ HasPromoted(x.m) /\ x.epoch \in Nat
  BY MonitoredType, Zenon
<1>3. PICK c \in Winners(s, x.epoch) : VoteLeader(s, x.m, x.epoch, x.m.failover_epoch, c)
  BY <1>1, Zenon
<1>4. c \in Sentinel /\ x.m.failover_epoch \in Nat
  BY <1>2, WinnersType, Zenon DEF MasterRecord
<1>5. /\ current_epoch' \in [Sentinel -> Nat]
      /\ leader' \in [Sentinel -> Sentinel \cup {Nobody}]
      /\ leader_epoch' \in [Sentinel -> Nat]
      /\ votes' \subseteq Sentinel \X Nat \X Sentinel
      /\ conf' \in [Sentinel -> ConfigFile]
  BY <1>2, <1>3, <1>4, VoteLeaderType, Zenon
<1>6. PICK won, m :
        /\ m \in {[x.m EXCEPT !.state = "select_slave"], AbortFailover(x.m), x.m}
        /\ mon' = [mon EXCEPT ![s] = m]
        /\ AskOthers(s, m, x.epoch)
        /\ elected' = IF won THEN elected \cup {<<s, m.failover_epoch, x.epoch>>} ELSE elected
  BY <1>1, Zenon
<1>7. m \in MasterRecord /\ HasPromoted(m)
  <2>1. [x.m EXCEPT !.state = "select_slave"] \in MasterRecord
    BY <1>2, Zenon DEF MasterRecord, States
  <2>2. HasPromoted([x.m EXCEPT !.state = "select_slave"])
    BY <1>2, Zenon DEF MasterRecord, HasPromoted
  <2> QED
    BY <1>2, <1>6, <2>1, <2>2, AbortType, Zenon
<1>8. mon' \in [Sentinel -> MasterRecord] /\ \A t \in Sentinel : HasPromoted(mon'[t])
  BY <1>6, <1>7, MonType, Zenon
<1>9. /\ ask' \in [Sentinel -> Request \cup {Idle}]
      /\ peer' \in [Sentinel -> [Sentinel -> PeerRecord]]
  BY <1>2, <1>6, <1>7, AskOthersType, Zenon
<1>10. elected' \subseteq Sentinel \X Nat \X Nat
  <2>1. m.failover_epoch \in Nat
    BY <1>7, Zenon DEF MasterRecord
  <2> QED
    BY <1>2, <1>6, <2>1 DEF TypeOK
<1>11. UNCHANGED <<reconf, cmd, redis, spent>>
  BY Zenon DEF FailoverWaitStart
<1> QED
  BY <1>5, <1>8, <1>9, <1>10, <1>11, Zenon DEF TypeOK

LEMMA SelectSlaveType ==
    ASSUME TypeOK, NEW s \in Sentinel, FailoverSelectSlave(s) PROVE TypeOK'
<1>1. PICK x \in Monitored(s) :
        \E m \in LET up == {r \in Slaves(x.m) : redis[r].up}
                 IN  IF up = {} THEN {AbortFailover(x.m)}
                     ELSE {[x.m EXCEPT !.state = "send_slaveof_noone", !.promoted = r] : r \in up} :
              /\ mon' = [mon EXCEPT ![s] = m]
              /\ AskOthers(s, m, x.epoch)
  BY Zenon DEF FailoverSelectSlave
<1>2. x.m \in MasterRecord /\ x.epoch \in Nat
  BY MonitoredType, Zenon
<1>3. PICK m : /\ m = AbortFailover(x.m) \/
                  \E r \in Slaves(x.m) : m = [x.m EXCEPT !.state = "send_slaveof_noone", !.promoted = r]
               /\ mon' = [mon EXCEPT ![s] = m]
               /\ AskOthers(s, m, x.epoch)
  BY <1>1, Zenon
<1>4. ASSUME NEW r \in Slaves(x.m)
      PROVE  /\ [x.m EXCEPT !.state = "send_slaveof_noone", !.promoted = r] \in MasterRecord
             /\ HasPromoted([x.m EXCEPT !.state = "send_slaveof_noone", !.promoted = r])
  BY <1>2, Zenon DEF MasterRecord, States, HasPromoted, Slaves
<1>5. m \in MasterRecord /\ HasPromoted(m)
  BY <1>2, <1>3, <1>4, AbortType, Zenon
<1>6. mon' \in [Sentinel -> MasterRecord] /\ \A t \in Sentinel : HasPromoted(mon'[t])
  BY <1>3, <1>5, MonType, Zenon
<1>7. /\ ask' \in [Sentinel -> Request \cup {Idle}]
      /\ peer' \in [Sentinel -> [Sentinel -> PeerRecord]]
  BY <1>2, <1>3, <1>5, AskOthersType, Zenon
<1> QED
  BY <1>6, <1>7, Zenon DEF FailoverSelectSlave, TypeOK

LEMMA SendSlaveOfNoOneType ==
    ASSUME TypeOK, NEW s \in Sentinel, FailoverSendSlaveOfNoOne(s) PROVE TypeOK'
<1>1. PICK x \in Monitored(s) :
        /\ x.m.state = "send_slaveof_noone"
        /\ \E m \in {IF redis[x.m.promoted].up THEN [x.m EXCEPT !.state = "wait_promotion"]
                     ELSE AbortFailover(x.m)} :
              /\ mon' = [mon EXCEPT ![s] = m]
              /\ AskOthers(s, m, x.epoch)
        /\ IF redis[x.m.promoted].up THEN Send(s, x.m.promoted, Nobody) ELSE UNCHANGED cmd
  BY Zenon DEF FailoverSendSlaveOfNoOne
<1>2. x.m \in MasterRecord /\ HasPromoted(x.m) /\ x.epoch \in Nat
  BY MonitoredType, Zenon
<1>3. PICK m : /\ m \in {[x.m EXCEPT !.state = "wait_promotion"], AbortFailover(x.m)}
               /\ mon' = [mon EXCEPT ![s] = m]
               /\ AskOthers(s, m, x.epoch)
  BY <1>1, Zenon
<1>4. /\ [x.m EXCEPT !.state = "wait_promotion"] \in MasterRecord
      /\ HasPromoted([x.m EXCEPT !.state = "wait_promotion"])
  BY <1>1, <1>2, Zenon DEF MasterRecord, States, HasPromoted
<1>5. m \in MasterRecord /\ HasPromoted(m)
  BY <1>2, <1>3, <1>4, AbortType, Zenon
<1>6. mon' \in [Sentinel -> MasterRecord] /\ \A t \in Sentinel : HasPromoted(mon'[t])
  BY <1>3, <1>5, MonType, Zenon
<1>7. /\ ask' \in [Sentinel -> Request \cup {Idle}]
      /\ peer' \in [Sentinel -> [Sentinel -> PeerRecord]]
  BY <1>2, <1>3, <1>5, AskOthersType, Zenon
<1>8. cmd' \in [Sentinel -> [Redis -> Redis \cup {Nobody, "none"}]]
  <2>1. x.m.promoted \in Redis
    BY <1>1, <1>2, Zenon DEF HasPromoted
  <2>2. CASE Send(s, x.m.promoted, Nobody)
    BY <2>1, <2>2, TableType, Zenon DEF Send, TypeOK
  <2>3. CASE UNCHANGED cmd
    BY <2>3, Zenon DEF TypeOK
  <2> QED
    BY <1>1, <2>2, <2>3, Zenon
<1> QED
  BY <1>6, <1>7, <1>8, Zenon DEF FailoverSendSlaveOfNoOne, TypeOK

LEMMA WaitPromotionType ==
    ASSUME TypeOK, NEW s \in Sentinel, NEW timedOut \in BOOLEAN, FailoverWaitPromotion(s, timedOut)
    PROVE  TypeOK'
<1>1. PICK x \in Monitored(s) :
        \E m \in {IF timedOut THEN AbortFailover(x.m) ELSE x.m} :
              /\ mon' = [mon EXCEPT ![s] = m]
              /\ AskOthers(s, m, x.epoch)
  BY Zenon DEF FailoverWaitPromotion
<1>2. x.m \in MasterRecord /\ HasPromoted(x.m) /\ x.epoch \in Nat
  BY MonitoredType, Zenon
<1>3. PICK m : /\ m \in {x.m, AbortFailover(x.m)}
               /\ mon' = [mon EXCEPT ![s] = m]
               /\ AskOthers(s, m, x.epoch)
  BY <1>1, Zenon
<1>4. m \in MasterRecord /\ HasPromoted(m)
  BY <1>2, <1>3, AbortType, Zenon
<1>5. mon' \in [Sentinel -> MasterRecord] /\ \A t \in Sentinel : HasPromoted(mon'[t])
  BY <1>3, <1>4, MonType, Zenon
<1>6. /\ ask' \in [Sentinel -> Request \cup {Idle}]
      /\ peer' \in [Sentinel -> [Sentinel -> PeerRecord]]
  BY <1>2, <1>3, <1>4, AskOthersType, Zenon
<1> QED
  BY <1>5, <1>6, Zenon DEF FailoverWaitPromotion, TypeOK

LEMMA ReconfSlavesType ==
    ASSUME TypeOK, NEW s \in Sentinel, NEW timedOut \in BOOLEAN, FailoverReconfSlaves(s, timedOut)
    PROVE  TypeOK'
<1>1. PICK x \in Monitored(s) :
        /\ x.m.state = "reconf_slaves"
        /\ \E busy, next, over, sent : Reconfigure(s, x, over, sent)
  BY Zenon DEF FailoverReconfSlaves
<1>2. x.m \in MasterRecord /\ HasPromoted(x.m) /\ x.epoch \in Nat
  BY MonitoredType, Zenon
<1>3. x.m.promoted \in Redis
  BY <1>1, <1>2, Zenon DEF HasPromoted
<1>sent. PICK over, sent : Reconfigure(s, x, over, sent)
  BY <1>1, Zenon
<1>4. PICK m \in {IF over THEN ResetTo(x.m, x.m.promoted) ELSE x.m} :
        /\ cmd' = [cmd EXCEPT ![s] = [r \in Redis |->
                     IF r \in sent /\ cmd[s][r] = "none" THEN x.m.promoted ELSE cmd[s][r]]]
        /\ reconf' = [reconf EXCEPT ![s] = [r \in Redis |->
                        IF over THEN "no" ELSE IF r \in sent THEN "sent" ELSE reconf[s][r]]]
        /\ mon' = [mon EXCEPT ![s] = m]
        /\ leader' = [leader EXCEPT ![s] = IF over THEN Nobody ELSE leader[s]]
        /\ conf' = IF over THEN [conf EXCEPT ![s] = Flushed(m, x.epoch, leader_epoch[s])] ELSE conf
        /\ AskOthers(s, x.m, x.epoch)
  BY <1>sent, Zenon DEF Reconfigure
<1>5. m \in MasterRecord /\ HasPromoted(m)
  BY <1>2, <1>3, <1>4, ResetToType, Zenon
<1>6. mon' \in [Sentinel -> MasterRecord] /\ \A t \in Sentinel : HasPromoted(mon'[t])
  BY <1>4, <1>5, MonType, Zenon
<1>7. /\ ask' \in [Sentinel -> Request \cup {Idle}]
      /\ peer' \in [Sentinel -> [Sentinel -> PeerRecord]]
  BY <1>2, <1>4, AskOthersType, Zenon
<1>8. conf' \in [Sentinel -> ConfigFile]
  <2>1. leader_epoch[s] \in Nat
    BY Zenon DEF TypeOK
  <2>2. Flushed(m, x.epoch, leader_epoch[s]) \in ConfigFile
    BY <1>2, <1>5, <2>1, FlushedType, Zenon
  <2> QED
    BY <1>4, <2>2, Zenon DEF TypeOK
<1>9. cmd' \in [Sentinel -> [Redis -> Redis \cup {Nobody, "none"}]]
  BY <1>3, <1>4 DEF TypeOK
<1>10. reconf' \in [Sentinel -> [Redis -> {"no", "sent", "inprog", "done"}]]
  BY <1>4 DEF TypeOK
<1>11. leader' \in [Sentinel -> Sentinel \cup {Nobody}]
  BY <1>4, Zenon DEF TypeOK
<1>12. UNCHANGED <<current_epoch, leader_epoch, redis, votes, elected, spent>>
  BY Zenon DEF FailoverReconfSlaves
<1> QED
  BY <1>6, <1>7, <1>8, <1>9, <1>10, <1>11, <1>12, Zenon DEF TypeOK

\* The request of s that o answers.
LEMMA RequestType ==
    ASSUME TypeOK, NEW s \in Sentinel, ask[s] # Idle
    PROVE  ask[s].addr \in Redis /\ ask[s].epoch \in Nat /\ ask[s].runid \in Sentinel \cup {Nobody}
BY Zenon DEF TypeOK, Request

LEMMA IsMasterDownType ==
    ASSUME TypeOK, NEW s \in Sentinel, NEW o \in Sentinel, NEW arrives \in BOOLEAN,
           IsMasterDownByAddr(s, o, arrives)
    PROVE  TypeOK'
<1> DEFINE voting == ask[s].addr = mon[o].addr /\ ask[s].runid # Nobody
           down == ask[s].addr = mon[o].addr /\ mon[o].sdown
           info == IF voting /\ leader'[o] # Nobody
                   THEN [down |-> down, leader |-> leader'[o], epoch |-> leader_epoch'[o]]
                   ELSE [peer[s][o] EXCEPT !.down = down]
<1>1. /\ ask[s].epoch \in Nat
      /\ voting => ask[s].runid \in Sentinel
  BY RequestType, Zenon DEF IsMasterDownByAddr
<1>2. /\ mon[o] \in MasterRecord /\ HasPromoted(mon[o]) /\ current_epoch[o] \in Nat
  BY Zenon DEF TypeOK
<1>3. /\ current_epoch' \in [Sentinel -> Nat]
      /\ leader' \in [Sentinel -> Sentinel \cup {Nobody}]
      /\ leader_epoch' \in [Sentinel -> Nat]
      /\ votes' \subseteq Sentinel \X Nat \X Sentinel
      /\ conf' \in [Sentinel -> ConfigFile]
  <2>1. CASE voting
    BY <1>1, <1>2, <2>1, VoteLeaderType, Zenon DEF IsMasterDownByAddr
  <2>2. CASE ~voting
    BY <2>2, Zenon DEF IsMasterDownByAddr, TypeOK
  <2> QED
    BY <2>1, <2>2, Zenon
<1>4. mon' \in [Sentinel -> MasterRecord] /\ \A t \in Sentinel : HasPromoted(mon'[t])
  <2>1. CASE UNCHANGED mon
    BY <2>1, Zenon DEF TypeOK
  <2>2. CASE mon' = [mon EXCEPT ![o].recent = @ \/ Grants(current_epoch[o], leader_epoch[o], ask[s].epoch)]
    <3> DEFINE b == mon[o].recent \/ Grants(current_epoch[o], leader_epoch[o], ask[s].epoch)
               m == [mon[o] EXCEPT !.recent = b]
    <3>1. b \in BOOLEAN
      BY Zenon DEF Grants
    <3>2. m \in MasterRecord /\ HasPromoted(m)
      BY <1>2, <3>1, Zenon DEF MasterRecord, HasPromoted
    <3>3. mon' = [mon EXCEPT ![o] = m]
      BY <2>2, Zenon
    <3> QED
      BY <3>2, <3>3, MonType, Zenon
  <2> QED
    BY <2>1, <2>2, Zenon DEF IsMasterDownByAddr
<1>5. info \in PeerRecord
  <2>1. down \in BOOLEAN /\ peer[s][o] \in PeerRecord
    BY <1>2 DEF TypeOK, MasterRecord
  <2> HIDE DEF down
  <2>2. leader'[o] \in Sentinel \cup {Nobody} /\ leader_epoch'[o] \in Nat
    BY <1>3, Zenon
  <2> QED
    BY <2>1, <2>2, Zenon DEF PeerRecord
<1>6. peer' = peer \/ peer' = [peer EXCEPT ![s][o] = info]
  BY Zenon DEF IsMasterDownByAddr
<1>7. peer' \in [Sentinel -> [Sentinel -> PeerRecord]]
  <2> HIDE DEF info
  <2>1. peer \in [Sentinel -> [Sentinel -> PeerRecord]]
    BY Zenon DEF TypeOK
  <2>2. [peer EXCEPT ![s][o] = info] \in [Sentinel -> [Sentinel -> PeerRecord]]
    BY <1>5, <2>1, TableType, Zenon
  <2> QED
    BY <1>6, <2>1, <2>2, Zenon
<1>8. UNCHANGED <<reconf, ask, cmd, redis, elected, spent>>
  BY Zenon DEF IsMasterDownByAddr
<1> QED
  BY <1>3, <1>4, <1>7, <1>8, Zenon DEF TypeOK

LEMMA HelloType ==
    ASSUME TypeOK, NEW s \in Sentinel, NEW o \in Sentinel, ProcessHello(s, o)
    PROVE  TypeOK'
<1> DEFINE epoch == IF current_epoch[s] > current_epoch[o] THEN current_epoch[s] ELSE current_epoch[o]
           newer == mon[s].config_epoch > mon[o].config_epoch
           addr == CurrentAddr(mon[s])
           switch == newer /\ addr # mon[o].addr
           m0 == IF newer THEN [mon[o] EXCEPT !.config_epoch = mon[s].config_epoch] ELSE mon[o]
           m == IF switch THEN ResetTo(m0, addr) ELSE m0
<1>1. /\ epoch \in Nat /\ leader_epoch[o] \in Nat
      /\ mon[s] \in MasterRecord /\ HasPromoted(mon[s])
      /\ mon[o] \in MasterRecord /\ HasPromoted(mon[o])
  BY Zenon DEF TypeOK
<1>2. addr \in Redis
  BY <1>1, FlushedType, Zenon
<1>3. m0 \in MasterRecord /\ HasPromoted(m0)
  BY <1>1, Zenon DEF MasterRecord, HasPromoted
<1>4. m \in MasterRecord /\ HasPromoted(m)
  <2> HIDE DEF m0, addr
  <2> QED
    BY <1>2, <1>3, ResetToType, Zenon
<1>5. mon' \in [Sentinel -> MasterRecord] /\ \A t \in Sentinel : HasPromoted(mon'[t])
  <2>1. mon' = [mon EXCEPT ![o] = m]
    BY Zenon DEF ProcessHello
  <2> HIDE DEF m
  <2> QED
    BY <1>4, <2>1, MonType, Zenon
<1>6. conf' \in [Sentinel -> ConfigFile]
  <2>1. conf' \in {conf, [conf EXCEPT ![o] = Flushed(m, epoch, leader_epoch[o])],
                   [conf EXCEPT ![o] = Flushed(mon[o], epoch, leader_epoch[o])]}
    BY Zenon DEF ProcessHello
  <2> HIDE DEF m, epoch
  <2>2. /\ Flushed(m, epoch, leader_epoch[o]) \in ConfigFile
        /\ Flushed(mon[o], epoch, leader_epoch[o]) \in ConfigFile
    BY <1>1, <1>4, FlushedType, Zenon
  <2> QED
    BY <2>1, <2>2 DEF TypeOK
<1>7. current_epoch' \in [Sentinel -> Nat]
  <2>1. current_epoch' = [current_epoch EXCEPT ![o] = epoch]
    BY Zenon DEF ProcessHello
  <2> HIDE DEF epoch
  <2> QED
    BY <1>1, <2>1, Zenon DEF TypeOK
<1>8. leader' \in [Sentinel -> Sentinel \cup {Nobody}]
  <2>1. leader' \in {leader, [leader EXCEPT ![o] = Nobody]}
    BY Zenon DEF ProcessHello
  <2> QED
    BY <2>1, Zenon DEF TypeOK
<1>9. reconf' \in [Sentinel -> [Redis -> {"no", "sent", "inprog", "done"}]]
  <2>1. reconf' \in {reconf, [reconf EXCEPT ![o] = [r \in Redis |-> "no"]]}
    BY Zenon DEF ProcessHello
  <2>2. [r \in Redis |-> "no"] \in [Redis -> {"no", "sent", "inprog", "done"}]
    BY Zenon
  <2>3. reconf \in [Sentinel -> [Redis -> {"no", "sent", "inprog", "done"}]]
    BY Zenon DEF TypeOK
  <2>4. [reconf EXCEPT ![o] = [r \in Redis |-> "no"]]
          \in [Sentinel -> [Redis -> {"no", "sent", "inprog", "done"}]]
    BY <2>2, <2>3, TableType, Zenon
  <2> QED
    BY <2>1, <2>3, <2>4, Zenon
<1>10. UNCHANGED <<leader_epoch, peer, ask, cmd, redis, votes, elected, spent>>
  BY Zenon DEF ProcessHello
<1> QED
  BY <1>5, <1>6, <1>7, <1>8, <1>9, <1>10, Zenon DEF TypeOK

\* INFO replies change one field of the monitored master, or one flag of a replica.
LEMMA RefreshType ==
    ASSUME TypeOK, NEW s \in Sentinel,
           RefreshMaster(s) \/ RefreshPromoted(s) \/ \E r \in Redis : RefreshStray(s, r) \/ RefreshReconf(s, r)
    PROVE  TypeOK'
<1>0. /\ mon[s] \in MasterRecord /\ HasPromoted(mon[s])
      /\ current_epoch[s] \in Nat /\ leader_epoch[s] \in Nat
  BY Zenon DEF TypeOK
<1>1. CASE RefreshMaster(s)
  <2> DEFINE role == IF redis[mon[s].addr].master = Nobody THEN "master" ELSE "slave"
             m == [mon[s] EXCEPT !.role_reported = role]
  <2>1. mon' = [mon EXCEPT ![s] = m]
    BY <1>1, Zenon DEF RefreshMaster, TypeOK
  <2>2. m \in MasterRecord /\ HasPromoted(m)
    BY <1>0, Zenon DEF MasterRecord, HasPromoted
  <2>3. mon' \in [Sentinel -> MasterRecord] /\ \A t \in Sentinel : HasPromoted(mon'[t])
    BY <2>1, <2>2, MonType, Zenon
  <2> QED
    BY <1>1, <2>3, Zenon DEF RefreshMaster, TypeOK
<1>2. CASE RefreshPromoted(s)
  <2> DEFINE m == [mon[s] EXCEPT !.config_epoch = mon[s].failover_epoch, !.state = "reconf_slaves"]
  <2>1. mon' = [mon EXCEPT ![s] = m] /\ conf' = [conf EXCEPT ![s] = Flushed(m, current_epoch[s], leader_epoch[s])]
    BY <1>2, Zenon DEF RefreshPromoted
  <2>2. m \in MasterRecord /\ HasPromoted(m)
    BY <1>0, <1>2, Zenon DEF RefreshPromoted, MasterRecord, States, HasPromoted
  <2> HIDE DEF m
  <2>3. mon' \in [Sentinel -> MasterRecord] /\ \A t \in Sentinel : HasPromoted(mon'[t])
    BY <2>1, <2>2, MonType, Zenon
  <2>4. Flushed(m, current_epoch[s], leader_epoch[s]) \in ConfigFile
    BY <1>0, <2>2, FlushedType, Zenon
  <2>5. conf' \in [Sentinel -> ConfigFile]
    BY <2>1, <2>4 DEF TypeOK
  <2> QED
    BY <1>2, <2>3, <2>5, Zenon DEF RefreshPromoted, TypeOK
<1>3. ASSUME NEW r \in Redis, RefreshStray(s, r)
      PROVE  TypeOK'
  <2>1. cmd' = [cmd EXCEPT ![s][r] = mon[s].addr] /\ mon[s].addr \in Redis \cup {Nobody, "none"}
    BY <1>0, <1>3, Zenon DEF RefreshStray, Send, MasterRecord
  <2>2. cmd \in [Sentinel -> [Redis -> Redis \cup {Nobody, "none"}]]
    BY Zenon DEF TypeOK
  <2>3. cmd' \in [Sentinel -> [Redis -> Redis \cup {Nobody, "none"}]]
    BY <2>1, <2>2, TableType, Zenon
  <2> QED
    BY <1>3, <2>3, Zenon DEF RefreshStray, TypeOK
<1>4. ASSUME NEW r \in Redis, RefreshReconf(s, r)
      PROVE  TypeOK'
  <2>1. PICK flag \in {"no", "sent", "inprog", "done"} : reconf' = [reconf EXCEPT ![s][r] = flag]
    BY <1>4, Zenon DEF RefreshReconf
  <2>2. reconf \in [Sentinel -> [Redis -> {"no", "sent", "inprog", "done"}]]
    BY Zenon DEF TypeOK
  <2>3. reconf' \in [Sentinel -> [Redis -> {"no", "sent", "inprog", "done"}]]
    BY <2>1, <2>2, TableType, Zenon
  <2> QED
    BY <1>4, <2>3, Zenon DEF RefreshReconf, TypeOK
<1> QED
  BY <1>1, <1>2, <1>3, <1>4, Zenon

LEMMA OperatorType ==
    ASSUME TypeOK, NEW s \in Sentinel, FailoverCommand(s) \/ DelayOver(s) PROVE TypeOK'
<1>0. mon[s] \in MasterRecord /\ HasPromoted(mon[s]) /\ current_epoch[s] \in Nat
  BY Zenon DEF TypeOK
<1>1. CASE FailoverCommand(s)
  <2> DEFINE m0 == StartFailover(mon[s], current_epoch[s] + 1)
             m == [m0 EXCEPT !.force = TRUE]
  <2>1. mon' = [mon EXCEPT ![s] = m]
    BY <1>1, Zenon DEF FailoverCommand, TypeOK
  <2>2. m0 \in MasterRecord /\ HasPromoted(m0)
    BY <1>0, StartType
  <2> HIDE DEF m0
  <2>3. m \in MasterRecord /\ HasPromoted(m)
    BY <2>2, Zenon DEF MasterRecord, HasPromoted
  <2> HIDE DEF m
  <2>4. mon' \in [Sentinel -> MasterRecord] /\ \A t \in Sentinel : HasPromoted(mon'[t])
    BY <2>1, <2>3, MonType, Zenon
  <2>5. current_epoch' \in [Sentinel -> Nat]
    BY <1>0, <1>1 DEF FailoverCommand, TypeOK
  <2>6. spent \in [restarts : Nat, incidents : Nat] /\ spent' = [spent EXCEPT !.incidents = @ + 1]
    BY <1>1, Zenon DEF FailoverCommand, TypeOK
  <2>7. spent' \in [restarts : Nat, incidents : Nat]
    BY <2>6
  <2> QED
    BY <1>1, <2>4, <2>5, <2>7, Zenon DEF FailoverCommand, TypeOK
<1>2. CASE DelayOver(s)
  <2> DEFINE m == [mon[s] EXCEPT !.recent = FALSE]
  <2>1. mon' = [mon EXCEPT ![s] = m]
    BY <1>2, Zenon DEF DelayOver
  <2>2. m \in MasterRecord /\ HasPromoted(m)
    BY <1>0, Zenon DEF MasterRecord, HasPromoted
  <2>3. mon' \in [Sentinel -> MasterRecord] /\ \A t \in Sentinel : HasPromoted(mon'[t])
    BY <2>1, <2>2, MonType, Zenon
  <2> QED
    BY <1>2, <2>3, Zenon DEF DelayOver, TypeOK
<1> QED
  BY <1>1, <1>2

LEMMA RedisType ==
    ASSUME TypeOK, NEW s \in Sentinel, NEW r \in Redis, SlaveOf(s, r) \/ Crash(r) \/ Recover(r)
    PROVE  TypeOK'
<1>0. /\ cmd \in [Sentinel -> [Redis -> Redis \cup {Nobody, "none"}]]
      /\ redis \in [Redis -> [up : BOOLEAN, master : Redis \cup {Nobody}]]
      /\ spent \in [restarts : Nat, incidents : Nat]
  BY Zenon DEF TypeOK
<1>1. CASE SlaveOf(s, r)
  <2>1. cmd[s][r] \in Redis \cup {Nobody}
    <3>1. cmd[s][r] \in Redis \cup {Nobody, "none"}
      BY <1>0
    <3> QED
      BY <1>1, <3>1, Zenon DEF SlaveOf
  <2>2. redis' \in [Redis -> [up : BOOLEAN, master : Redis \cup {Nobody}]]
    BY <1>0, <1>1, <2>1 DEF SlaveOf
  <2>3. cmd' = [cmd EXCEPT ![s][r] = "none"] /\ "none" \in Redis \cup {Nobody, "none"}
    BY <1>1, Zenon DEF SlaveOf
  <2>4. cmd' \in [Sentinel -> [Redis -> Redis \cup {Nobody, "none"}]]
    BY <1>0, <2>3, TableType, Zenon
  <2> QED
    BY <1>1, <2>2, <2>4, Zenon DEF SlaveOf, TypeOK
<1>2. CASE Crash(r)
  <2>1. redis' \in [Redis -> [up : BOOLEAN, master : Redis \cup {Nobody}]]
    BY <1>0, <1>2, Zenon DEF Crash
  <2>2. spent' \in [restarts : Nat, incidents : Nat]
    BY <1>0, <1>2 DEF Crash
  <2>3. cmd' \in [Sentinel -> [Redis -> Redis \cup {Nobody, "none"}]]
    BY <1>0, <1>2, Zenon DEF Crash
  <2> QED
    BY <1>2, <2>1, <2>2, <2>3, Zenon DEF Crash, TypeOK
<1>3. CASE Recover(r)
  <2>1. redis' \in [Redis -> [up : BOOLEAN, master : Redis \cup {Nobody}]]
    BY <1>0, <1>3 DEF Recover
  <2> QED
    BY <1>3, <2>1, Zenon DEF Recover, TypeOK
<1> QED
  BY <1>1, <1>2, <1>3, Zenon

LEMMA RestartType == ASSUME TypeOK, NEW s \in Sentinel, Restart(s) PROVE TypeOK'
<1>0. /\ mon[s] \in MasterRecord /\ conf[s] \in ConfigFile
      /\ conf[s].addr \in Redis /\ conf[s].config_epoch \in Nat
      /\ conf[s].current_epoch \in Nat /\ conf[s].leader_epoch \in Nat
  BY Zenon DEF TypeOK, ConfigFile
<1> DEFINE m0 == ResetTo(mon[s], conf[s].addr)
           m == [m0 EXCEPT !.config_epoch = conf[s].config_epoch]
<1>1. m0 \in MasterRecord /\ HasPromoted(m0)
  BY <1>0, ResetToType, Zenon
<1>2. mon' = [mon EXCEPT ![s] = m]
  BY Zenon DEF Restart
<1> HIDE DEF m0
<1>3. m \in MasterRecord /\ HasPromoted(m)
  BY <1>0, <1>1, Zenon DEF MasterRecord, HasPromoted
<1> HIDE DEF m
<1>4. mon' \in [Sentinel -> MasterRecord] /\ \A t \in Sentinel : HasPromoted(mon'[t])
  BY <1>2, <1>3, MonType, Zenon
<1>5. /\ current_epoch' \in [Sentinel -> Nat] /\ leader_epoch' \in [Sentinel -> Nat]
      /\ leader' \in [Sentinel -> Sentinel \cup {Nobody}]
      /\ ask' \in [Sentinel -> Request \cup {Idle}]
  BY <1>0, Zenon DEF Restart, TypeOK
<1>8. spent' \in [restarts : Nat, incidents : Nat]
  <2>1. spent \in [restarts : Nat, incidents : Nat] /\ spent' = [spent EXCEPT !.restarts = @ + 1]
    BY Zenon DEF Restart, TypeOK
  <2> QED
    BY <2>1
<1>6. peer' \in [Sentinel -> [Sentinel -> PeerRecord]]
  <2>1. [o \in Sentinel |-> NoInfo] \in [Sentinel -> PeerRecord]
    BY Zenon DEF NoInfo, PeerRecord
  <2> QED
    BY <2>1, Zenon DEF Restart, TypeOK
<1>7. reconf' \in [Sentinel -> [Redis -> {"no", "sent", "inprog", "done"}]]
  <2>1. [r \in Redis |-> "no"] \in [Redis -> {"no", "sent", "inprog", "done"}]
    BY Zenon
  <2>2. reconf \in [Sentinel -> [Redis -> {"no", "sent", "inprog", "done"}]]
    BY Zenon DEF TypeOK
  <2>3. [reconf EXCEPT ![s] = [r \in Redis |-> "no"]]
          \in [Sentinel -> [Redis -> {"no", "sent", "inprog", "done"}]]
    BY <2>1, <2>2, TableType, Zenon
  <2> QED
    BY <2>3, Zenon DEF Restart
<1> QED
  BY <1>4, <1>5, <1>6, <1>7, <1>8, Zenon DEF Restart, TypeOK

LEMMA TypeStep == TypeOK /\ [Next]_vars => TypeOK'
<1> SUFFICES ASSUME TypeOK, [Next]_vars PROVE TypeOK'
  BY Zenon
<1>1. CASE UNCHANGED vars
  BY <1>1, Zenon DEF vars, TypeOK
<1>2. ASSUME NEW s \in Sentinel, Timer(s) PROVE TypeOK'
  BY <1>2, WatchType, WaitStartType, WaitPromotionType, ReconfSlavesType, SelectSlaveType,
     SendSlaveOfNoOneType, Zenon DEF Timer
<1>3. ASSUME NEW s \in Sentinel, NEW o \in Peers(s),
             \/ \E arrives \in BOOLEAN : IsMasterDownByAddr(s, o, arrives)
             \/ ProcessHello(s, o)
      PROVE  TypeOK'
  BY <1>3, IsMasterDownType, HelloType, Zenon DEF Peers
<1> QED
  BY <1>1, <1>2, <1>3, RefreshType, OperatorType, RedisType, RestartType, Zenon DEF Next

\* Every variable keeps its type, and a failover past the selection of a replica
\* always has one, for any number of sentinels and Redis instances.
THEOREM TypeCorrect == Spec => []TypeOK
BY InitType, TypeStep, PTL DEF Spec

-----------------------------------------------------------------------------
(* Votes.  A vote is never older than what the voter knows to have voted,  *)
(* in memory and on disk; what a sentinel reports, and what the others     *)
(* have noted down of it, are votes it gave; who was elected in the epoch  *)
(* of its failover had the votes of a majority in that epoch.              *)

VotesKept ==
    \A v \in votes : v[2] <= leader_epoch[v[1]] /\ v[2] <= conf[v[1]].leader_epoch

VotesReported ==
    /\ \A s \in Sentinel : leader[s] # Nobody => <<s, leader_epoch[s], leader[s]>> \in votes
    /\ \A s, o \in Sentinel :
          peer[s][o].leader # Nobody => <<o, peer[s][o].epoch, peer[s][o].leader>> \in votes

Majority(e, c) ==
    \E Q \in SUBSET Sentinel :
        /\ Cardinality(Q) + Cardinality(Q) > Cardinality(Sentinel)
        /\ \A o \in Q : <<o, e, c>> \in votes

ElectedByMajority == \A x \in elected : x[2] = x[3] => Majority(x[2], x[1])

VoteInv == TypeOK /\ OneVotePerEpoch /\ VotesKept /\ VotesReported /\ ElectedByMajority

LEMMA InitVotes == Init => VoteInv
<1> SUFFICES ASSUME Init PROVE VoteInv
  BY Zenon
<1>1. TypeOK
  BY InitType, Zenon
<1>2. OneVotePerEpoch /\ VotesKept /\ ElectedByMajority
  BY Zenon DEF Init, OneVotePerEpoch, VotesKept, ElectedByMajority
<1>3. VotesReported
  BY Zenon DEF Init, VotesReported, NoInfo
<1> QED
  BY <1>1, <1>2, <1>3, Zenon DEF VoteInv

\* A step that casts no vote keeps the invariant if it forgets votes at most: a
\* leader epoch comes from memory or from disk.
LEMMA KeepVotes ==
    ASSUME VoteInv, TypeOK', UNCHANGED <<votes, elected>>,
           \A t \in Sentinel :
              /\ leader'[t] # Nobody => leader'[t] = leader[t] /\ leader_epoch'[t] = leader_epoch[t]
              /\ leader_epoch'[t] \in {leader_epoch[t], conf[t].leader_epoch}
              /\ conf'[t].leader_epoch \in {leader_epoch[t], conf[t].leader_epoch},
           \A t, o \in Sentinel : peer'[t][o] \in {peer[t][o], NoInfo} \/
              (peer'[t][o].leader = peer[t][o].leader /\ peer'[t][o].epoch = peer[t][o].epoch)
    PROVE  VoteInv'
<1>1. OneVotePerEpoch' /\ ElectedByMajority'
  BY Zenon DEF VoteInv, OneVotePerEpoch, ElectedByMajority, Majority
<1>2. VotesKept'
  <2> SUFFICES ASSUME NEW v \in votes
               PROVE  v[2] <= leader_epoch'[v[1]] /\ v[2] <= conf'[v[1]].leader_epoch
    BY Zenon DEF VotesKept
  <2>1. v[1] \in Sentinel /\ v[2] <= leader_epoch[v[1]] /\ v[2] <= conf[v[1]].leader_epoch
    BY Zenon DEF VoteInv, VotesKept, TypeOK
  <2> QED
    BY <2>1, Zenon
<1>3. VotesReported'
  <2>1. \A s \in Sentinel : leader'[s] # Nobody => <<s, leader_epoch'[s], leader'[s]>> \in votes'
    BY Zenon DEF VoteInv, VotesReported
  <2>2. ASSUME NEW s \in Sentinel, NEW o \in Sentinel, peer'[s][o].leader # Nobody
        PROVE  <<o, peer'[s][o].epoch, peer'[s][o].leader>> \in votes'
    <3>1. peer'[s][o] # NoInfo
      BY <2>2 DEF NoInfo
    <3>2. peer'[s][o].leader = peer[s][o].leader /\ peer'[s][o].epoch = peer[s][o].epoch
      BY <3>1, Zenon
    <3> QED
      BY <2>2, <3>2, Zenon DEF VoteInv, VotesReported
  <2> QED
    BY <2>1, <2>2, Zenon DEF VotesReported
<1> QED
  BY <1>1, <1>2, <1>3, Zenon DEF VoteInv

\* sentinelVoteLeader: a vote is cast in an epoch the voter has not voted in, and
\* is on disk when the function returns.
LEMMA CastVote ==
    ASSUME VoteInv, NEW s \in Sentinel, NEW m \in MasterRecord, HasPromoted(m), NEW epoch \in Nat,
           NEW e \in Nat, NEW c \in Sentinel, VoteLeader(s, m, epoch, e, c)
    PROVE  /\ OneVotePerEpoch' /\ VotesKept' /\ votes \subseteq votes'
           /\ \A t \in Sentinel : leader'[t] # Nobody => <<t, leader_epoch'[t], leader'[t]>> \in votes'
<1> DEFINE grant == Grants(epoch, leader_epoch[s], e)
           bumped == IF e > epoch THEN e ELSE epoch
           lepoch == IF grant THEN e ELSE leader_epoch[s]
<1>0. /\ TypeOK /\ leader_epoch[s] \in Nat /\ bumped \in Nat /\ lepoch \in Nat
      /\ leader_epoch \in [Sentinel -> Nat] /\ leader \in [Sentinel -> Sentinel \cup {Nobody}]
      /\ conf \in [Sentinel -> ConfigFile] /\ votes \subseteq Sentinel \X Nat \X Sentinel
  BY Zenon DEF VoteInv, TypeOK
<1>1. /\ leader' = [leader EXCEPT ![s] = IF grant THEN c ELSE leader[s]]
      /\ leader_epoch' = [leader_epoch EXCEPT ![s] = lepoch]
      /\ votes' = IF grant THEN votes \cup {<<s, e, c>>} ELSE votes
      /\ conf' = IF grant \/ e > epoch THEN [conf EXCEPT ![s] = Flushed(m, bumped, lepoch)] ELSE conf
  BY Zenon DEF VoteLeader
<1>2. Flushed(m, bumped, lepoch).leader_epoch = lepoch
  BY <1>0, FlushedType, Zenon
<1>3. leader_epoch[s] <= lepoch /\ (grant => leader_epoch[s] < e /\ lepoch = e)
  BY <1>0 DEF Grants
<1> HIDE DEF grant, bumped, lepoch
<1>4. VotesKept'
  <2> SUFFICES ASSUME NEW v \in votes'
               PROVE  v[2] <= leader_epoch'[v[1]] /\ v[2] <= conf'[v[1]].leader_epoch
    BY Zenon DEF VotesKept
  <2>1. CASE v \in votes
    <3>1. /\ v[1] \in Sentinel /\ v[2] \in Nat
          /\ v[2] <= leader_epoch[v[1]] /\ v[2] <= conf[v[1]].leader_epoch
      BY <1>0, <2>1, Zenon DEF VoteInv, VotesKept
    <3>2. CASE v[1] = s
      <4>1. v[2] <= lepoch
        BY <1>0, <1>3, <3>1, <3>2
      <4> QED
        BY <1>0, <1>1, <1>2, <3>1, <3>2, <4>1, Zenon
    <3>3. CASE v[1] # s
      BY <1>0, <1>1, <3>1, <3>3, Zenon
    <3> QED
      BY <3>2, <3>3
  <2>2. CASE v \notin votes
    <3>1. grant /\ v = <<s, e, c>>
      BY <1>1, <2>2, Zenon
    <3> QED
      BY <1>0, <1>1, <1>2, <1>3, <3>1
  <2> QED
    BY <2>1, <2>2, Zenon
<1>5. OneVotePerEpoch'
  <2>1. CASE ~grant
    BY <1>1, <2>1, Zenon DEF VoteInv, OneVotePerEpoch
  <2>2. CASE grant
    <3>1. \A v \in votes : v[1] = s => v[2] # e
      BY <1>0, <1>3, <2>2 DEF VoteInv, VotesKept
    <3>2. \A v \in votes' : v \in votes \/ (v[1] = s /\ v[2] = e /\ v[3] = c)
      BY <1>1
    <3> QED
      BY <3>1, <3>2, Zenon DEF VoteInv, OneVotePerEpoch
  <2> QED
    BY <2>1, <2>2, Zenon
<1>6. ASSUME NEW t \in Sentinel, leader'[t] # Nobody
      PROVE  <<t, leader_epoch'[t], leader'[t]>> \in votes'
  <2>1. CASE t = s /\ grant
    BY <1>0, <1>1, <1>3, <2>1, Zenon
  <2>2. CASE ~(t = s /\ grant)
    <3>1. leader'[t] = leader[t] /\ leader_epoch'[t] = leader_epoch[t]
      BY <1>0, <1>1, <2>2, Zenon DEF lepoch
    <3>2. leader[t] # Nobody => <<t, leader_epoch[t], leader[t]>> \in votes
      BY Zenon DEF VoteInv, VotesReported
    <3>3. votes \subseteq votes'
      BY <1>1, Zenon
    <3> QED
      BY <1>6, <3>1, <3>2, <3>3, Zenon
  <2> QED
    BY <2>1, <2>2
<1> QED
  BY <1>1, <1>4, <1>5, <1>6, Zenon

\* A majority stays one when votes are added.
LEMMA MajorityKept ==
    ASSUME votes \subseteq votes', NEW e, NEW c, Majority(e, c) PROVE Majority(e, c)'
<1>1. PICK Q \in SUBSET Sentinel :
        /\ Cardinality(Q) + Cardinality(Q) > Cardinality(Sentinel)
        /\ \A o \in Q : <<o, e, c>> \in votes
  BY Zenon DEF Majority
<1>2. \A o \in Q : <<o, e, c>> \in votes'
  BY <1>1, Zenon
<1> QED
  BY <1>1, <1>2, Zenon DEF Majority

\* sentinelGetLeader: what it counts in the epoch of the failover are votes.
LEMMA LeaderHasMajority ==
    ASSUME VoteInv, NEW s \in Sentinel, NEW e \in Nat, votes \subseteq votes', IsLeader(s, e, e),
           leader'[s] # Nobody => <<s, leader_epoch'[s], leader'[s]>> \in votes'
    PROVE  Majority(e, s)'
<1> DEFINE mine == IF leader'[s] = s /\ leader_epoch'[s] = e THEN {s} ELSE {}
           Q == Support(s, e, s) \cup mine
<1>1. Q \in SUBSET Sentinel
  BY Zenon DEF Support, Peers
<1>2. \A o \in Support(s, e, s) : <<o, e, s>> \in votes
  BY SentinelAssumption, Zenon DEF Support, Peers, VoteInv, VotesReported
<1>3. \A o \in mine : <<o, e, s>> \in votes'
  BY SentinelAssumption, Zenon
<1>4. Cardinality(Q) >= (Cardinality(Sentinel) \div 2) + 1
  BY Zenon DEF IsLeader
<1>5. Cardinality(Q) \in Nat /\ Cardinality(Sentinel) \in Nat
  <2>1. IsFiniteSet(Q)
    BY <1>1, SentinelAssumption, FS_Subset, Zenon
  <2> QED
    BY <2>1, SentinelAssumption, FS_CardinalityType, Zenon
<1> HIDE DEF Q
<1>6. Cardinality(Q) + Cardinality(Q) > Cardinality(Sentinel)
  BY <1>4, <1>5
<1>7. \A o \in Q : <<o, e, s>> \in votes'
  BY <1>2, <1>3, Zenon DEF Q
<1> QED
  BY <1>1, <1>6, <1>7, Zenon DEF Majority

LEMMA WaitStartVotes ==
    ASSUME VoteInv, NEW s \in Sentinel, NEW timedOut \in BOOLEAN, FailoverWaitStart(s, timedOut)
    PROVE  VoteInv'
<1>0. TypeOK /\ TypeOK'
  BY WaitStartType, Zenon DEF VoteInv
<1>1. PICK x \in Monitored(s) :
        /\ \E c \in Winners(s, x.epoch) : VoteLeader(s, x.m, x.epoch, x.m.failover_epoch, c)
        /\ \E won \in {IsLeader(s, x.epoch, x.m.failover_epoch)} :
           \E m \in {IF won \/ x.m.force THEN [x.m EXCEPT !.state = "select_slave"]
                     ELSE IF timedOut THEN AbortFailover(x.m) ELSE x.m} :
              /\ mon' = [mon EXCEPT ![s] = m]
              /\ AskOthers(s, m, x.epoch)
              /\ elected' = IF won THEN elected \cup {<<s, m.failover_epoch, x.epoch>>} ELSE elected
  BY Zenon DEF FailoverWaitStart
<1>2. x.m \in MasterRecord /\ HasPromoted(x.m) /\ x.epoch \in Nat
  BY <1>0, MonitoredType, Zenon
<1>3. PICK c \in Winners(s, x.epoch) : VoteLeader(s, x.m, x.epoch, x.m.failover_epoch, c)
  BY <1>1, Zenon
<1>4. c \in Sentinel /\ x.m.failover_epoch \in Nat
  BY <1>2, WinnersType, Zenon DEF MasterRecord
<1>5. /\ OneVotePerEpoch' /\ VotesKept' /\ votes \subseteq votes'
      /\ \A t \in Sentinel : leader'[t] # Nobody => <<t, leader_epoch'[t], leader'[t]>> \in votes'
  BY <1>2, <1>3, <1>4, CastVote, Zenon
<1>6. PICK m :
        /\ IsLeader(s, x.epoch, x.m.failover_epoch) => m = [x.m EXCEPT !.state = "select_slave"]
        /\ m \in {[x.m EXCEPT !.state = "select_slave"], AbortFailover(x.m), x.m}
        /\ AskOthers(s, m, x.epoch)
        /\ elected' = IF IsLeader(s, x.epoch, x.m.failover_epoch)
                      THEN elected \cup {<<s, m.failover_epoch, x.epoch>>} ELSE elected
  BY <1>1, Zenon
<1>7. VotesReported'
  <2>1. m \in MasterRecord
    BY <1>2, <1>6, AbortType DEF MasterRecord, States
  <2>2. \A t, o \in Sentinel : peer'[t][o] \in {peer[t][o], NoInfo}
    BY <1>0, <1>2, <1>6, <2>1, AskOthersType, Zenon
  <2>3. ASSUME NEW t \in Sentinel, NEW o \in Sentinel, peer'[t][o].leader # Nobody
        PROVE  <<o, peer'[t][o].epoch, peer'[t][o].leader>> \in votes'
    <3>1. peer'[t][o] = peer[t][o]
      BY <2>2, <2>3 DEF NoInfo
    <3>2. peer[t][o].leader # Nobody => <<o, peer[t][o].epoch, peer[t][o].leader>> \in votes
      BY Zenon DEF VoteInv, VotesReported
    <3> QED
      BY <1>5, <2>3, <3>1, <3>2, Zenon
  <2> QED
    BY <1>5, <2>3, Zenon DEF VotesReported
<1>8. ElectedByMajority'
  <2> SUFFICES ASSUME NEW y \in elected', y[2] = y[3] PROVE Majority(y[2], y[1])'
    BY Zenon DEF ElectedByMajority
  <2>1. CASE y \in elected
    <3>1. Majority(y[2], y[1])
      BY <2>1, Zenon DEF VoteInv, ElectedByMajority
    <3> QED
      BY <1>5, <3>1, MajorityKept, Zenon
  <2>2. CASE y \notin elected
    <3>1. /\ IsLeader(s, x.epoch, x.m.failover_epoch)
          /\ y = <<s, m.failover_epoch, x.epoch>>
          /\ m = [x.m EXCEPT !.state = "select_slave"]
      BY <1>6, <2>2, Zenon
    <3>2. m.failover_epoch = x.m.failover_epoch
      BY <1>2, <3>1 DEF MasterRecord
    <3>3. y[1] = s /\ y[2] = x.epoch /\ x.m.failover_epoch = x.epoch
      BY <3>1, <3>2, Zenon
    <3>4. Majority(x.epoch, s)'
      BY <1>2, <1>5, <3>1, <3>3, LeaderHasMajority, Zenon
    <3> QED
      BY <3>3, <3>4, Zenon
  <2> QED
    BY <2>1, <2>2, Zenon
<1> QED
  BY <1>0, <1>5, <1>7, <1>8, Zenon DEF VoteInv

LEMMA IsMasterDownVotes ==
    ASSUME VoteInv, NEW s \in Sentinel, NEW o \in Sentinel, NEW arrives \in BOOLEAN,
           IsMasterDownByAddr(s, o, arrives)
    PROVE  VoteInv'
<1> DEFINE voting == ask[s].addr = mon[o].addr /\ ask[s].runid # Nobody
           down == ask[s].addr = mon[o].addr /\ mon[o].sdown
           info == IF voting /\ leader'[o] # Nobody
                   THEN [down |-> down, leader |-> leader'[o], epoch |-> leader_epoch'[o]]
                   ELSE [peer[s][o] EXCEPT !.down = down]
<1>0. TypeOK /\ TypeOK' /\ peer \in [Sentinel -> [Sentinel -> PeerRecord]] /\ peer[s][o] \in PeerRecord
  <2>1. TypeOK
    BY Zenon DEF VoteInv
  <2>2. TypeOK'
    BY <2>1, IsMasterDownType
  <2>3. peer \in [Sentinel -> [Sentinel -> PeerRecord]]
    BY <2>1, Zenon DEF TypeOK
  <2> QED
    BY <2>1, <2>2, <2>3, Zenon
<1>1. /\ ask[s].epoch \in Nat
      /\ voting => ask[s].runid \in Sentinel
  BY <1>0, RequestType, Zenon DEF IsMasterDownByAddr
<1>2. mon[o] \in MasterRecord /\ HasPromoted(mon[o]) /\ current_epoch[o] \in Nat
  BY <1>0, Zenon DEF TypeOK
<1>3. /\ OneVotePerEpoch' /\ VotesKept' /\ votes \subseteq votes'
      /\ \A t \in Sentinel : leader'[t] # Nobody => <<t, leader_epoch'[t], leader'[t]>> \in votes'
  <2>1. CASE voting
    <3>1. VoteLeader(o, mon[o], current_epoch[o], ask[s].epoch, ask[s].runid)
      BY <2>1, Zenon DEF IsMasterDownByAddr
    <3> QED
      BY <1>1, <1>2, <2>1, <3>1, CastVote, Zenon
  <2>2. CASE ~voting
    <3>1. UNCHANGED <<leader, leader_epoch, votes, conf>>
      BY <2>2, Zenon DEF IsMasterDownByAddr
    <3> QED
      BY <3>1, Zenon DEF VoteInv, OneVotePerEpoch, VotesKept, VotesReported
  <2> QED
    BY <2>1, <2>2, Zenon
<1>4. info.leader # Nobody => <<o, info.epoch, info.leader>> \in votes'
  <2>1. CASE voting /\ leader'[o] # Nobody
    BY <1>3, <2>1, Zenon
  <2>2. CASE ~(voting /\ leader'[o] # Nobody)
    <3>1. info.leader = peer[s][o].leader /\ info.epoch = peer[s][o].epoch
      BY <1>0, <2>2, Zenon DEF PeerRecord
    <3> QED
      BY <1>3, <3>1, Zenon DEF VoteInv, VotesReported
  <2> QED
    BY <2>1, <2>2, Zenon
<1>5. peer' = peer \/ peer' = [peer EXCEPT ![s][o] = info]
  BY Zenon DEF IsMasterDownByAddr
<1>6. VotesReported'
  <2> HIDE DEF info
  <2>1. ASSUME NEW t \in Sentinel, NEW p \in Sentinel, peer'[t][p].leader # Nobody
        PROVE  <<p, peer'[t][p].epoch, peer'[t][p].leader>> \in votes'
    <3>1. peer'[t][p] = peer[t][p] \/ (t = s /\ p = o /\ peer'[t][p] = info)
      BY <1>0, <1>5
    <3> QED
      BY <1>3, <1>4, <2>1, <3>1, Zenon DEF VoteInv, VotesReported
  <2> QED
    BY <1>3, <2>1, Zenon DEF VotesReported
<1>7. ElectedByMajority'
  <2>1. UNCHANGED elected
    BY Zenon DEF IsMasterDownByAddr
  <2>2. \A x \in elected : x[2] = x[3] => Majority(x[2], x[1])
    BY Zenon DEF VoteInv, ElectedByMajority
  <2> QED
    BY <1>3, <2>1, <2>2, MajorityKept, Zenon DEF ElectedByMajority
<1> QED
  BY <1>0, <1>3, <1>6, <1>7, Zenon DEF VoteInv

LEMMA HelloVotes ==
    ASSUME VoteInv, NEW s \in Sentinel, NEW o \in Sentinel, ProcessHello(s, o) PROVE VoteInv'
<1>0. TypeOK /\ TypeOK'
  BY HelloType, Zenon DEF VoteInv
<1>1. UNCHANGED <<leader_epoch, peer, votes, elected>>
  BY Zenon DEF ProcessHello
<1>2. leader' = leader \/ leader' = [leader EXCEPT ![o] = Nobody]
  BY Zenon DEF ProcessHello
<1>3. PICK m, e : conf' = conf \/ conf' = [conf EXCEPT ![o] = Flushed(m, e, leader_epoch[o])]
  BY Zenon DEF ProcessHello
<1>4. \A t \in Sentinel : conf'[t].leader_epoch \in {leader_epoch[t], conf[t].leader_epoch}
  <2>1. Flushed(m, e, leader_epoch[o]).leader_epoch = leader_epoch[o]
    BY Zenon DEF Flushed
  <2> QED
    BY <1>0, <1>3, <2>1 DEF TypeOK
<1>5. \A t \in Sentinel : leader'[t] # Nobody => leader'[t] = leader[t]
  BY <1>0, <1>2, Zenon DEF TypeOK
<1> QED
  BY <1>0, <1>1, <1>4, <1>5, KeepVotes, Zenon

\* The other states of the timer: answers may be forgotten, and the end of a
\* failover saves the configuration.
LEMMA TimerVotes ==
    ASSUME VoteInv, NEW s \in Sentinel, TypeOK',
           \/ Watch(s) \/ FailoverSelectSlave(s) \/ FailoverSendSlaveOfNoOne(s)
           \/ \E timedOut \in BOOLEAN : FailoverWaitPromotion(s, timedOut) \/ FailoverReconfSlaves(s, timedOut)
    PROVE  VoteInv'
<1>0. TypeOK
  BY Zenon DEF VoteInv
<1>1. UNCHANGED <<leader_epoch, votes, elected>>
  BY Zenon DEF Watch, FailoverSelectSlave, FailoverSendSlaveOfNoOne, FailoverWaitPromotion,
               FailoverReconfSlaves
<1>2. \E m, e : AskOthers(s, m, e)
  <2>1. CASE Watch(s)
    BY <2>1, Zenon DEF Watch
  <2>2. CASE FailoverSelectSlave(s)
    BY <2>2, Zenon DEF FailoverSelectSlave
  <2>3. CASE FailoverSendSlaveOfNoOne(s)
    BY <2>3, Zenon DEF FailoverSendSlaveOfNoOne
  <2>4. ASSUME NEW timedOut \in BOOLEAN, FailoverWaitPromotion(s, timedOut)
        PROVE  \E m, e : AskOthers(s, m, e)
    BY <2>4, Zenon DEF FailoverWaitPromotion
  <2>5. ASSUME NEW timedOut \in BOOLEAN, FailoverReconfSlaves(s, timedOut)
        PROVE  \E m, e : AskOthers(s, m, e)
    <3>1. PICK x, over, sent : Reconfigure(s, x, over, sent)
      BY <2>5, Zenon DEF FailoverReconfSlaves
    <3>2. AskOthers(s, x.m, x.epoch)
      BY <3>1, Zenon DEF Reconfigure
    <3> QED
      BY <3>2, Zenon
  <2> QED
    BY <2>1, <2>2, <2>3, <2>4, <2>5, Zenon
<1>3. peer' = peer \/ peer' = [peer EXCEPT ![s] = [o \in Sentinel |-> NoInfo]]
  BY <1>2, Zenon DEF AskOthers
<1>4. \A t, o \in Sentinel : peer'[t][o] \in {peer[t][o], NoInfo}
  <2>1. peer \in [Sentinel -> [Sentinel -> PeerRecord]]
    BY <1>0, Zenon DEF TypeOK
  <2> QED
    BY <1>3, <2>1
<1>5. /\ \A t \in Sentinel : leader'[t] # Nobody => leader'[t] = leader[t]
      /\ \A t \in Sentinel : conf'[t].leader_epoch \in {leader_epoch[t], conf[t].leader_epoch}
  <2>1. CASE UNCHANGED <<leader, conf>>
    BY <2>1, Zenon
  <2>2. CASE \E timedOut \in BOOLEAN : FailoverReconfSlaves(s, timedOut)
    <3>1. PICK x, over, sent : Reconfigure(s, x, over, sent)
      <4>1. PICK timedOut \in BOOLEAN : FailoverReconfSlaves(s, timedOut)
        BY <2>2, Zenon
      <4> QED
        BY <4>1, Zenon DEF FailoverReconfSlaves
    <3>2. PICK m : /\ leader' = [leader EXCEPT ![s] = IF over THEN Nobody ELSE leader[s]]
                   /\ conf' = IF over THEN [conf EXCEPT ![s] = Flushed(m, x.epoch, leader_epoch[s])]
                              ELSE conf
      BY <3>1, Zenon DEF Reconfigure
    <3>3. Flushed(m, x.epoch, leader_epoch[s]).leader_epoch = leader_epoch[s]
      BY Zenon DEF Flushed
    <3> QED
      BY <1>0, <3>2, <3>3 DEF TypeOK
  <2> QED
    BY <2>1, <2>2, Zenon DEF Watch, FailoverSelectSlave, FailoverSendSlaveOfNoOne, FailoverWaitPromotion
<1> QED
  BY <1>0, <1>1, <1>4, <1>5, KeepVotes, Zenon

LEMMA OtherVotes ==
    ASSUME VoteInv, NEW s \in Sentinel, TypeOK',
           \/ RefreshMaster(s) \/ RefreshPromoted(s) \/ FailoverCommand(s) \/ DelayOver(s)
           \/ \E r \in Redis : \/ RefreshStray(s, r) \/ RefreshReconf(s, r) \/ SlaveOf(s, r)
                               \/ Crash(r) \/ Recover(r)
    PROVE  VoteInv'
<1>0. TypeOK
  BY Zenon DEF VoteInv
<1>1. UNCHANGED <<leader, leader_epoch, peer, votes, elected>>
  BY Zenon DEF RefreshMaster, RefreshPromoted, FailoverCommand, DelayOver, RefreshStray, RefreshReconf,
               SlaveOf, Crash, Recover
<1>2. conf' = conf \/ \E m : conf' = [conf EXCEPT ![s] = Flushed(m, current_epoch[s], leader_epoch[s])]
  BY Zenon DEF RefreshMaster, RefreshPromoted, FailoverCommand, DelayOver, RefreshStray, RefreshReconf,
               SlaveOf, Crash, Recover
<1>3. \A t \in Sentinel : conf'[t].leader_epoch \in {leader_epoch[t], conf[t].leader_epoch}
  <2>1. CASE conf' = conf
    BY <2>1
  <2>2. ASSUME NEW m, conf' = [conf EXCEPT ![s] = Flushed(m, current_epoch[s], leader_epoch[s])]
        PROVE  \A t \in Sentinel : conf'[t].leader_epoch \in {leader_epoch[t], conf[t].leader_epoch}
    BY <1>0, <2>2 DEF Flushed, TypeOK
  <2> QED
    BY <1>2, <2>1, <2>2, Zenon
<1> QED
  BY <1>0, <1>1, <1>3, KeepVotes, Zenon

\* A restarted sentinel goes on with the leader epoch of its configuration file.
LEMMA RestartVotes == ASSUME VoteInv, NEW s \in Sentinel, Restart(s) PROVE VoteInv'
<1>0. TypeOK /\ TypeOK'
  BY RestartType DEF VoteInv
<1>1. /\ UNCHANGED <<votes, elected, conf>>
      /\ leader' = [leader EXCEPT ![s] = Nobody]
      /\ leader_epoch' = [leader_epoch EXCEPT ![s] = conf[s].leader_epoch]
      /\ peer' = [peer EXCEPT ![s] = [o \in Sentinel |-> NoInfo]]
  BY Zenon DEF Restart
<1>2. \A t \in Sentinel :
        /\ leader'[t] # Nobody => leader'[t] = leader[t] /\ leader_epoch'[t] = leader_epoch[t]
        /\ leader_epoch'[t] \in {leader_epoch[t], conf[t].leader_epoch}
  BY <1>0, <1>1, Zenon DEF TypeOK
<1>3. \A t, o \in Sentinel : peer'[t][o] \in {peer[t][o], NoInfo}
  <2>1. peer \in [Sentinel -> [Sentinel -> PeerRecord]]
    BY <1>0, Zenon DEF TypeOK
  <2> QED
    BY <1>1, <2>1
<1> QED
  BY <1>0, <1>1, <1>2, <1>3, KeepVotes, Zenon

LEMMA VoteStep == VoteInv /\ [Next]_vars => VoteInv'
<1> SUFFICES ASSUME VoteInv, [Next]_vars PROVE VoteInv'
  BY Zenon
<1>0. TypeOK'
  BY TypeStep DEF VoteInv
<1>1. CASE UNCHANGED vars
  BY <1>0, <1>1 DEF vars, VoteInv, OneVotePerEpoch, VotesKept, VotesReported, ElectedByMajority, Majority
<1>2. ASSUME NEW s \in Sentinel, Timer(s) PROVE VoteInv'
  BY <1>0, <1>2, TimerVotes, WaitStartVotes, Zenon DEF Timer
<1>3. ASSUME NEW s \in Sentinel, NEW o \in Peers(s),
             \/ \E arrives \in BOOLEAN : IsMasterDownByAddr(s, o, arrives)
             \/ ProcessHello(s, o)
      PROVE  VoteInv'
  BY <1>3, IsMasterDownVotes, HelloVotes, Zenon DEF Peers
<1> QED
  BY <1>0, <1>1, <1>2, <1>3, OtherVotes, RestartVotes, Zenon DEF Next

LEMMA VoteInductive == Spec => []VoteInv
BY InitVotes, VoteStep, PTL DEF Spec

\* No sentinel votes for two candidates in one epoch (sentinelVoteLeader), however
\* often it restarts and whatever it is asked.
THEOREM VotesOnce == Spec => []OneVotePerEpoch
<1>1. VoteInv => OneVotePerEpoch
  BY Zenon DEF VoteInv
<1> QED
  BY <1>1, VoteInductive, PTL

\* Two sentinels that sentinelGetLeader made leaders in the epoch of their failover
\* are one if the epoch is: their majorities share a voter.
THEOREM OneLeader == Spec => []LeaderUnique
<1>1. VoteInv => LeaderUnique
  <2> SUFFICES ASSUME VoteInv, NEW x \in elected, NEW y \in elected,
                      x[2] = x[3], y[2] = y[3], x[2] = y[2]
               PROVE  x[1] = y[1]
    BY Zenon DEF LeaderUnique
  <2>1. PICK Q \in SUBSET Sentinel :
          /\ Cardinality(Q) + Cardinality(Q) > Cardinality(Sentinel)
          /\ \A o \in Q : <<o, x[2], x[1]>> \in votes
    BY Zenon DEF VoteInv, ElectedByMajority, Majority
  <2>2. PICK R \in SUBSET Sentinel :
          /\ Cardinality(R) + Cardinality(R) > Cardinality(Sentinel)
          /\ \A o \in R : <<o, y[2], y[1]>> \in votes
    BY DEF VoteInv, ElectedByMajority, Majority
  <2>3. /\ Cardinality(Q) \in Nat /\ Cardinality(R) \in Nat /\ Cardinality(Sentinel) \in Nat
    BY SentinelAssumption, FS_Subset, FS_CardinalityType, Zenon
  <2>4. Cardinality(Q) + Cardinality(R) > Cardinality(Sentinel)
    BY <2>1, <2>2, <2>3
  <2>5. Q \cap R # {}
    BY <2>4, SentinelAssumption, FS_MajoritiesIntersect, Zenon
  <2>6. PICK o \in Sentinel : o \in Q /\ o \in R
    BY <2>5, Zenon
  <2>7. <<o, x[2], x[1]>> \in votes /\ <<o, x[2], y[1]>> \in votes
    BY <2>1, <2>2, <2>6, Zenon
  <2> QED
    BY <2>7, Zenon DEF VoteInv, OneVotePerEpoch
<1> QED
  BY <1>1, VoteInductive, PTL

=============================================================================
