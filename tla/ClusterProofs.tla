--------------------------- MODULE ClusterProofs ---------------------------
(***************************************************************************)
(* Proofs about Cluster, for any nodes, slots, links, timeouts, restarts   *)
(* and commands.                                                           *)
(***************************************************************************)
EXTENDS Cluster, WellFoundedInduction, TLAPS

(***************************************************************************)
(* Sound tables, files and packets.                                        *)
(***************************************************************************)

\* No epoch of a table or of a file is ahead of its currentEpoch, the epoch of
\* the last vote included ...
NoneAhead(v) ==
    /\ v.lastVoteEpoch <= v.currentEpoch
    /\ \A m \in Node : v.configEpoch[m] <= v.currentEpoch

\* ... and a node that is a replica in its own table owns no slot in it.
OwnsNothing(v, me) == v.slaveof[me] # None => \A s \in Slot : v.slots[s] # me

Sound(v, me) == v \in Table /\ NoneAhead(v) /\ OwnsNothing(v, me)
SoundFile(d, me) == d \in File /\ NoneAhead(d) /\ OwnsNothing(d, me)

\* A packet comes from another node, and its epochs are not ahead either.
SoundHeader(h, to) == h \in Header /\ h.from # to /\ h.configEpoch <= h.currentEpoch

SoundPacket(msg) ==
    /\ Packet(msg) /\ SoundHeader(msg.hdr, msg.to)
    /\ msg.type = "update" => msg.arg.configEpoch <= msg.hdr.currentEpoch

(***************************************************************************)
(* Numbers.                                                                *)
(***************************************************************************)

LEMMA LeastNat == ASSUME NEW S \in SUBSET Nat, S # {} PROVE \E n \in S : \A m \in S : n <= m
<1> DEFINE R == OpToRel(<, Nat)
<1>1. IsWellFoundedOn(R, Nat)
  BY NatLessThanWellFounded, ZenonT(30)
<1>2. \A x, y \in Nat : x < y => <<x, y>> \in R
  BY SMT DEF OpToRel
<1> HIDE DEF R
<1>3. PICK x \in S : \A y \in S : ~(<<y, x>> \in R)
  BY <1>1, WFMin, ZenonT(30)
<1>4. \A y \in S : x <= y
  <2> TAKE y \in S
  <2>1. ~(<<y, x>> \in R)
    BY <1>3, Zenon
  <2>2. x \in Nat /\ y \in Nat
    BY Zenon
  <2>3. ~(y < x)
    BY <1>2, <2>1, <2>2, Zenon
  <2> QED
    BY <2>2, <2>3
<1> QED
  BY <1>4, Zenon

LEMMA MinIsIn == ASSUME NEW S \in SUBSET Nat, S # {} PROVE Min(S) \in S
  BY LeastNat, ZenonT(30) DEF Min

LEMMA MaxIs ==
  ASSUME NEW S \in SUBSET Nat, NEW x \in S, \A y \in S : y <= x
  PROVE  Max(S) = x
<1>1. \A y \in S : x >= y
  BY x \in Nat
<1>2. \A y \in S : (\A z \in S : y >= z) => y = x
  BY <1>1
<1> QED
  BY <1>1, <1>2, ZenonT(30) DEF Max

LEMMA MaxOfTwo ==
  ASSUME NEW x \in Nat, NEW y \in Nat
  PROVE  Max({x, y}) \in Nat /\ Max({x, y}) >= x /\ Max({x, y}) >= y /\ Max({x, y}) \in {x, y}
<1>1. CASE x >= y
  <2>1. Max({x, y}) = x
    BY <1>1, MaxIs
  <2> QED
    BY <1>1, <2>1
<1>2. CASE x < y
  <2>1. Max({x, y}) = y
    BY <1>2, MaxIs
  <2> QED
    BY <1>2, <2>1
<1> QED
  BY <1>1, <1>2

\* A bounded set of numbers has a greatest one.
LEMMA MaxOfBounded ==
  ASSUME NEW b \in Nat, NEW S \in SUBSET (0..b), S # {}
  PROVE  Max(S) \in S /\ \A y \in S : y <= Max(S)
<1> DEFINE T == {b - y : y \in S}
<1>1. T \in SUBSET Nat /\ T # {}
  <2>1. \A y \in S : b - y \in Nat
    OBVIOUS
  <2>2. PICK y \in S : TRUE
    BY ZenonT(30)
  <2>3. b - y \in T
    BY Zenon
  <2> QED
    BY <2>1, <2>3, Zenon
<1> HIDE DEF T
<1>2. PICK t \in T : \A u \in T : t <= u
  BY <1>1, LeastNat, Zenon
<1>3. PICK x \in S : t = b - x
  BY <1>2, Zenon DEF T
<1>4. \A y \in S : b - y \in T
  BY Zenon DEF T
<1>5. \A y \in S : y <= x
  BY <1>2, <1>3, <1>4
<1>6. S \in SUBSET Nat
  OBVIOUS
<1>7. Max(S) = x
  BY <1>5, <1>6, MaxIs, Zenon
<1> QED
  BY <1>5, <1>7, Zenon

(***************************************************************************)
(* The fields of a table.                                                  *)
(***************************************************************************)

\* w differs from v at most in fields the invariant does not mention.
Alike(v, w) ==
    /\ w.currentEpoch = v.currentEpoch /\ w.lastVoteEpoch = v.lastVoteEpoch
    /\ w.slaveof = v.slaveof /\ w.configEpoch = v.configEpoch /\ w.slots = v.slots

\* A field of a table may take any value of its type, and the others keep theirs.
LEMMA CurrentEpochField ==
  ASSUME NEW v \in Table, NEW x \in Nat, NEW w, w = [v EXCEPT !.currentEpoch = x]
  PROVE  /\ w \in Table /\ w.currentEpoch = x /\ w.lastVoteEpoch = v.lastVoteEpoch
         /\ w.slaveof = v.slaveof /\ w.configEpoch = v.configEpoch /\ w.slots = v.slots
  BY Zenon DEF Table

LEMMA LastVoteField ==
  ASSUME NEW v \in Table, NEW x \in Nat, NEW w, w = [v EXCEPT !.lastVoteEpoch = x]
  PROVE  /\ w \in Table /\ w.currentEpoch = v.currentEpoch /\ w.lastVoteEpoch = x
         /\ w.slaveof = v.slaveof /\ w.configEpoch = v.configEpoch /\ w.slots = v.slots
  BY Zenon DEF Table

LEMMA SlaveofField ==
  ASSUME NEW v \in Table, NEW x \in Roles, NEW w, w = [v EXCEPT !.slaveof = x]
  PROVE  /\ w \in Table /\ w.currentEpoch = v.currentEpoch /\ w.lastVoteEpoch = v.lastVoteEpoch
         /\ w.slaveof = x /\ w.configEpoch = v.configEpoch /\ w.slots = v.slots
  BY Zenon DEF Table

LEMMA ConfigEpochField ==
  ASSUME NEW v \in Table, NEW x \in Epochs, NEW w, w = [v EXCEPT !.configEpoch = x]
  PROVE  /\ w \in Table /\ w.currentEpoch = v.currentEpoch /\ w.lastVoteEpoch = v.lastVoteEpoch
         /\ w.slaveof = v.slaveof /\ w.configEpoch = x /\ w.slots = v.slots
  BY Zenon DEF Table

LEMMA SlotsField ==
  ASSUME NEW v \in Table, NEW x \in Owners, NEW w, w = [v EXCEPT !.slots = x]
  PROVE  /\ w \in Table /\ w.currentEpoch = v.currentEpoch /\ w.lastVoteEpoch = v.lastVoteEpoch
         /\ w.slaveof = v.slaveof /\ w.configEpoch = v.configEpoch /\ w.slots = x
  BY Zenon DEF Table

LEMMA FlagField ==
  ASSUME NEW v \in Table, NEW x \in [Node -> Flag], NEW w, w = [v EXCEPT !.flag = x]
  PROVE  w \in Table /\ Alike(v, w)
  BY Zenon DEF Table, Alike

LEMMA UnclaimingField ==
  ASSUME NEW v \in Table, NEW x \in SUBSET Slot, NEW w, w = [v EXCEPT !.unclaiming = x]
  PROVE  w \in Table /\ Alike(v, w)
  BY Zenon DEF Table, Alike

LEMMA ReportsField ==
  ASSUME NEW v \in Table, NEW x \in [Node -> SUBSET Node], NEW w, w = [v EXCEPT !.reports = x]
  PROVE  w \in Table /\ Alike(v, w)
  BY Zenon DEF Table, Alike

LEMMA MasterhostField ==
  ASSUME NEW v \in Table, NEW x \in Node \cup {None}, NEW w, w = [v EXCEPT !.masterhost = x]
  PROVE  w \in Table /\ Alike(v, w)
  BY Zenon DEF Table, Alike

LEMMA MfField ==
  ASSUME NEW v \in Table, NEW x \in BOOLEAN, NEW w, w = [v EXCEPT !.mf = x]
  PROVE  w \in Table /\ Alike(v, w)
  BY Zenon DEF Table, Alike

LEMMA SentField ==
  ASSUME NEW v \in Table, NEW x \in BOOLEAN, NEW w, w = [v EXCEPT !.failover_auth_sent = x]
  PROVE  w \in Table /\ Alike(v, w)
  BY Zenon DEF Table, Alike

LEMMA CountField ==
  ASSUME NEW v \in Table, NEW x \in Nat, NEW w, w = [v EXCEPT !.failover_auth_count = x]
  PROVE  w \in Table /\ Alike(v, w)
  BY Zenon DEF Table, Alike

LEMMA AuthEpochField ==
  ASSUME NEW v \in Table, NEW x \in Nat, NEW w, w = [v EXCEPT !.failover_auth_epoch = x]
  PROVE  w \in Table /\ Alike(v, w)
  BY Zenon DEF Table, Alike

LEMMA OldField ==
  ASSUME NEW v \in Table, NEW x \in BOOLEAN, NEW w, w = [v EXCEPT !.old = x]
  PROVE  w \in Table /\ Alike(v, w)
  BY Zenon DEF Table, Alike

LEMMA AboutField ==
  ASSUME NEW v \in Table, NEW x \in Node \cup {None}, NEW w, w = [v EXCEPT !.about = x]
  PROVE  w \in Table /\ Alike(v, w)
  BY Zenon DEF Table, Alike

LEMMA RejoiningField ==
  ASSUME NEW v \in Table, NEW x \in BOOLEAN, NEW w, w = [v EXCEPT !.rejoining = x]
  PROVE  w \in Table /\ Alike(v, w)
  BY Zenon DEF Table, Alike

(***************************************************************************)
(* What a handler makes of a table.                                        *)
(***************************************************************************)

LEMMA MasterFacts ==
  ASSUME NEW v \in Table, NEW m \in Node, NEW w, w = clusterSetNodeAsMaster(v, m)
  PROVE  /\ w \in Table /\ w.currentEpoch = v.currentEpoch /\ w.lastVoteEpoch = v.lastVoteEpoch
         /\ w.configEpoch = v.configEpoch /\ w.slots = v.slots
         /\ \A k \in Node : w.slaveof[k] = IF k = m THEN None ELSE v.slaveof[k]
<1> DEFINE x == [v.slaveof EXCEPT ![m] = None]
<1>1. v.slaveof \in Roles
  BY Zenon DEF Table
<1>2. x \in Roles /\ \A k \in Node : x[k] = IF k = m THEN None ELSE v.slaveof[k]
  BY <1>1, Zenon DEF Roles
<1>3. w = [v EXCEPT !.slaveof = x]
  BY Zenon DEF clusterSetNodeAsMaster
<1> HIDE DEF x
<1> QED
  BY <1>2, <1>3, SlaveofField

LEMMA RebindFacts ==
  ASSUME NEW v \in Table, NEW ss, NEW m \in Node \cup {None}, NEW w, w = Rebind(v, ss, m)
  PROVE  /\ w \in Table /\ w.currentEpoch = v.currentEpoch /\ w.lastVoteEpoch = v.lastVoteEpoch
         /\ w.slaveof = v.slaveof /\ w.configEpoch = v.configEpoch
         /\ \A s \in Slot : w.slots[s] = IF s \in ss THEN m ELSE v.slots[s]
<1> DEFINE x == [s \in Slot |-> IF s \in ss THEN m ELSE v.slots[s]]
           y == v.unclaiming \ ss
           u == [v EXCEPT !.slots = x]
<1>1. v.slots \in Owners /\ v.unclaiming \in SUBSET Slot
  BY Zenon DEF Table
<1>2. x \in Owners /\ \A s \in Slot : x[s] = IF s \in ss THEN m ELSE v.slots[s]
  BY <1>1, Zenon DEF Owners
<1>3. y \in SUBSET Slot
  BY <1>1, Zenon
<1>4. w = [v EXCEPT !.slots = x, !.unclaiming = y]
  BY Zenon DEF Rebind
<1> HIDE DEF x, y
<1>5. w = [u EXCEPT !.unclaiming = y]
  BY <1>4, Zenon
<1>6. /\ u \in Table /\ u.currentEpoch = v.currentEpoch /\ u.lastVoteEpoch = v.lastVoteEpoch
      /\ u.slaveof = v.slaveof /\ u.configEpoch = v.configEpoch /\ u.slots = x
  BY <1>2, SlotsField
<1> HIDE DEF u
<1>7. w \in Table /\ Alike(u, w)
  BY <1>3, <1>5, <1>6, UnclaimingField, Zenon
<1> QED
  BY <1>2, <1>6, <1>7, Zenon DEF Alike

LEMMA SetMasterFacts ==
  ASSUME NEW v \in Table, NEW me \in Node, NEW m \in Node, NEW w, w = clusterSetMaster(v, me, m)
  PROVE  /\ w \in Table /\ w.currentEpoch = v.currentEpoch /\ w.lastVoteEpoch = v.lastVoteEpoch
         /\ w.configEpoch = v.configEpoch /\ w.slots = v.slots
         /\ \A k \in Node : w.slaveof[k] = IF k = me THEN m ELSE v.slaveof[k]
<1> DEFINE x == [v.slaveof EXCEPT ![me] = m]
           u == [v EXCEPT !.slaveof = x]
           t == [u EXCEPT !.masterhost = m]
<1>1. v.slaveof \in Roles
  BY Zenon DEF Table
<1>2. x \in Roles /\ \A k \in Node : x[k] = IF k = me THEN m ELSE v.slaveof[k]
  BY <1>1, Zenon DEF Roles
<1>3. w = [[v EXCEPT !.slaveof = x, !.masterhost = m] EXCEPT !.mf = FALSE]
  BY Zenon DEF clusterSetMaster, resetManualFailover
<1> HIDE DEF x
<1>4. w = [t EXCEPT !.mf = FALSE]
  BY <1>3, Zenon
<1>5. /\ u \in Table /\ u.currentEpoch = v.currentEpoch /\ u.lastVoteEpoch = v.lastVoteEpoch
      /\ u.slaveof = x /\ u.configEpoch = v.configEpoch /\ u.slots = v.slots
  BY <1>2, SlaveofField
<1> HIDE DEF u
<1>6. t \in Table /\ Alike(u, t)
  BY <1>5, MasterhostField, Zenon
<1> HIDE DEF t
<1>7. w \in Table /\ Alike(t, w)
  BY <1>4, <1>6, MfField, ZenonT(30)
<1> QED
  BY <1>2, <1>5, <1>6, <1>7 DEF Alike

\* A step of a table: it stays sound, its epoch does not go back, and it does not
\* vote.
Steps(v, w, me) ==
    Sound(w, me) /\ w.lastVoteEpoch = v.lastVoteEpoch /\ w.currentEpoch >= v.currentEpoch

LEMMA EpochType ==
  ASSUME NEW v \in Table
  PROVE  /\ v.currentEpoch \in Nat /\ v.lastVoteEpoch \in Nat
         /\ \A m \in Node : v.configEpoch[m] \in Nat /\ v.slaveof[m] \in Node \cup {None}
         /\ \A s \in Slot : v.slots[s] \in Node \cup {None}
  BY Zenon DEF Table, Epochs, Roles, Owners

LEMMA StepsTransitive ==
  ASSUME NEW me, NEW u, NEW v, NEW w, Sound(u, me), Steps(u, v, me), Steps(v, w, me)
  PROVE  Steps(u, w, me)
<1>1. u.currentEpoch \in Nat /\ v.currentEpoch \in Nat /\ w.currentEpoch \in Nat
  BY EpochType, Zenon DEF Steps, Sound
<1> QED
  BY <1>1 DEF Steps

LEMMA StepsReflexive ==
  ASSUME NEW me, NEW v, Sound(v, me) PROVE Steps(v, v, me)
  BY EpochType DEF Steps, Sound

LEMMA AlikeSteps ==
  ASSUME NEW me, NEW v, Sound(v, me), NEW w \in Table, Alike(v, w)
  PROVE  Steps(v, w, me)
  BY EpochType DEF Steps, Sound, Alike, NoneAhead, OwnsNothing

\* One entry of the table.
SetRole(v, k, x) == [v EXCEPT !.slaveof[k] = x]
SetConfigEpoch(v, k, e) == [v EXCEPT !.configEpoch[k] = e]

LEMMA RoleSteps ==
  ASSUME NEW me \in Node, NEW v, Sound(v, me), NEW k \in Node, k # me, NEW x \in Node \cup {None}
  PROVE  Steps(v, SetRole(v, k, x), me)
<1> DEFINE y == [v.slaveof EXCEPT ![k] = x]
<1>1. v \in Table /\ v.slaveof \in Roles
  BY Zenon DEF Sound, Table
<1>2. y \in Roles /\ y[me] = v.slaveof[me]
  BY <1>1, Zenon DEF Roles
<1>3. SetRole(v, k, x) = [v EXCEPT !.slaveof = y]
  BY Zenon DEF SetRole
<1> HIDE DEF y
<1>4. PICK u : u = [v EXCEPT !.slaveof = y]
  BY ZenonT(30)
<1>5. /\ u \in Table /\ u.currentEpoch = v.currentEpoch /\ u.lastVoteEpoch = v.lastVoteEpoch
      /\ u.slaveof = y /\ u.configEpoch = v.configEpoch /\ u.slots = v.slots
  BY <1>1, <1>2, <1>4, SlaveofField
<1>6. Steps(v, u, me)
  BY <1>1, <1>2, <1>5, EpochType DEF Steps, Sound, NoneAhead, OwnsNothing
<1> QED
  BY <1>3, <1>4, <1>6, Zenon

LEMMA ConfigEpochSteps ==
  ASSUME NEW me \in Node, NEW v, Sound(v, me), NEW k \in Node, NEW e \in Nat, e <= v.currentEpoch
  PROVE  Steps(v, SetConfigEpoch(v, k, e), me)
<1> DEFINE y == [v.configEpoch EXCEPT ![k] = e]
<1>1. v \in Table /\ v.configEpoch \in Epochs
  BY Zenon DEF Sound, Table
<1>2. y \in Epochs /\ \A m \in Node : y[m] = IF m = k THEN e ELSE v.configEpoch[m]
  BY <1>1, Zenon DEF Epochs
<1>3. SetConfigEpoch(v, k, e) = [v EXCEPT !.configEpoch = y]
  BY Zenon DEF SetConfigEpoch
<1> HIDE DEF y
<1>4. PICK u : u = [v EXCEPT !.configEpoch = y]
  BY ZenonT(30)
<1>5. /\ u \in Table /\ u.currentEpoch = v.currentEpoch /\ u.lastVoteEpoch = v.lastVoteEpoch
      /\ u.slaveof = v.slaveof /\ u.configEpoch = y /\ u.slots = v.slots
  BY <1>1, <1>2, <1>4, ConfigEpochField
<1>6. Steps(v, u, me)
  BY <1>1, <1>2, <1>5, EpochType DEF Steps, Sound, NoneAhead, OwnsNothing
<1> QED
  BY <1>3, <1>4, <1>6, Zenon

LEMMA CurrentEpochSteps ==
  ASSUME NEW me \in Node, NEW v, Sound(v, me), NEW e \in Nat, e >= v.currentEpoch,
         NEW w, w = [v EXCEPT !.currentEpoch = e]
  PROVE  Steps(v, w, me) /\ w.currentEpoch = e
<1>1. v \in Table
  BY Zenon DEF Sound
<1>2. /\ w \in Table /\ w.currentEpoch = e /\ w.lastVoteEpoch = v.lastVoteEpoch
      /\ w.slaveof = v.slaveof /\ w.configEpoch = v.configEpoch /\ w.slots = v.slots
  BY <1>1, CurrentEpochField
<1> QED
  BY <1>1, <1>2, EpochType DEF Steps, Sound, NoneAhead, OwnsNothing

LEMMA MasterSteps ==
  ASSUME NEW me \in Node, NEW v, Sound(v, me), NEW m \in Node
  PROVE  Steps(v, clusterSetNodeAsMaster(v, m), me)
<1>1. v \in Table
  BY Zenon DEF Sound
<1>2. PICK w : w = clusterSetNodeAsMaster(v, m)
  BY Zenon
<1>3. /\ w \in Table /\ w.currentEpoch = v.currentEpoch /\ w.lastVoteEpoch = v.lastVoteEpoch
      /\ w.configEpoch = v.configEpoch /\ w.slots = v.slots
      /\ \A k \in Node : w.slaveof[k] = IF k = m THEN None ELSE v.slaveof[k]
  BY <1>1, <1>2, MasterFacts, SMTT(90)
<1>4. Steps(v, w, me)
  BY <1>1, <1>3, EpochType DEF Steps, Sound, NoneAhead, OwnsNothing
<1> QED
  BY <1>2, <1>4, Zenon

LEMMA RebindSteps ==
  ASSUME NEW me \in Node, NEW v, Sound(v, me), NEW ss, NEW m \in Node \cup {None}, m # me
  PROVE  Steps(v, Rebind(v, ss, m), me)
<1>1. v \in Table
  BY Zenon DEF Sound
<1>2. PICK w : w = Rebind(v, ss, m)
  BY Zenon
<1>3. /\ w \in Table /\ w.currentEpoch = v.currentEpoch /\ w.lastVoteEpoch = v.lastVoteEpoch
      /\ w.slaveof = v.slaveof /\ w.configEpoch = v.configEpoch
      /\ \A s \in Slot : w.slots[s] = IF s \in ss THEN m ELSE v.slots[s]
  BY <1>1, <1>2, RebindFacts
<1>4. Steps(v, w, me)
  BY <1>1, <1>3, EpochType DEF Steps, Sound, NoneAhead, OwnsNothing
<1> QED
  BY <1>2, <1>4, Zenon

\* The epochs of a header.
LEMMA UpdateEpochsSteps ==
  ASSUME NEW me \in Node, NEW v, Sound(v, me), NEW h, SoundHeader(h, me)
  PROVE  /\ Steps(v, UpdateEpochs(v, h), me)
         /\ UpdateEpochs(v, h).currentEpoch >= h.currentEpoch
<1> DEFINE e == Max({v.currentEpoch, h.currentEpoch})
           c == Max({v.configEpoch[h.from], h.configEpoch})
           u == [v EXCEPT !.currentEpoch = e]
           w == SetConfigEpoch(u, h.from, c)
<1>1. /\ v \in Table /\ h.from \in Node /\ h.currentEpoch \in Nat /\ h.configEpoch \in Nat
      /\ h.configEpoch <= h.currentEpoch
  BY Zenon DEF Sound, SoundHeader, Header
<1>2. /\ v.currentEpoch \in Nat /\ v.configEpoch[h.from] \in Nat
      /\ v.configEpoch[h.from] <= v.currentEpoch
  BY <1>1, EpochType, Zenon DEF Sound, NoneAhead
<1>3. e \in Nat /\ e >= v.currentEpoch /\ e >= h.currentEpoch
  BY <1>1, <1>2, MaxOfTwo, Zenon
<1>4. c \in Nat /\ c \in {v.configEpoch[h.from], h.configEpoch}
  BY <1>1, <1>2, MaxOfTwo, Zenon
<1>5. UpdateEpochs(v, h) = w
  BY <1>1, Zenon DEF UpdateEpochs, SetConfigEpoch, Table
<1> HIDE DEF e, c
<1>6. Steps(v, u, me) /\ u.currentEpoch = e
  BY <1>3, CurrentEpochSteps, Zenon
<1> HIDE DEF u
<1>7. c <= u.currentEpoch
  BY <1>1, <1>2, <1>3, <1>4, <1>6
<1>8. Steps(u, w, me)
  BY <1>1, <1>4, <1>6, <1>7, ConfigEpochSteps, Zenon DEF Steps
<1>9. w.currentEpoch >= h.currentEpoch
  <2> HIDE DEF w
  <2>1. w.currentEpoch \in Nat /\ w.currentEpoch >= u.currentEpoch
    BY <1>8, EpochType, Zenon DEF Steps, Sound
  <2> QED
    BY <1>1, <1>3, <1>6, <2>1
<1> HIDE DEF w
<1>10. Steps(v, w, me)
  BY <1>6, <1>8, StepsTransitive, Zenon
<1> QED
  BY <1>5, <1>9, <1>10, Zenon

LEMMA FlagSteps ==
  ASSUME NEW me \in Node, NEW v, Sound(v, me), NEW x \in [Node -> Flag]
  PROVE  Steps(v, [v EXCEPT !.flag = x], me)
<1>1. v \in Table
  BY Zenon DEF Sound
<1>2. PICK w : w = [v EXCEPT !.flag = x]
  BY ZenonT(30)
<1>3. w \in Table /\ Alike(v, w)
  BY <1>1, <1>2, FlagField, Zenon
<1>4. Steps(v, w, me)
  BY <1>3, AlikeSteps, Zenon
<1> QED
  BY <1>2, <1>4, Zenon

LEMMA ClearFailureSteps ==
  ASSUME NEW me \in Node, NEW v, Sound(v, me), NEW m \in Node, NEW reply, NEW old
  PROVE  Steps(v, ClearFailure(v, m, reply, old), me)
<1> DEFINE x == [v.flag EXCEPT ![m] = "ok"]
<1>1. v.flag \in [Node -> Flag]
  BY Zenon DEF Sound, Table
<1>2. x \in [Node -> Flag]
  BY <1>1, Zenon DEF Flag
<1>3. ClearFailure(v, m, reply, old) \in {v, [v EXCEPT !.flag = x]}
  BY Zenon DEF ClearFailure
<1> HIDE DEF x
<1>4. Steps(v, [v EXCEPT !.flag = x], me)
  BY <1>2, FlagSteps, Zenon
<1> QED
  BY <1>3, <1>4, StepsReflexive, Zenon

LEMMA MarkFailingSteps ==
  ASSUME NEW me \in Node, NEW v, Sound(v, me), NEW ms
  PROVE  Steps(v, MarkFailing(v, ms), me)
<1> DEFINE x == [m \in Node |-> IF m \in ms THEN "fail" ELSE v.flag[m]]
<1>1. v.flag \in [Node -> Flag]
  BY Zenon DEF Sound, Table
<1>2. x \in [Node -> Flag]
  BY <1>1, Zenon DEF Flag
<1>3. MarkFailing(v, ms) = [v EXCEPT !.flag = x]
  BY Zenon DEF MarkFailing
<1> HIDE DEF x
<1> QED
  BY <1>2, <1>3, FlagSteps

\* The slots of a former master go to its new one, if that is a master now.
Moved(v, ss, m, e) == [Rebind(v, ss, m) EXCEPT !.slaveof[m] = None, !.configEpoch[m] = e]

LEMMA MovedSteps ==
  ASSUME NEW me \in Node, NEW v, Sound(v, me), NEW ss, NEW m \in Node,
         NEW e \in Nat, e <= v.currentEpoch
  PROVE  Steps(v, Moved(v, ss, m, e), me)
<1>1. v \in Table
  BY Zenon DEF Sound
<1>2. PICK r : r = Rebind(v, ss, m)
  BY Zenon
<1>3. /\ r \in Table /\ r.currentEpoch = v.currentEpoch /\ r.lastVoteEpoch = v.lastVoteEpoch
      /\ r.slaveof = v.slaveof /\ r.configEpoch = v.configEpoch
      /\ \A s \in Slot : r.slots[s] = IF s \in ss THEN m ELSE v.slots[s]
  BY <1>1, <1>2, RebindFacts
<1>4. PICK u : u = clusterSetNodeAsMaster(r, m)
  BY Zenon
<1>5. /\ u \in Table /\ u.currentEpoch = r.currentEpoch /\ u.lastVoteEpoch = r.lastVoteEpoch
      /\ u.configEpoch = r.configEpoch /\ u.slots = r.slots
      /\ \A k \in Node : u.slaveof[k] = IF k = m THEN None ELSE r.slaveof[k]
  <2>1. r \in Table
    BY <1>3, Zenon
  <2> QED
    BY <1>4, <2>1, MasterFacts, SMTT(30)
<1>6. Steps(v, u, me)
  BY <1>1, <1>3, <1>5, EpochType DEF Steps, Sound, NoneAhead, OwnsNothing
<1>7. e <= u.currentEpoch
  BY <1>3, <1>5, Zenon
<1>8. Steps(u, SetConfigEpoch(u, m, e), me)
  BY <1>6, <1>7, ConfigEpochSteps, Zenon DEF Steps
<1>9. Steps(v, SetConfigEpoch(u, m, e), me)
  BY <1>6, <1>8, StepsTransitive, Zenon
<1>10. Moved(v, ss, m, e) = [r EXCEPT !.slaveof[m] = None, !.configEpoch[m] = e]
  BY <1>2, Zenon DEF Moved
<1>11. [r EXCEPT !.slaveof[m] = None, !.configEpoch[m] = e] = SetConfigEpoch(u, m, e)
  BY <1>3, <1>4, Zenon DEF clusterSetNodeAsMaster, SetConfigEpoch, Table
<1> QED
  BY <1>9, <1>10, <1>11, Zenon

LEMMA RoleSwitchSteps ==
  ASSUME NEW me \in Node, NEW v, Sound(v, me), NEW h, SoundHeader(h, me),
         v.currentEpoch >= h.currentEpoch
  PROVE  Steps(v, RoleSwitch(v, h), me)
<1>1. /\ h.from \in Node /\ h.from # me /\ h.slaveof \in Node \cup {None}
      /\ h.configEpoch \in Nat /\ h.currentEpoch \in Nat /\ h.configEpoch <= h.currentEpoch
  BY Zenon DEF SoundHeader, Header
<1>2. h.configEpoch <= v.currentEpoch
  BY <1>1, EpochType DEF Sound
<1>3. CASE h.slaveof = None
  <2>1. RoleSwitch(v, h) = clusterSetNodeAsMaster(v, h.from)
    BY <1>3, Zenon DEF RoleSwitch
  <2> QED
    BY <1>1, <2>1, MasterSteps, Zenon
<1>4. CASE h.slaveof # None
  <2>1. h.slaveof \in Node
    BY <1>1, <1>4, Zenon
  <2> DEFINE ss == SlotsOf(v, h.from)
             moved == Moved(v, ss, h.slaveof, h.configEpoch)
  <2>2. PICK u \in {v, Rebind(v, ss, None), moved} : RoleSwitch(v, h) = SetRole(u, h.from, h.slaveof)
    BY <1>4, ZenonT(30) DEF RoleSwitch, SetRole, Moved
  <2>3. Steps(v, moved, me)
    <3> HIDE DEF ss
    <3> QED
      BY <1>1, <1>2, <2>1, MovedSteps, Zenon
  <2>4. None # me
    BY ClusterAssumption, Zenon
  <2>5. Steps(v, Rebind(v, ss, None), me)
    <3> HIDE DEF ss
    <3> QED
      BY <2>4, RebindSteps, Zenon
  <2> HIDE DEF moved, ss
  <2>6. Steps(v, u, me)
    BY <2>2, <2>3, <2>5, StepsReflexive
  <2>7. Steps(u, SetRole(u, h.from, h.slaveof), me)
    BY <1>1, <2>6, RoleSteps, Zenon DEF Steps
  <2>8. Steps(v, SetRole(u, h.from, h.slaveof), me)
    BY <2>6, <2>7, StepsTransitive, Zenon
  <2> QED
    BY <2>2, <2>8, Zenon
<1> QED
  BY <1>3, <1>4, Zenon

LEMMA DemoteSteps ==
  ASSUME NEW me \in Node, NEW v, Sound(v, me), NEW m \in Node, \A s \in Slot : v.slots[s] # me
  PROVE  Steps(v, clusterSetMaster(v, me, m), me)
<1>1. v \in Table
  BY Zenon DEF Sound
<1>2. PICK w : w = clusterSetMaster(v, me, m)
  BY Zenon
<1>3. /\ w \in Table /\ w.currentEpoch = v.currentEpoch /\ w.lastVoteEpoch = v.lastVoteEpoch
      /\ w.configEpoch = v.configEpoch /\ w.slots = v.slots
  BY <1>1, <1>2, SetMasterFacts, SMTT(20)
<1>4. Steps(v, w, me)
  BY <1>1, <1>3, EpochType DEF Steps, Sound, NoneAhead, OwnsNothing
<1> QED
  BY <1>2, <1>4, Zenon

\* A node is only demoted when it owns nothing any more: the assertion of
\* clusterSetMaster.
LEMMA ClaimSteps ==
  ASSUME NEW me \in Node, NEW v, Sound(v, me), NEW sender \in Node, NEW epoch, NEW claimed
  PROVE  Steps(v, clusterUpdateSlotsConfigWith(v, me, sender, epoch, claimed), me)
<1>1. CASE sender = me
  <2>1. clusterUpdateSlotsConfigWith(v, me, sender, epoch, claimed) = v
    BY <1>1, Zenon DEF clusterUpdateSlotsConfigWith
  <2> QED
    BY <2>1, StepsReflexive, Zenon
<1>2. CASE sender # me
  <2> DEFINE curmaster == IF IsMaster(v, me) THEN me ELSE v.slaveof[me]
             bound == {s \in claimed : /\ v.slots[s] # sender
                                       /\ \/ isSlotUnclaimed(v, s)
                                          \/ v.configEpoch[v.slots[s]] < epoch}
             r == Rebind(v, bound, sender)
             x == (r.unclaiming \ {s \in claimed : v.slots[s] = sender})
                      \cup (SlotsOf(v, sender) \ claimed)
             v1 == [r EXCEPT !.unclaiming = x]
             up == v1.slaveof[me]
  <2>1. clusterUpdateSlotsConfigWith(v, me, sender, epoch, claimed) =
            IF SlotsOf(v1, curmaster) = {} /\ \E s \in bound : v.slots[s] = curmaster
            THEN clusterSetMaster(v1, me, sender)
            ELSE IF up # None /\ v1.slaveof[up] \notin {None, me}
            THEN clusterSetMaster(v1, me, v1.slaveof[up])
            ELSE v1
    BY <1>2, ZenonT(30) DEF clusterUpdateSlotsConfigWith
  <2> HIDE DEF bound
  <2>2. Steps(v, r, me)
    BY <1>2, RebindSteps, Zenon
  <2>3. r.slaveof = v.slaveof
    <3>1. v \in Table
      BY Zenon DEF Sound
    <3> QED
      BY <3>1, RebindFacts
  <2> HIDE DEF r
  <2>4. r \in Table /\ Sound(r, me)
    BY <2>2, Zenon DEF Steps, Sound
  <2>5. x \in SUBSET Slot
    <3>1. r.unclaiming \in SUBSET Slot
      BY <2>4, Zenon DEF Table
    <3> QED
      BY <3>1, Zenon DEF SlotsOf
  <2> HIDE DEF x
  <2>6. v1 \in Table /\ Alike(r, v1)
    BY <2>4, <2>5, UnclaimingField, Zenon
  <2> HIDE DEF v1
  <2>7. Steps(r, v1, me)
    BY <2>4, <2>6, AlikeSteps, Zenon
  <2>8. Steps(v, v1, me)
    BY <2>2, <2>7, StepsTransitive
  <2>9. Sound(v1, me) /\ v1.slaveof = v.slaveof
    BY <2>3, <2>6, <2>8, Zenon DEF Alike, Steps
  <2>10. CASE SlotsOf(v1, curmaster) = {} /\ \E s \in bound : v.slots[s] = curmaster
    <3>1. \A s \in Slot : v1.slots[s] # me
      <4>1. CASE v.slaveof[me] = None
        BY <2>10, <4>1, Zenon DEF SlotsOf, IsMaster
      <4>2. CASE v.slaveof[me] # None
        BY <2>9, <4>2, Zenon DEF Sound, OwnsNothing
      <4> QED
        BY <4>1, <4>2
    <3>2. Steps(v1, clusterSetMaster(v1, me, sender), me)
      BY <2>9, <3>1, DemoteSteps
    <3>3. Steps(v, clusterSetMaster(v1, me, sender), me)
      BY <2>8, <3>2, StepsTransitive, Zenon
    <3> QED
      BY <2>1, <2>10, <3>3, Zenon
  <2>11. CASE /\ ~(SlotsOf(v1, curmaster) = {} /\ \E s \in bound : v.slots[s] = curmaster)
              /\ up # None /\ v1.slaveof[up] \notin {None, me}
    <3>1. \A s \in Slot : v1.slots[s] # me
      BY <2>9, <2>11 DEF Sound, OwnsNothing
    <3>2. v1.slaveof[up] \in Node
      <4>1. up \in Node
        BY <2>9, <2>11, EpochType, Zenon DEF Sound
      <4> HIDE DEF up
      <4> QED
        BY <2>9, <2>11, <4>1, EpochType DEF Sound
    <3>3. Steps(v1, clusterSetMaster(v1, me, v1.slaveof[up]), me)
      BY <2>9, <3>1, <3>2, DemoteSteps
    <3>4. Steps(v, clusterSetMaster(v1, me, v1.slaveof[up]), me)
      BY <2>8, <3>3, StepsTransitive, Zenon
    <3> QED
      BY <2>1, <2>11, <3>4, Zenon
  <2>12. CASE /\ ~(SlotsOf(v1, curmaster) = {} /\ \E s \in bound : v.slots[s] = curmaster)
              /\ ~(up # None /\ v1.slaveof[up] \notin {None, me})
    BY <2>1, <2>8, <2>12, Zenon
  <2> QED
    BY <2>10, <2>11, <2>12, Zenon
<1> QED
  BY <1>1, <1>2, Zenon

LEMMA ClaimSlotsSteps ==
  ASSUME NEW me \in Node, NEW v, Sound(v, me), NEW h, SoundHeader(h, me)
  PROVE  Steps(v, ClaimSlots(v, me, h), me)
<1>1. h.from \in Node
  BY Zenon DEF SoundHeader, Header
<1> QED
  BY <1>1, ClaimSteps, StepsReflexive, Zenon DEF ClaimSlots

\* A new epoch for a node.
LEMMA BumpedSteps ==
  ASSUME NEW me \in Node, NEW v, Sound(v, me), NEW e \in Nat
  PROVE  Steps(v, Bumped(v, me, e), me)
<1> DEFINE c == Max({v.currentEpoch, e})
           u == [v EXCEPT !.currentEpoch = c]
<1>1. v \in Table /\ v.currentEpoch \in Nat
  BY EpochType, Zenon DEF Sound
<1>2. c \in Nat /\ c >= v.currentEpoch /\ c >= e
  BY <1>1, MaxOfTwo, Zenon
<1>3. Bumped(v, me, e) = SetConfigEpoch(u, me, e)
  BY <1>1, ZenonT(30) DEF Bumped, SetConfigEpoch, Table
<1> HIDE DEF c
<1>4. Steps(v, u, me) /\ u.currentEpoch = c
  BY <1>2, CurrentEpochSteps
<1> HIDE DEF u
<1>5. Steps(u, SetConfigEpoch(u, me, e), me)
  BY <1>2, <1>4, ConfigEpochSteps, Zenon DEF Steps
<1> QED
  BY <1>3, <1>4, <1>5, StepsTransitive, Zenon

LEMMA CollisionSteps ==
  ASSUME NEW me \in Node, NEW v, Sound(v, me), NEW h
  PROVE  Steps(v, clusterHandleConfigEpochCollision(v, me, h), me)
<1> DEFINE e == v.currentEpoch + 1
           u == [v EXCEPT !.currentEpoch = e]
<1>1. v \in Table /\ v.currentEpoch \in Nat
  BY EpochType, Zenon DEF Sound
<1>2. e \in Nat /\ e >= v.currentEpoch
  BY <1>1
<1>3. clusterHandleConfigEpochCollision(v, me, h) \in {v, SetConfigEpoch(u, me, e)}
  BY <1>1, Zenon DEF clusterHandleConfigEpochCollision, SetConfigEpoch, Table
<1> HIDE DEF e
<1>4. Steps(v, u, me) /\ u.currentEpoch = e
  BY <1>2, CurrentEpochSteps, Zenon
<1> HIDE DEF u
<1>5. Steps(u, SetConfigEpoch(u, me, e), me)
  BY <1>2, <1>4, ConfigEpochSteps DEF Steps
<1>6. Steps(v, SetConfigEpoch(u, me, e), me)
  BY <1>4, <1>5, StepsTransitive, Zenon
<1> QED
  BY <1>3, <1>6, StepsReflexive, Zenon

LEMMA ReportsSteps ==
  ASSUME NEW me \in Node, NEW v, Sound(v, me), NEW x \in [Node -> SUBSET Node]
  PROVE  Steps(v, [v EXCEPT !.reports = x], me)
<1>1. v \in Table
  BY Zenon DEF Sound
<1>2. PICK w : w = [v EXCEPT !.reports = x]
  BY ZenonT(30)
<1>3. w \in Table /\ Alike(v, w)
  BY <1>1, <1>2, ReportsField, Zenon
<1>4. Steps(v, w, me)
  BY <1>3, AlikeSteps, Zenon
<1> QED
  BY <1>2, <1>4, Zenon

LEMMA GossipSteps ==
  ASSUME NEW me \in Node, NEW v, Sound(v, me), NEW from \in Node, NEW gossip
  PROVE  Steps(v, clusterProcessGossipSection(v, me, from, gossip), me)
<1> DEFINE x == [m \in Node |-> IF m \in {me, from} THEN v.reports[m]
                                ELSE IF gossip[m] = "ok" THEN v.reports[m] \ {from}
                                ELSE v.reports[m] \cup {from}]
           u == AddReports(v, me, from, gossip)
           w == MarkFailing(u, Failing(u, me, from, gossip))
<1>1. v.reports \in [Node -> SUBSET Node]
  BY Zenon DEF Sound, Table
<1>2. x \in [Node -> SUBSET Node]
  BY <1>1, Zenon
<1>3. u = [v EXCEPT !.reports = x]
  BY Zenon DEF AddReports
<1>4. clusterProcessGossipSection(v, me, from, gossip) \in {v, w}
  BY Zenon DEF clusterProcessGossipSection
<1> HIDE DEF x, u
<1>5. Steps(v, u, me)
  BY <1>2, <1>3, ReportsSteps, Zenon
<1>6. Steps(u, w, me)
  BY <1>5, MarkFailingSteps, Zenon DEF Steps
<1>7. Steps(v, w, me)
  BY <1>5, <1>6, StepsTransitive, Zenon
<1> QED
  BY <1>4, <1>7, StepsReflexive, Zenon

LEMMA TakeUpdateSteps ==
  ASSUME NEW me \in Node, NEW v, Sound(v, me), NEW u, u.about \in Node, u.configEpoch \in Nat,
         u.configEpoch <= v.currentEpoch
  PROVE  Steps(v, TakeUpdate(v, me, u), me)
<1> DEFINE m == clusterSetNodeAsMaster(v, u.about)
           t == SetConfigEpoch(m, u.about, u.configEpoch)
           w == clusterUpdateSlotsConfigWith(t, me, u.about, u.configEpoch, u.slots)
<1>1. TakeUpdate(v, me, u) \in {v, w}
  BY Zenon DEF TakeUpdate, SetConfigEpoch
<1>2. Steps(v, m, me)
  BY MasterSteps, Zenon
<1>3. u.configEpoch <= m.currentEpoch
  <2> HIDE DEF m
  <2>1. v.currentEpoch \in Nat /\ m.currentEpoch \in Nat
    BY <1>2, EpochType, Zenon DEF Steps, Sound
  <2> QED
    BY <1>2, <2>1 DEF Steps
<1> HIDE DEF m
<1>4. Steps(m, t, me)
  BY <1>2, <1>3, ConfigEpochSteps, Zenon DEF Steps
<1> HIDE DEF t
<1>5. Steps(t, w, me)
  BY <1>4, ClaimSteps, Zenon DEF Steps
<1> HIDE DEF w
<1>6. Steps(v, t, me)
  BY <1>2, <1>4, StepsTransitive, Zenon
<1>7. Steps(v, w, me)
  BY <1>5, <1>6, StepsTransitive, Zenon
<1> QED
  BY <1>1, <1>7, StepsReflexive, Zenon

LEMMA CountVoteSteps ==
  ASSUME NEW me \in Node, NEW v, Sound(v, me), NEW h
  PROVE  Steps(v, CountVote(v, h), me)
<1> DEFINE x == v.failover_auth_count + 1
           w == [v EXCEPT !.failover_auth_count = x]
<1>1. v \in Table /\ v.failover_auth_count \in Nat
  BY Zenon DEF Sound, Table
<1>2. x \in Nat
  BY <1>1
<1>3. CountVote(v, h) \in {v, w}
  BY Zenon DEF CountVote
<1> HIDE DEF x
<1>4. w \in Table /\ Alike(v, w)
  BY <1>1, <1>2, CountField, Zenon
<1> HIDE DEF w
<1>5. Steps(v, w, me)
  BY <1>4, AlikeSteps, Zenon
<1> QED
  BY <1>3, <1>5, StepsReflexive, Zenon

LEMMA NewAttemptSteps ==
  ASSUME NEW me \in Node, NEW v, Sound(v, me)
  PROVE  Steps(v, NewAttempt(v), me)
<1> DEFINE t == [v EXCEPT !.failover_auth_count = 0]
           u == [t EXCEPT !.failover_auth_sent = FALSE]
           w == [u EXCEPT !.old = FALSE]
<1>1. v \in Table
  BY Zenon DEF Sound
<1>2. NewAttempt(v) = w
  BY Zenon DEF NewAttempt
<1>3. t \in Table /\ Alike(v, t)
  BY <1>1, CountField, Zenon
<1> HIDE DEF t
<1>4. u \in Table /\ Alike(t, u)
  BY <1>3, SentField, ZenonT(30)
<1> HIDE DEF u
<1>5. w \in Table /\ Alike(u, w)
  BY <1>4, OldField, ZenonT(30)
<1> HIDE DEF w
<1>6. Alike(v, w)
  BY <1>3, <1>4, <1>5 DEF Alike
<1> QED
  BY <1>2, <1>5, <1>6, AlikeSteps, Zenon

LEMMA CandidateSteps ==
  ASSUME NEW me \in Node, NEW v, Sound(v, me)
  PROVE  Steps(v, Candidate(v, me), me)
<1> DEFINE e == v.currentEpoch + 1
           a == v.slaveof[me]
           s == [v EXCEPT !.currentEpoch = e]
           t == [s EXCEPT !.failover_auth_epoch = e]
           u == [t EXCEPT !.failover_auth_sent = TRUE]
           w == [u EXCEPT !.about = a]
<1>1. v \in Table /\ v.currentEpoch \in Nat /\ a \in Node \cup {None}
  BY EpochType, Zenon DEF Sound
<1>2. e \in Nat /\ e >= v.currentEpoch
  BY <1>1
<1>3. Candidate(v, me) = w
  BY Zenon DEF Candidate
<1> HIDE DEF e, a
<1>4. Steps(v, s, me)
  BY <1>2, CurrentEpochSteps, Zenon
<1> HIDE DEF s
<1>5. t \in Table /\ Alike(s, t)
  BY <1>2, <1>4, AuthEpochField, Zenon DEF Steps, Sound
<1> HIDE DEF t
<1>6. u \in Table /\ Alike(t, u)
  BY <1>5, SentField, ZenonT(30)
<1> HIDE DEF u
<1>7. w \in Table /\ Alike(u, w)
  BY <1>1, <1>6, AboutField, Zenon
<1> HIDE DEF w
<1>8. Alike(s, w)
  BY <1>5, <1>6, <1>7, Zenon DEF Alike
<1>9. Steps(s, w, me)
  BY <1>4, <1>7, <1>8, AlikeSteps DEF Steps
<1> QED
  BY <1>3, <1>4, <1>9, StepsTransitive, Zenon

LEMMA PromotedSteps ==
  ASSUME NEW me \in Node, NEW v, Sound(v, me), NEW e \in Nat
  PROVE  Steps(v, Promoted(v, me, e), me)
<1> DEFINE ss == SlotsOf(v, v.slaveof[me])
           m == clusterSetNodeAsMaster(v, me)
           r == Rebind(m, ss, me)
           s == [r EXCEPT !.masterhost = None]
           t == [s EXCEPT !.mf = FALSE]
           u == [t EXCEPT !.about = None]
<1>1. v \in Table
  BY Zenon DEF Sound
<1>2. Promoted(v, me, e) = Bumped(u, me, e)
  BY Zenon DEF Promoted
<1> HIDE DEF ss
<1>3. Steps(v, m, me)
  BY MasterSteps, Zenon
<1>4. m.slaveof[me] = None
  BY <1>1, MasterFacts
<1> HIDE DEF m
<1>5. m \in Table
  BY <1>3, Zenon DEF Steps, Sound
<1>6. /\ r \in Table /\ r.currentEpoch = m.currentEpoch /\ r.lastVoteEpoch = m.lastVoteEpoch
      /\ r.slaveof = m.slaveof /\ r.configEpoch = m.configEpoch
  BY <1>5, RebindFacts
<1> HIDE DEF r
<1>7. Steps(m, r, me)
  BY <1>3, <1>4, <1>5, <1>6, EpochType DEF Steps, Sound, NoneAhead, OwnsNothing
<1>8. s \in Table /\ Alike(r, s)
  BY <1>6, MasterhostField, Zenon
<1> HIDE DEF s
<1>9. t \in Table /\ Alike(s, t)
  BY <1>8, MfField, ZenonT(30)
<1> HIDE DEF t
<1>10. u \in Table /\ Alike(t, u)
  BY <1>9, AboutField, Zenon
<1> HIDE DEF u
<1>11. Alike(r, u)
  BY <1>8, <1>9, <1>10, Zenon DEF Alike
<1>12. Steps(v, r, me)
  BY <1>3, <1>7, StepsTransitive, Zenon
<1>13. Steps(r, u, me)
  BY <1>7, <1>10, <1>11, AlikeSteps DEF Steps
<1>14. Steps(v, u, me)
  BY <1>12, <1>13, StepsTransitive, Zenon
<1>15. Steps(u, Bumped(u, me, e), me)
  BY <1>14, BumpedSteps, Zenon DEF Steps
<1> QED
  BY <1>2, <1>14, <1>15, StepsTransitive, Zenon

\* A vote, in an epoch the node has not voted in.
LEMMA VoteFacts ==
  ASSUME NEW me \in Node, NEW v, Sound(v, me)
  PROVE  Sound(Vote(v), me) /\ Vote(v).lastVoteEpoch = v.currentEpoch
<1>1. v \in Table /\ v.currentEpoch \in Nat
  BY EpochType, Zenon DEF Sound
<1>2. PICK w : w = Vote(v)
  BY Zenon
<1>3. w = [v EXCEPT !.lastVoteEpoch = v.currentEpoch]
  BY <1>2, Zenon DEF Vote
<1>4. /\ w \in Table /\ w.currentEpoch = v.currentEpoch /\ w.lastVoteEpoch = v.currentEpoch
      /\ w.slaveof = v.slaveof /\ w.configEpoch = v.configEpoch /\ w.slots = v.slots
  BY <1>1, <1>3, LastVoteField
<1>5. Sound(w, me)
  BY <1>1, <1>4 DEF Sound, NoneAhead, OwnsNothing
<1> QED
  BY <1>2, <1>4, <1>5, Zenon

LEMMA MfSteps ==
  ASSUME NEW me \in Node, NEW v, Sound(v, me), NEW b \in BOOLEAN
  PROVE  Steps(v, [v EXCEPT !.mf = b], me)
<1>1. v \in Table
  BY Zenon DEF Sound
<1>2. PICK w : w = [v EXCEPT !.mf = b]
  BY ZenonT(30)
<1>3. w \in Table /\ Alike(v, w)
  BY <1>1, <1>2, MfField, Zenon
<1>4. Steps(v, w, me)
  BY <1>3, AlikeSteps, Zenon
<1> QED
  BY <1>2, <1>4, Zenon

LEMMA OldSteps ==
  ASSUME NEW me \in Node, NEW v, Sound(v, me)
  PROVE  Steps(v, [v EXCEPT !.old = TRUE], me)
<1>1. v \in Table
  BY Zenon DEF Sound
<1>2. PICK w : w = [v EXCEPT !.old = TRUE]
  BY ZenonT(30)
<1>3. w \in Table /\ Alike(v, w)
  BY <1>1, <1>2, OldField, ZenonT(30)
<1>4. Steps(v, w, me)
  BY <1>3, AlikeSteps, Zenon
<1> QED
  BY <1>2, <1>4, Zenon

LEMMA RejoiningSteps ==
  ASSUME NEW me \in Node, NEW v, Sound(v, me)
  PROVE  Steps(v, [v EXCEPT !.rejoining = FALSE], me)
<1>1. v \in Table
  BY Zenon DEF Sound
<1>2. PICK w : w = [v EXCEPT !.rejoining = FALSE]
  BY ZenonT(30)
<1>3. w \in Table /\ Alike(v, w)
  BY <1>1, <1>2, RejoiningField, ZenonT(30)
<1>4. Steps(v, w, me)
  BY <1>3, AlikeSteps, Zenon
<1> QED
  BY <1>2, <1>4, Zenon

(***************************************************************************)
(* Files and packets.                                                      *)
(***************************************************************************)

LEMMA SaveFacts ==
  ASSUME NEW me \in Node, NEW v, Sound(v, me)
  PROVE  /\ clusterSaveConfig(v) \in File /\ SoundFile(clusterSaveConfig(v), me)
         /\ clusterSaveConfig(v).lastVoteEpoch = v.lastVoteEpoch
<1>1. clusterSaveConfig(v) \in File
  BY Zenon DEF Sound, Table, File, clusterSaveConfig
<1> QED
  BY <1>1, Zenon DEF Sound, SoundFile, NoneAhead, OwnsNothing, clusterSaveConfig

\* The epoch a node restarts with is the one it saved.
LEMMA LoadFacts ==
  ASSUME NEW me \in Node, NEW d, SoundFile(d, me)
  PROVE  /\ clusterLoadConfig(me, d) \in Table /\ Sound(clusterLoadConfig(me, d), me)
         /\ clusterLoadConfig(me, d).lastVoteEpoch = d.lastVoteEpoch
<1> DEFINE epochs == [m \in Node |-> IF d.slaveof[m] # None THEN 0 ELSE d.configEpoch[m]]
           S == {d.currentEpoch} \cup {epochs[m] : m \in Node}
           w == clusterLoadConfig(me, d)
<1>1. /\ d.currentEpoch \in Nat /\ d.lastVoteEpoch \in Nat /\ d.slaveof \in Roles
      /\ d.configEpoch \in Epochs /\ d.slots \in Owners /\ d.flag \in [Node -> Flag]
  BY Zenon DEF SoundFile, File
<1>2. d.slaveof[me] \in Node \cup {None}
  BY <1>1, Zenon DEF Roles
<1>3. epochs \in Epochs /\ \A m \in Node : epochs[m] <= d.currentEpoch
  BY <1>1 DEF SoundFile, NoneAhead, Epochs
<1>4. Max(S) = d.currentEpoch
  <2>1. S \in SUBSET Nat /\ d.currentEpoch \in S
    BY <1>1, <1>3, Zenon DEF Epochs
  <2>2. \A y \in S : y <= d.currentEpoch
    BY <1>1, <1>3
  <2> HIDE DEF S
  <2> QED
    BY <2>1, <2>2, MaxIs, ZenonT(30)
<1>5. w = [currentEpoch |-> d.currentEpoch,
           lastVoteEpoch |-> d.lastVoteEpoch, slaveof |-> d.slaveof,
           configEpoch |-> epochs, slots |-> d.slots, flag |-> d.flag,
           unclaiming |-> {}, reports |-> [m \in Node |-> {}],
           masterhost |-> d.slaveof[me], mf |-> FALSE,
           failover_auth_sent |-> FALSE, failover_auth_count |-> 0,
           failover_auth_epoch |-> 0, old |-> TRUE, about |-> None,
           rejoining |-> d.slaveof[me] = None]
  BY <1>4, ZenonT(30) DEF clusterLoadConfig
<1>6. (d.slaveof[me] = None) \in BOOLEAN /\ [m \in Node |-> {}] \in [Node -> SUBSET Node]
  BY Zenon
<1> HIDE DEF epochs, w
<1>7. w \in Table
  BY <1>1, <1>2, <1>3, <1>5, <1>6, Zenon DEF Table
<1>8. /\ w.currentEpoch = d.currentEpoch /\ w.lastVoteEpoch = d.lastVoteEpoch
      /\ w.slaveof = d.slaveof /\ w.configEpoch = epochs /\ w.slots = d.slots
  BY <1>5, Zenon
<1>9. Sound(w, me)
  BY <1>1, <1>3, <1>7, <1>8, Zenon DEF Sound, SoundFile, NoneAhead, OwnsNothing
<1> QED
  BY <1>7, <1>8, <1>9, Zenon DEF w

LEMMA HeaderFacts ==
  ASSUME NEW me \in Node, NEW v, Sound(v, me), NEW to \in Node, to # me
  PROVE  /\ SoundHeader(clusterBuildMessageHdr(v, me), to)
         /\ clusterBuildMessageHdr(v, me).currentEpoch = v.currentEpoch
         /\ clusterBuildMessageHdr(v, me).from = me
<1> DEFINE m == IF IsMaster(v, me) THEN me ELSE v.slaveof[me]
<1>1. v \in Table
  BY Zenon DEF Sound
<1>2. m \in Node /\ v.slaveof[me] \in Node \cup {None}
  BY <1>1, EpochType, Zenon DEF IsMaster
<1>3. SlotsOf(v, m) \in SUBSET Slot
  BY Zenon DEF SlotsOf
<1>4. clusterBuildMessageHdr(v, me) =
        [from |-> me, slaveof |-> v.slaveof[me], currentEpoch |-> v.currentEpoch,
         configEpoch |-> v.configEpoch[m], slots |-> SlotsOf(v, m)]
  BY Zenon DEF clusterBuildMessageHdr
<1> HIDE DEF m
<1>5. /\ v.currentEpoch \in Nat /\ v.configEpoch[m] \in Nat /\ v.configEpoch[m] <= v.currentEpoch
  BY <1>1, <1>2, EpochType, Zenon DEF Sound, NoneAhead
<1> QED
  BY <1>2, <1>3, <1>4, <1>5 DEF SoundHeader, Header

LEMMA MessageFacts ==
  ASSUME NEW me \in Node, NEW v, Sound(v, me), NEW to \in Node, to # me, NEW type, NEW arg,
         NEW msg, msg = Message(type, v, me, to, arg)
  PROVE  /\ msg.type = type /\ msg.to = to /\ msg.arg = arg
         /\ SoundHeader(msg.hdr, msg.to) /\ msg.hdr \in Header /\ msg.hdr.currentEpoch = v.currentEpoch
         /\ msg.hdr.from = me
<1>1. msg = [type |-> type, to |-> to, hdr |-> clusterBuildMessageHdr(v, me), arg |-> arg]
  BY Zenon DEF Message
<1>2. msg.type = type /\ msg.to = to /\ msg.arg = arg /\ msg.hdr = clusterBuildMessageHdr(v, me)
  BY <1>1
<1> QED
  BY <1>2, HeaderFacts DEF SoundHeader

LEMMA BroadcastFacts ==
  ASSUME NEW me \in Node, NEW v, Sound(v, me), NEW arg \in Node
  PROVE  \A msg \in Broadcast("fail", v, me, arg) : SoundPacket(msg)
<1> SUFFICES ASSUME NEW msg \in Broadcast("fail", v, me, arg) PROVE SoundPacket(msg)
  BY Zenon
<1>1. PICK to \in Alive \ {me} : msg = Message("fail", v, me, to, arg)
  BY Zenon DEF Broadcast
<1>2. to \in Node /\ to # me
  BY <1>1, ClusterAssumption, Zenon
<1>3. /\ msg.type = "fail" /\ msg.to = to /\ msg.arg = arg
      /\ SoundHeader(msg.hdr, msg.to) /\ msg.hdr \in Header
  BY <1>1, <1>2, MessageFacts
<1> QED
  BY <1>2, <1>3, Zenon DEF SoundPacket, Packet

LEMMA SendUpdateFacts ==
  ASSUME NEW me \in Node, NEW v, Sound(v, me), NEW h, SoundHeader(h, me)
  PROVE  \A msg \in clusterSendUpdate(v, me, h) : SoundPacket(msg)
<1> SUFFICES ASSUME NEW msg \in clusterSendUpdate(v, me, h) PROVE SoundPacket(msg)
  BY Zenon
<1> DEFINE stale == {s \in h.slots : /\ v.slots[s] # h.from /\ ~isSlotUnclaimed(v, s)
                                     /\ v.configEpoch[v.slots[s]] > h.configEpoch}
           owner == v.slots[Min(stale)]
           arg == [about |-> owner, configEpoch |-> v.configEpoch[owner],
                   slots |-> SlotsOf(v, owner) \ v.unclaiming]
<1>1. stale # {} /\ msg = Message("update", v, me, h.from, arg)
  BY ZenonT(30) DEF clusterSendUpdate
<1>2. h.from \in Node /\ h.from # me /\ h.slots \in SUBSET Slot
  BY Zenon DEF SoundHeader, Header
<1>3. stale \in SUBSET Nat
  BY <1>2, ClusterAssumption, ZenonT(30)
<1>4. Min(stale) \in stale
  <2> HIDE DEF stale
  <2> QED
    BY <1>1, <1>3, MinIsIn, Zenon
<1>5. owner \in Node
  <2>1. v \in Table
    BY Zenon DEF Sound
  <2>2. Min(stale) \in Slot /\ owner # None
    BY <1>2, <1>4, ZenonT(30) DEF isSlotUnclaimed
  <2> QED
    BY <2>1, <2>2, EpochType, ZenonT(30)
<1> HIDE DEF owner
<1>6. /\ v.configEpoch[owner] \in Nat /\ v.configEpoch[owner] <= v.currentEpoch
      /\ SlotsOf(v, owner) \ v.unclaiming \in SUBSET Slot
  BY <1>5, EpochType, Zenon DEF Sound, NoneAhead, SlotsOf
<1>7. /\ arg \in [about : Node, configEpoch : Nat, slots : SUBSET Slot]
      /\ arg.configEpoch <= v.currentEpoch
  BY <1>5, <1>6
<1> HIDE DEF arg, stale
<1>8. /\ msg.type = "update" /\ msg.to = h.from /\ msg.arg = arg
      /\ SoundHeader(msg.hdr, msg.to) /\ msg.hdr \in Header /\ msg.hdr.currentEpoch = v.currentEpoch
  BY <1>1, <1>2, MessageFacts
<1> QED
  BY <1>2, <1>7, <1>8, Zenon DEF SoundPacket, Packet

(***************************************************************************)
(* The inductive invariant.                                                *)
(***************************************************************************)

\* The last vote is in the table and, if the node may restart, in its file.
VotesKnown ==
    \A x \in votes : /\ x[2] <= srv[x[1]].lastVoteEpoch
                     /\ x[1] \in Restarting => x[2] <= disk[x[1]].lastVoteEpoch

ClusterInv ==
    /\ srv \in [Node -> Table] /\ \A n \in Node : Sound(srv[n], n)
    /\ disk \in [Restarting -> File] /\ \A n \in Restarting : SoundFile(disk[n], n)
    /\ \A msg \in net : SoundPacket(msg)
    /\ votes \subseteq Node \X Nat \X Node /\ VotesKnown /\ OneVotePerEpoch

(***************************************************************************)
(* The steps of the cluster.                                               *)
(***************************************************************************)

LEMMA SavedFacts ==
  ASSUME ClusterInv, NEW n \in Node, NEW w, Sound(w, n)
  PROVE  /\ Saved(n, w) \in [Restarting -> File]
         /\ \A m \in Restarting : SoundFile(Saved(n, w)[m], m)
         /\ \A m \in Restarting : Saved(n, w)[m].lastVoteEpoch =
                IF m = n THEN w.lastVoteEpoch ELSE disk[m].lastVoteEpoch
<1>1. PICK d : d = clusterSaveConfig(w)
  BY Zenon
<1>2. d \in File /\ SoundFile(d, n) /\ d.lastVoteEpoch = w.lastVoteEpoch
  BY <1>1, SaveFacts, Zenon
<1>3. Saved(n, w) = IF n \in Restarting THEN [disk EXCEPT ![n] = d] ELSE disk
  BY <1>1, Zenon DEF Saved
<1>4. disk \in [Restarting -> File] /\ \A m \in Restarting : SoundFile(disk[m], m)
  BY Zenon DEF ClusterInv
<1> QED
  BY <1>2, <1>3, <1>4, Zenon

\* A step that gives one node a new table, saves it or not, and does not vote.
LEMMA TableStep ==
  ASSUME ClusterInv, NEW n \in Node, NEW w, Steps(srv[n], w, n), srv' = [srv EXCEPT ![n] = w],
         disk' \in {disk, Saved(n, w)}, \A msg \in net' : SoundPacket(msg), votes' = votes
  PROVE  ClusterInv'
<1>1. Sound(w, n) /\ w \in Table /\ w.lastVoteEpoch = srv[n].lastVoteEpoch
  BY Zenon DEF Steps, Sound
<1>2. srv' \in [Node -> Table] /\ \A m \in Node : srv'[m] = IF m = n THEN w ELSE srv[m]
  BY <1>1, Zenon DEF ClusterInv
<1>3. \A m \in Node : Sound(srv'[m], m) /\ srv'[m].lastVoteEpoch = srv[m].lastVoteEpoch
  BY <1>1, <1>2, SMTT(30) DEF ClusterInv
<1>4. disk' \in [Restarting -> File] /\ \A m \in Restarting : SoundFile(disk'[m], m)
  BY <1>1, SavedFacts, SMTT(30) DEF ClusterInv
<1>5. \A x \in votes : x[1] \in Node /\ x[2] \in Nat
  BY Zenon DEF ClusterInv
<1>6. \A x \in votes : x[2] <= srv'[x[1]].lastVoteEpoch
  BY <1>3, <1>5, Zenon DEF ClusterInv, VotesKnown
<1>7. \A x \in votes : x[1] \in Restarting => x[2] <= disk'[x[1]].lastVoteEpoch
  <2> SUFFICES ASSUME NEW x \in votes, x[1] \in Restarting PROVE x[2] <= disk'[x[1]].lastVoteEpoch
    BY Zenon
  <2>1. x[2] <= disk[x[1]].lastVoteEpoch /\ x[2] <= srv[x[1]].lastVoteEpoch
    BY Zenon DEF ClusterInv, VotesKnown
  <2>2. disk'[x[1]].lastVoteEpoch \in {disk[x[1]].lastVoteEpoch, srv[x[1]].lastVoteEpoch}
    BY <1>1, SavedFacts, SMTT(30)
  <2> QED
    BY <2>1, <2>2, Zenon
<1> QED
  BY <1>2, <1>3, <1>4, <1>6, <1>7 DEF ClusterInv, VotesKnown, OneVotePerEpoch

LEMMA InstallStep ==
  ASSUME ClusterInv, NEW n \in Node, NEW w, Steps(srv[n], w, n), NEW out, Install(n, w, out),
         \A msg \in out : SoundPacket(msg), votes' = votes
  PROVE  ClusterInv'
<1>1. srv' = [srv EXCEPT ![n] = w] /\ disk' \in {disk, Saved(n, w)} /\ net' = out
  BY Zenon DEF Install
<1>2. \A msg \in net' : SoundPacket(msg)
  BY <1>1, Zenon
<1> QED
  BY <1>1, <1>2, TableStep, ZenonT(30)

LEMMA SoundNode == ClusterInv => \A n \in Node : Sound(srv[n], n)
  BY Zenon DEF ClusterInv

LEMMA HeartbeatStep ==
  ASSUME ClusterInv, NEW n \in Node, NEW msg, SoundHeader(msg.hdr, n), NEW reply, NEW old, NEW rest,
         \A x \in rest : SoundPacket(x), Heartbeat(n, msg, reply, old, rest), votes' = votes
  PROVE  ClusterInv'
<1>1. PICK h, v0, v1, v2, v3, v4 :
         /\ h = msg.hdr /\ v0 = UpdateEpochs(srv[n], h)
         /\ v1 = RoleSwitch(ClearFailure(v0, h.from, reply, old), h)
         /\ v2 = ClaimSlots(v1, n, h)
         /\ v3 = clusterHandleConfigEpochCollision(v2, n, h)
         /\ v4 = clusterProcessGossipSection(v3, n, h.from, msg.arg)
         /\ Install(n, v4, rest \cup Corrections(v1, v2, n, h) \cup FailNews(v3, v4, n))
  BY ZenonT(30) DEF Heartbeat
<1>2. h = msg.hdr /\ v0 = UpdateEpochs(srv[n], h)
  BY <1>1, Zenon
<1>3. PICK u : u = ClearFailure(v0, h.from, reply, old)
  BY Zenon
<1>4. v1 = RoleSwitch(u, h)
  BY <1>1, <1>3, Zenon
<1>5. v2 = ClaimSlots(v1, n, h)
  BY <1>1, Zenon
<1>6. v3 = clusterHandleConfigEpochCollision(v2, n, h)
  BY <1>1
<1>7. v4 = clusterProcessGossipSection(v3, n, h.from, msg.arg)
  BY <1>1, Zenon
<1>8. Install(n, v4, rest \cup Corrections(v1, v2, n, h) \cup FailNews(v3, v4, n))
  BY <1>1, Zenon
<1>9. SoundHeader(h, n) /\ h.from \in Node
  BY <1>1 DEF SoundHeader, Header
<1>10. Sound(srv[n], n)
  BY SoundNode, SMTT(30)
<1>11. Steps(srv[n], v0, n) /\ v0.currentEpoch >= h.currentEpoch
  BY <1>2, <1>9, <1>10, UpdateEpochsSteps, Zenon
<1>12. Steps(v0, u, n)
  BY <1>3, <1>9, <1>11, ClearFailureSteps, StepsReflexive, SMTT(90) DEF Steps
<1>13. u.currentEpoch >= h.currentEpoch
  <2>1. u.currentEpoch \in Nat /\ v0.currentEpoch \in Nat /\ h.currentEpoch \in Nat
    BY <1>9, <1>11, <1>12, EpochType, Zenon DEF Steps, Sound, SoundHeader, Header
  <2> QED
    BY <1>11, <1>12, <2>1, SMTT(90) DEF Steps
<1>14. Steps(u, v1, n)
  BY <1>4, <1>9, <1>12, <1>13, RoleSwitchSteps, SMTT(90) DEF Steps
<1>15. Steps(v1, v2, n)
  BY <1>5, <1>9, <1>14, ClaimSlotsSteps, Zenon DEF Steps
<1>16. Steps(v2, v3, n)
  BY <1>6, <1>15, CollisionSteps, SMTT(90) DEF Steps
<1>17. Steps(v3, v4, n)
  BY <1>7, <1>9, <1>16, GossipSteps, SMTT(30) DEF Steps
<1>18. Steps(srv[n], v4, n)
  <2>1. Steps(srv[n], u, n)
    BY <1>10, <1>11, <1>12, StepsTransitive, SMTT(90)
  <2>2. Steps(srv[n], v1, n)
    BY <1>10, <1>14, <2>1, StepsTransitive, Zenon
  <2>3. Steps(srv[n], v2, n)
    BY <1>10, <1>15, <2>2, StepsTransitive, Zenon
  <2>4. Steps(srv[n], v3, n)
    BY <1>10, <1>16, <2>3, StepsTransitive, Zenon
  <2> QED
    BY <1>10, <1>17, <2>4, StepsTransitive, Zenon
<1>19. \A x \in Corrections(v1, v2, n, h) : SoundPacket(x)
  BY <1>9, <1>15, SendUpdateFacts, SMTT(90) DEF Steps, Corrections
<1>20. \A x \in FailNews(v3, v4, n) : SoundPacket(x)
  BY <1>17, BroadcastFacts, SMTT(30) DEF Steps, FailNews
<1>21. \A x \in rest \cup Corrections(v1, v2, n, h) \cup FailNews(v3, v4, n) : SoundPacket(x)
  BY <1>19, <1>20, Zenon
<1> QED
  BY <1>8, <1>18, <1>21, InstallStep, Zenon

LEMMA ReceiveHeartbeatStep ==
  ASSUME ClusterInv, NEW n \in Node, NEW m \in Node, ReceiveHeartbeat(n, m)
  PROVE  ClusterInv'
<1>1. <<m, n>> \in Links /\ votes' = votes
  BY Zenon DEF ReceiveHeartbeat
<1>2. m # n
  BY <1>1, ClusterAssumption, Zenon
<1>3. PICK msg : /\ msg = Message("ping", srv[m], m, n, srv[m].flag)
                 /\ \E reply, old \in IF srv[n].flag[m] = "ok" THEN {FALSE} ELSE BOOLEAN :
                       Heartbeat(n, msg, reply, old, net)
  BY Zenon DEF ReceiveHeartbeat
<1>4. PICK reply, old \in IF srv[n].flag[m] = "ok" THEN {FALSE} ELSE BOOLEAN :
         Heartbeat(n, msg, reply, old, net)
  BY <1>3, ZenonT(30)
<1>5. SoundHeader(msg.hdr, msg.to) /\ msg.to = n
  BY <1>2, <1>3, SoundNode, MessageFacts, SMTT(30)
<1>6. \A x \in net : SoundPacket(x)
  BY Zenon DEF ClusterInv
<1> QED
  BY <1>1, <1>4, <1>5, <1>6, HeartbeatStep, SMTT(30)

LEMMA ReceiveDelayedStep ==
  ASSUME ClusterInv, NEW n \in Node, ReceiveDelayed(n)
  PROVE  ClusterInv'
<1>1. PICK msg \in net : msg.to = n /\ Heartbeat(n, msg, FALSE, FALSE, net \ {msg})
  BY ZenonT(30) DEF ReceiveDelayed
<1>2. votes' = votes
  BY Zenon DEF ReceiveDelayed
<1>3. \A x \in net : SoundPacket(x)
  BY Zenon DEF ClusterInv
<1>4. SoundHeader(msg.hdr, n)
  BY <1>1, <1>3, SMTT(30) DEF SoundPacket
<1> QED
  BY <1>1, <1>2, <1>3, <1>4, HeartbeatStep, ZenonT(30)

\* A packet with a header only changes the epochs, then something else.
LEMMA PacketStep ==
  ASSUME ClusterInv, NEW n \in Node, NEW msg \in net, msg.to = n
  PROVE  /\ Sound(srv[n], n) /\ Packet(msg)
         /\ Steps(srv[n], UpdateEpochs(srv[n], msg.hdr), n)
         /\ Sound(UpdateEpochs(srv[n], msg.hdr), n)
         /\ UpdateEpochs(srv[n], msg.hdr).currentEpoch >= msg.hdr.currentEpoch
         /\ msg.hdr.from \in Node /\ msg.hdr.from # n /\ msg.hdr.currentEpoch \in Nat
         /\ msg.type = "update" => msg.arg.configEpoch <= msg.hdr.currentEpoch
         /\ \A x \in net \ {msg} : SoundPacket(x)
<1>1. SoundPacket(msg) /\ \A x \in net \ {msg} : SoundPacket(x)
  BY Zenon DEF ClusterInv
<1>2. SoundHeader(msg.hdr, n)
  BY <1>1 DEF SoundPacket
<1>3. Sound(srv[n], n)
  BY SoundNode, Zenon
<1>4. /\ Steps(srv[n], UpdateEpochs(srv[n], msg.hdr), n)
      /\ UpdateEpochs(srv[n], msg.hdr).currentEpoch >= msg.hdr.currentEpoch
  BY <1>2, <1>3, UpdateEpochsSteps, Zenon
<1>5. msg.hdr.from \in Node /\ msg.hdr.from # n /\ msg.hdr.currentEpoch \in Nat
  BY <1>2, Zenon DEF SoundHeader, Header
<1>6. Packet(msg) /\ (msg.type = "update" => msg.arg.configEpoch <= msg.hdr.currentEpoch)
  BY <1>1, Zenon DEF SoundPacket
<1>7. Sound(UpdateEpochs(srv[n], msg.hdr), n)
  BY <1>4, Zenon DEF Steps
<1> QED
  BY <1>1, <1>3, <1>4, <1>5, <1>6, <1>7, Zenon

LEMMA ReceiveFailStep ==
  ASSUME ClusterInv, NEW n \in Node, ReceiveFail(n)
  PROVE  ClusterInv'
<1>1. PICK msg \in net :
         /\ msg.to = n
         /\ Install(n, MarkFailing(UpdateEpochs(srv[n], msg.hdr), {msg.arg} \ {n}), net \ {msg})
  BY ZenonT(30) DEF ReceiveFail
<1>2. votes' = votes
  BY Zenon DEF ReceiveFail
<1>3. PICK v : v = UpdateEpochs(srv[n], msg.hdr)
  OBVIOUS
<1>4. Sound(srv[n], n) /\ Steps(srv[n], v, n) /\ Sound(v, n) /\ \A x \in net \ {msg} : SoundPacket(x)
  BY <1>1, <1>3, PacketStep, ZenonT(30)
<1>5. Steps(v, MarkFailing(v, {msg.arg} \ {n}), n)
  BY <1>4, MarkFailingSteps, Zenon
<1>6. Steps(srv[n], MarkFailing(v, {msg.arg} \ {n}), n)
  BY <1>4, <1>5, StepsTransitive, SMTT(30)
<1> QED
  BY <1>1, <1>2, <1>3, <1>4, <1>6, InstallStep, SMTT(30)

LEMMA ReceiveUpdateStep ==
  ASSUME ClusterInv, NEW n \in Node, ReceiveUpdate(n)
  PROVE  ClusterInv'
<1>1. PICK msg \in net :
         /\ msg.type = "update" /\ msg.to = n
         /\ Install(n, TakeUpdate(UpdateEpochs(srv[n], msg.hdr), n, msg.arg), net \ {msg})
  BY Zenon DEF ReceiveUpdate
<1>2. votes' = votes
  BY SMTT(30) DEF ReceiveUpdate
<1>3. PICK v : v = UpdateEpochs(srv[n], msg.hdr)
  BY Zenon
<1>4. /\ Sound(srv[n], n) /\ Steps(srv[n], v, n) /\ Sound(v, n)
      /\ v.currentEpoch >= msg.hdr.currentEpoch /\ msg.hdr.currentEpoch \in Nat
      /\ \A x \in net \ {msg} : SoundPacket(x)
  BY <1>1, <1>3, PacketStep, ZenonT(30)
<1>5. Packet(msg) /\ msg.arg.configEpoch <= msg.hdr.currentEpoch
  BY <1>1, PacketStep, Zenon
<1>6. msg.arg.about \in Node /\ msg.arg.configEpoch \in Nat
  BY <1>1, <1>5, SMTT(30) DEF Packet
<1>7. msg.arg.configEpoch <= v.currentEpoch
  BY <1>4, <1>5, <1>6, EpochType, SMTT(30) DEF Sound
<1>8. Steps(v, TakeUpdate(v, n, msg.arg), n)
  BY <1>4, <1>6, <1>7, TakeUpdateSteps, Zenon
<1>9. Steps(srv[n], TakeUpdate(v, n, msg.arg), n)
  BY <1>4, <1>8, StepsTransitive, Zenon
<1> QED
  BY <1>1, <1>2, <1>3, <1>4, <1>9, InstallStep, SMTT(30)

LEMMA ReceiveAckStep ==
  ASSUME ClusterInv, NEW n \in Node, ReceiveAck(n)
  PROVE  ClusterInv'
<1>1. PICK msg \in net :
         /\ msg.to = n
         /\ Install(n, CountVote(UpdateEpochs(srv[n], msg.hdr), msg.hdr), net \ {msg})
  BY ZenonT(30) DEF ReceiveAck
<1>2. votes' = votes
  BY Zenon DEF ReceiveAck
<1>3. PICK v : v = UpdateEpochs(srv[n], msg.hdr)
  BY Zenon
<1>4. Sound(srv[n], n) /\ Steps(srv[n], v, n) /\ Sound(v, n) /\ \A x \in net \ {msg} : SoundPacket(x)
  BY <1>1, <1>3, PacketStep, ZenonT(30)
<1>5. Steps(v, CountVote(v, msg.hdr), n)
  BY <1>4, CountVoteSteps
<1>6. Steps(srv[n], CountVote(v, msg.hdr), n)
  BY <1>4, <1>5, StepsTransitive, Zenon
<1> QED
  BY <1>1, <1>2, <1>3, <1>4, <1>6, InstallStep, SMTT(30)

\* The vote: in the current epoch, which is newer than every vote of the node.
LEMMA VoteStep ==
  ASSUME ClusterInv, NEW n \in Node, NEW v, Steps(srv[n], v, n), v.lastVoteEpoch # v.currentEpoch,
         NEW out, Install(n, Vote(v), out), \A msg \in out : SoundPacket(msg), NEW c \in Node,
         votes' = votes \cup {<<n, v.currentEpoch, c>>}
  PROVE  ClusterInv'
<1>1. PICK w : w = Vote(v)
  BY Zenon
<1>2. Sound(v, n) /\ v.lastVoteEpoch = srv[n].lastVoteEpoch
  BY Zenon DEF Steps
<1>3. v.currentEpoch \in Nat /\ v.lastVoteEpoch \in Nat /\ v.lastVoteEpoch < v.currentEpoch
  BY <1>2, EpochType, SMTT(30) DEF Sound, NoneAhead
<1>4. Sound(w, n) /\ w \in Table /\ w.lastVoteEpoch = v.currentEpoch
  BY <1>1, <1>2, VoteFacts, SMTT(30) DEF Sound
<1>5. srv' = [srv EXCEPT ![n] = w] /\ disk' = Saved(n, w) /\ net' = out
  BY <1>1, <1>2, <1>3, <1>4, SMTT(20) DEF Install, SaveNeeded
<1>6. srv' \in [Node -> Table] /\ \A m \in Node : srv'[m] = IF m = n THEN w ELSE srv[m]
  BY <1>4, <1>5, ZenonT(30) DEF ClusterInv
<1>7. \A m \in Node : Sound(srv'[m], m)
  BY <1>4, <1>6, ZenonT(30) DEF ClusterInv
<1>8. /\ disk' \in [Restarting -> File] /\ \A m \in Restarting : SoundFile(disk'[m], m)
      /\ \A m \in Restarting : disk'[m].lastVoteEpoch =
             IF m = n THEN w.lastVoteEpoch ELSE disk[m].lastVoteEpoch
  BY <1>4, <1>5, SavedFacts, ZenonT(30)
<1>9. votes' \subseteq Node \X Nat \X Node
  BY <1>3 DEF ClusterInv
<1>10. \A x \in votes : /\ x[1] \in Node /\ x[2] \in Nat
                        /\ x[1] = n => x[2] < v.currentEpoch
  BY <1>2, <1>3 DEF ClusterInv, VotesKnown
<1>11. VotesKnown'
  <2> SUFFICES ASSUME NEW x \in votes'
               PROVE  /\ x[2] <= srv'[x[1]].lastVoteEpoch
                      /\ x[1] \in Restarting => x[2] <= disk'[x[1]].lastVoteEpoch
    BY Zenon DEF VotesKnown
  <2>1. CASE x = <<n, v.currentEpoch, c>>
    BY <1>3, <1>4, <1>6, <1>8, <2>1, SMTT(90)
  <2>2. CASE x \in votes
    <3>1. /\ x[2] <= srv[x[1]].lastVoteEpoch
          /\ x[1] \in Restarting => x[2] <= disk[x[1]].lastVoteEpoch
      BY <2>2, ZenonT(30) DEF ClusterInv, VotesKnown
    <3> QED
      BY <1>3, <1>4, <1>6, <1>8, <1>10, <2>2, <3>1, SMTT(90)
  <2> QED
    BY <2>1, <2>2, Zenon
<1>12. OneVotePerEpoch'
  <2> SUFFICES ASSUME NEW x \in votes', NEW y \in votes', x[1] = y[1], x[2] = y[2] PROVE x = y
    BY Zenon DEF OneVotePerEpoch
  <2>1. CASE x \in votes /\ y \in votes
    BY <2>1 DEF ClusterInv, OneVotePerEpoch
  <2>2. CASE x \notin votes \/ y \notin votes
    BY <1>3, <1>10, <2>2, SMTT(30)
  <2> QED
    BY <2>1, <2>2, Zenon
<1>13. \A msg \in net' : SoundPacket(msg)
  BY <1>5, Zenon
<1> QED
  BY <1>6, <1>7, <1>8, <1>9, <1>11, <1>12, <1>13, ZenonT(30) DEF ClusterInv

LEMMA AuthStep ==
  ASSUME ClusterInv, NEW n \in Node, clusterSendFailoverAuthIfNeeded(n)
  PROVE  ClusterInv'
<1>1. PICK msg, v :
         /\ msg \in net /\ msg.to = n /\ v = UpdateEpochs(srv[n], msg.hdr)
         /\ IF MayVote(v, n, msg.hdr, msg.arg)
            THEN /\ Install(n, Vote(v), (net \ {msg}) \cup
                                        {Message("ack", Vote(v), n, msg.hdr.from, None)})
                 /\ votes' = votes \cup {<<n, v.currentEpoch, msg.hdr.from>>}
            ELSE /\ Install(n, v, net \ {msg})
                 /\ UNCHANGED votes
  BY Zenon DEF clusterSendFailoverAuthIfNeeded
<1>2. /\ Sound(srv[n], n) /\ Steps(srv[n], v, n) /\ Sound(v, n)
      /\ msg.hdr.from \in Node /\ msg.hdr.from # n
      /\ \A x \in net \ {msg} : SoundPacket(x)
  BY <1>1, PacketStep, ZenonT(30)
<1>3. CASE MayVote(v, n, msg.hdr, msg.arg)
  <2> DEFINE ack == Message("ack", Vote(v), n, msg.hdr.from, None)
  <2>1. v.lastVoteEpoch # v.currentEpoch
    BY <1>3, Zenon DEF MayVote
  <2>2. Sound(Vote(v), n)
    BY <1>2, VoteFacts, SMTT(30)
  <2>3. /\ ack.type = "ack" /\ ack.to = msg.hdr.from /\ ack.arg = None
        /\ SoundHeader(ack.hdr, ack.to) /\ ack.hdr \in Header
    BY <1>2, <2>2, MessageFacts, SMTT(90)
  <2> HIDE DEF ack
  <2>4. SoundPacket(ack)
    BY <1>2, <2>3, Zenon DEF SoundPacket, Packet
  <2>5. \A x \in (net \ {msg}) \cup {ack} : SoundPacket(x)
    BY <1>2, <2>4, Zenon
  <2>6. /\ Install(n, Vote(v), (net \ {msg}) \cup {ack})
        /\ votes' = votes \cup {<<n, v.currentEpoch, msg.hdr.from>>}
    BY <1>1, <1>3, Zenon DEF ack
  <2> QED
    BY <1>2, <2>1, <2>5, <2>6, VoteStep, SMTT(90)
<1>4. CASE ~MayVote(v, n, msg.hdr, msg.arg)
  BY <1>1, <1>2, <1>4, InstallStep, Zenon
<1> QED
  BY <1>3, <1>4, Zenon

LEMMA OwnSteps ==
  ASSUME ClusterInv, NEW n \in Node,
         \/ ElectionClock(n) \/ ScheduleElection(n) \/ RequestAuth(n) \/ WinElection(n)
         \/ manualFailoverCheckTimeout(n) \/ WritableDelayPassed(n) \/ ReportExpires(n)
  PROVE  ClusterInv'
<1>1. Sound(srv[n], n)
  BY SoundNode, Zenon
<1>2. \A x \in net : SoundPacket(x)
  BY Zenon DEF ClusterInv
<1>3. CASE ElectionClock(n)
  <2>1. srv' = [srv EXCEPT ![n] = [srv[n] EXCEPT !.old = TRUE]] /\ disk' = disk /\ net' = net /\ votes' = votes
    BY <1>3, Zenon DEF ElectionClock
  <2>2. Steps(srv[n], [srv[n] EXCEPT !.old = TRUE], n)
    BY <1>1, OldSteps, Zenon
  <2> QED
    BY <1>2, <2>1, <2>2, TableStep, ZenonT(30)
<1>4. CASE ScheduleElection(n)
  <2>1. srv' = [srv EXCEPT ![n] = NewAttempt(srv[n])] /\ disk' = disk /\ net' \subseteq net /\ votes' = votes
    BY <1>4, Zenon DEF ScheduleElection
  <2>2. Steps(srv[n], NewAttempt(srv[n]), n)
    BY <1>1, NewAttemptSteps, Zenon
  <2> QED
    BY <1>2, <2>1, <2>2, TableStep, ZenonT(30)
<1>5. CASE RequestAuth(n)
  <2>1. PICK v : /\ v = Candidate(srv[n], n) /\ srv' = [srv EXCEPT ![n] = v]
                 /\ disk' = IF v.mf THEN disk ELSE Saved(n, v)
                 /\ net' = net \cup {Message("request", v, n, to, v.mf) : to \in Voters \ {n}}
                 /\ UNCHANGED <<votes, elected, replaced, spent>>
    BY <1>5, Zenon DEF RequestAuth
  <2>2. Steps(srv[n], v, n)
    BY <1>1, <2>1, CandidateSteps, Zenon
  <2>3. v \in Table /\ Sound(v, n) /\ v.mf \in BOOLEAN
    BY <2>2 DEF Steps, Sound, Table
  <2>4. \A x \in net' : SoundPacket(x)
    <3> SUFFICES ASSUME NEW x \in net', x \notin net PROVE SoundPacket(x)
      BY <1>2, Zenon
    <3>1. PICK to \in Voters \ {n} : x = Message("request", v, n, to, v.mf)
      BY <2>1, SMTT(30)
    <3>2. to \in Node /\ to # n
      BY <3>1, ClusterAssumption, SMTT(90) DEF Voters
    <3>3. /\ x.type = "request" /\ x.to = to /\ x.arg = v.mf
          /\ SoundHeader(x.hdr, x.to) /\ x.hdr \in Header
      BY <2>3, <3>1, <3>2, MessageFacts, SMTT(30)
    <3> QED
      BY <2>3, <3>2, <3>3, Zenon DEF SoundPacket, Packet
  <2>5. disk' \in {disk, Saved(n, v)} /\ votes' = votes
    BY <2>1, Zenon
  <2> QED
    BY <2>1, <2>2, <2>4, <2>5, TableStep, ZenonT(30)
<1>6. CASE WinElection(n)
  <2> DEFINE e == Max({srv[n].configEpoch[n], srv[n].failover_auth_epoch})
  <2>1. Install(n, Promoted(srv[n], n, e), net) /\ votes' = votes
    BY <1>6, ZenonT(30) DEF WinElection, ReplaceYourMaster
  <2>2. srv[n].configEpoch[n] \in Nat /\ srv[n].failover_auth_epoch \in Nat
    BY <1>1, EpochType, ZenonT(30) DEF Sound, Table
  <2>3. e \in Nat
    BY <2>2, MaxOfTwo, ZenonT(30)
  <2> HIDE DEF e
  <2>4. Steps(srv[n], Promoted(srv[n], n, e), n)
    BY <1>1, <2>3, PromotedSteps, Zenon
  <2> QED
    BY <1>2, <2>1, <2>4, InstallStep, Zenon
<1>7. CASE manualFailoverCheckTimeout(n)
  <2>1. /\ srv' = [srv EXCEPT ![n] = [srv[n] EXCEPT !.mf = FALSE]]
        /\ disk' = disk /\ net' = net /\ votes' = votes
    BY <1>7, Zenon DEF manualFailoverCheckTimeout, resetManualFailover
  <2>2. Steps(srv[n], [srv[n] EXCEPT !.mf = FALSE], n)
    BY <1>1, MfSteps, ZenonT(30)
  <2> QED
    BY <1>2, <2>1, <2>2, TableStep, ZenonT(30)
<1>8. CASE WritableDelayPassed(n)
  <2>1. /\ srv' = [srv EXCEPT ![n] = [srv[n] EXCEPT !.rejoining = FALSE]]
        /\ disk' = disk /\ net' = net /\ votes' = votes
    BY <1>8, Zenon DEF WritableDelayPassed
  <2>2. Steps(srv[n], [srv[n] EXCEPT !.rejoining = FALSE], n)
    BY <1>1, RejoiningSteps, Zenon
  <2> QED
    BY <1>2, <2>1, <2>2, TableStep, ZenonT(30)
<1>9. CASE ReportExpires(n)
  <2>1. PICK m, from :
           srv' = [srv EXCEPT ![n] = [srv[n] EXCEPT !.reports = [srv[n].reports EXCEPT ![m] = @ \ {from}]]]
    BY <1>9, ZenonT(30) DEF ReportExpires
  <2>2. disk' = disk /\ net' = net /\ votes' = votes
    BY <1>9, Zenon DEF ReportExpires
  <2>3. srv[n].reports \in [Node -> SUBSET Node]
    BY <1>1 DEF Sound, Table
  <2>4. PICK x : x = [srv[n].reports EXCEPT ![m] = @ \ {from}]
    BY ZenonT(30)
  <2>5. x \in [Node -> SUBSET Node]
    BY <2>3, <2>4, ZenonT(30)
  <2>6. Steps(srv[n], [srv[n] EXCEPT !.reports = x], n)
    BY <1>1, <2>5, ReportsSteps
  <2>7. srv' = [srv EXCEPT ![n] = [srv[n] EXCEPT !.reports = x]]
    BY <2>1, <2>4, Zenon
  <2> QED
    BY <1>2, <2>2, <2>6, <2>7, TableStep, ZenonT(30)
<1> QED
  BY <1>3, <1>4, <1>5, <1>6, <1>7, <1>8, <1>9

LEMMA BumpedEpochType == ASSUME NEW n \in Node, NEW v, Sound(v, n) PROVE BumpedEpoch(v, n) \in Nat
<1>1. v.currentEpoch \in Nat /\ v.configEpoch[n] \in Nat
  BY EpochType DEF Sound
<1> QED
  BY <1>1 DEF BumpedEpoch

LEMMA EnvironmentSteps ==
  ASSUME ClusterInv, NEW n \in Node, Environment(n)
  PROVE  ClusterInv'
<1>1. Sound(srv[n], n)
  BY SoundNode
<1>2. \A x \in net : SoundPacket(x)
  BY Zenon DEF ClusterInv
<1>3. ASSUME NEW m \in Node, NodeTimeout(n, m) PROVE ClusterInv'
  <2> DEFINE x == [srv[n].flag EXCEPT ![m] = "pfail"]
             v == [srv[n] EXCEPT !.flag = x]
             w == MarkFailing(v, {m})
             alone == IsMaster(v, n) /\ Size(v) = 1
  <2>1. /\ srv' = [srv EXCEPT ![n] = IF alone THEN w ELSE v]
        /\ disk' = IF alone THEN Saved(n, w) ELSE disk
        /\ net' = IF alone THEN net \cup Broadcast("fail", v, n, m) ELSE net
        /\ votes' = votes
    BY <1>3 DEF NodeTimeout
  <2>2. x \in [Node -> Flag]
    <3>1. srv[n].flag \in [Node -> Flag]
      BY <1>1, Zenon DEF Sound, Table
    <3> QED
      BY <3>1, Zenon DEF Flag
  <2> HIDE DEF x
  <2>3. Steps(srv[n], v, n)
    BY <1>1, <2>2, FlagSteps
  <2> HIDE DEF v
  <2>4. Steps(v, w, n) /\ Sound(v, n)
    BY <2>3, MarkFailingSteps, Zenon DEF Steps
  <2> HIDE DEF w, alone
  <2>5. Steps(srv[n], w, n)
    BY <1>1, <2>3, <2>4, StepsTransitive, Zenon
  <2>6. \A y \in net' : SoundPacket(y)
    BY <1>2, <2>1, <2>4, BroadcastFacts
  <2>7. CASE alone
    BY <2>1, <2>5, <2>6, <2>7, TableStep, ZenonT(30)
  <2>8. CASE ~alone
    BY <2>1, <2>3, <2>6, <2>8, TableStep, ZenonT(30)
  <2> QED
    BY <2>7, <2>8, Zenon
<1>4. ASSUME NEW m \in Node, DelayHeartbeat(n, m) PROVE ClusterInv'
  <2>1. /\ <<n, m>> \in SlowLinks /\ net' = net \cup {Message("ping", srv[n], n, m, srv[n].flag)}
        /\ srv' = srv /\ disk' = disk /\ votes' = votes
    BY <1>4, Zenon DEF DelayHeartbeat
  <2>2. n # m
    BY <2>1, ClusterAssumption, SMTT(30)
  <2>3. PICK msg : msg = Message("ping", srv[n], n, m, srv[n].flag)
    BY SMTT(30)
  <2>4. /\ msg.type = "ping" /\ msg.to = m /\ msg.arg = srv[n].flag
        /\ SoundHeader(msg.hdr, msg.to) /\ msg.hdr \in Header
    BY <1>1, <2>2, <2>3, MessageFacts, SMTT(30)
  <2>5. srv[n].flag \in [Node -> Flag]
    BY <1>1, Zenon DEF Sound, Table
  <2>6. SoundPacket(msg)
    BY <2>4, <2>5, Zenon DEF SoundPacket, Packet
  <2>7. \A y \in net' : SoundPacket(y)
    BY <1>2, <2>1, <2>3, <2>6, Zenon
  <2> QED
    BY <2>1, <2>7 DEF ClusterInv, VotesKnown, OneVotePerEpoch
<1>5. CASE failoverForce(n)
  <2>1. /\ srv' = [srv EXCEPT ![n] = [srv[n] EXCEPT !.mf = TRUE]]
        /\ disk' = disk /\ net' = net /\ votes' = votes
    BY <1>5 DEF failoverForce
  <2>2. Steps(srv[n], [srv[n] EXCEPT !.mf = TRUE], n)
    BY <1>1, MfSteps, ZenonT(30)
  <2> QED
    BY <1>2, <2>1, <2>2, TableStep, ZenonT(30)
<1>6. CASE failoverTakeover(n)
  <2>1. Install(n, Promoted(srv[n], n, BumpedEpoch(srv[n], n)), net) /\ votes' = votes
    BY <1>6 DEF failoverTakeover, ReplaceYourMaster
  <2>2. BumpedEpoch(srv[n], n) \in Nat
    BY <1>1, BumpedEpochType
  <2>3. Steps(srv[n], Promoted(srv[n], n, BumpedEpoch(srv[n], n)), n)
    BY <1>1, <2>2, PromotedSteps, SMTT(30)
  <2> QED
    BY <1>2, <2>1, <2>3, InstallStep, Zenon
<1>7. CASE bumpepoch(n)
  <2>1. Install(n, Bumped(srv[n], n, BumpedEpoch(srv[n], n)), net) /\ votes' = votes
    BY <1>7, SMTT(30) DEF bumpepoch
  <2>2. BumpedEpoch(srv[n], n) \in Nat
    BY <1>1, BumpedEpochType, Zenon
  <2>3. Steps(srv[n], Bumped(srv[n], n, BumpedEpoch(srv[n], n)), n)
    BY <1>1, <2>2, BumpedSteps, Zenon
  <2> QED
    BY <1>2, <2>1, <2>3, InstallStep, Zenon
<1>8. CASE Restart(n)
  <2>1. /\ n \in Restarting /\ srv' = [srv EXCEPT ![n] = clusterLoadConfig(n, disk[n])]
        /\ net' \subseteq net /\ disk' = disk /\ votes' = votes
    BY <1>8, Zenon DEF Restart
  <2>2. PICK w : w = clusterLoadConfig(n, disk[n])
    OBVIOUS
  <2>3. SoundFile(disk[n], n)
    BY <2>1, Zenon DEF ClusterInv
  <2>4. w \in Table /\ Sound(w, n) /\ w.lastVoteEpoch = disk[n].lastVoteEpoch
    BY <2>2, <2>3, LoadFacts, Zenon
  <2>5. srv' \in [Node -> Table] /\ \A m \in Node : srv'[m] = IF m = n THEN w ELSE srv[m]
    BY <2>1, <2>2, <2>4, SMTT(90) DEF ClusterInv
  <2>6. \A m \in Node : Sound(srv'[m], m)
    BY <2>4, <2>5, Zenon DEF ClusterInv
  <2>7. \A x \in votes : x[1] \in Node
    BY Zenon DEF ClusterInv
  <2>8. VotesKnown'
    BY <2>1, <2>4, <2>5, <2>7 DEF ClusterInv, VotesKnown
  <2> QED
    BY <2>1, <2>5, <2>6, <2>8, Zenon DEF ClusterInv, OneVotePerEpoch
<1> QED
  BY <1>3, <1>4, <1>5, <1>6, <1>7, <1>8, Zenon DEF Environment

LEMMA InitClusterInv == Init => ClusterInv
<1> SUFFICES ASSUME Init PROVE ClusterInv
  BY Zenon
<1>1. /\ disk = [n \in Restarting |-> InitDisk]
      /\ srv = [n \in Node |-> [clusterLoadConfig(n, InitDisk) EXCEPT !.rejoining = FALSE]]
      /\ net = {} /\ votes = {}
  BY DEF Init
<1>2. ASSUME NEW n \in Node PROVE InitDisk \in File /\ SoundFile(InitDisk, n)
  <2> DEFINE S == {InitEpoch[m] : m \in Node}
  <2>1. MaxEpoch \in Nat /\ InitEpoch \in [Node -> 0..MaxEpoch]
    BY ClusterAssumption, Zenon
  <2>2. S \in SUBSET (0..MaxEpoch) /\ S # {} /\ \A m \in Node : InitEpoch[m] \in S
    BY <1>2, <2>1
  <2> HIDE DEF S
  <2>3. Max(S) \in S /\ \A y \in S : y <= Max(S)
    BY <2>1, <2>2, MaxOfBounded
  <2>4. Max(S) \in Nat /\ \A m \in Node : InitEpoch[m] <= Max(S)
    <3>1. Max(S) \in 0..MaxEpoch
      BY <2>2, <2>3, ZenonT(30)
    <3>2. ASSUME NEW m \in Node PROVE InitEpoch[m] <= Max(S)
      BY <2>2, <2>3, ZenonT(30)
    <3> QED
      BY <2>1, <3>1, <3>2
  <2>5. /\ InitDisk.currentEpoch = Max(S) /\ InitDisk.lastVoteEpoch = 0
        /\ InitDisk.slaveof = InitSlaveof /\ InitDisk.configEpoch = InitEpoch
        /\ InitDisk.slots = InitSlots
    BY Zenon DEF InitDisk, S
  <2>6. [m \in Node |-> IF m \in InitFailed THEN "fail" ELSE "ok"] \in [Node -> Flag]
    BY Zenon DEF Flag
  <2>7. InitSlaveof \in Roles /\ InitEpoch \in Epochs /\ InitSlots \in Owners
    BY <2>1, ClusterAssumption, SMTT(30) DEF Roles, Epochs, Owners
  <2>8. InitDisk \in File
    <3>1. InitDisk = [currentEpoch |-> Max(S), lastVoteEpoch |-> 0, slaveof |-> InitSlaveof,
                      configEpoch |-> InitEpoch, slots |-> InitSlots,
                      flag |-> [m \in Node |-> IF m \in InitFailed THEN "fail" ELSE "ok"]]
      BY Zenon DEF InitDisk, S
    <3> QED
      BY <2>4, <2>6, <2>7, <3>1, Zenon DEF File
  <2>9. NoneAhead(InitDisk)
    BY <2>4, <2>5, SMTT(30) DEF NoneAhead
  <2>10. OwnsNothing(InitDisk, n)
    BY <2>5, ClusterAssumption DEF OwnsNothing
  <2> QED
    BY <2>8, <2>9, <2>10, Zenon DEF SoundFile
<1>3. Restarting \subseteq Node
  BY ClusterAssumption, Zenon
<1>4. disk \in [Restarting -> File] /\ \A n \in Restarting : SoundFile(disk[n], n)
  BY <1>1, <1>2, <1>3, Zenon
<1>5. ASSUME NEW n \in Node PROVE srv[n] \in Table /\ Sound(srv[n], n)
  <2>1. PICK w : w = clusterLoadConfig(n, InitDisk)
    BY SMTT(20)
  <2>2. Sound(w, n)
    BY <1>2, <2>1, LoadFacts, ZenonT(30)
  <2>3. srv[n] = [w EXCEPT !.rejoining = FALSE]
    BY <1>1, <2>1, Zenon
  <2>4. Steps(w, [w EXCEPT !.rejoining = FALSE], n)
    BY <2>2, RejoiningSteps, Zenon
  <2> QED
    BY <2>3, <2>4, Zenon DEF Steps, Sound
<1>6. srv \in [Node -> Table]
  BY <1>1, <1>5, ZenonT(30)
<1> QED
  BY <1>1, <1>4, <1>5, <1>6, Zenon DEF ClusterInv, VotesKnown, OneVotePerEpoch

LEMMA StepClusterInv == ClusterInv /\ [Next]_vars => ClusterInv'
<1> SUFFICES ASSUME ClusterInv, [Next]_vars PROVE ClusterInv'
  BY Zenon
<1>1. CASE UNCHANGED vars
  BY <1>1 DEF vars, ClusterInv, VotesKnown, OneVotePerEpoch
<1>2. CASE Next
  <2>1. PICK n \in Alive : Protocol(n) \/ Environment(n)
    BY <1>2, Zenon DEF Next
  <2>2. n \in Node
    BY ClusterAssumption
  <2>3. CASE Protocol(n)
    BY <2>2, <2>3, ReceiveHeartbeatStep, ReceiveDelayedStep, ReceiveFailStep, ReceiveUpdateStep,
       AuthStep, ReceiveAckStep, OwnSteps, SMTT(30) DEF Protocol
  <2>4. CASE Environment(n)
    BY <2>2, <2>4, EnvironmentSteps, Zenon
  <2> QED
    BY <2>1, <2>3, <2>4, Zenon
<1> QED
  BY <1>1, <1>2, Zenon

LEMMA ClusterInvHolds == Spec => []ClusterInv
  BY InitClusterInv, StepClusterInv, PTL DEF Spec

\* The histories and the budgets.
HistoryType ==
    /\ elected \subseteq Node \X Nat
    /\ replaced \in Nat \X Nat
    /\ spent \in [timeouts : Nat, restarts : Nat, commands : Nat, delayed : Nat]

LEMMA SpentField ==
  ASSUME NEW s \in [timeouts : Nat, restarts : Nat, commands : Nat, delayed : Nat]
  PROVE  /\ [s EXCEPT !.timeouts = @ + 1] \in [timeouts : Nat, restarts : Nat, commands : Nat, delayed : Nat]
         /\ [s EXCEPT !.restarts = @ + 1] \in [timeouts : Nat, restarts : Nat, commands : Nat, delayed : Nat]
         /\ [s EXCEPT !.commands = @ + 1] \in [timeouts : Nat, restarts : Nat, commands : Nat, delayed : Nat]
         /\ [s EXCEPT !.delayed = @ + 1] \in [timeouts : Nat, restarts : Nat, commands : Nat, delayed : Nat]
  OBVIOUS

LEMMA StepHistory == ClusterInv /\ HistoryType /\ [Next]_vars => HistoryType'
<1> SUFFICES ASSUME ClusterInv, HistoryType, [Next]_vars PROVE HistoryType'
  BY Zenon
<1>1. CASE UNCHANGED vars
  BY <1>1, Zenon DEF vars, HistoryType
<1>2. ASSUME NEW n \in Node, NEW e \in Nat, ReplaceYourMaster(n, e), srv[n].slaveof[n] # None
      PROVE  replaced' \in Nat \X Nat
  <2>1. srv[n].slaveof[n] \in Node /\ srv[n] \in Table
    BY <1>2, SoundNode, EpochType, Zenon DEF Sound
  <2>2. srv[n].configEpoch[srv[n].slaveof[n]] \in Nat
    BY <2>1, EpochType
  <2> QED
    BY <1>2, <2>2, Zenon DEF ReplaceYourMaster
<1>3. ASSUME NEW n \in Node, WinElection(n) PROVE HistoryType'
  <2> DEFINE e == Max({srv[n].configEpoch[n], srv[n].failover_auth_epoch})
  <2>1. /\ ReplaceYourMaster(n, e) /\ srv[n].slaveof[n] # None
        /\ elected' = elected \cup {<<n, e>>} /\ spent' = spent
    BY <1>3, SMTT(90) DEF WinElection, FailoverWanted
  <2>2. srv[n].configEpoch[n] \in Nat /\ srv[n].failover_auth_epoch \in Nat
    BY <1>3, SoundNode, EpochType, SMTT(90) DEF Sound, Table
  <2>3. e \in Nat
    BY <2>2, MaxOfTwo, Zenon
  <2> HIDE DEF e
  <2> QED
    BY <1>2, <1>3, <2>1, <2>3, SMTT(20) DEF HistoryType
<1>4. ASSUME NEW n \in Node, failoverTakeover(n) PROVE HistoryType'
  <2>1. /\ ReplaceYourMaster(n, BumpedEpoch(srv[n], n)) /\ srv[n].slaveof[n] # None
        /\ elected' = elected /\ spent' = [spent EXCEPT !.commands = @ + 1]
    BY <1>4 DEF failoverTakeover, Command, IsMaster
  <2>2. BumpedEpoch(srv[n], n) \in Nat
    BY <1>4, SoundNode, BumpedEpochType
  <2>3. replaced' \in Nat \X Nat
    BY <1>2, <1>4, <2>1, <2>2, Zenon
  <2> QED
    BY <2>1, <2>3, SpentField, Zenon DEF HistoryType
<1>5. ASSUME NEW n \in Node, Environment(n), ~failoverTakeover(n) PROVE HistoryType'
  <2>1. /\ elected' = elected /\ replaced' = replaced
        /\ \/ spent' = [spent EXCEPT !.timeouts = @ + 1]
           \/ spent' = [spent EXCEPT !.restarts = @ + 1]
           \/ spent' = [spent EXCEPT !.commands = @ + 1]
           \/ spent' = [spent EXCEPT !.delayed = @ + 1]
    BY <1>5, ZenonT(30) DEF Environment, NodeTimeout, DelayHeartbeat, failoverForce, bumpepoch, Restart, Command
  <2> QED
    BY <2>1, SpentField, SMTT(30) DEF HistoryType
<1>6. ASSUME NEW n \in Node, Protocol(n), ~WinElection(n) PROVE HistoryType'
  <2>1. elected' = elected /\ replaced' = replaced /\ spent' = spent
    BY <1>6, ZenonT(30) DEF Protocol, ReceiveHeartbeat, ReceiveDelayed, ReceiveFail, ReceiveUpdate,
       clusterSendFailoverAuthIfNeeded, ReceiveAck, ElectionClock, ScheduleElection, RequestAuth,
       manualFailoverCheckTimeout, WritableDelayPassed, ReportExpires
  <2> QED
    BY <2>1, Zenon DEF HistoryType
<1>7. CASE Next
  BY <1>3, <1>4, <1>5, <1>6, <1>7, ClusterAssumption DEF Next
<1> QED
  BY <1>1, <1>7, Zenon

(***************************************************************************)
(* Theorems.                                                               *)
(***************************************************************************)

\* The tables, the nodes.conf files and the packets of all nodes always have
\* their types (clusterProcessPacket and the handlers it calls).
THEOREM ClusterTypeCorrect == Spec => []TypeOK
<1>1. Init => HistoryType
  BY DEF Init, HistoryType
<1>2. Spec => []HistoryType
  BY <1>1, StepHistory, ClusterInvHolds, PTL DEF Spec
<1>3. ClusterInv /\ HistoryType => TypeOK
  BY ZenonT(30) DEF ClusterInv, HistoryType, TypeOK, SoundPacket
<1> QED
  BY <1>2, <1>3, ClusterInvHolds, PTL

\* A voter grants one vote per epoch, for any number of nodes, of restarts from
\* nodes.conf and of delayed or lost packets (clusterSendFailoverAuthIfNeeded).
THEOREM VotesOnce == Spec => []OneVotePerEpoch
<1>1. ClusterInv => OneVotePerEpoch
  BY SMTT(30) DEF ClusterInv
<1> QED
  BY <1>1, ClusterInvHolds, PTL

\* A replica owns no slot in its own table, whatever the order of heartbeats,
\* UPDATEs, takeovers and restarts (the assertion of clusterSetMaster).
THEOREM ReplicasOwnNothing == Spec => []ReplicaOwnsNothing
<1>1. ClusterInv => ReplicaOwnsNothing
  BY Zenon DEF ClusterInv, Sound, OwnsNothing, ReplicaOwnsNothing, IsMaster, SlotsOf
<1> QED
  BY <1>1, ClusterInvHolds, PTL

\* No node knows of a config epoch, or has voted in an epoch, that is ahead of
\* its own currentEpoch, so that a new epoch is always a new one to the node that
\* takes it (clusterHandleConfigEpochCollision,
\* clusterBumpConfigEpochWithoutConsensus, clusterHandleSlaveFailover).
THEOREM EpochsNotAhead == Spec => [](\A n \in Node : NoneAhead(srv[n]))
<1>1. ClusterInv => \A n \in Node : NoneAhead(srv[n])
  BY Zenon DEF ClusterInv, Sound
<1> QED
  BY <1>1, ClusterInvHolds, PTL

=============================================================================
