-------------------------- MODULE RedisDemoProofs ---------------------------
(***************************************************************************)
(* Proofs about RedisDemo, for every set of keys and values, any number of *)
(* requests and of starts of the Go process: types, the life of the        *)
(* processes, what the page shows, and facts about requests.               *)
(***************************************************************************)
EXTENDS RedisDemo, FiniteSetTheorems, TLAPS

\* The server on the port is the only one past its start, and the Go process has
\* started one when it runs.
ProcInv ==
    /\ wrapper # "down" => starts > 0
    /\ \A g \in 1..MaxStarts : g > starts => procs[g] = "none"
    /\ \A g \in 1..MaxStarts : procs[g] \in {"loading", "running"} => port = g
    /\ port # 0 => procs[port] \in {"loading", "running"}


(***************************************************************************)
(* Type correctness.                                                       *)
(***************************************************************************)

\* What TypeOK says of the requests.
WellFormed(rs) ==
    /\ rs \in Seq(Request)
    /\ \A i \in DOMAIN rs : /\ rs[i].kind \in {"get", "set", "del"} => rs[i].key \in Key
                            /\ rs[i].kind = "set" => rs[i].val \in Value

\* A function over the positions of a sequence is a sequence of the same length.
LEMMA MapType ==
  ASSUME NEW S, NEW rs \in Seq(S), NEW f \in [DOMAIN rs -> S]
  PROVE  f \in Seq(S) /\ DOMAIN f = DOMAIN rs /\ Len(f) = Len(rs)
<1>1. DOMAIN rs = 1..Len(rs) /\ Len(rs) \in Nat
  OBVIOUS
<1> QED
  BY <1>1

\* The empty keyspace is a keyspace, and a key can be set or removed in one.
LEMMA DatabaseType ==
  /\ Nothing \in Database
  /\ \A m \in Database, k \in Key, v \in Value \cup {None} : [m EXCEPT ![k] = v] \in Database
  BY Zenon DEF Nothing, Database

\* A field of a request may take any value of its type.
LEMMA StField == \A r \in Request, x \in Stage : [r EXCEPT !.st = x] \in Request
  BY Zenon DEF Request

LEMMA StatusField == \A r \in Request, x \in Status : [r EXCEPT !.status = x] \in Request
  BY Zenon DEF Request

LEMMA BodyField == \A r \in Request, x \in Database : [r EXCEPT !.body = x] \in Request
  BY Zenon DEF Request

LEMMA TodoField == \A r \in Request, x \in SUBSET Key : [r EXCEPT !.todo = x] \in Request
  BY Zenon DEF Request

LEMMA SeenField ==
  \A r \in Request, x \in [Key -> SUBSET (Value \cup {None})] : [r EXCEPT !.seen = x] \in Request
  BY Zenon DEF Request

LEMMA DisturbedField == \A r \in Request, x \in BOOLEAN : [r EXCEPT !.disturbed = x] \in Request
  BY Zenon DEF Request

\* What the actions make of a request is a request with the same kind, key and
\* value; and what else they keep.
LEMMA SeesFacts ==
  ASSUME NEW r \in Request, NEW m \in Database
  PROVE  /\ Sees(r, m) \in Request
         /\ Sees(r, m).kind = r.kind /\ Sees(r, m).key = r.key /\ Sees(r, m).val = r.val
         /\ Sees(r, m).st = r.st /\ Sees(r, m).status = r.status /\ Sees(r, m).todo = r.todo
         /\ Sees(r, m).body = r.body /\ Sees(r, m).disturbed = r.disturbed
         /\ \A k \in Key : /\ r.seen[k] \subseteq Sees(r, m).seen[k]
                           /\ k \in Watched(r) => m[k] \in Sees(r, m).seen[k]
<1>1. r.seen \in [Key -> SUBSET (Value \cup {None})]
  BY Zenon DEF Request
<1>2. \A k \in Key : m[k] \in Value \cup {None}
  BY Zenon DEF Database
<1> DEFINE seen == [k \in Key |-> IF k \in Watched(r) THEN r.seen[k] \cup {m[k]} ELSE r.seen[k]]
<1>3. seen \in [Key -> SUBSET (Value \cup {None})]
  BY <1>1, <1>2, Zenon
<1>4. \A k \in Key : r.seen[k] \subseteq seen[k] /\ (k \in Watched(r) => m[k] \in seen[k])
  BY Zenon
<1>5. Sees(r, m) = [r EXCEPT !.seen = seen]
  BY Zenon DEF Sees
<1> HIDE DEF seen
<1>6. Sees(r, m) \in Request
  BY <1>3, <1>5, SeenField, Zenon
<1>7. Sees(r, m).seen = seen
  BY <1>5, Zenon DEF Request
<1> QED
  BY <1>4, <1>5, <1>6, <1>7, Zenon DEF Request

LEMMA DisturbFacts ==
  ASSUME NEW r \in Request
  PROVE  /\ Disturb(r) \in Request
         /\ Disturb(r).kind = r.kind /\ Disturb(r).key = r.key /\ Disturb(r).val = r.val
         /\ Disturb(r).status = r.status /\ Disturb(r).todo = r.todo
         /\ Disturb(r).body = r.body /\ Disturb(r).seen = r.seen
         /\ Disturb(r).disturbed = (Watched(r) # {})
         /\ Disturb(r).st = IF r.st = "done" THEN "broken" ELSE r.st
<1> DEFINE b == Watched(r) # {}
           x == IF r.st = "done" THEN "broken" ELSE r.st
<1>1. b \in BOOLEAN /\ x \in Stage
  BY Zenon DEF Request, Stage
<1>2. Disturb(r) = [r EXCEPT !.disturbed = b, !.st = x]
  BY Zenon DEF Disturb
<1> HIDE DEF b, x
<1>3. [r EXCEPT !.disturbed = b] \in Request
  BY <1>1, DisturbedField, Zenon
<1>4. [r EXCEPT !.disturbed = b, !.st = x] \in Request
  BY <1>1, <1>3, StField, ZenonT(30)
<1>5. Disturb(r).disturbed = b /\ Disturb(r).st = x
  BY <1>2, Zenon DEF Request
<1> QED
  BY <1>2, <1>4, <1>5, ZenonT(30) DEF Request, b, x

LEMMA AbandonFacts ==
  ASSUME NEW r \in Request
  PROVE  /\ Abandon(r) \in Request
         /\ Abandon(r).kind = r.kind /\ Abandon(r).key = r.key /\ Abandon(r).val = r.val
         /\ Abandon(r).todo = r.todo /\ Abandon(r).disturbed = r.disturbed
         /\ Abandon(r).body = r.body /\ Abandon(r).seen = r.seen
         /\ Abandon(r).st = "answered" /\ Abandon(r).status = 0
<1>1. "answered" \in Stage /\ 0 \in Status
  BY DEF Stage, Status
<1>2. [r EXCEPT !.st = "answered"] \in Request
  BY <1>1, StField, Zenon
<1>3. [r EXCEPT !.st = "answered", !.status = 0] \in Request
  BY <1>1, <1>2, StatusField, ZenonT(30)
<1> QED
  BY <1>3, Zenon DEF Abandon, Request

LEMMA AnswerFacts ==
  ASSUME NEW r \in Request, NEW status \in Status, NEW m \in Database
  PROVE  /\ Answer(r, status, m) \in Request
         /\ Answer(r, status, m).kind = r.kind /\ Answer(r, status, m).key = r.key
         /\ Answer(r, status, m).val = r.val /\ Answer(r, status, m).todo = r.todo
         /\ Answer(r, status, m).disturbed = r.disturbed /\ Answer(r, status, m).seen = r.seen
         /\ Answer(r, status, m).st = "answered" /\ Answer(r, status, m).status = status
         /\ Answer(r, status, m).body = m
<1>1. "answered" \in Stage
  BY Zenon DEF Stage
<1>2. [r EXCEPT !.st = "answered"] \in Request
  BY <1>1, StField, Zenon
<1>3. [r EXCEPT !.st = "answered", !.status = status] \in Request
  BY <1>2, StatusField, ZenonT(30)
<1>4. [r EXCEPT !.st = "answered", !.status = status, !.body = m] \in Request
  BY <1>3, BodyField, ZenonT(30)
<1> QED
  BY <1>4, Zenon DEF Answer, Request

LEMMA ListedFacts ==
  ASSUME NEW r \in Request, NEW keys \in SUBSET Key
  PROVE  /\ Listed(r, keys) \in Request
         /\ Listed(r, keys).kind = r.kind /\ Listed(r, keys).key = r.key /\ Listed(r, keys).val = r.val
         /\ Listed(r, keys).status = r.status /\ Listed(r, keys).disturbed = r.disturbed
         /\ Listed(r, keys).body = r.body /\ Listed(r, keys).seen = r.seen
         /\ Listed(r, keys).st = "loop" /\ Listed(r, keys).todo = keys
<1>1. "loop" \in Stage
  BY Zenon DEF Stage
<1>2. [r EXCEPT !.st = "loop"] \in Request
  BY <1>1, StField, Zenon
<1>3. [r EXCEPT !.st = "loop", !.todo = keys] \in Request
  BY <1>2, TodoField, ZenonT(30)
<1> QED
  BY <1>3, Zenon DEF Listed, Request

LEMMA CollectsFacts ==
  ASSUME NEW r \in Request, NEW k \in Key, NEW v \in Value \cup {None}
  PROVE  /\ Collects(r, k, v) \in Request
         /\ Collects(r, k, v).kind = r.kind /\ Collects(r, k, v).key = r.key
         /\ Collects(r, k, v).val = r.val /\ Collects(r, k, v).status = r.status
         /\ Collects(r, k, v).disturbed = r.disturbed /\ Collects(r, k, v).seen = r.seen
         /\ Collects(r, k, v).st = r.st /\ Collects(r, k, v).todo = r.todo \ {k}
         /\ Collects(r, k, v).body[k] = v
         /\ \A x \in Key \ {k} : Collects(r, k, v).body[x] = r.body[x]
<1>1. r.todo \ {k} \in SUBSET Key /\ r.body \in Database
  BY Zenon DEF Request
<1>2. [r.body EXCEPT ![k] = v] \in Database
  BY <1>1, DatabaseType, Zenon
<1> DEFINE todo == r.todo \ {k}
           body == [r.body EXCEPT ![k] = v]
<1>3. Collects(r, k, v) = [r EXCEPT !.todo = todo, !.body = body]
  BY Zenon DEF Collects
<1> HIDE DEF todo, body
<1>4. [r EXCEPT !.todo = todo] \in Request
  BY <1>1, TodoField, Zenon DEF todo
<1>5. [r EXCEPT !.todo = todo, !.body = body] \in Request
  BY <1>2, <1>4, BodyField, ZenonT(30) DEF body
<1>6. Collects(r, k, v).todo = todo /\ Collects(r, k, v).body = body
  BY <1>3, Zenon DEF Request
<1> QED
  <2>1. body[k] = v /\ \A x \in Key \ {k} : body[x] = r.body[x]
    BY <1>1, Zenon DEF body, Database
  <2> QED
    BY <1>3, <1>5, <1>6, <2>1 DEF Request, todo

LEMMA ExecutedFacts ==
  ASSUME NEW r \in Request, NEW status \in Status
  PROVE  /\ Executed(r, status) \in Request
         /\ Executed(r, status).kind = r.kind /\ Executed(r, status).key = r.key
         /\ Executed(r, status).val = r.val /\ Executed(r, status).todo = r.todo
         /\ Executed(r, status).disturbed = r.disturbed /\ Executed(r, status).seen = r.seen
         /\ Executed(r, status).body = r.body
         /\ Executed(r, status).st = "done" /\ Executed(r, status).status = status
<1>1. "done" \in Stage
  BY Zenon DEF Stage
<1>2. [r EXCEPT !.st = "done"] \in Request
  BY <1>1, StField, Zenon
<1>3. [r EXCEPT !.st = "done", !.status = status] \in Request
  BY <1>2, StatusField, ZenonT(30)
<1> QED
  BY <1>3, Zenon DEF Executed, Request

LEMMA OverFacts ==
  ASSUME NEW r \in Request
  PROVE  /\ Over(r) \in Request
         /\ Over(r).kind = r.kind /\ Over(r).key = r.key /\ Over(r).val = r.val
         /\ Over(r).status = r.status /\ Over(r).todo = r.todo /\ Over(r).disturbed = r.disturbed
         /\ Over(r).st = "settled" /\ Over(r).body = Nothing
<1> DEFINE seen == [k \in Key |-> {}]
<1>1. "settled" \in Stage /\ seen \in [Key -> SUBSET (Value \cup {None})]
  BY Zenon DEF Stage
<1>2. Over(r) = [r EXCEPT !.st = "settled", !.body = Nothing, !.seen = seen]
  BY Zenon DEF Over
<1> HIDE DEF seen
<1>3. [r EXCEPT !.st = "settled"] \in Request
  BY <1>1, StField, Zenon
<1>4. [r EXCEPT !.st = "settled", !.body = Nothing] \in Request
  BY <1>3, BodyField, DatabaseType, ZenonT(30)
<1>5. [r EXCEPT !.st = "settled", !.body = Nothing, !.seen = seen] \in Request
  BY <1>1, <1>4, SeenField, ZenonT(30)
<1> QED
  BY <1>2, <1>5 DEF Request

LEMMA NewRequestFacts ==
  ASSUME NEW kind \in {"all", "get", "set", "del", "flush"},
         NEW k \in Key \cup {None}, NEW v \in Value \cup {None}
  PROVE  /\ NewRequest(kind, k, v) \in Request
         /\ NewRequest(kind, k, v).kind = kind /\ NewRequest(kind, k, v).key = k
         /\ NewRequest(kind, k, v).val = v
         /\ NewRequest(kind, k, v).st = "sent" /\ NewRequest(kind, k, v).status = 0
         /\ NewRequest(kind, k, v).body = Nothing
         /\ NewRequest(kind, k, v).disturbed = (~Reachable /\ kind \in {"all", "get", "del"})
<1> DEFINE seen == [x \in Key |-> {}]
           disturbed == ~Reachable /\ kind \in {"all", "get", "del"}
<1>1. /\ "sent" \in Stage /\ 0 \in Status /\ Nothing \in Database /\ {} \in SUBSET Key
      /\ seen \in [Key -> SUBSET (Value \cup {None})] /\ disturbed \in BOOLEAN
  BY DatabaseType DEF Stage, Status
<1>2. NewRequest(kind, k, v) =
        [kind |-> kind, key |-> k, val |-> v, st |-> "sent", status |-> 0, todo |-> {},
         body |-> Nothing, seen |-> seen, disturbed |-> disturbed]
  BY Zenon DEF NewRequest
<1> HIDE DEF seen, disturbed
<1>3. NewRequest(kind, k, v) \in Request
  BY <1>1, <1>2 DEF Request
<1>4. NewRequest(kind, k, v).disturbed = disturbed
  BY <1>2
<1> QED
  BY <1>2, <1>3, <1>4 DEF disturbed

\* The same for all the requests under way.
LEMMA AllTypes ==
  ASSUME NEW rs, WellFormed(rs),
         NEW f \in [DOMAIN rs -> Request],
         \A i \in DOMAIN rs : f[i].kind = rs[i].kind /\ f[i].key = rs[i].key /\ f[i].val = rs[i].val
  PROVE  WellFormed(f) /\ DOMAIN f = DOMAIN rs
<1>1. f \in Seq(Request) /\ DOMAIN f = DOMAIN rs
  BY MapType, Zenon DEF WellFormed
<1> QED
  BY <1>1, Zenon DEF WellFormed

LEMMA AllSeeTypes ==
  ASSUME NEW rs, WellFormed(rs), NEW m \in Database
  PROVE  WellFormed(AllSee(rs, m)) /\ DOMAIN AllSee(rs, m) = DOMAIN rs
<1>1. \A i \in DOMAIN rs : rs[i] \in Request
  BY DEF WellFormed
<1>2. AllSee(rs, m) \in [DOMAIN rs -> Request]
  BY <1>1, SeesFacts, Zenon DEF AllSee
<1>3. \A i \in DOMAIN rs : /\ AllSee(rs, m)[i].kind = rs[i].kind
                           /\ AllSee(rs, m)[i].key = rs[i].key
                           /\ AllSee(rs, m)[i].val = rs[i].val
  BY <1>1, SeesFacts, Zenon DEF AllSee
<1> QED
  BY <1>2, <1>3, AllTypes, Zenon

LEMMA DisturbedTypes ==
  ASSUME NEW rs, WellFormed(rs)
  PROVE  WellFormed(Disturbed(rs)) /\ DOMAIN Disturbed(rs) = DOMAIN rs
<1>1. \A i \in DOMAIN rs : rs[i] \in Request
  BY DEF WellFormed
<1>2. Disturbed(rs) \in [DOMAIN rs -> Request]
  BY <1>1, DisturbFacts, Zenon DEF Disturbed
<1>3. \A i \in DOMAIN rs : /\ Disturbed(rs)[i].kind = rs[i].kind
                           /\ Disturbed(rs)[i].key = rs[i].key
                           /\ Disturbed(rs)[i].val = rs[i].val
  BY <1>1, DisturbFacts, Zenon DEF Disturbed
<1> QED
  BY <1>2, <1>3, AllTypes, Zenon

LEMMA AbandonedTypes ==
  ASSUME NEW rs, WellFormed(rs)
  PROVE  WellFormed(Abandoned(rs)) /\ DOMAIN Abandoned(rs) = DOMAIN rs
<1>1. \A i \in DOMAIN rs : rs[i] \in Request
  BY DEF WellFormed
<1>2. Abandoned(rs) \in [DOMAIN rs -> Request]
  BY <1>1, AbandonFacts, Zenon DEF Abandoned
<1>3. \A i \in DOMAIN rs : /\ Abandoned(rs)[i].kind = rs[i].kind
                           /\ Abandoned(rs)[i].key = rs[i].key
                           /\ Abandoned(rs)[i].val = rs[i].val
  BY <1>1, AbandonFacts, Zenon DEF Abandoned
<1> QED
  BY <1>2, <1>3, AllTypes, Zenon

\* And for one of them.
LEMMA OneType ==
  ASSUME NEW rs, WellFormed(rs), NEW i \in DOMAIN rs, NEW r \in Request,
         r.kind = rs[i].kind, r.key = rs[i].key, r.val = rs[i].val
  PROVE  WellFormed([rs EXCEPT ![i] = r]) /\ DOMAIN [rs EXCEPT ![i] = r] = DOMAIN rs
  BY DEF WellFormed

\* A new request at the end.
LEMMA SentType ==
  ASSUME NEW rs, WellFormed(rs), NEW r \in Request,
         r.kind \in {"get", "set", "del"} => r.key \in Key, r.kind = "set" => r.val \in Value
  PROVE  WellFormed(Append(rs, r)) /\ DOMAIN rs \subseteq DOMAIN Append(rs, r)
  BY DEF WellFormed

\* The parts of TypeOK.
ServerType ==
    /\ wrapper \in {"down", "init", "main", "serving", "closing"}
    /\ starts \in 0..MaxStarts
    /\ procs \in [1..MaxStarts -> {"none", "boot", "loading", "running", "dead"}]
    /\ port \in 0..MaxStarts

DataType == db \in Database /\ saved \in Database /\ ever \subseteq Key \X Value

HistoryType == unsaved \cup lost \cup postponed \subseteq DOMAIN reqs

LEMMA TypeParts == TypeOK <=> ui \in View /\ WellFormed(reqs) /\ ServerType /\ DataType /\ HistoryType
  BY Zenon DEF TypeOK, WellFormed, ServerType, DataType, HistoryType

\* A field of the page may take any value of its type.
LEMMA OperationField == \A u \in View, x \in Operations \cup {"none"} : [u EXCEPT !.operation = x] \in View
  BY Zenon DEF View

LEMMA KeyField == \A u \in View, x \in Key \cup {None} : [u EXCEPT !.key = x] \in View
  BY Zenon DEF View

LEMMA ValueField == \A u \in View, x \in Value \cup {None} : [u EXCEPT !.value = x] \in View
  BY Zenon DEF View

LEMMA ResultField == \A u \in View, x \in Database : [u EXCEPT !.result = x] \in View
  BY Zenon DEF View

LEMMA MessageField == \A u \in View, x \in Message : [u EXCEPT !.message = x] \in View
  BY Zenon DEF View

\* What the page's handlers make of it.
LEMMA ViewTypes ==
  ASSUME NEW u \in View
  PROVE  /\ clearInputs(u) \in View
         /\ Failed(u) \in View
         /\ \A k \in Key, v \in Value \cup {None} : [u EXCEPT !.key = k, !.value = v] \in View
         /\ \A m \in Database, msg \in Message : Show(u, m, msg) \in View
         /\ \A op \in Operations :
               [clearInputs(u) EXCEPT !.operation = op, !.result = Nothing] \in View
<1>1. None \in Key \cup {None} /\ None \in Value \cup {None} /\ "none" \in Message /\ "failed" \in Message
  BY Zenon DEF Message
<1>2. clearInputs(u) \in View
  <2>1. [u EXCEPT !.key = None] \in View
    BY <1>1, KeyField, Zenon
  <2>2. [u EXCEPT !.key = None, !.value = None] \in View
    BY <1>1, <2>1, ValueField, ZenonT(30)
  <2> QED
    BY <1>1, <2>2, MessageField, ZenonT(30) DEF clearInputs
<1>3. Failed(u) \in View
  BY <1>1, MessageField, Zenon DEF Failed
<1>4. ASSUME NEW k \in Key, NEW v \in Value \cup {None}
      PROVE  [u EXCEPT !.key = k, !.value = v] \in View
  <2>1. [u EXCEPT !.key = k] \in View
    BY KeyField, Zenon
  <2> QED
    BY <2>1, ValueField, ZenonT(30)
<1>5. ASSUME NEW m \in Database, NEW msg \in Message
      PROVE  Show(u, m, msg) \in View
  <2>1. [u EXCEPT !.result = m] \in View
    BY ResultField, Zenon
  <2> QED
    BY <2>1, MessageField, ZenonT(30) DEF Show
<1>6. ASSUME NEW op \in Operations
      PROVE  [clearInputs(u) EXCEPT !.operation = op, !.result = Nothing] \in View
  <2>1. [clearInputs(u) EXCEPT !.operation = op] \in View
    BY <1>2, OperationField, Zenon
  <2> QED
    BY <2>1, ResultField, DatabaseType, ZenonT(30)
<1> QED
  BY <1>2, <1>3, <1>4, <1>5, <1>6, ZenonT(30)

LEMMA SettledType ==
  ASSUME NEW u \in View, NEW r \in Request, r.kind = "set" => r.key \in Key /\ r.val \in Value
  PROVE  Settled(u, r) \in View
<1>1. r.body \in Database /\ Nothing \in Database
  BY DatabaseType, Zenon DEF Request
<1>2. {"inserted", "found", "empty", "notfound", "alldeleted", "deleted"} \subseteq Message
  BY Zenon DEF Message
<1>3. ASSUME r.kind = "set"
      PROVE  clearInputs(Show(u, [Nothing EXCEPT ![r.key] = r.val], "inserted")) \in View
  <2>1. [Nothing EXCEPT ![r.key] = r.val] \in Database
    BY <1>3, DatabaseType, Zenon
  <2> QED
    BY <1>2, <2>1, ViewTypes, ZenonT(30)
<1>4. clearInputs(Show(u, Nothing, "deleted")) \in View
  BY <1>1, <1>2, ViewTypes, ZenonT(30)
<1>5. \A m \in {r.body, Nothing}, msg \in Message : Show(u, m, msg) \in View
  BY <1>1, ViewTypes, ZenonT(30)
<1>6. Failed(u) \in View
  BY ViewTypes, ZenonT(30)
<1> QED
  BY <1>2, <1>3, <1>4, <1>5, <1>6 DEF Settled

\* A DEL, FLUSHALL or SET leaves a keyspace.
LEMMA WrittenType ==
  ASSUME db \in Database, NEW r \in Request, r.kind \in {"set", "del", "flush"},
         r.kind \in {"get", "set", "del"} => r.key \in Key, r.kind = "set" => r.val \in Value
  PROVE  Written(r) \in Database /\ WriteStatus(r) \in Status
<1>1. WriteStatus(r) \in Status
  BY DEF WriteStatus, Status
<1>2. CASE r.kind = "set"
  <2>1. Written(r) = [db EXCEPT ![r.key] = r.val]
    BY <1>2, Zenon DEF Written
  <2>2. r.key \in Key /\ r.val \in Value \cup {None}
    BY <1>2, Zenon
  <2>3. [db EXCEPT ![r.key] = r.val] \in Database
    BY <2>2, DatabaseType, Zenon
  <2> QED
    BY <1>1, <2>1, <2>3, Zenon
<1>3. CASE r.kind = "del"
  <2>1. Written(r) = [db EXCEPT ![r.key] = None]
    BY <1>3, Zenon DEF Written
  <2>2. r.key \in Key /\ None \in Value \cup {None}
    BY <1>3, Zenon
  <2>3. [db EXCEPT ![r.key] = None] \in Database
    BY <2>2, DatabaseType, Zenon
  <2> QED
    BY <1>1, <2>1, <2>3, Zenon
<1>4. CASE r.kind = "flush"
  <2>1. Written(r) = Nothing
    BY <1>4, Zenon DEF Written
  <2> QED
    BY <1>1, <2>1, DatabaseType, Zenon
<1> QED
  BY <1>2, <1>3, <1>4, Zenon

LEMMA PairsType == ASSUME NEW m \in Database PROVE Pairs(m) \subseteq Key \X Value
  BY DEF Pairs, Database

\* What Die writes.
LEMMA DieTypes ==
  ASSUME TypeOK, NEW g, Die(g)
  PROVE  WellFormed(reqs)' /\ DataType' /\ HistoryType' /\ port' \in 0..MaxStarts
         /\ procs' \in [1..MaxStarts -> {"none", "boot", "loading", "running", "dead"}]
<1>1. WellFormed(reqs) /\ ServerType /\ DataType /\ HistoryType
  BY TypeParts, Zenon
<1>2. WellFormed(Disturbed(reqs)) /\ DOMAIN Disturbed(reqs) = DOMAIN reqs
  BY <1>1, DisturbedTypes, Zenon
<1>3. reqs' \in {reqs, Disturbed(reqs)} /\ DOMAIN reqs' = DOMAIN reqs
  BY <1>2, Zenon DEF Die
<1>4. WellFormed(reqs')
  BY <1>1, <1>2, <1>3, Zenon
<1>5. procs' \in [1..MaxStarts -> {"none", "boot", "loading", "running", "dead"}]
  BY <1>1, ZenonT(30) DEF Die, ServerType
<1>6. DataType' /\ HistoryType'
  BY <1>1, <1>3, DatabaseType, Zenon DEF Die, DataType, HistoryType
<1>7. port' \in 0..MaxStarts
  BY <1>1, DemoAssumption DEF Die, ServerType
<1> QED
  BY <1>4, <1>5, <1>6, <1>7, Zenon DEF WellFormed

\* What Send and Respond write.
LEMMA SendTypes ==
  ASSUME TypeOK, NEW kind \in {"all", "get", "set", "del", "flush"},
         NEW k \in Key \cup {None}, NEW v \in Value \cup {None},
         kind \in {"get", "set", "del"} => k \in Key, kind = "set" => v \in Value,
         Send(kind, k, v)
  PROVE  WellFormed(reqs)' /\ DOMAIN reqs \subseteq DOMAIN reqs'
<1>1. WellFormed(reqs) /\ db \in Database
  BY TypeParts, Zenon DEF DataType
<1> DEFINE n == NewRequest(kind, k, v)
<1>2. n \in Request /\ n.kind = kind /\ n.key = k /\ n.val = v
  BY NewRequestFacts
<1> HIDE DEF n
<1>3. PICK r : /\ r \in Request /\ r.kind = kind /\ r.key = k /\ r.val = v
               /\ reqs' = Append(reqs, r)
  <2>1. Sees(n, db) \in Request /\ Sees(n, db).kind = kind /\ Sees(n, db).key = k /\ Sees(n, db).val = v
    BY <1>1, <1>2, SeesFacts, Zenon
  <2>2. reqs' = Append(reqs, IF Up THEN Sees(n, db) ELSE n)
    BY Zenon DEF Send, n
  <2> QED
    BY <1>2, <2>1, <2>2, Zenon
<1>4. WellFormed(Append(reqs, r)) /\ DOMAIN reqs \subseteq DOMAIN Append(reqs, r)
  BY <1>1, <1>3, SentType, Zenon
<1> QED
  BY <1>3, <1>4, Zenon DEF WellFormed

LEMMA RespondTypes ==
  ASSUME TypeOK, NEW i \in DOMAIN reqs, NEW status \in Status, NEW m \in Database,
         Respond(i, status, m)
  PROVE  TypeOK'
<1>1. ui \in View /\ WellFormed(reqs) /\ ServerType /\ DataType /\ HistoryType
  BY TypeParts, Zenon
<1>2. reqs[i] \in Request
  BY <1>1 DEF WellFormed
<1>3. WellFormed([reqs EXCEPT ![i] = Answer(reqs[i], status, m)])
      /\ DOMAIN [reqs EXCEPT ![i] = Answer(reqs[i], status, m)] = DOMAIN reqs
  BY <1>1, <1>2, AnswerFacts, OneType
<1>4. reqs' = [reqs EXCEPT ![i] = Answer(reqs[i], status, m)]
  BY Zenon DEF Respond
<1>5. WellFormed(reqs') /\ HistoryType'
  BY <1>1, <1>3, <1>4, Zenon DEF Respond, HistoryType, data
<1>6. ui' \in View /\ ServerType' /\ DataType'
  BY <1>1, Zenon DEF Respond, server, data, ServerType, DataType
<1> QED
  BY <1>5, <1>6, TypeParts, Zenon DEF WellFormed, TypeOK, ServerType, DataType, HistoryType

\* Steps that leave the requests and the keyspace alone.
LEMMA QuietTypes ==
  ASSUME TypeOK, \/ Type \/ CloseAlert \/ NewRedisServer \/ PingAnswered \/ Run
                 \/ (\E g \in 1..MaxStarts : Boot(g)) \/ Flush \/ FlushPostponed
  PROVE  TypeOK'
<1>1. ui \in View /\ WellFormed(reqs) /\ ServerType /\ DataType /\ HistoryType
  BY TypeParts
<1> SUFFICES ui' \in View /\ WellFormed(reqs)' /\ ServerType' /\ DataType' /\ HistoryType'
  BY TypeParts, Zenon DEF TypeOK, WellFormed, ServerType, DataType, HistoryType
<1>2. CASE Type
  <2>1. PICK k \in Key, v \in Value \cup {None} : ui' = [ui EXCEPT !.key = k, !.value = v]
    BY <1>2, Zenon DEF Type
  <2>2. ui' \in View
    BY <1>1, <2>1, ViewTypes, ZenonT(30)
  <2> QED
    BY <1>1, <1>2, <2>2, ZenonT(30) DEF Type, server, data, WellFormed, ServerType, DataType, HistoryType
<1>3. CASE CloseAlert
  <2>1. "none" \in Message
    BY DEF Message
  <2>2. ui' \in View
    BY <1>1, <1>3, <2>1, MessageField DEF CloseAlert
  <2> QED
    BY <1>1, <1>3, <2>2, Zenon DEF CloseAlert, server, data, WellFormed, ServerType, DataType, HistoryType
<1>4. CASE NewRedisServer
  <2>1. ServerType'
    BY <1>1, <1>4, DemoAssumption DEF NewRedisServer, ServerType
  <2> QED
    BY <1>1, <1>4, <2>1, Zenon DEF NewRedisServer, app, data, WellFormed, DataType, HistoryType
<1>5. CASE PingAnswered
  BY <1>1, <1>5, Zenon DEF PingAnswered, app, data, WellFormed, ServerType, DataType, HistoryType
<1>6. CASE Run
  BY <1>1, <1>6, Zenon DEF Run, app, data, WellFormed, ServerType, DataType, HistoryType
<1>7. ASSUME NEW g \in 1..MaxStarts, Boot(g)
      PROVE  ui' \in View /\ WellFormed(reqs)' /\ ServerType' /\ DataType' /\ HistoryType'
  <2>1. ServerType'
    BY <1>1, <1>7, DemoAssumption DEF Boot, ServerType
  <2> QED
    BY <1>1, <1>7, <2>1, Zenon DEF Boot, app, data, WellFormed, DataType, HistoryType
<1>8. CASE Flush
  BY <1>1, <1>8, Zenon DEF Flush, app, server, WellFormed, ServerType, DataType, HistoryType
<1>9. CASE FlushPostponed
  BY <1>1, <1>9, Zenon DEF FlushPostponed, app, server, WellFormed, ServerType, DataType, HistoryType
<1> QED
  BY <1>2, <1>3, <1>4, <1>5, <1>6, <1>7, <1>8, <1>9, Zenon

\* Steps of the page that send a request or take an answer.
LEMMA PageTypes ==
  ASSUME TypeOK, \/ \E op \in Operations : handleOperationClick(op)
                 \/ Confirm
                 \/ \E i \in DOMAIN reqs : Settle(i) \/ NotConnected(i)
  PROVE  TypeOK'
<1>1. ui \in View /\ WellFormed(reqs) /\ ServerType /\ DataType /\ HistoryType
  BY TypeParts, Zenon
<1>2. SUFFICES ui' \in View /\ WellFormed(reqs)' /\ ServerType' /\ DataType' /\ HistoryType'
  BY TypeParts, SMTT(30) DEF TypeOK, WellFormed, ServerType, DataType, HistoryType
<1>3. ASSUME NEW op \in Operations, handleOperationClick(op)
      PROVE  ui' \in View /\ WellFormed(reqs)' /\ ServerType' /\ DataType' /\ HistoryType'
  <2>1. ui' \in View
    BY <1>1, <1>3, ViewTypes, ZenonT(30) DEF handleOperationClick
  <2>2. Send("all", None, None) \/ Send("flush", None, None) \/ UNCHANGED reqs
    BY <1>3, ZenonT(30) DEF handleOperationClick
  <2>3. WellFormed(reqs)' /\ DOMAIN reqs \subseteq DOMAIN reqs'
    BY <1>1, <2>2, SendTypes, Zenon DEF WellFormed
  <2> QED
    BY <1>1, <1>3, <2>1, <2>3, ZenonT(30) DEF handleOperationClick, server, data, ServerType, DataType, HistoryType
<1>4. CASE Confirm
  <2>1. CASE UNCHANGED reqs /\ ui' = [ui EXCEPT !.message = "missing"]
    <3>1. "missing" \in Message
      BY Zenon DEF Message
    <3>2. ui' \in View
      BY <1>1, <2>1, <3>1, MessageField, Zenon
    <3> QED
      BY <1>1, <1>4, <2>1, <3>2 DEF Confirm, server, data, WellFormed, ServerType, DataType, HistoryType
  <2>2. CASE ~(ui.key = None \/ (ui.operation = "insert" /\ ui.value = None))
    <3>1. ui.key \in Key /\ ui.value \in Value \cup {None}
      BY <1>1, <2>2, Zenon DEF View
    <3>2. ui.operation = "insert" => ui.value \in Value
      BY <2>2, <3>1, Zenon
    <3>3. PICK kind \in {"set", "get", "del"} :
             /\ kind = "set" => ui.operation = "insert"
             /\ Send(kind, ui.key, ui.value)
      BY <1>4, <2>2 DEF Confirm
    <3>4. WellFormed(reqs)' /\ DOMAIN reqs \subseteq DOMAIN reqs'
      BY <3>1, <3>2, <3>3, SendTypes, Zenon
    <3> QED
      BY <1>1, <1>4, <2>2, <3>4 DEF Confirm, server, data, ServerType, DataType, HistoryType
  <2> QED
    BY <1>4, <2>1, <2>2, Zenon DEF Confirm
<1>5. ASSUME NEW i \in DOMAIN reqs, Settle(i)
      PROVE  ui' \in View /\ WellFormed(reqs)' /\ ServerType' /\ DataType' /\ HistoryType'
  <2>1. reqs[i] \in Request /\ (reqs[i].kind = "set" => reqs[i].key \in Key /\ reqs[i].val \in Value)
    BY <1>1 DEF WellFormed
  <2>2. ui' \in View
    BY <1>1, <1>5, <2>1, SettledType, Zenon DEF Settle
  <2>3. reqs' = [reqs EXCEPT ![i] = Over(reqs[i])]
    BY <1>5, Zenon DEF Settle
  <2>4. WellFormed([reqs EXCEPT ![i] = Over(reqs[i])])
        /\ DOMAIN [reqs EXCEPT ![i] = Over(reqs[i])] = DOMAIN reqs
    BY <1>1, <2>1, OverFacts, OneType, Zenon
  <2> QED
    BY <1>1, <1>5, <2>2, <2>3, <2>4, Zenon DEF Settle, server, data, WellFormed, ServerType, DataType, HistoryType
<1>6. ASSUME NEW i \in DOMAIN reqs, NotConnected(i)
      PROVE  ui' \in View /\ WellFormed(reqs)' /\ ServerType' /\ DataType' /\ HistoryType'
  <2>1. 0 \in Status /\ Nothing \in Database
    BY DatabaseType DEF Status
  <2>2. TypeOK'
    BY <1>6, <2>1, RespondTypes DEF NotConnected
  <2> QED
    BY <2>2, Zenon DEF TypeOK, WellFormed, ServerType, DataType, HistoryType
<1> QED
  BY <1>3, <1>4, <1>5, <1>6, Zenon

\* Steps of the processes that break connections or load the log.
LEMMA ProcessTypes ==
  ASSUME TypeOK, \/ PingTimeout \/ Signal \/ CloseKill \/ ServerDies
                 \/ \E g \in 1..MaxStarts : Loaded(g)
  PROVE  TypeOK'
<1>1. ui \in View /\ WellFormed(reqs) /\ ServerType /\ DataType /\ HistoryType
  BY TypeParts, Zenon
<1> SUFFICES ui' \in View /\ WellFormed(reqs)' /\ ServerType' /\ DataType' /\ HistoryType'
  BY TypeParts, Zenon DEF TypeOK, WellFormed, ServerType, DataType, HistoryType
<1>2. CASE PingTimeout
  BY <1>1, <1>2, DieTypes, Zenon DEF PingTimeout, ServerType
<1>3. CASE Signal
  <2>1. WellFormed(Disturbed(reqs)) /\ DOMAIN Disturbed(reqs) = DOMAIN reqs
    BY <1>1, DisturbedTypes, Zenon
  <2> QED
    BY <1>1, <1>3, <2>1, Zenon DEF Signal, data, WellFormed, ServerType, DataType, HistoryType
<1>4. CASE CloseKill
  <2>1. WellFormed(Abandoned(reqs)) /\ DOMAIN Abandoned(reqs) = DOMAIN reqs
    BY <1>1, AbandonedTypes
  <2>2. WellFormed(reqs)' /\ DOMAIN reqs' = DOMAIN reqs
    BY <1>4, <2>1, Zenon DEF CloseKill, WellFormed
  <2>3. ServerType' /\ ui' \in View
    <3>1. port' \in 0..MaxStarts
      BY <1>1, <1>4, DemoAssumption DEF CloseKill, ServerType
    <3>2. procs' \in [1..MaxStarts -> {"none", "boot", "loading", "running", "dead"}]
      BY <1>1, <1>4, ZenonT(30) DEF CloseKill, ServerType
    <3> QED
      BY <1>1, <1>4, <3>1, <3>2, Zenon DEF CloseKill, ServerType
  <2>4. DataType' /\ HistoryType'
    BY <1>1, <1>4, <2>2, DatabaseType, Zenon DEF CloseKill, DataType, HistoryType
  <2> QED
    BY <2>2, <2>3, <2>4, Zenon
<1>5. CASE ServerDies
  BY <1>1, <1>5, DieTypes, Zenon DEF ServerDies, ServerType
<1>6. ASSUME NEW g \in 1..MaxStarts, Loaded(g)
      PROVE  ui' \in View /\ WellFormed(reqs)' /\ ServerType' /\ DataType' /\ HistoryType'
  <2>1. saved \in Database
    BY <1>1 DEF DataType
  <2>2. WellFormed(AllSee(reqs, saved)) /\ DOMAIN AllSee(reqs, saved) = DOMAIN reqs
    BY <1>1, <2>1, AllSeeTypes, Zenon
  <2>3. WellFormed(reqs)' /\ DOMAIN reqs' = DOMAIN reqs
    BY <1>6, <2>2, Zenon DEF Loaded, Apply, WellFormed
  <2>4. ServerType'
    BY <1>1, <1>6 DEF Loaded, ServerType
  <2>5. DataType'
    BY <1>1, <1>6, <2>1, PairsType DEF Loaded, Apply, DataType
  <2> QED
    BY <1>1, <1>6, <2>3, <2>4, <2>5, Zenon DEF Loaded, HistoryType
<1> QED
  BY <1>2, <1>3, <1>4, <1>5, <1>6, Zenon

\* Steps of the HTTP handlers.
LEMMA HandlerTypes ==
  ASSUME TypeOK, NEW i \in DOMAIN reqs, Handler(i)
  PROVE  TypeOK'
<1>1. ui \in View /\ WellFormed(reqs) /\ ServerType /\ DataType /\ HistoryType
  BY TypeParts
<1>2. /\ reqs[i] \in Request
      /\ reqs[i].kind \in {"get", "set", "del"} => reqs[i].key \in Key
      /\ reqs[i].kind = "set" => reqs[i].val \in Value
  BY <1>1 DEF WellFormed
<1>3. /\ {0, 200, 404, 500} \subseteq Status /\ Nothing \in Database
      /\ reqs[i].body \in Database /\ reqs[i].status \in Status
  BY <1>2, DatabaseType, SMTT(30) DEF Request, Status
<1>4. ASSUME NEW r \in Request, r.kind = reqs[i].kind, r.key = reqs[i].key, r.val = reqs[i].val,
             reqs' = [reqs EXCEPT ![i] = r], UNCHANGED <<ui, server, data>>
      PROVE  TypeOK'
  <2>1. WellFormed([reqs EXCEPT ![i] = r]) /\ DOMAIN [reqs EXCEPT ![i] = r] = DOMAIN reqs
    BY <1>1, <1>4, OneType, ZenonT(30)
  <2>2. WellFormed(reqs)' /\ HistoryType'
    BY <1>1, <1>4, <2>1, Zenon DEF WellFormed, HistoryType, data
  <2>3. ui' \in View /\ ServerType' /\ DataType'
    BY <1>1, <1>4 DEF server, data, ServerType, DataType
  <2> QED
    BY <2>2, <2>3, TypeParts, Zenon DEF TypeOK, WellFormed, ServerType, DataType, HistoryType
<1>5. CASE getAllKeys(i)
  <2>1. CASE Reachable
    <3>1. reqs' = [reqs EXCEPT ![i] = Listed(reqs[i], {k \in Key : db[k] # None})]
          /\ UNCHANGED <<ui, server, data>>
      BY <1>5, <2>1, Zenon DEF getAllKeys
    <3>2. {k \in Key : db[k] # None} \in SUBSET Key
      BY Zenon
    <3> QED
      BY <1>2, <1>4, <3>1, <3>2, ListedFacts
  <2>2. CASE ~Reachable
    BY <1>3, <1>5, <2>2, RespondTypes DEF getAllKeys
  <2> QED
    BY <2>1, <2>2
<1>6. CASE GetNext(i)
  <2>1. PICK k \in reqs[i].todo :
           reqs' = [reqs EXCEPT ![i] = Collects(reqs[i], k, IF Reachable THEN db[k] ELSE None)]
    BY <1>6, ZenonT(30) DEF GetNext
  <2>2. k \in Key
    BY <1>2, Zenon DEF Request
  <2>3. (IF Reachable THEN db[k] ELSE None) \in Value \cup {None}
    BY <1>1, <2>2, Zenon DEF DataType, Database
  <2>4. PICK v \in Value \cup {None} : reqs' = [reqs EXCEPT ![i] = Collects(reqs[i], k, v)]
    BY <2>1, <2>3, ZenonT(30)
  <2>5. UNCHANGED <<ui, server, data>>
    BY <1>6 DEF GetNext
  <2>6. reqs[i] \in Request
    BY <1>2, Zenon
  <2>7. /\ Collects(reqs[i], k, v) \in Request
        /\ Collects(reqs[i], k, v).kind = reqs[i].kind
        /\ Collects(reqs[i], k, v).key = reqs[i].key
        /\ Collects(reqs[i], k, v).val = reqs[i].val
    BY <2>2, <2>6, CollectsFacts
  <2> QED
    BY <1>4, <2>4, <2>5, <2>7, ZenonT(30)
<1>7. CASE AllKeysDone(i)
  BY <1>3, <1>7, RespondTypes DEF AllKeysDone
<1>8. CASE getValueByKey(i)
  <2>1. reqs[i].key \in Key
    BY <1>2, <1>8, Zenon DEF getValueByKey, Is
  <2>2. [Nothing EXCEPT ![reqs[i].key] = db[reqs[i].key]] \in Database
    <3>1. db[reqs[i].key] \in Value \cup {None}
      BY <1>1, <2>1, Zenon DEF DataType, Database
    <3> QED
      BY <2>1, <3>1, DatabaseType, Zenon
  <2>3. \/ Respond(i, 200, [Nothing EXCEPT ![reqs[i].key] = db[reqs[i].key]])
        \/ Respond(i, 404, Nothing)
    BY <1>8, Zenon DEF getValueByKey
  <2> QED
    BY <1>3, <2>2, <2>3, RespondTypes
<1>9. CASE ExecuteWrite(i)
  <2> DEFINE r == reqs[i]
             rs == [reqs EXCEPT ![i] = Executed(r, WriteStatus(r))]
  <2>1. r.kind \in {"set", "del", "flush"}
    BY <1>9 DEF ExecuteWrite, Is
  <2>2. Written(r) \in Database /\ WriteStatus(r) \in Status
    BY <1>1, <1>2, <2>1, WrittenType DEF DataType
  <2>3. WellFormed(rs) /\ DOMAIN rs = DOMAIN reqs
    BY <1>1, <1>2, <2>2, ExecutedFacts, OneType
  <2>4. Apply(Written(r), rs) /\ unsaved' \in {unsaved, unsaved \cup {i}}
        /\ UNCHANGED <<ui, server, saved, lost, postponed>>
    BY <1>9, Zenon DEF ExecuteWrite
  <2> HIDE DEF r, rs
  <2>5. WellFormed(AllSee(rs, Written(r))) /\ DOMAIN AllSee(rs, Written(r)) = DOMAIN rs
    BY <2>2, <2>3, AllSeeTypes, Zenon
  <2>6. WellFormed(reqs)' /\ DOMAIN reqs' = DOMAIN reqs
    BY <2>3, <2>4, <2>5, Zenon DEF Apply, WellFormed
  <2>7. DataType'
    BY <1>1, <2>2, <2>4, PairsType DEF Apply, DataType
  <2>8. HistoryType' /\ ui' \in View /\ ServerType'
    BY <1>1, <2>4, <2>6 DEF HistoryType, server, ServerType
  <2> QED
    BY <2>6, <2>7, <2>8, TypeParts, Zenon DEF TypeOK, WellFormed, ServerType, DataType, HistoryType
<1>10. CASE ReplyToWrite(i)
  BY <1>3, <1>10, RespondTypes DEF ReplyToWrite
<1>11. CASE WriteFails(i)
  BY <1>3, <1>11, RespondTypes DEF WriteFails
<1> QED
  BY <1>5, <1>6, <1>7, <1>8, <1>9, <1>10, <1>11, Zenon DEF Handler

LEMMA InitTypes == Init => TypeOK
<1> SUFFICES ASSUME Init PROVE TypeOK
  BY Zenon
<1>1. ui \in View
  BY DatabaseType, Zenon DEF Init, View, Message
<1>2. WellFormed(reqs) /\ HistoryType
  BY DEF Init, WellFormed, HistoryType
<1>3. ServerType
  BY DemoAssumption DEF Init, ServerType
<1>4. DataType
  BY DemoAssumption, DatabaseType DEF Init, DataType, Database
<1> QED
  BY <1>1, <1>2, <1>3, <1>4, TypeParts, Zenon

LEMMA StepTypes == TypeOK /\ [Next]_vars => TypeOK'
<1> SUFFICES ASSUME TypeOK, [Next]_vars PROVE TypeOK'
  BY Zenon
<1>1. CASE UNCHANGED vars
  BY <1>1, Zenon DEF vars, app, server, data, TypeOK
<1>2. CASE Page
  BY <1>2, PageTypes, QuietTypes DEF Page
<1>3. CASE Process
  BY <1>3, ProcessTypes, QuietTypes, Zenon DEF Process
<1>4. CASE \E i \in DOMAIN reqs : Handler(i)
  BY <1>4, HandlerTypes, Zenon
<1> QED
  BY <1>1, <1>2, <1>3, <1>4, Zenon DEF Next

LEMMA PairsIn ==
  ASSUME NEW m \in Database, NEW e
  PROVE  Pairs(m) \subseteq e <=> \A k \in Key : m[k] # None => <<k, m[k]>> \in e
  BY Zenon DEF Pairs

LEMMA NothingFacts == Nothing \in Database /\ Pairs(Nothing) = {}
  BY DatabaseType, Zenon DEF Nothing, Pairs

\* A keyspace with one pair.
LEMMA OnePair ==
  ASSUME NEW k \in Key, NEW v \in Value \cup {None}
  PROVE  [Nothing EXCEPT ![k] = v] \in Database /\ Pairs([Nothing EXCEPT ![k] = v]) \subseteq {<<k, v>>}
<1>1. [Nothing EXCEPT ![k] = v] \in Database
  BY DatabaseType
<1>2. \A x \in Key : [Nothing EXCEPT ![k] = v][x] # None => x = k /\ [Nothing EXCEPT ![k] = v][x] = v
  BY DEF Nothing
<1> QED
  BY <1>1, <1>2, PairsIn, ZenonT(30)

(***************************************************************************)
(* One server works on the log.                                            *)
(***************************************************************************)

LEMMA StepProc == TypeOK /\ ProcInv /\ [Next]_vars => ProcInv'
<1> SUFFICES ASSUME TypeOK, ProcInv, [Next]_vars PROVE ProcInv'
  BY Zenon
<1>1. ServerType /\ MaxStarts \in Nat
  BY TypeParts, DemoAssumption, Zenon
<1>2. ASSUME UNCHANGED server PROVE ProcInv'
  BY <1>2, Zenon DEF server, ProcInv
<1>3. ASSUME NEW g \in 1..MaxStarts, Die(g)
      PROVE  /\ \A h \in 1..MaxStarts : procs'[h] \in {"loading", "running"} => port' = h
             /\ port' # 0 => procs'[port'] \in {"loading", "running"}
             /\ procs' = [procs EXCEPT ![g] = "dead"]
  BY <1>1, <1>3 DEF Die, ProcInv, ServerType
<1>4. CASE UNCHANGED vars
  BY <1>2, <1>4, Zenon DEF vars
<1>5. CASE Page
  <2>1. UNCHANGED server
    BY <1>5, ZenonT(30) DEF Page, handleOperationClick, Type, Confirm, CloseAlert, Settle, NotConnected, Respond
  <2> QED
    BY <1>2, <2>1, Zenon
<1>6. CASE \E i \in DOMAIN reqs : Handler(i)
  <2>1. UNCHANGED server
    BY <1>6 DEF Handler, getAllKeys, GetNext, AllKeysDone, getValueByKey, ExecuteWrite,
                ReplyToWrite, WriteFails, Respond
  <2> QED
    BY <1>2, <2>1, Zenon
<1>7. CASE NewRedisServer
  BY <1>1, <1>7, SMTT(30) DEF NewRedisServer, ProcInv, ServerType
<1>8. CASE PingAnswered \/ Run \/ Signal
  BY <1>8, Zenon DEF PingAnswered, Run, Signal, ProcInv
<1>9. CASE PingTimeout
  <2>1. starts \in 1..MaxStarts
    BY <1>1, <1>9 DEF PingTimeout, ProcInv, ServerType
  <2> QED
    BY <1>1, <1>3, <1>9, <2>1 DEF PingTimeout, ProcInv, ServerType
<1>10. CASE CloseKill
  <2>1. starts \in 1..MaxStarts
    BY <1>1, <1>10 DEF CloseKill, ProcInv, ServerType
  <2> QED
    BY <1>1, <1>10, <2>1 DEF CloseKill, ProcInv, ServerType
<1>11. CASE ServerDies
  <2>1. port \in 1..MaxStarts
    BY <1>1, <1>11 DEF ServerDies, ServerType
  <2> QED
    BY <1>1, <1>3, <1>11, <2>1, Zenon DEF ServerDies, ProcInv, ServerType
<1>12. ASSUME NEW g \in 1..MaxStarts, Boot(g) PROVE ProcInv'
  BY <1>1, <1>12 DEF Boot, ProcInv, ServerType
<1>13. ASSUME NEW g \in 1..MaxStarts, Loaded(g) PROVE ProcInv'
  BY <1>1, <1>13, Zenon DEF Loaded, ProcInv, ServerType
<1>14. CASE Flush \/ FlushPostponed
  BY <1>2, <1>14, Zenon DEF Flush, FlushPostponed
<1> QED
  BY <1>4, <1>5, <1>6, <1>7, <1>8, <1>9, <1>10, <1>11, <1>12, <1>13, <1>14 DEF Next, Process

\* The invariants every other argument needs: types, and the life of the processes.
Base == TypeOK /\ ProcInv

LEMMA BaseHolds == Spec => []Base
<1>1. Init => Base
  BY InitTypes, Zenon DEF Init, Base, ProcInv
<1>2. Base /\ [Next]_vars => Base'
  BY StepTypes, StepProc, Zenon DEF Base
<1> QED
  BY <1>1, <1>2, PTL DEF Spec

\* Every variable of the demo always has its type, and every request the key and
\* the value its handler reads (main.go).
THEOREM TypeCorrect == Spec => []TypeOK
<1>1. Base => TypeOK
  BY Zenon DEF Base
<1> QED
  BY <1>1, BaseHolds, PTL

\* However often the Go process is started, killed or fails to listen, and
\* whatever it leaves behind, at most one redis-server works on the log
\* (NewRedisServer, Close, main's ignored r.Run error).
THEOREM SingleWriter == Spec => []OneWriter
<1>1. Base => OneWriter
  <2> SUFFICES ASSUME Base PROVE OneWriter
    BY Zenon
  <2> DEFINE writers == {g \in 1..MaxStarts : procs[g] \in {"loading", "running"}}
  <2>1. writers \subseteq {port}
    BY Zenon DEF Base, ProcInv
  <2>2. IsFiniteSet({port}) /\ Cardinality({port}) = 1
    BY FS_Singleton
  <2>3. IsFiniteSet(writers) /\ Cardinality(writers) <= Cardinality({port})
    BY <2>1, <2>2, FS_Subset, Zenon
  <2> QED
    BY <2>2, <2>3, Zenon DEF OneWriter
<1> QED
  BY <1>1, BaseHolds, PTL

(***************************************************************************)
(* What the page shows has been in the database.                           *)
(***************************************************************************)

\* Whatever can still reach the page has been in the keyspace.
StoredInv ==
    /\ Pairs(db) \subseteq ever
    /\ \A i \in DOMAIN reqs :
          /\ Pairs(reqs[i].body) \subseteq ever
          /\ reqs[i].kind = "set" /\ reqs[i].status = 200 => <<reqs[i].key, reqs[i].val>> \in ever
    /\ ShownWasStored

\* StoredInv for one request.
Stored(r, e) ==
    /\ Pairs(r.body) \subseteq e
    /\ r.kind = "set" /\ r.status = 200 => <<r.key, r.val>> \in e

LEMMA StoredParts ==
  StoredInv <=> Pairs(db) \subseteq ever /\ (\A i \in DOMAIN reqs : Stored(reqs[i], ever))
                /\ Pairs(ui.result) \subseteq ever
  BY Zenon DEF StoredInv, Stored, ShownWasStored

\* What the page shows changes with a click and with an answer only.
LEMMA ResultFacts ==
  ASSUME NEW u \in View
  PROVE  /\ clearInputs(u).result = u.result /\ Failed(u).result = u.result
         /\ clearInputs(u).message = "none" /\ Failed(u).message = "failed"
         /\ \A m \in Database, msg \in Message : Show(u, m, msg).result = m /\ Show(u, m, msg).message = msg
         /\ \A k \in Key, v \in Value \cup {None} :
               /\ [u EXCEPT !.key = k, !.value = v].result = u.result
               /\ [u EXCEPT !.key = k, !.value = v].message = u.message
         /\ \A msg \in Message : /\ [u EXCEPT !.message = msg].result = u.result
                                 /\ [u EXCEPT !.message = msg].message = msg
         /\ \A op \in Operations :
               /\ [clearInputs(u) EXCEPT !.operation = op, !.result = Nothing].result = Nothing
               /\ [clearInputs(u) EXCEPT !.operation = op, !.result = Nothing].message = "none"
<1>1. clearInputs(u) \in View
  BY ViewTypes, Zenon
<1>2. clearInputs(u).result = u.result /\ clearInputs(u).message = "none"
  BY Zenon DEF clearInputs, View
<1>3. Failed(u).result = u.result /\ Failed(u).message = "failed"
  BY Zenon DEF Failed, View
<1>4. \A m \in Database, msg \in Message : Show(u, m, msg).result = m /\ Show(u, m, msg).message = msg
  BY Zenon DEF Show, View
<1>5. \A k \in Key, v \in Value \cup {None} :
         /\ [u EXCEPT !.key = k, !.value = v].result = u.result
         /\ [u EXCEPT !.key = k, !.value = v].message = u.message
  BY Zenon DEF View
<1>6. \A msg \in Message : /\ [u EXCEPT !.message = msg].result = u.result
                           /\ [u EXCEPT !.message = msg].message = msg
  BY DEF View
<1>7. ASSUME NEW op \in Operations
      PROVE  /\ [clearInputs(u) EXCEPT !.operation = op, !.result = Nothing].result = Nothing
             /\ [clearInputs(u) EXCEPT !.operation = op, !.result = Nothing].message = "none"
  BY <1>1, <1>2 DEF View
<1> QED
  BY <1>2, <1>3, <1>4, <1>5, <1>6, <1>7

\* The page after the answer to r.
LEMMA SettledFacts ==
  ASSUME NEW u \in View, NEW r \in Request, r.kind = "set" => r.key \in Key /\ r.val \in Value
  PROVE  \/ r.status = 200 /\ r.kind = "set" /\ Settled(u, r).message = "none"
            /\ Settled(u, r).result = [Nothing EXCEPT ![r.key] = r.val]
         \/ r.status = 200 /\ r.kind = "all" /\ Settled(u, r).result = r.body
            /\ Settled(u, r).message = IF r.body # Nothing THEN "found" ELSE "empty"
         \/ r.status = 200 /\ r.kind = "get" /\ Settled(u, r).result = r.body
            /\ Settled(u, r).message = "found"
         \/ Settled(u, r).result = Nothing /\ Settled(u, r).message # "found"
         \/ Settled(u, r).result = u.result /\ Settled(u, r).message = "failed"
<1>1. r.body \in Database /\ Nothing \in Database
  BY NothingFacts DEF Request
<1>2. {"inserted", "found", "empty", "notfound", "alldeleted", "deleted"} \subseteq Message
  BY Zenon DEF Message
<1>3. CASE r.status = 200 /\ r.kind = "set"
  <2> DEFINE m == [Nothing EXCEPT ![r.key] = r.val]
  <2>1. m \in Database
    BY <1>3, OnePair
  <2>2. Settled(u, r) = clearInputs(Show(u, m, "inserted"))
    BY <1>3 DEF Settled
  <2> HIDE DEF m
  <2>3. Show(u, m, "inserted") \in View /\ Show(u, m, "inserted").result = m
    <3>1. "inserted" \in Message
      BY <1>2, Zenon
    <3>2. Show(u, m, "inserted") \in View
      BY <2>1, <3>1, ViewTypes, Zenon
    <3> QED
      BY <2>1, <3>1, <3>2, ResultFacts
  <2>4. Settled(u, r).result = m /\ Settled(u, r).message = "none"
    BY <2>2, <2>3, ResultFacts
  <2> QED
    BY <1>3, <2>4, Zenon DEF m
<1>4. CASE r.status = 200 /\ r.kind = "all"
  <2>1. Settled(u, r) = Show(u, r.body, IF r.body # Nothing THEN "found" ELSE "empty")
    BY <1>4, Zenon DEF Settled
  <2> QED
    BY <1>1, <1>2, <1>4, <2>1, ResultFacts
<1>5. CASE r.status = 200 /\ r.kind = "get"
  <2>1. Settled(u, r) = Show(u, r.body, "found")
    BY <1>5 DEF Settled
  <2> QED
    BY <1>1, <1>2, <1>5, <2>1, ResultFacts
<1>6. CASE r.status = 404 /\ r.kind = "get"
  <2>1. Settled(u, r) = Show(u, Nothing, "notfound")
    BY <1>6 DEF Settled
  <2> QED
    BY <1>1, <1>2, <2>1, ResultFacts
<1>7. CASE r.status = 200 /\ r.kind = "flush"
  <2>1. Settled(u, r) = Show(u, Nothing, "alldeleted")
    BY <1>7, Zenon DEF Settled
  <2> QED
    BY <1>1, <1>2, <2>1, ResultFacts
<1>8. CASE r.status = 200 /\ r.kind = "del"
  <2>1. Settled(u, r) = clearInputs(Show(u, Nothing, "deleted"))
    BY <1>8 DEF Settled
  <2>2. Show(u, Nothing, "deleted") \in View /\ Show(u, Nothing, "deleted").result = Nothing
    <3>1. "deleted" \in Message
      BY <1>2, Zenon
    <3>2. Show(u, Nothing, "deleted") \in View
      BY <1>1, <3>1, ViewTypes, Zenon
    <3> QED
      BY <1>1, <3>1, <3>2, ResultFacts
  <2> QED
    BY <2>1, <2>2, ResultFacts
<1>9. CASE ~(r.status = 200 /\ r.kind \in {"set", "all", "get", "flush", "del"})
           /\ ~(r.status = 404 /\ r.kind = "get")
  <2>1. Settled(u, r) = Failed(u)
    BY <1>9 DEF Settled
  <2> QED
    BY <2>1, ResultFacts
<1> QED
  BY <1>3, <1>4, <1>5, <1>6, <1>7, <1>8, <1>9

LEMMA StoredKept ==
  ASSUME NEW r \in Request, NEW s \in Request, NEW e, NEW f, Stored(r, e), e \subseteq f,
         s.kind = r.kind, s.key = r.key, s.val = r.val,
         s.body = r.body \/ s.body = Nothing, s.status = r.status \/ s.status # 200
  PROVE  Stored(s, f)
<1>1. Pairs(s.body) \subseteq f
  <2>1. Pairs(r.body) \subseteq f
    BY Zenon DEF Stored
  <2> QED
    BY <2>1, NothingFacts
<1> QED
  BY <1>1 DEF Stored

\* All the requests at once.
LEMMA AllStored ==
  ASSUME NEW rs, WellFormed(rs), NEW e, NEW m \in Database, \A i \in DOMAIN rs : Stored(rs[i], e)
  PROVE  /\ \A i \in DOMAIN rs : Stored(AllSee(rs, m)[i], e)
         /\ \A i \in DOMAIN rs : Stored(Disturbed(rs)[i], e)
         /\ \A i \in DOMAIN rs : Stored(Abandoned(rs)[i], e)
<1>1. \A i \in DOMAIN rs : rs[i] \in Request
  BY DEF WellFormed
<1>2. ASSUME NEW i \in DOMAIN rs
      PROVE  /\ Stored(Sees(rs[i], m), e)
             /\ Stored(Disturb(rs[i]), e)
             /\ Stored(Abandon(rs[i]), e)
  <2>1. Stored(Sees(rs[i], m), e)
    BY <1>1, SeesFacts, StoredKept, SMTT(30)
  <2>2. Stored(Disturb(rs[i]), e)
    BY <1>1, DisturbFacts, StoredKept, SMTT(30)
  <2>3. Stored(Abandon(rs[i]), e)
    BY <1>1, AbandonFacts, StoredKept, SMTT(30)
  <2> QED
    BY <2>1, <2>2, <2>3, Zenon
<1> QED
  BY <1>2, Zenon DEF AllSee, Disturbed, Abandoned

\* One request gets an answer.
LEMMA RespondStored ==
  ASSUME TypeOK, StoredInv, NEW i \in DOMAIN reqs, NEW status \in Status, NEW m \in Database,
         Pairs(m) \subseteq ever, Stored(reqs[i], ever),
         reqs[i].kind = "set" /\ status = 200 => reqs[i].status = 200,
         Respond(i, status, m)
  PROVE  StoredInv'
<1>1. WellFormed(reqs) /\ reqs[i] \in Request
  BY TypeParts, SMTT(30) DEF WellFormed
<1>2. Stored(Answer(reqs[i], status, m), ever)
  BY <1>1, AnswerFacts, SMTT(30) DEF Stored
<1>3. UNCHANGED <<ui, db, ever>> /\ reqs' = [reqs EXCEPT ![i] = Answer(reqs[i], status, m)]
  BY Zenon DEF Respond, data
<1>4. DOMAIN reqs' = DOMAIN reqs /\ \A j \in DOMAIN reqs : Stored(reqs'[j], ever)
  BY <1>2, <1>3, StoredParts
<1> QED
  BY <1>3, <1>4, StoredParts, SMTT(30) DEF StoredInv, Stored, ShownWasStored

LEMMA SendStored ==
  ASSUME TypeOK, StoredInv, NEW kind \in {"all", "get", "set", "del", "flush"},
         NEW k \in Key \cup {None}, NEW v \in Value \cup {None}, Send(kind, k, v)
  PROVE  \A i \in DOMAIN reqs' : Stored(reqs'[i], ever)
<1>1. reqs \in Seq(Request) /\ db \in Database
  BY Zenon DEF TypeOK
<1> DEFINE n == NewRequest(kind, k, v)
<1>2. n \in Request /\ n.body = Nothing /\ n.status = 0
  BY NewRequestFacts
<1>3. reqs' = Append(reqs, IF Up THEN Sees(n, db) ELSE n)
  BY Zenon DEF Send
<1> HIDE DEF n
<1>4. Sees(n, db) \in Request /\ Sees(n, db).body = Nothing /\ Sees(n, db).status = 0
  BY <1>1, <1>2, SeesFacts
<1>5. Stored(n, ever) /\ Stored(Sees(n, db), ever)
  BY <1>2, <1>4, NothingFacts DEF Stored
<1>6. \A i \in DOMAIN reqs : Stored(reqs[i], ever)
  BY StoredParts, Zenon
<1>7. PICK r \in Request : reqs' = Append(reqs, r) /\ Stored(r, ever)
  BY <1>2, <1>3, <1>4, <1>5, Zenon
<1>8. \A i \in DOMAIN Append(reqs, r) : Append(reqs, r)[i] \in {r} \cup {reqs[j] : j \in DOMAIN reqs}
  BY <1>1
<1> QED
  BY <1>6, <1>7, <1>8, Zenon

LEMMA PageStored == ASSUME TypeOK, StoredInv, Page PROVE StoredInv'
<1>1. ui \in View /\ WellFormed(reqs) /\ DataType
  BY TypeParts, Zenon
<1>2. Pairs(db) \subseteq ever /\ (\A i \in DOMAIN reqs : Stored(reqs[i], ever)) /\ Pairs(ui.result) \subseteq ever
  BY StoredParts, Zenon
<1>3. UNCHANGED <<db, ever>>
  BY Zenon DEF Page, handleOperationClick, Type, Confirm, CloseAlert, Settle, NotConnected, Respond, data
<1>4. SUFFICES (\A i \in DOMAIN reqs' : Stored(reqs'[i], ever)) /\ Pairs(ui'.result) \subseteq ever
  BY <1>2, <1>3 DEF StoredInv, Stored, ShownWasStored
<1>5. ASSUME NEW op \in Operations, handleOperationClick(op)
      PROVE  (\A i \in DOMAIN reqs' : Stored(reqs'[i], ever)) /\ Pairs(ui'.result) \subseteq ever
  <2>1. ui'.result = Nothing
    BY <1>1, <1>5, ResultFacts DEF handleOperationClick
  <2>2. Send("all", None, None) \/ Send("flush", None, None) \/ UNCHANGED reqs
    BY <1>5, Zenon DEF handleOperationClick
  <2>3. \A i \in DOMAIN reqs' : Stored(reqs'[i], ever)
    BY <1>2, <2>2, SendStored, Zenon
  <2> QED
    BY <2>1, <2>3, NothingFacts, Zenon
<1>6. CASE Type
  <2>1. PICK k \in Key, v \in Value \cup {None} : ui' = [ui EXCEPT !.key = k, !.value = v]
    BY <1>6, Zenon DEF Type
  <2>2. ui'.result = ui.result
    BY <1>1, <2>1, ResultFacts
  <2> QED
    BY <1>2, <1>6, <2>2 DEF Type
<1>7. CASE CloseAlert
  <2>1. "none" \in Message
    BY Zenon DEF Message
  <2>2. ui'.result = ui.result
    BY <1>1, <1>7, <2>1, ResultFacts DEF CloseAlert
  <2> QED
    BY <1>2, <1>7, <2>2, Zenon DEF CloseAlert
<1>8. CASE Confirm
  <2>1. CASE UNCHANGED reqs /\ ui' = [ui EXCEPT !.message = "missing"]
    <3>1. "missing" \in Message
      BY Zenon DEF Message
    <3>2. ui'.result = ui.result
      BY <1>1, <2>1, <3>1, ResultFacts, Zenon
    <3> QED
      BY <1>2, <2>1, <3>2
  <2>2. CASE ~(ui.key = None \/ (ui.operation = "insert" /\ ui.value = None))
    <3>1. ui.key \in Key \cup {None} /\ ui.value \in Value \cup {None}
      BY <1>1, Zenon DEF View
    <3>2. PICK kind \in {"set", "get", "del"} : Send(kind, ui.key, ui.value)
      BY <1>8, <2>2, Zenon DEF Confirm
    <3>3. \A i \in DOMAIN reqs' : Stored(reqs'[i], ever)
      BY <3>1, <3>2, SendStored
    <3> QED
      BY <1>2, <1>8, <2>2, <3>3 DEF Confirm
  <2> QED
    BY <1>8, <2>1, <2>2, Zenon DEF Confirm
<1>9. ASSUME NEW i \in DOMAIN reqs, Settle(i)
      PROVE  (\A j \in DOMAIN reqs' : Stored(reqs'[j], ever)) /\ Pairs(ui'.result) \subseteq ever
  <2>1. reqs[i] \in Request /\ (reqs[i].kind = "set" => reqs[i].key \in Key /\ reqs[i].val \in Value)
    BY <1>1 DEF WellFormed
  <2>2. reqs' = [reqs EXCEPT ![i] = Over(reqs[i])] /\ ui' = Settled(ui, reqs[i])
    BY <1>9, Zenon DEF Settle
  <2>3. Stored(Over(reqs[i]), ever)
    BY <1>2, <2>1, OverFacts, StoredKept, SMTT(30)
  <2>4. \A j \in DOMAIN reqs' : Stored(reqs'[j], ever)
    BY <1>2, <2>2, <2>3, Zenon
  <2>5. \/ reqs[i].status = 200 /\ reqs[i].kind = "set"
           /\ ui'.result = [Nothing EXCEPT ![reqs[i].key] = reqs[i].val]
        \/ ui'.result = reqs[i].body
        \/ ui'.result = Nothing
        \/ ui'.result = ui.result
    BY <1>1, <2>1, <2>2, SettledFacts, ZenonT(30)
  <2>6. Stored(reqs[i], ever)
    BY <1>2, Zenon
  <2>7. CASE reqs[i].status = 200 /\ reqs[i].kind = "set"
             /\ ui'.result = [Nothing EXCEPT ![reqs[i].key] = reqs[i].val]
    <3>1. <<reqs[i].key, reqs[i].val>> \in ever
      BY <2>6, <2>7 DEF Stored
    <3>2. Pairs([Nothing EXCEPT ![reqs[i].key] = reqs[i].val]) \subseteq {<<reqs[i].key, reqs[i].val>>}
      <4>1. reqs[i].key \in Key /\ reqs[i].val \in Value \cup {None}
        BY <2>1, <2>7, Zenon
      <4> QED
        BY <4>1, OnePair, Zenon
    <3>3. Pairs(ui'.result) \subseteq {<<reqs[i].key, reqs[i].val>>}
      BY <2>7, <3>2, Zenon
    <3> QED
      BY <2>4, <3>1, <3>3, Zenon
  <2>8. CASE ui'.result \in {reqs[i].body, Nothing, ui.result}
    BY <1>2, <2>4, <2>6, <2>8, NothingFacts DEF Stored
  <2> QED
    BY <2>5, <2>7, <2>8, Zenon
<1>10. ASSUME NEW i \in DOMAIN reqs, NotConnected(i)
       PROVE  (\A j \in DOMAIN reqs' : Stored(reqs'[j], ever)) /\ Pairs(ui'.result) \subseteq ever
  <2>1. 0 \in Status /\ Nothing \in Database /\ Pairs(Nothing) \subseteq ever
    BY NothingFacts DEF Status
  <2>2. StoredInv'
    BY <1>2, <1>10, <2>1, RespondStored DEF NotConnected
  <2> QED
    BY <1>3, <2>2 DEF StoredInv, Stored, ShownWasStored
<1> QED
  BY <1>5, <1>6, <1>7, <1>8, <1>9, <1>10, Zenon DEF Page

LEMMA ProcessStored == ASSUME TypeOK, StoredInv, Process PROVE StoredInv'
<1>1. WellFormed(reqs) /\ DataType
  BY TypeParts, Zenon
<1>2. Pairs(db) \subseteq ever /\ (\A i \in DOMAIN reqs : Stored(reqs[i], ever)) /\ Pairs(ui.result) \subseteq ever
  BY StoredParts, Zenon
<1>3. ASSUME UNCHANGED <<ui, ever>>, db' = db \/ db' = Nothing,
             reqs' = reqs \/ reqs' = Disturbed(reqs) \/ reqs' = Abandoned(reqs)
      PROVE  StoredInv'
  <2>1. db \in Database
    BY <1>1, Zenon DEF DataType
  <2>2. /\ \A i \in DOMAIN reqs : Stored(Disturbed(reqs)[i], ever)
        /\ \A i \in DOMAIN reqs : Stored(Abandoned(reqs)[i], ever)
    BY <1>1, <1>2, <2>1, AllStored, Zenon
  <2>3. DOMAIN Disturbed(reqs) = DOMAIN reqs /\ DOMAIN Abandoned(reqs) = DOMAIN reqs
    BY <1>1, DisturbedTypes, AbandonedTypes
  <2>4. \A i \in DOMAIN reqs' : Stored(reqs'[i], ever)
    BY <1>2, <1>3, <2>2, <2>3, Zenon
  <2> QED
    BY <1>2, <1>3, <2>4, NothingFacts DEF StoredInv, Stored, ShownWasStored
<1>4. CASE \/ NewRedisServer \/ PingAnswered \/ Run \/ Flush \/ FlushPostponed
           \/ \E g \in 1..MaxStarts : Boot(g)
  BY <1>3, <1>4, Zenon DEF NewRedisServer, PingAnswered, Run, Flush, FlushPostponed, Boot, app, data
<1>5. CASE PingTimeout \/ Signal \/ CloseKill \/ ServerDies
  BY <1>3, <1>5 DEF PingTimeout, Signal, CloseKill, ServerDies, Die, data
<1>6. ASSUME NEW g \in 1..MaxStarts, Loaded(g)
      PROVE  StoredInv'
  <2>1. /\ db' = saved /\ ever' = ever \cup Pairs(saved) /\ reqs' = AllSee(reqs, saved)
        /\ UNCHANGED ui
    BY <1>6, Zenon DEF Loaded, Apply
  <2>2. saved \in Database
    BY <1>1 DEF DataType
  <2>3. \A i \in DOMAIN reqs : Stored(AllSee(reqs, saved)[i], ever)
    BY <1>1, <1>2, <2>2, AllStored
  <2>4. DOMAIN AllSee(reqs, saved) = DOMAIN reqs
    BY <1>1, <2>2, AllSeeTypes, Zenon
  <2>5. \A i \in DOMAIN reqs' : Stored(reqs'[i], ever')
    BY <2>1, <2>3, <2>4 DEF Stored
  <2> QED
    BY <1>2, <2>1, <2>5, Zenon DEF StoredInv, Stored, ShownWasStored
<1> QED
  BY <1>4, <1>5, <1>6, Zenon DEF Process

LEMMA HandlerStored == ASSUME TypeOK, StoredInv, NEW i \in DOMAIN reqs, Handler(i) PROVE StoredInv'
<1>1. WellFormed(reqs) /\ DataType
  BY TypeParts, Zenon
<1>2. Pairs(db) \subseteq ever /\ (\A j \in DOMAIN reqs : Stored(reqs[j], ever)) /\ Pairs(ui.result) \subseteq ever
  BY StoredParts
<1>3. /\ reqs[i] \in Request /\ Stored(reqs[i], ever)
      /\ reqs[i].kind \in {"get", "set", "del"} => reqs[i].key \in Key
      /\ reqs[i].kind = "set" => reqs[i].val \in Value
  BY <1>1, <1>2, SMTT(30) DEF WellFormed
<1>4. /\ 0 \in Status /\ 200 \in Status /\ 404 \in Status /\ 500 \in Status
      /\ Nothing \in Database /\ Pairs(Nothing) \subseteq ever
      /\ reqs[i].body \in Database /\ reqs[i].status \in Status /\ Pairs(reqs[i].body) \subseteq ever
      /\ db \in Database
  BY <1>1, <1>3, NothingFacts, SMTT(30) DEF Request, Status, Stored, DataType
<1>5. ASSUME NEW r \in Request, Stored(r, ever),
             reqs' = [reqs EXCEPT ![i] = r], UNCHANGED <<ui, server, data>>
      PROVE  StoredInv'
  <2>1. \A j \in DOMAIN reqs' : Stored(reqs'[j], ever)
    BY <1>2, <1>5, Zenon
  <2> QED
    BY <1>2, <1>5, <2>1, SMTT(30) DEF StoredInv, Stored, ShownWasStored, data
<1>6. CASE getAllKeys(i)
  <2>1. CASE Reachable
    <3>1. reqs' = [reqs EXCEPT ![i] = Listed(reqs[i], {k \in Key : db[k] # None})]
          /\ UNCHANGED <<ui, server, data>>
      BY <1>6, <2>1 DEF getAllKeys
    <3>2. {k \in Key : db[k] # None} \in SUBSET Key
      OBVIOUS
    <3>3. Stored(Listed(reqs[i], {k \in Key : db[k] # None}), ever)
          /\ Listed(reqs[i], {k \in Key : db[k] # None}) \in Request
      BY <1>3, <3>2, ListedFacts, StoredKept, SMTT(30)
    <3> QED
      BY <1>5, <3>1, <3>3, Zenon
  <2>2. CASE ~Reachable
    <3>1. Respond(i, 500, Nothing) /\ reqs[i].kind = "all"
      BY <1>6, <2>2, Zenon DEF getAllKeys, Is
    <3> QED
      BY <1>3, <1>4, <3>1, RespondStored, SMTT(90)
  <2> QED
    BY <2>1, <2>2, Zenon
<1>7. CASE GetNext(i)
  <2>1. PICK k \in reqs[i].todo :
           reqs' = [reqs EXCEPT ![i] = Collects(reqs[i], k, IF Reachable THEN db[k] ELSE None)]
    BY <1>7, Zenon DEF GetNext
  <2>2. k \in Key
    BY <1>3 DEF Request
  <2>3. db[k] \in Value \cup {None} /\ (db[k] # None => <<k, db[k]>> \in ever)
    BY <1>2, <1>4, <2>2, PairsIn, SMTT(30) DEF Database
  <2>4. PICK v \in Value \cup {None} : /\ reqs' = [reqs EXCEPT ![i] = Collects(reqs[i], k, v)]
                                       /\ v # None => <<k, v>> \in ever
    BY <2>1, <2>3, Zenon
  <2>5. UNCHANGED <<ui, server, data>>
    BY <1>7 DEF GetNext
  <2> DEFINE s == Collects(reqs[i], k, v)
  <2>6. /\ s \in Request /\ s.kind = reqs[i].kind /\ s.key = reqs[i].key /\ s.val = reqs[i].val
        /\ s.status = reqs[i].status /\ s.body[k] = v
        /\ \A x \in Key \ {k} : s.body[x] = reqs[i].body[x]
    BY <1>3, <2>2, CollectsFacts, SMTT(90)
  <2> HIDE DEF s
  <2>7. s.body \in Database
    BY <2>6, Zenon DEF Request
  <2>8. \A x \in Key : reqs[i].body[x] # None => <<x, reqs[i].body[x]>> \in ever
    BY <1>4, PairsIn, SMTT(30)
  <2>9. \A x \in Key : s.body[x] # None => <<x, s.body[x]>> \in ever
    BY <2>4, <2>6, <2>8, Zenon
  <2>10. Pairs(s.body) \subseteq ever
    BY <2>7, <2>9, PairsIn
  <2>11. Stored(s, ever)
    BY <1>3, <2>6, <2>10, SMTT(30) DEF Stored
  <2> QED
    BY <1>5, <2>4, <2>5, <2>6, <2>11, Zenon DEF s
<1>8. CASE AllKeysDone(i)
  <2>1. Respond(i, 200, reqs[i].body) /\ reqs[i].kind = "all"
    BY <1>8, Zenon DEF AllKeysDone, Is
  <2> QED
    BY <1>3, <1>4, <2>1, RespondStored
<1>9. CASE getValueByKey(i)
  <2>1. reqs[i].kind = "get" /\ reqs[i].key \in Key
    BY <1>3, <1>9 DEF getValueByKey, Is
  <2>2. CASE Respond(i, 404, Nothing)
    BY <1>3, <1>4, <2>1, <2>2, RespondStored, SMTT(30)
  <2>3. CASE db[reqs[i].key] # None /\ Respond(i, 200, [Nothing EXCEPT ![reqs[i].key] = db[reqs[i].key]])
    <3>1. db[reqs[i].key] \in Value \cup {None} /\ <<reqs[i].key, db[reqs[i].key]>> \in ever
      BY <1>2, <1>4, <2>1, <2>3, PairsIn DEF Database
    <3>2. PICK m \in Database : Pairs(m) \subseteq ever /\ Respond(i, 200, m)
      BY <2>1, <2>3, <3>1, OnePair
    <3> QED
      BY <1>3, <1>4, <2>1, <3>2, RespondStored
  <2> QED
    BY <1>9, <2>2, <2>3, Zenon DEF getValueByKey
<1>10. CASE ExecuteWrite(i)
  <2> DEFINE r == reqs[i]
             s == Executed(r, WriteStatus(r))
             rs == [reqs EXCEPT ![i] = s]
  <2>1. r.kind \in {"set", "del", "flush"}
    BY <1>10 DEF ExecuteWrite, Is
  <2>2. Written(r) \in Database /\ WriteStatus(r) \in Status
    BY <1>3, <1>4, <2>1, WrittenType
  <2>3. WellFormed(rs) /\ DOMAIN rs = DOMAIN reqs
    BY <1>1, <1>3, <2>2, ExecutedFacts, OneType
  <2>4. Apply(Written(r), rs) /\ UNCHANGED ui
    BY <1>10, Zenon DEF ExecuteWrite
  <2>5. ever' = ever \cup Pairs(Written(r)) /\ db' = Written(r) /\ reqs' = AllSee(rs, Written(r))
    BY <2>4, Zenon DEF Apply
  <2>6. s \in Request /\ s.kind = r.kind /\ s.key = r.key /\ s.val = r.val /\ s.body = r.body
    BY <1>3, <2>2, ExecutedFacts, Zenon
  <2>7. r.kind = "set" => <<r.key, r.val>> \in ever'
    <3> SUFFICES ASSUME r.kind = "set" PROVE <<r.key, r.val>> \in ever'
      OBVIOUS
    <3>1. Written(r) = [db EXCEPT ![r.key] = r.val]
      BY Zenon DEF Written
    <3>2. Written(r)[r.key] = r.val /\ r.key \in Key /\ r.val # None
      BY <1>3, <1>4, <3>1, DemoAssumption, Zenon DEF Database
    <3>3. <<r.key, r.val>> \in Pairs(Written(r))
      BY <3>2 DEF Pairs
    <3> QED
      BY <2>5, <3>3, Zenon
  <2>8. Stored(s, ever')
    BY <1>4, <2>5, <2>6, <2>7 DEF Stored
  <2> HIDE DEF s
  <2>9. \A j \in DOMAIN rs : Stored(rs[j], ever')
    BY <1>2, <2>5, <2>8 DEF Stored
  <2> HIDE DEF r, rs
  <2>10. \A j \in DOMAIN rs : Stored(AllSee(rs, Written(r))[j], ever')
    BY <2>2, <2>3, <2>9, AllStored
  <2>11. DOMAIN AllSee(rs, Written(r)) = DOMAIN rs
    BY <2>2, <2>3, AllSeeTypes, Zenon
  <2>12. \A j \in DOMAIN reqs' : Stored(reqs'[j], ever')
    BY <2>5, <2>10, <2>11, Zenon
  <2> QED
    BY <1>2, <2>4, <2>5, <2>12, Zenon DEF StoredInv, Stored, ShownWasStored
<1>11. CASE ReplyToWrite(i)
  BY <1>3, <1>4, <1>11, RespondStored DEF ReplyToWrite
<1>12. CASE WriteFails(i)
  BY <1>3, <1>4, <1>12, RespondStored, SMTT(90) DEF WriteFails
<1> QED
  BY <1>6, <1>7, <1>8, <1>9, <1>10, <1>11, <1>12, Zenon DEF Handler

\* Whatever is typed, clicked or answered in whatever order, every pair the page
\* shows has been in the database (App.tsx's handlers, getAllKeys,
\* getValueByKey, setKeyValue).
THEOREM ShownStored == Spec => []ShownWasStored
<1>1. Init => StoredInv
  BY NothingFacts DEF Init, StoredInv, ShownWasStored
<1>2. Base /\ StoredInv /\ [Next]_vars => StoredInv'
  <2> SUFFICES ASSUME Base, StoredInv, [Next]_vars PROVE StoredInv'
    BY Zenon
  <2>1. CASE UNCHANGED vars
    BY <2>1, SMTT(90) DEF vars, app, data, StoredInv, ShownWasStored
  <2> QED
    BY <2>1, PageStored, ProcessStored, HandlerStored, Zenon DEF Next, Base
<1>3. StoredInv => ShownWasStored
  BY Zenon DEF StoredInv
<1> QED
  BY <1>1, <1>2, <1>3, BaseHolds, PTL DEF Spec

=============================================================================
