----------------------- MODULE RedisDemoAnswerProofs ------------------------
(***************************************************************************)
(* Proofs about RedisDemo: what the messages of the page and the answers   *)
(* of the handlers mean.                                                   *)
(***************************************************************************)
EXTENDS RedisDemoProofs

(***************************************************************************)
(* The message goes with the result.                                       *)
(***************************************************************************)

\* An answer that makes the page say "found" has something to show.
MessageInv ==
    /\ \A i \in DOMAIN reqs :
          reqs[i].kind = "get" /\ reqs[i].status = 200 /\ reqs[i].st = "answered"
              => reqs[i].body # Nothing
    /\ MessageDescribesResult

\* MessageInv for one request, and for the page.
Shows(r) == r.kind = "get" /\ r.status = 200 /\ r.st = "answered" => r.body # Nothing

Describes(u) ==
    /\ u.message = "found" => u.result # Nothing
    /\ u.message \in {"empty", "notfound", "alldeleted"} => u.result = Nothing

LEMMA MessageParts == MessageInv <=> (\A i \in DOMAIN reqs : Shows(reqs[i])) /\ Describes(ui)
  BY Zenon DEF MessageInv, MessageDescribesResult, Shows, Describes

LEMMA AllShows ==
  ASSUME NEW rs, WellFormed(rs), NEW m \in Database, \A i \in DOMAIN rs : Shows(rs[i])
  PROVE  /\ \A i \in DOMAIN rs : Shows(AllSee(rs, m)[i])
         /\ \A i \in DOMAIN rs : Shows(Disturbed(rs)[i])
         /\ \A i \in DOMAIN rs : Shows(Abandoned(rs)[i])
<1>1. \A i \in DOMAIN rs : rs[i] \in Request
  BY DEF WellFormed
<1>2. ASSUME NEW i \in DOMAIN rs
      PROVE  /\ Shows(Sees(rs[i], m))
             /\ Active(rs[i]) => Shows(Disturb(rs[i]))
             /\ Shows(Abandon(rs[i]))
  <2>1. Shows(Sees(rs[i], m))
    BY <1>1, SeesFacts DEF Shows
  <2>2. Active(rs[i]) => Shows(Disturb(rs[i]))
    BY <1>1, DisturbFacts, Zenon DEF Shows, Active
  <2>3. Shows(Abandon(rs[i]))
    BY <1>1, AbandonFacts DEF Shows
  <2> QED
    BY <2>1, <2>2, <2>3, Zenon
<1> QED
  BY <1>2, Zenon DEF AllSee, Disturbed, Abandoned

LEMMA RespondShows ==
  ASSUME TypeOK, MessageInv, NEW i \in DOMAIN reqs, NEW status \in Status, NEW m \in Database,
         reqs[i].kind = "get" /\ status = 200 => m # Nothing, Respond(i, status, m)
  PROVE  MessageInv'
<1>1. reqs[i] \in Request
  BY DEF TypeOK
<1>2. Shows(Answer(reqs[i], status, m))
  BY <1>1, AnswerFacts DEF Shows
<1>3. UNCHANGED ui /\ reqs' = [reqs EXCEPT ![i] = Answer(reqs[i], status, m)]
  BY Zenon DEF Respond
<1>4. \A j \in DOMAIN reqs' : Shows(reqs'[j])
  BY <1>2, <1>3, MessageParts, Zenon
<1> QED
  BY <1>3, <1>4, MessageParts, Zenon DEF MessageInv, MessageDescribesResult, Shows, Describes

LEMMA SendShows ==
  ASSUME TypeOK, MessageInv, NEW kind \in {"all", "get", "set", "del", "flush"},
         NEW k \in Key \cup {None}, NEW v \in Value \cup {None}, Send(kind, k, v)
  PROVE  \A i \in DOMAIN reqs' : Shows(reqs'[i])
<1>1. reqs \in Seq(Request) /\ db \in Database
  BY Zenon DEF TypeOK
<1> DEFINE n == NewRequest(kind, k, v)
<1>2. n \in Request /\ n.st = "sent"
  BY NewRequestFacts
<1>3. reqs' = Append(reqs, IF Up THEN Sees(n, db) ELSE n)
  BY Zenon DEF Send
<1> HIDE DEF n
<1>4. Sees(n, db) \in Request /\ Sees(n, db).st = "sent"
  BY <1>1, <1>2, SeesFacts, Zenon
<1>5. PICK r \in Request : reqs' = Append(reqs, r) /\ Shows(r)
  BY <1>2, <1>3, <1>4, Zenon DEF Shows
<1>6. \A i \in DOMAIN Append(reqs, r) : Append(reqs, r)[i] \in {r} \cup {reqs[j] : j \in DOMAIN reqs}
  BY <1>1
<1> QED
  BY <1>5, <1>6, MessageParts, Zenon

LEMMA PageMessage == ASSUME TypeOK, MessageInv, Page PROVE MessageInv'
<1>1. ui \in View /\ WellFormed(reqs)
  BY TypeParts, Zenon
<1>2. (\A i \in DOMAIN reqs : Shows(reqs[i])) /\ Describes(ui)
  BY MessageParts, Zenon
<1>3. SUFFICES (\A i \in DOMAIN reqs' : Shows(reqs'[i])) /\ Describes(ui')
  BY Zenon DEF MessageInv, MessageDescribesResult, Shows, Describes
<1>4. "none" \in Message /\ "missing" \in Message
  BY Zenon DEF Message
<1>5. ASSUME NEW op \in Operations, handleOperationClick(op)
      PROVE  (\A i \in DOMAIN reqs' : Shows(reqs'[i])) /\ Describes(ui')
  <2>1. ui'.message = "none"
    BY <1>1, <1>5, ResultFacts, Zenon DEF handleOperationClick
  <2>2. Send("all", None, None) \/ Send("flush", None, None) \/ UNCHANGED reqs
    BY <1>5, Zenon DEF handleOperationClick
  <2>3. \A i \in DOMAIN reqs' : Shows(reqs'[i])
    BY <1>2, <2>2, SendShows, Zenon
  <2> QED
    BY <2>1, <2>3, Zenon DEF Describes
<1>6. CASE Type
  <2>1. PICK k \in Key, v \in Value \cup {None} : ui' = [ui EXCEPT !.key = k, !.value = v]
    BY <1>6, Zenon DEF Type
  <2>2. ui'.result = ui.result /\ ui'.message = ui.message
    BY <1>1, <2>1, ResultFacts
  <2> QED
    BY <1>2, <1>6, <2>2, Zenon DEF Type, Describes
<1>7. CASE CloseAlert
  <2>1. ui'.message = "none"
    BY <1>1, <1>4, <1>7, ResultFacts, Zenon DEF CloseAlert
  <2> QED
    BY <1>2, <1>7, <2>1, Zenon DEF CloseAlert, Describes
<1>8. CASE Confirm
  <2>1. CASE UNCHANGED reqs /\ ui' = [ui EXCEPT !.message = "missing"]
    <3>1. ui'.message = "missing"
      BY <1>1, <1>4, <2>1, ResultFacts, Zenon
    <3> QED
      BY <1>2, <2>1, <3>1, Zenon DEF Describes
  <2>2. CASE ~(ui.key = None \/ (ui.operation = "insert" /\ ui.value = None))
    <3>1. ui.key \in Key \cup {None} /\ ui.value \in Value \cup {None}
      BY <1>1, Zenon DEF View
    <3>2. PICK kind \in {"set", "get", "del"} : Send(kind, ui.key, ui.value)
      BY <1>8, <2>2, Zenon DEF Confirm
    <3>3. \A i \in DOMAIN reqs' : Shows(reqs'[i])
      BY <3>1, <3>2, SendShows, Zenon
    <3> QED
      BY <1>2, <1>8, <2>2, <3>3, Zenon DEF Confirm
  <2> QED
    BY <1>8, <2>1, <2>2, Zenon DEF Confirm
<1>9. ASSUME NEW i \in DOMAIN reqs, Settle(i)
      PROVE  (\A j \in DOMAIN reqs' : Shows(reqs'[j])) /\ Describes(ui')
  <2>1. reqs[i] \in Request /\ (reqs[i].kind = "set" => reqs[i].key \in Key /\ reqs[i].val \in Value)
    BY <1>1 DEF WellFormed
  <2>2. reqs' = [reqs EXCEPT ![i] = Over(reqs[i])] /\ ui' = Settled(ui, reqs[i]) /\ reqs[i].st = "answered"
    BY <1>9, Zenon DEF Settle
  <2>3. Shows(Over(reqs[i]))
    BY <2>1, OverFacts, Zenon DEF Shows
  <2>4. \A j \in DOMAIN reqs' : Shows(reqs'[j])
    BY <1>2, <2>2, <2>3, Zenon
  <2>5. reqs[i].kind = "get" /\ reqs[i].status = 200 => reqs[i].body # Nothing
    BY <1>2, <2>2, Zenon DEF Shows
  <2>6. \/ Settled(ui, reqs[i]).message \in {"none", "failed"}
        \/ /\ Settled(ui, reqs[i]).result = reqs[i].body
           /\ Settled(ui, reqs[i]).message = IF reqs[i].body # Nothing THEN "found" ELSE "empty"
        \/ Settled(ui, reqs[i]).result = Nothing /\ Settled(ui, reqs[i]).message # "found"
    BY <1>1, <2>1, <2>5, SettledFacts, ZenonT(30)
  <2>7. Describes(Settled(ui, reqs[i]))
    BY <2>6, Zenon DEF Describes
  <2> QED
    BY <2>2, <2>4, <2>7, Zenon
<1>10. ASSUME NEW i \in DOMAIN reqs, NotConnected(i)
       PROVE  (\A j \in DOMAIN reqs' : Shows(reqs'[j])) /\ Describes(ui')
  <2>1. 0 \in Status /\ Nothing \in Database
    BY NothingFacts, Zenon DEF Status
  <2>2. MessageInv'
    BY <1>10, <2>1, RespondShows DEF NotConnected
  <2> QED
    BY <2>2, Zenon DEF MessageInv, MessageDescribesResult, Shows, Describes
<1> QED
  BY <1>5, <1>6, <1>7, <1>8, <1>9, <1>10, Zenon DEF Page

LEMMA ProcessMessage == ASSUME TypeOK, MessageInv, Process PROVE MessageInv'
<1>1. WellFormed(reqs) /\ DataType
  BY TypeParts, Zenon
<1>2. (\A i \in DOMAIN reqs : Shows(reqs[i])) /\ Describes(ui)
  BY MessageParts, Zenon
<1>3. saved \in Database
  BY <1>1, Zenon DEF DataType
<1>4. /\ UNCHANGED ui
      /\ reqs' \in {reqs, Disturbed(reqs), Abandoned(reqs), AllSee(reqs, saved)}
  BY Zenon DEF Process, NewRedisServer, PingAnswered, PingTimeout, Run, Signal, CloseKill, ServerDies, Die,
         Boot, Loaded, Apply, Flush, FlushPostponed, app
<1>5. /\ \A i \in DOMAIN reqs : Shows(AllSee(reqs, saved)[i])
      /\ \A i \in DOMAIN reqs : Shows(Disturbed(reqs)[i])
      /\ \A i \in DOMAIN reqs : Shows(Abandoned(reqs)[i])
  BY <1>1, <1>2, <1>3, AllShows, Zenon
<1>6. /\ DOMAIN Disturbed(reqs) = DOMAIN reqs /\ DOMAIN Abandoned(reqs) = DOMAIN reqs
      /\ DOMAIN AllSee(reqs, saved) = DOMAIN reqs
  BY <1>1, <1>3, DisturbedTypes, AbandonedTypes, AllSeeTypes, Zenon
<1>7. \A i \in DOMAIN reqs' : Shows(reqs'[i])
  BY <1>2, <1>4, <1>5, <1>6, Zenon
<1> QED
  BY <1>2, <1>4, <1>7, Zenon DEF MessageInv, MessageDescribesResult, Shows, Describes

LEMMA HandlerMessage == ASSUME TypeOK, MessageInv, NEW i \in DOMAIN reqs, Handler(i) PROVE MessageInv'
<1>1. WellFormed(reqs) /\ DataType
  BY TypeParts, Zenon
<1>2. (\A j \in DOMAIN reqs : Shows(reqs[j])) /\ Describes(ui)
  BY MessageParts, Zenon
<1>3. /\ reqs[i] \in Request
      /\ reqs[i].kind \in {"get", "set", "del"} => reqs[i].key \in Key
      /\ reqs[i].kind = "set" => reqs[i].val \in Value
  BY <1>1 DEF WellFormed
<1>4. /\ 200 \in Status /\ 404 \in Status /\ 500 \in Status
      /\ Nothing \in Database /\ reqs[i].body \in Database /\ reqs[i].status \in Status
      /\ db \in Database
  BY <1>1, <1>3, NothingFacts DEF Request, Status, DataType
<1>5. ASSUME NEW r \in Request, Shows(r), reqs' = [reqs EXCEPT ![i] = r], UNCHANGED ui
      PROVE  MessageInv'
  <2>1. \A j \in DOMAIN reqs' : Shows(reqs'[j])
    BY <1>2, <1>5, Zenon
  <2> QED
    BY <1>2, <1>5, <2>1, Zenon DEF MessageInv, MessageDescribesResult, Shows, Describes
<1>6. CASE getAllKeys(i)
  <2>1. CASE Reachable
    <3>1. reqs' = [reqs EXCEPT ![i] = Listed(reqs[i], {k \in Key : db[k] # None})] /\ UNCHANGED ui
      BY <1>6, <2>1, Zenon DEF getAllKeys
    <3>2. {k \in Key : db[k] # None} \in SUBSET Key
      BY Zenon
    <3>3. Shows(Listed(reqs[i], {k \in Key : db[k] # None}))
          /\ Listed(reqs[i], {k \in Key : db[k] # None}) \in Request
      BY <1>3, <3>2, ListedFacts, Zenon DEF Shows
    <3> QED
      BY <1>5, <3>1, <3>3, Zenon
  <2>2. CASE ~Reachable
    BY <1>4, <1>6, <2>2, RespondShows DEF getAllKeys
  <2> QED
    BY <2>1, <2>2, Zenon
<1>7. CASE GetNext(i)
  <2>1. PICK k \in reqs[i].todo :
           reqs' = [reqs EXCEPT ![i] = Collects(reqs[i], k, IF Reachable THEN db[k] ELSE None)]
    BY <1>7, ZenonT(30) DEF GetNext
  <2>2. k \in Key /\ reqs[i].kind = "all" /\ UNCHANGED ui
    BY <1>3, <1>7, Zenon DEF Request, GetNext, Is
  <2>3. db[k] \in Value \cup {None}
    BY <1>4, <2>2, Zenon DEF Database
  <2>4. PICK v \in Value \cup {None} : reqs' = [reqs EXCEPT ![i] = Collects(reqs[i], k, v)]
    BY <2>1, <2>3, ZenonT(30)
  <2>5. Collects(reqs[i], k, v) \in Request /\ Collects(reqs[i], k, v).kind = reqs[i].kind
    BY <1>3, <2>2, CollectsFacts
  <2>6. Shows(Collects(reqs[i], k, v))
    BY <2>2, <2>5, Zenon DEF Shows
  <2> QED
    BY <1>5, <2>2, <2>4, <2>5, <2>6, ZenonT(30)
<1>8. CASE AllKeysDone(i)
  BY <1>4, <1>8, RespondShows DEF AllKeysDone, Is
<1>9. CASE getValueByKey(i)
  <2>1. reqs[i].kind = "get" /\ reqs[i].key \in Key
    BY <1>3, <1>9, Zenon DEF getValueByKey, Is
  <2>2. CASE Respond(i, 404, Nothing)
    BY <1>4, <2>2, RespondShows
  <2>3. CASE db[reqs[i].key] # None /\ Respond(i, 200, [Nothing EXCEPT ![reqs[i].key] = db[reqs[i].key]])
    <3>1. db[reqs[i].key] \in Value \cup {None}
      BY <1>4, <2>1, Zenon DEF Database
    <3>2. [Nothing EXCEPT ![reqs[i].key] = db[reqs[i].key]][reqs[i].key] # Nothing[reqs[i].key]
      BY <2>1, <2>3, Zenon DEF Nothing
    <3>3. PICK m \in Database : m # Nothing /\ Respond(i, 200, m)
      BY <2>1, <2>3, <3>1, <3>2, OnePair, Zenon
    <3> QED
      BY <1>4, <3>3, RespondShows, Zenon
  <2> QED
    BY <1>9, <2>2, <2>3, Zenon DEF getValueByKey
<1>10. CASE ExecuteWrite(i)
  <2> DEFINE r == reqs[i]
             s == Executed(r, WriteStatus(r))
             rs == [reqs EXCEPT ![i] = s]
  <2>1. r.kind \in {"set", "del", "flush"}
    BY <1>10, Zenon DEF ExecuteWrite, Is
  <2>2. Written(r) \in Database /\ WriteStatus(r) \in Status
    BY <1>3, <1>4, <2>1, WrittenType, Zenon
  <2>3. WellFormed(rs) /\ DOMAIN rs = DOMAIN reqs
    BY <1>1, <1>3, <2>2, ExecutedFacts, OneType
  <2>4. Apply(Written(r), rs) /\ UNCHANGED ui
    BY <1>10, Zenon DEF ExecuteWrite
  <2>5. Shows(s)
    BY <1>3, <2>2, ExecutedFacts, Zenon DEF Shows
  <2> HIDE DEF s
  <2>6. \A j \in DOMAIN rs : Shows(rs[j])
    BY <1>2, <2>5, Zenon
  <2> HIDE DEF r, rs
  <2>7. \A j \in DOMAIN rs : Shows(AllSee(rs, Written(r))[j])
    BY <2>2, <2>3, <2>6, AllShows, Zenon
  <2>8. DOMAIN AllSee(rs, Written(r)) = DOMAIN rs
    BY <2>2, <2>3, AllSeeTypes, Zenon
  <2>9. \A j \in DOMAIN reqs' : Shows(reqs'[j])
    BY <2>4, <2>7, <2>8, Zenon DEF Apply
  <2> QED
    BY <1>2, <2>4, <2>9, Zenon DEF MessageInv, MessageDescribesResult, Shows, Describes
<1>11. CASE ReplyToWrite(i)
  BY <1>4, <1>11, RespondShows, Zenon DEF ReplyToWrite, Is
<1>12. CASE WriteFails(i)
  BY <1>4, <1>12, RespondShows DEF WriteFails
<1> QED
  BY <1>6, <1>7, <1>8, <1>9, <1>10, <1>11, <1>12, Zenon DEF Handler

\* The message on the page always goes with the result under it, although
\* failures and validation set only one of the two (App.tsx's handlers).
THEOREM MessageFits == Spec => []MessageDescribesResult
<1>1. Init => MessageInv
  BY DEF Init, MessageInv, MessageDescribesResult
<1>2. Base /\ MessageInv /\ [Next]_vars => MessageInv'
  <2> SUFFICES ASSUME Base, MessageInv, [Next]_vars PROVE MessageInv'
    BY Zenon
  <2>1. CASE UNCHANGED vars
    BY <2>1, Zenon DEF vars, app, data, MessageInv, MessageDescribesResult
  <2> QED
    BY <2>1, PageMessage, ProcessMessage, HandlerMessage, Zenon DEF Next, Base
<1>3. MessageInv => MessageDescribesResult
  BY Zenon DEF MessageInv
<1> QED
  BY <1>1, <1>2, <1>3, BaseHolds, PTL DEF Spec

(***************************************************************************)
(* A write answered with 200 survives the server.                          *)
(***************************************************************************)

\* A write that is not in the log has been executed, and its reply has not been
\* passed on unless the log was postponed; one that is lost has no reply to come.
AckInv ==
    /\ \A i \in unsaved : reqs[i].st \in {"done", "broken", "answered", "settled"}
    /\ \A i \in lost : reqs[i].st \in {"broken", "answered", "settled"}
    /\ \A i \in unsaved \cup lost :
          reqs[i].st \in {"answered", "settled"} /\ reqs[i].status = 200 => i \in postponed

\* AckInv for request r, which is (or is not) in unsaved, lost and postponed.
Kept(r, u, l, p) ==
    /\ u => r.st \in {"done", "broken", "answered", "settled"}
    /\ l => r.st \in {"broken", "answered", "settled"}
    /\ (u \/ l) /\ r.st \in {"answered", "settled"} /\ r.status = 200 => p

LEMMA AckParts ==
  ASSUME unsaved \cup lost \cup postponed \subseteq DOMAIN reqs
  PROVE  AckInv <=> \A i \in DOMAIN reqs : Kept(reqs[i], i \in unsaved, i \in lost, i \in postponed)
<1>1. ASSUME AckInv, NEW i \in DOMAIN reqs
      PROVE  Kept(reqs[i], i \in unsaved, i \in lost, i \in postponed)
  BY <1>1, Zenon DEF AckInv, Kept
<1>2. ASSUME \A i \in DOMAIN reqs : Kept(reqs[i], i \in unsaved, i \in lost, i \in postponed)
      PROVE  AckInv
  <2>1. \A i \in unsaved \cup lost : i \in DOMAIN reqs
    BY Zenon
  <2> QED
    BY <1>2, <2>1, Zenon DEF AckInv, Kept
<1> QED
  BY <1>1, <1>2, Zenon

\* The requests that have not been executed are in neither set.
LEMMA NotExecuted ==
  ASSUME AckInv, NEW i, reqs[i].st \in {"sent", "loop"}
  PROVE  i \notin unsaved /\ i \notin lost
  BY Zenon DEF AckInv

\* A step that changes one request at most.
LEMMA OneAck ==
  ASSUME TypeOK, AckInv, NEW i \in DOMAIN reqs, NEW r, reqs' = [reqs EXCEPT ![i] = r],
         UNCHANGED <<unsaved, lost, postponed>>,
         Kept(r, i \in unsaved, i \in lost, i \in postponed)
  PROVE  AckInv'
<1>1. unsaved \cup lost \cup postponed \subseteq DOMAIN reqs
  BY Zenon DEF TypeOK
<1>2. \A j \in DOMAIN reqs : Kept(reqs[j], j \in unsaved, j \in lost, j \in postponed)
  BY <1>1, AckParts, Zenon
<1>3. DOMAIN reqs' = DOMAIN reqs
  BY Zenon
<1>4. ASSUME NEW j \in DOMAIN reqs
      PROVE  Kept(reqs'[j], j \in unsaved, j \in lost, j \in postponed)
  <2>1. CASE j = i
    BY <2>1, Zenon
  <2>2. CASE j # i
    <3>1. reqs'[j] = reqs[j]
      BY <2>2, Zenon
    <3> QED
      BY <1>2, <3>1, Zenon
  <2> QED
    BY <2>1, <2>2, Zenon
<1> QED
  BY <1>1, <1>3, <1>4, ZenonT(30) DEF AckInv, Kept

LEMMA RespondAck ==
  ASSUME TypeOK, AckInv, NEW i \in DOMAIN reqs, NEW status \in Status, NEW m \in Database,
         Respond(i, status, m), status = 200 /\ i \in unsaved \cup lost => i \in postponed
  PROVE  AckInv'
<1>1. reqs[i] \in Request
  BY DEF TypeOK
<1>2. Answer(reqs[i], status, m).st = "answered" /\ Answer(reqs[i], status, m).status = status
  BY <1>1, AnswerFacts, Zenon
<1>3. Kept(Answer(reqs[i], status, m), i \in unsaved, i \in lost, i \in postponed)
  BY <1>2, Zenon DEF Kept
<1>4. UNCHANGED <<unsaved, lost, postponed>> /\ reqs' = [reqs EXCEPT ![i] = Answer(reqs[i], status, m)]
  BY Zenon DEF Respond, data
<1> QED
  BY <1>3, <1>4, OneAck, ZenonT(30)

LEMMA PageAck == ASSUME TypeOK, AckInv, Page PROVE AckInv'
<1>1. UNCHANGED <<unsaved, lost, postponed>>
  BY ZenonT(30) DEF Page, handleOperationClick, Type, Confirm, CloseAlert, Settle, NotConnected, Respond, data
<1>2. reqs \in Seq(Request) /\ unsaved \cup lost \cup postponed \subseteq DOMAIN reqs
  BY Zenon DEF TypeOK
<1>3. ASSUME NEW r, reqs' = Append(reqs, r) PROVE AckInv'
  <2>1. \A i \in DOMAIN reqs : reqs'[i] = reqs[i]
    BY <1>2, <1>3
  <2> QED
    BY <1>1, <1>2, <2>1 DEF AckInv
<1>4. ASSUME UNCHANGED reqs PROVE AckInv'
  BY <1>1, <1>4, Zenon DEF AckInv
<1>5. ASSUME NEW op \in Operations, handleOperationClick(op) PROVE AckInv'
  BY <1>3, <1>4, <1>5, Zenon DEF handleOperationClick, Send
<1>6. CASE Type \/ CloseAlert
  BY <1>4, <1>6, ZenonT(30) DEF Type, CloseAlert
<1>7. CASE Confirm
  BY <1>3, <1>4, <1>7, Zenon DEF Confirm, Send
<1>8. ASSUME NEW i \in DOMAIN reqs, Settle(i) PROVE AckInv'
  <2>1. reqs[i] \in Request /\ reqs[i].st = "answered" /\ reqs' = [reqs EXCEPT ![i] = Over(reqs[i])]
    BY <1>2, <1>8 DEF Settle
  <2>2. Over(reqs[i]).st = "settled" /\ Over(reqs[i]).status = reqs[i].status
    BY <2>1, OverFacts, Zenon
  <2>3. Kept(reqs[i], i \in unsaved, i \in lost, i \in postponed)
    BY <1>2, AckParts, Zenon
  <2>4. Kept(Over(reqs[i]), i \in unsaved, i \in lost, i \in postponed)
    BY <2>1, <2>2, <2>3, Zenon DEF Kept
  <2> QED
    BY <1>1, <2>1, <2>4, OneAck, ZenonT(30)
<1>9. ASSUME NEW i \in DOMAIN reqs, NotConnected(i) PROVE AckInv'
  <2>1. 0 \in Status /\ Nothing \in Database
    BY NothingFacts, Zenon DEF Status
  <2> QED
    BY <1>9, <2>1, RespondAck, SMTT(30) DEF NotConnected
<1> QED
  BY <1>5, <1>6, <1>7, <1>8, <1>9, Zenon DEF Page

\* What breaks all connections.
LEMMA BrokenAck ==
  ASSUME TypeOK, AckInv, NEW i \in DOMAIN reqs
  PROVE  /\ i \in unsaved => Disturbed(reqs)[i].st \in {"broken", "answered", "settled"}
         /\ i \in lost => Disturbed(reqs)[i].st \in {"broken", "answered", "settled"}
         /\ i \in unsaved \cup lost => Abandoned(reqs)[i].st \in {"answered", "settled"}
         /\ i \in unsaved \cup lost /\ Disturbed(reqs)[i].st \in {"answered", "settled"}
               /\ Disturbed(reqs)[i].status = 200 => i \in postponed
         /\ i \in unsaved \cup lost /\ Abandoned(reqs)[i].st \in {"answered", "settled"}
               /\ Abandoned(reqs)[i].status = 200 => i \in postponed
<1>1. reqs[i] \in Request /\ unsaved \cup lost \cup postponed \subseteq DOMAIN reqs
  BY DEF TypeOK
<1>2. Kept(reqs[i], i \in unsaved, i \in lost, i \in postponed)
  BY <1>1, AckParts, Zenon
<1>3. /\ Disturb(reqs[i]).st = IF reqs[i].st = "done" THEN "broken" ELSE reqs[i].st
      /\ Disturb(reqs[i]).status = reqs[i].status
      /\ Abandon(reqs[i]).st = "answered" /\ Abandon(reqs[i]).status = 0
  BY <1>1, DisturbFacts, AbandonFacts, Zenon
<1>4. Disturbed(reqs)[i] = IF Active(reqs[i]) THEN Disturb(reqs[i]) ELSE reqs[i]
  BY Zenon DEF Disturbed
<1>5. Abandoned(reqs)[i] = IF Active(reqs[i]) THEN Abandon(reqs[i]) ELSE reqs[i]
  BY Zenon DEF Abandoned
<1> QED
  BY <1>2, <1>3, <1>4, <1>5, SMTT(30) DEF Kept, Active

LEMMA ProcessAck == ASSUME TypeOK, AckInv, Process PROVE AckInv'
<1>1. WellFormed(reqs) /\ DataType /\ unsaved \cup lost \cup postponed \subseteq DOMAIN reqs
  BY TypeParts, Zenon DEF TypeOK
<1>2. CASE UNCHANGED <<reqs, unsaved, lost, postponed>>
  BY <1>2, Zenon DEF AckInv
<1>3. CASE \/ NewRedisServer \/ PingAnswered \/ Run \/ \E g \in 1..MaxStarts : Boot(g)
  BY <1>2, <1>3, Zenon DEF NewRedisServer, PingAnswered, Run, Boot, app, data
<1>4. ASSUME NEW g, Die(g) PROVE AckInv'
  <2>1. CASE port = g
    <3>1. reqs' = Disturbed(reqs) /\ lost' = lost \cup unsaved /\ unsaved' = {} /\ postponed' = postponed
      BY <1>4, <2>1, Zenon DEF Die
    <3>2. \A i \in lost' : i \in DOMAIN reqs
      BY <1>1, <3>1, Zenon
    <3> QED
      BY <3>1, <3>2, BrokenAck, Zenon DEF AckInv
  <2>2. CASE port # g
    BY <1>2, <1>4, <2>2, Zenon DEF Die
  <2> QED
    BY <2>1, <2>2, Zenon
<1>5. CASE PingTimeout \/ ServerDies
  BY <1>4, <1>5, Zenon DEF PingTimeout, ServerDies
<1>6. CASE Signal
  <2>1. reqs' = Disturbed(reqs) /\ UNCHANGED <<unsaved, lost, postponed>>
    BY <1>6, Zenon DEF Signal, data
  <2>2. \A i \in unsaved \cup lost : i \in DOMAIN reqs
    BY <1>1, Zenon
  <2> QED
    BY <2>1, <2>2, BrokenAck, Zenon DEF AckInv
<1>7. CASE CloseKill
  <2>1. /\ reqs' = Abandoned(reqs) /\ postponed' = postponed
        /\ unsaved' \cup lost' = unsaved \cup lost
    BY <1>7, Zenon DEF CloseKill
  <2>2. \A i \in unsaved \cup lost : i \in DOMAIN reqs
    BY <1>1, Zenon
  <2>3. \A i \in unsaved \cup lost :
           /\ reqs'[i].st \in {"answered", "settled"}
           /\ reqs'[i].status = 200 => i \in postponed
    BY <2>1, <2>2, BrokenAck, Zenon
  <2> QED
    BY <2>1, <2>3, Zenon DEF AckInv
<1>8. ASSUME NEW g \in 1..MaxStarts, Loaded(g) PROVE AckInv'
  <2>1. reqs' = AllSee(reqs, saved) /\ UNCHANGED <<unsaved, lost, postponed>>
    BY <1>8, Zenon DEF Loaded, Apply
  <2>2. saved \in Database /\ \A i \in DOMAIN reqs : reqs[i] \in Request
    BY <1>1, SMTT(30) DEF DataType, WellFormed
  <2>3. \A i \in DOMAIN reqs : reqs'[i].st = reqs[i].st /\ reqs'[i].status = reqs[i].status
    BY <2>1, <2>2, SeesFacts, Zenon DEF AllSee
  <2> QED
    BY <1>1, <2>1, <2>3, Zenon DEF AckInv
<1>9. CASE Flush
  BY <1>9, Zenon DEF Flush, app, AckInv
<1>10. CASE FlushPostponed
  BY <1>10, Zenon DEF FlushPostponed, app, AckInv
<1> QED
  BY <1>3, <1>5, <1>6, <1>7, <1>8, <1>9, <1>10, Zenon DEF Process

LEMMA HandlerAck == ASSUME TypeOK, AckInv, NEW i \in DOMAIN reqs, Handler(i) PROVE AckInv'
<1>1. WellFormed(reqs) /\ DataType /\ unsaved \cup lost \cup postponed \subseteq DOMAIN reqs
  BY TypeParts, Zenon DEF TypeOK
<1>2. /\ reqs[i] \in Request
      /\ reqs[i].kind \in {"get", "set", "del"} => reqs[i].key \in Key
      /\ reqs[i].kind = "set" => reqs[i].val \in Value
  BY <1>1 DEF WellFormed
<1>3. /\ 200 \in Status /\ 404 \in Status /\ 500 \in Status
      /\ Nothing \in Database /\ reqs[i].body \in Database /\ reqs[i].status \in Status
      /\ db \in Database
  BY <1>1, <1>2, NothingFacts, SMTT(30) DEF Request, Status, DataType
<1>4. reqs[i].st \in {"sent", "loop"} => i \notin unsaved /\ i \notin lost
  BY NotExecuted
<1>6. CASE getAllKeys(i) \/ GetNext(i) \/ AllKeysDone(i) \/ getValueByKey(i)
  <2>1. reqs[i].st \in {"sent", "loop"}
    BY <1>6, Zenon DEF getAllKeys, GetNext, AllKeysDone, getValueByKey, Is
  <2>2. UNCHANGED data
    BY <1>6, Zenon DEF getAllKeys, GetNext, AllKeysDone, getValueByKey, Respond
  <2>3. PICK r : reqs' = [reqs EXCEPT ![i] = r]
    BY <1>6, Zenon DEF getAllKeys, GetNext, AllKeysDone, getValueByKey, Respond
  <2>4. Kept(r, i \in unsaved, i \in lost, i \in postponed)
    BY <1>4, <2>1, Zenon DEF Kept
  <2> QED
    BY <2>2, <2>3, <2>4, OneAck, ZenonT(30) DEF data
<1>7. CASE ExecuteWrite(i)
  <2> DEFINE r == reqs[i]
             s == Executed(r, WriteStatus(r))
             rs == [reqs EXCEPT ![i] = s]
  <2>1. r.kind \in {"set", "del", "flush"} /\ r.st = "sent"
    BY <1>7, Zenon DEF ExecuteWrite, Is
  <2>2. Written(r) \in Database /\ WriteStatus(r) \in Status
    BY <1>2, <1>3, <2>1, WrittenType, Zenon
  <2>3. WellFormed(rs) /\ DOMAIN rs = DOMAIN reqs
    BY <1>1, <1>2, <2>2, ExecutedFacts, OneType, SMTT(30)
  <2>4. Apply(Written(r), rs) /\ UNCHANGED <<lost, postponed>> /\ unsaved' \subseteq unsaved \cup {i}
    BY <1>7, Zenon DEF ExecuteWrite
  <2>5. s.st = "done"
    BY <1>2, <2>2, ExecutedFacts, Zenon
  <2> HIDE DEF s
  <2>6. \A j \in DOMAIN rs : rs[j] \in Request /\ rs[j] = IF j = i THEN s ELSE reqs[j]
    BY <2>3, SMTT(30) DEF WellFormed
  <2> HIDE DEF r, rs
  <2>7. \A j \in DOMAIN reqs : reqs'[j].st = rs[j].st /\ reqs'[j].status = rs[j].status
    BY <2>2, <2>3, <2>4, <2>6, SeesFacts, Zenon DEF AllSee, Apply
  <2>8. \A j \in DOMAIN reqs : IF j = i THEN reqs'[j].st = "done"
                               ELSE reqs'[j].st = reqs[j].st /\ reqs'[j].status = reqs[j].status
    BY <2>3, <2>5, <2>6, <2>7, Zenon
  <2>9. i \notin lost
    BY <1>4, <2>1, Zenon DEF r
  <2> QED
    BY <1>1, <2>4, <2>8, <2>9 DEF AckInv
<1>8. CASE ReplyToWrite(i)
  <2>1. reqs[i].st = "done" /\ (i \in unsaved => i \in postponed) /\ Respond(i, reqs[i].status, Nothing)
    BY <1>8, Zenon DEF ReplyToWrite, Is
  <2>2. i \notin lost
    BY <2>1, Zenon DEF AckInv
  <2> QED
    BY <1>3, <2>1, <2>2, RespondAck, Zenon
<1>9. CASE WriteFails(i)
  BY <1>3, <1>9, RespondAck, SMTT(30) DEF WriteFails
<1> QED
  BY <1>6, <1>7, <1>8, <1>9, Zenon DEF Handler

\* A write answered with 200 survives every end of the server, Close's SIGKILL
\* included, unless the server postponed the write of its log (setKeyValue,
\* deleteKeyByKey, deleteAllKeys, server.go's Close).
THEOREM AnswersSurvive == Spec => []AckedSurvives
<1>1. Init => AckInv
  BY Zenon DEF Init, AckInv
<1>2. Base /\ AckInv /\ [Next]_vars => AckInv'
  <2> SUFFICES ASSUME Base, AckInv, [Next]_vars PROVE AckInv'
    BY Zenon
  <2>1. CASE UNCHANGED vars
    BY <2>1, Zenon DEF vars, app, data, AckInv
  <2> QED
    BY <2>1, PageAck, ProcessAck, HandlerAck, Zenon DEF Next, Base
<1>3. AckInv => AckedSurvives
  BY Zenon DEF AckInv, AckedSurvives
<1> QED
  BY <1>1, <1>2, <1>3, BaseHolds, PTL DEF Spec

(***************************************************************************)
(* What the answers say was true during the request.                       *)
(***************************************************************************)


\* A request that nothing disturbed has a server to talk to, if reachable says
\* whether there is one, and has seen the value every key it depends on has in m ...
Follows(r, reachable, m) ==
    Active(r) /\ ~r.disturbed /\ Watched(r) # {} =>
        reachable /\ \A k \in Watched(r) : m[k] \in r.seen[k]

\* ... what getAllKeys has collected so far it has seen ...
Collected(r) ==
    /\ r.st = "sent" => r.body = Nothing
    /\ r.kind = "all" /\ r.st = "loop" /\ ~r.disturbed
          => \A k \in Key \ r.todo : r.body[k] \in r.seen[k]

\* ... and a DEL that found nothing has seen the key missing.
Missed(r) ==
    /\ r.status = 404 => r.kind \in {"get", "del"}
    /\ r.status = 404 /\ r.kind = "del" /\ r.st # "settled" => None \in r.seen[r.key]
    /\ r.status = 404 /\ r.kind = "get" => r.st \in {"answered", "settled"}
    /\ r.status = 200 /\ r.kind = "all" => r.st \in {"answered", "settled"}

\* AllKeysRegular and NotFoundMeansAbsent for one request.
Regular(r) ==
    r.st = "answered" /\ r.kind = "all" /\ r.status = 200 /\ ~r.disturbed
        => \A k \in Key : r.body[k] \in r.seen[k]

Absent(r) ==
    r.st = "answered" /\ r.status = 404
        => None \in r.seen[r.key] \/ (r.kind = "get" /\ r.disturbed)

Good(r) == Collected(r) /\ Missed(r) /\ Regular(r) /\ Absent(r)

SeenInv == \A i \in DOMAIN reqs : Follows(reqs[i], Reachable, db) /\ Good(reqs[i])

LEMMA WatchedFacts ==
  ASSUME NEW r \in Request, r.kind \in {"get", "set", "del"} => r.key \in Key
  PROVE  /\ Watched(r) \subseteq Key
         /\ r.kind = "all" => Watched(r) = Key
         /\ r.kind \in {"get", "del"} => Watched(r) = {r.key}
         /\ r.kind \in {"set", "flush"} => Watched(r) = {}
         /\ \A s : s.kind = r.kind /\ s.key = r.key => Watched(s) = Watched(r)
<1>1. r.kind \in {"all", "get", "set", "del", "flush"}
  BY Zenon DEF Request
<1>2. CASE r.kind = "all"
  <2>1. Watched(r) = Key /\ \A s : s.kind = r.kind /\ s.key = r.key => Watched(s) = Key
    BY <1>2, Zenon DEF Watched
  <2> QED
    BY <1>2, <2>1, Zenon
<1>3. CASE r.kind \in {"get", "del"}
  <2>1. Watched(r) = {r.key} /\ \A s : s.kind = r.kind /\ s.key = r.key => Watched(s) = {r.key}
    BY <1>3, Zenon DEF Watched
  <2> QED
    BY <1>3, <2>1, Zenon
<1>4. CASE r.kind \in {"set", "flush"}
  <2>1. Watched(r) = {} /\ \A s : s.kind = r.kind /\ s.key = r.key => Watched(s) = {}
    BY <1>4, Zenon DEF Watched
  <2> QED
    BY <1>4, <2>1, Zenon
<1> QED
  BY <1>1, <1>2, <1>3, <1>4, Zenon

LEMMA GoodSees ==
  ASSUME NEW r \in Request, r.kind \in {"get", "set", "del"} => r.key \in Key,
         NEW m \in Database, NEW b \in BOOLEAN, NEW m0, Follows(r, b, m0), Good(r)
  PROVE  Good(Sees(r, m)) /\ Follows(Sees(r, m), b, m)
<1> DEFINE s == Sees(r, m)
<1>1. /\ s \in Request /\ s.kind = r.kind /\ s.key = r.key /\ s.st = r.st /\ s.status = r.status
      /\ s.todo = r.todo /\ s.body = r.body /\ s.disturbed = r.disturbed
      /\ \A k \in Key : /\ r.seen[k] \subseteq s.seen[k]
                        /\ k \in Watched(r) => m[k] \in s.seen[k]
  BY SeesFacts, Zenon
<1>2. Watched(r) \subseteq Key /\ Watched(s) = Watched(r)
  BY <1>1, WatchedFacts, Zenon
<1> HIDE DEF s
<1>3. Follows(s, b, m)
  BY <1>1, <1>2, Zenon DEF Follows, Active
<1>4. Collected(s)
  BY <1>1, Zenon DEF Good, Collected
<1>5. Regular(s)
  BY <1>1, Zenon DEF Good, Regular
<1>6. Missed(s) /\ Absent(s)
  BY <1>1 DEF Good, Missed, Absent
<1> QED
  BY <1>3, <1>4, <1>5, <1>6, Zenon DEF Good, s

LEMMA GoodDisturb ==
  ASSUME NEW r \in Request, r.kind \in {"get", "set", "del"} => r.key \in Key,
         NEW m, NEW b \in BOOLEAN, Good(r), Active(r)
  PROVE  Good(Disturb(r)) /\ Follows(Disturb(r), b, m)
<1> DEFINE s == Disturb(r)
<1>1. /\ s \in Request /\ s.kind = r.kind /\ s.key = r.key /\ s.status = r.status
      /\ s.todo = r.todo /\ s.body = r.body /\ s.seen = r.seen
      /\ s.disturbed = (Watched(r) # {})
      /\ s.st = IF r.st = "done" THEN "broken" ELSE r.st
  BY DisturbFacts, Zenon
<1>2. Watched(s) = Watched(r) /\ (r.kind = "all" => Watched(r) = Key)
  BY <1>1, WatchedFacts, Zenon
<1> HIDE DEF s
<1>3. Follows(s, b, m)
  BY <1>1, <1>2, ZenonT(30) DEF Follows
<1>4. Collected(s)
  BY <1>1, <1>2, ZenonT(30) DEF Good, Collected
<1>5. Regular(s) /\ Absent(s)
  BY <1>1, Zenon DEF Regular, Absent, Active
<1>6. Missed(s)
  BY <1>1 DEF Good, Missed, Active
<1> QED
  BY <1>3, <1>4, <1>5, <1>6, Zenon DEF Good, s

LEMMA GoodAbandon ==
  ASSUME NEW r \in Request, NEW m, NEW b \in BOOLEAN
  PROVE  Good(Abandon(r)) /\ Follows(Abandon(r), b, m)
<1>1. Abandon(r).st = "answered" /\ Abandon(r).status = 0
  BY AbandonFacts, Zenon
<1> QED
  BY <1>1 DEF Good, Follows, Active, Collected, Missed, Regular, Absent

\* A request that the server is done with follows nothing.
LEMMA NotActive == ASSUME NEW r, ~Active(r), NEW m, NEW b PROVE Follows(r, b, m)
  BY Zenon DEF Follows

\* All the requests at once.
LEMMA AllGood ==
  ASSUME NEW rs, WellFormed(rs), NEW b \in BOOLEAN, NEW m0,
         \A i \in DOMAIN rs : Follows(rs[i], b, m0) /\ Good(rs[i])
  PROVE  /\ \A m \in Database : \A i \in DOMAIN rs :
               Follows(AllSee(rs, m)[i], b, m) /\ Good(AllSee(rs, m)[i])
         /\ \A c \in BOOLEAN : \A m : \A i \in DOMAIN rs :
               Follows(Disturbed(rs)[i], c, m) /\ Good(Disturbed(rs)[i])
         /\ \A c \in BOOLEAN : \A m : \A i \in DOMAIN rs :
               Follows(Abandoned(rs)[i], c, m) /\ Good(Abandoned(rs)[i])
<1>1. \A i \in DOMAIN rs : rs[i] \in Request /\ (rs[i].kind \in {"get", "set", "del"} => rs[i].key \in Key)
  BY SMTT(30) DEF WellFormed
<1>2. ASSUME NEW m \in Database, NEW i \in DOMAIN rs
      PROVE  Follows(AllSee(rs, m)[i], b, m) /\ Good(AllSee(rs, m)[i])
  <2>1. AllSee(rs, m)[i] = IF Active(rs[i]) THEN Sees(rs[i], m) ELSE rs[i]
    BY Zenon DEF AllSee
  <2>2. CASE Active(rs[i])
    BY <1>1, <2>1, <2>2, GoodSees, Zenon
  <2>3. CASE ~Active(rs[i])
    BY <2>1, <2>3, NotActive, Zenon
  <2> QED
    BY <2>2, <2>3, Zenon
<1>3. ASSUME NEW c \in BOOLEAN, NEW m, NEW i \in DOMAIN rs
      PROVE  Follows(Disturbed(rs)[i], c, m) /\ Good(Disturbed(rs)[i])
  <2>1. Disturbed(rs)[i] = IF Active(rs[i]) THEN Disturb(rs[i]) ELSE rs[i]
    BY Zenon DEF Disturbed
  <2>2. CASE Active(rs[i])
    BY <1>1, <2>1, <2>2, GoodDisturb, Zenon
  <2>3. CASE ~Active(rs[i])
    BY <2>1, <2>3, NotActive, Zenon
  <2> QED
    BY <2>2, <2>3, Zenon
<1>4. ASSUME NEW c \in BOOLEAN, NEW m, NEW i \in DOMAIN rs
      PROVE  Follows(Abandoned(rs)[i], c, m) /\ Good(Abandoned(rs)[i])
  <2>1. Abandoned(rs)[i] = IF Active(rs[i]) THEN Abandon(rs[i]) ELSE rs[i]
    BY Zenon DEF Abandoned
  <2>2. CASE Active(rs[i])
    BY <1>1, <2>1, <2>2, GoodAbandon, Zenon
  <2>3. CASE ~Active(rs[i])
    BY <2>1, <2>3, NotActive, Zenon
  <2> QED
    BY <2>2, <2>3, Zenon
<1> QED
  BY <1>2, <1>3, <1>4, Zenon

\* A step that changes one request at most.
LEMMA OneSeen ==
  ASSUME SeenInv, NEW i \in DOMAIN reqs, NEW r, reqs' = [reqs EXCEPT ![i] = r],
         UNCHANGED <<server, db>>, Follows(r, Reachable, db), Good(r)
  PROVE  SeenInv'
<1>1. Reachable' = Reachable /\ db' = db
  BY Zenon DEF Reachable, Up, server
<1>2. DOMAIN reqs' = DOMAIN reqs
  BY Zenon
<1>3. ASSUME NEW j \in DOMAIN reqs PROVE Follows(reqs'[j], Reachable', db') /\ Good(reqs'[j])
  <2>1. CASE j = i
    BY <1>1, <2>1, Zenon
  <2>2. CASE j # i
    <3>1. reqs'[j] = reqs[j]
      BY <2>2, Zenon
    <3> QED
      BY <1>1, <3>1, Zenon DEF SeenInv
  <2> QED
    BY <2>1, <2>2, Zenon
<1> QED
  BY <1>2, <1>3, Zenon DEF SeenInv

LEMMA RespondSeen ==
  ASSUME TypeOK, SeenInv, NEW i \in DOMAIN reqs, NEW status \in Status, NEW m \in Database,
         Respond(i, status, m),
         status = 404 => reqs[i].kind \in {"get", "del"},
         status = 404 => None \in reqs[i].seen[reqs[i].key] \/ (reqs[i].kind = "get" /\ reqs[i].disturbed),
         reqs[i].kind = "all" /\ status = 200 /\ ~reqs[i].disturbed
             => \A k \in Key : m[k] \in reqs[i].seen[k]
  PROVE  SeenInv'
<1>1. reqs[i] \in Request
  BY DEF TypeOK
<1> DEFINE s == Answer(reqs[i], status, m)
<1>2. /\ s.kind = reqs[i].kind /\ s.key = reqs[i].key /\ s.disturbed = reqs[i].disturbed
      /\ s.seen = reqs[i].seen /\ s.st = "answered" /\ s.status = status /\ s.body = m
  BY <1>1, AnswerFacts
<1>3. UNCHANGED <<server, db>> /\ reqs' = [reqs EXCEPT ![i] = s]
  BY Zenon DEF Respond, data
<1> HIDE DEF s
<1>4. Collected(s) /\ Missed(s)
  BY <1>2 DEF Collected, Missed
<1>5. Regular(s)
  BY <1>2 DEF Regular
<1>6. Absent(s)
  BY <1>2, Zenon DEF Absent
<1>7. Follows(s, Reachable, db)
  BY <1>2, NotActive, Zenon DEF Active
<1> QED
  BY <1>3, <1>4, <1>5, <1>6, <1>7, OneSeen, Zenon DEF Good

LEMMA SendSeen ==
  ASSUME TypeOK, SeenInv, NEW kind \in {"all", "get", "set", "del", "flush"},
         NEW k \in Key \cup {None}, NEW v \in Value \cup {None},
         kind \in {"get", "set", "del"} => k \in Key, Send(kind, k, v), UNCHANGED <<server, db>>
  PROVE  SeenInv'
<1>1. reqs \in Seq(Request) /\ db \in Database
  BY Zenon DEF TypeOK
<1>2. Reachable' = Reachable /\ db' = db
  BY Zenon DEF Reachable, Up, server
<1> DEFINE n == NewRequest(kind, k, v)
<1>3. /\ n \in Request /\ n.kind = kind /\ n.key = k /\ n.st = "sent" /\ n.status = 0
      /\ n.body = Nothing /\ n.disturbed = (~Reachable /\ kind \in {"all", "get", "del"})
  BY NewRequestFacts
<1>4. reqs' = Append(reqs, IF Up THEN Sees(n, db) ELSE n)
  BY Zenon DEF Send
<1> HIDE DEF n
<1>5. Good(n)
  BY <1>3 DEF Good, Collected, Missed, Regular, Absent
<1>6. (n.kind \in {"get", "set", "del"} => n.key \in Key) /\ Reachable \in BOOLEAN
  BY <1>3, Zenon DEF Reachable, Up
<1>7. Watched(n) # {} => kind \in {"all", "get", "del"}
  BY <1>3, <1>6, WatchedFacts, Zenon
<1>8. ASSUME ~Up PROVE Follows(n, Reachable, db)
  <2>1. ~Reachable
    BY <1>8, Zenon DEF Reachable
  <2> QED
    BY <1>3, <1>7, <2>1, Zenon DEF Follows
<1>9. Follows(Sees(n, db), Reachable, db) /\ Good(Sees(n, db))
  <2>1. /\ Sees(n, db).kind = n.kind /\ Sees(n, db).key = n.key /\ Sees(n, db).st = n.st
        /\ Sees(n, db).disturbed = n.disturbed
        /\ \A x \in Key : x \in Watched(n) => db[x] \in Sees(n, db).seen[x]
    BY <1>1, <1>3, SeesFacts, Zenon
  <2>2. Watched(Sees(n, db)) = Watched(n) /\ Watched(n) \subseteq Key
    BY <1>3, <1>6, <2>1, WatchedFacts, Zenon
  <2>3. Follows(Sees(n, db), Reachable, db)
    BY <1>3, <1>7, <2>1, <2>2, Zenon DEF Follows
  <2>4. Sees(n, db).status = 0 /\ Sees(n, db).body = Nothing
    BY <1>1, <1>3, SeesFacts, Zenon
  <2>5. Good(Sees(n, db))
    BY <1>3, <2>1, <2>4, SMTT(30) DEF Good, Collected, Missed, Regular, Absent
  <2> QED
    BY <2>3, <2>5, Zenon
<1>10. PICK r : reqs' = Append(reqs, r) /\ Follows(r, Reachable, db) /\ Good(r) /\ r \in Request
  <2>1. Sees(n, db) \in Request
    BY <1>1, <1>3, SeesFacts, Zenon
  <2> QED
    BY <1>3, <1>4, <1>5, <1>8, <1>9, <2>1, Zenon
<1>11. \A i \in DOMAIN Append(reqs, r) : Append(reqs, r)[i] \in {r} \cup {reqs[j] : j \in DOMAIN reqs}
  BY <1>1, <1>10
<1>12. \A i \in DOMAIN reqs : Follows(reqs[i], Reachable, db) /\ Good(reqs[i])
  BY Zenon DEF SeenInv
<1>13. \A i \in DOMAIN reqs' : Follows(reqs'[i], Reachable, db) /\ Good(reqs'[i])
  BY <1>10, <1>11, <1>12, Zenon
<1> QED
  BY <1>2, <1>13, Zenon DEF SeenInv

LEMMA PageSeen == ASSUME TypeOK, SeenInv, Page PROVE SeenInv'
<1>1. UNCHANGED <<server, db>>
  BY Zenon DEF Page, handleOperationClick, Type, Confirm, CloseAlert, Settle, NotConnected, Respond, data
<1>2. ui \in View /\ WellFormed(reqs)
  BY TypeParts, Zenon
<1>3. ASSUME UNCHANGED reqs PROVE SeenInv'
  BY <1>1, <1>3, Zenon DEF SeenInv, Reachable, Up, server
<1>4. ASSUME NEW op \in Operations, handleOperationClick(op) PROVE SeenInv'
  <2>1. Send("all", None, None) \/ Send("flush", None, None) \/ UNCHANGED reqs
    BY <1>4, Zenon DEF handleOperationClick
  <2> QED
    BY <1>1, <1>3, <2>1, SendSeen, Zenon
<1>5. CASE Type \/ CloseAlert
  BY <1>3, <1>5, Zenon DEF Type, CloseAlert
<1>6. CASE Confirm
  <2>1. CASE UNCHANGED reqs
    BY <1>3, <2>1, Zenon
  <2>2. CASE ~(ui.key = None \/ (ui.operation = "insert" /\ ui.value = None))
    <3>1. ui.key \in Key /\ ui.key \in Key \cup {None} /\ ui.value \in Value \cup {None}
      BY <1>2, <2>2, Zenon DEF View
    <3>2. PICK kind \in {"set", "get", "del"} : Send(kind, ui.key, ui.value)
      BY <1>6, <2>2, Zenon DEF Confirm
    <3> QED
      BY <1>1, <3>1, <3>2, SendSeen, Zenon
  <2> QED
    BY <1>6, <2>1, <2>2, Zenon DEF Confirm
<1>7. ASSUME NEW i \in DOMAIN reqs, Settle(i) PROVE SeenInv'
  <2>1. reqs[i] \in Request /\ reqs[i].st = "answered" /\ reqs' = [reqs EXCEPT ![i] = Over(reqs[i])]
    BY <1>2, <1>7 DEF Settle, WellFormed
  <2>2. /\ Over(reqs[i]).kind = reqs[i].kind /\ Over(reqs[i]).status = reqs[i].status
        /\ Over(reqs[i]).st = "settled"
    BY <2>1, OverFacts, Zenon
  <2>3. Good(reqs[i])
    BY Zenon DEF SeenInv
  <2>4. Good(Over(reqs[i]))
    BY <2>2, <2>3 DEF Good, Collected, Missed, Regular, Absent
  <2>5. Follows(Over(reqs[i]), Reachable, db)
    BY <2>2, NotActive, Zenon DEF Active
  <2> QED
    BY <1>1, <2>1, <2>4, <2>5, OneSeen, Zenon
<1>8. ASSUME NEW i \in DOMAIN reqs, NotConnected(i) PROVE SeenInv'
  <2>1. 0 \in Status /\ Nothing \in Database
    BY NothingFacts, Zenon DEF Status
  <2> QED
    BY <1>8, <2>1, RespondSeen DEF NotConnected
<1> QED
  BY <1>4, <1>5, <1>6, <1>7, <1>8, Zenon DEF Page

LEMMA ProcessSeen == ASSUME TypeOK, ProcInv, SeenInv, Process PROVE SeenInv'
<1>1. WellFormed(reqs) /\ DataType /\ ServerType
  BY TypeParts, Zenon
<1>2. Reachable \in BOOLEAN /\ Reachable' \in BOOLEAN
  BY Zenon DEF Reachable, Up
<1>3. \A i \in DOMAIN reqs : Follows(reqs[i], Reachable, db) /\ Good(reqs[i])
  BY Zenon DEF SeenInv
<1>4. ASSUME UNCHANGED <<reqs, db>>, ~Reachable PROVE SeenInv'
  BY <1>3, <1>4, Zenon DEF SeenInv, Follows
<1>5. ASSUME UNCHANGED <<reqs, db>>, Reachable' = Reachable PROVE SeenInv'
  BY <1>3, <1>5, Zenon DEF SeenInv
<1>6. ASSUME reqs' = Disturbed(reqs) \/ reqs' = Abandoned(reqs) PROVE SeenInv'
  <2>1. DOMAIN Disturbed(reqs) = DOMAIN reqs /\ DOMAIN Abandoned(reqs) = DOMAIN reqs
    BY <1>1, DisturbedTypes, AbandonedTypes, Zenon
  <2>2. /\ \A c \in BOOLEAN : \A m : \A i \in DOMAIN reqs :
               Follows(Disturbed(reqs)[i], c, m) /\ Good(Disturbed(reqs)[i])
        /\ \A c \in BOOLEAN : \A m : \A i \in DOMAIN reqs :
               Follows(Abandoned(reqs)[i], c, m) /\ Good(Abandoned(reqs)[i])
    BY <1>1, <1>2, <1>3, AllGood, Zenon
  <2>3. \A i \in DOMAIN reqs' : Follows(reqs'[i], Reachable', db') /\ Good(reqs'[i])
    BY <1>2, <1>6, <2>1, <2>2, Zenon
  <2> QED
    BY <2>3, Zenon DEF SeenInv
<1>7. CASE NewRedisServer \/ PingAnswered \/ Run
  <2>1. ~Reachable
    BY <1>7, Zenon DEF NewRedisServer, PingAnswered, Run, Reachable
  <2> QED
    BY <1>4, <1>7, <2>1, Zenon DEF NewRedisServer, PingAnswered, Run, app, data
<1>8. CASE PingTimeout
  <2>1. ~Reachable /\ Die(starts)
    BY <1>8, Zenon DEF PingTimeout, Reachable
  <2> QED
    BY <1>4, <1>6, <2>1, Zenon DEF Die
<1>9. CASE Signal \/ CloseKill
  BY <1>6, <1>9, Zenon DEF Signal, CloseKill
<1>10. CASE ServerDies
  BY <1>6, <1>10, Zenon DEF ServerDies, Die
<1>11. ASSUME NEW g \in 1..MaxStarts, Boot(g) PROVE SeenInv'
  <2>1. UNCHANGED <<reqs, db>>
    BY <1>11, Zenon DEF Boot, app, data
  <2>2. CASE port = 0
    BY <1>4, <2>1, <2>2, Zenon DEF Reachable, Up
  <2>3. CASE port # 0
    <3>1. port' = port /\ procs' = [procs EXCEPT ![g] = "dead"] /\ UNCHANGED wrapper /\ procs[g] = "boot"
      BY <1>11, <2>3, Zenon DEF Boot
    <3>2. port # g /\ port \in 1..MaxStarts
      BY <1>1, <2>3, <3>1 DEF ProcInv, ServerType
    <3>3. procs'[port] = procs[port]
      BY <1>1, <3>1, <3>2, Zenon DEF ServerType
    <3>4. Reachable' = Reachable
      BY <3>1, <3>3, Zenon DEF Reachable, Up
    <3> QED
      BY <1>5, <2>1, <3>4, Zenon
  <2> QED
    BY <2>2, <2>3, Zenon
<1>12. ASSUME NEW g \in 1..MaxStarts, Loaded(g) PROVE SeenInv'
  <2>1. reqs' = AllSee(reqs, saved) /\ db' = saved
    BY <1>12, Zenon DEF Loaded, Apply
  <2>2. ~Reachable
    BY <1>12, Zenon DEF Loaded, Reachable, Up, ProcInv
  <2>3. saved \in Database
    BY <1>1, Zenon DEF DataType
  <2>4. \A i \in DOMAIN reqs : Follows(reqs[i], Reachable', db) /\ Good(reqs[i])
    BY <1>3, <2>2, Zenon DEF Follows
  <2>5. DOMAIN AllSee(reqs, saved) = DOMAIN reqs
    BY <1>1, <2>3, AllSeeTypes, Zenon
  <2>6. \A i \in DOMAIN reqs : Follows(AllSee(reqs, saved)[i], Reachable', saved) /\ Good(AllSee(reqs, saved)[i])
    BY <1>1, <1>2, <2>3, <2>4, AllGood, Zenon
  <2>7. \A i \in DOMAIN reqs' : Follows(reqs'[i], Reachable', db') /\ Good(reqs'[i])
    BY <2>1, <2>5, <2>6, Zenon
  <2> QED
    BY <2>7, Zenon DEF SeenInv
<1>13. CASE Flush \/ FlushPostponed
  BY <1>5, <1>13, Zenon DEF Flush, FlushPostponed, app, server, Reachable, Up
<1> QED
  BY <1>7, <1>8, <1>9, <1>10, <1>11, <1>12, <1>13, Zenon DEF Process

LEMMA HandlerSeen == ASSUME TypeOK, SeenInv, NEW i \in DOMAIN reqs, Handler(i) PROVE SeenInv'
<1>1. WellFormed(reqs) /\ DataType
  BY TypeParts, Zenon
<1>2. /\ reqs[i] \in Request
      /\ reqs[i].kind \in {"get", "set", "del"} => reqs[i].key \in Key
      /\ reqs[i].kind = "set" => reqs[i].val \in Value
  BY <1>1 DEF WellFormed
<1>3. /\ 200 \in Status /\ 404 \in Status /\ 500 \in Status
      /\ Nothing \in Database /\ reqs[i].body \in Database /\ reqs[i].status \in Status
      /\ db \in Database
  BY <1>1, <1>2, NothingFacts DEF Request, Status, DataType
<1>4. Follows(reqs[i], Reachable, db) /\ Good(reqs[i])
  BY Zenon DEF SeenInv
<1>5. reqs[i].kind = "all" => Watched(reqs[i]) = Key
  BY <1>2, WatchedFacts, Zenon
<1>6. reqs[i].kind = "all" /\ reqs[i].st \in {"sent", "loop"} /\ ~reqs[i].disturbed /\ Key # {}
         => Reachable /\ \A k \in Key : db[k] \in reqs[i].seen[k]
  BY <1>4, <1>5, Zenon DEF Follows, Active
<1>7. CASE getAllKeys(i)
  <2>1. reqs[i].kind = "all" /\ reqs[i].st = "sent"
    BY <1>7, Zenon DEF getAllKeys, Is
  <2>2. CASE Reachable
    <3> DEFINE keys == {k \in Key : db[k] # None}
               s == Listed(reqs[i], keys)
    <3>1. reqs' = [reqs EXCEPT ![i] = s] /\ UNCHANGED <<server, db>>
      BY <1>7, <2>2, Zenon DEF getAllKeys, data
    <3>2. keys \in SUBSET Key /\ \A k \in Key \ keys : db[k] = None
      BY Zenon
    <3> HIDE DEF keys
    <3>3. /\ s \in Request /\ s.kind = reqs[i].kind /\ s.key = reqs[i].key
          /\ s.status = reqs[i].status /\ s.disturbed = reqs[i].disturbed
          /\ s.body = reqs[i].body /\ s.seen = reqs[i].seen /\ s.st = "loop" /\ s.todo = keys
      BY <1>2, <3>2, ListedFacts, ZenonT(30)
    <3> HIDE DEF s
    <3>4. Watched(s) = Watched(reqs[i])
      BY <1>2, <3>3, WatchedFacts, Zenon
    <3>5. reqs[i].body = Nothing /\ reqs[i].status \notin {200, 404}
      BY <1>4, <2>1, Zenon DEF Good, Collected, Missed
    <3>6. Collected(s)
      BY <1>6, <2>1, <3>2, <3>3, <3>5 DEF Collected, Nothing
    <3>7. Missed(s) /\ Regular(s) /\ Absent(s)
      BY <3>3, <3>5 DEF Missed, Regular, Absent
    <3>8. Follows(s, Reachable, db)
      BY <1>4, <2>1, <3>3, <3>4, Zenon DEF Follows, Active
    <3> QED
      BY <3>1, <3>6, <3>7, <3>8, OneSeen, Zenon DEF Good
  <2>3. CASE ~Reachable
    <3>1. Respond(i, 500, Nothing)
      BY <1>7, <2>3, Zenon DEF getAllKeys
    <3> QED
      BY <1>3, <3>1, RespondSeen
  <2> QED
    BY <2>2, <2>3, Zenon
<1>8. CASE GetNext(i)
  <2>1. PICK k \in reqs[i].todo :
           reqs' = [reqs EXCEPT ![i] = Collects(reqs[i], k, IF Reachable THEN db[k] ELSE None)]
    BY <1>8, Zenon DEF GetNext
  <2>2. k \in Key /\ reqs[i].kind = "all" /\ reqs[i].st = "loop" /\ UNCHANGED <<server, db>>
    BY <1>2, <1>8, Zenon DEF Request, GetNext, Is, data
  <2>3. db[k] \in Value \cup {None}
    BY <1>3, <2>2, Zenon DEF Database
  <2>4. PICK v \in Value \cup {None} : /\ reqs' = [reqs EXCEPT ![i] = Collects(reqs[i], k, v)]
                                       /\ Reachable => v = db[k]
    BY <2>1, <2>3, Zenon
  <2> DEFINE s == Collects(reqs[i], k, v)
  <2>5. /\ s \in Request /\ s.kind = reqs[i].kind /\ s.key = reqs[i].key
        /\ s.status = reqs[i].status /\ s.disturbed = reqs[i].disturbed
        /\ s.seen = reqs[i].seen /\ s.st = reqs[i].st /\ s.todo = reqs[i].todo \ {k}
        /\ s.body[k] = v /\ \A x \in Key \ {k} : s.body[x] = reqs[i].body[x]
    BY <1>2, <2>2, CollectsFacts
  <2> HIDE DEF s
  <2>6. Watched(s) = Watched(reqs[i])
    BY <1>2, <2>5, WatchedFacts, Zenon
  <2>7. reqs[i].status \notin {200, 404}
    BY <1>4, <2>2, Zenon DEF Good, Missed
  <2>8. Collected(s)
    <3>1. s.st = "loop"
      BY <2>2, <2>5, Zenon
    <3>2. ASSUME ~s.disturbed, NEW x \in Key \ s.todo PROVE s.body[x] \in s.seen[x]
      <4>1. Reachable /\ db[k] \in reqs[i].seen[k]
        BY <1>6, <2>2, <2>5, <3>2, Zenon
      <4>2. CASE x = k
        BY <2>4, <2>5, <4>1, <4>2, Zenon
      <4>3. CASE x # k
        <5>1. x \in Key \ reqs[i].todo
          BY <2>5, <3>2, <4>3, Zenon
        <5>2. reqs[i].body[x] \in reqs[i].seen[x]
          BY <1>4, <2>2, <2>5, <3>2, <5>1, Zenon DEF Good, Collected
        <5> QED
          BY <2>5, <4>3, <5>1, <5>2, Zenon
      <4> QED
        BY <4>2, <4>3, Zenon
    <3> QED
      BY <3>1, <3>2, Zenon DEF Collected
  <2>9. Missed(s) /\ Regular(s) /\ Absent(s)
    BY <2>5, <2>7 DEF Missed, Regular, Absent
  <2>10. Follows(s, Reachable, db)
    BY <1>4, <2>5, <2>6, Zenon DEF Follows, Active
  <2> QED
    BY <2>2, <2>4, <2>8, <2>9, <2>10, OneSeen, Zenon DEF Good, s
<1>9. CASE AllKeysDone(i)
  <2>1. reqs[i].kind = "all" /\ reqs[i].st = "loop" /\ reqs[i].todo = {} /\ Respond(i, 200, reqs[i].body)
    BY <1>9, Zenon DEF AllKeysDone, Is
  <2>2. ~reqs[i].disturbed => \A k \in Key : reqs[i].body[k] \in reqs[i].seen[k]
    BY <1>4, <2>1, Zenon DEF Good, Collected
  <2> QED
    BY <1>3, <2>1, <2>2, RespondSeen
<1>10. CASE getValueByKey(i)
  <2>1. reqs[i].kind = "get" /\ reqs[i].st = "sent" /\ reqs[i].key \in Key
    BY <1>2, <1>10, Zenon DEF getValueByKey, Is
  <2>2. Watched(reqs[i]) = {reqs[i].key}
    BY <1>2, <2>1, WatchedFacts, Zenon
  <2>3. ~reqs[i].disturbed => Reachable /\ db[reqs[i].key] \in reqs[i].seen[reqs[i].key]
    BY <1>4, <2>1, <2>2, Zenon DEF Follows, Active
  <2>4. CASE ~(Reachable /\ db[reqs[i].key] # None) /\ Respond(i, 404, Nothing)
    <3>1. None \in reqs[i].seen[reqs[i].key] \/ (reqs[i].kind = "get" /\ reqs[i].disturbed)
      <4>1. reqs[i].disturbed \in BOOLEAN
        BY <1>2, Zenon DEF Request
      <4> QED
        BY <2>1, <2>3, <2>4, <4>1, Zenon
    <3> QED
      BY <1>3, <2>1, <2>4, <3>1, RespondSeen
  <2>5. CASE Respond(i, 200, [Nothing EXCEPT ![reqs[i].key] = db[reqs[i].key]])
    <3>1. db[reqs[i].key] \in Value \cup {None}
      BY <1>3, <2>1, Zenon DEF Database
    <3>2. PICK m \in Database : Respond(i, 200, m)
      BY <2>1, <2>5, <3>1, OnePair, Zenon
    <3> QED
      BY <1>3, <2>1, <3>2, RespondSeen
  <2> QED
    BY <1>10, <2>4, <2>5, Zenon DEF getValueByKey
<1>11. CASE ExecuteWrite(i)
  <2> DEFINE r == reqs[i]
             s == Executed(r, WriteStatus(r))
             rs == [reqs EXCEPT ![i] = s]
             m == Written(r)
  <2>1. r.kind \in {"set", "del", "flush"} /\ r.st = "sent"
    BY <1>11, Zenon DEF ExecuteWrite, Is
  <2>2. m \in Database /\ WriteStatus(r) \in Status
    BY <1>2, <1>3, <2>1, WrittenType, Zenon
  <2>3. WellFormed(rs) /\ DOMAIN rs = DOMAIN reqs
    BY <1>1, <1>2, <2>2, ExecutedFacts, OneType
  <2>4. Apply(m, rs) /\ UNCHANGED server
    BY <1>11, Zenon DEF ExecuteWrite
  <2>5. /\ s \in Request /\ s.kind = r.kind /\ s.key = r.key /\ s.disturbed = r.disturbed
        /\ s.seen = r.seen /\ s.st = "done" /\ s.status = WriteStatus(r)
    BY <1>2, <2>2, ExecutedFacts, Zenon
  <2>6. WriteStatus(r) = 404 => r.kind = "del" /\ m[r.key] = None
    BY <1>2, <1>3 DEF WriteStatus, Written, Database
  <2>7. Watched(s) = Watched(r) /\ Watched(s) \subseteq Key /\ (r.kind = "del" => Watched(s) = {r.key})
    BY <1>2, <2>5, WatchedFacts, Zenon
  <2> HIDE DEF m
  <2>8. Follows(s, Reachable, db)
    BY <1>4, <2>1, <2>5, <2>7, Zenon DEF Follows, Active
  <2> HIDE DEF s
  <2>9. \A j \in DOMAIN rs : rs[j] = IF j = i THEN s ELSE reqs[j]
    BY <2>3, Zenon
  <2>10. Sees(s, m) \in Request /\ Follows(Sees(s, m), Reachable, m) /\ Good(Sees(s, m))
    <3>1. /\ Sees(s, m) \in Request /\ Sees(s, m).kind = s.kind /\ Sees(s, m).key = s.key
          /\ Sees(s, m).st = s.st
          /\ Sees(s, m).status = s.status /\ Sees(s, m).disturbed = s.disturbed
          /\ \A k \in Key : k \in Watched(s) => m[k] \in Sees(s, m).seen[k]
      BY <2>2, <2>5, SeesFacts, Zenon
    <3>2. Watched(Sees(s, m)) = Watched(s)
      BY <1>2, <2>5, <3>1, WatchedFacts, Zenon
    <3>3. Follows(Sees(s, m), Reachable, m)
      BY <2>7, <2>8, <3>1, <3>2, Zenon DEF Follows, Active
    <3>4. Collected(Sees(s, m)) /\ Regular(Sees(s, m)) /\ Absent(Sees(s, m))
      BY <2>5, <3>1, Zenon DEF Collected, Regular, Absent
    <3>5. Missed(Sees(s, m))
      BY <2>1, <2>5, <2>6, <2>7, <3>1 DEF Missed
    <3> QED
      BY <3>1, <3>3, <3>4, <3>5, Zenon DEF Good
  <2>11. ASSUME NEW j \in DOMAIN reqs PROVE Follows(AllSee(rs, m)[j], Reachable, m) /\ Good(AllSee(rs, m)[j])
    <3>1. AllSee(rs, m)[j] = IF Active(rs[j]) THEN Sees(rs[j], m) ELSE rs[j]
      BY <2>3, Zenon DEF AllSee
    <3>2. CASE j = i
      <4>1. Active(s)
        BY <2>5, Zenon DEF Active
      <4> QED
        BY <2>3, <2>9, <2>10, <3>1, <3>2, <4>1, Zenon
    <3>3. CASE j # i
      <4>1. rs[j] = reqs[j] /\ reqs[j] \in Request
            /\ (reqs[j].kind \in {"get", "set", "del"} => reqs[j].key \in Key)
        BY <1>1, <2>3, <2>9, <3>3 DEF WellFormed
      <4>2. Follows(reqs[j], Reachable, db) /\ Good(reqs[j])
        BY Zenon DEF SeenInv
      <4>3. Reachable \in BOOLEAN
        BY Zenon DEF Reachable, Up
      <4>4. CASE Active(reqs[j])
        <5>1. Good(Sees(reqs[j], m)) /\ Follows(Sees(reqs[j], m), Reachable, m)
          BY <2>2, <4>1, <4>2, <4>3, GoodSees, Zenon
        <5> QED
          BY <3>1, <4>1, <4>4, <5>1, Zenon
      <4>5. CASE ~Active(reqs[j])
        BY <3>1, <4>1, <4>2, <4>5, NotActive, Zenon
      <4> QED
        BY <4>4, <4>5, Zenon
    <3> QED
      BY <3>2, <3>3, Zenon
  <2>12. reqs' = AllSee(rs, m) /\ db' = m /\ Reachable' = Reachable
    BY <2>4, Zenon DEF Apply, server, Reachable, Up
  <2> HIDE DEF r, rs
  <2>13. DOMAIN AllSee(rs, m) = DOMAIN rs
    BY <2>2, <2>3, AllSeeTypes, Zenon
  <2> QED
    BY <2>3, <2>11, <2>12, <2>13, Zenon DEF SeenInv
<1>12. CASE ReplyToWrite(i)
  <2>1. reqs[i].kind \in {"set", "del", "flush"} /\ reqs[i].st = "done" /\ Respond(i, reqs[i].status, Nothing)
    BY <1>12, Zenon DEF ReplyToWrite, Is
  <2>2. reqs[i].status = 404 => reqs[i].kind = "del" /\ None \in reqs[i].seen[reqs[i].key]
    BY <1>4, <2>1, Zenon DEF Good, Missed
  <2> QED
    BY <1>3, <2>1, <2>2, RespondSeen
<1>13. CASE WriteFails(i)
  <2>1. Respond(i, 500, Nothing)
    BY <1>13, Zenon DEF WriteFails
  <2> QED
    BY <1>3, <2>1, RespondSeen
<1> QED
  BY <1>7, <1>8, <1>9, <1>10, <1>11, <1>12, <1>13, Zenon DEF Handler

LEMMA SeenHolds == Spec => []SeenInv
<1>1. Init => SeenInv
  BY DEF Init, SeenInv
<1>2. Base /\ SeenInv /\ [Next]_vars => SeenInv'
  <2> SUFFICES ASSUME Base, SeenInv, [Next]_vars PROVE SeenInv'
    BY Zenon
  <2>1. CASE UNCHANGED vars
    BY <2>1, Zenon DEF vars, app, server, data, SeenInv, Reachable, Up
  <2> QED
    BY <2>1, PageSeen, ProcessSeen, HandlerSeen, Zenon DEF Next, Base
<1> QED
  BY <1>1, <1>2, BaseHolds, PTL DEF Spec

\* Every answer of getAllKeys gives each key a value it had during the request,
\* and leaves out no key that was there all the time, unless the server was lost
\* or the client closed meanwhile; whatever other requests do between its KEYS
\* and its GETs.
THEOREM AnswersRegular == Spec => []AllKeysRegular
<1>1. SeenInv => AllKeysRegular
  BY Zenon DEF SeenInv, Good, Regular, AllKeysRegular
<1> QED
  BY <1>1, SeenHolds, PTL

\* A 404 means that the key was missing at some moment of the request; only
\* getValueByKey also says so when Redis did not answer.
THEOREM NotFoundTruthful == Spec => []NotFoundMeansAbsent
<1>1. SeenInv => NotFoundMeansAbsent
  BY Zenon DEF SeenInv, Good, Absent, NotFoundMeansAbsent
<1> QED
  BY <1>1, SeenHolds, PTL

=============================================================================
