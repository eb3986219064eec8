----------------------------- MODULE RedisDemo -----------------------------
(***************************************************************************)
(* The demo as a whole: the page (frontend/src/App.tsx), the HTTP handlers *)
(* and the life of the Go process (backend/main.go), the redis-server it   *)
(* starts, adopts and kills (backend/redis/server.go), and of that server  *)
(* what the demo relies on: one process per port, a log written before the *)
(* reply, the log loaded at the start.                                     *)
(*                                                                         *)
(* Requests run concurrently: the page does not wait for an answer before  *)
(* it sends the next request, and applies the answers as they arrive.      *)
(***************************************************************************)
EXTENDS Naturals, Sequences, FiniteSets

CONSTANTS
    Key, Value,       \* what the user types
    None,             \* no value
    InitSaved,        \* the databases the log may hold at first
    Operations,       \* the operations the user selects
    MaxRequests,      \* bound on HTTP requests
    MaxStarts,        \* bound on starts of the Go process
    MaxPostponed      \* bound on replies before a postponed write of the log

ASSUME DemoAssumption ==
    /\ None \notin Key \cup Value
    /\ InitSaved \subseteq [Key -> Value \cup {None}]
    /\ Operations \subseteq {"insert", "queryAll", "queryByKey", "deleteAll", "deleteByKey"}
    /\ {MaxRequests, MaxStarts, MaxPostponed} \subseteq Nat

VARIABLES
    ui,         \* the page: operation, key, value, result, message
    reqs,       \* the requests, in the order they were sent
    wrapper,    \* the Go process: "down", "init", "main", "serving", "closing"
    starts,     \* how often it was started
    procs,      \* [1..MaxStarts -> state of the redis-server each start began]
    port,       \* the redis-server that listens on 6379, or 0
    db, saved,  \* its keyspace, and the one its log on disk would load
    unsaved,    \* the requests whose write is in aof_buf
    lost,       \* history: the requests whose write was never saved
    postponed,  \* history: the requests answered before their write was saved
    ever        \* history: the pairs <<k, v>> that have been in the keyspace

app == <<ui, reqs>>
server == <<wrapper, starts, procs, port>>
data == <<db, saved, unsaved, lost, postponed, ever>>
vars == <<app, server, data>>

Nothing == [k \in Key |-> None]
Pairs(m) == {<<k, m[k]>> : k \in {x \in Key : m[x] # None}}

-----------------------------------------------------------------------------
(* Redis, as far as the demo uses it.                                      *)

\* A request the server is working on.
Active(r) == r.st \in {"sent", "loop", "done", "broken"}

\* The keys whose values a request depends on.
Watched(r) ==
    CASE r.kind = "all" -> Key
      [] r.kind \in {"get", "del"} -> {r.key}
      [] OTHER -> {}

\* A request sees the values m of the keys it depends on.
Sees(r, m) ==
    [r EXCEPT !.seen = [k \in Key |-> IF k \in Watched(r) THEN @[k] \cup {m[k]} ELSE @[k]]]

AllSee(rs, m) == [i \in DOMAIN rs |-> IF Active(rs[i]) THEN Sees(rs[i], m) ELSE rs[i]]

\* What a command changes, and what the requests under way see of it.
Apply(m, rs) ==
    /\ db' = m
    /\ ever' = ever \cup Pairs(m)
    /\ reqs' = AllSee(rs, m)

\* The client's connections break, and with them the replies not yet read.
Disturb(r) == [r EXCEPT !.disturbed = Watched(r) # {}, !.st = IF @ = "done" THEN "broken" ELSE @]
Disturbed(rs) == [i \in DOMAIN rs |-> IF Active(rs[i]) THEN Disturb(rs[i]) ELSE rs[i]]

\* There is a server on the port that executes commands.
Up == port # 0 /\ procs[port] = "running"

\* The client works: it is open and there is a server to talk to.
Reachable == wrapper = "serving" /\ Up

\* beforeSleep: aof_buf is written before the replies are.
Flush ==
    /\ unsaved # {}
    /\ saved' = db /\ unsaved' = {}
    /\ UNCHANGED <<app, server, db, lost, postponed, ever>>

\* The write is postponed while an fsync is under way, the replies are not.
FlushPostponed ==
    /\ Cardinality(postponed) + Cardinality(unsaved) <= MaxPostponed
    /\ unsaved \ postponed # {}
    /\ postponed' = postponed \cup unsaved
    /\ UNCHANGED <<app, server, db, saved, unsaved, lost, ever>>

\* The process of start g dies: what it had not written is lost.
Die(g) ==
    /\ procs' = [procs EXCEPT ![g] = "dead"]
    /\ IF port = g
       THEN /\ port' = 0 /\ lost' = lost \cup unsaved /\ unsaved' = {}
            /\ db' = Nothing /\ reqs' = Disturbed(reqs)
       ELSE UNCHANGED <<port, lost, unsaved, db, reqs>>
    /\ UNCHANGED <<saved, postponed, ever>>

\* Faulty variant: the log is opened whether or not the port is free.
LoadsFirst(g) ==
    /\ procs[g] = "boot"
    /\ procs' = [procs EXCEPT ![g] = "loading"]
    /\ port' = g
    /\ UNCHANGED <<app, wrapper, starts, data>>

\* The server binds its port before it touches the log, and exits if it cannot.
Boot(g) ==
    /\ procs[g] = "boot"
    /\ procs' = [procs EXCEPT ![g] = IF port = 0 THEN "loading" ELSE "dead"]
    /\ port' = IF port = 0 THEN g ELSE port
    /\ UNCHANGED <<app, wrapper, starts, data>>

\* It answers every command with LOADING until the log is loaded.
Loaded(g) ==
    /\ procs[g] = "loading"
    /\ procs' = [procs EXCEPT ![g] = "running"]
    /\ Apply(saved, reqs)
    /\ UNCHANGED <<ui, wrapper, starts, port, saved, unsaved, lost, postponed>>

-----------------------------------------------------------------------------
(* The Go process.                                                         *)

\* init: NewRedisServer starts a redis-server.
NewRedisServer ==
    /\ wrapper = "down" /\ starts < MaxStarts
    /\ wrapper' = "init" /\ starts' = starts + 1
    /\ procs' = [procs EXCEPT ![starts + 1] = "boot"]
    /\ UNCHANGED <<app, port, data>>

\* Some server answers the PING: the one just started, or one that was there.
PingAnswered ==
    /\ wrapper = "init" /\ Up
    /\ wrapper' = "main"
    /\ UNCHANGED <<app, starts, procs, port, data>>

\* Five seconds without an answer: the child is killed, the process exits.
PingTimeout ==
    /\ wrapper = "init" /\ ~Up
    /\ wrapper' = "down" /\ Die(starts)
    /\ UNCHANGED <<ui, starts>>

\* r.Run listens, or fails; its error is ignored, so that main returns and the
\* child lives on.
Run ==
    /\ wrapper = "main" /\ wrapper' \in {"serving", "down"}
    /\ UNCHANGED <<app, starts, procs, port, data>>

\* SIGINT or SIGTERM, first half of Close: the client is closed.  Until the
\* goroutine of main has asked for signals they end the process alone.
Signal ==
    /\ \/ wrapper \in {"init", "main"} /\ wrapper' = "down"
       \/ wrapper \in {"main", "serving"} /\ wrapper' = "closing"
    /\ reqs' = Disturbed(reqs)
    /\ UNCHANGED <<ui, starts, procs, port, data>>

\* The requests the process leaves unanswered when it exits.
Abandon(r) == [r EXCEPT !.st = "answered", !.status = 0]
Abandoned(rs) == [i \in DOMAIN rs |-> IF Active(rs[i]) THEN Abandon(rs[i]) ELSE rs[i]]

\* Second half: the child is killed (SIGKILL) and the process exits.
CloseKill ==
    /\ wrapper = "closing"
    /\ wrapper' = "down"
    /\ procs' = [procs EXCEPT ![starts] = "dead"]
    /\ reqs' = Abandoned(reqs)
    /\ IF port = starts
       THEN port' = 0 /\ lost' = lost \cup unsaved /\ unsaved' = {} /\ db' = Nothing
       ELSE UNCHANGED <<port, lost, unsaved, db>>
    /\ UNCHANGED <<ui, starts, saved, postponed, ever>>

\* The server dies by itself, or is killed from outside.  Nothing restarts it.
ServerDies ==
    /\ port # 0 /\ Die(port)
    /\ UNCHANGED <<ui, wrapper, starts>>

-----------------------------------------------------------------------------
(* The handlers.  A request ends with a status and the data of its body;   *)
(* status 0 stands for no answer at all.                                   *)

Answer(r, status, body) == [r EXCEPT !.st = "answered", !.status = status, !.body = body]

Respond(i, status, body) ==
    /\ reqs' = [reqs EXCEPT ![i] = Answer(@, status, body)]
    /\ UNCHANGED <<ui, server, data>>

Served == {i \in DOMAIN reqs : Active(reqs[i]) /\ wrapper \in {"serving", "closing"}}

Is(i, kind, st) == i \in Served /\ reqs[i].kind = kind /\ reqs[i].st = st

\* getAllKeys has the answer of KEYS, or of one GET.
Listed(r, keys) == [r EXCEPT !.st = "loop", !.todo = keys]
Collects(r, k, v) == [r EXCEPT !.todo = @ \ {k}, !.body = [@ EXCEPT ![k] = v]]

\* getAllKeys: KEYS *, then one GET per key, in the order of the answer.
getAllKeys(i) ==
    /\ Is(i, "all", "sent")
    /\ IF Reachable
       THEN /\ reqs' = [reqs EXCEPT ![i] = Listed(@, {k \in Key : db[k] # None})]
            /\ UNCHANGED <<ui, server, data>>
       ELSE Respond(i, 500, Nothing)

\* Faulty variant: the first key that is gone ends the loop.
StopsAtMissing(i) ==
    /\ Is(i, "all", "loop") /\ reqs[i].todo # {}
    /\ \E k \in reqs[i].todo :
          reqs' = [reqs EXCEPT ![i] = [Collects(@, k, db[k]) EXCEPT
                                         !.todo = IF db[k] = None THEN {} ELSE @]]
    /\ UNCHANGED <<ui, server, data>>

\* A GET that fails, for whatever reason, leaves the key out.
GetNext(i) ==
    /\ Is(i, "all", "loop") /\ reqs[i].todo # {}
    /\ \E k \in reqs[i].todo :
          reqs' = [reqs EXCEPT ![i] = Collects(@, k, IF Reachable THEN db[k] ELSE None)]
    /\ UNCHANGED <<ui, server, data>>

AllKeysDone(i) ==
    /\ Is(i, "all", "loop") /\ reqs[i].todo = {}
    /\ Respond(i, 200, reqs[i].body)

\* getValueByKey: any error is a 404.
getValueByKey(i) ==
    /\ Is(i, "get", "sent")
    /\ LET k == reqs[i].key
       IN  IF Reachable /\ db[k] # None
           THEN Respond(i, 200, [Nothing EXCEPT ![k] = db[k]])
           ELSE Respond(i, 404, Nothing)

\* The keyspace after a writing request, and the status of its answer.
Written(r) ==
    CASE r.kind = "set"   -> [db EXCEPT ![r.key] = r.val]
      [] r.kind = "del"   -> [db EXCEPT ![r.key] = None]
      [] r.kind = "flush" -> Nothing

WriteStatus(r) == IF r.kind = "del" /\ db[r.key] = None THEN 404 ELSE 200

Executed(r, status) == [r EXCEPT !.st = "done", !.status = status]

\* setKeyValue, deleteKeyByKey, deleteAllKeys: the command is executed.  A
\* DEL of a missing key changes nothing and is not logged.
ExecuteWrite(i) ==
    /\ \E kind \in {"set", "del", "flush"} : Is(i, kind, "sent")
    /\ Reachable
    /\ LET r == reqs[i]
       IN  /\ Apply(Written(r), [reqs EXCEPT ![i] = Executed(r, WriteStatus(r))])
           /\ unsaved' = IF WriteStatus(r) = 404 THEN unsaved ELSE unsaved \cup {i}
    /\ UNCHANGED <<ui, server, saved, lost, postponed>>

\* Faulty variant: the reply does not wait for the log.
ReplyAtOnce(i) ==
    /\ \E kind \in {"set", "del", "flush"} : Is(i, kind, "done")
    /\ Respond(i, reqs[i].status, Nothing)

\* Its reply arrives, after the log was written, and is passed on.
ReplyToWrite(i) ==
    /\ \E kind \in {"set", "del", "flush"} : Is(i, kind, "done")
    /\ i \in unsaved => i \in postponed
    /\ Respond(i, reqs[i].status, Nothing)

\* Faulty variant: deleteKeyByKey treats errors as getValueByKey does.
ErrorIsMissing(i) ==
    /\ \E kind \in {"set", "del", "flush"} :
          \/ Is(i, kind, "sent") /\ ~Reachable
          \/ Is(i, kind, "broken")
    /\ Respond(i, IF reqs[i].kind = "del" THEN 404 ELSE 500, Nothing)

\* The command, or its reply, did not get through.
WriteFails(i) ==
    /\ \E kind \in {"set", "del", "flush"} :
          \/ Is(i, kind, "sent") /\ ~Reachable
          \/ Is(i, kind, "broken")
    /\ Respond(i, 500, Nothing)

\* No Go process listens: the request fails in the browser.
NotConnected(i) ==
    /\ reqs[i].st = "sent" /\ wrapper \in {"down", "init", "main"}
    /\ Respond(i, 0, Nothing)

-----------------------------------------------------------------------------
(* The page.  A state update after an await is one step: React batches it. *)

\* The request fetch sends.
NewRequest(kind, k, v) ==
    [kind |-> kind, key |-> k, val |-> v, st |-> "sent", status |-> 0,
     todo |-> {}, body |-> Nothing, seen |-> [x \in Key |-> {}],
     disturbed |-> ~Reachable /\ kind \in {"all", "get", "del"}]

Send(kind, k, v) ==
    LET r == NewRequest(kind, k, v)
    IN  reqs' = Append(reqs, IF Up THEN Sees(r, db) ELSE r)

clearInputs(u) == [u EXCEPT !.key = None, !.value = None, !.message = "none"]

\* handleOperationClick.
handleOperationClick(op) ==
    /\ Len(reqs) < MaxRequests /\ op \in Operations
    /\ ui' = [clearInputs(ui) EXCEPT !.operation = op, !.result = Nothing]
    /\ CASE op = "queryAll"  -> Send("all", None, None)
         [] op = "deleteAll" -> Send("flush", None, None)
         [] OTHER -> UNCHANGED reqs
    /\ UNCHANGED <<server, data>>

\* The user fills in the fields the operation shows.
Type ==
    /\ Len(reqs) < MaxRequests
    /\ ui.operation \in {"insert", "queryByKey", "deleteByKey"}
    /\ \E k \in Key, v \in IF ui.operation = "insert" THEN Value ELSE {None} :
          ui' = [ui EXCEPT !.key = k, !.value = v]
    /\ UNCHANGED <<reqs, server, data>>

\* handleSetKeyValue, handleGetValueByKey and handleDeleteKey up to the await.
Confirm ==
    /\ Len(reqs) < MaxRequests
    /\ ui.operation \in {"insert", "queryByKey", "deleteByKey"}
    /\ IF ui.key = None \/ (ui.operation = "insert" /\ ui.value = None)
       THEN ui' = [ui EXCEPT !.message = "missing"] /\ UNCHANGED reqs
       ELSE /\ Send(CASE ui.operation = "insert" -> "set"
                      [] ui.operation = "queryByKey" -> "get"
                      [] OTHER -> "del", ui.key, ui.value)
            /\ UNCHANGED ui
    /\ UNCHANGED <<server, data>>

Failed(u) == [u EXCEPT !.message = "failed"]
Show(u, m, msg) == [u EXCEPT !.result = m, !.message = msg]

\* Faulty variant: the pair shown after an insertion is what the fields hold.
ShowsFields(u, r) ==
    IF r.kind = "set" /\ r.status = 200 /\ u.key # None
    THEN clearInputs(Show(u, [Nothing EXCEPT ![u.key] = u.value], "none")) ELSE u

\* Faulty variant: a 404 leaves the result as it was.
KeepsResult(u, r) ==
    CASE r.status = 404 /\ r.kind = "get" -> [u EXCEPT !.message = "notfound"]
      [] r.status = 200 /\ r.kind = "get" -> Show(u, r.body, "found")
      [] OTHER -> u

\* What the rest of the handler of request r makes of the page.
Settled(u, r) ==
    CASE r.status = 200 /\ r.kind = "set" ->
              clearInputs(Show(u, [Nothing EXCEPT ![r.key] = r.val], "inserted"))
      [] r.status = 200 /\ r.kind = "all" ->
              Show(u, r.body, IF r.body # Nothing THEN "found" ELSE "empty")
      [] r.status = 200 /\ r.kind = "get" -> Show(u, r.body, "found")
      [] r.status = 404 /\ r.kind = "get" -> Show(u, Nothing, "notfound")
      [] r.status = 200 /\ r.kind = "flush" -> Show(u, Nothing, "alldeleted")
      [] r.status = 200 /\ r.kind = "del" -> clearInputs(Show(u, Nothing, "deleted"))
      [] OTHER -> Failed(u)

\* The request is over; nothing looks at it again.
Over(r) == [r EXCEPT !.st = "settled", !.body = Nothing, !.seen = [k \in Key |-> {}]]

Settle(i) ==
    /\ reqs[i].st = "answered"
    /\ ui' = Settled(ui, reqs[i])
    /\ reqs' = [reqs EXCEPT ![i] = Over(@)]
    /\ UNCHANGED <<server, data>>

CloseAlert ==
    /\ Len(reqs) < MaxRequests /\ ui.message # "none"
    /\ ui' = [ui EXCEPT !.message = "none"]
    /\ UNCHANGED <<reqs, server, data>>

-----------------------------------------------------------------------------
Init ==
    /\ ui = [operation |-> "none", key |-> None, value |-> None,
             result |-> Nothing, message |-> "none"]
    /\ reqs = <<>>
    /\ wrapper = "down" /\ starts = 0
    /\ procs = [g \in 1..MaxStarts |-> "none"] /\ port = 0
    /\ saved \in InitSaved /\ db = Nothing
    /\ unsaved = {} /\ lost = {} /\ postponed = {} /\ ever = {}

Handler(i) ==
    \/ getAllKeys(i) \/ GetNext(i) \/ AllKeysDone(i) \/ getValueByKey(i)
    \/ ExecuteWrite(i) \/ ReplyToWrite(i) \/ WriteFails(i)

Page ==
    \/ \E op \in Operations : handleOperationClick(op)
    \/ Type \/ Confirm \/ CloseAlert
    \/ \E i \in DOMAIN reqs : Settle(i) \/ NotConnected(i)

Process ==
    \/ NewRedisServer \/ PingAnswered \/ PingTimeout \/ Run
    \/ Signal \/ CloseKill \/ ServerDies
    \/ \E g \in 1..MaxStarts : Boot(g) \/ Loaded(g)
    \/ Flush \/ FlushPostponed

Next == Page \/ Process \/ \E i \in DOMAIN reqs : Handler(i)

Spec == Init /\ [][Next]_vars

-----------------------------------------------------------------------------
(* Properties.                                                             *)

Database == [Key -> Value \cup {None}]

\* How far a request is, and the status of its answer.
Stage == {"sent", "loop", "done", "broken", "answered", "settled"}
Status == {0, 200, 404, 500}
Message == {"none", "missing", "failed", "inserted", "found", "empty", "notfound",
            "alldeleted", "deleted"}

\* A request, from the page's call to the update of the page with its answer.
Request ==
    [kind : {"all", "get", "set", "del", "flush"}, key : Key \cup {None}, val : Value \cup {None},
     st : Stage, status : Status, todo : SUBSET Key, body : Database,
     seen : [Key -> SUBSET (Value \cup {None})], disturbed : BOOLEAN]

\* What the page shows.
View == [operation : Operations \cup {"none"}, key : Key \cup {None}, value : Value \cup {None},
         result : Database, message : Message]

\* Every variable has its type, and a request carries the key and the value its
\* handler reads (main.go's handlers, which take both from the request).
TypeOK ==
    /\ ui \in View
    /\ reqs \in Seq(Request)
    /\ \A i \in DOMAIN reqs :
          /\ reqs[i].kind \in {"get", "set", "del"} => reqs[i].key \in Key
          /\ reqs[i].kind = "set" => reqs[i].val \in Value
    /\ wrapper \in {"down", "init", "main", "serving", "closing"}
    /\ starts \in 0..MaxStarts
    /\ procs \in [1..MaxStarts -> {"none", "boot", "loading", "running", "dead"}]
    /\ port \in 0..MaxStarts
    /\ db \in Database /\ saved \in Database
    /\ unsaved \cup lost \cup postponed \subseteq DOMAIN reqs
    /\ ever \subseteq Key \X Value

\* getAllKeys is not a snapshot, but each key of its answer has a value it had
\* during the request, and a key that was there all the time is not missing,
\* unless the server was lost or the client closed during it (getAllKeys, KEYS
\* and then one GET per key).
AllKeysRegular ==
    \A i \in DOMAIN reqs :
        LET r == reqs[i]
        IN  r.st = "answered" /\ r.kind = "all" /\ r.status = 200 /\ ~r.disturbed
            => \A k \in Key : r.body[k] \in r.seen[k]

\* A 404 means that the key was missing at some moment of the request.  Only
\* getValueByKey also says so when Redis did not answer (deleteKeyByKey does
\* not).
NotFoundMeansAbsent ==
    \A i \in DOMAIN reqs :
        LET r == reqs[i]
        IN  r.st = "answered" /\ r.status = 404
            => None \in r.seen[r.key] \/ (r.kind = "get" /\ r.disturbed)

\* Whatever is typed, clicked or answered in whatever order, every pair the page
\* shows has been in the database (handleSetKeyValue shows the pair it sent,
\* not the fields' content at the time of the answer).
ShownWasStored == Pairs(ui.result) \subseteq ever

\* The message on the page goes with the result under it, although failures and
\* validation set only one of the two (App.tsx's handlers).
MessageDescribesResult ==
    /\ ui.message = "found" => ui.result # Nothing
    /\ ui.message \in {"empty", "notfound", "alldeleted"} => ui.result = Nothing

\* A write answered with 200 survives Close, which kills the server with
\* SIGKILL, and every other end of it, unless the server postponed the write of
\* its log because an fsync was still under way.
AckedSurvives ==
    \A i \in lost : reqs[i].st \in {"answered", "settled"} /\ reqs[i].status = 200
                    => i \in postponed

\* Two servers never work on the same log, whatever became of the ones that
\* earlier starts left behind (NewRedisServer, main's ignored r.Run error).
OneWriter ==
    Cardinality({g \in 1..MaxStarts : procs[g] \in {"loading", "running"}}) <= 1

=============================================================================
