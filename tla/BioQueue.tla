------------------------------ MODULE BioQueue ------------------------------
(***************************************************************************)
(* What bio.c promises to the main thread: a worker executes the jobs it   *)
(* is given one at a time and in order, a job leaves the queue only after  *)
(* it has been executed, bioDrainWorker returns on an empty queue, and the *)
(* callback of a completion request runs once, on the main thread, after   *)
(* every job that was queued before the request.                           *)
(***************************************************************************)
EXTENDS Integers, Sequences

CONSTANTS Worker, MaxJobs

VARIABLES
  queue,      \* per worker: the jobs not yet removed, the head in service
  served,     \* per worker: is the head already executed?
  next,       \* the number of the next job
  due,        \* completion requests executed, whose callback is still due
  notified,   \* the callbacks that have run, in order
  draining    \* the workers bioDrainWorker is waiting for

vars == <<queue, served, next, due, notified, draining>>

Kind == {"work", "comp"}
Job  == [id : Nat, kind : Kind, worker : Worker]

Init ==
  /\ queue = [w \in Worker |-> <<>>] /\ served = [w \in Worker |-> "no"]
  /\ next = 1 /\ due = {} /\ notified = <<>> /\ draining = {}

Submit(w, k) ==
  /\ next <= MaxJobs /\ draining = {}
  /\ queue' = [queue EXCEPT ![w] = Append(@, [id |-> next, kind |-> k, worker |-> w])]
  /\ next' = next + 1
  /\ UNCHANGED <<served, due, notified, draining>>

Execute(w) ==
  /\ queue[w] # <<>> /\ served[w] = "no"
  /\ served' = [served EXCEPT ![w] = "yes"]
  /\ due' = IF Head(queue[w]).kind = "comp" THEN due \cup {Head(queue[w])} ELSE due
  /\ UNCHANGED <<queue, next, notified, draining>>

Remove(w) ==
  /\ queue[w] # <<>> /\ served[w] = "yes"
  /\ queue' = [queue EXCEPT ![w] = Tail(@)]
  /\ served' = [served EXCEPT ![w] = "no"]
  /\ UNCHANGED <<next, due, notified, draining>>

Notify(j) ==
  /\ j \in due /\ draining = {}
  /\ due' = due \ {j} /\ notified' = Append(notified, j)
  /\ UNCHANGED <<queue, served, next, draining>>

DrainBegins(w) ==
  /\ draining = {}
  /\ draining' = {w}
  /\ UNCHANGED <<queue, served, next, due, notified>>

DrainReturns(w) ==
  /\ draining = {w} /\ queue[w] = <<>>
  /\ draining' = {}
  /\ UNCHANGED <<queue, served, next, due, notified>>

Next == \E w \in Worker :
  \/ \E k \in Kind : Submit(w, k)
  \/ Execute(w) \/ Remove(w) \/ DrainBegins(w) \/ DrainReturns(w)
  \/ \E j \in due : Notify(j)

Spec == Init /\ [][Next]_vars

=============================================================================
