---------------------------- MODULE MCReplication ----------------------------
(* Instances of Replication for TLC.                                       *)
EXTENDS Replication

CONSTANTS A, B, C

(* A is a master with one replica, which has one of its own.               *)
Chain == [n \in Node |-> CASE n = A -> None [] n = B -> A [] n = C -> B]

(* The chain once every node has synchronised with the one before it.      *)
Attached(r) == [x \in {r} |-> NewSlave("online", 1)]

SyncedNode(n) ==
    [Fresh(n, Chain[n], 2) EXCEPT
        !.replid = <<A, 2>>, !.repl_backlog = <<>>,
        !.repl_state = IF n = A THEN "none" ELSE "connected",
        !.master = IF n = A THEN None ELSE [replid |-> <<A, 2>>, reploff |-> 0],
        !.slaves = CASE n = A -> Attached(B) [] n = B -> Attached(C) [] n = C -> NoSlaves]

SyncedInit ==
    /\ srv = [n \in Node |-> SyncedNode(n)]
    /\ chan = [n \in Node |-> <<>>]
    /\ psync = {}
    /\ writes = 0 /\ commands = 0 /\ faults = 0

SyncedSpec == SyncedInit /\ [][Next]_vars

(* Acknowledgements change nothing until a failover or a diskless          *)
(* synchronisation waits for them.                                         *)
AckWhenAwaited ==
    \A m \in Node : \A r \in Replicas(srv[m]) :
        \/ srv[m].failover.state = "wait_for_sync" \/ srv[m].slaves[r].start_on_ack
        \/ ~ReplconfAck(m, r)

(* Two writes, or one and a fault.                                         *)
Budget == writes + faults <= 2
=============================================================================
