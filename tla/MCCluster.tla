----------------------------- MODULE MCCluster -----------------------------
EXTENDS Cluster, TLC

CONSTANTS a, b, c, a1, a2

\* Masters a, b and, if it is there, c, with a slot each; a has the replicas
\* a1 and a2, or only a1.
MCId == [n \in Node |-> CASE n = a1 -> 1 [] n = a -> 2 [] n = a2 -> 3 [] n = b -> 4 [] OTHER -> 5]
MCInitSlaveof == [n \in Node |-> IF n \in {a1, a2} THEN a ELSE None]
MCSlots == {s \in 1..3 : s = 3 => c \in Node}
MCInitSlots == [s \in Slot |-> CASE s = 1 -> a [] s = 2 -> b [] OTHER -> c]
MCInitEpoch == [n \in Node |-> CASE n = a -> 1 [] n = b -> 2 [] n = c -> 3 [] OTHER -> 0]

\* Elections need the masters' gossip only: c hears of b's suspicions, and tells
\* everyone by FAIL messages.
NoLinks == {} \X Node
OneLink == {<<b, c>>}
AllLinks == {l \in Node \X Node : l[1] # l[2]}
SlowOwner == {<<a, b>>}

NoCommands == {} \X {"force"}
FailoverCommands == ({a, a1} \X {"force", "takeover"}) \cup {<<b, "bumpepoch">>}

=============================================================================
