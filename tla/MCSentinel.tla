----------------------------- MODULE MCSentinel -----------------------------
EXTENDS Sentinel, TLC

CONSTANTS s1, s2, s3

LossyLinks == {<<s1, s2>>}
TiltLinks == {<<s1, s3>>}
NoLinks == {} \X Sentinel

\* A vote known of a past epoch counts no more, and nobody votes in an epoch that
\* is past for itself and in its configuration file: states that differ in such
\* votes only are one state to TLC.
MCView ==
    <<current_epoch, leader, leader_epoch, mon, reconf, conf, ask, cmd, redis, elected, spent,
      [s \in Sentinel |-> [o \in Sentinel |->
         IF peer[s][o].epoch < current_epoch[s] THEN peer[s][o].down ELSE peer[s][o]]],
      {v \in votes : v[2] >= current_epoch[v[1]] \/ v[2] >= conf[v[1]].current_epoch}>>

\* What the comment of sentinelGetLeader says of a leader.  Not an invariant: see
\* the README.
MajorityOfItsEpoch ==
    \A x \in elected : 2 * Cardinality({o \in Sentinel : <<o, x[2], x[1]>> \in votes}) > Cardinality(Sentinel)

MCSymmetry == Permutations(Sentinel \ Tilted)

=============================================================================
