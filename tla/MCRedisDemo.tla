---------------------------- MODULE MCRedisDemo ----------------------------
EXTENDS RedisDemo, TLC

\* At first the log holds nothing, or a value for every key.
MCInitSaved == {[k \in Key |-> None]} \cup {[k \in Key |-> v] : v \in Value}

MCSymmetry == Permutations(Key)

\* Once the last request is sent the form is no longer read.
MCView == <<[ui EXCEPT !.operation = IF Len(reqs) < MaxRequests THEN @ ELSE "none",
                       !.key = IF Len(reqs) < MaxRequests THEN @ ELSE None,
                       !.value = IF Len(reqs) < MaxRequests THEN @ ELSE None],
            reqs, server, data>>

AllOperations == {"insert", "queryAll", "queryByKey", "deleteAll", "deleteByKey"}

=============================================================================
