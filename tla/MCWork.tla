------------------------------- MODULE MCWork -------------------------------
(* Safety of what takes work, and of the redis Locker. They share no       *)
(* state: a behaviour is one of idempotent calls, of a pool, of a group of *)
(* pools, of kafka consumers, or of redis locks. One key and three calls   *)
(* of Do, the last with another fingerprint, so that a replay, a wait on a *)
(* claim and a mismatch are all possible. Two workers and three messages:  *)
(* one message can wait in submit, or come late, while both workers are    *)
(* busy. Two attempts: a first and a last. Three pools in the group: a     *)
(* build can fail with none, some or almost all of them up. Two readers    *)
(* and three messages of a partition. Two Acquires of one redis key, with  *)
(* ttls of 0.5, 1.5 and 2 milliseconds: one that is cut to nothing, one    *)
(* that is cut, and one that can be refreshed half way.                    *)
EXTENDS Idempotency, JobsPool, PoolGroup, KafkaConsumer, RedisLocker, TLC

CONSTANTS c1, c2, c3, f1, f2

MCFp == [c \in Client |-> IF c = c3 THEN f2 ELSE f1]

VARIABLE part

Init ==
    /\ part \in {"do", "pool", "group", "kafka", "redis"}
    /\ IdemInit /\ (part = "do" \/ rec = NoRecord)
    /\ PoolInit /\ GroupInit /\ KafkaInit /\ RedisInit
Next ==
    /\ UNCHANGED part
    /\ \/ part = "do" /\ IdemNext /\ UNCHANGED <<poolVars, groupVars, kafkaVars, redisVars>>
       \/ part = "pool" /\ PoolNext /\ UNCHANGED <<idemVars, groupVars, kafkaVars, redisVars>>
       \/ part = "group" /\ GroupNext /\ UNCHANGED <<idemVars, poolVars, kafkaVars, redisVars>>
       \/ part = "kafka" /\ KafkaNext /\ UNCHANGED <<idemVars, poolVars, groupVars, redisVars>>
       \/ part = "redis" /\ RedisNext /\ UNCHANGED <<idemVars, poolVars, groupVars, kafkaVars>>

Spec == Init /\ [][Next]_<<part, idemVars, poolVars, groupVars, kafkaVars, redisVars>>

\* The calls that share a fingerprint are interchangeable.
Alike == Permutations({c1, c2})
=============================================================================
