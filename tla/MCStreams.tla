------------------------------ MODULE MCStreams ------------------------------
(* Two connections of one member, so that it can reconnect while the end   *)
(* of the first is still being noticed, and one of another.                *)
EXTENDS Streams

CONSTANTS s1, s2, s3, m1, m2

MCMemberOf == [s \in Stream |-> IF s = s3 THEN m2 ELSE m1]
=============================================================================
