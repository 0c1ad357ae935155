---------------------------- MODULE MCRedisRooms ----------------------------
(* RedisRooms for TLC: two sockets on one pod and one on another. *)
EXTENDS RedisRooms, TLC

CONSTANTS s1, s2, s3, p1, p2
TwoPods == [s \in Socket |-> IF s = s3 THEN p2 ELSE p1]

Symmetry == Permutations({s1, s2})
=============================================================================
