-------------------------- MODULE MCMessageStore --------------------------
(* Two rooms, a cache of two messages, a limit of four bytes.  Odd       *)
(* messages are from s1, even ones from s2; query q1 matches messages 1,  *)
(* 2 and 4, q2 matches 3 and 5.                                           *)
EXTENDS MessageStore

CONSTANTS s1, s2, q1, q2

MCSenderOf(m) == IF m % 2 = 1 THEN s1 ELSE s2

MCContains(m, q) == IF q = q1 THEN m \in {1, 2, 4} ELSE m \in {3, 5}
=============================================================================
