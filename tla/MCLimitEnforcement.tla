------------------------- MODULE MCLimitEnforcement -------------------------
(* A small instance of LimitEnforcement for TLC: two servers, a client with  *)
(* an expiry on one and a client with a traffic limit on the other.          *)
EXTENDS LimitEnforcement

CONSTANTS c1, c2, s1, s2

MCServerOf == [c \in Client |-> IF c = c1 THEN s1 ELSE s2]
=============================================================================
