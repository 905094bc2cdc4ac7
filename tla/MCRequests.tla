----------------------------- MODULE MCRequests -----------------------------
(* A BEGIN and an EXTEND2 share a circuit: answers of two kinds.           *)
EXTENDS Requests

CONSTANTS b1, x1

MCReqs  == {b1, x1}
MCWants == [r \in MCReqs |-> IF r = x1 THEN "extended2" ELSE "connected"]

=============================================================================
