------------------------------ MODULE MCGuard ------------------------------
(* Two circuits of one and two hops over one guard, and one call alone     *)
(* with its retries.                                                       *)
EXTENDS Guard, FiniteSets

CONSTANTS t1, t2

MCBoth == {t1, t2}
MCSolo == {t2}
MCHops == [t \in Tasks |-> IF t = t1 THEN 1 ELSE 2]

(* Every attempt of every call gets an identifier: the bound never binds.  *)
ASSUME MaxCircuits >= Attempts * Cardinality(Tasks)

=============================================================================
