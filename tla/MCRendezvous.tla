---------------------------- MODULE MCRendezvous ----------------------------
(* Two services, introduction points in common, four directories.          *)
EXTENDS Rendezvous

CONSTANTS t1, t2, c1, c2, h1, h2, r1, r2

MCOneCircuit  == [t \in Tasks |-> c1]
MCTwoCircuits == [t \in Tasks |-> IF t = t1 THEN c1 ELSE c2]
MCOnion       == [t \in Tasks |-> IF t = t1 THEN h1 ELSE h2]
MCSame        == [t \in Tasks |-> h1]
MCIntros      == [o \in Onions |-> IF o = h1 THEN <<r1, r2>> ELSE <<r1>>]

(* Both descriptor ids inside the ring, and the first above every          *)
(* fingerprint.                                                            *)
At(p, q)     == [i \in {0, 1} |-> IF i = 0 THEN p ELSE q]
MCPositions  == {At(1, 3), At(4, 2)}
MCPosition   == {At(1, 3)}

=============================================================================
