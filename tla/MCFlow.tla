------------------------------- MODULE MCFlow -------------------------------
(* Two streams share a window of four cells on a circuit that may grow.    *)
EXTENDS Flow, TLC

CONSTANTS s1, s2

MCStreams  == {s1, s2}
MCSymmetry == Permutations(MCStreams)

=============================================================================
