----------------------------- MODULE MCConsensus -----------------------------
(* Three of four authorities must sign.  The keys change between the first *)
(* two consensuses; the third has two signatures and one of a stranger.    *)
EXTENDS Consensus

CONSTANTS t1, t2, a1, a2, a3, x

MCPublished ==
  <<[until |-> 1, gen |-> 1, voters |-> <<a1, a2, a3>>, routers |-> <<1, 2>>,
     signers |-> <<a1, a2, a3>>],
    [until |-> 2, gen |-> 2, voters |-> <<a1, a2, a3>>, routers |-> <<2>>,
     signers |-> <<a1, a2, a3>>],
    [until |-> 2, gen |-> 1, voters |-> <<a1, a2, x>>, routers |-> <<1>>,
     signers |-> <<a1, a2, x>>]>>

=============================================================================
