----------------------- MODULE MCAsyncCachedProperty -----------------------
(* Four readers of one property: one loads, one fails, one is cancelled    *)
(* and one still has to get the value.                                     *)
EXTENDS AsyncCachedProperty

CONSTANTS r1, r2, r3, r4

MCReaders == {r1, r2, r3, r4}

=============================================================================
