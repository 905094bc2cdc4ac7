------------------------------- MODULE MCLink -------------------------------
(* Relays of several ages; two connections, so that all attempts or a      *)
(* connector's second call take place.                                     *)
EXTENDS Link

MCOffers == {{1, 2}, {3}, {3, 4, 5}}

=============================================================================
