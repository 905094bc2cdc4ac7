------------------------------ MODULE MCStream ------------------------------
(* One stream with a few DATA cells: enough for cells before the           *)
(* transport, between transport and END, and on the wire while it closes.  *)
EXTENDS Stream
=============================================================================
