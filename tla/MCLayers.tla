------------------------------ MODULE MCLayers ------------------------------
(* Three hops: DATA, an END that parses and one with an IPv6 address.        *)
EXTENDS Layers

MCReplies == {[cmd |-> 2, p |-> [len |-> 1, byte |-> 0, size |-> 0]],
              [cmd |-> 3, p |-> [len |-> 9, byte |-> ExitPolicy, size |-> 0]],
              [cmd |-> 3, p |-> [len |-> 21, byte |-> ExitPolicy, size |-> 0]]}

MCLengths == {RelayMax, RelayMax + 1}

=============================================================================
