---------------------------- MODULE KeyAgreement ----------------------------
(***************************************************************************)
(* The handshakes of keyagreement.py, with symbols for the numbers: the    *)
(* name of a private key stands for its public key too, and {x, y} for the *)
(* secret that x and y share.  Two hashes are equal exactly when what was  *)
(* hashed is equal.                                                        *)
(***************************************************************************)
EXTENDS Naturals

Kinds == {"tap", "fast", "ntor"}

HandshakeLen(kind) == CASE kind = "tap"  -> 128
                        [] kind = "fast" -> 20
                        [] kind = "ntor" -> 20 + 32 + 32

(* The answers that the assertions of complete_handshake and of            *)
(* CellCreatedFast let through.                                            *)
ReplyLen(kind) == CASE kind = "tap"  -> 128 + 20
                    [] kind = "fast" -> 20 + 20
                    [] kind = "ntor" -> 32 + 32

(* Key material: kdf_tor makes four digests of 20 octets, HKDF what it is  *)
(* asked for; 72 octets are kept, and CryptoState takes two digests and    *)
(* two AES keys from them.                                                 *)
KdfLen(kind) == IF kind = "ntor" THEN 72 ELSE 4 * 20
StateLen     == 20 + 20 + 16 + 16

TapSecret(x, y)        == <<{x, y}>>
FastSecret(x, y)       == <<x, y>>
NtorSecret(x, y, node) == <<{x, y}, {x, node}, node, x, y>>

Secret(kind, x, y, node) ==
  CASE kind = "tap"  -> TapSecret(x, y)
    [] kind = "fast" -> FastSecret(x, y)
    [] kind = "ntor" -> NtorSecret(x, y, node)

(* What the node puts beside its public value: a hash of the secret and,   *)
(* for ntor, of the two public values, in the order of the node.           *)
Auth(kind, x, y, node) ==
  <<Secret(kind, x, y, node), IF kind = "ntor" THEN <<node, y, x>> ELSE <<>>>>

(* Fault: the authenticator is not compared.                               *)
CompletesAlways(kind, x, node, reply) == reply.len = ReplyLen(kind)

(* complete_handshake of the client that holds x: it raises, or gives the  *)
(* keys of Secret(kind, x, reply.y, node).                                 *)
Completes(kind, x, node, reply) ==
  /\ reply.len = ReplyLen(kind)
  /\ reply.auth = Auth(kind, x, reply.y, node)

=============================================================================
