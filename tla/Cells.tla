------------------------------- MODULE Cells -------------------------------
(***************************************************************************)
(* The formats of cells.py: which bytes a cell takes on the wire, what the *)
(* client packs into the cells it sends, and which payloads its readers    *)
(* take.  A payload is a record of its length, its first byte and the      *)
(* length field it begins with, if its format has one; what else it holds  *)
(* changes nothing here.  A reader that raises ends the connection, since  *)
(* it runs in the reader loop (protocol.py 126-128).                       *)
(***************************************************************************)
EXTENDS Naturals

PayloadMax == 509
RelayMax   == 498
Identities == 20      \* length of fingerprints, cookies and SHA-1 digests
Skin       == 84      \* length of an ntor onion skin

-----------------------------------------------------------------------------
(* Framing.                                                                *)

LinkCommands == {0, 1, 3, 4, 5, 6, 7, 8, 9, 10, 11, 129, 130}

VarLen(cmd) == cmd = 7 \/ cmd >= 128

(* Octets of a circuit id at a version of the link protocol.               *)
CircIdLen(version) == IF version < 4 THEN 2 ELSE 4

(* TorCell.serialize: circuit id, command, then a length and the payload,  *)
(* or 509 octets whatever the payload.                                     *)
FrameLen(cmd, len, version) ==
  CircIdLen(version) + 1 + IF VarLen(cmd) THEN 2 + len ELSE PayloadMax

(* What CellStreamReader.read_cell takes off the stream for a frame of     *)
(* that command whose length field is len.                                 *)
TakenLen(cmd, len, version) ==
  CircIdLen(version) + 1 + IF VarLen(cmd) THEN 2 + len ELSE PayloadMax

(* CircuitsList._get_next_circuit_id sets the top bit of 32, whatever the  *)
(* version; struct.pack refuses an id that is wider than its field.        *)
CircuitIdLen  == 4
Fits(version) == CircuitIdLen <= CircIdLen(version)

-----------------------------------------------------------------------------
(* Readers of the cells of a link.  Fixed-length payloads have 509 octets. *)

VersionsReads(p)    == p.len % 2 = 0
NetInfoReads(p)     == p.size = 4         \* inet_ntoa takes IPv4 only
DestroyReads(p)     == p.len >= 1 /\ p.byte \in 0..12
Created2Reads(p)    == p.len >= 2
CreatedFastReads(p) == p.len >= 2 * Identities

(* TorCommands.get_by_num and the reader of the class it finds; a class    *)
(* whose reader does not exist raises like a payload that does not parse.  *)
LinkReads(cmd, p) ==
  /\ cmd \in LinkCommands \ {1, 5, 9, 10}
  /\ cmd = 4 => DestroyReads(p)
  /\ cmd = 6 => CreatedFastReads(p)
  /\ cmd = 7 => VersionsReads(p)
  /\ cmd = 8 => NetInfoReads(p)
  /\ cmd = 11 => Created2Reads(p)

-----------------------------------------------------------------------------
(* Readers of relay cells.                                                 *)

RelayCommands == {1, 2, 3, 4, 5, 9, 13, 15, 33, 34, 37, 39, 40}

StreamReasons  == 1..14
CircuitReasons == 0..12
ExitPolicy     == 4

(* With EXITPOLICY the address and its TTL follow; only IPv4 parses.       *)
EndReads(p) ==
  /\ p.len >= 1 /\ p.byte \in StreamReasons
  /\ p.byte = ExitPolicy => p.len = 9

ConnectedReads(p) == p.len \in {0, 8}

SendMeReads(p) == p.len = 0 \/ p.len >= 3

TruncatedReads(p) == p.len >= 1 /\ p.byte \in CircuitReasons

(* RelayedTorCell.set_decrypted on the payload of a recognized cell.       *)
RelayReads(cmd, p) ==
  /\ cmd \in RelayCommands \ {1, 33, 34}
  /\ cmd = 3 => EndReads(p)
  /\ cmd = 4 => ConnectedReads(p)
  /\ cmd = 5 => SendMeReads(p)
  /\ cmd = 9 => TruncatedReads(p)
  /\ cmd = 15 => Created2Reads(p)

-----------------------------------------------------------------------------
(* What the client packs.                                                  *)

BeginLen(host)     == host + 5          \* host is the length of "address:port"
EndLen(reason)     == IF reason = ExitPolicy THEN 9 ELSE 1
ConnectedLen(addr) == IF addr THEN 8 ELSE 0
SendMeLen(digest)  == IF digest = 0 THEN 0 ELSE 3 + digest
Extend2Len(skin)   == 1 + (2 + 6) + (2 + Identities) + 4 + skin
Create2Len(skin)   == 4 + skin
EstablishLen       == Identities
NetInfoLen         == (4 + 2 + 4) + (1 + 2 + 4)

(* hybrid_encrypt: one RSA block, or one block of 70 octets and the rest   *)
(* as it is.                                                               *)
HybridLen(n) == IF n < 86 THEN 128 ELSE 128 + (n - 70)

(* The handshake of INTRODUCE1; auth is the length of the cookie or 0, key *)
(* that of the onion key of the rendezvous point.                          *)
IntroduceLen(auth, key) ==
  2 + (IF auth = 0 THEN 0 ELSE 2 + auth) + 4 + 6 + Identities + (2 + key) + Identities + 128

Introduce1Len(auth, key) == Identities + HybridLen(IntroduceLen(auth, key))

(* RelayedTorCell._serialize_payload raises for a payload that is longer.  *)
RelayFits(len) == len <= RelayMax

(* Fault: chunks as large as a cell.                                       *)
ChunksOfCell(n) == [i \in 1..((n + (PayloadMax - 1)) \div PayloadMax) |->
                      IF i * PayloadMax <= n THEN PayloadMax ELSE n % PayloadMax]

(* TorStream.send cuts what it is given into chunks.                       *)
Chunks(n) == [i \in 1..((n + (RelayMax - 1)) \div RelayMax) |->
                IF i * RelayMax <= n THEN RelayMax ELSE n % RelayMax]

-----------------------------------------------------------------------------
(* b64decode: the padding it adds, and the padding that a string of n      *)
(* characters needs; n % 4 = 1 is no base64 at all.                        *)
Added(n)  == n % 4
Needed(n) == (4 - (n % 4)) % 4

=============================================================================
