------------------------------- MODULE Layers -------------------------------
(***************************************************************************)
(* The layers of encryption of one circuit (crypto_state.py, circuit.py    *)
(* _encrypt, _decrypt, extend) between the client and the relays of its    *)
(* path.  For every hop and direction each side keeps a stream cipher and  *)
(* a running digest; both only make sense while the two sides have fed     *)
(* them the same cells, so they are counted.  Cells travel in order; a     *)
(* relay that handles one is one step, which the order makes sound.        *)
(***************************************************************************)
EXTENDS Naturals, Sequences, Cells, KeyAgreement

CONSTANTS
  Hops,      \* longest path
  Lengths,   \* payloads the client is asked to send
  Replies,   \* [cmd, p]: cells a relay sends
  MaxSkins,  \* bound: onion skins
  MaxSent,   \* bound: cells the client sends besides
  MaxBack    \* bound: cells a relay sends besides

ASSUME LayersAssumption ==
  /\ Hops \in Nat \ {0}
  /\ Lengths \subseteq Nat
  /\ MaxSkins \in Nat /\ MaxSent \in Nat /\ MaxBack \in Nat

Layer == 1..Hops

VARIABLES
  first,              \* key agreement of the first node; never changes
  n,                  \* nodes in TorCircuit._circuit_nodes
  ckey, rkey,         \* keys of each hop at the client, at its relay: whose skin, whose answer
  cf, cd, cb, ce,     \* client: forward cipher and digest, backward ones
  rf, rd, rb, re,     \* the relays' counterparts
  out, in,            \* cells on their way
  skins,              \* onion skins made so far
  waiting,            \* the skin whose answer a task waits for, 0 for none
  reply,              \* the answer that task was given and has not seen yet
  cut,                \* relays behind this one are gone
  sent, back,         \* counts against the bounds
  fault               \* what ended the connection

client == <<cf, cd, cb, ce>>
relays == <<rf, rd, rb, re>>
task   == <<skins, waiting, reply>>
vars   == <<first, n, ckey, rkey, client, relays, out, in, task, cut, sent, back, fault>>

NoReply == [len |-> 0, y |-> 0, auth |-> <<>>]

Kind(hop) == IF hop = 1 THEN first ELSE "ntor"

(* A guard without a consensus makes circuits of one node with CREATE_FAST; *)
(* it knows no router to extend them to.                                   *)
Longest == IF first = "fast" THEN 1 ELSE Hops

(* The command of the answer for the node after d: CREATED_FAST, CREATED2  *)
(* or RELAY_EXTENDED2.                                                     *)
Expected(d) == CASE d > 0 -> 15
                 [] d = 0 /\ first = "fast" -> 6
                 [] d = 0 /\ first = "ntor" -> 11

(* Relay cells of __handlers_relay__, which Stream, Flow and Rendezvous    *)
(* model; the others are taken for answers.                                *)
Handled == {2, 3, 5, 37}

Keys  == [x : 0..MaxSkins, y : 0..MaxSkins]
NoKey == [x |-> 0, y |-> 0]

TypeOK ==
  /\ first \in {"fast", "ntor"}
  /\ n \in 0..Longest
  /\ ckey \in [Layer -> Keys] /\ rkey \in [Layer -> Keys]
  /\ \A f \in {cf, cd, cb, ce, rf, rd, rb, re} : f \in [Layer -> Nat]
  /\ \A k \in 1..Len(out) :
       /\ out[k].depth \in 0..n
       /\ out[k].ctr \in [Layer -> Nat] /\ out[k].dig \in [Layer -> Nat]
  /\ \A k \in 1..Len(in) :
       /\ in[k].origin \in 0..Hops
       /\ in[k].ctr \in [Layer -> Nat] /\ in[k].dig \in [Layer -> Nat]
  /\ skins \in 0..MaxSkins /\ waiting \in 0..skins
  /\ waiting # 0 => n < Longest
  /\ cut \in Layer
  /\ fault \in {"none", "unread", "unrecognized", "garbled"}

Zero == [i \in Layer |-> 0]

Init ==
  /\ first \in {"fast", "ntor"}
  /\ n = 0
  /\ ckey = [i \in Layer |-> NoKey] /\ rkey = [i \in Layer |-> NoKey]
  /\ cf = Zero /\ cd = Zero /\ cb = Zero /\ ce = Zero
  /\ rf = Zero /\ rd = Zero /\ rb = Zero /\ re = Zero
  /\ out = <<>> /\ in = <<>>
  /\ skins = 0 /\ waiting = 0 /\ reply = NoReply
  /\ cut = Hops
  /\ sent = 0 /\ back = 0
  /\ fault = "none"

-----------------------------------------------------------------------------
(* A cell passes the ciphers of the hops up to d, and the digest of d.     *)
Through(f, d) == [i \in Layer |-> IF i <= d THEN f[i] + 1 ELSE f[i]]
At(f, d)      == [i \in Layer |-> IF i = d THEN f[i] + 1 ELSE f[i]]

(* Fault: the digest is updated before the length is checked.              *)
EncryptDigestFirst(len, skin) ==
  /\ cd' = At(cd, n)
  /\ IF RelayFits(len)
       THEN /\ out' = Append(out, [depth |-> n, ctr |-> cf, dig |-> cd, skin |-> skin])
            /\ cf' = Through(cf, n)
       ELSE UNCHANGED <<out, cf>>

(* send_relay: prepare() packs the payload, which raises when it is too    *)
(* long, before the digest and the ciphers of the nodes, last to first,    *)
(* take it in.                                                             *)
Encrypt(len, skin) ==
  IF RelayFits(len)
    THEN /\ out' = Append(out, [depth |-> n, ctr |-> cf, dig |-> cd, skin |-> skin])
         /\ cf' = Through(cf, n)
         /\ cd' = At(cd, n)
    ELSE UNCHANGED <<out, cf, cd>>

CreateLen == IF first = "fast" THEN HandshakeLen("fast") ELSE Create2Len(Skin)

(* create and extend up to the wait: CREATE2 goes to the guard as it is,   *)
(* EXTEND2 to the last node.                                               *)
SendSkin ==
  /\ fault = "none" /\ waiting = 0 /\ n < Longest /\ skins < MaxSkins
  /\ skins' = skins + 1
  /\ waiting' = skins + 1
  /\ Encrypt(IF n = 0 THEN CreateLen ELSE Extend2Len(Skin), skins + 1)
  /\ UNCHANGED <<first, n, ckey, rkey, cb, ce, relays, in, reply, cut, sent, back, fault>>

(* Any other relay cell.                                                   *)
SendRelay(len) ==
  /\ fault = "none" /\ n > 0 /\ sent < MaxSent
  /\ sent' = sent + 1
  /\ Encrypt(len, 0)
  /\ UNCHANGED <<first, n, ckey, rkey, cb, ce, relays, in, task, cut, back, fault>>

(* The task that waits sees its answer: complete_handshake, then the node  *)
(* is appended; or KeyAgreementError, and the circuit stays as it was.     *)
Complete ==
  /\ waiting # 0 /\ reply # NoReply
  /\ IF Completes(Kind(n + 1), waiting, n + 1, reply)
       THEN n' = n + 1 /\ ckey' = [ckey EXCEPT ![n + 1] = [x |-> waiting, y |-> reply.y]]
       ELSE UNCHANGED <<n, ckey>>
  /\ waiting' = 0
  /\ reply' = NoReply
  /\ UNCHANGED <<first, rkey, client, relays, out, in, skins, cut, sent, back, fault>>

(* No answer for thirty seconds, or one of another kind.                   *)
GiveUp ==
  /\ waiting # 0 /\ reply = NoReply
  /\ waiting' = 0
  /\ UNCHANGED <<first, n, ckey, rkey, client, relays, out, in, skins, reply, cut, sent, back, fault>>

-----------------------------------------------------------------------------
(* _decrypt: the nodes take a layer off each until one recognizes it.      *)
Recognized(c) ==
  /\ c.origin <= n
  /\ \A i \in 1..c.origin : c.ctr[i] = cb[i] /\ rkey[i] = ckey[i]
  /\ c.dig[c.origin] = ce[c.origin]

(* Fault: every node decrypts, also after the cell has been recognized.    *)
DecryptAll(c) == cb' = Through(cb, n)

Decrypt(c) == cb' = Through(cb, IF Recognized(c) THEN c.origin ELSE n)

(* What the FIFO of futures makes of an answer: only the task that waits.  *)
Answer(c) ==
  IF waiting # 0 /\ reply = NoReply /\ c.cmd \notin Handled
    THEN IF c.cmd = Expected(n)
           THEN reply' = c.reply /\ UNCHANGED waiting
           ELSE waiting' = 0 /\ UNCHANGED reply
    ELSE UNCHANGED <<waiting, reply>>

(* The reader loop on one cell: handle_cell for CREATED2, handle_relay for *)
(* the others; whatever raises there closes the connection.                *)
ReadCell ==
  /\ fault = "none" /\ in # <<>>
  /\ in' = Tail(in)
  /\ LET c == Head(in) IN
       IF c.origin = 0
         THEN Answer(c) /\ UNCHANGED <<cb, ce, fault>>
         ELSE /\ Decrypt(c)
              /\ ce' = IF Recognized(c) THEN At(ce, c.origin) ELSE ce
              /\ IF Recognized(c) /\ RelayReads(c.cmd, c.p)
                   THEN Answer(c) /\ UNCHANGED fault
                   ELSE /\ fault' = IF Recognized(c) THEN "unread" ELSE "unrecognized"
                        /\ UNCHANGED <<waiting, reply>>
  /\ UNCHANGED <<first, n, ckey, rkey, cf, cd, relays, out, skins, cut, sent, back>>

-----------------------------------------------------------------------------
(* The relays.                                                             *)
Emit(origin, cmd, p, answer) ==
  /\ in' = Append(in, [origin |-> origin, ctr |-> rb, dig |-> re,
                       cmd |-> cmd, p |-> p, reply |-> answer])
  /\ rb' = Through(rb, origin)
  /\ re' = At(re, origin)

Reached(c) == IF c.depth <= cut THEN c.depth ELSE cut

(* A cell reaches the hop it is for, unless the path was cut before it.    *)
Takes(c) ==
  /\ rf' = Through(rf, Reached(c))
  /\ rd' = IF c.depth <= cut THEN At(rd, c.depth) ELSE rd
  /\ fault' = IF \A i \in 1..Reached(c) :
                    /\ c.ctr[i] = rf[i] /\ rkey[i] = ckey[i]
                    /\ i = c.depth => c.dig[i] = rd[i]
                THEN fault ELSE "garbled"

(* The hop extends the path and answers for the new node, well or badly    *)
(* formed; it does so once.                                                *)
RelayExtends ==
  /\ fault = "none" /\ out # <<>>
  /\ LET c   == Head(out)
         hop == c.depth + 1
     IN /\ c.skin # 0 /\ hop <= cut /\ rkey[hop] = NoKey
        /\ Takes(c)
        /\ rkey' = [rkey EXCEPT ![hop] = [x |-> c.skin, y |-> c.skin]]
        /\ \E len \in {ReplyLen(Kind(hop)), 1} :
             Emit(c.depth, Expected(c.depth), [len |-> 2 + len, byte |-> 0, size |-> len],
                  [len |-> len, y |-> c.skin, auth |-> Auth(Kind(hop), c.skin, c.skin, hop)])
  /\ out' = Tail(out)
  /\ UNCHANGED <<first, n, ckey, client, task, cut, sent, back>>

(* Every other cell changes nothing but the layers, nor does a skin that   *)
(* is not answered.                                                        *)
RelayTakes ==
  /\ fault = "none" /\ out # <<>>
  /\ Takes(Head(out))
  /\ out' = Tail(out)
  /\ UNCHANGED <<first, n, ckey, rkey, client, rb, re, in, task, cut, sent, back>>

(* A relay sends to a client that has spoken to it.                        *)
RelaySends(i, r) ==
  /\ fault = "none" /\ i <= cut /\ rd[i] > 0 /\ back < MaxBack
  /\ back' = back + 1
  /\ Emit(i, r.cmd, r.p, NoReply)
  /\ UNCHANGED <<first, n, ckey, rkey, client, rf, rd, out, task, cut, sent, fault>>

(* A relay loses the next one and says so with RELAY_TRUNCATED, which the  *)
(* client takes for an answer or drops: its nodes stay as they are.        *)
RelayTruncates(i) ==
  /\ fault = "none" /\ i < cut /\ rkey[i + 1] # NoKey
  /\ back < MaxBack /\ rd[i] > 0
  /\ back' = back + 1
  /\ cut' = i
  /\ Emit(i, 9, [len |-> 1, byte |-> 8, size |-> 0], NoReply)
  /\ UNCHANGED <<first, n, ckey, rkey, client, rf, rd, out, task, sent, fault>>

Next ==
  \/ SendSkin \/ Complete \/ GiveUp \/ ReadCell
  \/ \E len \in Lengths : SendRelay(len)
  \/ RelayExtends \/ RelayTakes
  \/ \E i \in Layer : RelayTruncates(i) \/ \E r \in Replies : RelaySends(i, r)

Spec == Init /\ [][Next]_vars

-----------------------------------------------------------------------------
(* The two ends of every layer have been fed the same cells once nothing   *)
(* is on its way, in spite of cells that could not be packed, nodes that   *)
(* came later, and answers nobody waited for (crypto_state.py 55-104).     *)
InStep ==
  fault = "none" =>
    /\ out = <<>> => \A i \in 1..cut : cf[i] = rf[i] /\ cd[i] = rd[i]
    /\ in = <<>> => cb = rb /\ ce = re

(* Every relay cell is recognized, by the hop it is for and by the node    *)
(* that sent it: the reader loop never falls over a cell nobody recognizes *)
(* (circuit.py 286-301, cells.py 232-234).                                 *)
AllRecognized == fault \notin {"unrecognized", "garbled"}

(* The client and the relay of every node hold the same keys, also when an *)
(* answer to a skin that had been given up came first (keyagreement.py     *)
(* 128-140, 154-162, 236-299).                                             *)
KeysAgree == \A i \in 1..n : ckey[i] = rkey[i]

-----------------------------------------------------------------------------
(* Every cell the client builds fits: handshakes, introductions with and   *)
(* without a cookie, streams to any host name of up to 255 octets, and the *)
(* chunks of any text, which add up to it (cells.py 250-270, stream.py     *)
(* 134-137, keyagreement.py 45-60).  What it can write and read it reads   *)
(* back, also the formats with optional parts (cells.py 556-575, 603-619,  *)
(* 636-653), and base64 without its padding is given enough of it.         *)
ClientCellsFit ==
  /\ \A auth \in {0, 16}, key \in {128, 140} : RelayFits(Introduce1Len(auth, key))
  /\ HandshakeLen("ntor") = Skin /\ RelayFits(Extend2Len(Skin))
  /\ RelayFits(EstablishLen) /\ \A host \in 1..255 : RelayFits(BeginLen(host + 6))
  /\ \A len \in {Create2Len(Skin), HandshakeLen("fast"), NetInfoLen} : len <= PayloadMax
  /\ \A kind \in Kinds : KdfLen(kind) >= StateLen
  /\ \A full \in 0..2, more \in {1, RelayMax - 1, RelayMax} :
       LET text == full * RelayMax + more
           c    == Chunks(text)
       IN
         /\ \A k \in 1..Len(c) : c[k] > 0 /\ RelayFits(c[k])
         /\ (Len(c) - 1) * RelayMax + c[Len(c)] = text
  /\ \A r \in StreamReasons : RelayReads(3, [len |-> EndLen(r), byte |-> r, size |-> 0])
  /\ \A a \in BOOLEAN : RelayReads(4, [len |-> ConnectedLen(a), byte |-> 1, size |-> 0])
  /\ \A d \in {0, 20} : RelayReads(5, [len |-> SendMeLen(d), byte |-> 1, size |-> d])
  /\ LinkReads(8, [len |-> NetInfoLen, byte |-> 0, size |-> 4])
  /\ LinkReads(7, [len |-> 2 * 2, byte |-> 0, size |-> 0])
  /\ \A r \in CircuitReasons : LinkReads(4, [len |-> 1, byte |-> r, size |-> 0])
  /\ \A k \in 0..44 : k % 4 # 1 => Added(k) >= Needed(k)

=============================================================================
