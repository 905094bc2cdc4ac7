-------------------------------- MODULE Flow --------------------------------
(***************************************************************************)
(* Flow control of the DATA cells a circuit receives: TorWindow and        *)
(* TorStream._on_data (stream.py), TorCircuit._on_stream and               *)
(* _sendme_process (circuit.py).                                           *)
(*                                                                         *)
(* A DATA cell is counted twice: by the window of the node it comes from   *)
(* and by the window of its stream, if the circuit still knows the stream. *)
(* Each window grants its sender new credit with a SENDME cell.  SENDMEs   *)
(* are sent like every other relay cell, to the last node of the circuit,  *)
(* which is not the node the data came from once extend_to_hidden has      *)
(* appended the hidden service to a circuit that carries streams already.  *)
(*                                                                         *)
(* The relays are modelled by what the protocol has them do: a relay sends *)
(* DATA while it has credit on both levels.  Cells on the wire are counted *)
(* per node and per stream; the windows do not depend on their order.      *)
(***************************************************************************)
EXTENDS Naturals

CONSTANTS
  Streams,                    \* streams created on the circuit
  Nodes,                      \* hops the circuit may come to have, 1..Nodes
  CircuitStart, CircuitIncr,  \* 1000 and 100 in the code
  StreamStart, StreamIncr     \* 500 and 50 in the code

ASSUME FlowAssumption ==
  /\ Nodes \in Nat \ {0}
  /\ CircuitIncr \in Nat \ {0} /\ CircuitStart \in Nat /\ CircuitStart >= CircuitIncr
  /\ StreamIncr \in Nat \ {0} /\ StreamStart \in Nat /\ StreamStart >= StreamIncr

Hop == 1..Nodes

VARIABLES
  last,      \* index of TorCircuit.last_node
  at,        \* node each stream is attached to; 0: not created
  open,      \* keys of StreamsList._stream_map
  cdeliver,  \* CircuitNode.window._deliver
  sdeliver,  \* TorStream._window._deliver
  ccredit,   \* circuit-level credit each relay has left
  scredit,   \* stream-level credit the relay has left, per stream
  cdata,     \* DATA cells on the wire, per node they come from
  sdata,     \* the same cells, per stream they belong to
  csendme,   \* circuit-level SENDMEs on the wire, per node they go to
  ssendme,   \* stream-level SENDMEs on the wire
  strayed    \* history: a SENDME went to another node than the DATA came from

windows == <<cdeliver, sdeliver>>
credits == <<ccredit, scredit>>
wire    == <<cdata, sdata, csendme, ssendme>>
vars    == <<last, at, open, windows, credits, wire, strayed>>

TypeOK ==
  /\ last \in Hop
  /\ at \in [Streams -> Hop \cup {0}]
  /\ open \subseteq {s \in Streams : at[s] # 0}
  /\ cdeliver \in [Hop -> Nat] /\ sdeliver \in [Streams -> Nat]
  /\ ccredit \in [Hop -> Nat] /\ scredit \in [Streams -> Nat]
  /\ cdata \in [Hop -> Nat] /\ sdata \in [Streams -> Nat]
  /\ csendme \in [Hop -> Nat] /\ ssendme \in [Streams -> Nat]
  /\ strayed \in BOOLEAN

Init ==
  /\ last = 1
  /\ at = [s \in Streams |-> 0]
  /\ open = {}
  /\ cdeliver = [n \in Hop |-> CircuitStart]
  /\ sdeliver = [s \in Streams |-> StreamStart]
  /\ ccredit = [n \in Hop |-> CircuitStart]
  /\ scredit = [s \in Streams |-> StreamStart]
  /\ cdata = [n \in Hop |-> 0]
  /\ sdata = [s \in Streams |-> 0]
  /\ csendme = [n \in Hop |-> 0]
  /\ ssendme = [s \in Streams |-> 0]
  /\ strayed = FALSE

-----------------------------------------------------------------------------
(* TorWindow: deliver_dec followed by need_sendme.                         *)
Grants(deliver, start, incr) == deliver <= (start - incr) + 1

(* Fault: a SENDME does not refill the window it was sent for.             *)
AfterDataUnfilled(deliver, start, incr) == deliver - 1

AfterData(deliver, start, incr) ==
  IF Grants(deliver, start, incr) THEN (deliver - 1) + incr ELSE deliver - 1

(* _sendme_process for a DATA cell from node n.                            *)
CircuitGrants(n) == Grants(cdeliver[n], CircuitStart, CircuitIncr)

CountCircuit(n) ==
  /\ cdeliver' = [cdeliver EXCEPT ![n] = AfterData(@, CircuitStart, CircuitIncr)]
  /\ csendme' = IF CircuitGrants(n) THEN [csendme EXCEPT ![last] = @ + 1] ELSE csendme

(* TorStream._on_data.  A SENDME that reaches a node the stream does not   *)
(* end at grants nothing.                                                  *)
StreamGrants(s) == s \in open /\ Grants(sdeliver[s], StreamStart, StreamIncr)

(* Fault: the stream's deliver_dec is forgotten.                           *)
CountStreamNot(s) == UNCHANGED <<sdeliver, ssendme>>

CountStream(s) ==
  /\ sdeliver' = IF s \in open
                 THEN [sdeliver EXCEPT ![s] = AfterData(@, StreamStart, StreamIncr)]
                 ELSE sdeliver
  /\ ssendme' = IF StreamGrants(s) /\ at[s] = last
                THEN [ssendme EXCEPT ![s] = @ + 1] ELSE ssendme

(* Fault: the stream is looked up before the circuit counts the cell.      *)
OnStreamLookupFirst(s) ==
  /\ sdata[s] > 0 /\ cdata[at[s]] > 0
  /\ sdata' = [sdata EXCEPT ![s] = @ - 1]
  /\ cdata' = [cdata EXCEPT ![at[s]] = @ - 1]
  /\ IF s \in open THEN CountCircuit(at[s]) ELSE UNCHANGED <<cdeliver, csendme>>
  /\ CountStream(s)
  /\ strayed' = (strayed \/ (last # at[s] /\ (CircuitGrants(at[s]) \/ StreamGrants(s))))
  /\ UNCHANGED <<last, at, open, credits>>

(* The reader hands a DATA cell of stream s to _on_stream: the circuit     *)
(* counts it before it looks the stream up.                                *)
OnStream(s) ==
  /\ sdata[s] > 0 /\ cdata[at[s]] > 0      \* the one cell, in both counts
  /\ sdata' = [sdata EXCEPT ![s] = @ - 1]
  /\ cdata' = [cdata EXCEPT ![at[s]] = @ - 1]
  /\ CountCircuit(at[s])
  /\ CountStream(s)
  /\ strayed' = (strayed \/ (last # at[s] /\ (CircuitGrants(at[s]) \/ StreamGrants(s))))
  /\ UNCHANGED <<last, at, open, credits>>

(* A stream is created and the last node answers its BEGIN.                *)
CreateStream(s) ==
  /\ at[s] = 0
  /\ at' = [at EXCEPT ![s] = last]
  /\ open' = open \cup {s}
  /\ UNCHANGED <<last, windows, credits, wire, strayed>>

(* TorStream.close takes the stream out of the map; its data still comes.  *)
RemoveStream(s) ==
  /\ s \in open
  /\ open' = open \ {s}
  /\ UNCHANGED <<last, at, windows, credits, wire, strayed>>

(* extend_to_hidden appends a node; streams stay where they are.           *)
ExtendToHidden ==
  /\ last < Nodes
  /\ last' = last + 1
  /\ UNCHANGED <<at, open, windows, credits, wire, strayed>>

-----------------------------------------------------------------------------
(* The relays.                                                             *)
RelaySends(s) ==
  /\ at[s] # 0
  /\ ccredit[at[s]] > 0 /\ scredit[s] > 0
  /\ ccredit' = [ccredit EXCEPT ![at[s]] = @ - 1]
  /\ scredit' = [scredit EXCEPT ![s] = @ - 1]
  /\ cdata' = [cdata EXCEPT ![at[s]] = @ + 1]
  /\ sdata' = [sdata EXCEPT ![s] = @ + 1]
  /\ UNCHANGED <<last, at, open, windows, csendme, ssendme, strayed>>

RelayGetsCircuitSendme(n) ==
  /\ csendme[n] > 0
  /\ csendme' = [csendme EXCEPT ![n] = @ - 1]
  /\ ccredit' = [ccredit EXCEPT ![n] = @ + CircuitIncr]
  /\ UNCHANGED <<last, at, open, windows, scredit, cdata, sdata, ssendme, strayed>>

RelayGetsStreamSendme(s) ==
  /\ ssendme[s] > 0
  /\ ssendme' = [ssendme EXCEPT ![s] = @ - 1]
  /\ scredit' = [scredit EXCEPT ![s] = @ + StreamIncr]
  /\ UNCHANGED <<last, at, open, windows, ccredit, cdata, sdata, csendme, strayed>>

Next ==
  \/ \E s \in Streams :
       OnStream(s) \/ CreateStream(s) \/ RemoveStream(s) \/ RelaySends(s)
       \/ RelayGetsStreamSendme(s)
  \/ \E n \in Hop : RelayGetsCircuitSendme(n)
  \/ ExtendToHidden

Spec == Init /\ [][Next]_vars

-----------------------------------------------------------------------------
(* No credit is lost or made up on the circuit level: what the client has  *)
(* left to receive is what the relay has left to send, what is on its way, *)
(* and what has been granted; data of closed streams included              *)
(* (circuit.py 483-505).                                                   *)
CircuitConserved ==
  ~strayed => \A n \in Hop : cdeliver[n] = ccredit[n] + cdata[n] + CircuitIncr * csendme[n]

(* The same for a stream as long as the circuit knows it (stream.py        *)
(* 154-160).                                                               *)
StreamConserved ==
  ~strayed => \A s \in open : sdeliver[s] = scredit[s] + sdata[s] + StreamIncr * ssendme[s]

(* Client and relay agree on what may still be sent, on both levels: no    *)
(* stream that closes and no node that is added costs or makes credit      *)
(* (circuit.py 483-505, stream.py 154-160).                                *)
CreditConserved == CircuitConserved /\ StreamConserved

(* A window is refilled by exactly one increment, in time and never past   *)
(* where it started, on every interleaving and wherever SENDMEs go.        *)
WindowsInRange ==
  /\ \A n \in Hop : cdeliver[n] > CircuitStart - CircuitIncr /\ cdeliver[n] <= CircuitStart
  /\ \A s \in Streams : sdeliver[s] > StreamStart - StreamIncr /\ sdeliver[s] <= StreamStart

(* No transfer stalls: when all cells and SENDMEs of a stream and its node *)
(* have arrived, the relay may send on, whatever other streams were closed *)
(* with data on its way.                                                   *)
NeverStarved ==
  ~strayed =>
    \A s \in open :
      /\ cdata[at[s]] = 0 /\ csendme[at[s]] = 0
      /\ sdata[s] = 0 /\ ssendme[s] = 0
      => ccredit[at[s]] > 0 /\ scredit[s] > 0

(* A relay is never granted more than its window holds, which relays take  *)
(* for a violation of the protocol; the SENDMEs that go astray excepted.   *)
CreditBounded ==
  ~strayed =>
    /\ \A n \in Hop : ccredit[n] + CircuitIncr * csendme[n] <= CircuitStart
    /\ \A s \in open : scredit[s] + StreamIncr * ssendme[s] <= StreamStart

=============================================================================
