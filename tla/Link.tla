-------------------------------- MODULE Link --------------------------------
(***************************************************************************)
(* From get_guard to a guard that is held and let go: client.py, guard.py  *)
(* guard_connect, protocol.py _negotiate, _reader_loop and _force_close,   *)
(* http/aiohttp.py TorConnector.  Connections are numbered in the order    *)
(* they are made.  A step of a task is what it does between two awaits;    *)
(* a connection goes on negotiating whatever becomes of the call that      *)
(* asked for it.                                                           *)
(***************************************************************************)
EXTENDS Integers, Sequences, FiniteSets, FiniteSetsExt, Cells

CONSTANTS
  Offers,               \* sets of versions a relay may offer
  Attempts,             \* the argument of @retry, 3 in the code
  MaxConns,             \* bound: connections
  MaxCells,             \* bound: cells of a relay after the negotiation
  CancelledIsException  \* whether Exception includes CancelledError: Python 3.7

ASSUME LinkAssumption ==
  /\ Offers \subseteq (SUBSET Nat \ {{}})
  /\ \A o \in Offers : \E most \in o : \A v \in o : v <= most
  /\ Attempts \in Nat \ {0} /\ MaxConns \in Nat \ {0} /\ MaxCells \in Nat
  /\ CancelledIsException \in BOOLEAN

Conns   == 1..MaxConns
Nothing == 0

VARIABLES
  kind,     \* whose call it is: TorClient.create_circuit or TorConnector
  pc,       \* where that task is
  left,     \* attempts it has left
  cur,      \* the connection it is at
  guard,    \* TorConnector._guard
  lost,     \* connections it lost sight of: cancelled too late, overwritten
  made,     \* connections made so far
  phase,    \* of each connection: what _negotiate reads next, or its end
  waiter,   \* OrProtocol._waiter
  sock,     \* the transport
  reader,   \* CellStreamReader._version
  sender,   \* OrProtocol._version
  offer,    \* what its relay offers
  peer,     \* what its relay has sent: the four cells of the negotiation, more
  wire      \* cells on their way to the client, and how they are framed

task  == <<kind, pc, left, cur, guard, lost, made>>
ends  == <<waiter, sock>>
vers  == <<reader, sender>>
relay == <<offer, peer>>
vars  == <<task, phase, ends, vers, relay, wire>>

Supported == {3, 4}           \* CellStreamReader.SUPPORTED_VERSION
Default   == 3                \* CellStreamReader.DEFAULT_VERSION

Negotiating == {"versions", "certs", "challenge", "netinfo"}
Established == {"loop", "ended"}
Calling     == {"dial", "wait"}
Over        == {"raised", "released"}

Cells4 == <<7, 129, 130, 8>>  \* VERSIONS, CERTS, AUTH_CHALLENGE, NETINFO

TypeOK ==
  /\ kind \in {"client", "connector"}
  /\ pc \in {"idle", "held"} \cup Calling \cup Over
  /\ left \in 0..Attempts
  /\ cur \in 0..made /\ guard \in 0..made /\ made \in 0..MaxConns
  /\ pc \in {"wait", "held"} => cur # Nothing
  /\ lost \subseteq 1..made
  /\ phase \in [Conns -> {"unused", "failed"} \cup Negotiating \cup Established]
  /\ waiter \in [Conns -> {"pending", "set", "cancelled"}]
  /\ sock \in [Conns -> {"open", "closed"}]
  /\ reader \in [Conns -> Supported]
  /\ sender \in [Conns -> Nat]
  /\ offer \in [Conns -> Offers]
  /\ peer \in [Conns -> 0..(4 + MaxCells)]
  /\ wire \in [Conns -> Seq([cmd : LinkCommands, version : Supported])]
  /\ \A c \in Conns : phase[c] = "unused" <=> c > made

Init ==
  /\ kind \in {"client", "connector"}
  /\ pc = "idle" /\ left = 0 /\ cur = Nothing /\ guard = Nothing
  /\ lost = {} /\ made = 0
  /\ phase = [c \in Conns |-> "unused"]
  /\ waiter = [c \in Conns |-> "pending"]
  /\ sock = [c \in Conns |-> "closed"]
  /\ reader = [c \in Conns |-> Default] /\ sender = [c \in Conns |-> Default]
  /\ offer \in [Conns -> Offers]
  /\ peer = [c \in Conns |-> 0]
  /\ wire = [c \in Conns |-> <<>>]

-----------------------------------------------------------------------------
(* The call.                                                               *)

(* Fault: after the last attempt the count starts over.                    *)
RetryAnew == /\ left' = IF left = 1 THEN Attempts ELSE left - 1
             /\ pc' = "dial"

(* The decorator retry around get_guard: any exception uses up an attempt. *)
Retry == /\ left' = left - 1
         /\ pc' = IF left = 1 THEN "raised" ELSE "dial"

(* get_guard is called, by a connector whenever it has no circuit yet.     *)
GetGuard ==
  /\ pc = "idle" \/ (pc = "raised" /\ kind = "connector")
  /\ made < MaxConns
  /\ pc' = "dial" /\ left' = Attempts
  /\ UNCHANGED <<kind, cur, guard, lost, made, phase, ends, vers, relay, wire>>

(* No router, no connection, no TLS; or the call is cancelled, which the   *)
(* retry takes for one more failure.                                       *)
DialFails ==
  /\ pc = "dial" /\ Retry
  /\ UNCHANGED <<kind, cur, guard, lost, made, phase, ends, vers, relay, wire>>

(* loop.create_connection returns and _negotiate has sent VERSIONS.        *)
Connected ==
  /\ pc = "dial" /\ made < MaxConns
  /\ pc' = "wait"
  /\ made' = made + 1 /\ cur' = made + 1
  /\ phase' = [phase EXCEPT ![made + 1] = "versions"]
  /\ sock' = [sock EXCEPT ![made + 1] = "open"]
  /\ UNCHANGED <<kind, left, guard, lost, waiter, vers, relay, wire>>

(* wait_established returns, and get_guard with the guard.                 *)
Hold ==
  /\ pc = "wait" /\ waiter[cur] = "set"
  /\ pc' = "held"
  /\ guard' = IF kind = "connector" THEN cur ELSE guard
  /\ lost' = IF kind = "connector" /\ guard # Nothing THEN lost \cup {guard} ELSE lost
  /\ UNCHANGED <<kind, left, cur, made, phase, ends, vers, relay, wire>>

(* The call is cancelled in wait_established.  That cancels the waiter; or *)
(* the result is there already and is thrown away.  `except Exception`     *)
(* closes the connection on Python 3.7 only, and the retry goes on.        *)
Interrupt ==
  /\ pc = "wait"
  /\ waiter' = [waiter EXCEPT ![cur] = IF @ = "pending" THEN "cancelled" ELSE @]
  /\ IF CancelledIsException
       THEN /\ sock' = [sock EXCEPT ![cur] = "closed"]
            /\ phase' = [phase EXCEPT ![cur] = IF @ = "loop" THEN "ended" ELSE @]
            /\ UNCHANGED lost
       ELSE /\ lost' = IF waiter[cur] = "set" THEN lost \cup {cur} ELSE lost
            /\ UNCHANGED <<phase, sock>>
  /\ Retry
  /\ UNCHANGED <<kind, cur, guard, made, vers, relay, wire>>

(* GuardProtocol.close.  A second one closes the writer again and raises   *)
(* AttributeError for the reader task that is gone (protocol.py 162): the  *)
(* connection stays as it is, only the caller leaves with an exception.    *)
CloseGuard(c) ==
  /\ sock' = [sock EXCEPT ![c] = "closed"]
  /\ phase' = [phase EXCEPT ![c] = "ended"]

(* Fault: the guard is left open when its circuit fails.                   *)
CircuitFailsAlone ==
  /\ pc = "held"
  /\ pc' = "raised"
  /\ UNCHANGED <<kind, left, cur, guard, lost, made, phase, ends, vers, relay, wire>>

(* create_circuit raises.  It always does on a link of version 3, which    *)
(* has no room for the circuit id.  A client leaves the context and closes *)
(* the guard; a connector keeps it until its next call puts another in its *)
(* place.                                                                  *)
CircuitFails ==
  /\ pc = "held"
  /\ IF kind = "client" THEN CloseGuard(cur) ELSE UNCHANGED <<phase, sock>>
  /\ pc' = "raised"
  /\ UNCHANGED <<kind, left, cur, guard, lost, made, waiter, vers, relay, wire>>

(* The circuit has served: __aexit__ of the guard.                         *)
Release ==
  /\ pc = "held" /\ kind = "client" /\ Fits(sender[cur])
  /\ CloseGuard(cur)
  /\ pc' = "released"
  /\ UNCHANGED <<kind, left, cur, guard, lost, made, waiter, vers, relay, wire>>

(* TorConnector.close.                                                     *)
CloseConnector ==
  /\ kind = "connector" /\ pc \in {"held", "raised"}
  /\ IF guard # Nothing THEN CloseGuard(guard) ELSE UNCHANGED <<phase, sock>>
  /\ pc' = "released"
  /\ UNCHANGED <<kind, left, cur, guard, lost, made, waiter, vers, relay, wire>>

-----------------------------------------------------------------------------
(* A connection.                                                           *)

(* _force_close from _negotiate before there is a reader task closes the   *)
(* writer and raises: the waiter is never told.                            *)
Fail(c) ==
  /\ phase' = [phase EXCEPT ![c] = "failed"]
  /\ sock' = [sock EXCEPT ![c] = "closed"]

Chosen(c) == LET best == Max(offer[c]) IN IF best < 4 THEN best ELSE 4

(* Fault: the reader keeps the default version.                            *)
NegotiateSender(c) ==
  /\ phase[c] = "versions" /\ wire[c] # <<>>
  /\ sender' = [sender EXCEPT ![c] = Chosen(c)]
  /\ IF Chosen(c) \in Supported
       THEN phase' = [phase EXCEPT ![c] = "certs"] /\ UNCHANGED <<reader, sock>>
       ELSE Fail(c) /\ UNCHANGED reader
  /\ wire' = [wire EXCEPT ![c] = Tail(@)]
  /\ UNCHANGED <<task, waiter, relay>>

(* VERSIONS is read: the lower of the two highest versions is taken, by    *)
(* the sender first and, if the setter lets it, by the reader.             *)
ReadVersions(c) ==
  /\ phase[c] = "versions" /\ wire[c] # <<>>
  /\ sender' = [sender EXCEPT ![c] = Chosen(c)]
  /\ IF Chosen(c) \in Supported
       THEN /\ reader' = [reader EXCEPT ![c] = Chosen(c)]
            /\ phase' = [phase EXCEPT ![c] = "certs"]
            /\ UNCHANGED sock
       ELSE Fail(c) /\ UNCHANGED reader
  /\ wire' = [wire EXCEPT ![c] = Tail(@)]
  /\ UNCHANGED <<task, waiter, relay>>

(* Fault: the waiter is told before NETINFO has come.                      *)
ReadNextTells(c) ==
  /\ phase[c] \in {"certs", "challenge"} /\ wire[c] # <<>>
  /\ phase' = [phase EXCEPT ![c] = IF @ = "certs" THEN "challenge" ELSE "netinfo"]
  /\ waiter' = [waiter EXCEPT ![c] = "set"]
  /\ wire' = [wire EXCEPT ![c] = Tail(@)]
  /\ UNCHANGED <<task, sock, vers, relay>>

(* CERTS and AUTH_CHALLENGE are read and not looked at.                    *)
ReadNext(c) ==
  /\ phase[c] \in {"certs", "challenge"} /\ wire[c] # <<>>
  /\ phase' = [phase EXCEPT ![c] = IF @ = "certs" THEN "challenge" ELSE "netinfo"]
  /\ wire' = [wire EXCEPT ![c] = Tail(@)]
  /\ UNCHANGED <<task, ends, vers, relay>>

(* Fault: a waiter that is done is left alone.                             *)
ReadNetInfoAnyway(c) ==
  /\ phase[c] = "netinfo" /\ wire[c] # <<>>
  /\ waiter' = [waiter EXCEPT ![c] = IF @ = "pending" THEN "set" ELSE @]
  /\ phase' = [phase EXCEPT ![c] = "loop"]
  /\ wire' = [wire EXCEPT ![c] = Tail(@)]
  /\ UNCHANGED <<task, sock, vers, relay>>

(* NETINFO is read and answered, the reader task is made and the waiter is *)
(* told.  A waiter that was cancelled raises, and _force_close finds the   *)
(* reader task this time: the abandoned connection is closed.              *)
ReadNetInfo(c) ==
  /\ phase[c] = "netinfo" /\ wire[c] # <<>>
  /\ IF waiter[c] = "pending"
       THEN /\ waiter' = [waiter EXCEPT ![c] = "set"]
            /\ phase' = [phase EXCEPT ![c] = "loop"]
            /\ UNCHANGED sock
       ELSE Fail(c) /\ UNCHANGED waiter
  /\ wire' = [wire EXCEPT ![c] = Tail(@)]
  /\ UNCHANGED <<task, vers, relay>>

(* The stream ends, or is closed under the reader, before all has come;    *)
(* what had come is still read.                                            *)
ReadFails(c) ==
  /\ phase[c] \in Negotiating /\ sock[c] = "closed" /\ wire[c] = <<>>
  /\ Fail(c)
  /\ UNCHANGED <<task, waiter, vers, relay, wire>>

(* _reader_loop.  Cells of circuits are for Guard; for all others          *)
(* _cell_received reads `_requests`, which OrProtocol never makes, and the *)
(* loop closes the guard.                                                  *)
ReadCell(c) ==
  /\ phase[c] = "loop" /\ wire[c] # <<>>
  /\ IF Head(wire[c]).cmd \in {3, 4, 6, 11} THEN UNCHANGED <<phase, sock>> ELSE CloseGuard(c)
  /\ wire' = [wire EXCEPT ![c] = Tail(@)]
  /\ UNCHANGED <<task, waiter, vers, relay>>

(* The end of the stream: the loop ends, and TLS closes the transport.     *)
ReadEof(c) ==
  /\ phase[c] = "loop" /\ sock[c] = "closed" /\ wire[c] = <<>>
  /\ phase' = [phase EXCEPT ![c] = "ended"]
  /\ UNCHANGED <<task, ends, vers, relay, wire>>

-----------------------------------------------------------------------------
(* A relay frames VERSIONS with short ids and all else as the highest      *)
(* version that both sides speak demands; it goes away when there is none. *)
Common(c) == Max((offer[c] \cap Supported) \cup {0})

RelaySends(c) ==
  /\ phase[c] # "unused" /\ sock[c] = "open" /\ peer[c] < 4 + MaxCells
  /\ peer[c] > 0 => Common(c) # 0
  /\ \E cmd \in (IF peer[c] < 4 THEN {Cells4[peer[c] + 1]} ELSE {0, 3}) :
       wire' = [wire EXCEPT ![c] = Append(@,
         [cmd |-> cmd, version |-> IF peer[c] = 0 THEN Default ELSE Common(c)])]
  /\ peer' = [peer EXCEPT ![c] = @ + 1]
  /\ UNCHANGED <<task, phase, ends, vers, offer>>

RelayCloses(c) ==
  /\ sock[c] = "open"
  /\ sock' = [sock EXCEPT ![c] = "closed"]
  /\ UNCHANGED <<task, phase, waiter, vers, relay, wire>>

-----------------------------------------------------------------------------
Read(c) ==
  \/ ReadVersions(c) \/ ReadNext(c) \/ ReadNetInfo(c)
  \/ ReadFails(c) \/ ReadCell(c) \/ ReadEof(c)

Call == DialFails \/ Connected \/ Hold

Next ==
  \/ Call \/ GetGuard \/ Interrupt \/ CircuitFails \/ Release \/ CloseConnector
  \/ \E c \in Conns : Read(c) \/ RelaySends(c) \/ RelayCloses(c)

Spec == Init /\ [][Next]_vars

(* The event loop runs what is ready.  Dialling need not end: it chooses   *)
(* a guard from the consensus, which may have to be fetched first, without *)
(* a timeout (client.py 50, consesus.py 131-134).                          *)
FairSpec == Spec /\ WF_vars(Hold) /\ \A c \in Conns : WF_vars(Read(c))

-----------------------------------------------------------------------------
(* The reader takes off the stream just what its relay has framed, short   *)
(* cells and long ones, through the change of version in the middle of the *)
(* stream (protocol.py 86-87, 192-221, cells.py 56-70).                    *)
FramingAgrees ==
  \A c \in Conns :
    phase[c] \in Negotiating \cup {"loop"} /\ wire[c] # <<>> =>
      \A len \in {0, 2, PayloadMax} :
        TakenLen(Head(wire[c]).cmd, len, reader[c])
          = FrameLen(Head(wire[c]).cmd, len, Head(wire[c]).version)

(* A guard that is handed out speaks the highest version common to both    *)
(* sides in both directions, and its relay has sent all four cells.        *)
HeldIsNegotiated ==
  pc = "held" =>
    /\ phase[cur] \in Established /\ peer[cur] >= 4
    /\ sender[cur] = reader[cur] /\ reader[cur] = Common(cur)

(* A connection that has been negotiated and is open is at the call that   *)
(* made it or in its connector, but for those that were cancelled just     *)
(* after the waiter was told, or overwritten (guard.py 145-150, client.py  *)
(* 44-57, aiohttp.py 24-27): no retry and no failed circuit leaves one.    *)
OpenHasOwner ==
  \A c \in Conns :
    phase[c] = "loop" /\ sock[c] = "open" =>
      (c = cur /\ pc \in {"wait", "held"}) \/ c = guard \/ c \in lost

(* A call that is not cancelled in that window closes all it opened, once  *)
(* its connections have been read to the end: none that was left is being  *)
(* used (protocol.py 104-106, 158-164).                                    *)
LeftIsClosed ==
  \A c \in Conns : waiter[c] = "cancelled" /\ phase[c] \notin Negotiating => sock[c] = "closed"

Dialling(n) == pc = "dial" /\ left = n

Unanswered(c) == pc = "wait" /\ cur = c /\ phase[c] \in Negotiating \cup {"failed"}

(* get_guard ends, unless one attempt never gets a connection, or waits    *)
(* for ever on one whose relay keeps silent while it negotiates or whose   *)
(* negotiation failed (client.py 44-57, guard.py 135-152).                 *)
CallEnds ==
  (pc \in Calling) ~>
    \/ pc \notin Calling
    \/ \E n \in 1..Attempts : []Dialling(n)
    \/ \E c \in Conns : []Unanswered(c)

(* client.py 45 "Retry with another guard...": a negotiation that fails    *)
(* does not keep the call.                                                 *)
FailedIsRetried ==
  \A c \in Conns : (pc = "wait" /\ cur = c /\ phase[c] = "failed") ~> ~(pc = "wait" /\ cur = c)

=============================================================================
