-------------------------------- MODULE Guard --------------------------------
(***************************************************************************)
(* One guard connection and the circuits that share it: GuardProtocol      *)
(* (guard.py) with TorCircuit.create, extend, build_hops, destroy and      *)
(* CircuitsList (circuit.py).                                              *)
(*                                                                         *)
(* Calls of create_circuit run as tasks of the event loop next to the      *)
(* reader task that dispatches the cells.  The steps of a task are what it *)
(* does between two awaits.  A cell for a circuit the map does not hold    *)
(* raises in the reader loop, and the reader loop closes the whole guard.  *)
(*                                                                         *)
(* A cell the client sends is seen by the relay at once; the answers       *)
(* travel on `wire`, so answers and closing still cross.                   *)
(***************************************************************************)
EXTENDS Naturals, Sequences

CONSTANTS
  Tasks,                \* calls of create_circuit
  Hops,                 \* hops each call asks for (hops_count and extend_routers)
  Attempts,             \* the argument of @retry, 3 in the code
  MaxCircuits,          \* bound: circuits created in a behaviour
  MaxData,              \* bound: relay cells the network sends unasked
  CancelledIsException  \* Python 3.7: `except Exception` catches CancelledError

ASSUME GuardAssumption ==
  /\ Hops \in [Tasks -> Nat \ {0}]
  /\ Attempts \in Nat \ {0}
  /\ MaxCircuits \in Nat
  /\ MaxData \in Nat
  /\ CancelledIsException \in BOOLEAN

Ids == 1..MaxCircuits

VARIABLES
  conn,      \* "open"; "lost": reader loop at EOF; "closed"; "crashed": closed by the reader
  circuits,  \* keys of CircuitsList._circuits_map
  nextId,    \* CircuitsList.GLOBAL_CIRCUIT_ID + 1
  state,     \* TorCircuit._state
  nodes,     \* Len(TorCircuit._circuit_nodes)
  fut,       \* the one request a circuit under construction has queued
  pc,        \* where each call of create_circuit is
  cur,       \* the circuit each call builds or returned; 0 before the first
  attempts,  \* attempts each call has left
  wire,      \* cells on their way to the client
  relay,     \* the relay's side: none, asked (a request is open), idle, gone
  path,      \* hops the relays have built
  data,      \* unasked relay cells sent so far
  destroys   \* history: DESTROY cells the client sent, per circuit

client == <<circuits, nextId, state, nodes, fut>>
calls  == <<pc, cur, attempts>>
net    == <<wire, relay, path, data>>
vars   == <<conn, client, calls, net, destroys>>

Building == {"skin", "wait", "unwinding", "interrupted"}
Over     == {"returned", "closed", "raised", "cancelled"}
Cell     == [id : Ids, kind : {"created", "extended", "truncated", "data", "destroy"}, hop : Nat]

TypeOK ==
  /\ conn \in {"open", "lost", "closed", "crashed"}
  /\ circuits \subseteq Ids
  /\ nextId \in 1..(MaxCircuits + 1)
  /\ state \in [Ids -> {"none", "Connecting", "Connected", "Destroyed"}]
  /\ nodes \in [Ids -> Nat]
  /\ fut \in [Ids -> {"none", "pending", "cancelled", "created", "extended", "truncated"}]
  /\ pc \in [Tasks -> {"idle"} \cup Building \cup Over]
  /\ cur \in [Tasks -> Ids \cup {0}]
  /\ attempts \in [Tasks -> 0..Attempts]
  /\ wire \in Seq(Cell)
  /\ relay \in [Ids -> {"none", "asked", "idle", "gone"}]
  /\ path \in [Ids -> Nat]
  /\ data \in 0..MaxData
  /\ destroys \in [Ids -> Nat]

Init ==
  /\ conn = "open"
  /\ circuits = {}
  /\ nextId = 1
  /\ state = [c \in Ids |-> "none"]
  /\ nodes = [c \in Ids |-> 0]
  /\ fut = [c \in Ids |-> "none"]
  /\ pc = [t \in Tasks |-> "idle"]
  /\ cur = [t \in Tasks |-> 0]
  /\ attempts = [t \in Tasks |-> Attempts]
  /\ wire = <<>>
  /\ relay = [c \in Ids |-> "none"]
  /\ path = [c \in Ids |-> 0]
  /\ data = 0
  /\ destroys = [c \in Ids |-> 0]

-----------------------------------------------------------------------------
(* Fault: every circuit announces its end, whatever its state.             *)
AnnouncesAlways(S, send) == IF send THEN S ELSE {}

(* TorCircuit.destroy for the circuits of S: only a Connected circuit      *)
(* announces its end, and the cell arrives while the connection is open.   *)
Announces(S, send) == IF send THEN {c \in S : state[c] = "Connected"} ELSE {}

DestroyAll(S, send) ==
  /\ state' = [c \in Ids |-> IF c \in S THEN "Destroyed" ELSE state[c]]
  /\ relay' = [c \in Ids |-> IF c \in Announces(S, send) /\ conn = "open"
                             THEN "gone" ELSE relay[c]]
  /\ destroys' = [c \in Ids |-> IF c \in Announces(S, send)
                                THEN destroys[c] + 1 ELSE destroys[c]]

(* GuardProtocol.destroy_circuit.                                          *)
DestroyCircuit(c, send) ==
  /\ DestroyAll({c}, send)
  /\ circuits' = circuits \ {c}

(* Fault: the connection goes and the circuits stay.                       *)
CloseConnectionOnly(how) ==
  /\ conn' = how
  /\ wire' = <<>>
  /\ UNCHANGED <<circuits, state, relay, destroys>>

(* GuardProtocol.close: every circuit, then the connection; cells not read *)
(* yet never are.                                                          *)
CloseGuard(how) ==
  /\ DestroyAll(circuits, TRUE)
  /\ circuits' = {}
  /\ conn' = how
  /\ wire' = <<>>

(* A write reaches the relay while the connection is open and the relay    *)
(* knows the circuit (or is asked to create it).                           *)
SendRequest(c) ==
  /\ fut' = [fut EXCEPT ![c] = "pending"]
  /\ relay' = IF conn = "open" /\ relay[c] # "gone"
              THEN [relay EXCEPT ![c] = "asked"] ELSE relay

(* An attempt of create_circuit up to its first await: create_new, and     *)
(* TorCircuit.create to create_onion_skin, which fetches a descriptor.     *)
Begin(t) ==
  /\ pc[t] = "idle"
  /\ nextId <= MaxCircuits
  /\ circuits' = circuits \cup {nextId}
  /\ state' = [state EXCEPT ![nextId] = "Connecting"]
  /\ cur' = [cur EXCEPT ![t] = nextId]
  /\ nextId' = nextId + 1
  /\ pc' = [pc EXCEPT ![t] = "skin"]
  /\ UNCHANGED <<conn, nodes, fut, attempts, net, destroys>>

(* The onion skin is ready: CREATE or EXTEND2 is sent, without looking at  *)
(* the state of the circuit again.                                         *)
SkinReady(t) ==
  /\ pc[t] = "skin"
  /\ SendRequest(cur[t])
  /\ pc' = [pc EXCEPT ![t] = "wait"]
  /\ UNCHANGED <<conn, circuits, nextId, state, nodes, cur, attempts, wire, path, data, destroys>>

(* The except clause of create_circuit (circuit.close) and the retry       *)
(* around it: the next attempt begins in the same step.                    *)
GiveUpCircuit(t, retryable) ==
  LET c     == cur[t]
      again == retryable /\ attempts[t] > 1
  IN
  /\ again => nextId <= MaxCircuits
  /\ attempts' = [attempts EXCEPT ![t] = IF retryable THEN @ - 1 ELSE @]
  /\ relay' = [relay EXCEPT ![c] = IF state[c] = "Connected" /\ conn = "open" THEN "gone" ELSE @]
  /\ destroys' = [destroys EXCEPT ![c] = IF state[c] = "Connected" THEN @ + 1 ELSE @]
  /\ IF again
       THEN /\ circuits' = (circuits \ {c}) \cup {nextId}
            /\ state' = [state EXCEPT ![c] = "Destroyed", ![nextId] = "Connecting"]
            /\ cur' = [cur EXCEPT ![t] = nextId]
            /\ nextId' = nextId + 1
            /\ pc' = [pc EXCEPT ![t] = "skin"]
       ELSE /\ circuits' = circuits \ {c}
            /\ state' = [state EXCEPT ![c] = "Destroyed"]
            /\ pc' = [pc EXCEPT ![t] = "raised"]
            /\ UNCHANGED <<cur, nextId>>

(* The descriptor fetch fails; what it raises may be retryable.            *)
SkinFails(t) ==
  /\ pc[t] = "skin"
  /\ \E retryable \in BOOLEAN : GiveUpCircuit(t, retryable)
  /\ UNCHANGED <<conn, nodes, fut, wire, path, data>>

(* The task resumes with an answer.  create() writes Connected over        *)
(* whatever the state has become; extend() checks it, but only before a    *)
(* further hop.                                                            *)
Answered(t) ==
  /\ \/ pc[t] = "wait"
     \/ pc[t] = "interrupted" /\ ~CancelledIsException  \* some releases of wait_for
  /\ fut[cur[t]] \in {"created", "extended", "truncated"}

(* Fault: whatever cell comes is the answer.                               *)
ExpectedAny(c) == fut[c]

Expected(c) == IF nodes[c] = 0 THEN "created" ELSE "extended"

HopDone(t) ==
  LET c == cur[t] IN
  /\ Answered(t)
  /\ fut[c] = Expected(c)
  /\ fut' = [fut EXCEPT ![c] = "none"]
  /\ nodes' = [nodes EXCEPT ![c] = @ + 1]
  /\ \/ /\ nodes[c] = 0 \/ state[c] = "Connected" \/ nodes[c] + 1 >= Hops[t]
        /\ state' = [state EXCEPT ![c] = IF nodes[c] = 0 THEN "Connected" ELSE @]
        /\ pc' = [pc EXCEPT ![t] = IF nodes[c] + 1 >= Hops[t] THEN "returned" ELSE "skin"]
        /\ UNCHANGED <<circuits, nextId, cur, attempts, relay, destroys>>
     \/ /\ nodes[c] > 0 /\ state[c] # "Connected" /\ nodes[c] + 1 < Hops[t]
        /\ GiveUpCircuit(t, FALSE)                      \* AssertionError
  /\ UNCHANGED <<conn, wire, path, data>>

(* A wrong cell is CircuitExtendError in extend, which is retried, and     *)
(* WrongCellError in create, which is not; nor is a handshake that fails.  *)
HopFails(t) ==
  LET c == cur[t] IN
  /\ Answered(t)
  /\ GiveUpCircuit(t, fut[c] # Expected(c) /\ nodes[c] > 0)
  /\ fut' = [fut EXCEPT ![c] = "none"]
  /\ UNCHANGED <<conn, nodes, wire, path, data>>

(* Fault: the timer only runs while the connection is open.                *)
TimeoutIfOpen(t) ==
  /\ conn = "open"
  /\ pc[t] = "wait"
  /\ fut[cur[t]] = "pending"
  /\ fut' = [fut EXCEPT ![cur[t]] = "cancelled"]
  /\ pc' = [pc EXCEPT ![t] = "unwinding"]
  /\ UNCHANGED <<conn, circuits, nextId, state, nodes, cur, attempts, net, destroys>>

(* wait_for, in its two steps: the future is cancelled; an iteration later *)
(* it leaves the FIFO and the attempt is given up.                         *)
Timeout(t) ==
  /\ pc[t] = "wait"
  /\ fut[cur[t]] = "pending"
  /\ fut' = [fut EXCEPT ![cur[t]] = "cancelled"]
  /\ pc' = [pc EXCEPT ![t] = "unwinding"]
  /\ UNCHANGED <<conn, circuits, nextId, state, nodes, cur, attempts, net, destroys>>

TimedOut(t) ==
  /\ pc[t] = "unwinding"
  /\ fut' = [fut EXCEPT ![cur[t]] = "none"]
  /\ GiveUpCircuit(t, TRUE)
  /\ UNCHANGED <<conn, nodes, wire, path, data>>

(* Somebody cancels the call.  CancelledError passes both except clauses   *)
(* by where it is no Exception: the circuit and its request stay.          *)
Interrupt(t) ==
  /\ pc[t] \in {"skin", "wait", "unwinding"}
  /\ pc' = [pc EXCEPT ![t] = "interrupted"]
  /\ UNCHANGED <<conn, client, cur, attempts, net, destroys>>

Unwind(t) ==
  /\ pc[t] = "interrupted"
  /\ pc' = [pc EXCEPT ![t] = "cancelled"]
  /\ IF CancelledIsException
       THEN /\ DestroyCircuit(cur[t], TRUE)
            /\ fut' = [fut EXCEPT ![cur[t]] = "none"]
       ELSE /\ fut' = [fut EXCEPT ![cur[t]] = IF @ = "pending" THEN "cancelled" ELSE @]
            /\ UNCHANGED <<circuits, state, relay, destroys>>
  /\ UNCHANGED <<conn, nextId, nodes, cur, attempts, wire, path, data>>

(* Fault: the owner leaves without closing.                                *)
LeaveCircuit(t) ==
  /\ pc[t] = "returned"
  /\ pc' = [pc EXCEPT ![t] = "closed"]
  /\ UNCHANGED <<conn, client, cur, attempts, net, destroys>>

(* The owner leaves the circuit's context: TorCircuit.close.               *)
CloseCircuit(t) ==
  /\ pc[t] = "returned"
  /\ DestroyCircuit(cur[t], TRUE)
  /\ pc' = [pc EXCEPT ![t] = "closed"]
  /\ UNCHANGED <<conn, nextId, nodes, fut, cur, attempts, wire, path, data>>

(* The user leaves the guard's context, also after the reader has closed   *)
(* the guard: the circuits registered since then are destroyed before the  *)
(* second _force_close fails on its missing reader task.                   *)
UserCloseGuard ==
  /\ CloseGuard("closed")
  /\ UNCHANGED <<nextId, nodes, fut, calls, path, data>>

-----------------------------------------------------------------------------
(* One turn of the reader loop.  Raising an exception, here as much as in  *)
(* a handler, ends in GuardProtocol.close.                                 *)
Crash == CloseGuard("crashed") /\ UNCHANGED fut

ReadCell ==
  LET m == Head(wire) IN
  /\ conn = "open"
  /\ wire # <<>>
  /\ \/ /\ m.id \notin circuits                        \* Circuit # not found
        /\ Crash
     \/ /\ m.id \in circuits /\ m.kind = "destroy"     \* _on_destroy
        /\ DestroyCircuit(m.id, FALSE)
        /\ wire' = Tail(wire)
        /\ UNCHANGED <<conn, fut>>
     \/ /\ m.id \in circuits /\ m.kind = "data"        \* has a handler of its own
        /\ m.hop <= nodes[m.id]
        /\ wire' = Tail(wire)
        /\ UNCHANGED <<conn, circuits, state, relay, destroys, fut>>
     \/ /\ m.id \in circuits /\ m.kind = "data"        \* recognized by no node
        /\ m.hop > nodes[m.id]
        /\ Crash
     \/ /\ m.id \in circuits /\ m.kind \notin {"destroy", "data"}
        /\ CASE fut[m.id] = "pending" ->
                  /\ fut' = [fut EXCEPT ![m.id] = m.kind]
                  /\ wire' = Tail(wire)
                  /\ UNCHANGED <<conn, circuits, state, relay, destroys>>
             [] fut[m.id] = "cancelled" -> Crash       \* InvalidStateError
             [] OTHER ->
                  /\ wire' = Tail(wire)                \* a warning
                  /\ UNCHANGED <<conn, circuits, state, relay, destroys, fut>>
  /\ UNCHANGED <<nextId, nodes, calls, path, data>>

(* EOF: the reader loop ends and closes nothing.                           *)
LoseConnection ==
  /\ conn = "open"
  /\ conn' = "lost"
  /\ wire' = <<>>
  /\ UNCHANGED <<client, calls, relay, path, data, destroys>>

-----------------------------------------------------------------------------
(* The relays.  Cells they send unasked come from the end of the path.     *)
Emit(c, kind) == wire' = Append(wire, [id |-> c, kind |-> kind, hop |-> path[c]])

RelayBuilds(c) ==
  /\ conn = "open" /\ relay[c] = "asked"
  /\ relay' = [relay EXCEPT ![c] = "idle"]
  /\ path' = [path EXCEPT ![c] = @ + 1]
  /\ Emit(c, IF path[c] = 0 THEN "created" ELSE "extended")
  /\ UNCHANGED <<conn, client, calls, data, destroys>>

RelayRefuses(c) ==
  /\ conn = "open" /\ relay[c] = "asked" /\ path[c] > 0
  /\ relay' = [relay EXCEPT ![c] = "idle"]
  /\ Emit(c, "truncated")
  /\ UNCHANGED <<conn, client, calls, path, data, destroys>>

RelayDestroys(c) ==
  /\ conn = "open" /\ relay[c] \in {"asked", "idle"}
  /\ relay' = [relay EXCEPT ![c] = "gone"]
  /\ Emit(c, "destroy")
  /\ UNCHANGED <<conn, client, calls, path, data, destroys>>

RelaySends(c) ==
  /\ conn = "open" /\ relay[c] = "idle" /\ data < MaxData
  /\ data' = data + 1
  /\ Emit(c, "data")
  /\ UNCHANGED <<conn, client, calls, relay, path, destroys>>

Run(t) ==
  SkinReady(t) \/ SkinFails(t) \/ HopDone(t) \/ HopFails(t) \/ Timeout(t) \/ TimedOut(t) \/ Unwind(t)

Next ==
  \/ \E t \in Tasks : Begin(t) \/ Run(t) \/ Interrupt(t) \/ CloseCircuit(t)
  \/ UserCloseGuard
  \/ ReadCell
  \/ LoseConnection
  \/ \E c \in Ids : RelayBuilds(c) \/ RelayRefuses(c) \/ RelayDestroys(c) \/ RelaySends(c)

Spec == Init /\ [][Next]_vars

(* What the event loop and the timer of _send_wait bring about.  Fetching  *)
(* a descriptor is read without a timeout, over a circuit of its own, and  *)
(* need not end (SkinReady, SkinFails); nothing is assumed of the relays,  *)
(* the network and the user either.                                        *)
Ready(t) == HopDone(t) \/ HopFails(t) \/ Timeout(t) \/ TimedOut(t) \/ Unwind(t)

FairSpec == Spec /\ \A t \in Tasks : WF_vars(Ready(t))

-----------------------------------------------------------------------------
(* What destroy() relies on: the map holds no circuit that is destroyed    *)
(* already, so no circuit is torn down twice and Unknown is never met      *)
(* (circuit.py 178-195, guard.py 108-111).                                 *)
MapHoldsLive == \A c \in circuits : state[c] \in {"Connecting", "Connected"}

(* Every registered circuit has somebody to close it: a call that still    *)
(* builds it, or its owner.  Where CancelledError is no Exception, a       *)
(* cancelled call leaves its circuit registered (guard.py 90-106).         *)
MappedIsOwned ==
  \A c \in circuits :
    \E t \in Tasks : /\ cur[t] = c
                     /\ \/ pc[t] \in Building \cup {"returned"}
                        \/ pc[t] = "cancelled" /\ ~CancelledIsException

(* A circuit create_circuit hands out has the hops asked for, and its      *)
(* nodes are the hops the relays built, in spite of refusals, late answers *)
(* and retries: layers of encryption and path agree (circuit.py 338-382).  *)
ReturnedIsBuilt ==
  \A t \in Tasks :
    pc[t] = "returned" => /\ nodes[cur[t]] = Hops[t]
                          /\ path[cur[t]] = Hops[t]

(* A connection that was closed leaves no circuit registered as usable:    *)
(* what is registered later stays Connecting (guard.py 76-85).             *)
DeadGuardHasNoCircuit ==
  conn \in {"closed", "crashed"} => \A c \in circuits : state[c] = "Connecting"

(* The client announces the end of a circuit at most once, though owner,   *)
(* retry, guard and reader may all come to close it.                       *)
OneDestroy == \A c \in Ids : destroys[c] <= 1

Fetching(t, n) == pc[t] = "skin" /\ attempts[t] = n

(* Every create_circuit call ends, also after the guard is gone, or one    *)
(* attempt stays in the fetch of a descriptor (consesus.py 279, 345-346):  *)
(* timeouts bound each hop and the retry bounds the attempts (circuit.py   *)
(* 306-316, guard.py 87).                                                  *)
EveryBuildEnds ==
  \A t \in Tasks :
    pc[t] = "skin" ~> (pc[t] \in Over \/ \E n \in 1..Attempts : []Fetching(t, n))

=============================================================================
