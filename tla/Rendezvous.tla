----------------------------- MODULE Rendezvous -----------------------------
(***************************************************************************)
(* Streams to hidden services: TorCircuit.extend_to_hidden (circuit.py)    *)
(* with the directories, introduction points and descriptors it walks      *)
(* through (hiddenservice.py, consesus.py get_responsibles).               *)
(*                                                                         *)
(* A circuit has one lock, one association and one future for RENDEZVOUS2. *)
(* A step of a call is what it does between two awaits.  Keys are named by *)
(* the number of the INTRODUCE1 they were made for; Router objects, and    *)
(* the service key noted in them, are shared by all circuits.              *)
(***************************************************************************)
EXTENDS Naturals, Sequences

CONSTANTS
  Tasks,      \* calls of extend_to_hidden
  Circuits,
  Onions,     \* hidden services
  Relays,     \* introduction points
  Nobody,     \* no task, no service
  Circ,       \* the circuit each call extends
  Onion,      \* the service each call wants
  Intros,     \* introduction points in the descriptor of each service
  NDirs,      \* routers with the HSDir flag, ranked by fingerprint
  Positions,  \* how many of them lie below the descriptor ids of replicas 0 and 1
  MaxSent     \* bound: INTRODUCE1 cells per circuit

ASSUME RendezvousAssumption ==
  /\ Nobody \notin Tasks \cup Onions
  /\ Circ \in [Tasks -> Circuits]
  /\ Onion \in [Tasks -> Onions]
  /\ Intros \in [Onions -> Seq(Relays)]
  /\ NDirs \in Nat \ {0}
  /\ Positions \subseteq [{0, 1} -> 0..NDirs]
  /\ MaxSent \in Nat

VARIABLES
  pos,      \* where the descriptor ids fall among the directories; never changes
  pc,       \* where each call is
  dir,      \* directories it has taken from get_responsibles_dir
  intro,    \* introduction points it has taken from the current descriptor
  mine,     \* the INTRODUCE1 whose key agreement it holds
  lock,     \* TorCircuit._extend_lock
  assoc,    \* TorCircuit._associated_hs
  nodes,    \* hidden nodes appended to TorCircuit._circuit_nodes
  waiter,   \* TorCircuit._rend2_waiter
  answer,   \* the INTRODUCE1 its result answers
  key,      \* Router._service_key
  sent,     \* the service key of each INTRODUCE1 sent for a circuit
  base,     \* how many had been sent when the rendezvous was established
  joined,   \* the INTRODUCE1 whose answer the rendezvous point passed on
  wire      \* RENDEZVOUS2 on its way

calls  == <<pc, dir, intro, mine>>
future == <<waiter, answer>>
net    == <<base, joined, wire>>
vars   == <<pos, calls, lock, assoc, nodes, future, key, sent, net>>

InIntro == {"connect", "ack", "wait"}
Held    == {"establish", "dirs", "fetch", "intros"} \cup InIntro
Over    == {"begin", "raised", "cancelled"}

Init ==
  /\ pos \in [Onions -> Positions]
  /\ pc = [t \in Tasks |-> "idle"]
  /\ dir = [t \in Tasks |-> 0]
  /\ intro = [t \in Tasks |-> 0]
  /\ mine = [t \in Tasks |-> 0]
  /\ lock = [c \in Circuits |-> Nobody]
  /\ assoc = [c \in Circuits |-> Nobody]
  /\ nodes = [c \in Circuits |-> <<>>]
  /\ waiter = [c \in Circuits |-> "pending"]
  /\ answer = [c \in Circuits |-> 0]
  /\ key = [r \in Relays |-> Nobody]
  /\ sent = [c \in Circuits |-> <<>>]
  /\ base = [c \in Circuits |-> 0]
  /\ joined = [c \in Circuits |-> 0]
  /\ wire = [c \in Circuits |-> 0]

-----------------------------------------------------------------------------
(* One round of TorConsensus.get_responsibles: the first fingerprint above *)
(* the descriptor id has index p; the three after it are taken, and none   *)
(* when no fingerprint is above.                                           *)
Successors(p) == IF p = NDirs THEN <<>> ELSE [j \in 1..3 |-> ((p + j) % NDirs) + 1]

Responsibles(o) == Successors(pos[o][0]) \o Successors(pos[o][1])

TypeOK ==
  /\ pos \in [Onions -> Positions]
  /\ pc \in [Tasks -> {"idle"} \cup Held \cup Over]
  /\ dir \in [Tasks -> Nat]
  /\ \A t \in Tasks : dir[t] <= Len(Responsibles(Onion[t]))
  /\ intro \in [Tasks -> Nat]
  /\ mine \in [Tasks -> Nat]
  /\ lock \in [Circuits -> Tasks \cup {Nobody}]
  /\ assoc \in [Circuits -> Onions \cup {Nobody}]
  /\ nodes \in [Circuits -> Seq(Nat)]
  /\ waiter \in [Circuits -> {"pending", "answered", "cancelled"}]
  /\ answer \in [Circuits -> Nat]
  /\ key \in [Relays -> Onions \cup {Nobody}]
  /\ sent \in [Circuits -> Seq(Onions \cup {Nobody})]
  /\ base \in [Circuits -> Nat]
  /\ joined \in [Circuits -> Nat]
  /\ wire \in [Circuits -> Nat]

(* HiddenServiceConnector.get_responsibles_dir numbers the directories as  *)
(* they come, the first three for replica 0.                               *)
Replica(i) == IF i > 3 THEN 1 ELSE 0

(* Where a service keeps its descriptor: the first three above the id.     *)
StoredAt(o, q) == {((pos[o][q] + j) % NDirs) + 1 : j \in 0..2}

Release(t) == lock' = [lock EXCEPT ![Circ[t]] = Nobody]

Go(t, to) == pc' = [pc EXCEPT ![t] = to]

(* Fault: any association will do.                                         *)
AcquireAnyService(t) ==
  LET c == Circ[t] IN
  /\ pc[t] = "idle" /\ lock[c] = Nobody
  /\ Go(t, IF assoc[c] = Nobody THEN "establish" ELSE "begin")
  /\ lock' = [lock EXCEPT ![c] = IF assoc[c] = Nobody THEN t ELSE @]
  /\ UNCHANGED <<pos, dir, intro, mine, assoc, nodes, future, key, sent, net>>

(* extend_to_hidden up to its first await inside the lock; a circuit that  *)
(* is associated already serves its own service and refuses others.        *)
Acquire(t) ==
  LET c == Circ[t] IN
  /\ pc[t] = "idle" /\ lock[c] = Nobody
  /\ Go(t, CASE assoc[c] = Nobody -> "establish"
             [] assoc[c] = Onion[t] -> "begin"
             [] OTHER -> "raised")
  /\ lock' = [lock EXCEPT ![c] = IF assoc[c] = Nobody THEN t ELSE @]
  /\ UNCHANGED <<pos, dir, intro, mine, assoc, nodes, future, key, sent, net>>

(* _rendezvous_establish returns: a new cookie at the rendezvous point.    *)
Established(t) ==
  LET c == Circ[t] IN
  /\ pc[t] = "establish"
  /\ Go(t, "dirs")
  /\ base' = [base EXCEPT ![c] = Len(sent[c])]
  /\ joined' = [joined EXCEPT ![c] = 0]
  /\ UNCHANGED <<pos, dir, intro, mine, lock, assoc, nodes, future, key, sent, wire>>

(* What leaves extend_to_hidden with an exception: establish fails, a      *)
(* fetch with anything but DescriptorNotAvailable, or an introduction      *)
(* point is not in the consensus.                                          *)
Raises(t) ==
  /\ pc[t] \in {"establish", "fetch", "intros"}
  /\ Go(t, "raised")
  /\ Release(t)
  /\ UNCHANGED <<pos, dir, intro, mine, assoc, nodes, future, key, sent, net>>

(* The next responsible directory; when all have been asked the call gives *)
(* up with "Can't extend to hidden" (circuit.py 465).                      *)
NextDir(t) ==
  /\ pc[t] = "dirs"
  /\ IF dir[t] < Len(Responsibles(Onion[t]))
       THEN Go(t, "fetch") /\ dir' = [dir EXCEPT ![t] = @ + 1] /\ UNCHANGED lock
       ELSE Go(t, "raised") /\ Release(t) /\ UNCHANGED dir
  /\ UNCHANGED <<pos, intro, mine, assoc, nodes, future, key, sent, net>>

(* DescriptorNotAvailable: the next directory.                             *)
NotAvailable(t) ==
  /\ pc[t] = "fetch"
  /\ Go(t, "dirs")
  /\ UNCHANGED <<pos, dir, intro, mine, lock, assoc, nodes, future, key, sent, net>>

(* A directory answers only for the replica it keeps.                      *)
Fetched(t) ==
  /\ pc[t] = "fetch"
  /\ Responsibles(Onion[t])[dir[t]] \in StoredAt(Onion[t], Replica(dir[t]))
  /\ Go(t, "intros")
  /\ intro' = [intro EXCEPT ![t] = 0]
  /\ UNCHANGED <<pos, dir, mine, lock, assoc, nodes, future, key, sent, net>>

(* _get_intro_points: the router of the next introduction point is looked  *)
(* up in the consensus and the service key is noted in it.                 *)
NextIntro(t) ==
  LET points == Intros[Onion[t]] IN
  /\ pc[t] = "intros"
  /\ IF intro[t] < Len(points)
       THEN /\ Go(t, "connect")
            /\ intro' = [intro EXCEPT ![t] = @ + 1]
            /\ key' = [key EXCEPT ![points[intro[t] + 1]] = Onion[t]]
       ELSE Go(t, "dirs") /\ UNCHANGED <<intro, key>>
  /\ UNCHANGED <<pos, dir, mine, lock, assoc, nodes, future, sent, net>>

(* IntroductionPoint.connect fails before it waits: no circuit, or no ack. *)
(* Every exception is swallowed and the next point is tried.               *)
Swallowed(t) ==
  /\ Go(t, "intros")
  /\ UNCHANGED <<pos, dir, intro, mine, lock, assoc, nodes, future, key, sent, net>>

ConnectFails(t) == pc[t] = "connect" /\ Swallowed(t)

AckFails(t) == pc[t] = "ack" /\ Swallowed(t)

(* rendezvous_introduce, once its circuit is there: the service key is     *)
(* read from the router only now.                                          *)
Introduce(t) ==
  LET c == Circ[t] IN
  /\ pc[t] = "connect" /\ Len(sent[c]) < MaxSent
  /\ sent' = [sent EXCEPT ![c] = Append(@, key[Intros[Onion[t]][intro[t]]])]
  /\ mine' = [mine EXCEPT ![t] = Len(sent[c]) + 1]
  /\ Go(t, "ack")
  /\ UNCHANGED <<pos, dir, intro, lock, assoc, nodes, future, key, net>>

(* INTRODUCE_ACK.  wait_for on a cancelled future raises at once.          *)
Acked(t) ==
  /\ pc[t] = "ack"
  /\ Go(t, IF waiter[Circ[t]] = "cancelled" THEN "intros" ELSE "wait")
  /\ UNCHANGED <<pos, dir, intro, mine, lock, assoc, nodes, future, key, sent, net>>

(* Fault: the keys are not compared.                                       *)
CompleteUnchecked(t) ==
  LET c == Circ[t] IN
  /\ pc[t] = "wait" /\ waiter[c] = "answered"
  /\ nodes' = [nodes EXCEPT ![c] = Append(@, mine[t])]
  /\ assoc' = [assoc EXCEPT ![c] = Onion[t]]
  /\ Go(t, "begin") /\ Release(t)
  /\ UNCHANGED <<pos, dir, intro, mine, future, key, sent, net>>

(* complete_handshake: an answer to another INTRODUCE1 does not match this *)
(* key agreement.  The future is never renewed, so it stays for the next.  *)
Complete(t) ==
  LET c == Circ[t] IN
  /\ pc[t] = "wait" /\ waiter[c] = "answered"
  /\ IF answer[c] = mine[t]
       THEN /\ nodes' = [nodes EXCEPT ![c] = Append(@, mine[t])]
            /\ assoc' = [assoc EXCEPT ![c] = Onion[t]]
            /\ Go(t, "begin") /\ Release(t)
       ELSE Go(t, "intros") /\ UNCHANGED <<lock, assoc, nodes>>
  /\ UNCHANGED <<pos, dir, intro, mine, future, key, sent, net>>

(* wait_rendezvous2 times out and cancels the one future of the circuit.   *)
WaitTimeout(t) ==
  /\ pc[t] = "wait" /\ waiter[Circ[t]] = "pending"
  /\ waiter' = [waiter EXCEPT ![Circ[t]] = "cancelled"]
  /\ Go(t, "intros")
  /\ UNCHANGED <<pos, dir, intro, mine, lock, assoc, nodes, answer, key, sent, net>>

(* Fault: a cancelled call keeps the lock.                                 *)
InterruptKeepsLock(t) ==
  /\ pc[t] \in {"idle", "establish", "fetch"}
  /\ Go(t, "cancelled")
  /\ UNCHANGED <<pos, dir, intro, mine, lock, assoc, nodes, future, key, sent, net>>

(* The call is cancelled.  Around an introduction `except BaseException`   *)
(* swallows that and the loop goes on; elsewhere the lock is released.     *)
Interrupt(t) ==
  LET c == Circ[t] IN
  /\ \/ /\ pc[t] \in {"idle", "establish", "fetch"}
        /\ Go(t, "cancelled")
        /\ lock' = [lock EXCEPT ![c] = IF @ = t THEN Nobody ELSE @]
        /\ UNCHANGED waiter
     \/ /\ pc[t] \in InIntro
        /\ Go(t, "intros")
        /\ waiter' = [waiter EXCEPT ![c] = IF pc[t] = "wait" /\ @ = "pending" THEN "cancelled" ELSE @]
        /\ UNCHANGED lock
  /\ UNCHANGED <<pos, dir, intro, mine, assoc, nodes, answer, key, sent, net>>

(* _on_rendezvous2: only a pending future takes the answer.                *)
OnRendezvous2(c) ==
  /\ wire[c] # 0
  /\ wire' = [wire EXCEPT ![c] = 0]
  /\ IF waiter[c] = "pending"
       THEN /\ waiter' = [waiter EXCEPT ![c] = "answered"]
            /\ answer' = [answer EXCEPT ![c] = wire[c]]
       ELSE UNCHANGED future
  /\ UNCHANGED <<pos, calls, lock, assoc, nodes, key, sent, base, joined>>

(* A service answers an INTRODUCE1 that carries the current cookie; the    *)
(* rendezvous point joins once.                                            *)
ServiceAnswers(c) ==
  /\ joined[c] = 0 /\ wire[c] = 0
  /\ \E k \in (base[c] + 1)..Len(sent[c]) :
       joined' = [joined EXCEPT ![c] = k] /\ wire' = [wire EXCEPT ![c] = k]
  /\ UNCHANGED <<pos, calls, lock, assoc, nodes, future, key, sent, base>>

(* What the event loop and the timeouts of the code bring about.  The list *)
(* of directories is there without a wait: the guard was chosen from the   *)
(* same consensus document.                                                *)
Run(t) ==
  \/ Acquire(t) \/ Established(t) \/ NextDir(t) \/ NextIntro(t)
  \/ AckFails(t) \/ Acked(t) \/ Complete(t) \/ WaitTimeout(t)

(* What reads from directories: a descriptor of the service, those of the  *)
(* circuit to an introduction point.  None of that has a timeout           *)
(* (consesus.py 279, 345-346, hiddenservice.py 255).                       *)
Reading == {"fetch", "connect"}

Read(t) == NotAvailable(t) \/ Fetched(t) \/ ConnectFails(t) \/ Introduce(t)

Next ==
  \/ \E t \in Tasks : Run(t) \/ Read(t) \/ Raises(t) \/ Interrupt(t)
  \/ \E c \in Circuits : OnRendezvous2(c) \/ ServiceAnswers(c)

Spec == Init /\ [][Next]_vars

FairSpec == Spec /\ \A t \in Tasks : WF_vars(Run(t))

-----------------------------------------------------------------------------
(* A hidden node is appended at most once, for the association, and its    *)
(* keys are those the service answered with, in spite of timeouts, late    *)
(* answers and answers to earlier introductions (circuit.py 448-463).      *)
OneAgreedNode ==
  \A c \in Circuits :
    /\ assoc[c] = Nobody <=> nodes[c] = <<>>
    /\ nodes[c] # <<>> => nodes[c] = <<joined[c]>>

(* A call that goes on to BEGIN does so on a circuit that ends at the      *)
(* service it asked for, whoever extended the circuit (circuit.py          *)
(* 431-436).  Holds for the calls of one circuit, which the lock orders.   *)
ReachedIsAsked ==
  \A t \in Tasks :
    pc[t] = "begin" => /\ assoc[Circ[t]] = Onion[t]
                       /\ sent[Circ[t]][Head(nodes[Circ[t]])] = Onion[t]

(* cells.py 745 "PK_ID  Identifier for Bob's PK": every INTRODUCE1 of a    *)
(* circuit is made out to a service that one of its calls wants, also      *)
(* while other circuits introduce themselves at the same relay.            *)
IntroducesOwn ==
  \A c \in Circuits : \A k \in 1..Len(sent[c]) :
    \E t \in Tasks : Circ[t] = c /\ Onion[t] = sent[c][k]

(* A call always ends, whatever fails and whoever is cancelled, unless it, *)
(* or the one that has its lock, stays in one fetch from a directory or in *)
(* making one circuit (circuit.py 431-465).                                *)
EndsUnlessSilent ==
  \A t \in Tasks :
    pc[t] \in {"idle"} \cup Held ~>
      pc[t] \in Over \/ \E u \in Tasks : Circ[u] = Circ[t] /\ [](pc[u] \in Reading)

=============================================================================
