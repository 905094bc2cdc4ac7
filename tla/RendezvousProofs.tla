-------------------------- MODULE RendezvousProofs --------------------------
(***************************************************************************)
(* Proofs about Rendezvous, for every set of calls, circuits, services and *)
(* relays, and any number of directories and introductions.                *)
(***************************************************************************)
EXTENDS Rendezvous, TLAPS

(* What the proofs use of the constants.                                   *)
LEMMA Constants ==
  /\ Nobody \notin Tasks /\ Nobody \notin Onions
  /\ Circ \in [Tasks -> Circuits] /\ Onion \in [Tasks -> Onions]
BY RendezvousAssumption DEF RendezvousAssumption

(* A directory list has three entries or none for each replica.            *)
LEMMA ResponsiblesLen ==
  ASSUME pos \in [Onions -> Positions], NEW o \in Onions
  PROVE  Responsibles(o) \in Seq(Nat)
<1>1. ASSUME NEW p \in 0..NDirs
      PROVE  Successors(p) \in Seq(Nat)
  <2>1. CASE p = NDirs
    BY <2>1 DEF Successors
  <2>2. CASE p # NDirs
    <3> DEFINE s == [j \in 1..3 |-> ((p + j) % NDirs) + 1]
    <3>1. \A j \in 1..3 : ((p + j) % NDirs) + 1 \in Nat
      BY RendezvousAssumption DEF RendezvousAssumption
    <3>2. s \in [1..3 -> Nat]
      BY <3>1, Zenon
    <3>3. s \in Seq(Nat)
      BY <3>2
    <3> QED BY <2>2, <3>3 DEF Successors
  <2> QED BY <2>1, <2>2
<1>2. pos[o][0] \in 0..NDirs /\ pos[o][1] \in 0..NDirs
  BY RendezvousAssumption DEF RendezvousAssumption
<1> QED BY <1>1, <1>2 DEF Responsibles

(* Who holds the lock is inside extend_to_hidden on that circuit, and who  *)
(* is inside holds the lock.                                               *)
LockInv ==
  /\ \A t \in Tasks : pc[t] \in Held => lock[Circ[t]] = t
  /\ \A c \in Circuits :
       lock[c] # Nobody => Circ[lock[c]] = c /\ pc[lock[c]] \in Held

(* The association is made last, by the holder of the lock.                *)
NodeInv ==
  /\ \A c \in Circuits :
       /\ lock[c] # Nobody => assoc[c] = Nobody
       /\ assoc[c] = Nobody <=> nodes[c] = <<>>
       /\ nodes[c] # <<>> => nodes[c] = <<joined[c]>> /\ joined[c] # 0
  /\ \A t \in Tasks : pc[t] = "begin" => assoc[Circ[t]] = Onion[t]

(* A call that waits for an answer introduced itself after the rendezvous  *)
(* of its circuit was established.                                         *)
SentInv ==
  /\ \A c \in Circuits : base[c] <= Len(sent[c])
  /\ \A t \in Tasks :
       pc[t] \in {"ack", "wait"} => base[Circ[t]] < mine[t] /\ mine[t] <= Len(sent[Circ[t]])

(* What answers an introduction of the current rendezvous is what the      *)
(* rendezvous point joined.                                                *)
AnswerInv ==
  \A c \in Circuits :
    /\ wire[c] <= Len(sent[c]) /\ (wire[c] > base[c] => wire[c] = joined[c])
    /\ answer[c] <= Len(sent[c]) /\ (answer[c] > base[c] => answer[c] = joined[c])

(* The introduction point a call connects to is in its descriptor.         *)
IntroInv ==
  \A t \in Tasks : pc[t] = "connect" => intro[t] \in 1..Len(Intros[Onion[t]])

IInv == TypeOK /\ LockInv /\ NodeInv /\ SentInv /\ AnswerInv /\ IntroInv

(* The type invariant but for the bound on dir, in three parts.            *)
CallType ==
  /\ pc \in [Tasks -> {"idle"} \cup Held \cup Over]
  /\ intro \in [Tasks -> Nat]
  /\ mine \in [Tasks -> Nat]
  /\ lock \in [Circuits -> Tasks \cup {Nobody}]

NodeType ==
  /\ assoc \in [Circuits -> Onions \cup {Nobody}]
  /\ nodes \in [Circuits -> Seq(Nat)]
  /\ waiter \in [Circuits -> {"pending", "answered", "cancelled"}]
  /\ key \in [Relays -> Onions \cup {Nobody}]

NetType ==
  /\ answer \in [Circuits -> Nat]
  /\ sent \in [Circuits -> Seq(Onions \cup {Nobody})]
  /\ base \in [Circuits -> Nat]
  /\ joined \in [Circuits -> Nat]
  /\ wire \in [Circuits -> Nat]

DirType ==
  /\ pos \in [Onions -> Positions]
  /\ dir \in [Tasks -> Nat]
  /\ \A t \in Tasks : dir[t] <= Len(Responsibles(Onion[t]))

LEMMA TypeParts == TypeOK <=> CallType /\ NodeType /\ NetType /\ DirType
BY DEF TypeOK, CallType, NodeType, NetType, DirType

LEMMA InitIInv == Init => IInv
<1> SUFFICES ASSUME Init PROVE IInv
  OBVIOUS
<1>1. CallType /\ NodeType /\ NetType
  BY DEF Init, CallType, NodeType, NetType
<1>2. DirType
  <2>1. ASSUME NEW t \in Tasks PROVE dir[t] <= Len(Responsibles(Onion[t]))
    <3>1. Onion[t] \in Onions
      BY Constants
    <3>2. Len(Responsibles(Onion[t])) \in Nat
      BY <3>1, ResponsiblesLen DEF Init
    <3>3. dir[t] = 0
      BY DEF Init
    <3> QED BY <3>2, <3>3
  <2> QED BY <2>1 DEF Init, DirType
<1>3. LockInv /\ NodeInv /\ SentInv /\ AnswerInv /\ IntroInv
  BY Constants DEF Init, LockInv, NodeInv, SentInv, AnswerInv, IntroInv, Held, InIntro
<1> QED BY <1>1, <1>2, <1>3, TypeParts DEF IInv

(* A directory is only ever taken from what is left of the list.           *)
LEMMA DirStep == DirType /\ [Next]_vars => DirType'
<1> SUFFICES ASSUME DirType, [Next]_vars PROVE DirType'
  OBVIOUS
<1>1. pos' = pos
  BY DEF Next, Run, Read, vars, Acquire, Established, NextDir, NextIntro, ConnectFails, AckFails,
         Swallowed, Introduce, Acked, Complete, WaitTimeout, Raises, NotAvailable, Fetched, Interrupt,
         OnRendezvous2, ServiceAnswers
<1>2. \A o \in Onions : Responsibles(o)' = Responsibles(o)
  BY <1>1 DEF Responsibles
<1>3. ASSUME NEW t \in Tasks PROVE Responsibles(Onion[t]) \in Seq(Nat)
  BY Constants, ResponsiblesLen DEF DirType
<1>4. dir' \in [Tasks -> Nat] /\ \A t \in Tasks : dir'[t] <= Len(Responsibles(Onion[t]))
  <2>1. ASSUME NEW t \in Tasks, NextDir(t)
        PROVE  dir' \in [Tasks -> Nat] /\ \A u \in Tasks : dir'[u] <= Len(Responsibles(Onion[u]))
    <3>1. Len(Responsibles(Onion[t])) \in Nat
      BY <1>3
    <3>2. \/ dir' = dir
          \/ dir[t] < Len(Responsibles(Onion[t])) /\ dir' = [dir EXCEPT ![t] = @ + 1]
      BY <2>1 DEF NextDir
    <3> QED BY <3>1, <3>2 DEF DirType
  <2>2. CASE dir' = dir
    BY <2>2 DEF DirType
  <2> QED
    BY <2>1, <2>2
    DEF Next, Run, Read, vars, calls, Acquire, Established, NextIntro, ConnectFails, AckFails,
        Swallowed, Introduce, Acked, Complete, WaitTimeout, Raises, NotAvailable, Fetched, Interrupt,
        OnRendezvous2, ServiceAnswers
<1>5. \A t \in Tasks : dir'[t] <= Len(Responsibles(Onion[t])')
  BY <1>2, <1>4, Constants
<1> QED BY <1>1, <1>4, <1>5 DEF DirType

(* How a call moves in or out of the lock.                                 *)
LEMMA LockMove ==
  ASSUME CallType, LockInv, NEW t \in Tasks, NEW to,
         pc' = [pc EXCEPT ![t] = to],
         \/ pc[t] \in Held /\ to \in Held /\ lock' = lock
         \/ pc[t] \notin Held /\ to \notin Held /\ lock' = lock
         \/ pc[t] \in Held /\ to \notin Held /\ lock' = [lock EXCEPT ![Circ[t]] = Nobody]
         \/ /\ pc[t] \notin Held /\ to \in Held /\ lock[Circ[t]] = Nobody
            /\ lock' = [lock EXCEPT ![Circ[t]] = t]
  PROVE  LockInv'
<1>b. Circ[t] \in Circuits /\ \A u \in Tasks : Circ[u] \in Circuits /\ u # Nobody
  BY Constants, Zenon
<1> USE Constants DEF CallType, LockInv
<1> HIDE DEF Held
<1>a. pc'[t] = to /\ \A u \in Tasks : u # t => pc'[u] = pc[u]
  OBVIOUS
<1>1. ASSUME NEW u \in Tasks, pc'[u] \in Held PROVE lock'[Circ[u]] = u
  <2>1. CASE u = t
    <3>1. to \in Held /\ Circ[t] \in Circuits
      BY <1>1, <1>a, <1>b, <2>1
    <3>2. CASE pc[t] \in Held
      BY <2>1, <3>1, <3>2
    <3>3. CASE pc[t] \notin Held
      <4>1. lock' = [lock EXCEPT ![Circ[t]] = t]
        BY <3>1, <3>3
      <4> QED BY <2>1, <3>1, <4>1
    <3> QED BY <3>2, <3>3
  <2>2. CASE u # t
    <3>1. pc[u] \in Held /\ lock[Circ[u]] = u /\ u # Nobody
      BY <1>1, <1>a, <1>b, <2>2
    <3>2. CASE Circ[u] # Circ[t]
      BY <1>b, <3>1, <3>2
    <3>3. CASE Circ[u] = Circ[t]
      <4>1. lock[Circ[t]] = u
        BY <3>1, <3>3
      <4>2. pc[t] \notin Held
        BY <2>2, <4>1
      <4>3. lock' = lock
        BY <3>1, <4>1, <4>2
      <4> QED BY <3>1, <4>3
    <3> QED BY <3>2, <3>3
  <2> QED BY <2>1, <2>2
<1>2. ASSUME NEW c \in Circuits, lock'[c] # Nobody
      PROVE  Circ[lock'[c]] = c /\ pc'[lock'[c]] \in Held
  <2>1. CASE c = Circ[t]
    BY <1>2, <2>1
  <2>2. CASE c # Circ[t]
    <3>1. lock'[c] = lock[c] /\ lock[c] \in Tasks
      BY <1>2, <2>2
    <3> QED BY <1>2, <2>2, <3>1
  <2> QED BY <2>1, <2>2
<1> QED BY <1>1, <1>2

(* One step keeps everything but DirType.                                  *)
LEMMA RestStep ==
  ASSUME IInv, [Next]_vars
  PROVE  CallType' /\ NodeType' /\ NetType' /\ LockInv' /\ NodeInv' /\ SentInv' /\ AnswerInv'
         /\ IntroInv'
<1> DEFINE Goal == CallType /\ NodeType /\ NetType /\ LockInv /\ NodeInv /\ SentInv /\ AnswerInv /\ IntroInv
<1>1. CallType /\ NodeType /\ NetType /\ LockInv /\ NodeInv /\ SentInv /\ AnswerInv /\ IntroInv
  BY TypeParts DEF IInv
<1> USE <1>1, Constants DEF Held, InIntro, Over, calls, future, net, Go, Release
<1>2. ASSUME NEW t \in Tasks, Acquire(t) PROVE Goal'
  <2>1. NodeType' /\ NetType' /\ AnswerInv'
    BY <1>2 DEF Acquire, NodeType, NetType, AnswerInv
  <2>2. CallType'
    BY <1>2 DEF Acquire, CallType
  <2>3. LockInv'
    BY <1>2, LockMove DEF Acquire, CallType
  <2>4. NodeInv'
    BY <1>2, SMTT(40) DEF Acquire, NodeInv, LockInv, CallType, NodeType, NetType
  <2>5. SentInv'
    BY <1>2 DEF Acquire, SentInv, LockInv, CallType, NetType
  <2>6. IntroInv'
    BY <1>2 DEF Acquire, IntroInv, CallType
  <2> QED BY <2>1, <2>2, <2>3, <2>4, <2>5, <2>6
<1>3. ASSUME NEW t \in Tasks, Established(t) PROVE Goal'
  <2>1. NodeType'
    BY <1>3 DEF Established, NodeType
  <2>2. CallType'
    BY <1>3 DEF Established, CallType
  <2>3. NetType'
    BY <1>3 DEF Established, NetType, CallType
  <2>4. LockInv'
    BY <1>3, LockMove DEF Established, CallType
  <2>5. NodeInv'
    BY <1>3, SMTT(40) DEF Established, NodeInv, LockInv, CallType, NodeType, NetType
  <2>6. SentInv'
    BY <1>3, SMTT(40) DEF Established, SentInv, LockInv, CallType, NetType
  <2>7. AnswerInv'
    BY <1>3 DEF Established, AnswerInv, LockInv, SentInv, NetType, CallType
  <2>8. IntroInv'
    BY <1>3 DEF Established, IntroInv, CallType
  <2> QED BY <2>1, <2>2, <2>3, <2>4, <2>5, <2>6, <2>7, <2>8
<1>4. ASSUME NEW t \in Tasks, NextDir(t) PROVE Goal'
  <2>1. NodeType' /\ NetType' /\ AnswerInv'
    BY <1>4 DEF NextDir, NodeType, NetType, AnswerInv
  <2>2. CallType'
    BY <1>4 DEF NextDir, CallType
  <2>3. LockInv'
    BY <1>4, LockMove DEF NextDir, CallType
  <2>4. NodeInv'
    BY <1>4 DEF NextDir, NodeInv, LockInv, CallType, NodeType, NetType
  <2>5. SentInv'
    BY <1>4 DEF NextDir, SentInv, LockInv, CallType, NetType
  <2>6. IntroInv'
    BY <1>4 DEF NextDir, IntroInv, CallType
  <2> QED BY <2>1, <2>2, <2>3, <2>4, <2>5, <2>6
<1>5. ASSUME NEW t \in Tasks, NextIntro(t) PROVE Goal'
  <2>1. NetType' /\ AnswerInv'
    BY <1>5 DEF NextIntro, NetType, AnswerInv
  <2>2. CallType'
    <3>1. /\ lock' = lock /\ mine' = mine
          /\ intro' = intro \/ intro' = [intro EXCEPT ![t] = @ + 1]
          /\ pc' = [pc EXCEPT ![t] = "connect"] \/ pc' = [pc EXCEPT ![t] = "dirs"]
      BY <1>5 DEF NextIntro
    <3> QED BY <3>1 DEF CallType
  <2>3. NodeType'
    <3>1. /\ assoc' = assoc /\ nodes' = nodes /\ waiter' = waiter
          /\ key' = key \/ \E r : key' = [key EXCEPT ![r] = Onion[t]]
      BY <1>5 DEF NextIntro
    <3>2. Onion[t] \in Onions
      BY Constants
    <3> QED BY <3>1, <3>2 DEF NodeType
  <2>4. LockInv'
    BY <1>5, LockMove DEF NextIntro, CallType
  <2>5. NodeInv'
    BY <1>5 DEF NextIntro, NodeInv, LockInv, CallType, NodeType, NetType
  <2>6. SentInv'
    BY <1>5, SMTT(40) DEF NextIntro, SentInv, LockInv, CallType, NetType
  <2>7. IntroInv'
    <3>1. CASE intro[t] < Len(Intros[Onion[t]])
      <4>1. /\ pc' = [pc EXCEPT ![t] = "connect"]
            /\ intro' = [intro EXCEPT ![t] = @ + 1]
        BY <1>5, <3>1 DEF NextIntro
      <4>2. intro[t] + 1 \in 1..Len(Intros[Onion[t]])
        <5>1. Onion[t] \in Onions
          BY Constants
        <5>2. Len(Intros[Onion[t]]) \in Nat
          BY <5>1, RendezvousAssumption DEF RendezvousAssumption
        <5> QED BY <3>1, <5>2 DEF CallType
      <4> QED BY <4>1, <4>2 DEF IntroInv, CallType
    <3>2. CASE ~(intro[t] < Len(Intros[Onion[t]]))
      <4>1. pc' = [pc EXCEPT ![t] = "dirs"] /\ intro' = intro
        BY <1>5, <3>2 DEF NextIntro
      <4> QED BY <4>1 DEF IntroInv, CallType
    <3> QED BY <3>1, <3>2
  <2> QED BY <2>1, <2>2, <2>3, <2>4, <2>5, <2>6, <2>7
<1>6. ASSUME NEW t \in Tasks, ConnectFails(t) \/ AckFails(t) PROVE Goal'
  <2>1. NodeType' /\ NetType' /\ AnswerInv'
    BY <1>6 DEF ConnectFails, AckFails, Swallowed, NodeType, NetType, AnswerInv
  <2>2. CallType'
    BY <1>6 DEF ConnectFails, AckFails, Swallowed, CallType
  <2>3. LockInv'
    BY <1>6, LockMove DEF ConnectFails, AckFails, Swallowed, CallType
  <2>4. NodeInv'
    <3>1. /\ pc' = [pc EXCEPT ![t] = "intros"]
          /\ UNCHANGED <<lock, assoc, nodes, joined>>
      BY <1>6 DEF ConnectFails, AckFails, Swallowed, Go, net
    <3> QED BY <3>1 DEF NodeInv, CallType
  <2>5. SentInv'
    BY <1>6 DEF ConnectFails, AckFails, Swallowed, SentInv, LockInv, CallType, NetType
  <2>6. IntroInv'
    BY <1>6 DEF ConnectFails, AckFails, Swallowed, IntroInv, CallType
  <2> QED BY <2>1, <2>2, <2>3, <2>4, <2>5, <2>6
<1>7. ASSUME NEW t \in Tasks, Introduce(t) PROVE Goal'
  <2>1. NodeType'
    BY <1>7 DEF Introduce, NodeType
  <2>2. CallType'
    BY <1>7 DEF Introduce, CallType
  <2>3. NetType'
    <3> DEFINE k == key[Intros[Onion[t]][intro[t]]]
    <3>1. intro[t] \in 1..Len(Intros[Onion[t]]) /\ Onion[t] \in Onions
      BY <1>7, Constants DEF Introduce, IntroInv
    <3>2. Intros[Onion[t]] \in Seq(Relays)
      BY <3>1, RendezvousAssumption DEF RendezvousAssumption
    <3>3. Intros[Onion[t]][intro[t]] \in Relays
      BY <3>1, <3>2
    <3>4. k \in Onions \cup {Nobody}
      BY <3>3 DEF NodeType
    <3>5. /\ sent' = [sent EXCEPT ![Circ[t]] = Append(@, k)]
          /\ answer' = answer /\ base' = base /\ joined' = joined /\ wire' = wire
      BY <1>7 DEF Introduce
    <3> HIDE DEF k
    <3> QED BY <3>4, <3>5 DEF NetType
  <2>4. LockInv'
    BY <1>7, LockMove DEF Introduce, CallType
  <2>5. NodeInv'
    BY <1>7 DEF Introduce, NodeInv, LockInv, CallType, NodeType, NetType
  <2>6. SentInv'
    BY <1>7, SMTT(40) DEF Introduce, SentInv, LockInv, CallType, NetType
  <2>7. AnswerInv'
    BY <1>7 DEF Introduce, AnswerInv, LockInv, SentInv, NetType, CallType
  <2>8. IntroInv'
    BY <1>7 DEF Introduce, IntroInv, CallType
  <2> QED BY <2>1, <2>2, <2>3, <2>4, <2>5, <2>6, <2>7, <2>8
<1>8. ASSUME NEW t \in Tasks, Acked(t) PROVE Goal'
  <2>1. NodeType' /\ NetType' /\ AnswerInv'
    BY <1>8 DEF Acked, NodeType, NetType, AnswerInv
  <2>2. CallType'
    BY <1>8 DEF Acked, CallType
  <2>3. LockInv'
    BY <1>8, LockMove DEF Acked, CallType
  <2>4. NodeInv'
    <3>1. /\ lock' = lock /\ assoc' = assoc /\ nodes' = nodes /\ joined' = joined
          /\ pc' = [pc EXCEPT ![t] = "intros"] \/ pc' = [pc EXCEPT ![t] = "wait"]
      BY <1>8 DEF Acked
    <3> QED BY <3>1 DEF NodeInv, CallType
  <2>5. SentInv'
    BY <1>8 DEF Acked, SentInv, LockInv, CallType, NetType
  <2>6. IntroInv'
    BY <1>8 DEF Acked, IntroInv, CallType
  <2> QED BY <2>1, <2>2, <2>3, <2>4, <2>5, <2>6
<1>9. ASSUME NEW t \in Tasks, Complete(t) PROVE Goal'
  <2>1. NetType' /\ AnswerInv'
    BY <1>9 DEF Complete, NetType, AnswerInv
  <2>2. CallType'
    <3>1. /\ intro' = intro /\ mine' = mine
          /\ lock' = lock \/ lock' = [lock EXCEPT ![Circ[t]] = Nobody]
          /\ pc' = [pc EXCEPT ![t] = "begin"] \/ pc' = [pc EXCEPT ![t] = "intros"]
      BY <1>9 DEF Complete
    <3> QED BY <3>1 DEF CallType
  <2>3. NodeType'
    <3>1. mine[t] \in Nat /\ Onion[t] \in Onions
      BY Constants DEF CallType
    <3>2. CASE answer[Circ[t]] = mine[t]
      <4>1. /\ waiter' = waiter /\ key' = key
            /\ assoc' = [assoc EXCEPT ![Circ[t]] = Onion[t]]
            /\ nodes' = [nodes EXCEPT ![Circ[t]] = Append(@, mine[t])]
        BY <1>9, <3>2 DEF Complete
      <4>2. nodes' \in [Circuits -> Seq(Nat)]
        BY <3>1, <4>1 DEF NodeType
      <4> QED BY <3>1, <4>1, <4>2 DEF NodeType
    <3>3. CASE answer[Circ[t]] # mine[t]
      <4>1. waiter' = waiter /\ key' = key /\ assoc' = assoc /\ nodes' = nodes
        BY <1>9, <3>3 DEF Complete
      <4> QED BY <4>1 DEF NodeType
    <3> QED BY <3>2, <3>3
  <2>4. LockInv'
    BY <1>9, LockMove DEF Complete, CallType
  <2>5. NodeInv'
    <3>1. /\ pc[t] = "wait" /\ Circ[t] \in Circuits /\ joined' = joined
          /\ lock[Circ[t]] = t /\ t # Nobody
      BY <1>9 DEF Complete, LockInv
    <3>2. assoc[Circ[t]] = Nobody /\ nodes[Circ[t]] = <<>>
      BY <3>1 DEF NodeInv
    <3>3. CASE answer[Circ[t]] = mine[t]
      <4>1. /\ nodes' = [nodes EXCEPT ![Circ[t]] = Append(@, mine[t])]
            /\ assoc' = [assoc EXCEPT ![Circ[t]] = Onion[t]]
            /\ pc' = [pc EXCEPT ![t] = "begin"]
            /\ lock' = [lock EXCEPT ![Circ[t]] = Nobody]
        BY <1>9, <3>3 DEF Complete
      <4>2. mine[t] = joined[Circ[t]] /\ joined[Circ[t]] # 0
        <5>1. base[Circ[t]] < mine[t]
          BY <3>1 DEF SentInv
        <5>2. base[Circ[t]] \in Nat /\ mine[t] \in Nat
          BY <3>1 DEF NetType, CallType
        <5> QED BY <3>1, <3>3, <5>1, <5>2 DEF AnswerInv
      <4>3. Append(nodes[Circ[t]], mine[t]) = <<joined[Circ[t]]>>
        BY <3>2, <4>2
      <4>4. nodes' = [nodes EXCEPT ![Circ[t]] = <<joined[Circ[t]]>>]
        BY <4>1, <4>3
      <4>5. Onion[t] \in Onions /\ Onion[t] # Nobody
        BY Constants
      <4>6. ASSUME NEW u \in Tasks, pc'[u] = "begin" PROVE assoc'[Circ[u]] = Onion[u]
        <5>1. CASE u = t
          BY <3>1, <4>1, <5>1 DEF NodeType
        <5>2. CASE u # t
          <6>1. pc[u] = "begin" /\ assoc[Circ[u]] = Onion[u] /\ Onion[u] # Nobody
            BY <4>1, <4>6, <5>2 DEF NodeInv, CallType
          <6>2. Circ[u] # Circ[t]
            BY <3>2, <6>1
          <6> QED BY <4>1, <6>1, <6>2 DEF NodeType
        <5> QED BY <5>1, <5>2
      <4>7. ASSUME NEW c \in Circuits
            PROVE  /\ lock'[c] # Nobody => assoc'[c] = Nobody
                   /\ assoc'[c] = Nobody <=> nodes'[c] = <<>>
                   /\ nodes'[c] # <<>> => nodes'[c] = <<joined[c]>> /\ joined[c] # 0
        <5>1. CASE c = Circ[t]
          <6>1. lock'[c] = Nobody /\ assoc'[c] # Nobody /\ nodes'[c] = <<joined[c]>>
            BY <3>1, <4>1, <4>4, <4>5, <5>1 DEF CallType, NodeType
          <6> QED BY <4>2, <5>1, <6>1
        <5>2. CASE c # Circ[t]
          <6>1. lock'[c] = lock[c] /\ assoc'[c] = assoc[c] /\ nodes'[c] = nodes[c]
            BY <4>1, <5>2 DEF CallType, NodeType
          <6> QED BY <6>1 DEF NodeInv
        <5> QED BY <5>1, <5>2
      <4> QED BY <3>1, <4>6, <4>7 DEF NodeInv
    <3>4. CASE answer[Circ[t]] # mine[t]
      BY <1>9, <3>1, <3>4 DEF Complete, NodeInv, CallType
    <3> QED BY <3>3, <3>4
  <2>6. SentInv'
    BY <1>9 DEF Complete, SentInv, LockInv, CallType, NetType
  <2>7. IntroInv'
    BY <1>9 DEF Complete, IntroInv, CallType
  <2> QED BY <2>1, <2>2, <2>3, <2>4, <2>5, <2>6, <2>7
<1>10. ASSUME NEW t \in Tasks, WaitTimeout(t) PROVE Goal'
  <2>1. NetType' /\ AnswerInv'
    BY <1>10 DEF WaitTimeout, NetType, AnswerInv
  <2>2. CallType'
    BY <1>10 DEF WaitTimeout, CallType
  <2>3. NodeType'
    BY <1>10 DEF WaitTimeout, NodeType, CallType
  <2>4. LockInv'
    BY <1>10, LockMove DEF WaitTimeout, CallType
  <2>5. NodeInv'
    BY <1>10 DEF WaitTimeout, NodeInv, LockInv, CallType, NodeType, NetType
  <2>6. SentInv'
    BY <1>10 DEF WaitTimeout, SentInv, LockInv, CallType, NetType
  <2>7. IntroInv'
    BY <1>10 DEF WaitTimeout, IntroInv, CallType
  <2> QED BY <2>1, <2>2, <2>3, <2>4, <2>5, <2>6, <2>7
<1>11. ASSUME NEW t \in Tasks, Raises(t) PROVE Goal'
  <2>1. NodeType' /\ NetType' /\ AnswerInv'
    BY <1>11 DEF Raises, NodeType, NetType, AnswerInv
  <2>2. CallType'
    BY <1>11 DEF Raises, CallType
  <2>3. LockInv'
    BY <1>11, LockMove DEF Raises, CallType
  <2>4. NodeInv'
    BY <1>11 DEF Raises, NodeInv, LockInv, CallType, NodeType, NetType
  <2>5. SentInv'
    BY <1>11 DEF Raises, SentInv, LockInv, CallType, NetType
  <2>6. IntroInv'
    BY <1>11 DEF Raises, IntroInv, CallType
  <2> QED BY <2>1, <2>2, <2>3, <2>4, <2>5, <2>6
<1>12. ASSUME NEW t \in Tasks, NotAvailable(t) PROVE Goal'
  <2>1. NodeType' /\ NetType' /\ AnswerInv'
    BY <1>12 DEF NotAvailable, NodeType, NetType, AnswerInv
  <2>2. CallType'
    BY <1>12 DEF NotAvailable, CallType
  <2>3. LockInv'
    BY <1>12, LockMove DEF NotAvailable, CallType
  <2>4. NodeInv'
    BY <1>12 DEF NotAvailable, NodeInv, LockInv, CallType, NodeType, NetType
  <2>5. SentInv'
    BY <1>12 DEF NotAvailable, SentInv, LockInv, CallType, NetType
  <2>6. IntroInv'
    BY <1>12 DEF NotAvailable, IntroInv, CallType
  <2> QED BY <2>1, <2>2, <2>3, <2>4, <2>5, <2>6
<1>13. ASSUME NEW t \in Tasks, Fetched(t) PROVE Goal'
  <2>1. NodeType' /\ NetType' /\ AnswerInv'
    BY <1>13 DEF Fetched, NodeType, NetType, AnswerInv
  <2>2. CallType'
    BY <1>13 DEF Fetched, CallType
  <2>3. LockInv'
    BY <1>13, LockMove DEF Fetched, CallType
  <2>4. NodeInv'
    BY <1>13 DEF Fetched, NodeInv, LockInv, CallType, NodeType, NetType
  <2>5. SentInv'
    BY <1>13 DEF Fetched, SentInv, LockInv, CallType, NetType
  <2>6. IntroInv'
    BY <1>13 DEF Fetched, IntroInv, CallType
  <2> QED BY <2>1, <2>2, <2>3, <2>4, <2>5, <2>6
<1>14. ASSUME NEW t \in Tasks, Interrupt(t) PROVE Goal'
  <2>1. NetType' /\ AnswerInv'
    BY <1>14 DEF Interrupt, NetType, AnswerInv
  <2>2. CallType'
    BY <1>14 DEF Interrupt, CallType
  <2>3. NodeType'
    BY <1>14 DEF Interrupt, NodeType, CallType
  <2>4. LockInv'
    <3>1. CASE pc[t] \in InIntro
      <4>1. lock' = lock /\ pc' = [pc EXCEPT ![t] = "intros"]
        BY <1>14, <3>1 DEF Interrupt
      <4> QED BY <3>1, <4>1, LockMove
    <3>2. CASE pc[t] = "idle"
      <4>1. lock[Circ[t]] # t
        BY <3>2 DEF LockInv
      <4>2. lock' = lock /\ pc' = [pc EXCEPT ![t] = "cancelled"]
        BY <1>14, <3>2, <4>1 DEF Interrupt, CallType
      <4> QED BY <3>2, <4>2, LockMove
    <3>3. CASE pc[t] \in {"establish", "fetch"}
      <4>1. lock[Circ[t]] = t
        BY <3>3 DEF LockInv
      <4>2. /\ lock' = [lock EXCEPT ![Circ[t]] = Nobody]
            /\ pc' = [pc EXCEPT ![t] = "cancelled"]
        BY <1>14, <3>3, <4>1 DEF Interrupt, CallType
      <4> QED BY <3>3, <4>2, LockMove
    <3> QED BY <1>14, <3>1, <3>2, <3>3 DEF Interrupt
  <2>5. NodeInv'
    <3>1. /\ assoc' = assoc /\ nodes' = nodes /\ joined' = joined
          /\ pc' = [pc EXCEPT ![t] = "intros"] \/ pc' = [pc EXCEPT ![t] = "cancelled"]
          /\ \A c \in Circuits : lock'[c] = lock[c] \/ lock'[c] = Nobody
      BY <1>14 DEF Interrupt, CallType
    <3> QED BY <3>1 DEF NodeInv, CallType
  <2>6. SentInv'
    BY <1>14 DEF Interrupt, SentInv, LockInv, CallType, NetType
  <2>7. IntroInv'
    BY <1>14 DEF Interrupt, IntroInv, CallType
  <2> QED BY <2>1, <2>2, <2>3, <2>4, <2>5, <2>6, <2>7
<1>15. ASSUME NEW c \in Circuits, OnRendezvous2(c) PROVE Goal'
  <2>1. CallType' /\ LockInv' /\ NodeInv' /\ SentInv' /\ IntroInv'
    BY <1>15 DEF OnRendezvous2, CallType, LockInv, NodeInv, SentInv, IntroInv
  <2>2. NodeType'
    BY <1>15 DEF OnRendezvous2, NodeType, CallType
  <2>3. NetType'
    BY <1>15 DEF OnRendezvous2, NetType, CallType
  <2>4. AnswerInv'
    BY <1>15 DEF OnRendezvous2, AnswerInv, LockInv, SentInv, NetType, CallType
  <2> QED BY <2>1, <2>2, <2>3, <2>4
<1>17. ASSUME NEW c \in Circuits, ServiceAnswers(c) PROVE Goal'
  <2>1. CallType' /\ NodeType' /\ LockInv' /\ SentInv' /\ IntroInv'
    BY <1>17 DEF ServiceAnswers, CallType, NodeType, LockInv, SentInv, IntroInv
  <2>2. NetType'
    BY <1>17 DEF ServiceAnswers, NetType, CallType
  <2>3. NodeInv'
    BY <1>17 DEF ServiceAnswers, NodeInv, LockInv, CallType, NodeType, NetType
  <2>4. AnswerInv'
    BY <1>17 DEF ServiceAnswers, AnswerInv, LockInv, SentInv, NetType, CallType
  <2> QED BY <2>1, <2>2, <2>3, <2>4
<1>16. CASE UNCHANGED vars
  BY <1>16 DEF vars, CallType, NodeType, NetType, LockInv, NodeInv, SentInv, AnswerInv, IntroInv
<1> QED
  BY <1>2, <1>3, <1>4, <1>5, <1>6, <1>7, <1>8, <1>9, <1>10, <1>11, <1>12, <1>13, <1>14, <1>15,
     <1>17, <1>16, Zenon DEF Next, Run, Read

LEMMA Inductive == Spec => []IInv
<1>1. IInv /\ [Next]_vars => IInv'
  <2> SUFFICES ASSUME IInv, [Next]_vars PROVE IInv'
    OBVIOUS
  <2>1. DirType'
    BY DirStep, TypeParts DEF IInv
  <2>2. (TypeOK <=> CallType /\ NodeType /\ NetType /\ DirType)'
    BY DEF TypeOK, CallType, NodeType, NetType, DirType
  <2> QED BY <2>1, <2>2, RestStep DEF IInv
<1> QED BY <1>1, InitIInv, PTL DEF Spec

(* Type correctness: in particular no call takes more directories than it  *)
(* was given (circuit.py 446-447).                                         *)
THEOREM TypeCorrect == Spec => []TypeOK
BY Inductive, PTL DEF IInv

(* A circuit gets one hidden node at most, with the keys the service it    *)
(* was made for answered with, however calls, timeouts and answers         *)
(* interleave (circuit.py 448-463).                                        *)
THEOREM NodeAgreed == Spec => []OneAgreedNode
<1>1. IInv => OneAgreedNode
  BY DEF IInv, NodeInv, OneAgreedNode
<1> QED BY <1>1, Inductive, PTL

(* The calls of a circuit extend it one at a time, and none does so once   *)
(* it is associated (circuit.py 431-436).                                  *)
LockExcludes ==
  \A t, u \in Tasks :
    pc[t] \in Held /\ pc[u] \in Held /\ Circ[t] = Circ[u] =>
      t = u /\ assoc[Circ[t]] = Nobody

THEOREM OneAtATime == Spec => []LockExcludes
<1>1. IInv => LockExcludes
  <2> SUFFICES ASSUME IInv, NEW t \in Tasks, NEW u \in Tasks,
                      pc[t] \in Held, pc[u] \in Held, Circ[t] = Circ[u]
               PROVE  t = u /\ assoc[Circ[t]] = Nobody
    BY DEF LockExcludes
  <2>1. lock[Circ[t]] = t /\ lock[Circ[u]] = u
    BY DEF IInv, LockInv
  <2>2. Circ[t] \in Circuits /\ t # Nobody
    BY Constants, Zenon
  <2> QED BY <2>1, <2>2 DEF IInv, NodeInv
<1> QED BY <1>1, Inductive, PTL

(* The calls of one circuit: what each introduced itself with is the       *)
(* service it asked for, and so is what the circuit ends at.               *)
OneCircuit == \A t, u \in Tasks : Circ[t] = Circ[u]

AskedInv ==
  /\ \A t \in Tasks : pc[t] = "connect" => key[Intros[Onion[t]][intro[t]]] = Onion[t]
  /\ \A t \in Tasks : pc[t] \in {"ack", "wait"} => sent[Circ[t]][mine[t]] = Onion[t]
  /\ \A c \in Circuits :
       assoc[c] # Nobody => joined[c] \in 1..Len(sent[c]) /\ sent[c][joined[c]] = assoc[c]

LEMMA AskedStep ==
  ASSUME OneCircuit, IInv, AskedInv, [Next]_vars
  PROVE  AskedInv'
<1>1. CallType /\ NodeType /\ NetType /\ LockInv /\ NodeInv /\ SentInv /\ AnswerInv /\ IntroInv
  BY TypeParts DEF IInv
<1>2. \A t, u \in Tasks : pc[t] \in Held /\ pc[u] \in Held => t = u
  BY <1>1 DEF LockInv, OneCircuit
<1>3. \A t \in Tasks : Onion[t] \in Onions /\ Onion[t] # Nobody /\ Circ[t] \in Circuits /\ t # Nobody
  BY Constants
<1>4. ASSUME NEW t \in Tasks, pc[t] \in Held
      PROVE  assoc[Circ[t]] = Nobody
  BY <1>1, <1>3, <1>4 DEF LockInv, NodeInv
<1>5. ASSUME NEW t \in Tasks, NextIntro(t) PROVE AskedInv'
  <2>1. /\ pc[t] = "intros" /\ sent' = sent /\ mine' = mine /\ assoc' = assoc /\ joined' = joined
        /\ \A u \in Tasks : pc'[u] \in {"ack", "wait"} => pc[u] \in {"ack", "wait"}
    BY <1>1, <1>5 DEF NextIntro, CallType, Go, net
  <2>2. ASSUME NEW u \in Tasks, pc'[u] = "connect"
        PROVE  key'[Intros[Onion[u]][intro'[u]]] = Onion[u]
    <3>1. u = t
      <4>1. u # t => pc'[u] = pc[u]
        BY <1>1, <1>5 DEF NextIntro, CallType, Go
      <4> QED BY <1>2, <2>1, <2>2, <4>1 DEF Held, InIntro
    <3>2. intro[t] < Len(Intros[Onion[t]])
      BY <1>1, <1>5, <2>2, <3>1 DEF NextIntro, CallType, Go
    <3>3. /\ intro' = [intro EXCEPT ![t] = @ + 1]
          /\ key' = [key EXCEPT ![Intros[Onion[t]][intro[t] + 1]] = Onion[t]]
      BY <1>5, <3>2 DEF NextIntro
    <3>4. intro[t] \in Nat /\ intro'[t] = intro[t] + 1
      BY <1>1, <3>3 DEF CallType
    <3>5. Intros[Onion[t]] \in Seq(Relays)
      BY <1>3, RendezvousAssumption DEF RendezvousAssumption
    <3>6. Intros[Onion[t]][intro[t] + 1] \in Relays
      BY <3>2, <3>4, <3>5
    <3> QED BY <1>1, <3>1, <3>3, <3>4, <3>6 DEF NodeType
  <2> QED BY <2>1, <2>2 DEF AskedInv
<1>6. ASSUME NEW t \in Tasks, Introduce(t) PROVE AskedInv'
  <2> DEFINE k == key[Intros[Onion[t]][intro[t]]]
  <2>1. /\ pc[t] = "connect" /\ pc' = [pc EXCEPT ![t] = "ack"]
        /\ sent' = [sent EXCEPT ![Circ[t]] = Append(@, k)]
        /\ mine' = [mine EXCEPT ![t] = Len(sent[Circ[t]]) + 1]
        /\ key' = key /\ intro' = intro /\ assoc' = assoc /\ joined' = joined
    BY <1>6 DEF Introduce, Go, net
  <2>2. k = Onion[t]
    BY <2>1 DEF AskedInv
  <2>3. sent[Circ[t]] \in Seq(Onions \cup {Nobody})
    BY <1>1, <1>3 DEF NetType
  <2> HIDE DEF k
  <2>4. ASSUME NEW u \in Tasks, pc'[u] = "connect"
        PROVE  key'[Intros[Onion[u]][intro'[u]]] = Onion[u]
    BY <1>1, <2>1, <2>4 DEF AskedInv, CallType
  <2>5. ASSUME NEW u \in Tasks, pc'[u] \in {"ack", "wait"}
        PROVE  sent'[Circ[u]][mine'[u]] = Onion[u]
    <3>1. u = t
      <4>1. u # t => pc'[u] = pc[u]
        BY <1>1, <2>1 DEF CallType
      <4> QED BY <1>2, <2>1, <2>5, <4>1 DEF Held, InIntro
    <3>2. mine'[t] = Len(sent[Circ[t]]) + 1
      BY <1>1, <2>1 DEF CallType
    <3>3. sent'[Circ[t]] = Append(sent[Circ[t]], k)
      BY <1>1, <1>3, <2>1 DEF NetType
    <3>4. Append(sent[Circ[t]], k)[Len(sent[Circ[t]]) + 1] = k
      BY <2>2, <2>3, <1>3
    <3> QED BY <2>2, <3>1, <3>2, <3>3, <3>4
  <2>6. ASSUME NEW c \in Circuits, assoc'[c] # Nobody
        PROVE  joined'[c] \in 1..Len(sent'[c]) /\ sent'[c][joined'[c]] = assoc'[c]
    <3>1. c # Circ[t]
      BY <1>4, <2>1, <2>6 DEF Held, InIntro
    <3>2. sent'[c] = sent[c]
      BY <1>1, <2>1, <3>1 DEF NetType
    <3> QED BY <2>1, <2>6, <3>2 DEF AskedInv
  <2> QED BY <2>4, <2>5, <2>6 DEF AskedInv
<1>7. ASSUME NEW t \in Tasks, Complete(t) PROVE AskedInv'
  <2>1. /\ pc[t] = "wait" /\ joined' = joined /\ sent' = sent /\ mine' = mine
        /\ intro' = intro /\ key' = key /\ Circ[t] \in Circuits
    BY <1>3, <1>7 DEF Complete, net
  <2>2. \A u \in Tasks : pc'[u] = pc[u] \/ pc'[u] \in {"begin", "intros"}
    BY <1>1, <1>7 DEF Complete, CallType, Go
  <2>3. ASSUME NEW c \in Circuits, assoc'[c] # Nobody
        PROVE  joined[c] \in 1..Len(sent[c]) /\ sent[c][joined[c]] = assoc'[c]
    <3>1. CASE assoc'[c] = assoc[c]
      BY <2>3, <3>1 DEF AskedInv
    <3>2. CASE assoc'[c] # assoc[c]
      <4>1. answer[Circ[t]] = mine[t]
        BY <1>7, <3>2 DEF Complete
      <4>2. c = Circ[t] /\ assoc'[c] = Onion[t]
        BY <1>1, <1>7, <3>2, <4>1 DEF Complete, NodeType
      <4>3. base[c] < mine[t] /\ mine[t] <= Len(sent[c]) /\ sent[c][mine[t]] = Onion[t]
        BY <1>1, <2>1, <4>2 DEF SentInv, AskedInv
      <4>4. base[c] \in Nat /\ mine[t] \in Nat /\ Len(sent[c]) \in Nat
        BY <1>1 DEF NetType, CallType
      <4>5. answer[c] = joined[c]
        BY <1>1, <4>1, <4>2, <4>3, <4>4 DEF AnswerInv
      <4> QED BY <4>1, <4>2, <4>3, <4>4, <4>5
    <3> QED BY <3>1, <3>2
  <2> QED BY <2>1, <2>2, <2>3 DEF AskedInv
<1>8. ASSUME NEW t \in Tasks, Established(t) PROVE AskedInv'
  <2>1. /\ pc[t] = "establish" /\ pc' = [pc EXCEPT ![t] = "dirs"]
        /\ joined' = [joined EXCEPT ![Circ[t]] = 0]
        /\ sent' = sent /\ mine' = mine /\ intro' = intro /\ key' = key /\ assoc' = assoc
    BY <1>8 DEF Established, Go
  <2>2. assoc[Circ[t]] = Nobody
    BY <1>4, <2>1 DEF Held
  <2> QED BY <1>1, <2>1, <2>2 DEF AskedInv, CallType, NetType
<1>9. ASSUME NEW c \in Circuits, ServiceAnswers(c) PROVE AskedInv'
  <2>1. /\ joined[c] = 0 /\ \E k : joined' = [joined EXCEPT ![c] = k]
        /\ pc' = pc /\ sent' = sent /\ mine' = mine /\ intro' = intro /\ key' = key /\ assoc' = assoc
    BY <1>9 DEF ServiceAnswers, calls
  <2>2. \A d \in Circuits : assoc[d] # Nobody => d # c
    BY <2>1 DEF AskedInv
  <2> QED BY <1>1, <2>1, <2>2 DEF AskedInv, NetType
<1>10. ASSUME NEW t \in Tasks,
              \/ Acquire(t) \/ NextDir(t) \/ ConnectFails(t) \/ AckFails(t) \/ Acked(t) \/ WaitTimeout(t)
              \/ Raises(t) \/ NotAvailable(t) \/ Fetched(t) \/ Interrupt(t)
       PROVE  AskedInv'
  <2>1. /\ joined' = joined /\ sent' = sent /\ mine' = mine /\ key' = key /\ assoc' = assoc
        /\ \E to : pc' = [pc EXCEPT ![t] = to] /\ to # "connect"
                   /\ (to \in {"ack", "wait"} => pc[t] \in {"ack", "wait"})
        /\ \A u \in Tasks : u # t => intro'[u] = intro[u]
    BY <1>1, <1>10
    DEF Acquire, NextDir, ConnectFails, AckFails, Swallowed, Acked, WaitTimeout, Raises, NotAvailable,
        Fetched, Interrupt, Go, net, CallType
  <2>2. ASSUME NEW u \in Tasks
        PROVE  /\ pc'[u] = "connect" => pc[u] = "connect" /\ u # t
               /\ pc'[u] \in {"ack", "wait"} => pc[u] \in {"ack", "wait"}
    BY <1>1, <2>1 DEF CallType
  <2> QED BY <2>1, <2>2 DEF AskedInv
<1>11. ASSUME NEW c \in Circuits, OnRendezvous2(c) PROVE AskedInv'
  BY <1>11 DEF OnRendezvous2, AskedInv, calls
<1>12. CASE UNCHANGED vars
  BY <1>12 DEF vars, calls, net, AskedInv
<1> QED
  BY <1>5, <1>6, <1>7, <1>8, <1>9, <1>10, <1>11, <1>12, Zenon DEF Next, Run, Read

(* With one circuit, every call that goes on to BEGIN has a circuit that   *)
(* ends at the service it asked for.  With two circuits the routers they   *)
(* share break this, as the run rendezvous_shared shows.                   *)
THEOREM Reached == ASSUME OneCircuit PROVE Spec => []ReachedIsAsked
<1>1. Init => AskedInv
  BY Constants DEF Init, AskedInv
<1>2. IInv /\ AskedInv /\ [Next]_vars => AskedInv'
  BY AskedStep
<1>3. IInv /\ AskedInv => ReachedIsAsked
  <2> SUFFICES ASSUME IInv, AskedInv, NEW t \in Tasks, pc[t] = "begin"
               PROVE  /\ assoc[Circ[t]] = Onion[t]
                      /\ sent[Circ[t]][Head(nodes[Circ[t]])] = Onion[t]
    BY DEF ReachedIsAsked
  <2>1. Circ[t] \in Circuits /\ Onion[t] # Nobody
    BY Constants
  <2>2. assoc[Circ[t]] = Onion[t]
    BY DEF IInv, NodeInv
  <2>3. nodes[Circ[t]] = <<joined[Circ[t]]>>
    BY <2>1, <2>2 DEF IInv, NodeInv
  <2>4. Head(nodes[Circ[t]]) = joined[Circ[t]]
    BY <2>3
  <2> QED BY <2>1, <2>2, <2>4 DEF AskedInv
<1> QED BY <1>1, <1>2, <1>3, Inductive, PTL DEF Spec

(* What a concatenation of two sequences holds.                            *)
LEMMA ConcatElements ==
  ASSUME NEW S, NEW q \in Seq(S), NEW r \in Seq(S)
  PROVE  /\ Len(q \o r) = Len(q) + Len(r)
         /\ \A i \in 1..Len(q) : (q \o r)[i] = q[i]
         /\ \A i \in 1..Len(r) : (q \o r)[Len(q) + i] = r[i]
OBVIOUS

(* Where a service publishes first: at the first directory above its id.   *)
FirstAbove(o, q) == (pos[o][q] % NDirs) + 1

(* The directories that are asked for a replica.                           *)
AskedAs(o, q) == {Responsibles(o)[i] : i \in {j \in 1..Len(Responsibles(o)) : Replica(j) = q}}

(* Going on by less than a whole round does not come back.                 *)
LEMMA NotBack ==
  ASSUME NEW p \in 0..NDirs, NEW j \in 1..3, NDirs \in Nat, NDirs > 3
  PROVE  (p + j) % NDirs # p % NDirs
<1>1. CASE p = NDirs
  <2>1. (p + j) % NDirs = j
    BY <1>1
  <2>2. p % NDirs = 0
    BY <1>1
  <2> QED BY <2>1, <2>2
<1>2. CASE p < NDirs
  <2>1. p % NDirs = p
    BY <1>2
  <2>2. CASE p + j < NDirs
    BY <2>1, <2>2
  <2>3. CASE p + j >= NDirs
    <3>1. (p + j) % NDirs = p + j - NDirs
      BY <1>2, <2>3
    <3> QED BY <2>1, <3>1
  <2> QED BY <2>2, <2>3
<1> QED BY <1>1, <1>2

(* One round takes three directories, none of them the first above the id, *)
(* or none at all when no fingerprint is above.                            *)
LEMMA OneRound ==
  ASSUME NEW p \in 0..NDirs, NDirs \in Nat, NDirs > 3
  PROVE  /\ Successors(p) \in Seq(Nat)
         /\ p = NDirs => Len(Successors(p)) = 0
         /\ p < NDirs => Len(Successors(p)) = 3
         /\ \A j \in 1..Len(Successors(p)) : j \in 1..3 /\ Successors(p)[j] # (p % NDirs) + 1
<1>1. CASE p = NDirs
  <2>1. Successors(p) = <<>>
    BY <1>1 DEF Successors
  <2>2. <<>> \in Seq(Nat) /\ Len(<<>>) = 0
    OBVIOUS
  <2>3. ~(p < NDirs)
    BY <1>1
  <2> QED BY <2>1, <2>2, <2>3
<1>2. CASE p < NDirs
  <2> DEFINE s == [j \in 1..3 |-> ((p + j) % NDirs) + 1]
  <2>1. \A j \in 1..3 : (p + j) % NDirs \in Nat /\ p % NDirs \in Nat
    OBVIOUS
  <2>2. s \in Seq(Nat) /\ Len(s) = 3
    BY <2>1
  <2>3. \A j \in 1..3 : s[j] # (p % NDirs) + 1
    <3>1. \A j \in 1..3 : (p + j) % NDirs # p % NDirs
      BY NotBack
    <3> QED BY <2>1, <3>1
  <2>4. Successors(p) = s
    BY <1>2 DEF Successors
  <2> HIDE DEF s
  <2>5. Successors(p) \in Seq(Nat) /\ Len(Successors(p)) = 3
    BY <2>2, <2>4
  <2>6. 1..Len(Successors(p)) = 1..3 /\ p # NDirs
    BY <1>2, <2>5
  <2>7. \A j \in 1..3 : Successors(p)[j] # (p % NDirs) + 1
    BY <2>3, <2>4, Zenon
  <2> QED BY <2>5, <2>6, <2>7, Zenon
<1> QED BY <1>1, <1>2

(* What get_responsibles really gives: six directories only if both ids    *)
(* have a fingerprint above them, at most three otherwise.  The directory  *)
(* a service publishes a replica to first, one of the three that keep it,  *)
(* is not asked for that replica, as the walk starts one after it; and if  *)
(* nothing is above the first id, the three found for the second are taken *)
(* for the first, so that none is asked for the second.                    *)
FirstUnasked ==
  \A o \in Onions :
    /\ pos[o][0] < NDirs /\ pos[o][1] < NDirs => Len(Responsibles(o)) = 6
    /\ pos[o][0] = NDirs \/ pos[o][1] = NDirs => Len(Responsibles(o)) <= 3
    /\ \A q \in {0, 1} : FirstAbove(o, q) \in StoredAt(o, q)
    /\ pos[o][0] < NDirs => \A q \in {0, 1} : FirstAbove(o, q) \notin AskedAs(o, q)
    /\ pos[o][0] = NDirs => AskedAs(o, 1) = {}

(* For any number of directories above three, the code does not ask the    *)
(* "6 hidden service directories responsible" (circuit.py 442-443), "2     *)
(* sets of 3" (consesus.py 366): never the first of either set (372), and  *)
(* three or none near the end of the ring (369-374, hiddenservice.py       *)
(* 145-150).                                                               *)
THEOREM FirstNeverAsked == ASSUME NDirs > 3 PROVE Spec => []FirstUnasked
<1>1. ASSUME TypeOK, NEW o \in Onions
      PROVE  /\ pos[o][0] < NDirs /\ pos[o][1] < NDirs => Len(Responsibles(o)) = 6
             /\ pos[o][0] = NDirs \/ pos[o][1] = NDirs => Len(Responsibles(o)) <= 3
             /\ \A q \in {0, 1} : FirstAbove(o, q) \in StoredAt(o, q)
             /\ pos[o][0] < NDirs => \A q \in {0, 1} : FirstAbove(o, q) \notin AskedAs(o, q)
             /\ pos[o][0] = NDirs => AskedAs(o, 1) = {}
  <2>1. NDirs \in Nat /\ pos[o][0] \in 0..NDirs /\ pos[o][1] \in 0..NDirs
    BY <1>1, RendezvousAssumption DEF RendezvousAssumption, TypeOK
  <2>2. PICK s \in Seq(Nat) :
          /\ s = Successors(pos[o][0])
          /\ pos[o][0] = NDirs => Len(s) = 0
          /\ pos[o][0] < NDirs => Len(s) = 3
          /\ \A j \in 1..Len(s) : j \in 1..3 /\ s[j] # FirstAbove(o, 0)
    BY <2>1, OneRound DEF FirstAbove
  <2>3. PICK r \in Seq(Nat) :
          /\ r = Successors(pos[o][1])
          /\ pos[o][1] = NDirs => Len(r) = 0
          /\ pos[o][1] < NDirs => Len(r) = 3
          /\ \A j \in 1..Len(r) : j \in 1..3 /\ r[j] # FirstAbove(o, 1)
    BY <2>1, OneRound DEF FirstAbove
  <2>4. /\ Len(Responsibles(o)) = Len(s) + Len(r)
        /\ \A i \in 1..Len(s) : Responsibles(o)[i] = s[i]
        /\ \A i \in 1..Len(r) : Responsibles(o)[Len(s) + i] = r[i]
    <3>1. Responsibles(o) = s \o r
      BY <2>2, <2>3 DEF Responsibles
    <3> QED BY <3>1, ConcatElements
  <2>5. /\ pos[o][0] < NDirs /\ pos[o][1] < NDirs => Len(Responsibles(o)) = 6
        /\ pos[o][0] = NDirs \/ pos[o][1] = NDirs => Len(Responsibles(o)) <= 3
    <3>1. Len(s) = 3 \/ (Len(s) = 0 /\ pos[o][0] = NDirs)
      BY <2>1, <2>2
    <3>2. Len(r) = 3 \/ (Len(r) = 0 /\ pos[o][1] = NDirs)
      BY <2>1, <2>3
    <3>3. pos[o][0] < NDirs /\ pos[o][1] < NDirs => Len(Responsibles(o)) = 6
      BY <2>2, <2>3, <2>4
    <3>4. Len(s) \in {0, 3} /\ Len(r) \in {0, 3}
      BY <3>1, <3>2
    <3>5. pos[o][0] = NDirs => Len(Responsibles(o)) <= 3
      BY <2>2, <2>4, <3>4
    <3>6. pos[o][1] = NDirs => Len(Responsibles(o)) <= 3
      BY <2>3, <2>4, <3>4
    <3> QED BY <3>3, <3>5, <3>6
  <2>6. ASSUME NEW q \in {0, 1} PROVE FirstAbove(o, q) \in StoredAt(o, q)
    <3>1. 0 \in 0..2 /\ pos[o][q] + 0 = pos[o][q]
      BY <2>1
    <3> QED BY <3>1 DEF FirstAbove, StoredAt
  <2>7. \A i \in Nat : (Replica(i) = 0 <=> i <= 3) /\ (Replica(i) = 1 <=> i > 3)
    BY DEF Replica
  <2>8. pos[o][0] < NDirs => FirstAbove(o, 0) \notin AskedAs(o, 0)
    <3> SUFFICES ASSUME pos[o][0] < NDirs, NEW i \in 1..Len(Responsibles(o)), Replica(i) = 0
                 PROVE  Responsibles(o)[i] # FirstAbove(o, 0)
      BY DEF AskedAs
    <3>1. i \in Nat /\ i >= 1 /\ i <= 3
      BY <2>7
    <3>2. Len(s) = 3
      BY <2>2
    <3>3. i \in 1..Len(s)
      BY <3>1, <3>2
    <3> QED BY <2>2, <2>4, <3>3
  <2>9. pos[o][0] < NDirs => FirstAbove(o, 1) \notin AskedAs(o, 1)
    <3> SUFFICES ASSUME pos[o][0] < NDirs, NEW i \in 1..Len(Responsibles(o)), Replica(i) = 1
                 PROVE  Responsibles(o)[i] # FirstAbove(o, 1)
      BY DEF AskedAs
    <3>1. i > 3 /\ Len(s) = 3
      BY <2>2, <2>7
    <3>2. i - 3 \in 1..Len(r) /\ Len(s) + (i - 3) = i
      BY <2>4, <3>1
    <3>3. Responsibles(o)[i] = r[i - 3]
      BY <2>4, <3>2
    <3> QED BY <2>3, <3>2, <3>3
  <2>10. pos[o][0] = NDirs => AskedAs(o, 1) = {}
    <3> SUFFICES ASSUME pos[o][0] = NDirs, NEW i \in 1..Len(Responsibles(o)), Replica(i) = 1
                 PROVE  FALSE
      BY DEF AskedAs
    <3>1. i > 3
      BY <2>7
    <3>2. Len(r) \in {0, 3}
      BY <2>1, <2>3
    <3> QED BY <2>2, <2>4, <3>1, <3>2
  <2> QED BY <2>5, <2>6, <2>8, <2>9, <2>10
<1>2. TypeOK => FirstUnasked
  BY <1>1 DEF FirstUnasked
<1> QED BY <1>2, TypeCorrect, PTL

=============================================================================
