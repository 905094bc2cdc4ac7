--------------------------- MODULE RequestsProofs ---------------------------
(***************************************************************************)
(* Proofs about Requests, for every set of calls and every bound.          *)
(***************************************************************************)
EXTENDS Requests, SequenceTheorems, TLAPS

USE ReqsAssumption DEF ReqsAssumption

(* What RemoveAt returns, position by position.                            *)
LEMMA RemoveAtElements ==
  ASSUME NEW S, NEW q \in Seq(S), NEW i \in DOMAIN q
  PROVE  /\ RemoveAt(q, i) \in Seq(S)
         /\ Len(RemoveAt(q, i)) = Len(q) - 1
         /\ \A j \in 1..(Len(q) - 1) :
              RemoveAt(q, i)[j] = IF j < i THEN q[j] ELSE q[j + 1]
<1> DEFINE a == SubSeq(q, 1, i - 1)
           b == SubSeq(q, i + 1, Len(q))
<1>1. i \in 1..Len(q) /\ Len(q) \in Nat
  OBVIOUS
<1>2. /\ a \in Seq(S) /\ Len(a) = i - 1
      /\ \A j \in 1..(i - 1) : a[j] = q[j]
  BY <1>1
<1>3. /\ b \in Seq(S) /\ Len(b) = Len(q) - i
      /\ \A j \in 1..(Len(q) - i) : b[j] = q[i + j]
  BY <1>1
<1> HIDE DEF a, b
<1>4. /\ a \o b \in Seq(S)
      /\ Len(a \o b) = Len(a) + Len(b)
      /\ \A j \in 1..(Len(a) + Len(b)) :
           (a \o b)[j] = IF j <= Len(a) THEN a[j] ELSE b[j - Len(a)]
  BY <1>2, <1>3, ConcatProperties, ZenonT(60)
<1>5. ASSUME NEW j \in 1..(Len(q) - 1)
      PROVE  (a \o b)[j] = IF j < i THEN q[j] ELSE q[j + 1]
  <2>1. j \in 1..(Len(a) + Len(b)) /\ Len(a) = i - 1
    BY <1>1, <1>2, <1>3, SMTT(40)
  <2>2. CASE j < i
    BY <1>1, <1>2, <1>4, <2>1, <2>2
  <2>3. CASE ~(j < i)
    <3>1. j - (i - 1) \in 1..(Len(q) - i)
      BY <1>1, <2>3
    <3>2. (a \o b)[j] = b[j - (i - 1)]
      BY <1>1, <1>4, <2>1, <2>3
    <3>3. b[j - (i - 1)] = q[i + (j - (i - 1))]
      BY <1>3, <3>1
    <3>4. i + (j - (i - 1)) = j + 1
      BY <1>1
    <3> QED BY <2>3, <3>2, <3>3, <3>4
  <2> QED BY <2>2, <2>3
<1>6. Len(a \o b) = Len(q) - 1
  BY <1>1, <1>2, <1>3, <1>4
<1>7. RemoveAt(q, i) = a \o b
  BY DEF RemoveAt, a, b
<1> QED BY <1>4, <1>5, <1>6, <1>7

Distinct(q) == \A i, j \in DOMAIN q : q[i] = q[j] => i = j

(* _remove_request takes out the call's own future and nothing else.       *)
LEMMA RemoveRequestElements ==
  ASSUME NEW q \in Seq(Reqs), Distinct(q), NEW r \in Reqs
  PROVE  /\ RemoveRequest(q, r) \in Seq(Reqs)
         /\ Distinct(RemoveRequest(q, r))
         /\ \A s \in Reqs : Queued(RemoveRequest(q, r), s) <=> Queued(q, s) /\ s # r
<1>1. CASE ~Queued(q, r)
  BY <1>1 DEF RemoveRequest, Queued
<1>2. CASE Queued(q, r)
  <2> DEFINE i == CHOOSE k \in DOMAIN q : q[k] = r
             p == RemoveAt(q, i)
  <2>1. i \in DOMAIN q /\ q[i] = r
    BY <1>2 DEF Queued
  <2>2. RemoveRequest(q, r) = p
    BY <1>2 DEF RemoveRequest
  <2> HIDE DEF i
  <2>3. /\ p \in Seq(Reqs) /\ Len(p) = Len(q) - 1
        /\ \A j \in 1..(Len(q) - 1) : p[j] = IF j < i THEN q[j] ELSE q[j + 1]
    BY <2>1, RemoveAtElements
  <2> HIDE DEF p
  <2>4. DOMAIN q = 1..Len(q) /\ DOMAIN p = 1..(Len(q) - 1) /\ Len(q) \in Nat /\ i \in Nat
    BY <2>1, <2>3
  <2>5. Distinct(p)
    <3> SUFFICES ASSUME NEW j \in DOMAIN p, NEW k \in DOMAIN p, p[j] = p[k]
                 PROVE  j = k
      BY DEF Distinct
    <3>1. j \in 1..(Len(q) - 1) /\ k \in 1..(Len(q) - 1)
      BY <2>4
    <3>2. PICK l \in DOMAIN q : p[j] = q[l] /\ l = IF j < i THEN j ELSE j + 1
      BY <2>3, <2>4, <3>1
    <3>3. PICK m \in DOMAIN q : p[k] = q[m] /\ m = IF k < i THEN k ELSE k + 1
      BY <2>3, <2>4, <3>1
    <3>4. l = m
      BY <3>2, <3>3 DEF Distinct
    <3> QED BY <2>4, <3>1, <3>2, <3>3, <3>4
  <2>6. ASSUME NEW s \in Reqs
        PROVE  Queued(p, s) <=> Queued(q, s) /\ s # r
    <3>1. ASSUME Queued(p, s) PROVE Queued(q, s) /\ s # r
      <4>1. PICK j \in DOMAIN p : p[j] = s
        BY <3>1 DEF Queued
      <4>2. PICK l \in DOMAIN q : q[l] = s /\ l # i
        <5>1. CASE j < i
          <6>1. p[j] = q[j] /\ j \in DOMAIN q /\ j # i
            BY <2>3, <2>4, <4>1, <5>1
          <6> QED BY <4>1, <6>1
        <5>2. CASE ~(j < i)
          <6>1. p[j] = q[j + 1] /\ j + 1 \in DOMAIN q /\ j + 1 # i
            BY <2>3, <2>4, <4>1, <5>2
          <6> QED BY <4>1, <6>1
        <5> QED BY <5>1, <5>2
      <4>3. s # r
        BY <2>1, <4>2 DEF Distinct
      <4> QED BY <4>2, <4>3 DEF Queued
    <3>2. ASSUME Queued(q, s), s # r PROVE Queued(p, s)
      <4>1. PICK j \in DOMAIN q : q[j] = s
        BY <3>2 DEF Queued
      <4>2. CASE j < i
        <5>1. j \in DOMAIN p /\ p[j] = q[j]
          BY <4>1, <4>2, <2>1, <2>3, <2>4
        <5> QED BY <5>1, <4>1 DEF Queued
      <4>3. CASE j > i
        <5>1. j - 1 \in DOMAIN p /\ p[j - 1] = q[j]
          BY <4>1, <4>3, <2>1, <2>3, <2>4
        <5> QED BY <5>1, <4>1 DEF Queued
      <4>4. j # i
        BY <4>1, <2>1, <3>2
      <4> QED BY <4>2, <4>3, <4>4, <2>4
    <3> QED BY <3>1, <3>2
  <2> QED BY <2>2, <2>3, <2>5, <2>6
<1> QED BY <1>1, <1>2

-----------------------------------------------------------------------------
(* A cell addressed by position: while nothing disturbed the exchange, the *)
(* FIFO holds the requests whose answers are on the wire, then those the   *)
(* relays still have to answer.                                            *)
Aligned ==
  ~disturbed /\ conn = "open" =>
    /\ Len(requests) = Len(wire) + Len(remote)
    /\ \A i \in DOMAIN wire : wire[i].kind \notin Handled /\ requests[i] = wire[i].to
    /\ \A i \in DOMAIN remote : requests[Len(wire) + i] = remote[i]

(* What each stage of a call says about its future.                        *)
FutureOfTask ==
  \A r \in Reqs :
    /\ task[r] = "idle" <=> fut[r] = "none"
    /\ task[r] = "waiting" => fut[r] \in {"pending", "result"}
    /\ task[r] = "unwinding" => fut[r] = "cancelled"
    /\ fut[r] = "cancelled" => task[r] \in {"unwinding", "timeout", "interrupted", "cancelled"}

(* Whatever is queued was never answered.                                  *)
QueuedUnanswered ==
  \A r \in Reqs : Queued(requests, r) => fut[r] \in {"pending", "cancelled"}

(* While a task unwinds the exchange counts as disturbed.                  *)
AbandonedDisturbs ==
  \A r \in Reqs :
    task[r] \in {"unwinding", "interrupted", "timeout", "cancelled", "failed"} => disturbed

IInv ==
  /\ TypeOK
  /\ Distinct(requests)
  /\ FutureOfTask
  /\ AbandonedDisturbs
  /\ QueuedUnanswered
  /\ WaiterQueued
  /\ EndedLeavesQueue
  /\ Aligned
  /\ FifoMatch
  /\ CrashHasCause

(* Nobody has called and no cell is under way.                             *)
LEMMA InitIInv == Init => IInv
<1> SUFFICES ASSUME Init PROVE IInv
  OBVIOUS
<1>1. TypeOK
  <2>1. 0 \in 0..MaxStray
    OBVIOUS
  <2>2. requests \in Seq(Reqs) /\ remote \in Seq(Reqs) /\ wire \in Seq(Cell)
    BY DEF Init
  <2>3. fut \in [Reqs -> {"none", "pending", "result", "cancelled"}]
    BY DEF Init
  <2>4. got \in [Reqs -> Cell \cup {NoCell}]
    BY DEF Init
  <2>5. task \in [Reqs -> {"idle"} \cup Live \cup Ended]
    BY DEF Init
  <2> QED BY <2>1, <2>2, <2>3, <2>4, <2>5 DEF Init, TypeOK
<1>2. Distinct(requests) /\ QueuedUnanswered /\ WaiterQueued /\ EndedLeavesQueue
  BY DEF Init, Distinct, QueuedUnanswered, WaiterQueued, EndedLeavesQueue, Queued, Live
<1>3. FutureOfTask /\ AbandonedDisturbs /\ Aligned /\ FifoMatch /\ CrashHasCause
  BY DEF Init, FutureOfTask, AbandonedDisturbs, Aligned, FifoMatch, CrashHasCause
<1> QED BY <1>1, <1>2, <1>3 DEF IInv

(* Elements of a FIFO after the two deque operations.                      *)
LEMMA AppendElements ==
  ASSUME NEW q \in Seq(Reqs), NEW r \in Reqs
  PROVE  /\ Append(q, r) \in Seq(Reqs)
         /\ \A s \in Reqs : Queued(Append(q, r), s) <=> Queued(q, s) \/ s = r
         /\ Distinct(q) /\ ~Queued(q, r) => Distinct(Append(q, r))
<1>1. /\ Append(q, r) \in Seq(Reqs)
      /\ DOMAIN q = 1..Len(q) /\ Len(q) \in Nat
      /\ DOMAIN Append(q, r) = 1..(Len(q) + 1)
      /\ \A i \in 1..Len(q) : Append(q, r)[i] = q[i]
      /\ Append(q, r)[Len(q) + 1] = r
  OBVIOUS
<1>2. \A s \in Reqs : Queued(Append(q, r), s) <=> Queued(q, s) \/ s = r
  BY <1>1 DEF Queued
<1>3. Distinct(q) /\ ~Queued(q, r) => Distinct(Append(q, r))
  BY <1>1 DEF Queued, Distinct
<1> QED BY <1>1, <1>2, <1>3

(* popleft takes the head out of the FIFO and leaves the rest.             *)
LEMMA TailElements ==
  ASSUME NEW q \in Seq(Reqs), q # <<>>, Distinct(q)
  PROVE  /\ Head(q) \in Reqs
         /\ Queued(q, Head(q))
         /\ Tail(q) \in Seq(Reqs)
         /\ Distinct(Tail(q))
         /\ \A s \in Reqs : Queued(Tail(q), s) <=> Queued(q, s) /\ s # Head(q)
<1>1. /\ Head(q) \in Reqs /\ Head(q) = q[1]
      /\ DOMAIN q = 1..Len(q) /\ Len(q) \in Nat /\ Len(q) > 0
      /\ Tail(q) \in Seq(Reqs)
      /\ DOMAIN Tail(q) = 1..(Len(q) - 1)
      /\ \A i \in 1..(Len(q) - 1) : Tail(q)[i] = q[i + 1]
  OBVIOUS
<1>2. Queued(q, Head(q))
  BY <1>1 DEF Queued
<1>3. Distinct(Tail(q))
  BY <1>1 DEF Distinct
<1>4. ASSUME NEW s \in Reqs
      PROVE  Queued(Tail(q), s) <=> Queued(q, s) /\ s # Head(q)
  <2>1. ASSUME Queued(Tail(q), s) PROVE Queued(q, s) /\ s # Head(q)
    BY <1>1, <2>1 DEF Queued, Distinct
  <2>2. ASSUME Queued(q, s), s # Head(q) PROVE Queued(Tail(q), s)
    <3>1. PICK i \in DOMAIN q : q[i] = s
      BY <2>2 DEF Queued
    <3>2. i - 1 \in DOMAIN Tail(q) /\ Tail(q)[i - 1] = s
      BY <1>1, <2>2, <3>1
    <3> QED BY <3>2 DEF Queued
  <2> QED BY <2>1, <2>2
<1> QED BY <1>1, <1>2, <1>3, <1>4

-----------------------------------------------------------------------------
(* A call enters the FIFO at its end and, on an open connection, the       *)
(* relays' list at its end.                                                *)
LEMMA IssueIInv ==
  ASSUME IInv, NEW r \in Reqs, Issue(r)
  PROVE  IInv'
<1> USE DEF IInv
<1>1. fut[r] = "none" /\ ~Queued(requests, r)
  BY DEF Issue, FutureOfTask, QueuedUnanswered
<1>2. /\ requests' = Append(requests, r) /\ requests' \in Seq(Reqs)
      /\ \A s \in Reqs : Queued(requests', s) <=> Queued(requests, s) \/ s = r
      /\ Distinct(requests')
  BY <1>1, AppendElements DEF Issue, CreateRequest, TypeOK
<1>3. /\ fut' = [fut EXCEPT ![r] = "pending"]
      /\ task' = [task EXCEPT ![r] = "waiting"]
      /\ UNCHANGED <<got, wire, conn, strays, disturbed>>
  BY DEF Issue, CreateRequest
<1>4. TypeOK'
  BY <1>2, <1>3 DEF Issue, TypeOK, Live
<1>5. FutureOfTask' /\ AbandonedDisturbs'
  BY <1>3 DEF FutureOfTask, AbandonedDisturbs, TypeOK, Issue
<1>6. QueuedUnanswered'
  BY <1>2, <1>3 DEF QueuedUnanswered, TypeOK
<1>7. WaiterQueued' /\ EndedLeavesQueue'
  BY <1>2, <1>3 DEF WaiterQueued, EndedLeavesQueue, TypeOK, Live
<1>8. Aligned'
  <2> SUFFICES ASSUME ~disturbed', conn' = "open"
               PROVE  /\ Len(requests') = Len(wire') + Len(remote')
                      /\ \A i \in DOMAIN wire' : wire'[i].kind \notin Handled
                                                 /\ requests'[i] = wire'[i].to
                      /\ \A i \in DOMAIN remote' : requests'[Len(wire') + i] = remote'[i]
    BY DEF Aligned
  <2>1. remote' = Append(remote, r)
    BY <1>3 DEF Issue
  <2>2. /\ Len(requests) = Len(wire) + Len(remote)
        /\ \A i \in DOMAIN wire : wire[i].kind \notin Handled /\ requests[i] = wire[i].to
        /\ \A i \in DOMAIN remote : requests[Len(wire) + i] = remote[i]
    BY <1>3 DEF Aligned
  <2>3. wire' = wire
    BY <1>3
  <2>4. requests \in Seq(Reqs) /\ remote \in Seq(Reqs) /\ wire \in Seq(Cell)
    BY DEF TypeOK
  <2>5. \A i \in DOMAIN wire : requests'[i] = requests[i]
    BY <1>2, <2>2, <2>4
  <2>6. \A i \in DOMAIN remote' : requests'[Len(wire) + i] = remote'[i]
    <3> SUFFICES ASSUME NEW i \in DOMAIN remote'
                 PROVE  requests'[Len(wire) + i] = remote'[i]
      OBVIOUS
    <3>1. Len(wire) \in Nat /\ Len(remote) \in Nat /\ i \in 1..(Len(remote) + 1)
      BY <2>1, <2>4
    <3>2. CASE i = Len(remote) + 1
      <4>1. remote'[i] = r
        BY <2>1, <2>4, <3>2
      <4>2. Len(wire) + i = Len(requests) + 1
        BY <2>2, <3>1, <3>2
      <4>3. requests'[Len(requests) + 1] = r
        BY <1>2, <2>4
      <4> QED BY <4>1, <4>2, <4>3
    <3>3. CASE i \in DOMAIN remote
      <4>1. Len(wire) + i \in 1..Len(requests) /\ remote'[i] = remote[i]
        BY <2>1, <2>2, <2>4, <3>1, <3>3
      <4>2. requests'[Len(wire) + i] = requests[Len(wire) + i]
        BY <1>2, <2>4, <4>1
      <4> QED BY <2>2, <3>3, <4>1, <4>2
    <3> QED BY <2>4, <3>1, <3>2, <3>3
  <2>7. Len(requests') = Len(wire) + Len(remote')
    BY <1>2, <2>1, <2>2, <2>4
  <2> QED BY <2>2, <2>3, <2>5, <2>6, <2>7
<1>9. FifoMatch' /\ CrashHasCause'
  BY <1>1, <1>3 DEF FifoMatch, CrashHasCause, TypeOK
<1> QED BY <1>2, <1>4, <1>5, <1>6, <1>7, <1>8, <1>9

(* A send that raises leaves its future queued: the one way a call that is *)
(* over stays in the FIFO on every Python version.                         *)
LEMMA SendRaisesIInv ==
  ASSUME IInv, NEW r \in Reqs, SendRaises(r)
  PROVE  IInv'
<1> USE DEF IInv
<1>1. fut[r] = "none" /\ ~Queued(requests, r)
  BY DEF SendRaises, FutureOfTask, QueuedUnanswered
<1>2. /\ requests' \in Seq(Reqs)
      /\ \A s \in Reqs : Queued(requests', s) <=> Queued(requests, s) \/ s = r
      /\ Distinct(requests')
  BY <1>1, AppendElements DEF SendRaises, CreateRequest, TypeOK
<1>3. /\ fut' = [fut EXCEPT ![r] = "pending"]
      /\ task' = [task EXCEPT ![r] = "failed"]
      /\ disturbed' = TRUE
      /\ UNCHANGED <<got, remote, wire, conn, strays>>
  BY DEF SendRaises, CreateRequest
<1>4. TypeOK'
  BY <1>2, <1>3 DEF TypeOK, Ended
<1>5. FutureOfTask' /\ AbandonedDisturbs'
  BY <1>3 DEF FutureOfTask, AbandonedDisturbs, TypeOK
<1>6. QueuedUnanswered'
  BY <1>2, <1>3 DEF QueuedUnanswered, TypeOK
<1>7. WaiterQueued' /\ EndedLeavesQueue'
  BY <1>2, <1>3 DEF WaiterQueued, EndedLeavesQueue, TypeOK, Live
<1>8. Aligned' /\ FifoMatch'
  BY <1>3 DEF Aligned, FifoMatch
<1>9. CrashHasCause'
  BY <1>1, <1>3 DEF CrashHasCause, TypeOK
<1> QED BY <1>2, <1>4, <1>5, <1>6, <1>7, <1>8, <1>9

(* The reader pops the head.  It is the request the cell answers as long   *)
(* as nothing disturbed the exchange.                                      *)
LEMMA HandleRelayIInv ==
  ASSUME IInv, HandleRelay
  PROVE  IInv'
<1> USE DEF IInv
<1>1. /\ conn = "open" /\ wire # <<>> /\ wire' = Tail(wire)
      /\ UNCHANGED <<task, remote, strays, disturbed>>
  BY DEF HandleRelay
<1>2. wire' \in Seq(Cell) /\ Head(wire) \in Cell /\ Head(wire) = wire[1]
      /\ 1 \in DOMAIN wire /\ Len(wire') = Len(wire) - 1
      /\ \A i \in 1..(Len(wire) - 1) : wire'[i] = wire[i + 1]
      /\ Len(wire) \in Nat /\ DOMAIN wire = 1..Len(wire) /\ DOMAIN wire' = 1..(Len(wire) - 1)
  BY <1>1 DEF TypeOK
<1>3. CASE Head(wire).kind \in Handled \/ requests = <<>>
  <2>1. UNCHANGED <<requests, fut, got, conn>>
    BY <1>3 DEF HandleRelay
  <2>2. TypeOK'
    BY <1>1, <1>2, <2>1 DEF TypeOK
  <2>3. disturbed
    <3>1. CASE Head(wire).kind \in Handled
      BY <3>1, <1>1, <1>2 DEF Aligned, TypeOK
    <3>2. CASE requests = <<>>
      <4>1. Len(requests) = 0 /\ Len(remote) \in Nat
        BY <3>2 DEF TypeOK
      <4> QED BY <1>1, <1>2, <4>1 DEF Aligned, TypeOK
    <3> QED BY <1>3, <3>1, <3>2
  <2>4. Aligned' /\ FifoMatch'
    BY <1>1, <2>3 DEF Aligned, FifoMatch
  <2>5. FutureOfTask' /\ AbandonedDisturbs' /\ QueuedUnanswered' /\ WaiterQueued' /\ EndedLeavesQueue'
        /\ Distinct(requests') /\ CrashHasCause'
    BY <1>1, <2>1 DEF FutureOfTask, AbandonedDisturbs, QueuedUnanswered, WaiterQueued, EndedLeavesQueue,
                      Queued, Distinct, CrashHasCause
  <2> QED BY <2>2, <2>4, <2>5
<1>4. CASE ~(Head(wire).kind \in Handled \/ requests = <<>>)
  <2> DEFINE h == Head(requests)
  <2>1. /\ h \in Reqs /\ Queued(requests, h)
        /\ requests' = Tail(requests) /\ requests' \in Seq(Reqs)
        /\ Distinct(requests')
        /\ \A s \in Reqs : Queued(requests', s) <=> Queued(requests, s) /\ s # h
    BY <1>4, TailElements, ZenonT(40) DEF HandleRelay, TypeOK
  <2>2. fut[h] \in {"pending", "cancelled"}
    BY <2>1 DEF QueuedUnanswered
  <2>3. ~disturbed' => h = Head(wire).to
    <3>1. ~disturbed => requests[1] = wire[1].to
      BY <1>1, <1>2 DEF Aligned
    <3>2. h = requests[1]
      BY <1>4 DEF TypeOK
    <3> QED BY <1>1, <1>2, <3>1, <3>2
  <2>4. Aligned'
    <3> SUFFICES ASSUME ~disturbed', conn' = "open"
                 PROVE  /\ Len(requests') = Len(wire') + Len(remote')
                        /\ \A i \in DOMAIN wire' : wire'[i].kind \notin Handled
                                                   /\ requests'[i] = wire'[i].to
                        /\ \A i \in DOMAIN remote' : requests'[Len(wire') + i] = remote'[i]
      BY DEF Aligned
    <3>1. /\ Len(requests) = Len(wire) + Len(remote)
          /\ \A i \in DOMAIN wire : wire[i].kind \notin Handled /\ requests[i] = wire[i].to
          /\ \A i \in DOMAIN remote : requests[Len(wire) + i] = remote[i]
      BY <1>1 DEF Aligned
    <3>2. /\ Len(requests) \in Nat /\ Len(remote) \in Nat
          /\ Len(requests') = Len(requests) - 1
          /\ \A i \in 1..(Len(requests) - 1) : requests'[i] = requests[i + 1]
          /\ DOMAIN remote = 1..Len(remote)
      BY <1>4, <2>1 DEF TypeOK
    <3>3. remote' = remote
      BY <1>1
    <3>4. Len(requests') = Len(wire') + Len(remote')
      BY <1>2, <3>1, <3>2, <3>3
    <3>5. ASSUME NEW i \in DOMAIN wire'
          PROVE  wire'[i].kind \notin Handled /\ requests'[i] = wire'[i].to
      <4>1. i + 1 \in DOMAIN wire /\ wire'[i] = wire[i + 1]
        BY <1>2
      <4>2. i \in 1..(Len(requests) - 1)
        BY <1>2, <3>1, <3>2
      <4> QED BY <3>1, <3>2, <4>1, <4>2
    <3>6. ASSUME NEW i \in DOMAIN remote'
          PROVE  requests'[Len(wire') + i] = remote'[i]
      <4>1. i \in DOMAIN remote /\ Len(wire') + i \in 1..(Len(requests) - 1)
        BY <1>2, <3>1, <3>2, <3>3
      <4>2. requests'[Len(wire') + i] = requests[Len(wire') + i + 1]
        BY <3>2, <4>1
      <4>3. Len(wire') + i + 1 = Len(wire) + i
        BY <1>2, <3>2, <4>1
      <4> QED BY <3>1, <3>3, <4>1, <4>2, <4>3
    <3> QED BY <3>4, <3>5, <3>6
  <2>5. CASE fut[h] = "pending"
    <3>1. /\ fut' = [fut EXCEPT ![h] = "result"]
          /\ got' = [got EXCEPT ![h] = Head(wire)]
          /\ conn' = conn
      BY <1>4, <2>5 DEF HandleRelay
    <3> HIDE DEF h
    <3>2. TypeOK'
      BY <1>1, <1>2, <2>1, <3>1 DEF TypeOK
    <3>3. FutureOfTask' /\ AbandonedDisturbs'
      BY <1>1, <2>1, <2>5, <3>1 DEF FutureOfTask, AbandonedDisturbs, TypeOK
    <3>4. QueuedUnanswered'
      BY <2>1, <3>1 DEF QueuedUnanswered, TypeOK
    <3>5. WaiterQueued' /\ EndedLeavesQueue'
      BY <1>1, <2>1, <3>1 DEF WaiterQueued, EndedLeavesQueue, TypeOK
    <3>6. FifoMatch'
      BY <1>1, <2>1, <2>3, <3>1 DEF FifoMatch, TypeOK
    <3>7. CrashHasCause'
      BY <1>1, <3>1 DEF CrashHasCause
    <3> QED BY <2>1, <2>4, <3>2, <3>3, <3>4, <3>5, <3>6, <3>7
  <2>6. CASE fut[h] # "pending"
    <3>1. conn' = "crashed" /\ UNCHANGED <<fut, got>>
      BY <1>4, <2>6 DEF HandleRelay
    <3> HIDE DEF h
    <3>2. TypeOK'
      BY <1>1, <1>2, <2>1, <3>1 DEF TypeOK
    <3>3. FutureOfTask' /\ AbandonedDisturbs' /\ QueuedUnanswered' /\ FifoMatch'
      BY <1>1, <2>1, <3>1 DEF FutureOfTask, AbandonedDisturbs, QueuedUnanswered, FifoMatch
    <3>4. WaiterQueued' /\ EndedLeavesQueue'
      BY <1>1, <2>1, <2>6, <3>1 DEF WaiterQueued, EndedLeavesQueue
    <3>5. CrashHasCause'
      BY <1>1, <2>1, <2>2, <2>6, <3>1 DEF CrashHasCause, FutureOfTask
    <3> QED BY <2>1, <2>4, <3>2, <3>3, <3>4, <3>5
  <2> QED BY <2>5, <2>6
<1> QED BY <1>3, <1>4

(* A task resumes with a result: its future left the FIFO when it was set. *)
LEMMA ResumeIInv ==
  ASSUME IInv, NEW r \in Reqs, Resume(r)
  PROVE  IInv'
<1> USE DEF IInv
<1>1. ~Queued(requests, r)
  BY DEF Resume, QueuedUnanswered
<1>2. requests' = requests
  BY <1>1 DEF Resume, RemoveRequest
<1>3. PICK t \in {"ok", "wrong"} : task' = [task EXCEPT ![r] = t]
  BY DEF Resume
<1>4. UNCHANGED <<fut, got, remote, wire, conn, strays, disturbed>> /\ fut[r] = "result"
  BY DEF Resume
<1>5. TypeOK'
  BY <1>2, <1>3, <1>4 DEF TypeOK, Ended
<1>6. FutureOfTask' /\ AbandonedDisturbs'
  BY <1>3, <1>4 DEF FutureOfTask, AbandonedDisturbs, TypeOK
<1>7. QueuedUnanswered' /\ Distinct(requests') /\ Aligned' /\ FifoMatch'
  BY <1>2, <1>4 DEF QueuedUnanswered, Distinct, Aligned, FifoMatch
<1>8. WaiterQueued' /\ EndedLeavesQueue'
  BY <1>1, <1>2, <1>3, <1>4 DEF WaiterQueued, EndedLeavesQueue, TypeOK, Live
<1>9. CrashHasCause'
  BY <1>3, <1>4 DEF CrashHasCause, TypeOK
<1> QED BY <1>5, <1>6, <1>7, <1>8, <1>9

(* The timer fires: the cancelled future is still queued.                  *)
LEMMA TimeoutIInv ==
  ASSUME IInv, NEW r \in Reqs, Timeout(r)
  PROVE  IInv'
<1> USE DEF IInv
<1>1. /\ task[r] = "waiting" /\ fut[r] = "pending"
      /\ fut' = [fut EXCEPT ![r] = "cancelled"]
      /\ task' = [task EXCEPT ![r] = "unwinding"]
      /\ disturbed' = TRUE
      /\ UNCHANGED <<requests, got, remote, wire, conn, strays>>
  BY DEF Timeout
<1>2. TypeOK'
  BY <1>1 DEF TypeOK, Live
<1>3. FutureOfTask' /\ AbandonedDisturbs'
  BY <1>1 DEF FutureOfTask, AbandonedDisturbs, TypeOK
<1>4. QueuedUnanswered' /\ Distinct(requests')
  BY <1>1 DEF QueuedUnanswered, Distinct, TypeOK
<1>5. WaiterQueued' /\ EndedLeavesQueue'
  BY <1>1 DEF WaiterQueued, EndedLeavesQueue, TypeOK, Live
<1>6. Aligned' /\ FifoMatch'
  BY <1>1 DEF Aligned, FifoMatch
<1>7. CrashHasCause'
  BY <1>1 DEF CrashHasCause, TypeOK
<1> QED BY <1>2, <1>3, <1>4, <1>5, <1>6, <1>7

(* Cancelling a task does not touch its future.                            *)
LEMMA InterruptIInv ==
  ASSUME IInv, NEW r \in Reqs, Interrupt(r)
  PROVE  IInv'
<1> USE DEF IInv
<1>1. /\ task[r] \in {"waiting", "unwinding"}
      /\ task' = [task EXCEPT ![r] = "interrupted"]
      /\ disturbed' = TRUE
      /\ UNCHANGED <<requests, fut, got, remote, wire, conn, strays>>
  BY DEF Interrupt
<1>2. TypeOK'
  BY <1>1 DEF TypeOK, Live
<1>3. FutureOfTask' /\ AbandonedDisturbs' /\ QueuedUnanswered' /\ Distinct(requests')
  BY <1>1 DEF FutureOfTask, AbandonedDisturbs, QueuedUnanswered, Distinct, TypeOK
<1>4. WaiterQueued' /\ EndedLeavesQueue'
  BY <1>1 DEF WaiterQueued, EndedLeavesQueue, TypeOK, Live
<1>5. Aligned' /\ FifoMatch'
  BY <1>1 DEF Aligned, FifoMatch
<1>6. CrashHasCause'
  BY <1>1 DEF CrashHasCause, TypeOK
<1> QED BY <1>2, <1>3, <1>4, <1>5, <1>6

(* The timed-out call takes its own future out, nobody else's.             *)
LEMMA GiveUpIInv ==
  ASSUME IInv, NEW r \in Reqs, GiveUp(r)
  PROVE  IInv'
<1> USE DEF IInv
<1>1. /\ task[r] = "unwinding" /\ fut[r] = "cancelled" /\ disturbed
      /\ task' = [task EXCEPT ![r] = "timeout"]
      /\ UNCHANGED <<fut, got, remote, wire, conn, strays, disturbed>>
  BY DEF GiveUp, FutureOfTask, AbandonedDisturbs
<1>2. /\ requests' \in Seq(Reqs) /\ Distinct(requests')
      /\ \A s \in Reqs : Queued(requests', s) <=> Queued(requests, s) /\ s # r
  BY RemoveRequestElements DEF GiveUp, TypeOK
<1>3. TypeOK'
  BY <1>1, <1>2 DEF TypeOK, Ended
<1>4. FutureOfTask' /\ AbandonedDisturbs' /\ QueuedUnanswered'
  BY <1>1, <1>2 DEF FutureOfTask, AbandonedDisturbs, QueuedUnanswered, TypeOK
<1>5. WaiterQueued' /\ EndedLeavesQueue'
  BY <1>1, <1>2 DEF WaiterQueued, EndedLeavesQueue, TypeOK, Live
<1>6. Aligned' /\ FifoMatch'
  BY <1>1 DEF Aligned, FifoMatch
<1>7. CrashHasCause'
  BY <1>1 DEF CrashHasCause, TypeOK
<1> QED BY <1>2, <1>3, <1>4, <1>5, <1>6, <1>7

(* CancelledError: the future goes only where the except clause runs.      *)
LEMMA UnwindIInv ==
  ASSUME IInv, NEW r \in Reqs, Unwind(r)
  PROVE  IInv'
<1> USE DEF IInv
<1>1. /\ task[r] = "interrupted" /\ disturbed
      /\ task' = [task EXCEPT ![r] = "cancelled"]
      /\ fut' = [fut EXCEPT ![r] = IF fut[r] = "pending" THEN "cancelled" ELSE fut[r]]
      /\ UNCHANGED <<got, remote, wire, conn, strays, disturbed>>
  BY DEF Unwind, AbandonedDisturbs
<1>2. /\ requests' \in Seq(Reqs) /\ Distinct(requests')
      /\ \A s \in Reqs : Queued(requests', s) =>
                           Queued(requests, s) /\ (s = r => ~CancelledIsException)
      /\ \A s \in Reqs : Queued(requests, s) /\ s # r => Queued(requests', s)
  BY RemoveRequestElements DEF Unwind, TypeOK
<1>3. TypeOK'
  BY <1>1, <1>2 DEF TypeOK, Ended
<1>4. FutureOfTask' /\ AbandonedDisturbs' /\ QueuedUnanswered'
  BY <1>1, <1>2 DEF FutureOfTask, AbandonedDisturbs, QueuedUnanswered, TypeOK
<1>5. WaiterQueued' /\ EndedLeavesQueue'
  BY <1>1, <1>2 DEF WaiterQueued, EndedLeavesQueue, TypeOK, Live
<1>6. Aligned' /\ FifoMatch'
  BY <1>1 DEF Aligned, FifoMatch
<1>7. CrashHasCause'
  BY <1>1 DEF CrashHasCause, TypeOK
<1> QED BY <1>2, <1>3, <1>4, <1>5, <1>6, <1>7

(* The relays answer the oldest request, or disturb the exchange.          *)
LEMMA RemoteAnswerIInv ==
  ASSUME IInv, NEW i \in DOMAIN remote, NEW kind \in Kinds, RemoteAnswer(i, kind)
  PROVE  IInv'
<1> USE DEF IInv
<1> DEFINE c == [to |-> remote[i], kind |-> kind]
<1>1. /\ conn = "open" /\ wire' = Append(wire, c)
      /\ disturbed' = (disturbed \/ i # 1 \/ kind \in Handled)
      /\ UNCHANGED <<requests, fut, got, task, conn, strays>>
  BY DEF RemoteAnswer
<1>2. remote \in Seq(Reqs) /\ remote[i] \in Reqs /\ c \in Cell /\ c.to = remote[i] /\ c.kind = kind
  BY DEF TypeOK, Cell
<1> HIDE DEF c
<1>3. /\ remote' \in Seq(Reqs) /\ Len(remote') = Len(remote) - 1
      /\ \A j \in 1..(Len(remote) - 1) :
           remote'[j] = IF j < i THEN remote[j] ELSE remote[j + 1]
  BY <1>2, RemoveAtElements DEF RemoteAnswer
<1>4. /\ wire' \in Seq(Cell) /\ Len(wire') = Len(wire) + 1
      /\ \A j \in 1..Len(wire) : wire'[j] = wire[j]
      /\ wire'[Len(wire) + 1] = c
      /\ DOMAIN wire = 1..Len(wire) /\ DOMAIN wire' = 1..(Len(wire) + 1)
      /\ Len(wire) \in Nat
  BY <1>1, <1>2 DEF TypeOK
<1>5. TypeOK'
  BY <1>1, <1>3, <1>4 DEF TypeOK
<1>6. FutureOfTask' /\ AbandonedDisturbs' /\ QueuedUnanswered' /\ Distinct(requests')
  BY <1>1 DEF FutureOfTask, AbandonedDisturbs, QueuedUnanswered, Distinct
<1>7. WaiterQueued' /\ EndedLeavesQueue' /\ FifoMatch' /\ CrashHasCause'
  BY <1>1 DEF WaiterQueued, EndedLeavesQueue, FifoMatch, CrashHasCause
<1>8. Aligned'
  <2> SUFFICES ASSUME ~disturbed'
               PROVE  /\ Len(requests') = Len(wire') + Len(remote')
                      /\ \A j \in DOMAIN wire' : wire'[j].kind \notin Handled
                                                 /\ requests'[j] = wire'[j].to
                      /\ \A j \in DOMAIN remote' : requests'[Len(wire') + j] = remote'[j]
    BY DEF Aligned
  <2>1. /\ i = 1 /\ kind \notin Handled /\ requests' = requests
        /\ Len(requests) = Len(wire) + Len(remote)
        /\ \A j \in DOMAIN wire : wire[j].kind \notin Handled /\ requests[j] = wire[j].to
        /\ \A j \in DOMAIN remote : requests[Len(wire) + j] = remote[j]
    BY <1>1 DEF Aligned
  <2>2. DOMAIN remote = 1..Len(remote) /\ Len(remote) \in Nat /\ Len(remote) > 0
        /\ DOMAIN remote' = 1..(Len(remote) - 1)
    BY <1>2, <1>3
  <2>3. Len(requests') = Len(wire') + Len(remote')
    BY <1>3, <1>4, <2>1, <2>2
  <2>4. ASSUME NEW j \in DOMAIN wire'
        PROVE  wire'[j].kind \notin Handled /\ requests'[j] = wire'[j].to
    <3>1. CASE j \in DOMAIN wire
      BY <1>4, <2>1, <3>1
    <3>2. CASE j = Len(wire) + 1
      <4>1. requests[Len(wire) + 1] = remote[1]
        BY <2>1, <2>2
      <4> QED BY <1>2, <1>4, <2>1, <3>2, <4>1
    <3> QED BY <1>4, <3>1, <3>2
  <2>5. ASSUME NEW j \in DOMAIN remote'
        PROVE  requests'[Len(wire') + j] = remote'[j]
    <3>1. j + 1 \in DOMAIN remote /\ remote'[j] = remote[j + 1]
      BY <1>3, <2>1, <2>2
    <3>2. Len(wire') + j = Len(wire) + (j + 1)
      BY <1>4, <2>2
    <3>3. requests[Len(wire) + (j + 1)] = remote[j + 1]
      BY <2>1, <3>1
    <3> QED BY <2>1, <3>1, <3>2, <3>3
  <2> QED BY <2>3, <2>4, <2>5
<1> QED BY <1>5, <1>6, <1>7, <1>8

(* An unasked cell or the loss of the connection moves no future.          *)
LEMMA NetworkIInv ==
  ASSUME IInv, RemoteStray \/ LoseConnection
  PROVE  IInv'
<1> USE DEF IInv
<1>1. UNCHANGED <<requests, fut, got, task, remote>>
  BY DEF RemoteStray, LoseConnection
<1>2. TypeOK'
  <2>1. CASE RemoteStray
    <3>1. [to |-> Nobody, kind |-> "truncated"] \in Cell
      BY DEF Cell, Kinds
    <3>2. wire' \in Seq(Cell)
      BY <2>1, <3>1 DEF RemoteStray, TypeOK
    <3>3. strays' \in 0..MaxStray
      BY <2>1 DEF RemoteStray, TypeOK
    <3> QED BY <1>1, <2>1, <3>2, <3>3 DEF RemoteStray, TypeOK
  <2>2. CASE LoseConnection
    BY <1>1, <2>2 DEF LoseConnection, TypeOK
  <2> QED BY <2>1, <2>2
<1>3. FutureOfTask' /\ QueuedUnanswered' /\ Distinct(requests')
      /\ WaiterQueued' /\ EndedLeavesQueue'
  BY <1>1 DEF FutureOfTask, QueuedUnanswered, Distinct, WaiterQueued, EndedLeavesQueue
<1>4. AbandonedDisturbs' /\ FifoMatch' /\ CrashHasCause'
  BY <1>1 DEF AbandonedDisturbs, FifoMatch, CrashHasCause, RemoteStray, LoseConnection
<1>5. Aligned'
  BY DEF Aligned, RemoteStray, LoseConnection
<1> QED BY <1>2, <1>3, <1>4, <1>5

(* The invariant is about the variables alone.                             *)
LEMMA StutterIInv == IInv /\ UNCHANGED vars => IInv'
BY DEF vars, IInv, TypeOK, Distinct, FutureOfTask, AbandonedDisturbs, QueuedUnanswered,
       WaiterQueued, EndedLeavesQueue, Aligned, FifoMatch, CrashHasCause, Queued

(* Every step of the program and of its environment keeps the invariant.   *)
LEMMA NextIInv == IInv /\ [Next]_vars => IInv'
<1> SUFFICES ASSUME IInv, [Next]_vars PROVE IInv'
  OBVIOUS
<1>1. ASSUME NEW r \in Reqs, Issue(r) \/ SendRaises(r) \/ Interrupt(r) \/ Caller(r)
      PROVE  IInv'
  BY <1>1, IssueIInv, SendRaisesIInv, InterruptIInv, ResumeIInv, TimeoutIInv,
     GiveUpIInv, UnwindIInv DEF Caller
<1>2. CASE HandleRelay
  BY <1>2, HandleRelayIInv
<1>3. ASSUME NEW i \in DOMAIN remote, NEW kind \in Kinds, RemoteAnswer(i, kind)
      PROVE  IInv'
  BY <1>3, RemoteAnswerIInv
<1>4. CASE RemoteStray \/ LoseConnection
  BY <1>4, NetworkIInv
<1>5. CASE UNCHANGED vars
  BY <1>5, StutterIInv
<1> QED BY <1>1, <1>2, <1>3, <1>4, <1>5 DEF Next

-----------------------------------------------------------------------------
(* The inductive invariant holds in every reachable state.                 *)
THEOREM Invariance == Spec => []IInv
<1>1. Init => IInv
  BY InitIInv
<1>2. IInv /\ [Next]_vars => IInv'
  BY NextIInv
<1> QED BY <1>1, <1>2, PTL DEF Spec

(* The variables of the FIFO exchange keep their types for every set of    *)
(* calls (protocol.py 39-60, circuit.py 254-336).                          *)
THEOREM TypeCorrect == Spec => []TypeOK
BY Invariance, PTL DEF IInv

(* No call waits on a future an answer cannot reach.                       *)
THEOREM WaitersStayQueued == Spec => []WaiterQueued
BY Invariance, PTL DEF IInv

(* Calls that are over leave no future behind, up to the two named holes.  *)
THEOREM EndedCallsLeave == Spec => []EndedLeavesQueue
BY Invariance, PTL DEF IInv

(* Positional matching is right in every undisturbed exchange, however     *)
(* many calls share the circuit.                                           *)
THEOREM FifoMatchesRequests == Spec => []FifoMatch
BY Invariance, PTL DEF IInv

(* The shared connection falls only over a call that was abandoned.        *)
THEOREM CrashesHaveCause == Spec => []CrashHasCause
BY Invariance, PTL DEF IInv

=============================================================================
