----------------------------- MODULE GuardProofs -----------------------------
(***************************************************************************)
(* Proofs about Guard, for every set of calls, every number of hops and    *)
(* attempts and both meanings of CancelledError.                           *)
(***************************************************************************)
EXTENDS Guard, TLAPS

USE GuardAssumption DEF GuardAssumption

(* Identifiers are handed out in order, each to one call.                  *)
IdsFresh ==
  /\ \A c \in Ids : state[c] = "none" <=> c >= nextId
  /\ \A t \in Tasks : cur[t] < nextId /\ (cur[t] = 0 <=> pc[t] = "idle")
  /\ \A t, u \in Tasks : cur[t] = cur[u] /\ cur[t] # 0 => t = u

(* An unused identifier has no history; a circuit is Connected only from   *)
(* its first hop on, and announces its end only when it leaves that state. *)
DestroyOnce ==
  \A c \in Ids :
    /\ state[c] = "none" => nodes[c] = 0 /\ fut[c] = "none"
    /\ state[c] = "Connecting" => nodes[c] = 0
    /\ nodes[c] = 0 => destroys[c] = 0 /\ state[c] # "Connected"
    /\ state[c] = "Connected" => destroys[c] = 0

(* A call that goes on has an attempt to use up.                           *)
AttemptsLeft ==
  \A t \in Tasks : pc[t] \in {"idle"} \cup Building => attempts[t] > 0

(* What was registered on a dead connection is never answered.             *)
DeadUnanswered ==
  conn \in {"closed", "crashed"} =>
    \A c \in circuits : fut[c] \in {"none", "pending", "cancelled"}

IInv ==
  /\ TypeOK
  /\ IdsFresh
  /\ AttemptsLeft
  /\ DestroyOnce
  /\ DeadUnanswered
  /\ MapHoldsLive
  /\ MappedIsOwned
  /\ DeadGuardHasNoCircuit
  /\ OneDestroy

(* Circuit identifiers are positive numbers.                               *)
LEMMA IdsNat == \A c \in Ids : c \in Nat /\ c > 0
BY DEF Ids

(* What the current attempt of a call says of its circuit.                 *)
LEMMA CurFacts ==
  ASSUME IInv
  PROVE  /\ nextId \in Nat /\ nextId > 0
         /\ \A t \in Tasks : cur[t] \in Nat /\ cur[t] < nextId
         /\ \A t \in Tasks : pc[t] # "idle" => cur[t] \in Ids /\ state[cur[t]] # "none"
<1> USE DEF IInv
<1>1. nextId \in Nat /\ nextId > 0
  BY DEF TypeOK
<1>2. ASSUME NEW t \in Tasks PROVE cur[t] \in Nat /\ cur[t] < nextId
  <2>1. cur[t] \in Ids \cup {0}
    BY DEF TypeOK
  <2>2. cur[t] < nextId
    BY DEF IdsFresh
  <2> QED BY <2>1, <2>2, IdsNat
<1>3. ASSUME NEW t \in Tasks, pc[t] # "idle"
      PROVE  cur[t] \in Ids /\ state[cur[t]] # "none"
  <2>1. cur[t] \in Ids
    BY <1>3 DEF TypeOK, IdsFresh
  <2>2. ~(cur[t] >= nextId)
    BY <1>1, <1>2
  <2> QED BY <2>1, <2>2 DEF IdsFresh
<1> QED BY <1>1, <1>2, <1>3

(* No circuit exists yet.                                                  *)
LEMMA InitIInv == Init => IInv
<1> SUFFICES ASSUME Init PROVE IInv
  OBVIOUS
<1>1. TypeOK
  <2>1. wire \in Seq(Cell)
    BY DEF Init
  <2>2. nextId \in 1..(MaxCircuits + 1) /\ data \in 0..MaxData /\ Attempts \in 0..Attempts
    BY DEF Init
  <2>3. pc \in [Tasks -> {"idle"} \cup Building \cup Over]
    BY DEF Init
  <2> QED BY <2>1, <2>2, <2>3 DEF Init, TypeOK
<1>2. IdsFresh /\ AttemptsLeft
  BY DEF Init, IdsFresh, AttemptsLeft, Ids
<1>3. DestroyOnce /\ DeadUnanswered /\ MapHoldsLive /\ MappedIsOwned
      /\ DeadGuardHasNoCircuit /\ OneDestroy
  BY DEF Init, DestroyOnce, DeadUnanswered, MapHoldsLive, MappedIsOwned,
         DeadGuardHasNoCircuit, OneDestroy
<1> QED BY <1>1, <1>2, <1>3 DEF IInv

-----------------------------------------------------------------------------
(* An attempt begins: a fresh identifier enters the map with its owner.    *)
LEMMA BeginIInv ==
  ASSUME IInv, NEW t \in Tasks, Begin(t)
  PROVE  IInv'
<1> USE DEF IInv
<1>1. /\ nextId \in Ids /\ state[nextId] = "none" /\ nextId \in Nat
      /\ cur[t] = 0
  BY DEF Begin, TypeOK, IdsFresh, Ids
<1>2. /\ circuits' = circuits \cup {nextId}
      /\ state' = [state EXCEPT ![nextId] = "Connecting"]
      /\ cur' = [cur EXCEPT ![t] = nextId]
      /\ nextId' = nextId + 1
      /\ pc' = [pc EXCEPT ![t] = "skin"]
      /\ UNCHANGED <<conn, nodes, fut, attempts, wire, relay, path, data, destroys>>
  BY DEF Begin, net
<1>3. TypeOK'
  <2>1. nextId' \in 1..(MaxCircuits + 1)
    BY <1>1, <1>2 DEF Ids
  <2> QED BY <1>1, <1>2, <2>1 DEF TypeOK, Building
<1>4. IdsFresh'
  <2>1. ASSUME NEW c \in Ids PROVE state'[c] = "none" <=> c >= nextId'
    <3>1. c \in Nat /\ (c >= nextId + 1 <=> c >= nextId /\ c # nextId)
      BY <1>1, IdsNat
    <3> QED BY <1>1, <1>2, <3>1 DEF IdsFresh, TypeOK
  <2>2. ASSUME NEW u \in Tasks PROVE cur'[u] < nextId' /\ (cur'[u] = 0 <=> pc'[u] = "idle")
    <3>1. cur[u] \in Nat /\ cur[u] < nextId /\ nextId # 0
      BY <1>1, CurFacts
    <3> QED BY <1>1, <1>2, <3>1, IdsNat, SMTT(40) DEF IdsFresh, TypeOK
  <2>3. ASSUME NEW u \in Tasks, NEW v \in Tasks, cur'[u] = cur'[v], cur'[u] # 0
        PROVE  u = v
    <3>1. cur[u] < nextId /\ cur[v] < nextId /\ cur[u] \in Nat /\ cur[v] \in Nat
      BY CurFacts
    <3>2. cur[u] # nextId /\ cur[v] # nextId
      BY <1>1, <3>1
    <3> QED BY <1>2, <2>3, <3>2 DEF IdsFresh, TypeOK
  <2> QED BY <2>1, <2>2, <2>3 DEF IdsFresh
<1>5. DestroyOnce' /\ OneDestroy' /\ AttemptsLeft'
  BY <1>1, <1>2 DEF DestroyOnce, OneDestroy, AttemptsLeft, TypeOK, Begin
<1>6. MapHoldsLive' /\ DeadGuardHasNoCircuit'
  BY <1>1, <1>2 DEF MapHoldsLive, DeadGuardHasNoCircuit, TypeOK
<1>7. MappedIsOwned'
  <2> SUFFICES ASSUME NEW c \in circuits'
               PROVE  \E u \in Tasks : /\ cur'[u] = c
                                       /\ \/ pc'[u] \in Building \cup {"returned"}
                                          \/ pc'[u] = "cancelled" /\ ~CancelledIsException
    BY DEF MappedIsOwned
  <2>1. CASE c = nextId
    BY <1>2, <2>1 DEF TypeOK, Building
  <2>2. CASE c \in circuits
    <3>1. PICK u \in Tasks : /\ cur[u] = c
                             /\ \/ pc[u] \in Building \cup {"returned"}
                                \/ pc[u] = "cancelled" /\ ~CancelledIsException
      BY <2>2 DEF MappedIsOwned
    <3>2. u # t
      BY <3>1 DEF Begin, Building
    <3> QED BY <1>2, <3>1, <3>2 DEF TypeOK
  <2> QED BY <1>2, <2>1, <2>2
<1>8. DeadUnanswered'
  BY <1>1, <1>2 DEF DeadUnanswered, DestroyOnce
<1> QED BY <1>3, <1>4, <1>5, <1>6, <1>7, <1>8

-----------------------------------------------------------------------------
(* A building call gives its circuit up: the circuit leaves the map in the *)
(* step that destroys it, and the next attempt owns a fresh one.           *)
LEMMA GiveUpIInv ==
  ASSUME IInv, NEW t \in Tasks, NEW retryable \in BOOLEAN,
         pc[t] \in Building, GiveUpCircuit(t, retryable),
         UNCHANGED <<conn, wire, path, data>>,
         fut' \in {fut, [fut EXCEPT ![cur[t]] = "none"]},
         \/ nodes' = nodes
         \/ /\ nodes' = [nodes EXCEPT ![cur[t]] = @ + 1]
            /\ nodes[cur[t]] > 0 /\ state[cur[t]] # "Connected"
  PROVE  IInv'
<1> USE DEF IInv
<1> DEFINE c == cur[t]
           again == retryable /\ attempts[t] > 1
<1>1. /\ c \in Ids /\ c \in Nat /\ c < nextId /\ nextId \in Nat /\ nextId > 0
      /\ state[c] # "none" /\ pc[t] # "idle"
  BY CurFacts DEF Building
<1>2. /\ again => nextId <= MaxCircuits
      /\ attempts' = [attempts EXCEPT ![t] = IF retryable THEN attempts[t] - 1 ELSE attempts[t]]
      /\ relay' = [relay EXCEPT ![c] = IF state[c] = "Connected" /\ conn = "open"
                                       THEN "gone" ELSE relay[c]]
      /\ destroys' = [destroys EXCEPT ![c] = IF state[c] = "Connected"
                                             THEN destroys[c] + 1 ELSE destroys[c]]
  BY DEF GiveUpCircuit
<1> HIDE DEF c
<1>3. \A d \in Ids : nodes'[d] \in Nat /\ (nodes'[d] = 0 <=> nodes[d] = 0)
                     /\ (state[d] # "Destroyed" => nodes'[d] = nodes[d])
  <2>1. CASE nodes' = nodes
    BY <2>1 DEF TypeOK
  <2>2. CASE /\ nodes' = [nodes EXCEPT ![c] = nodes[c] + 1]
             /\ nodes[c] > 0 /\ state[c] # "Connected"
    <3>1. state[c] = "Destroyed" /\ nodes[c] \in Nat
      BY <1>1, <2>2 DEF TypeOK, DestroyOnce
    <3> QED BY <1>1, <2>2, <3>1 DEF TypeOK
  <2> QED BY <2>1, <2>2 DEF c
<1>4. /\ \A d \in Ids : d # c => fut'[d] = fut[d]
      /\ fut' \in [Ids -> {"none", "pending", "cancelled", "created", "extended", "truncated"}]
      /\ fut'[c] \in {"none", fut[c]}
  BY <1>1 DEF TypeOK, c
<1>5. \A u \in Tasks : u # t => cur[u] # c
  BY <1>1 DEF IdsFresh, c
<1>6. CASE again
  <2>1. /\ circuits' = (circuits \ {c}) \cup {nextId}
        /\ state' = [state EXCEPT ![c] = "Destroyed", ![nextId] = "Connecting"]
        /\ cur' = [cur EXCEPT ![t] = nextId]
        /\ nextId' = nextId + 1
        /\ pc' = [pc EXCEPT ![t] = "skin"]
    BY <1>6 DEF GiveUpCircuit, c
  <2>2. nextId \in Ids /\ state[nextId] = "none" /\ nextId # c
    BY <1>1, <1>2, <1>6 DEF IdsFresh, Ids
  <2>3. \A d \in Ids : state'[d] = IF d = nextId THEN "Connecting"
                                   ELSE IF d = c THEN "Destroyed" ELSE state[d]
    BY <1>1, <2>1, <2>2 DEF TypeOK
  <2>4. TypeOK'
    <3>1. nextId' \in 1..(MaxCircuits + 1)
      BY <1>1, <1>2, <1>6, <2>1
    <3>2. attempts' \in [Tasks -> 0..Attempts]
      BY <1>2, <1>6 DEF TypeOK
    <3>3. nodes' \in [Ids -> Nat]
      BY <1>1 DEF TypeOK, c
    <3>4. circuits' \subseteq Ids /\ pc' \in [Tasks -> {"idle"} \cup Building \cup Over]
          /\ cur' \in [Tasks -> Ids \cup {0}]
          /\ state' \in [Ids -> {"none", "Connecting", "Connected", "Destroyed"}]
      BY <2>1, <2>2 DEF TypeOK, Building
    <3>5. relay' \in [Ids -> {"none", "asked", "idle", "gone"}] /\ destroys' \in [Ids -> Nat]
      BY <1>1, <1>2, SMTT(40) DEF TypeOK
    <3> QED BY <1>4, <3>1, <3>2, <3>3, <3>4, <3>5 DEF TypeOK
  <2>5. IdsFresh'
    <3>1. ASSUME NEW d \in Ids PROVE state'[d] = "none" <=> d >= nextId'
      <4>1. d \in Nat /\ (d >= nextId + 1 <=> d >= nextId /\ d # nextId) /\ ~(c >= nextId + 1)
        BY <1>1, IdsNat
      <4>2. state[d] = "none" <=> d >= nextId
        BY DEF IdsFresh
      <4>3. CASE d = nextId
        <5>1. state'[d] = "Connecting" /\ ~(d >= nextId + 1)
          BY <2>3, <4>1, <4>3
        <5> QED BY <2>1, <5>1
      <4>4. CASE d = c
        <5>1. state'[d] = "Destroyed" /\ ~(d >= nextId + 1)
          BY <2>2, <2>3, <4>1, <4>4
        <5> QED BY <2>1, <5>1
      <4>5. CASE d # nextId /\ d # c
        <5>1. state'[d] = state[d]
          BY <2>3, <4>5
        <5>2. d >= nextId' <=> d >= nextId
          BY <2>1, <4>1, <4>5
        <5> QED BY <4>2, <5>1, <5>2
      <4> QED BY <4>3, <4>4, <4>5
    <3>2. ASSUME NEW u \in Tasks PROVE cur'[u] < nextId' /\ (cur'[u] = 0 <=> pc'[u] = "idle")
      <4>1. cur[u] \in Nat /\ cur[u] < nextId
        BY CurFacts
      <4> QED BY <1>1, <2>1, <2>2, <4>1, SMTT(40) DEF IdsFresh, TypeOK
    <3>3. ASSUME NEW u \in Tasks, NEW v \in Tasks, cur'[u] = cur'[v], cur'[u] # 0
          PROVE  u = v
      <4>1. cur[u] # nextId /\ cur[v] # nextId
        BY CurFacts
      <4> QED BY <2>1, <3>3, <4>1 DEF IdsFresh, TypeOK
    <3> QED BY <3>1, <3>2, <3>3 DEF IdsFresh
  <2>6. DestroyOnce' /\ OneDestroy'
    <3> SUFFICES ASSUME NEW d \in Ids
                 PROVE  /\ state'[d] = "none" => nodes'[d] = 0 /\ fut'[d] = "none"
                        /\ state'[d] = "Connecting" => nodes'[d] = 0
                        /\ nodes'[d] = 0 => destroys'[d] = 0 /\ state'[d] # "Connected"
                        /\ state'[d] = "Connected" => destroys'[d] = 0
                        /\ destroys'[d] <= 1
      BY DEF DestroyOnce, OneDestroy
    <3>1. CASE d = c
      BY <1>1, <1>2, <1>3, <2>2, <2>3, <3>1 DEF DestroyOnce, OneDestroy, TypeOK
    <3>2. CASE d # c
      BY <1>1, <1>2, <1>3, <1>4, <2>2, <2>3, <3>2, SMTT(40) DEF DestroyOnce, OneDestroy, TypeOK
    <3> QED BY <3>1, <3>2
  <2>7. MapHoldsLive' /\ DeadGuardHasNoCircuit'
    BY <2>1, <2>2, <2>3 DEF MapHoldsLive, DeadGuardHasNoCircuit, TypeOK
  <2>8. DeadUnanswered'
    BY <1>4, <2>1, <2>2 DEF DeadUnanswered, DestroyOnce, TypeOK
  <2>9. MappedIsOwned'
    <3> SUFFICES ASSUME NEW d \in circuits'
                 PROVE  \E u \in Tasks : /\ cur'[u] = d
                                         /\ \/ pc'[u] \in Building \cup {"returned"}
                                            \/ pc'[u] = "cancelled" /\ ~CancelledIsException
      BY DEF MappedIsOwned
    <3>1. CASE d = nextId
      BY <2>1, <3>1 DEF TypeOK, Building
    <3>2. CASE d \in circuits /\ d # c
      <4>1. PICK u \in Tasks : /\ cur[u] = d
                               /\ \/ pc[u] \in Building \cup {"returned"}
                                  \/ pc[u] = "cancelled" /\ ~CancelledIsException
        BY <3>2 DEF MappedIsOwned
      <4>2. u # t
        BY <3>2, <4>1 DEF c
      <4> QED BY <2>1, <4>1, <4>2 DEF TypeOK
    <3> QED BY <2>1, <3>1, <3>2
  <2>10. AttemptsLeft'
    BY <1>2, <1>6, <2>1 DEF AttemptsLeft, TypeOK
  <2> QED BY <2>4, <2>5, <2>6, <2>7, <2>8, <2>9, <2>10
<1>7. CASE ~again
  <2>1. /\ circuits' = circuits \ {c}
        /\ state' = [state EXCEPT ![c] = "Destroyed"]
        /\ pc' = [pc EXCEPT ![t] = "raised"]
        /\ UNCHANGED <<cur, nextId>>
    BY <1>7 DEF GiveUpCircuit, c
  <2>2. TypeOK'
    <3>1. attempts' \in [Tasks -> 0..Attempts]
      <4>1. attempts[t] \in 0..Attempts /\ attempts[t] - 1 \in 0..Attempts
        BY DEF TypeOK, AttemptsLeft
      <4> QED BY <1>2, <4>1 DEF TypeOK
    <3>2. nodes' \in [Ids -> Nat]
      BY <1>1 DEF TypeOK, c
    <3>3. circuits' \subseteq Ids /\ pc' \in [Tasks -> {"idle"} \cup Building \cup Over]
          /\ state' \in [Ids -> {"none", "Connecting", "Connected", "Destroyed"}]
      BY <2>1 DEF TypeOK, Over
    <3>4. relay' \in [Ids -> {"none", "asked", "idle", "gone"}] /\ destroys' \in [Ids -> Nat]
      BY <1>1, <1>2, SMTT(40) DEF TypeOK
    <3> QED BY <1>4, <2>1, <3>1, <3>2, <3>3, <3>4 DEF TypeOK
  <2>3. IdsFresh'
    BY <1>1, <2>1 DEF IdsFresh, TypeOK
  <2>4. DestroyOnce' /\ OneDestroy'
    <3> SUFFICES ASSUME NEW d \in Ids
                 PROVE  /\ state'[d] = "none" => nodes'[d] = 0 /\ fut'[d] = "none"
                        /\ state'[d] = "Connecting" => nodes'[d] = 0
                        /\ nodes'[d] = 0 => destroys'[d] = 0 /\ state'[d] # "Connected"
                        /\ state'[d] = "Connected" => destroys'[d] = 0
                        /\ destroys'[d] <= 1
      BY DEF DestroyOnce, OneDestroy
    <3>1. CASE d = c
      BY <1>1, <1>2, <1>3, <2>1, <3>1 DEF DestroyOnce, OneDestroy, TypeOK
    <3>2. CASE d # c
      BY <1>1, <1>2, <1>3, <1>4, <2>1, <3>2 DEF DestroyOnce, OneDestroy, TypeOK
    <3> QED BY <3>1, <3>2
  <2>5. MapHoldsLive' /\ DeadGuardHasNoCircuit' /\ DeadUnanswered'
    BY <1>4, <2>1 DEF MapHoldsLive, DeadGuardHasNoCircuit, DeadUnanswered, TypeOK
  <2>6. MappedIsOwned'
    <3> SUFFICES ASSUME NEW d \in circuits'
                 PROVE  \E u \in Tasks : /\ cur'[u] = d
                                         /\ \/ pc'[u] \in Building \cup {"returned"}
                                            \/ pc'[u] = "cancelled" /\ ~CancelledIsException
      BY DEF MappedIsOwned
    <3>1. PICK u \in Tasks : /\ cur[u] = d
                             /\ \/ pc[u] \in Building \cup {"returned"}
                                \/ pc[u] = "cancelled" /\ ~CancelledIsException
      BY <2>1 DEF MappedIsOwned
    <3>2. u # t
      BY <2>1, <3>1 DEF c
    <3> QED BY <2>1, <3>1, <3>2 DEF TypeOK
  <2>7. AttemptsLeft'
    BY <1>2, <2>1 DEF AttemptsLeft, Building, TypeOK
  <2> QED BY <2>2, <2>3, <2>4, <2>5, <2>6, <2>7
<1> QED BY <1>6, <1>7

-----------------------------------------------------------------------------
(* Steps that move no circuit, identifier or map entry.                    *)
LEMMA CallStepIInv ==
  ASSUME IInv, NEW t \in Tasks, NEW to \in Building,
         pc[t] \in Building, pc' = [pc EXCEPT ![t] = to],
         UNCHANGED <<conn, circuits, nextId, state, nodes, cur, attempts, wire, path, data, destroys>>,
         relay' \in [Ids -> {"none", "asked", "idle", "gone"}],
         fut' \in [Ids -> {"none", "pending", "cancelled", "created", "extended", "truncated"}],
         \A d \in Ids : fut'[d] = fut[d] \/ (d = cur[t] /\ fut'[d] \in {"pending", "cancelled"})
  PROVE  IInv'
<1> USE DEF IInv
<1>1. TypeOK'
  BY DEF TypeOK
<1>2. IdsFresh' /\ AttemptsLeft'
  BY DEF IdsFresh, AttemptsLeft, Building, TypeOK
<1>3. DestroyOnce' /\ OneDestroy'
  BY CurFacts DEF DestroyOnce, OneDestroy, Building
<1>4. DeadUnanswered' /\ DeadGuardHasNoCircuit' /\ MapHoldsLive'
  BY DEF DeadUnanswered, DeadGuardHasNoCircuit, MapHoldsLive, TypeOK
<1>5. MappedIsOwned'
  <2> SUFFICES ASSUME NEW d \in circuits
               PROVE  \E u \in Tasks : /\ cur'[u] = d
                                       /\ \/ pc'[u] \in Building \cup {"returned"}
                                          \/ pc'[u] = "cancelled" /\ ~CancelledIsException
    BY DEF MappedIsOwned
  <2>1. PICK u \in Tasks : /\ cur[u] = d
                           /\ \/ pc[u] \in Building \cup {"returned"}
                              \/ pc[u] = "cancelled" /\ ~CancelledIsException
    BY DEF MappedIsOwned
  <2>2. CASE u = t
    BY <2>1, <2>2 DEF TypeOK
  <2>3. CASE u # t
    BY <2>1, <2>3 DEF TypeOK
  <2> QED BY <2>2, <2>3
<1> QED BY <1>1, <1>2, <1>3, <1>4, <1>5

(* Steps of an attempt that move its progress and no circuit.              *)
LEMMA WaitStepsIInv ==
  ASSUME IInv, NEW t \in Tasks, SkinReady(t) \/ Timeout(t) \/ Interrupt(t)
  PROVE  IInv'
<1> USE DEF IInv
<1>1. pc[t] \in Building
  BY DEF SkinReady, Timeout, Interrupt, Building
<1>2. cur[t] \in Ids
  BY <1>1, CurFacts DEF Building
<1>3. CASE SkinReady(t)
  <2>1. /\ pc' = [pc EXCEPT ![t] = "wait"] /\ "wait" \in Building
        /\ UNCHANGED <<conn, circuits, nextId, state, nodes, cur, attempts, wire, path, data, destroys>>
    BY <1>3 DEF SkinReady, Building
  <2>2. /\ relay' \in [Ids -> {"none", "asked", "idle", "gone"}]
        /\ fut' \in [Ids -> {"none", "pending", "cancelled", "created", "extended", "truncated"}]
        /\ \A d \in Ids : fut'[d] = fut[d] \/ (d = cur[t] /\ fut'[d] \in {"pending", "cancelled"})
    BY <1>2, <1>3 DEF SkinReady, SendRequest, TypeOK
  <2> QED BY <1>1, <2>1, <2>2, CallStepIInv
<1>4. CASE Timeout(t)
  <2>1. /\ pc' = [pc EXCEPT ![t] = "unwinding"] /\ "unwinding" \in Building
        /\ UNCHANGED <<conn, circuits, nextId, state, nodes, cur, attempts, wire, path, data, destroys>>
    BY <1>4 DEF Timeout, Building, net
  <2>2. /\ relay' \in [Ids -> {"none", "asked", "idle", "gone"}]
        /\ fut' \in [Ids -> {"none", "pending", "cancelled", "created", "extended", "truncated"}]
        /\ \A d \in Ids : fut'[d] = fut[d] \/ (d = cur[t] /\ fut'[d] \in {"pending", "cancelled"})
    BY <1>2, <1>4 DEF Timeout, net, TypeOK
  <2> QED BY <1>1, <2>1, <2>2, CallStepIInv
<1>5. CASE Interrupt(t)
  <2>1. /\ pc' = [pc EXCEPT ![t] = "interrupted"] /\ "interrupted" \in Building
        /\ UNCHANGED <<conn, circuits, nextId, state, nodes, cur, attempts, wire, path, data, destroys>>
    BY <1>5 DEF Interrupt, Building, client, net
  <2>2. /\ relay' \in [Ids -> {"none", "asked", "idle", "gone"}]
        /\ fut' \in [Ids -> {"none", "pending", "cancelled", "created", "extended", "truncated"}]
        /\ \A d \in Ids : fut'[d] = fut[d] \/ (d = cur[t] /\ fut'[d] \in {"pending", "cancelled"})
    BY <1>5 DEF Interrupt, client, net, TypeOK
  <2> QED BY <1>1, <2>1, <2>2, CallStepIInv
<1> QED BY <1>3, <1>4, <1>5

(* A hop is done: only the first one turns the circuit Connected, and it   *)
(* has announced nothing before.                                           *)
LEMMA HopDoneIInv ==
  ASSUME IInv, NEW t \in Tasks, HopDone(t)
  PROVE  IInv'
<1> USE DEF IInv
<1> DEFINE c == cur[t]
<1>1. /\ pc[t] \in {"wait", "interrupted"} /\ pc[t] \in Building
      /\ fut[c] \in {"created", "extended", "truncated"}
      /\ fut' = [fut EXCEPT ![c] = "none"]
      /\ nodes' = [nodes EXCEPT ![c] = nodes[c] + 1]
      /\ UNCHANGED <<conn, wire, path, data>>
  BY DEF HopDone, Answered, Building
<1>2. c \in Ids /\ state[c] # "none"
  BY <1>1, CurFacts DEF Building
<1>3. CASE nodes[c] > 0 /\ state[c] # "Connected" /\ GiveUpCircuit(t, FALSE)
  <2>1. FALSE \in BOOLEAN
    OBVIOUS
  <2> QED BY <1>1, <1>3, <2>1, GiveUpIInv
<1>4. CASE /\ state' = [state EXCEPT ![c] = IF nodes[c] = 0 THEN "Connected" ELSE state[c]]
           /\ pc' = [pc EXCEPT ![t] = IF nodes[c] + 1 >= Hops[t] THEN "returned" ELSE "skin"]
           /\ UNCHANGED <<circuits, nextId, cur, attempts, relay, destroys>>
  <2> HIDE DEF c
  <2>1. PICK to \in {"returned", "skin"} : pc' = [pc EXCEPT ![t] = to]
    BY <1>4
  <2>2. nodes[c] \in Nat /\ nodes'[c] > 0
    BY <1>1, <1>2 DEF TypeOK
  <2>3. TypeOK'
    <3>1. pc' \in [Tasks -> {"idle"} \cup Building \cup Over]
      BY <2>1 DEF TypeOK, Building, Over
    <3>2. nodes' \in [Ids -> Nat]
      BY <1>1, <1>2 DEF TypeOK
    <3>3. state' \in [Ids -> {"none", "Connecting", "Connected", "Destroyed"}]
      BY <1>2, <1>4 DEF TypeOK
    <3> QED BY <1>1, <1>4, <3>1, <3>2, <3>3 DEF TypeOK
  <2>4. IdsFresh' /\ AttemptsLeft'
    BY <1>1, <1>2, <1>4, <2>1 DEF IdsFresh, AttemptsLeft, Building, TypeOK
  <2>5. DestroyOnce' /\ OneDestroy'
    BY <1>1, <1>2, <1>4, <2>2 DEF DestroyOnce, OneDestroy, TypeOK
  <2>6. DeadUnanswered' /\ DeadGuardHasNoCircuit'
    BY <1>1, <1>2, <1>4 DEF DeadUnanswered, DeadGuardHasNoCircuit, TypeOK
  <2>7. MapHoldsLive'
    BY <1>2, <1>4 DEF MapHoldsLive, TypeOK
  <2>8. MappedIsOwned'
    <3> SUFFICES ASSUME NEW d \in circuits
                 PROVE  \E u \in Tasks : /\ cur'[u] = d
                                         /\ \/ pc'[u] \in Building \cup {"returned"}
                                            \/ pc'[u] = "cancelled" /\ ~CancelledIsException
      BY <1>4 DEF MappedIsOwned
    <3>1. PICK u \in Tasks : /\ cur[u] = d
                             /\ \/ pc[u] \in Building \cup {"returned"}
                                \/ pc[u] = "cancelled" /\ ~CancelledIsException
      BY DEF MappedIsOwned
    <3>2. CASE u = t
      BY <1>4, <2>1, <3>1, <3>2 DEF TypeOK, Building
    <3>3. CASE u # t
      BY <1>4, <2>1, <3>1, <3>3 DEF TypeOK
    <3> QED BY <3>2, <3>3
  <2> QED BY <2>3, <2>4, <2>5, <2>6, <2>7, <2>8
<1> QED BY <1>3, <1>4 DEF HopDone

(* The three ways an attempt fails while its call goes on.                 *)
LEMMA FailStepsIInv ==
  ASSUME IInv, NEW t \in Tasks, SkinFails(t) \/ HopFails(t) \/ TimedOut(t)
  PROVE  IInv'
<1>1. CASE SkinFails(t)
  BY <1>1, GiveUpIInv DEF SkinFails, Building
<1>2. CASE HopFails(t)
  <2>1. (fut[cur[t]] # Expected(cur[t]) /\ nodes[cur[t]] > 0) \in BOOLEAN
    OBVIOUS
  <2> QED BY <1>2, <2>1, GiveUpIInv DEF HopFails, Answered, Building
<1>3. CASE TimedOut(t)
  BY <1>3, GiveUpIInv DEF TimedOut, Building
<1> QED BY <1>1, <1>2, <1>3

-----------------------------------------------------------------------------
(* Circuits of S are destroyed and leave the map: the shape of every close.*)
LEMMA CloseFacts ==
  ASSUME IInv, NEW S \in SUBSET Ids, \A c \in S : state[c] # "none",
         NEW send \in BOOLEAN, DestroyAll(S, send), circuits' = circuits \ S,
         nodes' = nodes, \A c \in Ids : fut'[c] \in {"none", fut[c]}
  PROVE  /\ circuits' \subseteq Ids
         /\ state' \in [Ids -> {"none", "Connecting", "Connected", "Destroyed"}]
         /\ relay' \in [Ids -> {"none", "asked", "idle", "gone"}]
         /\ destroys' \in [Ids -> Nat]
         /\ \A c \in Ids : state'[c] = "none" <=> state[c] = "none"
         /\ \A c \in circuits' : c \in circuits /\ state'[c] = state[c]
         /\ MapHoldsLive' /\ DestroyOnce' /\ OneDestroy'
<1> USE DEF IInv
<1>1. state' = [c \in Ids |-> IF c \in S THEN "Destroyed" ELSE state[c]]
      /\ destroys' = [c \in Ids |-> IF c \in Announces(S, send)
                                    THEN destroys[c] + 1 ELSE destroys[c]]
      /\ relay' = [c \in Ids |-> IF c \in Announces(S, send) /\ conn = "open"
                                 THEN "gone" ELSE relay[c]]
  BY DEF DestroyAll
<1>2. \A c \in Announces(S, send) : c \in S /\ state[c] = "Connected"
  BY DEF Announces
<1>3. /\ state' \in [Ids -> {"none", "Connecting", "Connected", "Destroyed"}]
      /\ relay' \in [Ids -> {"none", "asked", "idle", "gone"}]
      /\ destroys' \in [Ids -> Nat]
  BY <1>1 DEF TypeOK
<1>4. \A c \in Ids : state'[c] = "none" <=> state[c] = "none"
  BY <1>1
<1>5. circuits' \subseteq Ids /\ \A c \in circuits' : c \in circuits /\ state'[c] = state[c]
  BY <1>1 DEF TypeOK
<1>6. MapHoldsLive'
  BY <1>5 DEF MapHoldsLive
<1>7. OneDestroy'
  BY <1>1, <1>2 DEF DestroyOnce, OneDestroy, TypeOK
<1>8. DestroyOnce'
  BY <1>1, <1>2 DEF DestroyOnce, TypeOK
<1> QED BY <1>3, <1>4, <1>5, <1>6, <1>7, <1>8

(* A call that stops closes its circuit: by its own cancellation where the *)
(* except clause sees it, or as the owner of a finished circuit.           *)
LEMMA CloseOwnIInv ==
  ASSUME IInv, NEW t \in Tasks, pc[t] # "idle", DestroyCircuit(cur[t], TRUE),
         NEW to \in Over, pc' = [pc EXCEPT ![t] = to],
         fut' \in {fut, [fut EXCEPT ![cur[t]] = "none"]},
         UNCHANGED <<conn, nextId, nodes, cur, attempts, wire, path, data>>
  PROVE  IInv'
<1> USE DEF IInv
<1> DEFINE c == cur[t]
<1>1. c \in Ids /\ state[c] # "none"
  BY CurFacts
<1>2. DestroyAll({c}, TRUE) /\ circuits' = circuits \ {c}
  BY DEF DestroyCircuit
<1>3. /\ \A d \in Ids : fut'[d] \in {"none", fut[d]}
      /\ fut' \in [Ids -> {"none", "pending", "cancelled", "created", "extended", "truncated"}]
  BY <1>1 DEF TypeOK
<1> HIDE DEF c
<1>4. {c} \in SUBSET Ids /\ (\A d \in {c} : state[d] # "none") /\ TRUE \in BOOLEAN
  BY <1>1
<1>5. /\ circuits' \subseteq Ids
      /\ state' \in [Ids -> {"none", "Connecting", "Connected", "Destroyed"}]
      /\ relay' \in [Ids -> {"none", "asked", "idle", "gone"}]
      /\ destroys' \in [Ids -> Nat]
      /\ \A d \in Ids : state'[d] = "none" <=> state[d] = "none"
      /\ \A d \in circuits' : d \in circuits /\ state'[d] = state[d]
      /\ MapHoldsLive' /\ DestroyOnce' /\ OneDestroy'
  BY <1>2, <1>3, <1>4, CloseFacts
<1>6. TypeOK'
  <2>1. pc' \in [Tasks -> {"idle"} \cup Building \cup Over]
    BY DEF TypeOK
  <2> QED BY <1>3, <1>5, <2>1 DEF TypeOK
<1>7. IdsFresh' /\ AttemptsLeft'
  BY <1>5 DEF IdsFresh, AttemptsLeft, Building, Over, TypeOK
<1>9. DeadUnanswered' /\ DeadGuardHasNoCircuit'
  <2>1. \A d \in circuits' : d \in circuits /\ d \in Ids
    BY <1>2 DEF TypeOK
  <2> QED BY <1>3, <1>5, <2>1 DEF DeadUnanswered, DeadGuardHasNoCircuit
<1>10. MappedIsOwned'
  <2> SUFFICES ASSUME NEW d \in circuits'
               PROVE  \E u \in Tasks : /\ cur'[u] = d
                                       /\ \/ pc'[u] \in Building \cup {"returned"}
                                          \/ pc'[u] = "cancelled" /\ ~CancelledIsException
    BY DEF MappedIsOwned
  <2>1. PICK u \in Tasks : /\ cur[u] = d
                           /\ \/ pc[u] \in Building \cup {"returned"}
                              \/ pc[u] = "cancelled" /\ ~CancelledIsException
    BY <1>2 DEF MappedIsOwned
  <2>2. u # t
    BY <1>2, <2>1 DEF c
  <2> QED BY <2>1, <2>2 DEF TypeOK
<1> QED BY <1>5, <1>6, <1>7, <1>9, <1>10

(* A cancelled call whose except clause does not see the cancellation      *)
(* leaves the circuit to nobody but its own cancelled task.                *)
LEMMA UnwindIInv ==
  ASSUME IInv, NEW t \in Tasks, Unwind(t)
  PROVE  IInv'
<1> USE DEF IInv
<1>1. /\ pc[t] = "interrupted" /\ pc' = [pc EXCEPT ![t] = "cancelled"] /\ "cancelled" \in Over
      /\ UNCHANGED <<conn, nextId, nodes, cur, attempts, wire, path, data>>
  BY DEF Unwind, Over
<1>2. CASE CancelledIsException
  BY <1>1, <1>2, CloseOwnIInv DEF Unwind
<1>3. CASE ~CancelledIsException
  <2>1. /\ fut' = [fut EXCEPT ![cur[t]] = IF fut[cur[t]] = "pending" THEN "cancelled" ELSE fut[cur[t]]]
        /\ UNCHANGED <<circuits, state, relay, destroys>>
    BY <1>3 DEF Unwind
  <2>2. cur[t] \in Ids /\ state[cur[t]] # "none"
    BY <1>1, CurFacts
  <2>3. /\ fut' \in [Ids -> {"none", "pending", "cancelled", "created", "extended", "truncated"}]
        /\ \A d \in Ids : fut'[d] = fut[d] \/ (d = cur[t] /\ fut'[d] = "cancelled")
    BY <2>1, <2>2 DEF TypeOK
  <2>4. TypeOK'
    <3>1. pc' \in [Tasks -> {"idle"} \cup Building \cup Over]
      BY <1>1 DEF TypeOK
    <3> QED BY <1>1, <2>1, <2>3, <3>1 DEF TypeOK
  <2>5. IdsFresh' /\ AttemptsLeft'
    BY <1>1, <2>1 DEF IdsFresh, AttemptsLeft, Building, TypeOK
  <2>6. DestroyOnce' /\ OneDestroy'
    BY <1>1, <2>1, <2>2, <2>3 DEF DestroyOnce, OneDestroy
  <2>7. DeadUnanswered' /\ DeadGuardHasNoCircuit' /\ MapHoldsLive'
    BY <1>1, <2>1, <2>3 DEF DeadUnanswered, DeadGuardHasNoCircuit, MapHoldsLive, TypeOK
  <2>8. MappedIsOwned'
    <3> SUFFICES ASSUME NEW d \in circuits
                 PROVE  \E u \in Tasks : /\ cur'[u] = d
                                         /\ \/ pc'[u] \in Building \cup {"returned"}
                                            \/ pc'[u] = "cancelled" /\ ~CancelledIsException
      BY <2>1 DEF MappedIsOwned
    <3>1. PICK u \in Tasks : /\ cur[u] = d
                             /\ \/ pc[u] \in Building \cup {"returned"}
                                \/ pc[u] = "cancelled" /\ ~CancelledIsException
      BY DEF MappedIsOwned
    <3>2. CASE u = t
      BY <1>1, <1>3, <3>1, <3>2 DEF TypeOK
    <3>3. CASE u # t
      BY <1>1, <3>1, <3>3 DEF TypeOK
    <3> QED BY <3>2, <3>3
  <2> QED BY <2>4, <2>5, <2>6, <2>7, <2>8
<1> QED BY <1>2, <1>3

(* The guard closes: no circuit is left in the map.                        *)
LEMMA CloseGuardIInv ==
  ASSUME IInv, NEW how \in {"closed", "crashed"}, CloseGuard(how),
         UNCHANGED <<nextId, nodes, fut, pc, cur, attempts, path, data>>
  PROVE  IInv'
<1> USE DEF IInv
<1>1. /\ DestroyAll(circuits, TRUE) /\ circuits' = circuits \ circuits
      /\ circuits' = {} /\ conn' = how /\ wire' = <<>>
  BY DEF CloseGuard
<1>2. /\ circuits \in SUBSET Ids /\ (\A d \in circuits : state[d] # "none") /\ TRUE \in BOOLEAN
      /\ \A d \in Ids : fut'[d] \in {"none", fut[d]}
  BY DEF TypeOK, MapHoldsLive
<1>3. /\ circuits' \subseteq Ids
      /\ state' \in [Ids -> {"none", "Connecting", "Connected", "Destroyed"}]
      /\ relay' \in [Ids -> {"none", "asked", "idle", "gone"}]
      /\ destroys' \in [Ids -> Nat]
      /\ \A d \in Ids : state'[d] = "none" <=> state[d] = "none"
      /\ MapHoldsLive' /\ DestroyOnce' /\ OneDestroy'
  BY <1>1, <1>2, CloseFacts
<1>4. TypeOK'
  <2>1. wire' \in Seq(Cell) /\ conn' \in {"open", "lost", "closed", "crashed"}
    BY <1>1
  <2> QED BY <1>3, <2>1 DEF TypeOK
<1>5. IdsFresh' /\ AttemptsLeft'
  BY <1>3 DEF IdsFresh, AttemptsLeft
<1>6. DeadUnanswered' /\ DeadGuardHasNoCircuit' /\ MappedIsOwned'
  BY <1>1 DEF DeadUnanswered, DeadGuardHasNoCircuit, MappedIsOwned
<1> QED BY <1>3, <1>4, <1>5, <1>6

(* A DESTROY of the peer ends one circuit; its owner stays its owner.      *)
LEMMA PeerDestroyIInv ==
  ASSUME IInv, NEW c \in circuits, DestroyCircuit(c, FALSE), wire' \in Seq(Cell),
         UNCHANGED <<conn, nextId, nodes, fut, pc, cur, attempts, path, data>>
  PROVE  IInv'
<1> USE DEF IInv
<1>1. DestroyAll({c}, FALSE) /\ circuits' = circuits \ {c}
  BY DEF DestroyCircuit
<1>2. /\ {c} \in SUBSET Ids /\ (\A d \in {c} : state[d] # "none") /\ FALSE \in BOOLEAN
      /\ \A d \in Ids : fut'[d] \in {"none", fut[d]}
  BY DEF TypeOK, MapHoldsLive
<1>3. /\ circuits' \subseteq Ids
      /\ state' \in [Ids -> {"none", "Connecting", "Connected", "Destroyed"}]
      /\ relay' \in [Ids -> {"none", "asked", "idle", "gone"}]
      /\ destroys' \in [Ids -> Nat]
      /\ \A d \in Ids : state'[d] = "none" <=> state[d] = "none"
      /\ \A d \in circuits' : d \in circuits /\ state'[d] = state[d]
      /\ MapHoldsLive' /\ DestroyOnce' /\ OneDestroy'
  BY <1>1, <1>2, CloseFacts
<1>4. TypeOK'
  BY <1>3 DEF TypeOK
<1>5. IdsFresh' /\ AttemptsLeft'
  BY <1>3 DEF IdsFresh, AttemptsLeft
<1>6. DeadUnanswered' /\ DeadGuardHasNoCircuit'
  <2>1. \A d \in circuits' : d \in circuits /\ d \in Ids
    BY <1>3
  <2> QED BY <1>3, <2>1 DEF DeadUnanswered, DeadGuardHasNoCircuit
<1>7. MappedIsOwned'
  BY <1>3 DEF MappedIsOwned
<1> QED BY <1>3, <1>4, <1>5, <1>6, <1>7

(* The reader answers a request only while the connection is open.         *)
LEMMA ReadCellIInv ==
  ASSUME IInv, ReadCell
  PROVE  IInv'
<1> USE DEF IInv
<1> DEFINE m == Head(wire)
<1>1. /\ conn = "open" /\ wire # <<>>
      /\ UNCHANGED <<nextId, nodes, pc, cur, attempts, path, data>>
  BY DEF ReadCell, calls
<1>2. /\ wire \in Seq(Cell) /\ m \in Cell /\ Tail(wire) \in Seq(Cell)
      /\ m.id \in Ids /\ m.kind \in {"created", "extended", "truncated", "data", "destroy"}
  <2>1. wire \in Seq(Cell)
    BY DEF TypeOK
  <2>2. Head(wire) \in Cell /\ Tail(wire) \in Seq(Cell)
    BY <1>1, <2>1
  <2> QED BY <2>1, <2>2 DEF Cell
<1> HIDE DEF m
<1>3. CASE Crash
  <2>1. "crashed" \in {"closed", "crashed"}
    OBVIOUS
  <2> QED BY <1>1, <1>3, <2>1, CloseGuardIInv DEF Crash
<1>4. CASE /\ m.id \in circuits /\ DestroyCircuit(m.id, FALSE)
           /\ wire' = Tail(wire) /\ UNCHANGED <<conn, fut>>
  BY <1>1, <1>2, <1>4, PeerDestroyIInv
<1>5. CASE /\ wire' = Tail(wire)
           /\ UNCHANGED <<conn, circuits, state, relay, destroys>>
           /\ \/ fut' = fut
              \/ /\ fut[m.id] = "pending" /\ m.kind \notin {"destroy", "data"}
                 /\ fut' = [fut EXCEPT ![m.id] = m.kind]
  <2>1. /\ fut' \in [Ids -> {"none", "pending", "cancelled", "created", "extended", "truncated"}]
        /\ \A d \in Ids : fut'[d] = "none" <=> fut[d] = "none"
    <3>1. CASE fut' = fut
      BY <3>1 DEF TypeOK
    <3>2. CASE /\ fut[m.id] = "pending" /\ m.kind \notin {"destroy", "data"}
               /\ fut' = [fut EXCEPT ![m.id] = m.kind]
      <4>1. m.kind \in {"created", "extended", "truncated"} /\ m.id \in Ids
        BY <1>2, <3>2
      <4>2. fut \in [Ids -> {"none", "pending", "cancelled", "created", "extended", "truncated"}]
        BY DEF TypeOK
      <4> QED BY <3>2, <4>1, <4>2
    <3> QED BY <1>5, <3>1, <3>2
  <2>2. TypeOK'
    BY <1>1, <1>2, <1>5, <2>1 DEF TypeOK
  <2>3. IdsFresh' /\ AttemptsLeft' /\ DestroyOnce' /\ OneDestroy'
    BY <1>1, <1>5, <2>1 DEF IdsFresh, AttemptsLeft, DestroyOnce, OneDestroy
  <2>4. DeadUnanswered' /\ DeadGuardHasNoCircuit' /\ MapHoldsLive' /\ MappedIsOwned'
    BY <1>1, <1>5 DEF DeadUnanswered, DeadGuardHasNoCircuit, MapHoldsLive, MappedIsOwned
  <2> QED BY <2>2, <2>3, <2>4
<1> QED BY <1>1, <1>2, <1>3, <1>4, <1>5 DEF ReadCell, m

(* Losing the connection and the steps of the relays leave the client's    *)
(* side alone.                                                             *)
LEMMA OutsideIInv ==
  ASSUME IInv, UNCHANGED <<circuits, nextId, state, nodes, fut, pc, cur, attempts, destroys>>,
         conn' = conn \/ conn' = "lost", wire' \in Seq(Cell), data' \in 0..MaxData,
         relay' \in [Ids -> {"none", "asked", "idle", "gone"}], path' \in [Ids -> Nat]
  PROVE  IInv'
<1> USE DEF IInv
<1>1. TypeOK'
  BY DEF TypeOK
<1>2. IdsFresh' /\ AttemptsLeft' /\ DestroyOnce' /\ OneDestroy'
  BY DEF IdsFresh, AttemptsLeft, DestroyOnce, OneDestroy
<1>3. DeadUnanswered' /\ DeadGuardHasNoCircuit' /\ MapHoldsLive' /\ MappedIsOwned'
  BY DEF DeadUnanswered, DeadGuardHasNoCircuit, MapHoldsLive, MappedIsOwned
<1> QED BY <1>1, <1>2, <1>3

(* The relays put cells on the wire and touch nothing of the client.       *)
LEMMA RelayStepIInv ==
  ASSUME IInv, NEW c \in Ids,
         RelayBuilds(c) \/ RelayRefuses(c) \/ RelayDestroys(c) \/ RelaySends(c)
  PROVE  IInv'
<1>1. TypeOK
  BY DEF IInv
<1>2. UNCHANGED <<conn, circuits, nextId, state, nodes, fut, pc, cur, attempts, destroys>>
  BY DEF RelayBuilds, RelayRefuses, RelayDestroys, RelaySends, client, calls
<1>3. PICK k \in {"created", "extended", "truncated", "data", "destroy"} : Emit(c, k)
  BY DEF RelayBuilds, RelayRefuses, RelayDestroys, RelaySends
<1>4. wire' \in Seq(Cell)
  <2>1. path[c] \in Nat
    BY <1>1 DEF TypeOK
  <2>2. [id |-> c, kind |-> k, hop |-> path[c]] \in Cell
    BY <1>3, <2>1 DEF Cell
  <2> QED BY <1>1, <1>3, <2>2 DEF Emit, TypeOK
<1>5. data' \in 0..MaxData
  BY <1>1 DEF RelayBuilds, RelayRefuses, RelayDestroys, RelaySends, TypeOK
<1>6. relay' \in [Ids -> {"none", "asked", "idle", "gone"}]
  BY <1>1 DEF RelayBuilds, RelayRefuses, RelayDestroys, RelaySends, TypeOK
<1>7. path' \in [Ids -> Nat]
  <2>1. CASE RelayBuilds(c)
    BY <1>1, <2>1 DEF RelayBuilds, TypeOK
  <2>2. CASE path' = path
    BY <1>1, <2>2 DEF TypeOK
  <2> QED BY <2>1, <2>2 DEF RelayRefuses, RelayDestroys, RelaySends
<1> QED BY <1>2, <1>4, <1>5, <1>6, <1>7, OutsideIInv

-----------------------------------------------------------------------------
(* Every step of the program and of its environment keeps the invariant.   *)
LEMMA NextIInv ==
  ASSUME IInv, [Next]_vars
  PROVE  IInv'
<1>1. ASSUME NEW t \in Tasks, Begin(t) \/ Run(t) \/ Interrupt(t) \/ CloseCircuit(t)
      PROVE  IInv'
  <2>1. CASE Begin(t)
    BY <2>1, BeginIInv
  <2>2. CASE SkinReady(t) \/ Timeout(t) \/ Interrupt(t)
    BY <2>2, WaitStepsIInv
  <2>3. CASE SkinFails(t) \/ HopFails(t) \/ TimedOut(t)
    BY <2>3, FailStepsIInv
  <2>4. CASE HopDone(t)
    BY <2>4, HopDoneIInv
  <2>5. CASE Unwind(t)
    BY <2>5, UnwindIInv
  <2>6. CASE CloseCircuit(t)
    <3>1. "closed" \in Over
      BY DEF Over
    <3> QED BY <2>6, <3>1, CloseOwnIInv DEF CloseCircuit
  <2> QED BY <1>1, <2>1, <2>2, <2>3, <2>4, <2>5, <2>6 DEF Run
<1>2. CASE UserCloseGuard
  <2>1. "closed" \in {"closed", "crashed"}
    OBVIOUS
  <2> QED BY <1>2, <2>1, CloseGuardIInv DEF UserCloseGuard, calls
<1>3. CASE ReadCell
  BY <1>3, ReadCellIInv
<1>4. CASE LoseConnection
  <2>1. /\ UNCHANGED <<circuits, nextId, state, nodes, fut, pc, cur, attempts, destroys>>
        /\ conn' = "lost" /\ wire' \in Seq(Cell) /\ data' \in 0..MaxData
        /\ relay' \in [Ids -> {"none", "asked", "idle", "gone"}] /\ path' \in [Ids -> Nat]
    BY <1>4 DEF LoseConnection, client, calls, IInv, TypeOK
  <2> QED BY <2>1, OutsideIInv
<1>5. ASSUME NEW c \in Ids,
             RelayBuilds(c) \/ RelayRefuses(c) \/ RelayDestroys(c) \/ RelaySends(c)
      PROVE  IInv'
  BY <1>5, RelayStepIInv
<1>6. CASE UNCHANGED vars
  <2>1. /\ UNCHANGED <<circuits, nextId, state, nodes, fut, pc, cur, attempts, destroys>>
        /\ conn' = conn /\ wire' \in Seq(Cell) /\ data' \in 0..MaxData
        /\ relay' \in [Ids -> {"none", "asked", "idle", "gone"}] /\ path' \in [Ids -> Nat]
    BY <1>6 DEF vars, client, calls, net, IInv, TypeOK
  <2> QED BY <2>1, OutsideIInv
<1> QED BY <1>1, <1>2, <1>3, <1>4, <1>5, <1>6 DEF Next

(* The inductive invariant holds in every reachable state.                 *)
THEOREM Invariance == Spec => []IInv
<1>1. IInv /\ [Next]_vars => IInv'
  BY NextIInv
<1> QED BY <1>1, InitIInv, PTL DEF Spec

(* The variables keep the types the code's values have.                    *)
THEOREM TypeCorrect == Spec => []TypeOK
<1>1. IInv => TypeOK
  BY DEF IInv
<1> QED BY <1>1, Invariance, PTL

(* destroy() meets only circuits that are Connecting or Connected.         *)
THEOREM MapIsLive == Spec => []MapHoldsLive
<1>1. IInv => MapHoldsLive
  BY DEF IInv
<1> QED BY <1>1, Invariance, PTL

(* No registered circuit is without a task that closes it, but for those   *)
(* that a CancelledError leaves behind.                                    *)
THEOREM MapIsOwned == Spec => []MappedIsOwned
<1>1. IInv => MappedIsOwned
  BY DEF IInv
<1> QED BY <1>1, Invariance, PTL

(* After a close only circuits still Connecting can be registered.         *)
THEOREM DeadGuardEmpty == Spec => []DeadGuardHasNoCircuit
<1>1. IInv => DeadGuardHasNoCircuit
  BY DEF IInv
<1> QED BY <1>1, Invariance, PTL

(* No circuit's end is announced twice, whoever closes it.                 *)
THEOREM DestroyedAtMostOnce == Spec => []OneDestroy
<1>1. IInv => OneDestroy
  BY DEF IInv
<1> QED BY <1>1, Invariance, PTL

-----------------------------------------------------------------------------
(* Path and encryption of a circuit.  A request of a call has at most one  *)
(* answer: it is with the relay, on the wire or in the future, and the     *)
(* relays are a hop ahead exactly while it is on its way.                  *)
IsAnswer(m, c) == m.id = c /\ m.kind \in {"created", "extended", "truncated"}

NoAnswer(c) == \A i \in 1..Len(wire) : ~IsAnswer(wire[i], c)

Quiet(c) == relay[c] # "asked" /\ NoAnswer(c)

Outstanding(c) ==
  /\ relay[c] = "asked" => NoAnswer(c) /\ path[c] = nodes[c]
  /\ \A i \in 1..Len(wire) :
       IsAnswer(wire[i], c) /\ wire[i].kind # "truncated" => path[c] = nodes[c] + 1
  /\ \A i, j \in 1..Len(wire) : IsAnswer(wire[i], c) /\ IsAnswer(wire[j], c) => i = j

CallInv(t) ==
  \A c \in Ids :
    c = cur[t] =>
      /\ pc[t] \in {"skin", "returned"} => Quiet(c) /\ path[c] = nodes[c]
      /\ pc[t] = "skin" => fut[c] = "none"
      /\ pc[t] = "unwinding" => fut[c] = "cancelled"
      /\ pc[t] \in {"wait", "interrupted"} /\ fut[c] = "pending" => Outstanding(c)
      /\ pc[t] \in {"wait", "interrupted"} /\ fut[c] \in {"created", "extended"} =>
           Quiet(c) /\ path[c] = nodes[c] + 1
      /\ pc[t] \in Building => nodes[c] < Hops[t]
      /\ pc[t] = "returned" => nodes[c] = Hops[t]

PathInv ==
  /\ \A c \in Ids : state[c] = "none" => Quiet(c) /\ path[c] = 0
  /\ \A t \in Tasks : CallInv(t)

(* A step that brings no answer to circuit c and changes nothing of it but *)
(* that its relay may go.                                                  *)
NoNewAnswer(c) ==
  \E s \in {0, 1} : \A i \in 1..Len(wire') :
    IsAnswer(wire'[i], c) => i + s \in 1..Len(wire) /\ wire'[i] = wire[i + s]

Same(c) ==
  /\ relay'[c] \in {relay[c], "gone"}
  /\ path'[c] = path[c] /\ nodes'[c] = nodes[c] /\ fut'[c] = fut[c]
  /\ NoNewAnswer(c)

LEMMA CircuitSame ==
  ASSUME NEW c \in Ids, Same(c)
  PROVE  (Quiet(c) => Quiet(c)') /\ (Outstanding(c) => Outstanding(c)')
<1>1. PICK s \in {0, 1} : \A i \in 1..Len(wire') :
        IsAnswer(wire'[i], c) => i + s \in 1..Len(wire) /\ wire'[i] = wire[i + s]
  BY DEF Same, NoNewAnswer
<1>2. NoAnswer(c) => NoAnswer(c)'
  BY <1>1 DEF NoAnswer, IsAnswer
<1>3. Quiet(c) => Quiet(c)'
  BY <1>2 DEF Quiet, Same
<1>4. ASSUME Outstanding(c) PROVE Outstanding(c)'
  <2>1. relay'[c] = "asked" => NoAnswer(c)' /\ path'[c] = nodes'[c]
    BY <1>2, <1>4 DEF Outstanding, Same
  <2>2. ASSUME NEW i \in 1..Len(wire'), IsAnswer(wire'[i], c), wire'[i].kind # "truncated"
        PROVE  path'[c] = nodes'[c] + 1
    BY <1>1, <1>4, <2>2 DEF Outstanding, Same
  <2>3. ASSUME NEW i \in 1..Len(wire'), NEW j \in 1..Len(wire'), IsAnswer(wire'[i], c), IsAnswer(wire'[j], c)
        PROVE  i = j
    <3>1. /\ i + s \in 1..Len(wire) /\ IsAnswer(wire[i + s], c)
          /\ j + s \in 1..Len(wire) /\ IsAnswer(wire[j + s], c)
      BY <1>1, <2>3
    <3>2. i + s = j + s
      BY <1>4, <3>1 DEF Outstanding
    <3> QED BY <3>2
  <2> QED BY <2>1, <2>2, <2>3 DEF Outstanding, IsAnswer
<1> QED BY <1>3, <1>4

(* How the wire moves.                                                     *)
LEMMA WireMoves ==
  ASSUME IInv, NEW c \in Ids
  PROVE  /\ wire' = wire => NoNewAnswer(c)
         /\ wire' = <<>> => NoNewAnswer(c)
         /\ wire # <<>> /\ wire' = Tail(wire) => NoNewAnswer(c)
         /\ \A e \in Cell : wire' = Append(wire, e) /\ ~IsAnswer(e, c) => NoNewAnswer(c)
<1>1. wire \in Seq(Cell) /\ Len(wire) \in Nat
  BY DEF IInv, TypeOK
<1>2. ASSUME wire' = wire PROVE NoNewAnswer(c)
  <2>1. \A i \in 1..Len(wire') : i + 0 \in 1..Len(wire) /\ wire'[i] = wire[i + 0]
    BY <1>1, <1>2
  <2> QED BY <2>1 DEF NoNewAnswer
<1>3. ASSUME wire' = <<>> PROVE NoNewAnswer(c)
  <2>1. 1..Len(wire') = {}
    BY <1>3
  <2> QED BY <2>1 DEF NoNewAnswer
<1>4. ASSUME wire # <<>>, wire' = Tail(wire) PROVE NoNewAnswer(c)
  <2>1. \A i \in 1..Len(wire') : i + 1 \in 1..Len(wire) /\ wire'[i] = wire[i + 1]
    BY <1>1, <1>4
  <2> QED BY <2>1 DEF NoNewAnswer
<1>5. ASSUME NEW e \in Cell, wire' = Append(wire, e), ~IsAnswer(e, c) PROVE NoNewAnswer(c)
  <2>1. ASSUME NEW i \in 1..Len(wire'), IsAnswer(wire'[i], c)
        PROVE  i + 0 \in 1..Len(wire) /\ wire'[i] = wire[i + 0]
    <3>1. CASE i = Len(wire) + 1
      <4>1. wire'[i] = e
        BY <1>1, <1>5, <3>1
      <4> QED BY <1>5, <2>1, <4>1
    <3>2. CASE i # Len(wire) + 1
      BY <1>1, <1>5, <3>2
    <3> QED BY <3>1, <3>2
  <2> QED BY <2>1 DEF NoNewAnswer
<1> QED BY <1>2, <1>3, <1>4, <1>5

(* What a call whose circuit stays the same says of it.                    *)
LEMMA CallSame ==
  ASSUME NEW u \in Tasks, CallInv(u), pc'[u] = pc[u], cur'[u] = cur[u],
         \A c \in Ids : c = cur[u] => Same(c)
  PROVE  CallInv(u)'
<1> SUFFICES ASSUME NEW c \in Ids, c = cur[u]
             PROVE  /\ pc[u] \in {"skin", "returned"} => Quiet(c)' /\ path'[c] = nodes'[c]
                    /\ pc[u] = "skin" => fut'[c] = "none"
                    /\ pc[u] = "unwinding" => fut'[c] = "cancelled"
                    /\ pc[u] \in {"wait", "interrupted"} /\ fut'[c] = "pending" => Outstanding(c)'
                    /\ pc[u] \in {"wait", "interrupted"} /\ fut'[c] \in {"created", "extended"} =>
                         Quiet(c)' /\ path'[c] = nodes'[c] + 1
                    /\ pc[u] \in Building => nodes'[c] < Hops[u]
                    /\ pc[u] = "returned" => nodes'[c] = Hops[u]
  BY DEF CallInv
<1>1. (Quiet(c) => Quiet(c)') /\ (Outstanding(c) => Outstanding(c)')
  BY CircuitSame
<1>2. path'[c] = path[c] /\ nodes'[c] = nodes[c] /\ fut'[c] = fut[c]
  BY DEF Same
<1> QED BY <1>1, <1>2 DEF CallInv

(* A step of one call, which may move its own circuit.                     *)
LEMMA TaskStep ==
  ASSUME IInv, PathInv, NEW t \in Tasks,
         \A u \in Tasks : u # t => pc'[u] = pc[u] /\ cur'[u] = cur[u],
         \A c \in Ids : c # cur[t] => Same(c),
         \A c \in Ids : state'[c] = "none" => state[c] = "none" /\ c # cur[t],
         CallInv(t)'
  PROVE  PathInv'
<1>1. ASSUME NEW c \in Ids, state'[c] = "none" PROVE Quiet(c)' /\ path'[c] = 0
  <2>1. Same(c) /\ Quiet(c) /\ path[c] = 0
    BY <1>1 DEF PathInv
  <2> QED BY <2>1, CircuitSame DEF Same
<1>2. ASSUME NEW u \in Tasks, u # t PROVE CallInv(u)'
  <2>1. ASSUME NEW c \in Ids, c = cur[u] PROVE c # cur[t]
    <3>1. c # 0
      BY IdsNat
    <3> QED BY <1>2, <2>1, <3>1 DEF IInv, IdsFresh
  <2> QED BY <1>2, <2>1, CallSame DEF PathInv
<1> QED BY <1>1, <1>2 DEF PathInv

(* A step of the reader, the guard or a relay, about circuit d or none.    *)
LEMMA OutsideStep ==
  ASSUME IInv, PathInv, UNCHANGED <<pc, cur>>, NEW d,
         \A c \in Ids : c # d => Same(c),
         \A c \in Ids : state'[c] = "none" => state[c] = "none" /\ c # d,
         \A u \in Tasks : d \in Ids /\ d = cur[u] => CallInv(u)'
  PROVE  PathInv'
<1>1. ASSUME NEW c \in Ids, state'[c] = "none" PROVE Quiet(c)' /\ path'[c] = 0
  <2>1. Same(c) /\ Quiet(c) /\ path[c] = 0
    BY <1>1 DEF PathInv
  <2> QED BY <2>1, CircuitSame DEF Same
<1>2. ASSUME NEW u \in Tasks PROVE CallInv(u)'
  <2>1. CASE d \in Ids /\ d = cur[u]
    BY <2>1
  <2>2. CASE ~(d \in Ids /\ d = cur[u])
    <3>1. \A c \in Ids : c = cur[u] => Same(c)
      BY <2>2
    <3> QED BY <3>1, CallSame DEF PathInv
  <2> QED BY <2>1, <2>2
<1> QED BY <1>1, <1>2 DEF PathInv

(* No circuit has been asked for yet.                                      *)
LEMMA InitPathInv == Init => PathInv
<1> SUFFICES ASSUME Init PROVE PathInv
  OBVIOUS
<1>1. 1..Len(wire) = {}
  BY DEF Init
<1>2. \A c \in Ids : Quiet(c) /\ path[c] = 0
  BY <1>1 DEF Init, Quiet, NoAnswer
<1>3. \A t \in Tasks : CallInv(t)
  BY IdsNat DEF Init, CallInv
<1> QED BY <1>2, <1>3 DEF PathInv

-----------------------------------------------------------------------------
(* A fresh circuit is as many hops long at the relays as at the client.    *)
LEMMA FreshCall ==
  ASSUME IInv, PathInv, NEW t \in Tasks, nextId <= MaxCircuits, cur'[t] = nextId, pc'[t] = "skin",
         Same(nextId)
  PROVE  CallInv(t)'
<1>1. nextId \in Ids /\ state[nextId] = "none"
  BY DEF IInv, TypeOK, IdsFresh, Ids
<1>2. Quiet(nextId) /\ path[nextId] = 0 /\ nodes[nextId] = 0 /\ fut[nextId] = "none"
  BY <1>1 DEF PathInv, IInv, DestroyOnce
<1>3. PICK n \in Ids : n = nextId
  BY <1>1
<1>4. Quiet(n)' /\ path'[n] = 0 /\ nodes'[n] = 0 /\ fut'[n] = "none"
  BY <1>2, <1>3, CircuitSame DEF Same
<1>5. 0 < Hops[t]
  OBVIOUS
<1> QED BY <1>3, <1>4, <1>5 DEF CallInv

LEMMA GiveUpPath ==
  ASSUME IInv, PathInv, NEW t \in Tasks, NEW retryable \in BOOLEAN,
         pc[t] \in Building, GiveUpCircuit(t, retryable), UNCHANGED <<wire, path>>,
         fut' \in {fut, [fut EXCEPT ![cur[t]] = "none"]},
         nodes' \in {nodes, [nodes EXCEPT ![cur[t]] = @ + 1]}
  PROVE  PathInv'
<1> DEFINE c == cur[t]
           again == retryable /\ attempts[t] > 1
<1>1. /\ c \in Ids /\ state[c] # "none" /\ nextId \in Nat /\ c \in Nat /\ c < nextId
  BY CurFacts DEF Building
<1>2. relay' = [relay EXCEPT ![c] = IF state[c] = "Connected" /\ conn = "open" THEN "gone" ELSE relay[c]]
  BY DEF GiveUpCircuit
<1>3. \A d \in Ids : d # c => Same(d)
  BY <1>1, <1>2, WireMoves DEF Same, IInv, TypeOK
<1>4. \A u \in Tasks : u # t => pc'[u] = pc[u] /\ cur'[u] = cur[u]
  BY DEF GiveUpCircuit, IInv, TypeOK
<1>5. CASE again
  <2>1. nextId <= MaxCircuits /\ cur'[t] = nextId /\ pc'[t] = "skin"
        /\ state' = [state EXCEPT ![c] = "Destroyed", ![nextId] = "Connecting"]
    BY <1>5 DEF GiveUpCircuit, IInv, TypeOK
  <2>2. nextId \in Ids /\ nextId # c
    BY <1>1, <2>1 DEF Ids
  <2>3. CallInv(t)'
    BY <1>3, <2>1, <2>2, FreshCall
  <2>4. \A d \in Ids : state'[d] = "none" => state[d] = "none" /\ d # c
    BY <1>1, <2>1, <2>2 DEF IInv, TypeOK
  <2> QED BY <1>3, <1>4, <2>3, <2>4, TaskStep
<1>6. CASE ~again
  <2>1. pc'[t] = "raised" /\ state' = [state EXCEPT ![c] = "Destroyed"]
    BY <1>6 DEF GiveUpCircuit, IInv, TypeOK
  <2>2. CallInv(t)'
    BY <2>1 DEF CallInv, Building
  <2>3. \A d \in Ids : state'[d] = "none" => state[d] = "none" /\ d # c
    BY <1>1, <2>1 DEF IInv, TypeOK
  <2> QED BY <1>3, <1>4, <2>2, <2>3, TaskStep
<1> QED BY <1>5, <1>6

(* A call sends its request: it is with the relay and nowhere else.        *)
LEMMA SkinReadyPath ==
  ASSUME IInv, PathInv, NEW t \in Tasks, SkinReady(t)
  PROVE  PathInv'
<1>1. PICK c \in Ids : c = cur[t]
  BY CurFacts DEF SkinReady
<1>2. /\ pc[t] = "skin" /\ pc' = [pc EXCEPT ![t] = "wait"]
      /\ fut' = [fut EXCEPT ![c] = "pending"]
      /\ relay' = IF conn = "open" /\ relay[c] # "gone" THEN [relay EXCEPT ![c] = "asked"] ELSE relay
      /\ UNCHANGED <<state, nodes, cur, wire, path>>
  BY <1>1 DEF SkinReady, SendRequest
<1>3. \A d \in Ids : d # c => Same(d)
  BY <1>2, WireMoves DEF Same, IInv, TypeOK
<1>4. Quiet(c) /\ path[c] = nodes[c] /\ nodes[c] < Hops[t]
  BY <1>1, <1>2 DEF PathInv, CallInv, Building
<1>5. Outstanding(c)'
  BY <1>2, <1>4 DEF Outstanding, Quiet, NoAnswer
<1>6. pc'[t] = "wait" /\ fut'[c] = "pending"
  BY <1>2 DEF IInv, TypeOK
<1>7. CallInv(t)'
  BY <1>1, <1>2, <1>4, <1>5, <1>6 DEF CallInv
<1>8. \A d \in Ids : state'[d] = "none" => state[d] = "none" /\ d # c
  BY <1>1, <1>2, CurFacts
<1>9. \A u \in Tasks : u # t => pc'[u] = pc[u] /\ cur'[u] = cur[u]
  BY <1>2 DEF IInv, TypeOK
<1> QED BY <1>1, <1>3, <1>7, <1>8, <1>9, TaskStep

(* The steps that only move a call, or end it.                             *)
LEMMA CallMovesPath ==
  ASSUME IInv, PathInv, NEW t \in Tasks,
         Timeout(t) \/ Interrupt(t) \/ Unwind(t) \/ CloseCircuit(t)
  PROVE  PathInv'
<1>1. PICK c \in Ids : c = cur[t]
  BY CurFacts DEF Timeout, Interrupt, Unwind, CloseCircuit
<1>2. /\ state[c] # "none"
      /\ UNCHANGED <<nodes, cur, wire, path>>
      /\ \A u \in Tasks : u # t => pc'[u] = pc[u]
  BY <1>1, CurFacts DEF Timeout, Interrupt, Unwind, CloseCircuit, client, net, IInv, TypeOK
<1>3. \A d \in Ids : state'[d] = "none" => state[d] = "none"
  BY DEF Timeout, Interrupt, Unwind, CloseCircuit, DestroyCircuit, DestroyAll, client, net
<1>4. \A d \in Ids : state'[d] = "none" => d # c
  BY <1>2, <1>3
<1>5. \A d \in Ids : d # c => relay'[d] \in {relay[d], "gone"} /\ fut'[d] = fut[d]
  <2>1. CASE Timeout(t)
    BY <1>1, <2>1 DEF Timeout, net, IInv, TypeOK
  <2>2. CASE Interrupt(t)
    BY <2>2 DEF Interrupt, client, net
  <2>3. CASE Unwind(t)
    <3>1. CASE CancelledIsException
      <4>1. fut' = [fut EXCEPT ![c] = "none"]
        BY <1>1, <2>3, <3>1 DEF Unwind
      <4>2. \A d \in Ids : d # c => fut'[d] = fut[d]
        BY <4>1 DEF IInv, TypeOK
      <4>3. \A d \in Ids : relay'[d] \in {relay[d], "gone"}
        BY <2>3, <3>1 DEF Unwind, DestroyCircuit, DestroyAll
      <4> QED BY <4>2, <4>3
    <3>2. CASE ~CancelledIsException
      <4>1. relay' = relay /\ \E v \in {"cancelled", fut[c]} : fut' = [fut EXCEPT ![c] = v]
        BY <1>1, <2>3, <3>2 DEF Unwind
      <4> QED BY <4>1 DEF IInv, TypeOK
    <3> QED BY <3>1, <3>2
  <2>4. CASE CloseCircuit(t)
    BY <1>1, <2>4 DEF CloseCircuit, DestroyCircuit, DestroyAll
  <2> QED BY <2>1, <2>2, <2>3, <2>4
<1>6. \A d \in Ids : d # c => Same(d)
  BY <1>2, <1>5, WireMoves DEF Same
<1>7. CallInv(t)
  BY DEF PathInv
<1>8. CallInv(t)'
  <2>1. CASE Timeout(t)
    <3>1. pc[t] = "wait" /\ pc'[t] = "unwinding" /\ fut'[c] = "cancelled"
      BY <1>1, <2>1 DEF Timeout, IInv, TypeOK
    <3> QED BY <1>1, <1>2, <1>7, <3>1 DEF CallInv, Building
  <2>2. CASE Interrupt(t)
    <3>1. /\ pc[t] \in {"skin", "wait", "unwinding"} /\ pc'[t] = "interrupted"
          /\ UNCHANGED <<fut, relay>>
      BY <2>2 DEF Interrupt, client, net, IInv, TypeOK
    <3>2. Same(c)
      BY <1>2, <3>1, WireMoves DEF Same
    <3>3. Quiet(c) => Quiet(c)'
      BY <3>2, CircuitSame
    <3>4. Outstanding(c) => Outstanding(c)'
      BY <3>2, CircuitSame
    <3>5. /\ pc[t] = "skin" => fut[c] = "none"
          /\ pc[t] = "unwinding" => fut[c] = "cancelled"
          /\ pc[t] = "wait" /\ fut[c] = "pending" => Outstanding(c)
          /\ pc[t] = "wait" /\ fut[c] \in {"created", "extended"} => Quiet(c) /\ path[c] = nodes[c] + 1
          /\ nodes[c] < Hops[t]
      BY <1>1, <1>7, <3>1 DEF CallInv, Building
    <3> QED BY <1>1, <1>2, <3>1, <3>3, <3>4, <3>5 DEF CallInv, Building
  <2>3. CASE Unwind(t) \/ CloseCircuit(t)
    <3>1. pc'[t] \in {"cancelled", "closed"}
      BY <2>3 DEF Unwind, CloseCircuit, IInv, TypeOK
    <3> QED BY <3>1 DEF CallInv, Building
  <2> QED BY <2>1, <2>2, <2>3
<1> QED BY <1>1, <1>2, <1>3, <1>4, <1>6, <1>8, TaskStep

(* An answer the call accepts makes the client's path as long as the       *)
(* relays'.                                                                *)
LEMMA HopDonePath ==
  ASSUME IInv, PathInv, NEW t \in Tasks, HopDone(t)
  PROVE  PathInv'
<1>1. PICK c \in Ids : c = cur[t]
  BY CurFacts DEF HopDone, Answered
<1>2. /\ pc[t] \in {"wait", "interrupted"} /\ fut[c] = Expected(c)
      /\ fut' = [fut EXCEPT ![c] = "none"]
      /\ nodes' = [nodes EXCEPT ![c] = nodes[c] + 1]
      /\ UNCHANGED <<wire, path>>
  BY <1>1 DEF HopDone, Answered
<1>3. fut[c] \in {"created", "extended"}
  BY <1>2 DEF Expected
<1>4. Quiet(c) /\ path[c] = nodes[c] + 1 /\ nodes[c] < Hops[t]
  BY <1>1, <1>2, <1>3 DEF PathInv, CallInv, Building
<1>5. CASE GiveUpCircuit(t, FALSE)
  <2>1. FALSE \in BOOLEAN /\ pc[t] \in Building
    BY <1>2 DEF Building
  <2>2. fut' \in {fut, [fut EXCEPT ![cur[t]] = "none"]} /\ nodes' \in {nodes, [nodes EXCEPT ![cur[t]] = @ + 1]}
    BY <1>1, <1>2
  <2> QED BY <1>2, <1>5, <2>1, <2>2, GiveUpPath
<1>6. CASE /\ state' = [state EXCEPT ![c] = IF nodes[c] = 0 THEN "Connected" ELSE state[c]]
           /\ pc' = [pc EXCEPT ![t] = IF nodes[c] + 1 >= Hops[t] THEN "returned" ELSE "skin"]
           /\ UNCHANGED <<cur, relay>>
  <2>1. \A d \in Ids : d # c => Same(d)
    BY <1>2, <1>6, WireMoves DEF Same, IInv, TypeOK
  <2>2. Quiet(c)'
    BY <1>2, <1>4, <1>6 DEF Quiet, NoAnswer
  <2>3. /\ nodes[c] \in Nat /\ nodes'[c] = nodes[c] + 1 /\ fut'[c] = "none"
        /\ pc'[t] = IF nodes[c] + 1 >= Hops[t] THEN "returned" ELSE "skin"
    BY <1>2, <1>6 DEF IInv, TypeOK
  <2>4. Hops[t] \in Nat
    OBVIOUS
  <2>5. CASE nodes[c] + 1 >= Hops[t]
    <3>1. pc'[t] = "returned" /\ nodes'[c] = Hops[t] /\ path'[c] = nodes'[c]
      BY <1>2, <1>4, <2>3, <2>4, <2>5
    <3>2. CallInv(t)'
      BY <1>1, <1>6, <2>2, <3>1 DEF CallInv, Building
    <3>3. \A d \in Ids : state'[d] = "none" => state[d] = "none" /\ d # c
      BY <1>1, <1>2, <1>6, CurFacts DEF IInv, TypeOK
    <3>4. \A u \in Tasks : u # t => pc'[u] = pc[u] /\ cur'[u] = cur[u]
      BY <1>6 DEF IInv, TypeOK
    <3> QED BY <1>1, <2>1, <3>2, <3>3, <3>4, TaskStep
  <2>6. CASE ~(nodes[c] + 1 >= Hops[t])
    <3>1. pc'[t] = "skin" /\ nodes'[c] < Hops[t] /\ path'[c] = nodes'[c]
      BY <1>2, <1>4, <2>3, <2>4, <2>6
    <3>2. CallInv(t)'
      BY <1>1, <1>6, <2>2, <2>3, <3>1 DEF CallInv
    <3>3. \A d \in Ids : state'[d] = "none" => state[d] = "none" /\ d # c
      BY <1>1, <1>2, <1>6, CurFacts DEF IInv, TypeOK
    <3>4. \A u \in Tasks : u # t => pc'[u] = pc[u] /\ cur'[u] = cur[u]
      BY <1>6 DEF IInv, TypeOK
    <3> QED BY <1>1, <2>1, <3>2, <3>3, <3>4, TaskStep
  <2> QED BY <2>5, <2>6
<1> QED BY <1>1, <1>5, <1>6 DEF HopDone

(* An attempt begins.                                                      *)
LEMMA BeginPath ==
  ASSUME IInv, PathInv, NEW t \in Tasks, Begin(t)
  PROVE  PathInv'
<1>1. /\ nextId <= MaxCircuits /\ cur'[t] = nextId /\ pc'[t] = "skin" /\ cur[t] = 0
      /\ state' = [state EXCEPT ![nextId] = "Connecting"]
      /\ UNCHANGED <<nodes, fut, wire, relay, path>>
      /\ \A u \in Tasks : u # t => pc'[u] = pc[u] /\ cur'[u] = cur[u]
  BY DEF Begin, net, IInv, TypeOK, IdsFresh
<1>2. nextId \in Ids
  BY <1>1, CurFacts DEF Ids
<1>3. \A d \in Ids : Same(d)
  BY <1>1, WireMoves DEF Same
<1>4. CallInv(t)'
  BY <1>1, <1>2, <1>3, FreshCall
<1>5. \A d \in Ids : state'[d] = "none" => state[d] = "none" /\ d # cur[t]
  BY <1>1, <1>2, IdsNat DEF IInv, TypeOK
<1> QED BY <1>1, <1>3, <1>4, <1>5, TaskStep

(* A closing guard drops the answers on their way.                         *)
LEMMA CloseGuardPath ==
  ASSUME IInv, PathInv, NEW how, CloseGuard(how), UNCHANGED <<pc, cur, nodes, fut, path>>
  PROVE  PathInv'
<1>1. \A d \in Ids : Same(d)
  BY WireMoves DEF Same, CloseGuard, DestroyAll
<1>2. 0 \notin Ids
  BY IdsNat
<1>3. \A d \in Ids : state'[d] = "none" => state[d] = "none" /\ d # 0
  BY <1>2 DEF CloseGuard, DestroyAll
<1> QED BY <1>1, <1>2, <1>3, OutsideStep

(* The reader loop puts an answer into the future of its circuit.          *)
LEMMA ReadCellPath ==
  ASSUME IInv, PathInv, ReadCell
  PROVE  PathInv'
<1> DEFINE m == Head(wire)
<1>1. /\ wire # <<>> /\ UNCHANGED <<pc, cur, nodes, path>>
      /\ wire \in Seq(Cell) /\ m \in Cell /\ m.id \in Ids /\ Len(wire) \in Nat \ {0} /\ m = wire[1]
  <2>1. wire # <<>> /\ UNCHANGED <<pc, cur, nodes, path>> /\ wire \in Seq(Cell)
    BY DEF ReadCell, calls, IInv, TypeOK
  <2>2. Head(wire) \in Cell /\ Head(wire) = wire[1] /\ Len(wire) \in Nat \ {0}
    BY <2>1
  <2> QED BY <2>1, <2>2 DEF Cell
<1> HIDE DEF m
<1>2. 0 \notin Ids
  BY IdsNat
<1>3. CASE Crash
  BY <1>1, <1>3, CloseGuardPath DEF Crash
<1>4. CASE /\ wire' = Tail(wire) /\ UNCHANGED fut
           /\ \A d \in Ids : relay'[d] \in {relay[d], "gone"} /\ (state'[d] = "none" => state[d] = "none")
  <2>1. \A d \in Ids : Same(d)
    BY <1>1, <1>4, WireMoves DEF Same
  <2> QED BY <1>1, <1>2, <1>4, <2>1, OutsideStep
<1>5. CASE /\ wire' = Tail(wire) /\ fut[m.id] = "pending" /\ fut' = [fut EXCEPT ![m.id] = m.kind]
           /\ m.kind \notin {"destroy", "data"} /\ m.id \in circuits /\ UNCHANGED <<state, relay>>
  <2>1. PICK c \in Ids : c = m.id
    BY <1>1
  <2>2. m.kind \in {"created", "extended", "truncated"} /\ IsAnswer(wire[1], c)
    BY <1>1, <1>5, <2>1 DEF Cell, IsAnswer
  <2>3. \A d \in Ids : d # c => Same(d)
    BY <1>1, <1>5, <2>1, WireMoves DEF Same, IInv, TypeOK
  <2>4. fut'[c] = m.kind
    BY <1>5, <2>1 DEF IInv, TypeOK
  <2>5. \A d \in Ids : state'[d] = "none" => state[d] = "none" /\ d # c
    BY <1>5, <2>1 DEF IInv, MapHoldsLive
  <2>6. ASSUME NEW u \in Tasks, c = cur[u] PROVE CallInv(u)'
    <3>1. CallInv(u)
      BY DEF PathInv
    <3>2. pc[u] \in {"wait", "interrupted"} => Outstanding(c)
      BY <1>5, <2>1, <2>6, <3>1 DEF CallInv
    <3>3. pc[u] \notin {"skin", "unwinding"}
      BY <1>5, <2>1, <2>6, <3>1 DEF CallInv
    <3>4. ASSUME Outstanding(c)
          PROVE  Quiet(c)' /\ (m.kind # "truncated" => path'[c] = nodes'[c] + 1)
      <4>1. 1 \in 1..Len(wire)
        BY <1>1
      <4>2. \A i \in 1..Len(wire) : IsAnswer(wire[i], c) => i = 1
        BY <2>2, <3>4, <4>1 DEF Outstanding
      <4>3. \A i \in 1..Len(wire') : i + 1 \in 1..Len(wire) /\ i + 1 # 1 /\ wire'[i] = wire[i + 1]
        BY <1>1, <1>5
      <4>4. NoAnswer(c)'
        BY <4>2, <4>3 DEF NoAnswer, IsAnswer
      <4>5. relay'[c] # "asked"
        BY <1>5, <2>2, <3>4, <4>1 DEF Outstanding, NoAnswer
      <4>6. m.kind # "truncated" => path'[c] = nodes'[c] + 1
        BY <1>1, <2>2, <3>4, <4>1 DEF Outstanding
      <4> QED BY <4>4, <4>5, <4>6 DEF Quiet
    <3>5. pc[u] = "returned" => Quiet(c)
      BY <2>6, <3>1 DEF CallInv
    <3>6. pc[u] # "returned"
      BY <1>1, <2>2, <3>5 DEF Quiet, NoAnswer
    <3>7. pc[u] \in Building => nodes'[c] < Hops[u]
      BY <1>1, <2>6, <3>1 DEF CallInv
    <3> QED BY <1>1, <2>2, <2>4, <2>6, <3>2, <3>3, <3>4, <3>6, <3>7 DEF CallInv
  <2> QED BY <1>1, <2>3, <2>5, <2>6, OutsideStep
<1> QED BY <1>1, <1>3, <1>4, <1>5 DEF ReadCell, DestroyCircuit, DestroyAll, m

(* A relay that was asked answers once and is a hop longer, or refuses.    *)
LEMMA RelayAnswersPath ==
  ASSUME IInv, PathInv, NEW c \in Ids, NEW k \in {"created", "extended", "truncated"},
         relay[c] = "asked", relay' = [relay EXCEPT ![c] = "idle"], Emit(c, k),
         path' = [path EXCEPT ![c] = IF k = "truncated" THEN path[c] ELSE path[c] + 1],
         UNCHANGED <<state, nodes, fut, pc, cur>>
  PROVE  PathInv'
<1> DEFINE e == [id |-> c, kind |-> k, hop |-> path[c]]
<1>1. e \in Cell /\ wire' = Append(wire, e) /\ wire \in Seq(Cell) /\ Len(wire) \in Nat
  BY DEF Cell, Emit, IInv, TypeOK
<1>2. e.id = c /\ e.kind = k
  OBVIOUS
<1> HIDE DEF e
<1>3. ASSUME NEW d \in Ids, d # c PROVE Same(d)
  <2>1. ~IsAnswer(e, d)
    BY <1>2, <1>3 DEF IsAnswer
  <2> QED BY <1>1, <1>3, <2>1, WireMoves DEF Same, IInv, TypeOK
<1>4. \A d \in Ids : state'[d] = "none" => state[d] = "none" /\ d # c
  BY DEF PathInv, Quiet
<1>5. ASSUME NEW u \in Tasks, c = cur[u] PROVE CallInv(u)'
  <2>1. CallInv(u)
    BY DEF PathInv
  <2>2. /\ pc[u] \notin {"skin", "returned"}
        /\ ~(pc[u] \in {"wait", "interrupted"} /\ fut[c] \in {"created", "extended"})
    BY <1>5, <2>1 DEF CallInv, Quiet
  <2>3. ASSUME Outstanding(c) PROVE Outstanding(c)'
    <3>1. NoAnswer(c) /\ path[c] = nodes[c] /\ path[c] \in Nat
      BY <2>3 DEF Outstanding, IInv, TypeOK
    <3>2. ASSUME NEW i \in 1..Len(wire'), IsAnswer(wire'[i], c)
          PROVE  i = Len(wire) + 1 /\ wire'[i] = e
      <4>1. CASE i = Len(wire) + 1
        BY <1>1, <4>1
      <4>2. CASE i # Len(wire) + 1
        <5>1. i \in 1..Len(wire) /\ wire'[i] = wire[i]
          BY <1>1, <4>2
        <5> QED BY <3>1, <3>2, <5>1 DEF NoAnswer
      <4> QED BY <4>1, <4>2
    <3>3. relay'[c] = "idle" /\ path'[c] = IF k = "truncated" THEN path[c] ELSE path[c] + 1
      BY DEF IInv, TypeOK
    <3>4. \A i \in 1..Len(wire') :
            IsAnswer(wire'[i], c) /\ wire'[i].kind # "truncated" => path'[c] = nodes'[c] + 1
      BY <1>2, <3>1, <3>2, <3>3
    <3> QED BY <3>2, <3>3, <3>4 DEF Outstanding, IsAnswer
  <2> QED BY <1>5, <2>1, <2>2, <2>3 DEF CallInv
<1> QED BY <1>3, <1>4, <1>5, OutsideStep

LEMMA RelayStepPath ==
  ASSUME IInv, PathInv, NEW c \in Ids,
         RelayBuilds(c) \/ RelayRefuses(c) \/ RelayDestroys(c) \/ RelaySends(c)
  PROVE  PathInv'
<1>1. UNCHANGED <<state, nodes, fut, pc, cur>>
  BY DEF RelayBuilds, RelayRefuses, RelayDestroys, RelaySends, client, calls
<1>2. CASE RelayBuilds(c)
  <2>1. PICK k \in {"created", "extended"} : Emit(c, k)
    BY <1>2 DEF RelayBuilds
  <2>2. /\ k \in {"created", "extended", "truncated"} /\ relay[c] = "asked"
        /\ relay' = [relay EXCEPT ![c] = "idle"]
        /\ path' = [path EXCEPT ![c] = IF k = "truncated" THEN path[c] ELSE path[c] + 1]
    BY <1>2, <2>1 DEF RelayBuilds
  <2> QED BY <1>1, <2>1, <2>2, RelayAnswersPath
<1>3. CASE RelayRefuses(c)
  <2>1. /\ Emit(c, "truncated") /\ relay[c] = "asked" /\ relay' = [relay EXCEPT ![c] = "idle"]
        /\ path' = [path EXCEPT ![c] = IF "truncated" = "truncated" THEN path[c] ELSE path[c] + 1]
    BY <1>3 DEF RelayRefuses, IInv, TypeOK
  <2> QED BY <1>1, <2>1, RelayAnswersPath
<1>4. CASE RelayDestroys(c) \/ RelaySends(c)
  <2>1. PICK k \in {"destroy", "data"} : Emit(c, k)
    BY <1>4 DEF RelayDestroys, RelaySends
  <2> DEFINE e == [id |-> c, kind |-> k, hop |-> path[c]]
  <2>2. /\ e \in Cell /\ wire' = Append(wire, e)
        /\ \A d \in Ids : ~IsAnswer(e, d)
    <3>1. path[c] \in Nat
      BY DEF IInv, TypeOK
    <3> QED BY <2>1, <3>1 DEF Cell, Emit, IsAnswer
  <2>3. \A d \in Ids : NoNewAnswer(d)
    BY <2>2, WireMoves
  <2>4. path' = path /\ \A d \in Ids : relay'[d] \in {relay[d], "gone"}
    BY <1>4 DEF RelayDestroys, RelaySends, IInv, TypeOK
  <2>5. \A d \in Ids : Same(d)
    BY <1>1, <2>3, <2>4 DEF Same
  <2>6. 0 \notin Ids
    BY IdsNat
  <2> QED BY <1>1, <2>5, <2>6, OutsideStep
<1> QED BY <1>2, <1>3, <1>4

LEMMA NextPathInv ==
  ASSUME IInv, PathInv, [Next]_vars
  PROVE  PathInv'
<1>1. ASSUME NEW t \in Tasks, SkinFails(t) \/ HopFails(t) \/ TimedOut(t) PROVE PathInv'
  <2>1. PICK retryable \in BOOLEAN : GiveUpCircuit(t, retryable)
    BY <1>1 DEF SkinFails, HopFails, TimedOut
  <2>2. /\ pc[t] \in Building /\ UNCHANGED <<wire, path, nodes>>
        /\ fut' \in {fut, [fut EXCEPT ![cur[t]] = "none"]}
    BY <1>1 DEF SkinFails, HopFails, TimedOut, Answered, Building
  <2> QED BY <2>1, <2>2, GiveUpPath
<1>2. CASE UserCloseGuard
  BY <1>2, CloseGuardPath DEF UserCloseGuard, calls
<1>3. CASE LoseConnection \/ UNCHANGED vars
  <2>1. /\ UNCHANGED <<state, nodes, fut, pc, cur, relay, path>> /\ wire' \in {wire, <<>>}
    BY <1>3 DEF LoseConnection, vars, client, calls, net
  <2>2. \A d \in Ids : Same(d)
    BY <2>1, WireMoves DEF Same
  <2>3. 0 \notin Ids
    BY IdsNat
  <2> QED BY <2>1, <2>2, <2>3, OutsideStep
<1> QED BY <1>1, <1>2, <1>3, BeginPath, SkinReadyPath, CallMovesPath, HopDonePath, ReadCellPath, RelayStepPath
        DEF Next, Run

(* A circuit that create_circuit returns has the hops asked for, and the   *)
(* relays have built just these (circuit.py 338-382).                      *)
THEOREM ReturnedAgrees == Spec => []ReturnedIsBuilt
<1>1. IInv /\ PathInv /\ [Next]_vars => IInv' /\ PathInv'
  BY NextIInv, NextPathInv
<1>2. IInv /\ PathInv => ReturnedIsBuilt
  <2> SUFFICES ASSUME IInv, PathInv, NEW t \in Tasks, pc[t] = "returned"
               PROVE  nodes[cur[t]] = Hops[t] /\ path[cur[t]] = Hops[t]
    BY DEF ReturnedIsBuilt
  <2>1. cur[t] \in Ids
    BY CurFacts
  <2> QED BY <2>1 DEF PathInv, CallInv
<1> QED BY <1>1, <1>2, InitIInv, InitPathInv, PTL DEF Spec

=============================================================================
