----------------------------- MODULE LinkProofs -----------------------------
(***************************************************************************)
(* Proofs about Link, for any relays, any number of attempts, connections  *)
(* and cells, and both meanings of Exception.                              *)
(***************************************************************************)
EXTENDS Link, TLAPS

(* What the task keeps, what the connections are, what is on the wires.    *)
TaskType ==
  /\ kind \in {"client", "connector"}
  /\ pc \in {"idle", "held"} \cup Calling \cup Over
  /\ left \in 0..Attempts
  /\ cur \in 0..made /\ guard \in 0..made /\ made \in 0..MaxConns
  /\ pc \in {"wait", "held"} => cur # Nothing
  /\ lost \subseteq 1..made

ConnType ==
  /\ phase \in [Conns -> {"unused", "failed"} \cup Negotiating \cup Established]
  /\ waiter \in [Conns -> {"pending", "set", "cancelled"}]
  /\ sock \in [Conns -> {"open", "closed"}]
  /\ \A c \in Conns : phase[c] = "unused" <=> c > made

VersType ==
  /\ reader \in [Conns -> Supported]
  /\ sender \in [Conns -> Nat]
  /\ offer \in [Conns -> Offers]

WireType ==
  /\ peer \in [Conns -> 0..(4 + MaxCells)]
  /\ wire \in [Conns -> Seq([cmd : LinkCommands, version : Supported])]

LEMMA TypeParts == TypeOK <=> TaskType /\ ConnType /\ VersType /\ WireType
BY DEF TypeOK, TaskType, ConnType, VersType, WireType

LEMMA Constants ==
  /\ Offers \subseteq (SUBSET Nat \ {{}})
  /\ Attempts \in Nat \ {0} /\ MaxConns \in Nat \ {0} /\ MaxCells \in Nat
  /\ CancelledIsException \in BOOLEAN
BY LinkAssumption DEF LinkAssumption

(* The call has an attempt left while it runs; it waits for the one        *)
(* connection whose waiter is pending, and holds one that is established.  *)
CallInv ==
  /\ pc \in Calling => left # 0
  /\ pc = "held" => phase[cur] \in Established /\ (kind = "connector" => guard = cur)
  /\ guard # Nothing => phase[guard] \in Established
  /\ \A c \in Conns : phase[c] \in Negotiating /\ waiter[c] = "pending" => c = cur /\ pc = "wait"

(* A waiter has its result exactly when NETINFO has come.                  *)
ConnInv ==
  \A c \in Conns :
    /\ waiter[c] = "set" <=> phase[c] \in Established
    /\ waiter[c] = "cancelled" => phase[c] \in Negotiating \cup {"failed"}
    /\ phase[c] = "failed" => sock[c] = "closed"

(* How many cells of the relay have been read.                             *)
Done(c) == peer[c] - Len(wire[c])

ReadInv ==
  \A c \in Conns :
    /\ Done(c) >= 0
    /\ phase[c] \in {"unused", "versions"} => Done(c) = 0
    /\ phase[c] = "certs" => Done(c) = 1
    /\ phase[c] = "challenge" => Done(c) = 2
    /\ phase[c] = "netinfo" => Done(c) = 3
    /\ phase[c] \in Established => Done(c) >= 4

(* The first cell of a relay is framed by default, the others as agreed.   *)
WireInv ==
  \A c \in Conns : \A k \in 1..Len(wire[c]) :
    wire[c][k].version = IF Done(c) + k = 1 THEN Default ELSE Common(c)

(* Both directions of the client have the version of the relay as soon as  *)
(* VERSIONS has been read.                                                 *)
VersInv ==
  \A c \in Conns :
    /\ phase[c] \in {"unused", "versions"} => reader[c] = Default
    /\ phase[c] \in {"certs", "challenge", "netinfo"} \cup Established =>
         reader[c] = Common(c) /\ sender[c] = Common(c)

IInv == TypeOK /\ CallInv /\ ConnInv /\ OpenHasOwner /\ ReadInv /\ WireInv

(* A relay that offers a version above 4 offers 4 as well.                 *)
NoGap == \A o \in Offers : (\E v \in o : v > 4) => 4 \in o

(* The highest version that both sides speak.                              *)
LEMMA CommonIs ==
  ASSUME NEW c \in Conns
  PROVE  Common(c) = IF 4 \in offer[c] THEN 4 ELSE IF 3 \in offer[c] THEN 3 ELSE 0
<1> DEFINE s == (offer[c] \cap {3, 4}) \cup {0}
           m == IF 4 \in offer[c] THEN 4 ELSE IF 3 \in offer[c] THEN 3 ELSE 0
<1>1. m \in s /\ \A v \in s : m >= v
  OBVIOUS
<1>2. \A v \in s : (\A w \in s : v >= w) => v = m
  BY <1>1
<1> HIDE DEF s, m
<1>3. Max(s) = m
  BY <1>1, <1>2 DEF Max
<1>4. Common(c) = Max(s)
  BY DEF Common, Supported, s
<1> QED BY <1>3, <1>4 DEF m

LEMMA ChosenIs ==
  ASSUME VersType, NEW c \in Conns
  PROVE  /\ Chosen(c) \in Nat
         /\ NoGap /\ Chosen(c) \in Supported => Chosen(c) = Common(c)
<1> DEFINE best == Max(offer[c])
<1>1. offer[c] \in Offers /\ offer[c] \subseteq Nat
  BY Constants DEF VersType
<1>2. \E most \in offer[c] : \A v \in offer[c] : v <= most
  BY <1>1, LinkAssumption DEF LinkAssumption
<1>3. \E most \in offer[c] : \A v \in offer[c] : most >= v
  BY <1>1, <1>2
<1>4. best \in offer[c] /\ \A v \in offer[c] : best >= v
  BY <1>3 DEF Max
<1> HIDE DEF best
<1>5. Chosen(c) = IF best < 4 THEN best ELSE 4
  BY DEF Chosen, best
<1>6. best \in Nat
  BY <1>1, <1>4
<1>7. ASSUME NoGap, Chosen(c) \in Supported PROVE Chosen(c) = Common(c)
  <2>1. CASE best = 3
    <3>1. 4 \notin offer[c] /\ 3 \in offer[c]
      BY <1>4, <2>1
    <3> QED BY <1>5, <2>1, <3>1, CommonIs
  <2>2. CASE best >= 4
    <3>1. 4 \in offer[c]
      BY <1>1, <1>4, <1>6, <1>7, <2>2 DEF NoGap
    <3> QED BY <1>5, <1>6, <2>2, <3>1, CommonIs
  <2> QED BY <1>5, <1>6, <1>7, <2>1, <2>2 DEF Supported
<1> QED BY <1>5, <1>6, <1>7

LEMMA CommonKept == ASSUME offer' = offer, NEW c \in Conns PROVE Common(c)' = Common(c)
BY DEF Common

(* What is left on a wire when nothing, or one cell, is taken off it.      *)
LEMMA WireSame ==
  ASSUME wire' = wire, peer' = peer, offer' = offer, WireInv
  PROVE  WireInv' /\ \A c \in Conns : Done(c)' = Done(c)
BY DEF WireInv, Done, Common

LEMMA DoneInt == ASSUME WireType, NEW c \in Conns PROVE Done(c) \in Int
<1>1. peer[c] \in Int
  BY Constants DEF WireType
<1>2. Len(wire[c]) \in Int
  BY DEF WireType
<1> QED BY <1>1, <1>2 DEF Done

LEMMA TailElements ==
  ASSUME NEW S, NEW q \in Seq(S), q # <<>>
  PROVE  /\ Tail(q) \in Seq(S) /\ Len(q) \in Nat /\ Len(Tail(q)) = Len(q) - 1
         /\ \A k \in 1..(Len(q) - 1) : Tail(q)[k] = q[k + 1]
OBVIOUS

LEMMA WireTail ==
  ASSUME WireType, WireInv, NEW c \in Conns, wire[c] # <<>>, peer' = peer, offer' = offer,
         wire' = [wire EXCEPT ![c] = Tail(@)]
  PROVE  /\ WireType' /\ WireInv'
         /\ Done(c)' = Done(c) + 1
         /\ \A d \in Conns : d # c => Done(d)' = Done(d)
<1>1. /\ wire[c] \in Seq([cmd : LinkCommands, version : Supported])
      /\ wire'[c] = Tail(wire[c]) /\ \A d \in Conns : d # c => wire'[d] = wire[d]
  BY DEF WireType
<1>2. /\ Len(wire'[c]) = Len(wire[c]) - 1 /\ Len(wire[c]) \in Nat
      /\ \A k \in 1..(Len(wire[c]) - 1) : wire'[c][k] = wire[c][k + 1]
      /\ wire'[c] \in Seq([cmd : LinkCommands, version : Supported])
  BY <1>1, TailElements
<1>3. WireType'
  BY <1>2 DEF WireType
<1>4. peer[c] \in Int
  BY Constants DEF WireType
<1>5. Done(c)' = Done(c) + 1
  BY <1>2, <1>4 DEF Done
<1>6. \A d \in Conns : d # c => Done(d)' = Done(d)
  BY <1>1 DEF Done
<1>7. ASSUME NEW d \in Conns, NEW k \in 1..Len(wire'[d])
      PROVE  wire'[d][k].version = IF Done(d)' + k = 1 THEN Default ELSE Common(d)'
  <2>1. Common(d)' = Common(d)
    BY CommonKept
  <2>2. CASE d = c
    <3>1. k + 1 \in 1..Len(wire[c]) /\ wire'[c][k] = wire[c][k + 1]
      BY <1>2, <1>7, <2>2
    <3>2. Done(c) + (k + 1) = Done(c)' + k
      BY <1>5, DoneInt
    <3> QED BY <2>1, <2>2, <3>1, <3>2 DEF WireInv
  <2>3. CASE d # c
    BY <1>1, <1>6, <2>1, <2>3 DEF WireInv
  <2> QED BY <2>2, <2>3
<1> HIDE DEF Done
<1>8. WireInv'
  BY <1>7 DEF WireInv
<1> QED BY <1>3, <1>5, <1>6, <1>8

LEMMA AppendElements ==
  ASSUME NEW S, NEW q \in Seq(S), NEW e \in S
  PROVE  /\ Append(q, e) \in Seq(S) /\ Len(q) \in Nat /\ Len(Append(q, e)) = Len(q) + 1
         /\ Append(q, e)[Len(q) + 1] = e
         /\ \A k \in 1..Len(q) : Append(q, e)[k] = q[k]
OBVIOUS

LEMMA WireAppend ==
  ASSUME WireType, WireInv, NEW c \in Conns, offer' = offer,
         NEW cell \in [cmd : LinkCommands, version : Supported],
         cell.version = IF peer[c] = 0 THEN Default ELSE Common(c),
         peer[c] < 4 + MaxCells,
         peer' = [peer EXCEPT ![c] = @ + 1],
         wire' = [wire EXCEPT ![c] = Append(@, cell)]
  PROVE  WireType' /\ WireInv' /\ \A d \in Conns : Done(d)' = Done(d)
<1>1. /\ wire[c] \in Seq([cmd : LinkCommands, version : Supported])
      /\ wire'[c] = Append(wire[c], cell) /\ \A d \in Conns : d # c => wire'[d] = wire[d]
  BY DEF WireType
<1>2. /\ Append(wire[c], cell) \in Seq([cmd : LinkCommands, version : Supported])
      /\ Len(wire[c]) \in Nat /\ Len(wire'[c]) = Len(wire[c]) + 1
      /\ wire'[c][Len(wire[c]) + 1] = cell
      /\ \A k \in 1..Len(wire[c]) : wire'[c][k] = wire[c][k]
  BY <1>1, AppendElements
<1>3. /\ peer[c] \in Nat /\ peer'[c] = peer[c] + 1 /\ \A d \in Conns : d # c => peer'[d] = peer[d]
  BY Constants DEF WireType
<1>4. peer' \in [Conns -> 0..(4 + MaxCells)]
  BY <1>3, Constants DEF WireType
<1>5. wire' \in [Conns -> Seq([cmd : LinkCommands, version : Supported])]
  BY <1>2 DEF WireType
<1>6. \A d \in Conns : Done(d)' = Done(d)
  BY <1>1, <1>2, <1>3 DEF Done
<1>7. ASSUME NEW d \in Conns, NEW k \in 1..Len(wire'[d])
      PROVE  wire'[d][k].version = IF Done(d)' + k = 1 THEN Default ELSE Common(d)'
  <2>1. Common(d)' = Common(d)
    BY CommonKept
  <2>2. CASE d = c /\ k = Len(wire[c]) + 1
    <3>1. Done(c)' + k = peer[c] + 1
      BY <1>2, <1>3, <1>6, <2>2 DEF Done
    <3>2. (Done(c)' + k = 1) <=> (peer[c] = 0)
      BY <1>3, <3>1
    <3> QED BY <1>2, <2>1, <2>2, <3>2
  <2>3. CASE d = c /\ k # Len(wire[c]) + 1
    <3>1. k \in 1..Len(wire[c])
      BY <1>2, <1>7, <2>3
    <3> QED BY <1>2, <1>6, <2>1, <2>3, <3>1 DEF WireInv
  <2>4. CASE d # c
    BY <1>1, <1>6, <2>1, <2>4 DEF WireInv
  <2> QED BY <2>2, <2>3, <2>4
<1> HIDE DEF Done
<1>8. WireInv'
  BY <1>7 DEF WireInv
<1> QED BY <1>4, <1>5, <1>6, <1>8 DEF WireType

LEMMA VersSame ==
  ASSUME phase' = phase, reader' = reader, sender' = sender, offer' = offer, VersInv
  PROVE  VersInv'
BY DEF VersInv, Common

(* The versions stay right while no connection learns them.                *)
LEMMA VersPhase ==
  ASSUME reader' = reader, sender' = sender, offer' = offer, VersInv,
         \A d \in Conns : \/ phase'[d] = phase[d]
                          \/ phase'[d] = "failed"
                          \/ phase'[d] = "versions" /\ phase[d] = "unused"
                          \/ /\ phase'[d] \in {"certs", "challenge", "netinfo"} \cup Established
                             /\ phase[d] \in {"certs", "challenge", "netinfo"} \cup Established
  PROVE  VersInv'
<1>1. \A d \in Conns : Common(d)' = Common(d)
  BY CommonKept
<1> SUFFICES ASSUME NEW c \in Conns
             PROVE  /\ phase'[c] \in {"unused", "versions"} => reader'[c] = Default
                    /\ phase'[c] \in {"certs", "challenge", "netinfo"} \cup Established =>
                         reader'[c] = Common(c)' /\ sender'[c] = Common(c)'
  BY DEF VersInv
<1>2. /\ phase[c] \in {"unused", "versions"} => reader[c] = Default
      /\ phase[c] \in {"certs", "challenge", "netinfo"} \cup Established =>
           reader[c] = Common(c) /\ sender[c] = Common(c)
  BY DEF VersInv
<1> QED BY <1>1, <1>2 DEF Established

LEMMA InitIInv == Init => IInv /\ VersInv
<1> SUFFICES ASSUME Init PROVE IInv /\ VersInv
  OBVIOUS
<1>1. TaskType /\ VersType
  BY Constants DEF Init, TaskType, VersType, Calling, Over, Nothing, Supported, Default
<1>2. ConnType
  BY Constants DEF Init, ConnType, Conns
<1>3. WireType
  BY Constants DEF Init, WireType
<1>4. CallInv /\ ConnInv /\ OpenHasOwner /\ ReadInv /\ WireInv /\ VersInv
  BY DEF Init, CallInv, ConnInv, OpenHasOwner, ReadInv, WireInv, VersInv, Done, Calling,
         Negotiating, Established, Nothing
<1> QED BY <1>1, <1>2, <1>3, <1>4, TypeParts DEF IInv

(* One step.                                                               *)
LEMMA Step ==
  ASSUME IInv, [Next]_vars
  PROVE  TaskType' /\ ConnType' /\ VersType' /\ WireType' /\ CallInv' /\ ConnInv'
         /\ OpenHasOwner' /\ ReadInv' /\ WireInv' /\ (NoGap /\ VersInv => VersInv')
<1> DEFINE VersKept == NoGap /\ VersInv => VersInv'
           Goal == TaskType' /\ ConnType' /\ VersType' /\ WireType' /\ CallInv' /\ ConnInv'
                   /\ OpenHasOwner' /\ ReadInv' /\ WireInv' /\ VersKept
<1>1. TaskType /\ ConnType /\ VersType /\ WireType /\ CallInv /\ ConnInv /\ OpenHasOwner /\ ReadInv /\ WireInv
  BY TypeParts DEF IInv
<1>a. Conns = 1..MaxConns /\ MaxConns \in Nat /\ Attempts \in Nat \ {0} /\ MaxCells \in Nat
  BY Constants DEF Conns
<1> USE <1>1, <1>a DEF task, ends, vers, relay, Negotiating, Established, Calling, Over, Nothing
<1>2. CASE DialFails
  <2>1. WireType' /\ WireInv' /\ \A d \in Conns : Done(d)' = Done(d)
    BY <1>2, WireSame DEF DialFails, WireType
  <2>2. VersKept
    BY <1>2, VersSame DEF DialFails
  <2>3. ConnType' /\ VersType' /\ ConnInv'
    BY <1>2 DEF DialFails, ConnType, VersType, ConnInv
  <2>4. TaskType'
    BY <1>2 DEF DialFails, Retry, TaskType, CallInv, ConnType
  <2>5. CallInv'
    BY <1>2 DEF DialFails, Retry, CallInv, TaskType, ConnType, ConnInv
  <2>6. OpenHasOwner'
    BY <1>2 DEF DialFails, Retry, OpenHasOwner, TaskType, ConnType, CallInv, ConnInv
  <2>7. ReadInv'
    BY <1>2, <2>1, DoneInt DEF DialFails, Retry, ReadInv, ConnType, CallInv, TaskType
  <2> QED BY <2>1, <2>2, <2>3, <2>4, <2>5, <2>6, <2>7
<1>3. CASE Connected
  <2>1. WireType' /\ WireInv' /\ \A d \in Conns : Done(d)' = Done(d)
    BY <1>3, WireSame DEF Connected, WireType
  <2>2. VersType'
    BY <1>3 DEF Connected, VersType
  <2>3. TaskType'
    BY <1>3 DEF Connected, TaskType, CallInv, ConnType
  <2>4. ConnType'
    BY <1>3 DEF Connected, ConnType, TaskType
  <2>5. CallInv'
    BY <1>3 DEF Connected, CallInv, TaskType, ConnType, ConnInv
  <2>6. ConnInv'
    BY <1>3 DEF Connected, ConnInv, TaskType, ConnType, CallInv
  <2>7. OpenHasOwner'
    BY <1>3 DEF Connected, OpenHasOwner, TaskType, ConnType, CallInv, ConnInv
  <2>8. ReadInv'
    BY <1>3, <2>1, DoneInt DEF Connected, ReadInv, ConnType, CallInv, TaskType
  <2>9. VersKept
    <3>1. reader' = reader /\ sender' = sender /\ offer' = offer
      BY <1>3 DEF Connected
    <3>2. \A d \in Conns : \/ phase'[d] = phase[d]
                           \/ phase'[d] = "versions" /\ phase[d] = "unused"
      BY <1>3 DEF Connected, ConnType, TaskType
    <3> QED BY <3>1, <3>2, VersPhase
  <2> QED BY <2>1, <2>2, <2>3, <2>4, <2>5, <2>6, <2>7, <2>8, <2>9
<1>4. CASE Hold
  <2>1. WireType' /\ WireInv' /\ \A d \in Conns : Done(d)' = Done(d)
    BY <1>4, WireSame DEF Hold, WireType
  <2>2. VersKept
    BY <1>4, VersSame DEF Hold
  <2>3. ConnType' /\ VersType' /\ ConnInv'
    BY <1>4 DEF Hold, ConnType, VersType, ConnInv
  <2>4. TaskType'
    BY <1>4 DEF Hold, TaskType, CallInv, ConnType
  <2>5. CallInv'
    BY <1>4 DEF Hold, CallInv, TaskType, ConnType, ConnInv
  <2>6. OpenHasOwner'
    BY <1>4 DEF Hold, OpenHasOwner, TaskType, ConnType, CallInv, ConnInv
  <2>7. ReadInv'
    BY <1>4, <2>1, DoneInt DEF Hold, ReadInv, ConnType, CallInv, TaskType
  <2> QED BY <2>1, <2>2, <2>3, <2>4, <2>5, <2>6, <2>7
<1>5. CASE GetGuard
  <2>1. WireType' /\ WireInv' /\ \A d \in Conns : Done(d)' = Done(d)
    BY <1>5, WireSame DEF GetGuard, WireType
  <2>2. VersKept
    BY <1>5, VersSame DEF GetGuard
  <2>3. ConnType' /\ VersType' /\ ConnInv'
    BY <1>5 DEF GetGuard, ConnType, VersType, ConnInv
  <2>4. TaskType'
    BY <1>5 DEF GetGuard, TaskType, CallInv, ConnType
  <2>5. CallInv'
    <3>1. /\ pc' = "dial" /\ left' = Attempts /\ cur' = cur /\ guard' = guard
          /\ phase' = phase /\ waiter' = waiter /\ pc # "wait" /\ kind' = kind
      BY <1>5 DEF GetGuard
    <3> QED BY <3>1 DEF CallInv
  <2>6. OpenHasOwner'
    BY <1>5 DEF GetGuard, OpenHasOwner, TaskType, ConnType, CallInv, ConnInv
  <2>7. ReadInv'
    BY <1>5, <2>1, DoneInt DEF GetGuard, ReadInv, ConnType, CallInv, TaskType
  <2> QED BY <2>1, <2>2, <2>3, <2>4, <2>5, <2>6, <2>7
<1>6. CASE Interrupt
  <2>1. WireType' /\ WireInv' /\ \A d \in Conns : Done(d)' = Done(d)
    BY <1>6, WireSame DEF Interrupt, WireType
  <2>2. VersType'
    BY <1>6 DEF Interrupt, VersType
  <2>3. TaskType'
    <3>1. /\ left \in 1..Attempts /\ cur \in 1..made
      BY <1>6 DEF Interrupt, TaskType, CallInv
    <3>2. lost' = lost \/ lost' = lost \cup {cur}
      BY <1>6 DEF Interrupt
    <3>3. left' \in 0..Attempts /\ pc' \in {"raised", "dial"}
      BY <1>6, <3>1 DEF Interrupt, Retry
    <3>4. UNCHANGED <<kind, cur, guard, made>>
      BY <1>6 DEF Interrupt
    <3> QED BY <3>1, <3>2, <3>3, <3>4 DEF TaskType
  <2>4. ConnType'
    BY <1>6 DEF Interrupt, Retry, ConnType, TaskType
  <2>5. CallInv'
    BY <1>6 DEF Interrupt, Retry, CallInv, TaskType, ConnType, ConnInv
  <2>6. ConnInv'
    BY <1>6 DEF Interrupt, Retry, ConnInv, TaskType, ConnType, CallInv
  <2>7. OpenHasOwner'
    BY <1>6 DEF Interrupt, Retry, OpenHasOwner, TaskType, ConnType, CallInv, ConnInv
  <2>8. ReadInv'
    BY <1>6, <2>1, DoneInt DEF Interrupt, Retry, ReadInv, ConnType, CallInv, TaskType
  <2>9. VersKept
    <3>1. reader' = reader /\ sender' = sender /\ offer' = offer
      BY <1>6 DEF Interrupt
    <3>2. \A d \in Conns : \/ phase'[d] = phase[d]
                           \/ /\ phase'[d] \in Established
                              /\ phase[d] \in Established
      BY <1>6 DEF Interrupt, ConnType
    <3> QED BY <3>1, <3>2, VersPhase
  <2> QED BY <2>1, <2>2, <2>3, <2>4, <2>5, <2>6, <2>7, <2>8, <2>9
<1>7. CASE CircuitFails
  <2>1. WireType' /\ WireInv' /\ \A d \in Conns : Done(d)' = Done(d)
    BY <1>7, WireSame DEF CircuitFails, WireType
  <2>2. VersType'
    BY <1>7 DEF CircuitFails, VersType
  <2>3. TaskType'
    BY <1>7 DEF CircuitFails, CloseGuard, TaskType, CallInv, ConnType
  <2>4. ConnType'
    <3>1. cur \in Conns /\ phase[cur] \in Established
      BY <1>7 DEF CircuitFails, TaskType, CallInv
    <3>2. CASE kind = "client"
      <4>1. /\ phase' = [phase EXCEPT ![cur] = "ended"] /\ sock' = [sock EXCEPT ![cur] = "closed"]
            /\ waiter' = waiter /\ made' = made
        BY <1>7, <3>2 DEF CircuitFails, CloseGuard
      <4> QED BY <3>1, <4>1 DEF ConnType
    <3>3. CASE kind # "client"
      BY <1>7, <3>3 DEF CircuitFails, ConnType
    <3> QED BY <3>2, <3>3
  <2>5. CallInv'
    BY <1>7 DEF CircuitFails, CloseGuard, CallInv, TaskType, ConnType, ConnInv
  <2>6. ConnInv'
    <3>1. cur \in Conns /\ phase[cur] \in Established
      BY <1>7 DEF CircuitFails, TaskType, CallInv
    <3>2. CASE kind = "client"
      <4>1. /\ phase' = [phase EXCEPT ![cur] = "ended"] /\ sock' = [sock EXCEPT ![cur] = "closed"]
            /\ waiter' = waiter /\ made' = made
        BY <1>7, <3>2 DEF CircuitFails, CloseGuard
      <4> QED BY <3>1, <4>1 DEF ConnInv, ConnType
    <3>3. CASE kind # "client"
      BY <1>7, <3>3 DEF CircuitFails, ConnInv, ConnType
    <3> QED BY <3>2, <3>3
  <2>7. OpenHasOwner'
    BY <1>7 DEF CircuitFails, CloseGuard, OpenHasOwner, TaskType, ConnType, CallInv, ConnInv
  <2>8. ReadInv'
    BY <1>7, <2>1, DoneInt DEF CircuitFails, CloseGuard, ReadInv, ConnType, CallInv, TaskType
  <2>9. VersKept
    <3>1. cur \in Conns /\ phase[cur] \in Established
      BY <1>7 DEF CircuitFails, TaskType, CallInv
    <3>2. reader' = reader /\ sender' = sender /\ offer' = offer
      BY <1>7 DEF CircuitFails
    <3>3. \A d \in Conns : phase'[d] = phase[d] \/ (phase'[d] \in Established /\ phase[d] \in Established)
      BY <1>7, <3>1 DEF CircuitFails, CloseGuard, ConnType
    <3>4. \A d \in Conns : Common(d)' = Common(d)
      BY <3>2, CommonKept
    <3> QED BY <3>2, <3>3, <3>4 DEF VersInv
  <2> QED BY <2>1, <2>2, <2>3, <2>4, <2>5, <2>6, <2>7, <2>8, <2>9
<1>8. CASE Release
  <2>1. WireType' /\ WireInv' /\ \A d \in Conns : Done(d)' = Done(d)
    BY <1>8, WireSame DEF Release, WireType
  <2>2. VersType'
    BY <1>8 DEF Release, VersType
  <2>3. TaskType'
    BY <1>8 DEF Release, CloseGuard, TaskType, CallInv, ConnType
  <2>4. ConnType'
    BY <1>8 DEF Release, CloseGuard, ConnType, TaskType
  <2>5. CallInv'
    BY <1>8 DEF Release, CloseGuard, CallInv, TaskType, ConnType, ConnInv
  <2>6. ConnInv'
    BY <1>8 DEF Release, CloseGuard, ConnInv, TaskType, ConnType, CallInv
  <2>7. OpenHasOwner'
    BY <1>8 DEF Release, CloseGuard, OpenHasOwner, TaskType, ConnType, CallInv, ConnInv
  <2>8. ReadInv'
    BY <1>8, <2>1, DoneInt DEF Release, CloseGuard, ReadInv, ConnType, CallInv, TaskType
  <2>9. VersKept
    <3>1. reader' = reader /\ sender' = sender /\ offer' = offer
      BY <1>8 DEF Release
    <3>2. \A d \in Conns : \/ phase'[d] = phase[d]
                           \/ /\ phase'[d] \in Established
                              /\ phase[d] \in Established
      BY <1>8 DEF Release, CloseGuard, ConnType, TaskType, CallInv
    <3> QED BY <3>1, <3>2, VersPhase
  <2> QED BY <2>1, <2>2, <2>3, <2>4, <2>5, <2>6, <2>7, <2>8, <2>9
<1>9. CASE CloseConnector
  <2>1. WireType' /\ WireInv' /\ \A d \in Conns : Done(d)' = Done(d)
    BY <1>9, WireSame DEF CloseConnector, WireType
  <2>2. VersType'
    BY <1>9 DEF CloseConnector, VersType
  <2>3. TaskType'
    BY <1>9 DEF CloseConnector, CloseGuard, TaskType, CallInv, ConnType
  <2>4. ConnType'
    BY <1>9 DEF CloseConnector, CloseGuard, ConnType, TaskType
  <2>5. CallInv'
    BY <1>9 DEF CloseConnector, CloseGuard, CallInv, TaskType, ConnType, ConnInv
  <2>6. ConnInv'
    BY <1>9 DEF CloseConnector, CloseGuard, ConnInv, TaskType, ConnType, CallInv
  <2>7. OpenHasOwner'
    BY <1>9 DEF CloseConnector, CloseGuard, OpenHasOwner, TaskType, ConnType, CallInv, ConnInv
  <2>8. ReadInv'
    BY <1>9, <2>1, DoneInt DEF CloseConnector, CloseGuard, ReadInv, ConnType, CallInv, TaskType
  <2>9. VersKept
    <3>1. reader' = reader /\ sender' = sender /\ offer' = offer
      BY <1>9 DEF CloseConnector
    <3>2. \A d \in Conns : \/ phase'[d] = phase[d]
                           \/ /\ phase'[d] \in Established
                              /\ phase[d] \in Established
      BY <1>9 DEF CloseConnector, CloseGuard, ConnType, TaskType, CallInv
    <3> QED BY <3>1, <3>2, VersPhase
  <2> QED BY <2>1, <2>2, <2>3, <2>4, <2>5, <2>6, <2>7, <2>8, <2>9
<1>10. ASSUME NEW c \in Conns, ReadVersions(c) PROVE Goal
  <2>1. /\ WireType' /\ WireInv'
        /\ Done(c)' = Done(c) + 1 /\ \A d \in Conns : d # c => Done(d)' = Done(d)
    BY <1>10, WireTail DEF ReadVersions
  <2>2. TaskType'
    BY <1>10 DEF ReadVersions, TaskType
  <2>3. ConnType'
    BY <1>10, SMTT(40) DEF ReadVersions, Fail, ConnType, TaskType
  <2>4. VersType'
    BY <1>10, CommonKept, ChosenIs DEF ReadVersions, Fail, VersType
  <2>5. CallInv'
    BY <1>10 DEF ReadVersions, Fail, CallInv, TaskType, ConnType, ConnInv
  <2>6. ConnInv'
    BY <1>10 DEF ReadVersions, Fail, ConnInv, TaskType, ConnType, CallInv
  <2>7. OpenHasOwner'
    BY <1>10 DEF ReadVersions, Fail, OpenHasOwner, TaskType, ConnType, CallInv, ConnInv
  <2>8. ReadInv'
    <3>1. phase[c] = "versions" /\ Done(c) = 0
      BY <1>10 DEF ReadVersions, ReadInv
    <3>2. phase' = [phase EXCEPT ![c] = "certs"] \/ phase' = [phase EXCEPT ![c] = "failed"]
      BY <1>10 DEF ReadVersions, Fail
    <3>3. phase'[c] \in {"certs", "failed"} /\ \A d \in Conns : d # c => phase'[d] = phase[d]
      BY <3>2 DEF ConnType
    <3>4. Done(c)' \in Int /\ Done(c) \in Int
      BY <2>1, DoneInt
    <3> QED BY <2>1, <3>1, <3>3, <3>4 DEF ReadInv
  <2>9. VersKept
    <3>1. /\ phase[c] = "versions" /\ offer' = offer /\ sender' = [sender EXCEPT ![c] = Chosen(c)]
          /\ \A d \in Conns : Common(d)' = Common(d)
      BY <1>10, CommonKept DEF ReadVersions
    <3>2. CASE Chosen(c) \in Supported
      <4>1. /\ reader' = [reader EXCEPT ![c] = Chosen(c)] /\ phase' = [phase EXCEPT ![c] = "certs"]
        BY <1>10, <3>2 DEF ReadVersions
      <4>2. NoGap => Chosen(c) = Common(c)
        BY <3>2, ChosenIs
      <4> QED BY <3>1, <4>1, <4>2 DEF VersInv, VersType, ConnType
    <3>3. CASE Chosen(c) \notin Supported
      <4>1. reader' = reader /\ phase' = [phase EXCEPT ![c] = "failed"]
        BY <1>10, <3>3 DEF ReadVersions, Fail
      <4> QED BY <3>1, <4>1 DEF VersInv, VersType, ConnType
    <3> QED BY <3>2, <3>3
  <2> QED BY <2>1, <2>2, <2>3, <2>4, <2>5, <2>6, <2>7, <2>8, <2>9
<1>11. ASSUME NEW c \in Conns, ReadNext(c) PROVE Goal
  <2>1. /\ WireType' /\ WireInv'
        /\ Done(c)' = Done(c) + 1 /\ \A d \in Conns : d # c => Done(d)' = Done(d)
    BY <1>11, WireTail DEF ReadNext
  <2>2. TaskType' /\ VersType'
    BY <1>11 DEF ReadNext, TaskType, VersType
  <2>3. ConnType'
    BY <1>11 DEF ReadNext, ConnType, TaskType
  <2>4. CallInv'
    BY <1>11 DEF ReadNext, CallInv, TaskType, ConnType, ConnInv
  <2>5. ConnInv'
    BY <1>11 DEF ReadNext, ConnInv, TaskType, ConnType, CallInv
  <2>6. OpenHasOwner'
    BY <1>11 DEF ReadNext, OpenHasOwner, TaskType, ConnType, CallInv, ConnInv
  <2>7. ReadInv'
    BY <1>11, <2>1, DoneInt DEF ReadNext, ReadInv, ConnType, CallInv, TaskType
  <2>8. VersKept
    <3>1. reader' = reader /\ sender' = sender /\ offer' = offer
      BY <1>11 DEF ReadNext
    <3>2. \A d \in Conns : \/ phase'[d] = phase[d]
                           \/ phase'[d] \in {"challenge", "netinfo"} /\ phase[d] \in {"certs", "challenge"}
      BY <1>11 DEF ReadNext, ConnType
    <3> QED BY <3>1, <3>2, VersPhase
  <2> QED BY <2>1, <2>2, <2>3, <2>4, <2>5, <2>6, <2>7, <2>8
<1>12. ASSUME NEW c \in Conns, ReadNetInfo(c) PROVE Goal
  <2>1. /\ WireType' /\ WireInv'
        /\ Done(c)' = Done(c) + 1 /\ \A d \in Conns : d # c => Done(d)' = Done(d)
    BY <1>12, WireTail DEF ReadNetInfo
  <2>2. TaskType' /\ VersType'
    BY <1>12 DEF ReadNetInfo, TaskType, VersType
  <2>3. ConnType'
    BY <1>12 DEF ReadNetInfo, Fail, ConnType, TaskType
  <2>4. CallInv'
    BY <1>12 DEF ReadNetInfo, Fail, CallInv, TaskType, ConnType, ConnInv
  <2>5. ConnInv'
    BY <1>12 DEF ReadNetInfo, Fail, ConnInv, TaskType, ConnType, CallInv
  <2>6. OpenHasOwner'
    BY <1>12 DEF ReadNetInfo, Fail, OpenHasOwner, TaskType, ConnType, CallInv, ConnInv
  <2>7. ReadInv'
    <3>1. phase[c] = "netinfo" /\ Done(c) = 3
      BY <1>12 DEF ReadNetInfo, ReadInv
    <3>2. phase' = [phase EXCEPT ![c] = "loop"] \/ phase' = [phase EXCEPT ![c] = "failed"]
      BY <1>12 DEF ReadNetInfo, Fail
    <3>3. phase'[c] \in {"loop", "failed"} /\ \A d \in Conns : d # c => phase'[d] = phase[d]
      BY <3>2 DEF ConnType
    <3>4. Done(c)' \in Int /\ Done(c) \in Int
      BY <2>1, DoneInt
    <3> QED BY <2>1, <3>1, <3>3, <3>4 DEF ReadInv
  <2>8. VersKept
    <3>1. phase[c] = "netinfo" /\ reader' = reader /\ sender' = sender /\ offer' = offer
      BY <1>12 DEF ReadNetInfo
    <3>2. phase' = [phase EXCEPT ![c] = "loop"] \/ phase' = [phase EXCEPT ![c] = "failed"]
      BY <1>12 DEF ReadNetInfo, Fail
    <3>3. phase'[c] \in {"loop", "failed"} /\ \A d \in Conns : d # c => phase'[d] = phase[d]
      BY <3>2 DEF ConnType
    <3>4. \A d \in Conns : Common(d)' = Common(d)
      BY <3>1, CommonKept
    <3> QED BY <3>1, <3>3, <3>4 DEF VersInv
  <2> QED BY <2>1, <2>2, <2>3, <2>4, <2>5, <2>6, <2>7, <2>8
<1>13. ASSUME NEW c \in Conns, ReadFails(c) PROVE Goal
  <2>1. WireType' /\ WireInv' /\ \A d \in Conns : Done(d)' = Done(d)
    BY <1>13, WireSame DEF ReadFails, WireType
  <2>2. TaskType' /\ VersType'
    BY <1>13 DEF ReadFails, TaskType, VersType
  <2>3. ConnType'
    BY <1>13 DEF ReadFails, Fail, ConnType, TaskType
  <2>4. CallInv'
    BY <1>13 DEF ReadFails, Fail, CallInv, TaskType, ConnType, ConnInv
  <2>5. ConnInv'
    BY <1>13 DEF ReadFails, Fail, ConnInv, TaskType, ConnType, CallInv
  <2>6. OpenHasOwner'
    BY <1>13 DEF ReadFails, Fail, OpenHasOwner, TaskType, ConnType, CallInv, ConnInv
  <2>7. ReadInv'
    BY <1>13, <2>1, DoneInt DEF ReadFails, Fail, ReadInv, ConnType, CallInv, TaskType
  <2>8. VersKept
    <3>1. reader' = reader /\ sender' = sender /\ offer' = offer
      BY <1>13 DEF ReadFails
    <3>2. \A d \in Conns : \/ phase'[d] = phase[d]
                           \/ phase'[d] = "failed"
      BY <1>13 DEF ReadFails, Fail, ConnType
    <3> QED BY <3>1, <3>2, VersPhase
  <2> QED BY <2>1, <2>2, <2>3, <2>4, <2>5, <2>6, <2>7, <2>8
<1>14. ASSUME NEW c \in Conns, ReadCell(c) PROVE Goal
  <2>1. /\ WireType' /\ WireInv'
        /\ Done(c)' = Done(c) + 1 /\ \A d \in Conns : d # c => Done(d)' = Done(d)
    BY <1>14, WireTail DEF ReadCell
  <2>2. TaskType' /\ VersType'
    BY <1>14 DEF ReadCell, TaskType, VersType
  <2>3. ConnType'
    BY <1>14 DEF ReadCell, CloseGuard, ConnType, TaskType
  <2>4. CallInv'
    BY <1>14 DEF ReadCell, CloseGuard, CallInv, TaskType, ConnType, ConnInv
  <2>5. ConnInv'
    BY <1>14 DEF ReadCell, CloseGuard, ConnInv, TaskType, ConnType, CallInv
  <2>6. OpenHasOwner'
    BY <1>14 DEF ReadCell, CloseGuard, OpenHasOwner, TaskType, ConnType, CallInv, ConnInv
  <2>7. ReadInv'
    <3>1. phase[c] = "loop" /\ Done(c) >= 4
      BY <1>14 DEF ReadCell, ReadInv
    <3>2. phase' = [phase EXCEPT ![c] = "loop"] \/ phase' = [phase EXCEPT ![c] = "ended"]
      BY <1>14 DEF ReadCell, CloseGuard, ConnType
    <3>3. phase'[c] \in {"loop", "ended"} /\ \A d \in Conns : d # c => phase'[d] = phase[d]
      BY <3>2 DEF ConnType
    <3>4. Done(c)' \in Int /\ Done(c) \in Int
      BY <2>1, DoneInt
    <3> QED BY <2>1, <3>1, <3>3, <3>4 DEF ReadInv
  <2>8. VersKept
    <3>1. reader' = reader /\ sender' = sender /\ offer' = offer
      BY <1>14 DEF ReadCell
    <3>2. \A d \in Conns : \/ phase'[d] = phase[d]
                           \/ /\ phase'[d] \in Established
                              /\ phase[d] \in Established
      BY <1>14 DEF ReadCell, CloseGuard, ConnType
    <3> QED BY <3>1, <3>2, VersPhase
  <2> QED BY <2>1, <2>2, <2>3, <2>4, <2>5, <2>6, <2>7, <2>8
<1>15. ASSUME NEW c \in Conns, ReadEof(c) PROVE Goal
  <2>1. WireType' /\ WireInv' /\ \A d \in Conns : Done(d)' = Done(d)
    BY <1>15, WireSame DEF ReadEof, WireType
  <2>2. TaskType' /\ VersType'
    BY <1>15 DEF ReadEof, TaskType, VersType
  <2>3. ConnType'
    BY <1>15 DEF ReadEof, ConnType, TaskType
  <2>4. CallInv'
    <3>1. /\ phase[c] = "loop" /\ phase' = [phase EXCEPT ![c] = "ended"]
          /\ UNCHANGED <<pc, left, kind, guard, cur, waiter>>
      BY <1>15 DEF ReadEof
    <3>2. phase'[c] = "ended" /\ \A d \in Conns : d # c => phase'[d] = phase[d]
      BY <3>1 DEF ConnType
    <3>3. cur \in 0..MaxConns /\ guard \in 0..MaxConns /\ (pc = "held" => cur # Nothing)
      BY DEF TaskType
    <3> QED BY <3>1, <3>2, <3>3 DEF CallInv
  <2>5. ConnInv'
    BY <1>15 DEF ReadEof, ConnInv, TaskType, ConnType, CallInv
  <2>6. OpenHasOwner'
    BY <1>15 DEF ReadEof, OpenHasOwner, TaskType, ConnType, CallInv, ConnInv
  <2>7. ReadInv'
    BY <1>15, <2>1, DoneInt DEF ReadEof, ReadInv, ConnType, CallInv, TaskType
  <2>8. VersKept
    <3>1. reader' = reader /\ sender' = sender /\ offer' = offer
      BY <1>15 DEF ReadEof
    <3>2. \A d \in Conns : \/ phase'[d] = phase[d]
                           \/ /\ phase'[d] \in Established
                              /\ phase[d] \in Established
      BY <1>15 DEF ReadEof, ConnType
    <3> QED BY <3>1, <3>2, VersPhase
  <2> QED BY <2>1, <2>2, <2>3, <2>4, <2>5, <2>6, <2>7, <2>8
<1>16. ASSUME NEW c \in Conns, RelaySends(c) PROVE Goal
  <2>1. WireType' /\ WireInv' /\ \A d \in Conns : Done(d)' = Done(d)
    <3>1. PICK cmd \in (IF peer[c] < 4 THEN {Cells4[peer[c] + 1]} ELSE {0, 3}) :
            wire' = [wire EXCEPT ![c] = Append(@,
              [cmd |-> cmd, version |-> IF peer[c] = 0 THEN Default ELSE Common(c)])]
      BY <1>16 DEF RelaySends
    <3>2. /\ offer' = offer /\ peer[c] < 4 + MaxCells /\ peer' = [peer EXCEPT ![c] = @ + 1]
          /\ peer[c] > 0 => Common(c) # 0
      BY <1>16 DEF RelaySends
    <3>3. peer[c] \in Nat
      BY DEF WireType
    <3>4. cmd \in LinkCommands
      <4>1. CASE peer[c] < 4
        <5>1. peer[c] = 0 \/ peer[c] = 1 \/ peer[c] = 2 \/ peer[c] = 3
          BY <3>3, <4>1
        <5>2. cmd = Cells4[peer[c] + 1]
          BY <3>1, <4>1
        <5> QED BY <5>1, <5>2 DEF Cells4, LinkCommands
      <4>2. CASE ~(peer[c] < 4)
        BY <3>1, <4>2 DEF LinkCommands
      <4> QED BY <4>1, <4>2
    <3> DEFINE v == IF peer[c] = 0 THEN Default ELSE Common(c)
               cell == [cmd |-> cmd, version |-> v]
    <3>5. v \in Supported
      BY <3>2, <3>3, CommonIs DEF Supported, Default
    <3> HIDE DEF v
    <3>6. cell \in [cmd : LinkCommands, version : Supported] /\ cell.version = v
      BY <3>4, <3>5
    <3>7. wire' = [wire EXCEPT ![c] = Append(@, cell)]
      BY <3>1 DEF v
    <3> HIDE DEF cell
    <3> QED BY <3>2, <3>6, <3>7, WireAppend DEF v
  <2>2. VersKept
    BY <1>16, VersSame DEF RelaySends
  <2>3. TaskType' /\ ConnType' /\ VersType' /\ CallInv' /\ ConnInv' /\ OpenHasOwner'
    BY <1>16 DEF RelaySends, TaskType, ConnType, VersType, CallInv, ConnInv, OpenHasOwner
  <2>4. ReadInv'
    BY <1>16, <2>1, DoneInt DEF RelaySends, ReadInv, ConnType, CallInv, TaskType
  <2> QED BY <2>1, <2>2, <2>3, <2>4
<1>17. ASSUME NEW c \in Conns, RelayCloses(c) PROVE Goal
  <2>1. WireType' /\ WireInv' /\ \A d \in Conns : Done(d)' = Done(d)
    BY <1>17, WireSame DEF RelayCloses, WireType
  <2>2. VersKept
    BY <1>17, VersSame DEF RelayCloses
  <2>3. TaskType' /\ VersType' /\ CallInv'
    BY <1>17 DEF RelayCloses, TaskType, VersType, CallInv
  <2>4. ConnType'
    BY <1>17 DEF RelayCloses, ConnType, TaskType
  <2>5. ConnInv'
    BY <1>17 DEF RelayCloses, ConnInv, TaskType, ConnType, CallInv
  <2>6. OpenHasOwner'
    BY <1>17 DEF RelayCloses, OpenHasOwner, TaskType, ConnType, CallInv, ConnInv
  <2>7. ReadInv'
    BY <1>17, <2>1, DoneInt DEF RelayCloses, ReadInv, ConnType, CallInv, TaskType
  <2> QED BY <2>1, <2>2, <2>3, <2>4, <2>5, <2>6, <2>7
<1>18. CASE UNCHANGED vars
  <2>1. WireInv' /\ VersKept /\ \A d \in Conns : Done(d)' = Done(d)
    BY <1>18, WireSame, VersSame DEF vars
  <2>2. TaskType' /\ ConnType' /\ VersType' /\ WireType' /\ CallInv' /\ ConnInv' /\ OpenHasOwner'
    BY <1>18 DEF vars, TaskType, ConnType, VersType, WireType, CallInv, ConnInv, OpenHasOwner
  <2>3. ReadInv'
    BY <1>18, <2>1 DEF vars, ReadInv
  <2> QED BY <2>1, <2>2, <2>3
<1> QED
  BY <1>2, <1>3, <1>4, <1>5, <1>6, <1>7, <1>8, <1>9,
     <1>10, <1>11, <1>12, <1>13, <1>14, <1>15, <1>16, <1>17, <1>18, Zenon DEF Next, Call, Read

LEMMA Inductive == Spec => []IInv
<1>1. IInv /\ [Next]_vars => IInv'
  <2> SUFFICES ASSUME IInv, [Next]_vars PROVE IInv'
    OBVIOUS
  <2>1. (TypeOK <=> TaskType /\ ConnType /\ VersType /\ WireType)'
    BY DEF TypeOK, TaskType, ConnType, VersType, WireType
  <2> QED BY <2>1, Step DEF IInv
<1> QED BY <1>1, InitIInv, PTL DEF Spec

(* Type correctness: the retry never counts below zero, and no phase but   *)
(* those of the code is reached.                                           *)
THEOREM TypeCorrect == Spec => []TypeOK
BY Inductive, PTL DEF IInv

(* No retry and no failed circuit leaves an open connection behind, but    *)
(* for those in `lost` (guard.py 145-150, client.py 44-57, aiohttp.py      *)
(* 24-27).                                                                 *)
THEOREM OpenIsOwned == Spec => []OpenHasOwner
BY Inductive, PTL DEF IInv

(* A connection whose call was cancelled is closed once it has been read   *)
(* to the end of the negotiation (protocol.py 104-106, 158-164).           *)
THEOREM LeftIsShut == Spec => []LeftIsClosed
<1>1. IInv => LeftIsClosed
  BY DEF IInv, ConnInv, LeftIsClosed, TypeOK, Negotiating, Established
<1> QED BY <1>1, Inductive, PTL

LEMMA VersInductive == ASSUME NoGap PROVE Spec => []VersInv
<1>1. IInv /\ VersInv /\ [Next]_vars => VersInv'
  BY Step
<1> QED BY <1>1, InitIInv, Inductive, PTL DEF Spec

(* A guard that is handed out has been negotiated to the end, with the     *)
(* highest common version in both directions (protocol.py 77-106), when no *)
(* relay leaves out 4 from what it offers above 3.                         *)
THEOREM HeldAgrees == ASSUME NoGap PROVE Spec => []HeldIsNegotiated
<1>1. IInv /\ VersInv => HeldIsNegotiated
  <2> SUFFICES ASSUME IInv, VersInv, pc = "held"
               PROVE  /\ phase[cur] \in Established /\ peer[cur] >= 4
                      /\ sender[cur] = reader[cur] /\ reader[cur] = Common(cur)
    BY DEF HeldIsNegotiated
  <2>1. cur \in Conns
    BY Constants DEF IInv, TypeOK, Conns, Nothing
  <2>2. phase[cur] \in Established
    BY DEF IInv, CallInv
  <2>3. Done(cur) >= 4 /\ Done(cur) \in Int
    BY <2>1, <2>2, DoneInt, TypeParts DEF IInv, ReadInv
  <2>4. peer[cur] \in Nat /\ Len(wire[cur]) \in Nat
    BY <2>1, Constants DEF IInv, TypeOK
  <2>5. peer[cur] >= 4
    BY <2>3, <2>4 DEF Done
  <2> QED BY <2>1, <2>2, <2>5 DEF VersInv
<1> QED BY <1>1, Inductive, VersInductive, PTL

(* Every cell is taken off the stream as its relay framed it, through the  *)
(* change of version in the middle of the stream (protocol.py 192-221).    *)
THEOREM Framing == ASSUME NoGap PROVE Spec => []FramingAgrees
<1>1. IInv /\ VersInv => FramingAgrees
  <2> SUFFICES ASSUME IInv, VersInv, NEW c \in Conns,
                      phase[c] \in Negotiating \cup {"loop"}, wire[c] # <<>>
               PROVE  Head(wire[c]).version = reader[c]
    BY DEF FramingAgrees, TakenLen, FrameLen
  <2>1. /\ wire[c] \in Seq([cmd : LinkCommands, version : Supported]) /\ Done(c) \in Int
    BY DoneInt, TypeParts DEF IInv, TypeOK
  <2>2. 1 \in 1..Len(wire[c]) /\ Head(wire[c]) = wire[c][1]
    BY <2>1
  <2>3. Head(wire[c]).version = IF Done(c) + 1 = 1 THEN Default ELSE Common(c)
    BY <2>2 DEF IInv, WireInv
  <2>4. CASE phase[c] = "versions"
    <3>1. Done(c) = 0 /\ reader[c] = Default
      BY <2>4 DEF IInv, ReadInv, VersInv
    <3> QED BY <2>3, <3>1
  <2>5. CASE phase[c] # "versions"
    <3>1. phase[c] \in {"certs", "challenge", "netinfo", "loop"}
      BY <2>5 DEF Negotiating
    <3>2. Done(c) >= 1 /\ reader[c] = Common(c)
      BY <2>1, <3>1 DEF IInv, ReadInv, VersInv, Established
    <3>3. Done(c) + 1 # 1
      BY <2>1, <3>2
    <3> QED BY <2>3, <3>2, <3>3
  <2> QED BY <2>4, <2>5
<1> QED BY <1>1, Inductive, VersInductive, PTL

=============================================================================
