---------------------------- MODULE StreamProofs ----------------------------
(***************************************************************************)
(* Proofs about Stream, for any number of DATA cells.                      *)
(***************************************************************************)
EXTENDS Stream, TLAPS

USE StreamAssumption DEF StreamAssumption

(* Sequences, element by element.                                          *)
LEMMA TailElements ==
  ASSUME NEW S, NEW q \in Seq(S), q # <<>>
  PROVE  /\ Tail(q) \in Seq(S) /\ Len(q) \in Nat \ {0} /\ Len(Tail(q)) = Len(q) - 1
         /\ Head(q) = q[1] /\ q[1] \in S
         /\ \A k \in 1..(Len(q) - 1) : Tail(q)[k] = q[k + 1]
OBVIOUS

LEMMA AppendElements ==
  ASSUME NEW S, NEW q \in Seq(S), NEW e \in S
  PROVE  /\ Append(q, e) \in Seq(S) /\ Append(q, e) # <<>>
         /\ Len(q) \in Nat /\ Len(Append(q, e)) = Len(q) + 1
         /\ Append(q, e)[Len(q) + 1] = e
         /\ \A k \in 1..Len(q) : Append(q, e)[k] = q[k]
OBVIOUS

LEMMA EmptySeq ==
  ASSUME NEW S, NEW q \in Seq(S)
  PROVE  Len(q) \in Nat /\ (q = <<>> <=> Len(q) = 0)
OBVIOUS

(* How far the call, the transport and the map have come.                  *)
LifeInv ==
  /\ call \in {"idle", "waiting", "answered"} => transport = "none"
  /\ call = "idle" <=> exit = "none"
  /\ call = "idle" => ~inMap
  /\ call = "attaching" => transport # "none"
  /\ transport = "none" => fed = <<>> /\ ~eof
  /\ transport = "closing" => ~inMap

(* The wire of a circuit that is up: CONNECTED first, END last, and the    *)
(* DATA cells in between one after the other.                              *)
Lead == IF wire # <<>> /\ wire[1].kind = "connected" THEN 1 ELSE 0

Trail == IF wire # <<>> /\ wire[Len(wire)].kind = "end" THEN 1 ELSE 0

WireInv ==
  /\ exit \in {"none", "begun"} => wire = <<>> /\ sent = 0 /\ read = 0
  /\ circuit # "up" => wire = <<>>
  /\ \A k \in 1..Len(wire) :
       /\ wire[k].kind = "connected" => k = 1 /\ read = 0
       /\ wire[k].kind = "data" => wire[k].n = read + k - Lead
       /\ wire[k].kind = "end" => k = Len(wire) /\ exit = "ended"

(* What the exit has sent has been read or is on its way.                  *)
SentInv ==
  circuit = "up" => sent = read + Len(wire) - Lead - Trail

(* What the StreamReader has been fed, and what it can still be fed.       *)
FedInv ==
  /\ FedIsRun /\ NothingMissedLater
  /\ eof /\ transport = "open" => wire = <<>> /\ exit = "ended" /\ read = sent

IInv == TypeOK /\ LifeInv /\ WireInv /\ SentInv /\ FedInv /\ ReaderUnbroken

LEMMA InitIInv == Init => IInv
<1> SUFFICES ASSUME Init PROVE IInv
  OBVIOUS
<1>1. <<>> \in Seq(1..MaxData) /\ <<>> \in Seq(Cell) /\ Len(<<>>) = 0 /\ 1..0 = {}
      /\ 0 \in 0..MaxData
  OBVIOUS
<1>2. TypeOK
  BY <1>1 DEF Init, TypeOK
<1>3. LifeInv /\ ReaderUnbroken
  BY DEF Init, LifeInv, ReaderUnbroken
<1>4. wire = <<>> /\ Len(wire) = 0 /\ Lead = 0 /\ Trail = 0
  BY <1>1 DEF Init, Lead, Trail
<1>5. WireInv
  BY <1>1, <1>4 DEF Init, WireInv
<1>6. SentInv
  BY <1>4 DEF Init, SentInv
<1>7. FedInv
  BY DEF Init, FedInv, FedIsRun, NothingMissedLater
<1> QED BY <1>2, <1>3, <1>5, <1>6, <1>7 DEF IInv

(* A cell of the exit behind those on their way.                           *)
LEMMA EmitKeeps ==
  ASSUME TypeOK, WireInv, SentInv, NEW kind, NEW n, Emit(kind, n),
         circuit = "up", circuit' = circuit, read' = read,
         \/ /\ kind = "connected" /\ n = 0 /\ exit = "begun" /\ exit' = "connected" /\ sent' = sent
         \/ /\ kind = "data" /\ n = sent + 1 /\ sent < MaxData /\ exit = "connected"
            /\ exit' = exit /\ sent' = sent + 1
         \/ /\ kind = "end" /\ n = 0 /\ exit \in {"begun", "connected"} /\ exit' = "ended" /\ sent' = sent
  PROVE  /\ wire' \in Seq(Cell) /\ sent' \in 0..MaxData /\ wire' # <<>>
         /\ WireInv' /\ SentInv'
<1> DEFINE e == [kind |-> kind, n |-> n]
<1>1. e \in Cell /\ e.kind = kind /\ e.n = n
  BY DEF TypeOK, Cell
<1> HIDE DEF e
<1>2. /\ wire' \in Seq(Cell) /\ wire' # <<>> /\ Len(wire) \in Nat /\ Len(wire') = Len(wire) + 1
      /\ wire'[Len(wire) + 1] = e /\ \A k \in 1..Len(wire) : wire'[k] = wire[k]
  <2>1. wire \in Seq(Cell)
    BY DEF TypeOK
  <2>2. wire' = Append(wire, e)
    BY DEF Emit, e
  <2> QED BY <1>1, <2>1, <2>2, AppendElements
<1>3. sent \in Nat /\ read \in Nat /\ sent' \in 0..MaxData
  BY DEF TypeOK
<1>4. Trail = 0
  <2> SUFFICES ASSUME wire # <<>>, wire[Len(wire)].kind = "end" PROVE FALSE
    BY DEF Trail
  <2>1. Len(wire) \in 1..Len(wire)
    BY <1>2 DEF TypeOK
  <2> QED BY <2>1 DEF WireInv
<1>5. exit = "begun" => wire = <<>> /\ Len(wire) = 0 /\ sent = 0 /\ read = 0
  BY DEF WireInv
<1>6. Len(wire) = 0 <=> wire = <<>>
  BY DEF TypeOK
<1>7. Lead' = IF kind = "connected" THEN 1 ELSE Lead
  <2>1. CASE wire = <<>>
    <3>1. wire'[1] = e
      BY <1>2, <2>1
    <3> QED BY <1>1, <1>2, <2>1, <3>1 DEF Lead
  <2>2. CASE wire # <<>>
    <3>1. 1 \in 1..Len(wire)
      BY <1>2, <1>6, <2>2
    <3>2. wire'[1] = wire[1] /\ kind # "connected"
      BY <1>2, <1>5, <2>2, <3>1
    <3> QED BY <1>2, <2>2, <3>2 DEF Lead
  <2> QED BY <2>1, <2>2
<1>8. Trail' = IF kind = "end" THEN 1 ELSE 0
  BY <1>1, <1>2 DEF Trail
<1>9. SentInv'
  <2>1. sent = read + Len(wire) - Lead /\ Lead \in {0, 1}
    BY <1>4 DEF SentInv, Lead
  <2>2. kind = "connected" => wire = <<>> /\ Lead = 0
    BY <1>5 DEF Lead
  <2> QED BY <1>2, <1>3, <1>7, <1>8, <2>1, <2>2, SMTT(40) DEF SentInv
<1>10. ASSUME NEW k \in 1..Len(wire')
       PROVE  /\ wire'[k].kind = "connected" => k = 1 /\ read' = 0
              /\ wire'[k].kind = "data" => wire'[k].n = read' + k - Lead'
              /\ wire'[k].kind = "end" => k = Len(wire') /\ exit' = "ended"
  <2>1. CASE k = Len(wire) + 1
    <3>1. wire'[k].kind = kind /\ wire'[k].n = n
      BY <1>1, <1>2, <2>1
    <3>2. sent = read + Len(wire) - Lead /\ Lead \in {0, 1}
      BY <1>4 DEF SentInv, Lead
    <3> QED BY <1>2, <1>3, <1>5, <1>7, <2>1, <3>1, <3>2
  <2>2. CASE k # Len(wire) + 1
    <3>1. k \in 1..Len(wire) /\ wire'[k] = wire[k]
      BY <1>2, <2>2
    <3>2. Lead' = Lead
      BY <1>5, <1>7, <3>1
    <3> QED BY <3>1, <3>2 DEF WireInv
  <2> QED BY <2>1, <2>2
<1> QED BY <1>2, <1>3, <1>9, <1>10 DEF WireInv

(* The reader loop takes a cell off the wire.                              *)
LEMMA TakeKeeps ==
  ASSUME TypeOK, WireInv, SentInv, circuit = "up", circuit' = "up", wire # <<>>, wire' = Tail(wire),
         exit' = exit, sent' = sent,
         read' = IF Head(wire).kind = "data" THEN Head(wire).n ELSE read
  PROVE  /\ WireInv' /\ SentInv' /\ wire' \in Seq(Cell) /\ read' \in 0..MaxData
         /\ Head(wire).kind \in {"connected", "data", "end"}
         /\ Head(wire).kind = "data" => Head(wire).n = read + 1 /\ read + 1 \in 1..MaxData
         /\ Head(wire).kind = "end" => wire' = <<>> /\ exit = "ended" /\ read = sent
<1>1. /\ wire' \in Seq(Cell) /\ Len(wire) \in Nat \ {0} /\ Len(wire') = Len(wire) - 1
      /\ Head(wire) = wire[1] /\ wire[1] \in Cell
      /\ \A k \in 1..(Len(wire) - 1) : wire'[k] = wire[k + 1]
  BY TailElements DEF TypeOK
<1>2. 1 \in 1..Len(wire) /\ Len(wire) \in 1..Len(wire) /\ read \in Nat /\ sent \in Nat
  BY <1>1 DEF TypeOK
<1>3. Head(wire).kind \in {"connected", "data", "end"}
  BY <1>1 DEF Cell
<1>4. exit \notin {"none", "begun"}
  BY DEF WireInv
<1>5. Lead = IF Head(wire).kind = "connected" THEN 1 ELSE 0
  BY <1>1 DEF Lead
<1>6. Len(wire') \in Nat /\ (wire' = <<>> <=> Len(wire') = 0)
  BY <1>1, EmptySeq
<1>7. ASSUME NEW k \in 1..Len(wire')
      PROVE  /\ k \in Nat /\ k + 1 \in 1..Len(wire) /\ k + 1 # 1 /\ wire'[k] = wire[k + 1]
             /\ wire'[k].kind # "connected"
             /\ wire'[k].kind = "data" => wire'[k].n = read + (k + 1) - Lead
             /\ wire'[k].kind = "end" => k + 1 = Len(wire) /\ exit = "ended"
  <2>1. k \in Nat /\ k + 1 \in 1..Len(wire) /\ k + 1 # 1 /\ wire'[k] = wire[k + 1]
    BY <1>1
  <2> QED BY <2>1 DEF WireInv
<1>8. Lead' = 0
  <2> SUFFICES ASSUME wire' # <<>>, wire'[1].kind = "connected" PROVE FALSE
    BY DEF Lead
  <2>1. 1 \in 1..Len(wire')
    BY <1>6
  <2> QED BY <1>7, <2>1
<1>9. Len(wire) # 1 => Trail' = Trail
  <2> SUFFICES ASSUME Len(wire) # 1 PROVE Trail' = Trail
    OBVIOUS
  <2>1. Len(wire') \in 1..Len(wire') /\ Len(wire') + 1 = Len(wire) /\ wire' # <<>>
    BY <1>1, <1>6
  <2>2. wire'[Len(wire')] = wire[Len(wire)]
    BY <1>7, <2>1
  <2> QED BY <2>1, <2>2 DEF Trail
<1>10. Len(wire) = 1 => wire' = <<>> /\ Trail' = 0 /\ Trail = IF Head(wire).kind = "end" THEN 1 ELSE 0
  BY <1>1, <1>6 DEF Trail
<1>11. Head(wire).kind = "end" => Len(wire) = 1 /\ exit = "ended"
  BY <1>1, <1>2 DEF WireInv
<1>12. Trail' = IF Head(wire).kind = "end" THEN 0 ELSE Trail
  BY <1>9, <1>10, <1>11
<1>13. Trail = IF Head(wire).kind = "end" THEN 1 ELSE Trail
  BY <1>10, <1>11
<1>14. Head(wire).kind = "data" => Head(wire).n = read + 1 /\ read + 1 \in 1..MaxData
  <2> SUFFICES ASSUME Head(wire).kind = "data" PROVE Head(wire).n = read + 1 /\ read + 1 \in 1..MaxData
    OBVIOUS
  <2>1. wire[1].n = read + 1 - Lead /\ Lead = 0
    BY <1>1, <1>2, <1>5 DEF WireInv
  <2>2. wire[1].n \in 1..MaxData
    BY <1>1 DEF Cell
  <2> QED BY <1>1, <1>2, <2>1, <2>2
<1>15. Head(wire).kind = "connected" => read = 0
  BY <1>1, <1>2 DEF WireInv
<1>16. read' = read + (IF Head(wire).kind = "data" THEN 1 ELSE 0) /\ read' \in 0..MaxData
  BY <1>14 DEF TypeOK
<1>17. Trail \in {0, 1} /\ sent = read + Len(wire) - Lead - Trail
  BY DEF SentInv, Trail
<1>18. SentInv'
  BY <1>1, <1>2, <1>3, <1>5, <1>8, <1>12, <1>13, <1>16, <1>17, SMTT(40) DEF SentInv
<1>19. WireInv'
  <2>1. ASSUME NEW k \in 1..Len(wire')
        PROVE  /\ wire'[k].kind # "connected"
               /\ wire'[k].kind = "data" => wire'[k].n = read' + k - Lead'
               /\ wire'[k].kind = "end" => k = Len(wire') /\ exit' = "ended"
    <3>1. /\ k \in Nat /\ k + 1 \in 1..Len(wire) /\ k + 1 # 1 /\ wire'[k].kind # "connected"
          /\ wire'[k].kind = "data" => wire'[k].n = read + (k + 1) - Lead
          /\ wire'[k].kind = "end" => k + 1 = Len(wire) /\ exit = "ended"
      BY <1>7
    <3>2. Head(wire).kind # "end"
      <4>1. Len(wire) # 1
        BY <3>1
      <4> QED BY <4>1, <1>11
    <3>3. read' + k - Lead' = read + (k + 1) - Lead
      <4>1. CASE Head(wire).kind = "connected"
        BY <1>2, <1>5, <1>8, <1>16, <3>1, <4>1
      <4>2. CASE Head(wire).kind = "data"
        <5>1. read' = read + 1 /\ Lead = 0 /\ Lead' = 0
          BY <1>5, <1>8, <1>16, <4>2
        <5> QED BY <1>2, <3>1, <5>1
      <4> QED BY <1>3, <3>2, <4>1, <4>2
    <3>4. k + 1 = Len(wire) => k = Len(wire')
      <4>1. \A i, m, n \in Nat : n = m - 1 /\ i + 1 = m => i = n
        OBVIOUS
      <4>2. k \in Nat /\ Len(wire) \in Nat /\ Len(wire') \in Nat /\ Len(wire') = Len(wire) - 1
        BY <1>1, <1>6, <3>1, Zenon
      <4> QED BY <4>1, <4>2, Zenon
    <3> QED BY <3>1, <3>3, <3>4
  <2> QED BY <1>4, <2>1 DEF WireInv
<1>20. Head(wire).kind = "end" => wire' = <<>> /\ exit = "ended" /\ read = sent
  <2> SUFFICES ASSUME Head(wire).kind = "end" PROVE wire' = <<>> /\ exit = "ended" /\ read = sent
    OBVIOUS
  <2>1. Len(wire) = 1 /\ exit = "ended" /\ wire' = <<>> /\ Lead = 0 /\ Trail = 1
    BY <1>5, <1>10, <1>11
  <2> QED BY <1>2, <1>17, <2>1
<1> QED BY <1>1, <1>3, <1>14, <1>16, <1>18, <1>19, <1>20

(* A step that leaves the wire and the counts as they are.                 *)
LEMMA WireSame ==
  ASSUME WireInv, SentInv, UNCHANGED <<wire, circuit, sent, read>>,
         exit' = exit \/ (exit' = "ended" /\ exit # "none") \/ (exit' = "begun" /\ exit = "none")
  PROVE  WireInv' /\ SentInv'
<1>1. Lead' = Lead /\ Trail' = Trail
  BY DEF Lead, Trail
<1> QED BY <1>1 DEF WireInv, SentInv

LEMMA Step == IInv /\ [Next]_vars => IInv'
<1> SUFFICES ASSUME IInv, [Next]_vars PROVE IInv'
  OBVIOUS
<1>1. TypeOK /\ LifeInv /\ WireInv /\ SentInv /\ FedInv /\ ReaderUnbroken
  BY DEF IInv
<1> USE <1>1
<1> DEFINE Rest == /\ circuit' = circuit /\ wire' = wire /\ sent' = sent /\ read' = read /\ fed' = fed
                   /\ (transport' = "open" => eof' = eof /\ (eof => exit' = exit)
                        /\ (inMap' => inMap) /\ (transport = "open" \/ (fed = <<>> /\ ~eof)))
<1>2. ASSUME Rest, LifeInv', call' \in {"idle", "waiting", "answered", "attaching", "open", "failed", "cancelled"},
             inMap' \in BOOLEAN, transport' \in {"none", "open", "closing"}, eofWritten' \in BOOLEAN,
             eof' \in BOOLEAN, exit' \in {"none", "begun", "connected", "ended"},
             exit' = exit \/ (exit' = "ended" /\ exit # "none") \/ (exit' = "begun" /\ exit = "none")
      PROVE  IInv'
  <2>1. WireInv' /\ SentInv'
    BY <1>2, WireSame
  <2>2. TypeOK'
    BY <1>2 DEF TypeOK
  <2>3. FedInv'
    BY <1>2 DEF FedInv, FedIsRun, NothingMissedLater
  <2> QED BY <1>2, <2>1, <2>2, <2>3 DEF IInv, ReaderUnbroken
<1>3. CASE CreateStream
  BY <1>2, <1>3 DEF CreateStream, TypeOK, LifeInv
<1>4. CASE GiveUp
  BY <1>2, <1>4 DEF GiveUp, remote, TypeOK, LifeInv
<1>5. CASE Attach
  BY <1>2, <1>5 DEF Attach, remote, TypeOK, LifeInv
<1>6. CASE Attached
  <2>1. /\ call = "attaching" /\ call' = "open" /\ transport # "none"
        /\ UNCHANGED <<circuit, inMap, transport, eofWritten, fed, eof, wire, exit, sent, read>>
    BY <1>6 DEF Attached, remote, LifeInv
  <2>2. LifeInv'
    BY <2>1 DEF LifeInv
  <2>3. Rest
    BY <2>1
  <2> QED BY <1>2, <2>1, <2>2, <2>3 DEF TypeOK
<1>7. CASE Cancel
  BY <1>2, <1>7 DEF Cancel, CloseTransport, TypeOK, LifeInv
<1>8. CASE Close
  BY <1>2, <1>8 DEF Close, CloseTransport, TypeOK, LifeInv
<1>9. CASE WriteEof
  <2>1. /\ call = "open" /\ transport = "open" /\ eofWritten' = TRUE
        /\ UNCHANGED <<circuit, call, inMap, transport, fed, eof, wire, sent, read>>
        /\ exit' \in {exit, "ended"}
    BY <1>9 DEF WriteEof, SendEnd
  <2>2. LifeInv' /\ (eof => exit' = exit)
    BY <2>1 DEF LifeInv, FedInv
  <2>3. exit # "none"
    BY <2>1 DEF LifeInv
  <2>4. Rest
    BY <2>1, <2>2
  <2> QED BY <1>2, <2>1, <2>2, <2>3, <2>4 DEF TypeOK
<1>10. CASE DestroyCircuit
  <2>1. <<>> \in Seq(Cell) /\ Len(<<>>) = 0
    OBVIOUS
  <2>2. /\ circuit' = "destroyed" /\ inMap' = FALSE /\ wire' = <<>>
        /\ UNCHANGED <<call, transport, eofWritten, fed, eof, sent, read>>
        /\ exit' = exit \/ (exit' = "ended" /\ transport = "open")
    BY <1>10 DEF DestroyCircuit, CloseStream, SendEnd, TypeOK
  <2>3. transport = "open" => call # "idle"
    BY DEF LifeInv
  <2>4. TypeOK' /\ LifeInv' /\ ReaderUnbroken'
    BY <2>1, <2>2, <2>3 DEF TypeOK, LifeInv, ReaderUnbroken
  <2>5. WireInv' /\ SentInv'
    BY <2>1, <2>2 DEF WireInv, SentInv
  <2>6. FedInv'
    BY <2>2 DEF FedInv, FedIsRun, NothingMissedLater
  <2> QED BY <2>4, <2>5, <2>6 DEF IInv
<1>11. CASE ReadCell
  <2>1. /\ circuit = "up" /\ wire # <<>> /\ wire' = Tail(wire)
        /\ UNCHANGED <<inMap, transport, eofWritten, exit, sent>>
    BY <1>11 DEF ReadCell
  <2>2. ~(eof /\ transport = "open")
    BY <2>1 DEF FedInv
  <2>3. CASE Head(wire).kind = "data" /\ OnData(Head(wire).n)
    <3>1. circuit' = "up"
      BY <2>1, <2>2, <2>3 DEF OnData, LifeInv, TypeOK
    <3>2. read' = Head(wire).n /\ UNCHANGED <<call, eof>>
      BY <2>3 DEF OnData
    <3>3. /\ WireInv' /\ SentInv' /\ wire' \in Seq(Cell) /\ read' \in 0..MaxData
          /\ Head(wire).n = read + 1 /\ read + 1 \in 1..MaxData
      BY <2>1, <2>3, <3>1, <3>2, TakeKeeps
    <3>4. LifeInv' /\ FedInv' /\ fed' \in Seq(1..MaxData)
      <4>1. CASE inMap /\ transport = "open"
        <5>1. fed' = Append(fed, read + 1)
          BY <2>2, <2>3, <3>3, <4>1 DEF OnData
        <5>2. /\ fed' \in Seq(1..MaxData) /\ fed' # <<>>
              /\ Len(fed) \in Nat /\ Len(fed') = Len(fed) + 1
              /\ fed'[Len(fed) + 1] = read + 1
              /\ \A k \in 1..Len(fed) : fed'[k] = fed[k]
          BY <3>3, <5>1, AppendElements DEF TypeOK
        <5>3. fed # <<>> => 1 \in 1..Len(fed) /\ fed[Len(fed)] = read
          BY <4>1 DEF FedInv, NothingMissedLater, TypeOK
        <5>4. DOMAIN fed = 1..Len(fed) /\ DOMAIN fed' = 1..(Len(fed) + 1)
          BY <5>2 DEF TypeOK
        <5>5. ASSUME NEW i \in DOMAIN fed' PROVE fed'[i] = fed'[1] + i - 1
          <6>1. CASE fed = <<>>
            <7>1. Len(fed) = 0 /\ i = 1 /\ fed'[1] = read + 1
              BY <5>2, <5>4, <6>1
            <7>2. read \in Nat
              BY DEF TypeOK
            <7> QED BY <7>1, <7>2
          <6>2. CASE fed # <<>>
            <7>1. fed'[1] = fed[1] /\ fed[1] \in Nat /\ Len(fed) \in DOMAIN fed
              BY <5>2, <5>3, <5>4, <6>2 DEF TypeOK
            <7>2. read = fed[1] + Len(fed) - 1
              BY <5>3, <6>2, <7>1 DEF FedInv, FedIsRun
            <7>3. CASE i = Len(fed) + 1
              <8>1. fed'[i] = read + 1 /\ Len(fed) \in Nat
                BY <5>2, <7>3
              <8> QED BY <7>1, <7>2, <7>3, <8>1
            <7>4. CASE i # Len(fed) + 1
              <8>1. i \in DOMAIN fed /\ fed'[i] = fed[i]
                BY <5>2, <5>4, <7>4
              <8> QED BY <6>2, <7>1, <8>1 DEF FedInv, FedIsRun
            <7> QED BY <7>3, <7>4
          <6> QED BY <6>1, <6>2
        <5>6. FedIsRun'
          BY <5>5 DEF FedIsRun
        <5>7. NothingMissedLater'
          BY <3>2, <3>3, <5>2 DEF NothingMissedLater
        <5> QED BY <2>1, <2>2, <3>2, <4>1, <5>2, <5>6, <5>7 DEF LifeInv, FedInv
      <4>2. CASE ~(inMap /\ transport = "open")
        <5>1. fed' = fed
          BY <2>3, <4>2 DEF OnData, LifeInv, TypeOK
        <5> QED BY <2>1, <2>2, <3>2, <4>2, <5>1 DEF LifeInv, FedInv, FedIsRun, NothingMissedLater, TypeOK
      <4> QED BY <4>1, <4>2
    <3> QED BY <2>1, <3>1, <3>2, <3>3, <3>4 DEF IInv, TypeOK, ReaderUnbroken
  <2>4. CASE Head(wire).kind = "connected" /\ OnConnected
    <3>1. /\ UNCHANGED <<circuit, fed, eof, read>>
          /\ call' = IF call = "waiting" THEN "answered" ELSE call
      BY <2>4 DEF OnConnected
    <3>2. WireInv' /\ SentInv' /\ wire' \in Seq(Cell)
      BY <2>1, <2>4, <3>1, TakeKeeps
    <3>3. LifeInv' /\ FedInv'
      BY <2>1, <2>2, <3>1 DEF LifeInv, FedInv, FedIsRun, NothingMissedLater
    <3> QED BY <2>1, <3>1, <3>2, <3>3 DEF IInv, TypeOK, ReaderUnbroken
  <2>5. CASE Head(wire).kind = "end" /\ OnEnd
    <3>1. /\ UNCHANGED <<circuit, call, fed, read>>
          /\ eof' = (eof \/ (inMap /\ transport = "open"))
      BY <2>5 DEF OnEnd
    <3>2. /\ WireInv' /\ SentInv' /\ wire' \in Seq(Cell)
          /\ wire' = <<>> /\ exit = "ended" /\ read = sent
      BY <2>1, <2>5, <3>1, TakeKeeps
    <3>3. LifeInv' /\ FedInv'
      BY <2>1, <3>1, <3>2 DEF LifeInv, FedInv, FedIsRun, NothingMissedLater
    <3> QED BY <2>1, <3>1, <3>2, <3>3 DEF IInv, TypeOK, ReaderUnbroken
  <2> QED BY <1>11, <2>3, <2>4, <2>5 DEF ReadCell
<1>12. ASSUME NEW kind, NEW n, Emit(kind, n), circuit = "up", UNCHANGED <<circuit, client, read>>,
              ~(eof /\ transport = "open"), exit # "none",
              exit' \in {"connected", "ended"},
              wire' \in Seq(Cell), sent' \in 0..MaxData, WireInv', SentInv'
       PROVE  IInv'
  BY <1>12 DEF client, IInv, TypeOK, LifeInv, FedInv, FedIsRun, NothingMissedLater, ReaderUnbroken
<1>13. exit # "ended" => ~(eof /\ transport = "open")
  BY DEF FedInv
<1>14. CASE ExitConnects
  BY <1>12, <1>13, <1>14, EmitKeeps DEF ExitConnects
<1>15. CASE ExitSends
  BY <1>12, <1>13, <1>15, EmitKeeps DEF ExitSends
<1>16. CASE ExitEnds
  BY <1>12, <1>13, <1>16, EmitKeeps DEF ExitEnds
<1>17. CASE UNCHANGED vars
  <2>1. WireInv' /\ SentInv'
    BY <1>17, WireSame DEF vars, client, remote
  <2> QED BY <1>17, <2>1 DEF vars, client, remote, IInv, TypeOK, LifeInv, FedInv, FedIsRun,
                     NothingMissedLater, ReaderUnbroken
<1> QED
  BY <1>3, <1>4, <1>5, <1>6, <1>7, <1>8, <1>9, <1>10, <1>11, <1>14, <1>15, <1>16, <1>17, Zenon
  DEF Next, Opening

LEMMA Inductive == Spec => []IInv
BY InitIInv, Step, PTL DEF Spec

(* Type correctness, for any number of DATA cells.                         *)
THEOREM TypeCorrect == Spec => []TypeOK
BY Inductive, PTL DEF IInv

(* What the application reads is a run of consecutive DATA cells: nothing  *)
(* is reordered, duplicated or left out in the middle (stream.py 154-160). *)
THEOREM FedInOrder == Spec => []FedIsRun
BY Inductive, PTL DEF IInv, FedInv

(* Once data arrives it keeps arriving while the stream is open.           *)
THEOREM NothingMissed == Spec => []NothingMissedLater
BY Inductive, PTL DEF IInv, FedInv

(* The application sees EOF behind the last DATA cell the exit sent        *)
(* (stream.py 162-170).                                                    *)
THEOREM EofBehindData == Spec => []EofIsLast
<1>1. IInv => EofIsLast
  BY DEF IInv, FedInv, EofIsLast
<1> QED BY <1>1, Inductive, PTL

(* No handler of the stream raises in the reader loop.                     *)
THEOREM NeverBroken == Spec => []ReaderUnbroken
BY Inductive, PTL DEF IInv

-----------------------------------------------------------------------------
(* The last cell of an exit that has ended the stream is its END, until it *)
(* is read; and what has been read and fed was sent before.                *)
EndInv ==
  /\ circuit = "up" /\ transport = "open" => inMap
  /\ circuit = "up" /\ call \in {"waiting", "answered"} => inMap
  /\ circuit = "up" /\ exit = "ended" /\ ~eofWritten /\ wire # <<>> => wire[Len(wire)].kind = "end"
  /\ EndIsTold

CountInv == read <= sent /\ Len(fed) <= read

(* The wire of a circuit that is up holds what has been sent and not read. *)
LEMMA ReadWithinSent == TypeOK /\ SentInv /\ circuit = "up" => read <= sent
<1> SUFFICES ASSUME TypeOK, SentInv, circuit = "up" PROVE read <= sent
  OBVIOUS
<1>1. wire \in Seq(Cell) /\ read \in Nat /\ sent \in Nat /\ Len(wire) \in Nat
  BY DEF TypeOK
<1>2. Lead \in {0, 1} /\ Trail \in {0, 1} /\ sent = read + Len(wire) - Lead - Trail
  BY DEF SentInv, Lead, Trail
<1>3. Len(wire) = 0 => Lead = 0 /\ Trail = 0
  BY <1>1, EmptySeq DEF Lead, Trail
<1>5. Len(wire) = 1 => Lead = 0 \/ Trail = 0
  BY DEF Lead, Trail
<1>6. Lead + Trail <= Len(wire)
  <2>1. \A n \in Nat : \A l, r \in {0, 1} :
          (n = 0 => l = 0 /\ r = 0) /\ (n = 1 => l = 0 \/ r = 0) => l + r <= n
    OBVIOUS
  <2> QED BY <1>1, <1>2, <1>3, <1>5, <2>1, Zenon
<1> QED BY <1>1, <1>2, <1>6

(* A turn of the reader loop.                                              *)
LEMMA ReadCellEnd ==
  ASSUME IInv, EndInv, CountInv, ReadCell, IInv'
  PROVE  EndInv' /\ CountInv'
<1>1. /\ circuit = "up" /\ wire # <<>> /\ wire' = Tail(wire) /\ wire \in Seq(Cell)
      /\ UNCHANGED <<inMap, transport, eofWritten, exit, sent>>
      /\ read \in Nat /\ sent \in Nat /\ fed \in Seq(1..MaxData) /\ Len(fed) \in Nat
  BY DEF ReadCell, IInv, TypeOK
<1>2. /\ Len(wire) \in Nat \ {0} /\ Len(Tail(wire)) = Len(wire) - 1 /\ Head(wire) = wire[1]
      /\ Tail(wire) \in Seq(Cell) /\ \A k \in 1..(Len(wire) - 1) : Tail(wire)[k] = wire[k + 1]
  BY <1>1, TailElements
<1>3. call' # call => call = "waiting" /\ call' = "answered"
  BY DEF ReadCell, OnConnected, OnData, OnEnd
<1>4. circuit' = "up"
  BY <1>1 DEF ReadCell, OnConnected, OnData, OnEnd, IInv, ReaderUnbroken, TypeOK
<1>5. wire' # <<>> => /\ Len(wire') \in 1..(Len(wire) - 1) /\ Len(wire') + 1 = Len(wire)
                      /\ wire'[Len(wire')] = wire[Len(wire)]
  <2> SUFFICES ASSUME wire' # <<>>
               PROVE  /\ Len(wire') \in 1..(Len(wire) - 1) /\ Len(wire') + 1 = Len(wire)
                      /\ wire'[Len(wire')] = wire[Len(wire)]
    OBVIOUS
  <2>1. Len(wire') \in Nat \ {0} /\ Len(wire') = Len(wire) - 1
    BY <1>1, <1>2, EmptySeq
  <2>2. Len(wire') \in 1..(Len(wire) - 1) /\ Len(wire') + 1 = Len(wire)
    BY <1>2, <2>1
  <2> QED BY <1>1, <1>2, <2>2
<1>6. wire' = <<>> => Head(wire) = wire[Len(wire)]
  <2> SUFFICES ASSUME wire' = <<>> PROVE Len(wire) = 1
    BY <1>2
  <2>1. Tail(wire) = <<>> /\ Len(<<>>) = 0
    BY <1>1
  <2>2. \A n \in Nat : n - 1 = 0 => n = 1
    OBVIOUS
  <2> QED BY <1>2, <2>1, <2>2, Zenon
<1>7. EndIsTold'
  <2> SUFFICES ASSUME fed' # <<>>, transport = "open", ~eofWritten, exit = "ended", wire' = <<>>
               PROVE  eof'
    BY <1>1 DEF EndIsTold
  <2>1. Head(wire).kind = "end" /\ inMap
    BY <1>1, <1>6 DEF EndInv
  <2> QED BY <2>1 DEF ReadCell, OnEnd
<1>8. EndInv'
  BY <1>1, <1>3, <1>4, <1>5, <1>7 DEF EndInv
<1>9. read' <= sent'
  <2>1. (TypeOK /\ SentInv /\ circuit = "up")'
    BY <1>4 DEF IInv
  <2>2. (TypeOK /\ SentInv /\ circuit = "up" => read <= sent)'
    BY ReadWithinSent, PTL
  <2> QED BY <2>1, <2>2
<1>10. Len(fed') <= read'
  <2>1. CASE Head(wire).kind = "data" /\ OnData(Head(wire).n)
    <3>1. read' = read + 1 /\ read + 1 \in 1..MaxData
      <4>1. read' = Head(wire).n
        BY <2>1 DEF OnData
      <4> QED BY <1>1, <1>4, <2>1, <4>1, TakeKeeps DEF IInv
    <3>2. fed' = fed \/ fed' = Append(fed, read + 1)
      BY <2>1, <3>1 DEF OnData
    <3>3. Len(fed') <= Len(fed) + 1
      <4>1. CASE fed' = fed
        BY <1>1, <4>1
      <4>2. CASE fed' = Append(fed, read + 1)
        BY <1>1, <3>1, <4>2, AppendElements
      <4> QED BY <3>2, <4>1, <4>2
    <3>4. Len(fed') \in Nat /\ Len(fed) <= read
      BY <1>1 DEF CountInv, IInv, TypeOK
    <3> QED BY <1>1, <3>1, <3>3, <3>4
  <2>2. CASE UNCHANGED <<fed, read>>
    BY <2>2 DEF CountInv
  <2> QED BY <2>1, <2>2 DEF ReadCell, OnConnected, OnEnd
<1> QED BY <1>8, <1>9, <1>10 DEF CountInv

(* The exit puts a cell on the wire.                                       *)
LEMMA ExitEnd ==
  ASSUME IInv, EndInv, CountInv, ExitConnects \/ ExitSends \/ ExitEnds
  PROVE  EndInv' /\ CountInv'
<1>1. /\ UNCHANGED <<circuit, call, inMap, transport, eofWritten, fed, eof, read>>
      /\ sent' \in {sent, sent + 1} /\ sent \in Nat /\ read \in Nat
  BY DEF ExitConnects, ExitSends, ExitEnds, client, IInv, TypeOK
<1>2. PICK kind \in {"connected", "data", "end"}, n \in 0..MaxData :
        Emit(kind, n) /\ (exit' = "ended" => kind = "end")
        /\ [kind |-> kind, n |-> n] \in Cell
  BY DEF ExitConnects, ExitSends, ExitEnds, IInv, TypeOK, Cell
<1>3. /\ wire \in Seq(Cell) /\ wire' = Append(wire, [kind |-> kind, n |-> n])
      /\ [kind |-> kind, n |-> n] \in Cell
  BY <1>2 DEF Emit, IInv, TypeOK
<1>4. wire' # <<>> /\ wire'[Len(wire')].kind = kind
  BY <1>3, AppendElements
<1>5. EndIsTold'
  BY <1>4 DEF EndIsTold
<1>6. EndInv'
  BY <1>1, <1>2, <1>4, <1>5 DEF EndInv
<1> QED BY <1>1, <1>6 DEF CountInv

LEMMA EndStep ==
  ASSUME IInv, IInv', EndInv, CountInv, [Next]_vars
  PROVE  EndInv' /\ CountInv'
<1>1. CASE CreateStream \/ GiveUp \/ Attach \/ Attached
  <2>1. UNCHANGED <<circuit, eofWritten, fed, eof, wire, sent, read>>
    BY <1>1 DEF CreateStream, GiveUp, Attach, Attached, remote
  <2>2. CASE CreateStream
    <3>1. transport = "none" /\ transport' = "none" /\ exit' = "begun" /\ inMap'
      BY <2>2 DEF CreateStream, IInv, LifeInv
    <3> QED BY <2>1, <3>1 DEF EndInv, EndIsTold, CountInv
  <2>3. CASE Attach
    <3>1. UNCHANGED <<inMap, exit>> /\ call = "answered" /\ fed = <<>>
          /\ call' = "attaching" /\ transport' = "open"
      BY <2>3 DEF Attach, remote, IInv, LifeInv
    <3> QED BY <2>1, <3>1 DEF EndInv, EndIsTold, CountInv
  <2>4. CASE GiveUp \/ Attached
    <3>1. UNCHANGED <<inMap, transport, exit>> /\ call' \in {"failed", "open"}
      BY <2>4 DEF GiveUp, Attached, remote
    <3> QED BY <2>1, <3>1 DEF EndInv, EndIsTold, CountInv
  <2> QED BY <1>1, <2>2, <2>3, <2>4
<1>2. CASE Cancel \/ Close
  <2>1. UNCHANGED <<circuit, eofWritten, fed, wire, exit, sent, read>>
        /\ call' \in {"cancelled", "open"}
        /\ \/ UNCHANGED <<inMap, transport, eof>>
           \/ transport' = "closing"
    BY <1>2 DEF Cancel, Close, CloseTransport
  <2> QED BY <2>1 DEF EndInv, EndIsTold, CountInv
<1>3. CASE WriteEof
  <2>1. UNCHANGED <<circuit, call, inMap, transport, fed, wire, sent, read>> /\ eofWritten'
    BY <1>3 DEF WriteEof
  <2> QED BY <2>1 DEF EndInv, EndIsTold, CountInv
<1>4. CASE DestroyCircuit
  <2>1. UNCHANGED <<fed, sent, read>> /\ circuit' = "destroyed"
    BY <1>4 DEF DestroyCircuit
  <2> QED BY <2>1 DEF EndInv, EndIsTold, CountInv
<1>5. CASE UNCHANGED vars
  BY <1>5 DEF vars, client, remote, EndInv, EndIsTold, CountInv
<1> QED BY <1>1, <1>2, <1>3, <1>4, <1>5, ReadCellEnd, ExitEnd DEF Next, Opening

LEMMA EndInductive == Spec => [](EndInv /\ CountInv)
<1>1. Init => EndInv /\ CountInv
  BY DEF Init, EndInv, EndIsTold, CountInv
<1>2. IInv /\ IInv' /\ EndInv /\ CountInv /\ [Next]_vars => EndInv' /\ CountInv'
  BY EndStep
<1> QED BY <1>1, <1>2, Inductive, PTL DEF Spec

(* An application that was given data sees the exit's END as soon as all   *)
(* cells have been read (stream.py 145-148).                               *)
THEOREM EndTold == Spec => []EndIsTold
<1>1. EndInv => EndIsTold
  BY DEF EndInv
<1> QED BY <1>1, EndInductive, PTL

(* The reader loop takes no more DATA off the wire than the exit has sent, *)
(* and the application is fed no more cells than were taken                *)
(* (stream.py 154-160).                                                    *)
THEOREM NoneInvented == Spec => [](read <= sent /\ Len(fed) <= read)
<1>1. CountInv => read <= sent /\ Len(fed) <= read
  BY DEF CountInv
<1> QED BY <1>1, EndInductive, PTL

=============================================================================
