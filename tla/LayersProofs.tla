---------------------------- MODULE LayersProofs ----------------------------
(***************************************************************************)
(* Proofs about Layers, for paths of any length, any cells, and any number *)
(* of them.                                                                *)
(***************************************************************************)
EXTENDS Layers, TLAPS

LEMMA Constants ==
  /\ Hops \in Nat \ {0} /\ MaxSkins \in Nat /\ Layer = 1..Hops
  /\ Longest \in Nat /\ Longest <= Hops
BY LayersAssumption DEF LayersAssumption, Layer, Longest

(* Sequences, element by element.                                          *)
LEMMA TailElements ==
  ASSUME NEW S, NEW q \in Seq(S), q # <<>>
  PROVE  /\ Tail(q) \in Seq(S) /\ Len(q) \in Nat \ {0} /\ Len(Tail(q)) = Len(q) - 1
         /\ Head(q) = q[1]
         /\ \A k \in 1..(Len(q) - 1) : Tail(q)[k] = q[k + 1]
OBVIOUS

LEMMA AppendElements ==
  ASSUME NEW S, NEW q \in Seq(S), NEW e
  PROVE  /\ Append(q, e) \in Seq(S \cup {e})
         /\ Len(q) \in Nat /\ Len(Append(q, e)) = Len(q) + 1
         /\ Append(q, e)[Len(q) + 1] = e
         /\ \A k \in 1..Len(q) : Append(q, e)[k] = q[k]
<1>1. q \in Seq(S \cup {e}) /\ e \in S \cup {e}
  OBVIOUS
<1> QED BY <1>1

Counts == [Layer -> Nat]

(* One more cell through a stream cipher, or into a running digest.        *)
LEMMA OneMore ==
  ASSUME NEW f \in Counts, NEW d \in Nat
  PROVE  /\ Through(f, d) \in Counts /\ At(f, d) \in Counts
         /\ Through(f, 0) = f /\ At(f, 0) = f
         /\ \A i \in Layer : /\ Through(f, d)[i] = IF i <= d THEN f[i] + 1 ELSE f[i]
                             /\ At(f, d)[i] = IF i = d THEN f[i] + 1 ELSE f[i]
<1>1. Layer = 1..Hops /\ Hops \in Nat
  BY Constants
<1>2. \A i \in Layer : i \in Nat /\ i # 0 /\ ~(i <= 0)
  BY <1>1
<1>3. Through(f, d) \in Counts /\ At(f, d) \in Counts
  BY <1>2 DEF Through, At, Counts
<1>4. Through(f, 0) = f
  BY <1>2 DEF Through, Counts
<1>5. At(f, 0) = f
  BY <1>2 DEF At, Counts
<1> QED BY <1>3, <1>4, <1>5 DEF Through, At

-----------------------------------------------------------------------------
(* Forward.  CtrAt(k) and DigAt(k) are where the client was when it sent   *)
(* the k-th cell of those on their way, and where it is after them.        *)
CtrAt(k) == IF k <= Len(out) THEN out[k].ctr ELSE cf
DigAt(k) == IF k <= Len(out) THEN out[k].dig ELSE cd

FwdInv ==
  /\ \E S : out \in Seq(S)
  /\ cf \in Counts /\ cd \in Counts /\ rf \in Counts /\ rd \in Counts
  /\ \A k \in 1..Len(out) :
       /\ out[k].depth \in 0..n /\ out[k].skin \in 0..skins
       /\ out[k].ctr \in Counts /\ out[k].dig \in Counts
       /\ CtrAt(k + 1) = Through(CtrAt(k), out[k].depth)
       /\ DigAt(k + 1) = At(DigAt(k), out[k].depth)
  /\ \A i \in 1..cut : CtrAt(1)[i] = rf[i] /\ DigAt(1)[i] = rd[i]

(* Backward, the same, for the cells of all relays in one order.           *)
BackCtr(k) == IF k <= Len(in) THEN in[k].ctr ELSE rb
BackDig(k) == IF k <= Len(in) THEN in[k].dig ELSE re

BackInv ==
  /\ \E S : in \in Seq(S)
  /\ cb \in Counts /\ ce \in Counts /\ rb \in Counts /\ re \in Counts
  /\ \A k \in 1..Len(in) :
       /\ in[k].origin \in 0..n
       /\ in[k].ctr \in Counts /\ in[k].dig \in Counts
       /\ BackCtr(k + 1) = Through(BackCtr(k), in[k].origin)
       /\ BackDig(k + 1) = At(BackDig(k), in[k].origin)
  /\ BackCtr(1) = cb /\ BackDig(1) = ce

(* A relay that was spoken to is one of the nodes.                         *)
SpokenInv == \A i \in Layer : rd[i] # 0 => i <= n

CoreType ==
  /\ first \in {"fast", "ntor"}
  /\ n \in 0..Longest
  /\ ckey \in [Layer -> Keys] /\ rkey \in [Layer -> Keys]
  /\ skins \in 0..MaxSkins /\ waiting \in 0..skins
  /\ waiting # 0 => n < Longest
  /\ cut \in Layer
  /\ fault \in {"none", "unread", "unrecognized", "garbled"}

(* An answer comes from the relay that has the keys it was made with.      *)
AnswerOf(r, hop) ==
  \/ r = NoReply
  \/ /\ hop \in Layer /\ r.y \in 1..MaxSkins
     /\ rkey[hop] = [x |-> r.y, y |-> r.y]
     /\ r.auth = Auth(Kind(hop), r.y, r.y, hop)

KeyInv ==
  /\ \A i \in 1..n : ckey[i] = rkey[i] /\ rkey[i] # NoKey
  /\ \A k \in 1..Len(in) : AnswerOf(in[k].reply, in[k].origin + 1)
  /\ \E hop \in Layer : AnswerOf(reply, hop)

IInv == CoreType /\ FwdInv /\ BackInv /\ SpokenInv /\ KeyInv /\ AllRecognized

LEMMA IInvIsTyped == IInv => TypeOK
<1> SUFFICES ASSUME IInv PROVE TypeOK
  OBVIOUS
<1>1. CoreType /\ FwdInv /\ BackInv
  BY DEF IInv
<1>2. n \in Nat /\ n <= Hops
  BY <1>1, Constants DEF CoreType
<1>3. \A k \in 1..Len(in) : in[k].origin \in 0..Hops
  BY <1>1, <1>2, Constants DEF BackInv
<1> QED BY <1>1, <1>3 DEF TypeOK, CoreType, FwdInv, BackInv, Counts

LEMMA InitIInv == Init => IInv
<1> SUFFICES ASSUME Init PROVE IInv
  OBVIOUS
<1>1. Zero \in Counts
  BY DEF Zero, Counts
<1>2. CoreType
  <2>1. 0 \in 0..Longest /\ 0 \in 0..MaxSkins /\ Hops \in Layer
    BY Constants
  <2>2. NoKey \in Keys
    BY Constants DEF NoKey, Keys
  <2> QED BY <2>1, <2>2 DEF Init, CoreType
<1>3. FwdInv
  <2>1. <<>> \in Seq({}) /\ Len(<<>>) = 0
    OBVIOUS
  <2> QED BY <1>1, <2>1 DEF Init, FwdInv, CtrAt, DigAt
<1>4. BackInv
  <2>1. <<>> \in Seq({}) /\ Len(<<>>) = 0
    OBVIOUS
  <2> QED BY <1>1, <2>1 DEF Init, BackInv, BackCtr, BackDig
<1>5. SpokenInv
  BY DEF Init, SpokenInv, Zero
<1>6. KeyInv
  BY Constants DEF Init, KeyInv, AnswerOf
<1>7. AllRecognized
  BY DEF Init, AllRecognized
<1> QED BY <1>2, <1>3, <1>4, <1>5, <1>6, <1>7 DEF IInv

(* The client sends a cell, or is refused it and has changed nothing.      *)
LEMMA EncryptKeeps ==
  ASSUME CoreType, FwdInv, NEW len, NEW skin, Encrypt(len, skin),
         skins' \in Nat, skins <= skins', skin \in 0..skins',
         n' = n, rf' = rf, rd' = rd, cut' = cut
  PROVE  FwdInv'
<1>1. CASE RelayFits(len)
  <2> DEFINE e == [depth |-> n, ctr |-> cf, dig |-> cd, skin |-> skin]
  <2>1. out' = Append(out, e) /\ cf' = Through(cf, n) /\ cd' = At(cd, n)
    BY <1>1 DEF Encrypt
  <2>2. PICK S : out \in Seq(S)
    BY DEF FwdInv
  <2>3. /\ out' \in Seq(S \cup {e}) /\ Len(out) \in Nat /\ Len(out') = Len(out) + 1
        /\ out'[Len(out) + 1] = e /\ \A k \in 1..Len(out) : out'[k] = out[k]
    BY <2>1, <2>2, AppendElements
  <2>4. n \in Nat /\ skins \in Nat
    BY Constants DEF CoreType
  <2>5. cf' \in Counts /\ cd' \in Counts /\ cf \in Counts /\ cd \in Counts
    BY <2>1, <2>4, OneMore DEF FwdInv
  <2>6. \A k \in 1..(Len(out) + 1) : CtrAt(k)' = CtrAt(k) /\ DigAt(k)' = DigAt(k)
    BY <2>3 DEF CtrAt, DigAt
  <2>7. ASSUME NEW k, k = Len(out) + 2
        PROVE  CtrAt(k)' = cf' /\ DigAt(k)' = cd'
    BY <2>3, <2>7 DEF CtrAt, DigAt
  <2>8. CtrAt(Len(out) + 1) = cf /\ DigAt(Len(out) + 1) = cd
    BY <2>3 DEF CtrAt, DigAt
  <2>9. ASSUME NEW k \in 1..Len(out')
        PROVE  /\ out'[k].depth \in 0..n' /\ out'[k].skin \in 0..skins'
               /\ out'[k].ctr \in Counts /\ out'[k].dig \in Counts
               /\ CtrAt(k + 1)' = Through(CtrAt(k)', out'[k].depth)
               /\ DigAt(k + 1)' = At(DigAt(k)', out'[k].depth)
    <3>1. CASE k = Len(out) + 1
      <4>1. out'[k] = e /\ k + 1 = Len(out) + 2
        BY <2>3, <3>1
      <4>2. CtrAt(k)' = cf /\ DigAt(k)' = cd
        BY <2>3, <2>6, <2>8, <3>1
      <4>3. e.depth = n /\ e.skin = skin /\ e.ctr = cf /\ e.dig = cd /\ n \in 0..n
        BY <2>4
      <4> HIDE DEF e
      <4>4. CtrAt(k + 1)' = Through(cf, n) /\ DigAt(k + 1)' = At(cd, n)
        BY <2>1, <2>7, <4>1
      <4> QED BY <2>5, <4>1, <4>2, <4>3, <4>4
    <3>2. CASE k # Len(out) + 1
      <4>1. k \in 1..Len(out) /\ k + 1 \in 1..(Len(out) + 1) /\ k \in 1..(Len(out) + 1)
        BY <2>3, <3>2
      <4>2. out'[k] = out[k] /\ CtrAt(k)' = CtrAt(k) /\ CtrAt(k + 1)' = CtrAt(k + 1)
            /\ DigAt(k)' = DigAt(k) /\ DigAt(k + 1)' = DigAt(k + 1)
        BY <2>3, <2>6, <4>1
      <4> QED BY <2>4, <4>1, <4>2 DEF FwdInv
    <3> QED BY <3>1, <3>2
  <2>10. CtrAt(1)' = CtrAt(1) /\ DigAt(1)' = DigAt(1)
    BY <2>3, <2>6
  <2> QED BY <2>3, <2>5, <2>9, <2>10 DEF FwdInv
<1>2. CASE ~RelayFits(len)
  <2>1. out' = out /\ cf' = cf /\ cd' = cd
    BY <1>2 DEF Encrypt
  <2>2. skins \in Nat
    BY Constants DEF CoreType
  <2> QED BY <2>1, <2>2 DEF FwdInv, CtrAt, DigAt
<1> QED BY <1>1, <1>2

(* A cell reaches its hop, or where the path was cut: its counts are those *)
(* of the relays, so nothing is garbled.                                   *)
LEMMA TakesKeeps ==
  ASSUME CoreType, FwdInv, SpokenInv, KeyInv, out # <<>>, Takes(Head(out)),
         out' = Tail(out), cf' = cf, cd' = cd, n' = n, cut' = cut, skins' = skins
  PROVE  /\ FwdInv' /\ SpokenInv' /\ fault' = fault
         /\ Head(out).depth \in 0..n /\ Head(out).skin \in 0..skins
<1> DEFINE c == Head(out)
<1>1. PICK S : out \in Seq(S)
  BY DEF FwdInv
<1>2. /\ out' \in Seq(S) /\ Len(out) \in Nat \ {0} /\ Len(out') = Len(out) - 1
      /\ c = out[1] /\ \A k \in 1..(Len(out) - 1) : out'[k] = out[k + 1]
  BY <1>1, TailElements
<1>3. 1 \in 1..Len(out)
  BY <1>2
<1>4. /\ c.depth \in 0..n /\ c.skin \in 0..skins /\ c.ctr \in Counts /\ c.dig \in Counts
      /\ CtrAt(2) = Through(c.ctr, c.depth) /\ DigAt(2) = At(c.dig, c.depth)
      /\ CtrAt(1) = c.ctr /\ DigAt(1) = c.dig
  <2>1. CtrAt(1) = c.ctr /\ DigAt(1) = c.dig
    BY <1>2, <1>3 DEF CtrAt, DigAt
  <2>2. 1 + 1 = 2
    OBVIOUS
  <2> QED BY <1>2, <1>3, <2>1, <2>2 DEF FwdInv
<1> HIDE DEF c
<1>5. n \in Nat /\ n <= Hops /\ cut \in 1..Hops /\ Hops \in Nat /\ c.depth \in Nat /\ Layer = 1..Hops
  BY <1>4, Constants DEF CoreType
<1>6. Reached(c) = (IF c.depth <= cut THEN c.depth ELSE cut) /\ Reached(c) \in Nat
  BY <1>5 DEF Reached
<1>7. /\ rf' = Through(rf, Reached(c))
      /\ rd' = IF c.depth <= cut THEN At(rd, c.depth) ELSE rd
      /\ rf \in Counts /\ rd \in Counts
  BY DEF Takes, FwdInv, c
<1>8. \A i \in 1..cut : c.ctr[i] = rf[i] /\ c.dig[i] = rd[i] /\ i \in Layer
  BY <1>4, <1>5 DEF FwdInv
<1>9. rf' \in Counts /\ rd' \in Counts
  BY <1>5, <1>6, <1>7, OneMore
<1>10. ASSUME NEW i \in 1..cut
       PROVE  CtrAt(2)[i] = rf'[i] /\ DigAt(2)[i] = rd'[i]
  <2>1. i \in Layer /\ i \in Nat
    BY <1>8, <1>5
  <2>2. (i <= c.depth) <=> (i <= Reached(c))
    BY <1>5, <1>6, <2>1
  <2>a. /\ Through(c.ctr, c.depth)[i] = IF i <= c.depth THEN c.ctr[i] + 1 ELSE c.ctr[i]
        /\ At(c.dig, c.depth)[i] = IF i = c.depth THEN c.dig[i] + 1 ELSE c.dig[i]
    BY <2>1 DEF Through, At
  <2>b. Through(rf, Reached(c))[i] = IF i <= Reached(c) THEN rf[i] + 1 ELSE rf[i]
    BY <1>6, <1>7, <2>1, OneMore
  <2>c. At(rd, c.depth)[i] = IF i = c.depth THEN rd[i] + 1 ELSE rd[i]
    BY <2>1 DEF At
  <2>3. CtrAt(2)[i] = rf'[i]
    BY <1>4, <1>7, <1>8, <2>2, <2>a, <2>b
  <2>4. CASE c.depth <= cut
    <3>1. rd' = At(rd, c.depth)
      BY <1>7, <2>4
    <3> QED BY <1>4, <1>8, <2>a, <2>c, <3>1, <2>3
  <2>5. CASE ~(c.depth <= cut)
    <3>1. i # c.depth /\ rd' = rd
      BY <1>5, <1>7, <2>1, <2>5
    <3> QED BY <1>4, <1>8, <2>a, <3>1, <2>3
  <2> QED BY <2>4, <2>5
<1>11. \A k \in 1..Len(out) : CtrAt(k)' = CtrAt(k + 1) /\ DigAt(k)' = DigAt(k + 1)
  BY <1>2 DEF CtrAt, DigAt
<1>12. FwdInv'
  <2>1. ASSUME NEW k \in 1..Len(out')
        PROVE  /\ out'[k].depth \in 0..n' /\ out'[k].skin \in 0..skins'
               /\ out'[k].ctr \in Counts /\ out'[k].dig \in Counts
               /\ CtrAt(k + 1)' = Through(CtrAt(k)', out'[k].depth)
               /\ DigAt(k + 1)' = At(DigAt(k)', out'[k].depth)
    <3>1. /\ k + 1 \in 1..Len(out) /\ k \in 1..Len(out) /\ out'[k] = out[k + 1]
      BY <1>2
    <3>2. /\ CtrAt(k)' = CtrAt(k + 1) /\ CtrAt(k + 1)' = CtrAt((k + 1) + 1)
          /\ DigAt(k)' = DigAt(k + 1) /\ DigAt(k + 1)' = DigAt((k + 1) + 1)
      BY <1>11, <3>1
    <3> QED BY <3>1, <3>2 DEF FwdInv
  <2>2. \A i \in 1..cut' : CtrAt(1)'[i] = rf'[i] /\ DigAt(1)'[i] = rd'[i]
    <3>1. CtrAt(1)' = CtrAt(2) /\ DigAt(1)' = DigAt(2)
      BY <1>3, <1>11
    <3> QED BY <1>10, <3>1
  <2>3. cf' \in Counts /\ cd' \in Counts
    BY DEF FwdInv
  <2> QED BY <1>2, <1>9, <2>1, <2>2, <2>3 DEF FwdInv
<1>13. SpokenInv'
  <2>1. ASSUME NEW i \in Layer, rd'[i] # 0 PROVE i <= n
    <3>1. CASE i = c.depth
      BY <1>4, <3>1
    <3>2. CASE i # c.depth
      <4>1. At(rd, c.depth)[i] = rd[i]
        <5>1. At(rd, c.depth)[i] = IF i = c.depth THEN rd[i] + 1 ELSE rd[i]
          BY DEF At
        <5> QED BY <3>2, <5>1
      <4>2. rd'[i] = rd[i]
        BY <1>7, <4>1
      <4> QED BY <2>1, <4>2 DEF SpokenInv
    <3> QED BY <3>1, <3>2
  <2> QED BY <2>1 DEF SpokenInv
<1>14. ASSUME NEW i \in 1..Reached(c)
       PROVE  /\ c.ctr[i] = rf[i] /\ rkey[i] = ckey[i]
              /\ i = c.depth => c.dig[i] = rd[i]
  <2>1. i \in 1..cut /\ i \in 1..n
    BY <1>4, <1>5, <1>6
  <2> QED BY <1>8, <2>1 DEF KeyInv
<1>15. fault' = fault
  BY <1>14 DEF Takes, c
<1> QED BY <1>4, <1>12, <1>13, <1>15 DEF c

(* A relay sends a cell.                                                   *)
LEMMA EmitKeeps ==
  ASSUME CoreType, BackInv, NEW o \in 0..n, NEW cmd, NEW p, NEW answer, Emit(o, cmd, p, answer),
         cb' = cb, ce' = ce, n' = n
  PROVE  /\ BackInv'
         /\ \E S : in \in Seq(S)
         /\ Len(in') = Len(in) + 1 /\ Len(in) \in Nat
         /\ \A k \in 1..Len(in) : in'[k] = in[k]
         /\ in'[Len(in) + 1].origin = o /\ in'[Len(in) + 1].reply = answer
<1> DEFINE e == [origin |-> o, ctr |-> rb, dig |-> re, cmd |-> cmd, p |-> p, reply |-> answer]
<1>1. in' = Append(in, e) /\ rb' = Through(rb, o) /\ re' = At(re, o)
  BY DEF Emit
<1>2. PICK S : in \in Seq(S)
  BY DEF BackInv
<1>3. /\ in' \in Seq(S \cup {e}) /\ Len(in) \in Nat /\ Len(in') = Len(in) + 1
      /\ in'[Len(in) + 1] = e /\ \A k \in 1..Len(in) : in'[k] = in[k]
  BY <1>1, <1>2, AppendElements
<1>4. n \in Nat /\ o \in Nat
  BY Constants DEF CoreType
<1>5. rb' \in Counts /\ re' \in Counts /\ rb \in Counts /\ re \in Counts
  BY <1>1, <1>4, OneMore DEF BackInv
<1>6. \A k \in 1..(Len(in) + 1) : BackCtr(k)' = BackCtr(k) /\ BackDig(k)' = BackDig(k)
  BY <1>3 DEF BackCtr, BackDig
<1>7. ASSUME NEW k, k = Len(in) + 2
      PROVE  BackCtr(k)' = rb' /\ BackDig(k)' = re'
  BY <1>3, <1>7 DEF BackCtr, BackDig
<1>8. BackCtr(Len(in) + 1) = rb /\ BackDig(Len(in) + 1) = re
  BY <1>3 DEF BackCtr, BackDig
<1>9. ASSUME NEW k \in 1..Len(in')
      PROVE  /\ in'[k].origin \in 0..n'
             /\ in'[k].ctr \in Counts /\ in'[k].dig \in Counts
             /\ BackCtr(k + 1)' = Through(BackCtr(k)', in'[k].origin)
             /\ BackDig(k + 1)' = At(BackDig(k)', in'[k].origin)
  <2>1. CASE k = Len(in) + 1
    <3>1. in'[k] = e /\ k + 1 = Len(in) + 2
      BY <1>3, <2>1
    <3>2. BackCtr(k)' = rb /\ BackDig(k)' = re
      BY <1>3, <1>6, <1>8, <2>1
    <3>3. e.origin = o /\ e.ctr = rb /\ e.dig = re
      OBVIOUS
    <3> HIDE DEF e
    <3>4. BackCtr(k + 1)' = Through(rb, o) /\ BackDig(k + 1)' = At(re, o)
      BY <1>1, <1>7, <3>1
    <3> QED BY <1>5, <3>1, <3>2, <3>3, <3>4
  <2>2. CASE k # Len(in) + 1
    <3>1. k \in 1..Len(in) /\ k + 1 \in 1..(Len(in) + 1) /\ k \in 1..(Len(in) + 1)
      BY <1>3, <2>2
    <3>2. in'[k] = in[k] /\ BackCtr(k)' = BackCtr(k) /\ BackCtr(k + 1)' = BackCtr(k + 1)
          /\ BackDig(k)' = BackDig(k) /\ BackDig(k + 1)' = BackDig(k + 1)
      BY <1>3, <1>6, <3>1
    <3> QED BY <3>1, <3>2 DEF BackInv
  <2> QED BY <2>1, <2>2
<1>10. BackCtr(1)' = BackCtr(1) /\ BackDig(1)' = BackDig(1)
  BY <1>3, <1>6
<1>11. BackInv'
  BY <1>3, <1>5, <1>9, <1>10 DEF BackInv
<1> QED BY <1>2, <1>3, <1>11

(* More nodes, and a shorter path, change nothing about what is on its way. *)
LEMMA FwdSame ==
  ASSUME CoreType, FwdInv, UNCHANGED <<out, cf, cd, rf, rd, skins>>,
         n' \in Nat, n <= n', cut' \in Nat, cut' <= cut
  PROVE  FwdInv'
<1>1. \A k : CtrAt(k)' = CtrAt(k) /\ DigAt(k)' = DigAt(k)
  BY DEF CtrAt, DigAt
<1>2. n \in Nat /\ cut \in Nat
  BY Constants DEF CoreType
<1>3. \A k \in 1..Len(out) : out[k].depth \in 0..n'
  BY <1>2 DEF FwdInv
<1>4. \A i \in 1..cut' : i \in 1..cut
  BY <1>2
<1> QED BY <1>1, <1>3, <1>4 DEF FwdInv

LEMMA BackSame ==
  ASSUME CoreType, BackInv, UNCHANGED <<in, cb, ce, rb, re>>, n' \in Nat, n <= n'
  PROVE  BackInv'
<1>1. \A k : BackCtr(k)' = BackCtr(k) /\ BackDig(k)' = BackDig(k)
  BY DEF BackCtr, BackDig
<1>2. n \in Nat
  BY Constants DEF CoreType
<1>3. \A k \in 1..Len(in) : in[k].origin \in 0..n'
  BY <1>2 DEF BackInv
<1> QED BY <1>1, <1>3 DEF BackInv

LEMMA KeySame ==
  ASSUME KeyInv, UNCHANGED <<first, n, ckey, rkey, in, reply>>
  PROVE  KeyInv'
BY DEF KeyInv, AnswerOf, Kind

(* The client reads a cell: the hop that sent it is the one to recognize   *)
(* it, and what the task is given is an answer.                            *)
LEMMA ReadKeeps ==
  ASSUME CoreType, BackInv, KeyInv, ReadCell
  PROVE  /\ BackInv' /\ KeyInv'
         /\ fault' \in {"none", "unread"}
         /\ waiting' \in {waiting, 0}
<1> DEFINE c == Head(in)
<1>1. PICK S : in \in Seq(S)
  BY DEF BackInv
<1>2. /\ in # <<>> /\ in' = Tail(in) /\ fault = "none"
      /\ UNCHANGED <<first, n, ckey, rkey, rb, re>>
  BY DEF ReadCell, relays
<1>3. /\ in' \in Seq(S) /\ Len(in) \in Nat \ {0} /\ Len(in') = Len(in) - 1
      /\ c = in[1] /\ \A k \in 1..(Len(in) - 1) : in'[k] = in[k + 1]
  BY <1>1, <1>2, TailElements
<1>4. 1 \in 1..Len(in) /\ 1 + 1 = 2
  BY <1>3
<1>5. BackCtr(1) = c.ctr /\ BackDig(1) = c.dig
  BY <1>3, <1>4 DEF BackCtr, BackDig
<1>6. /\ c.origin \in 0..n /\ c.ctr = cb /\ c.dig = ce
      /\ BackCtr(2) = Through(cb, c.origin) /\ BackDig(2) = At(ce, c.origin)
      /\ AnswerOf(c.reply, c.origin + 1)
  BY <1>3, <1>4, <1>5 DEF BackInv, KeyInv
<1> HIDE DEF c
<1>7. n \in Nat /\ c.origin \in Nat
  BY <1>6, Constants DEF CoreType
<1>8. /\ cb' = Through(cb, c.origin) /\ ce' = At(ce, c.origin)
      /\ fault' \in {"none", "unread"}
      /\ Answer(c) \/ (waiting' = waiting /\ reply' = reply)
  <2>1. CASE c.origin = 0
    <3>1. Answer(c) /\ cb' = cb /\ ce' = ce /\ fault' = fault
      BY <2>1 DEF ReadCell, c
    <3>2. Through(cb, 0) = cb /\ At(ce, 0) = ce
      BY OneMore DEF BackInv
    <3> QED BY <1>2, <2>1, <3>1, <3>2
  <2>2. CASE c.origin # 0
    <3>1. Recognized(c)
      <4>1. \A i \in 1..c.origin : i \in 1..n
        BY <1>6, <1>7
      <4> QED BY <1>6, <1>7, <4>1 DEF Recognized, KeyInv
    <3>2. /\ Decrypt(c) /\ ce' = (IF Recognized(c) THEN At(ce, c.origin) ELSE ce)
          /\ IF Recognized(c) /\ RelayReads(c.cmd, c.p)
               THEN Answer(c) /\ UNCHANGED fault
               ELSE /\ fault' = IF Recognized(c) THEN "unread" ELSE "unrecognized"
                    /\ UNCHANGED <<waiting, reply>>
      BY <2>2 DEF ReadCell, c
    <3> QED BY <1>2, <3>1, <3>2 DEF Decrypt
  <2> QED BY <2>1, <2>2
<1>9. (waiting' = waiting \/ waiting' = 0) /\ (reply' = reply \/ reply' = c.reply)
  BY <1>8 DEF Answer
<1>10. BackInv'
  <2>1. cb' \in Counts /\ ce' \in Counts
    BY <1>7, <1>8, OneMore DEF BackInv
  <2>2. \A k \in 1..Len(in) : BackCtr(k)' = BackCtr(k + 1) /\ BackDig(k)' = BackDig(k + 1)
    BY <1>2, <1>3 DEF BackCtr, BackDig
  <2>3. ASSUME NEW k \in 1..Len(in')
        PROVE  /\ in'[k].origin \in 0..n'
               /\ in'[k].ctr \in Counts /\ in'[k].dig \in Counts
               /\ BackCtr(k + 1)' = Through(BackCtr(k)', in'[k].origin)
               /\ BackDig(k + 1)' = At(BackDig(k)', in'[k].origin)
    <3>1. k + 1 \in 1..Len(in) /\ k \in 1..Len(in) /\ in'[k] = in[k + 1]
      BY <1>3
    <3>2. /\ BackCtr(k)' = BackCtr(k + 1) /\ BackCtr(k + 1)' = BackCtr((k + 1) + 1)
          /\ BackDig(k)' = BackDig(k + 1) /\ BackDig(k + 1)' = BackDig((k + 1) + 1)
      BY <2>2, <3>1
    <3> QED BY <1>2, <3>1, <3>2 DEF BackInv
  <2>4. BackCtr(1)' = cb' /\ BackDig(1)' = ce'
    BY <1>4, <1>6, <1>8, <2>2
  <2>5. rb' \in Counts /\ re' \in Counts
    BY <1>2 DEF BackInv
  <2> QED BY <1>3, <2>1, <2>3, <2>4, <2>5 DEF BackInv
<1>11. \A r, hop : AnswerOf(r, hop)' <=> AnswerOf(r', hop')
  BY <1>2 DEF AnswerOf, Kind
<1>12. KeyInv'
  <2>1. \A i \in 1..n' : ckey'[i] = rkey'[i] /\ rkey'[i] # NoKey
    BY <1>2 DEF KeyInv
  <2>2. ASSUME NEW k \in 1..Len(in') PROVE AnswerOf(in[k].reply, in[k].origin + 1)'
    <3>1. k + 1 \in 1..Len(in) /\ in'[k] = in[k + 1]
      BY <1>3
    <3>2. AnswerOf(in[k + 1].reply, in[k + 1].origin + 1)
      BY <3>1 DEF KeyInv
    <3> QED BY <1>2, <3>1, <3>2 DEF AnswerOf, Kind
  <2>3. \E hop \in Layer : AnswerOf(reply', hop)
    <3>1. CASE reply' = reply
      BY <3>1 DEF KeyInv
    <3>2. CASE reply' = c.reply
      <4>1. 1 \in Layer
        BY Constants
      <4> QED BY <1>6, <3>2, <4>1 DEF AnswerOf
    <3> QED BY <1>9, <3>1, <3>2
  <2>4. (\E hop \in Layer : AnswerOf(reply, hop))'
    BY <1>2, <2>3 DEF AnswerOf, Kind
  <2> QED BY <2>1, <2>2, <2>4 DEF KeyInv
<1> QED BY <1>8, <1>9, <1>10, <1>12

(* An answer that completes the handshake of the next node with the skin   *)
(* the task waits for was made by that node for that skin.                 *)
LEMMA AuthFits ==
  ASSUME first \in {"fast", "ntor"}, NEW hop \in Layer, NEW to \in Layer, NEW s \in Nat, NEW x \in Nat,
         Auth(Kind(to), x, s, to) = Auth(Kind(hop), s, s, hop)
  PROVE  to = hop /\ x = s
<1> DEFINE tail(kind, a, b, node) == IF kind = "ntor" THEN <<node, b, a>> ELSE <<>>
<1>1. /\ Secret(Kind(to), x, s, to) = Secret(Kind(hop), s, s, hop)
      /\ tail(Kind(to), x, s, to) = tail(Kind(hop), s, s, hop)
  BY DEF Auth
<1>2. \A i \in Layer : Kind(i) = "ntor" \/ (Kind(i) = first /\ i = 1)
  BY DEF Kind
<1>3. CASE Kind(to) = "ntor"
  <2>1. Kind(hop) = "ntor"
    <3>1. <<to, s, x>> # <<>>
      OBVIOUS
    <3> QED BY <1>1, <1>3, <3>1
  <2>2. <<to, s, x>> = <<hop, s, s>>
    BY <1>1, <1>3, <2>1
  <2> QED BY <2>2
<1>4. CASE Kind(to) # "ntor"
  <2>1. Kind(hop) # "ntor"
    <3>1. <<hop, s, s>> # <<>>
      OBVIOUS
    <3> QED BY <1>1, <1>4, <3>1
  <2>2. to = 1 /\ hop = 1 /\ Kind(to) = "fast" /\ Kind(hop) = "fast"
    BY <1>2, <1>4, <2>1
  <2>3. <<x, s>> = <<s, s>>
    BY <1>1, <2>2 DEF Secret, FastSecret
  <2> QED BY <2>2, <2>3
<1> QED BY <1>3, <1>4

LEMMA CompleteKeeps ==
  ASSUME CoreType, KeyInv, Complete
  PROVE  CoreType' /\ KeyInv'
<1>1. /\ waiting # 0 /\ reply # NoReply /\ waiting' = 0 /\ reply' = NoReply
      /\ UNCHANGED <<first, rkey, in, skins, cut, fault>>
  BY DEF Complete
<1>2. /\ n \in Nat /\ n < Longest /\ n + 1 \in Layer /\ n + 1 \in 0..Longest /\ waiting \in 1..MaxSkins
      /\ Longest' = Longest /\ 1 \in Layer /\ 0 \in 0..skins
  BY <1>1, Constants DEF CoreType, Longest
<1>3. \A k : Kind(k)' = Kind(k)
  BY <1>1 DEF Kind
<1>4. \A k \in 1..Len(in') : AnswerOf(in[k].reply, in[k].origin + 1)'
  BY <1>1, <1>3 DEF KeyInv, AnswerOf
<1>5. (\E hop \in Layer : AnswerOf(reply, hop))'
  BY <1>1, <1>2 DEF AnswerOf
<1>6. CASE Completes(Kind(n + 1), waiting, n + 1, reply)
  <2>1. n' = n + 1 /\ ckey' = [ckey EXCEPT ![n + 1] = [x |-> waiting, y |-> reply.y]]
    BY <1>6 DEF Complete
  <2>2. PICK hop \in Layer :
          /\ reply.y \in 1..MaxSkins /\ rkey[hop] = [x |-> reply.y, y |-> reply.y]
          /\ reply.auth = Auth(Kind(hop), reply.y, reply.y, hop)
    BY <1>1 DEF KeyInv, AnswerOf
  <2>3. Auth(Kind(n + 1), waiting, reply.y, n + 1) = Auth(Kind(hop), reply.y, reply.y, hop)
    BY <1>6, <2>2 DEF Completes
  <2>4. waiting \in Nat /\ reply.y \in Nat /\ first \in {"fast", "ntor"}
    BY <1>2, <2>2, Constants DEF CoreType
  <2>5. n + 1 = hop /\ waiting = reply.y
    BY <1>2, <2>3, <2>4, AuthFits
  <2>6. [x |-> waiting, y |-> reply.y] = rkey[n + 1] /\ rkey[n + 1] \in Keys /\ rkey[n + 1].x # 0
    BY <1>2, <2>2, <2>5 DEF CoreType
  <2>7. ckey' = [ckey EXCEPT ![n + 1] = rkey[n + 1]]
    BY <2>1, <2>6
  <2>8. CoreType'
    BY <1>1, <1>2, <2>1, <2>6, <2>7 DEF CoreType
  <2>9. ASSUME NEW i \in 1..n' PROVE ckey'[i] = rkey'[i] /\ rkey'[i] # NoKey
    <3>1. CASE i = n + 1
      BY <1>1, <1>2, <2>6, <2>7, <3>1 DEF CoreType, NoKey
    <3>2. CASE i # n + 1
      <4>1. i \in 1..n
        BY <1>2, <2>1, <3>2
      <4>2. ckey'[i] = ckey[i]
        BY <2>7, <3>2, <1>2, <4>1, Constants DEF CoreType
      <4> QED BY <1>1, <4>1, <4>2 DEF KeyInv
    <3> QED BY <3>1, <3>2
  <2> QED BY <1>4, <1>5, <2>8, <2>9 DEF KeyInv
<1>7. CASE ~Completes(Kind(n + 1), waiting, n + 1, reply)
  <2>1. n' = n /\ ckey' = ckey
    BY <1>7 DEF Complete
  <2>2. CoreType'
    BY <1>1, <1>2, <2>1 DEF CoreType
  <2>3. \A i \in 1..n' : ckey'[i] = rkey'[i] /\ rkey'[i] # NoKey
    BY <1>1, <2>1 DEF KeyInv
  <2> QED BY <1>4, <1>5, <2>2, <2>3 DEF KeyInv
<1> QED BY <1>6, <1>7

(* A relay sends a cell that answers for the node after it, or nobody.     *)
LEMMA KeyEmit ==
  ASSUME CoreType, BackInv, KeyInv, NEW o \in 0..n, NEW cmd, NEW p, NEW answer,
         Emit(o, cmd, p, answer), cb' = cb, ce' = ce,
         UNCHANGED <<first, n, ckey, reply>>,
         AnswerOf(answer, o + 1)',
         \A hop \in Layer : rkey[hop] # NoKey => rkey'[hop] = rkey[hop]
  PROVE  BackInv' /\ KeyInv'
<1>1. /\ BackInv'
      /\ Len(in') = Len(in) + 1 /\ Len(in) \in Nat
      /\ \A k \in 1..Len(in) : in'[k] = in[k]
      /\ in'[Len(in) + 1].origin = o /\ in'[Len(in) + 1].reply = answer
  BY EmitKeeps
<1>2. ASSUME NEW r, NEW hop, AnswerOf(r, hop)
      PROVE  \/ r = NoReply
             \/ /\ hop \in Layer /\ r.y \in 1..MaxSkins
                /\ rkey'[hop] = [x |-> r.y, y |-> r.y]
                /\ r.auth = Auth(Kind(hop)', r.y, r.y, hop)
  <2>1. CASE r # NoReply
    <3>1. rkey[hop].x # 0
      BY <1>2, <2>1 DEF AnswerOf
    <3>2. rkey[hop] # NoKey
      BY <3>1 DEF NoKey
    <3> QED BY <1>2, <2>1, <3>2 DEF AnswerOf, Kind
  <2> QED BY <2>1
<1>3. ASSUME NEW k \in 1..Len(in') PROVE AnswerOf(in[k].reply, in[k].origin + 1)'
  <2>1. CASE k = Len(in) + 1
    BY <1>1, <2>1 DEF AnswerOf
  <2>2. CASE k # Len(in) + 1
    <3>1. k \in 1..Len(in) /\ in'[k] = in[k]
      BY <1>1, <2>2
    <3>2. AnswerOf(in[k].reply, in[k].origin + 1)
      BY <3>1 DEF KeyInv
    <3> QED BY <1>2, <3>1, <3>2 DEF AnswerOf
  <2> QED BY <2>1, <2>2
<1>4. (\E hop \in Layer : AnswerOf(reply, hop))'
  <2>1. PICK hop \in Layer : AnswerOf(reply, hop)
    BY DEF KeyInv
  <2> QED BY <1>2, <2>1 DEF AnswerOf
<1>5. \A i \in 1..n' : ckey'[i] = rkey'[i] /\ rkey'[i] # NoKey
  <2>1. \A i \in 1..n : i \in Layer
    BY Constants DEF CoreType
  <2> QED BY <2>1 DEF KeyInv
<1> QED BY <1>1, <1>3, <1>4, <1>5 DEF KeyInv

LEMMA Step == IInv /\ [Next]_vars => IInv'
<1> SUFFICES ASSUME IInv, [Next]_vars PROVE IInv'
  OBVIOUS
<1>1. CoreType /\ FwdInv /\ BackInv /\ SpokenInv /\ KeyInv /\ AllRecognized
  BY DEF IInv
<1>2. /\ n \in Nat /\ skins \in Nat /\ waiting \in Nat /\ cut \in Nat /\ cut \in 1..Hops /\ Hops \in Nat
      /\ Longest \in Nat /\ n <= Hops
  BY <1>1, Constants DEF CoreType
<1> USE <1>1
<1>3. CASE SendSkin
  <2>1. /\ UNCHANGED <<first, n, ckey, rkey, rf, rd, rb, re, cb, ce, in, reply, cut, fault>>
        /\ n < Longest /\ skins < MaxSkins /\ skins' = skins + 1 /\ waiting' = skins + 1
        /\ Encrypt(IF n = 0 THEN CreateLen ELSE Extend2Len(Skin), skins + 1)
    BY <1>3 DEF SendSkin, relays
  <2>2. skins' \in Nat /\ skins <= skins' /\ skins + 1 \in 0..skins'
    BY <1>2, <2>1
  <2>3. FwdInv'
    BY <2>1, <2>2, EncryptKeeps
  <2>4. BackInv'
    BY <1>2, <2>1, BackSame
  <2>5. KeyInv'
    BY <2>1, KeySame
  <2>6. CoreType'
    BY <1>2, <2>1, Constants DEF CoreType, Longest
  <2> QED BY <2>1, <2>3, <2>4, <2>5, <2>6 DEF IInv, SpokenInv, AllRecognized
<1>4. ASSUME NEW len \in Lengths, SendRelay(len) PROVE IInv'
  <2>1. /\ UNCHANGED <<first, n, ckey, rkey, rf, rd, rb, re, cb, ce, in, skins, waiting, reply, cut, fault>>
        /\ Encrypt(len, 0)
    BY <1>4 DEF SendRelay, relays, task
  <2>2. skins' \in Nat /\ skins <= skins' /\ 0 \in 0..skins'
    BY <1>2, <2>1
  <2>3. FwdInv'
    BY <2>1, <2>2, EncryptKeeps
  <2>4. BackInv'
    BY <1>2, <2>1, BackSame
  <2>5. KeyInv'
    BY <2>1, KeySame
  <2> QED BY <2>1, <2>3, <2>4, <2>5 DEF IInv, SpokenInv, AllRecognized, CoreType, Longest
<1>5. CASE Complete
  <2>1. /\ UNCHANGED <<cf, cd, cb, ce, rf, rd, rb, re, out, in, skins, cut, fault>>
        /\ n' = n \/ n' = n + 1
    BY <1>5 DEF Complete, client, relays
  <2>2. n' \in Nat /\ n <= n' /\ cut' \in Nat /\ cut' <= cut
    BY <1>2, <2>1
  <2>3. FwdInv' /\ BackInv'
    BY <2>1, <2>2, FwdSame, BackSame
  <2>4. CoreType' /\ KeyInv'
    BY <1>5, CompleteKeeps
  <2>5. SpokenInv'
    BY <1>2, <2>1, <2>2, Constants DEF SpokenInv
  <2> QED BY <2>1, <2>3, <2>4, <2>5 DEF IInv, AllRecognized
<1>6. CASE GiveUp
  <2>1. /\ UNCHANGED <<first, n, ckey, rkey, cf, cd, cb, ce, rf, rd, rb, re, out, in, skins, reply, cut, fault>>
        /\ waiting' = 0
    BY <1>6 DEF GiveUp, client, relays
  <2>2. n' \in Nat /\ n <= n' /\ cut' \in Nat /\ cut' <= cut
    BY <1>2, <2>1
  <2>3. FwdInv' /\ BackInv' /\ KeyInv'
    BY <2>1, <2>2, FwdSame, BackSame, KeySame
  <2>4. CoreType'
    BY <1>2, <2>1 DEF CoreType, Longest
  <2> QED BY <2>1, <2>3, <2>4 DEF IInv, SpokenInv, AllRecognized
<1>7. CASE ReadCell
  <2>1. UNCHANGED <<first, n, ckey, rkey, cf, cd, rf, rd, out, skins, cut>>
    BY <1>7 DEF ReadCell, relays
  <2>2. BackInv' /\ KeyInv' /\ fault' \in {"none", "unread"} /\ waiting' \in {waiting, 0}
    BY <1>7, ReadKeeps
  <2>3. n' \in Nat /\ n <= n' /\ cut' \in Nat /\ cut' <= cut
    BY <1>2, <2>1
  <2>4. FwdInv'
    BY <2>1, <2>3, FwdSame
  <2>5. CoreType'
    BY <1>2, <2>1, <2>2 DEF CoreType, Longest
  <2> QED BY <2>1, <2>2, <2>4, <2>5 DEF IInv, SpokenInv, AllRecognized
<1>8. CASE RelayExtends
  <2> DEFINE c == Head(out)
             hop == c.depth + 1
  <2>1. /\ out # <<>> /\ out' = Tail(out) /\ Takes(c)
        /\ c.skin # 0 /\ hop <= cut /\ rkey[hop] = NoKey
        /\ rkey' = [rkey EXCEPT ![hop] = [x |-> c.skin, y |-> c.skin]]
        /\ UNCHANGED <<first, n, ckey, cf, cd, cb, ce, skins, waiting, reply, cut>>
    BY <1>8 DEF RelayExtends, client, task
  <2>2. /\ FwdInv' /\ SpokenInv' /\ fault' = fault /\ c.depth \in 0..n /\ c.skin \in 0..skins
    BY <2>1, TakesKeeps
  <2>3. hop \in Layer /\ c.skin \in 1..MaxSkins
    BY <1>2, <2>1, <2>2, Constants DEF CoreType
  <2>4. PICK len \in {ReplyLen(Kind(hop)), 1} :
             Emit(c.depth, Expected(c.depth), [len |-> 2 + len, byte |-> 0, size |-> len],
                  [len |-> len, y |-> c.skin, auth |-> Auth(Kind(hop), c.skin, c.skin, hop)])
    BY <1>8 DEF RelayExtends
  <2> HIDE DEF c
  <2> DEFINE answer == [len |-> len, y |-> c.skin, auth |-> Auth(Kind(hop), c.skin, c.skin, hop)]
  <2>5. /\ answer.y = c.skin /\ answer.auth = Auth(Kind(hop), c.skin, c.skin, hop)
        /\ rkey'[hop] = [x |-> c.skin, y |-> c.skin]
    BY <2>1, <2>3 DEF CoreType
  <2>6. Emit(c.depth, Expected(c.depth), [len |-> 2 + len, byte |-> 0, size |-> len], answer)
    BY <2>4
  <2> HIDE DEF answer
  <2>7. \A h \in Layer : rkey[h] # NoKey => rkey'[h] = rkey[h]
    BY <2>1 DEF CoreType
  <2>8. BackInv' /\ KeyInv'
    <3>1. PICK q \in 0..n : q = c.depth
      BY <2>2
    <3>2. PICK a : a = answer
      OBVIOUS
    <3>3. Emit(q, Expected(q), [len |-> 2 + len, byte |-> 0, size |-> len], a)
      BY <2>6, <3>1, <3>2
    <3>4. Kind(q + 1)' = Kind(q + 1)
      BY <2>1 DEF Kind
    <3>5. /\ q + 1 \in Layer /\ a.y \in 1..MaxSkins
          /\ rkey'[q + 1] = [x |-> a.y, y |-> a.y]
          /\ a.auth = Auth(Kind(q + 1), a.y, a.y, q + 1)
      BY <2>3, <2>5, <3>1, <3>2
    <3>6. AnswerOf(a, q + 1)'
      BY <3>4, <3>5 DEF AnswerOf
    <3> QED BY <2>1, <2>7, <3>3, <3>6, KeyEmit
  <2>9. CoreType'
    <3>1. [x |-> c.skin, y |-> c.skin] \in Keys
      BY <1>2, <2>3, Constants DEF Keys
    <3> QED BY <2>1, <2>2, <2>3, <3>1 DEF CoreType, Longest
  <2> QED BY <2>2, <2>8, <2>9 DEF IInv, AllRecognized
<1>9. CASE RelayTakes
  <2>1. /\ out # <<>> /\ out' = Tail(out) /\ Takes(Head(out))
        /\ UNCHANGED <<first, n, ckey, rkey, cf, cd, cb, ce, rb, re, in, skins, waiting, reply, cut>>
    BY <1>9 DEF RelayTakes, client, task
  <2>2. FwdInv' /\ SpokenInv' /\ fault' = fault
    BY <2>1, TakesKeeps
  <2>3. BackInv' /\ KeyInv'
    BY <1>2, <2>1, BackSame, KeySame
  <2> QED BY <2>1, <2>2, <2>3 DEF IInv, AllRecognized, CoreType, Longest
<1>10. ASSUME NEW i \in Layer, NEW r, RelaySends(i, r) PROVE IInv'
  <2>1. /\ rd[i] > 0 /\ Emit(i, r.cmd, r.p, NoReply)
        /\ UNCHANGED <<first, n, ckey, rkey, cf, cd, cb, ce, rf, rd, out, skins, waiting, reply, cut, fault>>
    BY <1>10 DEF RelaySends, client, task
  <2>2. i \in 0..n
    BY <1>2, <2>1, Constants DEF SpokenInv
  <2>3. BackInv' /\ KeyInv'
    BY <2>1, <2>2, KeyEmit DEF AnswerOf
  <2>4. n' \in Nat /\ n <= n' /\ cut' \in Nat /\ cut' <= cut
    BY <1>2, <2>1
  <2>5. FwdInv'
    BY <2>1, <2>4, FwdSame
  <2> QED BY <2>1, <2>3, <2>5 DEF IInv, SpokenInv, AllRecognized, CoreType, Longest
<1>11. ASSUME NEW i \in Layer, RelayTruncates(i) PROVE IInv'
  <2>1. /\ rd[i] > 0 /\ i < cut /\ cut' = i
        /\ Emit(i, 9, [len |-> 1, byte |-> 8, size |-> 0], NoReply)
        /\ UNCHANGED <<first, n, ckey, rkey, cf, cd, cb, ce, rf, rd, out, skins, waiting, reply, fault>>
    BY <1>11 DEF RelayTruncates, client, task
  <2>2. i \in 0..n /\ i \in Nat
    BY <1>2, <2>1, Constants DEF SpokenInv
  <2>3. BackInv' /\ KeyInv'
    BY <2>1, <2>2, KeyEmit DEF AnswerOf
  <2>4. n' \in Nat /\ n <= n' /\ cut' \in Nat /\ cut' <= cut
    BY <1>2, <2>1, <2>2
  <2>5. FwdInv'
    BY <2>1, <2>4, FwdSame
  <2> QED BY <2>1, <2>3, <2>5 DEF IInv, SpokenInv, AllRecognized, CoreType, Longest
<1>12. CASE UNCHANGED vars
  <2>1. /\ UNCHANGED <<first, n, ckey, rkey, cf, cd, cb, ce, rf, rd, rb, re, out, in>>
        /\ UNCHANGED <<skins, waiting, reply, cut, fault>>
    BY <1>12 DEF vars, client, relays, task
  <2>2. n' \in Nat /\ n <= n' /\ cut' \in Nat /\ cut' <= cut
    BY <1>2, <2>1
  <2>3. FwdInv' /\ BackInv' /\ KeyInv'
    BY <2>1, <2>2, FwdSame, BackSame, KeySame
  <2> QED BY <2>1, <2>3 DEF IInv, SpokenInv, AllRecognized, CoreType, Longest
<1> QED
  BY <1>3, <1>4, <1>5, <1>6, <1>7, <1>8, <1>9, <1>10, <1>11, <1>12, Zenon DEF Next

LEMMA Inductive == Spec => []IInv
BY InitIInv, Step, PTL DEF Spec

(* Type correctness.                                                       *)
THEOREM TypeCorrect == Spec => []TypeOK
BY Inductive, IInvIsTyped, PTL

(* The client and the relay of every node hold the same keys, also when an *)
(* answer to a skin that had been given up came first (keyagreement.py     *)
(* 128-140, 236-299).                                                      *)
THEOREM SameKeys == Spec => []KeysAgree
<1>1. IInv => KeysAgree
  BY DEF IInv, KeyInv, KeysAgree
<1> QED BY <1>1, Inductive, PTL

(* The two ends of every layer have been fed the same cells once nothing   *)
(* is on its way (crypto_state.py 55-104).                                 *)
THEOREM LayersInStep == Spec => []InStep
<1>1. IInv => InStep
  <2> SUFFICES ASSUME IInv
               PROVE  /\ out = <<>> => \A i \in 1..cut : cf[i] = rf[i] /\ cd[i] = rd[i]
                      /\ in = <<>> => cb = rb /\ ce = re
    BY DEF InStep
  <2>1. Len(<<>>) = 0
    OBVIOUS
  <2> QED BY <2>1 DEF IInv, FwdInv, BackInv, CtrAt, DigAt, BackCtr, BackDig
<1> QED BY <1>1, Inductive, PTL

(* Every relay cell is recognized, by the hop it is for and by the node    *)
(* that sent it (circuit.py 286-301).                                      *)
THEOREM EveryCellRecognized == Spec => []AllRecognized
BY Inductive, PTL DEF IInv

-----------------------------------------------------------------------------
(* The formats of cells.  What is said of them holds of the definitions,   *)
(* for every length there can be.                                          *)

(* Rounding up: as many pieces as TorStream.send cuts hold the text, and   *)
(* one piece less does not.                                                *)
LEMMA Pieces ==
  ASSUME NEW octets \in Nat \ {0}
  PROVE  /\ (octets + (RelayMax - 1)) \div RelayMax \in Nat \ {0}
         /\ ((octets + (RelayMax - 1)) \div RelayMax - 1) * RelayMax < octets
         /\ octets <= ((octets + (RelayMax - 1)) \div RelayMax) * RelayMax
BY SMT DEF RelayMax

(* The octets of the last piece, when it is not full.                      *)
LEMMA ModPieces ==
  ASSUME NEW octets \in Nat \ {0}, NEW m \in Nat, m * RelayMax < octets, octets < (m + 1) * RelayMax
  PROVE  octets % RelayMax = octets - m * RelayMax
BY SMT DEF RelayMax

(* A text of any length that a stream is given goes out in chunks that are *)
(* not empty, that fit a relay cell each, and that add up to the text: all *)
(* but the last are full (stream.py 129-137).                              *)
THEOREM ChunksAddUp ==
  ASSUME NEW octets \in Nat \ {0}
  PROVE  LET c == Chunks(octets) IN
         /\ Len(c) \in Nat \ {0}
         /\ \A k \in 1..Len(c) : c[k] > 0 /\ RelayFits(c[k])
         /\ \A k \in 1..Len(c) : k < Len(c) => c[k] = RelayMax
         /\ (Len(c) - 1) * RelayMax + c[Len(c)] = octets
<1> DEFINE m == (octets + (RelayMax - 1)) \div RelayMax
           c == Chunks(octets)
<1>1. m \in Nat \ {0} /\ (m - 1) * RelayMax < octets /\ octets <= m * RelayMax
  BY Pieces
<1>2. c = [i \in 1..m |-> IF i * RelayMax <= octets THEN RelayMax ELSE octets % RelayMax]
  BY DEF Chunks
<1> HIDE DEF m, c
<1>3. Len(c) = m
  <2>1. c = [i \in 1..m |-> c[i]]
    BY <1>2
  <2> QED BY <1>1, <2>1
<1>4. \A k \in 1..m : c[k] = IF k * RelayMax <= octets THEN RelayMax ELSE octets % RelayMax
  BY <1>2
<1>5. \A k \in 1..m : k < m => c[k] = RelayMax
  <2> TAKE k \in 1..m
  <2> HAVE k < m
  <2>1. k * RelayMax <= (m - 1) * RelayMax
    BY <1>1 DEF RelayMax
  <2> QED BY <2>1, <1>1, <1>4 DEF RelayMax
<1>6. c[m] = octets - (m - 1) * RelayMax
  <2>1. CASE octets = m * RelayMax
    BY <2>1, <1>1, <1>4 DEF RelayMax
  <2>2. CASE octets < m * RelayMax
    <3>1. m - 1 \in Nat /\ (m - 1) + 1 = m
      BY <1>1
    <3>2. octets % RelayMax = octets - (m - 1) * RelayMax
      BY <3>1, <2>2, <1>1, ModPieces
    <3>3. ~(m * RelayMax <= octets) /\ m \in 1..m
      BY <2>2, <1>1 DEF RelayMax
    <3> QED BY <3>2, <3>3, <1>4
  <2> QED BY <1>1, <2>1, <2>2 DEF RelayMax
<1>7. \A k \in 1..m : c[k] > 0 /\ RelayFits(c[k])
  <2> TAKE k \in 1..m
  <2>1. CASE k < m
    BY <2>1, <1>5 DEF RelayMax, RelayFits
  <2>2. CASE k = m
    BY <2>2, <1>6, <1>1 DEF RelayMax, RelayFits
  <2> QED BY <2>1, <2>2, <1>1
<1>8. (m - 1) * RelayMax + c[m] = octets
  BY <1>6, <1>1 DEF RelayMax
<1> QED BY <1>1, <1>3, <1>5, <1>7, <1>8 DEF c

(* Base64 of any length gets at least the padding it needs.                *)
LEMMA PaddingIsEnough ==
  ASSUME NEW k \in Nat, k % 4 # 1
  PROVE  Added(k) >= Needed(k)
<1>1. k % 4 \in 0..3
  BY SMT
<1> QED BY <1>1, SMT DEF Added, Needed

(* The handshakes, and the cells that carry an address, fit their cell,    *)
(* and each way of making keys makes enough of them.                       *)
LEMMA HandshakesFit ==
  /\ HandshakeLen("ntor") = Skin /\ RelayFits(Extend2Len(Skin))
  /\ RelayFits(EstablishLen)
  /\ \A host \in 1..255 : RelayFits(BeginLen(host + 6))
  /\ \A len \in {Create2Len(Skin), HandshakeLen("fast"), NetInfoLen} : len <= PayloadMax
  /\ \A kind \in Kinds : KdfLen(kind) >= StateLen
<1>1. HandshakeLen("ntor") = 84 /\ HandshakeLen("fast") = 20
  BY DEF HandshakeLen
<1>2. \A kind \in Kinds : KdfLen(kind) >= StateLen
  BY DEF Kinds, KdfLen, StateLen
<1>3. RelayFits(Extend2Len(Skin)) /\ RelayFits(EstablishLen)
  BY DEF RelayFits, Extend2Len, Skin, EstablishLen, Identities, RelayMax
<1>4. \A host \in 1..255 : RelayFits(BeginLen(host + 6))
  BY DEF RelayFits, BeginLen, RelayMax
<1>5. Create2Len(Skin) <= PayloadMax /\ 20 <= PayloadMax /\ NetInfoLen <= PayloadMax
  BY DEF Create2Len, Skin, NetInfoLen, PayloadMax
<1> QED BY <1>1, <1>2, <1>3, <1>4, <1>5 DEF Skin

(* An introduction fits with a cookie and without, for the onion keys      *)
(* there are.                                                              *)
LEMMA IntroductionsFit ==
  \A auth \in {0, 16}, key \in {128, 140} : RelayFits(Introduce1Len(auth, key))
<1> SUFFICES ASSUME NEW auth \in {0, 16}, NEW key \in {128, 140}
             PROVE  RelayFits(Introduce1Len(auth, key))
  OBVIOUS
<1>1. IntroduceLen(auth, key) \in 309..340
  BY DEF IntroduceLen, Identities
<1> QED BY <1>1 DEF RelayFits, Introduce1Len, HybridLen, RelayMax, Identities

(* The relay cells the client writes are read back.                        *)
LEMMA RelayFormatsRead ==
  /\ \A r \in StreamReasons : RelayReads(3, [len |-> EndLen(r), byte |-> r, size |-> 0])
  /\ \A a \in BOOLEAN : RelayReads(4, [len |-> ConnectedLen(a), byte |-> 1, size |-> 0])
  /\ \A d \in {0, 20} : RelayReads(5, [len |-> SendMeLen(d), byte |-> 1, size |-> d])
<1>1. ASSUME NEW r \in StreamReasons
      PROVE  RelayReads(3, [len |-> EndLen(r), byte |-> r, size |-> 0])
  BY DEF RelayReads, RelayCommands, EndReads, EndLen, StreamReasons, ExitPolicy
<1>2. ASSUME NEW a \in BOOLEAN
      PROVE  RelayReads(4, [len |-> ConnectedLen(a), byte |-> 1, size |-> 0])
  BY DEF RelayReads, RelayCommands, ConnectedReads, ConnectedLen
<1>3. ASSUME NEW d \in {0, 20}
      PROVE  RelayReads(5, [len |-> SendMeLen(d), byte |-> 1, size |-> d])
  BY DEF RelayReads, RelayCommands, SendMeReads, SendMeLen
<1> QED BY <1>1, <1>2, <1>3

(* The cells of a link the client writes are read back.                    *)
LEMMA LinkFormatsRead ==
  /\ LinkReads(8, [len |-> NetInfoLen, byte |-> 0, size |-> 4])
  /\ LinkReads(7, [len |-> 2 * 2, byte |-> 0, size |-> 0])
  /\ \A r \in CircuitReasons : LinkReads(4, [len |-> 1, byte |-> r, size |-> 0])
<1>1. LinkReads(8, [len |-> NetInfoLen, byte |-> 0, size |-> 4])
  BY DEF LinkReads, LinkCommands, NetInfoReads
<1>2. LinkReads(7, [len |-> 2 * 2, byte |-> 0, size |-> 0])
  BY DEF LinkReads, LinkCommands, VersionsReads
<1>3. ASSUME NEW r \in CircuitReasons
      PROVE  LinkReads(4, [len |-> 1, byte |-> r, size |-> 0])
  BY DEF LinkReads, LinkCommands, DestroyReads, CircuitReasons
<1> QED BY <1>1, <1>2, <1>3

LEMMA Formats == ClientCellsFit
<1>1. ASSUME NEW full \in 0..2, NEW more \in {1, RelayMax - 1, RelayMax}
      PROVE  LET text == full * RelayMax + more
                 c    == Chunks(text)
             IN
               /\ \A k \in 1..Len(c) : c[k] > 0 /\ RelayFits(c[k])
               /\ (Len(c) - 1) * RelayMax + c[Len(c)] = text
  <2>1. full * RelayMax + more \in Nat \ {0}
    BY DEF RelayMax
  <2> QED BY <2>1, ChunksAddUp
<1>2. \A k \in 0..44 : k % 4 # 1 => Added(k) >= Needed(k)
  <2>1. \A k \in 0..44 : k \in Nat
    OBVIOUS
  <2> QED BY <2>1, PaddingIsEnough
<1> QED BY <1>1, <1>2, HandshakesFit, IntroductionsFit, RelayFormatsRead, LinkFormatsRead
        DEF ClientCellsFit

(* Every cell the client builds fits and is read back (cells.py 250-270,   *)
(* 556-575, 603-619, 636-653, stream.py 134-137).                          *)
THEOREM CellsFit == Spec => []ClientCellsFit
BY Formats, PTL

=============================================================================
