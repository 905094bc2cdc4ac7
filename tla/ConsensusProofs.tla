-------------------------- MODULE ConsensusProofs ---------------------------
(***************************************************************************)
(* Proofs about Consensus for any consensuses, tasks, authorities and      *)
(* bounds.  First what the reader of Documents makes of the texts that     *)
(* Consensus builds, by induction over their lines; then the invariants of *)
(* the actions.                                                            *)
(***************************************************************************)
EXTENDS Consensus, FiniteSetTheorems, TLAPS

(* Induction, stated about a set: what the library says of finite subsets  *)
(* makes the natural numbers well founded.                                 *)
LEMMA SetInduction ==
  ASSUME NEW T, 0 \in T, \A n \in Nat : n \in T => n + 1 \in T
  PROVE  Nat \subseteq T
<1> DEFINE Out  == {n \in Nat : n \notin T}
           Upto0 == {1..n : n \in Out}
<1> SUFFICES ASSUME NEW b \in Out PROVE FALSE
  OBVIOUS
<1>1. Upto0 \subseteq FiniteSubsetsOf(Nat) /\ Upto0 # {}
  <2>1. ASSUME NEW n \in Nat PROVE 1..n \in FiniteSubsetsOf(Nat)
    BY FS_Interval DEF FiniteSubsetsOf
  <2> QED BY <2>1
<1>2. PICK m \in Out : \A n \in Out : ~ (<<1..n, 1..m>> \in StrictSubsetOrdering(Nat))
  <2> HIDE DEF Upto0
  <2>1. PICK c \in Upto0 : \A d \in Upto0 : ~ (<<d, c>> \in StrictSubsetOrdering(Nat))
    BY <1>1, FS_StrictSubsetOrderingWellFounded, WFMin
  <2> QED BY <2>1 DEF Upto0
<1>3. m # 0 /\ m - 1 \in Nat
  OBVIOUS
<1>4. <<1..(m - 1), 1..m>> \in StrictSubsetOrdering(Nat)
  <2>1. 1..(m - 1) \subseteq 1..m /\ 1..(m - 1) # 1..m
    <3>1. m \in 1..m /\ m \notin 1..(m - 1)
      BY <1>3
    <3> QED BY <1>3, <3>1
  <2>2. 1..(m - 1) \in SUBSET Nat /\ 1..m \in SUBSET Nat
    BY <1>3
  <2> QED BY <2>1, <2>2 DEF StrictSubsetOrdering
<1>5. m - 1 \in T
  BY <1>2, <1>3, <1>4
<1> QED BY <1>3, <1>5

(* Induction up to a bound.                                                *)
LEMMA Upward ==
  ASSUME NEW N \in Nat, NEW T, 0 \in T, \A n \in 0..(N - 1) : n \in T => n + 1 \in T
  PROVE  0..N \subseteq T
<1> DEFINE U == {n \in Nat : n <= N => n \in T}
<1>1. 0 \in U /\ \A n \in Nat : n \in U => n + 1 \in U
  OBVIOUS
<1>2. Nat \subseteq U
  <2> HIDE DEF U
  <2> QED BY <1>1, SetInduction
<1> QED BY <1>2

-----------------------------------------------------------------------------
(* What reading a text does, line by line: the recursive definitions of    *)
(* Documents and of the sequence library exist.                            *)

IsReading(r, class, p, text) ==
  r = [n \in 0..Len(text) |-> IF n = 0 THEN p ELSE ReadLine(class, r[n - 1], text[n])]

(* Reading lines is a run of states, one after each line.                  *)
LEMMA Reading ==
  ASSUME NEW class, NEW p, NEW S, NEW text \in Seq(S)
  PROVE  \E r : IsReading(r, class, p, text) /\ ReadLines(class, p, text) = r[Len(text)]
<1> DEFINE To(g, m) == g = [n \in 0..m |-> IF n = 0 THEN p ELSE ReadLine(class, g[n - 1], text[n])]
           Good == {m \in Nat : m <= Len(text) => \E g : To(g, m)}
<1>1. 0 \in Good
  <2> DEFINE g == [n \in 0..0 |-> p]
  <2>1. To(g, 0)
    OBVIOUS
  <2> HIDE DEF g
  <2> QED BY <2>1
<1>2. ASSUME NEW m \in Nat, m \in Good PROVE m + 1 \in Good
  <2> SUFFICES ASSUME m + 1 <= Len(text) PROVE \E g : To(g, m + 1)
    OBVIOUS
  <2>1. PICK g : To(g, m)
    BY <1>2
  <2> DEFINE h == [n \in 0..(m + 1) |->
                     IF n = m + 1 THEN ReadLine(class, g[m], text[m + 1]) ELSE g[n]]
  <2>2. ASSUME NEW n \in 0..(m + 1)
        PROVE  h[n] = IF n = 0 THEN p ELSE ReadLine(class, h[n - 1], text[n])
    <3>1. CASE n = m + 1
      BY <3>1
    <3>2. CASE n \in 0..m
      BY <2>1, <3>2
    <3> QED BY <3>1, <3>2
  <2>3. To(h, m + 1)
    <3>1. h = [n \in 0..(m + 1) |-> h[n]]
      OBVIOUS
    <3> HIDE DEF h
    <3> QED BY <2>2, <3>1
  <2> HIDE DEF h
  <2> QED BY <2>3
<1>3. Nat \subseteq Good
  <2> HIDE DEF Good
  <2> QED BY <1>1, <1>2, SetInduction
<1>4. \E g : IsReading(g, class, p, text)
  BY <1>3 DEF IsReading
<1> DEFINE r == CHOOSE g : IsReading(g, class, p, text)
<1>5. IsReading(r, class, p, text)
  BY <1>4
<1>6. ReadLines(class, p, text) = r[Len(text)]
  BY DEF ReadLines, IsReading
<1> QED BY <1>5, <1>6

(* No lines, no change.                                                    *)
LEMMA ReadNone == ASSUME NEW class, NEW p PROVE ReadLines(class, p, <<>>) = p
<1>1. <<>> \in Seq({}) /\ Len(<<>>) = 0
  OBVIOUS
<1>2. PICK r : IsReading(r, class, p, <<>>) /\ ReadLines(class, p, <<>>) = r[0]
  BY <1>1, Reading
<1> QED BY <1>1, <1>2 DEF IsReading

(* A text is read as its parts are read, one after the other.              *)
LEMMA ReadConcat ==
  ASSUME NEW class, NEW p, NEW S, NEW s \in Seq(S), NEW t \in Seq(S)
  PROVE  ReadLines(class, p, s \o t) = ReadLines(class, ReadLines(class, p, s), t)
<1> DEFINE u == s \o t
<1>1. /\ u \in Seq(S) /\ Len(u) = Len(s) + Len(t) /\ Len(s) \in Nat /\ Len(t) \in Nat
      /\ \A n \in 1..Len(s) : u[n] = s[n]
      /\ \A n \in 1..Len(t) : u[Len(s) + n] = t[n]
  OBVIOUS
<1>2. PICK a : IsReading(a, class, p, s) /\ ReadLines(class, p, s) = a[Len(s)]
  BY Reading
<1>3. PICK b : IsReading(b, class, a[Len(s)], t) /\ ReadLines(class, a[Len(s)], t) = b[Len(t)]
  BY Reading
<1> HIDE DEF u
<1>0. u \in Seq(S)
  BY <1>1
<1>4. PICK c : IsReading(c, class, p, u) /\ ReadLines(class, p, u) = c[Len(u)]
  BY <1>0, Reading
<1>5. \A n \in 0..Len(s) : c[n] = a[n]
  <2> DEFINE T == {n \in 0..Len(s) : c[n] = a[n]}
  <2>1. 0 \in T
    BY <1>1, <1>2, <1>4 DEF IsReading
  <2>2. ASSUME NEW n \in 0..(Len(s) - 1), n \in T PROVE n + 1 \in T
    <3>1. a[n + 1] = ReadLine(class, a[n], s[n + 1])
      BY <1>1, <1>2 DEF IsReading
    <3>2. c[n + 1] = ReadLine(class, c[n], u[n + 1])
      BY <1>1, <1>4 DEF IsReading
    <3>3. u[n + 1] = s[n + 1]
      BY <1>1
    <3> QED BY <1>1, <2>2, <3>1, <3>2, <3>3
  <2>3. 0..Len(s) \subseteq T
    <3> HIDE DEF T
    <3> QED BY <1>1, <2>1, <2>2, Upward
  <2> QED BY <2>3
<1>6. \A n \in 0..Len(t) : c[Len(s) + n] = b[n]
  <2> DEFINE T == {n \in 0..Len(t) : c[Len(s) + n] = b[n]}
  <2>1. 0 \in T
    BY <1>1, <1>3, <1>5 DEF IsReading
  <2>2. ASSUME NEW n \in 0..(Len(t) - 1), n \in T PROVE n + 1 \in T
    <3>1. b[n + 1] = ReadLine(class, b[n], t[n + 1])
      BY <1>1, <1>3 DEF IsReading
    <3>2. Len(s) + n + 1 \in 1..Len(u) /\ Len(s) + n + 1 - 1 = Len(s) + n /\ n + 1 \in 1..Len(t)
      BY <1>1
    <3>3. c[Len(s) + n + 1] = ReadLine(class, c[Len(s) + n], u[Len(s) + n + 1])
      BY <1>4, <3>2 DEF IsReading
    <3>4. u[Len(s) + n + 1] = t[n + 1]
      <4>1. Len(s) + n + 1 = Len(s) + (n + 1)
        BY <1>1
      <4> QED BY <1>1, <3>2, <4>1
    <3>5. c[Len(s) + n + 1] = b[n + 1]
      BY <2>2, <3>1, <3>3, <3>4
    <3> QED BY <1>1, <3>2, <3>5
  <2>3. 0..Len(t) \subseteq T
    <3> HIDE DEF T
    <3> QED BY <1>1, <2>1, <2>2, Upward
  <2> QED BY <2>3
<1> QED BY <1>1, <1>2, <1>3, <1>4, <1>6 DEF u


-----------------------------------------------------------------------------
(* A function that is defined from one number to the next exists.          *)
Recurs(f, D, base, N, step) ==
  /\ f \in [0..N -> D] /\ f[0] = base
  /\ \A n \in 1..N : f[n] = step[<<f[n - 1], n>>]

(* A function with given first value and step exists, as far as a bound.   *)
LEMMA Recursion ==
  ASSUME NEW D, NEW base, NEW N, NEW step,
         base \in D, N \in Nat, step \in [D \X (1..N) -> D]
  PROVE  \E f : Recurs(f, D, base, N, step)
<1> DEFINE To(g, m) == /\ g \in [0..m -> D] /\ g[0] = base
                       /\ \A n \in 1..m : g[n] = step[<<g[n - 1], n>>]
           Good == {m \in Nat : m <= N => \E g : To(g, m)}
<1>1. 0 \in Good
  <2> DEFINE g == [n \in 0..0 |-> base]
  <2>1. To(g, 0)
    OBVIOUS
  <2> HIDE DEF g
  <2> QED BY <2>1
<1>2. ASSUME NEW m \in Nat, m \in Good PROVE m + 1 \in Good
  <2> SUFFICES ASSUME m + 1 <= N PROVE \E g : To(g, m + 1)
    OBVIOUS
  <2>1. PICK g : To(g, m)
    BY <1>2
  <2> DEFINE h == [n \in 0..(m + 1) |-> IF n = m + 1 THEN step[<<g[m], n>>] ELSE g[n]]
  <2>2. \A n \in 0..(m + 1) : h[n] \in D
    BY <2>1
  <2>3. ASSUME NEW n \in 1..(m + 1) PROVE h[n] = step[<<h[n - 1], n>>]
    <3>1. CASE n = m + 1
      BY <3>1
    <3>2. CASE n \in 1..m
      BY <2>1, <3>2
    <3> QED BY <3>1, <3>2
  <2>4. To(h, m + 1)
    <3>1. h[0] = base
      BY <2>1
    <3>2. h \in [0..(m + 1) -> D]
      BY <2>2
    <3> HIDE DEF h
    <3> QED BY <2>3, <3>1, <3>2
  <2> HIDE DEF h
  <2> QED BY <2>4
<1>3. Nat \subseteq Good
  <2> HIDE DEF Good
  <2> QED BY <1>1, <1>2, SetInduction
<1>4. \E g : To(g, N)
  <2> HIDE DEF To
  <2> QED BY <1>3
<1> QED BY <1>4 DEF Recurs

(* FlattenSeq puts one sequence after the other.                           *)
LEMMA Flattening ==
  ASSUME NEW S, NEW N \in Nat, NEW seqs \in [1..N -> Seq(S)]
  PROVE  \E f \in [0..N -> Seq(S)] :
           f[0] = <<>> /\ (\A n \in 1..N : f[n] = f[n - 1] \o seqs[n]) /\ FlattenSeq(seqs) = f[N]
<1> DEFINE step == [x \in Seq(S) \X (1..N) |-> x[1] \o seqs[x[2]]]
<1>1. step \in [Seq(S) \X (1..N) -> Seq(S)]
  OBVIOUS
<1>2. PICK f \in [0..N -> Seq(S)] : f[0] = <<>> /\ \A n \in 1..N : f[n] = step[<<f[n - 1], n>>]
  <2> DEFINE e == <<>>
  <2>1. e \in Seq(S)
    OBVIOUS
  <2> DEFINE D == Seq(S)
  <2>2. e \in D /\ step \in [D \X (1..N) -> D]
    BY <1>1, <2>1
  <2> HIDE DEF step, e, D
  <2>3. \E f : Recurs(f, D, e, N, step)
    BY <2>2, Recursion
  <2> QED BY <2>3 DEF e, D, Recurs
<1>3. \A n \in 1..N : f[n] = f[n - 1] \o seqs[n] /\ f[n] \in Seq(S)
  <2>1. ASSUME NEW n \in 1..N PROVE f[n] = f[n - 1] \o seqs[n] /\ f[n] \in Seq(S)
    <3>1. <<f[n - 1], n>> \in Seq(S) \X (1..N) /\ f[n] \in Seq(S)
      OBVIOUS
    <3>2. f[n] = step[<<f[n - 1], n>>]
      <4> HIDE DEF step
      <4> QED BY <1>2
    <3> QED BY <3>1, <3>2
  <2> QED BY <2>1
<1>4. Len(seqs) = N
  <2>1. seqs \in Seq(Seq(S))
    OBVIOUS
  <2> QED BY <2>1
<1>5. CASE N = 0
  <2>1. seqs = <<>>
    BY <1>5
  <2> QED BY <1>2, <1>3, <1>4, <1>5, <2>1 DEF FlattenSeq
<1>6. CASE N # 0
  <2> DEFINE IsFlat(x) == x = [i \in 1..N |-> IF i = 1 THEN seqs[i] ELSE x[i - 1] \o seqs[i]]
             g == CHOOSE x : IsFlat(x)
             h == [i \in 1..N |-> f[i]]
  <2>1. IsFlat(h)
    <3>1. ASSUME NEW i \in 1..N PROVE h[i] = IF i = 1 THEN seqs[i] ELSE h[i - 1] \o seqs[i]
      <4>1. CASE i = 1
        <5>1. h[1] = f[0] \o seqs[1]
          BY <1>3, <4>1
        <5>2. h[1] = <<>> \o seqs[1] /\ seqs[1] \in Seq(S)
          BY <1>2, <4>1, <5>1
        <5> QED BY <4>1, <5>2
      <4>2. CASE i # 1
        <5> HIDE DEF h
        <5>1. i - 1 \in 1..N
          BY <4>2
        <5>2. f[i] = f[i - 1] \o seqs[i]
          BY <1>3
        <5>3. h[i] = f[i] /\ h[i - 1] = f[i - 1]
          BY <5>1 DEF h
        <5> QED BY <4>2, <5>2, <5>3
      <4> QED BY <4>1, <4>2
    <3>2. h = [i \in 1..N |-> h[i]]
      OBVIOUS
    <3> HIDE DEF h
    <3> QED BY <3>1, <3>2
  <2>2. IsFlat(g)
    <3> HIDE DEF h
    <3> QED BY <2>1
  <2> HIDE DEF g, h
  <2>6. \A i \in 1..N : g[i] = IF i = 1 THEN seqs[i] ELSE g[i - 1] \o seqs[i]
    BY <2>2
  <2>7. \A i \in 1..N : h[i] = IF i = 1 THEN seqs[i] ELSE h[i - 1] \o seqs[i]
    BY <2>1
  <2> USE DEF g, h
  <2>3. FlattenSeq(seqs) = g[N]
    BY <1>4, <1>6 DEF FlattenSeq
  <2>4. \A i \in 1..N : g[i] = f[i]
    <3> DEFINE T == {n \in 0..N : n # 0 => g[n] = f[n]}
    <3>1. 0 \in T
      OBVIOUS
    <3>2. ASSUME NEW n \in 0..(N - 1), n \in T PROVE n + 1 \in T
      <4>1. g[n + 1] = IF n + 1 = 1 THEN seqs[n + 1] ELSE g[n] \o seqs[n + 1]
        <5> HIDE DEF g
        <5>1. n + 1 \in 1..N /\ n + 1 - 1 = n
          OBVIOUS
        <5>2. g[n + 1] = IF n + 1 = 1 THEN seqs[n + 1] ELSE g[n + 1 - 1] \o seqs[n + 1]
          BY <2>6, <5>1
        <5> QED BY <5>1, <5>2
      <4>2. f[n + 1] = IF n + 1 = 1 THEN seqs[n + 1] ELSE f[n] \o seqs[n + 1]
        <5>1. h[n + 1] = IF n + 1 = 1 THEN seqs[n + 1] ELSE h[n] \o seqs[n + 1]
          <6> HIDE DEF h
          <6>1. n + 1 \in 1..N /\ n + 1 - 1 = n
            OBVIOUS
          <6>2. h[n + 1] = IF n + 1 = 1 THEN seqs[n + 1] ELSE h[n + 1 - 1] \o seqs[n + 1]
            BY <2>7, <6>1
          <6> QED BY <6>1, <6>2
        <5> QED BY <5>1
      <4> HIDE DEF g, h
      <4> QED BY <3>2, <4>1, <4>2
    <3>3. 0..N \subseteq T
      <4> HIDE DEF T
      <4> QED BY <3>1, <3>2, Upward
    <3> HIDE DEF g, h
    <3> QED BY <3>3
  <2>5. FlattenSeq(seqs) = f[N]
    <3> HIDE DEF g, h
    <3> QED BY <1>6, <2>3, <2>4
  <2> QED BY <1>2, <1>3, <2>5
<1> QED BY <1>5, <1>6

(* What reading blocks does, one after the other.                          *)
AreRead(g, class, p, N, seqs) ==
  /\ g[0] = p /\ \A n \in 1..N : g[n] = ReadLines(class, g[n - 1], seqs[n])
  /\ ReadLines(class, p, FlattenSeq(seqs)) = g[N]

(* Blocks of lines are read one after the other.                           *)
LEMMA ReadBlocks ==
  ASSUME NEW class, NEW p, NEW S, NEW N \in Nat, NEW seqs \in [1..N -> Seq(S)]
  PROVE  /\ FlattenSeq(seqs) \in Seq(S)
         /\ \E g : AreRead(g, class, p, N, seqs)
<1>1. PICK f \in [0..N -> Seq(S)] :
        f[0] = <<>> /\ (\A n \in 1..N : f[n] = f[n - 1] \o seqs[n]) /\ FlattenSeq(seqs) = f[N]
  BY Flattening
<1> DEFINE g == [n \in 0..N |-> ReadLines(class, p, f[n])]
<1>2. g[0] = p
  BY <1>1, ReadNone
<1>3. ASSUME NEW n \in 1..N PROVE g[n] = ReadLines(class, g[n - 1], seqs[n])
  <2>1. f[n] = f[n - 1] \o seqs[n] /\ f[n - 1] \in Seq(S) /\ seqs[n] \in Seq(S)
    <3>1. n - 1 \in 0..N
      OBVIOUS
    <3> QED BY <1>1, <3>1
  <2>2. ReadLines(class, p, f[n]) = ReadLines(class, ReadLines(class, p, f[n - 1]), seqs[n])
    BY <2>1, ReadConcat
  <2> QED BY <2>2
<1>4. ReadLines(class, p, FlattenSeq(seqs)) = g[N]
  BY <1>1
<1> HIDE DEF g
<1>5. AreRead(g, class, p, N, seqs)
  BY <1>2, <1>3, <1>4 DEF AreRead
<1> QED BY <1>1, <1>5

(* One line.                                                               *)
LEMMA ReadOne ==
  ASSUME NEW class, NEW p, NEW a
  PROVE  ReadLines(class, p, <<a>>) = ReadLine(class, p, a)
<1>1. <<a>> \in Seq({a}) /\ Len(<<a>>) = 1 /\ <<a>>[1] = a
  OBVIOUS
<1>2. PICK r : IsReading(r, class, p, <<a>>) /\ ReadLines(class, p, <<a>>) = r[1]
  <2> DEFINE s == <<a>>
  <2> HIDE DEF s
  <2>1. \E r : IsReading(r, class, p, s) /\ ReadLines(class, p, s) = r[Len(s)]
    BY <1>1, Reading DEF s
  <2> QED BY <1>1, <2>1 DEF s
<1>3. r[0] = p /\ r[1] = ReadLine(class, r[0], a)
  BY <1>1, <1>2 DEF IsReading
<1> QED BY <1>2, <1>3

(* A line and what follows it.                                             *)
LEMMA ReadOn ==
  ASSUME NEW class, NEW p, NEW S, NEW a \in S, NEW s \in Seq(S)
  PROVE  ReadLines(class, p, <<a>> \o s) = ReadLines(class, ReadLine(class, p, a), s)
<1> DEFINE b == <<a>>
<1>1. b \in Seq(S)
  OBVIOUS
<1> HIDE DEF b
<1>2. ReadLines(class, p, b \o s) = ReadLines(class, ReadLines(class, p, b), s)
  BY <1>1, ReadConcat
<1> QED BY <1>2, ReadOne DEF b

(* Two lines, from state to state.                                         *)
LEMMA ReadTwo ==
  ASSUME NEW class, NEW a, NEW b,
         NEW p0, NEW p1, NEW p2,
         p1 = ReadLine(class, p0, a),
         p2 = ReadLine(class, p1, b)
  PROVE  ReadLines(class, p0, <<a, b>>) = p2
<1> DEFINE s == <<a, b>>
<1>1. s \in Seq({a, b})
  OBVIOUS
<1>2. Len(s) = 2 /\ s[1] = a /\ s[2] = b
  OBVIOUS
<1> HIDE DEF s
<1>3. PICK r : IsReading(r, class, p0, s) /\ ReadLines(class, p0, s) = r[Len(s)]
  BY <1>1, Reading
<1>4. r[0] = p0 /\ \A n \in 1..2 : r[n] = ReadLine(class, r[n - 1], s[n])
  BY <1>2, <1>3 DEF IsReading
<1>5. r[1] = p1
  BY <1>2, <1>4
<1>6. r[2] = p2
  BY <1>2, <1>4, <1>5
<1>7. ReadLines(class, p0, s) = r[2]
  BY <1>2, <1>3
<1> QED BY <1>6, <1>7 DEF s

(* Four lines.                                                             *)
LEMMA ReadFour ==
  ASSUME NEW class, NEW a, NEW b, NEW c, NEW d,
         NEW p0, NEW p1, NEW p2, NEW p3, NEW p4,
         p1 = ReadLine(class, p0, a),
         p2 = ReadLine(class, p1, b),
         p3 = ReadLine(class, p2, c),
         p4 = ReadLine(class, p3, d)
  PROVE  ReadLines(class, p0, <<a, b, c, d>>) = p4
<1> DEFINE s == <<a, b, c, d>>
<1>1. s \in Seq({a, b, c, d})
  OBVIOUS
<1>2. Len(s) = 4 /\ s[1] = a /\ s[2] = b /\ s[3] = c /\ s[4] = d
  OBVIOUS
<1> HIDE DEF s
<1>3. PICK r : IsReading(r, class, p0, s) /\ ReadLines(class, p0, s) = r[Len(s)]
  BY <1>1, Reading
<1>4. r[0] = p0 /\ \A n \in 1..4 : r[n] = ReadLine(class, r[n - 1], s[n])
  BY <1>2, <1>3 DEF IsReading
<1>5. r[1] = p1
  BY <1>2, <1>4
<1>6. r[2] = p2
  BY <1>2, <1>4, <1>5
<1>7. r[3] = p3
  BY <1>2, <1>4, <1>6
<1>8. r[4] = p4
  BY <1>2, <1>4, <1>7
<1>9. ReadLines(class, p0, s) = r[4]
  BY <1>2, <1>3
<1> QED BY <1>8, <1>9 DEF s

(* Six lines.                                                              *)
LEMMA ReadSix ==
  ASSUME NEW class, NEW a, NEW b, NEW c, NEW d, NEW e, NEW f,
         NEW p0, NEW p1, NEW p2, NEW p3, NEW p4, NEW p5, NEW p6,
         p1 = ReadLine(class, p0, a),
         p2 = ReadLine(class, p1, b),
         p3 = ReadLine(class, p2, c),
         p4 = ReadLine(class, p3, d),
         p5 = ReadLine(class, p4, e),
         p6 = ReadLine(class, p5, f)
  PROVE  ReadLines(class, p0, <<a, b, c, d, e, f>>) = p6
<1> DEFINE s == <<a, b, c, d, e, f>>
<1>1. s \in Seq({a, b, c, d, e, f})
  OBVIOUS
<1>2. Len(s) = 6 /\ s[1] = a /\ s[2] = b /\ s[3] = c /\ s[4] = d /\ s[5] = e /\ s[6] = f
  OBVIOUS
<1> HIDE DEF s
<1>3. PICK r : IsReading(r, class, p0, s) /\ ReadLines(class, p0, s) = r[Len(s)]
  BY <1>1, Reading
<1>4. r[0] = p0 /\ \A n \in 1..6 : r[n] = ReadLine(class, r[n - 1], s[n])
  BY <1>2, <1>3 DEF IsReading
<1>5. r[1] = p1
  BY <1>2, <1>4
<1>6. r[2] = p2
  BY <1>2, <1>4, <1>5
<1>7. r[3] = p3
  BY <1>2, <1>4, <1>6
<1>8. r[4] = p4
  BY <1>2, <1>4, <1>7
<1>9. r[5] = p5
  BY <1>2, <1>4, <1>8
<1>10. r[6] = p6
  BY <1>2, <1>4, <1>9
<1>11. ReadLines(class, p0, s) = r[6]
  BY <1>2, <1>3
<1> QED BY <1>10, <1>11 DEF s


-----------------------------------------------------------------------------
(* The steps of the reader.                                                *)

IsSequence(s) == s \in Seq(Range(s))

(* A field is given one more value.                                        *)
LEMMA Appended ==
  ASSUME NEW s, NEW v, IsSequence(s)
  PROVE  /\ IsSequence(Append(s, v)) /\ Append(s, v) # <<>>
         /\ Range(Append(s, v)) = Range(s) \cup {v}
<1> DEFINE t == Append(s, v)
           S == Range(s) \cup {v}
<1>1. s \in Seq(S) /\ v \in S
  <2>1. s \in Seq(Range(s)) /\ Range(s) \subseteq S
    BY DEF IsSequence
  <2> HIDE DEF S
  <2>2. Len(s) \in Nat /\ DOMAIN s = 1..Len(s) /\ \A i \in 1..Len(s) : s[i] \in S
    BY <2>1
  <2> QED BY <2>1, <2>2 DEF S
<1>2. Len(t) = Len(s) + 1 /\ t[Len(s) + 1] = v /\ t \in Seq(S) /\ Len(s) \in Nat
      /\ (\A i \in 1..Len(s) : t[i] = s[i]) /\ DOMAIN s = 1..Len(s) /\ DOMAIN t = 1..Len(t)
  <2> HIDE DEF S
  <2> QED BY <1>1
<1>3. t # <<>>
  BY <1>2
<1> HIDE DEF t
<1>4. Range(t) = S
  <2>1. ASSUME NEW x \in Range(t) PROVE x \in S
    BY <1>2, <2>1 DEF Range
  <2>2. ASSUME NEW x \in Range(s) PROVE x \in Range(t)
    <3>1. PICK i \in 1..Len(s) : x = s[i]
      BY <1>2 DEF Range
    <3>2. i \in DOMAIN t /\ t[i] = x
      BY <1>2, <3>1
    <3> QED BY <3>2 DEF Range
  <2>3. v \in Range(t)
    <3>1. Len(s) + 1 \in DOMAIN t
      BY <1>2
    <3> QED BY <1>2, <3>1 DEF Range
  <2> QED BY <2>1, <2>2, <2>3
<1> QED BY <1>2, <1>3, <1>4 DEF IsSequence, t

(* A field that was given none.                                            *)
LEMMA Empty == IsSequence(<<>>) /\ Range(<<>>) = {}
<1>1. Range(<<>>) = {}
  BY DEF Range
<1>2. <<>> \in Seq({})
  OBVIOUS
<1> QED BY <1>1, <1>2 DEF IsSequence

(* What a state of the reader consists of; the texts in it have names, so  *)
(* that the provers treat them like any other value.                       *)
NoItem  == ""
AtLine  == "line"
AtBegin == "begin"
AtEnd   == "END"
AtDot   == "."

Give(fields, kw, v) == [fields EXCEPT ![kw] = Append(@, v)]

State(first, mode, open, block, fields, objs) ==
  [first |-> first, mode |-> mode, open |-> open, block |-> block, fields |-> fields, objs |-> objs]

(* Between two items, whatever the last block was.                         *)
Between(p, fields, objs) ==
  \E open, block : p = State(NoItem, AtLine, open, block, fields, objs)

(* The parts of a state of the reader, and a state with one part changed.  *)
LEMMA Parts ==
  ASSUME NEW first, NEW mode, NEW open, NEW block, NEW F, NEW O
  PROVE  /\ State(first, mode, open, block, F, O).first = first
         /\ State(first, mode, open, block, F, O).mode = mode
         /\ State(first, mode, open, block, F, O).open = open
         /\ State(first, mode, open, block, F, O).block = block
         /\ State(first, mode, open, block, F, O).fields = F
         /\ State(first, mode, open, block, F, O).objs = O
BY Z3 DEF State

LEMMA SetFirst ==
  ASSUME NEW first, NEW mode, NEW open, NEW block, NEW F, NEW O, NEW x
  PROVE  [State(first, mode, open, block, F, O) EXCEPT !.first = x] = State(x, mode, open, block, F, O)
BY Z3 DEF State

LEMMA SetMode ==
  ASSUME NEW first, NEW mode, NEW open, NEW block, NEW F, NEW O, NEW x
  PROVE  [State(first, mode, open, block, F, O) EXCEPT !.mode = x] = State(first, x, open, block, F, O)
BY Z3 DEF State

LEMMA SetOpen ==
  ASSUME NEW first, NEW mode, NEW open, NEW block, NEW F, NEW O, NEW x
  PROVE  [State(first, mode, open, block, F, O) EXCEPT !.open = x] = State(first, mode, x, block, F, O)
BY Z3 DEF State

LEMMA SetBlock ==
  ASSUME NEW first, NEW mode, NEW open, NEW block, NEW F, NEW O, NEW x
  PROVE  [State(first, mode, open, block, F, O) EXCEPT !.block = x] = State(first, mode, open, x, F, O)
BY Z3 DEF State

LEMMA SetFields ==
  ASSUME NEW first, NEW mode, NEW open, NEW block, NEW F, NEW O, NEW x
  PROVE  [State(first, mode, open, block, F, O) EXCEPT !.fields = x] = State(first, mode, open, block, x, O)
BY Z3 DEF State

LEMMA SetObjs ==
  ASSUME NEW first, NEW mode, NEW open, NEW block, NEW F, NEW O, NEW x
  PROVE  [State(first, mode, open, block, F, O) EXCEPT !.objs = x] = State(first, mode, open, block, F, x)
BY Z3 DEF State

(* Put gives the value to the field of its keyword, or to the last object  *)
(* of the class the keyword belongs to.                                    *)
LEMMA PutField ==
  ASSUME NEW class, NEW first, NEW mode, NEW open, NEW block, NEW F, NEW O, NEW kw, NEW v,
         kw \notin DOMAIN class.object
  PROVE  Put(class, State(first, mode, open, block, F, O), kw, v) =
           State(first, mode, open, block, Give(F, kw, v), O)
<1> DEFINE p == State(first, mode, open, block, F, O)
           y == Append(F[kw], v)
<1>1. p.fields = F
  BY Parts
<1> HIDE DEF y
<1>2. [p EXCEPT !.fields[kw] = y] = State(first, mode, open, block, [F EXCEPT ![kw] = y], O)
  BY Z3 DEF State
<1> HIDE DEF p
<1>3. Put(class, p, kw, v) = [p EXCEPT !.fields[kw] = Append(@, v)]
  BY Zenon DEF Put
<1>4. [p EXCEPT !.fields[kw] = Append(@, v)] = [p EXCEPT !.fields[kw] = y]
  BY <1>1, Z3 DEF y
<1>5. Give(F, kw, v) = [F EXCEPT ![kw] = y]
  BY DEF y, Give
<1> QED BY <1>2, <1>3, <1>4, <1>5 DEF p

LEMMA PutSub ==
  ASSUME NEW class, NEW first, NEW mode, NEW open, NEW block, NEW F, NEW O, NEW kw, NEW v,
         kw \in DOMAIN class.object
  PROVE  Put(class, State(first, mode, open, block, F, O), kw, v) =
           State(first, mode, open, block, F, [O EXCEPT ![class.object[kw]] = GiveLast(@, kw, v)])
BY Z3 DEF Put, State

(* Between two items the reader looks for an item that takes the line.     *)
LEMMA Checked ==
  ASSUME NEW class, NEW first, NEW open, NEW block, NEW F, NEW O, NEW l
  PROVE  ReadLine(class, State(first, AtLine, open, block, F, O), l) =
           CheckItems(class, State(first, AtLine, open, block, F, O), l)
<1> DEFINE p == State(first, AtLine, open, block, F, O)
<1>1. p.mode = AtLine
  BY Parts
<1> HIDE DEF p
<1>2. ReadLine(class, p, l) = CheckItems(class, p, l)
  BY <1>1 DEF ReadLine, AtLine
<1> QED BY <1>2 DEF p

(* A line that Take is given.                                              *)
LEMMA Taken ==
  ASSUME NEW class, NEW open, NEW block, NEW F, NEW O, NEW l,
         \/ l.kw \in class.items
         \/ /\ l.kw \notin class.items /\ l.kw \in DOMAIN class.object
            /\ class.object[l.kw] # l.kw /\ O[class.object[l.kw]] # <<>>
  PROVE  ReadLine(class, State(NoItem, AtLine, open, block, F, O), l) =
           IF l.kw \in class.multi
             THEN State(NoItem, AtBegin, l, <<>>, F, O)
             ELSE Put(class, State(NoItem, AtLine, open, block, F, O), l.kw, l.v)
<1> DEFINE p == State(NoItem, AtLine, open, block, F, O)
<1>1. /\ p.first = "" /\ p.objs = O /\ [p EXCEPT !.first = ""] = p
      /\ [p EXCEPT !.mode = "begin", !.open = l, !.block = <<>>] = State(NoItem, AtBegin, l, <<>>, F, O)
  <2>1. p.first = NoItem /\ p.objs = O
    BY Parts
  <2>2. [p EXCEPT !.first = NoItem] = p
    BY SetFirst, Z3
  <2>3. [p EXCEPT !.mode = AtBegin, !.open = l, !.block = <<>>] = State(NoItem, AtBegin, l, <<>>, F, O)
    <3> DEFINE e == <<>>
    <3> HIDE DEF e
    <3>1. [p EXCEPT !.mode = AtBegin] = State(NoItem, AtBegin, open, block, F, O)
      BY SetMode, Z3
    <3>2. [State(NoItem, AtBegin, open, block, F, O) EXCEPT !.open = l] =
            State(NoItem, AtBegin, l, block, F, O)
      BY SetOpen, Z3
    <3>3. [State(NoItem, AtBegin, l, block, F, O) EXCEPT !.block = e] = State(NoItem, AtBegin, l, e, F, O)
      BY SetBlock, Z3
    <3> HIDE DEF p
    <3>4. [p EXCEPT !.mode = AtBegin, !.open = l, !.block = e]
            = [[[p EXCEPT !.mode = AtBegin] EXCEPT !.open = l] EXCEPT !.block = e]
      OBVIOUS
    <3>5. [p EXCEPT !.mode = AtBegin, !.open = l, !.block = e] = State(NoItem, AtBegin, l, e, F, O)
      BY <3>1, <3>2, <3>3, <3>4, Zenon
    <3> QED BY <3>5 DEF e
  <2> HIDE DEF p
  <2> QED BY <2>1, <2>2, <2>3 DEF NoItem, AtBegin
<1>2. ReadLine(class, p, l) = CheckItems(class, p, l)
  BY Checked
<1> HIDE DEF p
<1>3. CheckItems(class, p, l) = Take(class, p, l)
  <2>1. CASE l.kw \in class.items
    <3>1. CheckItems(class, p, l) = Take(class, [p EXCEPT !.first = ""], l)
      BY <1>1, <2>1 DEF CheckItems
    <3> QED BY <1>1, <3>1
  <2>2. CASE l.kw \notin class.items
    BY <1>1, <2>2 DEF CheckItems
  <2> QED BY <2>1, <2>2
<1>4. Take(class, p, l) = IF l.kw \in class.multi THEN State(NoItem, AtBegin, l, <<>>, F, O)
                          ELSE Put(class, p, l.kw, l.v)
  BY <1>1 DEF Take
<1> QED BY <1>2, <1>3, <1>4 DEF p

(* What a line is made of.                                                 *)
LEMMA Lined == ASSUME NEW kw, NEW v PROVE Line(kw, v).kw = kw /\ Line(kw, v).v = v
BY DEF Line

(* One line that is a field of the document.                               *)
LEMMA ReadField ==
  ASSUME NEW class, NEW p, NEW F, NEW O, NEW kw, NEW v, Between(p, F, O),
         kw \in class.items, kw \notin class.multi, kw \notin DOMAIN class.object
  PROVE  Between(ReadLine(class, p, Line(kw, v)), Give(F, kw, v), O)
<1>1. PICK open, block : p = State(NoItem, AtLine, open, block, F, O)
  BY DEF Between
<1>2. ReadLine(class, p, Line(kw, v)) = Put(class, p, kw, v)
  BY <1>1, Lined, Taken
<1>3. Put(class, p, kw, v) = State(NoItem, AtLine, open, block, Give(F, kw, v), O)
  BY <1>1, PutField
<1> QED BY <1>2, <1>3 DEF Between

(* One line that begins an object.                                         *)
LEMMA ReadObject ==
  ASSUME NEW class, NEW p, NEW F, NEW O, NEW kw, NEW v, Between(p, F, O),
         kw \notin class.items, kw \in DOMAIN class.object, class.object[kw] = kw
  PROVE  Between(ReadLine(class, p, Line(kw, v)), F,
                 [O EXCEPT ![kw] = Append(@, NewObject(class, Line(kw, v)))])
<1> DEFINE l == Line(kw, v)
           P == [O EXCEPT ![kw] = Append(@, NewObject(class, l))]
<1>1. PICK open, block : p = State(NoItem, AtLine, open, block, F, O)
  BY DEF Between
<1>2. ReadLine(class, p, l) = CheckItems(class, p, l) /\ l.kw = kw
  BY <1>1, Checked, Lined
<1>3. [p EXCEPT !.objs[kw] = Append(@, NewObject(class, l))] = State(NoItem, AtLine, open, block, F, P)
  <2> DEFINE x == NewObject(class, l)
             y == Append(O[kw], x)
  <2>1. p.objs = O
    BY <1>1, Parts
  <2> HIDE DEF l, x, y
  <2>2. [p EXCEPT !.objs[kw] = y] = State(NoItem, AtLine, open, block, F, [O EXCEPT ![kw] = y])
    BY <1>1, Z3 DEF State
  <2>3. [p EXCEPT !.objs[kw] = Append(@, x)] = [p EXCEPT !.objs[kw] = y]
    BY <2>1, Z3 DEF y
  <2>4. [O EXCEPT ![kw] = Append(@, x)] = [O EXCEPT ![kw] = y]
    BY DEF y
  <2> QED BY <2>2, <2>3, <2>4 DEF x
<1> HIDE DEF l
<1>4. CheckItems(class, p, l) = [p EXCEPT !.objs[kw] = Append(@, NewObject(class, l))]
  BY <1>2, Z3 DEF CheckItems
<1>5. ReadLine(class, p, l) = State(NoItem, AtLine, open, block, F, P)
  BY <1>2, <1>3, <1>4
<1> QED BY <1>5 DEF Between, l

(* One line that is a field of the object begun last.                      *)
LEMMA ReadSub ==
  ASSUME NEW class, NEW p, NEW F, NEW O, NEW kw, NEW v, Between(p, F, O),
         kw \notin class.items, kw \notin class.multi,
         kw \in DOMAIN class.object, class.object[kw] # kw, O[class.object[kw]] # <<>>
  PROVE  Between(ReadLine(class, p, Line(kw, v)), F,
                 [O EXCEPT ![class.object[kw]] = GiveLast(@, kw, v)])
<1> DEFINE P == [O EXCEPT ![class.object[kw]] = GiveLast(@, kw, v)]
<1>1. PICK open, block : p = State(NoItem, AtLine, open, block, F, O)
  BY DEF Between
<1>2. ReadLine(class, p, Line(kw, v)) = Put(class, p, kw, v)
  BY <1>1, Lined, Taken
<1>3. Put(class, p, kw, v) = State(NoItem, AtLine, open, block, F, P)
  BY <1>1, PutSub
<1> HIDE DEF P
<1>4. Between(ReadLine(class, p, Line(kw, v)), F, P)
  BY <1>2, <1>3 DEF Between
<1> QED BY <1>4 DEF P

Block(kw, v, w) == <<Line(kw, v), Begin, Line("", w), End>>
Multi(v, w)     == [arg |-> v, ml |-> <<Line("", w)>>]

(* An item with a block of one line.                                       *)
LEMMA ReadBlock ==
  ASSUME NEW class, NEW p, NEW F, NEW O, NEW kw, NEW v, NEW w, Between(p, F, O),
         kw \in class.multi,
         \/ kw \in class.items
         \/ /\ kw \notin class.items /\ kw \in DOMAIN class.object
            /\ class.object[kw] # kw /\ O[class.object[kw]] # <<>>
  PROVE  \E q : /\ ReadLines(class, p, Block(kw, v, w)) = Put(class, q, kw, Multi(v, w))
                /\ Between(q, F, O)
<1> DEFINE l == Line(kw, v)
           m == Line("", w)
<1>1. PICK open, block : p = State(NoItem, AtLine, open, block, F, O)
  BY DEF Between
<1>0. l.kw = kw /\ l.v = v /\ m.kw = "" /\ Begin.kw = "BEGIN" /\ End.kw = "END"
  BY DEF Line, Begin, End
<1>9. Multi(v, w) = [arg |-> v, ml |-> <<m>>]
  BY DEF Multi
<1> HIDE DEF l, m
<1> DEFINE a == State(NoItem, AtBegin, l, <<>>, F, O)
           b == State(NoItem, AtEnd, l, <<>>, F, O)
           c == State(NoItem, AtEnd, l, <<m>>, F, O)
           e == State(NoItem, AtLine, l, <<m>>, F, O)
<1>2. ReadLine(class, p, l) = a
  <2> HIDE DEF a
  <2>1. ReadLine(class, State(NoItem, AtLine, open, block, F, O), l) =
          IF l.kw \in class.multi THEN State(NoItem, AtBegin, l, <<>>, F, O)
          ELSE Put(class, State(NoItem, AtLine, open, block, F, O), l.kw, l.v)
    <3>1. \/ l.kw \in class.items
          \/ /\ l.kw \notin class.items /\ l.kw \in DOMAIN class.object
             /\ class.object[l.kw] # l.kw /\ O[class.object[l.kw]] # <<>>
      BY <1>0
    <3> QED BY <3>1, Taken
  <2> QED BY <1>0, <1>1, <2>1 DEF a
<1>3. ReadLine(class, a, Begin) = b
  <2>1. a.mode = AtBegin
    BY Parts
  <2>2. [a EXCEPT !.mode = AtEnd] = b
    BY SetMode, Z3
  <2> HIDE DEF a, b
  <2> QED BY <1>0, <2>1, <2>2 DEF ReadLine, AtBegin, AtEnd
<1>4. ReadLine(class, b, m) = c
  <2>1. b.mode = AtEnd /\ b.block = <<>>
    BY Parts
  <2>4. [b EXCEPT !.block = <<m>>] = c
    BY SetBlock, Z3
  <2>2. Append(<<>>, m) = <<m>>
    OBVIOUS
  <2> HIDE DEF b, c
  <2>3. ReadLine(class, b, m) = [b EXCEPT !.block = Append(b.block, m)]
    BY <1>0, <2>1 DEF ReadLine, AtEnd
  <2> QED BY <2>1, <2>2, <2>3, <2>4
<1>5. ReadLine(class, c, End) = Put(class, e, kw, Multi(v, w))
  <2>1. c.mode = AtEnd /\ c.block = <<m>> /\ c.open = l
    BY Parts
  <2>4. [c EXCEPT !.mode = AtLine] = e
    BY SetMode, Z3
  <2> HIDE DEF c, e
  <2>2. ReadLine(class, c, End) = Close(class, c)
    BY <1>0, <2>1 DEF ReadLine, AtEnd
  <2>3. Close(class, c) = Put(class, e, kw, [arg |-> v, ml |-> <<m>>])
    BY <1>0, <2>1, <2>4 DEF Close, AtLine
  <2> QED BY <1>9, <2>2, <2>3
<1>6. ReadLines(class, p, <<l, Begin, m, End>>) = Put(class, e, kw, Multi(v, w))
  <2> HIDE DEF a, b, c, e
  <2> QED BY <1>2, <1>3, <1>4, <1>5, ReadFour
<1>7. Between(e, F, O)
  BY DEF Between
<1> HIDE DEF e
<1> QED BY <1>6, <1>7 DEF Block, l, m

(* A block that is a field of the document, read to its end.               *)
LEMMA ReadFieldBlock ==
  ASSUME NEW class, NEW p, NEW F, NEW O, NEW kw, NEW v, NEW w, Between(p, F, O),
         kw \in class.multi, kw \in class.items, kw \notin DOMAIN class.object
  PROVE  Between(ReadLines(class, p, Block(kw, v, w)), Give(F, kw, Multi(v, w)), O)
<1>1. PICK q : /\ ReadLines(class, p, Block(kw, v, w)) = Put(class, q, kw, Multi(v, w))
               /\ Between(q, F, O)
  BY ReadBlock
<1>2. PICK open, block : q = State(NoItem, AtLine, open, block, F, O)
  BY <1>1 DEF Between
<1>3. Put(class, q, kw, Multi(v, w)) = State(NoItem, AtLine, open, block, Give(F, kw, Multi(v, w)), O)
  BY <1>2, PutField
<1> QED BY <1>1, <1>3 DEF Between

(* A block that is a field of the object begun last, read to its end.      *)
LEMMA ReadSubBlock ==
  ASSUME NEW class, NEW p, NEW F, NEW O, NEW kw, NEW v, NEW w, Between(p, F, O),
         kw \in class.multi, kw \notin class.items, kw \in DOMAIN class.object,
         class.object[kw] # kw, O[class.object[kw]] # <<>>
  PROVE  Between(ReadLines(class, p, Block(kw, v, w)), F,
                 [O EXCEPT ![class.object[kw]] = GiveLast(@, kw, Multi(v, w))])
<1>1. PICK q : /\ ReadLines(class, p, Block(kw, v, w)) = Put(class, q, kw, Multi(v, w))
               /\ Between(q, F, O)
  BY ReadBlock
<1>2. PICK open, block : q = State(NoItem, AtLine, open, block, F, O)
  BY <1>1 DEF Between
<1>3. Put(class, q, kw, Multi(v, w)) =
        State(NoItem, AtLine, open, block, F,
              [O EXCEPT ![class.object[kw]] = GiveLast(@, kw, Multi(v, w))])
  BY <1>2, PutSub
<1> QED BY <1>1, <1>3 DEF Between

(* The last object of a list is the one that has just been added.          *)
Given(o, kw, v) == [o EXCEPT !.subs[kw] = Append(@, v)]

(* The last object of a list is given a field.                             *)
LEMMA GivenLast ==
  ASSUME NEW s, NEW o, NEW kw, NEW v, IsSequence(s)
  PROVE  GiveLast(Append(s, o), kw, v) = Append(s, Given(o, kw, v))
<1> DEFINE t == Append(s, o)
           x == [o EXCEPT !.subs[kw] = Append(@, v)]
           u == Append(s, x)
           S == Range(s) \cup {o, x}
<1>1. s \in Seq(S) /\ o \in S /\ x \in S
  <2>1. s \in Seq(Range(s)) /\ Range(s) \subseteq S
    BY DEF IsSequence
  <2> HIDE DEF S
  <2>2. Len(s) \in Nat /\ DOMAIN s = 1..Len(s) /\ \A i \in 1..Len(s) : s[i] \in S
    BY <2>1
  <2>3. o \in S /\ x \in S
    BY DEF S
  <2> QED BY <2>1, <2>2, <2>3
<1> HIDE DEF S, x
<1>2. /\ t \in Seq(S) /\ Len(t) = Len(s) + 1 /\ t[Len(s) + 1] = o /\ Len(s) \in Nat
      /\ \A i \in 1..Len(s) : t[i] = s[i]
  BY <1>1
<1>3. /\ u \in Seq(S) /\ Len(u) = Len(s) + 1 /\ u[Len(s) + 1] = x
      /\ \A i \in 1..Len(s) : u[i] = s[i]
  BY <1>1
<1> HIDE DEF t, u
<1>4. GiveLast(t, kw, v) = [t EXCEPT ![Len(s) + 1].subs[kw] = Append(@, v)]
  BY <1>2 DEF GiveLast
<1>5. [t EXCEPT ![Len(s) + 1].subs[kw] = Append(@, v)] = [t EXCEPT ![Len(s) + 1] = x]
  BY <1>2, Z3 DEF x
<1>6. [t EXCEPT ![Len(s) + 1] = x] = u
  <2> DEFINE e == [t EXCEPT ![Len(s) + 1] = x]
  <2>1. e \in Seq(S) /\ Len(e) = Len(s) + 1
    <3>1. t = [i \in 1..(Len(s) + 1) |-> t[i]] /\ \A i \in 1..(Len(s) + 1) : t[i] \in S
      BY <1>1, <1>2
    <3>2. e = [i \in 1..(Len(s) + 1) |-> IF i = Len(s) + 1 THEN x ELSE t[i]]
      BY <1>2, <3>1
    <3> HIDE DEF e
    <3>3. \A i \in 1..(Len(s) + 1) : e[i] \in S
      BY <1>1, <3>1, <3>2
    <3> QED BY <1>2, <3>2, <3>3
  <2>2. \A i \in 1..(Len(s) + 1) : e[i] = u[i]
    <3>1. \A i \in 1..(Len(s) + 1) : e[i] = IF i = Len(s) + 1 THEN x ELSE t[i]
      BY <1>2
    <3> HIDE DEF e
    <3> QED BY <1>2, <1>3, <3>1
  <2> HIDE DEF e
  <2> QED BY <1>2, <1>3, <2>1, <2>2
<1> QED BY <1>4, <1>5, <1>6 DEF t, u, x, Given

-----------------------------------------------------------------------------
(* Reading the text of a consensus.                                        *)

KStart  == "network-status-version"
KUntil  == "valid-until"
KSign   == "directory-signature"
KSource == "dir-source"
KRouter == "r"
KFlags  == "s"

(* The items of a consensus, as far as the proofs need them.               *)
LEMMA StatusClass ==
  /\ NetworkStatus.start = KStart /\ KStart # NoItem
  /\ {KStart, KUntil, KSign} \subseteq NetworkStatus.items
  /\ NetworkStatus.items = {KStart, KUntil, KSign} /\ NetworkStatus.masks = {}
  /\ KSign \in NetworkStatus.multi /\ NetworkStatus.multi = {KSign}
  /\ DOMAIN NetworkStatus.object = {KSource, KRouter, KFlags}
  /\ NetworkStatus.object[KSource] = KSource /\ NetworkStatus.object[KRouter] = KRouter
  /\ NetworkStatus.object[KFlags] = KRouter
  /\ DOMAIN NetworkStatus.built = {KRouter} /\ NetworkStatus.built[KRouter] = KFlags
BY DEF NetworkStatus, KStart, KUntil, KSign, KSource, KRouter, KFlags, NoItem

(* Its keywords differ.                                                    *)
LEMMA Keywords ==
  /\ KStart \notin {KUntil, KSign, KSource, KRouter, KFlags}
  /\ KUntil \notin {KSign, KSource, KRouter, KFlags}
  /\ KSign \notin {KSource, KRouter, KFlags}
  /\ KSource \notin {KRouter, KFlags} /\ KRouter # KFlags
BY DEF KStart, KUntil, KSign, KSource, KRouter, KFlags

(* What begins an object in it.                                            *)
LEMMA StatusStarts == Starts(NetworkStatus) = {KSource, KRouter}
BY StatusClass DEF Starts, Range

(* What the reader has when it has read so many voters, routers and        *)
(* signatures.                                                             *)
Signature(d, i) ==
  Multi(<<Published[d].signers[i], Published[d].gen>>, <<Published[d].signers[i], Published[d].gen>>)
Voter(d, i) == NewObject(NetworkStatus, Line(KSource, Published[d].voters[i]))

Progress(p, d, i, j, k) ==
  \E F, O :
    /\ Between(p, F, O)
    /\ KUntil \in DOMAIN F /\ KSign \in DOMAIN F
    /\ F[KUntil] = <<Published[d].until>>
    /\ IsSequence(F[KSign]) /\ Range(F[KSign]) = {Signature(d, s) : s \in 1..k}
    /\ KSource \in DOMAIN O /\ KRouter \in DOMAIN O
    /\ IsSequence(O[KSource]) /\ Range(O[KSource]) = {Voter(d, s) : s \in 1..i}
    /\ IsSequence(O[KRouter]) /\ (j # 0 => O[KRouter] # <<>>)
    /\ \A o \in Range(O[KRouter]) : o.subs[KFlags] # <<>>

(* One more authority is read.                                             *)
LEMMA VoterRead ==
  ASSUME NEW p, NEW d, NEW i \in Nat, NEW j, NEW k, Progress(p, d, i, j, k)
  PROVE  Progress(ReadLine(NetworkStatus, p, Line(KSource, Published[d].voters[i + 1])), d, i + 1, j, k)
<1> DEFINE w == Published[d].voters[i + 1]
           q == ReadLine(NetworkStatus, p, Line(KSource, w))
<1>1. PICK F, O :
        /\ Between(p, F, O)
        /\ KUntil \in DOMAIN F /\ KSign \in DOMAIN F
        /\ F[KUntil] = <<Published[d].until>>
        /\ IsSequence(F[KSign]) /\ Range(F[KSign]) = {Signature(d, s) : s \in 1..k}
        /\ KSource \in DOMAIN O /\ KRouter \in DOMAIN O
        /\ IsSequence(O[KSource]) /\ Range(O[KSource]) = {Voter(d, s) : s \in 1..i}
        /\ IsSequence(O[KRouter]) /\ (j # 0 => O[KRouter] # <<>>)
        /\ \A o \in Range(O[KRouter]) : o.subs[KFlags] # <<>>
  BY DEF Progress
<1> DEFINE P == [O EXCEPT ![KSource] = Append(@, NewObject(NetworkStatus, Line(KSource, w)))]
<1>2. Between(q, F, P)
  <2>1. /\ KSource \notin NetworkStatus.items /\ KSource \in DOMAIN NetworkStatus.object
        /\ NetworkStatus.object[KSource] = KSource
    BY StatusClass, Keywords
  <2> QED BY <1>1, <2>1, ReadObject
<1>3. NewObject(NetworkStatus, Line(KSource, w)) = Voter(d, i + 1)
  BY DEF Voter
<1>4. /\ P[KSource] = Append(O[KSource], Voter(d, i + 1)) /\ P[KRouter] = O[KRouter]
      /\ DOMAIN P = DOMAIN O
  BY <1>1, <1>3, Keywords
<1>5. IsSequence(P[KSource]) /\ Range(P[KSource]) = {Voter(d, s) : s \in 1..i} \cup {Voter(d, i + 1)}
  BY <1>1, <1>4, Appended
<1>6. {Voter(d, s) : s \in 1..i} \cup {Voter(d, i + 1)} = {Voter(d, s) : s \in 1..(i + 1)}
  OBVIOUS
<1> HIDE DEF P, q
<1>7. Progress(q, d, i + 1, j, k)
  BY <1>1, <1>2, <1>4, <1>5, <1>6 DEF Progress
<1> QED BY <1>7 DEF q

(* One more router is read, in its two lines.                              *)
LEMMA RouterRead ==
  ASSUME NEW p, NEW d, NEW i, NEW j, NEW k, Progress(p, d, i, j, k), NEW x, NEW y, NEW m
  PROVE  Progress(ReadLines(NetworkStatus, p, <<Line(KRouter, x), Line(KFlags, y)>>), d, i, m, k)
<1> DEFINE a == ReadLine(NetworkStatus, p, Line(KRouter, x))
           q == ReadLine(NetworkStatus, a, Line(KFlags, y))
           N == NewObject(NetworkStatus, Line(KRouter, x))
<1>1. PICK F, O :
        /\ Between(p, F, O)
        /\ KUntil \in DOMAIN F /\ KSign \in DOMAIN F
        /\ F[KUntil] = <<Published[d].until>>
        /\ IsSequence(F[KSign]) /\ Range(F[KSign]) = {Signature(d, s) : s \in 1..k}
        /\ KSource \in DOMAIN O /\ KRouter \in DOMAIN O
        /\ IsSequence(O[KSource]) /\ Range(O[KSource]) = {Voter(d, s) : s \in 1..i}
        /\ IsSequence(O[KRouter]) /\ (j # 0 => O[KRouter] # <<>>)
        /\ \A o \in Range(O[KRouter]) : o.subs[KFlags] # <<>>
  BY DEF Progress
<1> DEFINE P == [O EXCEPT ![KRouter] = Append(@, N)]
           Q == [P EXCEPT ![KRouter] = GiveLast(@, KFlags, y)]
           M == Given(N, KFlags, y)
<1>2. Between(a, F, P)
  <2>1. /\ KRouter \notin NetworkStatus.items /\ KRouter \in DOMAIN NetworkStatus.object
        /\ NetworkStatus.object[KRouter] = KRouter
    BY StatusClass, Keywords
  <2> QED BY <1>1, <2>1, ReadObject
<1>3. M.subs[KFlags] # <<>>
  <2>1. N = [v |-> x, subs |-> [s \in DOMAIN NetworkStatus.object |-> <<>>]]
    BY DEF NewObject, Line
  <2>2. KFlags \in DOMAIN NetworkStatus.object
    BY StatusClass
  <2> HIDE DEF N
  <2>3. M.subs[KFlags] = Append(<<>>, y)
    BY <2>1, <2>2 DEF Given
  <2> QED BY <2>3
<1> HIDE DEF N
<1>4. P[KRouter] = Append(O[KRouter], N) /\ P[KSource] = O[KSource] /\ DOMAIN P = DOMAIN O
  BY <1>1, Keywords
<1>5. P[KRouter] # <<>>
  BY <1>1, <1>4, Appended
<1>6. Between(q, F, Q)
  <2>1. /\ KFlags \notin NetworkStatus.items /\ KFlags \notin NetworkStatus.multi
        /\ KFlags \in DOMAIN NetworkStatus.object
        /\ NetworkStatus.object[KFlags] = KRouter /\ KRouter # KFlags
    BY StatusClass, Keywords
  <2> HIDE DEF a, P
  <2>2. Between(q, F, [P EXCEPT ![NetworkStatus.object[KFlags]] = GiveLast(@, KFlags, y)])
    BY <1>2, <1>5, <2>1, ReadSub
  <2> QED BY <2>1, <2>2
<1>7. GiveLast(Append(O[KRouter], N), KFlags, y) = Append(O[KRouter], M)
  <2> DEFINE s == O[KRouter]
  <2>1. IsSequence(s)
    BY <1>1
  <2> HIDE DEF s
  <2>2. GiveLast(Append(s, N), KFlags, y) = Append(s, M)
    BY <2>1, GivenLast
  <2> QED BY <2>2 DEF s
<1>8. Q[KRouter] = Append(O[KRouter], M) /\ Q[KSource] = O[KSource] /\ DOMAIN Q = DOMAIN O
  <2> HIDE DEF P, M
  <2> QED BY <1>1, <1>4, <1>7, Keywords
<1>9. ReadLines(NetworkStatus, p, <<Line(KRouter, x), Line(KFlags, y)>>) = q
  <2> HIDE DEF a, q
  <2> QED BY ReadTwo DEF a, q
<1> HIDE DEF P, Q, M, q, a
<1>10. /\ IsSequence(Q[KRouter]) /\ Q[KRouter] # <<>>
       /\ Range(Q[KRouter]) = Range(O[KRouter]) \cup {M}
  BY <1>1, <1>8, Appended
<1>11. \A o \in Range(Q[KRouter]) : o.subs[KFlags] # <<>>
  BY <1>1, <1>3, <1>10
<1>12. Progress(q, d, i, m, k)
  BY <1>1, <1>6, <1>8, <1>10, <1>11 DEF Progress
<1> QED BY <1>9, <1>12

(* One more signature is read, in its block.                               *)
LEMMA SignerRead ==
  ASSUME NEW p, NEW d, NEW i, NEW j, NEW k \in Nat, Progress(p, d, i, j, k), NEW v,
         v = <<Published[d].signers[k + 1], Published[d].gen>>
  PROVE  Progress(ReadLines(NetworkStatus, p, Block(KSign, v, v)), d, i, j, k + 1)
<1> DEFINE q == ReadLines(NetworkStatus, p, Block(KSign, v, v))
<1>1. PICK F, O :
        /\ Between(p, F, O)
        /\ KUntil \in DOMAIN F /\ KSign \in DOMAIN F
        /\ F[KUntil] = <<Published[d].until>>
        /\ IsSequence(F[KSign]) /\ Range(F[KSign]) = {Signature(d, s) : s \in 1..k}
        /\ KSource \in DOMAIN O /\ KRouter \in DOMAIN O
        /\ IsSequence(O[KSource]) /\ Range(O[KSource]) = {Voter(d, s) : s \in 1..i}
        /\ IsSequence(O[KRouter]) /\ (j # 0 => O[KRouter] # <<>>)
        /\ \A o \in Range(O[KRouter]) : o.subs[KFlags] # <<>>
  BY DEF Progress
<1> DEFINE G == Give(F, KSign, Multi(v, v))
<1>2. Between(q, G, O)
  <2>1. KSign \in NetworkStatus.multi /\ KSign \in NetworkStatus.items /\ KSign \notin DOMAIN NetworkStatus.object
    BY StatusClass, Keywords
  <2> QED BY <1>1, <2>1, ReadFieldBlock
<1>3. Multi(v, v) = Signature(d, k + 1)
  BY DEF Signature
<1>4. /\ G[KSign] = Append(F[KSign], Signature(d, k + 1)) /\ G[KUntil] = F[KUntil]
      /\ DOMAIN G = DOMAIN F
  BY <1>1, <1>3, Keywords DEF Give
<1> HIDE DEF G, q
<1>5. IsSequence(G[KSign]) /\ Range(G[KSign]) = {Signature(d, s) : s \in 1..k} \cup {Signature(d, k + 1)}
  BY <1>1, <1>4, Appended
<1>6. {Signature(d, s) : s \in 1..k} \cup {Signature(d, k + 1)} = {Signature(d, s) : s \in 1..(k + 1)}
  OBVIOUS
<1>7. Progress(q, d, i, j, k + 1)
  BY <1>1, <1>2, <1>4, <1>5, <1>6 DEF Progress
<1> QED BY <1>7 DEF q

(* Sequences of lines.                                                     *)
LEMMA TwoLines ==
  ASSUME NEW S, NEW a \in S, NEW b \in S
  PROVE  <<a, b>> \in Seq(S) /\ Len(<<a, b>>) = 2
OBVIOUS

(* Sequences of four lines.                                                *)
LEMMA FourLines ==
  ASSUME NEW S, NEW a \in S, NEW b \in S, NEW c \in S, NEW d \in S
  PROVE  <<a, b, c, d>> \in Seq(S)
OBVIOUS

(* A function on 1..N is a sequence.                                       *)
LEMMA FunctionLines ==
  ASSUME NEW S, NEW N \in Nat, NEW f \in [1..N -> S]
  PROVE  f \in Seq(S) /\ Len(f) = N
OBVIOUS

(* Two sequences joined, line by line.                                     *)
LEMMA Joined ==
  ASSUME NEW S, NEW s \in Seq(S), NEW t \in Seq(S)
  PROVE  /\ s \o t \in Seq(S) /\ Len(s \o t) = Len(s) + Len(t)
         /\ Len(s) \in Nat /\ Len(t) \in Nat
         /\ \A n \in 1..Len(s) : (s \o t)[n] = s[n]
         /\ \A n \in 1..Len(t) : (s \o t)[Len(s) + n] = t[n]
OBVIOUS

(* The parts of the text of a consensus.                                   *)
Stamp(d, i) == <<Published[d].signers[i], Published[d].gen>>
Top(d) == <<Line(KStart, 3), Line(KUntil, Published[d].until)>>
VoterLines(d) == [i \in DOMAIN Published[d].voters |-> Line(KSource, Published[d].voters[i])]
RouterBlocks(d) ==
  [i \in DOMAIN Published[d].routers |->
     <<Line(KRouter, Published[d].routers[i]), Line(KFlags, "flags")>>]
SignerBlocks(d) == [i \in DOMAIN Published[d].signers |-> Block(KSign, Stamp(d, i), Stamp(d, i))]

LaterLines(d) ==
  {Line(KFlags, "flags"), Begin, End}
    \cup {Line(KSource, Published[d].voters[i]) : i \in DOMAIN Published[d].voters}
    \cup {Line(KRouter, Published[d].routers[i]) : i \in DOMAIN Published[d].routers}
    \cup {Line(KSign, Stamp(d, i)) : i \in DOMAIN Published[d].signers}
    \cup {Line("", Stamp(d, i)) : i \in DOMAIN Published[d].signers}
AllLines(d) == {Line(KStart, 3), Line(KUntil, Published[d].until)} \cup LaterLines(d)

(* The lists of a published consensus are sequences.                       *)
LEMMA Lists ==
  ASSUME NEW d \in Docs
  PROVE  /\ Published[d].voters \in Seq(Range(Published[d].voters))
         /\ DOMAIN Published[d].voters = 1..Len(Published[d].voters)
         /\ Len(Published[d].voters) \in Nat
         /\ Published[d].routers \in Seq(Range(Published[d].routers))
         /\ DOMAIN Published[d].routers = 1..Len(Published[d].routers)
         /\ Len(Published[d].routers) \in Nat /\ Len(Published[d].routers) # 0
         /\ Published[d].signers \in Seq(Range(Published[d].signers))
         /\ DOMAIN Published[d].signers = 1..Len(Published[d].signers)
         /\ Len(Published[d].signers) \in Nat
         /\ Published[d].until \in Nat
<1>1. /\ Published[d].voters \in Seq(Range(Published[d].voters))
      /\ Published[d].routers \in Seq(Range(Published[d].routers))
      /\ Published[d].signers \in Seq(Range(Published[d].signers))
      /\ Published[d].routers # <<>> /\ Published[d].until \in Nat
  BY ConsensusAssumption DEF Docs
<1>2. ASSUME NEW s, s \in Seq(Range(s))
      PROVE  DOMAIN s = 1..Len(s) /\ Len(s) \in Nat /\ (s # <<>> => Len(s) # 0)
  BY <1>2
<1> QED BY <1>1, <1>2

(* Its text is the top, the authorities, the routers and the signatures.   *)
LEMMA TextParts ==
  ASSUME NEW d \in Docs
  PROVE  Text(d) = Top(d) \o VoterLines(d) \o FlattenSeq(RouterBlocks(d)) \o FlattenSeq(SignerBlocks(d))
BY DEF Text, Top, VoterLines, RouterBlocks, SignerBlocks, Stamp, Block,
       KStart, KUntil, KSource, KRouter, KFlags, KSign

(* The lines after the top are in any set that holds them all.             *)
LEMMA PartsIn ==
  ASSUME NEW d \in Docs, NEW S, LaterLines(d) \subseteq S
  PROVE  /\ VoterLines(d) \in Seq(S) /\ Len(VoterLines(d)) = Len(Published[d].voters)
         /\ RouterBlocks(d) \in [1..Len(Published[d].routers) -> Seq(S)]
         /\ SignerBlocks(d) \in [1..Len(Published[d].signers) -> Seq(S)]
<1>1. /\ Line(KFlags, "flags") \in S /\ Begin \in S /\ End \in S
      /\ \A i \in DOMAIN Published[d].voters : Line(KSource, Published[d].voters[i]) \in S
      /\ \A i \in DOMAIN Published[d].routers : Line(KRouter, Published[d].routers[i]) \in S
      /\ \A i \in DOMAIN Published[d].signers :
           Line(KSign, Stamp(d, i)) \in S /\ Line("", Stamp(d, i)) \in S
  BY Zenon DEF LaterLines
<1>2. VoterLines(d) \in Seq(S) /\ Len(VoterLines(d)) = Len(Published[d].voters)
  <2>1. VoterLines(d) \in [1..Len(Published[d].voters) -> S]
    BY <1>1, Lists DEF VoterLines
  <2> QED BY <2>1, Lists, FunctionLines
<1>3. RouterBlocks(d) \in [1..Len(Published[d].routers) -> Seq(S)]
  <2>1. ASSUME NEW i \in DOMAIN Published[d].routers
        PROVE  <<Line(KRouter, Published[d].routers[i]), Line(KFlags, "flags")>> \in Seq(S)
    BY <1>1, TwoLines, Zenon
  <2> QED BY <2>1, Lists DEF RouterBlocks
<1>4. SignerBlocks(d) \in [1..Len(Published[d].signers) -> Seq(S)]
  <2>1. ASSUME NEW i \in DOMAIN Published[d].signers
        PROVE  Block(KSign, Stamp(d, i), Stamp(d, i)) \in Seq(S)
    <3>1. Line(KSign, Stamp(d, i)) \in S /\ Begin \in S /\ Line("", Stamp(d, i)) \in S /\ End \in S
      BY <1>1
    <3> QED BY <3>1, FourLines, Zenon DEF Block
  <2> QED BY <2>1, Lists DEF SignerBlocks
<1> QED BY <1>2, <1>3, <1>4

(* The parts of the text are sequences of its lines.                       *)
LEMMA PartsType ==
  ASSUME NEW d \in Docs
  PROVE  /\ Top(d) \in Seq(AllLines(d)) /\ Len(Top(d)) = 2
         /\ VoterLines(d) \in Seq(AllLines(d)) /\ Len(VoterLines(d)) = Len(Published[d].voters)
         /\ RouterBlocks(d) \in [1..Len(Published[d].routers) -> Seq(AllLines(d))]
         /\ SignerBlocks(d) \in [1..Len(Published[d].signers) -> Seq(AllLines(d))]
<1> DEFINE S == AllLines(d)
<1>1. /\ Line(KStart, 3) \in S /\ Line(KUntil, Published[d].until) \in S
      /\ LaterLines(d) \subseteq S
  BY Zenon DEF AllLines
<1> HIDE DEF S
<1>2. Top(d) \in Seq(S) /\ Len(Top(d)) = 2
  BY <1>1, TwoLines, Zenon DEF Top
<1> QED BY <1>1, <1>2, PartsIn DEF S

(* The top is read.                                                        *)
LEMMA TopRead ==
  ASSUME NEW d \in Docs
  PROVE  Progress(ReadLines(NetworkStatus, Unread(NetworkStatus), Top(d)), d, 0, 0, 0)
<1> DEFINE F == [k \in {KStart, KUntil, KSign} |-> <<>>]
           O == [k \in {KSource, KRouter} |-> <<>>]
           u == Published[d].until
           p == State(KStart, AtLine, End, <<>>, F, O)
           l == Line(KStart, 3)
           a == ReadLine(NetworkStatus, p, l)
           b == ReadLine(NetworkStatus, a, Line(KUntil, u))
           G == Give(F, KStart, 3)
           H == Give(G, KUntil, u)
<1>1. Unread(NetworkStatus) = p
  BY StatusClass, StatusStarts DEF Unread, State, AtLine
<1>2. Between(a, G, O)
  <2>1. l.kw = KStart /\ l.v = 3
    BY Lined
  <2>2. p.first = KStart
    BY Parts
  <2>3. [p EXCEPT !.first = NoItem] = State(NoItem, AtLine, End, <<>>, F, O)
    BY SetFirst, Z3
  <2>4. a = CheckItems(NetworkStatus, p, l)
    BY Checked
  <2> HIDE DEF p, l, a
  <2>5. CheckItems(NetworkStatus, p, l) = Take(NetworkStatus, [p EXCEPT !.first = NoItem], l)
    BY <2>1, <2>2, StatusClass DEF CheckItems, NoItem
  <2> DEFINE q == State(NoItem, AtLine, End, <<>>, F, O)
  <2>6. a = Take(NetworkStatus, q, l)
    BY <2>3, <2>4, <2>5
  <2> HIDE DEF q, F, O, G
  <2>7. KStart \notin NetworkStatus.multi /\ KStart \notin DOMAIN NetworkStatus.object
    BY StatusClass, Keywords
  <2>8. Take(NetworkStatus, q, l) = Put(NetworkStatus, q, KStart, 3)
    BY <2>1, <2>7 DEF Take
  <2>9. Put(NetworkStatus, q, KStart, 3) = State(NoItem, AtLine, End, <<>>, G, O)
    BY <2>7, PutField DEF q, G
  <2> QED BY <2>6, <2>8, <2>9 DEF Between
<1>3. Between(b, H, O)
  <2>1. KUntil \in NetworkStatus.items /\ KUntil \notin NetworkStatus.multi
        /\ KUntil \notin DOMAIN NetworkStatus.object
    BY StatusClass, Keywords
  <2> HIDE DEF a, G, O
  <2> QED BY <1>2, <2>1, ReadField
<1>4. ReadLines(NetworkStatus, p, Top(d)) = b
  <2> HIDE DEF p, l, a, b
  <2> QED BY ReadTwo DEF Top, l, a, b
<1>5. /\ KUntil \in DOMAIN H /\ KSign \in DOMAIN H
      /\ H[KUntil] = <<u>> /\ H[KSign] = <<>>
  <2>1. DOMAIN G = DOMAIN F /\ G[KUntil] = <<>> /\ G[KSign] = <<>>
    BY Keywords DEF Give
  <2> HIDE DEF G
  <2>2. DOMAIN H = DOMAIN F /\ H[KUntil] = Append(<<>>, u) /\ H[KSign] = <<>>
    BY <2>1, Keywords DEF Give
  <2> HIDE DEF H
  <2> QED BY <2>2
<1>6. /\ KSource \in DOMAIN O /\ KRouter \in DOMAIN O /\ O[KSource] = <<>> /\ O[KRouter] = <<>>
  OBVIOUS
<1> HIDE DEF H, O, b, p, F
<1>7. Progress(b, d, 0, 0, 0)
  BY <1>3, <1>5, <1>6, Empty DEF Progress, u
<1> QED BY <1>1, <1>4, <1>7

(* Then all authorities.                                                   *)
LEMMA VotersRead ==
  ASSUME NEW p, NEW d \in Docs, Progress(p, d, 0, 0, 0)
  PROVE  Progress(ReadLines(NetworkStatus, p, VoterLines(d)), d, Len(Published[d].voters), 0, 0)
<1> DEFINE v == VoterLines(d)
           N == Len(Published[d].voters)
<1>1. v \in Seq(AllLines(d)) /\ Len(v) = N /\ N \in Nat
  BY PartsType, Lists
<1>2. \A n \in 0..(N - 1) : v[n + 1] = Line(KSource, Published[d].voters[n + 1])
  BY Lists DEF VoterLines
<1> HIDE DEF v, N
<1>3. PICK r : IsReading(r, NetworkStatus, p, v) /\ ReadLines(NetworkStatus, p, v) = r[Len(v)]
  BY <1>1, Reading
<1>4. r[0] = p /\ \A n \in 0..(N - 1) : r[n + 1] = ReadLine(NetworkStatus, r[n], v[n + 1])
  BY <1>1, <1>3 DEF IsReading
<1> DEFINE T == {n \in 0..N : Progress(r[n], d, n, 0, 0)}
<1>5. 0 \in T
  BY <1>1, <1>4
<1>6. ASSUME NEW n \in 0..(N - 1), n \in T PROVE n + 1 \in T
  <2>1. Progress(ReadLine(NetworkStatus, r[n], Line(KSource, Published[d].voters[n + 1])), d, n + 1, 0, 0)
    BY <1>1, <1>6, VoterRead
  <2>2. Progress(r[n + 1], d, n + 1, 0, 0)
    BY <1>2, <1>4, <2>1
  <2> QED BY <1>1, <2>2
<1>7. 0..N \subseteq T
  <2> HIDE DEF T
  <2> QED BY <1>1, <1>5, <1>6, Upward
<1>8. Progress(r[N], d, N, 0, 0)
  BY <1>1, <1>7
<1> QED BY <1>1, <1>3, <1>8 DEF v, N

(* Then all routers.                                                       *)
LEMMA RoutersRead ==
  ASSUME NEW p, NEW d \in Docs, NEW i, Progress(p, d, i, 0, 0)
  PROVE  Progress(ReadLines(NetworkStatus, p, FlattenSeq(RouterBlocks(d))), d, i,
                  Len(Published[d].routers), 0)
<1> DEFINE v == RouterBlocks(d)
           N == Len(Published[d].routers)
<1>1. v \in [1..N -> Seq(AllLines(d))] /\ N \in Nat
  BY PartsType, Lists
<1>2. \A n \in 0..(N - 1) :
        v[n + 1] = <<Line(KRouter, Published[d].routers[n + 1]), Line(KFlags, "flags")>>
  BY Lists DEF RouterBlocks
<1> HIDE DEF v, N
<1>3. PICK g : AreRead(g, NetworkStatus, p, N, v)
  BY <1>1, ReadBlocks
<1>4. \A n \in 0..(N - 1) : g[n + 1] = ReadLines(NetworkStatus, g[n], v[n + 1])
  <2>1. ASSUME NEW n \in 0..(N - 1) PROVE g[n + 1] = ReadLines(NetworkStatus, g[n], v[n + 1])
    <3>1. n + 1 \in 1..N /\ n + 1 - 1 = n
      BY <1>1
    <3>2. g[n + 1] = ReadLines(NetworkStatus, g[n + 1 - 1], v[n + 1])
      BY <1>3, <3>1 DEF AreRead
    <3> QED BY <3>1, <3>2
  <2> QED BY <2>1
<1> DEFINE T == {n \in 0..N : Progress(g[n], d, i, n, 0)}
<1>5. 0 \in T
  BY <1>1, <1>3 DEF AreRead
<1>6. ASSUME NEW n \in 0..(N - 1), n \in T PROVE n + 1 \in T
  <2> DEFINE x == Published[d].routers[n + 1]
             y == "flags"
  <2>1. Progress(g[n], d, i, n, 0)
    BY <1>6
  <2>2. g[n + 1] = ReadLines(NetworkStatus, g[n], <<Line(KRouter, x), Line(KFlags, y)>>)
    BY <1>2, <1>4
  <2> HIDE DEF x, y
  <2>3. Progress(ReadLines(NetworkStatus, g[n], <<Line(KRouter, x), Line(KFlags, y)>>), d, i, n + 1, 0)
    BY <2>1, RouterRead
  <2> QED BY <1>1, <2>2, <2>3
<1>7. 0..N \subseteq T
  <2> HIDE DEF T
  <2> QED BY <1>1, <1>5, <1>6, Upward
<1>8. Progress(g[N], d, i, N, 0)
  BY <1>1, <1>7
<1> QED BY <1>1, <1>3, <1>8 DEF v, N, AreRead

(* Then all signatures.                                                    *)
LEMMA SignersRead ==
  ASSUME NEW p, NEW d \in Docs, NEW i, NEW j, Progress(p, d, i, j, 0)
  PROVE  Progress(ReadLines(NetworkStatus, p, FlattenSeq(SignerBlocks(d))), d, i, j,
                  Len(Published[d].signers))
<1> DEFINE v == SignerBlocks(d)
           N == Len(Published[d].signers)
<1>1. v \in [1..N -> Seq(AllLines(d))] /\ N \in Nat
  BY PartsType, Lists
<1>2. \A n \in 0..(N - 1) : v[n + 1] = Block(KSign, Stamp(d, n + 1), Stamp(d, n + 1))
  BY Lists DEF SignerBlocks
<1> HIDE DEF v, N
<1>3. PICK g : AreRead(g, NetworkStatus, p, N, v)
  BY <1>1, ReadBlocks
<1>4. \A n \in 0..(N - 1) : g[n + 1] = ReadLines(NetworkStatus, g[n], v[n + 1])
  <2>1. ASSUME NEW n \in 0..(N - 1) PROVE g[n + 1] = ReadLines(NetworkStatus, g[n], v[n + 1])
    <3>1. n + 1 \in 1..N /\ n + 1 - 1 = n
      BY <1>1
    <3>2. g[n + 1] = ReadLines(NetworkStatus, g[n + 1 - 1], v[n + 1])
      BY <1>3, <3>1 DEF AreRead
    <3> QED BY <3>1, <3>2
  <2> QED BY <2>1
<1> DEFINE T == {n \in 0..N : Progress(g[n], d, i, j, n)}
<1>5. 0 \in T
  BY <1>1, <1>3 DEF AreRead
<1>6. ASSUME NEW n \in 0..(N - 1), n \in T PROVE n + 1 \in T
  <2> DEFINE x == Stamp(d, n + 1)
  <2>1. Progress(g[n], d, i, j, n) /\ n \in Nat
    BY <1>1, <1>6
  <2>2. g[n + 1] = ReadLines(NetworkStatus, g[n], Block(KSign, x, x))
    BY <1>2, <1>4
  <2>3. x = <<Published[d].signers[n + 1], Published[d].gen>>
    BY DEF Stamp
  <2> HIDE DEF x
  <2>4. Progress(ReadLines(NetworkStatus, g[n], Block(KSign, x, x)), d, i, j, n + 1)
    BY <2>1, <2>3, SignerRead
  <2> QED BY <1>1, <2>2, <2>4
<1>7. 0..N \subseteq T
  <2> HIDE DEF T
  <2> QED BY <1>1, <1>5, <1>6, Upward
<1>8. Progress(g[N], d, i, j, N)
  BY <1>1, <1>7
<1> QED BY <1>1, <1>3, <1>8 DEF v, N, AreRead

(* So the reader gets to the end.                                          *)
LEMMA WholeRead ==
  ASSUME NEW d \in Docs
  PROVE  /\ Text(d) \in Seq(AllLines(d)) /\ Len(Text(d)) \in Nat /\ Len(Text(d)) >= 2
         /\ Progress(ReadLines(NetworkStatus, Unread(NetworkStatus), Text(d)), d,
                     Len(Published[d].voters), Len(Published[d].routers), Len(Published[d].signers))
<1> DEFINE S == AllLines(d)
           a == Top(d)
           b == VoterLines(d)
           c == FlattenSeq(RouterBlocks(d))
           e == FlattenSeq(SignerBlocks(d))
           u == Unread(NetworkStatus)
           L(p, s) == ReadLines(NetworkStatus, p, s)
<1>1. a \in Seq(S) /\ b \in Seq(S) /\ Len(a) = 2
  BY PartsType
<1>2. c \in Seq(S)
  BY PartsType, Lists, ReadBlocks
<1>3. e \in Seq(S)
  BY PartsType, Lists, ReadBlocks
<1>4. Progress(L(L(L(L(u, a), b), c), e), d, Len(Published[d].voters), Len(Published[d].routers),
               Len(Published[d].signers))
  BY TopRead, VotersRead, RoutersRead, SignersRead
<1>5. Text(d) = ((a \o b) \o c) \o e
  BY TextParts
<1> HIDE DEF a, b, c, e, S, u
<1>0. a \in Seq(S) /\ b \in Seq(S) /\ c \in Seq(S) /\ e \in Seq(S) /\ Len(a) = 2
  BY <1>1, <1>2, <1>3
<1> DEFINE ab == a \o b
           abc == ab \o c
           abce == abc \o e
<1>6. ab \in Seq(S) /\ Len(ab) >= 2 /\ L(u, ab) = L(L(u, a), b)
  <2>1. ab \in Seq(S) /\ Len(ab) = Len(a) + Len(b) /\ Len(b) \in Nat
    BY <1>0, Joined
  <2>2. L(u, ab) = L(L(u, a), b)
    BY <1>0, ReadConcat
  <2> HIDE DEF ab
  <2> QED BY <1>0, <2>1, <2>2
<1> HIDE DEF ab
<1>7. abc \in Seq(S) /\ Len(abc) >= 2 /\ L(u, abc) = L(L(u, ab), c)
  <2>1. abc \in Seq(S) /\ Len(abc) = Len(ab) + Len(c) /\ Len(c) \in Nat /\ Len(ab) \in Nat
    BY <1>0, <1>6, Joined
  <2>2. L(u, abc) = L(L(u, ab), c)
    BY <1>0, <1>6, ReadConcat
  <2> HIDE DEF abc
  <2> QED BY <1>6, <2>1, <2>2
<1> HIDE DEF abc
<1>8. /\ abce \in Seq(S) /\ Len(abce) >= 2 /\ Len(abce) \in Nat
      /\ L(u, abce) = L(L(u, abc), e)
  <2>1. abce \in Seq(S) /\ Len(abce) = Len(abc) + Len(e) /\ Len(e) \in Nat /\ Len(abc) \in Nat
    BY <1>0, <1>7, Joined
  <2>2. L(u, abce) = L(L(u, abc), e)
    BY <1>0, <1>7, ReadConcat
  <2> HIDE DEF abce
  <2> QED BY <1>7, <2>1, <2>2
<1>9. Text(d) = abce
  BY <1>5 DEF ab, abc
<1> HIDE DEF abce
<1> QED BY <1>4, <1>6, <1>7, <1>8, <1>9 DEF S, u

(* A whole consensus is read to the end, with all its voters and all its   *)
(* signatures.                                                             *)
LEMMA WholeParsed ==
  ASSUME NEW d \in Docs
  PROVE  /\ Lines(Whole(d)) = Text(d) /\ Whole(d) \in Loads
         /\ ~Raised(Read(Whole(d)))
         /\ Read(Whole(d)).fields["valid-until"] = <<Published[d].until>>
         /\ Voters(Read(Whole(d))) = Range(Published[d].voters)
         /\ Signatures(Read(Whole(d))) = {Signature(d, s) : s \in DOMAIN Published[d].signers}
<1> DEFINE p == ReadLines(NetworkStatus, Unread(NetworkStatus), Text(d))
           nv == Len(Published[d].voters)
           ns == Len(Published[d].signers)
           m == Len(Published[d].routers)
<1>1. Progress(p, d, nv, m, ns) /\ Text(d) \in Seq(AllLines(d)) /\ Len(Text(d)) \in Nat
  BY WholeRead
<1>2. Lines(Whole(d)) = Text(d)
  <2> DEFINE s == Text(d)
  <2>1. s \in Seq(AllLines(d))
    BY <1>1
  <2> HIDE DEF s
  <2>2. SubSeq(s, 1, Len(s)) = s
    BY <2>1
  <2> QED BY <2>2 DEF Lines, Whole, s
<1> HIDE DEF p
<1>3. PICK F, O :
        /\ Between(p, F, O)
        /\ KUntil \in DOMAIN F /\ KSign \in DOMAIN F
        /\ F[KUntil] = <<Published[d].until>>
        /\ IsSequence(F[KSign]) /\ Range(F[KSign]) = {Signature(d, s) : s \in 1..ns}
        /\ KSource \in DOMAIN O /\ KRouter \in DOMAIN O
        /\ IsSequence(O[KSource]) /\ Range(O[KSource]) = {Voter(d, s) : s \in 1..nv}
        /\ IsSequence(O[KRouter]) /\ (m # 0 => O[KRouter] # <<>>)
        /\ \A o \in Range(O[KRouter]) : o.subs[KFlags] # <<>>
  BY <1>1 DEF Progress
<1>4. p.mode = AtLine /\ p.fields = F /\ p.objs = O
  BY <1>3, Parts DEF Between
<1>5. Parse(NetworkStatus, Text(d)) = p
  <2>1. O[KRouter] # <<>>
    BY <1>3, Lists
  <2>2. FixObjects(NetworkStatus, p) = p
    BY <1>3, <1>4, <2>1, StatusClass DEF FixObjects
  <2> QED BY <1>4, <2>2 DEF Parse, p, AtLine
<1>6. Read(Whole(d)) = p
  BY <1>2, <1>5 DEF Read
<1>7. ~Raised(p)
  BY <1>4 DEF Raised, AtLine
<1>8. Whole(d) \in Loads
  <2>1. Whole(d) \in Raws
    BY <1>1 DEF Whole, Raws
  <2> QED BY <1>6, <1>7, <2>1 DEF Loads
<1>9. Voters(p) = Range(Published[d].voters)
  <2>1. Voters(p) = {o.v : o \in {Voter(d, s) : s \in 1..nv}}
    BY <1>3, <1>4 DEF Voters, KSource
  <2>2. \A s : Voter(d, s).v = Published[d].voters[s]
    BY DEF Voter, NewObject, Line
  <2>3. Range(Published[d].voters) = {Published[d].voters[s] : s \in 1..nv}
    BY Lists DEF Range
  <2> QED BY <2>1, <2>2, <2>3
<1>10. Signatures(p) = {Signature(d, s) : s \in DOMAIN Published[d].signers}
  BY <1>3, <1>4, Lists DEF Signatures, KSign
<1> QED BY <1>2, <1>3, <1>4, <1>6, <1>7, <1>8, <1>9, <1>10 DEF KUntil

-----------------------------------------------------------------------------
(* The signatures that count for verify are those of signers that are      *)
(* voters and known, no identity twice.                                    *)
LEMMA TrustedSigners ==
  ASSUME NEW d \in Docs, NEW s \in Trusted(d)
  PROVE  /\ s \in {Signature(d, i) : i \in DOMAIN Published[d].signers}
         /\ s.arg[1] \in Range(Published[d].signers) \cap Range(Published[d].voters) \cap Idents
<1>1. s \in Signatures(Read(Whole(d))) /\ s.arg[1] \in Voters(Read(Whole(d))) \cap Idents
  BY DEF Trusted
<1>2. s \in {Signature(d, i) : i \in DOMAIN Published[d].signers}
      /\ s.arg[1] \in Range(Published[d].voters) \cap Idents
  BY <1>1, WholeParsed
<1>3. PICK i \in DOMAIN Published[d].signers : s = Signature(d, i)
  BY <1>2
<1>4. s.arg[1] = Published[d].signers[i]
  BY <1>3 DEF Signature, Multi
<1>5. Published[d].signers[i] \in Range(Published[d].signers)
  BY DEF Range
<1> QED BY <1>2, <1>4, <1>5

(* The known voters that signed a consensus.                               *)
Signers(d) == Range(Published[d].signers) \cap Range(Published[d].voters) \cap Idents

(* Different signatures that count are of different ones.                  *)
LEMMA SignersDiffer ==
  ASSUME NEW d \in Docs, NEW c
  PROVE  /\ [s \in Signed(d, c) |-> s.arg[1]] \in Injection(Signed(d, c), Signers(d))
         /\ IsFiniteSet(Signers(d)) /\ Cardinality(Signers(d)) \in Nat /\ Count \in Nat
<1> DEFINE S == Signed(d, c)
           T == Signers(d)
           f == [s \in S |-> s.arg[1]]
<1>1. ASSUME NEW s \in S
      PROVE  s \in {Signature(d, i) : i \in DOMAIN Published[d].signers} /\ s.arg[1] \in T
  <2>1. s \in Trusted(d)
    BY DEF Signed
  <2> QED BY <2>1, TrustedSigners DEF Signers
<1>2. ASSUME NEW a \in S, NEW b \in S, a.arg[1] = b.arg[1] PROVE a = b
  <2>1. PICK i, j : a = Signature(d, i) /\ b = Signature(d, j)
    BY <1>1
  <2>2. Published[d].signers[i] = Published[d].signers[j]
    BY <1>2, <2>1 DEF Signature, Multi
  <2> QED BY <2>1, <2>2 DEF Signature
<1>3. IsFiniteSet(T)
  <2>1. IsFiniteSet(Idents) /\ T \in SUBSET Idents
    BY ConsensusAssumption DEF Signers
  <2> QED BY <2>1, FS_Subset
<1>4. Cardinality(T) \in Nat /\ Count \in Nat
  BY <1>3, ConsensusAssumption, FS_CardinalityType DEF Count
<1> HIDE DEF S, T
<1>5. f \in Injection(S, T)
  BY <1>1, <1>2 DEF Injection, IsInjective
<1> QED BY <1>3, <1>4, <1>5 DEF S, T

(* What verify accepts has the signatures of a majority, whatever the keys *)
(* were.                                                                   *)
LEMMA VerifiedMajority ==
  ASSUME NEW d, NEW c, Verified(d, c)
  PROVE  d \in Docs /\ c \in LoadsCerts /\ Majority(d)
<1>1. d \in Docs /\ c \in LoadsCerts /\ Verifies(d, c)
  BY DEF Verified, Verifying
<1> DEFINE S == Signed(d, c)
           T == Signers(d)
<1>2. IsFiniteSet(S) /\ Cardinality(S) <= Cardinality(T) /\ Cardinality(T) \in Nat /\ Count \in Nat
  BY <1>1, SignersDiffer, FS_Injection
<1>3. 2 * Cardinality(S) > Count
  BY <1>1 DEF Verifies
<1>4. Cardinality(S) \in Nat
  BY <1>2, FS_CardinalityType
<1> HIDE DEF S, T
<1>5. 2 * Cardinality(T) > Count
  BY <1>2, <1>3, <1>4
<1> QED BY <1>1, <1>5 DEF Majority, T, Signers

(* A text that was cut is of the same consensus.                           *)
LEMMA Prefix ==
  ASSUME NEW d, NEW raw \in Cut(Whole(d))
  PROVE  raw.doc = d
<1>1. PICK n : raw = [Whole(d) EXCEPT !.n = n]
  BY DEF Cut
<1>2. raw = [doc |-> d, n |-> n]
  BY <1>1 DEF Whole
<1> QED BY <1>2

(* What a task that is served with a consensus keeps of it.                *)
LEMMA ServedOf ==
  ASSUME NEW t, NEW x, Return(t, x) PROVE served' \in {served, x}
BY DEF Return

(* What a step may hold is what it held, or a verified consensus.          *)
LEMMA GotHolds ==
  ASSUME NEW t, NEW d, Got(t, d)
  PROVE  \/ UNCHANGED <<document, status, served>>
         \/ /\ Verified(d, certs) /\ document' = Whole(d) /\ status' = Whole(d)
            /\ served' \in {served, Whole(d)}
BY ServedOf DEF Got, Use

(* So is a whole one.                                                      *)
LEMMA WholeDoc == ASSUME NEW d PROVE Whole(d).doc = d
BY DEF Whole

(* HeldIsMajority: what is used, kept or served has the signatures of more *)
(* than half of the authorities, for every list of consensuses, keys and   *)
(* authorities, every number of attempts and of crashes.                   *)
THEOREM MajorityHeld == Spec => []HeldIsMajority
<1>1. Init => HeldIsMajority
  BY DEF Init, HeldIsMajority
<1>2. ASSUME HeldIsMajority, [Next]_vars PROVE HeldIsMajority'
  <2> DEFINE Good(raw) == raw # None => Majority(raw.doc)
  <2>0. Good(document) /\ Good(served) /\ Good(status)
    BY <1>2 DEF HeldIsMajority
  <2>1. ASSUME NEW d, NEW c, Verified(d, c) PROVE Good(Whole(d))
    BY <2>1, WholeDoc, VerifiedMajority
  <2>2. ASSUME NEW d, NEW c, Verified(d, c), NEW raw \in Cut(Whole(d)) PROVE Good(raw)
    BY <2>2, Prefix, VerifiedMajority
  <2> SUFFICES Good(document') /\ Good(served') /\ Good(status')
    BY DEF HeldIsMajority, Majority
  <2>3. Good(None)
    OBVIOUS
  <2> HIDE DEF Good
  <2>4. CASE UNCHANGED <<document, served, status>>
    BY <2>0, <2>4
  <2>5. ASSUME NEW t \in Tasks, Enter(t) PROVE Good(document') /\ Good(served') /\ Good(status')
    BY <2>0, <2>5, ServedOf DEF Enter, disk
  <2>6. ASSUME NEW t \in Tasks, NEW d, Got(t, d)
        PROVE  Good(document') /\ Good(served') /\ Good(status')
    BY <2>0, <2>1, <2>6, GotHolds
  <2>7. ASSUME NEW t \in Tasks, GetWhole(t) PROVE Good(document') /\ Good(served') /\ Good(status')
    BY <2>6, <2>7 DEF GetWhole
  <2>8. ASSUME NEW t \in Tasks, GetDiff(t) PROVE Good(document') /\ Good(served') /\ Good(status')
    BY <2>0, <2>6, <2>8 DEF GetDiff
  <2>9. ASSUME NEW t \in Tasks, GetKeys(t) PROVE Good(document') /\ Good(served') /\ Good(status')
    <3>1. PICK d, c : \/ UNCHANGED <<document, status, served>>
                      \/ Verified(d, c) /\ Use(t, d)
      BY <2>9 DEF GetKeys
    <3> QED BY <2>0, <2>1, <3>1, ServedOf DEF Use
  <2>10. ASSUME Crash PROVE Good(document') /\ Good(served') /\ Good(status')
    <3>1. document' = None /\ served' = None
      BY <2>10 DEF Crash
    <3>2. \/ UNCHANGED status
          \/ \E d, c : Verified(d, c) /\ status' \in Cut(Whole(d))
      BY <2>10 DEF Crash, CutStatus, CutKeys, disk
    <3> QED BY <2>0, <2>2, <2>3, <3>1, <3>2
  <2>11. ASSUME Start PROVE Good(document') /\ Good(served') /\ Good(status')
    BY <2>0, <2>3, <2>11 DEF Start, disk
  <2>12. ASSUME NEW t \in Tasks, GetFails(t) \/ GetKeysFails(t) \/ Cancel(t) \/ Call(t)
         PROVE  UNCHANGED <<document, served, status>>
    BY <2>12 DEF GetFails, GetKeysFails, Cancel, Call, disk, memory
  <2>13. Tick => UNCHANGED <<document, served, status>>
    BY DEF Tick, disk, memory
  <2>14. UNCHANGED vars => UNCHANGED <<document, served, status>>
    BY DEF vars, disk, memory
  <2> QED BY <1>2, <2>4, <2>5, <2>7, <2>8, <2>9, <2>10, <2>11, <2>12, <2>13, <2>14
          DEF Next, Directory
<1> QED BY <1>1, <1>2, PTL DEF Spec

-----------------------------------------------------------------------------
(* Reading the text of a list of key certificates.                         *)
KCert   == "dir-key-certificate-version"
KFinger == "fingerprint"
KKey    == "dir-signing-key"

(* The items of a list of certificates.                                    *)
LEMMA CertClass ==
  /\ DirKeyCertificateList.start = NoItem
  /\ DirKeyCertificateList.items = {} /\ DirKeyCertificateList.masks = {}
  /\ DirKeyCertificateList.multi = {KKey}
  /\ DOMAIN DirKeyCertificateList.object = {KCert, KFinger, KKey}
  /\ DirKeyCertificateList.object[KCert] = KCert /\ DirKeyCertificateList.object[KFinger] = KCert
  /\ DirKeyCertificateList.object[KKey] = KCert
  /\ DOMAIN DirKeyCertificateList.built = {}
BY DEF DirKeyCertificateList, KCert, KFinger, KKey, NoItem

(* Its keywords differ.                                                    *)
LEMMA CertKeywords == KCert \notin {KFinger, KKey} /\ KFinger # KKey
BY DEF KCert, KFinger, KKey

(* What begins an object in it.                                            *)
LEMMA CertStarts == Starts(DirKeyCertificateList) = {KCert}
BY CertClass DEF Starts, Range

Bare           == NewObject(DirKeyCertificateList, Line(KCert, 3))
Certificate(k) == Given(Given(Bare, KFinger, k[1]), KKey, Multi(<<>>, k))

(* A field given to an object.                                             *)
LEMMA GivenSubs ==
  ASSUME NEW w, NEW f, NEW kw, NEW v
  PROVE  Given([v |-> w, subs |-> f], kw, v) = [v |-> w, subs |-> Give(f, kw, v)]
<1> DEFINE o == [v |-> w, subs |-> f]
           y == Append(f[kw], v)
<1>1. o.subs = f
  BY Z3
<1> HIDE DEF y
<1>2. [o EXCEPT !.subs[kw] = y] = [v |-> w, subs |-> [f EXCEPT ![kw] = y]]
  BY Z3
<1> HIDE DEF o
<1>3. Given(o, kw, v) = [o EXCEPT !.subs[kw] = y]
  BY <1>1, Z3 DEF Given, y
<1>4. Give(f, kw, v) = [f EXCEPT ![kw] = y]
  BY DEF Give, y
<1> QED BY <1>2, <1>3, <1>4 DEF o

(* The two fields of a certificate.                                        *)
LEMMA CertificateOf ==
  ASSUME NEW k
  PROVE  /\ Certificate(k).subs[KFinger] = <<k[1]>>
         /\ Certificate(k).subs[KKey] = <<Multi(<<>>, k)>>
<1> DEFINE x == k[1]
           y == Multi(<<>>, k)
           e == <<>>
           a == Given(Bare, KFinger, x)
           b == Given(a, KKey, y)
           K == {KCert, KFinger, KKey}
<1>1. Bare = [v |-> 3, subs |-> [s \in K |-> e]]
  BY CertClass, Lined DEF Bare, NewObject
<1>2. KFinger \in K /\ KKey \in K
  OBVIOUS
<1> HIDE DEF x, y, e, a, b, K
<1>3. Bare.subs = [s \in K |-> e]
  BY <1>1
<1> DEFINE f == [s \in K |-> e]
           g == Give(f, KFinger, x)
           h == Give(g, KKey, y)
<1>4. Bare = [v |-> 3, subs |-> f]
  BY <1>1
<1>5. a = [v |-> 3, subs |-> g]
  <2> DEFINE w == 3
  <2> HIDE DEF w, f
  <2>1. Given([v |-> w, subs |-> f], KFinger, x) = [v |-> w, subs |-> g]
    BY GivenSubs
  <2> QED BY <1>4, <2>1 DEF w, a
<1>6. g[KFinger] = Append(e, x) /\ g[KKey] = e /\ DOMAIN g = K
  BY <1>2, CertKeywords DEF Give
<1> HIDE DEF g
<1>7. b.subs = h
  BY <1>5 DEF b, Given, Give
<1>8. h[KFinger] = Append(e, x) /\ h[KKey] = Append(e, y)
  BY <1>2, <1>6, CertKeywords DEF Give
<1>9. Append(e, x) = <<x>> /\ Append(e, y) = <<y>>
  BY DEF e
<1> QED BY <1>7, <1>8, <1>9 DEF Certificate, a, b, x, y

(* What the reader has when it has read so many certificates.              *)
CertProgress(p, ks, n) ==
  \E F, O : /\ Between(p, F, O) /\ KCert \in DOMAIN O
            /\ IsSequence(O[KCert]) /\ Range(O[KCert]) = {Certificate(ks[s]) : s \in 1..n}

CertLine(k) ==
  <<Line(KCert, 3), Line(KFinger, k[1]), Line(KKey, <<>>), Begin, Line("", k), End>>

(* One more certificate is read, in its lines.                             *)
LEMMA CertRead ==
  ASSUME NEW p, NEW ks, NEW n \in Nat, CertProgress(p, ks, n), NEW k, k = ks[n + 1]
  PROVE  CertProgress(ReadLines(DirKeyCertificateList, p, CertLine(k)), ks, n + 1)
<1> DEFINE class == DirKeyCertificateList
           x == k[1]
           y == Multi(<<>>, k)
           a == ReadLine(class, p, Line(KCert, 3))
           b == ReadLine(class, a, Line(KFinger, x))
           q == ReadLines(class, b, Block(KKey, <<>>, k))
           N == Given(Bare, KFinger, x)
           M == Given(N, KKey, y)
<1>1. PICK F, O : /\ Between(p, F, O) /\ KCert \in DOMAIN O
                  /\ IsSequence(O[KCert]) /\ Range(O[KCert]) = {Certificate(ks[s]) : s \in 1..n}
  BY DEF CertProgress
<1> DEFINE L == O[KCert]
           P == [O EXCEPT ![KCert] = Append(@, Bare)]
           Q == [P EXCEPT ![KCert] = GiveLast(@, KFinger, x)]
           R == [Q EXCEPT ![KCert] = GiveLast(@, KKey, y)]
<1>0. IsSequence(L)
  BY <1>1
<1> HIDE DEF N, M, L
<1>2. Between(a, F, P)
  <2>1. KCert \notin class.items /\ KCert \in DOMAIN class.object /\ class.object[KCert] = KCert
    BY CertClass
  <2> QED BY <1>1, <2>1, ReadObject DEF Bare
<1>3. P[KCert] = Append(L, Bare) /\ P[KCert] # <<>> /\ DOMAIN P = DOMAIN O
  <2>1. P[KCert] = Append(L, Bare) /\ DOMAIN P = DOMAIN O
    BY <1>1 DEF L
  <2> HIDE DEF P
  <2> QED BY <1>0, <2>1, Appended
<1>4. Between(b, F, Q)
  <2>1. /\ KFinger \notin class.items /\ KFinger \notin class.multi /\ KFinger \in DOMAIN class.object
        /\ class.object[KFinger] = KCert /\ KCert # KFinger
    BY CertClass, CertKeywords
  <2> HIDE DEF a, P, class
  <2>2. Between(b, F, [P EXCEPT ![class.object[KFinger]] = GiveLast(@, KFinger, x)])
    BY <1>2, <1>3, <2>1, ReadSub
  <2> QED BY <2>1, <2>2
<1>5. Q[KCert] = Append(L, N) /\ Q[KCert] # <<>> /\ DOMAIN Q = DOMAIN O
  <2>1. Q[KCert] = GiveLast(Append(L, Bare), KFinger, x) /\ DOMAIN Q = DOMAIN O
    <3> HIDE DEF P
    <3> QED BY <1>1, <1>3
  <2> HIDE DEF Q
  <2>2. GiveLast(Append(L, Bare), KFinger, x) = Append(L, N)
    BY <1>0, GivenLast DEF N
  <2> QED BY <1>0, <2>1, <2>2, Appended
<1>6. Between(q, F, R)
  <2>1. /\ KKey \in class.multi /\ KKey \notin class.items /\ KKey \in DOMAIN class.object
        /\ class.object[KKey] = KCert /\ KCert # KKey
    BY CertClass, CertKeywords
  <2> DEFINE e == <<>>
  <2>2. q = ReadLines(class, b, Block(KKey, e, k)) /\ y = Multi(e, k)
    OBVIOUS
  <2> HIDE DEF b, Q, class, q, e, y
  <2>3. Between(ReadLines(class, b, Block(KKey, e, k)), F,
                [Q EXCEPT ![class.object[KKey]] = GiveLast(@, KKey, Multi(e, k))])
    BY <1>4, <1>5, <2>1, ReadSubBlock
  <2> QED BY <2>1, <2>2, <2>3
<1>7. R[KCert] = Append(L, M) /\ DOMAIN R = DOMAIN O
  <2>1. R[KCert] = GiveLast(Append(L, N), KKey, y) /\ DOMAIN R = DOMAIN O
    <3> HIDE DEF Q
    <3> QED BY <1>1, <1>5
  <2> HIDE DEF R, y
  <2>2. GiveLast(Append(L, N), KKey, y) = Append(L, M)
    BY <1>0, GivenLast DEF M
  <2> QED BY <2>1, <2>2
<1>8. M = Certificate(ks[n + 1])
  BY DEF M, N, Certificate
<1> HIDE DEF R
<1>9. IsSequence(R[KCert]) /\ Range(R[KCert]) = {Certificate(ks[s]) : s \in 1..(n + 1)}
  <2>1. IsSequence(R[KCert]) /\ Range(R[KCert]) = Range(L) \cup {M}
    BY <1>0, <1>7, Appended
  <2>2. {Certificate(ks[s]) : s \in 1..n} \cup {Certificate(ks[n + 1])}
          = {Certificate(ks[s]) : s \in 1..(n + 1)}
    OBVIOUS
  <2> QED BY <1>1, <1>8, <2>1, <2>2 DEF L
<1>10. ReadLines(class, p, CertLine(k)) = q
  <2> DEFINE l1 == Line(KCert, 3)
             l2 == Line(KFinger, x)
             l3 == Line(KKey, <<>>)
             l5 == Line("", k)
             S == {l1, l2, l3, Begin, l5, End}
             two == <<l1, l2>>
             four == <<l3, Begin, l5, End>>
  <2>1. CertLine(k) = two \o four
    <3>1. CertLine(k) = <<l1, l2, l3, Begin, l5, End>>
      BY DEF CertLine
    <3> HIDE DEF l1, l2, l3, l5
    <3>2. <<l1, l2, l3, Begin, l5, End>> = two \o four
      OBVIOUS
    <3> QED BY <3>1, <3>2
  <2>2. four = Block(KKey, <<>>, k)
    BY DEF Block
  <2>3. ReadLines(class, p, two) = b
    <3> HIDE DEF class, l1, l2, a, b
    <3> QED BY ReadTwo DEF a, b, l1, l2
  <2>4. two \in Seq(S) /\ four \in Seq(S)
    <3> HIDE DEF l1, l2, l3, l5
    <3> QED OBVIOUS
  <2> HIDE DEF two, four, S, class, b
  <2>5. ReadLines(class, p, two \o four) = ReadLines(class, ReadLines(class, p, two), four)
    BY <2>4, ReadConcat
  <2> QED BY <2>1, <2>2, <2>3, <2>5 DEF q
<1> HIDE DEF q, class
<1>11. CertProgress(q, ks, n + 1)
  BY <1>1, <1>6, <1>7, <1>9 DEF CertProgress
<1> QED BY <1>10, <1>11 DEF class

(* At first none has been.                                                 *)
LEMMA CertsUnread ==
  ASSUME NEW ks PROVE CertProgress(Unread(DirKeyCertificateList), ks, 0)
<1> DEFINE F == [k \in {} |-> <<>>]
           O == [k \in {KCert} |-> <<>>]
<1>1. Unread(DirKeyCertificateList) = State(NoItem, AtLine, End, <<>>, F, O)
  BY CertClass, CertStarts DEF Unread, State, AtLine
<1>2. KCert \in DOMAIN O /\ O[KCert] = <<>>
  OBVIOUS
<1> HIDE DEF F, O
<1>3. Between(Unread(DirKeyCertificateList), F, O)
  BY <1>1 DEF Between
<1> QED BY <1>2, <1>3, Empty DEF CertProgress

CertBlocks(ks) == [i \in DOMAIN ks |-> CertLine(ks[i])]
KeyLines(ks) ==
  {Line(KCert, 3), Line(KKey, <<>>), Begin, End}
    \cup {Line(KFinger, ks[i][1]) : i \in DOMAIN ks} \cup {Line("", ks[i]) : i \in DOMAIN ks}

(* The certificates are blocks of lines.                                   *)
LEMMA CertBlocksType ==
  ASSUME NEW K, NEW ks \in Seq(K)
  PROVE  CertBlocks(ks) \in [1..Len(ks) -> Seq(KeyLines(ks))]
<1> DEFINE S == KeyLines(ks)
<1>1. /\ Line(KCert, 3) \in S /\ Line(KKey, <<>>) \in S /\ Begin \in S /\ End \in S
      /\ \A i \in DOMAIN ks : Line(KFinger, ks[i][1]) \in S /\ Line("", ks[i]) \in S
  BY Zenon DEF KeyLines
<1> HIDE DEF S
<1>2. ASSUME NEW i \in DOMAIN ks PROVE CertLine(ks[i]) \in Seq(S)
  <2> DEFINE l1 == Line(KCert, 3)
             l2 == Line(KFinger, ks[i][1])
             l3 == Line(KKey, <<>>)
             l5 == Line("", ks[i])
  <2>1. l1 \in S /\ l2 \in S /\ l3 \in S /\ l5 \in S /\ Begin \in S /\ End \in S
    BY <1>1
  <2>2. CertLine(ks[i]) = <<l1, l2, l3, Begin, l5, End>>
    BY DEF CertLine
  <2> HIDE DEF l1, l2, l3, l5
  <2> QED BY <2>1, <2>2
<1>3. DOMAIN ks = 1..Len(ks)
  OBVIOUS
<1> QED BY <1>2, <1>3 DEF CertBlocks, S

(* A whole list of certificates is read to the end, with every key of it;  *)
(* and the text of an error is a list of none.                             *)
LEMMA CertsParsed ==
  ASSUME NEW K, NEW ks \in Seq(K)
  PROVE  /\ CertLines(WholeCerts(ks)) = KeyText(ks) /\ Len(KeyText(ks)) \in Nat
         /\ ~Raised(ReadCerts(WholeCerts(ks)))
         /\ Certs(WholeCerts(ks)) = {Certificate(ks[i]) : i \in 1..Len(ks)}
<1> DEFINE class == DirKeyCertificateList
           u == Unread(class)
           p == ReadLines(class, u, KeyText(ks))
           N == Len(ks)
<1>0. N \in Nat /\ DOMAIN ks = 1..N
  OBVIOUS
<1>1. (\E S : KeyText(ks) \in Seq(S)) /\ CertProgress(p, ks, N)
  <2>1. CASE ks = <<>>
    <3> DEFINE l == Line("404", <<>>)
    <3>1. KeyText(ks) = <<l>> /\ N = 0
      BY <2>1 DEF KeyText
    <3>2. l.kw = "404"
      BY Lined
    <3> HIDE DEF l
    <3>3. PICK F, O : Between(u, F, O)
      BY CertsUnread DEF CertProgress
    <3>4. PICK open, block : u = State(NoItem, AtLine, open, block, F, O)
      BY <3>3 DEF Between
    <3> HIDE DEF u
    <3>5. p = ReadLine(class, u, l)
      BY <3>1, ReadOne
    <3>6. ReadLine(class, u, l) = CheckItems(class, u, l)
      BY <3>4, Checked
    <3>7. /\ l.kw \notin class.items /\ l.kw \notin DOMAIN class.object /\ l.kw \notin class.masks
      BY <3>2, CertClass DEF KCert, KFinger, KKey
    <3> HIDE DEF class, p
    <3>8. CheckItems(class, u, l) = u
      BY <3>7 DEF CheckItems
    <3>9. p = u
      BY <3>5, <3>6, <3>8
    <3>10. <<l>> \in Seq({l})
      OBVIOUS
    <3>11. CertProgress(u, ks, 0)
      BY CertsUnread DEF u, class
    <3> QED BY <3>1, <3>9, <3>10, <3>11
  <2>2. CASE ks # <<>>
    <3> DEFINE v == CertBlocks(ks)
               S == KeyLines(ks)
    <3>1. KeyText(ks) = FlattenSeq(v)
      BY <2>2 DEF KeyText, CertBlocks, CertLine, KCert, KFinger, KKey
    <3>2. v \in [1..N -> Seq(S)]
      BY CertBlocksType
    <3>3. \A n \in 0..(N - 1) : v[n + 1] = CertLine(ks[n + 1])
      BY <1>0 DEF CertBlocks
    <3>4. CertProgress(u, ks, 0)
      BY CertsUnread
    <3> HIDE DEF v, S, u, class, N
    <3>5. FlattenSeq(v) \in Seq(S) /\ \E g : AreRead(g, class, u, N, v)
      BY <1>0, <3>2, ReadBlocks
    <3>6. PICK g : AreRead(g, class, u, N, v)
      BY <3>5
    <3>7. g[0] = u /\ \A n \in 0..(N - 1) : g[n + 1] = ReadLines(class, g[n], CertLine(ks[n + 1]))
      <4>1. ASSUME NEW n \in 0..(N - 1) PROVE g[n + 1] = ReadLines(class, g[n], v[n + 1])
        <5>1. n + 1 \in 1..N /\ n + 1 - 1 = n
          BY <1>0
        <5>2. g[n + 1] = ReadLines(class, g[n + 1 - 1], v[n + 1])
          BY <3>6, <5>1 DEF AreRead
        <5> QED BY <5>1, <5>2
      <4> QED BY <3>3, <3>6, <4>1 DEF AreRead
    <3> DEFINE T == {n \in 0..N : CertProgress(g[n], ks, n)}
    <3>8. 0 \in T
      BY <1>0, <3>4, <3>7
    <3>9. ASSUME NEW n \in 0..(N - 1), n \in T PROVE n + 1 \in T
      <4> DEFINE k == ks[n + 1]
      <4>1. CertProgress(g[n], ks, n) /\ n \in Nat /\ n + 1 \in 0..N
        BY <1>0, <3>9
      <4>2. k = ks[n + 1]
        OBVIOUS
      <4>3. g[n + 1] = ReadLines(class, g[n], CertLine(k))
        BY <3>7
      <4> HIDE DEF k
      <4>4. CertProgress(g[n + 1], ks, n + 1)
        BY <4>1, <4>2, <4>3, CertRead DEF class
      <4> QED BY <4>1, <4>4
    <3>10. 0..N \subseteq T
      <4> HIDE DEF T
      <4> QED BY <1>0, <3>8, <3>9, Upward
    <3>11. CertProgress(g[N], ks, N)
      BY <1>0, <3>10
    <3>12. p = g[N]
      BY <3>1, <3>6 DEF AreRead
    <3> HIDE DEF p
    <3> QED BY <3>1, <3>5, <3>11, <3>12
  <2> QED BY <2>1, <2>2
<1>2. CertLines(WholeCerts(ks)) = KeyText(ks) /\ Len(KeyText(ks)) \in Nat
  <2> DEFINE s == KeyText(ks)
  <2>1. PICK S : s \in Seq(S)
    BY <1>1
  <2> HIDE DEF s
  <2>2. SubSeq(s, 1, Len(s)) = s /\ Len(s) \in Nat
    BY <2>1
  <2> QED BY <2>2 DEF CertLines, WholeCerts, s
<1> HIDE DEF p, u, N
<1>3. PICK F, O : /\ Between(p, F, O) /\ KCert \in DOMAIN O
                  /\ IsSequence(O[KCert]) /\ Range(O[KCert]) = {Certificate(ks[s]) : s \in 1..N}
  BY <1>1 DEF CertProgress
<1>4. p.mode = AtLine /\ p.objs = O
  BY <1>3, Parts DEF Between
<1>5. Parse(class, KeyText(ks)) = p
  <2>1. FixObjects(class, p) = p
    BY CertClass DEF FixObjects
  <2> QED BY <1>4, <2>1 DEF Parse, p, u, AtLine
<1>6. ReadCerts(WholeCerts(ks)) = p
  BY <1>2, <1>5 DEF ReadCerts
<1>7. ~Raised(p)
  BY <1>4 DEF Raised, AtLine
<1>8. Certs(WholeCerts(ks)) = {Certificate(ks[i]) : i \in 1..N}
  BY <1>3, <1>4, <1>6 DEF Certs, KCert
<1> QED BY <1>2, <1>6, <1>7, <1>8 DEF N

-----------------------------------------------------------------------------
(* The queue for the lock.                                                 *)
LEMMA Removed ==
  ASSUME NEW S, NEW q \in Seq(S), NEW i \in DOMAIN q
  PROVE  /\ RemoveAt(q, i) \in Seq(S) /\ Len(RemoveAt(q, i)) = Len(q) - 1
         /\ \A j \in 1..(Len(q) - 1) : RemoveAt(q, i)[j] = IF j < i THEN q[j] ELSE q[j + 1]
<1> DEFINE a == SubSeq(q, 1, i - 1)
           b == SubSeq(q, i + 1, Len(q))
<1>1. i \in 1..Len(q) /\ Len(q) \in Nat
  OBVIOUS
<1>2. a \in Seq(S) /\ Len(a) = i - 1 /\ \A j \in 1..(i - 1) : a[j] = q[j]
  BY <1>1
<1>3. b \in Seq(S) /\ Len(b) = Len(q) - i /\ \A j \in 1..(Len(q) - i) : b[j] = q[j + i]
  BY <1>1
<1> HIDE DEF a, b
<1>0. a \in Seq(S) /\ b \in Seq(S)
  BY <1>2, <1>3
<1>4. /\ a \o b \in Seq(S) /\ Len(a \o b) = Len(a) + Len(b)
      /\ \A j \in 1..Len(a) : (a \o b)[j] = a[j]
      /\ \A j \in 1..Len(b) : (a \o b)[Len(a) + j] = b[j]
  BY <1>0, Joined
<1>5. ASSUME NEW j \in 1..(Len(q) - 1) PROVE (a \o b)[j] = IF j < i THEN q[j] ELSE q[j + 1]
  <2>1. CASE j < i
    BY <1>1, <1>2, <1>4, <2>1
  <2>2. CASE ~(j < i)
    <3> DEFINE k == j - (i - 1)
    <3>1. k \in 1..Len(b) /\ Len(a) + k = j /\ k + i = j + 1
      BY <1>1, <1>2, <1>3, <2>2
    <3> HIDE DEF k
    <3>2. (a \o b)[Len(a) + k] = b[k] /\ b[k] = q[k + i]
      BY <1>3, <1>4, <3>1
    <3> QED BY <2>2, <3>1, <3>2
  <2> QED BY <2>1, <2>2
<1>6. Len(a \o b) = Len(q) - 1
  BY <1>1, <1>2, <1>3, <1>4
<1> QED BY <1>4, <1>5, <1>6 DEF RemoveAt, a, b

(* Who leaves the queue is gone, and who was first stays first.            *)
LEMMA Left ==
  ASSUME NEW S, NEW q \in Seq(S), IsInjective(q), NEW t \in Range(q)
  PROVE  /\ Without(q, t) \in Seq(S) /\ IsInjective(Without(q, t))
         /\ Range(Without(q, t)) = Range(q) \ {t}
         /\ Head(q) # t => Without(q, t) # <<>> /\ Head(Without(q, t)) = Head(q)
<1> DEFINE i == CHOOSE k \in DOMAIN q : q[k] = t
           w == Without(q, t)
<1>1. i \in DOMAIN q /\ q[i] = t
  BY DEF Range
<1>2. w = RemoveAt(q, i)
  BY DEF Without
<1> HIDE DEF i, w
<1>3. /\ w \in Seq(S) /\ Len(w) = Len(q) - 1
      /\ \A j \in 1..(Len(q) - 1) : w[j] = IF j < i THEN q[j] ELSE q[j + 1]
  BY <1>1, <1>2, Removed
<1>4. Len(q) \in Nat /\ DOMAIN q = 1..Len(q) /\ DOMAIN w = 1..(Len(q) - 1) /\ i \in 1..Len(q)
  BY <1>1, <1>3
<1>5. ASSUME NEW j \in DOMAIN w
      PROVE  \E k \in DOMAIN q : w[j] = q[k] /\ k # i /\ k = IF j < i THEN j ELSE j + 1
  <2>1. CASE j < i
    BY <1>3, <1>4, <2>1
  <2>2. CASE ~(j < i)
    BY <1>3, <1>4, <2>2
  <2> QED BY <2>1, <2>2
<1>6. IsInjective(w)
  <2> SUFFICES ASSUME NEW j \in DOMAIN w, NEW k \in DOMAIN w, w[j] = w[k] PROVE j = k
    BY DEF IsInjective
  <2>1. PICK l \in DOMAIN q : w[j] = q[l] /\ l = IF j < i THEN j ELSE j + 1
    BY <1>5
  <2>2. PICK m \in DOMAIN q : w[k] = q[m] /\ m = IF k < i THEN k ELSE k + 1
    BY <1>5
  <2>3. l = m
    BY <2>1, <2>2 DEF IsInjective
  <2> QED BY <1>4, <2>1, <2>2, <2>3
<1>7. Range(w) = Range(q) \ {t}
  <2>1. ASSUME NEW x \in Range(w) PROVE x \in Range(q) /\ x # t
    <3>1. PICK j \in DOMAIN w : x = w[j]
      BY DEF Range
    <3>2. PICK k \in DOMAIN q : w[j] = q[k] /\ k # i
      BY <1>5
    <3> QED BY <1>1, <3>1, <3>2 DEF Range, IsInjective
  <2>2. ASSUME NEW x \in Range(q), x # t PROVE x \in Range(w)
    <3>1. PICK k \in DOMAIN q : x = q[k]
      BY DEF Range
    <3>2. k # i
      BY <1>1, <2>2, <3>1
    <3>3. \E j \in DOMAIN w : w[j] = q[k]
      <4>1. CASE k < i
        BY <1>3, <1>4, <4>1
      <4>2. CASE k > i
        <5>1. k - 1 \in DOMAIN w /\ ~(k - 1 < i) /\ k - 1 + 1 = k
          BY <1>4, <4>2
        <5> QED BY <1>3, <1>4, <5>1
      <4> QED BY <1>4, <3>2, <4>1, <4>2
    <3> QED BY <3>1, <3>3 DEF Range
  <2> QED BY <2>1, <2>2
<1>8. ASSUME Head(q) # t PROVE w # <<>> /\ Head(w) = Head(q)
  <2>1. Len(q) > 0 /\ Head(q) = q[1]
    BY <1>4
  <2>2. 1 < i
    BY <1>1, <1>4, <1>8, <2>1
  <2>3. 1 \in DOMAIN w /\ w[1] = q[1]
    BY <1>3, <1>4, <2>2
  <2> QED BY <1>3, <2>1, <2>3
<1> QED BY <1>3, <1>6, <1>7, <1>8 DEF w

(* Who joins the queue is last, and who was first stays first.             *)
LEMMA Joining ==
  ASSUME NEW S, NEW q \in Seq(S), IsInjective(q), NEW t \in S, t \notin Range(q)
  PROVE  /\ Append(q, t) \in Seq(S) /\ IsInjective(Append(q, t))
         /\ Range(Append(q, t)) = Range(q) \cup {t}
         /\ q # <<>> => Head(Append(q, t)) = Head(q)
<1> DEFINE w == Append(q, t)
<1>1. /\ w \in Seq(S) /\ Len(w) = Len(q) + 1 /\ Len(q) \in Nat /\ w[Len(q) + 1] = t
      /\ \A i \in 1..Len(q) : w[i] = q[i]
      /\ DOMAIN w = 1..(Len(q) + 1) /\ DOMAIN q = 1..Len(q)
  OBVIOUS
<1>2. q # <<>> => Head(w) = Head(q)
  OBVIOUS
<1> HIDE DEF w
<1>3. \A i \in 1..Len(q) : q[i] # t
  BY <1>1 DEF Range
<1>4. IsInjective(w)
  <2> SUFFICES ASSUME NEW i \in DOMAIN w, NEW j \in DOMAIN w, w[i] = w[j] PROVE i = j
    BY DEF IsInjective
  <2>1. CASE i = Len(q) + 1 \/ j = Len(q) + 1
    BY <1>1, <1>3, <2>1
  <2>2. CASE i \in 1..Len(q) /\ j \in 1..Len(q)
    BY <1>1, <2>2 DEF IsInjective
  <2> QED BY <1>1, <2>1, <2>2
<1>5. Range(w) = Range(q) \cup {t}
  <2>1. Range(w) \subseteq Range(q) \cup {t}
    BY <1>1 DEF Range
  <2>2. t \in Range(w)
    <3>1. Len(q) + 1 \in DOMAIN w
      BY <1>1
    <3> QED BY <1>1, <3>1 DEF Range
  <2>3. Range(q) \subseteq Range(w)
    BY <1>1 DEF Range
  <2> QED BY <2>1, <2>2, <2>3
<1> QED BY <1>1, <1>2, <1>4, <1>5 DEF w

-----------------------------------------------------------------------------
(* The keys of a consensus: what the signers have of them.                 *)
Stamps(d) == {Stamp(d, i) : i \in DOMAIN Published[d].signers}

(* The keys published with a consensus hold those of its signers that have *)
(* an identity.                                                            *)
LEMMA KeysOfSigners ==
  ASSUME NEW d \in Docs
  PROVE  /\ Keys(d) \in Seq(Stamps(d))
         /\ \A i \in DOMAIN Published[d].signers :
              Published[d].signers[i] \in Idents => Stamp(d, i) \in Range(Keys(d))
<1> DEFINE N == Len(Published[d].signers)
           signer(n) == Published[d].signers[n]
           S == Stamps(d)
           D == Seq(S)
           step == [x \in D \X (1..N) |->
                      IF signer(x[2]) \in Idents THEN Append(x[1], Stamp(d, x[2])) ELSE x[1]]
           e == <<>>
           IsKnown(f) == f = [n \in 0..N |-> IF n = 0 THEN <<>>
                                ELSE IF signer(n) \in Idents THEN Append(f[n - 1], Stamp(d, n))
                                ELSE f[n - 1]]
<1>1. N \in Nat /\ DOMAIN Published[d].signers = 1..N
  BY Lists
<1>2. \A n \in 1..N : Stamp(d, n) \in S
  BY <1>1 DEF Stamps
<1> HIDE DEF S
<1>3. step \in [D \X (1..N) -> D]
  <2> HIDE DEF N
  <2>1. ASSUME NEW x \in D \X (1..N) PROVE step[x] \in D
    <3>1. x[1] \in Seq(S) /\ x[2] \in 1..N
      OBVIOUS
    <3>2. Stamp(d, x[2]) \in S
      BY <1>2, <3>1
    <3>3. Append(x[1], Stamp(d, x[2])) \in Seq(S)
      BY <3>1, <3>2
    <3> QED BY <3>1, <3>3
  <2> QED BY <2>1
<1>4. e \in D
  OBVIOUS
<1> HIDE DEF D, step, e, N
<1>5. PICK f : Recurs(f, D, e, N, step)
  BY <1>1, <1>3, <1>4, Recursion
<1>6. /\ f \in [0..N -> D] /\ f[0] = <<>>
      /\ \A n \in 1..N : f[n] = IF signer(n) \in Idents THEN Append(f[n - 1], Stamp(d, n)) ELSE f[n - 1]
  <2>1. f \in [0..N -> D] /\ f[0] = <<>> /\ \A n \in 1..N : f[n] = step[<<f[n - 1], n>>]
    BY <1>5 DEF Recurs, e
  <2>2. ASSUME NEW n \in 1..N
        PROVE  f[n] = IF signer(n) \in Idents THEN Append(f[n - 1], Stamp(d, n)) ELSE f[n - 1]
    <3>1. <<f[n - 1], n>> \in D \X (1..N)
      BY <1>1, <2>1
    <3>2. f[n] = step[<<f[n - 1], n>>]
      BY <2>1
    <3> QED BY <3>1, <3>2 DEF step
  <2> QED BY <2>1, <2>2
<1>7. IsKnown(f)
  <2>1. f = [n \in 0..N |-> f[n]]
    BY <1>6
  <2>2. ASSUME NEW n \in 0..N
        PROVE  f[n] = IF n = 0 THEN <<>>
                      ELSE IF signer(n) \in Idents THEN Append(f[n - 1], Stamp(d, n)) ELSE f[n - 1]
    <3>1. CASE n = 0
      BY <1>6, <3>1
    <3>2. CASE n \in 1..N
      BY <1>1, <1>6, <3>2
    <3> QED BY <1>1, <3>1, <3>2
  <2> QED BY <2>1, <2>2
<1> DEFINE g == CHOOSE x : IsKnown(x)
<1>8. IsKnown(g)
  BY <1>7
<1>9. Keys(d) = g[N]
  BY DEF Keys, Stamp, N
<1> HIDE DEF g
<1>10. /\ g[0] = <<>>
       /\ \A n \in 0..(N - 1) :
            g[n + 1] = IF signer(n + 1) \in Idents THEN Append(g[n], Stamp(d, n + 1)) ELSE g[n]
  <2>1. \A n \in 0..N : g[n] = IF n = 0 THEN <<>>
                      ELSE IF signer(n) \in Idents THEN Append(g[n - 1], Stamp(d, n)) ELSE g[n - 1]
    BY <1>8
  <2>2. ASSUME NEW n \in 0..(N - 1)
        PROVE  g[n + 1] = IF signer(n + 1) \in Idents THEN Append(g[n], Stamp(d, n + 1)) ELSE g[n]
    <3>1. n + 1 \in 0..N /\ n + 1 # 0 /\ n + 1 - 1 = n
      BY <1>1
    <3> QED BY <2>1, <3>1
  <2> QED BY <1>1, <2>1, <2>2
<1> DEFINE T == {n \in 0..N : /\ g[n] \in Seq(S)
                              /\ \A i \in 1..n : signer(i) \in Idents => Stamp(d, i) \in Range(g[n])}
<1>11. 0 \in T
  <2>1. <<>> \in Seq(S) /\ 1..0 = {} /\ 0 \in 0..N
    BY <1>1
  <2> QED BY <1>10, <2>1
<1>12. ASSUME NEW n \in 0..(N - 1), n \in T PROVE n + 1 \in T
  <2> DEFINE y == Stamp(d, n + 1)
  <2>1. /\ g[n] \in Seq(S) /\ \A i \in 1..n : signer(i) \in Idents => Stamp(d, i) \in Range(g[n])
        /\ n \in Nat /\ n + 1 \in 0..N
    BY <1>1, <1>12
  <2>2. y \in S
    BY <1>1, <1>2
  <2>3. CASE signer(n + 1) \notin Idents
    <3>1. g[n + 1] = g[n]
      BY <1>10, <2>3
    <3>2. \A i \in 1..(n + 1) : signer(i) \in Idents => i \in 1..n
      BY <2>1, <2>3
    <3> QED BY <2>1, <3>1, <3>2
  <2>4. CASE signer(n + 1) \in Idents
    <3> HIDE DEF y
    <3>1. g[n + 1] = Append(g[n], y)
      BY <1>10, <2>4 DEF y
    <3> DEFINE q == g[n]
    <3>2. q \in Seq(S)
      BY <2>1
    <3> HIDE DEF q
    <3>3. Append(q, y) \in Seq(S) /\ Range(Append(q, y)) = Range(q) \cup {y}
      <4>1. /\ Append(q, y) \in Seq(S) /\ Len(q) \in Nat /\ DOMAIN q = 1..Len(q)
            /\ DOMAIN Append(q, y) = 1..(Len(q) + 1) /\ Append(q, y)[Len(q) + 1] = y
            /\ \A i \in 1..Len(q) : Append(q, y)[i] = q[i]
        BY <2>2, <3>2
      <4> DEFINE w == Append(q, y)
      <4> HIDE DEF w
      <4>2. Range(w) = Range(q) \cup {y}
        <5>1. Range(w) \subseteq Range(q) \cup {y}
          BY <4>1 DEF Range, w
        <5>2. Len(q) + 1 \in DOMAIN w /\ w[Len(q) + 1] = y
          BY <4>1 DEF w
        <5>3. \A i \in DOMAIN q : i \in DOMAIN w /\ w[i] = q[i]
          BY <4>1 DEF w
        <5> QED BY <5>1, <5>2, <5>3 DEF Range
      <4> QED BY <4>1, <4>2 DEF w
    <3>4. ASSUME NEW i \in 1..(n + 1), signer(i) \in Idents PROVE Stamp(d, i) \in Range(q) \cup {y}
      <4>1. CASE i = n + 1
        BY <4>1 DEF y
      <4>2. CASE i # n + 1
        <5>1. i \in 1..n
          BY <2>1, <4>2
        <5> QED BY <2>1, <3>4, <5>1 DEF q
      <4> QED BY <4>1, <4>2
    <3>5. g[n + 1] = Append(q, y)
      BY <3>1 DEF q
    <3> HIDE DEF y
    <3> QED BY <2>1, <3>3, <3>4, <3>5
  <2> QED BY <2>3, <2>4
<1>13. 0..N \subseteq T
  <2> HIDE DEF T
  <2> QED BY <1>1, <1>11, <1>12, Upward
<1>14. N \in T
  BY <1>1, <1>13
<1> QED BY <1>1, <1>9, <1>14 DEF S

(* Any list of keys the directory gives makes a text that loads.           *)
LEMMA KeysListed ==
  ASSUME NEW d \in Docs, NEW k \in KeyLists(d)
  PROVE  /\ k \in Seq(Stamps(d)) /\ Len(KeyText(k)) \in Nat
         /\ WholeCerts(k) \in CertRaws /\ WholeCerts(k) \in LoadsCerts
<1>1. k \in Seq(Stamps(d))
  <2> DEFINE q == Keys(d)
             S == Stamps(d)
  <2>1. q \in Seq(S)
    BY KeysOfSigners
  <2>2. k \in {q, <<>>, SubSeq(q, 1, Len(q) - 1)}
    BY DEF KeyLists
  <2> HIDE DEF q, S
  <2>3. <<>> \in Seq(S) /\ SubSeq(q, 1, Len(q) - 1) \in Seq(S)
    BY <2>1
  <2> QED BY <2>1, <2>2, <2>3 DEF S
<1>2. Len(KeyText(k)) \in Nat /\ ~Raised(ReadCerts(WholeCerts(k)))
  BY <1>1, CertsParsed
<1>3. WholeCerts(k) \in CertRaws
  <2>1. Len(KeyText(k)) \in 0..Len(KeyText(k))
    BY <1>2
  <2>2. WholeCerts(k) \in {[keys |-> k, n |-> n] : n \in 0..Len(KeyText(k))}
    BY <2>1 DEF WholeCerts
  <2>3. k \in UNION {KeyLists(x) : x \in Docs}
    OBVIOUS
  <2> QED BY <2>2, <2>3 DEF CertRaws
<1> QED BY <1>1, <1>2, <1>3 DEF LoadsCerts

-----------------------------------------------------------------------------
(* The calls and the lock.                                                 *)
CallRecord ==
  [pc : Over \cup Calling, force : BOOLEAN, tries : 0..Attempts, keyTries : 0..Attempts,
   base : Raws \cup {None}, new : Docs \cup {0}, cause : {"none", "answer", "keys"}]

RecordOK(c) ==
  /\ c.pc \in Calling => c.tries > 0
  /\ c.pc = "keys" => c.keyTries > 0 /\ c.new \in Docs

CallsOK ==
  /\ lock \in Seq(Tasks) /\ IsInjective(lock)
  /\ call \in [Tasks -> CallRecord]
  /\ \A t \in Tasks :
       /\ call[t].pc \in Calling <=> t \in Range(lock)
       /\ call[t].pc \in Holding => t = Head(lock)
       /\ RecordOK(call[t])

FilesOK ==
  /\ proc \in {"up", "down", "broken"} /\ now \in 0..MaxNow /\ crashes \in 0..MaxCrashes
  /\ {status, document, served} \subseteq Raws \cup {None}
  /\ {keys, certs} \subseteq CertRaws \cup {None}

(* The two parts of the type invariant.                                    *)
LEMMA TypeParts == TypeOK <=> FilesOK /\ CallsOK
BY DEF TypeOK, FilesOK, CallsOK, CallRecord, RecordOK

(* One call moves on, and the queue changes only by it.                    *)
LEMMA Moved ==
  ASSUME CallsOK, NEW t \in Tasks, NEW c \in CallRecord, RecordOK(c),
         call' = [call EXCEPT ![t] = c],
         lock' \in Seq(Tasks), IsInjective(lock'),
         \A u \in Tasks \ {t} : u \in Range(lock') <=> u \in Range(lock),
         c.pc \in Calling <=> t \in Range(lock'),
         c.pc \in Holding => t = Head(lock'),
         \A u \in Tasks \ {t} : call[u].pc \in Holding => u = Head(lock')
  PROVE  CallsOK'
<1>1. call' \in [Tasks -> CallRecord] /\ call'[t] = c /\ \A u \in Tasks \ {t} : call'[u] = call[u]
  BY DEF CallsOK
<1>2. ASSUME NEW u \in Tasks
      PROVE  /\ call'[u].pc \in Calling <=> u \in Range(lock')
             /\ call'[u].pc \in Holding => u = Head(lock')
             /\ RecordOK(call'[u])
  <2>1. CASE u = t
    BY <1>1, <2>1
  <2>2. CASE u # t
    BY <1>1, <2>2 DEF CallsOK
  <2> QED BY <2>1, <2>2
<1> DEFINE l == lock'
           k == call'
<1>3. /\ l \in Seq(Tasks) /\ IsInjective(l) /\ k \in [Tasks -> CallRecord]
      /\ \A u \in Tasks : /\ k[u].pc \in Calling <=> u \in Range(l)
                          /\ k[u].pc \in Holding => u = Head(l)
                          /\ RecordOK(k[u])
  BY <1>1, <1>2
<1> QED BY <1>3 DEF CallsOK, CallRecord, RecordOK

(* Where a call may be.                                                    *)
LEMMA IdleRecord ==
  /\ Idle \in CallRecord /\ RecordOK(Idle) /\ Idle.pc = "idle"
  /\ "idle" \notin Calling /\ "raised" \notin Calling /\ "lock" \in Calling
  /\ "lock" \notin Holding /\ Holding \subseteq Calling /\ "get" \in Holding /\ "keys" \in Holding
  /\ "idle" \notin Holding /\ "raised" \notin Holding /\ Over \cap Calling = {}
BY ConsensusAssumption DEF Idle, CallRecord, RecordOK, Calling, Holding, Over

(* The holder of the lock, and the task that lets it go, leave the others  *)
(* where they are.                                                         *)
LEMMA OneHolds ==
  ASSUME CallsOK, NEW t \in Tasks, call[t].pc \in Holding, NEW u \in Tasks \ {t}
  PROVE  call[u].pc \notin Holding
BY DEF CallsOK

(* Who returns lets the lock go.                                           *)
LEMMA ReturnCalls ==
  ASSUME CallsOK, NEW t \in Tasks, t \in Range(lock), t = Head(lock), NEW x, Return(t, x)
  PROVE  CallsOK'
<1>1. call' = [call EXCEPT ![t] = Idle] /\ lock' = Without(lock, t)
  BY DEF Return
<1>2. lock' \in Seq(Tasks) /\ IsInjective(lock') /\ Range(lock') = Range(lock) \ {t}
  BY <1>1, Left DEF CallsOK
<1>3. \A u \in Tasks \ {t} : call[u].pc \notin Holding
  BY DEF CallsOK
<1> QED BY <1>1, <1>2, <1>3, IdleRecord, Moved

(* So does who fails, and may queue up again.                              *)
LEMMA FailCalls ==
  ASSUME CallsOK, NEW t \in Tasks, call[t].pc \in Calling, NEW cause \in {"none", "answer", "keys"},
         Fail(t, cause)
  PROVE  CallsOK'
<1> DEFINE rest == Without(lock, t)
           again == Append(rest, t)
           c1 == [Idle EXCEPT !.pc = "raised", !.cause = cause]
           c2 == [Idle EXCEPT !.pc = "lock", !.cause = cause,
                         !.force = call[t].force, !.tries = call[t].tries - 1]
           idle == "idle"
           none == "none"
           no   == FALSE
           nil  == 0
<1>0. Idle = [pc |-> idle, force |-> no, tries |-> nil, keyTries |-> nil,
              base |-> None, new |-> nil, cause |-> none]
  BY DEF Idle
<1> HIDE DEF idle, none, no, nil
<1>1. /\ rest \in Seq(Tasks) /\ IsInjective(rest) /\ Range(rest) = Range(lock) \ {t}
      /\ Head(lock) # t => rest # <<>> /\ Head(rest) = Head(lock)
  BY Left DEF CallsOK
<1> HIDE DEF rest
<1>2. /\ again \in Seq(Tasks) /\ IsInjective(again) /\ Range(again) = Range(rest) \cup {t}
      /\ rest # <<>> => Head(again) = Head(rest)
  BY <1>1, Joining
<1> HIDE DEF again
<1>3. ASSUME NEW u \in Tasks \ {t}, call[u].pc \in Holding
      PROVE  u = Head(rest) /\ u = Head(again)
  <2>1. u = Head(lock)
    BY <1>3 DEF CallsOK
  <2> QED BY <1>1, <1>2, <2>1
<1>4. CASE call[t].tries = 1
  <2>1. lock' = rest /\ call' = [call EXCEPT ![t] = c1]
    BY <1>4 DEF Fail, rest
  <2>2. c1 \in CallRecord /\ RecordOK(c1) /\ c1.pc \notin Calling /\ c1.pc \notin Holding
    <3> DEFINE x  == "raised"
               b1 == [Idle EXCEPT !.pc = x]
               b2 == [b1 EXCEPT !.cause = cause]
    <3>0. c1 = b2
      OBVIOUS
    <3> HIDE DEF c1, x
    <3>5. b1 = [pc |-> x, force |-> no, tries |-> nil, keyTries |-> nil,
                base |-> None, new |-> nil, cause |-> none]
      BY <1>0, Z3
    <3> HIDE DEF b1
    <3>6. b2 = [pc |-> x, force |-> no, tries |-> nil, keyTries |-> nil,
                base |-> None, new |-> nil, cause |-> cause]
      BY <3>5, Z3
    <3> HIDE DEF b2
    <3>1. c1 = [pc |-> x, force |-> no, tries |-> nil, keyTries |-> nil,
                base |-> None, new |-> nil, cause |-> cause]
      BY <3>0, <3>6
    <3>2. nil \in 0..Attempts /\ no \in BOOLEAN /\ x \in Over /\ nil = 0
      BY ConsensusAssumption DEF nil, no, x, Over
    <3>3. c1 \in CallRecord
      BY <3>1, <3>2 DEF CallRecord
    <3>4. c1.pc = "raised"
      BY <3>1 DEF x
    <3> QED BY <3>3, <3>4, IdleRecord DEF RecordOK
  <2> HIDE DEF c1
  <2> QED BY <1>1, <1>3, <2>1, <2>2, Moved
<1>5. CASE call[t].tries # 1
  <2>1. lock' = again /\ call' = [call EXCEPT ![t] = c2]
    BY <1>5 DEF Fail, rest, again
  <2>2. c2 \in CallRecord /\ RecordOK(c2) /\ c2.pc \in Calling /\ c2.pc \notin Holding
    <3>1. /\ call[t] \in CallRecord /\ call[t].tries > 0 /\ call[t].tries \in 0..Attempts
          /\ call[t].force \in BOOLEAN /\ Attempts \in Nat
      BY ConsensusAssumption DEF CallsOK, RecordOK, CallRecord
    <3> DEFINE n == call[t].tries - 1
               f == call[t].force
    <3>2. n \in 0..Attempts /\ n > 0 /\ f \in BOOLEAN
      BY <1>5, <3>1
    <3> DEFINE x  == "lock"
               b1 == [Idle EXCEPT !.pc = x]
               b2 == [b1 EXCEPT !.cause = cause]
               b3 == [b2 EXCEPT !.force = f]
               b4 == [b3 EXCEPT !.tries = n]
    <3>0. c2 = b4
      OBVIOUS
    <3> HIDE DEF n, f, c2, x
    <3>7. b1 = [pc |-> x, force |-> no, tries |-> nil, keyTries |-> nil,
                base |-> None, new |-> nil, cause |-> none]
      BY <1>0, Z3
    <3> HIDE DEF b1
    <3>8. b2 = [pc |-> x, force |-> no, tries |-> nil, keyTries |-> nil,
                base |-> None, new |-> nil, cause |-> cause]
      BY <3>7, Z3
    <3> HIDE DEF b2
    <3>9. b3 = [pc |-> x, force |-> f, tries |-> nil, keyTries |-> nil,
                base |-> None, new |-> nil, cause |-> cause]
      BY <3>8, Z3
    <3> HIDE DEF b3
    <3>10. b4 = [pc |-> x, force |-> f, tries |-> n, keyTries |-> nil,
                 base |-> None, new |-> nil, cause |-> cause]
      BY <3>9, Z3
    <3> HIDE DEF b4
    <3>3. c2 = [pc |-> x, force |-> f, tries |-> n, keyTries |-> nil,
                base |-> None, new |-> nil, cause |-> cause]
      BY <3>0, <3>10
    <3>4. nil \in 0..Attempts /\ x \in Calling /\ nil = 0
      BY ConsensusAssumption DEF nil, x, Calling
    <3>5. c2 \in CallRecord
      BY <3>2, <3>3, <3>4 DEF CallRecord
    <3>6. c2.pc = "lock" /\ c2.tries > 0 /\ c2.pc # "keys"
      BY <3>2, <3>3 DEF x
    <3> QED BY <3>5, <3>6, IdleRecord DEF RecordOK
  <2> HIDE DEF c2
  <2> QED BY <1>1, <1>2, <1>3, <2>1, <2>2, Moved
<1> QED BY <1>4, <1>5

(* The holder goes on, and the queue is what it was.                       *)
LEMMA HolderCalls ==
  ASSUME CallsOK, NEW t \in Tasks, t \in Range(lock), t = Head(lock),
         call' \in [Tasks -> CallRecord], RecordOK(call'[t]), call'[t].pc \in Holding,
         \A u \in Tasks \ {t} : call'[u] = call[u], UNCHANGED lock
  PROVE  CallsOK'
<1> DEFINE c == call'[t]
<1>1. \A u \in Tasks \ {t} : call[u].pc \notin Holding
  BY DEF CallsOK
<1>2. c \in CallRecord /\ call' = [call EXCEPT ![t] = c]
  BY DEF CallsOK
<1>3. lock' \in Seq(Tasks) /\ IsInjective(lock') /\ RecordOK(c) /\ c.pc \in Calling /\ c.pc \in Holding
  BY IdleRecord DEF CallsOK
<1> HIDE DEF c
<1> QED BY <1>1, <1>2, <1>3, Moved

-----------------------------------------------------------------------------
(* What is in the files and in memory.                                     *)
LEMMA WholeRaw ==
  ASSUME NEW d \in Docs
  PROVE  Whole(d) \in Raws /\ Cut(Whole(d)) \subseteq Raws
<1> DEFINE N == Len(Text(d))
<1>1. N \in Nat
  BY WholeRead
<1>2. \A n \in 0..N : [doc |-> d, n |-> n] \in Raws
  BY DEF Raws
<1>3. Whole(d) = [doc |-> d, n |-> N]
  BY DEF Whole
<1> HIDE DEF N
<1>4. ASSUME NEW raw \in Cut(Whole(d)) PROVE raw \in Raws
  <2>1. PICK n \in Cuts : n < N /\ raw = [Whole(d) EXCEPT !.n = n]
    BY <1>3 DEF Cut
  <2>2. raw = [doc |-> d, n |-> n]
    BY <1>3, <2>1
  <2>3. n \in 0..N
    BY <1>1, <2>1, ConsensusAssumption
  <2> QED BY <1>2, <2>2, <2>3
<1> QED BY <1>1, <1>2, <1>3, <1>4

(* A list of certificates may be cut.                                      *)
LEMMA CutCerts ==
  ASSUME NEW d \in Docs, NEW k \in KeyLists(d)
  PROVE  Cut(WholeCerts(k)) \subseteq CertRaws
<1> DEFINE N == Len(KeyText(k))
<1>1. N \in Nat
  BY KeysListed
<1>2. \A n \in 0..N : [keys |-> k, n |-> n] \in CertRaws
  BY DEF CertRaws
<1>3. WholeCerts(k) = [keys |-> k, n |-> N]
  BY DEF WholeCerts
<1> HIDE DEF N
<1>4. ASSUME NEW raw \in Cut(WholeCerts(k)) PROVE raw \in CertRaws
  <2>1. PICK n \in Cuts : n < N /\ raw = [WholeCerts(k) EXCEPT !.n = n]
    BY <1>3 DEF Cut
  <2>2. raw = [keys |-> k, n |-> n]
    BY <1>3, <2>1
  <2>3. n \in 0..N
    BY <1>1, <2>1, ConsensusAssumption
  <2> QED BY <1>2, <2>2, <2>3
<1> QED BY <1>4

HeldOK == {status, document, served} \subseteq Raws \cup {None}

(* A consensus is used.                                                    *)
LEMMA UseOK ==
  ASSUME TypeOK, NEW t \in Tasks, call[t].pc \in Holding, NEW d \in Docs, Use(t, d)
  PROVE  HeldOK' /\ CallsOK'
<1>1. CallsOK /\ HeldOK
  BY TypeParts DEF FilesOK, HeldOK
<1>2. t \in Range(lock) /\ t = Head(lock)
  BY <1>1, IdleRecord DEF CallsOK
<1>3. CallsOK'
  BY <1>1, <1>2, ReturnCalls DEF Use
<1>4. served' \in {served, Whole(d)} /\ document' = Whole(d) /\ status' = Whole(d)
  BY ServedOf DEF Use
<1>5. {status', document', served'} \subseteq Raws \cup {None}
  BY <1>1, <1>4, WholeRaw DEF HeldOK
<1> QED BY <1>3, <1>5 DEF HeldOK, Raws

(* A consensus has come.                                                   *)
LEMMA GotOK ==
  ASSUME TypeOK, NEW t \in Tasks, call[t].pc = "get", NEW d \in Docs, Got(t, d)
  PROVE  HeldOK' /\ CallsOK'
<1>1. CallsOK /\ HeldOK
  BY TypeParts DEF FilesOK, HeldOK
<1>2. t \in Range(lock) /\ t = Head(lock) /\ call[t].pc \in Holding /\ call[t].pc \in Calling
  BY <1>1, IdleRecord DEF CallsOK
<1>3. CASE Use(t, d)
  BY <1>2, <1>3, UseOK
<1>4. CASE Fail(t, "keys") /\ UNCHANGED <<document, status, served>>
  BY <1>1, <1>2, <1>4, FailCalls DEF HeldOK, Raws
<1>5. CASE /\ call' = [call EXCEPT ![t].pc = "keys", ![t].base = None,
                                   ![t].new = d, ![t].keyTries = Attempts]
           /\ UNCHANGED <<lock, document, status, served>>
  <2>1. /\ call' \in [Tasks -> CallRecord] /\ \A u \in Tasks \ {t} : call'[u] = call[u]
        /\ call'[t].pc = "keys" /\ call'[t].new = d /\ call'[t].keyTries = Attempts
        /\ call'[t].tries = call[t].tries
    <3> DEFINE x  == "keys"
               n  == Attempts
               b1 == [call EXCEPT ![t].pc = x]
               b2 == [b1 EXCEPT ![t].base = None]
               b3 == [b2 EXCEPT ![t].new = d]
               b4 == [b3 EXCEPT ![t].keyTries = n]
    <3>1. call' = b4
      BY <1>5
    <3>2. x \in Over \cup Calling /\ x = "keys" /\ n \in 0..Attempts /\ n = Attempts
      BY IdleRecord, ConsensusAssumption
    <3>3. call \in [Tasks -> CallRecord]
      BY <1>1 DEF CallsOK
    <3> HIDE DEF x, n
    <3>4. /\ b1 \in [Tasks -> CallRecord] /\ \A u \in Tasks \ {t} : b1[u] = call[u]
          /\ b1[t].pc = x /\ b1[t].tries = call[t].tries
      BY <3>2, <3>3 DEF CallRecord
    <3> HIDE DEF b1
    <3>5. /\ b2 \in [Tasks -> CallRecord] /\ \A u \in Tasks \ {t} : b2[u] = call[u]
          /\ b2[t].pc = x /\ b2[t].tries = call[t].tries
      BY <3>4 DEF CallRecord
    <3> HIDE DEF b2
    <3>6. /\ b3 \in [Tasks -> CallRecord] /\ \A u \in Tasks \ {t} : b3[u] = call[u]
          /\ b3[t].pc = x /\ b3[t].tries = call[t].tries /\ b3[t].new = d
      BY <3>5 DEF CallRecord
    <3> HIDE DEF b3
    <3>7. /\ b4 \in [Tasks -> CallRecord] /\ \A u \in Tasks \ {t} : b4[u] = call[u]
          /\ b4[t].pc = x /\ b4[t].tries = call[t].tries /\ b4[t].new = d /\ b4[t].keyTries = n
      BY <3>2, <3>6 DEF CallRecord
    <3> HIDE DEF b4
    <3> QED BY <3>1, <3>2, <3>7
  <2>2. call[t].tries > 0 /\ Attempts > 0
    BY <1>1, <1>2, ConsensusAssumption DEF CallsOK, RecordOK
  <2>3. RecordOK(call'[t]) /\ call'[t].pc \in Holding
    BY <2>1, <2>2, IdleRecord DEF RecordOK
  <2>4. CallsOK'
    BY <1>1, <1>2, <1>5, <2>1, <2>3, HolderCalls
  <2> QED BY <1>1, <1>5, <2>4 DEF HeldOK, Raws
<1> QED BY <1>3, <1>4, <1>5 DEF Got

(* Every action keeps the types.                                           *)
LEMMA TypeKept == TypeOK /\ [Next]_vars => TypeOK'
<1> SUFFICES ASSUME TypeOK, [Next]_vars PROVE TypeOK'
  OBVIOUS
<1>0. FilesOK /\ CallsOK /\ HeldOK
  BY TypeParts DEF FilesOK, HeldOK
<1> DEFINE Rest == /\ proc \in {"up", "down", "broken"} /\ now \in 0..MaxNow /\ crashes \in 0..MaxCrashes
                   /\ {keys, certs} \subseteq CertRaws \cup {None}
<1>00. Rest
  BY <1>0 DEF FilesOK
<1> SUFFICES CallsOK' /\ HeldOK' /\ Rest'
  <2>1. TypeOK' <=> FilesOK' /\ CallsOK'
    BY DEF TypeOK, FilesOK, CallsOK, CallRecord, RecordOK
  <2>2. FilesOK' <=> HeldOK' /\ Rest'
    BY DEF FilesOK, HeldOK
  <2> QED BY <2>1, <2>2
<1>1. ASSUME UNCHANGED <<lock, call>> PROVE CallsOK'
  BY <1>0, <1>1 DEF CallsOK, CallRecord, RecordOK
<1>2. ASSUME UNCHANGED <<status, document, served>> PROVE HeldOK'
  BY <1>0, <1>2 DEF HeldOK, Raws
<1>3. ASSUME UNCHANGED <<proc, now, crashes, keys, certs>> PROVE Rest'
  BY <1>00, <1>3 DEF CertRaws
<1> HIDE DEF Rest
<1>4. ASSUME NEW t \in Tasks, call[t].pc \in Holding
      PROVE  t \in Range(lock) /\ t = Head(lock) /\ call[t].pc \in Calling
  BY <1>0, <1>4, IdleRecord DEF CallsOK
<1>5. ASSUME NEW t \in Tasks, Call(t) PROVE CallsOK' /\ HeldOK' /\ Rest'
  <2>1. PICK force \in BOOLEAN :
          call' = [call EXCEPT ![t] = [Idle EXCEPT !.pc = "lock", !.force = force, !.tries = Attempts]]
    BY <1>5 DEF Call
  <2> DEFINE c == [Idle EXCEPT !.pc = "lock", !.force = force, !.tries = Attempts]
  <2>2. c \in CallRecord /\ RecordOK(c) /\ c.pc \in Calling /\ c.pc \notin Holding
    <3>1. c \in CallRecord
      <4> DEFINE x == "lock"
                 n == Attempts
      <4>1. c = [[[Idle EXCEPT !.pc = x] EXCEPT !.force = force] EXCEPT !.tries = n]
        OBVIOUS
      <4>2. x \in Over \cup Calling /\ n \in 0..Attempts
        BY IdleRecord, ConsensusAssumption
      <4> DEFINE b1 == [Idle EXCEPT !.pc = x]
                 b2 == [b1 EXCEPT !.force = force]
                 b3 == [b2 EXCEPT !.tries = n]
      <4> HIDE DEF x, n
      <4>3. b1 \in CallRecord
        BY <4>2, IdleRecord DEF CallRecord
      <4> HIDE DEF b1
      <4>4. b2 \in CallRecord
        BY <4>3 DEF CallRecord
      <4> HIDE DEF b2
      <4>5. b3 \in CallRecord
        BY <4>2, <4>4 DEF CallRecord
      <4> HIDE DEF b3, c
      <4> QED BY <4>1, <4>5 DEF b1, b2, b3
    <3>2. c.pc = "lock" /\ c.tries = Attempts
      BY IdleRecord DEF CallRecord
    <3> QED BY <3>1, <3>2, IdleRecord, ConsensusAssumption DEF RecordOK
  <2>3. t \notin Range(lock)
    BY <1>0, <1>5, IdleRecord DEF CallsOK, Call
  <2>4. /\ lock' \in Seq(Tasks) /\ IsInjective(lock') /\ Range(lock') = Range(lock) \cup {t}
        /\ lock # <<>> => Head(lock') = Head(lock)
    BY <1>0, <1>5, <2>3, Joining DEF CallsOK, Call
  <2>5. ASSUME NEW u \in Tasks \ {t}, call[u].pc \in Holding PROVE u = Head(lock')
    <3>1. u \in Range(lock) /\ u = Head(lock)
      BY <1>4, <2>5
    <3>2. lock # <<>>
      BY <3>1, Empty
    <3> QED BY <2>4, <3>1, <3>2
  <2> HIDE DEF c
  <2>6. CallsOK'
    BY <1>0, <2>1, <2>2, <2>4, <2>5, Moved DEF c
  <2> QED BY <1>2, <1>3, <1>5, <2>6 DEF Call, disk, memory
<1>6. ASSUME NEW t \in Tasks, Enter(t) PROVE CallsOK' /\ HeldOK' /\ Rest'
  <2>1. t \in Range(lock) /\ t = Head(lock) /\ call[t].pc \in Calling /\ call[t].pc = "lock"
    BY <1>0, <1>6, IdleRecord DEF CallsOK, Enter
  <2>2. Rest'
    BY <1>3, <1>6 DEF Enter, disk
  <2>3. CASE Return(t, document)
    <3>1. CallsOK'
      BY <1>0, <2>1, <2>3, ReturnCalls
    <3>2. {status', document', served'} \subseteq Raws \cup {None}
      BY <1>0, <1>6, <2>3, ServedOf DEF HeldOK, Enter, disk
    <3> QED BY <2>2, <3>1, <3>2 DEF HeldOK, Raws
  <2>4. CASE /\ call' = [call EXCEPT ![t].pc = "get", ![t].base = document, ![t].cause = "none"]
             /\ UNCHANGED <<lock, served>>
    <3>1. document \in Raws \cup {None}
      BY <1>0 DEF HeldOK
    <3>2. /\ call' \in [Tasks -> CallRecord] /\ \A u \in Tasks \ {t} : call'[u] = call[u]
          /\ call'[t].pc = "get" /\ call'[t].tries = call[t].tries
      <4> DEFINE x  == "get"
                 o  == "none"
                 b1 == [call EXCEPT ![t].pc = x]
                 b2 == [b1 EXCEPT ![t].base = document]
                 b3 == [b2 EXCEPT ![t].cause = o]
      <4>1. call' = b3
        BY <2>4
      <4>2. x \in Over \cup Calling /\ o \in {"none", "answer", "keys"} /\ x = "get"
        BY IdleRecord
      <4>3. call \in [Tasks -> CallRecord]
        BY <1>0 DEF CallsOK
      <4> HIDE DEF x, o
      <4>4. /\ b1 \in [Tasks -> CallRecord] /\ \A u \in Tasks \ {t} : b1[u] = call[u]
            /\ b1[t].pc = x /\ b1[t].tries = call[t].tries
        BY <4>2, <4>3 DEF CallRecord
      <4> HIDE DEF b1
      <4>5. /\ b2 \in [Tasks -> CallRecord] /\ \A u \in Tasks \ {t} : b2[u] = call[u]
            /\ b2[t].pc = x /\ b2[t].tries = call[t].tries
        BY <3>1, <4>4 DEF CallRecord
      <4> HIDE DEF b2
      <4>6. /\ b3 \in [Tasks -> CallRecord] /\ \A u \in Tasks \ {t} : b3[u] = call[u]
            /\ b3[t].pc = x /\ b3[t].tries = call[t].tries
        BY <4>2, <4>5 DEF CallRecord
      <4> HIDE DEF b3
      <4> QED BY <4>1, <4>2, <4>6
    <3>3. RecordOK(call'[t]) /\ call'[t].pc \in Holding
      BY <1>0, <2>1, <3>2, IdleRecord DEF CallsOK, RecordOK
    <3>4. CallsOK'
      BY <1>0, <2>1, <2>4, <3>2, <3>3, HolderCalls
    <3> QED BY <1>2, <1>6, <2>2, <2>4, <3>4 DEF Enter, disk
  <2> QED BY <1>6, <2>3, <2>4 DEF Enter
<1>7. ASSUME NEW t \in Tasks, NEW cause \in {"none", "answer", "keys"}, call[t].pc \in Calling,
             Fail(t, cause)
      PROVE  CallsOK'
  BY <1>0, <1>7, FailCalls
<1>8. ASSUME NEW t \in Tasks, GetFails(t) \/ Cancel(t) PROVE CallsOK' /\ HeldOK' /\ Rest'
  <2>1. CallsOK'
    BY <1>7, <1>8, IdleRecord DEF GetFails, Cancel
  <2> QED BY <1>2, <1>3, <1>8, <2>1 DEF GetFails, Cancel, disk, memory
<1>9. ASSUME NEW t \in Tasks, GetWhole(t) PROVE CallsOK' /\ HeldOK' /\ Rest'
  <2>1. PICK d \in Docs : call[t].pc = "get" /\ Got(t, d)
    BY <1>9 DEF GetWhole
  <2>2. CallsOK' /\ HeldOK'
    BY <2>1, GotOK
  <2> QED BY <1>3, <1>9, <2>2 DEF GetWhole
<1>10. ASSUME NEW t \in Tasks, GetDiff(t) PROVE CallsOK' /\ HeldOK' /\ Rest'
  <2>1. PICK d \in Docs : \/ Got(t, d)
                          \/ Fail(t, "none") /\ UNCHANGED <<document, status, served>>
    BY <1>10 DEF GetDiff
  <2>2. call[t].pc = "get"
    BY <1>10 DEF GetDiff
  <2>3. CallsOK' /\ HeldOK'
    BY <1>2, <1>7, <2>1, <2>2, GotOK, IdleRecord
  <2> QED BY <1>3, <1>10, <2>3 DEF GetDiff
<1>11. ASSUME NEW t \in Tasks, GetKeys(t) PROVE CallsOK' /\ HeldOK' /\ Rest'
  <2>1. call[t].pc = "keys" /\ call[t].new \in Docs
    BY <1>0, <1>11 DEF GetKeys, CallsOK, RecordOK
  <2>2. PICK k \in KeyLists(call[t].new) :
          /\ certs' = WholeCerts(k) /\ keys' = WholeCerts(k)
          /\ \/ Use(t, call[t].new)
             \/ /\ \/ Fail(t, "answer")
                   \/ Fail(t, "none")
                /\ UNCHANGED <<document, status, served>>
    BY <1>11 DEF GetKeys
  <2>3. CallsOK' /\ HeldOK'
    BY <1>2, <1>4, <1>7, <2>1, <2>2, UseOK, IdleRecord
  <2>4. WholeCerts(k) \in CertRaws
    BY <2>1, KeysListed
  <2>5. Rest'
    <3>1. {keys', certs'} \subseteq CertRaws \cup {None}
      BY <2>2, <2>4
    <3> QED BY <1>00, <1>11, <3>1 DEF GetKeys, Rest, CertRaws
  <2> QED BY <2>3, <2>5
<1>12. ASSUME NEW t \in Tasks, GetKeysFails(t) PROVE CallsOK' /\ HeldOK' /\ Rest'
  <2>1. call[t].pc = "keys" /\ call[t].pc \in Holding /\ call[t].pc \in Calling
    BY <1>12, IdleRecord DEF GetKeysFails
  <2>2. CASE Fail(t, "answer")
    BY <1>2, <1>3, <1>7, <1>12, <2>1, <2>2 DEF GetKeysFails, disk, memory
  <2>3. CASE call[t].keyTries # 1 /\ call' = [call EXCEPT ![t].keyTries = @ - 1] /\ UNCHANGED lock
    <3>1. call[t] \in CallRecord /\ RecordOK(call[t])
      BY <1>0 DEF CallsOK
    <3>2. call[t].keyTries > 0 /\ call[t].keyTries \in 0..Attempts /\ call[t].new \in Docs
          /\ call[t].tries > 0
      BY <2>1, <3>1 DEF CallRecord, RecordOK
    <3>3. call[t].keyTries - 1 \in 0..Attempts /\ call[t].keyTries - 1 > 0
      BY <2>3, <3>2, ConsensusAssumption
    <3>4. /\ call' \in [Tasks -> CallRecord] /\ \A u \in Tasks \ {t} : call'[u] = call[u]
          /\ call'[t].pc = "keys" /\ call'[t].tries = call[t].tries /\ call'[t].new = call[t].new
          /\ call'[t].keyTries = call[t].keyTries - 1
      BY <1>0, <2>1, <2>3, <3>3 DEF CallsOK, CallRecord
    <3>5. RecordOK(call'[t]) /\ call'[t].pc \in Holding
      BY <3>2, <3>3, <3>4, IdleRecord DEF RecordOK
    <3>6. CallsOK'
      BY <1>0, <1>4, <2>1, <2>3, <3>4, <3>5, HolderCalls
    <3> QED BY <1>2, <1>3, <1>12, <3>6 DEF GetKeysFails, disk, memory
  <2> QED BY <1>12, <2>2, <2>3 DEF GetKeysFails
<1>13. ASSUME Tick PROVE CallsOK' /\ HeldOK' /\ Rest'
  <2>1. now' \in 0..MaxNow
    BY <1>00, <1>13, ConsensusAssumption DEF Tick, Rest
  <2>2. Rest'
    BY <1>00, <1>13, <2>1 DEF Tick, Rest, CertRaws, disk, memory
  <2> QED BY <1>1, <1>2, <1>13, <2>2 DEF Tick, disk, memory
<1>14. ASSUME Crash PROVE CallsOK' /\ HeldOK' /\ Rest'
  <2>1. lock' = <<>> /\ call' = [t \in Tasks |-> Idle]
    BY <1>14 DEF Crash
  <2>2. CallsOK'
    <3>1. lock' \in Seq(Tasks) /\ IsInjective(lock') /\ Range(lock') = {}
      BY <2>1, Empty DEF IsInjective
    <3>2. call' \in [Tasks -> CallRecord] /\ \A t \in Tasks : call'[t] = Idle
      BY <2>1, IdleRecord
    <3> DEFINE l == lock'
               k == call'
    <3>3. /\ l \in Seq(Tasks) /\ IsInjective(l) /\ k \in [Tasks -> CallRecord]
          /\ \A u \in Tasks : /\ k[u].pc \in Calling <=> u \in Range(l)
                              /\ k[u].pc \in Holding => u = Head(l)
                              /\ RecordOK(k[u])
      BY <3>1, <3>2, IdleRecord
    <3> QED BY <3>3 DEF CallsOK, CallRecord, RecordOK
  <2>3. status' \in Raws \cup {None} /\ keys' \in CertRaws \cup {None}
    <3>1. status \in Raws \cup {None} /\ keys \in CertRaws \cup {None}
      BY <1>0, <1>00 DEF HeldOK, Rest
    <3>2. ASSUME NEW t \in Tasks, CutStatus(t)
          PROVE  status' \in Raws \cup {None} /\ keys' \in CertRaws \cup {None}
      BY <3>1, <3>2, WholeRaw DEF CutStatus
    <3>3. ASSUME NEW t \in Tasks, CutKeys(t)
          PROVE  status' \in Raws \cup {None} /\ keys' \in CertRaws \cup {None}
      <4>1. call[t].pc = "keys" /\ call[t].new \in Docs
        BY <1>0, <3>3 DEF CutKeys, CallsOK, RecordOK
      <4>2. PICK k \in KeyLists(call[t].new) :
              \/ keys' \in Cut(WholeCerts(k)) /\ UNCHANGED status
              \/ keys' = WholeCerts(k) /\ status' \in Cut(Whole(call[t].new))
        BY <3>3 DEF CutKeys
      <4> QED BY <3>1, <4>1, <4>2, WholeRaw, CutCerts, KeysListed
    <3> QED BY <1>14, <3>1, <3>2, <3>3 DEF Crash, disk
  <2>4. document' = None /\ served' = None /\ certs' = None /\ proc' = "down" /\ now' = now
        /\ crashes' = crashes + 1 /\ crashes < MaxCrashes
    BY <1>14 DEF Crash
  <2>5. crashes' \in 0..MaxCrashes
    BY <1>00, <2>4, ConsensusAssumption DEF Rest
  <2>6. HeldOK'
    <3>1. {status', document', served'} \subseteq Raws \cup {None}
      BY <2>3, <2>4
    <3> QED BY <3>1 DEF HeldOK, Raws
  <2>7. Rest'
    <3>1. {keys', certs'} \subseteq CertRaws \cup {None}
      BY <2>3, <2>4
    <3> QED BY <1>00, <2>4, <2>5, <3>1 DEF Rest, CertRaws
  <2> QED BY <2>2, <2>6, <2>7
<1>15. ASSUME Start PROVE CallsOK' /\ HeldOK' /\ Rest'
  <2>1. UNCHANGED <<lock, call, now, status, keys, served, crashes>> /\ proc' \in {"up", "broken"}
        /\ document' \in {document, status, None} /\ certs' \in {certs, keys, None}
    BY <1>15 DEF Start, disk
  <2>2. HeldOK'
    <3>1. {status', document', served'} \subseteq Raws \cup {None}
      BY <1>0, <2>1 DEF HeldOK
    <3> QED BY <3>1 DEF HeldOK, Raws
  <2>3. Rest'
    <3>1. {keys', certs'} \subseteq CertRaws \cup {None}
      BY <1>00, <2>1 DEF Rest
    <3> QED BY <1>00, <2>1, <3>1 DEF Rest, CertRaws
  <2> QED BY <1>1, <2>1, <2>2, <2>3
<1>16. CASE UNCHANGED vars
  BY <1>1, <1>2, <1>3, <1>16 DEF vars, disk, memory
<1> QED BY <1>5, <1>6, <1>8, <1>9, <1>10, <1>11, <1>12, <1>13, <1>14, <1>15, <1>16 DEF Next, Directory

(* The type invariant at first.                                            *)
LEMMA TypeInit == Init => TypeOK
<1> SUFFICES ASSUME Init PROVE TypeOK
  OBVIOUS
<1>1. FilesOK
  BY ConsensusAssumption DEF Init, FilesOK
<1>2. CallsOK
  <2>1. lock \in Seq(Tasks) /\ IsInjective(lock) /\ Range(lock) = {}
    BY Empty DEF Init, IsInjective
  <2>2. call \in [Tasks -> CallRecord] /\ \A t \in Tasks : call[t] = Idle
    BY IdleRecord DEF Init
  <2> QED BY <2>1, <2>2, IdleRecord DEF CallsOK
<1> QED BY <1>1, <1>2, TypeParts

(* TypeOK: among others, the lock is held by one task, the first of those  *)
(* that queue for it, and who is not in renew does not queue.              *)
THEOREM Typed == Spec => []TypeOK
BY TypeInit, TypeKept, PTL DEF Spec

-----------------------------------------------------------------------------
(* Nothing calls when the program does not run.                            *)
Quiet == proc # "up" => \A t \in Tasks : call[t].pc = "idle"

(* Only a program that is up calls.                                        *)
LEMMA QuietKept == Quiet /\ [Next]_vars => Quiet'
<1> SUFFICES ASSUME Quiet, [Next]_vars, proc' # "up" PROVE \A t \in Tasks : call'[t].pc = "idle"
  BY DEF Quiet
<1>1. ASSUME NEW t \in Tasks, call[t].pc # "idle", UNCHANGED proc PROVE FALSE
  BY <1>1 DEF Quiet
<1>2. ASSUME NEW t \in Tasks, Enter(t) \/ Directory(t) \/ Cancel(t) PROVE FALSE
  BY <1>1, <1>2 DEF Enter, Directory, Cancel, GetFails, GetWhole, GetDiff, GetKeys, GetKeysFails
<1>3. ASSUME NEW t \in Tasks, Call(t) PROVE FALSE
  BY <1>3 DEF Call
<1>4. CASE Tick \/ Start \/ UNCHANGED vars
  <2>1. UNCHANGED call /\ proc # "up"
    BY <1>4 DEF Tick, Start, vars
  <2> QED BY <2>1 DEF Quiet
<1>5. CASE Crash
  BY <1>5, IdleRecord DEF Crash
<1> QED BY <1>2, <1>3, <1>4, <1>5 DEF Next

(* BrokenByTorn: only a file that a crash has cut keeps the program from   *)
(* starting, because every whole text can be read.                         *)
THEOREM TornBreaks == Spec => []BrokenByTorn
<1> DEFINE IInv == TypeOK /\ Quiet /\ BrokenByTorn
<1>1. Init => IInv
  BY TypeInit DEF Init, Quiet, BrokenByTorn
<1>2. IInv /\ [Next]_vars => IInv'
  <2> SUFFICES ASSUME TypeOK, Quiet, BrokenByTorn, [Next]_vars, proc' = "broken" PROVE BrokenByTorn'
    BY TypeKept, QuietKept DEF BrokenByTorn
  <2>1. CASE Start
    <3>1. ~(status \in Loads \cup {None} /\ keys \in LoadsCerts \cup {None})
      BY <2>1 DEF Start
    <3>2. status \in Raws \cup {None} /\ keys \in CertRaws \cup {None}
      BY DEF TypeOK
    <3>3. ASSUME status \notin Loads \cup {None} PROVE status # None /\ status # Whole(status.doc)
      <4>1. PICK d \in Docs : status.doc = d
        <5>1. status \in Raws
          BY <3>2, <3>3
        <5> QED BY <5>1 DEF Raws
      <4>2. Whole(d) \in Loads
        BY WholeParsed
      <4> QED BY <3>3, <4>1, <4>2
    <3>4. ASSUME keys \notin LoadsCerts \cup {None} PROVE keys # None /\ keys # WholeCerts(keys.keys)
      <4>1. PICK d \in Docs : keys.keys \in KeyLists(d)
        <5>1. keys \in CertRaws
          BY <3>2, <3>4
        <5> QED BY <5>1 DEF CertRaws
      <4>2. WholeCerts(keys.keys) \in LoadsCerts
        BY <4>1, KeysListed
      <4> QED BY <3>4, <4>2
    <3>5. UNCHANGED <<status, keys>>
      BY <2>1 DEF Start, disk
    <3>6. \/ status # None /\ status # Whole(status.doc)
          \/ keys # None /\ keys # WholeCerts(keys.keys)
      BY <3>1, <3>3, <3>4
    <3> QED BY <3>5, <3>6 DEF BrokenByTorn, Whole, WholeCerts, Text, KeyText
  <2>2. CASE UNCHANGED <<proc, status, keys>>
    BY <2>2 DEF BrokenByTorn, Whole, WholeCerts, Text, KeyText
  <2>3. ASSUME NEW t \in Tasks, Enter(t) \/ Directory(t) \/ Cancel(t) PROVE FALSE
    <3>1. UNCHANGED proc /\ call[t].pc # "idle"
      BY <2>3 DEF Enter, Directory, Cancel, GetFails, GetWhole, GetDiff, GetKeys, GetKeysFails
    <3> QED BY <3>1 DEF Quiet
  <2>4. ASSUME NEW t \in Tasks, Call(t) PROVE FALSE
    BY <2>4 DEF Call
  <2>5. Tick \/ UNCHANGED vars => UNCHANGED <<proc, status, keys>>
    BY DEF Tick, vars, disk
  <2>6. ~Crash
    BY DEF Crash
  <2> QED BY <2>1, <2>2, <2>3, <2>4, <2>5, <2>6 DEF Next
<1> QED BY <1>1, <1>2, PTL DEF Spec

-----------------------------------------------------------------------------
(* What a consensus says of its validity is read, or the text is too short *)
(* to be loaded.                                                           *)
AtRaised == "raised"

KeepsUntil(p, u) ==
  \E first, mode, open, block, F, O :
    /\ p = State(first, mode, open, block, F, O)
    /\ KUntil \in DOMAIN F /\ F[KUntil] = <<u>>
    /\ mode \in {AtLine, AtRaised} \/ open.kw # KUntil

(* The modes of the reader differ.                                         *)
LEMMA ModeNames ==
  /\ AtLine \notin {AtBegin, AtEnd, AtDot, AtRaised} /\ AtRaised \notin {AtBegin, AtEnd, AtDot}
  /\ AtBegin \notin {AtEnd, AtDot}
  /\ AtBegin = "begin" /\ AtEnd = "END" /\ AtDot = "." /\ AtLine = "line" /\ AtRaised = "raised"
BY DEF AtLine, AtBegin, AtEnd, AtDot, AtRaised

(* A value of another keyword leaves the validity alone.                   *)
LEMMA PutKeeps ==
  ASSUME NEW class, NEW first, NEW open, NEW block, NEW F, NEW O, NEW kw, NEW v, NEW u,
         KUntil \in DOMAIN F, F[KUntil] = <<u>>, kw # KUntil
  PROVE  KeepsUntil(Put(class, State(first, AtLine, open, block, F, O), kw, v), u)
<1> DEFINE p == State(first, AtLine, open, block, F, O)
<1>1. CASE kw \in DOMAIN class.object
  <2> DEFINE P == [O EXCEPT ![class.object[kw]] = GiveLast(@, kw, v)]
  <2>1. Put(class, p, kw, v) = State(first, AtLine, open, block, F, P)
    BY <1>1, PutSub
  <2> HIDE DEF p, P
  <2>2. KeepsUntil(Put(class, p, kw, v), u)
    BY <2>1 DEF KeepsUntil
  <2> QED BY <2>2 DEF p
<1>2. CASE kw \notin DOMAIN class.object
  <2> DEFINE G == Give(F, kw, v)
  <2>1. Put(class, p, kw, v) = State(first, AtLine, open, block, G, O)
    BY <1>2, PutField
  <2>2. KUntil \in DOMAIN G /\ G[KUntil] = <<u>>
    BY DEF Give
  <2> HIDE DEF p, G
  <2>3. KeepsUntil(Put(class, p, kw, v), u)
    BY <2>1, <2>2 DEF KeepsUntil
  <2> QED BY <2>3 DEF p
<1> QED BY <1>1, <1>2

(* So does raising,                                                        *)
LEMMA RaiseKeeps == ASSUME NEW p, NEW u, KeepsUntil(p, u) PROVE KeepsUntil(Raise(p), u)
<1>1. PICK first, mode, open, block, F, O :
        /\ p = State(first, mode, open, block, F, O)
        /\ KUntil \in DOMAIN F /\ F[KUntil] = <<u>>
  BY DEF KeepsUntil
<1>2. Raise(p) = [p EXCEPT !.mode = AtRaised]
  BY Zenon DEF Raise, AtRaised
<1>3. [p EXCEPT !.mode = AtRaised] = State(first, AtRaised, open, block, F, O)
  BY <1>1, SetMode, Z3
<1>4. Raise(p) = State(first, AtRaised, open, block, F, O)
  BY <1>2, <1>3
<1> QED BY <1>1, <1>4 DEF KeepsUntil

(* the end of a block,                                                     *)
LEMMA CloseKeeps ==
  ASSUME NEW class, NEW p, NEW u, KeepsUntil(p, u), p.mode \notin {AtLine, AtRaised}
  PROVE  KeepsUntil(Close(class, p), u)
<1>1. PICK first, mode, open, block, F, O :
        /\ p = State(first, mode, open, block, F, O)
        /\ KUntil \in DOMAIN F /\ F[KUntil] = <<u>>
        /\ mode \in {AtLine, AtRaised} \/ open.kw # KUntil
  BY DEF KeepsUntil
<1>2. p.mode = mode /\ p.open = open /\ p.block = block
  BY <1>1, Parts
<1>3. [p EXCEPT !.mode = AtLine] = State(first, AtLine, open, block, F, O)
  BY <1>1, SetMode, Z3
<1> DEFINE x == [arg |-> open.v, ml |-> block]
           q == State(first, AtLine, open, block, F, O)
<1> HIDE DEF q
<1>4. Close(class, p) = Put(class, q, open.kw, x)
  BY <1>2, <1>3 DEF Close, q, AtLine
<1> HIDE DEF x
<1>5. open.kw # KUntil
  BY <1>1, <1>2
<1>6. KeepsUntil(Put(class, q, open.kw, x), u)
  BY <1>1, <1>5, PutKeeps DEF q
<1> QED BY <1>4, <1>6

(* a line that an item takes,                                              *)
LEMMA TakeKeeps ==
  ASSUME NEW class, NEW first, NEW open, NEW block, NEW F, NEW O, NEW l, NEW u,
         KUntil \in DOMAIN F, F[KUntil] = <<u>>, l.kw # KUntil
  PROVE  KeepsUntil(Take(class, State(first, AtLine, open, block, F, O), l), u)
<1> DEFINE p == State(first, AtLine, open, block, F, O)
<1>1. CASE l.kw \in class.multi
  <2> DEFINE e  == <<>>
             p1 == [p EXCEPT !.mode = AtBegin]
             p2 == [p1 EXCEPT !.open = l]
             p3 == [p2 EXCEPT !.block = e]
  <2> HIDE DEF e
  <2>1. p1 = State(first, AtBegin, open, block, F, O)
    BY SetMode, Z3
  <2> HIDE DEF p1
  <2>2. p2 = State(first, AtBegin, l, block, F, O)
    BY <2>1, SetOpen, Z3
  <2> HIDE DEF p2
  <2>3. p3 = State(first, AtBegin, l, e, F, O)
    BY <2>2, SetBlock, Z3
  <2> HIDE DEF p3, p
  <2>4. Take(class, p, l) = p3
    <3>1. Take(class, p, l) = [p EXCEPT !.mode = "begin", !.open = l, !.block = <<>>]
      BY <1>1, Zenon DEF Take
    <3>2. [p EXCEPT !.mode = AtBegin, !.open = l, !.block = e] = p3
      BY DEF p1, p2, p3
    <3> QED BY <3>1, <3>2 DEF AtBegin, e
  <2>5. KeepsUntil(Take(class, p, l), u)
    BY <2>3, <2>4 DEF KeepsUntil
  <2> QED BY <2>5 DEF p
<1>2. CASE l.kw \notin class.multi
  <2> HIDE DEF p
  <2>1. Take(class, p, l) = Put(class, p, l.kw, l.v)
    BY <1>2 DEF Take
  <2>2. KeepsUntil(Put(class, p, l.kw, l.v), u)
    BY PutKeeps DEF p
  <2> QED BY <2>1, <2>2 DEF p
<1> QED BY <1>1, <1>2

(* a line that has to be found its item,                                   *)
LEMMA CheckKeeps ==
  ASSUME NEW first, NEW open, NEW block, NEW F, NEW O, NEW l, NEW u,
         KUntil \in DOMAIN F, F[KUntil] = <<u>>, l.kw # KUntil
  PROVE  KeepsUntil(CheckItems(NetworkStatus, State(first, AtLine, open, block, F, O), l), u)
<1> DEFINE p == State(first, AtLine, open, block, F, O)
           class == NetworkStatus
<1>1. KeepsUntil(p, u)
  <2>1. p = State(first, AtLine, open, block, F, O)
    OBVIOUS
  <2> HIDE DEF p
  <2> QED BY <2>1, ModeNames DEF KeepsUntil
<1>2. [p EXCEPT !.first = NoItem] = State(NoItem, AtLine, open, block, F, O)
  BY SetFirst, Z3
<1>3. class.masks = {}
  BY StatusClass
<1>4. KeepsUntil(Take(class, p, l), u)
  BY TakeKeeps
<1>5. KeepsUntil(Take(class, [p EXCEPT !.first = NoItem], l), u)
  <2> DEFINE q == State(NoItem, AtLine, open, block, F, O)
  <2>1. KeepsUntil(Take(class, q, l), u)
    BY TakeKeeps
  <2> HIDE DEF p, q, class
  <2> QED BY <1>2, <2>1 DEF q
<1>6. KeepsUntil([p EXCEPT !.objs[l.kw] = Append(@, NewObject(class, l))], u)
  <2> DEFINE x == NewObject(class, l)
             y == Append(O[l.kw], x)
             P == [O EXCEPT ![l.kw] = y]
  <2>1. p.objs = O
    BY Parts
  <2> HIDE DEF x, y
  <2>2. [p EXCEPT !.objs[l.kw] = y] = State(first, AtLine, open, block, F, P)
    BY Z3 DEF State
  <2> HIDE DEF p
  <2>3. [p EXCEPT !.objs[l.kw] = Append(@, x)] = [p EXCEPT !.objs[l.kw] = y]
    BY <2>1, Z3 DEF y
  <2> HIDE DEF P
  <2>4. KeepsUntil([p EXCEPT !.objs[l.kw] = Append(@, x)], u)
    BY <2>2, <2>3, ModeNames DEF KeepsUntil
  <2> QED BY <2>4 DEF x
<1>7. KeepsUntil(Raise(p), u)
  BY <1>1, RaiseKeeps
<1> HIDE DEF p, class
<1>8. CheckItems(class, p, l) \in
        {Raise(p), p, Take(class, p, l), Take(class, [p EXCEPT !.first = NoItem], l),
         [p EXCEPT !.objs[l.kw] = Append(@, NewObject(class, l))]}
  BY <1>3, Zenon DEF CheckItems, NoItem
<1> QED BY <1>1, <1>4, <1>5, <1>6, <1>7, <1>8 DEF p, class

(* any line of another keyword,                                            *)
LEMMA LineKeeps ==
  ASSUME NEW p, NEW l, NEW u, KeepsUntil(p, u), l.kw # KUntil
  PROVE  KeepsUntil(ReadLine(NetworkStatus, p, l), u)
<1>1. PICK first, mode, open, block, F, O :
        /\ p = State(first, mode, open, block, F, O)
        /\ KUntil \in DOMAIN F /\ F[KUntil] = <<u>>
        /\ mode \in {AtLine, AtRaised} \/ open.kw # KUntil
  BY DEF KeepsUntil
<1>2. p.mode = mode /\ p.open = open /\ p.block = block
  BY <1>1, Parts
<1> DEFINE class == NetworkStatus
<1> HIDE DEF class
<1>3. CASE mode = AtRaised
  BY <1>2, <1>3, ModeNames DEF ReadLine
<1>4. CASE mode = AtBegin
  <2>1. [p EXCEPT !.mode = AtEnd] = State(first, AtEnd, open, block, F, O)
    BY <1>1, SetMode, Z3
  <2>2. ReadLine(class, p, l) \in {[p EXCEPT !.mode = AtEnd], Raise(p)}
    BY <1>2, <1>4, ModeNames DEF ReadLine, AtEnd
  <2>3. KeepsUntil([p EXCEPT !.mode = AtEnd], u)
    BY <1>1, <1>4, <2>1, ModeNames DEF KeepsUntil
  <2> QED BY <2>2, <2>3, RaiseKeeps DEF class
<1>5. CASE mode \in {AtEnd, AtDot} /\ l.kw # mode
  <2> DEFINE y == Append(block, l)
  <2> HIDE DEF y
  <2>1. [p EXCEPT !.block = y] = State(first, mode, open, y, F, O)
    BY <1>1, SetBlock, Z3
  <2>2. ReadLine(class, p, l) = [p EXCEPT !.block = Append(@, l)]
    BY <1>2, <1>5, ModeNames DEF ReadLine
  <2>3. [p EXCEPT !.block = Append(@, l)] = [p EXCEPT !.block = y]
    BY <1>2, Z3 DEF y
  <2>4. KeepsUntil(State(first, mode, open, y, F, O), u)
    BY <1>1 DEF KeepsUntil
  <2> QED BY <2>1, <2>2, <2>3, <2>4 DEF class
<1>6. CASE mode \notin {AtRaised, AtBegin, AtLine} /\ (mode \in {AtEnd, AtDot} => l.kw = mode)
  <2>1. ReadLine(class, p, l) = Close(class, p)
    BY <1>2, <1>6, ModeNames DEF ReadLine
  <2>2. KeepsUntil(Close(class, p), u)
    BY <1>2, <1>6, CloseKeeps
  <2> QED BY <2>1, <2>2 DEF class
<1>7. CASE mode = AtLine
  <2>1. ReadLine(class, p, l) = CheckItems(class, p, l)
    BY <1>1, <1>7, Checked
  <2> QED BY <1>1, <1>7, <2>1, CheckKeeps DEF class
<1> QED BY <1>3, <1>4, <1>5, <1>6, <1>7

(* and any number of them.                                                 *)
LEMMA LinesKeep ==
  ASSUME NEW p, NEW u, KeepsUntil(p, u), NEW S, \A l \in S : l.kw # KUntil, NEW s \in Seq(S)
  PROVE  KeepsUntil(ReadLines(NetworkStatus, p, s), u)
<1> DEFINE N == Len(s)
<1>1. N \in Nat /\ \A n \in 0..(N - 1) : s[n + 1] \in S
  OBVIOUS
<1>2. PICK r : IsReading(r, NetworkStatus, p, s) /\ ReadLines(NetworkStatus, p, s) = r[N]
  BY Reading
<1> HIDE DEF N
<1>3. r[0] = p /\ \A n \in 0..(N - 1) : r[n + 1] = ReadLine(NetworkStatus, r[n], s[n + 1])
  BY <1>1, <1>2 DEF IsReading, N
<1> DEFINE T == {n \in 0..N : KeepsUntil(r[n], u)}
<1>4. 0 \in T
  BY <1>1, <1>3
<1>5. ASSUME NEW n \in 0..(N - 1), n \in T PROVE n + 1 \in T
  <2>1. KeepsUntil(r[n], u) /\ s[n + 1].kw # KUntil
    BY <1>1, <1>5
  <2>2. KeepsUntil(r[n + 1], u)
    BY <1>3, <2>1, LineKeeps
  <2> QED BY <1>1, <2>2
<1>6. 0..N \subseteq T
  <2> HIDE DEF T
  <2> QED BY <1>1, <1>4, <1>5, Upward
<1> QED BY <1>1, <1>2, <1>6

(* All sequences that are joined with t.                                   *)
LEMMA JoinedAll ==
  ASSUME NEW T, NEW t \in Seq(T)
  PROVE  \A x \in Seq(T) :
           /\ x \o t \in Seq(T) /\ Len(x \o t) = Len(x) + Len(t)
           /\ Len(x) \in Nat /\ Len(t) \in Nat
           /\ \A i \in 1..Len(x) : (x \o t)[i] = x[i]
           /\ \A i \in 1..Len(t) : (x \o t)[Len(x) + i] = t[i]
BY Joined

(* A sequence of two joined with another.                                  *)
LEMMA JoinedTo ==
  ASSUME NEW T, NEW s \in Seq(T), Len(s) = 2, NEW t \in Seq(T)
  PROVE  /\ s \o t \in Seq(T) /\ Len(s \o t) = 2 + Len(t) /\ Len(t) \in Nat
         /\ \A i \in 1..2 : (s \o t)[i] = s[i]
         /\ \A i \in 1..Len(t) : (s \o t)[2 + i] = t[i]
<1> DEFINE a == s \o t
           n == Len(s)
<1>1. /\ s \o t \in Seq(T) /\ Len(s \o t) = Len(s) + Len(t)
      /\ Len(s) \in Nat /\ Len(t) \in Nat
      /\ \A i \in 1..Len(s) : (s \o t)[i] = s[i]
      /\ \A i \in 1..Len(t) : (s \o t)[Len(s) + i] = t[i]
  BY JoinedAll, Zenon
<1>2. n = 2
  OBVIOUS
<1>3. /\ a \in Seq(T) /\ Len(a) = n + Len(t) /\ Len(t) \in Nat
      /\ \A i \in 1..n : a[i] = s[i]
      /\ \A i \in 1..Len(t) : a[n + i] = t[i]
  BY <1>1, Zenon
<1> HIDE DEF a, n
<1>4. /\ a \in Seq(T) /\ Len(a) = 2 + Len(t) /\ Len(t) \in Nat
      /\ \A i \in 1..2 : a[i] = s[i]
      /\ \A i \in 1..Len(t) : a[2 + i] = t[i]
  BY <1>2, <1>3
<1> QED BY <1>4, Zenon DEF a

(* The first line of a text.                                               *)
LEMMA FirstOf ==
  ASSUME NEW T, NEW s \in Seq(T), Len(s) > 1
  PROVE  SubSeq(s, 1, 1) = <<s[1]>>
<1> DEFINE q == SubSeq(s, 1, 1)
<1>1. q \in Seq(T) /\ Len(q) = 1 /\ q[1] = s[1]
  OBVIOUS
<1> HIDE DEF q
<1>2. q = <<q[1]>>
  BY <1>1
<1> QED BY <1>1, <1>2 DEF q

Begun(x, s, S) == \E w \in Seq(S) : x = s \o w

(* What is left of a text that is cut after its top begins with the top.   *)
LEMMA BeginOf ==
  ASSUME NEW T, NEW S \in SUBSET T, NEW s \in Seq(T), NEW t \in Seq(S), Len(s) = 2,
         NEW n \in 2..Len(s \o t)
  PROVE  Begun(SubSeq(s \o t, 1, n), s, S)
<1>0. t \in Seq(T)
  OBVIOUS
<1> DEFINE w == SubSeq(t, 1, n - 2)
           a == s \o t
           b == s \o w
<1>1. /\ a \in Seq(T) /\ Len(a) = 2 + Len(t) /\ Len(t) \in Nat
      /\ \A i \in 1..2 : a[i] = s[i]
      /\ \A i \in 1..Len(t) : a[2 + i] = t[i]
  BY <1>0, JoinedTo
<1> HIDE DEF a
<1>2. n \in Nat /\ n - 2 \in 0..Len(t) /\ n <= Len(a)
  BY <1>1 DEF a
<1>3. w \in Seq(S) /\ Len(w) = n - 2 /\ \A i \in 1..(n - 2) : w[i] = t[i]
  BY <1>1, <1>2
<1> HIDE DEF w
<1>4. w \in Seq(T)
  BY <1>3
<1>5. /\ b \in Seq(T) /\ Len(b) = 2 + Len(w)
      /\ \A i \in 1..2 : b[i] = s[i]
      /\ \A i \in 1..Len(w) : b[2 + i] = w[i]
  BY <1>4, JoinedTo
<1> HIDE DEF b
<1>6. Len(b) = n
  BY <1>2, <1>3, <1>5
<1>7. ASSUME NEW i \in 1..n PROVE a[i] = b[i]
  <2>1. CASE i \in 1..2
    BY <1>1, <1>5, <2>1
  <2>2. CASE i > 2
    <3>1. i - 2 \in 1..(n - 2) /\ i - 2 \in 1..Len(t) /\ i - 2 \in 1..Len(w) /\ 2 + (i - 2) = i
      BY <1>2, <1>3, <2>2
    <3>2. a[2 + (i - 2)] = t[i - 2] /\ b[2 + (i - 2)] = w[i - 2] /\ w[i - 2] = t[i - 2]
      BY <1>1, <1>3, <1>5, <3>1
    <3> QED BY <3>1, <3>2
  <2> QED BY <1>2, <2>1, <2>2
<1>8. SubSeq(a, 1, n) = [i \in 1..n |-> a[i]]
  BY <1>1, <1>2
<1>9. b = [i \in 1..n |-> b[i]]
  BY <1>5, <1>6
<1>10. SubSeq(a, 1, n) = b
  BY <1>7, <1>8, <1>9
<1> QED BY <1>3, <1>10 DEF a, b, Begun

(* The validity is in the top only.                                        *)
LEMMA LaterKeywords == ASSUME NEW d, NEW l \in LaterLines(d) PROVE l.kw # KUntil
<1> DEFINE none == ""
           begin == "BEGIN"
           end == "END"
           Other(k) == k \in {none, begin, end, KFlags, KSource, KRouter, KSign}
<1>1. \E kw, v : l = Line(kw, v) /\ Other(kw)
  <2>1. Other(none) /\ Other(begin) /\ Other(end) /\ Other(KFlags) /\ Other(KSource)
        /\ Other(KRouter) /\ Other(KSign)
    OBVIOUS
  <2> HIDE DEF Other
  <2>2. CASE l \in {Line(KFlags, "flags"), Begin, End}
    BY <2>1, <2>2, Zenon DEF Begin, End
  <2>3. CASE l \in {Line(KSource, Published[d].voters[i]) : i \in DOMAIN Published[d].voters}
    BY <2>1, <2>3, Zenon
  <2>4. CASE l \in {Line(KRouter, Published[d].routers[i]) : i \in DOMAIN Published[d].routers}
    BY <2>1, <2>4, Zenon
  <2>5. CASE l \in {Line(KSign, Stamp(d, i)) : i \in DOMAIN Published[d].signers}
    BY <2>1, <2>5, Zenon
  <2>6. CASE l \in {Line("", Stamp(d, i)) : i \in DOMAIN Published[d].signers}
    BY <2>1, <2>6, Zenon
  <2> QED BY <2>2, <2>3, <2>4, <2>5, <2>6, Zenon DEF LaterLines
<1>2. PICK kw, v : l = Line(kw, v) /\ Other(kw)
  BY <1>1
<1>3. ~Other(KUntil)
  BY DEF KUntil, KFlags, KSource, KRouter, KSign
<1> HIDE DEF Other
<1>4. l.kw = kw
  BY <1>2, Lined
<1> QED BY <1>2, <1>3, <1>4

(* The top and what follows it.                                            *)
LEMMA TextSplit ==
  ASSUME NEW d \in Docs
  PROVE  \E w \in Seq(LaterLines(d)) : Text(d) = Top(d) \o w
<1> DEFINE S == LaterLines(d)
           T == AllLines(d)
           a == Top(d)
           b == VoterLines(d)
           c == FlattenSeq(RouterBlocks(d))
           e == FlattenSeq(SignerBlocks(d))
<1>1. /\ b \in Seq(S) /\ RouterBlocks(d) \in [1..Len(Published[d].routers) -> Seq(S)]
      /\ SignerBlocks(d) \in [1..Len(Published[d].signers) -> Seq(S)]
  BY PartsIn
<1>2. c \in Seq(S) /\ e \in Seq(S)
  BY <1>1, Lists, ReadBlocks
<1>3. a \in Seq(T) /\ b \in Seq(T)
  BY PartsType
<1>4. c \in Seq(T) /\ e \in Seq(T)
  BY PartsType, Lists, ReadBlocks
<1>5. Text(d) = ((a \o b) \o c) \o e
  BY TextParts
<1> HIDE DEF a, b, c, e, S, T
<1>6. (b \o c) \o e \in Seq(S)
  BY <1>1, <1>2
<1>7. ((a \o b) \o c) \o e = a \o ((b \o c) \o e)
  BY <1>3, <1>4
<1> QED BY <1>5, <1>6, <1>7 DEF a, S

(* Lines after the top are lines of the text.                              *)
LEMMA LaterAll ==
  ASSUME NEW d
  PROVE  LaterLines(d) \subseteq AllLines(d) /\ Seq(LaterLines(d)) \subseteq Seq(AllLines(d))
<1>1. LaterLines(d) \subseteq AllLines(d)
  BY DEF AllLines
<1> DEFINE S == LaterLines(d)
           T == AllLines(d)
<1> HIDE DEF S, T
<1>2. S \subseteq T => Seq(S) \subseteq Seq(T)
  OBVIOUS
<1> QED BY <1>1, <1>2 DEF S, T

(* The beginning of a consensus that can be loaded, with when it is valid  *)
(* until.                                                                  *)
LEMMA UntilRead ==
  ASSUME NEW raw \in Loads, raw.n # 0
  PROVE  /\ raw.doc \in Docs
         /\ Read(raw).fields["valid-until"] = <<Published[raw.doc].until>>
<1>1. raw \in Raws /\ ~Raised(Read(raw))
  BY DEF Loads
<1>2. PICK d \in Docs : \E n \in 0..Len(Text(d)) : raw = [doc |-> d, n |-> n]
  BY <1>1 DEF Raws
<1>3. PICK n \in 0..Len(Text(d)) : raw = [doc |-> d, n |-> n]
  BY <1>2
<1>4. raw.doc = d /\ raw.n = n /\ n # 0
  BY <1>3
<1> DEFINE class == NetworkStatus
           s == SubSeq(Text(d), 1, n)
           p == ReadLines(class, Unread(class), s)
           u == Published[d].until
<1>5. Lines(raw) = s
  BY <1>4 DEF Lines
<1>6. PICK w \in Seq(LaterLines(d)) : Text(d) = Top(d) \o w
  BY TextSplit
<1>7. Top(d) \in Seq(AllLines(d)) /\ Len(Top(d)) = 2 /\ n \in Nat
  BY <1>3, PartsType, WholeRead
<1> HIDE DEF s, p
<1>8. Read(raw) = Parse(class, s)
  BY <1>5 DEF Read
<1>9. n # 1
  <2> SUFFICES ASSUME n = 1 PROVE FALSE
    OBVIOUS
  <2> DEFINE l == Line(KStart, 3)
             F == [k \in {KStart, KUntil, KSign} |-> <<>>]
             O == [k \in {KSource, KRouter} |-> <<>>]
             z == State(KStart, AtLine, End, <<>>, F, O)
             q == State(NoItem, AtLine, End, <<>>, F, O)
             G == Give(F, KStart, 3)
  <2>1. s = <<l>>
    <3> DEFINE m == Line(KUntil, u)
    <3>1. Top(d) = <<l, m>>
      BY DEF Top
    <3> HIDE DEF l, m
    <3> DEFINE v == <<l, m>>
    <3>2. v \in Seq({l, m}) /\ Len(v) = 2 /\ v[1] = l
      OBVIOUS
    <3> HIDE DEF v
    <3>3. Text(d) = v \o w /\ v \in Seq(AllLines(d)) /\ w \in Seq(AllLines(d))
      BY <1>6, <1>7, <3>1, LaterAll DEF v
    <3>4. Len(v \o w) = 2 + Len(w) /\ Len(w) \in Nat /\ v \o w \in Seq(AllLines(d)) /\ (v \o w)[1] = v[1]
      BY <3>2, <3>3, JoinedTo
    <3> DEFINE x == v \o w
    <3> HIDE DEF x, v
    <3>5. x \in Seq(AllLines(d)) /\ Len(x) = 2 + Len(w) /\ Len(w) \in Nat /\ x[1] = v[1] /\ Text(d) = x
      BY <3>3, <3>4 DEF x
    <3>6. SubSeq(x, 1, 1) = <<x[1]>>
      BY <3>5, FirstOf
    <3> QED BY <3>2, <3>5, <3>6 DEF s
  <2>2. Unread(class) = z
    BY StatusClass, StatusStarts DEF Unread, State, AtLine
  <2>3. ReadLines(class, z, <<l>>) = CheckItems(class, z, l)
    BY ReadOne, Checked
  <2>4. l.kw = KStart /\ l.v = 3 /\ z.first = KStart
    BY Lined, Parts
  <2>5. [z EXCEPT !.first = NoItem] = q
    BY SetFirst, Z3
  <2>6. O[KRouter] = <<>>
    OBVIOUS
  <2> HIDE DEF l, z, q, F, O, G
  <2>7. CheckItems(class, z, l) = Take(class, q, l)
    BY <2>4, <2>5, StatusClass DEF CheckItems, NoItem
  <2>8. KStart \notin class.multi /\ KStart \notin DOMAIN class.object
    BY StatusClass, Keywords
  <2>9. Take(class, q, l) = Put(class, q, KStart, 3)
    BY <2>4, <2>8 DEF Take
  <2>10. Put(class, q, KStart, 3) = State(NoItem, AtLine, End, <<>>, G, O)
    BY <2>8, PutField DEF q, G
  <2>11. p = State(NoItem, AtLine, End, <<>>, G, O)
    BY <2>1, <2>2, <2>3, <2>7, <2>9, <2>10 DEF p
  <2>12. p.mode = AtLine /\ p.objs = O
    BY <2>11, Parts
  <2>13. Parse(class, s) = Raise(p)
    <3>1. FixObjects(class, p) = Raise(p)
      BY <2>6, <2>12, StatusClass DEF FixObjects
    <3> QED BY <2>12, <3>1 DEF Parse, p, AtLine
  <2>14. Raised(Raise(p))
    <3>1. [p EXCEPT !.mode = AtRaised] = State(NoItem, AtRaised, End, <<>>, G, O)
      BY <2>11, SetMode, Z3
    <3>2. Raise(p).mode = AtRaised
      BY <3>1, Parts DEF Raise, AtRaised
    <3> QED BY <3>2 DEF Raised, AtRaised
  <2> QED BY <1>1, <1>8, <2>13, <2>14
<1>10. KeepsUntil(p, u)
  <2>1. PICK v \in Seq(LaterLines(d)) : s = Top(d) \o v
    <3>1. n \in 2..Len(Top(d) \o w)
      BY <1>3, <1>4, <1>6, <1>7, <1>9, WholeRead
    <3> DEFINE S == LaterLines(d)
               T == AllLines(d)
               a == Top(d)
    <3>2. S \in SUBSET T /\ a \in Seq(T) /\ w \in Seq(S) /\ Len(a) = 2
      BY <1>7, LaterAll
    <3> HIDE DEF S, T, a
    <3>3. n \in 2..Len(a \o w)
      BY <3>1 DEF a
    <3>4. Begun(SubSeq(a \o w, 1, n), a, S)
      BY <3>2, <3>3, BeginOf
    <3>5. s = SubSeq(a \o w, 1, n)
      BY <1>6 DEF s, a
    <3>6. \E v \in Seq(S) : s = a \o v
      BY <3>4, <3>5 DEF Begun
    <3> QED BY <3>6 DEF S, a
  <2>2. Top(d) \in Seq(AllLines(d)) /\ v \in Seq(AllLines(d))
    BY <1>7, LaterAll
  <2>3. p = ReadLines(class, ReadLines(class, Unread(class), Top(d)), v)
    BY <2>1, <2>2, ReadConcat DEF p
  <2>4. PICK F, O : /\ Between(ReadLines(class, Unread(class), Top(d)), F, O)
                    /\ KUntil \in DOMAIN F /\ F[KUntil] = <<u>>
    BY TopRead DEF Progress
  <2>5. KeepsUntil(ReadLines(class, Unread(class), Top(d)), u)
    BY <2>4 DEF Between, KeepsUntil
  <2>6. \A l \in LaterLines(d) : l.kw # KUntil
    BY LaterKeywords
  <2> QED BY <2>3, <2>5, <2>6, LinesKeep
<1> DEFINE q == IF p.mode \in {"END", "."} THEN Close(class, p) ELSE p
<1>11. KeepsUntil(q, u)
  <2>1. p.mode \in {"END", "."} => p.mode \notin {AtLine, AtRaised}
    BY ModeNames
  <2> QED BY <1>10, <2>1, CloseKeeps
<1>12. Parse(class, s) = IF q.mode = "line" THEN FixObjects(class, q) ELSE Raise(q)
  BY DEF Parse, p
<1> HIDE DEF q
<1>13. Parse(class, s) \in {q, Raise(q)}
  BY <1>12 DEF FixObjects
<1>14. KeepsUntil(Read(raw), u)
  BY <1>8, <1>11, <1>13, RaiseKeeps
<1>15. Read(raw).fields[KUntil] = <<u>>
  BY <1>14, Parts DEF KeepsUntil
<1> QED BY <1>4, <1>15 DEF KUntil

(* What is valid at a time was valid before.                               *)
LEMMA FreshBefore ==
  ASSUME NEW raw, NEW m \in 0..MaxNow, m + 1 \in 0..MaxNow, <<raw, m + 1>> \in IsFresh
  PROVE  <<raw, m>> \in IsFresh
<1>1. raw \in Loads /\ raw.n # 0 /\ Read(raw).fields["valid-until"][1] > m + 1
  BY DEF IsFresh
<1>2. /\ raw.doc \in Docs
      /\ Read(raw).fields["valid-until"] = <<Published[raw.doc].until>>
  BY <1>1, UntilRead
<1>3. Read(raw).fields["valid-until"][1] \in Nat
  BY <1>2, Lists
<1>4. Read(raw).fields["valid-until"][1] > m
  BY <1>1, <1>3
<1> QED BY <1>1, <1>4 DEF IsFresh

-----------------------------------------------------------------------------
(* Who holds the lock and was not forced found nothing that was valid.     *)
StaleHeld ==
  \A t \in Tasks :
    call[t].pc \in Holding /\ ~call[t].force => document = None \/ ~Fresh(document)

(* When the holder of the lock lets it go, nobody holds it.                *)
LEMMA NobodyHolds ==
  ASSUME CallsOK, NEW t \in Tasks, call[t].pc \in Holding, call'[t].pc \notin Holding,
         \A u \in Tasks \ {t} : call'[u] = call[u]
  PROVE  \A u \in Tasks : call'[u].pc \notin Holding
BY OneHolds

(* Failing lets the lock go,                                               *)
LEMMA FailFrees ==
  ASSUME CallsOK, NEW t \in Tasks, NEW cause, Fail(t, cause)
  PROVE  call'[t].pc \notin Holding /\ \A u \in Tasks \ {t} : call'[u] = call[u]
<1> DEFINE c == call'[t]
<1>1. call \in [Tasks -> CallRecord]
  BY DEF CallsOK
<1>2. \A u \in Tasks \ {t} : call'[u] = call[u]
  BY <1>1 DEF Fail
<1>3. \/ c = [Idle EXCEPT !.pc = "raised", !.cause = cause]
      \/ c = [Idle EXCEPT !.pc = "lock", !.cause = cause,
                          !.force = call[t].force, !.tries = call[t].tries - 1]
  BY <1>1 DEF Fail
<1>4. c.pc \in {"raised", "lock"}
  <2> HIDE DEF c
  <2> QED BY <1>3 DEF Idle
<1> QED BY <1>2, <1>4, IdleRecord

(* returning does,                                                         *)
LEMMA ReturnFrees ==
  ASSUME CallsOK, NEW t \in Tasks, NEW x, Return(t, x)
  PROVE  call'[t].pc \notin Holding /\ \A u \in Tasks \ {t} : call'[u] = call[u]
BY IdleRecord DEF CallsOK, Return

(* and a consensus that came does, or the keys are asked for first.        *)
LEMMA GotFrees ==
  ASSUME CallsOK, NEW t \in Tasks, call[t].pc = "get", NEW d, Got(t, d)
  PROVE  /\ \A u \in Tasks \ {t} : call'[u] = call[u]
         /\ \/ call'[t].pc \notin Holding
            \/ call'[t].force = call[t].force /\ UNCHANGED document
<1>1. call \in [Tasks -> CallRecord]
  BY DEF CallsOK
<1>2. CASE Fail(t, "keys") \/ Use(t, d)
  BY <1>2, FailFrees, ReturnFrees DEF Use
<1>3. CASE /\ call' = [call EXCEPT ![t].pc = "keys", ![t].base = None,
                                   ![t].new = d, ![t].keyTries = Attempts]
           /\ UNCHANGED document
  <2>1. call'[t].force = call[t].force /\ \A u \in Tasks \ {t} : call'[u] = call[u]
    BY <1>1, <1>3 DEF CallRecord
  <2> QED BY <1>3, <2>1
<1> QED BY <1>2, <1>3 DEF Got

(* Every step keeps StaleHeld.                                             *)
LEMMA StaleKept == TypeOK /\ Quiet /\ StaleHeld /\ [Next]_vars => StaleHeld'
<1> SUFFICES ASSUME TypeOK, Quiet, StaleHeld, [Next]_vars PROVE StaleHeld'
  OBVIOUS
<1>0. CallsOK /\ call \in [Tasks -> CallRecord]
  BY TypeParts DEF CallsOK
<1> DEFINE Old == document = None \/ ~Fresh(document)
<1>1. ASSUME \A u \in Tasks : call'[u].pc \notin Holding PROVE StaleHeld'
  BY <1>1 DEF StaleHeld, Holding
<1>2. ASSUME UNCHANGED <<document, now>>,
             \A u \in Tasks : call'[u].pc \in Holding =>
                call[u].pc \in Holding /\ call'[u].force = call[u].force
      PROVE  StaleHeld'
  BY <1>2 DEF StaleHeld, Holding, Fresh, IsFresh, Loads, Raws, Raised, Read, Lines, Text
<1>3. ASSUME NEW t \in Tasks, call[t].pc \in Holding, call'[t].pc \notin Holding,
             \A u \in Tasks \ {t} : call'[u] = call[u]
      PROVE  StaleHeld'
  BY <1>0, <1>1, <1>3, NobodyHolds
<1>4. ASSUME NEW t \in Tasks, Call(t) PROVE StaleHeld'
  <2>1. \A u \in Tasks \ {t} : call'[u] = call[u]
    BY <1>0, <1>4 DEF Call
  <2>2. call'[t].pc \notin Holding
    <3>1. PICK force : call'[t] = [Idle EXCEPT !.pc = "lock", !.force = force, !.tries = Attempts]
      BY <1>0, <1>4 DEF Call
    <3>2. call'[t].pc = "lock"
      BY <3>1 DEF Idle
    <3> QED BY <3>2, IdleRecord
  <2> QED BY <1>2, <1>4, <2>1, <2>2 DEF Call, memory
<1>5. ASSUME NEW t \in Tasks, Enter(t) PROVE StaleHeld'
  <2>1. CASE Return(t, document)
    BY <1>0, <1>2, <1>5, <2>1, ReturnFrees DEF Enter
  <2>2. CASE /\ ~(~call[t].force /\ document # None /\ Fresh(document))
             /\ call' = [call EXCEPT ![t].pc = "get", ![t].base = document, ![t].cause = "none"]
    <3>1. /\ call'[t].force = call[t].force /\ \A u \in Tasks \ {t} : call'[u] = call[u]
      BY <1>0, <2>2 DEF CallRecord
    <3>2. \A u \in Tasks : call'[u].pc \in Holding /\ ~call'[u].force =>
            document = None \/ ~Fresh(document)
      BY <2>2, <3>1 DEF StaleHeld
    <3>3. UNCHANGED <<document, now>>
      BY <1>5 DEF Enter
    <3> QED BY <3>2, <3>3 DEF StaleHeld, Holding, Fresh, IsFresh, Loads, Raws, Raised, Read, Lines, Text
  <2> QED BY <1>5, <2>1, <2>2 DEF Enter
<1>6. ASSUME NEW t \in Tasks, GetFails(t) PROVE StaleHeld'
  BY <1>0, <1>3, <1>6, FailFrees, IdleRecord DEF GetFails
<1>7. ASSUME NEW t \in Tasks, NEW d, call[t].pc = "get", Got(t, d), UNCHANGED now PROVE StaleHeld'
  <2>1. /\ \A u \in Tasks \ {t} : call'[u] = call[u]
        /\ \/ call'[t].pc \notin Holding
           \/ call'[t].force = call[t].force /\ UNCHANGED document
    BY <1>0, <1>7, GotFrees
  <2> QED BY <1>2, <1>3, <1>7, <2>1, IdleRecord
<1>8. ASSUME NEW t \in Tasks, GetWhole(t) PROVE StaleHeld'
  BY <1>7, <1>8 DEF GetWhole
<1>9. ASSUME NEW t \in Tasks, GetDiff(t) PROVE StaleHeld'
  <2>1. PICK d : Got(t, d) \/ Fail(t, "none")
    BY <1>9 DEF GetDiff
  <2> QED BY <1>0, <1>3, <1>7, <1>9, <2>1, FailFrees, IdleRecord DEF GetDiff
<1>10. ASSUME NEW t \in Tasks, GetKeys(t) PROVE StaleHeld'
  <2>1. PICK d, cause : Use(t, d) \/ Fail(t, cause)
    BY <1>10 DEF GetKeys
  <2> QED BY <1>0, <1>3, <1>10, <2>1, FailFrees, ReturnFrees, IdleRecord DEF GetKeys, Use
<1>11. ASSUME NEW t \in Tasks, GetKeysFails(t) PROVE StaleHeld'
  <2>1. CASE Fail(t, "answer")
    BY <1>0, <1>3, <1>11, <2>1, FailFrees, IdleRecord DEF GetKeysFails
  <2>2. CASE call' = [call EXCEPT ![t].keyTries = @ - 1]
    <3>1. \A u \in Tasks : call'[u].pc = call[u].pc /\ call'[u].force = call[u].force
      BY <1>0, <2>2 DEF CallRecord
    <3> QED BY <1>2, <1>11, <3>1 DEF GetKeysFails, memory
  <2> QED BY <1>11, <2>1, <2>2 DEF GetKeysFails
<1>12. ASSUME NEW t \in Tasks, Cancel(t) PROVE StaleHeld'
  BY <1>0, <1>2, <1>12, FailFrees DEF Cancel, memory
<1>13. ASSUME Tick PROVE StaleHeld'
  <2>1. now \in 0..MaxNow /\ now' = now + 1 /\ now + 1 \in 0..MaxNow /\ UNCHANGED <<document, call>>
    BY <1>13, ConsensusAssumption DEF Tick, TypeOK, memory
  <2>2. Fresh(document)' => Fresh(document)
    BY <2>1, FreshBefore DEF Fresh, IsFresh, Loads, Raws, Raised, Read, Lines, Text
  <2> QED BY <2>1, <2>2 DEF StaleHeld, Holding
<1>14. ASSUME Crash PROVE StaleHeld'
  BY <1>1, <1>14, IdleRecord DEF Crash
<1>15. ASSUME Start PROVE StaleHeld'
  BY <1>1, <1>15, IdleRecord DEF Start, Quiet
<1>16. CASE UNCHANGED vars
  BY <1>2, <1>16 DEF vars, memory
<1> QED BY <1>4, <1>5, <1>6, <1>8, <1>9, <1>10, <1>11, <1>12, <1>13, <1>14, <1>15, <1>16 DEF Next, Directory

(* FreshIsKept: a consensus that is still valid is replaced by a forced    *)
(* call only.                                                              *)
THEOREM FreshKept == Spec => FreshIsKept
<1> DEFINE IInv == TypeOK /\ Quiet /\ StaleHeld
           Keeps == /\ proc = "up" /\ document # None /\ document' # document /\ Fresh(document)
                    => proc' = "down" \/ \E t \in Tasks : call[t].pc \in Holding /\ call[t].force
<1>1. Init => IInv
  <2>1. Init => StaleHeld
    BY IdleRecord DEF Init, StaleHeld
  <2> QED BY <2>1, TypeInit DEF Init, Quiet
<1>2. IInv /\ [Next]_vars => IInv'
  BY TypeKept, QuietKept, StaleKept
<1>3. IInv /\ [Next]_vars => Keeps
  <2> SUFFICES ASSUME IInv, [Next]_vars, proc = "up", document # None, document' # document,
                      Fresh(document), proc' # "down"
               PROVE  \E t \in Tasks : call[t].pc \in Holding /\ call[t].force
    OBVIOUS
  <2>1. \A t \in Tasks : call[t].pc \in Holding => call[t].force
    BY DEF StaleHeld
  <2>2. PICK t \in Tasks : GetWhole(t) \/ GetDiff(t) \/ GetKeys(t)
    BY DEF Next, vars, memory, Call, Enter, Cancel, Tick, Crash, Start, Directory, GetFails, GetKeysFails
  <2>3. call[t].pc \in Holding
    BY <2>2, IdleRecord DEF GetWhole, GetDiff, GetKeys
  <2> QED BY <2>1, <2>3
<1> QED
  <2> HIDE DEF IInv
  <2> QED BY <1>1, <1>2, <1>3, PTL DEF Spec, FreshIsKept

-----------------------------------------------------------------------------
(* Reading a difference.                                                   *)
KDiff == "network-status-diff-version"
KHash == "hash"
KEd   == "ed"
Dot   == Line(AtDot, <<>>)

(* What an ed command becomes.                                             *)
Action(act, data) == [arg |-> act, ml |-> data]

(* The class of differences has no objects and one kind of ed commands.    *)
LEMMA DiffClass ==
  /\ NetworkStatusDiff.start = KDiff /\ NetworkStatusDiff.items = {KDiff, KHash}
  /\ NetworkStatusDiff.masks = {KEd} /\ NetworkStatusDiff.multi = {}
  /\ DOMAIN NetworkStatusDiff.object = {} /\ DOMAIN NetworkStatusDiff.built = {}
  /\ KEd \notin {KDiff, KHash} /\ KDiff \notin {KStart, KHash, NoItem}
BY DEF NetworkStatusDiff, KDiff, KHash, KEd, KStart, NoItem

(* Between two items of a difference, with the ed commands read so far.    *)
EdsRead(p, acts) ==
  \E F, O : Between(p, F, O) /\ KEd \in DOMAIN F /\ F[KEd] = acts

(* An ed command is added to those there are.                              *)
LEMMA ActionPut ==
  ASSUME NEW open, NEW block, NEW F, NEW O, NEW v, NEW acts, KEd \in DOMAIN F, F[KEd] = acts
  PROVE  EdsRead(Put(NetworkStatusDiff, State(NoItem, AtLine, open, block, F, O), KEd, v), Append(acts, v))
<1> DEFINE G == Give(F, KEd, v)
<1>1. KEd \in DOMAIN G /\ G[KEd] = Append(acts, v)
  BY DEF Give
<1> HIDE DEF G
<1>2. Put(NetworkStatusDiff, State(NoItem, AtLine, open, block, F, O), KEd, v) =
        State(NoItem, AtLine, open, block, G, O)
  BY DiffClass, PutField DEF G
<1> QED BY <1>1, <1>2 DEF EdsRead, Between

(* The line of an ed command.                                              *)
LEMMA EdLine ==
  ASSUME NEW open, NEW block, NEW F, NEW O, NEW l, l.kw = KEd, Ranged(l.v)
  PROVE  ReadLine(NetworkStatusDiff, State(NoItem, AtLine, open, block, F, O), l) =
           IF l.v.act = "d"
             THEN Put(NetworkStatusDiff, State(NoItem, AtLine, open, block, F, O), KEd, Action(l.v, <<>>))
             ELSE State(NoItem, AtDot, l, <<>>, F, O)
<1> DEFINE class == NetworkStatusDiff
           p == State(NoItem, AtLine, open, block, F, O)
           e == <<>>
<1>1. ReadLine(class, p, l) = CheckItems(class, p, l)
  BY Checked
<1>2. l.kw \notin class.items /\ l.kw \notin DOMAIN class.object /\ l.kw \in class.masks
  BY DiffClass
<1>3. [p EXCEPT !.mode = AtDot, !.open = l, !.block = e] = State(NoItem, AtDot, l, e, F, O)
  <2> HIDE DEF e
  <2>1. [p EXCEPT !.mode = AtDot] = State(NoItem, AtDot, open, block, F, O)
    BY SetMode, Z3
  <2>2. [State(NoItem, AtDot, open, block, F, O) EXCEPT !.open = l] = State(NoItem, AtDot, l, block, F, O)
    BY SetOpen, Z3
  <2>3. [State(NoItem, AtDot, l, block, F, O) EXCEPT !.block = e] = State(NoItem, AtDot, l, e, F, O)
    BY SetBlock, Z3
  <2> HIDE DEF p
  <2>4. [p EXCEPT !.mode = AtDot, !.open = l, !.block = e]
          = [[[p EXCEPT !.mode = AtDot] EXCEPT !.open = l] EXCEPT !.block = e]
    OBVIOUS
  <2> QED BY <2>1, <2>2, <2>3, <2>4, Zenon
<1> HIDE DEF class, p
<1>4. CheckItems(class, p, l) =
        IF l.v.act = "d" THEN Put(class, p, l.kw, [arg |-> l.v, ml |-> e])
        ELSE [p EXCEPT !.mode = AtDot, !.open = l, !.block = e]
  BY <1>2 DEF CheckItems, AtDot
<1> QED BY <1>1, <1>3, <1>4 DEF class, p, Action

(* Lines of a block are kept one after the other.                          *)
LEMMA LineInBlock ==
  ASSUME NEW class, NEW first, NEW open, NEW block, NEW F, NEW O, NEW l, l.kw # AtDot
  PROVE  ReadLine(class, State(first, AtDot, open, block, F, O), l) =
           State(first, AtDot, open, Append(block, l), F, O)
<1> DEFINE p == State(first, AtDot, open, block, F, O)
           x == Append(block, l)
<1>1. p.mode = AtDot /\ p.block = block
  BY Parts
<1> HIDE DEF x
<1>2. [p EXCEPT !.block = x] = State(first, AtDot, open, x, F, O)
  BY SetBlock, Z3
<1> HIDE DEF p
<1>3. ReadLine(class, p, l) = [p EXCEPT !.block = Append(p.block, l)]
  BY <1>1 DEF ReadLine, AtDot
<1> QED BY <1>1, <1>2, <1>3 DEF p, x

(* The end of a block.                                                     *)
LEMMA BlockEnds ==
  ASSUME NEW class, NEW first, NEW open, NEW block, NEW F, NEW O
  PROVE  ReadLine(class, State(first, AtDot, open, block, F, O), Dot) =
           Put(class, State(first, AtLine, open, block, F, O), open.kw, Action(open.v, block))
<1> DEFINE p == State(first, AtDot, open, block, F, O)
           q == State(first, AtLine, open, block, F, O)
<1>1. p.mode = AtDot /\ p.block = block /\ p.open = open
  BY Parts
<1>2. [p EXCEPT !.mode = AtLine] = q
  BY SetMode, Z3
<1>3. Dot.kw = AtDot
  BY DEF Dot, Line
<1> HIDE DEF p, q
<1>4. ReadLine(class, p, Dot) = Close(class, p)
  BY <1>1, <1>3 DEF ReadLine, AtDot
<1>5. Close(class, p) = Put(class, q, open.kw, [arg |-> open.v, ml |-> block])
  BY <1>1, <1>2 DEF Close, AtLine
<1> QED BY <1>4, <1>5 DEF p, q, Action

(* A block is what was read in it.                                         *)
LEMMA BlockLines ==
  ASSUME NEW class, NEW first, NEW open, NEW F, NEW O, NEW S, \A l \in S : l.kw # AtDot,
         NEW data \in Seq(S)
  PROVE  ReadLines(class, State(first, AtDot, open, <<>>, F, O), data) =
           State(first, AtDot, open, data, F, O)
<1> DEFINE N == Len(data)
           e == <<>>
           p == State(first, AtDot, open, e, F, O)
           till(n) == SubSeq(data, 1, n)
<1>1. N \in Nat /\ \A n \in 0..(N - 1) : data[n + 1] \in S
  OBVIOUS
<1>2. till(0) = e /\ till(N) = data
  OBVIOUS
<1>3. ASSUME NEW n \in 0..(N - 1) PROVE till(n + 1) = Append(till(n), data[n + 1])
  OBVIOUS
<1> HIDE DEF N, p, e, till
<1>4. PICK r : IsReading(r, class, p, data) /\ ReadLines(class, p, data) = r[N]
  BY Reading DEF N
<1>5. r[0] = p /\ \A n \in 0..(N - 1) : r[n + 1] = ReadLine(class, r[n], data[n + 1])
  BY <1>1, <1>4 DEF IsReading, N
<1> DEFINE T == {n \in 0..N : r[n] = State(first, AtDot, open, till(n), F, O)}
<1>6. 0 \in T
  BY <1>1, <1>2, <1>5 DEF p
<1>7. ASSUME NEW n \in 0..(N - 1), n \in T PROVE n + 1 \in T
  <2> DEFINE l == data[n + 1]
             x == till(n)
  <2>1. l.kw # AtDot
    BY <1>1
  <2>2. r[n] = State(first, AtDot, open, x, F, O) /\ r[n + 1] = ReadLine(class, r[n], l)
    BY <1>5, <1>7
  <2>3. till(n + 1) = Append(x, l)
    BY <1>3
  <2> HIDE DEF l, x
  <2>4. r[n + 1] = State(first, AtDot, open, Append(x, l), F, O)
    BY <2>1, <2>2, LineInBlock
  <2>5. n + 1 \in 0..N
    BY <1>1
  <2>6. r[n + 1] = State(first, AtDot, open, till(n + 1), F, O)
    BY <2>3, <2>4
  <2> HIDE DEF till
  <2> QED BY <2>5, <2>6
<1>8. 0..N \subseteq T
  <2> HIDE DEF T
  <2> QED BY <1>1, <1>6, <1>7, Upward
<1>9. r[N] = State(first, AtDot, open, till(N), F, O)
  BY <1>1, <1>8
<1> QED BY <1>2, <1>4, <1>9 DEF p, e

(* A line, and what follows it in two parts.                               *)
LEMMA LineAndMore ==
  ASSUME NEW class, NEW p, NEW S, NEW l \in S, NEW s \in Seq(S), NEW t \in Seq(S)
  PROVE  ReadLines(class, p, <<l>> \o (s \o t)) =
           ReadLines(class, ReadLines(class, ReadLine(class, p, l), s), t)
<1> DEFINE u == s \o t
<1>1. u \in Seq(S)
  OBVIOUS
<1> HIDE DEF u
<1>2. ReadLines(class, p, <<l>> \o u) = ReadLines(class, ReadLine(class, p, l), u)
  BY <1>1, ReadOn
<1> DEFINE q == ReadLine(class, p, l)
<1> HIDE DEF q
<1>3. ReadLines(class, q, s \o t) = ReadLines(class, ReadLines(class, q, s), t)
  BY ReadConcat
<1> QED BY <1>2, <1>3 DEF u, q

(* Ed commands with and without lines.                                     *)
LEMMA DeleteRead ==
  ASSUME NEW p, NEW acts, EdsRead(p, acts), NEW act, act.act = "d", Ranged(act)
  PROVE  EdsRead(ReadLine(NetworkStatusDiff, p, Line(KEd, act)), Append(acts, Action(act, <<>>)))
<1>1. PICK F, O : Between(p, F, O) /\ KEd \in DOMAIN F /\ F[KEd] = acts
  BY DEF EdsRead
<1>2. PICK open, block : p = State(NoItem, AtLine, open, block, F, O)
  BY <1>1 DEF Between
<1> DEFINE l == Line(KEd, act)
           e == <<>>
<1>3. l.kw = KEd /\ l.v = act
  BY Lined
<1> HIDE DEF l
<1>4. ReadLine(NetworkStatusDiff, p, l) = Put(NetworkStatusDiff, p, KEd, Action(act, e))
  BY <1>2, <1>3, EdLine
<1> HIDE DEF e
<1>5. EdsRead(Put(NetworkStatusDiff, p, KEd, Action(act, e)), Append(acts, Action(act, e)))
  BY <1>1, <1>2, ActionPut
<1> QED BY <1>4, <1>5 DEF l, e

(* One more command with a block of text is read.                          *)
LEMMA ChangeRead ==
  ASSUME NEW p, NEW acts, EdsRead(p, acts), NEW act, act.act # "d", Ranged(act),
         NEW S, \A l \in S : l.kw # AtDot, NEW data \in Seq(S)
  PROVE  EdsRead(ReadLines(NetworkStatusDiff, p, <<Line(KEd, act)>> \o Append(data, Dot)),
                 Append(acts, Action(act, data)))
<1>1. PICK F, O : Between(p, F, O) /\ KEd \in DOMAIN F /\ F[KEd] = acts
  BY DEF EdsRead
<1>2. PICK open, block : p = State(NoItem, AtLine, open, block, F, O)
  BY <1>1 DEF Between
<1> DEFINE class == NetworkStatusDiff
           l == Line(KEd, act)
           a == State(NoItem, AtDot, l, <<>>, F, O)
           b == State(NoItem, AtDot, l, data, F, O)
           c == State(NoItem, AtLine, l, data, F, O)
           A == S \cup {l, Dot}
           rest == Append(data, Dot)
           v == Action(act, data)
<1>3. l.kw = KEd /\ l.v = act
  BY Lined
<1>4. rest \in Seq(A) /\ data \in Seq(A) /\ l \in A /\ <<Dot>> \in Seq(A) /\ rest = data \o <<Dot>>
  <2> HIDE DEF l
  <2>1. data \in Seq(A) /\ Dot \in A /\ l \in A
    OBVIOUS
  <2> HIDE DEF A
  <2> QED BY <2>1
<1> HIDE DEF l
<1>5. ReadLine(class, p, l) = a
  BY <1>2, <1>3, EdLine
<1>6. ReadLines(class, a, data) = b
  BY BlockLines
<1>7. ReadLine(class, b, Dot) = Put(class, c, KEd, v)
  <2>1. ReadLine(class, b, Dot) = Put(class, c, l.kw, Action(l.v, data))
    BY BlockEnds
  <2> QED BY <1>3, <2>1
<1> HIDE DEF a, b, rest, A, v
<1> HIDE DEF class
<1>8. ReadLines(class, p, <<l>> \o rest) = ReadLines(class, b, <<Dot>>)
  <2> DEFINE e == <<Dot>>
  <2>1. data \in Seq(A) /\ e \in Seq(A) /\ rest = data \o e
    BY <1>4
  <2> HIDE DEF e
  <2>2. ReadLines(class, p, <<l>> \o (data \o e)) =
          ReadLines(class, ReadLines(class, ReadLine(class, p, l), data), e)
    BY <1>4, <2>1, LineAndMore
  <2> QED BY <1>5, <1>6, <2>1, <2>2 DEF e
<1>10. ReadLines(class, b, <<Dot>>) = Put(class, c, KEd, v)
  BY <1>7, ReadOne
<1>11. EdsRead(Put(class, c, KEd, v), Append(acts, v))
  BY <1>1, ActionPut DEF class
<1> QED BY <1>8, <1>10, <1>11 DEF rest, l, v, class

(* The version comes first.                                                *)
LEMMA VersionRead ==
  ASSUME NEW v
  PROVE  EdsRead(ReadLine(NetworkStatusDiff, Unread(NetworkStatusDiff), Line(KDiff, v)), <<>>)
<1> DEFINE class == NetworkStatusDiff
           F == [k \in {KDiff, KHash, KEd} |-> <<>>]
           O == [k \in Starts(class) |-> <<>>]
           p == State(KDiff, AtLine, End, <<>>, F, O)
           q == State(NoItem, AtLine, End, <<>>, F, O)
           l == Line(KDiff, v)
           G == Give(F, KDiff, v)
           e == <<>>
<1>1. Unread(class) = p
  <2>1. class.items \cup class.masks = {KDiff, KHash, KEd}
    BY DiffClass
  <2> QED BY <2>1, DiffClass DEF Unread, State, AtLine
<1>2. l.kw = KDiff /\ l.v = v /\ p.first = KDiff
  BY Lined, Parts
<1>3. [p EXCEPT !.first = NoItem] = q
  BY SetFirst, Z3
<1>4. ReadLine(class, p, l) = CheckItems(class, p, l)
  BY Checked
<1>5. G[KEd] = e /\ KEd \in DOMAIN G
  <2>1. F[KEd] = e /\ KEd \in DOMAIN F
    OBVIOUS
  <2>2. KEd # KDiff
    BY DiffClass
  <2> HIDE DEF e, F
  <2> QED BY <2>1, <2>2 DEF Give
<1> HIDE DEF p, q, l, G, F, O, e
<1>6. KDiff \in class.items /\ KDiff \notin class.multi /\ KDiff \notin DOMAIN class.object
  BY DiffClass
<1> HIDE DEF class
<1>7. CheckItems(class, p, l) = Take(class, q, l)
  BY <1>2, <1>3, <1>6 DEF CheckItems, NoItem
<1>8. Take(class, q, l) = Put(class, q, KDiff, v)
  BY <1>2, <1>6 DEF Take
<1>9. Put(class, q, KDiff, v) = State(NoItem, AtLine, End, e, G, O)
  BY <1>6, PutField DEF q, G, e
<1>10. EdsRead(State(NoItem, AtLine, End, e, G, O), e)
  BY <1>5 DEF EdsRead, Between
<1> QED BY <1>1, <1>4, <1>7, <1>8, <1>9, <1>10 DEF l, e, class

(* The beginning of a text stays where it is.                              *)
LEMMA HeadJoined ==
  ASSUME NEW S, NEW s \in Seq(S), s # <<>>, NEW t \in Seq(S)
  PROVE  s \o t \in Seq(S) /\ s \o t # <<>> /\ Head(s \o t) = Head(s)
<1> DEFINE u == s \o t
<1>1. /\ u \in Seq(S) /\ Len(u) = Len(s) + Len(t) /\ Len(s) \in Nat /\ Len(t) \in Nat
      /\ \A n \in 1..Len(s) : u[n] = s[n]
  <2>1. s \in Seq(S) /\ t \in Seq(S)
    OBVIOUS
  <2> QED BY <2>1, Joined
<1>2. Len(s) >= 1
  BY <1>1
<1> HIDE DEF u
<1>3. u[1] = s[1] /\ Len(u) >= 1
  BY <1>1, <1>2
<1>4. Head(u) = u[1] /\ Head(s) = s[1] /\ u # <<>>
  BY <1>1, <1>2, <1>3
<1> QED BY <1>1, <1>3, <1>4 DEF u

(* A difference of four ed commands, of which the first only deletes.      *)
Change(act, data) == <<Line(KEd, act)>> \o Append(data, Dot)
FourEds(v, a, b, x, c, y, d, z) ==
  <<Line(KDiff, v)>> \o (<<Line(KEd, a)>> \o <<>>) \o Change(b, x) \o Change(c, y) \o Change(d, z)

(* The lines of a command with a block.                                    *)
LEMMA ChangeIn ==
  ASSUME NEW S, NEW T, S \subseteq T, NEW a, Line(KEd, a) \in T, Dot \in T, NEW x \in Seq(S)
  PROVE  Change(a, x) \in Seq(T)
<1> DEFINE l == Line(KEd, a)
           y == Append(x, Dot)
<1>1. x \in Seq(T)
  OBVIOUS
<1>2. y \in Seq(T)
  BY <1>1
<1> HIDE DEF l, y
<1>3. <<l>> \in Seq(T)
  BY DEF l
<1>4. <<l>> \o y \in Seq(T)
  BY <1>2, <1>3
<1> QED BY <1>4 DEF Change, l, y

(* A sequence with one more element, element by element.                   *)
LEMMA AppendedTo ==
  ASSUME NEW S, NEW s \in Seq(S), NEW x \in S
  PROVE  /\ Append(s, x) \in Seq(S) /\ Len(Append(s, x)) = Len(s) + 1
         /\ Append(s, x)[Len(s) + 1] = x
         /\ \A i \in 1..Len(s) : Append(s, x)[i] = s[i]
OBVIOUS

(* Four elements, one by one.                                              *)
LEMMA Appends ==
  ASSUME NEW A, NEW B, NEW C, NEW D
  PROVE  Append(Append(Append(Append(<<>>, A), B), C), D) = <<A, B, C, D>>
<1> DEFINE S == {A, B, C, D}
<1>0. A \in S /\ B \in S /\ C \in S /\ D \in S
  OBVIOUS
<1> HIDE DEF S
<1>1. Append(<<>>, A) = <<A>>
  OBVIOUS
<1>2. Append(<<A>>, B) = <<A, B>>
  <2> DEFINE s == <<A>>
             u == Append(s, B)
  <2>1. s \in Seq(S) /\ Len(s) = 1 /\ s[1] = A
    BY <1>0
  <2> HIDE DEF s
  <2>2. /\ u \in Seq(S) /\ Len(u) = Len(s) + 1 /\ u[Len(s) + 1] = B
        /\ \A i \in 1..Len(s) : u[i] = s[i]
    <3>1. s \in Seq(S)
      BY <2>1
    <3> QED BY <1>0, <3>1, AppendedTo
  <2> HIDE DEF u
  <2>3. u \in Seq(S) /\ Len(u) = 2 /\ u[1] = A /\ u[2] = B
    BY <2>1, <2>2
  <2>4. u = <<A, B>>
    BY <2>3
  <2> QED BY <2>4 DEF u, s
<1>3. Append(<<A, B>>, C) = <<A, B, C>>
  <2> DEFINE s == <<A, B>>
             u == Append(s, C)
  <2>1. s \in Seq(S) /\ Len(s) = 2 /\ s[1] = A /\ s[2] = B
    BY <1>0
  <2> HIDE DEF s
  <2>2. /\ u \in Seq(S) /\ Len(u) = Len(s) + 1 /\ u[Len(s) + 1] = C
        /\ \A i \in 1..Len(s) : u[i] = s[i]
    <3>1. s \in Seq(S)
      BY <2>1
    <3> QED BY <1>0, <3>1, AppendedTo
  <2> HIDE DEF u
  <2>3. u \in Seq(S) /\ Len(u) = 3 /\ u[1] = A /\ u[2] = B /\ u[3] = C
    BY <2>1, <2>2
  <2>4. u = <<A, B, C>>
    BY <2>3
  <2> QED BY <2>4 DEF u, s
<1>4. Append(<<A, B, C>>, D) = <<A, B, C, D>>
  <2> DEFINE s == <<A, B, C>>
             u == Append(s, D)
  <2>1. s \in Seq(S) /\ Len(s) = 3 /\ s[1] = A /\ s[2] = B /\ s[3] = C
    BY <1>0
  <2> HIDE DEF s
  <2>2. /\ u \in Seq(S) /\ Len(u) = Len(s) + 1 /\ u[Len(s) + 1] = D
        /\ \A i \in 1..Len(s) : u[i] = s[i]
    <3>1. s \in Seq(S)
      BY <2>1
    <3> QED BY <1>0, <3>1, AppendedTo
  <2> HIDE DEF u
  <2>3. u \in Seq(S) /\ Len(u) = 4 /\ u[1] = A /\ u[2] = B /\ u[3] = C /\ u[4] = D
    BY <2>1, <2>2
  <2>4. u = <<A, B, C, D>>
    BY <2>3
  <2> QED BY <2>4 DEF u, s
<1> QED BY <1>1, <1>2, <1>3, <1>4, Zenon

Deletes(a) == a.act = "d" /\ Ranged(a)
Changes(a) == a.act # "d" /\ Ranged(a)
Undotted(S) == \A l \in S : l.kw # AtDot
AreFour(v, a, b, x, c, y, d, z) ==
  ParseAny(FourEds(v, a, b, x, c, y, d, z)).fields[KEd] =
    <<Action(a, <<>>), Action(b, x), Action(c, y), Action(d, z)>>

(* A difference of four commands is read as these four.                    *)
LEMMA FourRead ==
  ASSUME NEW S, Undotted(S), NEW x \in Seq(S), NEW y \in Seq(S), NEW z \in Seq(S), NEW v,
         NEW a, Deletes(a), NEW b, Changes(b), NEW c, Changes(c), NEW d, Changes(d)
  PROVE  AreFour(v, a, b, x, c, y, d, z)
<1>0. /\ a.act = "d" /\ Ranged(a) /\ b.act # "d" /\ Ranged(b) /\ c.act # "d" /\ Ranged(c)
      /\ d.act # "d" /\ Ranged(d) /\ \A l \in S : l.kw # AtDot
  BY DEF Deletes, Changes, Undotted
<1> DEFINE class == NetworkStatusDiff
           l == Line(KDiff, v)
           m == Line(KEd, a)
           T == S \cup {l, m, Line(KEd, b), Line(KEd, c), Line(KEd, d), Dot}
           t1 == <<l>>
           t2 == <<m>> \o <<>>
           t3 == Change(b, x)
           t4 == Change(c, y)
           t5 == Change(d, z)
           e == <<>>
           L(p, s) == ReadLines(class, p, s)
           u == Unread(class)
           p1 == L(u, t1)
           p2 == L(p1, t2)
           p3 == L(p2, t3)
           p4 == L(p3, t4)
           p5 == L(p4, t5)
           A == Action(a, e)
           B == Action(b, x)
           C == Action(c, y)
           D == Action(d, z)
<1>1. EdsRead(p1, e)
  <2> HIDE DEF class
  <2>1. p1 = ReadLine(class, u, l)
    BY ReadOne
  <2> QED BY <2>1, VersionRead DEF class
<1>2. t2 = <<m>>
  <2> HIDE DEF m
  <2> QED OBVIOUS
<1>3. EdsRead(p2, Append(e, A))
  <2>1. p2 = ReadLine(class, p1, m)
    <3> HIDE DEF p1, class, m, t2
    <3> QED BY <1>2, ReadOne
  <2> HIDE DEF p1, p2
  <2> QED BY <1>0, <1>1, <2>1, DeleteRead
<1>4. EdsRead(p3, Append(Append(e, A), B))
  <2> HIDE DEF p2, A
  <2> QED BY <1>0, <1>3, ChangeRead DEF Change
<1>5. EdsRead(p4, Append(Append(Append(e, A), B), C))
  <2> HIDE DEF p3, A, B
  <2> QED BY <1>0, <1>4, ChangeRead DEF Change
<1>6. EdsRead(p5, Append(Append(Append(Append(e, A), B), C), D))
  <2> HIDE DEF p4, A, B, C
  <2> QED BY <1>0, <1>5, ChangeRead DEF Change
<1> HIDE DEF A, B, C, D
<1>7. Append(Append(Append(Append(e, A), B), C), D) = <<A, B, C, D>>
  BY Appends
<1>8. /\ t1 \in Seq(T) /\ t2 \in Seq(T) /\ t3 \in Seq(T) /\ t4 \in Seq(T) /\ t5 \in Seq(T)
      /\ t1 # <<>> /\ Head(t1) = l
  <2>1. /\ S \subseteq T /\ l \in T /\ m \in T /\ Line(KEd, b) \in T /\ Line(KEd, c) \in T
        /\ Line(KEd, d) \in T /\ Dot \in T
    OBVIOUS
  <2> HIDE DEF T
  <2>2. t3 \in Seq(T) /\ t4 \in Seq(T) /\ t5 \in Seq(T)
    BY <2>1, ChangeIn
  <2> HIDE DEF l, m, t2
  <2>3. t1 \in Seq(T) /\ t2 \in Seq(T) /\ t1 # <<>> /\ Head(t1) = l
    BY <1>2, <2>1
  <2> QED BY <2>2, <2>3
<1> HIDE DEF T, t1, t2, t3, t4, t5, l, m
<1> DEFINE s2 == t1 \o t2
           s3 == s2 \o t3
           s4 == s3 \o t4
           s5 == s4 \o t5
<1>9. s2 \in Seq(T) /\ s2 # <<>> /\ Head(s2) = l
  BY <1>8, HeadJoined
<1>10. L(u, s2) = p2
  <2> HIDE DEF class, u
  <2> QED BY <1>8, ReadConcat
<1> HIDE DEF s2, p2
<1>11. s3 \in Seq(T) /\ s3 # <<>> /\ Head(s3) = l
  BY <1>8, <1>9, HeadJoined
<1>12. L(u, s3) = p3
  <2> HIDE DEF class, u
  <2>1. L(u, s3) = L(L(u, s2), t3)
    BY <1>8, <1>9, ReadConcat
  <2> QED BY <1>10, <2>1
<1> HIDE DEF s3, p3
<1>13. s4 \in Seq(T) /\ s4 # <<>> /\ Head(s4) = l
  BY <1>8, <1>11, HeadJoined
<1>14. L(u, s4) = p4
  <2> HIDE DEF class, u
  <2>1. L(u, s4) = L(L(u, s3), t4)
    BY <1>8, <1>11, ReadConcat
  <2> QED BY <1>12, <2>1
<1> HIDE DEF s4, p4
<1>15. s5 \in Seq(T) /\ s5 # <<>> /\ Head(s5) = l
  BY <1>8, <1>13, HeadJoined
<1>16. L(u, s5) = p5
  <2> HIDE DEF class, u
  <2>1. L(u, s5) = L(L(u, s4), t5)
    BY <1>8, <1>13, ReadConcat
  <2> QED BY <1>14, <2>1
<1> HIDE DEF s5, p5
<1>17. PICK F, O : Between(p5, F, O) /\ KEd \in DOMAIN F /\ F[KEd] = <<A, B, C, D>>
  BY <1>6, <1>7 DEF EdsRead
<1>18. p5.mode = AtLine /\ p5.fields = F
  BY <1>17, Parts DEF Between
<1>19. Parse(class, s5) = p5
  <2>1. FixObjects(class, p5) = p5
    BY DiffClass DEF FixObjects
  <2>2. ReadLines(class, Unread(class), s5) = p5
    BY <1>16 DEF u
  <2> HIDE DEF class
  <2> QED BY <1>18, <2>1, <2>2 DEF Parse, AtLine
<1>20. ParseAny(s5) = Parse(class, s5)
  <2>1. l.kw = KDiff
    BY Lined DEF l
  <2>2. ~CheckStart(NetworkStatus, s5) /\ CheckStart(class, s5)
    BY <1>15, <2>1, StatusClass, DiffClass DEF CheckStart
  <2> QED BY <2>2 DEF ParseAny
<1>21. FourEds(v, a, b, x, c, y, d, z) = s5
  BY DEF FourEds, s5, s4, s3, s2, t1, t2, t3, t4, t5, l, m
<1> QED BY <1>17, <1>18, <1>19, <1>20, <1>21 DEF A, B, C, D, AreFour

-----------------------------------------------------------------------------
(* Applying a difference.                                                  *)
Blank == Line("", <<>>)

IsPatching(f, text, acts) ==
  f = [n \in 0..Len(acts) |->
         IF n = 0 THEN Append(text, Blank) ELSE Apply(acts[n].arg, acts[n].ml, f[n - 1])]

(* Four ed commands are applied one after the other.                       *)
LEMMA PatchedFour ==
  ASSUME NEW text, NEW acts, Len(acts) = 4, NEW l0, NEW l1, NEW l2, NEW l3, NEW l4,
         l0 = Append(text, Blank),
         l1 = Apply(acts[1].arg, acts[1].ml, l0), l2 = Apply(acts[2].arg, acts[2].ml, l1),
         l3 = Apply(acts[3].arg, acts[3].ml, l2), l4 = Apply(acts[4].arg, acts[4].ml, l3)
  PROVE  Patched(text, acts) = l4
<1> DEFINE g == [n \in 0..4 |-> IF n = 0 THEN l0 ELSE IF n = 1 THEN l1 ELSE IF n = 2 THEN l2
                                ELSE IF n = 3 THEN l3 ELSE l4]
           f == CHOOSE h : IsPatching(h, text, acts)
           to(h, n) == IF n = 0 THEN Append(text, Blank) ELSE Apply(acts[n].arg, acts[n].ml, h[n - 1])
<1>1. \A n \in 0..4 : g[n] = to(g, n)
  <2>1. /\ 0 \in 0..4 /\ g[0] = l0 /\ g[1] = l1 /\ g[2] = l2 /\ g[3] = l3 /\ g[4] = l4
    OBVIOUS
  <2> HIDE DEF g
  <2>2. /\ to(g, 0) = l0 /\ to(g, 1) = Apply(acts[1].arg, acts[1].ml, g[0])
        /\ to(g, 2) = Apply(acts[2].arg, acts[2].ml, g[1])
        /\ to(g, 3) = Apply(acts[3].arg, acts[3].ml, g[2])
        /\ to(g, 4) = Apply(acts[4].arg, acts[4].ml, g[3])
    OBVIOUS
  <2> HIDE DEF to
  <2>3. /\ g[0] = to(g, 0) /\ g[1] = to(g, 1) /\ g[2] = to(g, 2)
        /\ g[3] = to(g, 3) /\ g[4] = to(g, 4)
    BY <2>1, <2>2
  <2>4. \A n \in 0..4 : n = 0 \/ n = 1 \/ n = 2 \/ n = 3 \/ n = 4
    OBVIOUS
  <2> QED BY <2>3, <2>4, Zenon
<1>2. g = [n \in 0..4 |-> g[n]]
  OBVIOUS
<1>3. g[4] = l4
  OBVIOUS
<1> HIDE DEF g
<1>4. IsPatching(g, text, acts)
  BY <1>1, <1>2 DEF IsPatching
<1>5. IsPatching(f, text, acts)
  BY <1>4
<1>6. Patched(text, acts) = f[4]
  BY DEF Patched, IsPatching, Blank
<1> HIDE DEF f
<1>7. /\ f[0] = Append(text, Blank)
      /\ f[1] = Apply(acts[1].arg, acts[1].ml, f[0])
      /\ f[2] = Apply(acts[2].arg, acts[2].ml, f[1])
      /\ f[3] = Apply(acts[3].arg, acts[3].ml, f[2])
      /\ f[4] = Apply(acts[4].arg, acts[4].ml, f[3])
  <2>1. \A n \in 0..4 : f[n] = to(f, n)
    BY <1>5 DEF IsPatching
  <2>2. /\ to(f, 0) = Append(text, Blank) /\ to(f, 1) = Apply(acts[1].arg, acts[1].ml, f[0])
        /\ to(f, 2) = Apply(acts[2].arg, acts[2].ml, f[1])
        /\ to(f, 3) = Apply(acts[3].arg, acts[3].ml, f[2])
        /\ to(f, 4) = Apply(acts[4].arg, acts[4].ml, f[3])
    OBVIOUS
  <2> HIDE DEF to
  <2>3. f[0] = to(f, 0) /\ f[1] = to(f, 1) /\ f[2] = to(f, 2) /\ f[3] = to(f, 3) /\ f[4] = to(f, 4)
    BY <2>1
  <2> QED BY <2>2, <2>3
<1>8. f[0] = l0
  BY <1>7
<1>9. f[1] = l1
  BY <1>7, <1>8
<1>10. f[2] = l2
  BY <1>7, <1>9
<1>11. f[3] = l3
  BY <1>7, <1>10
<1>12. f[4] = l4
  BY <1>7, <1>11
<1> QED BY <1>6, <1>12

(* Parts of texts.                                                         *)
LEMMA Halves ==
  ASSUME NEW S, NEW s \in Seq(S), NEW n \in 0..Len(s)
  PROVE  /\ SubSeq(s, 1, n) \in Seq(S) /\ Len(SubSeq(s, 1, n)) = n
         /\ \A i \in 1..n : SubSeq(s, 1, n)[i] = s[i]
         /\ SubSeq(s, n + 1, Len(s)) \in Seq(S)
         /\ s = SubSeq(s, 1, n) \o SubSeq(s, n + 1, Len(s))
<1> DEFINE a == SubSeq(s, 1, n)
           b == SubSeq(s, n + 1, Len(s))
           c == a \o b
<1>0. Len(s) \in Nat /\ n \in Nat
  OBVIOUS
<1>1. a \in Seq(S) /\ Len(a) = n /\ \A i \in 1..n : a[i] = s[i]
  OBVIOUS
<1>2. b \in Seq(S) /\ Len(b) = Len(s) - n /\ \A i \in 1..(Len(s) - n) : b[i] = s[n + i]
  BY <1>0
<1> HIDE DEF a, b
<1>3. /\ c \in Seq(S) /\ Len(c) = Len(a) + Len(b)
      /\ \A i \in 1..Len(a) : c[i] = a[i]
      /\ \A i \in 1..Len(b) : c[Len(a) + i] = b[i]
  <2>1. a \in Seq(S) /\ b \in Seq(S)
    BY <1>1, <1>2
  <2> QED BY <2>1, Joined
<1> HIDE DEF c
<1>4. ASSUME NEW i \in 1..Len(s) PROVE c[i] = s[i]
  <2>1. CASE i <= n
    <3>1. i \in 1..Len(a) /\ i \in 1..n
      BY <1>1, <2>1
    <3> QED BY <1>1, <1>3, <3>1
  <2>2. CASE i > n
    <3> DEFINE j == i - n
    <3>1. j \in 1..Len(b) /\ j \in 1..(Len(s) - n) /\ i = n + j
      BY <1>0, <1>2, <2>2
    <3> HIDE DEF j
    <3>2. c[n + j] = b[j] /\ b[j] = s[n + j]
      BY <1>1, <1>2, <1>3, <3>1
    <3> QED BY <3>1, <3>2
  <2> QED BY <1>0, <2>1, <2>2
<1>5. Len(c) = Len(s)
  BY <1>0, <1>1, <1>2, <1>3
<1>6. s = c
  BY <1>3, <1>4, <1>5
<1> QED BY <1>1, <1>2, <1>6 DEF a, b, c

(* The lines up to a place, and from the next on.                          *)
LEMMA PartsOf ==
  ASSUME NEW S, NEW s \in Seq(S), NEW t \in Seq(S)
  PROVE  /\ Upto(s \o t, Len(s)) = s /\ From(s \o t, Len(s) + 1) = t
<1> DEFINE u == s \o t
           a == SubSeq(u, 1, Len(s))
           b == SubSeq(u, Len(s) + 1, Len(u))
<1>1. /\ u \in Seq(S) /\ Len(u) = Len(s) + Len(t) /\ Len(s) \in Nat /\ Len(t) \in Nat
      /\ \A i \in 1..Len(s) : u[i] = s[i]
      /\ \A i \in 1..Len(t) : u[Len(s) + i] = t[i]
  BY Joined
<1> HIDE DEF u
<1>2. a \in Seq(S) /\ Len(a) = Len(s) /\ \A i \in 1..Len(s) : a[i] = u[i]
  BY <1>1
<1>3. b \in Seq(S) /\ Len(b) = Len(t) /\ \A i \in 1..Len(t) : b[i] = u[Len(s) + i]
  BY <1>1
<1> HIDE DEF a, b
<1>4. a = s
  <2>1. \A i \in 1..Len(s) : a[i] = s[i]
    BY <1>1, <1>2
  <2> QED BY <1>2, <2>1
<1>5. b = t
  <2>1. \A i \in 1..Len(t) : b[i] = t[i]
    BY <1>1, <1>3
  <2> QED BY <1>3, <2>1
<1>6. Upto(u, Len(s)) = a
  BY <1>1 DEF Upto, a
<1>7. From(u, Len(s) + 1) = b
  BY DEF From, b
<1> QED BY <1>4, <1>5, <1>6, <1>7 DEF u

(* The whole of a text and nothing behind it.                              *)
LEMMA WholeOf ==
  ASSUME NEW S, NEW s \in Seq(S)
  PROVE  /\ Upto(s, Len(s)) = s /\ From(s, Len(s) + 1) = <<>>
<1> DEFINE e == <<>>
<1>1. e \in Seq(S) /\ s \o e = s
  OBVIOUS
<1> HIDE DEF e
<1>2. Upto(s \o e, Len(s)) = s /\ From(s \o e, Len(s) + 1) = e
  BY <1>1, PartsOf
<1> QED BY <1>1, <1>2 DEF e

-----------------------------------------------------------------------------
(* What an ed command does to a text.                                      *)
ADelete == "d"
AAdd    == "a"
AChange == "c"
EdArg(act, start, end) == [act |-> act, start |-> start, end |-> end]

(* The fields of an ed command.                                            *)
LEMMA EdParts ==
  ASSUME NEW act, NEW start, NEW end
  PROVE  /\ EdArg(act, start, end).act = act /\ EdArg(act, start, end).start = start
         /\ EdArg(act, start, end).end = end
BY DEF EdArg

(* The three commands differ.                                              *)
LEMMA ActNames == ADelete # AAdd /\ AChange # AAdd /\ AChange # ADelete
BY DEF ADelete, AAdd, AChange

(* All lines from one on are deleted.                                      *)
LEMMA ApplyDelete ==
  ASSUME NEW S, NEW s \in Seq(S), NEW n \in 0..(Len(s) - 1)
  PROVE  Apply(EdArg(ADelete, n + 1, Dollar), <<>>, s) = SubSeq(s, 1, n)
<1> DEFINE a == EdArg(ADelete, n + 1, Dollar)
           e == <<>>
           u == SubSeq(s, 1, n)
<1>0. Len(s) \in Nat /\ n \in Nat /\ n < Len(s)
  OBVIOUS
<1>1. a.act = ADelete /\ a.start = n + 1 /\ a.end = Dollar
  BY EdParts
<1> HIDE DEF a
<1>2. u \in Seq(S)
  BY <1>0
<1>3. Upto(s, n + 1 - 1) = u
  BY <1>0 DEF Upto
<1>4. From(s, Len(s) + 1) = e
  BY WholeOf
<1> HIDE DEF e
<1>5. Apply(a, e, s) = Upto(s, n + 1 - 1) \o e \o From(s, Len(s) + 1)
  <2>1. ~(Len(s) < n + 1)
    BY <1>0
  <2>2. a.act # "a"
    BY <1>1, ActNames DEF AAdd
  <2> QED BY <1>1, <2>1, <2>2 DEF Apply
<1> HIDE DEF u
<1>6. u \o e \o e = u
  BY <1>2 DEF e
<1> QED BY <1>3, <1>4, <1>5, <1>6 DEF a, e, u

(* Lines are added at the end.                                             *)
LEMMA ApplyAdd ==
  ASSUME NEW S, NEW s \in Seq(S), NEW data \in Seq(S)
  PROVE  Apply(EdArg(AAdd, Len(s), Len(s)), data, s) = s \o data
<1> DEFINE a == EdArg(AAdd, Len(s), Len(s))
           e == <<>>
<1>1. a.act = AAdd /\ a.start = Len(s)
  BY EdParts
<1> HIDE DEF a
<1>2. Upto(s, Len(s)) = s /\ From(s, Len(s) + 1) = e
  BY WholeOf
<1>3. Apply(a, data, s) = Upto(s, Len(s)) \o data \o From(s, Len(s) + 1)
  BY <1>1 DEF Apply, AAdd
<1>4. s \o data \o e = s \o data
  OBVIOUS
<1> HIDE DEF e
<1> QED BY <1>2, <1>3, <1>4 DEF a

(* Lines in the middle are replaced.                                       *)
Splice(h, m, t) == (h \o m) \o t

(* A change replaces the middle of a text.                                 *)
LEMMA ApplyChange ==
  ASSUME NEW S, NEW h \in Seq(S), NEW m \in Seq(S), NEW t \in Seq(S), NEW data \in Seq(S),
         Len(m) >= 1, NEW start, start = Len(h) + 1, NEW end, end = Len(h) + Len(m)
  PROVE  Apply(EdArg(AChange, start, end), data, Splice(h, m, t)) = Splice(h, data, t)
<1> DEFINE a == EdArg(AChange, start, end)
           r == m \o t
           k == h \o m
           w == k \o t
<1>1. a.act = AChange /\ a.start = start /\ a.end = end
  BY EdParts
<1> HIDE DEF a
<1>2. r \in Seq(S) /\ k \in Seq(S) /\ w = h \o r
  OBVIOUS
<1>3. Len(k) = Len(h) + Len(m) /\ Len(h) \in Nat /\ Len(m) \in Nat
  OBVIOUS
<1> HIDE DEF r, k
<1>4. Upto(h \o r, Len(h)) = h
  BY <1>2, PartsOf
<1>5. From(k \o t, Len(k) + 1) = t
  BY <1>2, PartsOf
<1>6. Upto(w, start - 1) = h
  <2>1. start - 1 = Len(h)
    BY <1>3
  <2> HIDE DEF w
  <2> QED BY <1>2, <1>4, <2>1
<1>7. From(w, end + 1) = t
  BY <1>3, <1>5
<1> HIDE DEF w
<1>8. Apply(a, data, w) = Upto(w, start - 1) \o data \o From(w, end + 1)
  <2>1. ~(end < start) /\ end # Dollar
    BY <1>3 DEF Dollar
  <2>2. a.act # "a"
    BY <1>1, ActNames DEF AAdd
  <2> QED BY <1>1, <2>1, <2>2 DEF Apply
<1> QED BY <1>6, <1>7, <1>8 DEF a, w, k, Splice

(* A text in four parts: its first two lines, what comes up to a line, and *)
(* the rest.                                                               *)
LEMMA FourParts ==
  ASSUME NEW S, NEW s \in Seq(S), NEW n \in 2..Len(s)
  PROVE  /\ s[1] \in S /\ s[2] \in S
         /\ SubSeq(s, 3, n) \in Seq(S) /\ Len(SubSeq(s, 3, n)) = n - 2
         /\ SubSeq(s, n + 1, Len(s)) \in Seq(S)
         /\ SubSeq(s, 1, n) = (<<s[1]>> \o <<s[2]>>) \o SubSeq(s, 3, n)
         /\ s = ((<<s[1]>> \o <<s[2]>>) \o SubSeq(s, 3, n)) \o SubSeq(s, n + 1, Len(s))
<1> DEFINE p == SubSeq(s, 1, n)
           q == SubSeq(s, n + 1, Len(s))
           a == s[1]
           b == s[2]
           h == SubSeq(p, 1, 2)
           m == SubSeq(s, 3, n)
           g == <<a>> \o <<b>>
<1>0. Len(s) \in Nat /\ n \in Nat /\ 2 <= n /\ n <= Len(s) /\ a \in S /\ b \in S
  OBVIOUS
<1>1. p \in Seq(S) /\ Len(p) = n /\ (\A i \in 1..n : p[i] = s[i]) /\ q \in Seq(S) /\ s = p \o q
  <2>1. n \in 0..Len(s)
    BY <1>0
  <2> QED BY <2>1, Halves
<1>2. m \in Seq(S) /\ Len(m) = n - 2 /\ \A i \in 1..(n - 2) : m[i] = s[2 + i]
  BY <1>0
<1>3. g \in Seq(S) /\ Len(g) = 2 /\ g[1] = a /\ g[2] = b
  <2> HIDE DEF a, b
  <2> QED BY <1>0
<1> HIDE DEF p, q, m, g
<1> DEFINE c == g \o m
<1>4. /\ c \in Seq(S) /\ Len(c) = Len(g) + Len(m)
      /\ \A i \in 1..Len(g) : c[i] = g[i]
      /\ \A i \in 1..Len(m) : c[Len(g) + i] = m[i]
  <2>1. g \in Seq(S) /\ m \in Seq(S)
    BY <1>2, <1>3
  <2> QED BY <2>1, Joined
<1> HIDE DEF c
<1>5. ASSUME NEW i \in 1..n PROVE c[i] = s[i]
  <2>1. CASE i = 1
    BY <1>3, <1>4, <2>1
  <2>2. CASE i = 2
    BY <1>3, <1>4, <2>2
  <2>3. CASE i > 2
    <3> DEFINE j == i - 2
    <3>1. j \in 1..Len(m) /\ j \in 1..(n - 2) /\ i = 2 + j
      BY <1>0, <1>2, <2>3
    <3> HIDE DEF j
    <3>2. c[2 + j] = m[j] /\ m[j] = s[2 + j]
      BY <1>2, <1>3, <1>4, <3>1
    <3> QED BY <3>1, <3>2
  <2> QED BY <1>0, <2>1, <2>2, <2>3
<1>6. Len(c) = n
  BY <1>0, <1>2, <1>3, <1>4
<1>7. p = c
  <2>1. \A i \in 1..n : c[i] = p[i]
    BY <1>1, <1>5
  <2> QED BY <1>1, <1>4, <1>6, <2>1
<1> QED BY <1>0, <1>1, <1>2, <1>7 DEF p, q, m, g, c

(* The same four parts, grouped in another way.                            *)
LEMMA Associates ==
  ASSUME NEW S, NEW x \in Seq(S), NEW y \in Seq(S), NEW z \in Seq(S)
  PROVE  (x \o y) \o z = x \o (y \o z) /\ y \o z \in Seq(S)
OBVIOUS

(* The same text with another middle.                                      *)
LEMMA Regrouped ==
  ASSUME NEW S, NEW a \in Seq(S), NEW c \in Seq(S), NEW y \in Seq(S), NEW z \in Seq(S)
  PROVE  Splice(a \o c, y, z) = Splice(a, c, y \o z) /\ y \o z \in Seq(S) /\ a \o c \in Seq(S)
<1>1. \A h \in Seq(S) : (h \o y) \o z = h \o (y \o z) /\ y \o z \in Seq(S)
  BY Associates
<1>2. a \o c \in Seq(S)
  OBVIOUS
<1>3. ((a \o c) \o y) \o z = (a \o c) \o (y \o z) /\ y \o z \in Seq(S)
  BY <1>1, <1>2, Zenon
<1> QED BY <1>2, <1>3 DEF Splice

(* The second line is replaced.                                            *)
LEMMA SecondChanged ==
  ASSUME NEW S, NEW a \in Seq(S), NEW b \in Seq(S), NEW c \in Seq(S),
         NEW y \in Seq(S), NEW z \in Seq(S), Len(c) >= 1,
         NEW i, i = Len(a) + 1, i = Len(a) + Len(c)
  PROVE  Apply(EdArg(AChange, i, i), b, Splice(a \o c, y, z)) = Splice(a \o b, y, z)
<1> DEFINE t == y \o z
           h == a \o c
           g == a \o b
<1>1. t \in Seq(S) /\ Splice(h, y, z) = Splice(a, c, t)
  BY Regrouped
<1>2. Splice(g, y, z) = Splice(a, b, t)
  BY Regrouped
<1> HIDE DEF t, h, g
<1>3. Apply(EdArg(AChange, i, i), b, Splice(a, c, t)) = Splice(a, b, t)
  BY <1>1, ApplyChange
<1>4. Apply(EdArg(AChange, i, i), b, Splice(h, y, z)) = Splice(g, y, z)
  BY <1>1, <1>2, <1>3
<1> QED BY <1>4 DEF h, g

(* Two lines.                                                              *)
LEMMA OneAndOne ==
  ASSUME NEW S, NEW a \in S, NEW c \in S
  PROVE  <<a>> \o <<c>> \in Seq(S) /\ Len(<<a>> \o <<c>>) = 2
OBVIOUS

(* The three changes one after the other.                                  *)
LEMMA ThreeApplied ==
  ASSUME NEW S, NEW a \in S, NEW b \in S, NEW c \in S, NEW m \in Seq(S),
         NEW y \in Seq(S), NEW z \in Seq(S), Len(m) >= 1, NEW o, o = 2 + Len(m)
  PROVE  LET g == <<a>> \o <<b>>
             h == <<a>> \o <<c>>
         IN /\ Apply(EdArg(AAdd, o, o), z, h \o m) = Splice(h, m, z)
            /\ Apply(EdArg(AChange, 3, o), y, Splice(h, m, z)) = Splice(h, y, z)
            /\ Apply(EdArg(AChange, 2, 2), <<b>>, Splice(h, y, z)) = Splice(g, y, z)
<1> DEFINE g == <<a>> \o <<b>>
           h == <<a>> \o <<c>>
           u == h \o m
           i == 3
           j == 2
           a1 == <<a>>
           b1 == <<b>>
           c1 == <<c>>
<1>1. h \in Seq(S) /\ Len(h) = 2
  BY OneAndOne
<1>2. /\ a1 \in Seq(S) /\ b1 \in Seq(S) /\ c1 \in Seq(S) /\ Len(a1) = 1 /\ Len(c1) = 1
      /\ h = a1 \o c1 /\ g = a1 \o b1
  OBVIOUS
<1> HIDE DEF h, g, a1, b1, c1
<1>3. u \in Seq(S) /\ Len(u) = Len(h) + Len(m)
  <2>1. h \in Seq(S)
    BY <1>1
  <2> QED BY <2>1, Joined
<1>4. i = Len(h) + 1 /\ o = Len(h) + Len(m) /\ j = Len(a1) + 1 /\ j = Len(a1) + Len(c1)
      /\ Len(c1) >= 1
  BY <1>1, <1>2
<1> HIDE DEF u, i, j
<1>5. Apply(EdArg(AAdd, o, o), z, u) = u \o z
  <2>1. Apply(EdArg(AAdd, Len(u), Len(u)), z, u) = u \o z
    BY <1>3, ApplyAdd
  <2> QED BY <1>3, <1>4, <2>1
<1>6. Apply(EdArg(AChange, i, o), y, Splice(h, m, z)) = Splice(h, y, z)
  <2>1. h \in Seq(S) /\ m \in Seq(S) /\ z \in Seq(S) /\ y \in Seq(S) /\ Len(m) >= 1
    BY <1>1
  <2> QED BY <1>4, <2>1, ApplyChange
<1>7. Apply(EdArg(AChange, j, j), b1, Splice(a1 \o c1, y, z)) = Splice(a1 \o b1, y, z)
  BY <1>2, <1>4, SecondChanged
<1>8. Apply(EdArg(AChange, j, j), b1, Splice(h, y, z)) = Splice(g, y, z)
  BY <1>2, <1>7
<1>9. u \o z = Splice(h, m, z)
  BY DEF Splice, u
<1> QED BY <1>5, <1>6, <1>8, <1>9 DEF i, j, u, h, g, b1

(* The four commands of a difference make the new text of the old one.     *)
LEMMA FourApplied ==
  ASSUME NEW S, NEW X \in Seq(S), NEW T \in Seq(S), Blank \in S,
         NEW o \in 3..Len(X), NEW n \in 2..Len(T), X[1] = T[1],
         NEW acts, Len(acts) = 4,
         acts[1] = Action(EdArg(ADelete, o + 1, Dollar), <<>>),
         acts[2] = Action(EdArg(AAdd, o, o), SubSeq(T, n + 1, Len(T))),
         acts[3] = Action(EdArg(AChange, 3, o), SubSeq(T, 3, n)),
         acts[4] = Action(EdArg(AChange, 2, 2), <<T[2]>>)
  PROVE  Patched(X, acts) = T
<1> DEFINE Y == Append(X, Blank)
           a == T[1]
           b == T[2]
           c == X[2]
           g == <<a>> \o <<b>>
           h == <<a>> \o <<c>>
           m == SubSeq(X, 3, o)
           y == SubSeq(T, 3, n)
           z == SubSeq(T, n + 1, Len(T))
           e == <<>>
           b1 == <<b>>
           s == SubSeq(Y, 1, o)
           A1 == EdArg(ADelete, o + 1, Dollar)
           A2 == EdArg(AAdd, o, o)
           A3 == EdArg(AChange, 3, o)
           A4 == EdArg(AChange, 2, 2)
           l2 == Splice(h, m, z)
           l3 == Splice(h, y, z)
           l4 == Splice(g, y, z)
<1>0. Len(X) \in Nat /\ o \in Nat /\ 3 <= o /\ o <= Len(X) /\ o \in 2..Len(X)
  OBVIOUS
<1>1. a \in S /\ b \in S /\ y \in Seq(S) /\ z \in Seq(S) /\ T = l4
  BY FourParts DEF Splice
<1>2. /\ c \in S /\ m \in Seq(S) /\ Len(m) = o - 2
      /\ SubSeq(X, 1, o) = (<<X[1]>> \o <<X[2]>>) \o m
  BY <1>0, FourParts
<1>3. /\ Y \in Seq(S) /\ Len(Y) = Len(X) + 1
      /\ \A i \in 1..Len(X) : Y[i] = X[i]
  BY AppendedTo
<1> HIDE DEF Y
<1>4. s = SubSeq(X, 1, o)
  BY <1>0, <1>3
<1>5. s = h \o m
  BY <1>2, <1>4
<1>6. Len(m) >= 1 /\ o = 2 + Len(m)
  BY <1>0, <1>2
<1>7. Apply(A1, e, Y) = s
  <2>1. o \in 0..(Len(Y) - 1)
    BY <1>0, <1>3
  <2> HIDE DEF e
  <2> QED BY <1>3, <2>1, ApplyDelete DEF s, e
<1> HIDE DEF a, b, c, m, y, z, s, e
<1>8. Apply(A2, z, s) = l2 /\ Apply(A3, y, l2) = l3 /\ Apply(A4, b1, l3) = l4
  BY <1>1, <1>2, <1>5, <1>6, ThreeApplied
<1> HIDE DEF l2, l3, l4, A1, A2, A3, A4, b1
<1>9. /\ acts[1].arg = A1 /\ acts[1].ml = e /\ acts[2].arg = A2 /\ acts[2].ml = z
      /\ acts[3].arg = A3 /\ acts[3].ml = y /\ acts[4].arg = A4 /\ acts[4].ml = b1
  <2>1. \A p, q : Action(p, q).arg = p /\ Action(p, q).ml = q
    BY DEF Action
  <2>2. /\ acts[1] = Action(A1, e) /\ acts[2] = Action(A2, z) /\ acts[3] = Action(A3, y)
        /\ acts[4] = Action(A4, b1)
    BY DEF A1, A2, A3, A4, e, z, y, b1, b
  <2> QED BY <2>1, <2>2
<1>10. Patched(X, acts) = l4
  BY <1>7, <1>8, <1>9, PatchedFour DEF Y
<1> QED BY <1>1, <1>10

-----------------------------------------------------------------------------
(* What is digested, and the lines a consensus begins with.                *)

(* A set of naturals has a least element.                                  *)
LEMMA LeastOf ==
  ASSUME NEW I \in SUBSET Nat, I # {}
  PROVE  \E m \in I : \A y \in I : m <= y
<1> SUFFICES ASSUME \A m \in I : \E y \in I : ~(m <= y) PROVE FALSE
  OBVIOUS
<1> DEFINE T == {n \in Nat : \A m \in 0..n : m \notin I}
<1>1. 0 \in T
  OBVIOUS
<1>2. ASSUME NEW n \in Nat, n \in T PROVE n + 1 \in T
  <2>1. \A m \in 0..(n + 1) : m \in 0..n \/ m = n + 1
    OBVIOUS
  <2>2. n + 1 \notin I
    <3> SUFFICES ASSUME n + 1 \in I PROVE FALSE
      OBVIOUS
    <3>1. PICK y \in I : ~(n + 1 <= y)
      OBVIOUS
    <3>2. y \in 0..n
      BY <3>1
    <3> QED BY <1>2, <3>2
  <2> QED BY <1>2, <2>1, <2>2
<1>3. Nat \subseteq T
  <2> HIDE DEF T
  <2> QED BY <1>1, <1>2, SetInduction
<1>4. PICK n : n \in I
  OBVIOUS
<1>5. n \in Nat
  BY <1>4
<1>6. n \in T /\ n \in 0..n
  BY <1>3, <1>5
<1> QED BY <1>4, <1>6

(* The digest covers the text as far as the first signature, or all of it. *)
LEMMA DigestOf ==
  ASSUME NEW S, NEW t \in Seq(S)
  PROVE  \/ (\A i \in 1..Len(t) : t[i].kw # KSign) /\ Digest(t) = t
         \/ \E n \in 1..Len(t) : t[n].kw = KSign /\ Len(Digest(t)) = n
<1> DEFINE I == {i \in 1..Len(t) : t[i].kw = "directory-signature"}
           n == SelectInSeq(t, LAMBDA l : l.kw = "directory-signature")
           x == Line("directory-signature", <<>>)
<1>0. Len(t) \in Nat
  OBVIOUS
<1>1. n = IF I # {} THEN Min(I) ELSE 0
  BY DEF SelectInSeq
<1>2. Digest(t) = IF n = 0 THEN t ELSE Append(SubSeq(t, 1, n - 1), x)
  BY DEF Digest
<1> HIDE DEF n, x
<1>3. CASE I = {}
  <2>1. n = 0
    BY <1>1, <1>3
  <2>2. \A i \in 1..Len(t) : t[i].kw # KSign
    BY <1>3 DEF KSign
  <2> QED BY <1>2, <2>1, <2>2
<1>4. CASE I # {}
  <2> HIDE DEF I
  <2>1. I \in SUBSET Nat /\ I \subseteq 1..Len(t)
    BY DEF I
  <2>2. \E m \in I : \A y \in I : m <= y
    BY <1>4, <2>1, LeastOf
  <2>3. Min(I) \in I
    BY <2>2 DEF Min
  <2>4. n \in I /\ n \in 1..Len(t)
    BY <1>1, <1>4, <2>1, <2>3
  <2>5. t[n].kw = KSign
    BY <2>4 DEF I, KSign
  <2>6. Digest(t) = Append(SubSeq(t, 1, n - 1), x)
    BY <1>2, <2>4
  <2> DEFINE s == SubSeq(t, 1, n - 1)
             U == S \cup {x}
  <2>7. n - 1 \in 0..Len(t)
    BY <1>0, <2>4
  <2>8. s \in Seq(S) /\ Len(s) = n - 1
    BY <2>7, Halves
  <2> HIDE DEF s
  <2>9. Len(Append(s, x)) = n
    <3>1. s \in Seq(U) /\ x \in U
      BY <2>8
    <3> HIDE DEF U
    <3>2. Len(Append(s, x)) = Len(s) + 1
      BY <3>1, AppendedTo
    <3> QED BY <1>0, <2>4, <2>8, <3>2
  <2> QED BY <2>4, <2>5, <2>6, <2>9 DEF s
<1> QED BY <1>3, <1>4

(* It covers no more than the text.                                        *)
LEMMA DigestLen ==
  ASSUME NEW S, NEW t \in Seq(S)
  PROVE  Len(Digest(t)) \in 0..Len(t)
<1>1. Len(t) \in Nat
  OBVIOUS
<1> QED BY <1>1, DigestOf

(* No signature among the first four lines of a consensus, and no line     *)
(* that ends a block of ed commands at all.                                *)
LEMMA BodyKeywords ==
  ASSUME NEW d \in Docs
  PROVE  /\ \A l \in AllLines(d) : l.kw # AtDot
         /\ Line(KStart, 3).kw # KSign /\ Line(KUntil, Published[d].until).kw # KSign
         /\ \A i \in DOMAIN VoterLines(d) : VoterLines(d)[i].kw # KSign
         /\ Line(KFlags, "flags").kw # KSign
         /\ \A i \in DOMAIN Published[d].routers : Line(KRouter, Published[d].routers[i]).kw # KSign
<1>1. AtDot \notin {KFlags, KSource, KRouter, KSign, KStart, KUntil, "BEGIN", "END", ""}
  BY DEF AtDot, KFlags, KSource, KRouter, KSign, KStart, KUntil
<1>2. Begin.kw = "BEGIN" /\ End.kw = "END"
  BY DEF Begin, End, Line
<1>3. ASSUME NEW l \in AllLines(d) PROVE l.kw # AtDot
  <2> DEFINE K == {KFlags, KSource, KRouter, KSign, KStart, KUntil, "BEGIN", "END", ""}
  <2>1. CASE l \in {Begin, End}
    BY <1>1, <1>2, <2>1
  <2>2. ASSUME NEW kw \in K, NEW v, l = Line(kw, v) PROVE l.kw # AtDot
    <3>1. l.kw = kw
      BY <2>2, Lined
    <3> QED BY <1>1, <3>1
  <2>3. l \in {Begin, End} \/ \E kw \in K : \E v : l = Line(kw, v)
    BY <1>3 DEF AllLines, LaterLines
  <2> QED BY <2>1, <2>2, <2>3
<1>4. \A i \in DOMAIN VoterLines(d) : VoterLines(d)[i].kw # KSign
  BY Lined, Keywords DEF VoterLines
<1> QED BY <1>3, <1>4, Lined, Keywords

(* The lines of a consensus before its signatures.                         *)
Unsigned(d) == {l \in AllLines(d) : l.kw # KSign}

(* No part before the signatures is one.                                   *)
LEMMA UnsignedParts ==
  ASSUME NEW d \in Docs
  PROVE  /\ Top(d) \in Seq(Unsigned(d))
         /\ VoterLines(d) \in Seq(Unsigned(d))
         /\ RouterBlocks(d) \in [1..Len(Published[d].routers) -> Seq(Unsigned(d))]
         /\ \A i \in 1..Len(Published[d].routers) : Len(RouterBlocks(d)[i]) = 2
<1> DEFINE U == Unsigned(d)
           N == Len(Published[d].voters)
           M == Len(Published[d].routers)
<1>1. /\ DOMAIN Published[d].voters = 1..N /\ N \in Nat
      /\ DOMAIN Published[d].routers = 1..M /\ M \in Nat
  BY Lists
<1>2. Line(KStart, 3) \in U /\ Line(KUntil, Published[d].until) \in U
  BY BodyKeywords DEF AllLines, Unsigned
<1>3. \A i \in 1..N : Line(KSource, Published[d].voters[i]) \in U
  <2>1. \A i \in 1..N : Line(KSource, Published[d].voters[i]) \in AllLines(d)
    BY <1>1 DEF AllLines, LaterLines
  <2>2. \A i \in 1..N : Line(KSource, Published[d].voters[i]).kw = KSource
    BY Lined
  <2>3. KSource # KSign
    BY Keywords
  <2> QED BY <2>1, <2>2, <2>3 DEF Unsigned
<1>4. Line(KFlags, "flags") \in U
  BY BodyKeywords DEF AllLines, LaterLines, Unsigned
<1>5. \A i \in 1..M : Line(KRouter, Published[d].routers[i]) \in U
  <2>1. \A i \in 1..M : Line(KRouter, Published[d].routers[i]) \in AllLines(d)
    BY <1>1 DEF AllLines, LaterLines
  <2> QED BY <1>1, <2>1, BodyKeywords DEF Unsigned
<1> HIDE DEF U, N, M
<1>6. Top(d) \in Seq(U)
  BY <1>2, TwoLines DEF Top
<1>7. VoterLines(d) \in Seq(U)
  <2>1. VoterLines(d) \in [1..N -> U]
    BY <1>1, <1>3 DEF VoterLines
  <2> QED BY <1>1, <2>1, FunctionLines
<1>8. RouterBlocks(d) \in [1..M -> Seq(U)] /\ \A i \in 1..M : Len(RouterBlocks(d)[i]) = 2
  <2> DEFINE b(i) == <<Line(KRouter, Published[d].routers[i]), Line(KFlags, "flags")>>
  <2>1. \A i \in 1..M : b(i) \in Seq(U) /\ Len(b(i)) = 2
    BY <1>4, <1>5, TwoLines
  <2>2. RouterBlocks(d) = [i \in 1..M |-> b(i)]
    BY <1>1 DEF RouterBlocks
  <2> HIDE DEF b
  <2> QED BY <2>1, <2>2
<1> QED BY <1>6, <1>7, <1>8 DEF U, N, M

(* Blocks of two lines, of which there is one.                             *)
LEMMA FlatLen ==
  ASSUME NEW S, NEW N \in Nat, N # 0, NEW seqs \in [1..N -> Seq(S)], Len(seqs[N]) = 2
  PROVE  FlattenSeq(seqs) \in Seq(S) /\ Len(FlattenSeq(seqs)) >= 2
<1>1. PICK f \in [0..N -> Seq(S)] :
        f[0] = <<>> /\ (\A n \in 1..N : f[n] = f[n - 1] \o seqs[n]) /\ FlattenSeq(seqs) = f[N]
  BY Flattening
<1> DEFINE a == f[N - 1]
           b == seqs[N]
<1>2. a \in Seq(S) /\ b \in Seq(S) /\ Len(b) = 2 /\ FlattenSeq(seqs) = a \o b
  <2>1. N \in 1..N /\ N - 1 \in 0..N
    OBVIOUS
  <2>2. f[N] = a \o b
    BY <1>1, <2>1
  <2> QED BY <1>1, <2>1, <2>2
<1> HIDE DEF a, b
<1>3. a \o b \in Seq(S) /\ Len(a \o b) = Len(a) + Len(b) /\ Len(a) \in Nat
  <2>1. a \in Seq(S) /\ b \in Seq(S)
    BY <1>2
  <2> QED BY <2>1, Joined
<1> QED BY <1>2, <1>3

(* A text begins with four lines that are no signature.                    *)
LEMMA FirstLines ==
  ASSUME NEW d \in Docs
  PROVE  /\ Len(Text(d)) >= 4 /\ Text(d)[1] = Line(KStart, 3)
         /\ \A i \in 1..4 : Text(d)[i].kw # KSign
<1> DEFINE S == AllLines(d)
           U == Unsigned(d)
           a == Top(d)
           b == VoterLines(d)
           c == FlattenSeq(RouterBlocks(d))
           e == FlattenSeq(SignerBlocks(d))
           v == a \o b
           w == v \o c
           t == w \o e
<1>1. a \in Seq(U) /\ Len(a) = 2 /\ a[1] = Line(KStart, 3) /\ b \in Seq(U) /\ Len(b) \in Nat
  <2>1. a \in Seq(U) /\ b \in Seq(U) /\ Len(a) = 2
    BY UnsignedParts, PartsType
  <2>2. a[1] = Line(KStart, 3)
    BY DEF Top
  <2> QED BY <2>1, <2>2
<1>2. c \in Seq(U) /\ Len(c) >= 2
  <2> DEFINE N == Len(Published[d].routers)
  <2>1. N \in Nat /\ N # 0
    BY Lists
  <2>2. RouterBlocks(d) \in [1..N -> Seq(U)] /\ Len(RouterBlocks(d)[N]) = 2
    BY <2>1, UnsignedParts
  <2> HIDE DEF N, U
  <2> QED BY <2>1, <2>2, FlatLen
<1>3. e \in Seq(S)
  BY PartsType, Lists, ReadBlocks
<1>4. Text(d) = t
  BY TextParts
<1>5. U \subseteq S /\ \A l \in U : l.kw # KSign
  BY DEF Unsigned
<1> HIDE DEF S, U, a, b, c, e
<1>6. /\ v \in Seq(U) /\ Len(v) = Len(a) + Len(b) /\ \A i \in 1..Len(a) : v[i] = a[i]
  <2>1. a \in Seq(U) /\ b \in Seq(U)
    BY <1>1
  <2> QED BY <2>1, Joined
<1> HIDE DEF v
<1>7. /\ w \in Seq(U) /\ Len(w) = Len(v) + Len(c) /\ Len(v) \in Nat /\ Len(c) \in Nat
      /\ \A i \in 1..Len(v) : w[i] = v[i]
  <2>1. v \in Seq(U) /\ c \in Seq(U)
    BY <1>2, <1>6
  <2> QED BY <2>1, Joined
<1> HIDE DEF w
<1>8. /\ Len(t) = Len(w) + Len(e) /\ Len(e) \in Nat /\ Len(w) \in Nat
      /\ \A i \in 1..Len(w) : t[i] = w[i]
  <2>1. w \in Seq(S) /\ e \in Seq(S)
    BY <1>3, <1>5, <1>7
  <2> QED BY <2>1, Joined
<1> HIDE DEF t
<1>9. Len(v) >= 2 /\ Len(w) >= 4 /\ Len(t) >= 4
  BY <1>1, <1>2, <1>6, <1>7, <1>8
<1>10. t[1] = Line(KStart, 3)
  <2>1. 1 \in 1..Len(a) /\ 1 \in 1..Len(v) /\ 1 \in 1..Len(w)
    BY <1>1, <1>9
  <2> QED BY <1>1, <1>6, <1>7, <1>8, <2>1
<1>11. ASSUME NEW i \in 1..4 PROVE t[i].kw # KSign
  <2>1. i \in 1..Len(w)
    BY <1>8, <1>9
  <2>2. w[i] \in U
    BY <1>7, <2>1
  <2> QED BY <1>5, <1>8, <2>1, <2>2
<1> QED BY <1>4, <1>9, <1>10, <1>11

(* The body of a consensus has three lines and its text has more.          *)
LEMMA Body ==
  ASSUME NEW d \in Docs
  PROVE  BodyLen(d) \in 3..(Len(Text(d)) - 1)
<1>1. Text(d) \in Seq(AllLines(d)) /\ Len(Text(d)) \in Nat
  BY WholeRead
<1>2. Len(Text(d)) >= 4 /\ \A i \in 1..4 : Text(d)[i].kw # KSign
  BY FirstLines
<1>3. \/ Digest(Text(d)) = Text(d)
      \/ \E n \in 1..Len(Text(d)) : Text(d)[n].kw = KSign /\ Len(Digest(Text(d))) = n
  BY <1>1, DigestOf
<1>4. Len(Digest(Text(d))) >= 4 /\ Len(Digest(Text(d))) \in 0..Len(Text(d))
  <2>1. CASE Digest(Text(d)) = Text(d)
    BY <1>1, <1>2, <2>1
  <2>2. ASSUME NEW n \in 1..Len(Text(d)), Text(d)[n].kw = KSign, Len(Digest(Text(d))) = n
        PROVE  Len(Digest(Text(d))) >= 4 /\ Len(Digest(Text(d))) \in 0..Len(Text(d))
    <3>1. n \notin 1..4
      BY <1>2, <2>2
    <3> QED BY <1>1, <2>2, <3>1
  <2> QED BY <1>3, <2>1, <2>2
<1> QED BY <1>1, <1>4 DEF BodyLen

-----------------------------------------------------------------------------
(* A difference makes the new consensus of whatever it is applicable to.   *)

(* A difference is four commands: the signatures go, others come, the body *)
(* and the validity change.                                                *)
LEMMA DiffText ==
  ASSUME NEW b \in Docs, NEW d \in Docs
  PROVE  Diff(b, d) =
           FourEds(1, EdArg(ADelete, BodyLen(b) + 1, Dollar),
                   EdArg(AAdd, BodyLen(b), BodyLen(b)), SubSeq(Text(d), BodyLen(d) + 1, Len(Text(d))),
                   EdArg(AChange, 3, BodyLen(b)), SubSeq(Text(d), 3, BodyLen(d)),
                   EdArg(AChange, 2, 2), <<Text(d)[2]>>)
<1> DEFINE o == BodyLen(b)
           n == BodyLen(d)
           x == SubSeq(Text(d), n + 1, Len(Text(d)))
           y == SubSeq(Text(d), 3, n)
           z == <<Text(d)[2]>>
           e == <<>>
<1>1. Ed("d", o + 1, Dollar, e) = <<Line(KEd, EdArg(ADelete, o + 1, Dollar))>> \o e
  BY DEF Ed, KEd, EdArg, ADelete
<1> HIDE DEF o, n, x, y, z, e
<1>2. Ed("a", o, o, x) = Change(EdArg(AAdd, o, o), x)
  BY DEF Ed, KEd, EdArg, AAdd, Change, Dot, AtDot
<1>3. Ed("c", 3, o, y) = Change(EdArg(AChange, 3, o), y)
  BY DEF Ed, KEd, EdArg, AChange, Change, Dot, AtDot
<1>4. Ed("c", 2, 2, z) = Change(EdArg(AChange, 2, 2), z)
  BY DEF Ed, KEd, EdArg, AChange, Change, Dot, AtDot
<1>5. Diff(b, d) = <<Line(KDiff, 1)>> \o Ed("d", o + 1, Dollar, e) \o Ed("a", o, o, x)
                     \o Ed("c", 3, o, y) \o Ed("c", 2, 2, z)
  BY DEF Diff, KDiff, o, n, x, y, z, e
<1> HIDE DEF Diff
<1> QED BY <1>1, <1>2, <1>3, <1>4, <1>5 DEF FourEds, o, n, x, y, z, e

(* A difference between any two consensuses is read as its four commands.  *)
LEMMA DiffRead ==
  ASSUME NEW b \in Docs, NEW d \in Docs
  PROVE  ParseAny(Diff(b, d)).fields[KEd] =
           <<Action(EdArg(ADelete, BodyLen(b) + 1, Dollar), <<>>),
             Action(EdArg(AAdd, BodyLen(b), BodyLen(b)), SubSeq(Text(d), BodyLen(d) + 1, Len(Text(d)))),
             Action(EdArg(AChange, 3, BodyLen(b)), SubSeq(Text(d), 3, BodyLen(d))),
             Action(EdArg(AChange, 2, 2), <<Text(d)[2]>>)>>
<1> DEFINE S == AllLines(d)
           o == BodyLen(b)
           n == BodyLen(d)
           x == SubSeq(Text(d), n + 1, Len(Text(d)))
           y == SubSeq(Text(d), 3, n)
           z == <<Text(d)[2]>>
           A1 == EdArg(ADelete, o + 1, Dollar)
           A2 == EdArg(AAdd, o, o)
           A3 == EdArg(AChange, 3, o)
           A4 == EdArg(AChange, 2, 2)
           v == 1
<1>1. o \in Nat /\ 3 <= o /\ n \in 2..Len(Text(d))
  <2>1. Len(Text(d)) \in Nat /\ Len(Text(b)) \in Nat
    BY WholeRead
  <2>2. BodyLen(b) \in 3..(Len(Text(b)) - 1) /\ BodyLen(d) \in 3..(Len(Text(d)) - 1)
    BY Body
  <2> HIDE DEF o, n
  <2>3. o \in 3..(Len(Text(b)) - 1) /\ n \in 3..(Len(Text(d)) - 1)
    BY <2>2 DEF o, n
  <2> QED BY <2>1, <2>3
<1>2. Text(d) \in Seq(S)
  BY WholeRead
<1>3. x \in Seq(S) /\ y \in Seq(S) /\ z \in Seq(S)
  <2> HIDE DEF S, n
  <2>1. Text(d)[2] \in S /\ x \in Seq(S) /\ y \in Seq(S)
    BY <1>1, <1>2, FourParts
  <2> QED BY <2>1
<1>4. \A l \in S : l.kw # AtDot
  BY BodyKeywords
<1> HIDE DEF S, o, n, x, y, z
<1>5. Ranged(A1) /\ Ranged(A2) /\ Ranged(A3) /\ Ranged(A4)
  <2>1. A1.end = Dollar /\ A2.start = o /\ A2.end = o /\ A3.start = 3 /\ A3.end = o
        /\ A4.start = 2 /\ A4.end = 2
    BY EdParts
  <2> HIDE DEF A1, A2, A3, A4
  <2> QED BY <1>1, <2>1 DEF Ranged
<1>6. A1.act = "d" /\ A2.act # "d" /\ A3.act # "d" /\ A4.act # "d"
  <2>1. A1.act = ADelete /\ A2.act = AAdd /\ A3.act = AChange /\ A4.act = AChange
    BY EdParts
  <2> HIDE DEF A1, A2, A3, A4
  <2>2. ADelete = "d"
    BY DEF ADelete
  <2> QED BY <2>1, <2>2, ActNames
<1> HIDE DEF A1, A2, A3, A4, v
<1>7. ParseAny(FourEds(v, A1, A2, x, A3, y, A4, z)).fields[KEd] =
        <<Action(A1, <<>>), Action(A2, x), Action(A3, y), Action(A4, z)>>
  <2>1. Deletes(A1) /\ Changes(A2) /\ Changes(A3) /\ Changes(A4) /\ Undotted(S)
    BY <1>4, <1>5, <1>6 DEF Deletes, Changes, Undotted
  <2>2. AreFour(v, A1, A2, x, A3, y, A4, z)
    BY <1>3, <2>1, FourRead
  <2> QED BY <2>2 DEF AreFour
<1>8. Diff(b, d) = FourEds(v, A1, A2, x, A3, y, A4, z)
  BY DiffText DEF v, A1, A2, x, A3, y, A4, z, o, n
<1> QED BY <1>7, <1>8 DEF A1, A2, x, A3, y, A4, z, o, n

(* apply_diff: any text that has the digest a difference was made for.     *)
LEMMA AllAppliable ==
  ASSUME NEW raw, NEW b, <<raw, b>> \in Bases, NEW d \in Docs
  PROVE  <<raw, b, d>> \in Appliable
<1> DEFINE X == Lines(raw)
           T == Text(d)
           U == Text(raw.doc)
           S == AllLines(raw.doc) \cup AllLines(d) \cup {Blank}
           o == BodyLen(b)
           n == BodyLen(d)
           acts == ParseAny(Diff(b, d)).fields[KEd]
<1>1. b \in Docs /\ raw \in Loads /\ raw.n # 0 /\ Digest(X) = Digest(Text(b))
  BY DEF Bases
<1>2. raw.doc \in Docs /\ raw.n \in 0..Len(U)
  BY <1>1 DEF Loads, Raws
<1>3. U \in Seq(AllLines(raw.doc)) /\ Len(U) \in Nat /\ T \in Seq(AllLines(d)) /\ Len(T) \in Nat
  BY <1>2, WholeRead
<1>4. X \in Seq(AllLines(raw.doc)) /\ Len(X) = raw.n /\ X[1] = U[1]
  <2>1. X = SubSeq(U, 1, raw.n)
    BY DEF Lines
  <2> HIDE DEF X, U
  <2>2. SubSeq(U, 1, raw.n) \in Seq(AllLines(raw.doc)) /\ Len(SubSeq(U, 1, raw.n)) = raw.n
        /\ \A i \in 1..raw.n : SubSeq(U, 1, raw.n)[i] = U[i]
    BY <1>2, <1>3, Halves
  <2>3. 1 \in 1..raw.n
    BY <1>1, <1>2, <1>3
  <2> QED BY <2>1, <2>2, <2>3
<1>5. X[1] = T[1]
  BY <1>2, <1>4, FirstLines
<1>6. o \in 3..Len(X) /\ n \in 2..Len(T)
  <2>1. BodyLen(b) \in 3..(Len(Text(b)) - 1) /\ BodyLen(d) \in 3..(Len(T) - 1) /\ Len(Text(b)) \in Nat
    BY <1>1, Body, WholeRead
  <2>2. Len(Digest(X)) \in 0..Len(X)
    BY <1>4, DigestLen
  <2>3. o = Len(Digest(X)) - 1
    BY <1>1 DEF BodyLen
  <2> HIDE DEF o, n, X, T
  <2>4. o \in Nat /\ 3 <= o /\ n \in 3..(Len(T) - 1)
    BY <2>1 DEF o, n
  <2>5. Len(X) \in Nat
    BY <1>4
  <2> QED BY <1>3, <2>2, <2>3, <2>4, <2>5
<1>7. X \in Seq(S) /\ T \in Seq(S) /\ Blank \in S
  BY <1>3, <1>4
<1>8. acts = <<Action(EdArg(ADelete, o + 1, Dollar), <<>>),
               Action(EdArg(AAdd, o, o), SubSeq(T, n + 1, Len(T))),
               Action(EdArg(AChange, 3, o), SubSeq(T, 3, n)),
               Action(EdArg(AChange, 2, 2), <<T[2]>>)>>
  BY <1>1, DiffRead
<1> HIDE DEF X, T, S, o, n, acts
<1>9. /\ Len(acts) = 4
      /\ acts[1] = Action(EdArg(ADelete, o + 1, Dollar), <<>>)
      /\ acts[2] = Action(EdArg(AAdd, o, o), SubSeq(T, n + 1, Len(T)))
      /\ acts[3] = Action(EdArg(AChange, 3, o), SubSeq(T, 3, n))
      /\ acts[4] = Action(EdArg(AChange, 2, 2), <<T[2]>>)
  <2> DEFINE a == Action(EdArg(ADelete, o + 1, Dollar), <<>>)
             c == Action(EdArg(AAdd, o, o), SubSeq(T, n + 1, Len(T)))
             e == Action(EdArg(AChange, 3, o), SubSeq(T, 3, n))
             f == Action(EdArg(AChange, 2, 2), <<T[2]>>)
  <2>1. acts = <<a, c, e, f>>
    BY <1>8
  <2> HIDE DEF a, c, e, f
  <2>2. Len(acts) = 4 /\ acts[1] = a /\ acts[2] = c /\ acts[3] = e /\ acts[4] = f
    BY <2>1
  <2> QED BY <2>2 DEF a, c, e, f
<1>10. Patched(X, acts) = T
  BY <1>5, <1>6, <1>7, <1>9, FourApplied
<1>11. ApplyDiff(raw, b, d) = Text(d)
  BY <1>10 DEF ApplyDiff, X, T, acts, KEd
<1>12. <<raw, b>>[1] = raw /\ <<raw, b>>[2] = b
  OBVIOUS
<1> QED BY <1>11, <1>12 DEF Appliable

-----------------------------------------------------------------------------
(* The keys of its signers verify a consensus that a majority signed.      *)

(* The keys that are found for a signer are those of its certificates.     *)
LEMMA KeysFound ==
  ASSUME NEW K, NEW ks \in Seq(K), NEW a
  PROVE  KeysOf(WholeCerts(ks), a) = {<<Multi(<<>>, k)>> : k \in {k \in Range(ks) : k[1] = a}}
<1> DEFINE c == WholeCerts(ks)
<1>1. DOMAIN ks = 1..Len(ks)
  OBVIOUS
<1>2. Certs(c) = {Certificate(k) : k \in Range(ks)}
  <2>1. Certs(c) = {Certificate(ks[i]) : i \in 1..Len(ks)}
    BY CertsParsed
  <2>2. Range(ks) = {ks[i] : i \in 1..Len(ks)}
    BY <1>1 DEF Range
  <2> QED BY <2>1, <2>2
<1> HIDE DEF c
<1>3. \A k : Certificate(k).subs[KFinger] = <<a>> <=> k[1] = a
  <2>1. \A k : Certificate(k).subs[KFinger] = <<k[1]>>
    BY CertificateOf
  <2>2. \A x : <<x>> = <<a>> <=> x = a
    OBVIOUS
  <2> QED BY <2>1, <2>2, Zenon
<1>4. \A k : Certificate(k).subs[KKey] = <<Multi(<<>>, k)>>
  BY CertificateOf
<1>5. KeysOf(c, a) = {o.subs[KKey] : o \in {o \in Certs(c) : o.subs[KFinger] = <<a>>}}
  BY DEF KeysOf, KKey, KFinger
<1> DEFINE key(k) == <<Multi(<<>>, k)>>
           R == {key(k) : k \in {k \in Range(ks) : k[1] = a}}
<1>6. \A k : Certificate(k).subs[KKey] = key(k)
  BY <1>4
<1> HIDE DEF key
<1>7. ASSUME NEW x \in KeysOf(c, a) PROVE x \in R
  <2>1. PICK o \in Certs(c) : o.subs[KFinger] = <<a>> /\ x = o.subs[KKey]
    BY <1>5
  <2>2. PICK k \in Range(ks) : o = Certificate(k)
    BY <1>2, <2>1
  <2>3. k[1] = a /\ x = key(k)
    BY <1>3, <1>6, <2>1, <2>2
  <2> QED BY <2>3
<1>8. ASSUME NEW k \in Range(ks), k[1] = a PROVE key(k) \in KeysOf(c, a)
  <2>1. Certificate(k) \in Certs(c) /\ Certificate(k).subs[KFinger] = <<a>>
    BY <1>2, <1>3, <1>8
  <2> QED BY <1>5, <1>6, <2>1
<1>9. KeysOf(c, a) = R
  BY <1>7, <1>8
<1> QED BY <1>9 DEF c, R, key

(* Such keys can be used, and are what the signature was made with.        *)
LEMMA KeyUsed ==
  ASSUME NEW k
  PROVE  /\ Usable(<<Multi(<<>>, k)>>)
         /\ <<Multi(<<>>, k)>>[1].ml[1].v = k
<1> DEFINE l == Line("", k)
           m == <<l>>
           e == <<>>
           x == Multi(e, k)
<1>1. x.ml = m
  BY DEF Multi
<1> HIDE DEF x
<1>2. l.v = k
  BY Lined
<1> HIDE DEF l
<1>3. m # <<>> /\ m[1] = l
  OBVIOUS
<1> HIDE DEF m
<1>4. <<x>> # <<>> /\ <<x>>[1] = x
  OBVIOUS
<1>5. Usable(<<x>>)
  BY <1>1, <1>3, <1>4 DEF Usable
<1> QED BY <1>1, <1>2, <1>3, <1>4, <1>5 DEF x, e

(* The signature of an authority and its stamp.                            *)
LEMMA SignaturePart ==
  ASSUME NEW d, NEW i
  PROVE  /\ Signature(d, i).arg = Stamp(d, i) /\ Signature(d, i).ml[1].v = Stamp(d, i)
         /\ Stamp(d, i)[1] = Published[d].signers[i]
<1> DEFINE w == Stamp(d, i)
           l == Line("", w)
<1>1. l.v = w
  BY Lined
<1>2. w[1] = Published[d].signers[i]
  BY DEF Stamp
<1>3. Signature(d, i) = Multi(w, w)
  BY DEF Signature, Stamp
<1> HIDE DEF w, l
<1>4. Multi(w, w).arg = w /\ Multi(w, w).ml = <<l>>
  BY DEF Multi, l
<1>5. Multi(w, w).ml[1] = l
  BY <1>4
<1> QED BY <1>1, <1>2, <1>3, <1>4, <1>5 DEF w

(* What a majority signed verifies with the keys published with it.        *)
LEMMA KeysVerify ==
  ASSUME NEW d \in Docs, Majority(d)
  PROVE  Verified(d, WholeCerts(Keys(d)))
<1> DEFINE ks == Keys(d)
           c == WholeCerts(ks)
           S == Signed(d, c)
           T == Signers(d)
           f == [s \in S |-> s.arg[1]]
           key(k) == <<Multi(<<>>, k)>>
<1>1. ks \in Seq(Stamps(d)) /\ c \in LoadsCerts
  <2>1. ks \in KeyLists(d)
    BY DEF KeyLists
  <2> HIDE DEF ks
  <2> QED BY <2>1, KeysListed
<1>2. \A a : KeysOf(c, a) = {key(k) : k \in {k \in Range(ks) : k[1] = a}}
  <2> HIDE DEF ks
  <2> QED BY <1>1, KeysFound
<1>3. \A k : Usable(key(k)) /\ key(k)[1].ml[1].v = k
  BY KeyUsed
<1> HIDE DEF key
<1>4. ASSUME NEW i \in DOMAIN Published[d].signers, Published[d].signers[i] \in Idents
      PROVE  key(Stamp(d, i)) \in KeysOf(c, Published[d].signers[i])
  <2>1. Stamp(d, i) \in Range(ks) /\ Stamp(d, i)[1] = Published[d].signers[i]
    BY <1>4, KeysOfSigners, SignaturePart
  <2> QED BY <1>2, <2>1
<1>5. ASSUME NEW s \in Trusted(d)
      PROVE  \E i \in DOMAIN Published[d].signers :
               s = Signature(d, i) /\ Published[d].signers[i] \in Idents
                 /\ s.arg[1] = Published[d].signers[i]
  <2>1. /\ s \in {Signature(d, i) : i \in DOMAIN Published[d].signers}
        /\ s.arg[1] \in Idents
    BY TrustedSigners
  <2>2. PICK i \in DOMAIN Published[d].signers : s = Signature(d, i)
    BY <2>1
  <2>3. s.arg[1] = Published[d].signers[i]
    BY <2>2, SignaturePart
  <2> QED BY <2>1, <2>2, <2>3
<1>6. ~Raises(d, c)
  <2> SUFFICES ASSUME NEW s \in Trusted(d)
               PROVE  Certs(c) # {} /\ \A k \in KeysOf(c, s.arg[1]) : Usable(k)
    BY DEF Raises
  <2>1. PICK i \in DOMAIN Published[d].signers :
          /\ s = Signature(d, i) /\ Published[d].signers[i] \in Idents
          /\ s.arg[1] = Published[d].signers[i]
    BY <1>5
  <2>2. key(Stamp(d, i)) \in KeysOf(c, Published[d].signers[i])
    BY <1>4, <2>1
  <2>3. Certs(c) # {}
    BY <2>2 DEF KeysOf
  <2>4. \A k \in KeysOf(c, s.arg[1]) : Usable(k)
    BY <1>2, <1>3
  <2> QED BY <2>3, <2>4
<1>7. ASSUME NEW a \in T PROVE \E s \in S : s.arg[1] = a
  <2>1. PICK i \in DOMAIN Published[d].signers : a = Published[d].signers[i]
    BY DEF Signers, Range
  <2> DEFINE s == Signature(d, i)
             w == Stamp(d, i)
  <2>2. s.arg = w /\ s.ml[1].v = w /\ w[1] = a
    BY <2>1, SignaturePart
  <2>3. s \in Trusted(d)
    <3>1. s \in Signatures(Read(Whole(d))) /\ a \in Voters(Read(Whole(d))) \cap Idents
      BY WholeParsed DEF Signers
    <3> QED BY <2>2, <3>1 DEF Trusted
  <2>4. key(w) \in KeysOf(c, s.arg[1])
    BY <1>4, <2>1, <2>2 DEF Signers
  <2> HIDE DEF s, w, c
  <2>5. Usable(key(w)) /\ key(w)[1].ml[1].v = s.arg /\ s.ml[1].v = s.arg
    BY <1>3, <2>2
  <2>6. s \in Signed(d, c)
    BY <2>3, <2>4, <2>5 DEF Signed
  <2> QED BY <2>2, <2>6 DEF c
<1>8. f \in Injection(S, T) /\ IsFiniteSet(T) /\ Cardinality(T) \in Nat
  BY SignersDiffer
<1> HIDE DEF S, T, c
<1>9. f \in Surjection(S, T)
  BY <1>7, <1>8 DEF Surjection, Injection
<1>10. Cardinality(S) = Cardinality(T)
  BY <1>8, <1>9, FS_Injection
<1>11. 2 * Cardinality(T) > Count
  BY DEF Majority, T, Signers
<1>12. Verifies(d, c)
  BY <1>6, <1>10, <1>11 DEF Verifies, S
<1> QED BY <1>1, <1>12 DEF Verified, Verifying, c

-----------------------------------------------------------------------------
(* Why renewals fail.                                                      *)

(* The directory was told of the document there still is, and who failed   *)
(* knows why.                                                              *)
CauseOK(c, doc) ==
  /\ c.pc = "get" => c.base = doc
  /\ (c.pc = "raised" \/ (c.pc = "lock" /\ c.tries < Attempts)) => c.cause # "none"
CausesHeld == \A t \in Tasks : CauseOK(call[t], document)

(* Who fails has a cause,                                                  *)
LEMMA FailCause ==
  ASSUME CallsOK, NEW t \in Tasks, NEW cause, cause # "none", Fail(t, cause)
  PROVE  /\ \A u \in Tasks \ {t} : call'[u] = call[u]
         /\ \A doc : CauseOK(call'[t], doc)
<1> DEFINE c == call'[t]
<1>1. call \in [Tasks -> CallRecord]
  BY DEF CallsOK
<1>2. \/ c = [Idle EXCEPT !.pc = "raised", !.cause = cause]
      \/ c = [Idle EXCEPT !.pc = "lock", !.cause = cause,
                          !.force = call[t].force, !.tries = call[t].tries - 1]
  BY <1>1 DEF Fail
<1>3. c.pc \in {"raised", "lock"} /\ c.cause = cause
  <2> HIDE DEF c
  <2> QED BY <1>2 DEF Idle
<1>4. \A doc : CauseOK(c, doc)
  <2> HIDE DEF c
  <2> QED BY <1>3 DEF CauseOK
<1> QED BY <1>4, FailFrees

(* who returns needs none,                                                 *)
LEMMA ReturnCause ==
  ASSUME CallsOK, NEW t \in Tasks, NEW x, Return(t, x)
  PROVE  /\ \A u \in Tasks \ {t} : call'[u] = call[u]
         /\ \A doc : CauseOK(call'[t], doc)
<1>1. call'[t] = Idle
  BY DEF CallsOK, Return
<1>2. \A doc : CauseOK(Idle, doc)
  BY IdleRecord DEF CauseOK, Idle
<1> QED BY <1>1, <1>2, ReturnFrees

(* and neither does who got a consensus, or asks for keys.                 *)
LEMMA GotCause ==
  ASSUME CallsOK, NEW t \in Tasks, NEW d, Got(t, d)
  PROVE  /\ \A u \in Tasks \ {t} : call'[u] = call[u]
         /\ \A doc : CauseOK(call'[t], doc)
<1>1. CASE Fail(t, "keys")
  <2> DEFINE cause == "keys"
  <2>1. cause # "none" /\ Fail(t, cause)
    BY <1>1
  <2> HIDE DEF cause
  <2> QED BY <2>1, FailCause
<1>2. CASE Use(t, d)
  BY <1>2, ReturnCause DEF Use
<1>3. CASE call' = [call EXCEPT ![t].pc = "keys", ![t].base = None,
                                ![t].new = d, ![t].keyTries = Attempts]
  <2>1. call'[t].pc = "keys" /\ \A u \in Tasks \ {t} : call'[u] = call[u]
    BY <1>3 DEF CallsOK, CallRecord
  <2> QED BY <2>1 DEF CauseOK
<1> QED BY <1>1, <1>2, <1>3 DEF Got

(* At first nobody has failed.                                             *)
LEMMA CausesInit == Init => CausesHeld
<1>1. \A doc : CauseOK(Idle, doc)
  BY IdleRecord DEF CauseOK, Idle
<1> QED BY <1>1 DEF Init, CausesHeld

(* Every step keeps CausesHeld.                                            *)
LEMMA CausesKept == TypeOK /\ Quiet /\ CausesHeld /\ [Next]_vars => CausesHeld'
<1> SUFFICES ASSUME TypeOK, Quiet, CausesHeld, [Next]_vars PROVE CausesHeld'
  OBVIOUS
<1>0. CallsOK /\ call \in [Tasks -> CallRecord]
  BY TypeParts DEF CallsOK
<1>1. ASSUME NEW t \in Tasks, \A u \in Tasks \ {t} : call'[u] = call[u],
             CauseOK(call'[t], document'), call[t].pc \in Holding \/ UNCHANGED document
      PROVE  CausesHeld'
  <2> SUFFICES ASSUME NEW u \in Tasks PROVE CauseOK(call'[u], document')
    BY DEF CausesHeld, CauseOK
  <2>1. CASE u = t
    BY <1>1, <2>1
  <2>2. CASE u # t
    <3>1. call'[u] = call[u] /\ CauseOK(call[u], document)
      BY <1>1, <2>2 DEF CausesHeld
    <3>2. CASE call[t].pc \in Holding
      <4>1. call[u].pc # "get"
        BY <1>0, <2>2, <3>2, OneHolds, IdleRecord
      <4> QED BY <3>1, <4>1 DEF CauseOK
    <3>3. CASE UNCHANGED document
      BY <3>1, <3>3
    <3> QED BY <1>1, <3>2, <3>3
  <2> QED BY <2>1, <2>2
<1>2. ASSUME UNCHANGED <<call, document>> PROVE CausesHeld'
  BY <1>2 DEF CausesHeld, CauseOK
<1>3. ASSUME call' = [t \in Tasks |-> Idle] PROVE CausesHeld'
  <2>1. \A doc : CauseOK(Idle, doc)
    BY IdleRecord DEF CauseOK, Idle
  <2> QED BY <1>3, <2>1 DEF CausesHeld, CauseOK
<1>4. ASSUME NEW t \in Tasks, NEW cause, cause # "none", Fail(t, cause),
             call[t].pc \in Holding \/ UNCHANGED document
      PROVE  CausesHeld'
  BY <1>0, <1>1, <1>4, FailCause
<1>5. ASSUME NEW t \in Tasks, Call(t) PROVE CausesHeld'
  <2>1. PICK force : call' = [call EXCEPT ![t] =
                        [Idle EXCEPT !.pc = "lock", !.force = force, !.tries = Attempts]]
    BY <1>5 DEF Call
  <2>2. /\ \A u \in Tasks \ {t} : call'[u] = call[u]
        /\ call'[t] = [Idle EXCEPT !.pc = "lock", !.force = force, !.tries = Attempts]
    BY <1>0, <2>1
  <2>3. call'[t].pc = "lock" /\ call'[t].tries = Attempts
    BY <2>2 DEF Idle
  <2>4. CauseOK(call'[t], document')
    BY <2>3, ConsensusAssumption DEF CauseOK
  <2> QED BY <1>1, <1>5, <2>2, <2>4 DEF Call, memory
<1>6. ASSUME NEW t \in Tasks, Enter(t) PROVE CausesHeld'
  <2>1. UNCHANGED document
    BY <1>6 DEF Enter
  <2>2. CASE Return(t, document)
    BY <1>0, <1>1, <2>1, <2>2, ReturnCause
  <2>3. CASE call' = [call EXCEPT ![t].pc = "get", ![t].base = document, ![t].cause = "none"]
    <3>1. /\ call'[t].pc = "get" /\ call'[t].base = document
          /\ \A u \in Tasks \ {t} : call'[u] = call[u]
      BY <1>0, <2>3 DEF CallRecord
    <3>2. CauseOK(call'[t], document')
      BY <2>1, <3>1 DEF CauseOK
    <3> QED BY <1>1, <2>1, <3>1, <3>2
  <2> QED BY <1>6, <2>2, <2>3 DEF Enter
<1>7. ASSUME NEW t \in Tasks, GetFails(t) PROVE CausesHeld'
  <2> DEFINE cause == "answer"
  <2>1. cause # "none" /\ Fail(t, cause) /\ UNCHANGED document
    BY <1>7 DEF GetFails, memory
  <2> HIDE DEF cause
  <2> QED BY <1>4, <2>1
<1>8. ASSUME NEW t \in Tasks, NEW d, call[t].pc = "get", Got(t, d) PROVE CausesHeld'
  BY <1>0, <1>1, <1>8, GotCause, IdleRecord
<1>9. ASSUME NEW t \in Tasks, GetWhole(t) PROVE CausesHeld'
  BY <1>8, <1>9 DEF GetWhole
<1>10. ASSUME NEW t \in Tasks, GetDiff(t) PROVE CausesHeld'
  <2>1. PICK b \in Docs, d \in Docs :
          /\ <<call[t].base, b>> \in Bases
          /\ <<document, b, d>> \in Appliable => Got(t, d)
    BY <1>10 DEF GetDiff
  <2>2. call[t].pc = "get" /\ call[t].base = document
    BY <1>10 DEF GetDiff, CausesHeld, CauseOK
  <2>3. <<document, b, d>> \in Appliable
    BY <2>1, <2>2, AllAppliable
  <2> QED BY <1>8, <2>1, <2>2, <2>3
<1>11. ASSUME NEW t \in Tasks, GetKeys(t) PROVE CausesHeld'
  <2> DEFINE d == call[t].new
  <2>1. call[t].pc = "keys" /\ call[t].pc \in Holding /\ d \in Docs
    BY <1>11, IdleRecord DEF GetKeys, TypeOK
  <2> HIDE DEF d
  <2>2. PICK list \in KeyLists(d) :
          IF Verified(d, WholeCerts(list)) THEN Use(t, d)
          ELSE Fail(t, IF list # Keys(d) \/ ~Majority(d) THEN "answer" ELSE "none")
    BY <1>11 DEF GetKeys, d
  <2>3. CASE Use(t, d)
    BY <1>0, <1>1, <2>1, <2>3, ReturnCause DEF Use
  <2>4. CASE ~Verified(d, WholeCerts(list))
    <3>1. list # Keys(d) \/ ~Majority(d)
      BY <2>1, <2>4, KeysVerify
    <3> DEFINE cause == "answer"
    <3>2. cause # "none" /\ Fail(t, cause)
      BY <2>2, <2>4, <3>1
    <3> HIDE DEF cause
    <3> QED BY <1>4, <2>1, <3>2
  <2> QED BY <2>2, <2>3, <2>4
<1>12. ASSUME NEW t \in Tasks, GetKeysFails(t) PROVE CausesHeld'
  <2>1. UNCHANGED document /\ call[t].pc = "keys"
    BY <1>12 DEF GetKeysFails, memory
  <2>2. CASE Fail(t, "answer")
    <3> DEFINE cause == "answer"
    <3>1. cause # "none" /\ Fail(t, cause)
      BY <2>2
    <3> HIDE DEF cause
    <3> QED BY <1>4, <2>1, <3>1
  <2>3. CASE call' = [call EXCEPT ![t].keyTries = @ - 1]
    <3>1. call'[t].pc = "keys" /\ \A u \in Tasks \ {t} : call'[u] = call[u]
      BY <1>0, <2>1, <2>3 DEF CallRecord
    <3>2. CauseOK(call'[t], document')
      BY <3>1 DEF CauseOK
    <3> QED BY <1>1, <2>1, <3>1, <3>2
  <2> QED BY <1>12, <2>2, <2>3 DEF GetKeysFails
<1>13. ASSUME NEW t \in Tasks, Cancel(t) PROVE CausesHeld'
  <2> DEFINE cause == "answer"
  <2>1. cause # "none" /\ Fail(t, cause) /\ UNCHANGED document
    BY <1>13 DEF Cancel, memory
  <2> HIDE DEF cause
  <2> QED BY <1>4, <2>1
<1>14. ASSUME Tick PROVE CausesHeld'
  BY <1>2, <1>14 DEF Tick, memory
<1>15. ASSUME Crash PROVE CausesHeld'
  BY <1>3, <1>15 DEF Crash
<1>16. ASSUME Start PROVE CausesHeld'
  <2>1. proc # "up" /\ UNCHANGED call
    BY <1>16 DEF Start
  <2>2. \A u \in Tasks : call[u].pc = "idle"
    BY <2>1 DEF Quiet
  <2> QED BY <2>1, <2>2 DEF CausesHeld, CauseOK
<1>17. CASE UNCHANGED vars
  BY <1>2, <1>17 DEF vars, memory
<1> QED BY <1>5, <1>6, <1>7, <1>9, <1>10, <1>11, <1>12, <1>13, <1>14, <1>15, <1>16, <1>17 DEF Next, Directory

(* FailsForCause: a renewal is given up, or tries again, for an answer     *)
(* that was missing or wrong or for keys that cannot be used.  A           *)
(* difference always applies, and keys that come verify what a majority    *)
(* signed.                                                                 *)
THEOREM CauseKept == Spec => []FailsForCause
<1> DEFINE IInv == TypeOK /\ Quiet /\ CausesHeld
<1>1. Init => IInv
  BY TypeInit, CausesInit, IdleRecord DEF Init, Quiet
<1>2. IInv /\ [Next]_vars => IInv'
  BY TypeKept, QuietKept, CausesKept
<1>3. IInv => FailsForCause
  BY DEF CausesHeld, CauseOK, FailsForCause
<1> QED
  <2> HIDE DEF IInv
  <2> QED BY <1>1, <1>2, <1>3, PTL DEF Spec

=============================================================================
