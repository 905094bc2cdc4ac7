--------------------------- MODULE SharedProofs ----------------------------
(***************************************************************************)
(* Proofs about the two mechanisms that the streams and the tasks of one   *)
(* circuit share: the windows of its flow control, for any number of       *)
(* streams and nodes and any windows (the 1000/100 and 500/50 of the code  *)
(* are one instance), and its cached properties, for any number of         *)
(* readers.                                                                *)
(***************************************************************************)
EXTENDS AsyncCachedProperty, Flow, TLAPS

-----------------------------------------------------------------------------
(* The cache of an async_cached_property is a value created once.  Nothing *)
(* about the order of the waiters is needed: the argument is the lock and  *)
(* the second look into the cache alone.                                   *)

USE ReadersAssumption DEF ReadersAssumption

(* CacheTypeOK without the queue, whose elements play no part.                  *)
CacheTyped ==
  /\ cache \in Readers \cup {None}
  /\ owner \in Readers \cup {None}
  /\ pc \in [Readers -> {"idle", "queued", "loading"} \cup Over]
  /\ given \in [Readers -> Readers \cup {None}]

(* Only a reader that returned was given something, and it was the value.  *)
GivenIsCache ==
  \A r \in Readers :
    /\ pc[r] = "returned" => cache # None /\ given[r] = cache
    /\ pc[r] # "returned" => given[r] = None

CacheInv == CacheTyped /\ OneLoader /\ OneLoad /\ GivenIsCache

(* Nobody has read anything.                                               *)
LEMMA InitCacheInv == CacheInit => CacheInv
BY DEF CacheInit, CacheInv, CacheTyped, OneLoader, OneLoad, GivenIsCache, Over

(* A reader is given the cached value.                                     *)
LEMMA ReturnCacheInv ==
  ASSUME CacheInv, NEW r \in Readers, pc[r] # "loading", cache # None, Return(r),
         owner' \in {owner, None}
  PROVE  CacheInv'
<1> USE DEF CacheInv
<1>1. /\ pc' = [pc EXCEPT ![r] = "returned"] /\ given' = [given EXCEPT ![r] = cache]
      /\ cache' = cache /\ loads' = loads
  BY DEF Return
<1>2. CacheTyped'
  BY <1>1 DEF CacheTyped, Over
<1>3. OneLoader'
  BY <1>1 DEF OneLoader, CacheTyped
<1>4. OneLoad' /\ GivenIsCache'
  BY <1>1 DEF OneLoad, GivenIsCache, CacheTyped
<1> QED BY <1>2, <1>3, <1>4

(* A reader that finds lock and cache empty starts the only load.          *)
LEMMA StartCacheInv ==
  ASSUME CacheInv, NEW r \in Readers, pc[r] \in {"idle", "queued"}, owner = None, cache = None,
         pc' = [pc EXCEPT ![r] = "loading"], owner' = r, UNCHANGED <<cache, given, loads>>
  PROVE  CacheInv'
<1> USE DEF CacheInv
<1>1. CacheTyped'
  BY DEF CacheTyped
<1>2. OneLoader'
  <2>1. \A u \in Readers : pc[u] # "loading"
    BY DEF OneLoader
  <2> QED BY <2>1 DEF OneLoader, CacheTyped
<1>3. OneLoad' /\ GivenIsCache'
  BY DEF OneLoad, GivenIsCache, CacheTyped
<1> QED BY <1>1, <1>2, <1>3

(* Queueing, failing and being cancelled give nobody anything.             *)
LEMMA AwayCacheInv ==
  ASSUME CacheInv, NEW r \in Readers, pc[r] # "returned",
         NEW to \in {"queued", "raised", "cancelled"}, pc' = [pc EXCEPT ![r] = to],
         owner' = owner \/ (pc[r] = "loading" /\ owner' = None),
         UNCHANGED <<cache, given, loads>>
  PROVE  CacheInv'
<1> USE DEF CacheInv
<1>1. CacheTyped'
  BY DEF CacheTyped, Over
<1>2. OneLoader'
  BY DEF OneLoader, CacheTyped
<1>3. OneLoad' /\ GivenIsCache'
  BY DEF OneLoad, GivenIsCache, CacheTyped
<1> QED BY <1>1, <1>2, <1>3

(* A load succeeds: no other one is under way or has succeeded before.     *)
LEMMA LoadedCacheInv ==
  ASSUME CacheInv, NEW r \in Readers, Loaded(r)
  PROVE  CacheInv'
<1> USE DEF CacheInv
<1>1. /\ pc[r] = "loading" /\ cache' = r /\ given' = [given EXCEPT ![r] = r]
      /\ pc' = [pc EXCEPT ![r] = "returned"] /\ loads' = loads \cup {r} /\ owner' = None
  BY DEF Loaded
<1>2. cache = None /\ \A u \in Readers : pc[u] = "loading" => u = r
  BY <1>1 DEF OneLoader
<1>3. CacheTyped'
  BY <1>1 DEF CacheTyped, Over
<1>4. OneLoader' /\ OneLoad'
  BY <1>1, <1>2 DEF OneLoader, OneLoad, CacheTyped
<1>5. GivenIsCache'
  BY <1>1, <1>2 DEF GivenIsCache, CacheTyped
<1> QED BY <1>3, <1>4, <1>5

(* What each step of a reader is, for the invariant and the refinement.    *)
LEMMA StepKinds ==
  ASSUME CacheInv, NEW r \in Readers, Get(r) \/ Step(r) \/ Cancel(r)
  PROVE  \/ pc[r] \in {"idle", "queued"} /\ cache # None /\ Return(r) /\ owner' \in {owner, None}
         \/ /\ pc[r] \in {"idle", "queued"} /\ owner = None /\ cache = None
            /\ pc' = [pc EXCEPT ![r] = "loading"] /\ owner' = r
            /\ UNCHANGED <<cache, given, loads>>
         \/ /\ pc[r] \in {"idle", "queued", "loading"}
            /\ \E to \in {"queued", "raised", "cancelled"} : pc' = [pc EXCEPT ![r] = to]
            /\ owner' = owner \/ (pc[r] = "loading" /\ owner' = None)
            /\ UNCHANGED <<cache, given, loads>>
         \/ Loaded(r)
<1>1. CASE Get(r)
  BY <1>1 DEF Get, Enter
<1>2. CASE Acquire(r)
  BY <1>2 DEF Acquire, Enter
<1>3. CASE Loaded(r)
  BY <1>3
<1>4. CASE LoadFails(r)
  BY <1>4 DEF LoadFails
<1>5. CASE Cancel(r)
  BY <1>5 DEF Cancel
<1> QED BY <1>1, <1>2, <1>3, <1>4, <1>5 DEF Step

(* Every step keeps the invariant.                                         *)
LEMMA NextCacheInv ==
  ASSUME CacheInv, [CacheNext]_cacheVars
  PROVE  CacheInv'
<1>1. ASSUME NEW r \in Readers, Get(r) \/ Step(r) \/ Cancel(r)
      PROVE  CacheInv'
  BY <1>1, StepKinds, ReturnCacheInv, StartCacheInv, AwayCacheInv, LoadedCacheInv
<1>2. CASE UNCHANGED cacheVars
  BY <1>2 DEF cacheVars, CacheInv, CacheTyped, OneLoader, OneLoad, GivenIsCache
<1> QED BY <1>1, <1>2 DEF CacheNext

(* The inductive invariant holds in every reachable state.                 *)
THEOREM CacheInvariance == CacheSpec => []CacheInv
<1>1. CacheInv /\ [CacheNext]_cacheVars => CacheInv'
  BY NextCacheInv
<1> QED BY <1>1, InitCacheInv, PTL DEF CacheSpec

(* At most one getter runs, and none once the value exists.                *)
THEOREM LoadsAreExclusive == CacheSpec => []OneLoader
<1>1. CacheInv => OneLoader
  BY DEF CacheInv
<1> QED BY <1>1, CacheInvariance, PTL

(* At most one load ever succeeds, and its result is what is cached.       *)
THEOREM LoadsOnce == CacheSpec => []OneLoad
<1>1. CacheInv => OneLoad
  BY DEF CacheInv
<1> QED BY <1>1, CacheInvariance, PTL

(* The property implements a cell whose value is created once.             *)
THEOREM CacheImplementsOnce == CacheSpec => CreatedOnce
<1>1. CacheInit => OnceCell!Init
  BY DEF CacheInit, OnceCell!Init
<1>2. CacheInv /\ [CacheNext]_cacheVars => [OnceCell!Next]_<<cache, given>>
  <2> SUFFICES ASSUME CacheInv, [CacheNext]_cacheVars
               PROVE  OnceCell!Next \/ UNCHANGED <<cache, given>>
    OBVIOUS
  <2>1. ASSUME NEW r \in Readers, Get(r) \/ Step(r) \/ Cancel(r)
        PROVE  OnceCell!Next \/ UNCHANGED <<cache, given>>
    <3>1. CASE pc[r] \in {"idle", "queued"} /\ cache # None /\ Return(r)
      <4>1. given[r] = None
        BY <3>1 DEF CacheInv, GivenIsCache
      <4>2. OnceCell!Give(r)
        BY <3>1, <4>1 DEF Return, OnceCell!Give
      <4> QED BY <4>2 DEF OnceCell!Next
    <3>2. CASE Loaded(r)
      <4>1. cache = None
        BY <3>2 DEF Loaded, CacheInv, OneLoader
      <4>2. OnceCell!Create(r)
        BY <3>2, <4>1 DEF Loaded, OnceCell!Create
      <4> QED BY <4>2 DEF OnceCell!Next
    <3> QED BY <2>1, <3>1, <3>2, StepKinds
  <2>2. CASE UNCHANGED cacheVars
    BY <2>2 DEF cacheVars
  <2> QED BY <2>1, <2>2 DEF CacheNext
<1> QED BY <1>1, <1>2, CacheInvariance, PTL DEF CacheSpec, CreatedOnce, OnceCell!Spec

HIDE ReadersAssumption DEF ReadersAssumption

-----------------------------------------------------------------------------
(* Flow control.                                                           *)

USE FlowAssumption DEF FlowAssumption

(* A stream that does not exist yet has its full windows and no cells.     *)
Fresh ==
  \A s \in Streams :
    at[s] = 0 => /\ sdeliver[s] = StreamStart /\ scredit[s] = StreamStart
                 /\ sdata[s] = 0 /\ ssendme[s] = 0

IInv ==
  /\ TypeOK
  /\ Fresh
  /\ WindowsInRange
  /\ CircuitConserved
  /\ StreamConserved

(* A window that has counted a cell is in range again, and has moved by    *)
(* the cell and by the increment it granted.                               *)
LEMMA AfterDataFacts ==
  ASSUME NEW start \in Nat, NEW incr \in Nat \ {0}, start >= incr,
         NEW d \in Nat, d > start - incr, d <= start
  PROVE  /\ AfterData(d, start, incr) \in Nat
         /\ AfterData(d, start, incr) > start - incr
         /\ AfterData(d, start, incr) <= start
         /\ Grants(d, start, incr) => AfterData(d, start, incr) = (d - 1) + incr
         /\ ~Grants(d, start, incr) => AfterData(d, start, incr) = d - 1
BY DEF AfterData, Grants

(* One SENDME more or less is one increment more or less.                  *)
LEMMA OneMore ==
  ASSUME NEW k \in Nat, NEW incr \in Nat
  PROVE  /\ incr * (k + 1) = incr * k + incr
         /\ incr * k \in Nat
         /\ k > 0 => incr * (k - 1) = incr * k - incr /\ incr * (k - 1) \in Nat
OBVIOUS

(* Nothing is on the wire at the start.                                    *)
LEMMA InitIInv == Init => IInv
<1> SUFFICES ASSUME Init PROVE IInv
  OBVIOUS
<1>1. CircuitIncr * 0 = 0 /\ StreamIncr * 0 = 0
  OBVIOUS
<1>2. TypeOK
  <2>1. 1 \in Hop
    BY DEF Hop
  <2> QED BY <2>1 DEF Init, TypeOK
<1>3. Fresh /\ WindowsInRange /\ StreamConserved
  BY DEF Init, Fresh, WindowsInRange, StreamConserved
<1>4. CircuitConserved
  BY <1>1 DEF Init, CircuitConserved
<1> QED BY <1>2, <1>3, <1>4 DEF IInv

(* The client counts a DATA cell.                                          *)
LEMMA OnStreamIInv ==
  ASSUME IInv, NEW s \in Streams, OnStream(s)
  PROVE  IInv'
<1> USE DEF IInv
<1> DEFINE n == at[s]
           cg == CircuitGrants(n)
           sg == StreamGrants(s)
<1>1. n \in Hop /\ sdata[s] > 0 /\ cdata[n] > 0
  <2>1. at[s] # 0
    BY DEF OnStream, Fresh
  <2> QED BY <2>1 DEF OnStream, TypeOK
<1> HIDE DEF n
<1>2. /\ sdata' = [sdata EXCEPT ![s] = sdata[s] - 1]
      /\ cdata' = [cdata EXCEPT ![n] = cdata[n] - 1]
      /\ cdeliver' = [cdeliver EXCEPT ![n] = AfterData(cdeliver[n], CircuitStart, CircuitIncr)]
      /\ csendme' = IF cg THEN [csendme EXCEPT ![last] = csendme[last] + 1] ELSE csendme
      /\ sdeliver' = IF s \in open
                     THEN [sdeliver EXCEPT ![s] = AfterData(sdeliver[s], StreamStart, StreamIncr)]
                     ELSE sdeliver
      /\ ssendme' = IF sg /\ n = last
                    THEN [ssendme EXCEPT ![s] = ssendme[s] + 1] ELSE ssendme
      /\ strayed' = (strayed \/ (last # n /\ (cg \/ sg)))
      /\ UNCHANGED <<last, at, open, ccredit, scredit>>
  BY DEF OnStream, CountCircuit, CountStream, credits, n
<1>3. /\ cdeliver[n] \in Nat /\ cdeliver[n] > CircuitStart - CircuitIncr
      /\ cdeliver[n] <= CircuitStart
      /\ sdeliver[s] \in Nat /\ sdeliver[s] > StreamStart - StreamIncr
      /\ sdeliver[s] <= StreamStart
  BY <1>1 DEF TypeOK, WindowsInRange
<1> DEFINE c1 == AfterData(cdeliver[n], CircuitStart, CircuitIncr)
           s1 == AfterData(sdeliver[s], StreamStart, StreamIncr)
<1>4. /\ c1 \in Nat /\ c1 > CircuitStart - CircuitIncr /\ c1 <= CircuitStart
      /\ cg => c1 = (cdeliver[n] - 1) + CircuitIncr
      /\ ~cg => c1 = cdeliver[n] - 1
  BY <1>3, AfterDataFacts DEF CircuitGrants
<1>5. /\ s1 \in Nat /\ s1 > StreamStart - StreamIncr /\ s1 <= StreamStart
      /\ sg => s1 = (sdeliver[s] - 1) + StreamIncr
      /\ ~sg /\ s \in open => s1 = sdeliver[s] - 1
  BY <1>3, AfterDataFacts DEF StreamGrants
<1>6. sg => s \in open
  BY DEF StreamGrants
<1> HIDE DEF c1, s1, cg, sg
<1>7. TypeOK'
  <2>1. cdeliver' \in [Hop -> Nat] /\ sdeliver' \in [Streams -> Nat]
    BY <1>1, <1>2, <1>4, <1>5 DEF TypeOK, c1, s1
  <2>2. csendme' \in [Hop -> Nat] /\ ssendme' \in [Streams -> Nat]
    BY <1>2 DEF TypeOK
  <2>3. cdata' \in [Hop -> Nat] /\ sdata' \in [Streams -> Nat]
    BY <1>1, <1>2 DEF TypeOK
  <2>4. strayed' \in BOOLEAN
    BY <1>2
  <2> QED BY <1>2, <2>1, <2>2, <2>3, <2>4 DEF TypeOK
<1>8. Fresh'
  <2> SUFFICES ASSUME NEW u \in Streams, at[u] = 0
               PROVE  /\ sdeliver'[u] = StreamStart /\ scredit[u] = StreamStart
                      /\ sdata'[u] = 0 /\ ssendme'[u] = 0
    BY <1>2 DEF Fresh
  <2>1. u # s
    BY <1>1 DEF Hop, n
  <2>2. sdeliver'[u] = sdeliver[u] /\ sdata'[u] = sdata[u] /\ ssendme'[u] = ssendme[u]
    BY <1>2, <2>1 DEF TypeOK
  <2> QED BY <2>2 DEF Fresh
<1>9. WindowsInRange'
  BY <1>1, <1>2, <1>4, <1>5 DEF WindowsInRange, TypeOK, c1, s1
<1>10. ASSUME ~strayed'
       PROVE  ~strayed /\ (last = n \/ (~cg /\ ~sg))
  BY <1>2, <1>10
<1>11. CircuitConserved'
  <2> SUFFICES ASSUME ~strayed', NEW m \in Hop
               PROVE  cdeliver'[m] = ccredit[m] + cdata'[m] + CircuitIncr * csendme'[m]
    BY <1>2 DEF CircuitConserved
  <2>1. cdeliver[m] = ccredit[m] + cdata[m] + CircuitIncr * csendme[m]
    BY <1>10 DEF CircuitConserved
  <2>2. /\ cdeliver[m] \in Nat /\ ccredit[m] \in Nat /\ cdata[m] \in Nat /\ csendme[m] \in Nat
        /\ CircuitIncr * csendme[m] \in Nat
        /\ CircuitIncr * (csendme[m] + 1) = CircuitIncr * csendme[m] + CircuitIncr
    BY OneMore DEF TypeOK
  <2>3. CASE m # n
    <3>1. csendme'[m] = csendme[m] /\ cdeliver'[m] = cdeliver[m] /\ cdata'[m] = cdata[m]
      BY <1>1, <1>2, <1>10, <2>3 DEF TypeOK
    <3> QED BY <2>1, <3>1
  <2>4. CASE m = n /\ cg
    <3>1. /\ csendme'[m] = csendme[m] + 1 /\ cdata'[m] = cdata[m] - 1
          /\ cdeliver'[m] = (cdeliver[m] - 1) + CircuitIncr
      BY <1>1, <1>2, <1>4, <1>10, <2>4 DEF TypeOK, c1
    <3> QED BY <2>1, <2>2, <3>1
  <2>5. CASE m = n /\ ~cg
    <3>1. /\ csendme'[m] = csendme[m] /\ cdata'[m] = cdata[m] - 1
          /\ cdeliver'[m] = cdeliver[m] - 1
      BY <1>1, <1>2, <1>4, <2>5 DEF TypeOK, c1
    <3> QED BY <2>1, <2>2, <3>1
  <2> QED BY <2>3, <2>4, <2>5
<1>12. StreamConserved'
  <2> SUFFICES ASSUME ~strayed', NEW u \in open
               PROVE  sdeliver'[u] = scredit[u] + sdata'[u] + StreamIncr * ssendme'[u]
    BY <1>2 DEF StreamConserved
  <2>1. u \in Streams /\ sdeliver[u] = scredit[u] + sdata[u] + StreamIncr * ssendme[u]
    BY <1>10 DEF StreamConserved, TypeOK
  <2>2. /\ sdeliver[u] \in Nat /\ scredit[u] \in Nat /\ sdata[u] \in Nat /\ ssendme[u] \in Nat
        /\ StreamIncr * ssendme[u] \in Nat
        /\ StreamIncr * (ssendme[u] + 1) = StreamIncr * ssendme[u] + StreamIncr
    BY <2>1, OneMore DEF TypeOK
  <2>3. CASE u # s
    <3>1. ssendme'[u] = ssendme[u] /\ sdeliver'[u] = sdeliver[u] /\ sdata'[u] = sdata[u]
      BY <1>2, <2>1, <2>3 DEF TypeOK
    <3> QED BY <2>1, <3>1
  <2>4. CASE u = s /\ sg
    <3>1. /\ ssendme'[u] = ssendme[u] + 1 /\ sdata'[u] = sdata[u] - 1
          /\ sdeliver'[u] = (sdeliver[u] - 1) + StreamIncr
      BY <1>2, <1>5, <1>6, <1>10, <2>4 DEF TypeOK, s1
    <3> QED BY <2>1, <2>2, <3>1
  <2>5. CASE u = s /\ ~sg
    <3>1. /\ ssendme'[u] = ssendme[u] /\ sdata'[u] = sdata[u] - 1
          /\ sdeliver'[u] = sdeliver[u] - 1
      BY <1>2, <1>5, <2>5 DEF TypeOK, s1
    <3> QED BY <2>1, <2>2, <3>1
  <2> QED BY <2>3, <2>4, <2>5
<1> QED BY <1>7, <1>8, <1>9, <1>11, <1>12

(* Streams come and go and nodes are appended without touching a window.   *)
LEMMA ShapeIInv ==
  ASSUME IInv,
         ExtendToHidden \/ (\E s \in Streams : CreateStream(s) \/ RemoveStream(s))
  PROVE  IInv'
<1> USE DEF IInv
<1>1. UNCHANGED <<cdeliver, sdeliver, ccredit, scredit, cdata, sdata, csendme, ssendme, strayed>>
  BY DEF ExtendToHidden, CreateStream, RemoveStream, windows, credits, wire
<1>2. TypeOK'
  <2>1. last' \in Hop
    <3>1. last \in 1..Nodes
      BY DEF TypeOK, Hop
    <3>2. CASE ExtendToHidden
      BY <3>1, <3>2 DEF ExtendToHidden, Hop
    <3>3. CASE last' = last
      BY <3>1, <3>3 DEF Hop
    <3> QED BY <3>2, <3>3 DEF CreateStream, RemoveStream
  <2>2. /\ at' \in [Streams -> Hop \cup {0}]
        /\ open' \subseteq {s \in Streams : at'[s] # 0}
    <3>1. CASE ExtendToHidden
      BY <3>1 DEF ExtendToHidden, TypeOK
    <3>2. ASSUME NEW s \in Streams, CreateStream(s)
          PROVE  /\ at' \in [Streams -> Hop \cup {0}]
                 /\ open' \subseteq {u \in Streams : at'[u] # 0}
      <4>1. last # 0
        BY DEF TypeOK, Hop
      <4> QED BY <3>2, <4>1 DEF CreateStream, TypeOK
    <3>3. ASSUME NEW s \in Streams, RemoveStream(s)
          PROVE  /\ at' \in [Streams -> Hop \cup {0}]
                 /\ open' \subseteq {u \in Streams : at'[u] # 0}
      BY <3>3 DEF RemoveStream, TypeOK
    <3> QED BY <3>1, <3>2, <3>3
  <2> QED BY <1>1, <2>1, <2>2 DEF TypeOK
<1>3. Fresh'
  <2>1. \A s \in Streams : at'[s] = 0 => at[s] = 0
    BY DEF ExtendToHidden, CreateStream, RemoveStream, TypeOK, Hop
  <2> QED BY <1>1, <2>1 DEF Fresh
<1>4. WindowsInRange' /\ CircuitConserved'
  BY <1>1 DEF WindowsInRange, CircuitConserved
<1>5. StreamConserved'
  <2>1. \A s \in open' : s \in open \/ (s \in Streams /\ at[s] = 0)
    BY DEF ExtendToHidden, CreateStream, RemoveStream
  <2>2. StreamIncr * 0 = 0
    OBVIOUS
  <2> QED BY <1>1, <2>1, <2>2 DEF StreamConserved, Fresh
<1> QED BY <1>2, <1>3, <1>4, <1>5

(* The relays spend and receive exactly the credit the windows count on.   *)
LEMMA RelayIInv ==
  ASSUME IInv,
         \/ \E s \in Streams : RelaySends(s) \/ RelayGetsStreamSendme(s)
         \/ \E n \in Hop : RelayGetsCircuitSendme(n)
  PROVE  IInv'
<1> USE DEF IInv
<1>1. UNCHANGED <<last, at, open, cdeliver, sdeliver, strayed>>
  BY DEF RelaySends, RelayGetsStreamSendme, RelayGetsCircuitSendme, windows
<1>2. WindowsInRange'
  BY <1>1 DEF WindowsInRange
<1>3. ASSUME NEW s \in Streams, RelaySends(s)
      PROVE  IInv'
  <2>1. /\ at[s] \in Hop /\ ccredit[at[s]] > 0 /\ scredit[s] > 0
        /\ ccredit' = [ccredit EXCEPT ![at[s]] = ccredit[at[s]] - 1]
        /\ scredit' = [scredit EXCEPT ![s] = scredit[s] - 1]
        /\ cdata' = [cdata EXCEPT ![at[s]] = cdata[at[s]] + 1]
        /\ sdata' = [sdata EXCEPT ![s] = sdata[s] + 1]
        /\ UNCHANGED <<csendme, ssendme>>
    BY <1>3 DEF RelaySends, TypeOK
  <2>2. TypeOK'
    BY <1>1, <2>1 DEF TypeOK
  <2>3. Fresh'
    BY <1>1, <2>1 DEF Fresh, TypeOK, Hop
  <2>4. CircuitConserved'
    <3> SUFFICES ASSUME ~strayed, NEW m \in Hop
                 PROVE  cdeliver[m] = ccredit'[m] + cdata'[m] + CircuitIncr * csendme[m]
      BY <1>1, <2>1 DEF CircuitConserved
    <3>1. /\ cdeliver[m] = ccredit[m] + cdata[m] + CircuitIncr * csendme[m]
          /\ ccredit[m] \in Nat /\ cdata[m] \in Nat /\ CircuitIncr * csendme[m] \in Nat
      BY OneMore DEF CircuitConserved, TypeOK
    <3>2. ccredit'[m] + cdata'[m] = ccredit[m] + cdata[m]
      BY <2>1, <3>1 DEF TypeOK
    <3>3. ccredit'[m] \in Nat /\ cdata'[m] \in Nat
      BY <2>2 DEF TypeOK
    <3> QED BY <3>1, <3>2, <3>3
  <2>5. StreamConserved'
    <3> SUFFICES ASSUME ~strayed, NEW u \in open
                 PROVE  sdeliver[u] = scredit'[u] + sdata'[u] + StreamIncr * ssendme[u]
      BY <1>1, <2>1 DEF StreamConserved
    <3>1. /\ sdeliver[u] = scredit[u] + sdata[u] + StreamIncr * ssendme[u] /\ u \in Streams
          /\ scredit[u] \in Nat /\ sdata[u] \in Nat /\ StreamIncr * ssendme[u] \in Nat
      BY OneMore DEF StreamConserved, TypeOK
    <3>2. scredit'[u] + sdata'[u] = scredit[u] + sdata[u]
      BY <2>1, <3>1 DEF TypeOK
    <3>3. scredit'[u] \in Nat /\ sdata'[u] \in Nat
      BY <2>2, <3>1 DEF TypeOK
    <3> QED BY <3>1, <3>2, <3>3
  <2> QED BY <1>2, <2>2, <2>3, <2>4, <2>5
<1>4. ASSUME NEW n \in Hop, RelayGetsCircuitSendme(n)
      PROVE  IInv'
  <2>1. /\ csendme[n] > 0
        /\ csendme' = [csendme EXCEPT ![n] = csendme[n] - 1]
        /\ ccredit' = [ccredit EXCEPT ![n] = ccredit[n] + CircuitIncr]
        /\ UNCHANGED <<scredit, cdata, sdata, ssendme>>
    BY <1>4 DEF RelayGetsCircuitSendme
  <2>2. TypeOK'
    BY <1>1, <2>1 DEF TypeOK
  <2>3. Fresh' /\ StreamConserved'
    BY <1>1, <2>1 DEF Fresh, StreamConserved
  <2>4. CircuitConserved'
    <3> SUFFICES ASSUME ~strayed, NEW m \in Hop
                 PROVE  cdeliver[m] = ccredit'[m] + cdata[m] + CircuitIncr * csendme'[m]
      BY <1>1, <2>1 DEF CircuitConserved
    <3>1. /\ cdeliver[m] = ccredit[m] + cdata[m] + CircuitIncr * csendme[m]
          /\ ccredit[m] \in Nat /\ cdata[m] \in Nat /\ csendme[m] \in Nat
          /\ CircuitIncr * csendme[m] \in Nat
      BY OneMore DEF CircuitConserved, TypeOK
    <3>2. CASE m # n
      BY <2>1, <3>1, <3>2 DEF TypeOK
    <3>3. CASE m = n
      <4>1. ccredit'[m] = ccredit[m] + CircuitIncr /\ csendme'[m] = csendme[m] - 1
        BY <2>1, <3>3 DEF TypeOK
      <4>2. CircuitIncr * (csendme[m] - 1) = CircuitIncr * csendme[m] - CircuitIncr
        BY <2>1, <3>1, <3>3, OneMore
      <4> QED BY <3>1, <4>1, <4>2
    <3> QED BY <3>2, <3>3
  <2> QED BY <1>2, <2>2, <2>3, <2>4
<1>5. ASSUME NEW s \in Streams, RelayGetsStreamSendme(s)
      PROVE  IInv'
  <2>1. /\ ssendme[s] > 0
        /\ ssendme' = [ssendme EXCEPT ![s] = ssendme[s] - 1]
        /\ scredit' = [scredit EXCEPT ![s] = scredit[s] + StreamIncr]
        /\ UNCHANGED <<ccredit, cdata, sdata, csendme>>
    BY <1>5 DEF RelayGetsStreamSendme
  <2>2. TypeOK'
    BY <1>1, <2>1 DEF TypeOK
  <2>3. Fresh' /\ CircuitConserved'
    BY <1>1, <2>1 DEF Fresh, CircuitConserved, TypeOK
  <2>4. StreamConserved'
    <3> SUFFICES ASSUME ~strayed, NEW u \in open
                 PROVE  sdeliver[u] = scredit'[u] + sdata[u] + StreamIncr * ssendme'[u]
      BY <1>1, <2>1 DEF StreamConserved
    <3>1. /\ sdeliver[u] = scredit[u] + sdata[u] + StreamIncr * ssendme[u] /\ u \in Streams
          /\ scredit[u] \in Nat /\ sdata[u] \in Nat /\ ssendme[u] \in Nat
          /\ StreamIncr * ssendme[u] \in Nat
      BY OneMore DEF StreamConserved, TypeOK
    <3>2. CASE u # s
      BY <2>1, <3>1, <3>2 DEF TypeOK
    <3>3. CASE u = s
      <4>1. scredit'[u] = scredit[u] + StreamIncr /\ ssendme'[u] = ssendme[u] - 1
        BY <2>1, <3>3 DEF TypeOK
      <4>2. StreamIncr * (ssendme[u] - 1) = StreamIncr * ssendme[u] - StreamIncr
        BY <2>1, <3>1, <3>3, OneMore
      <4> QED BY <3>1, <4>1, <4>2
    <3> QED BY <3>2, <3>3
  <2> QED BY <1>2, <2>2, <2>3, <2>4
<1> QED BY <1>3, <1>4, <1>5

-----------------------------------------------------------------------------
(* The inductive invariant holds in every reachable state.                 *)
THEOREM Invariance == Spec => []IInv
<1>1. ASSUME IInv, [Next]_vars PROVE IInv'
  <2>1. CASE UNCHANGED vars
    BY <1>1, <2>1 DEF IInv, TypeOK, Fresh, WindowsInRange, CircuitConserved, StreamConserved,
                      vars, windows, credits, wire
  <2>2. CASE Next
    BY <1>1, <2>2, OnStreamIInv, ShapeIInv, RelayIInv DEF Next
  <2> QED BY <1>1, <2>1, <2>2
<1> QED BY <1>1, InitIInv, PTL DEF Spec

(* Counters of cells and credit never go below zero.                       *)
THEOREM TypeCorrect == Spec => []TypeOK
<1>1. IInv => TypeOK
  BY DEF IInv
<1> QED BY <1>1, Invariance, PTL

(* Client and relay agree on the credit of a circuit and of every open     *)
(* stream, whatever streams are opened and closed and however cells cross. *)
THEOREM CreditIsConserved == Spec => []CreditConserved
<1>1. IInv => CreditConserved
  BY DEF IInv, CreditConserved
<1> QED BY <1>1, Invariance, PTL

(* Every window stays within one increment of where it started.            *)
THEOREM WindowRange == Spec => []WindowsInRange
<1>1. IInv => WindowsInRange
  BY DEF IInv
<1> QED BY <1>1, Invariance, PTL

(* A relay whose cells have all been counted has credit on both levels.    *)
THEOREM NoStarvation == Spec => []NeverStarved
<1>1. ASSUME IInv PROVE NeverStarved
  <2> SUFFICES ASSUME ~strayed, NEW s \in open,
                      cdata[at[s]] = 0, csendme[at[s]] = 0, sdata[s] = 0, ssendme[s] = 0
               PROVE  ccredit[at[s]] > 0 /\ scredit[s] > 0
    BY DEF NeverStarved
  <2>1. s \in Streams /\ at[s] \in Hop
    BY <1>1 DEF IInv, TypeOK
  <2>2. CircuitIncr * 0 = 0 /\ StreamIncr * 0 = 0
    OBVIOUS
  <2>3. ccredit[at[s]] \in Nat /\ scredit[s] \in Nat
    BY <1>1, <2>1 DEF IInv, TypeOK
  <2>4. cdeliver[at[s]] = ccredit[at[s]]
    BY <1>1, <2>1, <2>2, <2>3 DEF IInv, CircuitConserved
  <2>5. sdeliver[s] = scredit[s]
    BY <1>1, <2>2, <2>3 DEF IInv, StreamConserved
  <2> QED BY <1>1, <2>1, <2>3, <2>4, <2>5 DEF IInv, WindowsInRange
<1> QED BY <1>1, Invariance, PTL

(* No relay is granted more than its window holds.                         *)
THEOREM CreditIsBounded == Spec => []CreditBounded
<1>1. ASSUME IInv PROVE CreditBounded
  <2> SUFFICES ASSUME ~strayed
               PROVE  /\ \A n \in Hop : ccredit[n] + CircuitIncr * csendme[n] <= CircuitStart
                      /\ \A s \in open : scredit[s] + StreamIncr * ssendme[s] <= StreamStart
    BY DEF CreditBounded
  <2>1. ASSUME NEW n \in Hop PROVE ccredit[n] + CircuitIncr * csendme[n] <= CircuitStart
    <3>1. /\ ccredit[n] \in Nat /\ cdata[n] \in Nat /\ CircuitIncr * csendme[n] \in Nat
          /\ cdeliver[n] = ccredit[n] + cdata[n] + CircuitIncr * csendme[n]
          /\ cdeliver[n] <= CircuitStart
      BY <1>1, OneMore DEF IInv, TypeOK, CircuitConserved, WindowsInRange
    <3> QED BY <3>1
  <2>2. ASSUME NEW s \in open PROVE scredit[s] + StreamIncr * ssendme[s] <= StreamStart
    <3>1. s \in Streams
      BY <1>1 DEF IInv, TypeOK
    <3>2. /\ scredit[s] \in Nat /\ sdata[s] \in Nat /\ StreamIncr * ssendme[s] \in Nat
          /\ sdeliver[s] = scredit[s] + sdata[s] + StreamIncr * ssendme[s]
          /\ sdeliver[s] <= StreamStart
      BY <1>1, <3>1, OneMore DEF IInv, TypeOK, StreamConserved, WindowsInRange
    <3> QED BY <3>2
  <2> QED BY <2>1, <2>2
<1> QED BY <1>1, Invariance, PTL

=============================================================================
