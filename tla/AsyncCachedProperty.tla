------------------------ MODULE AsyncCachedProperty ------------------------
(***************************************************************************)
(* One async_cached_property of one object (property.py): a cache, a lock, *)
(* and tasks that read the property while it is being loaded.              *)
(*                                                                         *)
(* `await obj.prop` looks into the cache and, on a miss, runs load_value   *)
(* at once: it takes the lock, looks into the cache again, and awaits the  *)
(* getter while it holds the lock.  The getter may fail, and a reader may  *)
(* be cancelled wherever it waits.                                         *)
(*                                                                         *)
(* asyncio.Lock is modelled by what load_value relies on: one holder, and  *)
(* waiters served in order.  Each load makes a value of its own, so a      *)
(* value is named after the load that made it.                             *)
(***************************************************************************)
EXTENDS Naturals, Sequences, SequencesExt

CONSTANTS Readers, None

ASSUME ReadersAssumption == None \notin Readers

VARIABLES
  cache,    \* cache[field_name] of AsyncCachedPropertyInstanceState
  owner,    \* who holds lock[field_name]
  waiters,  \* who waits for it, in order
  pc,       \* where each reader is
  given,    \* what its await evaluated to
  loads     \* history: readers whose getter ran to a value

cacheVars == <<cache, owner, waiters, pc, given, loads>>

Over == {"returned", "raised", "cancelled"}

CacheTypeOK ==
  /\ cache \in Readers \cup {None}
  /\ owner \in Readers \cup {None}
  /\ waiters \in Seq(Readers)
  /\ pc \in [Readers -> {"idle", "queued", "loading"} \cup Over]
  /\ given \in [Readers -> Readers \cup {None}]
  /\ loads \subseteq Readers

CacheInit ==
  /\ cache = None
  /\ owner = None
  /\ waiters = <<>>
  /\ pc = [r \in Readers |-> "idle"]
  /\ given = [r \in Readers |-> None]
  /\ loads = {}

-----------------------------------------------------------------------------
Return(r) ==
  /\ pc' = [pc EXCEPT ![r] = "returned"]
  /\ given' = [given EXCEPT ![r] = cache]
  /\ UNCHANGED <<cache, loads>>

(* Fault: load_value trusts the look __get__ took before the lock.         *)
EnterUnchecked(r) ==
  /\ pc' = [pc EXCEPT ![r] = "loading"]
  /\ owner' = r
  /\ UNCHANGED <<cache, given, loads>>

(* load_value inside the lock: the second look into the cache.             *)
Enter(r) ==
  \/ /\ cache # None
     /\ Return(r)
     /\ owner' = None
  \/ /\ cache = None
     /\ pc' = [pc EXCEPT ![r] = "loading"]
     /\ owner' = r
     /\ UNCHANGED <<cache, given, loads>>

(* Fault: the getter runs without the lock.                                *)
GetUnlocked(r) ==
  /\ pc[r] = "idle"
  /\ \/ cache # None /\ Return(r)
     \/ /\ cache = None
        /\ pc' = [pc EXCEPT ![r] = "loading"]
        /\ UNCHANGED <<cache, given, loads>>
  /\ UNCHANGED <<owner, waiters>>

(* __get__ and the await of what it returns, up to the first suspension.   *)
Get(r) ==
  /\ pc[r] = "idle"
  /\ \/ /\ cache # None                                \* already_loaded
        /\ Return(r)
        /\ UNCHANGED <<owner, waiters>>
     \/ /\ cache = None /\ owner = None /\ waiters = <<>>
        /\ Enter(r)
        /\ UNCHANGED waiters
     \/ /\ cache = None /\ (owner # None \/ waiters # <<>>)
        /\ waiters' = Append(waiters, r)
        /\ pc' = [pc EXCEPT ![r] = "queued"]
        /\ UNCHANGED <<cache, owner, given, loads>>

Acquire(r) ==
  /\ pc[r] = "queued"
  /\ owner = None
  /\ waiters # <<>> /\ Head(waiters) = r
  /\ waiters' = Tail(waiters)
  /\ Enter(r)

(* The getter returns: __set__, and the lock is released.                  *)
Loaded(r) ==
  /\ pc[r] = "loading"
  /\ cache' = r
  /\ given' = [given EXCEPT ![r] = r]
  /\ pc' = [pc EXCEPT ![r] = "returned"]
  /\ loads' = loads \cup {r}
  /\ owner' = None
  /\ UNCHANGED waiters

(* The getter raises: nothing is cached, the next waiter loads again.      *)
LoadFails(r) ==
  /\ pc[r] = "loading"
  /\ pc' = [pc EXCEPT ![r] = "raised"]
  /\ owner' = None
  /\ UNCHANGED <<cache, waiters, given, loads>>

(* Fault: a cancelled getter keeps the lock.                               *)
CancelKeepsLock(r) ==
  /\ pc[r] \in {"queued", "loading"}
  /\ pc' = [pc EXCEPT ![r] = "cancelled"]
  /\ waiters' = SelectSeq(waiters, LAMBDA w : w # r)
  /\ UNCHANGED <<cache, owner, given, loads>>

(* The reader's task is cancelled, in the getter or in the queue.          *)
Cancel(r) ==
  /\ pc[r] \in {"queued", "loading"}
  /\ pc' = [pc EXCEPT ![r] = "cancelled"]
  /\ owner' = IF pc[r] = "loading" THEN None ELSE owner
  /\ waiters' = SelectSeq(waiters, LAMBDA w : w # r)
  /\ UNCHANGED <<cache, given, loads>>

Step(r) == Acquire(r) \/ Loaded(r) \/ LoadFails(r)

CacheNext == \E r \in Readers : Get(r) \/ Step(r) \/ Cancel(r)

CacheSpec == CacheInit /\ [][CacheNext]_cacheVars

(* The lock is handed on.  A getter need not end: that of the document     *)
(* asks a directory, that of a circuit connects to a guard, without a      *)
(* timeout (consesus.py 131-134, 282-295).                                 *)
FairSpec == CacheSpec /\ \A r \in Readers : WF_cacheVars(Acquire(r))

-----------------------------------------------------------------------------
(* One getter runs at a time, under the lock, and none runs again once the *)
(* value exists: no second guard connection, circuit or key pair           *)
(* (property.py 98-108).                                                   *)
OneLoader ==
  \A r \in Readers :
    pc[r] = "loading" => owner = r /\ cache = None

(* The value is the result of the only load that succeeded.                *)
OneLoad == loads = IF cache = None THEN {} ELSE {cache}

(* The readers see a value that is created once.                           *)
OnceCell == INSTANCE Once WITH Values <- Readers, value <- cache
CreatedOnce == OnceCell!Spec

(* No reader waits for ever, whoever fails or is cancelled before it,      *)
(* unless one getter never ends (property.py 106-115).                     *)
EveryReadEnds ==
  \A r \in Readers :
    pc[r] \in {"queued", "loading"} ~>
      (pc[r] \in Over \/ \E g \in Readers : [](pc[g] = "loading"))

=============================================================================
