----------------------------- MODULE Consensus ------------------------------
(***************************************************************************)
(* TorConsensus (consesus.py) and the cache directory it is kept in        *)
(* (cache_storage.py): renewing the network status under a lock and with   *)
(* retries, verifying it with the authorities' keys, and what a crash in   *)
(* the middle of a save leaves for the next start.  A step of a task is    *)
(* what it does between two awaits.                                        *)
(***************************************************************************)
EXTENDS Integers, Sequences, FiniteSets, Documents

CONSTANTS
  Tasks,      \* tasks that call renew
  Published,  \* consensuses in circulation, in a sequence
  Idents,     \* v3ident of the authorities; one authority has none
  Attempts,   \* the argument of both @retry, 3 in the code
  MaxNow,     \* bound: time
  Cuts,       \* bound: lines after which a crash may cut what is written
  MaxCrashes  \* bound: crashes

Count == Cardinality(Idents) + 1        \* DirectoryAuthoritiesList.count

ASSUME ConsensusAssumption ==
  /\ IsFiniteSet(Idents)
  /\ Attempts \in Nat \ {0} /\ MaxNow \in Nat /\ MaxCrashes \in Nat
  /\ Cuts \subseteq Nat
  /\ \A d \in DOMAIN Published :
       /\ Published[d].until \in Nat /\ Published[d].gen \in Nat
       /\ \A s \in {Published[d].voters, Published[d].routers, Published[d].signers} :
            s \in Seq(Range(s))
       /\ Published[d].routers # <<>>
       /\ IsInjective(Published[d].voters) /\ IsInjective(Published[d].signers)

(* The text of a consensus, as the authorities write it.                   *)
Text(d) ==
  LET doc == Published[d] IN
  <<Line("network-status-version", 3), Line("valid-until", doc.until)>>
    \o [i \in DOMAIN doc.voters |-> Line("dir-source", doc.voters[i])]
    \o FlattenSeq([i \in DOMAIN doc.routers |->
         <<Line("r", doc.routers[i]), Line("s", "flags")>>])
    \o FlattenSeq([i \in DOMAIN doc.signers |->
         <<Line("directory-signature", <<doc.signers[i], doc.gen>>), Begin,
           Line("", <<doc.signers[i], doc.gen>>), End>>])

(* The text of a list of key certificates; of none, the text of an error.  *)
KeyText(ks) ==
  IF ks = <<>> THEN <<Line("404", <<>>)>>
  ELSE FlattenSeq([i \in DOMAIN ks |->
         <<Line("dir-key-certificate-version", 3), Line("fingerprint", ks[i][1]),
           Line("dir-signing-key", <<>>), Begin, Line("", ks[i]), End>>])

(* What is in memory or in a file: the first so many lines of such a text. *)
Docs     == DOMAIN Published
Raws     == UNION {{[doc |-> d, n |-> n] : n \in 0..Len(Text(d))} : d \in Docs}
Whole(d) == [doc |-> d, n |-> Len(Text(d))]
Lines(raw) == SubSeq(Text(raw.doc), 1, raw.n)

(* What a directory that is asked for the keys of a consensus answers: all *)
(* of them, all but the last, or an error.                                 *)
Keys(d) ==
  LET doc == Published[d]
      known[n \in 0..Len(doc.signers)] ==
        IF n = 0 THEN <<>>
        ELSE IF doc.signers[n] \in Idents
               THEN Append(known[n - 1], <<doc.signers[n], doc.gen>>)
        ELSE known[n - 1]
  IN known[Len(doc.signers)]
KeyLists(d) == {Keys(d), <<>>} \cup {SubSeq(Keys(d), 1, Len(Keys(d)) - 1)}

CertRaws == UNION {{[keys |-> k, n |-> n] : n \in 0..Len(KeyText(k))} :
                     k \in UNION {KeyLists(d) : d \in Docs}}
WholeCerts(k)  == [keys |-> k, n |-> Len(KeyText(k))]
CertLines(raw) == SubSeq(KeyText(raw.keys), 1, raw.n)

None == [n |-> 0]

-----------------------------------------------------------------------------
(* Documents that have been read.                                          *)

Read(raw)      == Parse(NetworkStatus, Lines(raw))
ReadCerts(raw) == Parse(DirKeyCertificateList, CertLines(raw))

(* The files that can be loaded: an empty one is like none.                *)
Loads      == {raw \in Raws : raw.n = 0 \/ ~Raised(Read(raw))}
LoadsCerts == {raw \in CertRaws : raw.n = 0 \/ ~Raised(ReadCerts(raw))}

Voters(p)      == {o.v : o \in Range(p.objs["dir-source"])}
Signatures(p)  == Range(p.fields["directory-signature"])

(* The voters that count for verify: they signed and they are known.       *)
Trusted(d) ==
  {s \in Signatures(Read(Whole(d))) : s.arg[1] \in Voters(Read(Whole(d))) \cap Idents}

(* The keys of an identity; one that is missing or was cut has no lines.   *)
Certs(raw)     == Range(ReadCerts(raw).objs["dir-key-certificate-version"])
KeysOf(raw, a) == {o.subs["dir-signing-key"] :
                     o \in {o \in Certs(raw) : o.subs["fingerprint"] = <<a>>}}
Usable(k)      == k # <<>> /\ k[1].ml # <<>>

(* verify raises on a list without certificates, and on a key that does    *)
(* not load.                                                               *)
Raises(d, c) ==
  \E s \in Trusted(d) : Certs(c) = {} \/ \E k \in KeysOf(c, s.arg[1]) : ~Usable(k)

(* The signatures that verify with the keys there are.                     *)
Signed(d, c) ==
  {s \in Trusted(d) : \E k \in KeysOf(c, s.arg[1]) :
     Usable(k) /\ k[1].ml[1].v = s.arg /\ s.ml[1].v = s.arg}

(* Fault: half of the authorities are enough.                              *)
HalfVerifies(d, c) == ~Raises(d, c) /\ 2 * Cardinality(Signed(d, c)) >= Count

(* verify: more than half of the authorities, with and without identity.   *)
Verifies(d, c) == ~Raises(d, c) /\ 2 * Cardinality(Signed(d, c)) > Count

(* Both as relations, each worked out once.                                *)
Raising   == UNION {{<<d, c>> : c \in {c \in LoadsCerts : Raises(d, c)}} : d \in Docs}
Verifying == UNION {{<<d, c>> : c \in {c \in LoadsCerts : Verifies(d, c)}} : d \in Docs}

VerifyRaises(d, c) == <<d, c>> \in Raising
Verified(d, c)     == <<d, c>> \in Verifying

(* The lines before the first signature.                                   *)
BodyLen(d) == Len(Digest(Text(d))) - 1

Ed(act, start, end, data) ==
  <<Line("ed", [act |-> act, start |-> start, end |-> end])>>
    \o (IF act = "d" THEN <<>> ELSE Append(data, Line(".", <<>>)))

(* What a directory makes of two consensuses: the signatures go first, and *)
(* what differs is changed from the end back.                              *)
Diff(b, d) ==
  LET o == BodyLen(b)  n == BodyLen(d) IN
  <<Line("network-status-diff-version", 1)>>
    \o Ed("d", o + 1, Dollar, <<>>) \o Ed("a", o, o, SubSeq(Text(d), n + 1, Len(Text(d))))
    \o Ed("c", 3, o, SubSeq(Text(d), 3, n)) \o Ed("c", 2, 2, <<Text(d)[2]>>)

(* What has the digest of a consensus, and of what apply_diff can make     *)
(* another one: both digests are asserted.                                 *)
Bases ==
  UNION {{<<raw, b>> : raw \in {r \in Loads : r.n # 0 /\ Digest(Lines(r)) = Digest(Text(b))}} :
           b \in Docs}
ApplyDiff(raw, b, d) ==
  Patched(Lines(raw), ParseAny(Diff(b, d)).fields["ed"])
Appliable ==
  UNION {{<<base[1], base[2], d>> : d \in {d \in Docs :
            ApplyDiff(base[1], base[2], d) = Text(d)}} : base \in Bases}

(* The loaded consensuses that are valid at a time.                        *)
IsFresh ==
  UNION {{<<raw, t>> : raw \in {r \in Loads :
            r.n # 0 /\ Read(r).fields["valid-until"][1] > t}} : t \in 0..MaxNow}

(* What a consensus that has the keys of its signers would be.             *)
Majority(d) ==
  2 * Cardinality(Range(Published[d].signers) \cap Range(Published[d].voters) \cap Idents) > Count

-----------------------------------------------------------------------------
VARIABLES
  proc,      \* the program runs, is down, or its constructor raises
  now,       \* the clock
  status,    \* the file of the network status
  keys,      \* the file of the certificates
  document,  \* TorConsensus._document
  certs,     \* TorConsensus._certs
  served,    \* what the property document has cached
  lock,      \* who holds TorConsensus._lock, and who waits for it
  call,      \* of each task: where it is in renew
  crashes    \* crashes so far

disk   == <<status, keys>>
memory == <<document, certs, served>>
vars   == <<proc, now, disk, memory, lock, call, crashes>>

Idle == [pc |-> "idle", force |-> FALSE, tries |-> 0, keyTries |-> 0,
         base |-> None, new |-> 0, cause |-> "none"]

Holding == {"get", "keys"}
Calling == {"lock"} \cup Holding
Over    == {"idle", "raised"}

TypeOK ==
  /\ proc \in {"up", "down", "broken"} /\ now \in 0..MaxNow /\ crashes \in 0..MaxCrashes
  /\ {status, document, served} \subseteq Raws \cup {None}
  /\ {keys, certs} \subseteq CertRaws \cup {None}
  /\ lock \in Seq(Tasks) /\ IsInjective(lock)
  /\ call \in [Tasks -> [pc : Over \cup Calling, force : BOOLEAN,
                         tries : 0..Attempts, keyTries : 0..Attempts,
                         base : Raws \cup {None}, new : Docs \cup {0},
                         cause : {"none", "answer", "keys"}]]
  /\ \A t \in Tasks :
       /\ call[t].pc \in Calling <=> t \in Range(lock)
       /\ call[t].pc \in Holding => t = Head(lock)
       /\ call[t].pc \in Calling => call[t].tries > 0
       /\ call[t].pc = "keys" => call[t].keyTries > 0 /\ call[t].new \in Docs

Init ==
  /\ proc = "up" /\ now = 0 /\ crashes = 0
  /\ status = None /\ keys = None
  /\ document = None /\ certs = None /\ served = None
  /\ lock = <<>>
  /\ call = [t \in Tasks |-> Idle]

Fresh(raw) == <<raw, now>> \in IsFresh

-----------------------------------------------------------------------------
(* renew.                                                                  *)

(* A task is in the queue for the lock once.                               *)
Without(queue, t) == RemoveAt(queue, CHOOSE i \in DOMAIN queue : queue[i] = t)

(* The call returns: its task lets the lock go, and the property document  *)
(* keeps what there is from then on.                                       *)
Return(t, doc) ==
  /\ lock' = Without(lock, t)
  /\ call' = [call EXCEPT ![t] = Idle]
  /\ served' = IF call[t].force \/ served # None THEN served ELSE doc

(* Fault: a failure does not count.                                        *)
FailForEver(t, cause) ==
  /\ lock' = Append(Without(lock, t), t)
  /\ call' = [call EXCEPT ![t] = [Idle EXCEPT !.pc = "lock", !.cause = cause,
                       !.force = call[t].force, !.tries = call[t].tries]]

(* Any exception: the lock is let go, and unless this was the last attempt *)
(* the task queues up for it again.                                        *)
Fail(t, cause) ==
  LET last == call[t].tries = 1
      rest == Without(lock, t) IN
  /\ lock' = IF last THEN rest ELSE Append(rest, t)
  /\ call' = [call EXCEPT ![t] =
       IF last THEN [Idle EXCEPT !.pc = "raised", !.cause = cause]
       ELSE [Idle EXCEPT !.pc = "lock", !.cause = cause,
                         !.force = call[t].force, !.tries = call[t].tries - 1]]

Call(t) ==
  /\ proc = "up" /\ call[t].pc \in Over
  /\ \E force \in BOOLEAN :
       call' = [call EXCEPT ![t] =
                  [Idle EXCEPT !.pc = "lock", !.force = force, !.tries = Attempts]]
  /\ lock' = Append(lock, t)
  /\ UNCHANGED <<proc, now, disk, memory, crashes>>

(* Fault: the freshness is looked at before the lock is held.              *)
EnterUnlocked(t) ==
  /\ call[t].pc = "lock"
  /\ IF ~call[t].force /\ document # None /\ Fresh(document)
       THEN Return(t, document)
       ELSE /\ call' = [call EXCEPT ![t].pc = "get", ![t].base = document]
            /\ UNCHANGED <<lock, served>>
  /\ UNCHANGED <<proc, now, disk, document, certs, crashes>>

(* The lock is held: nothing to do, or the directory is asked, and told of *)
(* the document there is.                                                  *)
Enter(t) ==
  /\ call[t].pc = "lock" /\ t = Head(lock)
  /\ IF ~call[t].force /\ document # None /\ Fresh(document)
       THEN Return(t, document)
       ELSE /\ call' = [call EXCEPT ![t].pc = "get", ![t].base = document, ![t].cause = "none"]
            /\ UNCHANGED <<lock, served>>
  /\ UNCHANGED <<proc, now, disk, document, certs, crashes>>

(* A consensus is in use: in memory first, in its file then.               *)
Use(t, d) ==
  /\ document' = Whole(d) /\ status' = Whole(d)
  /\ Return(t, Whole(d))

(* No answer, one that is no document, or the call is cancelled.           *)
GetFails(t) ==
  /\ call[t].pc = "get" /\ Fail(t, "answer")
  /\ UNCHANGED <<proc, now, disk, memory, crashes>>

(* A consensus has come: it is used, or the keys of its signers are asked  *)
(* for.                                                                    *)
Got(t, d) ==
  IF VerifyRaises(d, certs) THEN Fail(t, "keys") /\ UNCHANGED <<document, status, served>>
  ELSE IF Verified(d, certs) THEN Use(t, d)
  ELSE /\ call' = [call EXCEPT ![t].pc = "keys", ![t].base = None,
                               ![t].new = d, ![t].keyTries = Attempts]
       /\ UNCHANGED <<lock, document, status, served>>

GetWhole(t) ==
  /\ call[t].pc = "get" /\ \E d \in Docs : Got(t, d)
  /\ UNCHANGED <<proc, now, keys, certs, crashes>>

(* The directory knew what it was told of and has sent the difference.     *)
(* Both digests are asserted.                                              *)
GetDiff(t) ==
  /\ call[t].pc = "get"
  /\ \E b, d \in Docs :
       /\ <<call[t].base, b>> \in Bases
       /\ IF <<document, b, d>> \in Appliable
            THEN Got(t, d)
            ELSE Fail(t, "none") /\ UNCHANGED <<document, status, served>>
  /\ UNCHANGED <<proc, now, keys, certs, crashes>>

(* renew_certs has an answer: it takes the place of all the keys there     *)
(* were, and the consensus is verified once more.                          *)
GetKeys(t) ==
  /\ call[t].pc = "keys"
  /\ \E list \in KeyLists(call[t].new) :
       LET d == call[t].new  c == WholeCerts(list) IN
       /\ certs' = c /\ keys' = c
       /\ IF Verified(d, c)
            THEN Use(t, d)
            ELSE /\ Fail(t, IF list # Keys(d) \/ ~Majority(d) THEN "answer" ELSE "none")
                 /\ UNCHANGED <<document, status, served>>
  /\ UNCHANGED <<proc, now, crashes>>

(* No answer, or the call is cancelled: renew_certs has its own attempts.  *)
GetKeysFails(t) ==
  /\ call[t].pc = "keys"
  /\ IF call[t].keyTries = 1
       THEN Fail(t, "answer")
       ELSE /\ call' = [call EXCEPT ![t].keyTries = @ - 1]
            /\ UNCHANGED lock
  /\ UNCHANGED <<proc, now, disk, memory, crashes>>

(* The call is cancelled while it waits for the lock.                      *)
Cancel(t) ==
  /\ call[t].pc = "lock" /\ Fail(t, "answer")
  /\ UNCHANGED <<proc, now, disk, memory, crashes>>

-----------------------------------------------------------------------------
(* Time, crashes and starts.                                               *)

Tick ==
  /\ now < MaxNow /\ now' = now + 1
  /\ UNCHANGED <<proc, disk, memory, lock, call, crashes>>

(* What is left of a file that is being written.                           *)
Cut(whole) == {[whole EXCEPT !.n = n] : n \in {n \in Cuts : n < whole.n}}

(* What a task may write in its next step, and what is left of it when the *)
(* program dies between the truncation of the file and the end of it.      *)
CutStatus(t) ==
  /\ call[t].pc = "get"
  /\ \E d \in Docs : Verified(d, certs) /\ status' \in Cut(Whole(d))
  /\ UNCHANGED keys

CutKeys(t) ==
  /\ call[t].pc = "keys"
  /\ \E list \in KeyLists(call[t].new) :
       LET d == call[t].new  c == WholeCerts(list) IN
       \/ keys' \in Cut(c) /\ UNCHANGED status
       \/ keys' = c /\ Verified(d, c) /\ status' \in Cut(Whole(d))

(* The program dies: what is in memory is lost.                            *)
Crash ==
  /\ proc = "up" /\ crashes < MaxCrashes
  /\ UNCHANGED disk \/ \E t \in Tasks : CutStatus(t) \/ CutKeys(t)
  /\ proc' = "down" /\ crashes' = crashes + 1
  /\ document' = None /\ certs' = None /\ served' = None
  /\ lock' = <<>> /\ call' = [t \in Tasks |-> Idle]
  /\ UNCHANGED now

(* TorConsensus(): both files are read, an empty one like none.            *)
Start ==
  /\ proc = "down"
  /\ IF status \in Loads \cup {None} /\ keys \in LoadsCerts \cup {None}
       THEN /\ proc' = "up"
            /\ document' = IF status.n = 0 THEN None ELSE status
            /\ certs' = IF keys.n = 0 THEN None ELSE keys
       ELSE /\ proc' = "broken"
            /\ UNCHANGED <<document, certs>>
  /\ UNCHANGED <<now, disk, served, lock, call, crashes>>

-----------------------------------------------------------------------------
Directory(t) == GetFails(t) \/ GetWhole(t) \/ GetDiff(t) \/ GetKeys(t) \/ GetKeysFails(t)

Next ==
  \/ \E t \in Tasks : Call(t) \/ Enter(t) \/ Directory(t) \/ Cancel(t)
  \/ Tick \/ Crash \/ Start

Spec == Init /\ [][Next]_vars

(* The event loop hands on the lock.  A directory is asked without a       *)
(* timeout and need not answer, nor is a reader told when its circuit ends *)
(* (consesus.py 311, 325, circuit.py 190).                                 *)
FairSpec == Spec /\ \A t \in Tasks : WF_vars(Enter(t))

-----------------------------------------------------------------------------
(* What is used, kept or served is the text, or the beginning of the text  *)
(* a crash has left, of a consensus that more than half of the authorities *)
(* signed, whatever the keys at hand were (consesus.py 163-174, 183-202).  *)
HeldIsMajority ==
  \A raw \in {document, served, status} : raw # None => Majority(raw.doc)

(* A renewal is given up, or tries again, for an answer that was missing   *)
(* or wrong, or because a list of keys cannot be used: never because of    *)
(* another renewal, a base that has changed or keys that have just come    *)
(* (consesus.py 145-174, network_status.py 375-387).                       *)
FailsForCause ==
  \A t \in Tasks :
    (call[t].pc = "raised" \/ (call[t].pc = "lock" /\ call[t].tries < Attempts)) =>
      call[t].cause # "none"

(* Only a file that a crash has cut stops the program from starting        *)
(* (cache_storage.py 29-36, 60-62, basics.py 131-203).                     *)
BrokenByTorn ==
  proc = "broken" =>
    \/ status # None /\ status # Whole(status.doc)
    \/ keys # None /\ keys # WholeCerts(keys.keys)

(* A consensus that is still valid is replaced by forced calls only        *)
(* (consesus.py 145-147): those who waited for the lock see what came.     *)
FreshIsKept ==
  [][proc = "up" /\ document # None /\ document' # document /\ Fresh(document) =>
       proc' = "down" \/ \E t \in Tasks : call[t].pc \in Holding /\ call[t].force]_vars

(* Every call of renew ends, whoever holds the lock and however many       *)
(* attempts fail, unless one request to a directory is never answered      *)
(* (consesus.py 142-145).                                                  *)
RenewalEnds ==
  \A t \in Tasks :
    (call[t].pc \in Calling) ~>
      (call[t].pc \in Over \/ \E u \in Tasks, at \in Holding : [](call[u].pc = at))

=============================================================================
