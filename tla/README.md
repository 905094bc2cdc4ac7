# A verification project for aiotor

aiotor is a Tor client in pure Python (3.7 to 3.9) on asyncio. This directory
holds TLA+ models of it, the TLC configurations that check them, and TLAPS proofs
about them. Everything is translated from the code in `src/aiotor`; line numbers
below refer to it.

The whole client runs on one event loop: what happens between two awaits is one
step, and everything that is hard about the program is what other tasks, above
all the task that reads cells from the guard connection, do at the awaits.

## Inventory

| Component | Source | State | Operations | Module |
|---|---|---|---|---|
| Requests of a circuit | `protocol.py` 39-60, `circuit.py` 254-336 | `_requests`, a FIFO of futures | issue, answer, time out, cancel | `Requests` |
| Guard and circuit construction | `guard.py`, `circuit.py` 114-382, 583-611 | the map of circuits, state and nodes of each, the connection | create, extend, destroy, close, dispatch of cells | `Guard` |
| OR connection, negotiation | `protocol.py` 66-221, `guard.py` 135-152 | versions of both directions, reader task, waiter | negotiate, read, close, abort | `Link` |
| Client, connector's guard | `client.py`, `http/aiohttp.py` 24-47 | the guard held, attempts left | get a guard with retries, create a circuit, close | `Link` |
| Layered encryption | `crypto_state.py`, `circuit.py` 271-301 | running ciphers and digests per node and direction | encrypt, decrypt, recognise, append a node | `Layers` |
| Key agreement | `keyagreement.py` | the private key of a skin | make a skin, complete | `KeyAgreement` |
| Cells | `cells.py`, `protocol.py` 192-221 | none | pack, read, frame | `Cells` |
| Flow control | `stream.py` 37-61, 142-160, `circuit.py` 483-505 | a window per node and per stream | count DATA, send and receive SENDME | `Flow` |
| Streams and transports | `stream.py`, `circuit.py` 384-398, 514-580 | the map of streams, transport and reader of each | open, attach, data, END, close | `Stream` |
| Hidden services | `hiddenservice.py`, `circuit.py` 400-481 | lock and association of a circuit, its rendezvous future, the service key noted in a router | establish, fetch, introduce, join | `Rendezvous` |
| Cached properties | `property.py` 11-136 | cache and lock per object and field | read, load, fail, cancel | `AsyncCachedProperty` |
| Consensus and cache storage | `consesus.py` 40-262, `cache_storage.py` | document, certificates, lock, two files | renew, verify, save, load | `Consensus` |
| Network documents | `documents/` | the text and its items | read, apply a difference, digest | `Documents` |
| Descriptors and directory circuits | `consesus.py` 264-355 | a cached circuit and guard per purpose | fetch with retries | - |
| Parsers, console, HTTP sessions, `ObjectProxy` | `parsers.py`, `cli/`, `http/`, `property.py` 139-579 | next to none | convert | - |

How they interact: a `TorClient` connects to a guard (`Link`); the `GuardProtocol`
reads cells and hands each to the circuit its id names (`Guard`); the circuit takes
the layers of encryption off relay cells (`Layers`) and hands them to a stream
(`Stream`, `Flow`), or to the oldest request that waits (`Requests`); a stream hands
data to a transport, and the transport to the application's reader. For a hidden
service, a circuit gets one more node over two others (`Rendezvous`). Two cross-cuts
matter. An exception in any handler ends in the reader loop, which closes the guard
with every circuit on it. And building a circuit needs the consensus (`Consensus`)
and descriptors, which come over other circuits, through cached properties.

Each module abstracts its neighbours by what they may do to it: `Guard` has one
future where `Requests` has the FIFO; `Stream` takes the answer to BEGIN to reach its
own call; `Link` leaves the cells of circuits to `Guard`, and `Layers` takes over when
a circuit exists. `Layers` composes `Cells` and `KeyAgreement`, `Link` uses `Cells`,
`Consensus` uses `Documents`, `AsyncCachedProperty` implements `Once`.

What is hard, and what makes a component correct:

* **Requests.** Cells carry no request number, so matching is by position; calls
  time out or are cancelled while their answer travels. Correct: the answer one gets
  is one's own; no abandoned future takes another's answer; every call ends.
* **Circuits.** Owner, retry, guard, peer or a cancellation may tear a circuit down
  at any await of its construction. Correct: state, map, relay and owner stay in
  agreement; what is handed out has the hops asked for.
* **Negotiation.** The framing changes in the middle of the stream; errors come
  before the reader task exists; the call may be cancelled while the negotiation goes
  on. Correct: both sides frame alike; no connection is left open; every call ends.
* **Layers.** Stream ciphers and digests only work while both ends are fed the same
  cells; cells fail to be packed, extensions are given up and answered late. Correct:
  both ends in step, every cell recognised, the same keys at both ends.
* **Flow control.** Cells cross SENDMEs, streams close with data on its way, the
  circuit may grow. Correct: no credit is lost or invented, no transfer stalls.
* **Streams.** Data comes before the transport and after the close. Correct: the
  application reads what was sent, in order, and learns of the end.
* **Hidden services.** Calls share a circuit, its one future and the router objects;
  introductions time out and are answered late. Correct: the node appended is the
  service's that was asked for, with keys both have; every call ends.
* **Cached properties.** Many readers, one load. Correct: one value; nobody waits for
  ever.
* **Consensus.** Renewals queue up, keys and base document change under them, a crash
  cuts a file. Correct: only what a majority signed is used; a renewal fails for a
  cause; every renewal ends.

`PROJECT.json` lists every hazard at its line, with the property that watches it.

## Modules

Definitions named "Fault: ..." are plausible bugs; no specification uses them.
`PROJECT.json` says which property each of them breaks when it replaces the
definition after it. `MC...` are the instances TLC checks, `...Proofs` the theorems.

### Requests

A call is named after its future. `requests` is the deque, `fut` the state of each
future, `task` where each call is. `asyncio.wait_for` ends a wait in two steps,
`Timeout` (the future is cancelled) and `GiveUp` (the task resumes and takes it out of
the deque); the reader may run in between. `CancelledIsException` is the Python
version: up to 3.7 `except Exception` catches `CancelledError`. A call that was
interrupted may still be given its result (`Resume`), as in some releases of
`wait_for`. The relays answer requests in any order, refuse them (RELAY_END for a
BEGIN, which pops nothing; RELAY_TRUNCATED for an EXTEND2, which does) and send
RELAY_TRUNCATED unasked. Cells remember whom they answer; the program never reads that.
`send_relay_wait` and `_send_wait` are one shape.

### Guard

`Begin` ... `HopDone`/`HopFails` are the stretches of `create_circuit` between its
awaits, with `create` for the first hop and `extend` for the others; `GiveUpCircuit`
is the except clause and the retry. One circuit has at most one request of its
construction at a time, so the FIFO of `Requests` is one future here; it makes the
same two-step end of a wait, and an answer that meets a cancelled future crashes the
reader loop. `ReadCell` is one turn of that loop with the dispatch of `guard.py`
113-132: a cell for an unknown circuit raises, a DESTROY takes the circuit out, and data
from a hop whose node has not been appended yet is recognised by no node and raises too
(`circuit.py` 291, `cells.py` 233). Which routers are chosen is left out; fetching a
descriptor is an await that may fail, retryably or not, or never end. A cell that is sent is seen by the relay at once, so of two crossing
messages it is the client's that wins; the answers travel on `wire`.

### Link

One call of `get_guard` (by `TorClient.create_circuit` as a context, or by the
connector, which keeps its guard) with the connections its attempts make. `phase` is
what `_negotiate` reads next; `reader` and `sender` are the two versions, set one after
the other; `wire` holds the cells with the version they were framed in. `Fail` is
`_force_close` before the reader task exists: it closes the writer, raises
`AttributeError` and never tells the waiter. `ReadNetInfo` with a waiter that was
cancelled raises too, finds the reader task this time, and closes. `Interrupt` is the
cancellation of the call in `wait_established`, with or without the result already
there; `lost` collects what nobody can close after it. Closing a guard a second time
leaves the connection as it is and raises at the caller, which is not told apart here.
Relays differ in the versions they offer.

### Layers, Cells, KeyAgreement

`Layers` counts, for every hop and direction, what each side's cipher and digest has
been fed: `cf`, `cd`, `cb`, `ce` at the client, `rf`, `rd`, `rb`, `re` at the relays.
`cd` advances before a cell is packed and `cf` after: the order is the code's.
Skins and answers are numbered; `ckey`, `rkey` say whose skin and whose answer a hop's
keys came from. A relay answers one skin only; calls are given up while the answer
travels; a node may be cut off with RELAY_TRUNCATED. Relays handle a cell in one step:
each of a chain of FIFO links hands cells on in order, so whether a cell is between two
hops is not observable. `Cells` is the arithmetic of the formats: what a frame takes,
what the client packs, which payloads its readers take. `KeyAgreement` has symbols
for numbers: a hash equals another exactly when what was hashed does.

### Flow

A DATA cell is counted by the window of the node it comes from, before the stream is
looked up, and by the window of its stream. Cells on the wire are counters per node
and per stream: windows do not depend on their order. SENDMEs go to the last node.
`strayed` records that one went to a node that is not where the data came from, which
happens when `extend_to_hidden` appends the hidden service to a circuit that carries
streams; the relay there has no such stream and the credit is lost. The conservation
properties are stated up to that moment.

### Stream

`inMap`, `transport` and the StreamReader (`fed`, `eof`) of one stream. The task that
opens it runs at `Attach` and `Attached`; the reader loop in between at `ReadCell`.
DATA cells are numbered by the exit. Cells that come before the transport, an END as
much as DATA, are dropped (`stream.py` 145-148, 159); `EndIsTold` says that an
application which got data is told the end. `circuit = "broken"` stands for an exception
in the reader loop.

### Rendezvous

A call of `extend_to_hidden` walks directories and introduction points with the lock
of its circuit held. Key pairs are named after the number of their INTRODUCE1 (`mine`,
`answer`, `joined`), so an answer to an earlier introduction shows. `waiter` is the one
future of the circuit, which the first timeout cancels for good. `key` is
`Router._service_key`, in router objects that all circuits share. `Successors` and
`Replica` translate `get_responsibles` and `get_responsibles_dir` over the positions
of the descriptor ids in the ring of fingerprints, with its first entry left out and
nothing found for an id above all of them. `Read` collects the steps that wait for what
a directory sends (`fetch`, the descriptor of the service; `connect`, a circuit to an
introduction point and the descriptors it needs); `Run` are the others.

### AsyncCachedProperty and Once

`Get` is the read up to its first suspension, `Acquire` the lock handed to the oldest
waiter, `Loaded`, `LoadFails`, `Cancel` the three ends of a getter. Values are named
after the load that made them, so two values would show. `CreatedOnce` says that the
module implements `Once` with `value` as the cache.

### Consensus and Documents

`Documents` is the reader of `documents/basics.py` over texts that are sequences of
lines (`Parse`), the ed commands and `Patched`. `Consensus` builds real texts of the
`Published` consensuses and key lists; what is in memory or in a file is a text and the
number of its lines a crash has left. Verification, freshness and applicability are
worked out from the parsed texts and kept as relations. Actions are the stretches of
`renew`: `Enter` under the lock, `GetWhole`/`GetDiff`/`GetFails`, then
`GetKeys`/`GetKeysFails` for `renew_certs`; `Fail` is the retry, which lets the lock go
and queues up again. `Crash` leaves any of the files cut at a line of `Cuts`; `Start` is
the constructor, which reads them or raises.

## Runs

Every property of a passing run has a fault that breaks it in that run.

| Run | Instance | Shows |
|---|---|---|
| `requests` | a BEGIN and an EXTEND2, one stray cell, Python 3.8+, fairness | futures stay queued exactly while they should; matching is right while nothing disturbs it; the reader falls over abandoned calls only; calls end |
| `guard` | two calls of 1 and 2 hops, no retry, Python 3.8+ | concurrent construction and closing on one guard |
| `guard_retry` | one call of 2 hops, its 3 attempts, Python 3.7, fairness | the call ends, also without a guard, or one attempt stays in the fetch of a descriptor |
| `flow` | 2 streams, 2 nodes, windows 4/2 and 3/1, symmetry | credit and windows agree, no transfer stalls |
| `cached_property` | 4 readers, fairness | one value for all, after failures and cancellations too; no reader waits for ever unless one getter never ends |
| `stream` | 4 DATA cells, fairness | data arrives as an unbroken run, ends are seen last and are told, no handler raises, an opening ends |
| `rendezvous` | two calls for two services on one circuit, 4 directories, 3 INTRODUCE1, fairness | the node appended is the service's that was asked for; calls end, unless one that has the lock stays in one read |
| `layers` | 3 hops, 4 skins, 2 cells each way besides | both ends of every layer in step, every cell recognised, keys agree, what is sent fits |
| `link` | relays offering {1,2}, {3}, {3,4,5}; 2 connections, 2 attempts, Python 3.8+, fairness | framing, negotiated version, nothing left open; the call ends, or one attempt dials for ever, or one relay leaves it waiting |
| `consensus` | 3 consensuses, 3 authorities with and 1 without identity, 2 tasks, 2 attempts, one crash at 5 cuts, fairness | only what a majority signed is used; renewals fail for a cause, and end unless one request is never answered |
| `link_hang` | as `link` | violation, see below |
| `rendezvous_shared` | two calls on two circuits, a common introduction point | violation, see below |

Bounds. Positional matching goes wrong with two calls of either type. Two circuits
contain one that breaks and one that suffers; three attempts are the code's number. A
window of 4 with increment 2 passes its threshold, is refilled and crosses SENDMEs
several times before a stream is used up (the theorems hold for 1000/100 and 500/50).
Four readers: one loads, one fails, one is cancelled, one remains. Four DATA cells come
before the transport, between transport and END, and during a close. Two services on
one circuit contain the call that finds the circuit associated with its own and with
another's; three INTRODUCE1 contain one that is answered late by the next; four
directories are enough for the three of one replica to overlap those of the other and to
wrap around. Three hops are the paths the client builds, and contain a middle node; four
skins contain one given up and made again at each place. The offers contain no common
version, version 3 alone and a version above 4; two connections contain a failed attempt
and its successor. Of four authorities three must sign: the third consensus has two and
a stranger's, the second has new keys; the cuts fall on a header, a router, a
signature and inside a key. `MaxCircuits` never binds (an ASSUME of `MCGuard`);
`MaxStray`, `MaxData`, `MaxCells`, `MaxSent`, `MaxBack` bound what is sent besides.
Calls that ended, circuits that wait for nothing, streams that closed: these systems
may stop, and deadlock is not checked.

Fairness. The event loop runs every task that is ready and fires every timer: weak
fairness of the steps of each task that only need that (`Caller` in `Requests`, `Ready`
in `Guard`, `Acquire`, `Opening` in `Stream`, `Hold` and `Read` in `Link`, `Enter` in
`Consensus`, `Run` in `Rendezvous`), never of a relay, a directory, the network or the
user. Not every await of the code is bounded. These have no timeout:

* what `MiniHttpClient.get` reads from a directory (`http/client.py` 52): the consensus,
  the keys (`consesus.py` 311, 325), the router descriptors (345-346);
* therefore `renew` and the getter of `document` (`consesus.py` 131-134), what chooses a
  guard from it (`client.py` 50), and every step that needs descriptors;
* the read of a service's descriptor (`hiddenservice.py` 255);
* the wait for the negotiation in `guard_connect` (`guard.py` 146), through which the
  directory circuits are made too (`consesus.py` 279, 282-295); `link_hang` shows that
  it may last for ever;
* any read from a circuit that is destroyed, which nobody tells (`circuit.py` 190).

None of these steps is fair in any module, and the liveness properties except, in so
many words, what stays in one of them for ever: `EveryBuildEnds` one attempt in the fetch
of a descriptor, `EveryReadEnds` a getter that never ends, `EndsUnlessSilent` a call on
the same circuit in one `Read`, `CallEnds` the dialling of one attempt and the wait on one connection
whose relay is silent or whose negotiation failed, `RenewalEnds` one request to a
directory. What they show is that nothing else is waited for without end: failures,
retries, cancellations and the queue for a lock all come to one. `EveryCallEnds` and
`EveryOpenEnds` need no exception, as timers bound their waits (`circuit.py` 306-336).

### Disagreements between code and documentation

| Run | The repository says | The code does |
|---|---|---|
| `link_hang` | `client.py` 45 "Retry with another guard..." | a negotiation that fails before the reader task exists never tells the waiter (`protocol.py` 162): `get_guard` waits for ever |
| `rendezvous_shared` | `cells.py` 745 "PK_ID  Identifier for Bob's PK" | the service key noted in a shared router is read after an await: an INTRODUCE1 may be made out to another circuit's service |

A third one is proved rather than run, for any number of directories above three
(`FirstNeverAsked` in `RendezvousProofs`). `circuit.py` 442-443 says "At any time, there
are 6 hidden service directories responsible for keeping replicas of a descriptor", and
`consesus.py` 366 "Search for the 2 sets of 3 hidden service directories". The code does
something else:

* it starts one after the first fingerprint above the descriptor id (`consesus.py` 372),
  so that the first directory of each set, where the service publishes first, is never
  asked for its replica, and the third it asks keeps nothing;
* for an id above every fingerprint it does not go round to the first directory but finds
  none (369-374): three directories are left, or none at all;
* if that is the first id, the three of the second replica are numbered as those of the
  first (`hiddenservice.py` 145-150), and none is asked for the second.

### Observations

What modelling brought to light and no document contradicts plainly:

* two streams opened at once may get each other's answers (`circuit.py` 266; bounded by
  `FifoMatch`);
* a cancelled `create_circuit` is not closed from Python 3.8 on (`guard.py` 100; the
  exception in `MappedIsOwned`);
* a cell that crosses a DESTROY, or the late answer of a timed-out attempt, closes the
  guard (`guard.py` 33; `ReadCell`), as does an answer that meets an abandoned future;
* a circuit destroyed while it is Connecting sends no DESTROY (`circuit.py` 188), and
  `create` may write Connected over Destroyed (`circuit.py` 168);
* DATA and an END that come before the transport exists are dropped (`stream.py` 145-148,
  159): after an END that was lost like this the application waits for ever;
* data from a hop whose node has not been appended yet closes the guard (`circuit.py` 291,
  `cells.py` 233; `ReadCell`);
* a request that cannot be packed leaves its future at the head of the queue (`circuit.py`
  327), and so does a cancelled one from Python 3.8 on (334; the exceptions in
  `EndedLeavesQueue`);
* the SENDMEs for data of an earlier node go to the last one after `extend_to_hidden`
  (`circuit.py` 504; `strayed`);
* a connector whose `create_circuit` failed overwrites its guard, and a call cancelled
  just after the negotiation was told leaves one: nobody closes them (`http/aiohttp.py` 26,
  `guard.py` 146; `lost`);
* nothing that is read from a directory has a timeout (see Fairness);
* closing a writer sends no END, since `TorStream.close` finds its transport closing
  (`stream.py` 100); `write_eof` ends both directions (`stream.py` 278); readers of a
  destroyed circuit are never told (`circuit.py` 190); a stream that failed to open stays
  in the map (`circuit.py` 385);
* the package windows are counted and never read (`stream.py` 136);
* `OrProtocol` never makes `_requests`: a PADDING cell closes the guard (`protocol.py` 72);
* circuit ids always have bit 31 set, so a link of version 3 never makes a circuit
  (`circuit.py` 598; `CircuitFails`);
* the highest common version is computed as the lower of two maxima, which is another
  one when a relay offers, say, 3 and 5 (`protocol.py` 86; the hypothesis `NoGap`);
* IPv6 answers in END and CONNECTED raise in the reader loop (`cells.py` 570-594, 614);
* an error answer for the keys becomes a list without certificates in memory and on disk;
  `find` then raises `TypeError` (`dir_key_certificate.py` 54) in every later renewal,
  also after a restart, and so does a key file a crash has cut;
* the retry of a descriptor asks the same cached directory circuit again
  (`consesus.py` 333), and a directory circuit that fails leaks its guard (279);
* the property `document` is cached for the life of the program (`consesus.py` 131);
* a difference must begin with `N,$d`, or the extra line breaks the assertion on the
  digest; the branch `start == '$'` of `EdAction.apply` is never taken;
* the authority without an identity counts among those of which a majority must sign.

## Proofs

TLAPS proves, for every value of the constants, what TLC checks on the instances. The
theorems rest on the assumptions named in the modules (`ReqsAssumption`,
`GuardAssumption`, `FlowAssumption`, `ReadersAssumption`, `StreamAssumption`,
`RendezvousAssumption`, `LayersAssumption`, `LinkAssumption`, `ConsensusAssumption`),
which TLC evaluates, and on two further hypotheses that are stated in the theorems.

* **RequestsProofs.** `IInv` adds to the checked properties: the queue has no future
  twice; a queued future is unanswered; the future of a task is in the state its task
  says; a call that was abandoned has disturbed the exchange; and `Aligned`, the heart:
  undisturbed, the cells on the wire followed by the requests the relays have not
  answered are, one for one, the queue. `FifoMatch` follows because the head of the wire
  then answers the head of the queue.
* **GuardProofs.** `IInv` adds: identifiers from `nextId` on are unused and every task's
  circuit is its own; a circuit has announced nothing while it has no node or is
  Connected (`DestroyOnce`), though `create` may overwrite Destroyed; on a closed guard no
  future of a registered circuit is answered (`DeadUnanswered`). `ReturnedAgrees` needs a
  second invariant, `PathInv`: the request of a call has at most one answer, which is
  with the relay, on the wire or in the future, and the relays' path is one hop longer
  than the client's exactly while it is on its way (`Outstanding`, `Quiet`). A circuit no
  task builds any more may be answered late without anybody being misled, since the
  invariant speaks of each task's current circuit only.
* **SharedProofs.** Flow control: `IInv` joins both conservation laws with the ranges of
  the windows, which make the case split at the threshold exact, and adds that a stream
  that does not exist yet has full windows and no cells (`Fresh`). The cached property:
  a loader holds the lock over an empty cache, and what was given is the cache
  (`CacheInv`); the refinement theorem classifies every step as `Create`, `Give` or a
  stutter of `Once`.
* **StreamProofs.** `WireInv` describes the wire of a circuit that is up: CONNECTED
  first, END last, and the DATA in between numbered on from `read`; `SentInv` says that
  what was sent has been read or is there. `FedInv` is then what the run, the last DATA
  and the EOF need; `EndInv` and `CountInv` relate the end and the number of cells at the
  exit, on the wire and at the application (`EndTold`, `NoneInvented`). `TakeKeeps` and
  `EmitKeeps` treat the two ends of the wire once.
* **RendezvousProofs.** The holder of the lock is the only call inside it, on a circuit
  without association; the key pair a call holds is one it sent; what is answered or
  joined was sent since the rendezvous was established. `Reached` assumes `OneCircuit`
  (all calls on one circuit): then the service key in a router is the lock holder's. With
  two circuits this is false, as `rendezvous_shared` shows. `FirstNeverAsked` is about
  the ring of directories and says in what the code differs from its comments; it
  assumes more than three directories, as the three after one come round to it otherwise.
* **LinkProofs.** Each connection's waiter, socket and phase are in one of a few
  combinations (`ConnInv`); versions (`VersInv`) tie the frames on the wire to the number
  of cells the relay has sent. `HeldAgrees` and `Framing` assume `NoGap`: a relay that
  offers a version above 4 offers 4.
* **LayersProofs.** For each hop and direction, what one end has been fed is what the
  other has been fed plus the cells on the wire that pass it (`InStep` is the case of an
  empty wire); a key is with the relay as soon as its answer is on the wire. The formats
  of cells need no invariant: `ChunksAddUp` is about text of any length, and `CellsFit`
  about every cell the client builds.
* **ConsensusProofs.** The texts are sequences of lines, and what is in them is worked
  out by recursive functions of `Documents`. `SetInduction`, which speaks of a set of
  numbers and so needs no operator as parameter, is derived from the well-foundedness
  of strict inclusion, and makes them usable: it gives what the reader has seen after
  each line of a consensus, of a key list and of a difference (`WholeParsed`,
  `CertsParsed`, `DiffRead`), for every number of authorities, routers and signatures.
  A text that a crash has cut either cannot be read or keeps the validity it states
  (`KeepsUntil`). The invariants: `TypeOK`, every text is a published one, whole or cut,
  and the fields of a call fit the await it is at; `StaleHeld`, who holds the lock and
  was not forced found nothing valid, from which `FreshIsKept` follows; `Quiet`, nothing
  calls while the program is down; and `CausesHeld`, the directory was told of the
  document there still is, and who failed knows why. `HeldIsMajority` is inductive by
  itself, once it is known which texts `Verifies` lets pass, and `BrokenByTorn` with
  `TypeOK` and `Quiet`, once it is known that whole texts can be read. For `FailsForCause`
  a difference must apply to any text with the digest it was made for, also to a cut one
  (`FourApplied`, `AllAppliable`), and the keys fetched for all signers must verify
  what a majority signed (`KeysVerify`).

Only model-checked: liveness and the fairness it rests on, which are out of the prover's
reach. Every safety invariant, action property and refinement that a run checks is a
theorem.

## Not modelled

* Descriptor fetch and directory circuits (`consesus.py` 264-355): one cached property, a
  guard, a stream and a retry, each modelled on its own. What the composition does wrong
  (retrying on the same cached circuit, a leaked guard) is certain rather than a matter of
  interleaving and is listed above.
* TLS over a stream and writing (`_make_ssl_transport`, `send` beyond its chunks): library
  code drives them.
* The package windows, which no code reads.
* Parsers of single values, dates and flags; the choice of routers by flags, which is a
  nondeterministic choice in the other modules; the decryption of introduction points with
  a cookie; onion names.
* HTTP headers and bodies, the aiohttp sessions, the console, logging: no concurrent state.
* The arithmetic of the ciphers and of Diffie-Hellman.
* The vendored `ObjectProxy` (`property.py` 139-579), third-party code.
