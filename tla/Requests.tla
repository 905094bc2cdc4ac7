------------------------------ MODULE Requests ------------------------------
(***************************************************************************)
(* How one circuit matches the answers it receives with the calls that     *)
(* wait for them: HandlersReqMixin (protocol.py), TorCircuit.handle_relay  *)
(* and TorCircuit.send_relay_wait / _send_wait (circuit.py).               *)
(*                                                                         *)
(* Every call owns one future.  Futures stand in a FIFO and carry neither  *)
(* a stream number nor a type: whatever cell has no handler of its own     *)
(* goes to the future at the head.  A call runs as a task of the event     *)
(* loop; between two awaits it is one step.  asyncio.wait_for ends a       *)
(* timed-out wait in two steps: it cancels the future, and an iteration of *)
(* the loop later the task resumes and takes the future out of the FIFO.   *)
(* The reader task may run in between.                                     *)
(***************************************************************************)
EXTENDS Naturals, Sequences, SequencesExt

CONSTANTS
  Reqs,                  \* the calls made on this circuit; a call names its future
  Wants,                 \* the cell type each call passes as response_cell_cls
  Nobody,                \* addressee of a cell the relays send unasked
  MaxStray,              \* bound: how many such cells the relays send
  CancelledIsException   \* Python 3.7: `except Exception` catches CancelledError

Answers  == {"connected", "extended2"}
Kinds    == Answers \cup {"end", "truncated"}
Handled  == {"end"}      \* relay cells __handlers_relay__ routes to their stream

ASSUME ReqsAssumption ==
  /\ Wants \in [Reqs -> Answers]
  /\ Nobody \notin Reqs
  /\ MaxStray \in Nat
  /\ CancelledIsException \in BOOLEAN

(* A cell remembers whose request it answers.  The program does not see    *)
(* this field: it is what the properties compare with.                     *)
Cell   == [to : Reqs \cup {Nobody}, kind : Kinds]
NoCell == [to |-> Nobody, kind |-> "none"]

VARIABLES
  requests,   \* TorCircuit._requests, the deque of futures
  fut,        \* the state of each call's future
  got,        \* the cell set_result stored in it
  task,       \* where each call is
  remote,     \* requests the relays have received and not answered, oldest first
  wire,       \* cells on their way to the client
  conn,       \* the guard connection the circuit runs over
  strays,     \* unasked cells sent so far
  disturbed   \* history: something other than answers in order and in time happened

vars == <<requests, fut, got, task, remote, wire, conn, strays, disturbed>>

Live  == {"waiting", "unwinding", "interrupted"}
Ended == {"ok", "wrong", "timeout", "cancelled", "failed"}

TypeOK ==
  /\ requests \in Seq(Reqs)
  /\ fut \in [Reqs -> {"none", "pending", "result", "cancelled"}]
  /\ got \in [Reqs -> Cell \cup {NoCell}]
  /\ task \in [Reqs -> {"idle"} \cup Live \cup Ended]
  /\ remote \in Seq(Reqs)
  /\ wire \in Seq(Cell)
  /\ conn \in {"open", "lost", "crashed"}
  /\ strays \in 0..MaxStray
  /\ disturbed \in BOOLEAN

Init ==
  /\ requests = <<>>
  /\ fut = [r \in Reqs |-> "none"]
  /\ got = [r \in Reqs |-> NoCell]
  /\ task = [r \in Reqs |-> "idle"]
  /\ remote = <<>>
  /\ wire = <<>>
  /\ conn = "open"
  /\ strays = 0
  /\ disturbed = FALSE

-----------------------------------------------------------------------------
Queued(q, r) == \E i \in DOMAIN q : q[i] = r

(* Fault: the oldest request is taken out instead of one's own.            *)
RemoveOldest(q, r) == IF Queued(q, r) THEN Tail(q) ELSE q

(* _remove_request: nothing happens when the future is not queued.         *)
RemoveRequest(q, r) ==
  IF Queued(q, r) THEN RemoveAt(q, CHOOSE i \in DOMAIN q : q[i] = r) ELSE q

(* Fault: requests are pushed where they are popped.                       *)
CreateRequestInFront(r) ==
  /\ requests' = <<r>> \o requests
  /\ fut' = [fut EXCEPT ![r] = "pending"]

CreateRequest(r) ==
  /\ requests' = Append(requests, r)
  /\ fut' = [fut EXCEPT ![r] = "pending"]

(* send_relay_wait up to its await.  On a connection that is no longer     *)
(* open the cell is written into the void.                                 *)
Issue(r) ==
  /\ task[r] = "idle"
  /\ CreateRequest(r)
  /\ task' = [task EXCEPT ![r] = "waiting"]
  /\ remote' = IF conn = "open" THEN Append(remote, r) ELSE remote
  /\ UNCHANGED <<got, wire, conn, strays, disturbed>>

(* send_relay raises (a BEGIN payload over 498 bytes, a stream number over *)
(* 16 bits): the future was queued before the try block and stays there.   *)
SendRaises(r) ==
  /\ task[r] = "idle"
  /\ CreateRequest(r)
  /\ task' = [task EXCEPT ![r] = "failed"]
  /\ disturbed' = TRUE
  /\ UNCHANGED <<got, remote, wire, conn, strays>>

(* Fault: the request that is answered stays at the head.                  *)
HandleRelayPeeks ==
  /\ conn = "open"
  /\ wire # <<>>
  /\ wire' = Tail(wire)
  /\ IF Head(wire).kind \in Handled \/ requests = <<>>
       THEN UNCHANGED <<fut, got, conn>>
       ELSE IF fut[Head(requests)] = "pending"
              THEN /\ fut' = [fut EXCEPT ![Head(requests)] = "result"]
                   /\ got' = [got EXCEPT ![Head(requests)] = Head(wire)]
                   /\ UNCHANGED conn
              ELSE conn' = "crashed" /\ UNCHANGED <<fut, got>>
  /\ UNCHANGED <<requests, task, remote, strays, disturbed>>

(* handle_relay, called by the reader loop for the next cell.  set_result  *)
(* on a cancelled future raises InvalidStateError, and the reader loop     *)
(* answers any exception by closing the whole guard connection.            *)
HandleRelay ==
  /\ conn = "open"
  /\ wire # <<>>
  /\ wire' = Tail(wire)
  /\ IF Head(wire).kind \in Handled \/ requests = <<>>
       THEN UNCHANGED <<requests, fut, got, conn>>
       ELSE /\ requests' = Tail(requests)
            /\ IF fut[Head(requests)] = "pending"
                 THEN /\ fut' = [fut EXCEPT ![Head(requests)] = "result"]
                      /\ got' = [got EXCEPT ![Head(requests)] = Head(wire)]
                      /\ UNCHANGED conn
                 ELSE /\ conn' = "crashed"
                      /\ UNCHANGED <<fut, got>>
  /\ UNCHANGED <<task, remote, strays, disturbed>>

(* The task resumes with the result; from 3.8 on some releases of wait_for *)
(* also return it to a task that was cancelled in the meantime.            *)
Resume(r) ==
  /\ \/ task[r] = "waiting"
     \/ task[r] = "interrupted" /\ ~CancelledIsException
  /\ fut[r] = "result"
  /\ IF got[r].kind = Wants[r]
       THEN /\ task' = [task EXCEPT ![r] = "ok"]
            /\ UNCHANGED requests
       ELSE /\ task' = [task EXCEPT ![r] = "wrong"]    \* WrongCellError
            /\ requests' = RemoveRequest(requests, r)
  /\ UNCHANGED <<fut, got, remote, wire, conn, strays, disturbed>>

(* Fault: the timer only runs while the connection is open.                *)
TimeoutIfOpen(r) ==
  /\ conn = "open"
  /\ task[r] = "waiting"
  /\ fut[r] = "pending"
  /\ fut' = [fut EXCEPT ![r] = "cancelled"]
  /\ task' = [task EXCEPT ![r] = "unwinding"]
  /\ disturbed' = TRUE
  /\ UNCHANGED <<requests, got, remote, wire, conn, strays>>

(* wait_for: the timer fires and the future is cancelled.                  *)
Timeout(r) ==
  /\ task[r] = "waiting"
  /\ fut[r] = "pending"
  /\ fut' = [fut EXCEPT ![r] = "cancelled"]
  /\ task' = [task EXCEPT ![r] = "unwinding"]
  /\ disturbed' = TRUE
  /\ UNCHANGED <<requests, got, remote, wire, conn, strays>>

(* Fault: the except clause leaves the request where it is.                *)
GiveUpKeepsRequest(r) ==
  /\ task[r] = "unwinding"
  /\ task' = [task EXCEPT ![r] = "timeout"]
  /\ UNCHANGED <<requests, fut, got, remote, wire, conn, strays, disturbed>>

(* TimeoutError reaches the except clause of send_relay_wait.              *)
GiveUp(r) ==
  /\ task[r] = "unwinding"
  /\ task' = [task EXCEPT ![r] = "timeout"]
  /\ requests' = RemoveRequest(requests, r)
  /\ UNCHANGED <<fut, got, remote, wire, conn, strays, disturbed>>

(* Somebody cancels the task that makes the call.                          *)
Interrupt(r) ==
  /\ task[r] \in {"waiting", "unwinding"}
  /\ task' = [task EXCEPT ![r] = "interrupted"]
  /\ disturbed' = TRUE
  /\ UNCHANGED <<requests, fut, got, remote, wire, conn, strays>>

(* CancelledError is raised in the task: wait_for cancels the future, and  *)
(* the except clause runs only where CancelledError is an Exception.       *)
Unwind(r) ==
  /\ task[r] = "interrupted"
  /\ task' = [task EXCEPT ![r] = "cancelled"]
  /\ fut' = [fut EXCEPT ![r] = IF @ = "pending" THEN "cancelled" ELSE @]
  /\ requests' = IF CancelledIsException THEN RemoveRequest(requests, r) ELSE requests
  /\ UNCHANGED <<got, remote, wire, conn, strays, disturbed>>

-----------------------------------------------------------------------------
(* The relays.  An exit refuses a BEGIN with RELAY_END, a hop refuses an   *)
(* EXTEND2 with RELAY_TRUNCATED.  Exits answer concurrent BEGINs in the    *)
(* order their connections complete.                                       *)
Refusal(r) == IF Wants[r] = "connected" THEN "end" ELSE "truncated"

RemoteAnswer(i, kind) ==
  /\ conn = "open"
  /\ kind \in {Wants[remote[i]], Refusal(remote[i])}
  /\ wire' = Append(wire, [to |-> remote[i], kind |-> kind])
  /\ remote' = RemoveAt(remote, i)
  /\ disturbed' = (disturbed \/ i # 1 \/ kind \in Handled)
  /\ UNCHANGED <<requests, fut, got, task, conn, strays>>

(* A hop of the circuit goes away: RELAY_TRUNCATED arrives unasked.        *)
RemoteStray ==
  /\ conn = "open"
  /\ strays < MaxStray
  /\ strays' = strays + 1
  /\ wire' = Append(wire, [to |-> Nobody, kind |-> "truncated"])
  /\ disturbed' = TRUE
  /\ UNCHANGED <<requests, fut, got, task, remote, conn>>

(* The connection ends: the reader loop stops at EOF, or an error makes it *)
(* close the guard.  Neither touches the futures that wait.                *)
LoseConnection ==
  /\ conn = "open"
  /\ conn' = "lost"
  /\ UNCHANGED <<requests, fut, got, task, remote, wire, strays, disturbed>>

Caller(r) == Resume(r) \/ Timeout(r) \/ GiveUp(r) \/ Unwind(r)

Next ==
  \/ \E r \in Reqs : Issue(r) \/ SendRaises(r) \/ Interrupt(r) \/ Caller(r)
  \/ HandleRelay
  \/ \E i \in DOMAIN remote, kind \in Kinds : RemoteAnswer(i, kind)
  \/ RemoteStray
  \/ LoseConnection

Spec == Init /\ [][Next]_vars

(* The event loop runs every ready task and fires every timer; nothing is  *)
(* assumed of the relays, of the network or of who cancels a call.         *)
FairSpec == Spec /\ \A r \in Reqs : WF_vars(Caller(r))

-----------------------------------------------------------------------------
(* An answer can still reach every call that has not given up: its future  *)
(* is queued as long as it is pending (circuit.py 326-336).                *)
WaiterQueued ==
  \A r \in Reqs :
    task[r] \in Live /\ fut[r] = "pending" => Queued(requests, r)

(* A call that returned, timed out or was given the wrong cell leaves no   *)
(* future behind: one left at the head would take the answer of the next   *)
(* call.  The two ways a future does stay are named: the send raised, or   *)
(* CancelledError passed the except clause by.                             *)
EndedLeavesQueue ==
  \A r \in Reqs :
    Queued(requests, r) =>
      \/ task[r] \in Live
      \/ task[r] = "failed"
      \/ task[r] = "cancelled" /\ ~CancelledIsException

(* Matching by position is right as long as every request is answered with *)
(* a cell that pops the FIFO, in order, before its timeout, and nothing is *)
(* sent unasked: then a call gets the answer to its own request.           *)
FifoMatch ==
  ~disturbed => \A r \in Reqs : got[r] # NoCell => got[r].to = r

(* The reader loop falls over an abandoned future only: the connection all *)
(* circuits share comes down only after a call timed out or was cancelled. *)
CrashHasCause ==
  conn = "crashed" =>
    \E r \in Reqs : fut[r] = "cancelled"
                    /\ task[r] \in {"unwinding", "timeout", "interrupted", "cancelled"}

(* Every call ends, whatever the relays, the network and the other calls   *)
(* do, even after the reader loop is gone: wait_for's timer sees to it.    *)
EveryCallEnds == \A r \in Reqs : task[r] = "waiting" ~> task[r] \in Ended

=============================================================================
