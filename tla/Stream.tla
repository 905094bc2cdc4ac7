------------------------------- MODULE Stream -------------------------------
(***************************************************************************)
(* The life of one stream: TorCircuit.open_raw_connection, create_stream   *)
(* and _create_transport (circuit.py), TorStream, StreamsList and          *)
(* TorStreamTransport (stream.py), with the asyncio StreamReader the       *)
(* application reads from.                                                 *)
(*                                                                         *)
(* The stream is in the map of its circuit from before BEGIN is sent; it   *)
(* gets a transport only when the task that opened it runs again after the *)
(* CONNECTED.  In between the reader task goes on with the cells that      *)
(* follow, and a stream without a transport drops them.                    *)
(*                                                                         *)
(* The answer to BEGIN is taken to reach its own call; Requests is about   *)
(* when it does.  DATA cells are numbered in the order the exit sends them.*)
(***************************************************************************)
EXTENDS Naturals, Sequences

CONSTANT MaxData   \* bound: DATA cells the exit sends

ASSUME StreamAssumption == MaxData \in Nat

VARIABLES
  circuit,    \* "up", "destroyed"; "broken": a handler raised in the reader loop
  call,       \* where open_raw_connection is
  inMap,      \* the stream is in StreamsList._stream_map
  transport,  \* TorStreamTransport: "none", "open", "closing" once closed
  eofWritten, \* TorStreamTransport._eof_written
  fed,        \* DATA handed to the StreamReader
  eof,        \* StreamReader.feed_eof was called
  wire,       \* cells of the stream on their way to the client
  exit,       \* the exit's side: "none", "begun", "connected", "ended"
  sent,       \* DATA cells the exit has sent
  read        \* history: DATA cells the reader loop has taken off the wire

client == <<call, inMap, transport, eofWritten, fed, eof>>
remote == <<wire, exit, sent>>
vars   == <<circuit, client, remote, read>>

Cell == [kind : {"connected", "end"}, n : {0}] \cup [kind : {"data"}, n : 1..MaxData]

TypeOK ==
  /\ circuit \in {"up", "destroyed", "broken"}
  /\ call \in {"idle", "waiting", "answered", "attaching", "open", "failed", "cancelled"}
  /\ inMap \in BOOLEAN
  /\ transport \in {"none", "open", "closing"}
  /\ eofWritten \in BOOLEAN
  /\ fed \in Seq(1..MaxData)
  /\ eof \in BOOLEAN
  /\ wire \in Seq(Cell)
  /\ exit \in {"none", "begun", "connected", "ended"}
  /\ sent \in 0..MaxData
  /\ read \in 0..MaxData

Init ==
  /\ circuit = "up"
  /\ call = "idle"
  /\ inMap = FALSE
  /\ transport = "none"
  /\ eofWritten = FALSE
  /\ fed = <<>>
  /\ eof = FALSE
  /\ wire = <<>>
  /\ exit = "none"
  /\ sent = 0
  /\ read = 0

-----------------------------------------------------------------------------
SendEnd == exit' = IF circuit = "up" THEN "ended" ELSE exit

(* TorStream.close: END only for a transport that is not closing already.  *)
CloseStream ==
  /\ IF transport = "open" THEN SendEnd ELSE UNCHANGED exit
  /\ inMap' = FALSE

(* Fault: a closed transport leaves its stream in the map.                 *)
CloseKeepsStream ==
  /\ transport = "open"
  /\ transport' = "closing"
  /\ eof' = TRUE
  /\ UNCHANGED <<inMap, exit>>

(* TorStreamTransport.close: it is closing before it closes the stream, so *)
(* the stream leaves the map and no END is sent.                           *)
CloseTransport ==
  /\ transport = "open"
  /\ transport' = "closing"
  /\ eof' = TRUE                   \* connection_lost feeds EOF to the reader
  /\ inMap' = FALSE
  /\ UNCHANGED exit

(* create_stream up to its await.                                          *)
CreateStream ==
  /\ call = "idle"
  /\ circuit = "up"                                    \* check_connected
  /\ inMap' = TRUE
  /\ call' = "waiting"
  /\ exit' = "begun"
  /\ UNCHANGED <<circuit, transport, eofWritten, fed, eof, wire, sent, read>>

(* Fault: the wait only ends while the circuit is up.                      *)
GiveUpIfUp ==
  /\ call = "waiting" /\ circuit = "up"
  /\ call' = "failed"
  /\ UNCHANGED <<circuit, inMap, transport, eofWritten, fed, eof, remote, read>>

(* The wait for CONNECTED fails; the stream stays in the map.              *)
GiveUp ==
  /\ call = "waiting"
  /\ call' = "failed"
  /\ UNCHANGED <<circuit, inMap, transport, eofWritten, fed, eof, remote, read>>

(* The task runs again: _create_transport, up to the wait for the          *)
(* protocol's connection_made.                                             *)
Attach ==
  /\ call = "answered"
  /\ transport' = "open"
  /\ call' = "attaching"
  /\ UNCHANGED <<circuit, inMap, eofWritten, fed, eof, remote, read>>

(* The protocol's connection_made has run.                                 *)
Attached ==
  /\ call = "attaching"
  /\ call' = "open"
  /\ UNCHANGED <<circuit, inMap, transport, eofWritten, fed, eof, remote, read>>

(* The opening task is cancelled; _create_transport closes what it made.   *)
Cancel ==
  /\ call \in {"waiting", "answered", "attaching"}
  /\ call' = "cancelled"
  /\ IF call = "attaching" THEN CloseTransport ELSE UNCHANGED <<inMap, transport, eof, exit>>
  /\ UNCHANGED <<circuit, eofWritten, fed, wire, sent, read>>

(* The application closes its writer, or leaves create_connection.         *)
Close ==
  /\ call = "open"
  /\ CloseTransport
  /\ UNCHANGED <<circuit, call, eofWritten, fed, wire, sent, read>>

(* Fault: write_eof feeds the end to the own reader.                       *)
WriteEofToReader ==
  /\ call = "open" /\ transport = "open" /\ ~eofWritten
  /\ eofWritten' = TRUE
  /\ eof' = TRUE
  /\ SendEnd
  /\ UNCHANGED <<circuit, call, inMap, transport, fed, wire, sent, read>>

(* StreamWriter.write_eof.                                                 *)
WriteEof ==
  /\ call = "open" /\ transport = "open" /\ ~eofWritten
  /\ eofWritten' = TRUE
  /\ SendEnd
  /\ UNCHANGED <<circuit, call, inMap, transport, fed, eof, wire, sent, read>>

(* TorCircuit.destroy of a Connected circuit: close_all_streams.           *)
DestroyCircuit ==
  /\ circuit = "up"
  /\ circuit' = "destroyed"
  /\ IF inMap THEN CloseStream ELSE UNCHANGED <<inMap, exit>>
  /\ wire' = <<>>
  /\ UNCHANGED <<call, transport, eofWritten, fed, eof, sent, read>>

-----------------------------------------------------------------------------
(* One turn of the reader loop for a cell of this stream.                  *)
OnConnected ==
  /\ call' = IF call = "waiting" THEN "answered" ELSE call
  /\ UNCHANGED <<circuit, fed, eof, read>>

(* Fault: data is put in front of what is there.                           *)
OnDataInFront(n) ==
  /\ read' = n
  /\ fed' = IF inMap /\ transport = "open" THEN <<n>> \o fed ELSE fed
  /\ UNCHANGED <<circuit, call, eof>>

(* Fault: data is dropped once the application has written its EOF.        *)
OnDataHalfClosed(n) ==
  /\ read' = n
  /\ fed' = IF inMap /\ transport = "open" /\ ~eofWritten THEN Append(fed, n) ELSE fed
  /\ UNCHANGED <<circuit, call, eof>>

(* _on_data: a stream that is unknown or has no transport drops the cell;  *)
(* a transport without protocol, or a reader at EOF, would raise.          *)
OnData(n) ==
  /\ read' = n
  /\ IF ~inMap \/ transport = "none"
       THEN UNCHANGED <<circuit, fed>>
     ELSE IF transport = "closing" \/ eof
       THEN circuit' = "broken" /\ UNCHANGED fed
     ELSE fed' = Append(fed, n) /\ UNCHANGED circuit
  /\ UNCHANGED <<call, eof>>

(* Fault: the end is only passed on once the call has returned.            *)
OnEndWhenOpen ==
  /\ eof' = (eof \/ (inMap /\ transport = "open" /\ call = "open"))
  /\ UNCHANGED <<circuit, call, fed, read>>

(* _on_end: the reader gets EOF and the transport stays open; on_end       *)
(* swallows what a closed protocol raises.  Without a transport the END is *)
(* dropped, as DATA is.                                                    *)
OnEnd ==
  /\ eof' = (eof \/ (inMap /\ transport = "open"))
  /\ UNCHANGED <<circuit, call, fed, read>>

ReadCell ==
  /\ circuit = "up"
  /\ wire # <<>>
  /\ wire' = Tail(wire)
  /\ \/ Head(wire).kind = "connected" /\ OnConnected
     \/ Head(wire).kind = "data" /\ OnData(Head(wire).n)
     \/ Head(wire).kind = "end" /\ OnEnd
  /\ UNCHANGED <<inMap, transport, eofWritten, exit, sent>>

-----------------------------------------------------------------------------
(* The exit.                                                               *)
Emit(kind, n) == wire' = Append(wire, [kind |-> kind, n |-> n])

ExitConnects ==
  /\ circuit = "up" /\ exit = "begun"
  /\ exit' = "connected"
  /\ Emit("connected", 0)
  /\ UNCHANGED <<circuit, client, sent, read>>

ExitSends ==
  /\ circuit = "up" /\ exit = "connected" /\ sent < MaxData
  /\ sent' = sent + 1
  /\ Emit("data", sent + 1)
  /\ UNCHANGED <<circuit, client, exit, read>>

(* It refuses the BEGIN, or the host closes the connection.                *)
ExitEnds ==
  /\ circuit = "up" /\ exit \in {"begun", "connected"}
  /\ exit' = "ended"
  /\ Emit("end", 0)
  /\ UNCHANGED <<circuit, client, sent, read>>

Opening == GiveUp \/ Attach \/ Attached

Next ==
  \/ CreateStream \/ Opening \/ Cancel \/ Close \/ WriteEof \/ DestroyCircuit
  \/ ReadCell
  \/ ExitConnects \/ ExitSends \/ ExitEnds

Spec == Init /\ [][Next]_vars

(* The opening task runs when it is ready and its timer fires.             *)
FairSpec == Spec /\ WF_vars(Opening)

-----------------------------------------------------------------------------
(* What the application reads is a run of consecutive DATA cells: nothing  *)
(* is reordered or duplicated, and only a beginning can be missing, what   *)
(* came before the transport (stream.py 154-160, circuit.py 483-491).      *)
FedIsRun ==
  fed # <<>> => \A i \in DOMAIN fed : fed[i] = fed[1] + i - 1

(* Once data arrives it keeps arriving while the stream is open: between   *)
(* reader loop and application no cell is missed any more.                 *)
NothingMissedLater ==
  fed # <<>> /\ transport = "open" /\ inMap => fed[Len(fed)] = read

(* The application sees EOF on an open transport only behind the last DATA *)
(* cell the exit sent.                                                     *)
EofIsLast == eof /\ transport = "open" => read = sent

(* An application that was given data and has not ended the stream itself  *)
(* sees EOF as soon as all cells of the exit have been read: it never      *)
(* waits on a stream that is over (stream.py 145-148, 290-301).  Without   *)
(* data before it the END may have come before the transport and be lost.  *)
EndIsTold ==
  /\ fed # <<>> /\ transport = "open" /\ ~eofWritten
  /\ circuit = "up" /\ exit = "ended" /\ wire = <<>>
  => eof

(* No handler of the stream raises in the reader loop, which would close   *)
(* the connection of every circuit: a stream leaves the map in the step    *)
(* that closes its transport, and no data follows an END.                  *)
ReaderUnbroken == circuit # "broken"

(* Opening a stream ends whatever the exit and the circuit do.             *)
EveryOpenEnds == call = "waiting" ~> call \in {"open", "failed", "cancelled"}

=============================================================================
