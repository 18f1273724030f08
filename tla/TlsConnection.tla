--------------------------- MODULE TlsConnection ---------------------------
(***************************************************************************)
(* One TLS connection of the event loop.  The loop talks to OpenSSL, and   *)
(* OpenSSL to the socket: a call of SSL_accept, SSL_read or SSL_write may  *)
(* need the socket in the other direction than its name says, returns      *)
(* WANT_READ or WANT_WRITE then, and must be repeated with the same data.  *)
(* What a client has sent may be on the socket, where epoll reports it, or *)
(* already decrypted inside OpenSSL, where it does not.                    *)
(*                                                                         *)
(* A step is one call of an SSL function.  OpenSSL is not part of the      *)
(* repository and is modelled from its use: a handshake is a list of       *)
(* protocol steps, records keep their boundaries, and partial writes are   *)
(* enabled (initializeTlsContext).  The response of a request is the text  *)
(* of its header, then its file; a unit of it is <<request, position>>.    *)
(* Errors and epoll_ctl's failures close the connection.  The idle timer   *)
(* and the completion queue are in Server.                                 *)
(***************************************************************************)
EXTENDS Connection, FiniteSetsExt

CONSTANTS
  Chunk,         \* the buffer of readFromConnection, in tokens
  TlsFileChunk,  \* tlsFileChunkSize, in pieces of a file
  RecordUnits,   \* largest record OpenSSL makes of what SSL_write is given
  Script,        \* the records clients send, each a sequence of tokens
  Flight,        \* protocol steps of the first handshake, from the server's side
  LaterFlight,   \* those of key updates and renegotiations
  MaxLater,      \* bound of the model: how many of these
  FileShrinks    \* {FALSE}, or BOOLEAN if files may be truncated meanwhile

Step == {"recv", "send"}

ASSUME TlsAssumption ==
  /\ {Chunk, TlsFileChunk, RecordUnits} \subseteq Nat \ {0}
  /\ Script \subseteq Seq(Seq(Token) \ {<<>>})
  /\ Flight \in Seq(Step) /\ LaterFlight \subseteq Seq(Step) \ {<<>>}
  \* The client speaks first, and the loop registers for EPOLLIN on accept.
  /\ Flight # <<>> /\ Head(Flight) = "recv"
  /\ MaxLater \in Nat
  /\ FileShrinks \subseteq BOOLEAN /\ FALSE \in FileShrinks

VARIABLES
  pc,        \* where the loop is: "wait", or inside a handler of this connection
  conn,      \* the connection, or NoConnection once it is closed
  tls,       \* tlsHandshakeComplete and pendingTlsOperation
  transfer,  \* fileTransfer: its size, its tlsBuffer, and bufferedBytes
  ssl,       \* OpenSSL: steps, plain, unsent
  socket,    \* the kernel: inbox, whether the send buffer is full, fin
  client,    \* what the client has still to send, and may start of later flights
  job,       \* the request on its way through the pool
  sent       \* history: the units in the records the kernel has taken

vars == <<pc, conn, tls, transfer, ssl, socket, client, job, sent>>

Open == conn # NoConnection

Init ==
  /\ pc = "wait"
  /\ conn = NewConnection(1)
  /\ tls = [complete |-> FALSE, pending |-> "Accept"]
  /\ transfer = [size |-> 0, buffer |-> <<>>, buffered |-> 0]
  /\ ssl = [steps |-> Flight, plain |-> <<>>, unsent |-> <<>>]
  /\ socket = [inbox |-> <<>>, full |-> FALSE, fin |-> FALSE]
  /\ \E script \in Script : client = [script |-> script, later |-> MaxLater]
  /\ job = NoTask
  /\ sent = <<>>

----------------------------------------------------------------------------
(* The client.  It answers the server's side of a handshake, and sends no   *)
(* request while the server expects a protocol message of it.              *)

ClientStep == UNCHANGED <<pc, conn, tls, transfer, ssl, job, sent>>

Expected == ssl.steps # <<>> /\ Head(ssl.steps) = "recv"

SendProtocol ==
  /\ Open /\ ~socket.fin /\ Expected /\ socket.inbox = <<>>
  /\ socket' = [socket EXCEPT !.inbox = << <<"protocol">> >>]
  /\ UNCHANGED client /\ ClientStep

SendRecord ==
  /\ Open /\ ~socket.fin /\ ~Contains(ssl.steps, "recv") /\ client.script # <<>>
  /\ socket' = [socket EXCEPT !.inbox = Append(@, Head(client.script))]
  /\ client' = [client EXCEPT !.script = Tail(@)]
  /\ ClientStep

Receive ==
  /\ Open /\ socket.full
  /\ socket' = [socket EXCEPT !.full = FALSE]
  /\ UNCHANGED client /\ ClientStep

\* close_notify, if any, and the end of the stream.
HalfClose ==
  /\ Open /\ ~socket.fin
  /\ socket' = [socket EXCEPT !.fin = TRUE]
  /\ client' = [client EXCEPT !.script = <<>>]
  /\ ClientStep

----------------------------------------------------------------------------
(* OpenSSL *)

Text(c) ==
  [i \in 1 .. c.writeBuffer.left |-> <<c.writeBuffer.n, HeadUnits - c.writeBuffer.left + i>>]

\* What flushBuffer is writing: the write buffer, then the file's tlsBuffer.
Offered == IF conn.writeBuffer # NoResponse THEN Text(conn) ELSE transfer.buffer

Calling == pc \in {"accept", "read", "flush"}

\* The call in progress goes on with the handshake.
ProtocolStep ==
  /\ Calling /\ ssl.steps # <<>>
  /\ \/ /\ Head(ssl.steps) = "recv" /\ socket.inbox # <<>>
        /\ socket' = [socket EXCEPT !.inbox = Tail(@)]
     \/ /\ Head(ssl.steps) = "send" /\ ~socket.full
        /\ \E full \in BOOLEAN : socket' = [socket EXCEPT !.full = full]
  /\ ssl' = [ssl EXCEPT !.steps = Tail(@)]
  /\ UNCHANGED <<pc, conn, tls, transfer, client, job, sent>>

\* A key update or a renegotiation is under way when SSL_read or SSL_write is
\* called.
Later ==
  /\ pc = "read" \/ (pc = "flush" /\ Offered # <<>>)
  /\ ssl.steps = <<>> /\ ssl.unsent = <<>>
  /\ client.later > 0
  /\ \E flight \in LaterFlight :
       /\ Contains(flight, "recv") => socket.inbox = <<>> /\ ssl.plain = <<>>
       /\ ssl' = [ssl EXCEPT !.steps = flight]
  /\ client' = [client EXCEPT !.later = @ - 1]
  /\ UNCHANGED <<pc, conn, tls, transfer, socket, job, sent>>

\* A handshake, or an SSL_read, cannot go on without the client.
Starved ==
  /\ socket.inbox = <<>>
  /\ Expected \/ (pc = "read" /\ ssl.steps = <<>> /\ ssl.plain = <<>>)

\* What the call then fails with: SSL_ERROR_WANT_READ, or an error; and a
\* handshake that cannot send, with SSL_ERROR_WANT_WRITE.
WantsRead == Starved /\ ~socket.fin
WantsWrite == ssl.steps # <<>> /\ Head(ssl.steps) = "send" /\ socket.full

\* The record an SSL_write of these units is about: the one a former call
\* could not get rid of, which must be offered again, or a new one.
Record(units) ==
  IF ssl.unsent # <<>> THEN ssl.unsent
  ELSE SubSeq(units, 1, Min({RecordUnits, Len(units)}))

----------------------------------------------------------------------------
(* Steps the handlers share *)

Close ==
  /\ conn' = NoConnection /\ pc' = "wait"
  /\ UNCHANGED <<tls, transfer, ssl, socket, client, job, sent>>

\* Return to the loop: pendingTlsOperation and the mask.
WaitFor(operation, interest) ==
  /\ tls' = [tls EXCEPT !.pending = operation]
  /\ conn' = [conn EXCEPT !.interest = interest]
  /\ pc' = "wait"

\* Bring the connection into the state processReadBuffer left it in; the pool
\* may have refused the request.
Commit(r, state) ==
  /\ conn' = r.conn
  /\ job' = IF r.submit = NoTask THEN job ELSE Job(0, r.conn, r.submit)
  /\ pc' = state

\* SSL_get_error reports neither WANT_READ nor WANT_WRITE, or epoll_ctl fails.
Breaks == Open /\ pc # "wait" /\ Close

----------------------------------------------------------------------------
(* handleConnectionEvent *)

Readable == conn.interest = "read" /\ (socket.inbox # <<>> \/ socket.fin)
Writable == conn.interest = "write" /\ ~socket.full

\* EPOLLRDHUP closes unless a response is computed or written.
PeerClosed == socket.fin /\ ~Writing(conn) /\ ~conn.responsePending

Handles(state) ==
  /\ pc = "wait" /\ Open /\ ~PeerClosed
  /\ Readable \/ Writable
  /\ pc' = state

HandleClosed == pc = "wait" /\ Open /\ PeerClosed /\ Close

BeginHandshake ==
  /\ Handles("accept")
  /\ ~tls.complete
  /\ UNCHANGED <<conn, tls, transfer, ssl, socket, client, job, sent>>

\* A read that wanted to write goes on when the socket is writable.
BeginRead ==
  /\ Handles("read")
  /\ tls.complete
  /\ \/ tls.pending = "Read"
     \/ tls.pending = "None" /\ Readable
  /\ ~conn.responsePending
  /\ tls' = [tls EXCEPT !.pending = "None"]
  /\ UNCHANGED <<conn, transfer, ssl, socket, client, job, sent>>

\* A write that wanted to read goes on when the socket is readable.
BeginWrite ==
  /\ Handles("flush")
  /\ tls.complete
  /\ \/ tls.pending = "Write"
     \/ tls.pending = "None" /\ Writable /\ Writing(conn)
  /\ tls' = [tls EXCEPT !.pending = "None"]
  /\ transfer' = [transfer EXCEPT !.buffered = Len(transfer.buffer)]
  /\ UNCHANGED <<conn, ssl, socket, client, job, sent>>

----------------------------------------------------------------------------
(* driveTlsHandshake *)

\* Mutant: waits for the client, whatever OpenSSL wants.
AcceptWantsRead ==
  /\ pc = "accept" /\ (WantsRead \/ WantsWrite)
  /\ WaitFor("Accept", "read")
  /\ UNCHANGED <<transfer, ssl, socket, client, job, sent>>

AcceptWants ==
  /\ pc = "accept"
  /\ \/ WantsRead /\ WaitFor("Accept", "read")
     \/ WantsWrite /\ WaitFor("Accept", "write")
  /\ UNCHANGED <<transfer, ssl, socket, client, job, sent>>

\* An EPOLLIN that completed the handshake may also announce a request.
AcceptDone ==
  /\ pc = "accept" /\ ssl.steps = <<>>
  /\ tls' = [complete |-> TRUE, pending |-> "None"]
  /\ conn' = [conn EXCEPT !.interest = "read"]
  /\ pc' = IF conn.interest = "read" THEN "read" ELSE "wait"
  /\ UNCHANGED <<transfer, ssl, socket, client, job, sent>>

----------------------------------------------------------------------------
(* readFromConnection *)

\* Nothing is decrypted and no record has come, or a handshake blocks.
ReadWants ==
  /\ pc = "read"
  /\ \/ WantsRead /\ WaitFor("Read", "read")
     \/ WantsWrite /\ WaitFor("Read", "write")
  /\ UNCHANGED <<transfer, ssl, socket, client, job, sent>>

\* SSL_read returns what is left of the last record, or of the next one; the
\* rest stays inside OpenSSL.
Read ==
  /\ pc = "read" /\ ssl.steps = <<>>
  /\ ssl.plain # <<>> \/ socket.inbox # <<>>
  /\ LET fresh == ssl.plain = <<>>
         data  == IF fresh THEN Head(socket.inbox) ELSE ssl.plain
         k     == Min({Chunk, Len(data)})
         c     == [conn EXCEPT !.readBuffer = @ \o SubSeq(data, 1, k)]
     IN  /\ ssl' = [ssl EXCEPT !.plain = SubSeq(data, k + 1, Len(data))]
         /\ socket' = IF fresh THEN [socket EXCEPT !.inbox = Tail(@)] ELSE socket
         /\ \E accepts \in BOOLEAN :
              LET r == AfterRecv(c, accepts)
              IN  Commit(r, IF r.conn = c THEN "read" ELSE "wait")
  /\ tls' = [tls EXCEPT !.pending = "None"]
  /\ UNCHANGED <<transfer, client, sent>>

\* SSL_ERROR_ZERO_RETURN, or the stream ended without it.
StreamEnds == Calling /\ Starved /\ socket.fin /\ Close

----------------------------------------------------------------------------
(* writeToConnection *)

\* fileTransfer.sent
FileSent == transfer.size - conn.fileTransfer

\* Mutant: takes a partial SSL_write for a whole one.
RemainingNothing(text, n) == NoResponse

\* What is left of the text when a record of n units of it is written.
Remaining(text, n) ==
  IF text.left = n THEN NoResponse ELSE [text EXCEPT !.left = @ - n]

\* SSL_write writes a record.
Write ==
  /\ pc = "flush" /\ ssl.steps = <<>> /\ Offered # <<>> /\ ~socket.full
  /\ LET record == Record(Offered)
         n      == Len(record)
         text   == conn.writeBuffer # NoResponse
         rest   == SubSeq(transfer.buffer, n + 1, Len(transfer.buffer))
     IN  /\ sent' = sent \o record
         /\ IF text
              THEN /\ conn' = [conn EXCEPT !.writeBuffer = Remaining(conn.writeBuffer, n)]
                   /\ UNCHANGED transfer
              ELSE \* Once the buffer is empty, it counts as sent.
                   /\ transfer' = [transfer EXCEPT !.buffer = rest]
                   /\ conn' = IF rest # <<>> THEN conn
                              ELSE [conn EXCEPT !.fileTransfer = @ - transfer.buffered,
                                                !.owed = @ - transfer.buffered]
         /\ \E full \in BOOLEAN : socket' = [socket EXCEPT !.full = full]
  /\ ssl' = [ssl EXCEPT !.unsent = <<>>]
  /\ tls' = [tls EXCEPT !.pending = "None"]
  /\ UNCHANGED <<pc, client, job>>

\* Mutant of Counted: counts the whole buffer.
CountedAll(c) == [c EXCEPT !.fileTransfer = @ - transfer.buffered,
                           !.owed = @ - transfer.buffered]

\* flushBuffer gave up with part of tlsBuffer written: sent is brought up to
\* date, and the rest of the buffer is kept for the next event.
Counted(c) ==
  LET k == transfer.buffered - Len(transfer.buffer)
  IN  [c EXCEPT !.fileTransfer = @ - k, !.owed = @ - k]

\* Mutant: gives up the part of the file that could not be written.
WriteWantsDropping ==
  /\ pc = "flush" /\ Offered # <<>>
  /\ ssl.steps = <<>> /\ (socket.full \/ ssl.unsent = <<>>)
  /\ conn' = [conn EXCEPT !.fileTransfer = @ - transfer.buffered,
                          !.owed = @ - transfer.buffered, !.interest = "write"]
  /\ ssl' = [ssl EXCEPT !.unsent = Record(Offered)]
  /\ socket' = [socket EXCEPT !.full = TRUE]
  /\ tls' = [tls EXCEPT !.pending = "Write"]
  /\ transfer' = [transfer EXCEPT !.buffer = <<>>]
  /\ pc' = "wait"
  /\ UNCHANGED <<client, job, sent>>

\* A handshake blocks, or the socket takes nothing, or only part of a new
\* record.
WriteWants ==
  /\ pc = "flush" /\ Offered # <<>>
  /\ LET c == Counted(conn)
     IN  \/ /\ WantsRead
            /\ conn' = [c EXCEPT !.interest = "read"]
            /\ UNCHANGED <<ssl, socket>>
         \/ /\ WantsWrite
            /\ conn' = [c EXCEPT !.interest = "write"]
            /\ UNCHANGED <<ssl, socket>>
         \/ /\ ssl.steps = <<>>
            /\ socket.full \/ ssl.unsent = <<>>
            /\ conn' = [c EXCEPT !.interest = "write"]
            /\ ssl' = [ssl EXCEPT !.unsent = Record(Offered)]
            /\ socket' = [socket EXCEPT !.full = TRUE]
  /\ tls' = [tls EXCEPT !.pending = "Write"]
  /\ pc' = "wait"
  /\ UNCHANGED <<transfer, client, job, sent>>

\* The text is out and the file's buffer is empty: read the next part of the
\* file, as much of it as there still is, or give the rest up if there is
\* none.  A part left from an earlier event is written as it is.
ReadFile ==
  /\ pc = "flush" /\ Offered = <<>> /\ conn.fileTransfer > 0
  /\ LET part == Min({TlsFileChunk, conn.fileTransfer})
     IN  \E k \in (IF TRUE \in FileShrinks THEN 0 ELSE part) .. part :
           /\ transfer' = [transfer EXCEPT
                !.buffer = [i \in 1 .. k |-> <<conn.answered + 1, HeadUnits + FileSent + i>>],
                !.buffered = k]
           /\ conn' = IF k = 0 THEN [conn EXCEPT !.fileTransfer = 0] ELSE conn
  /\ UNCHANGED <<pc, tls, ssl, socket, client, job, sent>>

\* The response is written: close, or go on with the buffer.
WriteDone ==
  /\ pc = "flush" /\ Offered = <<>> /\ conn.fileTransfer = 0
  /\ IF conn.closeAfterWrite
       THEN Close
       ELSE /\ \E accepts \in BOOLEAN :
                 Commit(NextRequest([conn EXCEPT !.answered = @ + 1], accepts), "wait")
            /\ UNCHANGED <<tls, transfer, ssl, socket, client, sent>>

----------------------------------------------------------------------------
(* The pool and handleCompletionEvent *)

Deliver ==
  /\ pc = "wait" /\ job # NoTask
  /\ job' = NoTask
  /\ IF Open
       THEN \E opened \in BOOLEAN :
              LET c == Install(conn, BuildResponse(job), opened)
              IN  /\ conn' = c
                  /\ transfer' = [size |-> c.fileTransfer, buffer |-> <<>>, buffered |-> 0]
       ELSE UNCHANGED <<conn, transfer>>
  /\ UNCHANGED <<pc, tls, ssl, socket, client, sent>>

----------------------------------------------------------------------------

LoopStep ==
  \/ HandleClosed
  \/ BeginHandshake
  \/ BeginRead
  \/ BeginWrite
  \/ AcceptWants
  \/ AcceptDone
  \/ ReadWants
  \/ Read
  \/ StreamEnds
  \/ Write
  \/ WriteWants
  \/ ReadFile
  \/ WriteDone
  \/ ProtocolStep
  \/ Deliver

ClientSteps == SendProtocol \/ SendRecord \/ Receive \/ HalfClose

Next == LoopStep \/ ClientSteps \/ Later \/ Breaks

SafetySpec == Init /\ [][Next]_vars

\* The loop runs, the pool answers, and clients read what they are sent and
\* answer in a handshake.  They owe no request.
Spec ==
  /\ SafetySpec
  /\ WF_vars(LoopStep) /\ WF_vars(Deliver)
  /\ WF_vars(Receive) /\ WF_vars(SendProtocol)

----------------------------------------------------------------------------
(* Properties *)

Unit == Nat \X Nat

\* Every variable stays in its type.  What is left of a file is a difference of
\* unsigned numbers: it must not fall below zero.
TypeOK ==
  /\ pc \in {"wait", "accept", "read", "flush"}
  /\ conn \in ConnectionType \cup {NoConnection}
  /\ tls \in [complete : BOOLEAN, pending : {"None", "Accept", "Read", "Write"}]
  /\ transfer \in [size : Nat, buffer : Seq(Unit), buffered : Nat]
  /\ ssl \in [steps : Seq(Step), plain : Seq(Token), unsent : Seq(Unit)]
  /\ socket \in [inbox : Seq(Seq(Token \cup {"protocol"})), full : BOOLEAN, fin : BOOLEAN]
  /\ client \in [script : Seq(Seq(Token)), later : 0 .. MaxLater]
  /\ job = NoTask \/ job.kind \in DOMAIN Request
  /\ sent \in Seq(Unit)

\* After WANT_READ or WANT_WRITE an SSL_write is repeated with the data that
\* OpenSSL still holds a record of; with any other data the client would get
\* bytes that are not in the response, or the session would end.
RetryUnchanged ==
  Open /\ ssl.unsent # <<>> =>
    /\ IsPrefix(ssl.unsent, Offered)
    /\ (pc = "wait" => tls.pending = "Write")

\* The client receives every response from its first byte to its last, each
\* byte once, and one response after the other, however records were cut and
\* writes repeated: a response starts, and the loop waits for the next request,
\* only when the text of the one before is complete, and between events the
\* server's count of what it has sent of a file is what the client has.
ResponsesInOrder ==
  /\ \A i \in 1 .. Len(sent) :
       LET n == sent[i][1]
           before == IF i = 1 THEN <<0, 0>> ELSE sent[i - 1]
       IN  \/ sent[i] = <<n, before[2] + 1>> /\ before[1] = n
           \/ sent[i] = <<before[1] + 1, 1>> /\ (i = 1 \/ before[2] >= HeadUnits)
  /\ Open /\ pc = "wait" /\ conn.writeBuffer = NoResponse =>
       IF conn.fileTransfer > 0
         THEN Last(sent) = <<conn.answered + 1, HeadUnits + FileSent>>
         ELSE conn.owed = 0 /\ (sent = <<>> \/ Last(sent)[2] >= HeadUnits)

\* A connection at rest is registered for what it waits for: the direction
\* OpenSSL wants while a handshake blocks, otherwise what a plain connection
\* would wait for, and then nothing that was received is hidden from epoll in
\* OpenSSL or in the buffer.  One state escapes: a read that had to write
\* leaves EPOLLOUT registered when it ends in the middle of a body, and the
\* client is not read again.
WatchesWhatItWants ==
  Open /\ pc = "wait" =>
    IF ssl.steps # <<>>
      THEN /\ tls.pending # "None"
           /\ conn.interest = IF Expected THEN "read" ELSE "write"
      ELSE /\ tls.complete
           /\ \/ conn.interest = (IF conn.responsePending THEN "none"
                                  ELSE IF Writing(conn) THEN "write" ELSE "read")
              \/ /\ conn.interest = "write" /\ conn.requestBody # NoBody
                 /\ client.later < MaxLater
           /\ (conn.interest = "read" =>
                 /\ ssl.plain = <<>>
                 /\ IF conn.requestBody = NoBody THEN HeaderLength(conn.readBuffer) = 0
                                                 ELSE ~BodyComplete(conn))

\* What a client has sent is read in the end, unless the connection ends
\* (README.md: requests are read with SSL_read, TLS mode serves the existing
\* HTTP/1.x protocol).
EveryRecordRead ==
  (Open /\ (socket.inbox # <<>> \/ ssl.plain # <<>>))
    ~> ~(Open /\ (socket.inbox # <<>> \/ ssl.plain # <<>>))
============================================================================
