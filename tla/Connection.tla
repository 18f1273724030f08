----------------------------- MODULE Connection -----------------------------
(***************************************************************************)
(* What the event loop keeps for one client (Server::Impl::Connection), and *)
(* the decisions of its handlers: framing a request, answering it at once,  *)
(* handing it to the pool, installing the response, and what follows it.    *)
(* The plain server and a TLS session make the same decisions.             *)
(*                                                                         *)
(* A byte stream is a sequence of tokens.  "h" is a piece of a header,     *)
(* "b" a piece of a body, and a member of DOMAIN Request is the end of a   *)
(* header, which decides what request it is.                               *)
(***************************************************************************)
EXTENDS RequestHead

CONSTANTS
  Request,     \* [token -> the head of the request that ends with it]
  MaxHeader,   \* maxRequestHeaderSize, in tokens
  MaxBody,     \* maxRequestBodySize_, in tokens
  HeadUnits    \* pieces in which a response's text may be written

Token == {"h", "b"} \cup DOMAIN Request

ASSUME ConnectionAssumption ==
  /\ {"h", "b"} \cap DOMAIN Request = {}
  /\ \A t \in DOMAIN Request : Request[t] \in HeadType
  /\ {MaxHeader, MaxBody} \subseteq Nat
  /\ HeadUnits \in Nat \ {0}

\* Absent values: no record, which has fields, is equal to one of them.
NoConnection == <<>>
NoResponse == <<>>
NoBody == <<>>
NoTask == <<>>

\* What the loop finds in each head.
Parsed == [t \in DOMAIN Request |-> KindOf(Request[t])]

----------------------------------------------------------------------------
(* Connections.  interest is the mask registered with epoll: "read" is     *)
(* EPOLLIN, "write" EPOLLOUT and "none" neither, each with EPOLLRDHUP.     *)
(* idle says that connectionIdleTimeout_ has passed since lastActiveTime.  *)
(* parsed, answered, owed and last are history: requests taken from the     *)
(* buffer, responses written out, pieces of the file the response's         *)
(* Content-Length announced that have not been sent, and the last request. *)

NewConnection(id) ==
  [id |-> id, readBuffer |-> <<>>, writeBuffer |-> NoResponse, fileTransfer |-> 0,
   requestBody |-> NoBody, closeAfterWrite |-> TRUE, responsePending |-> FALSE,
   interest |-> "read", idle |-> FALSE, parsed |-> 0, answered |-> 0, owed |-> 0, last |-> "none"]

Response == [id : Nat, n : Nat, keepAlive : BOOLEAN, left : 1 .. HeadUnits]

ConnectionType ==
  [id : Nat, readBuffer : Seq(Token), writeBuffer : Response \cup {NoResponse},
   fileTransfer : Nat,
   requestBody : [kind : DOMAIN Request, headerLength : Nat, bodyLength : Nat]
                   \cup {NoBody},
   closeAfterWrite : BOOLEAN, responsePending : BOOLEAN,
   interest : {"read", "write", "none"}, idle : BOOLEAN,
   parsed : Nat, answered : Nat, owed : Nat, last : DOMAIN Request \cup {"none"}]

\* Mutant: forgets the file.
WritingText(c) == c.writeBuffer # NoResponse

Writing(c) == c.writeBuffer # NoResponse \/ c.fileTransfer > 0

\* completeHeaderLength, 0 for npos.
HeaderLength(buffer) == SelectInSeq(buffer, LAMBDA t : t \in DOMAIN Request)

\* Mutant: only a complete header is measured.
CompleteHeaderTooLarge(buffer) == HeaderLength(buffer) > MaxHeader

HeaderTooLarge(buffer) ==
  LET n == HeaderLength(buffer) IN (IF n > 0 THEN n ELSE Len(buffer)) > MaxHeader

\* The body, once the header has been parsed, is complete in the buffer.
BodyComplete(c) ==
  Len(c.readBuffer) >= c.requestBody.headerLength + c.requestBody.bodyLength

\* More than the limit has been buffered after the header.
BodyOverflow(c) == Len(c.readBuffer) > c.requestBody.headerLength + MaxBody

\* Fill the write buffer and register for EPOLLOUT.
Respond(c, id, n, keepAlive, close) ==
  [c EXCEPT !.writeBuffer = [id |-> id, n |-> n, keepAlive |-> keepAlive,
                             left |-> HeadUnits],
            !.closeAfterWrite = close,
            !.interest = "write"]

\* 400 and 413, answered by the loop itself without consuming the request.
Reject(c) ==
  LET n == c.parsed + 1
  IN  Respond([c EXCEPT !.parsed = n, !.requestBody = NoBody], c.id, n, FALSE, TRUE)

----------------------------------------------------------------------------
(* processReadBuffer, as the connection it leaves, the request it submits,   *)
(* if any, and whether it calls epoll_ctl (whose failure closes the connection *)
(* before anything is submitted).                                          *)

Outcome(c, submit, ctl) == [conn |-> c, submit |-> submit, ctl |-> ctl]

\* The request with its body is complete: take it out of the buffer.
Consume(c) ==
  [c EXCEPT !.parsed = @ + 1, !.idle = FALSE, !.requestBody = NoBody,
            !.last = c.requestBody.kind,
            !.readBuffer = SubSeq(@, c.requestBody.headerLength
                                       + c.requestBody.bodyLength + 1, Len(@))]

\* Submitted: nothing but a hang-up is watched until the response is there.
Pending(c) == [c EXCEPT !.responsePending = TRUE, !.interest = "none"]

\* Mutant: responsePending is not taken back.
RefusedStillPending(c) == Respond(c, c.id, c.parsed, FALSE, TRUE)

\* The pool refused the request after Pending: 503.
Refused(c) == Respond([c EXCEPT !.responsePending = FALSE], c.id, c.parsed, FALSE, TRUE)

\* What the task is to serve: the request with its body.
Submission(c) ==
  [kind |-> c.requestBody.kind,
   body |-> SubSeq(c.readBuffer, c.requestBody.headerLength + 1,
                   c.requestBody.headerLength + c.requestBody.bodyLength)]

\* 405, submit, or 503 if the pool does not accept the request.
ServeRequest(c, accepts) ==
  LET kind == Parsed[c.requestBody.kind]
      c1   == Consume(c)
  IN  IF ~kind.allowed
        THEN Outcome(Respond(c1, c.id, c1.parsed, kind.keepAlive, ~kind.keepAlive),
                     NoTask, TRUE)
      ELSE IF accepts
        THEN Outcome(Pending(c1), Submission(c), TRUE)
      ELSE Outcome(Refused(Pending(c1)), NoTask, TRUE)

\* A header is complete and no body is being read: parse it.
ParseHeader(c, accepts) ==
  LET length == HeaderLength(c.readBuffer)
      token  == c.readBuffer[length]
      kind   == Parsed[token]
      header == SubSeq(c.readBuffer, 1, length)
      c1     == [c EXCEPT !.requestBody =
                   [kind |-> token, headerLength |-> length,
                    bodyLength |-> IF kind.post THEN kind.bodyLength ELSE 0]]
  IN  IF ~kind.wellFormed \/ Contains(header, "b") THEN Outcome(Reject(c), NoTask, TRUE)
      ELSE IF kind.post /\ kind.bodyLength > MaxBody THEN Outcome(Reject(c), NoTask, TRUE)
      ELSE IF BodyComplete(c1) THEN ServeRequest(c1, accepts)
      ELSE Outcome(c1, NoTask, FALSE)

ProcessReadBuffer(c, accepts) ==
  IF c.requestBody = NoBody THEN ParseHeader(c, accepts)
  ELSE IF BodyComplete(c) THEN ServeRequest(c, accepts)
  ELSE Outcome(c, NoTask, FALSE)

----------------------------------------------------------------------------
(* readFromConnection and writeToConnection: what follows the bytes *)

\* After a successful recv: the limits, then what is complete.
AfterRecv(c, accepts) ==
  IF c.requestBody = NoBody
    THEN IF HeaderTooLarge(c.readBuffer) THEN Outcome(Reject(c), NoTask, TRUE)
         ELSE IF HeaderLength(c.readBuffer) # 0 THEN ProcessReadBuffer(c, accepts)
         ELSE Outcome(c, NoTask, FALSE)
    ELSE IF BodyComplete(c) THEN ProcessReadBuffer(c, accepts)
         ELSE IF BodyOverflow(c) THEN Outcome(Reject(c), NoTask, TRUE)
         ELSE Outcome(c, NoTask, FALSE)

\* Mutants of NextRequest: waits for more without looking at the buffer; does
\* not go back to EPOLLIN.
NextRequestUnseen(c, accepts) == Outcome([c EXCEPT !.interest = "read"], NoTask, TRUE)

NextRequestUnwatched(c, accepts) ==
  IF HeaderLength(c.readBuffer) # 0 THEN ProcessReadBuffer(c, accepts)
                                    ELSE Outcome(c, NoTask, FALSE)

\* The whole response has been written and the connection is kept: process
\* what is already in the read buffer, or wait for more.  No run reaches the
\* branch for a body (BodyFraming) nor the header limit (less than one
\* recv is left over, ReadBufferBounded).
NextRequest(c, accepts) ==
  LET wait(d) == Outcome([d EXCEPT !.interest = "read"], NoTask, TRUE)
  IN  IF c.requestBody # NoBody
        THEN IF BodyComplete(c) THEN ProcessReadBuffer(c, accepts)
             ELSE IF BodyOverflow(c) THEN Outcome(Reject(c), NoTask, TRUE)
             ELSE wait(c)
      ELSE IF HeaderLength(c.readBuffer) # 0
        THEN LET r == ProcessReadBuffer(c, accepts)
             IN  IF r.conn.requestBody # NoBody THEN wait(r.conn) ELSE r
      ELSE IF HeaderTooLarge(c.readBuffer) THEN Outcome(Reject(c), NoTask, TRUE)
      ELSE wait(c)

----------------------------------------------------------------------------
(* A request on a worker, and its response: the completion holds what      *)
(* handleCompletionEvent reads from it.                                    *)

\* What a task is built from: the copies its lambda captures.
Job(fd, c, request) ==
  [fd |-> fd, id |-> c.id, n |-> c.parsed, kind |-> request.kind, body |-> request.body]

BuildResponse(job) ==
  LET kind == Parsed[job.kind]
  IN  [fd |-> job.fd, id |-> job.id, n |-> job.n,
       keepAlive |-> kind.keepAlive /\ ~kind.upgrade,
       closeAfterWrite |-> kind.upgrade \/ ~kind.keepAlive, file |-> kind.file]

\* Mutant: the mask is not changed.
InstallUnwatched(c, m, opened) ==
  [Respond([c EXCEPT !.responsePending = FALSE], m.id, m.n, m.keepAlive, m.closeAfterWrite)
     EXCEPT !.fileTransfer = IF opened THEN m.file ELSE 0,
            !.owed = IF opened THEN m.file ELSE 0,
            !.interest = c.interest]

\* Install the response.  open may fail, which is answered 500 with the
\* connection's fate unchanged.
Install(c, m, opened) ==
  [Respond([c EXCEPT !.responsePending = FALSE], m.id, m.n, m.keepAlive, m.closeAfterWrite)
     EXCEPT !.fileTransfer = IF opened THEN m.file ELSE 0,
            !.owed = IF opened THEN m.file ELSE 0]
=============================================================================
