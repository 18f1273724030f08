---------------------------- MODULE RequestHead ----------------------------
(***************************************************************************)
(* What the event loop takes from the head of a request: the verdict of     *)
(* HttpParser::parse, the length of the body, whether the connection is     *)
(* kept, and where Router and WebSocketHandshake send the request.          *)
(***************************************************************************)
EXTENDS Decimal

\* A request line is cut at its single spaces: a word may be empty.  Targets
\* stand for what is left of them before "?" or "#".
Method == {"GET", "HEAD", "POST", "PUT"}
Target == {"/api", "/ws", "/file"}
Version == {"HTTP/1.0", "HTTP/1.1"}
Word == Method \cup Target \cup Version \cup {"", "other"}

\* Header lines, with names and Connection options in lower case.  The value
\* of Connection is cut at its commas and trimmed.  A malformed line has no
\* colon, or something before it that is no token.
HeaderLine ==
  [name : {"connection"}, value : Seq({"close", "keep-alive", "other"})]
    \cup [name : {"content-length"}, value : Seq(Character)]
    \cup [name : {"other", "malformed"}, value : {<<>>}]

\* file: the pieces of the file the target names, if sendfile is to send it.
HeadType == [requestLine : Seq(Word), lines : Seq(HeaderLine), file : Nat]

----------------------------------------------------------------------------
WellFormedRequestLine(words) ==
  /\ Len(words) = 3
  /\ words[1] \in Method
  /\ words[2] \in Target
  /\ words[3] \in Version

NoHeader == [present |-> FALSE, value |-> <<>>]

\* Mutant: of a repeated header the first line counts.
FirstHeader(head, name, comma) ==
  FoldLeft(LAMBDA h, l : IF l.name # name \/ h.present THEN h
                         ELSE [present |-> TRUE, value |-> l.value],
           NoHeader, head.lines)

\* A header after one more line: repeated headers are joined with a comma.
WithLine(h, l, name, comma) ==
  IF l.name # name THEN h
  ELSE [present |-> TRUE,
        value   |-> IF h.present THEN h.value \o comma \o l.value ELSE l.value]

Header(head, name, comma) ==
  FoldLeft(LAMBDA h, l : WithLine(h, l, name, comma), NoHeader, head.lines)

HasHeader(head, name) == Header(head, name, <<>>).present

\* In a list that is already cut at its commas, the joining comma is gone too;
\* in a number it is a character that is no digit.
HasConnectionToken(head, token) ==
  HasHeader(head, "connection") /\ Contains(Header(head, "connection", <<>>).value, token)

ContentLength(head) ==
  IF HasHeader(head, "content-length")
    THEN ParseUnsigned(Header(head, "content-length", <<Base>>).value) ELSE 0

ShouldKeepAlive(head) ==
  /\ ~HasConnectionToken(head, "close")
  /\ head.requestLine[3] = "HTTP/1.1" \/ HasConnectionToken(head, "keep-alive")

Parses(head) ==
  /\ WellFormedRequestLine(head.requestLine)
  /\ ~HasHeader(head, "malformed")
  /\ ContentLength(head) # Invalid

\* wellFormed: HttpParser::parse accepts it.  post, bodyLength: POST with this
\* Content-Length.  allowed: an API path, GET or HEAD.  upgrade: the WebSocket
\* endpoint, answered 101 or 400.  file: what sendfile is to send.
BadRequest ==
  [wellFormed |-> FALSE, post |-> FALSE, bodyLength |-> 0, keepAlive |-> FALSE,
   allowed |-> FALSE, upgrade |-> FALSE, file |-> 0]

KindOf(head) ==
  LET method == head.requestLine[1]
      target == head.requestLine[2]
  IN  IF ~Parses(head) THEN BadRequest
      ELSE [wellFormed |-> TRUE, post |-> method = "POST",
            bodyLength |-> ContentLength(head), keepAlive |-> ShouldKeepAlive(head),
            allowed |-> target = "/api" \/ method \in {"GET", "HEAD"},
            upgrade |-> target = "/ws",
            file |-> IF method = "GET" /\ target = "/file" THEN head.file ELSE 0]

----------------------------------------------------------------------------
(* What a client asks for with its head.                                   *)

Places(head, name) == {i \in DOMAIN head.lines : head.lines[i].name = name}

\* It wants the connection to be kept.
AsksToStay(head) ==
  LET options == UNION {ToSet(head.lines[i].value) : i \in Places(head, "connection")}
  IN  /\ "close" \notin options
      /\ "HTTP/1.1" \in ToSet(head.requestLine) \/ "keep-alive" \in options

\* It announces a body of n bytes, or none, in one way only.
Announces(head, n) ==
  LET places == Places(head, "content-length")
  IN  IF places = {} THEN n = 0
      ELSE \E i \in places :
             LET text == head.lines[i].value
             IN  places = {i} /\ text # <<>> /\ Numeric(text) /\ Value(text) = n
============================================================================
