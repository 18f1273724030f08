------------------------------- MODULE MCTls -------------------------------
(* Small instances of TlsConnection for TLC. *)
EXTENDS TlsConnection

Ask(method, target, lines, file) ==
  [requestLine |-> <<method, target, "HTTP/1.1">>, lines |-> lines, file |-> file]

TlsRequests ==
  [get  |-> Ask("GET", "/api", <<>>, 0),
   file |-> Ask("GET", "/file", <<>>, 4),
   last |-> Ask("GET", "/api", <<[name |-> "connection", value |-> <<"close">>]>>, 0),
   post |-> Ask("POST", "/api", <<[name |-> "content-length", value |-> <<2>>]>>, 0)]

\* Records no larger than the buffer of one read: a request in two records,
\* two requests in one, a body in a record of its own.
SmallRecords ==
  {<< <<"file">>, <<"get", "get">> >>,
   << <<"h", "post">>, <<"b", "b">>, <<"last">> >>,
   << <<"h">>, <<"get", "post">>, <<"b">>, <<"b", "file">> >>}

\* A POST whose header and body are in one record, larger than that buffer.
LargeRecord == {<< <<"h", "post", "b", "b">> >>}

\* ClientHello, the server's flight, Finished, session tickets.
Handshake == <<"recv", "send", "recv", "send">>

\* A key update that asks for one in return, and a renegotiation.
KeyUpdateAndRenegotiation == {<<"send">>, <<"send", "recv", "send">>}
NoLaterFlight == {}
============================================================================
