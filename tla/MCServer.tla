------------------------------ MODULE MCServer ------------------------------
(* Small instances of Server for TLC. *)
EXTENDS Server

Ask(method, target, version, lines, file) ==
  [requestLine |-> <<method, target, version>>, lines |-> lines, file |-> file]

Length(text) == [name |-> "content-length", value |-> text]
Option(list) == [name |-> "connection", value |-> list]

\* One token per branch of processReadBuffer and buildResponse.  Numbers are
\* written with the digits 0 to 2, and 8 is out of range.
AllRequests ==
  [get   |-> Ask("GET", "/api", "HTTP/1.1", <<>>, 0),
   head  |-> Ask("HEAD", "/file", "HTTP/1.1", <<>>, 2),
   last  |-> Ask("GET", "/file", "HTTP/1.1",
                 <<Option(<<"other">>), Option(<<"keep-alive", "close">>)>>, 1),
   file  |-> Ask("GET", "/file", "HTTP/1.1", <<>>, 2),
   old   |-> Ask("GET", "/api", "HTTP/1.0", <<>>, 0),
   stay  |-> Ask("GET", "/api", "HTTP/1.0", <<Option(<<"keep-alive">>)>>, 0),
   post  |-> Ask("POST", "/api", "HTTP/1.1", <<Length(<<2>>)>>, 0),
   huge  |-> Ask("POST", "/api", "HTTP/1.1", <<Length(<<1, 0>>)>>, 0),       \* 413
   over  |-> Ask("POST", "/api", "HTTP/1.1", <<Length(<<2, 2>>)>>, 0),       \* 400
   twice |-> Ask("POST", "/api", "HTTP/1.1", <<Length(<<1>>), Length(<<2>>)>>, 0),
   put   |-> Ask("PUT", "/file", "HTTP/1.1", <<>>, 0),                       \* 405
   ws    |-> Ask("GET", "/ws", "HTTP/1.1", <<Option(<<"other">>)>>, 0),      \* 101
   bad   |-> Ask("GET", "/file", "HTTP/1.1",
                 <<[name |-> "malformed", value |-> <<>>]>>, 0)]             \* 400

\* Streams of one client that reach every branch: pipelining, a body followed
\* by the next request, a header over the limit, a GET with a body, lengths
\* that contradict each other or do not fit, both versions of HTTP.
RichScripts ==
  {<<"h", "get", "post", "b", "b", "last">>,
   <<"file", "put", "h", "bad">>,
   <<"post", "b", "b", "ws">>,
   <<"h", "h", "h">>,
   <<"huge", "b">>,
   <<"get", "b", "get">>,
   <<"over", "get">>,
   <<"twice", "b", "get">>,
   <<"stay", "head", "old">>}

\* Two clients at a time, three in all.
ShortScripts == {<<"get">>}

\* Descriptors are interchangeable: sound for invariants and action properties.
FdSymmetry == Permutations(Fd)

\* One client with a large file, a body, and pipelining.
LiveScripts == {<<"file", "post", "b", "b", "get">>}
============================================================================
