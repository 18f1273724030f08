---------------------------- MODULE MCStaticFiles ----------------------------
(* A small instance of StaticFiles for TLC: a site with a page that changes, *)
(* a directory without index.html, one with, and links that lead out.       *)
EXTENDS StaticFiles

CONSTANTS page, hidden,             \* files
          www, docs, site, leak, top, \* directories
          pipe                      \* a special file

Children ==
  (www  :> ("page" :> page @@ "docs" :> docs @@ "site" :> site @@ "leak" :> leak
              @@ "up" :> top)) @@
  (docs :> ("link" :> page @@ "out" :> top @@ "pipe" :> pipe @@ "site" :> site)) @@
  (site :> ("index.html" :> page)) @@
  (leak :> ("index.html" :> hidden)) @@
  (top  :> ("www" :> www @@ "hidden" :> hidden))

Targets ==
  {Malformed, <<"">>, <<"page">>, <<"page", "">>, <<"", "page">>, <<".", "page">>,
   <<"docs", "link">>, <<"docs", "pipe">>, <<"docs", "none">>, <<"docs", "site">>,
   <<"site", "">>, <<"leak", "">>, <<"up">>, <<"up", "hidden">>, <<"up", "none">>,
   <<"up", "www", "page">>, <<"docs", "..", "page">>}

Plain(target) ==
  [target |-> target, head |-> FALSE, range |-> <<>>, noneMatch |-> <<>>, gzip |-> FALSE]

Bytes(parts) == << <<[bytes |-> TRUE, parts |-> parts]>> >>

\* Numbers of up to two digits, of which the largest does not fit.
Texts == {<<>>, <<0>>, <<1>>, <<0, 2>>, <<2, 1>>, <<2, 2>>, <<3>>}

Ranges == {Bytes(<<first, last>>) : first, last \in Texts}

\* Another unit, no dash, two dashes, two elements, two lines.
OddRanges ==
  {<< <<[bytes |-> FALSE, parts |-> << <<0>>, <<1>> >>]>> >>,
   Bytes(<< <<1>> >>), Bytes(<< <<0>>, <<1>>, <<2>> >>),
   << <<[bytes |-> TRUE, parts |-> << <<0>>, <<0>> >>], [bytes |-> FALSE, parts |-> << <<>>, <<1>> >>]>> >>,
   Bytes(<< <<0>>, <<1>> >>) \o Bytes(<< <<1>>, <<>> >>)}

OneRange == Bytes(<< <<1>>, <<2, 1>> >>)

NoneMatches == {<<>>, << <<"own">> >>, << <<AnyTag>> >>}

Requests ==
  {Plain(t) : t \in Targets}
  \cup {[Plain(<<"page">>) EXCEPT !.range = r] : r \in Ranges \cup OddRanges}
  \cup {[Plain(t) EXCEPT !.head = h, !.range = r, !.noneMatch = n, !.gzip = g] :
          t \in {<<"page">>, <<"docs">>}, h \in BOOLEAN, r \in {<<>>, OneRange},
          n \in NoneMatches, g \in BOOLEAN}

Gzip == [n \in 0 .. 5 |-> 1 + n \div 2]
============================================================================
