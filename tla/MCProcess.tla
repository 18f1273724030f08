----------------------------- MODULE MCProcess -----------------------------
(* A small instance of Process for TLC.  Sizes have four bits and a second *)
(* is two nanoseconds, so that numbers cross every limit.                  *)
EXTENDS Process

Main == "config/server.conf"
Other == "other.conf"

DefaultValues ==
  [port |-> 5, thread_num |-> 4, root |-> "www", connection_idle_timeout_seconds |-> 3,
   max_request_body_size |-> 6, enable_directory_listing |-> TRUE, enable_tls |-> FALSE,
   cert_file |-> "cert.pem", key_file |-> "key.pem"]

Word(text) == Text(text, NotANumber)
Number(n) == Text(ToString(n), n)

Pair(key, value) == [is |-> "pair", key |-> key, value |-> value]
Blank == [is |-> "blank"]
Junk == [is |-> "junk"]

\* Zero, the limits of ports, seconds and sizes, and one more than each.
Numbers == {Number(n) : n \in {0, 1, 7, 8, 9, 10, 15, 16}} \cup {Word(""), Word("-1")}

NumberKeys == {"port", "thread_num", Timeout, BodySize}

Lines ==
  {Pair(k, v) : k \in NumberKeys, v \in Numbers}
  \cup {Pair(k, v) : k \in {"root", "cert_file", "key_file"}, v \in {Word(""), Word("site")}}
  \cup {Pair(k, v) : k \in {"enable_tls", "enable_directory_listing"},
                     v \in {Word("on"), Number(0), Word("maybe")}}
  \cup {Pair("colour", Word("red")), Blank, Junk}

Files == {<<line>> : line \in Lines}
  \cup {<<Pair("port", Number(7)), line, Pair("port", Number(8))>> :
          line \in {Blank, Junk, Pair("port", Number(0)), Pair("enable_tls", Word("yes"))}}

\* Names and values of options.
Pairs ==
  {<<Word(name), v>> : name \in {"--port", "--threads", "--timeout", "--max-body-size"},
                       v \in Numbers}
  \cup {<<Word(name), v>> : name \in {"--root", "--config"},
                            v \in {Word(""), Word("--help"), Word(Other)}}

CommandLines ==
  Pairs
  \cup {<<Word("--help")>>, <<Word("--port")>>, <<Word("--colour")>>, <<Number(1)>>}
  \cup {<<Word("--port"), Number(1), Word("--port"), v>> : v \in {Number(2), Number(16)}}
  \cup {<<Word("--help"), Word("--colour")>>, <<Word("--colour"), Word("--help")>>,
        <<Word("--threads"), Number(2), Word("--config"), Word(Other), Word("--root")>>,
        <<Word("--port"), Number(3), Word("--config"), Word(Other)>>}

Disk(file) == [path \in {Main, Other, "--help"} |->
                 IF path = Main THEN file
                 ELSE IF path = Other THEN <<Pair("port", Number(9)), Pair("root", Word("o"))>>
                 ELSE NoFile]

\* Every command line with a plain file, every file without options, and both.
Invocations ==
  {<<line, Disk(<<Pair("thread_num", Number(2))>>)>> : line \in CommandLines}
  \cup {<<<<>>, Disk(file)>> : file \in Files \cup {NoFile}}
  \cup {<<<<Word("--port"), Number(3)>>, Disk(file)>> :
          file \in {NoFile, <<Pair("port", Number(7)), Pair("root", Word("site"))>>, <<Junk>>}}
=============================================================================
