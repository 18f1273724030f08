------------------------------ MODULE Settings ------------------------------
(***************************************************************************)
(* From the command line and the configuration file to what the server is  *)
(* constructed with: parseCommandLineOptions, Config, the overrides and    *)
(* the corrections in Server's constructor.                                *)
(*                                                                         *)
(* A text is what the code looks at: the text itself and, if it consists   *)
(* of digits, the number they make.  A line of a file is blank (comments   *)
(* are), a pair of key and value, or neither ("junk").                     *)
(***************************************************************************)
EXTENDS Integers, SequencesExt

CONSTANTS
  MaxPort,  \* the largest unsigned short
  MaxSize,  \* the largest size_t, which is the largest unsigned long long
  NanosPerSecond,
  Defaults, \* [Key -> value]
  DefaultPath,
  NoFile    \* in place of a file's lines

NotANumber == -1

Text(text, number) == [text |-> text, number |-> number]

TextType == [text : STRING, number : Nat \cup {NotANumber}]
LineType ==
  [is : {"blank", "junk"}] \cup [is : {"pair"}, key : STRING, value : TextType]

Kind ==
  [port |-> "port", thread_num |-> "size", root |-> "text",
   connection_idle_timeout_seconds |-> "time", max_request_body_size |-> "size",
   enable_directory_listing |-> "flag", enable_tls |-> "flag",
   cert_file |-> "text", key_file |-> "text"]

Key == DOMAIN Kind

Timeout == "connection_idle_timeout_seconds"
BodySize == "max_request_body_size"

ASSUME SettingsAssumption ==
  /\ MaxPort \in Nat /\ MaxSize \in Nat /\ NanosPerSecond \in Nat \ {0}
  /\ MaxPort <= MaxSize /\ MaxSize % 2 = 1
  /\ Defaults = [key \in Key |-> Defaults[key]]
  /\ Defaults[Timeout] \in 1 .. (MaxSize \div 2) /\ Defaults[BodySize] \in 1 .. MaxSize

----------------------------------------------------------------------------
(* Values *)

\* The largest number of seconds, and of nanoseconds: as wide as size_t, but signed.
MaxSeconds == MaxSize \div 2

\* A number stored in such a type.
Signed(n) == ((n + MaxSeconds + 1) % (MaxSize + 1)) - (MaxSeconds + 1)

Yes == {"true", "1", "yes", "on"}
No  == {"false", "0", "no", "off"}

\* parseUnsigned, and not zero.
Positive(v) == v.number \in 1 .. MaxSize

Accepts(key, v) ==
  \/ Kind[key] \in {"size", "time"} /\ Positive(v)
  \/ Kind[key] = "port" /\ Positive(v) /\ v.number <= MaxPort
  \/ Kind[key] = "text" /\ v.text # ""
  \/ Kind[key] = "flag" /\ v.text \in Yes \cup No

Stored(key, v) ==
  IF Kind[key] = "flag" THEN v.text \in Yes
  ELSE IF Kind[key] = "text" THEN v.text
  ELSE IF Kind[key] = "time" THEN Signed(v.number)
  ELSE v.number

----------------------------------------------------------------------------
(* The configuration file *)

GoodLine(line) ==
  \/ line.is = "blank"
  \/ line.is = "pair" /\ line.key \in Key /\ Accepts(line.key, line.value)

ReadLine(config, line) ==
  IF line.is = "blank" THEN config
                       ELSE [config EXCEPT ![line.key] = Stored(line.key, line.value)]

\* Mutant: keeps what was read before a bad line.
LoadUpTo(file) ==
  IF file = NoFile THEN Defaults
  ELSE LET bad == {i \in DOMAIN file : ~GoodLine(file[i])}
           n   == IF bad = {} THEN Len(file) ELSE Min(bad) - 1
       IN  FoldLeft(ReadLine, Defaults, SubSeq(file, 1, n))

\* One bad line, and nothing of the file counts.
Load(file) ==
  IF file = NoFile \/ \E i \in DOMAIN file : ~GoodLine(file[i])
    THEN Defaults
    ELSE FoldLeft(ReadLine, Defaults, file)

----------------------------------------------------------------------------
(* The command line *)

OptionKey ==
  [name \in {"--port", "--root", "--threads", "--timeout", "--max-body-size"} |->
     CASE name = "--port"          -> "port"
       [] name = "--root"          -> "root"
       [] name = "--threads"       -> "thread_num"
       [] name = "--timeout"       -> Timeout
       [] name = "--max-body-size" -> BodySize]

OptionName == DOMAIN OptionKey \cup {"--config"}

\* Only here is a timeout too large for std::chrono::seconds refused.
OptionAccepts(key, v) == Accepts(key, v) /\ (Kind[key] = "time" => v.number <= MaxSeconds)

\* awaits is the option whose value comes next.
NoOptions == [outcome |-> "run", awaits |-> "", path |-> DefaultPath, given |-> <<>>]

\* The options so far, and one more.
Given(given, key, value) ==
  [k \in DOMAIN given \cup {key} |-> IF k = key THEN value ELSE given[k]]

TakeValue(o, v) ==
  IF o.awaits = "--config"
    THEN IF v.text = "" THEN [o EXCEPT !.outcome = "error"]
                        ELSE [o EXCEPT !.awaits = "", !.path = v.text]
  ELSE LET key == OptionKey[o.awaits]
       IN  IF OptionAccepts(key, v)
             THEN [o EXCEPT !.awaits = "", !.given = Given(@, key, Stored(key, v))]
             ELSE [o EXCEPT !.outcome = "error"]

\* The rest of the line is not looked at after --help or an error.
TakeArgument(o, argument) ==
  IF o.outcome # "run" THEN o
  ELSE IF o.awaits # "" THEN TakeValue(o, argument)
  ELSE IF argument.text = "--help" THEN [o EXCEPT !.outcome = "help"]
  ELSE IF argument.text \in OptionName THEN [o EXCEPT !.awaits = argument.text]
  ELSE [o EXCEPT !.outcome = "error"]

ParseCommandLine(arguments) ==
  LET o == FoldLeft(TakeArgument, NoOptions, arguments)
  IN  IF o.outcome = "run" /\ o.awaits # "" THEN [o EXCEPT !.outcome = "error"] ELSE o

----------------------------------------------------------------------------
(* The server *)

Overridden(o, config) ==
  [key \in Key |-> IF key \in DOMAIN o.given THEN o.given[key] ELSE config[key]]

Construct(config) ==
  [config EXCEPT ![Timeout]  = IF @ > 0 THEN @ ELSE Defaults[Timeout],
                 ![BodySize] = IF @ > 0 THEN @ ELSE Defaults[BodySize]]

Configured(o, files) == Construct(Overridden(o, Load(files[o.path])))

\* closeIdleConnections compares in nanoseconds.
Expired(elapsed, seconds) == elapsed >= Signed(seconds * NanosPerSecond)

----------------------------------------------------------------------------
(* What README.md promises of the settings *)

Positions(arguments, name) == {i \in DOMAIN arguments : i % 2 = 1 /\ arguments[i].text = name}

\* The files a command line may name.
PathsOf(arguments) ==
  {DefaultPath} \cup {arguments[i + 1].text : i \in {j \in Positions(arguments, "--config") :
                                                   j < Len(arguments) /\ arguments[j + 1].text # ""}}

\* A command line that sets something, every option with a good value.
WellFormedLine(arguments) ==
  /\ Len(arguments) % 2 = 0
  /\ \A i \in DOMAIN arguments : i % 2 = 1 =>
       LET name == arguments[i].text
           v    == arguments[i + 1]
       IN  \/ name = "--config" /\ v.text # ""
           \/ /\ name \in DOMAIN OptionKey
              /\ Accepts(OptionKey[name], v)
              /\ name = "--timeout" => v.number <= MaxSeconds

\* The last value of an option.
LastOf(arguments, name) == arguments[Max(Positions(arguments, name)) + 1]

\* The command line, then the file if it exists and is valid, then the default.
Promised(arguments, disk, key) ==
  LET file    == disk[IF Positions(arguments, "--config") = {} THEN DefaultPath
                      ELSE LastOf(arguments, "--config").text]
      options == {n \in DOMAIN OptionKey :
                    OptionKey[n] = key /\ Positions(arguments, n) # {}}
      lines   == IF file = NoFile \/ \E i \in DOMAIN file : ~GoodLine(file[i]) THEN {}
                 ELSE {i \in DOMAIN file : file[i].is = "pair" /\ file[i].key = key}
      values  == IF options # {} THEN {LastOf(arguments, n) : n \in options}
                 ELSE IF lines # {} THEN {file[Max(lines)].value} ELSE {}
      Means(v) == IF Kind[key] = "flag" THEN v.text \in Yes
                  ELSE IF Kind[key] = "text" THEN v.text
                  ELSE v.number
  IN  IF values = {} THEN Defaults[key] ELSE Means(CHOOSE v \in values : TRUE)
=============================================================================
