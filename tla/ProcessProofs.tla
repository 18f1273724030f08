---------------------------- MODULE ProcessProofs ----------------------------
(***************************************************************************)
(* Proofs about Process and Settings, for any workers, signals, requests,  *)
(* command lines and files.  Of DecimalProofs only what it proves of folds *)
(* is used.                                                                *)
(***************************************************************************)
EXTENDS Process, DecimalProofs

\* Before the shutdown eventfd exists, after the handlers are restored, and where
\* the descriptors that tasks and handlers use are open.
Before == {"main", "construct", "tls", "socket", "bind", "listen", "completionEvent"}
After  == {"destroy", "join", "ended"}
Ready  == {"SIGINT", "SIGTERM", "run", "epoll", "wait", "events", "close", "restore",
            "restoreSigterm"}

\* Tasks come from the loop only, and threads end once the pool is stopped.
TasksOK ==
  /\ tasks \in Nat
  /\ tasks > 0 \/ (\E w \in Worker : worker[w] = "busy") =>
       {"impl", "completionEvent"} \subseteq open
  /\ (\E w \in Worker : worker[w] = "ended") => stopping /\ tasks = 0
  /\ stopping => at \in {"join", "ended", "killed"}
  /\ at \in Before => tasks = 0 /\ \A w \in Worker : worker[w] \notin {"busy", "ended"}

\* The handler runs, and uses the eventfd, only while that is open.
HandlerOK ==
  /\ at \in Before \cup {"shutdownEvent", "SIGINT"} \cup After => ~signalFd /\ handlers = {}
  /\ at \in Before \cup {"shutdownEvent", "SIGINT"} => inHandler = {}
  /\ handlers # {} \/ signalFd \/ inHandler # {} => "shutdownEvent" \in open
  /\ inHandler \subseteq {w \in Worker : worker[w] \in {"idle", "busy"}}

OpenOK ==
  /\ at \in Ready \cup {"shutdownEvent"} => {"impl", "completionEvent"} \subseteq open
  /\ at \in Ready => "shutdownEvent" \in open
  /\ at \in Before \ {"main", "construct"} => "impl" \in open

PInv == worker \in [Worker -> {"none", "idle", "busy", "ended"}] /\ TasksOK /\ HandlerOK /\ OpenOK

LEMMA InitPInv == Init => PInv
BY DEF Init, PInv, TasksOK, HandlerOK, OpenOK, Before, After, Ready

LEMMA StartKeeps ==
  ASSUME PInv, ReadOptions \/ ConstructServer \/ CreateThreadFails \/ Start
  PROVE  PInv'
<1> USE DEF PInv, TasksOK, HandlerOK, OpenOK, Before, After, Ready
<1>1. CASE ReadOptions
  BY <1>1 DEF ReadOptions, signalVars, poolVars
<1>2. CASE ConstructServer
  BY <1>2 DEF ConstructServer, signalVars
<1>3. CASE InitializeTlsContext \/ CreateSocket \/ BindSocket \/ ListenSocket
             \/ CreateEventFd \/ CreateShutdownEventFd
  BY <1>3 DEF InitializeTlsContext, CreateSocket, BindSocket, ListenSocket, CreateEventFd,
              CreateShutdownEventFd, Succeeds, signalVars, poolVars
<1>4. CASE StartFails
  BY <1>4 DEF StartFails, signalVars, poolVars
<1>5. CASE HandleSigint
  BY <1>5 DEF HandleSigint, serverVars, poolVars
<1>6. CASE HandleSigterm
  BY <1>6 DEF HandleSigterm, serverVars, poolVars
<1>7. CASE HandleSigtermFails
  BY <1>7 DEF HandleSigtermFails, poolVars
<1>8. CASE Run
  BY <1>8 DEF Run, serverVars, signalVars, poolVars
<1>9. CASE CreateThreadFails
  BY <1>9 DEF CreateThreadFails, serverVars, signalVars, poolVars
<1> QED
  BY <1>1, <1>2, <1>3, <1>4, <1>5, <1>6, <1>7, <1>8, <1>9 DEF Start

LEMMA LoopKeeps ==
  ASSUME PInv, AcceptLoop
  PROVE  PInv'
<1> USE DEF PInv, TasksOK, HandlerOK, OpenOK, Before, After, Ready
<1>1. CASE EnterLoop \/ WaitReturns \/ WaitFails \/ EventsDone
  BY <1>1 DEF EnterLoop, WaitReturns, WaitFails, EventsDone, serverVars, signalVars, poolVars
<1>2. CASE WaitInterrupted
  BY <1>2 DEF WaitInterrupted, NextTurn, serverVars, signalVars, poolVars
<1>3. CASE AcceptEvent \/ HandleShutdownEvent
  <2>1. UNCHANGED <<at, serverVars, signalVars, poolVars>>
    BY <1>3 DEF AcceptEvent, HandleShutdownEvent
  <2> QED
    BY <2>1 DEF serverVars, signalVars, poolVars
<1>4. CASE RequestEvent
  BY <1>4 DEF RequestEvent, Event, serverVars, signalVars
<1>5. CASE CloseLoop
  BY <1>5 DEF CloseLoop, signalVars, poolVars
<1> QED
  BY <1>1, <1>2, <1>3, <1>4, <1>5 DEF AcceptLoop

LEMMA DestructionKeeps ==
  ASSUME PInv, Destruction
  PROVE  PInv'
<1> USE DEF PInv, TasksOK, HandlerOK, OpenOK, Before, After, Ready
<1>1. CASE RestoreSigint \/ RestoreSigterm
  BY <1>1 DEF RestoreSigint, RestoreSigterm, serverVars, poolVars
<1>2. CASE DestroyServer
  BY <1>2 DEF DestroyServer, serverVars, signalVars
<1>3. CASE Joined
  <2>1. tasks = 0 /\ inHandler = {}
    BY <1>3, ProcessAssumption DEF Joined
  <2> QED
    BY <1>3, <2>1 DEF Joined, signalVars, poolVars
<1> QED
  BY <1>1, <1>2, <1>3 DEF Destruction

LEMMA WorkerKeeps ==
  ASSUME PInv, NEW w \in Worker, WorkerStep(w)
  PROVE  PInv'
<1> USE DEF PInv, TasksOK, HandlerOK, OpenOK, Before, After, Ready
<1>1. CASE Take(w)
  BY <1>1 DEF Take, Free, serverVars, signalVars
<1>2. CASE Finish(w)
  BY <1>2 DEF Finish, Free, serverVars, signalVars
<1>3. CASE ThreadEnds(w)
  BY <1>3 DEF ThreadEnds, Free, serverVars, signalVars
<1>4. CASE HandlerWrites(w)
  BY <1>4 DEF HandlerWrites, serverVars, poolVars
<1> QED
  BY <1>1, <1>2, <1>3, <1>4 DEF WorkerStep

LEMMA SignalKeeps ==
  ASSUME PInv, Signals
  PROVE  PInv'
<1> USE DEF PInv, TasksOK, HandlerOK, OpenOK, Before, After, Ready
<1> PICK signal \in Signal : \/ Kills(signal) \/ MainCatches(signal)
                             \/ \E w \in Worker : WorkerCatches(w, signal)
  BY DEF Signals
<1>1. CASE Kills(signal)
  BY <1>1 DEF Kills, serverVars, poolVars
<1>2. CASE MainCatches(signal)
  BY <1>2 DEF MainCatches, serverVars, poolVars
<1>3. ASSUME NEW w \in Worker, WorkerCatches(w, signal)
      PROVE  PInv'
  BY <1>3 DEF WorkerCatches, serverVars, poolVars
<1> QED
  BY <1>1, <1>2, <1>3

\* Whatever the number of workers, and whenever signals come, start fails or the loop
\* ends: impl_ and its descriptors outlive every task and every signal handler.
THEOREM ImplOutlivesItsUsers == SafetySpec => []NothingTouchesClosed
<1>1. PInv /\ [Next]_vars => PInv'
  <2> SUFFICES ASSUME PInv, [Next]_vars PROVE PInv'
    OBVIOUS
  <2>1. CASE MainStep
    BY <2>1, StartKeeps, LoopKeeps, DestructionKeeps DEF MainStep
  <2>2. ASSUME NEW w \in Worker, WorkerStep(w) PROVE PInv'
    BY <2>2, WorkerKeeps
  <2>3. CASE Signals
    BY <2>3, SignalKeeps
  <2>4. CASE UNCHANGED vars
    BY <2>4 DEF vars, serverVars, signalVars, poolVars, PInv, TasksOK, HandlerOK, OpenOK
  <2> QED
    BY <2>1, <2>2, <2>3, <2>4 DEF Next, Over
<1>2. PInv => NothingTouchesClosed
  BY DEF PInv, TasksOK, HandlerOK, NothingTouchesClosed
<1> QED
  BY InitPInv, <1>1, <1>2, PTL DEF SafetySpec

----------------------------------------------------------------------------
(* Numbers and places *)

LEMMA SignedIs ==
  ASSUME NEW n \in 0 .. MaxSize
  PROVE  /\ MaxSeconds \in Nat
         /\ n <= MaxSeconds => Signed(n) = n
         /\ n > MaxSeconds => Signed(n) \in Int /\ Signed(n) < 0
<1> DEFINE m == MaxSeconds
<1>1. m \in Nat /\ MaxSize = 2 * m + 1 /\ MaxSize \in Nat
  BY SettingsAssumption DEF MaxSeconds
<1> HIDE DEF m
<1>2. Signed(n) = ((n + m + 1) % (MaxSize + 1)) - (m + 1)
  BY DEF Signed, m
<1>3. ASSUME n <= m PROVE (n + m + 1) % (MaxSize + 1) = n + m + 1
  <2> DEFINE q == n + m + 1
             w == MaxSize + 1
  <2>1. q \in 0 .. (w - 1) /\ w \in Nat \ {0}
    BY <1>1, <1>3
  <2> HIDE DEF q, w
  <2>2. q % w = q
    BY <2>1
  <2> QED BY <2>2 DEF q, w
<1>4. ASSUME n > m PROVE (n + m + 1) % (MaxSize + 1) = n - m - 1
  <2> DEFINE q == n - m - 1
             w == MaxSize + 1
  <2>1. q \in 0 .. MaxSize /\ n + m + 1 = q + w /\ w \in Nat \ {0}
    BY <1>1, <1>4
  <2>2. q \in 0 .. (w - 1)
    BY <1>1, <2>1
  <2> HIDE DEF q, w
  <2>3. (q + w) % w = q
    BY <2>1, <2>2
  <2> QED BY <2>1, <2>3 DEF q, w
<1>5. n <= m => Signed(n) = n
  BY <1>1, <1>2, <1>3
<1>6. n > m => Signed(n) \in Int /\ Signed(n) < 0
  BY <1>1, <1>2, <1>4
<1> QED BY <1>1, <1>5, <1>6 DEF m

\* Of a set of places, those up to one.
Upto(s, k) == {i \in s : i <= k}

LEMMA UptoEnds ==
  ASSUME NEW n \in Nat, NEW s, s \subseteq 1 .. n
  PROVE  Upto(s, 0) = {} /\ Upto(s, -1) = {} /\ Upto(s, n) = s
<1>1. \A i \in s : ~(i <= 0) /\ ~(i <= -1) /\ i <= n
  OBVIOUS
<1> QED BY <1>1 DEF Upto

LEMMA UptoNext ==
  ASSUME NEW n \in Nat, NEW s, s \subseteq 1 .. n, NEW k \in 1 .. n
  PROVE  /\ k \notin s => Upto(s, k) = Upto(s, k - 1)
         /\ k \in s => Upto(s, k) # {} /\ Max(Upto(s, k)) = k
<1>1. \A i \in s : i \in Nat /\ 1 <= i /\ i <= n
  OBVIOUS
<1>3. ASSUME k \notin s PROVE Upto(s, k) = Upto(s, k - 1)
  <2>1. \A i \in s : i <= k <=> i <= k - 1
    BY <1>1, <1>3
  <2> QED BY <2>1 DEF Upto
<1>4. ASSUME k \in s PROVE Upto(s, k) # {} /\ Max(Upto(s, k)) = k
  <2> DEFINE u == Upto(s, k)
  <2>0. k <= k
    OBVIOUS
  <2>1. u \subseteq 1 .. n /\ k \in u /\ \A i \in u : i <= k
    BY <1>4, <2>0 DEF Upto
  <2> HIDE DEF u
  <2>2. Max(u) \in u /\ k <= Max(u)
    BY <2>1, MaxIs
  <2>3. Max(u) <= k /\ Max(u) \in 1 .. n
    BY <2>1, <2>2
  <2>4. \A x \in 1 .. n : k <= x /\ x <= k => x = k
    OBVIOUS
  <2> QED BY <2>1, <2>2, <2>3, <2>4 DEF u
<1> QED BY <1>3, <1>4

----------------------------------------------------------------------------
(* The file *)

Assigns(file, key) == {i \in DOMAIN file : file[i].is = "pair" /\ file[i].key = key}

FileValues(file) ==
  {Defaults[k] : k \in Key} \cup {Stored(k, file[i].value) : k \in Key, i \in DOMAIN file}
FileSettings(file) == [Key -> FileValues(file)]
FileLines(file) == {file[i] : i \in DOMAIN file}
FileStep(file) == [p \in FileSettings(file) \X FileLines(file) |-> ReadLine(p[1], p[2])]

LEMMA ReadLineIs ==
  ASSUME NEW file, \A i \in DOMAIN file : GoodLine(file[i]),
         NEW config \in FileSettings(file), NEW i \in DOMAIN file
  PROVE  /\ ReadLine(config, file[i]) \in FileSettings(file)
         /\ \A key \in Key :
              ReadLine(config, file[i])[key] =
                IF i \in Assigns(file, key) THEN Stored(key, file[i].value) ELSE config[key]
<1>1. CASE file[i].is = "blank"
  BY <1>1 DEF ReadLine, Assigns
<1>2. CASE file[i].is # "blank"
  <2>1. file[i].is = "pair" /\ file[i].key \in Key
    BY <1>2 DEF GoodLine
  <2>2. ReadLine(config, file[i]) = [config EXCEPT ![file[i].key] = Stored(file[i].key, file[i].value)]
    BY <1>2 DEF ReadLine
  <2>3. Stored(file[i].key, file[i].value) \in FileValues(file)
    BY <2>1 DEF FileValues
  <2> HIDE DEF Key
  <2>4. ReadLine(config, file[i]) \in FileSettings(file)
    BY <2>1, <2>2, <2>3 DEF FileSettings
  <2>5. ASSUME NEW key \in Key
        PROVE  ReadLine(config, file[i])[key] =
                 IF i \in Assigns(file, key) THEN Stored(key, file[i].value) ELSE config[key]
    BY <2>1, <2>2 DEF FileSettings, Assigns
  <2> QED BY <2>4, <2>5
<1> QED BY <1>1, <1>2

\* The lines of a valid file are read one after the other.
LEMMA FileRuns ==
  ASSUME NEW file, file \in Seq(LineType), \A i \in DOMAIN file : GoodLine(file[i])
  PROVE  \E r : /\ Runs(r, Len(file), FileSettings(file), FileStep(file), Defaults, file)
                /\ r[Len(file)] = FoldLeft(ReadLine, Defaults, file)
<1> DEFINE D == DOMAIN file
           X == FileSettings(file)
           F == FileStep(file)
           G(it) == [s \in SUBSET D |->
                       IF s = {} THEN Defaults ELSE ReadLine(it[s \ {Max(s)}], file[Max(s)])]
           c == CHOOSE it : it = G(it)
           n == Len(file)
<1>1. FoldLeft(ReadLine, Defaults, file) = c[D]
  BY DEF FoldLeft, MapThenFoldSet
<1>2. D = 1 .. n /\ n \in Nat
  OBVIOUS
<1>3. \A i \in 1 .. n : file[i] \in FileLines(file)
  BY <1>2 DEF FileLines
<1>4. Foldable(n, X, FileLines(file), F, Defaults, file)
  <2>1. Defaults \in X
    <3>1. Defaults = [key \in Key |-> Defaults[key]]
      BY SettingsAssumption
    <3> HIDE DEF D, F, c, n
    <3> QED BY <3>1 DEF FileSettings, FileValues
  <2>2. \A p \in X \X FileLines(file) : ReadLine(p[1], p[2]) \in X
    BY ReadLineIs DEF FileLines
  <2>3. F \in [X \X FileLines(file) -> X]
    BY <2>2 DEF FileStep
  <2> HIDE DEF F, X
  <2> QED BY <1>2, <1>3, <2>1, <2>3 DEF Foldable
<1>5. PICK it \in [SUBSET D -> X] : Folds(it, D, F, Defaults, file)
  <2> HIDE DEF n, F, D, c, X
  <2>1. HasFold(1 .. n, X, F, Defaults, file)
    BY <1>4, FoldExists
  <2> QED BY <1>2, <2>1 DEF HasFold
<1>6. it = G(it)
  <2>1. ASSUME NEW s \in SUBSET D, s # {}
        PROVE  it[s] = ReadLine(it[s \ {Max(s)}], file[Max(s)])
    <3>1. Max(s) \in D
      BY <1>2, <2>1, MaxIs
    <3>2. it[s \ {Max(s)}] \in X /\ file[Max(s)] \in FileLines(file)
      BY <1>2, <1>3, <1>5, <3>1
    <3> HIDE DEF X
    <3> QED BY <1>5, <2>1, <3>2 DEF Folds, FileStep, X
  <2>2. it[{}] = Defaults
    BY <1>5 DEF Folds
  <2> HIDE DEF X
  <2> QED BY <1>5, <2>1, <2>2
<1>7. c = G(c)
  BY <1>6
<1>8. Steps(c, n, X, F, Defaults, file)
  <2> HIDE DEF c
  <2>1. c[{}] = Defaults
    BY <1>7
  <2>2. ASSUME NEW s \in SUBSET D, s # {}, c[s \ {Max(s)}] \in X
        PROVE  c[s] = F[<<c[s \ {Max(s)}], file[Max(s)]>>]
    <3>1. Max(s) \in D
      BY <1>2, <2>2, MaxIs
    <3>2. file[Max(s)] \in FileLines(file)
      BY <1>2, <1>3, <3>1
    <3>3. c[s] = ReadLine(c[s \ {Max(s)}], file[Max(s)])
      BY <1>7, <2>2
    <3> QED BY <2>2, <3>2, <3>3 DEF FileStep
  <2> QED BY <1>2, <2>1, <2>2 DEF Steps
<1>9. \E r : Runs(r, n, X, F, Defaults, file) /\ r[n] = c[1 .. n]
  <2> HIDE DEF n, F, c, D, X
  <2> QED BY <1>4, <1>8, FoldRuns
<1> HIDE DEF c
<1> QED BY <1>1, <1>2, <1>9

\* Config::load, for a valid file of any length: each setting has the value of the last line
\* about it, or its default.
THEOREM FileRead ==
  ASSUME NEW file, file \in Seq(LineType), \A i \in DOMAIN file : GoodLine(file[i]), NEW key \in Key
  PROVE  /\ Assigns(file, key) \subseteq 1 .. Len(file)
         /\ FoldLeft(ReadLine, Defaults, file)[key] =
              IF Assigns(file, key) = {} THEN Defaults[key]
              ELSE Stored(key, file[Max(Assigns(file, key))].value)
<1> DEFINE n == Len(file)
           s == Assigns(file, key)
           Latest(k) == IF Upto(s, k) = {} THEN Defaults[key]
                      ELSE Stored(key, file[Max(Upto(s, k))].value)
<1>1. n \in Nat /\ DOMAIN file = 1 .. n
  OBVIOUS
<1>2. PICK r : /\ Runs(r, n, FileSettings(file), FileStep(file), Defaults, file)
               /\ r[n] = FoldLeft(ReadLine, Defaults, file)
  BY FileRuns
<1>3. s \subseteq 1 .. n
  BY <1>1 DEF Assigns
<1> DEFINE K == {k \in 0 .. n : r[k][key] = Latest(k)}
<1>4. 0 \in K
  <2>1. r[0] = Defaults
    BY <1>2 DEF Runs
  <2>2. Upto(s, 0) = {}
    BY <1>1, <1>3, UptoEnds
  <2> QED BY <1>1, <2>1, <2>2
<1>5. ASSUME NEW k \in 1 .. n, k - 1 \in K PROVE k \in K
  <2>1. k \in 0 .. n /\ k - 1 \in 0 .. n /\ k \in DOMAIN file
    BY <1>1
  <2>2. r[k - 1] \in FileSettings(file) /\ file[k] \in FileLines(file)
    BY <1>2, <2>1 DEF Runs, FileLines
  <2>3. r[k] = ReadLine(r[k - 1], file[k])
    <3>1. r[k] = FileStep(file)[<<r[k - 1], file[k]>>]
      BY <1>2 DEF Runs
    <3> QED BY <2>2, <3>1 DEF FileStep
  <2>4. r[k][key] = IF k \in s THEN Stored(key, file[k].value) ELSE r[k - 1][key]
    <3> HIDE DEF K, n, Key
    <3> QED BY <2>1, <2>2, <2>3, ReadLineIs
  <2>5. /\ k \notin s => Upto(s, k) = Upto(s, k - 1)
        /\ k \in s => Upto(s, k) # {} /\ Max(Upto(s, k)) = k
    <3> HIDE DEF K, n, s
    <3> QED BY <1>1, <1>3, UptoNext
  <2>6. r[k - 1][key] = Latest(k - 1)
    BY <1>5
  <2> HIDE DEF s
  <2>7. r[k][key] = Latest(k)
    BY <2>4, <2>5, <2>6
  <2> QED BY <2>1, <2>7
<1>6. n \in K
  <2> HIDE DEF K, n
  <2>1. \A k \in 0 .. n : k \in K
    BY <1>1, <1>4, <1>5, SetInduction
  <2> QED BY <1>1, <2>1
<1>7. Upto(s, n) = s
  BY <1>1, <1>3, UptoEnds
<1> HIDE DEF s
<1> QED BY <1>2, <1>3, <1>6, <1>7 DEF s

----------------------------------------------------------------------------
(* The command line *)

\* Where an option is, of those that set key.
Sets(a, key) ==
  {i \in DOMAIN a : i % 2 = 1 /\ a[i].text \in DOMAIN OptionKey /\ OptionKey[a[i].text] = key}

\* A name at i and a good value after it.
GoodPair(a, i) ==
  \/ a[i].text = "--config" /\ a[i + 1].text # ""
  \/ a[i].text \in DOMAIN OptionKey /\ OptionAccepts(OptionKey[a[i].text], a[i + 1])

LEMMA OptionKeys ==
  /\ DOMAIN OptionKey = {"--port", "--root", "--threads", "--timeout", "--max-body-size"}
  /\ \A x \in DOMAIN OptionKey : OptionKey[x] \in Key
  /\ \A x, y \in DOMAIN OptionKey : OptionKey[x] = OptionKey[y] => x = y
  /\ \A x \in DOMAIN OptionKey : Kind[OptionKey[x]] = "time" <=> x = "--timeout"
  /\ OptionName = DOMAIN OptionKey \cup {"--config"}
  /\ "" \notin OptionName /\ "--help" \notin OptionName /\ "--config" \notin DOMAIN OptionKey
<1>1. /\ DOMAIN OptionKey = {"--port", "--root", "--threads", "--timeout", "--max-body-size"}
      /\ OptionKey["--port"] = "port" /\ OptionKey["--root"] = "root"
      /\ OptionKey["--threads"] = "thread_num" /\ OptionKey["--timeout"] = Timeout
      /\ OptionKey["--max-body-size"] = BodySize
  BY DEF OptionKey
<1> QED
  BY <1>1 DEF Timeout, BodySize, Key, Kind, OptionName

LEMMA WellFormedIs ==
  ASSUME NEW a
  PROVE  WellFormedLine(a) <=> /\ Len(a) % 2 = 0
                               /\ \A i \in DOMAIN a : i % 2 = 1 => GoodPair(a, i)
BY OptionKeys, Zenon DEF WellFormedLine, GoodPair, OptionAccepts

LineValues(a) == {Stored(k, a[j]) : k \in Key, j \in DOMAIN a}
LineSettings(a) == UNION {[D -> LineValues(a)] : D \in SUBSET Key}
ParsedLine(a) ==
  [outcome : {"run", "error", "help"}, awaits : {""} \cup OptionName,
   path : {DefaultPath} \cup {a[i].text : i \in DOMAIN a},
   given : LineSettings(a)]
LineWords(a) == {a[i] : i \in DOMAIN a}
LineStep(a) == [p \in ParsedLine(a) \X LineWords(a) |-> TakeArgument(p[1], p[2])]

LEMMA GivenType ==
  ASSUME NEW a, NEW given \in LineSettings(a),
         NEW key \in Key, NEW value \in LineValues(a)
  PROVE  Given(given, key, value) \in LineSettings(a)
<1> HIDE DEF Key
<1>1. PICK D \in SUBSET Key : given \in [D -> LineValues(a)]
  BY DEF LineSettings
<1>2. Given(given, key, value) \in [D \cup {key} -> LineValues(a)]
  BY <1>1 DEF Given
<1>3. D \cup {key} \in SUBSET Key
  OBVIOUS
<1> QED BY <1>2, <1>3 DEF LineSettings

LEMMA LineValuesHas ==
  ASSUME NEW a, NEW key \in Key, NEW i \in DOMAIN a
  PROVE  Stored(key, a[i]) \in LineValues(a)
BY DEF LineValues

LEMMA TakeArgumentType ==
  ASSUME NEW a, NEW o \in ParsedLine(a), NEW w \in LineWords(a)
  PROVE  TakeArgument(o, w) \in ParsedLine(a)
<1> HIDE DEF Key
<1>0. PICK i \in DOMAIN a : w = a[i]
  BY DEF LineWords
<1>1. CASE o.outcome # "run"
  BY <1>1 DEF TakeArgument
<1>2. CASE o.outcome = "run" /\ o.awaits = ""
  BY <1>2 DEF TakeArgument, ParsedLine
<1>3. CASE o.outcome = "run" /\ o.awaits = "--config"
  BY <1>0, <1>3 DEF TakeArgument, TakeValue, ParsedLine
<1>4. CASE o.outcome = "run" /\ o.awaits \in DOMAIN OptionKey
  <2> DEFINE key == OptionKey[o.awaits]
  <2>1. key \in Key /\ o.awaits # "" /\ o.awaits # "--config"
    BY <1>4, OptionKeys
  <2>2. Stored(key, w) \in LineValues(a)
    <3> HIDE DEF key
    <3>1. Stored(key, a[i]) \in LineValues(a)
      BY <2>1, LineValuesHas
    <3> QED BY <1>0, <3>1
  <2>3. TakeArgument(o, w) =
          IF OptionAccepts(key, w)
            THEN [o EXCEPT !.awaits = "", !.given = Given(@, key, Stored(key, w))]
            ELSE [o EXCEPT !.outcome = "error"]
    BY <1>4, <2>1 DEF TakeArgument, TakeValue
  <2> HIDE DEF key
  <2>4. o.given \in LineSettings(a)
    BY DEF ParsedLine
  <2>5. Given(o.given, key, Stored(key, w)) \in LineSettings(a)
    BY <2>1, <2>2, <2>4, GivenType
  <2> QED BY <2>3, <2>5 DEF ParsedLine
<1>5. o.awaits = "" \/ o.awaits = "--config" \/ o.awaits \in DOMAIN OptionKey
  BY DEF ParsedLine, OptionName
<1> QED BY <1>1, <1>2, <1>3, <1>4, <1>5

\* The arguments are taken one after the other.
LEMMA LineRuns ==
  ASSUME NEW a, a \in Seq(TextType)
  PROVE  \E r : /\ Runs(r, Len(a), ParsedLine(a), LineStep(a), NoOptions, a)
                /\ r[Len(a)] = FoldLeft(TakeArgument, NoOptions, a)
<1> DEFINE D == DOMAIN a
           X == ParsedLine(a)
           V == LineWords(a)
           F == LineStep(a)
           G(it) == [s \in SUBSET D |->
                       IF s = {} THEN NoOptions ELSE TakeArgument(it[s \ {Max(s)}], a[Max(s)])]
           c == CHOOSE it : it = G(it)
           n == Len(a)
<1>1. FoldLeft(TakeArgument, NoOptions, a) = c[D]
  BY DEF FoldLeft, MapThenFoldSet
<1>2. D = 1 .. n /\ n \in Nat
  OBVIOUS
<1>3. \A i \in D : a[i] \in V
  BY DEF LineWords
<1>4. Foldable(n, X, V, F, NoOptions, a)
  <2> HIDE DEF X, V, F, c
  <2>1. NoOptions \in X
    <3> DEFINE g == <<>>
               none == {}
    <3>1. g \in [none -> LineValues(a)]
      OBVIOUS
    <3>2. none \in SUBSET Key
      OBVIOUS
    <3> HIDE DEF g, none, Key
    <3>3. g \in UNION {[E -> LineValues(a)] : E \in SUBSET Key}
      BY <3>1, <3>2
    <3>4. NoOptions = [outcome |-> "run", awaits |-> "", path |-> DefaultPath, given |-> g]
      BY DEF NoOptions, g
    <3> QED BY <3>3, <3>4 DEF ParsedLine, LineSettings, X
  <2>2. \A p \in X \X V : TakeArgument(p[1], p[2]) \in X
    BY TakeArgumentType DEF X, V
  <2>3. F \in [X \X V -> X]
    BY <2>2 DEF LineStep, F, X, V
  <2> QED BY <1>2, <1>3, <2>1, <2>3 DEF Foldable
<1>5. PICK it \in [SUBSET D -> X] : Folds(it, D, F, NoOptions, a)
  <2> HIDE DEF n, F, D, c, X, V
  <2>1. HasFold(1 .. n, X, F, NoOptions, a)
    BY <1>4, FoldExists
  <2> QED BY <1>2, <2>1 DEF HasFold
<1>6. it = G(it)
  <2> HIDE DEF X, V, n, c
  <2>1. ASSUME NEW s \in SUBSET D, s # {}
        PROVE  it[s] = TakeArgument(it[s \ {Max(s)}], a[Max(s)])
    <3>1. Max(s) \in D
      BY <1>2, <2>1, MaxIs
    <3>2. it[s \ {Max(s)}] \in X /\ a[Max(s)] \in V
      BY <1>3, <1>5, <3>1
    <3> QED BY <1>5, <2>1, <3>2 DEF Folds, LineStep, X, V
  <2>2. it[{}] = NoOptions
    BY <1>5 DEF Folds
  <2> QED BY <1>5, <2>1, <2>2
<1>7. c = G(c)
  BY <1>6
<1>8. Steps(c, n, X, F, NoOptions, a)
  <2> HIDE DEF c, X, V
  <2>1. c[{}] = NoOptions
    BY <1>7
  <2>2. ASSUME NEW s \in SUBSET D, s # {}, c[s \ {Max(s)}] \in X
        PROVE  c[s] = F[<<c[s \ {Max(s)}], a[Max(s)]>>]
    <3>1. Max(s) \in D
      BY <1>2, <2>2, MaxIs
    <3>2. a[Max(s)] \in V
      BY <1>3, <3>1
    <3>3. c[s] = TakeArgument(c[s \ {Max(s)}], a[Max(s)])
      BY <1>7, <2>2
    <3> QED BY <2>2, <3>2, <3>3 DEF LineStep, X, V
  <2> QED BY <1>2, <2>1, <2>2 DEF Steps
<1>9. \E r : Runs(r, n, X, F, NoOptions, a) /\ r[n] = c[1 .. n]
  <2> HIDE DEF n, F, c, D, X, V
  <2> QED BY <1>4, <1>8, FoldRuns
<1> HIDE DEF c
<1> QED BY <1>1, <1>2, <1>9

\* What the pairs before k say.
PathIs(a, o, k) ==
  LET s == Upto(Positions(a, "--config"), k)
  IN  o.path = IF s = {} THEN DefaultPath ELSE a[Max(s) + 1].text

GivenAre(a, o, k) ==
  \A key \in Key :
    LET s == Upto(Sets(a, key), k)
    IN  /\ key \in DOMAIN o.given <=> s # {}
        /\ s # {} => o.given[key] = Stored(key, a[Max(s) + 1])

\* After k arguments.
ReadTo(a, o, k) ==
  /\ o.outcome = "error" => ~WellFormedLine(a)
  /\ o.outcome = "help" => Positions(a, "--help") # {}
  /\ o.outcome = "run" =>
       /\ IF k % 2 = 0 THEN o.awaits = "" ELSE o.awaits = a[k].text /\ o.awaits \in OptionName
       /\ \A i \in 1 .. k - 1 : i % 2 = 1 => GoodPair(a, i)
       /\ PathIs(a, o, k - 1) /\ GivenAre(a, o, k - 1)

LEMMA OddPlaces ==
  ASSUME NEW a, a \in Seq(TextType), NEW s, s \subseteq {i \in DOMAIN a : i % 2 = 1},
         NEW k \in 0 .. Len(a), k % 2 = 0
  PROVE  Upto(s, k) = Upto(s, k - 1)
<1>1. Len(a) \in Nat /\ s \subseteq 1 .. Len(a) /\ k \notin s
  OBVIOUS
<1> DEFINE n == Len(a)
<1> HIDE DEF n
<1>2. CASE k = 0
  <2>1. Upto(s, 0) = {} /\ Upto(s, -1) = {}
    BY <1>1, UptoEnds
  <2>2. k - 1 = -1
    BY <1>2
  <2> QED BY <1>2, <2>1, <2>2
<1>3. CASE k \in 1 .. n
  BY <1>1, <1>3, UptoNext DEF n
<1> QED BY <1>1, <1>2, <1>3 DEF n

LEMMA PlacesAreOdd ==
  ASSUME NEW a, NEW key
  PROVE  /\ \A name : Positions(a, name) \subseteq {i \in DOMAIN a : i % 2 = 1}
         /\ Sets(a, key) \subseteq {i \in DOMAIN a : i % 2 = 1}
BY DEF Positions, Sets

LEMMA Places ==
  ASSUME NEW a, a \in Seq(TextType), NEW k \in 1 .. Len(a)
  PROVE  /\ Len(a) \in Nat /\ DOMAIN a = 1 .. Len(a) /\ k \in DOMAIN a /\ k \in Nat
         /\ k % 2 \in {0, 1} /\ k - 1 \in 0 .. Len(a)
         /\ (k - 1) % 2 = 0 <=> k % 2 = 1
         /\ k % 2 = 0 => k - 1 \in 1 .. Len(a)
         /\ \A i \in 1 .. k - 1 : i = k - 1 \/ i \in 1 .. k - 1 - 1
OBVIOUS

\* A name, or something else that is no value.
LEMMA TakesName ==
  ASSUME NEW a, a \in Seq(TextType), NEW k \in 1 .. Len(a), NEW o \in ParsedLine(a),
         ReadTo(a, o, k - 1), o.outcome = "run", k % 2 = 1
  PROVE  ReadTo(a, TakeArgument(o, a[k]), k)
<1> DEFINE t == TakeArgument(o, a[k])
<1> HIDE DEF Key
<1>1. /\ k \in DOMAIN a /\ (k - 1) % 2 = 0 /\ k % 2 # 0
      /\ k - 1 \in 0 .. Len(a)
      /\ \A i \in 1 .. k - 1 : i = k - 1 \/ i \in 1 .. k - 1 - 1
  BY Places
<1>2. /\ o.awaits = ""
      /\ \A i \in 1 .. k - 1 - 1 : i % 2 = 1 => GoodPair(a, i)
      /\ PathIs(a, o, k - 1 - 1) /\ GivenAre(a, o, k - 1 - 1)
  BY <1>1 DEF ReadTo
<1>3. CASE a[k].text = "--help"
  <2>1. t = [o EXCEPT !.outcome = "help"]
    BY <1>2, <1>3 DEF TakeArgument
  <2>2. t.outcome = "help"
    BY <2>1 DEF ParsedLine
  <2>3. k \in Positions(a, "--help")
    BY <1>1, <1>3 DEF Positions
  <2> HIDE DEF t
  <2> QED BY <2>2, <2>3 DEF ReadTo, t
<1>4. CASE a[k].text \in OptionName
  <2>1. t = [o EXCEPT !.awaits = a[k].text]
    BY <1>2, <1>4, OptionKeys DEF TakeArgument
  <2>2. t.outcome = "run" /\ t.awaits = a[k].text /\ t.path = o.path /\ t.given = o.given
    BY <2>1 DEF ParsedLine
  <2>3. \A i \in 1 .. k - 1 : i % 2 = 1 => GoodPair(a, i)
    BY <1>1, <1>2
  <2>4. PathIs(a, t, k - 1)
    <3>1. Upto(Positions(a, "--config"), k - 1) = Upto(Positions(a, "--config"), k - 1 - 1)
      BY <1>1, OddPlaces, PlacesAreOdd
    <3> HIDE DEF t
    <3> QED BY <1>2, <2>2, <3>1 DEF PathIs
  <2>5. GivenAre(a, t, k - 1)
    <3>1. \A key \in Key : Upto(Sets(a, key), k - 1) = Upto(Sets(a, key), k - 1 - 1)
      BY <1>1, OddPlaces, PlacesAreOdd
    <3> HIDE DEF t
    <3> QED BY <1>2, <2>2, <3>1 DEF GivenAre
  <2> HIDE DEF t
  <2>6. ReadTo(a, t, k)
    BY <1>1, <1>4, <2>2, <2>3, <2>4, <2>5 DEF ReadTo
  <2> QED BY <2>6 DEF t
<1>5. CASE a[k].text # "--help" /\ a[k].text \notin OptionName
  <2>1. t = [o EXCEPT !.outcome = "error"]
    BY <1>2, <1>5 DEF TakeArgument
  <2>2. t.outcome = "error"
    BY <2>1 DEF ParsedLine
  <2>3. ~GoodPair(a, k)
    BY <1>5, OptionKeys DEF GoodPair
  <2>4. ~WellFormedLine(a)
    BY <1>1, <2>3, WellFormedIs
  <2> HIDE DEF t
  <2> QED BY <2>2, <2>4 DEF ReadTo, t
<1> QED BY <1>3, <1>4, <1>5

\* The value of the option before.
LEMMA TakesValue ==
  ASSUME NEW a, a \in Seq(TextType), NEW k \in 1 .. Len(a), NEW o \in ParsedLine(a),
         ReadTo(a, o, k - 1), o.outcome = "run", k % 2 = 0
  PROVE  ReadTo(a, TakeArgument(o, a[k]), k)
<1> DEFINE t == TakeArgument(o, a[k])
           j == k - 1
<1> HIDE DEF Key
<1>1. /\ k \in DOMAIN a /\ j % 2 = 1 /\ j % 2 # 0 /\ j \in DOMAIN a /\ j \in 1 .. Len(a)
      /\ \A i \in 1 .. j : i = j \/ i \in 1 .. j - 1
      /\ j + 1 = k /\ Len(a) \in Nat /\ DOMAIN a = 1 .. Len(a)
  BY Places
<1>2. /\ o.awaits = a[j].text /\ o.awaits \in OptionName /\ o.awaits # ""
      /\ \A i \in 1 .. j - 1 : i % 2 = 1 => GoodPair(a, i)
      /\ PathIs(a, o, j - 1) /\ GivenAre(a, o, j - 1)
  BY <1>1, OptionKeys DEF ReadTo
<1>3. t = TakeValue(o, a[k])
  BY <1>2 DEF TakeArgument
<1>4. ASSUME t = [o EXCEPT !.outcome = "error"], ~GoodPair(a, j)
      PROVE  ReadTo(a, t, k)
  <2>1. t.outcome = "error"
    BY <1>4 DEF ParsedLine
  <2>2. ~WellFormedLine(a)
    BY <1>1, <1>4, WellFormedIs
  <2> HIDE DEF t
  <2> QED BY <2>1, <2>2 DEF ReadTo
<1>5. ASSUME t.outcome = "run", t.awaits = "", GoodPair(a, j), PathIs(a, t, j), GivenAre(a, t, j)
      PROVE  ReadTo(a, t, k)
  <2> HIDE DEF t
  <2>1. \A i \in 1 .. j : i % 2 = 1 => GoodPair(a, i)
    BY <1>1, <1>2, <1>5
  <2> QED BY <1>5, <2>1 DEF ReadTo
<1>6. ASSUME NEW s, s \subseteq DOMAIN a
      PROVE  /\ j \notin s => Upto(s, j) = Upto(s, j - 1)
             /\ j \in s => Upto(s, j) # {} /\ Max(Upto(s, j)) = j
  <2> HIDE DEF j, t
  <2> QED BY <1>1, <1>6, UptoNext
<1>7. \A key \in Key :
        /\ j \notin Sets(a, key) => Upto(Sets(a, key), j) = Upto(Sets(a, key), j - 1)
        /\ j \in Sets(a, key) => Upto(Sets(a, key), j) # {} /\ Max(Upto(Sets(a, key), j)) = j
  <2> HIDE DEF j, t
  <2>1. \A key \in Key : Sets(a, key) \subseteq DOMAIN a
    BY DEF Sets
  <2> QED BY <1>6, <2>1
<1> DEFINE c == Positions(a, "--config")
<1>8. /\ j \notin c => Upto(c, j) = Upto(c, j - 1)
      /\ j \in c => Upto(c, j) # {} /\ Max(Upto(c, j)) = j
  <2>1. c \subseteq DOMAIN a
    BY DEF Positions
  <2> HIDE DEF j, t, c
  <2> QED BY <1>6, <2>1
<1>9. CASE o.awaits = "--config" /\ a[k].text = ""
  <2>1. t = [o EXCEPT !.outcome = "error"]
    BY <1>3, <1>9 DEF TakeValue
  <2>2. ~GoodPair(a, j)
    BY <1>1, <1>2, <1>9, OptionKeys DEF GoodPair
  <2> HIDE DEF t, j
  <2> QED BY <1>4, <2>1, <2>2 DEF t
<1>10. CASE o.awaits = "--config" /\ a[k].text # ""
  <2>1. t = [o EXCEPT !.awaits = "", !.path = a[k].text]
    BY <1>3, <1>10 DEF TakeValue
  <2>2. t.outcome = "run" /\ t.awaits = "" /\ t.path = a[k].text /\ t.given = o.given
    BY <2>1 DEF ParsedLine
  <2>3. GoodPair(a, j)
    BY <1>1, <1>2, <1>10 DEF GoodPair
  <2>4. j \in c /\ \A key \in Key : j \notin Sets(a, key)
    BY <1>1, <1>2, <1>10, OptionKeys DEF Positions, Sets
  <2>5. PathIs(a, t, j)
    <3> HIDE DEF t, j
    <3> QED BY <1>1, <1>8, <2>2, <2>4 DEF PathIs
  <2>6. GivenAre(a, t, j)
    <3> HIDE DEF t, j
    <3> QED BY <1>2, <1>7, <2>2, <2>4 DEF GivenAre
  <2> HIDE DEF t, j
  <2> QED BY <1>5, <2>2, <2>3, <2>5, <2>6 DEF t
<1>11. CASE o.awaits \in DOMAIN OptionKey /\ ~OptionAccepts(OptionKey[o.awaits], a[k])
  <2>0. o.awaits # "--config"
    BY <1>11, OptionKeys
  <2>1. t = [o EXCEPT !.outcome = "error"]
    BY <1>3, <1>11, <2>0 DEF TakeValue
  <2>2. ~GoodPair(a, j)
    BY <1>1, <1>2, <1>11, <2>0 DEF GoodPair
  <2> HIDE DEF t, j
  <2> QED BY <1>4, <2>1, <2>2 DEF t
<1>12. CASE o.awaits \in DOMAIN OptionKey /\ OptionAccepts(OptionKey[o.awaits], a[k])
  <2> DEFINE key == OptionKey[o.awaits]
             g == Given(o.given, key, Stored(key, a[k]))
  <2>0. o.awaits # "--config" /\ key \in Key
    BY <1>12, OptionKeys
  <2>1. t = [o EXCEPT !.awaits = "", !.given = g]
    BY <1>3, <1>12, <2>0 DEF TakeValue
  <2>2. t.outcome = "run" /\ t.awaits = "" /\ t.path = o.path /\ t.given = g
    <3> HIDE DEF g, t
    <3> QED BY <1>12, <2>1 DEF ParsedLine
  <2>3. GoodPair(a, j)
    BY <1>1, <1>2, <1>12 DEF GoodPair
  <2>4. j \notin c /\ \A other \in Key : j \in Sets(a, other) <=> other = key
    BY <1>1, <1>2, <1>12, <2>0 DEF Positions, Sets
  <2>5. PathIs(a, t, j)
    <3> HIDE DEF t, j, c
    <3> QED BY <1>2, <1>8, <2>2, <2>4 DEF PathIs, c
  <2>6. /\ DOMAIN g = DOMAIN o.given \cup {key} /\ g[key] = Stored(key, a[k])
        /\ \A other \in DOMAIN o.given : other # key => g[other] = o.given[other]
    <3> DEFINE v == Stored(key, a[k])
               old == o.given
    <3>1. g = Given(old, key, v)
      OBVIOUS
    <3> HIDE DEF g, key, v, old
    <3>2. /\ DOMAIN g = DOMAIN old \cup {key} /\ g[key] = v
          /\ \A other \in DOMAIN old : other # key => g[other] = old[other]
      BY <3>1 DEF Given
    <3> QED BY <3>2 DEF v, old
  <2>7. GivenAre(a, t, j)
    <3> HIDE DEF t, j, g, key
    <3>1. ASSUME NEW other \in Key
          PROVE  /\ other \in DOMAIN t.given <=> Upto(Sets(a, other), j) # {}
                 /\ Upto(Sets(a, other), j) # {} =>
                      t.given[other] = Stored(other, a[Max(Upto(Sets(a, other), j)) + 1])
      <4>1. CASE other = key
        BY <1>1, <1>7, <2>2, <2>4, <2>6, <4>1
      <4>2. CASE other # key
        <5>1. Upto(Sets(a, other), j) = Upto(Sets(a, other), j - 1)
          BY <1>7, <2>4, <4>2
        <5> QED BY <1>2, <2>2, <2>6, <4>2, <5>1 DEF GivenAre
      <4> QED BY <4>1, <4>2
    <3> QED BY <3>1 DEF GivenAre
  <2> HIDE DEF t, j, g, key
  <2> QED BY <1>5, <2>2, <2>3, <2>5, <2>7 DEF t
<1>13. o.awaits = "--config" \/ o.awaits \in DOMAIN OptionKey
  BY <1>2 DEF OptionName
<1> QED BY <1>9, <1>10, <1>11, <1>12, <1>13

LEMMA ArgumentsRead ==
  ASSUME NEW a, a \in Seq(TextType)
  PROVE  /\ FoldLeft(TakeArgument, NoOptions, a) \in ParsedLine(a)
         /\ ReadTo(a, FoldLeft(TakeArgument, NoOptions, a), Len(a))
<1> DEFINE n == Len(a)
<1>1. n \in Nat
  OBVIOUS
<1>2. PICK r : /\ Runs(r, n, ParsedLine(a), LineStep(a), NoOptions, a)
               /\ r[n] = FoldLeft(TakeArgument, NoOptions, a)
  BY LineRuns
<1> DEFINE K == {k \in 0 .. n : ReadTo(a, r[k], k)}
<1>3. 0 \in K
  <2>1. r[0] = NoOptions /\ 0 % 2 = 0 /\ 0 - 1 = -1 /\ 1 .. -1 = {}
    BY <1>2 DEF Runs
  <2>2. Upto(Positions(a, "--config"), -1) = {}
    <3>1. Positions(a, "--config") \subseteq 1 .. n
      BY DEF Positions
    <3> QED BY <1>1, <3>1, UptoEnds
  <2>3. ASSUME NEW key \in Key PROVE Upto(Sets(a, key), -1) = {}
    <3>1. Sets(a, key) \subseteq 1 .. n
      BY DEF Sets
    <3> QED BY <1>1, <3>1, UptoEnds
  <2>4. NoOptions.outcome = "run" /\ NoOptions.awaits = "" /\ NoOptions.path = DefaultPath
        /\ DOMAIN NoOptions.given = {}
    BY DEF NoOptions
  <2> HIDE DEF Key, n
  <2>5. PathIs(a, NoOptions, -1) /\ GivenAre(a, NoOptions, -1)
    BY <2>2, <2>3, <2>4 DEF PathIs, GivenAre
  <2>6. ReadTo(a, NoOptions, 0)
    BY <2>1, <2>4, <2>5 DEF ReadTo
  <2> QED BY <1>1, <2>1, <2>6
<1>4. ASSUME NEW k \in 1 .. n, k - 1 \in K PROVE k \in K
  <2>1. k - 1 \in 0 .. n /\ k \in 0 .. n /\ k \in 1 .. Len(a) /\ k % 2 \in {0, 1}
    BY <1>1
  <2>2. r[k - 1] \in ParsedLine(a) /\ ReadTo(a, r[k - 1], k - 1) /\ a[k] \in LineWords(a)
    BY <1>2, <1>4, <2>1 DEF Runs, LineWords
  <2>3. r[k] = TakeArgument(r[k - 1], a[k])
    <3>1. r[k] = LineStep(a)[<<r[k - 1], a[k]>>]
      BY <1>2 DEF Runs
    <3> QED BY <2>2, <3>1 DEF LineStep
  <2> DEFINE o == r[k - 1]
  <2> HIDE DEF K, n, o
  <2>4. CASE o.outcome # "run"
    <3>1. TakeArgument(o, a[k]) = o
      BY <2>4 DEF TakeArgument
    <3>2. ReadTo(a, o, k)
      BY <2>2, <2>4 DEF ReadTo, o
    <3> QED BY <2>1, <2>3, <3>1, <3>2 DEF K, o
  <2>5. CASE o.outcome = "run"
    <3>1. ReadTo(a, TakeArgument(o, a[k]), k)
      BY <2>1, <2>2, <2>5, TakesName, TakesValue DEF o
    <3> QED BY <2>1, <2>3, <3>1 DEF K, o
  <2> QED BY <2>4, <2>5
<1>5. n \in K
  <2> HIDE DEF K, n
  <2>1. \A k \in 0 .. n : k \in K
    BY <1>1, <1>3, <1>4, SetInduction
  <2> QED BY <1>1, <2>1
<1>6. r[n] \in ParsedLine(a)
  BY <1>1, <1>2 DEF Runs
<1> QED BY <1>2, <1>5, <1>6

\* parseCommandLineOptions, for a line of any length: an error is a line that is not well
\* formed, help was asked for, and any other line is well formed and is read for the
\* last value of each option.
THEOREM CommandLineRead ==
  ASSUME NEW a, a \in Seq(TextType), NEW o, o = ParseCommandLine(a)
  PROVE  /\ o.outcome \in {"run", "error", "help"}
         /\ o.outcome = "error" => ~WellFormedLine(a)
         /\ o.outcome = "help" => Positions(a, "--help") # {}
         /\ o.outcome = "run" =>
              /\ WellFormedLine(a)
              /\ o.path = IF Positions(a, "--config") = {} THEN DefaultPath
                          ELSE LastOf(a, "--config").text
              /\ \A key \in Key :
                   /\ key \in DOMAIN o.given <=> Sets(a, key) # {}
                   /\ Sets(a, key) # {} => o.given[key] = Stored(key, a[Max(Sets(a, key)) + 1])
<1> DEFINE p == FoldLeft(TakeArgument, NoOptions, a)
           n == Len(a)
<1>1. p \in ParsedLine(a) /\ ReadTo(a, p, n) /\ n \in Nat /\ n % 2 \in {0, 1} /\ DOMAIN a = 1 .. n
  BY ArgumentsRead
<1>2. o = IF p.outcome = "run" /\ p.awaits # "" THEN [p EXCEPT !.outcome = "error"] ELSE p
  BY DEF ParseCommandLine
<1> HIDE DEF p, n, Key
<1>3. CASE p.outcome # "run"
  BY <1>1, <1>2, <1>3 DEF ReadTo, ParsedLine
<1>4. CASE p.outcome = "run" /\ n % 2 = 1
  <2>1. p.awaits # ""
    <3>1. n % 2 # 0
      BY <1>4
    <3>2. p.awaits \in OptionName
      BY <1>1, <1>4, <3>1 DEF ReadTo
    <3>3. "" \notin OptionName
      BY OptionKeys
    <3> QED BY <3>2, <3>3
  <2>2. o.outcome = "error"
    BY <1>1, <1>2, <1>4, <2>1 DEF ParsedLine
  <2>3. ~WellFormedLine(a)
    BY <1>4, WellFormedIs DEF n
  <2> QED BY <2>2, <2>3
<1>5. CASE p.outcome = "run" /\ n % 2 = 0
  <2>1. /\ p.awaits = "" /\ o = p
        /\ \A i \in 1 .. n - 1 : i % 2 = 1 => GoodPair(a, i)
        /\ PathIs(a, p, n - 1) /\ GivenAre(a, p, n - 1)
    BY <1>1, <1>2, <1>5 DEF ReadTo
  <2>2. ASSUME NEW i \in DOMAIN a, i % 2 = 1 PROVE i \in 1 .. n - 1
    BY <1>1, <1>5, <2>2
  <2>3. WellFormedLine(a)
    BY <1>5, <2>1, <2>2, WellFormedIs DEF n
  <2>4. n \in 0 .. Len(a)
    BY <1>1 DEF n
  <2>5. ASSUME NEW s, s \subseteq {i \in DOMAIN a : i % 2 = 1} PROVE Upto(s, n - 1) = s
    <3>1. Upto(s, n) = Upto(s, n - 1)
      BY <1>5, <2>4, <2>5, OddPlaces
    <3>2. s \subseteq 1 .. n
      BY <1>1, <2>5
    <3> QED BY <1>1, <3>1, <3>2, UptoEnds
  <2>6. Upto(Positions(a, "--config"), n - 1) = Positions(a, "--config")
    BY <2>5, PlacesAreOdd
  <2>7. \A key \in Key : Upto(Sets(a, key), n - 1) = Sets(a, key)
    BY <2>5, PlacesAreOdd
  <2>8. o.path = IF Positions(a, "--config") = {} THEN DefaultPath ELSE LastOf(a, "--config").text
    BY <2>1, <2>6 DEF PathIs, LastOf
  <2>9. \A key \in Key :
          /\ key \in DOMAIN o.given <=> Sets(a, key) # {}
          /\ Sets(a, key) # {} => o.given[key] = Stored(key, a[Max(Sets(a, key)) + 1])
    BY <2>1, <2>7 DEF GivenAre
  <2> QED BY <1>5, <2>1, <2>3, <2>8, <2>9
<1> QED BY <1>1, <1>3, <1>4, <1>5

----------------------------------------------------------------------------
(* What README.md promises *)

Meant(key, v) ==
  IF Kind[key] = "flag" THEN v.text \in Yes ELSE IF Kind[key] = "text" THEN v.text ELSE v.number

\* The promise about key, and the setting with it, when v says it, and when nothing does.
SaidBy(key, promised, setting, v) ==
  Accepts(key, v) /\ promised = Meant(key, v) /\ setting = Stored(key, v)

Unsaid(key, promised, setting) == promised = Defaults[key] /\ setting = Defaults[key]

LEMMA LastAccepted ==
  ASSUME NEW a, a \in Seq(TextType), WellFormedLine(a), NEW s, s # {},
         s \subseteq {i \in DOMAIN a : i % 2 = 1}
  PROVE  /\ Max(s) \in s /\ Max(s) < Len(a) /\ GoodPair(a, Max(s))
<1>1. Len(a) \in Nat /\ DOMAIN a = 1 .. Len(a) /\ Len(a) % 2 = 0
      /\ \A i \in DOMAIN a : i % 2 = 1 => GoodPair(a, i)
  BY WellFormedIs
<1>2. Max(s) \in s
  BY <1>1, MaxIs
<1> DEFINE m == Max(s)
           n == Len(a)
<1>3. m \in 1 .. n /\ m % 2 = 1 /\ GoodPair(a, m)
  BY <1>1, <1>2
<1> HIDE DEF m, n
<1>4. m < n
  <2>1. n % 2 = 0
    BY <1>1 DEF n
  <2> QED BY <1>1, <1>3, <2>1 DEF n
<1> QED BY <1>2, <1>3, <1>4 DEF m, n

\* A setting comes from the last option about it, then the last line, then the default.
LEMMA Sources ==
  ASSUME NEW a, a \in Seq(TextType), NEW files, NEW o, o = ParseCommandLine(a), o.outcome = "run",
         files[o.path] # NoFile => files[o.path] \in Seq(LineType), NEW key \in Key
  PROVE  \/ Unsaid(key, Promised(a, files, key), Overridden(o, Load(files[o.path]))[key])
         \/ \E v : SaidBy(key, Promised(a, files, key), Overridden(o, Load(files[o.path]))[key], v)
<1> DEFINE file == files[o.path]
           promised == Promised(a, files, key)
           setting == Overridden(o, Load(file))[key]
           options == {n \in DOMAIN OptionKey : OptionKey[n] = key /\ Positions(a, n) # {}}
           lines == IF file = NoFile \/ \E i \in DOMAIN file : ~GoodLine(file[i]) THEN {}
                    ELSE {i \in DOMAIN file : file[i].is = "pair" /\ file[i].key = key}
           values == IF options # {} THEN {LastOf(a, n) : n \in options}
                     ELSE IF lines # {} THEN {file[Max(lines)].value} ELSE {}
           s == Sets(a, key)
<1> HIDE DEF Key
<1>1. /\ WellFormedLine(a)
      /\ o.path = IF Positions(a, "--config") = {} THEN DefaultPath ELSE LastOf(a, "--config").text
      /\ key \in DOMAIN o.given <=> s # {}
      /\ s # {} => o.given[key] = Stored(key, a[Max(s) + 1])
  BY CommandLineRead
<1>2. promised = IF values = {} THEN Defaults[key] ELSE Meant(key, CHOOSE v \in values : TRUE)
  BY <1>1 DEF Promised, Meant
<1>3. setting = IF s # {} THEN o.given[key] ELSE Load(file)[key]
  BY <1>1 DEF Overridden
<1>4. CASE s # {}
  <2> DEFINE m == Max(s)
             name == a[m].text
  <2>1. m \in s /\ GoodPair(a, m)
    BY <1>1, <1>4, LastAccepted, PlacesAreOdd
  <2>2. name \in DOMAIN OptionKey /\ OptionKey[name] = key /\ name # "--config"
    BY <2>1, OptionKeys DEF Sets
  <2>3. \A other \in DOMAIN OptionKey : OptionKey[other] = key => other = name
    BY <2>2, OptionKeys
  <2>4. Positions(a, name) = s
    <3> HIDE DEF m, name
    <3> QED BY <2>2, <2>3 DEF Positions, Sets
  <2>5. options = {name}
    <3> HIDE DEF m, name, s
    <3> QED BY <1>4, <2>2, <2>3, <2>4
  <2>6. LastOf(a, name) = a[m + 1]
    BY <2>4 DEF LastOf
  <2>7. values = {a[m + 1]}
    <3> HIDE DEF m, name, options
    <3> QED BY <2>5, <2>6
  <2>8. promised = Meant(key, a[m + 1])
    <3> HIDE DEF promised, values
    <3>1. values # {} /\ (CHOOSE v \in values : TRUE) = a[m + 1]
      BY <2>7
    <3> QED BY <1>2, <3>1
  <2>9. Accepts(key, a[m + 1])
    BY <2>1, <2>2 DEF GoodPair, OptionAccepts
  <2> HIDE DEF promised, setting, values, options, m, name
  <2> QED BY <1>1, <1>3, <1>4, <2>8, <2>9 DEF SaidBy, m, promised, setting
<1>5. CASE s = {}
  <2>1. options = {}
    <3>1. \A n \in DOMAIN OptionKey : OptionKey[n] = key => Positions(a, n) = s
      BY OptionKeys DEF Positions, Sets
    <3> QED BY <1>5, <3>1
  <2>2. CASE file = NoFile \/ \E i \in DOMAIN file : ~GoodLine(file[i])
    <3>1. values = {} /\ setting = Defaults[key]
      BY <1>3, <1>5, <2>1, <2>2 DEF Load
    <3> HIDE DEF promised, setting, values
    <3> QED BY <1>2, <3>1 DEF Unsaid, promised, setting
  <2>3. CASE ~(file = NoFile \/ \E i \in DOMAIN file : ~GoodLine(file[i]))
    <3> DEFINE v == file[Max(lines)].value
    <3>1. lines = Assigns(file, key)
      BY <2>3 DEF Assigns
    <3>2. /\ lines \subseteq 1 .. Len(file) /\ Len(file) \in Nat
          /\ Load(file)[key] = IF lines = {} THEN Defaults[key] ELSE Stored(key, v)
      <4>1. /\ file \in Seq(LineType) /\ \A i \in DOMAIN file : GoodLine(file[i])
            /\ Load(file) = FoldLeft(ReadLine, Defaults, file)
        BY <2>3 DEF Load
      <4>2. Len(file) \in Nat
        BY <4>1
      <4> HIDE DEF file, lines
      <4>3. /\ Assigns(file, key) \subseteq 1 .. Len(file)
            /\ FoldLeft(ReadLine, Defaults, file)[key] =
                 IF Assigns(file, key) = {} THEN Defaults[key]
                 ELSE Stored(key, file[Max(Assigns(file, key))].value)
        BY <4>1, FileRead
      <4> QED BY <3>1, <4>1, <4>2, <4>3
    <3>3. CASE lines = {}
      <4>1. values = {} /\ setting = Defaults[key]
        BY <1>3, <1>5, <2>1, <3>2, <3>3
      <4> HIDE DEF promised, setting, values
      <4> QED BY <1>2, <4>1 DEF Unsaid, promised, setting
    <3>4. CASE lines # {}
      <4>1. values = {v} /\ setting = Stored(key, v)
        BY <1>3, <1>5, <2>1, <3>2, <3>4
      <4>2. Max(lines) \in lines
        BY <3>2, <3>4, MaxIs
      <4>3. Accepts(key, v)
        BY <2>3, <3>1, <4>2 DEF Assigns, GoodLine
      <4> HIDE DEF promised, setting, values, v
      <4>4. values # {} /\ (CHOOSE x \in values : TRUE) = v
        BY <4>1
      <4> QED BY <1>2, <4>1, <4>3, <4>4 DEF SaidBy, promised, setting
    <3> QED BY <3>3, <3>4
  <2> QED BY <2>2, <2>3
<1> QED BY <1>4, <1>5

\* What the server is constructed with.
LEMMA Honoured ==
  ASSUME NEW a, a \in Seq(TextType), NEW files, NEW o, o = ParseCommandLine(a), o.outcome = "run",
         files[o.path] # NoFile => files[o.path] \in Seq(LineType),
         NEW settings, settings = Configured(o, files)
  PROVE  /\ \A key \in Key :
              LET value == Promised(a, files, key)
              IN  settings[key] = IF key = Timeout /\ value > MaxSeconds THEN Defaults[key] ELSE value
         /\ settings[Timeout] \in 1 .. MaxSeconds
<1> DEFINE over == Overridden(o, Load(files[o.path]))
<1>1. DOMAIN over = Key /\ over = [key \in Key |-> over[key]]
  BY DEF Overridden
<1>2. settings = Construct(over)
  BY DEF Configured
<1>k. /\ Timeout \in Key /\ BodySize \in Key /\ Timeout # BodySize
      /\ \A key \in Key : Kind[key] = "time" <=> key = Timeout
      /\ Kind[BodySize] = "size" /\ Kind[Timeout] = "time"
  BY DEF Timeout, BodySize, Key, Kind
<1> HIDE DEF over, Key
<1>3. /\ settings[Timeout] = IF over[Timeout] > 0 THEN over[Timeout] ELSE Defaults[Timeout]
      /\ settings[BodySize] = IF over[BodySize] > 0 THEN over[BodySize] ELSE Defaults[BodySize]
      /\ \A key \in Key : key \notin {Timeout, BodySize} => settings[key] = over[key]
  BY <1>1, <1>2, <1>k DEF Construct
<1>4. ASSUME NEW key \in Key
      PROVE  \/ Unsaid(key, Promised(a, files, key), over[key])
             \/ \E v : SaidBy(key, Promised(a, files, key), over[key], v)
  BY Sources DEF over
<1>n. /\ MaxSize \in Nat /\ MaxSeconds \in Nat
      /\ Defaults[Timeout] \in 1 .. MaxSeconds /\ Defaults[BodySize] \in 1 .. MaxSize
  BY SettingsAssumption DEF MaxSeconds
<1>5. /\ settings[Timeout] = IF Promised(a, files, Timeout) > MaxSeconds THEN Defaults[Timeout]
                             ELSE Promised(a, files, Timeout)
      /\ settings[Timeout] \in 1 .. MaxSeconds
  <2> DEFINE p == Promised(a, files, Timeout)
             t == over[Timeout]
             d == Defaults[Timeout]
  <2>1. Unsaid(Timeout, p, t) \/ \E v : SaidBy(Timeout, p, t, v)
    BY <1>4, <1>k
  <2>2. settings[Timeout] = IF t > 0 THEN t ELSE d
    BY <1>3
  <2> HIDE DEF p, t
  <2>3. CASE Unsaid(Timeout, p, t)
    BY <1>n, <2>2, <2>3 DEF Unsaid, p
  <2>4. ASSUME NEW v, SaidBy(Timeout, p, t, v)
        PROVE  settings[Timeout] = (IF p > MaxSeconds THEN d ELSE p) /\ settings[Timeout] \in 1 .. MaxSeconds
    <3>1. p \in 1 .. MaxSize /\ t = Signed(p)
      <4>1. Accepts(Timeout, v) /\ p = Meant(Timeout, v) /\ t = Stored(Timeout, v)
        BY <2>4 DEF SaidBy
      <4>2. Positive(v)
        BY <1>k, <4>1 DEF Accepts
      <4>3. p = v.number /\ t = Signed(v.number)
        BY <1>k, <4>1 DEF Meant, Stored
      <4> QED BY <4>2, <4>3 DEF Positive
    <3>2. /\ p <= MaxSeconds => t = p
          /\ p > MaxSeconds => t \in Int /\ t < 0
      BY <1>n, <3>1, SignedIs
    <3> QED BY <1>n, <2>2, <3>1, <3>2
  <2> QED BY <2>1, <2>3, <2>4 DEF p
<1>6. settings[BodySize] = Promised(a, files, BodySize)
  <2> DEFINE p == Promised(a, files, BodySize)
  <2>1. Unsaid(BodySize, p, over[BodySize]) \/ \E v : SaidBy(BodySize, p, over[BodySize], v)
    BY <1>4, <1>k
  <2> HIDE DEF p
  <2>2. CASE Unsaid(BodySize, p, over[BodySize])
    BY <1>3, <1>n, <2>2 DEF Unsaid, p
  <2>3. ASSUME NEW v, SaidBy(BodySize, p, over[BodySize], v)
        PROVE  settings[BodySize] = p
    <3>1. p \in 1 .. MaxSize /\ over[BodySize] = p
      <4>1. Accepts(BodySize, v) /\ p = Meant(BodySize, v) /\ over[BodySize] = Stored(BodySize, v)
        BY <2>3 DEF SaidBy
      <4>2. Positive(v)
        BY <1>k, <4>1 DEF Accepts
      <4>3. p = v.number /\ over[BodySize] = v.number
        BY <1>k, <4>1 DEF Meant, Stored
      <4> QED BY <4>2, <4>3 DEF Positive
    <3> QED BY <1>3, <1>n, <3>1
  <2> QED BY <2>1, <2>2, <2>3 DEF p
<1>7. ASSUME NEW key \in Key, key \notin {Timeout, BodySize}
      PROVE  settings[key] = Promised(a, files, key)
  <2> DEFINE p == Promised(a, files, key)
  <2>1. Unsaid(key, p, over[key]) \/ \E v : SaidBy(key, p, over[key], v)
    BY <1>4
  <2>2. settings[key] = over[key] /\ Kind[key] # "time"
    BY <1>3, <1>7, <1>k
  <2> HIDE DEF p
  <2>3. over[key] = p
    BY <2>1, <2>2 DEF Unsaid, SaidBy, Meant, Stored
  <2> QED BY <2>2, <2>3 DEF p
<1> QED BY <1>5, <1>6, <1>7, <1>k

\* A timeout whose nanoseconds fit is compared as it stands.
LEMMA ComparedExactly ==
  ASSUME NEW seconds \in 1 .. MaxSeconds, seconds * NanosPerSecond <= MaxSeconds,
         NEW elapsed \in 0 .. MaxSeconds
  PROVE  Expired(elapsed, seconds) <=> elapsed >= seconds * NanosPerSecond
<1> DEFINE x == seconds * NanosPerSecond
<1>1. x \in Nat
  BY SettingsAssumption
<1> HIDE DEF x
<1>2. x \in 0 .. MaxSize /\ x <= MaxSeconds
  BY <1>1, SettingsAssumption DEF MaxSeconds, x
<1>3. Signed(x) = x
  BY <1>2, SignedIs
<1> QED BY <1>3 DEF Expired, x

\* A file that main may read.
LEMMA PathRead ==
  ASSUME NEW a, a \in Seq(TextType), NEW o, o = ParseCommandLine(a), o.outcome = "run"
  PROVE  o.path \in PathsOf(a)
<1> DEFINE s == Positions(a, "--config")
<1>1. /\ WellFormedLine(a)
      /\ o.path = IF s = {} THEN DefaultPath ELSE a[Max(s) + 1].text
  BY CommandLineRead DEF LastOf
<1>2. CASE s = {}
  BY <1>1, <1>2 DEF PathsOf
<1>3. CASE s # {}
  <2>1. Max(s) \in s /\ Max(s) < Len(a) /\ GoodPair(a, Max(s))
    BY <1>1, <1>3, LastAccepted, PlacesAreOdd
  <2>2. a[Max(s)].text = "--config" /\ a[Max(s) + 1].text # ""
    BY <2>1, OptionKeys DEF Positions, GoodPair
  <2> HIDE DEF s
  <2> QED BY <1>1, <1>3, <2>1, <2>2 DEF PathsOf, s
<1> QED BY <1>2, <1>3

----------------------------------------------------------------------------
(* The life cycle and the settings *)

\* Where main is when there is no server.
Unserved == {"main", "construct", "ended", "killed"}

\* Only a good command line leads to a server, and the server has what it says.
SInv ==
  /\ \E i \in Invocation : arguments = i[1] /\ disk = i[2]
  /\ server # NoServer => Options.outcome = "run" /\ server = Configured(Options, disk)
  /\ at = "construct" => Options.outcome = "run"
  /\ at \notin Unserved => server # NoServer
  /\ at = "ended" /\ server = NoServer =>
       \/ exit = 1 /\ Options.outcome = "error"
       \/ exit = 0 /\ Options.outcome = "help"

\* What every step but the first two does to SInv's variables.
Onwards ==
  /\ UNCHANGED <<inputVars, server>>
  /\ \/ UNCHANGED <<at, exit>>
     \/ at \notin Unserved /\ at' \notin {"main", "construct"}
     \/ at' = "killed"

LEMMA StartGoesOn == Start => Onwards
BY DEF Start, InitializeTlsContext, CreateSocket, BindSocket, ListenSocket, CreateEventFd,
       CreateShutdownEventFd, Succeeds, StartFails, HandleSigint, HandleSigterm,
       HandleSigtermFails, Run, serverVars, Onwards, Unserved

LEMMA LoopGoesOn == AcceptLoop => Onwards
<1> USE DEF Onwards, Unserved, serverVars
<1>1. EnterLoop => Onwards
  BY DEF EnterLoop
<1>2. WaitInterrupted \/ WaitReturns \/ WaitFails => Onwards
  BY DEF WaitInterrupted, WaitReturns, WaitFails, NextTurn
<1>3. AcceptEvent \/ RequestEvent \/ HandleShutdownEvent => Onwards
  BY DEF AcceptEvent, RequestEvent, HandleShutdownEvent
<1>4. EventsDone \/ CloseLoop => Onwards
  BY DEF EventsDone, CloseLoop
<1> QED BY <1>1, <1>2, <1>3, <1>4 DEF AcceptLoop

LEMMA RestGoesOn ==
  CreateThreadFails \/ Destruction \/ (\E w \in Worker : WorkerStep(w)) \/ Signals => Onwards
<1> USE DEF Onwards, Unserved, serverVars
<1>1. Destruction => Onwards
  BY DEF Destruction, RestoreSigint, RestoreSigterm, DestroyServer, Joined
<1>2. ASSUME NEW w \in Worker, WorkerStep(w) PROVE Onwards
  BY <1>2 DEF WorkerStep, Take, Finish, ThreadEnds, HandlerWrites
<1>3. Signals => Onwards
  BY DEF Signals, Kills, MainCatches, WorkerCatches
<1>4. CreateThreadFails => Onwards
  BY DEF CreateThreadFails
<1> QED BY <1>1, <1>2, <1>3, <1>4

LEMMA OnwardsKeeps ==
  ASSUME SInv, Onwards
  PROVE  SInv'
<1>1. arguments' = arguments /\ disk' = disk /\ server' = server
  BY DEF Onwards, inputVars
<1>2. Options' = Options /\ Configured(Options, disk)' = Configured(Options, disk)
  BY <1>1 DEF Options
<1> QED BY <1>1, <1>2 DEF SInv, Onwards, Unserved

LEMMA InvocationIs ==
  ASSUME SInv
  PROVE  /\ arguments \in Seq(TextType)
         /\ \A path \in PathsOf(arguments) : disk[path] # NoFile => disk[path] \in Seq(LineType)
         /\ Options.outcome = "run" => Configured(Options, disk) # NoServer
         /\ Options.outcome \in {"run", "error", "help"}
<1>1. PICK i \in Invocation : arguments = i[1] /\ disk = i[2]
  BY DEF SInv
<1>2. /\ i[1] \in Seq(TextType)
      /\ \A path \in PathsOf(i[1]) : i[2][path] # NoFile => i[2][path] \in Seq(LineType)
      /\ ParseCommandLine(i[1]).outcome = "run" =>
           Configured(ParseCommandLine(i[1]), i[2]) # NoServer
  BY ProcessAssumption
<1>3. Options = ParseCommandLine(arguments)
  BY DEF Options
<1> QED BY <1>1, <1>2, <1>3, CommandLineRead

LEMMA SInvHonours == SInv => SettingsHonoured
<1> SUFFICES ASSUME SInv PROVE SettingsHonoured
  OBVIOUS
<1>1. /\ arguments \in Seq(TextType) /\ Options = ParseCommandLine(arguments)
      /\ \A path \in PathsOf(arguments) : disk[path] # NoFile => disk[path] \in Seq(LineType)
  BY InvocationIs DEF Options
<1>2. ASSUME server # NoServer
      PROVE  /\ WellFormedLine(arguments)
             /\ \A key \in Key :
                  LET value == Promised(arguments, disk, key)
                  IN  server[key] = IF key = Timeout /\ value > MaxSeconds THEN Defaults[key] ELSE value
             /\ server[Timeout] * NanosPerSecond <= MaxSeconds =>
                  \A elapsed \in 0 .. MaxSeconds :
                    Expired(elapsed, server[Timeout]) <=> elapsed >= server[Timeout] * NanosPerSecond
  <2>1. Options.outcome = "run" /\ server = Configured(Options, disk)
    BY <1>2 DEF SInv
  <2>2. WellFormedLine(arguments)
    BY <1>1, <2>1, CommandLineRead
  <2>3. disk[Options.path] # NoFile => disk[Options.path] \in Seq(LineType)
    BY <1>1, <2>1, PathRead
  <2>4. /\ \A key \in Key :
             LET value == Promised(arguments, disk, key)
             IN  server[key] = IF key = Timeout /\ value > MaxSeconds THEN Defaults[key] ELSE value
        /\ server[Timeout] \in 1 .. MaxSeconds
    BY <1>1, <2>1, <2>3, Honoured
  <2> QED BY <2>2, <2>4, ComparedExactly
<1>3. ASSUME at = "ended", server = NoServer
      PROVE  IF exit = 1 THEN ~WellFormedLine(arguments) ELSE Positions(arguments, "--help") # {}
  BY <1>1, <1>3, CommandLineRead DEF SInv
<1> QED BY <1>2, <1>3 DEF SettingsHonoured

\* For any command line and files: a server runs with what README.md promises of them, or
\* there is none because the line is bad or asks for help.
THEOREM SettingsKept == SafetySpec => []SettingsHonoured
<1>1. Init => SInv
  BY DEF Init, SInv, Unserved
<1>2. SInv /\ [Next]_vars => SInv'
  <2> SUFFICES ASSUME SInv, [Next]_vars PROVE SInv'
    OBVIOUS
  <2>1. CASE ReadOptions
    <3>1. arguments' = arguments /\ disk' = disk /\ server' = server
      BY <2>1 DEF ReadOptions, inputVars
    <3>2. Options' = Options /\ Configured(Options, disk)' = Configured(Options, disk)
      BY <3>1 DEF Options
    <3> QED BY <2>1, <3>1, <3>2 DEF ReadOptions, SInv, Unserved
  <2>2. CASE ConstructServer
    <3>1. arguments' = arguments /\ disk' = disk /\ server' = Configured(Options, disk)
      BY <2>2 DEF ConstructServer, inputVars
    <3>2. Options' = Options /\ Configured(Options, disk)' = Configured(Options, disk)
      BY <3>1 DEF Options
    <3>3. Options.outcome = "run" /\ Configured(Options, disk) # NoServer
      BY <2>2, InvocationIs DEF ConstructServer, SInv
    <3>4. at' \in {"tls", "socket"}
      BY <2>2 DEF ConstructServer
    <3> QED BY <3>1, <3>2, <3>3, <3>4 DEF SInv, Unserved
  <2>3. CASE Start \/ AcceptLoop \/ CreateThreadFails \/ Destruction
               \/ (\E w \in Worker : WorkerStep(w)) \/ Signals
    BY <2>3, StartGoesOn, LoopGoesOn, RestGoesOn, OnwardsKeeps
  <2>4. CASE UNCHANGED vars
    <3>1. Onwards
      BY <2>4 DEF vars, serverVars, Onwards
    <3> QED BY <3>1, OnwardsKeeps
  <2> QED
    BY <2>1, <2>2, <2>3, <2>4 DEF Next, MainStep, Over
<1> QED
  BY <1>1, <1>2, SInvHonours, PTL DEF SafetySpec
=============================================================================
