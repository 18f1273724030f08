----------------------------- MODULE FileCache -----------------------------
(***************************************************************************)
(* The cache of small files, and the part of StaticFileHandler::handle     *)
(* that uses it.  Workers look at a file's size and at its modification    *)
(* time in two system calls without any lock, and hand both to get, which  *)
(* decides under mutex_ whether the entry is still good and otherwise      *)
(* reads the file, as it is by then.  Meanwhile files are written, replaced *)
(* and deleted.                                                            *)
(*                                                                         *)
(* The content of a file is known by the time of the write that left it:   *)
(* two writes in one tick of the file system's clock are not told apart.   *)
(* The content type is a function of the path, so that get never finds it  *)
(* changed.  A file is read at one instant.                                *)
(***************************************************************************)
EXTENDS Integers, SequencesExt

CONSTANTS
  Worker,               \* threads of the pool
  Path,                 \* files
  Changing,             \* those that are written and deleted meanwhile
  FileSize,             \* sizes they may have
  MaxCacheableFileSize, \* maxCacheableFileSize_
  MaxCapacity,          \* maxCapacity_
  MaxTime,              \* bound of the model: ticks of the clock
  Gone, NoPath          \* absent values

ASSUME FileCacheAssumption ==
  /\ FileSize \subseteq Nat /\ Changing \subseteq Path
  /\ MaxCacheableFileSize \in Nat /\ MaxCapacity \in Nat /\ MaxTime \in Nat
  /\ Gone \notin Nat
  /\ NoPath \notin Path

VARIABLES
  disk,         \* disk[p]: size, or Gone, and modification time of the file
  now,          \* the file system's clock
  entries,      \* entries_: [cached paths -> size, mtime, content]
  lru,          \* lru_, most recently used first
  currentSize,  \* currentSize_
  worker,       \* worker[w]: where its call of handle is, see WorkerState
  recent        \* history: the paths get returned, most recent first

fileVars == <<disk, now>>
cacheVars == <<entries, lru, currentSize, recent>>
vars == <<fileVars, cacheVars, worker>>

\* path, size, mtime: the local variables of handle.  content: of what get
\* returned.
WorkerState ==
  [at : {"idle", "sized", "checked", "served"}, path : Path \cup {NoPath},
   size : Nat, mtime : Nat, content : Nat]

Idle == [at |-> "idle", path |-> NoPath, size |-> 0, mtime |-> 0, content |-> 0]

Cached == DOMAIN entries

Init ==
  /\ disk \in [Path -> [size : FileSize, mtime : {0}]]
  /\ now = 0
  /\ entries = <<>>
  /\ lru = <<>>
  /\ currentSize = 0
  /\ worker = [w \in Worker |-> Idle]
  /\ recent = <<>>

----------------------------------------------------------------------------
(* The files.  The clock is coarse: it need not advance between writes.    *)

Tick ==
  /\ now < MaxTime
  /\ now' = now + 1
  /\ UNCHANGED <<disk, cacheVars, worker>>

Write(p, size) ==
  /\ disk' = [disk EXCEPT ![p] = [size |-> size, mtime |-> now]]
  /\ UNCHANGED <<now, cacheVars, worker>>

Delete(p) ==
  /\ disk' = [disk EXCEPT ![p].size = Gone]
  /\ UNCHANGED <<now, cacheVars, worker>>

----------------------------------------------------------------------------
(* StaticFileHandler::handle, up to the cache.  A file that is gone by then *)
(* is answered 404 or 500 without a look at the cache.                     *)

StatSize(w, p) ==
  /\ worker[w].at = "idle"
  /\ disk[p].size # Gone
  /\ worker' = [worker EXCEPT ![w] = [Idle EXCEPT !.at = "sized", !.path = p,
                                                  !.size = disk[p].size]]
  /\ UNCHANGED <<fileVars, cacheVars>>

StatTime(w) ==
  /\ worker[w].at = "sized"
  /\ LET file == disk[worker[w].path]
     IN  worker' = [worker EXCEPT ![w] =
           IF file.size = Gone THEN Idle
           ELSE [@ EXCEPT !.at = "checked", !.mtime = file.mtime]]
  /\ UNCHANGED <<fileVars, cacheVars>>

\* 304 and 416 need only the size and the time.
AnswerFromStat(w) ==
  /\ worker[w].at = "checked"
  /\ worker' = [worker EXCEPT ![w] = Idle]
  /\ UNCHANGED <<fileVars, cacheVars>>

CanCache(size) == size < MaxCacheableFileSize /\ size <= MaxCapacity

----------------------------------------------------------------------------
(* The cache, as records of its three variables                            *)

Cache == [entries |-> entries, lru |-> lru, size |-> currentSize]

\* Mutant: forgets the size.
EraseUncounted(c, p) ==
  IF p \in DOMAIN c.entries
    THEN [entries |-> [q \in DOMAIN c.entries \ {p} |-> c.entries[q]],
          lru     |-> RemoveFirst(c.lru, p),
          size    |-> c.size]
    ELSE c

\* remove, and erase of an entry that is there.
Erase(c, p) ==
  IF p \in DOMAIN c.entries
    THEN [entries |-> [q \in DOMAIN c.entries \ {p} |-> c.entries[q]],
          lru     |-> RemoveFirst(c.lru, p),
          size    |-> c.size - c.entries[p].size]
    ELSE c

\* The bytes of the entries of lru after the first n.
BytesAfter(c, n) ==
  SumFunction([i \in (n + 1) .. Len(c.lru) |-> c.entries[c.lru[i]].size])

\* The loop of evictUntilFits stops with the first n paths of lru left.
Fits(c, n, needed) == c.size - BytesAfter(c, n) + needed <= MaxCapacity

\* Mutant: evicts from the front of lru.
EvictNewest(c, needed) ==
  LET drop == CHOOSE n \in 0 .. Len(c.lru) :
                /\ n = Len(c.lru) \/ BytesAfter(c, n) + needed <= MaxCapacity
                /\ \A m \in 0 .. (n - 1) : BytesAfter(c, m) + needed > MaxCapacity
      first == ToSet(SubSeq(c.lru, 1, drop))
  IN  [entries |-> [p \in DOMAIN c.entries \ first |-> c.entries[p]],
       lru     |-> SubSeq(c.lru, drop + 1, Len(c.lru)),
       size    |-> BytesAfter(c, drop)]

\* evictUntilFits
EvictUntilFits(c, needed) ==
  LET keep == CHOOSE n \in 0 .. Len(c.lru) :
                /\ n = 0 \/ Fits(c, n, needed)
                /\ \A m \in (n + 1) .. Len(c.lru) : ~Fits(c, m, needed)
      last == ToSet(SubSeq(c.lru, keep + 1, Len(c.lru)))
  IN  [entries |-> [p \in DOMAIN c.entries \ last |-> c.entries[p]],
       lru     |-> SubSeq(c.lru, 1, keep),
       size    |-> c.size - BytesAfter(c, keep)]

\* Mutant: forgets to count the new entry.
StoreUncounted(c, p, entry) ==
  LET d == EvictUntilFits(c, entry.size)
  IN  [entries |-> [q \in DOMAIN d.entries \cup {p} |->
                      IF q = p THEN entry ELSE d.entries[q]],
       lru     |-> <<p>> \o d.lru,
       size    |-> d.size]

\* The end of get: room is made, and the entry goes to the front.
Store(c, p, entry) ==
  LET d == EvictUntilFits(c, entry.size)
  IN  [entries |-> [q \in DOMAIN d.entries \cup {p} |->
                      IF q = p THEN entry ELSE d.entries[q]],
       lru     |-> <<p>> \o d.lru,
       size    |-> d.size + entry.size]

Touch(seq, p) == <<p>> \o RemoveFirst(seq, p)

Become(c) == entries' = c.entries /\ lru' = c.lru /\ currentSize' = c.size

----------------------------------------------------------------------------
(* get, under mutex_, called with what the worker found out; and remove.   *)

\* Mutant: the time is not compared.
MatchesSize(w) ==
  /\ worker[w].path \in Cached
  /\ entries[worker[w].path].size = worker[w].size

Matches(w) ==
  /\ worker[w].path \in Cached
  /\ entries[worker[w].path].size = worker[w].size
  /\ entries[worker[w].path].mtime = worker[w].mtime

\* The worker is about to call get, which finds a good entry or does not.
Gets(w, hit) ==
  /\ worker[w].at = "checked"
  /\ CanCache(worker[w].size)
  /\ Matches(w) = hit

Serve(w, content) ==
  worker' = [worker EXCEPT ![w] = [@ EXCEPT !.at = "served", !.content = content]]

Hit(w) ==
  /\ Gets(w, TRUE)
  /\ lru' = Touch(lru, worker[w].path)
  /\ recent' = <<worker[w].path>> \o RemoveFirst(recent, worker[w].path)
  /\ Serve(w, entries[worker[w].path].content)
  /\ UNCHANGED <<fileVars, entries, currentSize>>

\* readFile finds at least the bytes the worker was told of; if the file has
\* grown it takes the first of them.
Readable(w) ==
  LET file == disk[worker[w].path]
  IN  file.size # Gone /\ file.size >= worker[w].size

\* A stale entry is dropped, then the file is read and stored under the size
\* and the time that the worker found, which may be older than what was read.
Load(w) ==
  /\ Gets(w, FALSE)
  /\ Readable(w)
  /\ LET p     == worker[w].path
         entry == [size |-> worker[w].size, mtime |-> worker[w].mtime,
                   content |-> disk[p].mtime]
     IN  /\ Become(Store(Erase(Cache, p), p, entry))
         /\ recent' = <<p>> \o RemoveFirst(recent, p)
         /\ Serve(w, entry.content)
  /\ UNCHANGED fileVars

\* The file is gone or has become shorter: 500, and the stale entry is dropped.
LoadFails(w) ==
  /\ Gets(w, FALSE)
  /\ ~Readable(w)
  /\ Become(Erase(Cache, worker[w].path))
  /\ worker' = [worker EXCEPT ![w] = Idle]
  /\ UNCHANGED <<fileVars, recent>>

\* Too large: any entry is removed, and the event loop will send the file.
Bypass(w) ==
  /\ worker[w].at = "checked"
  /\ ~CanCache(worker[w].size)
  /\ Become(Erase(Cache, worker[w].path))
  /\ worker' = [worker EXCEPT ![w] = Idle]
  /\ UNCHANGED <<fileVars, recent>>

\* The response is built from the content get returned.
Reply(w) ==
  /\ worker[w].at = "served"
  /\ worker' = [worker EXCEPT ![w] = Idle]
  /\ UNCHANGED <<fileVars, cacheVars>>

----------------------------------------------------------------------------

WorkerStep(w) ==
  \/ \E p \in Path : StatSize(w, p)
  \/ StatTime(w)
  \/ AnswerFromStat(w)
  \/ Hit(w)
  \/ Load(w)
  \/ LoadFails(w)
  \/ Bypass(w)
  \/ Reply(w)

Next ==
  \/ Tick
  \/ \E p \in Changing : Delete(p) \/ \E size \in FileSize : Write(p, size)
  \/ \E w \in Worker : WorkerStep(w)

Spec == Init /\ [][Next]_vars

----------------------------------------------------------------------------
(* Properties *)

File == [size : FileSize \cup {Gone}, mtime : Nat]
Entry == [size : Nat, mtime : Nat, content : Nat]

\* Every variable stays in its type; only paths are cached, and
\* currentSize_ never wraps below zero.
TypeOK ==
  /\ disk \in [Path -> File]
  /\ now \in Nat
  /\ Cached \subseteq Path
  /\ \A p \in Cached : entries[p] \in Entry
  /\ lru \in Seq(Path)
  /\ currentSize \in Nat
  /\ worker \in [Worker -> WorkerState]
  /\ \A w \in Worker : worker[w].at # "idle" => worker[w].path \in Path

\* currentSize_ is the sum of what is cached and never more than the
\* capacity, and lru_ lists every entry once: the unsigned subtraction in erase
\* cannot wrap, and eviction always finds what it looks for.
Accounted ==
  /\ currentSize = SumFunction([p \in Cached |-> entries[p].size])
  /\ currentSize <= MaxCapacity
  /\ IsInjective(lru) /\ ToSet(lru) = Cached

\* What a request is served is at least as recent as the modification time it
\* asked for: whatever writes fall between its two looks at the file, get and
\* the other workers' calls, it is never given an older entry.  (The response's
\* ETag is made of that time.)
NeverStale ==
  \A w \in Worker : worker[w].at = "served" => worker[w].content >= worker[w].mtime

\* A call that stores an entry evicts others only if the capacity forces it,
\* and then those that were returned least recently; any other call evicts
\* nothing but its own path.
EvictsOldestWhenFull ==
  [][\A w \in Worker :
       worker[w].at = "checked" /\ worker'[w].at # "checked" =>
         LET p    == worker[w].path
             kept == (Cached \cap DOMAIN entries') \ {p}
             gone == Cached \ (DOMAIN entries' \cup {p})
         IN  /\ \A r \in kept, q \in gone :
                  \E i, j \in DOMAIN recent : i < j /\ recent[i] = r /\ recent[j] = q
             /\ gone # {} => \E q \in gone : currentSize' + entries[q].size > MaxCapacity
    ]_vars
============================================================================
