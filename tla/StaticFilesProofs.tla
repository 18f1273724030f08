-------------------------- MODULE StaticFilesProofs --------------------------
(***************************************************************************)
(* Proofs about FileCache, StaticFiles and the operators they are built    *)
(* from, for any workers, files, tree, requests, sizes and widths.         *)
(*                                                                         *)
(* Of the cache: that nothing stale is served, then that the bytes are     *)
(* accounted for and the oldest entries go first.  Of the handler: ranges, *)
(* 304, the root, and what a response announces.                           *)
(***************************************************************************)
EXTENDS StaticFiles, DecimalProofs, FiniteSetTheorems, SequenceTheorems, TLAPS

----------------------------------------------------------------------------
(* The cache: freshness *)

\* The type of a worker's call, as far as the times are concerned.
WorkerOK(w) ==
  /\ worker[w] \in WorkerState
  /\ worker[w].at # "idle" => worker[w].path \in Path

\* No time is ahead of the clock, an entry's content is at least as recent as
\* the time it is stored under, and a worker has found a time that its file
\* has not fallen behind.
Times ==
  /\ now \in Nat
  /\ \A p \in Path : disk[p].mtime \in Nat /\ disk[p].mtime <= now
  /\ \A p \in Cached : /\ entries[p].mtime \in Nat /\ entries[p].content \in Nat
                       /\ entries[p].content >= entries[p].mtime
  /\ worker \in [Worker -> WorkerState]
  /\ \A w \in Worker : WorkerOK(w)
  /\ \A w \in Worker : worker[w].at = "checked" =>
                         worker[w].mtime <= disk[worker[w].path].mtime

\* disk stays a function to files, and a file's size is a number or Gone.
DiskOK == disk \in [Path -> File]

IInv == DiskOK /\ Times /\ NeverStale

LEMMA InitIInv == Init => IInv
<1> SUFFICES ASSUME Init PROVE IInv
  OBVIOUS
<1>1. disk \in [Path -> [size : FileSize, mtime : {0}]] /\ now = 0
      /\ Cached = {}
  BY DEF Init, Cached
<1>2. \A w \in Worker : worker[w] = Idle
  BY DEF Init
<1>3. Idle \in WorkerState /\ Idle.at = "idle"
  BY DEF Idle, WorkerState
<1>4. DiskOK
  BY <1>1 DEF DiskOK, File
<1> QED
  BY <1>1, <1>2, <1>3, <1>4 DEF IInv, Times, NeverStale, Init, WorkerOK

\* What a cache holds after an operation of the cache it held before, apart
\* from a new entry.
LEMMA EraseKeeps ==
  ASSUME NEW c, NEW p
  PROVE  /\ DOMAIN Erase(c, p).entries \subseteq DOMAIN c.entries
         /\ \A q \in DOMAIN Erase(c, p).entries :
              Erase(c, p).entries[q] = c.entries[q]
BY DEF Erase

LEMMA EvictKeeps ==
  ASSUME NEW c, NEW needed
  PROVE  /\ DOMAIN EvictUntilFits(c, needed).entries \subseteq DOMAIN c.entries
         /\ \A q \in DOMAIN EvictUntilFits(c, needed).entries :
              EvictUntilFits(c, needed).entries[q] = c.entries[q]
BY DEF EvictUntilFits

LEMMA StoreKeeps ==
  ASSUME NEW c, NEW p, NEW entry,
         NEW q \in DOMAIN Store(c, p, entry).entries
  PROVE  \/ q = p /\ Store(c, p, entry).entries[q] = entry
         \/ q \in DOMAIN c.entries /\ Store(c, p, entry).entries[q] = c.entries[q]
<1> DEFINE d == EvictUntilFits(c, entry.size)
           f == [r \in DOMAIN d.entries \cup {p} |-> IF r = p THEN entry ELSE d.entries[r]]
<1>1. Store(c, p, entry).entries = f
  BY DEF Store
<1>2. q \in DOMAIN d.entries \cup {p} /\ f[q] = IF q = p THEN entry ELSE d.entries[q]
  BY <1>1
<1> QED
  BY <1>1, <1>2, EvictKeeps

\* Steps that leave the cache alone preserve what is said of its entries.
LEMMA CacheUnchanged ==
  ASSUME Times, UNCHANGED cacheVars
  PROVE  \A p \in Cached' : /\ entries'[p].mtime \in Nat /\ entries'[p].content \in Nat
                            /\ entries'[p].content >= entries'[p].mtime
BY DEF Times, cacheVars, Cached

\* The system calls on the files, which nobody's lock holds back.
LEMMA FilesStep ==
  ASSUME IInv,
         \/ Tick
         \/ \E p \in Changing : Delete(p) \/ \E size \in FileSize : Write(p, size)
  PROVE  IInv'
<1> USE FileCacheAssumption
<1>1. CASE Tick
  BY <1>1, CacheUnchanged
     DEF IInv, DiskOK, Times, WorkerOK, NeverStale, Tick
<1>2. ASSUME NEW p \in Changing, Delete(p)
      PROVE  IInv'
  <2>1. disk' \in [Path -> File]
        /\ \A q \in Path : disk'[q].mtime = disk[q].mtime
    BY <1>2 DEF IInv, DiskOK, File, Delete
  <2> QED
    BY <1>2, <2>1, CacheUnchanged
       DEF IInv, DiskOK, Times, WorkerOK, NeverStale, Delete
<1>3. ASSUME NEW p \in Changing, NEW size \in FileSize, Write(p, size)
      PROVE  IInv'
  <2>1. disk' \in [Path -> File]
        /\ \A q \in Path : disk'[q].mtime = IF q = p THEN now ELSE disk[q].mtime
    BY <1>3 DEF IInv, DiskOK, Times, File, Write
  <2>2. now' = now /\ worker' = worker /\ UNCHANGED cacheVars
    BY <1>3 DEF Write
  <2>3. \A q \in Path : disk[q].mtime \in Nat /\ disk[q].mtime <= disk'[q].mtime
                        /\ disk'[q].mtime \in Nat /\ disk'[q].mtime <= now
    BY <2>1 DEF IInv, Times
  <2>4. \A w \in Worker : worker[w].at = "checked" =>
                           worker[w].mtime <= disk'[worker[w].path].mtime
    <3> SUFFICES ASSUME NEW w \in Worker, worker[w].at = "checked"
                 PROVE  worker[w].mtime <= disk'[worker[w].path].mtime
      OBVIOUS
    <3>1. worker[w].path \in Path /\ worker[w].mtime \in Nat
          /\ worker[w].mtime <= disk[worker[w].path].mtime
      BY DEF IInv, Times, WorkerOK, WorkerState
    <3> QED
      BY <2>3, <3>1
  <2>5. Times'
    BY <2>2, <2>3, <2>4, CacheUnchanged DEF IInv, Times, WorkerOK
  <2> QED
    BY <2>1, <2>2, <2>5 DEF IInv, DiskOK, NeverStale
<1> QED
  BY <1>1, <1>2, <1>3

\* A worker's step that leaves the files alone preserves the invariant if the
\* cache and the worker's own state come out right.
LEMMA WorkerFrame ==
  ASSUME IInv, NEW w \in Worker, UNCHANGED fileVars,
         NEW s \in WorkerState, worker' = [worker EXCEPT ![w] = s],
         s.at # "idle" => s.path \in Path,
         s.at = "checked" => s.mtime <= disk[s.path].mtime,
         s.at = "served" => s.content >= s.mtime,
         \A p \in Cached' : /\ entries'[p].mtime \in Nat /\ entries'[p].content \in Nat
                            /\ entries'[p].content >= entries'[p].mtime
  PROVE  IInv'
<1>1. worker' \in [Worker -> WorkerState]
      /\ \A v \in Worker : worker'[v] = IF v = w THEN s ELSE worker[v]
  BY DEF IInv, Times
<1>2. DiskOK'
  BY DEF IInv, DiskOK, fileVars
<1>3. Times'
  BY <1>1 DEF IInv, Times, WorkerOK, fileVars
<1>4. NeverStale'
  BY <1>1 DEF IInv, NeverStale
<1> QED
  BY <1>2, <1>3, <1>4 DEF IInv

LEMMA WorkerStepIInv ==
  ASSUME IInv, NEW w \in Worker, WorkerStep(w)
  PROVE  IInv'
<1> USE FileCacheAssumption
<1> DEFINE state == worker[w]
<1>0. state \in WorkerState /\ (state.at # "idle" => state.path \in Path)
  BY DEF IInv, Times, WorkerOK
<1>i. Idle \in WorkerState /\ Idle.at = "idle"
  BY DEF Idle, WorkerState
<1>1. ASSUME NEW p \in Path, StatSize(w, p)
      PROVE  IInv'
  <2> DEFINE s == [Idle EXCEPT !.at = "sized", !.path = p, !.size = disk[p].size]
  <2>1. disk[p].size \in Nat
    BY <1>1 DEF StatSize, IInv, DiskOK, File
  <2>2. s \in WorkerState /\ s.at = "sized" /\ s.path = p
    BY <2>1 DEF Idle, WorkerState
  <2> QED
    BY <1>1, <2>2, WorkerFrame, CacheUnchanged DEF StatSize, IInv
<1>2. CASE StatTime(w)
  <2> DEFINE file == disk[state.path]
             s == IF file.size = Gone THEN Idle
                  ELSE [state EXCEPT !.at = "checked", !.mtime = file.mtime]
  <2>1. state.path \in Path /\ file.mtime \in Nat
    BY <1>2, <1>0 DEF StatTime, IInv, Times
  <2>2. s \in WorkerState /\ s.at \in {"idle", "checked"}
        /\ (s.at = "checked" => s.path = state.path /\ s.mtime = file.mtime)
    BY <1>0, <1>i, <2>1 DEF WorkerState
  <2>3. UNCHANGED <<fileVars, cacheVars>> /\ worker' = [worker EXCEPT ![w] = s]
    BY <1>2 DEF StatTime
  <2>4. \A p \in Cached' : /\ entries'[p].mtime \in Nat /\ entries'[p].content \in Nat
                           /\ entries'[p].content >= entries'[p].mtime
    BY <2>3, CacheUnchanged DEF IInv
  <2>5. /\ s.at # "idle" => s.path \in Path
        /\ s.at = "checked" => s.mtime <= disk[s.path].mtime
        /\ s.at = "served" => s.content >= s.mtime
    BY <2>1, <2>2
  <2> HIDE DEF s
  <2> QED
    BY <2>2, <2>3, <2>4, <2>5, WorkerFrame
<1>3. CASE AnswerFromStat(w) \/ Reply(w)
  BY <1>3, <1>i, WorkerFrame, CacheUnchanged DEF AnswerFromStat, Reply, IInv
<1>4. CASE Hit(w)
  <2> DEFINE s == [state EXCEPT !.at = "served", !.content = entries[state.path].content]
  <2>1. state.path \in Cached /\ entries[state.path].mtime = state.mtime
        /\ state.at = "checked"
    BY <1>4 DEF Hit, Gets, Matches
  <2>2. entries[state.path].content \in Nat
        /\ entries[state.path].content >= state.mtime
    BY <2>1 DEF IInv, Times
  <2>3. s \in WorkerState /\ s.at = "served" /\ s.path = state.path
        /\ s.mtime = state.mtime /\ s.content = entries[state.path].content
    BY <1>0, <2>2 DEF WorkerState
  <2>4. UNCHANGED <<fileVars, entries>> /\ worker' = [worker EXCEPT ![w] = s]
    BY <1>4 DEF Hit, Serve
  <2>5. \A p \in Cached' : /\ entries'[p].mtime \in Nat /\ entries'[p].content \in Nat
                           /\ entries'[p].content >= entries'[p].mtime
    BY <2>4 DEF IInv, Times, Cached
  <2> QED
    BY <1>0, <2>1, <2>2, <2>3, <2>4, <2>5, WorkerFrame
<1>5. CASE Load(w)
  <2> DEFINE p == state.path
             entry == [size |-> state.size, mtime |-> state.mtime,
                       content |-> disk[p].mtime]
             s == [state EXCEPT !.at = "served", !.content = entry.content]
  <2>1. state.at = "checked" /\ p \in Path
    BY <1>5, <1>0 DEF Load, Gets
  <2>2. disk[p].mtime \in Nat /\ state.mtime \in Nat /\ disk[p].mtime >= state.mtime
    BY <1>0, <2>1 DEF IInv, Times, WorkerState
  <2>3. s \in WorkerState /\ s.at = "served" /\ s.path = p
        /\ s.mtime = state.mtime /\ s.content = disk[p].mtime
    BY <1>0, <2>2 DEF WorkerState
  <2>4. UNCHANGED fileVars /\ worker' = [worker EXCEPT ![w] = s]
    BY <1>5 DEF Load, Serve
  <2>5. entries' = Store(Erase(Cache, p), p, entry).entries
    BY <1>5 DEF Load, Become
  <2>6. \A q \in Cached' : /\ entries'[q].mtime \in Nat /\ entries'[q].content \in Nat
                           /\ entries'[q].content >= entries'[q].mtime
    <3> SUFFICES ASSUME NEW q \in Cached'
                 PROVE  /\ entries'[q].mtime \in Nat /\ entries'[q].content \in Nat
                        /\ entries'[q].content >= entries'[q].mtime
      OBVIOUS
    <3>1. q \in DOMAIN Store(Erase(Cache, p), p, entry).entries
      BY <2>5 DEF Cached
    <3>2. \/ entries'[q] = entry
          \/ /\ q \in DOMAIN Erase(Cache, p).entries
             /\ entries'[q] = Erase(Cache, p).entries[q]
      BY <2>5, <3>1, StoreKeeps
    <3>3. \/ entries'[q] = entry
          \/ q \in Cached /\ entries'[q] = entries[q]
      BY <3>2, EraseKeeps DEF Cache, Cached
    <3> QED
      BY <2>2, <3>3 DEF IInv, Times
  <2> QED
    BY <2>1, <2>2, <2>3, <2>4, <2>6, WorkerFrame
<1>6. CASE LoadFails(w) \/ Bypass(w)
  <2>1. UNCHANGED fileVars /\ worker' = [worker EXCEPT ![w] = Idle]
        /\ entries' = Erase(Cache, state.path).entries
    BY <1>6 DEF LoadFails, Bypass, Become
  <2>2. \A q \in Cached' : q \in Cached /\ entries'[q] = entries[q]
    BY <2>1, EraseKeeps DEF Cache, Cached
  <2>3. \A q \in Cached' : /\ entries'[q].mtime \in Nat /\ entries'[q].content \in Nat
                           /\ entries'[q].content >= entries'[q].mtime
    BY <2>2 DEF IInv, Times
  <2> QED
    BY <1>i, <2>1, <2>3, WorkerFrame
<1> QED
  BY <1>1, <1>2, <1>3, <1>4, <1>5, <1>6 DEF WorkerStep

\* A request is never served content older than the modification time it asked
\* for, whatever the files and the other workers do between its looks at the
\* file and its call of get.
THEOREM Freshness == Spec => []NeverStale
<1>1. IInv /\ [Next]_vars => IInv'
  <2> SUFFICES ASSUME IInv, [Next]_vars PROVE IInv'
    OBVIOUS
  <2>1. CASE Tick \/ \E p \in Changing : Delete(p) \/ \E size \in FileSize : Write(p, size)
    BY <2>1, FilesStep
  <2>2. ASSUME NEW w \in Worker, WorkerStep(w)
        PROVE  IInv'
    BY <2>2, WorkerStepIInv
  <2>3. CASE UNCHANGED vars
    BY <2>3, CacheUnchanged
       DEF IInv, DiskOK, Times, WorkerOK, NeverStale, vars, fileVars
  <2> QED
    BY <2>1, <2>2, <2>3 DEF Next
<1>2. IInv => NeverStale
  BY DEF IInv
<1> QED
  BY InitIInv, <1>1, <1>2, PTL DEF Spec

----------------------------------------------------------------------------
(* Sums *)

\* A sum without a recursion: the number of units of which each x in S has
\* g[x].  The provers can reason about cardinalities, and SumFunctionIs shows
\* that SumFunction, which picks the indices in some order, computes it.
Units(g, S) == {u \in S \X Nat : u[2] < g[u[1]]}
Total(g, S) == Cardinality(Units(g, S))

LEMMA UnitsFinite ==
  ASSUME NEW S, IsFiniteSet(S), NEW g, \A x \in S : g[x] \in Nat
  PROVE  IsFiniteSet(Units(g, S)) /\ Total(g, S) \in Nat
<1> DEFINE row == [x \in S |-> Units(g, {x})]
           rows == {row[x] : x \in S}
<1>1. row \in Surjection(S, rows)
  BY DEF Surjection
<1>2. IsFiniteSet(rows)
  <2> HIDE DEF row, rows
  <2> QED BY <1>1, FS_Surjection
<1>3. ASSUME NEW x \in S PROVE IsFiniteSet(row[x])
  <2> DEFINE col == [j \in 0 .. (g[x] - 1) |-> <<x, j>>]
  <2>1. col \in Surjection(0 .. (g[x] - 1), row[x])
    <3>1. g[x] \in Nat
      OBVIOUS
    <3>2. row[x] = {u \in {x} \X Nat : u[2] < g[u[1]]}
      BY DEF Units
    <3>3. ASSUME NEW u \in row[x] PROVE u[2] \in 0 .. (g[x] - 1) /\ u = <<x, u[2]>>
      <4>1. u \in {x} \X Nat /\ u[2] < g[u[1]]
        BY <3>2
      <4>2. u[1] = x /\ u[2] \in Nat /\ u = <<x, u[2]>>
        BY <4>1
      <4> HIDE DEF row
      <4> QED BY <3>1, <4>1, <4>2
    <3>4. ASSUME NEW j \in 0 .. (g[x] - 1) PROVE <<x, j>> \in row[x]
      BY <3>1, <3>2
    <3>5. col \in [0 .. (g[x] - 1) -> row[x]]
      BY <3>4
    <3>6. \A u \in row[x] : col[u[2]] = u
      BY <3>3
    <3> HIDE DEF row, col
    <3> QED
      BY <3>3, <3>5, <3>6 DEF Surjection
  <2>2. IsFiniteSet(0 .. (g[x] - 1))
    BY FS_Interval
  <2> HIDE DEF row, col
  <2> QED BY <2>1, <2>2, FS_Surjection
<1>4. Units(g, S) = UNION rows
  BY DEF Units
<1>5. IsFiniteSet(Units(g, S))
  <2>1. \A T \in rows : IsFiniteSet(T)
    BY <1>3
  <2> HIDE DEF rows
  <2> QED BY <1>2, <1>4, <2>1, FS_UNION
<1> QED
  BY <1>5, FS_CardinalityType DEF Total

LEMMA SumOfNone == ASSUME NEW g PROVE Total(g, {}) = 0
<1>1. Units(g, {}) = {}
  BY DEF Units
<1> QED
  BY <1>1, FS_EmptySet DEF Total

LEMMA SumOfOne ==
  ASSUME NEW x, NEW g, g[x] \in Nat
  PROVE  Total(g, {x}) = g[x]
<1> DEFINE n == g[x]
           f == [j \in 1 .. n |-> <<x, j - 1>>]
<1>1. f \in [1 .. n -> Units(g, {x})]
  BY DEF Units
<1>2. IsInjective(f)
  BY DEF IsInjective
<1>3. ASSUME NEW u \in Units(g, {x}) PROVE \E j \in 1 .. n : f[j] = u
  <2>1. u[2] + 1 \in 1 .. n /\ u = <<x, u[2]>>
    BY DEF Units
  <2>2. (u[2] + 1) - 1 = u[2]
    BY DEF Units
  <2>3. f[u[2] + 1] = <<x, u[2]>>
    BY <2>1, <2>2
  <2> QED BY <2>1, <2>3
<1>4. ExistsBijection(1 .. n, Units(g, {x}))
  <2> HIDE DEF f, n
  <2> QED BY <1>1, <1>2, <1>3 DEF ExistsBijection, Bijection, Injection, Surjection
<1> QED
  <2>1. n \in Nat
    OBVIOUS
  <2> HIDE DEF n
  <2>2. Cardinality(Units(g, {x})) = n
    BY <1>4, <2>1, FS_CountingElements
  <2> QED BY <2>2 DEF Total, n

\* Sums of disjoint sets add up.
LEMMA SumOfUnion ==
  ASSUME NEW S, IsFiniteSet(S), NEW T, IsFiniteSet(T), S \cap T = {},
         NEW g, \A x \in S \cup T : g[x] \in Nat
  PROVE  Total(g, S \cup T) = Total(g, S) + Total(g, T)
<1>1. Units(g, S \cup T) = Units(g, S) \cup Units(g, T)
      /\ Units(g, S) \cap Units(g, T) = {}
  BY DEF Units
<1>2. IsFiniteSet(Units(g, S)) /\ IsFiniteSet(Units(g, T)) /\ Total(g, S) \in Nat /\ Total(g, T) \in Nat
  BY UnitsFinite
<1>3. Cardinality(Units(g, S) \cup Units(g, T))
        = Cardinality(Units(g, S)) + Cardinality(Units(g, T)) - Cardinality({})
  BY <1>1, <1>2, FS_Union
<1>4. Total(g, S \cup T) = Total(g, S) + Total(g, T) - 0
  BY <1>1, <1>3, FS_EmptySet DEF Total
<1> QED
  BY <1>2, <1>4

LEMMA SumStep ==
  ASSUME NEW S, IsFiniteSet(S), NEW g, \A x \in S : g[x] \in Nat, NEW x \in S
  PROVE  Total(g, S) = Total(g, S \ {x}) + g[x]
<1>1. IsFiniteSet({x}) /\ IsFiniteSet(S \ {x})
  BY FS_Singleton, FS_RemoveElement
<1>2. S = (S \ {x}) \cup {x} /\ (S \ {x}) \cap {x} = {}
  OBVIOUS
<1>3. Total(g, (S \ {x}) \cup {x}) = Total(g, S \ {x}) + Total(g, {x})
  BY <1>1, <1>2, SumOfUnion
<1> QED
  BY <1>2, <1>3, SumOfOne

\* The recursion by which SumFunction takes one index after another.
Iterates(it, D, g) ==
  it = [s \in SUBSET D |-> IF s = {} THEN 0
                           ELSE g[CHOOSE y \in s : TRUE] + it[s \ {CHOOSE y \in s : TRUE}]]

\* Whatever the order, the recursion yields the number of units: the smallest
\* set for which it would not is one element larger than one for which it does.
LEMMA IterateIs ==
  ASSUME NEW D, IsFiniteSet(D), NEW g, \A x \in D : g[x] \in Nat,
         NEW it, Iterates(it, D, g)
  PROVE  it[D] = Total(g, D)
<1> DEFINE Wrong(s) == s \in SUBSET D /\ it[s] # Total(g, s)
           K == {n \in Nat : \E s : Wrong(s) /\ Cardinality(s) = n}
<1>1. SUFFICES K = {}
  <2>1. Cardinality(D) \in Nat /\ D \in SUBSET D
    BY FS_CardinalityType
  <2> QED BY <2>1
<1>2. SUFFICES ASSUME K # {} PROVE FALSE
  OBVIOUS
<1>3. \E n \in K : \A m \in K : ~(<<m, n>> \in OpToRel(<, Nat))
  <2>1. K \subseteq Nat
    OBVIOUS
  <2> HIDE DEF K
  <2> QED BY <1>2, <2>1, NatLessThanWellFounded, WFMin, Zenon
<1>4. PICK n \in K : \A m \in K : ~(<<m, n>> \in OpToRel(<, Nat))
  BY <1>3
<1>5. PICK s : Wrong(s) /\ Cardinality(s) = n
  BY <1>4
<1>6. n \in Nat /\ s \in SUBSET D /\ IsFiniteSet(s)
  BY <1>4, <1>5, FS_Subset
<1>7. s # {}
  <2>1. it[{}] = 0
    BY DEF Iterates
  <2> QED BY <1>5, <2>1, SumOfNone
<1> DEFINE x == CHOOSE y \in s : TRUE
<1>8. x \in s
  BY <1>7
<1>9. it[s] = it[s \ {x}] + g[x]
  BY <1>6, <1>7 DEF Iterates
<1>10. IsFiniteSet(s \ {x}) /\ Cardinality(s \ {x}) = n - 1 /\ n - 1 \in Nat
  <2>1. IsFiniteSet(s \ {x}) /\ Cardinality(s \ {x}) = n - 1
    BY <1>5, <1>6, <1>8, FS_RemoveElement
  <2> QED BY <2>1, FS_CardinalityType
<1>11. it[s \ {x}] = Total(g, s \ {x})
  <2>1. SUFFICES ASSUME Wrong(s \ {x}) PROVE FALSE
    BY <1>6
  <2>2. n - 1 \in K
    BY <1>10, <2>1
  <2>3. <<n - 1, n>> \in OpToRel(<, Nat)
    BY <1>6, <1>10 DEF OpToRel
  <2> QED BY <1>4, <2>2, <2>3
<1>12. Total(g, s) = Total(g, s \ {x}) + g[x]
  BY <1>6, <1>8, SumStep
<1> QED
  BY <1>5, <1>9, <1>11, <1>12

\* There is a function that satisfies the recursion.
LEMMA IterateExists ==
  ASSUME NEW D, IsFiniteSet(D), NEW g, \A x \in D : g[x] \in Nat
  PROVE  Iterates([s \in SUBSET D |-> Total(g, s)], D, g)
<1> DEFINE it == [s \in SUBSET D |-> Total(g, s)]
<1>1. ASSUME NEW s \in SUBSET D
      PROVE  Total(g, s) = IF s = {} THEN 0
                         ELSE g[CHOOSE y \in s : TRUE] + it[s \ {CHOOSE y \in s : TRUE}]
  <2>1. CASE s = {}
    BY <2>1, SumOfNone
  <2>2. CASE s # {}
    <3> DEFINE x == CHOOSE y \in s : TRUE
    <3>1. x \in s /\ s \ {x} \in SUBSET D /\ IsFiniteSet(s) /\ IsFiniteSet(s \ {x})
      BY <2>2, FS_Subset
    <3> HIDE DEF x
    <3>2. Total(g, s) = Total(g, s \ {x}) + g[x]
      BY <3>1, SumStep
    <3>3. it[s \ {x}] = Total(g, s \ {x})
      BY <3>1
    <3>4. g[x] \in Nat /\ Total(g, s \ {x}) \in Nat
      BY <3>1, UnitsFinite
    <3>5. Total(g, s) = g[x] + it[s \ {x}]
      BY <3>2, <3>3, <3>4
    <3> HIDE DEF it
    <3> QED BY <2>2, <3>5 DEF x
  <2> QED BY <2>1, <2>2
<1>2. it = [s \in SUBSET D |-> IF s = {} THEN 0
              ELSE g[CHOOSE y \in s : TRUE] + it[s \ {CHOOSE y \in s : TRUE}]]
  <2> HIDE DEF it
  <2> QED BY <1>1 DEF it
<1> QED
  BY <1>2 DEF Iterates

LEMMA SumFunctionIs ==
  ASSUME NEW D, IsFiniteSet(D), NEW g, DOMAIN g = D, \A x \in D : g[x] \in Nat
  PROVE  SumFunction(g) = Total(g, D)
<1>1. SumFunction(g) = (CHOOSE it : Iterates(it, D, g))[D]
  BY DEF SumFunction, SumFunctionOnSet, FoldFunctionOnSet, MapThenFoldSet, Iterates
<1>2. Iterates(CHOOSE it : Iterates(it, D, g), D, g)
  BY IterateExists, Zenon
<1> QED
  BY <1>1, <1>2, IterateIs

\* m gives each index of f another name, which is its index in g.
Renames(m, A, B, f, g) ==
  /\ m \in [A -> B] /\ IsInjective(m) /\ \A b \in B : \E a \in A : m[a] = b
  /\ \A a \in A : f[a] = g[m[a]]
  /\ \A b \in B : g[b] \in Nat

\* A sum does not depend on the names of the indices.
LEMMA SumRenamed ==
  ASSUME NEW A, IsFiniteSet(A), NEW B, NEW f, NEW g, NEW m, Renames(m, A, B, f, g)
  PROVE  IsFiniteSet(B) /\ Total(f, A) = Total(g, B)
<1> USE DEF Renames
<1> DEFINE h == [u \in Units(f, A) |-> <<m[u[1]], u[2]>>]
<1>1. ASSUME NEW u \in Units(f, A) PROVE h[u] \in Units(g, B) /\ u = <<u[1], u[2]>> /\ u[1] \in A
  BY DEF Units
<1>2. h \in [Units(f, A) -> Units(g, B)]
  BY <1>1
<1>3. ASSUME NEW u \in Units(f, A), NEW v \in Units(f, A), h[u] = h[v] PROVE u = v
  <2>1. m[u[1]] = m[v[1]] /\ u[2] = v[2]
    BY <1>3
  <2>2. u[1] \in DOMAIN m /\ v[1] \in DOMAIN m
    BY <1>1
  <2>3. u[1] = v[1]
    BY <2>1, <2>2 DEF IsInjective
  <2> QED BY <1>1, <2>1, <2>3
<1>4. ASSUME NEW v \in Units(g, B) PROVE \E u \in Units(f, A) : h[u] = v
  <2>1. v = <<v[1], v[2]>> /\ v[1] \in B /\ v[2] \in Nat /\ v[2] < g[v[1]]
    BY DEF Units
  <2>2. PICK a \in A : m[a] = v[1]
    BY <2>1
  <2>3. <<a, v[2]>> \in Units(f, A)
    BY <2>1, <2>2 DEF Units
  <2>4. h[<<a, v[2]>>] = <<m[a], v[2]>>
    BY <2>3
  <2> QED BY <2>1, <2>2, <2>3, <2>4
<1>5. ExistsBijection(Units(f, A), Units(g, B))
  <2> HIDE DEF h
  <2> QED BY <1>2, <1>3, <1>4 DEF ExistsBijection, Bijection, Injection, Surjection, IsInjective
<1>6. IsFiniteSet(Units(f, A))
  BY UnitsFinite
<1>7. m \in Surjection(A, B)
  BY DEF Surjection
<1> QED
  BY <1>5, <1>6, <1>7, FS_Bijection, FS_Surjection DEF Total

LEMMA SumSame ==
  ASSUME NEW S, NEW f, NEW g, \A x \in S : f[x] = g[x]
  PROVE  Total(f, S) = Total(g, S)
<1>1. Units(f, S) = Units(g, S)
  BY DEF Units
<1> QED
  BY <1>1 DEF Total

----------------------------------------------------------------------------
(* Sequences in which nothing occurs twice *)

\* r stands before q in seq.
Before(seq, r, q) == \E i, j \in DOMAIN seq : i < j /\ seq[i] = r /\ seq[j] = q

\* Removing what stands at place k.
LEMMA RemoveFirstIs ==
  ASSUME NEW S, NEW seq \in Seq(S), NEW k \in 1 .. Len(seq),
         \A i \in 1 .. Len(seq) : seq[i] = seq[k] => i = k
  PROVE  /\ RemoveFirst(seq, seq[k]) \in Seq(S)
         /\ Len(RemoveFirst(seq, seq[k])) = Len(seq) - 1
         /\ \A i \in 1 .. Len(seq) - 1 :
              RemoveFirst(seq, seq[k])[i] = IF i < k THEN seq[i] ELSE seq[i + 1]
<1> DEFINE I == {i \in 1 .. Len(seq) : seq[i] = seq[k]}
           a == SubSeq(seq, 1, k - 1)
           b == SubSeq(seq, k + 1, Len(seq))
<1>1. Len(seq) \in Nat /\ seq \in [1 .. Len(seq) -> S]
  BY LenProperties
<1>2. I = {k}
  OBVIOUS
<1>3. SelectInSeq(seq, LAMBDA v : v = seq[k]) = IF I # {} THEN Min(I) ELSE 0
  BY DEF SelectInSeq
<1>4. Min({k}) = k
  BY DEF Min
<1>5. RemoveFirst(seq, seq[k]) = a \o b
  <2>1. SelectInSeq(seq, LAMBDA v : v = seq[k]) = k
    BY <1>2, <1>3, <1>4
  <2>2. \E i \in 1 .. Len(seq) : seq[i] = seq[k]
    OBVIOUS
  <2> QED
    BY <2>1, <2>2 DEF RemoveFirst, RemoveAt
<1>6. a \in Seq(S) /\ Len(a) = k - 1 /\ \A i \in 1 .. k - 1 : a[i] = seq[i]
  <2>1. \A i \in 1 .. k - 1 : seq[i] \in S
    BY <1>1
  <2> QED BY <1>1, <2>1, SubSeqProperties
<1>7. b \in Seq(S) /\ Len(b) = Len(seq) - k /\ \A i \in 1 .. Len(seq) - k : b[i] = seq[k + i]
  <2>1. \A i \in k + 1 .. Len(seq) : seq[i] \in S
    BY <1>1
  <2>2. b \in Seq(S) /\ \A i \in 1 .. Len(seq) - (k + 1) + 1 : b[i] = seq[(k + 1) + i - 1]
    BY <1>1, <2>1, SubSeqProperties
  <2>3. Len(b) = IF k + 1 <= Len(seq) THEN Len(seq) - (k + 1) + 1 ELSE 0
    BY <1>1, <2>1, SubSeqProperties
  <2>4. Len(b) = Len(seq) - k
    <3> DEFINE size == Len(b)
               n == Len(seq)
    <3>1. n \in Nat /\ k \in 1 .. n /\ size = IF k + 1 <= n THEN n - (k + 1) + 1 ELSE 0
      BY <1>1, <2>3
    <3> HIDE DEF size, n, b
    <3>2. size = n - k
      BY <3>1
    <3> QED BY <3>2 DEF size, n
  <2> HIDE DEF b
  <2>5. ASSUME NEW i \in 1 .. Len(seq) - k PROVE b[i] = seq[k + i]
    <3>1. i \in 1 .. Len(seq) - (k + 1) + 1 /\ (k + 1) + i - 1 = k + i
      BY <1>1
    <3> QED BY <2>2, <3>1
  <2> QED
    BY <2>2, <2>4, <2>5
<1> HIDE DEF a, b
<1>8. a \o b \in Seq(S) /\ Len(a \o b) = Len(a) + Len(b)
      /\ \A i \in 1 .. Len(a) + Len(b) : (a \o b)[i] = IF i <= Len(a) THEN a[i] ELSE b[i - Len(a)]
  BY <1>6, <1>7, ConcatProperties
<1>9. ASSUME NEW i \in 1 .. Len(seq) - 1
      PROVE  (a \o b)[i] = IF i < k THEN seq[i] ELSE seq[i + 1]
  <2>1. (a \o b)[i] = IF i <= k - 1 THEN a[i] ELSE b[i - (k - 1)]
    BY <1>1, <1>6, <1>7, <1>8
  <2>2. CASE i < k
    BY <1>1, <1>6, <2>1, <2>2
  <2>3. CASE ~(i < k)
    <3>1. i - (k - 1) \in 1 .. Len(seq) - k /\ k + (i - (k - 1)) = i + 1 /\ ~(i <= k - 1)
      BY <1>1, <2>3
    <3>2. b[i - (k - 1)] = seq[i + 1]
      BY <1>7, <3>1
    <3> QED BY <2>1, <2>3, <3>1, <3>2
  <2> QED BY <2>2, <2>3
<1>10. Len(a) + Len(b) = Len(seq) - 1
  BY <1>1, <1>6, <1>7
<1> QED
  BY <1>5, <1>8, <1>9, <1>10

\* Taking the only p out of a sequence leaves the rest in order.
LEMMA Without ==
  ASSUME NEW S, NEW seq \in Seq(S), IsInjective(seq), NEW p \in ToSet(seq)
  PROVE  LET rest == RemoveFirst(seq, p)
         IN  /\ rest \in Seq(S) /\ IsInjective(rest)
             /\ ToSet(rest) = ToSet(seq) \ {p}
             /\ \A x, y : Before(rest, x, y) <=> x # p /\ y # p /\ Before(seq, x, y)
<1> DEFINE rest == RemoveFirst(seq, p)
           n == Len(seq)
           at(i, k) == IF i < k THEN i ELSE i + 1
<1>1. n \in Nat /\ seq \in [1 .. n -> S] /\ DOMAIN seq = 1 .. n
  BY LenProperties
<1>2. PICK k \in 1 .. n : seq[k] = p
  BY <1>1 DEF ToSet
<1>3. \A i, j \in 1 .. n : seq[i] = seq[j] => i = j
  BY <1>1 DEF IsInjective
<1>4. rest \in Seq(S) /\ Len(rest) = n - 1
      /\ \A i \in 1 .. n - 1 : rest[i] = IF i < k THEN seq[i] ELSE seq[i + 1]
  BY <1>2, <1>3, RemoveFirstIs
<1> HIDE DEF rest
<1>5. DOMAIN rest = 1 .. n - 1
  BY <1>4, LenProperties
<1>6. \A i \in 1 .. n - 1 : at(i, k) \in 1 .. n /\ at(i, k) # k /\ rest[i] = seq[at(i, k)]
  BY <1>1, <1>4
<1>7. \A i, j \in 1 .. n - 1 : i < j <=> at(i, k) < at(j, k)
  BY <1>1
<1>8. ASSUME NEW m \in 1 .. n, m # k PROVE \E i \in 1 .. n - 1 : at(i, k) = m
  <2>1. CASE m < k
    <3>1. m \in 1 .. n - 1 /\ at(m, k) = m
      BY <1>1, <2>1
    <3> QED BY <3>1
  <2>2. CASE ~(m < k)
    <3>1. m - 1 \in 1 .. n - 1 /\ at(m - 1, k) = m
      BY <1>1, <1>8, <2>2
    <3> QED BY <3>1
  <2> QED BY <2>1, <2>2
<1>9. \A i, j \in 1 .. n - 1 : at(i, k) = at(j, k) => i = j
  BY <1>1
<1> HIDE DEF at, n
<1>10. IsInjective(rest)
  <2>1. \A i, j \in 1 .. n - 1 : rest[i] = rest[j] => i = j
    BY <1>3, <1>6, <1>9
  <2> QED BY <1>5, <2>1 DEF IsInjective
<1>11. ToSet(rest) = ToSet(seq) \ {p}
  <2>1. \A x : x \in ToSet(rest) => x \in ToSet(seq) /\ x # p
    BY <1>1, <1>2, <1>3, <1>5, <1>6 DEF ToSet
  <2>2. \A x : x \in ToSet(seq) /\ x # p => x \in ToSet(rest)
    BY <1>1, <1>2, <1>5, <1>6, <1>8 DEF ToSet
  <2> QED BY <2>1, <2>2
<1>12. ASSUME NEW x, NEW y PROVE Before(rest, x, y) <=> x # p /\ y # p /\ Before(seq, x, y)
  <2>1. ASSUME Before(rest, x, y) PROVE x # p /\ y # p /\ Before(seq, x, y)
    <3>1. PICK i, j \in 1 .. n - 1 : i < j /\ rest[i] = x /\ rest[j] = y
      BY <1>5, <2>1 DEF Before
    <3>2. at(i, k) < at(j, k) /\ at(i, k) \in 1 .. n /\ at(j, k) \in 1 .. n
          /\ seq[at(i, k)] = x /\ seq[at(j, k)] = y /\ at(i, k) # k /\ at(j, k) # k
      BY <1>6, <1>7, <3>1
    <3> QED BY <1>1, <1>2, <1>3, <3>2 DEF Before
  <2>2. ASSUME x # p, y # p, Before(seq, x, y) PROVE Before(rest, x, y)
    <3>1. PICK a, b \in 1 .. n : a < b /\ seq[a] = x /\ seq[b] = y
      BY <1>1, <2>2 DEF Before
    <3>2. a # k /\ b # k
      BY <1>2, <2>2, <3>1
    <3>3. PICK i \in 1 .. n - 1 : at(i, k) = a
      BY <1>8, <3>2
    <3>4. PICK j \in 1 .. n - 1 : at(j, k) = b
      BY <1>8, <3>2
    <3> QED BY <1>5, <1>6, <1>7, <3>1, <3>3, <3>4 DEF Before
  <2> QED BY <2>1, <2>2
<1> QED
  BY <1>4, <1>10, <1>11, <1>12 DEF rest

\* What does not occur is removed without effect.
LEMMA Absentee ==
  ASSUME NEW S, NEW seq \in Seq(S), NEW p, p \notin ToSet(seq)
  PROVE  RemoveFirst(seq, p) = seq
<1>1. DOMAIN seq = 1 .. Len(seq)
  BY LenProperties
<1>2. ~ \E i \in 1 .. Len(seq) : seq[i] = p
  BY <1>1 DEF ToSet
<1> QED BY <1>2 DEF RemoveFirst

\* A new element in front comes before all others, whose order stays.
LEMMA InFront ==
  ASSUME NEW S, NEW seq \in Seq(S), IsInjective(seq), NEW p \in S, p \notin ToSet(seq)
  PROVE  /\ <<p>> \o seq \in Seq(S) /\ IsInjective(<<p>> \o seq)
         /\ ToSet(<<p>> \o seq) = {p} \cup ToSet(seq)
         /\ \A x, y : Before(<<p>> \o seq, x, y)
                        <=> (x = p /\ y \in ToSet(seq)) \/ Before(seq, x, y)
<1> DEFINE n == Len(seq)
           all == <<p>> \o seq
<1>1. n \in Nat /\ DOMAIN seq = 1 .. n
  BY LenProperties
<1>2. <<p>> \in Seq(S) /\ Len(<<p>>) = 1 /\ <<p>>[1] = p
  OBVIOUS
<1>3. all \in Seq(S) /\ Len(all) = 1 + n
      /\ \A i \in 1 .. 1 + n : all[i] = IF i <= 1 THEN <<p>>[i] ELSE seq[i - 1]
  BY <1>2, ConcatProperties
<1> HIDE DEF all
<1>4. DOMAIN all = 1 .. n + 1
  BY <1>1, <1>3, LenProperties
<1>5. all[1] = p
  BY <1>1, <1>2, <1>3
<1>6. \A i \in 1 .. n : i + 1 \in 1 .. n + 1 /\ all[i + 1] = seq[i]
  BY <1>1, <1>3
<1>7. \A i \in 1 .. n + 1 : i # 1 => i - 1 \in 1 .. n /\ (i - 1) + 1 = i
  BY <1>1
<1>8. \A i \in 1 .. n + 1 : IF i = 1 THEN all[i] = p ELSE i - 1 \in 1 .. n /\ all[i] = seq[i - 1]
  BY <1>1, <1>2, <1>3
<1>9. \A i \in 1 .. n : seq[i] # p
  BY <1>1 DEF ToSet
<1>10. \A i, j \in 1 .. n : seq[i] = seq[j] => i = j
  BY <1>1 DEF IsInjective
<1>11. IsInjective(all)
  <2>1. \A i, j \in 1 .. n + 1 : all[i] = all[j] => i = j
    <3> SUFFICES ASSUME NEW i \in 1 .. n + 1, NEW j \in 1 .. n + 1, all[i] = all[j], i # j PROVE FALSE
      OBVIOUS
    <3>1. CASE i = 1 \/ j = 1
      BY <1>8, <1>9, <3>1
    <3>2. CASE i # 1 /\ j # 1
      <4>1. i - 1 = j - 1
        BY <1>8, <1>10, <3>2
      <4> QED BY <1>1, <4>1
    <3> QED BY <3>1, <3>2
  <2> QED BY <1>4, <2>1 DEF IsInjective
<1>12. ToSet(all) = {p} \cup ToSet(seq)
  <2>1. \A x : x \in ToSet(all) => x = p \/ x \in ToSet(seq)
    BY <1>1, <1>4, <1>8 DEF ToSet
  <2>2. p \in ToSet(all)
    <3>1. 1 \in 1 .. n + 1
      BY <1>1
    <3> QED BY <1>4, <1>5, <3>1 DEF ToSet
  <2>3. \A x : x \in ToSet(seq) => x \in ToSet(all)
    BY <1>1, <1>4, <1>6 DEF ToSet
  <2> QED BY <2>1, <2>2, <2>3
<1>13. ASSUME NEW x, NEW y
       PROVE  Before(all, x, y) <=> (x = p /\ y \in ToSet(seq)) \/ Before(seq, x, y)
  <2>1. ASSUME Before(all, x, y) PROVE (x = p /\ y \in ToSet(seq)) \/ Before(seq, x, y)
    <3>1. PICK i, j \in 1 .. n + 1 : i < j /\ all[i] = x /\ all[j] = y
      BY <1>4, <2>1 DEF Before
    <3>2. j # 1 /\ j - 1 \in 1 .. n /\ y = seq[j - 1]
      BY <1>1, <1>8, <3>1
    <3>3. CASE i = 1
      BY <1>1, <1>5, <3>1, <3>2, <3>3 DEF ToSet
    <3>4. CASE i # 1
      <4>1. i - 1 \in 1 .. n /\ x = seq[i - 1]
        BY <1>8, <3>1, <3>4
      <4>2. i - 1 < j - 1
        BY <1>1, <3>1
      <4> QED BY <1>1, <3>2, <4>1, <4>2 DEF Before
    <3> QED BY <3>3, <3>4
  <2>2. ASSUME x = p, y \in ToSet(seq) PROVE Before(all, x, y)
    <3>1. PICK j \in 1 .. n : seq[j] = y
      BY <1>1, <2>2 DEF ToSet
    <3>2. 1 \in 1 .. n + 1 /\ j + 1 \in 1 .. n + 1 /\ 1 < j + 1
      BY <1>1
    <3> QED BY <1>4, <1>5, <1>6, <2>2, <3>1, <3>2 DEF Before
  <2>3. ASSUME Before(seq, x, y) PROVE Before(all, x, y)
    <3>1. PICK i, j \in 1 .. n : i < j /\ seq[i] = x /\ seq[j] = y
      BY <1>1, <2>3 DEF Before
    <3>2. i + 1 < j + 1
      BY <1>1, <3>1
    <3> QED BY <1>4, <1>6, <3>1, <3>2 DEF Before
  <2> QED BY <2>1, <2>2, <2>3
<1> QED
  BY <1>3, <1>11, <1>12, <1>13 DEF all

----------------------------------------------------------------------------
(* The operations of the cache *)

\* The bytes of a table of entries.
Sizes(e) == [p \in DOMAIN e |-> e[p].size]
Bytes(e) == Total(Sizes(e), DOMAIN e)

\* lru lists what is cached, and the size is that of what is cached.
ListsEntries(c) == c.lru \in Seq(Path) /\ IsInjective(c.lru) /\ ToSet(c.lru) = DOMAIN c.entries
Sound(c) ==
  /\ \A p \in DOMAIN c.entries : c.entries[p] \in Entry
  /\ ListsEntries(c)
  /\ c.size = Bytes(c.entries) /\ c.size <= MaxCapacity

\* A sound cache is finite, and its size is a number: the subtraction in erase
\* cannot wrap.
LEMMA SoundFinite ==
  ASSUME NEW c, Sound(c)
  PROVE  /\ IsFiniteSet(DOMAIN c.entries)
         /\ \A p \in DOMAIN c.entries : Sizes(c.entries)[p] = c.entries[p].size
         /\ \A p \in DOMAIN c.entries : Sizes(c.entries)[p] \in Nat
         /\ c.size \in Nat
<1>1. c.lru \in Seq(Path) /\ ToSet(c.lru) = DOMAIN c.entries
  BY DEF Sound, ListsEntries
<1>2. Len(c.lru) \in Nat /\ DOMAIN c.lru = 1 .. Len(c.lru) /\ c.lru \in [1 .. Len(c.lru) -> Path]
  BY <1>1, LenProperties
<1>3. c.lru \in Surjection(1 .. Len(c.lru), DOMAIN c.entries)
  BY <1>1, <1>2 DEF Surjection, ToSet
<1>4. IsFiniteSet(DOMAIN c.entries)
  BY <1>2, <1>3, FS_Interval, FS_Surjection
<1>5. \A p \in DOMAIN c.entries : Sizes(c.entries)[p] = c.entries[p].size /\ c.entries[p].size \in Nat
  BY DEF Sizes, Sound, Entry
<1> QED
  BY <1>4, <1>5, UnitsFinite DEF Sound, Bytes

\* erase subtracts what the entry had added, and leaves the others in order.
LEMMA EraseSound ==
  ASSUME NEW c, Sound(c), NEW p
  PROVE  /\ Sound(Erase(c, p)) /\ DOMAIN Erase(c, p).entries = DOMAIN c.entries \ {p}
         /\ \A x, y : Before(Erase(c, p).lru, x, y) => Before(c.lru, x, y)
<1>1. CASE p \notin DOMAIN c.entries
  BY <1>1 DEF Erase
<1>2. CASE p \in DOMAIN c.entries
  <2> DEFINE e == c.entries
             rest == [q \in DOMAIN e \ {p} |-> e[q]]
             r == Erase(c, p)
  <2>1. r = [entries |-> rest, lru |-> RemoveFirst(c.lru, p), size |-> c.size - e[p].size]
    BY <1>2 DEF Erase
  <2>2. c.lru \in Seq(Path) /\ IsInjective(c.lru) /\ ToSet(c.lru) = DOMAIN e
    BY DEF Sound, ListsEntries
  <2>3. /\ r.lru \in Seq(Path) /\ IsInjective(r.lru)
        /\ ToSet(r.lru) = ToSet(c.lru) \ {p}
        /\ \A x, y : Before(r.lru, x, y) => Before(c.lru, x, y)
    BY <1>2, <2>1, <2>2, Without
  <2>4. DOMAIN r.entries = DOMAIN e \ {p} /\ \A q \in DOMAIN e \ {p} : r.entries[q] = e[q]
    BY <2>1
  <2>5. Total(Sizes(e), DOMAIN e) = Total(Sizes(e), DOMAIN e \ {p}) + e[p].size
    <3> DEFINE g == Sizes(e)
               A == DOMAIN e
    <3>1. IsFiniteSet(A) /\ (\A q \in A : g[q] \in Nat) /\ p \in A /\ g[p] = e[p].size
      BY <1>2, SoundFinite
    <3> HIDE DEF g, A, r, rest
    <3>2. Total(g, A) = Total(g, A \ {p}) + g[p]
      BY <3>1, SumStep
    <3> QED BY <3>1, <3>2 DEF g, A
  <2>6. Total(Sizes(e), DOMAIN e \ {p}) = Bytes(r.entries)
    <3>1. \A q \in DOMAIN e \ {p} : Sizes(e)[q] = Sizes(r.entries)[q]
      BY <2>4 DEF Sizes
    <3> QED BY <2>4, <3>1, SumSame DEF Bytes
  <2>7. IsFiniteSet(DOMAIN e \ {p}) /\ e[p].size \in Nat /\ c.size \in Nat /\ c.size = Total(Sizes(e), DOMAIN e)
    BY <1>2, SoundFinite, FS_RemoveElement DEF Sound, Bytes
  <2>8. Total(Sizes(e), DOMAIN e \ {p}) \in Nat
    BY <2>7, SoundFinite, UnitsFinite
  <2>9. r.size = c.size - e[p].size
    BY <2>1
  <2>10. r.size = Bytes(r.entries) /\ r.size <= MaxCapacity
    <3>1. c.size <= MaxCapacity /\ MaxCapacity \in Nat
      BY FileCacheAssumption DEF Sound
    <3> QED
      BY <2>5, <2>6, <2>7, <2>8, <2>9, <3>1
  <2>11. \A q \in DOMAIN r.entries : r.entries[q] \in Entry
    BY <2>4 DEF Sound
  <2> HIDE DEF r, rest
  <2> QED
    BY <2>2, <2>3, <2>4, <2>10, <2>11 DEF Sound, ListsEntries, r
<1> QED BY <1>1, <1>2

\* The paths of lru after the first n.
OldestAfter(c, n) == {c.lru[i] : i \in (n + 1) .. Len(c.lru)}

\* The entries after the first n of lru take the bytes that their paths' sizes
\* add up to.
LEMMA BytesAfterIs ==
  ASSUME NEW c, Sound(c), NEW n \in 0 .. Len(c.lru)
  PROVE  /\ BytesAfter(c, n) = Total(Sizes(c.entries), OldestAfter(c, n))
         /\ IsFiniteSet(OldestAfter(c, n)) /\ OldestAfter(c, n) \subseteq DOMAIN c.entries
         /\ BytesAfter(c, n) \in Nat
<1> DEFINE A == (n + 1) .. Len(c.lru)
           m == [i \in A |-> c.lru[i]]
           f == [i \in A |-> c.entries[c.lru[i]].size]
           e == c.entries
<1>1. c.lru \in Seq(Path) /\ IsInjective(c.lru) /\ ToSet(c.lru) = DOMAIN e
  BY DEF Sound, ListsEntries
<1>2. Len(c.lru) \in Nat /\ DOMAIN c.lru = 1 .. Len(c.lru)
  BY <1>1, LenProperties
<1>3. \A i \in A : i \in DOMAIN c.lru
  BY <1>2
<1>4. \A i \in A : c.lru[i] \in DOMAIN e /\ f[i] = Sizes(e)[c.lru[i]] /\ f[i] \in Nat
  BY <1>1, <1>3, SoundFinite DEF ToSet
<1>5. IsFiniteSet(A)
  BY <1>2, FS_Interval
<1>6. BytesAfter(c, n) = Total(f, A)
  <2> HIDE DEF A
  <2>1. DOMAIN f = A
    OBVIOUS
  <2>2. BytesAfter(c, n) = SumFunction(f)
    BY DEF BytesAfter, A
  <2> HIDE DEF f
  <2> QED BY <1>4, <1>5, <2>1, <2>2, SumFunctionIs
<1>7. OldestAfter(c, n) \subseteq DOMAIN e
  BY <1>4 DEF OldestAfter
<1>8. m \in [A -> OldestAfter(c, n)] /\ \A b \in OldestAfter(c, n) : \E a \in A : m[a] = b
  BY DEF OldestAfter
<1>9. IsInjective(m)
  BY <1>1, <1>3 DEF IsInjective
<1>10. \A a \in A : f[a] = Sizes(e)[m[a]]
  BY <1>4
<1>11. \A b \in OldestAfter(c, n) : Sizes(e)[b] \in Nat
  BY <1>7, SoundFinite
<1>12. IsFiniteSet(OldestAfter(c, n)) /\ Total(f, A) = Total(Sizes(e), OldestAfter(c, n))
  <2> DEFINE B == OldestAfter(c, n)
             g == Sizes(e)
  <2>1. \A a \in A : f[a] = g[m[a]]
    BY <1>10
  <2>2. \A b \in B : g[b] \in Nat
    BY <1>11
  <2>3. m \in [A -> B] /\ IsInjective(m) /\ \A b \in B : \E a \in A : m[a] = b
    BY <1>8, <1>9
  <2> HIDE DEF A, B, m, f, g, e
  <2>4. Renames(m, A, B, f, g)
    BY <2>1, <2>2, <2>3 DEF Renames
  <2>5. IsFiniteSet(B) /\ Total(f, A) = Total(g, B)
    BY <1>5, <2>4, SumRenamed
  <2> QED BY <2>5 DEF B, g
<1>13. Total(Sizes(e), OldestAfter(c, n)) \in Nat
  BY <1>11, <1>12, UnitsFinite
<1> QED BY <1>6, <1>7, <1>12, <1>13

\* A non-empty set of numbers up to L has a largest element.
LEMMA Largest ==
  ASSUME NEW L \in Nat, NEW K, K \subseteq 0 .. L, K # {}
  PROVE  \E n \in K : \A m \in (n + 1) .. L : m \notin K
<1> DEFINE J == {j \in 0 .. L : L - j \in K}
<1>1. \E j \in J : \A i \in J : ~(<<i, j>> \in OpToRel(<, Nat))
  <2>1. J \subseteq Nat
    OBVIOUS
  <2>2. PICK k : k \in K
    OBVIOUS
  <2>3. k \in 0 .. L
    BY <2>2
  <2>4. L - k \in 0 .. L /\ L - (L - k) = k
    BY <2>3
  <2>5. L - k \in J
    BY <2>2, <2>4
  <2> HIDE DEF J
  <2> QED BY <2>1, <2>5, NatLessThanWellFounded, WFMin, Zenon
<1>2. PICK j \in J : \A i \in J : ~(<<i, j>> \in OpToRel(<, Nat))
  BY <1>1
<1>3. j \in 0 .. L /\ L - j \in K
  BY <1>2
<1>4. ASSUME NEW m \in ((L - j) + 1) .. L PROVE m \notin K
  <2> SUFFICES ASSUME m \in K PROVE FALSE
    OBVIOUS
  <2>1. L - m \in 0 .. L /\ L - (L - m) = m /\ L - m < j /\ L - m \in Nat /\ j \in Nat
    BY <1>3
  <2>2. L - m \in J
    BY <2>1
  <2>3. <<L - m, j>> \in OpToRel(<, Nat)
    BY <2>1 DEF OpToRel
  <2> QED BY <1>2, <2>2, <2>3
<1> QED BY <1>3, <1>4

\* What evictUntilFits keeps: a beginning of lru, and no less than it must.
Stops(c, keep, needed) ==
  /\ keep \in 0 .. Len(c.lru)
  /\ keep = 0 \/ Fits(c, keep, needed)
  /\ \A m \in (keep + 1) .. Len(c.lru) : ~Fits(c, m, needed)

\* evictUntilFits always finds a place to stop.
LEMMA EvictKeepsFirst ==
  ASSUME NEW c, Sound(c), NEW needed
  PROVE  \E keep :
           /\ Stops(c, keep, needed)
           /\ LET d == EvictUntilFits(c, needed)
              IN  /\ d.lru = SubSeq(c.lru, 1, keep)
                  /\ d.entries = [p \in DOMAIN c.entries \ OldestAfter(c, keep) |-> c.entries[p]]
                  /\ d.size = c.size - BytesAfter(c, keep)
<1> DEFINE L == Len(c.lru)
           K == {n \in 0 .. L : n = 0 \/ Fits(c, n, needed)}
           keep == CHOOSE n \in 0 .. Len(c.lru) :
                     /\ n = 0 \/ Fits(c, n, needed)
                     /\ \A m \in (n + 1) .. Len(c.lru) : ~Fits(c, m, needed)
           last == ToSet(SubSeq(c.lru, keep + 1, Len(c.lru)))
<1>0. c.lru \in Seq(Path) /\ L \in Nat /\ c.lru \in [1 .. L -> Path]
  BY LenProperties DEF Sound, ListsEntries
<1>1. \E n \in K : \A m \in (n + 1) .. L : m \notin K
  <2>1. 0 \in K /\ K \subseteq 0 .. L
    BY <1>0
  <2> HIDE DEF K, L
  <2> QED BY <1>0, <2>1, Largest
<1>2. PICK n \in K : \A m \in (n + 1) .. L : m \notin K
  BY <1>1
<1>3. n \in 0 .. L /\ (n = 0 \/ Fits(c, n, needed))
  BY <1>2
<1>4. \A m \in (n + 1) .. L : ~Fits(c, m, needed)
  BY <1>0, <1>2
<1>5. Stops(c, keep, needed)
  BY <1>3, <1>4 DEF Stops
<1> DEFINE d == EvictUntilFits(c, needed)
<1>6. /\ d.lru = SubSeq(c.lru, 1, keep)
      /\ d.entries = [p \in DOMAIN c.entries \ last |-> c.entries[p]]
      /\ d.size = c.size - BytesAfter(c, keep)
  BY DEF EvictUntilFits
<1>7. last = OldestAfter(c, keep)
  <2> DEFINE s == SubSeq(c.lru, keep + 1, L)
  <2>1. keep \in 0 .. L
    BY <1>5 DEF Stops
  <2> HIDE DEF keep
  <2>2. \A i \in (keep + 1) .. L : c.lru[i] \in Path
    BY <1>0, <2>1
  <2>3. s \in Seq(Path) /\ (Len(s) = IF keep + 1 <= L THEN L - (keep + 1) + 1 ELSE 0)
        /\ \A i \in 1 .. L - (keep + 1) + 1 : s[i] = c.lru[(keep + 1) + i - 1]
    BY <1>0, <2>1, <2>2, SubSeqProperties
  <2> HIDE DEF s
  <2>4. Len(s) = L - keep
    BY <1>0, <2>1, <2>3
  <2>5. DOMAIN s = 1 .. L - keep
    BY <2>3, <2>4, LenProperties
  <2>6. ASSUME NEW i \in 1 .. L - keep PROVE s[i] = c.lru[keep + i] /\ keep + i \in (keep + 1) .. L
    <3>1. i \in 1 .. L - (keep + 1) + 1 /\ (keep + 1) + i - 1 = keep + i /\ keep + i \in (keep + 1) .. L
      BY <1>0, <2>1
    <3> QED BY <2>3, <3>1
  <2>7. ASSUME NEW j \in (keep + 1) .. L PROVE j - keep \in 1 .. L - keep /\ s[j - keep] = c.lru[j]
    <3>1. j - keep \in 1 .. L - keep /\ keep + (j - keep) = j
      BY <1>0, <2>1
    <3> QED BY <2>6, <3>1
  <2>8. ToSet(s) = OldestAfter(c, keep)
    BY <2>5, <2>6, <2>7 DEF ToSet, OldestAfter
  <2> QED BY <2>8 DEF s
<1> HIDE DEF d, keep, last
<1>8. d.entries = [p \in DOMAIN c.entries \ OldestAfter(c, keep) |-> c.entries[p]]
  BY <1>6, <1>7
<1> QED BY <1>5, <1>6, <1>8 DEF d

\* evictUntilFits makes room, evicts only what comes last in lru, and no more
\* than it must.
LEMMA EvictSound ==
  ASSUME NEW c, Sound(c), NEW needed \in Nat, needed <= MaxCapacity
  PROVE  LET d == EvictUntilFits(c, needed)
         IN  /\ Sound(d) /\ d.size + needed <= MaxCapacity
             /\ DOMAIN d.entries \subseteq DOMAIN c.entries
             /\ \A x, y : Before(d.lru, x, y) => Before(c.lru, x, y)
             /\ \A x \in DOMAIN d.entries, y \in DOMAIN c.entries \ DOMAIN d.entries : Before(c.lru, x, y)
             /\ DOMAIN c.entries # DOMAIN d.entries =>
                  \E y \in DOMAIN c.entries \ DOMAIN d.entries :
                    d.size + needed + c.entries[y].size > MaxCapacity
<1> DEFINE d == EvictUntilFits(c, needed)
           e == c.entries
           L == Len(c.lru)
<1>1. PICK keep :
           /\ Stops(c, keep, needed)
           /\ d.lru = SubSeq(c.lru, 1, keep)
           /\ d.entries = [p \in DOMAIN e \ OldestAfter(c, keep) |-> e[p]]
           /\ d.size = c.size - BytesAfter(c, keep)
  BY EvictKeepsFirst
<1> DEFINE O == OldestAfter(c, keep)
<1> HIDE DEF d
<1>2. c.lru \in Seq(Path) /\ IsInjective(c.lru) /\ ToSet(c.lru) = DOMAIN e
      /\ L \in Nat /\ DOMAIN c.lru = 1 .. L /\ c.lru \in [1 .. L -> Path]
  BY LenProperties DEF Sound, ListsEntries
<1>3. keep \in 0 .. L
  BY <1>1 DEF Stops
<1>4. d.lru \in Seq(Path) /\ DOMAIN d.lru = 1 .. keep /\ \A i \in 1 .. keep : d.lru[i] = c.lru[i]
  <2>1. \A i \in 1 .. keep : c.lru[i] \in Path
    BY <1>2, <1>3
  <2>2. d.lru \in Seq(Path) /\ (Len(d.lru) = IF 1 <= keep THEN keep - 1 + 1 ELSE 0)
        /\ \A i \in 1 .. keep - 1 + 1 : d.lru[i] = c.lru[1 + i - 1]
    BY <1>1, <1>3, <2>1, SubSeqProperties
  <2>3. Len(d.lru) = keep /\ keep - 1 + 1 = keep
    BY <1>3, <2>2
  <2>4. \A i \in 1 .. keep : 1 + i - 1 = i
    BY <1>3
  <2> QED BY <2>2, <2>3, <2>4, LenProperties
<1>5. \A i \in 1 .. keep : i \in 1 .. L
  BY <1>2, <1>3
<1>6. \A i, j \in 1 .. L : c.lru[i] = c.lru[j] => i = j
  BY <1>2 DEF IsInjective
<1>7. O = {c.lru[i] : i \in (keep + 1) .. L}
  BY DEF OldestAfter
<1>8. \A i \in 1 .. L : i \in 1 .. keep <=> ~(i \in (keep + 1) .. L)
  BY <1>2, <1>3
<1>9. ToSet(d.lru) = DOMAIN e \ O
  <2>1. \A x : x \in ToSet(d.lru) <=> \E i \in 1 .. keep : c.lru[i] = x
    BY <1>4 DEF ToSet
  <2>2. \A x : x \in DOMAIN e <=> \E i \in 1 .. L : c.lru[i] = x
    BY <1>2 DEF ToSet
  <2>3. \A i \in (keep + 1) .. L : i \in 1 .. L
    BY <1>2, <1>3
  <2> HIDE DEF e, L, O
  <2> QED BY <1>5, <1>6, <1>7, <1>8, <2>1, <2>2, <2>3
<1>10. ListsEntries(d)
  <2>1. IsInjective(d.lru)
    BY <1>4, <1>5, <1>6 DEF IsInjective
  <2>2. DOMAIN d.entries = DOMAIN e \ O
    BY <1>1
  <2> QED BY <1>4, <1>9, <2>1, <2>2 DEF ListsEntries
<1>11. \A p \in DOMAIN d.entries : p \in DOMAIN e /\ d.entries[p] = e[p]
  BY <1>1
<1>12. \A p \in DOMAIN d.entries : d.entries[p] \in Entry
  BY <1>11 DEF Sound
<1>13. d.size = Bytes(d.entries) /\ d.size \in Nat
  <2>1. BytesAfter(c, keep) = Total(Sizes(e), O) /\ IsFiniteSet(O) /\ O \subseteq DOMAIN e
        /\ BytesAfter(c, keep) \in Nat
    BY <1>3, BytesAfterIs
  <2>2. IsFiniteSet(DOMAIN e \ O) /\ (DOMAIN e \ O) \cup O = DOMAIN e /\ (DOMAIN e \ O) \cap O = {}
    BY <2>1, SoundFinite, FS_Difference
  <2>3. Total(Sizes(e), (DOMAIN e \ O) \cup O) = Total(Sizes(e), DOMAIN e \ O) + Total(Sizes(e), O)
    <3> DEFINE g == Sizes(e)
               A == DOMAIN e \ O
    <3>1. \A x \in A \cup O : g[x] \in Nat
      BY <2>1, SoundFinite
    <3> HIDE DEF g, A, O, e
    <3> QED BY <2>1, <2>2, <3>1, SumOfUnion DEF g, A
  <2>4. Total(Sizes(e), DOMAIN e \ O) = Bytes(d.entries)
    <3>1. DOMAIN d.entries = DOMAIN e \ O
      BY <1>1
    <3>2. \A q \in DOMAIN e \ O : Sizes(e)[q] = Sizes(d.entries)[q]
      BY <1>11, <3>1 DEF Sizes
    <3> QED BY <3>1, <3>2, SumSame DEF Bytes
  <2>5. Total(Sizes(e), DOMAIN e \ O) \in Nat
    BY <2>2, SoundFinite, UnitsFinite
  <2>6. c.size = Total(Sizes(e), DOMAIN e)
    BY DEF Sound, Bytes
  <2>7. d.size = c.size - BytesAfter(c, keep)
    BY <1>1
  <2> HIDE DEF e, O
  <2> QED BY <2>1, <2>2, <2>3, <2>4, <2>5, <2>6, <2>7
<1>14. d.size + needed <= MaxCapacity
  <2>1. CASE keep = 0
    <3>1. O = DOMAIN e
      <4>1. 0 + 1 = 1
        OBVIOUS
      <4> QED BY <1>2, <1>7, <2>1, <4>1 DEF ToSet
    <3>2. DOMAIN d.entries = {}
      BY <1>1, <3>1
    <3>3. d.size = 0
      BY <1>13, <3>2, SumOfNone DEF Bytes
    <3> QED BY <3>3
  <2>2. CASE Fits(c, keep, needed)
    BY <1>1, <2>2 DEF Fits
  <2> QED BY <1>1, <2>1, <2>2 DEF Stops
<1>15. Sound(d)
  <2>1. d.size <= MaxCapacity
    BY <1>13, <1>14, FileCacheAssumption
  <2> QED BY <1>10, <1>12, <1>13, <2>1 DEF Sound
<1>16. \A x, y : Before(d.lru, x, y) => Before(c.lru, x, y)
  BY <1>2, <1>4, <1>5 DEF Before
<1>17. ASSUME NEW x \in DOMAIN d.entries, NEW y \in DOMAIN e \ DOMAIN d.entries PROVE Before(c.lru, x, y)
  <2>1. x \in ToSet(d.lru) /\ y \in O
    BY <1>1, <1>10 DEF ListsEntries
  <2>2. PICK i \in 1 .. keep : c.lru[i] = x
    BY <1>4, <2>1 DEF ToSet
  <2>3. PICK j \in (keep + 1) .. L : c.lru[j] = y
    BY <1>7, <2>1
  <2>4. i < j /\ i \in 1 .. L /\ j \in 1 .. L
    BY <1>2, <1>3
  <2> QED BY <1>2, <2>2, <2>3, <2>4 DEF Before
<1>18. ASSUME DOMAIN e # DOMAIN d.entries
       PROVE  \E y \in DOMAIN e \ DOMAIN d.entries : d.size + needed + e[y].size > MaxCapacity
  <2>1. keep + 1 \in 1 .. L
    <3>1. O # {}
      BY <1>1, <1>18
    <3>2. PICK j \in (keep + 1) .. L : TRUE
      BY <1>7, <3>1
    <3> QED BY <1>2, <1>3, <3>2
  <2> DEFINE k == keep + 1
             y == c.lru[k]
             R == OldestAfter(c, k)
  <2>2. ~Fits(c, k, needed)
    <3>1. k \in (keep + 1) .. L
      BY <1>2, <1>3, <2>1
    <3> QED BY <1>1, <3>1 DEF Stops
  <2>3. y \in O /\ y \in DOMAIN e \ DOMAIN d.entries
    <3>1. k \in (keep + 1) .. L
      BY <1>2, <1>3, <2>1
    <3>2. y \in O
      BY <1>7, <3>1
    <3>3. y \in DOMAIN e
      BY <1>2, <2>1 DEF ToSet
    <3> QED BY <1>1, <3>2, <3>3
  <2>4. R = O \ {y}
    <3>1. R = {c.lru[i] : i \in (k + 1) .. L}
      BY DEF OldestAfter
    <3>2. \A i \in 1 .. L : i \in (k + 1) .. L <=> i \in (keep + 1) .. L /\ i # k
      BY <1>2, <1>3
    <3>3. \A i \in (keep + 1) .. L : i \in 1 .. L
      BY <1>2, <1>3
    <3>4. \A i \in (k + 1) .. L : i \in 1 .. L
      BY <1>2, <1>3
    <3> HIDE DEF k, L, R, O
    <3> QED BY <1>6, <1>7, <2>1, <3>1, <3>2, <3>3, <3>4 DEF k
  <2>5. /\ BytesAfter(c, keep) = Total(Sizes(e), O) /\ IsFiniteSet(O) /\ O \subseteq DOMAIN e
        /\ BytesAfter(c, keep) \in Nat
    BY <1>3, BytesAfterIs
  <2>6. BytesAfter(c, k) = Total(Sizes(e), R) /\ BytesAfter(c, k) \in Nat
    <3>1. k \in 0 .. L
      BY <2>1
    <3> HIDE DEF k
    <3> QED BY <3>1, BytesAfterIs
  <2>7. Total(Sizes(e), O) = Total(Sizes(e), O \ {y}) + Sizes(e)[y]
    <3>1. \A x \in O : Sizes(e)[x] \in Nat
      BY <2>5, SoundFinite
    <3> HIDE DEF O, e, y
    <3> QED BY <2>3, <2>5, <3>1, SumStep
  <2>8. Sizes(e)[y] = e[y].size /\ e[y].size \in Nat /\ c.size \in Nat
    BY <2>3, SoundFinite
  <2>9. c.size - BytesAfter(c, k) + needed > MaxCapacity
    <3>1. ~(c.size - BytesAfter(c, k) + needed <= MaxCapacity)
      BY <2>2 DEF Fits
    <3>2. c.size \in Nat /\ MaxCapacity \in Nat /\ BytesAfter(c, k) \in Nat
      BY <2>6, <2>8, FileCacheAssumption
    <3> HIDE DEF k
    <3> QED BY <3>1, <3>2
  <2>10. d.size = c.size - BytesAfter(c, keep)
    BY <1>1
  <2>11. d.size + needed + e[y].size > MaxCapacity
    <3> DEFINE a == BytesAfter(c, keep)
               b == BytesAfter(c, k)
    <3>1. a = b + e[y].size /\ a \in Nat /\ b \in Nat
      BY <2>4, <2>5, <2>6, <2>7, <2>8
    <3> HIDE DEF a, b, e, y, k
    <3> QED BY <2>8, <2>9, <2>10, <3>1, FileCacheAssumption DEF a, b
  <2> QED BY <2>3, <2>11
<1> QED BY <1>1, <1>11, <1>14, <1>15, <1>16, <1>17, <1>18 DEF d

\* Moving an element to the front keeps the order of the others.
LEMMA ToTheFront ==
  ASSUME NEW S, NEW seq \in Seq(S), IsInjective(seq), NEW p \in S
  PROVE  LET touched == <<p>> \o RemoveFirst(seq, p)
         IN  /\ touched \in Seq(S) /\ IsInjective(touched)
             /\ ToSet(touched) = {p} \cup ToSet(seq)
             /\ \A x, y : Before(touched, x, y)
                            <=> \/ x = p /\ y \in ToSet(seq) \ {p}
                                \/ x # p /\ y # p /\ Before(seq, x, y)
<1> DEFINE rest == RemoveFirst(seq, p)
<1>1. /\ rest \in Seq(S) /\ IsInjective(rest) /\ ToSet(rest) = ToSet(seq) \ {p}
      /\ \A x, y : Before(rest, x, y) <=> x # p /\ y # p /\ Before(seq, x, y)
  <2>1. CASE p \in ToSet(seq)
    BY <2>1, Without
  <2>2. CASE p \notin ToSet(seq)
    <3>1. rest = seq
      BY <2>2, Absentee
    <3>2. \A x, y : Before(seq, x, y) => x \in ToSet(seq) /\ y \in ToSet(seq)
      BY DEF Before, ToSet
    <3> QED BY <2>2, <3>1, <3>2
  <2> QED BY <2>1, <2>2
<1> HIDE DEF rest
<1>2. p \notin ToSet(rest)
  BY <1>1
<1>3. /\ <<p>> \o rest \in Seq(S) /\ IsInjective(<<p>> \o rest)
      /\ ToSet(<<p>> \o rest) = {p} \cup ToSet(rest)
      /\ \A x, y : Before(<<p>> \o rest, x, y)
                     <=> (x = p /\ y \in ToSet(rest)) \/ Before(rest, x, y)
  BY <1>1, <1>2, InFront
<1> DEFINE touched == <<p>> \o rest
<1> HIDE DEF touched
<1> QED BY <1>1, <1>3 DEF rest, touched

\* The end of get adds the size of the new entry, which comes first in lru.
LEMMA StoreSound ==
  ASSUME NEW c, Sound(c), NEW p \in Path, p \notin DOMAIN c.entries,
         NEW entry \in Entry, entry.size <= MaxCapacity
  PROVE  LET s == Store(c, p, entry)
             d == EvictUntilFits(c, entry.size)
         IN  /\ Sound(s)
             /\ DOMAIN s.entries = DOMAIN d.entries \cup {p}
             /\ s.size = d.size + entry.size
             /\ \A x, y : Before(s.lru, x, y) =>
                            \/ x = p /\ y \in DOMAIN c.entries
                            \/ x # p /\ y # p /\ Before(c.lru, x, y)
<1> DEFINE s == Store(c, p, entry)
           d == EvictUntilFits(c, entry.size)
<1>0. entry.size \in Nat
  BY DEF Entry
<1>1. /\ Sound(d) /\ d.size + entry.size <= MaxCapacity
      /\ DOMAIN d.entries \subseteq DOMAIN c.entries
      /\ \A x, y : Before(d.lru, x, y) => Before(c.lru, x, y)
  BY <1>0, EvictSound
<1>2. /\ s.entries = [q \in DOMAIN d.entries \cup {p} |-> IF q = p THEN entry ELSE d.entries[q]]
      /\ s.lru = <<p>> \o d.lru
      /\ s.size = d.size + entry.size
  BY DEF Store
<1> HIDE DEF s, d
<1>3. /\ DOMAIN s.entries = DOMAIN d.entries \cup {p} /\ p \notin DOMAIN d.entries
      /\ s.entries[p] = entry /\ \A q \in DOMAIN d.entries : s.entries[q] = d.entries[q]
  BY <1>1, <1>2
<1>4. d.lru \in Seq(Path) /\ IsInjective(d.lru) /\ ToSet(d.lru) = DOMAIN d.entries
  BY <1>1 DEF Sound, ListsEntries
<1>5. /\ s.lru \in Seq(Path) /\ IsInjective(s.lru) /\ ToSet(s.lru) = {p} \cup ToSet(d.lru)
      /\ \A x, y : Before(s.lru, x, y) <=> (x = p /\ y \in ToSet(d.lru)) \/ Before(d.lru, x, y)
  BY <1>2, <1>3, <1>4, InFront
<1>6. ListsEntries(s)
  BY <1>3, <1>4, <1>5 DEF ListsEntries
<1>7. \A q \in DOMAIN s.entries : s.entries[q] \in Entry
  BY <1>1, <1>3 DEF Sound
<1>8. s.size = Bytes(s.entries)
  <2> DEFINE g == Sizes(s.entries)
             A == DOMAIN d.entries
  <2>1. IsFiniteSet(A) /\ IsFiniteSet(A \cup {p}) /\ (A \cup {p}) \ {p} = A
    BY <1>1, <1>3, SoundFinite, FS_AddElement
  <2>2. \A q \in A \cup {p} : g[q] = s.entries[q].size /\ g[q] \in Nat
    BY <1>3, <1>7 DEF Sizes, Entry
  <2>3. Total(g, A \cup {p}) = Total(g, (A \cup {p}) \ {p}) + g[p]
    <3> HIDE DEF g, A
    <3> QED BY <2>1, <2>2, SumStep
  <2>4. \A q \in A : g[q] = Sizes(d.entries)[q]
    BY <1>3 DEF Sizes
  <2>5. Total(g, A) = Total(Sizes(d.entries), A)
    <3> HIDE DEF g, A
    <3> QED BY <2>4, SumSame
  <2>6. d.size = Total(Sizes(d.entries), A)
    BY <1>1 DEF Sound, Bytes
  <2>7. g[p] = entry.size
    BY <1>3, <2>2
  <2>8. Bytes(s.entries) = Total(g, A \cup {p})
    BY <1>3 DEF Bytes
  <2> HIDE DEF g, A
  <2> QED BY <1>2, <2>1, <2>3, <2>5, <2>6, <2>7, <2>8
<1>9. Sound(s)
  BY <1>1, <1>2, <1>6, <1>7, <1>8 DEF Sound
<1>10. \A x, y : Before(d.lru, x, y) => x \in DOMAIN d.entries /\ y \in DOMAIN d.entries
  BY <1>4 DEF Before, ToSet
<1>11. ASSUME NEW x, NEW y, Before(s.lru, x, y)
       PROVE  \/ x = p /\ y \in DOMAIN c.entries
              \/ x # p /\ y # p /\ Before(c.lru, x, y)
  BY <1>1, <1>3, <1>4, <1>5, <1>10, <1>11
<1> QED BY <1>2, <1>3, <1>9, <1>11 DEF s, d

----------------------------------------------------------------------------
(* The steps of the cache *)

\* The order of lru is the order in which get returned what is cached.
Recency(list, asked) ==
  /\ asked \in Seq(Path) /\ IsInjective(asked)
  /\ ToSet(list) \subseteq ToSet(asked)
  /\ \A x, y : Before(list, x, y) => Before(asked, x, y)

\* The invariant that makes the accounting inductive: the size is right, and
\* lru lists exactly the entries, in the order in which they were returned.
CacheInv == Sound(Cache) /\ Recency(lru, recent)

LEMMA InitCacheInv == Init => CacheInv
<1> SUFFICES ASSUME Init PROVE CacheInv
  OBVIOUS
<1>1. DOMAIN entries = {} /\ lru = <<>> /\ recent = <<>> /\ currentSize = 0
  BY DEF Init
<1>2. <<>> \in Seq(Path) /\ IsInjective(<<>>) /\ ToSet(<<>>) = {}
  BY DEF IsInjective, ToSet
<1>3. Bytes(entries) = 0
  BY <1>1, SumOfNone DEF Bytes
<1>4. \A x, y : ~Before(<<>>, x, y)
  BY DEF Before
<1> QED
  BY <1>1, <1>2, <1>3, <1>4, FileCacheAssumption DEF CacheInv, Sound, ListsEntries, Cache, Recency

\* A get that reads the file: the invariant holds again, those evicted were
\* returned less recently than those kept, and one less eviction was not enough.
LEMMA StoreStep ==
  ASSUME CacheInv, NEW p \in Path, NEW entry \in Entry, entry.size <= MaxCapacity,
         Become(Store(Erase(Cache, p), p, entry)),
         recent' = <<p>> \o RemoveFirst(recent, p)
  PROVE  /\ CacheInv'
         /\ LET kept == (Cached \cap DOMAIN entries') \ {p}
                gone == Cached \ (DOMAIN entries' \cup {p})
            IN  /\ \A r \in kept, q \in gone : Before(recent, r, q)
                /\ gone # {} => \E q \in gone : currentSize' + entries[q].size > MaxCapacity
<1> DEFINE c == Erase(Cache, p)
           d == EvictUntilFits(c, entry.size)
           s == Store(c, p, entry)
           kept == (Cached \cap DOMAIN entries') \ {p}
           gone == Cached \ (DOMAIN entries' \cup {p})
<1>0. Cache.entries = entries /\ Cache.lru = lru /\ Cache.size = currentSize
  BY DEF Cache
<1>1. Sound(Cache)
  BY DEF CacheInv
<1>2. /\ Sound(c) /\ DOMAIN c.entries = Cached \ {p}
      /\ \A x, y : Before(c.lru, x, y) => Before(lru, x, y)
      /\ \A q \in DOMAIN c.entries : c.entries[q] = entries[q]
  BY <1>0, <1>1, EraseSound, EraseKeeps DEF Cached
<1>3. entry.size \in Nat /\ p \notin DOMAIN c.entries
  BY <1>2 DEF Entry
<1>4. /\ DOMAIN d.entries \subseteq DOMAIN c.entries
      /\ \A x \in DOMAIN d.entries, y \in DOMAIN c.entries \ DOMAIN d.entries : Before(c.lru, x, y)
      /\ DOMAIN c.entries # DOMAIN d.entries =>
           \E y \in DOMAIN c.entries \ DOMAIN d.entries :
             d.size + entry.size + c.entries[y].size > MaxCapacity
  <2> HIDE DEF c
  <2> QED BY <1>2, <1>3, EvictSound
<1>5. /\ Sound(s) /\ DOMAIN s.entries = DOMAIN d.entries \cup {p} /\ s.size = d.size + entry.size
      /\ \A x, y : Before(s.lru, x, y) => \/ x = p /\ y \in DOMAIN c.entries
                                          \/ x # p /\ y # p /\ Before(c.lru, x, y)
  <2> HIDE DEF c
  <2> QED BY <1>2, <1>3, StoreSound
<1>6. entries' = s.entries /\ lru' = s.lru /\ currentSize' = s.size
  BY DEF Become
<1> HIDE DEF c, d, s
<1>7. Sound(Cache)'
  <2>1. Cache'.entries = s.entries /\ Cache'.lru = s.lru /\ Cache'.size = s.size
    BY <1>6 DEF Cache
  <2> DEFINE t == Cache'
  <2>2. Sound(t)
    <3>1. t.entries = s.entries /\ t.lru = s.lru /\ t.size = s.size
      BY <2>1
    <3> HIDE DEF t
    <3> QED BY <1>5, <3>1 DEF Sound, ListsEntries
  <2> QED BY <2>2 DEF Sound, ListsEntries, Cache
<1>8. /\ recent \in Seq(Path) /\ IsInjective(recent) /\ Cached \subseteq ToSet(recent)
      /\ \A x, y : Before(lru, x, y) => Before(recent, x, y)
  BY <1>0, <1>1 DEF CacheInv, Recency, Sound, ListsEntries, Cached
<1>9. /\ recent' \in Seq(Path) /\ IsInjective(recent') /\ ToSet(recent') = {p} \cup ToSet(recent)
      /\ \A x, y : Before(recent', x, y)
                     <=> \/ x = p /\ y \in ToSet(recent) \ {p}
                         \/ x # p /\ y # p /\ Before(recent, x, y)
  BY <1>8, ToTheFront
<1>10. Recency(lru, recent)'
  <2>1. ToSet(lru') = DOMAIN s.entries
    BY <1>5, <1>6 DEF Sound, ListsEntries
  <2>2. ToSet(lru') \subseteq ToSet(recent')
    BY <1>2, <1>4, <1>5, <1>8, <1>9, <2>1
  <2>3. \A x, y : Before(lru', x, y) => Before(recent', x, y)
    BY <1>2, <1>5, <1>6, <1>8, <1>9
  <2> QED BY <1>9, <2>2, <2>3 DEF Recency, Before, ToSet, IsInjective
<1>11. gone = DOMAIN c.entries \ DOMAIN d.entries /\ kept \subseteq DOMAIN d.entries
  BY <1>2, <1>4, <1>5, <1>6
<1>12. \A r \in kept, q \in gone : Before(recent, r, q)
  BY <1>2, <1>4, <1>8, <1>11
<1>13. gone # {} => \E q \in gone : currentSize' + entries[q].size > MaxCapacity
  BY <1>2, <1>4, <1>5, <1>6, <1>11
<1> HIDE DEF kept, gone
<1> QED BY <1>7, <1>10, <1>12, <1>13 DEF CacheInv, kept, gone

\* A get that finds a good entry.
LEMMA HitStep ==
  ASSUME CacheInv, NEW p \in Path,
         UNCHANGED <<entries, currentSize>>, lru' = Touch(lru, p),
         recent' = <<p>> \o RemoveFirst(recent, p), p \in Cached
  PROVE  CacheInv'
<1>1. /\ \A q \in DOMAIN entries : entries[q] \in Entry
      /\ lru \in Seq(Path) /\ IsInjective(lru) /\ ToSet(lru) = DOMAIN entries
      /\ currentSize = Bytes(entries) /\ currentSize <= MaxCapacity
  BY DEF CacheInv, Sound, ListsEntries, Cache
<1>2. /\ recent \in Seq(Path) /\ IsInjective(recent) /\ ToSet(lru) \subseteq ToSet(recent)
      /\ \A x, y : Before(lru, x, y) => Before(recent, x, y)
  BY DEF CacheInv, Recency
<1>3. /\ lru' \in Seq(Path) /\ IsInjective(lru') /\ ToSet(lru') = {p} \cup ToSet(lru)
      /\ \A x, y : Before(lru', x, y)
                     <=> \/ x = p /\ y \in ToSet(lru) \ {p}
                         \/ x # p /\ y # p /\ Before(lru, x, y)
  BY <1>1, ToTheFront DEF Touch
<1>4. /\ recent' \in Seq(Path) /\ IsInjective(recent') /\ ToSet(recent') = {p} \cup ToSet(recent)
      /\ \A x, y : Before(recent', x, y)
                     <=> \/ x = p /\ y \in ToSet(recent) \ {p}
                         \/ x # p /\ y # p /\ Before(recent, x, y)
  BY <1>2, ToTheFront
<1>5. Sound(Cache)'
  <2>1. ToSet(lru') = DOMAIN entries'
    BY <1>1, <1>3 DEF Cached
  <2>2. Bytes(entries)' = Bytes(entries')
    BY DEF Bytes, Sizes
  <2>3. entries' = entries /\ currentSize' = currentSize
    OBVIOUS
  <2> QED BY <1>1, <1>3, <2>1, <2>2, <2>3 DEF Sound, ListsEntries, Cache, ToSet, IsInjective
<1>6. Recency(lru, recent)'
  <2>1. ToSet(lru') \subseteq ToSet(recent')
    BY <1>2, <1>3, <1>4
  <2>2. \A x, y : Before(lru', x, y) => Before(recent', x, y)
    BY <1>2, <1>3, <1>4
  <2> QED BY <1>4, <2>1, <2>2 DEF Recency, Before, ToSet, IsInjective
<1> QED BY <1>5, <1>6 DEF CacheInv

\* A call that only drops the worker's own path.
LEMMA EraseStep ==
  ASSUME CacheInv, NEW p, Become(Erase(Cache, p)), recent' = recent
  PROVE  CacheInv' /\ DOMAIN entries' = Cached \ {p}
<1> DEFINE c == Erase(Cache, p)
<1>0. Cache.entries = entries /\ Cache.lru = lru /\ Cache.size = currentSize
  BY DEF Cache
<1>1. Sound(Cache)
  BY DEF CacheInv
<1>2. /\ Sound(c) /\ DOMAIN c.entries = Cached \ {p}
      /\ \A x, y : Before(c.lru, x, y) => Before(lru, x, y)
  BY <1>0, <1>1, EraseSound DEF Cached
<1>3. entries' = c.entries /\ lru' = c.lru /\ currentSize' = c.size
  BY DEF Become
<1> HIDE DEF c
<1>4. Sound(Cache)'
  BY <1>2, <1>3 DEF Sound, ListsEntries, Cache
<1>5. /\ recent \in Seq(Path) /\ IsInjective(recent) /\ ToSet(lru) \subseteq ToSet(recent)
      /\ \A x, y : Before(lru, x, y) => Before(recent, x, y)
      /\ ToSet(lru) = Cached /\ ToSet(lru') = DOMAIN entries'
  BY <1>0, <1>1, <1>2, <1>3 DEF CacheInv, Recency, Sound, ListsEntries, Cached
<1>6. Recency(lru, recent)'
  <2>1. ToSet(lru') \subseteq ToSet(recent)
    BY <1>2, <1>3, <1>5
  <2>2. \A x, y : Before(lru', x, y) => Before(recent, x, y)
    BY <1>2, <1>3, <1>5
  <2>3. recent' \in Seq(Path) /\ IsInjective(recent)'
    BY <1>5
  <2>4. (\A x, y : Before(lru, x, y) => Before(recent, x, y))'
    BY <2>2 DEF Before
  <2> QED BY <2>1, <2>3, <2>4 DEF Recency, ToSet
<1> QED BY <1>2, <1>3, <1>4, <1>6 DEF CacheInv

LEMMA CacheInvUnchanged ==
  ASSUME CacheInv, UNCHANGED cacheVars
  PROVE  CacheInv'
BY DEF CacheInv, cacheVars, Sound, ListsEntries, Cache, Recency, Bytes, Sizes, Before, Total, Units, ToSet, IsInjective

\* What a call that leaves "checked" may do to the others' entries.
EvictsFairly(w) ==
  worker[w].at = "checked" /\ worker'[w].at # "checked" =>
    LET p    == worker[w].path
        kept == (Cached \cap DOMAIN entries') \ {p}
        gone == Cached \ (DOMAIN entries' \cup {p})
    IN  /\ \A r \in kept, q \in gone :
             \E i, j \in DOMAIN recent : i < j /\ recent[i] = r /\ recent[j] = q
        /\ gone # {} => \E q \in gone : currentSize' + entries[q].size > MaxCapacity

\* Nothing is gone but the worker's own path.
LEMMA NothingGone ==
  ASSUME NEW w, Cached \ {worker[w].path} \subseteq DOMAIN entries'
  PROVE  EvictsFairly(w)
<1>1. Cached \ (DOMAIN entries' \cup {worker[w].path}) = {}
  OBVIOUS
<1> QED BY <1>1 DEF EvictsFairly

LEMMA OwnStep ==
  ASSUME IInv, CacheInv, NEW w \in Worker, WorkerStep(w)
  PROVE  CacheInv' /\ EvictsFairly(w)
<1> DEFINE p == worker[w].path
<1>0. worker[w] \in WorkerState /\ (worker[w].at # "idle" => p \in Path)
  BY DEF IInv, Times, WorkerOK
<1>1. CASE (\E q \in Path : StatSize(w, q)) \/ StatTime(w) \/ AnswerFromStat(w) \/ Reply(w)
  <2>1. UNCHANGED cacheVars
    BY <1>1 DEF StatSize, StatTime, AnswerFromStat, Reply
  <2>2. Cached \subseteq DOMAIN entries'
    BY <2>1 DEF cacheVars, Cached
  <2> QED BY <2>1, <2>2, CacheInvUnchanged, NothingGone
<1>2. CASE Hit(w)
  <2>1. p \in Cached /\ UNCHANGED <<entries, currentSize>> /\ lru' = Touch(lru, p)
        /\ recent' = <<p>> \o RemoveFirst(recent, p) /\ worker[w].at = "checked"
    BY <1>2 DEF Hit, Gets, Matches
  <2>2. Cached \subseteq DOMAIN entries'
    BY <2>1 DEF Cached
  <2> QED BY <1>0, <2>1, <2>2, HitStep, NothingGone
<1>3. CASE Load(w)
  <2> DEFINE entry == [size |-> worker[w].size, mtime |-> worker[w].mtime,
                       content |-> disk[p].mtime]
  <2>1. p \in Path
    BY <1>0, <1>3 DEF Load, Gets
  <2>2. entry \in Entry /\ entry.size <= MaxCapacity
    <3>1. worker[w].size \in Nat /\ worker[w].mtime \in Nat
      BY <1>0 DEF WorkerState
    <3>2. disk[p].mtime \in Nat
      BY <2>1 DEF IInv, Times
    <3>3. worker[w].size <= MaxCapacity
      BY <1>3 DEF Load, Gets, CanCache
    <3> QED BY <3>1, <3>2, <3>3 DEF Entry
  <2>3. Become(Store(Erase(Cache, p), p, entry)) /\ recent' = <<p>> \o RemoveFirst(recent, p)
    BY <1>3 DEF Load
  <2> HIDE DEF entry
  <2> QED BY <2>1, <2>2, <2>3, StoreStep DEF EvictsFairly, Before
<1>4. CASE LoadFails(w) \/ Bypass(w)
  <2>1. Become(Erase(Cache, p)) /\ recent' = recent
    BY <1>4 DEF LoadFails, Bypass
  <2> QED BY <2>1, EraseStep, NothingGone
<1> QED BY <1>1, <1>2, <1>3, <1>4 DEF WorkerStep

\* The steps of files and of other workers leave a worker where it is.
LEMMA OthersStay ==
  ASSUME IInv, NEW w \in Worker, WorkerStep(w), NEW v \in Worker, v # w
  PROVE  worker'[v] = worker[v]
<1>1. worker \in [Worker -> WorkerState]
  BY DEF IInv, Times
<1>2. \E s : worker' = [worker EXCEPT ![w] = s]
  BY DEF WorkerStep, StatSize, StatTime, AnswerFromStat, Hit, Load, LoadFails, Bypass, Reply, Serve
<1> QED BY <1>1, <1>2

CInv == IInv /\ CacheInv

LEMMA CInvStep ==
  ASSUME CInv, [Next]_vars
  PROVE  CInv' /\ \A w \in Worker : EvictsFairly(w)
<1>1. CASE Tick \/ \E p \in Changing : Delete(p) \/ \E size \in FileSize : Write(p, size)
  <2>1. UNCHANGED <<cacheVars, worker>>
    BY <1>1 DEF Tick, Delete, Write
  <2> QED BY <1>1, <2>1, FilesStep, CacheInvUnchanged DEF CInv, EvictsFairly
<1>2. ASSUME NEW w \in Worker, WorkerStep(w)
      PROVE  CInv' /\ \A v \in Worker : EvictsFairly(v)
  <2>1. IInv' /\ CacheInv' /\ EvictsFairly(w)
    BY <1>2, WorkerStepIInv, OwnStep DEF CInv
  <2>2. \A v \in Worker : v # w => worker'[v] = worker[v]
    BY <1>2, OthersStay DEF CInv
  <2> QED BY <2>1, <2>2 DEF CInv, EvictsFairly
<1>3. CASE UNCHANGED vars
  <2>1. UNCHANGED cacheVars /\ UNCHANGED fileVars /\ UNCHANGED worker
    BY <1>3 DEF vars
  <2>2. IInv'
    BY <2>1, CacheUnchanged DEF CInv, IInv, DiskOK, Times, WorkerOK, NeverStale, fileVars
  <2> QED BY <2>1, <2>2, CacheInvUnchanged DEF CInv, EvictsFairly
<1> QED BY <1>1, <1>2, <1>3 DEF Next

LEMMA CInvHolds == Spec => []CInv
<1>1. Init => CInv
  BY InitIInv, InitCacheInv DEF CInv
<1>2. CInv /\ [Next]_vars => CInv'
  BY CInvStep
<1> QED BY <1>1, <1>2, PTL DEF Spec

\* Every variable stays in its type, for any workers, files, sizes and capacity:
\* currentSize_, which is unsigned in the code, never falls below zero.
THEOREM CacheTypes == Spec => []TypeOK
<1>1. CInv => TypeOK
  <2> SUFFICES ASSUME CInv PROVE TypeOK
    OBVIOUS
  <2>1. disk \in [Path -> File] /\ now \in Nat /\ worker \in [Worker -> WorkerState]
        /\ \A w \in Worker : worker[w].at # "idle" => worker[w].path \in Path
    BY DEF CInv, IInv, DiskOK, Times, WorkerOK
  <2>2. Sound(Cache) /\ Cache.entries = entries /\ Cache.lru = lru /\ Cache.size = currentSize
    BY DEF CInv, CacheInv, Cache
  <2>3. lru \in Seq(Path) /\ ToSet(lru) = Cached /\ (\A p \in Cached : entries[p] \in Entry)
        /\ currentSize \in Nat
    BY <2>2, SoundFinite DEF Sound, ListsEntries, Cached
  <2>4. ToSet(lru) \subseteq Path
    BY <2>3, LenProperties DEF ToSet
  <2> QED BY <2>1, <2>3, <2>4 DEF TypeOK
<1> QED BY CInvHolds, <1>1, PTL

\* currentSize_ is the sum of the sizes of what is cached and never above the
\* capacity, and lru_ lists each cached path once, whatever calls of get and
\* remove follow each other.
THEOREM BytesAccounted == Spec => []Accounted
<1>1. CInv => Accounted
  <2> SUFFICES ASSUME CInv PROVE Accounted
    OBVIOUS
  <2> DEFINE g == [p \in Cached |-> entries[p].size]
  <2>1. Sound(Cache) /\ Cache.entries = entries /\ Cache.lru = lru /\ Cache.size = currentSize
    BY DEF CInv, CacheInv, Cache
  <2>2. IsInjective(lru) /\ ToSet(lru) = Cached /\ currentSize = Total(g, Cached)
        /\ currentSize <= MaxCapacity
    BY <2>1 DEF Sound, ListsEntries, Cached, Bytes, Sizes
  <2>3. IsFiniteSet(Cached) /\ DOMAIN g = Cached /\ \A p \in Cached : g[p] \in Nat
    BY <2>1, SoundFinite DEF Cached
  <2>4. SumFunction(g) = Total(g, Cached)
    <3> HIDE DEF g
    <3> QED BY <2>3, SumFunctionIs
  <2> QED BY <2>2, <2>4 DEF Accounted
<1> QED BY CInvHolds, <1>1, PTL

\* A call that stores an entry evicts no other unless the capacity forces it, and
\* then those that were returned least recently; no other call evicts anything
\* but its own path.
THEOREM OldestEvicted == Spec => EvictsOldestWhenFull
<1>1. CInv /\ [Next]_vars => [\A w \in Worker : EvictsFairly(w)]_vars
  BY CInvStep
<1>2. Spec => [][\A w \in Worker : EvictsFairly(w)]_vars
  BY CInvHolds, <1>1, PTL DEF Spec
<1> QED BY <1>2 DEF EvictsFairly, EvictsOldestWhenFull


----------------------------------------------------------------------------
(* The handler: ranges *)

\* The elements of all lines of a header are elements.
LEMMA FlattenType ==
  ASSUME NEW S, NEW seqs \in Seq(Seq(S))
  PROVE  FlattenSeq(seqs) \in Seq(S)
<1> DEFINE n == Len(seqs)
           X == Seq(S)
           none == <<>>
           F == [p \in X \X X |-> p[1] \o p[2]]
           G(f) == [i \in 1 .. n |-> IF i = 1 THEN seqs[i] ELSE f[i - 1] \o seqs[i]]
           c == CHOOSE f : f = G(f)
<1>1. n \in Nat /\ \A i \in 1 .. n : seqs[i] \in X
  OBVIOUS
<1>2. none \in X /\ \A a, b \in X : a \o b \in X /\ none \o a = a
  BY ConcatEmptySeq
<1>3. CASE n = 0
  BY <1>3 DEF FlattenSeq
<1>4. CASE n # 0
  <2>1. FlattenSeq(seqs) = c[n]
    BY <1>4 DEF FlattenSeq
  <2> SUFFICES c[n] \in X
    BY <2>1
  <2> HIDE DEF n, X, none
  <2>2. Foldable(n, X, X, F, none, seqs)
    BY <1>1, <1>2 DEF Foldable
  <2>3. PICK r : Runs(r, n, X, F, none, seqs)
    <3> HIDE DEF F
    <3> QED BY <2>2, RunExists
  <2>4. r \in [0 .. n -> X] /\ r[0] = none /\ \A k \in 1 .. n : r[k] = F[<<r[k - 1], seqs[k]>>]
    <3> HIDE DEF F
    <3> QED BY <2>3 DEF Runs
  <2>5. ASSUME NEW k \in 1 .. n
        PROVE  r[k] = r[k - 1] \o seqs[k]
    <3>1. k - 1 \in 0 .. n
      BY <1>1
    <3>2. r[k - 1] \in X /\ seqs[k] \in X
      BY <1>1, <2>4, <3>1
    <3>3. F[<<r[k - 1], seqs[k]>>] = r[k - 1] \o seqs[k]
      BY <3>2
    <3> HIDE DEF F
    <3> QED BY <2>4, <3>3
  <2>6. r[1] = seqs[1] /\ 1 \in 1 .. n
    <3>1. 1 \in 1 .. n /\ 1 - 1 = 0
      BY <1>1, <1>4
    <3>2. r[1] = r[0] \o seqs[1]
      BY <2>5, <3>1
    <3> HIDE DEF F
    <3> QED BY <1>1, <1>2, <2>4, <3>1, <3>2
  <2> DEFINE g == [i \in 1 .. n |-> r[i]]
  <2>7. g = G(g)
    <3>1. ASSUME NEW i \in 1 .. n
          PROVE  r[i] = IF i = 1 THEN seqs[i] ELSE g[i - 1] \o seqs[i]
      <4>1. CASE i = 1
        BY <2>6, <4>1
      <4>2. CASE i # 1
        <5>1. i - 1 \in 1 .. n
          BY <1>1, <4>2
        <5>2. g[i - 1] = r[i - 1]
          BY <5>1
        <5> HIDE DEF g, F
        <5> QED BY <2>5, <4>2, <5>2
      <4> QED BY <4>1, <4>2
    <3> QED BY <3>1
  <2>8. c = G(c)
    BY <2>7
  <2> HIDE DEF c, F, g
  <2> DEFINE K == {k \in 0 .. n : k = 0 \/ c[k] \in X}
  <2>9. 0 \in K
    BY <1>1
  <2>10. ASSUME NEW k \in 1 .. n, k - 1 \in K PROVE k \in K
    <3>1. c[k] = IF k = 1 THEN seqs[k] ELSE c[k - 1] \o seqs[k]
      BY <2>8
    <3>2. k \in 0 .. n /\ seqs[k] \in X /\ (k - 1 = 0 => k = 1)
      BY <1>1
    <3>3. k = 1 \/ c[k - 1] \in X
      BY <2>10, <3>2
    <3>4. c[k] \in X
      BY <1>2, <3>1, <3>2, <3>3
    <3> QED BY <3>2, <3>4
  <2>11. n \in K
    <3> HIDE DEF K
    <3>1. \A k \in 0 .. n : k \in K
      BY <1>1, <2>9, <2>10, SetInduction
    <3> QED BY <1>1, <3>1
  <2> QED BY <1>4, <2>11
<1> QED BY <1>3, <1>4

\* The part that is sent is in the file and is what the header asks for, and
\* it is refused only if there is no such part, or if a number does not fit,
\* whatever numbers the header holds.
THEOREM RangeParsedExactly ==
  ASSUME NEW elements \in Seq(RangeElement), NEW size \in Nat
  PROVE  LET r      == ParseRange(elements, size)
             wanted == Wanted(elements, size)
         IN  /\ r # Unsatisfiable =>
                  /\ Legal(elements)
                  /\ r.start \in Nat /\ r.end \in Nat /\ r.start <= r.end /\ r.end < size
                  /\ wanted = r.start .. r.end
             /\ r = Unsatisfiable => (Legal(elements) /\ Representable(elements) => wanted = {})
<1> DEFINE r      == ParseRange(elements, size)
           wanted == Wanted(elements, size)
           parts  == elements[1].parts
           first  == parts[1]
           last   == parts[2]
<1> USE DEF Invalid
<1>1. CASE ~WellFormed(elements)
  BY <1>1 DEF ParseRange, Legal
<1>2. CASE size = 0
  <2>1. wanted = {}
    BY <1>2 DEF Wanted
  <2> QED BY <1>2, <2>1 DEF ParseRange
<1>3. CASE WellFormed(elements) /\ size > 0
  <2>1. /\ first \in Seq(Character) /\ last \in Seq(Character)
        /\ first = <<>> => last # <<>>
    <3> DEFINE element == elements[1]
               none == <<>>
    <3>1. Len(elements) = 1 /\ Len(parts) = 2 /\ parts # <<none, none>>
      BY <1>3 DEF WellFormed
    <3>2. element \in RangeElement
      BY <3>1
    <3>3. parts \in Seq(Seq(Character))
      <4> HIDE DEF element
      <4>1. element.parts \in Seq(Seq(Character))
        BY <3>2 DEF RangeElement
      <4> QED BY <4>1 DEF element
    <3> HIDE DEF parts, none
    <3>4. first \in Seq(Character) /\ last \in Seq(Character)
      <4> DEFINE Text == Seq(Character)
      <4>1. parts \in Seq(Text) /\ Len(parts) = 2
        BY <3>1, <3>3
      <4> HIDE DEF Text
      <4>2. \A i \in 1 .. 2 : parts[i] \in Text
        BY <4>1, ElementOfSeq
      <4>3. 1 \in 1 .. 2 /\ 2 \in 1 .. 2
        OBVIOUS
      <4>4. parts[1] \in Text /\ parts[2] \in Text
        BY <4>2, <4>3
      <4> QED BY <4>4 DEF Text
    <3>5. parts = <<first, last>>
      BY <3>1, <3>3
    <3> QED BY <3>1, <3>4, <3>5 DEF none
  <2>2. Legal(elements) <=> Numeric(first) /\ Numeric(last)
    BY <1>3 DEF Legal
  <2>3. Representable(elements) <=> Value(first) <= MaxUnsigned /\ Value(last) <= MaxUnsigned
    BY DEF Representable
  <2>4. wanted = {i \in 0 .. size - 1 :
                    IF first = <<>> THEN i >= size - Value(last)
                    ELSE Value(first) <= i /\ (last = <<>> \/ i <= Value(last))}
    BY DEF Wanted
  <2>5. r = IF first = <<>> THEN Suffix(ParseUnsigned(last), size)
            ELSE Interval(ParseUnsigned(first),
                          IF last = <<>> THEN size - 1 ELSE ParseUnsigned(last), size)
    BY <1>3 DEF ParseRange
  <2> SUFFICES
        /\ r # Unsatisfiable =>
             /\ Legal(elements)
             /\ r.start \in Nat /\ r.end \in Nat /\ r.start <= r.end /\ r.end < size
             /\ wanted = r.start .. r.end
        /\ r = Unsatisfiable => (Legal(elements) /\ Representable(elements) => wanted = {})
    OBVIOUS
  <2> HIDE DEF r, wanted, first, last
  <2> DEFINE a == ParseUnsigned(first)
             b == ParseUnsigned(last)
             A == Value(first)
             B == Value(last)
  <2>6. /\ a = IF first # <<>> /\ Numeric(first) /\ A <= MaxUnsigned THEN A ELSE -1
        /\ b = IF last # <<>> /\ Numeric(last) /\ B <= MaxUnsigned THEN B ELSE -1
        /\ A \in Nat /\ B \in Nat
    BY <2>1, ParsedExactly, ValueIsNat
  <2>7. first = <<>> => Numeric(first)
    BY DEF Numeric
  <2>8. last = <<>> => Numeric(last)
    BY DEF Numeric
  <2> HIDE DEF a, b, A, B
  <2>9. CASE first = <<>>
    <3>1. r = IF b \in {-1, 0} THEN Unsatisfiable
              ELSE [start |-> IF b >= size THEN 0 ELSE size - b, end |-> size - 1]
      BY <2>5, <2>9 DEF b, Suffix
    <3>2. wanted = {i \in 0 .. size - 1 : i >= size - B}
      BY <2>4, <2>9 DEF B
    <3>3. CASE b = -1
      <4>1. ~(Legal(elements) /\ Representable(elements))
        BY <2>1, <2>2, <2>3, <2>6, <2>9, <3>3 DEF B
      <4> QED BY <3>1, <3>3, <4>1
    <3>4. CASE b = 0
      <4>1. B = 0
        BY <2>6, <3>4
      <4>2. wanted = {}
        BY <3>2, <4>1
      <4> QED BY <3>1, <3>4, <4>2
    <3>5. CASE b \notin {-1, 0}
      <4>1. Legal(elements) /\ b = B
        BY <2>2, <2>6, <2>7, <2>9, <3>5
      <4>2. r.start = (IF B >= size THEN 0 ELSE size - B) /\ r.end = size - 1
        BY <3>1, <3>5, <4>1
      <4>3. wanted = r.start .. r.end
        BY <1>3, <2>6, <3>2, <4>2
      <4>4. r.start \in Nat /\ r.end \in Nat /\ r.start <= r.end /\ r.end < size
        BY <1>3, <2>6, <3>5, <4>1, <4>2
      <4>5. r # Unsatisfiable
        BY <3>1, <3>5, <4>2, <4>4 DEF Unsatisfiable
      <4> QED BY <4>1, <4>3, <4>4, <4>5
    <3> QED BY <3>3, <3>4, <3>5
  <2>10. CASE first # <<>>
    <3> DEFINE e == IF last = <<>> THEN size - 1 ELSE b
    <3>1. r = IF a = -1 \/ e = -1 \/ a >= size \/ a > e THEN Unsatisfiable
              ELSE [start |-> a, end |-> IF e < size THEN e ELSE size - 1]
      BY <2>5, <2>10 DEF a, b, Interval
    <3>2. wanted = {i \in 0 .. size - 1 : A <= i /\ (last = <<>> \/ i <= B)}
      BY <2>4, <2>10 DEF A, B
    <3>3. CASE a = -1 \/ e = -1
      <4>1. ~(Legal(elements) /\ Representable(elements))
        BY <1>3, <2>2, <2>3, <2>6, <2>10, <3>3 DEF A, B
      <4> QED BY <3>1, <3>3, <4>1
    <3>4. CASE a # -1 /\ e # -1
      <4>1. a = A /\ Numeric(first) /\ Numeric(last) /\ (last # <<>> => e = B)
            /\ (last = <<>> => e = size - 1)
        BY <2>6, <2>8, <3>4
      <4>2. e \in Nat
        BY <1>3, <2>6, <4>1
      <4>3. \A i \in 0 .. size - 1 : (last = <<>> \/ i <= B) <=> i <= e
        BY <4>1
      <4> HIDE DEF e
      <4>4. wanted = {i \in 0 .. size - 1 : A <= i /\ i <= e}
        BY <3>2, <4>3
      <4>5. CASE A >= size \/ A > e
        <5>1. wanted = {}
          BY <2>6, <4>2, <4>4, <4>5
        <5> QED BY <3>1, <4>1, <4>5, <5>1
      <4>6. CASE A < size /\ A <= e
        <5>1. r = [start |-> A, end |-> IF e < size THEN e ELSE size - 1]
          BY <2>6, <3>1, <3>4, <4>1, <4>2, <4>6
        <5>2. r.start = A /\ r.end = IF e < size THEN e ELSE size - 1
          BY <5>1
        <5>3. r.start \in Nat /\ r.end \in Nat /\ r.start <= r.end /\ r.end < size
          BY <1>3, <2>6, <4>2, <4>6, <5>2
        <5>4. wanted = r.start .. r.end
          BY <1>3, <2>6, <4>2, <4>4, <4>6, <5>2
        <5>5. r # Unsatisfiable /\ Legal(elements)
          BY <2>2, <4>1, <5>2, <5>3 DEF Unsatisfiable
        <5> QED BY <5>3, <5>4, <5>5
      <4> QED BY <2>6, <4>2, <4>5, <4>6
    <3> QED BY <3>3, <3>4
  <2> QED BY <2>9, <2>10
<1> QED BY <1>1, <1>2, <1>3

----------------------------------------------------------------------------
(* Paths *)

\* Only regular files under the root are served, and only directories under it
\* listed, whatever the tree and its links.
LEMMA ResolvedInside ==
  ASSUME NEW target, NEW gone, NEW r \in Resolutions(target, gone)
  PROVE  /\ r.status \in {"BadRequest", "Forbidden", "NotFound", "Error", "Listing", "File"}
         /\ r.status = "File" => r.node \in Inside /\ r.node \in Regular
         /\ r.status = "Listing" => r.node \in Inside
<1> DEFINE place == Walk(target, gone)
<1>1. CASE r = Outcome("Error", Root)
  BY <1>1 DEF Outcome
<1>2. CASE r = ResolveRequestPath(target, gone)
  <2>1. CASE BadTarget(target)
    BY <1>2, <2>1 DEF ResolveRequestPath, Outcome
  <2>2. CASE ~BadTarget(target) /\ place.node \notin Inside
    BY <1>2, <2>2 DEF ResolveRequestPath, Outcome
  <2>3. CASE ~BadTarget(target) /\ place.node \in Inside /\ place.missing
    BY <1>2, <2>3 DEF ResolveRequestPath, Outcome
  <2>4. CASE ~BadTarget(target) /\ place.node \in Inside /\ ~place.missing
    <3>1. CASE place.node \in Directory
      <4> DEFINE i == Follow([node |-> place.node, missing |-> FALSE], "index.html", gone)
      <4>1. r = Index(place.node, gone)
        BY <1>2, <2>4, <3>1 DEF ResolveRequestPath
      <4>2. CASE i.missing
        BY <2>4, <4>1, <4>2 DEF Index, Outcome
      <4>3. CASE ~i.missing
        BY <4>1, <4>3 DEF Index, Outcome
      <4> QED
        BY <4>2, <4>3
    <3>2. CASE place.node \notin Directory
      BY <1>2, <2>4, <3>2 DEF ResolveRequestPath, Outcome
    <3> QED
      BY <3>1, <3>2
  <2> QED
    BY <2>1, <2>2, <2>3, <2>4
<1> QED
  BY <1>1, <1>2 DEF Resolutions

----------------------------------------------------------------------------
(* The inductive invariant.  File times never run back, so what a client   *)
(* holds is never ahead of the file, and never behind the time of its ETag *)
(* (NeverStale); when its ETag matches, the time just looked at lies on    *)
(* both sides of the content it holds.                                     *)

\* A response that was kept is between its ETag's time and the file's.
Good(c) ==
  c # NoCopy =>
    /\ c.tag.path \in Path
    /\ c.tag.mtime \in Nat /\ c.content \in Nat
    /\ c.tag.mtime <= c.content /\ c.content <= disk[c.tag.path].mtime

\* A complete response, before a client can keep it.
GoodReply(w) ==
  reply[w].status = 200 /\ reply[w].tag # NoTag =>
    /\ reply[w].tag.path = request[w].node /\ request[w].node \in Path
    /\ reply[w].tag.mtime \in Nat /\ reply[w].tag.mtime <= disk[request[w].node].mtime
    /\ ~request[w].head /\ reply[w].body.what # "sendfile" =>
         /\ reply[w].body.content \in Nat
         /\ reply[w].tag.mtime <= reply[w].body.content
         /\ reply[w].body.content <= disk[request[w].node].mtime

\* The worker's call of the cache is about the file of its request.
InStep(w) ==
  /\ worker[w].at # "idle" => request[w].busy /\ worker[w].path = request[w].node
  /\ Replied(w) => worker[w].at \in {"idle", "served"}
  /\ Working(w) => request[w].node \in Path

\* The copy a request is conditional on is not ahead of the time looked at.
HeldBefore(w) ==
  /\ request[w].busy => Good(request[w].held)
  /\ worker[w].at = "checked" /\ request[w].held # NoCopy
       /\ request[w].held.tag.path = worker[w].path =>
     request[w].held.content <= worker[w].mtime

TrueNotModified(w) ==
  reply[w].status = 304 /\ ~request[w].any => request[w].held.content = reply[w].tag.mtime

FromRoot(w) ==
  /\ Working(w) \/ reply[w].status \in {200, 206, 304, 416} => request[w].node \in Inside
  /\ reply[w].status \in {200, 206, 304, 416} =>
       \A name \in reply[w].listed : Child[request[w].node][name] \in Inside

Local(w) == InStep(w) /\ HeldBefore(w) /\ GoodReply(w) /\ TrueNotModified(w) /\ FromRoot(w)

EntriesInPast ==
  \A p \in Cached : p \in Path /\ entries[p].content <= disk[p].mtime

SInv ==
  /\ IInv
  /\ EntriesInPast
  /\ Good(copy)
  /\ DOMAIN request = Worker /\ DOMAIN reply = Worker
  /\ \A w \in Worker : Local(w)

LEMMA InitSInv == StaticInit => SInv
<1> SUFFICES ASSUME StaticInit PROVE SInv
  OBVIOUS
<1>1. IInv /\ Cached = {}
  BY InitIInv DEF StaticInit, Init, Cached
<1>2. \A w \in Worker : worker[w] = Idle /\ request[w] = NoRequest /\ reply[w] = NoReply
  BY DEF StaticInit, Init
<1>3. Idle.at = "idle" /\ ~NoRequest.busy /\ NoReply.status = 0
  BY DEF Idle, NoRequest, NoReply
<1>4. \A w \in Worker : Local(w)
  BY <1>2, <1>3 DEF Local, InStep, HeldBefore, GoodReply, TrueNotModified, FromRoot,
                    Replied, Working
<1>5. Good(copy) /\ DOMAIN request = Worker /\ DOMAIN reply = Worker
  BY DEF StaticInit, Good
<1> QED
  BY <1>1, <1>4, <1>5 DEF SInv, EntriesInPast

\* What is said of a worker stays true while it rests and the files' times only
\* grow.
LEMMA RestingWorker ==
  ASSUME SInv, NEW v \in Worker,
         request'[v] = request[v], reply'[v] = reply[v], worker'[v] = worker[v],
         \A p \in Path : disk'[p].mtime \in Nat /\ disk[p].mtime <= disk'[p].mtime
  PROVE  Local(v)'
<1>1. Local(v) /\ \A p \in Path : disk[p].mtime \in Nat
  BY DEF SInv, IInv, Times
<1>2. InStep(v)' /\ TrueNotModified(v)' /\ FromRoot(v)'
  BY <1>1 DEF Local, InStep, TrueNotModified, FromRoot, Working, Replied
<1>3. HeldBefore(v)'
  BY <1>1 DEF Local, HeldBefore, Good
<1>4. GoodReply(v)'
  BY <1>1 DEF Local, GoodReply
<1> QED
  BY <1>2, <1>3, <1>4 DEF Local

LEMMA CopyStaysGood ==
  ASSUME NEW c, Good(c),
         \A p \in Path : /\ disk[p].mtime \in Nat /\ disk'[p].mtime \in Nat
                         /\ disk[p].mtime <= disk'[p].mtime
  PROVE  c # NoCopy => /\ c.tag.path \in Path
                       /\ c.tag.mtime \in Nat /\ c.content \in Nat
                       /\ c.tag.mtime <= c.content /\ c.content <= disk'[c.tag.path].mtime
BY DEF Good

LEMMA FilesKeepSInv ==
  ASSUME SInv, Files
  PROVE  SInv'
<1>1. Tick \/ \E p \in Changing : Delete(p) \/ \E size \in FileSize : Write(p, size)
  BY DEF Files
<1>2. IInv'
  BY <1>1, FilesStep DEF SInv
<1>3. UNCHANGED <<cacheVars, worker, staticVars>>
  BY <1>1 DEF Files, Tick, Delete, Write
<1>4. \A p \in Path : /\ disk[p].mtime \in Nat /\ disk'[p].mtime \in Nat
                      /\ disk[p].mtime <= disk'[p].mtime
  BY <1>1 DEF SInv, IInv, DiskOK, Times, File, Tick, Delete, Write
<1>5. \A w \in Worker : Local(w)'
  BY <1>3, <1>4, RestingWorker DEF staticVars
<1>6. Good(copy)'
  BY <1>3, <1>4, CopyStaysGood DEF SInv, Good, staticVars
<1>7. EntriesInPast'
  BY <1>3, <1>4 DEF SInv, IInv, Times, EntriesInPast, Cached, cacheVars
<1> QED
  BY <1>2, <1>3, <1>5, <1>6, <1>7 DEF SInv, staticVars

\* The cache keeps holding what is no newer than the files.
LEMMA CacheStaysInPast ==
  ASSUME SInv, NEW w \in Worker, WorkerStep(w)
  PROVE  EntriesInPast' /\ UNCHANGED fileVars
<1>1. worker[w].at # "idle" => worker[w].path \in Path
  BY DEF SInv, IInv, Times, WorkerOK
<1>2. \A p \in Path : disk[p].mtime \in Nat
  BY DEF SInv, IInv, Times
<1>3. CASE Load(w)
  <2> DEFINE p == worker[w].path
             entry == [size |-> worker[w].size, mtime |-> worker[w].mtime,
                       content |-> disk[p].mtime]
  <2>1. p \in Path /\ UNCHANGED fileVars
    BY <1>1, <1>3 DEF Load, Gets
  <2>2. entries' = Store(Erase(Cache, p), p, entry).entries
    BY <1>3 DEF Load, Become
  <2> SUFFICES ASSUME NEW x \in Cached'
               PROVE  x \in Path /\ entries'[x].content <= disk[x].mtime
    BY <2>1 DEF EntriesInPast, fileVars
  <2>3. \/ x = p /\ entries'[x] = entry
        \/ x \in DOMAIN Erase(Cache, p).entries /\ entries'[x] = Erase(Cache, p).entries[x]
    BY <2>2, StoreKeeps DEF Cached
  <2>4. \/ x = p /\ entries'[x] = entry
        \/ x \in Cached /\ entries'[x] = entries[x]
    BY <2>3, EraseKeeps DEF Cache, Cached
  <2> QED
    BY <1>2, <2>1, <2>4 DEF SInv, EntriesInPast
<1>4. CASE LoadFails(w) \/ Bypass(w)
  <2>1. UNCHANGED fileVars /\ entries' = Erase(Cache, worker[w].path).entries
    BY <1>4 DEF LoadFails, Bypass, Become
  <2>2. \A q \in Cached' : q \in Cached /\ entries'[q] = entries[q]
    BY <2>1, EraseKeeps DEF Cache, Cached
  <2> QED
    BY <2>1, <2>2 DEF SInv, EntriesInPast, fileVars
<1>5. CASE \/ \E p \in Path : StatSize(w, p)
           \/ StatTime(w) \/ AnswerFromStat(w) \/ Hit(w) \/ Reply(w)
  <2>1. UNCHANGED <<fileVars, entries>>
    BY <1>5 DEF StatSize, StatTime, AnswerFromStat, Hit, Reply, cacheVars
  <2> QED
    BY <2>1 DEF SInv, EntriesInPast, Cached, fileVars
<1> QED
  BY <1>3, <1>4, <1>5 DEF WorkerStep

\* What a step of a worker, or of the loop on its behalf, has to show.
LEMMA WorkerMoves ==
  ASSUME SInv, NEW w \in Worker, WorkerStep(w) \/ UNCHANGED vars,
         DOMAIN request' = Worker, DOMAIN reply' = Worker,
         \A v \in Worker \ {w} : request'[v] = request[v] /\ reply'[v] = reply[v],
         Good(copy)', Local(w)'
  PROVE  SInv'
<1>1. IInv' /\ EntriesInPast' /\ UNCHANGED fileVars
  <2>1. CASE WorkerStep(w)
    BY <2>1, WorkerStepIInv, CacheStaysInPast DEF SInv
  <2>2. CASE UNCHANGED vars
    BY <2>2, CacheUnchanged
       DEF SInv, IInv, DiskOK, Times, WorkerOK, NeverStale, EntriesInPast, Cached, vars,
           fileVars, cacheVars
  <2> QED
    BY <2>1, <2>2
<1>2. ASSUME NEW v \in Worker, v # w
      PROVE  Local(v)'
  <2>1. request'[v] = request[v] /\ reply'[v] = reply[v]
    BY <1>2
  <2>2. worker'[v] = worker[v]
    BY <1>2 DEF SInv, IInv, Times, WorkerStep, StatSize, StatTime, AnswerFromStat, Hit, Load,
                LoadFails, Bypass, Reply, Serve, vars
  <2>3. \A p \in Path : disk'[p].mtime \in Nat /\ disk[p].mtime <= disk'[p].mtime
    BY <1>1 DEF SInv, IInv, Times, fileVars
  <2> QED
    BY <2>1, <2>2, <2>3, RestingWorker
<1> QED
  BY <1>1, <1>2 DEF SInv

\* A worker's step that leaves its request alone, with or without a response.
LEMMA AnswerFields ==
  ASSUME SInv, NEW w \in Worker, NEW r, Answer(w, r)
  PROVE  /\ UNCHANGED <<request, copy>> /\ reply'[w] = r /\ DOMAIN reply' = Worker
         /\ \A v \in Worker \ {w} : reply'[v] = reply[v]
BY DEF Answer, SInv

LEMMA OwnMove ==
  ASSUME SInv, NEW w \in Worker, WorkerStep(w) \/ UNCHANGED vars, UNCHANGED <<request, copy>>,
         UNCHANGED reply \/ \E r : Answer(w, r), Local(w)'
  PROVE  SInv'
<1>1. disk' = disk
  BY CacheStaysInPast DEF fileVars, vars
<1>2. Good(copy)'
  BY <1>1 DEF SInv, Good
<1>3. DOMAIN reply' = Worker /\ \A v \in Worker \ {w} : reply'[v] = reply[v]
  BY AnswerFields DEF SInv
<1> QED
  BY <1>2, <1>3, WorkerMoves DEF SInv

\* What a conditional request relies on does not change under it.
LEMMA HeldStaysGood ==
  ASSUME SInv, NEW w \in Worker, UNCHANGED <<request, disk>>
  PROVE  request[w].busy => Good(request[w].held)'
BY DEF SInv, Local, HeldBefore, Good

\* What the steps of FileCache make of the worker that takes them.
LEMMA StepFields ==
  ASSUME SInv, NEW w \in Worker
  PROVE  /\ \A p \in Path : StatSize(w, p) => worker'[w].at = "sized" /\ worker'[w].path = p
         /\ StatTime(w) =>
              \/ worker'[w].at = "idle" /\ disk[worker[w].path].size = Gone
              \/ /\ worker'[w].at = "checked" /\ worker'[w].path = worker[w].path
                 /\ worker'[w].mtime = disk[worker[w].path].mtime
         /\ AnswerFromStat(w) \/ LoadFails(w) \/ Bypass(w) \/ Reply(w) =>
              worker'[w].at = "idle"
         /\ Hit(w) => /\ worker'[w].at = "served" /\ worker'[w].path = worker[w].path
                      /\ worker'[w].content = entries[worker[w].path].content
         /\ Load(w) => /\ worker'[w].at = "served" /\ worker'[w].path = worker[w].path
                       /\ worker'[w].content = disk[worker[w].path].mtime
<1>1. worker \in [Worker -> WorkerState] /\ Idle.at = "idle"
  BY DEF SInv, IInv, Times, Idle
<1>2. worker[w] \in WorkerState
  BY <1>1
<1>3. ASSUME NEW p \in Path, StatSize(w, p)
      PROVE  worker'[w].at = "sized" /\ worker'[w].path = p
  BY <1>1, <1>3 DEF StatSize, Idle
<1>4. ASSUME StatTime(w)
      PROVE  \/ worker'[w].at = "idle" /\ disk[worker[w].path].size = Gone
             \/ /\ worker'[w].at = "checked" /\ worker'[w].path = worker[w].path
                /\ worker'[w].mtime = disk[worker[w].path].mtime
  BY <1>1, <1>2, <1>4 DEF StatTime, WorkerState
<1>5. ASSUME AnswerFromStat(w) \/ LoadFails(w) \/ Bypass(w) \/ Reply(w)
      PROVE  worker'[w].at = "idle"
  BY <1>1, <1>5 DEF AnswerFromStat, LoadFails, Bypass, Reply
<1>6. ASSUME Hit(w)
      PROVE  /\ worker'[w].at = "served" /\ worker'[w].path = worker[w].path
             /\ worker'[w].content = entries[worker[w].path].content
  BY <1>1, <1>2, <1>6 DEF Hit, Serve, WorkerState
<1>7. ASSUME Load(w)
      PROVE  /\ worker'[w].at = "served" /\ worker'[w].path = worker[w].path
             /\ worker'[w].content = disk[worker[w].path].mtime
  BY <1>1, <1>2, <1>7 DEF Load, Serve, WorkerState
<1> QED
  BY <1>3, <1>4, <1>5, <1>6, <1>7

LEMMA ResponseFields ==
  ASSUME NEW status, NEW body, NEW head
  PROVE  LET r == Response(status, body, head)
         IN  /\ r.status = status /\ r.tag = NoTag /\ r.listed = {}
             /\ r.body = IF head THEN NoBody ELSE body
BY DEF Response

LEMMA TextFields ==
  ASSUME NEW status, NEW head
  PROVE  LET r == TextResponse(status, head)
         IN  r.status = status /\ r.tag = NoTag /\ r.listed = {}
BY ResponseFields DEF TextResponse

LEMMA ListingFields ==
  ASSUME NEW q, NEW listed
  PROVE  LET r == ListingResponse(q, listed)
         IN  r.status = 200 /\ r.tag = NoTag /\ r.listed = listed
<1> DEFINE html == PageBody(1 + Cardinality(listed))
           body == Compressed(q, html, TRUE)
           r    == Response(200, body, q.head)
<1>1. r.status = 200 /\ r.tag = NoTag
  BY DEF Response
<1>2. ListingResponse(q, listed) = [r EXCEPT !.listed = listed]
  BY DEF ListingResponse
<1>3. "listed" \in DOMAIN r
  BY DEF Response
<1> HIDE DEF r
<1> QED
  BY <1>1, <1>2, <1>3

LEMMA BeginKeeps ==
  ASSUME SInv, NEW w \in Worker, Begin(w)
  PROVE  SInv'
<1>1. \E q, r :
        /\ request' = [request EXCEPT ![w] = q] /\ reply' = [reply EXCEPT ![w] = r]
        /\ q.busy /\ (q.held = copy \/ q.held = NoCopy)
        /\ r.status \in {0, 200, 400, 403, 404, 500}
        /\ r.status = 0 => q.node \in Inside /\ q.node \in Path
        /\ r.status = 200 =>
             /\ r.tag = NoTag /\ q.node \in Inside
             /\ \A name \in r.listed : Child[q.node][name] \in Inside
  <2> PICK t \in Request :
        \E resolved \in Resolutions(t.target, Missing) :
          LET q == Parsed(t, resolved.node)
          IN  /\ request' = [request EXCEPT ![w] = q]
              /\ reply' = [reply EXCEPT ![w] =
                   FirstReply(q, resolved.status, Listed(resolved.node, Missing))]
    BY DEF Begin
  <2> PICK resolved \in Resolutions(t.target, Missing) :
        LET q == Parsed(t, resolved.node)
        IN  /\ request' = [request EXCEPT ![w] = q]
            /\ reply' = [reply EXCEPT ![w] =
                 FirstReply(q, resolved.status, Listed(resolved.node, Missing))]
    OBVIOUS
  <2> DEFINE q      == Parsed(t, resolved.node)
             listed == Listed(resolved.node, Missing)
             r      == FirstReply(q, resolved.status, listed)
  <2>1. request' = [request EXCEPT ![w] = q] /\ reply' = [reply EXCEPT ![w] = r]
    OBVIOUS
  <2>2. q.busy /\ q.node = resolved.node /\ (q.held = copy \/ q.held = NoCopy)
    BY DEF Parsed
  <2>3. /\ resolved.status \in {"BadRequest", "Forbidden", "NotFound", "Error", "Listing", "File"}
        /\ resolved.status = "File" => resolved.node \in Inside /\ resolved.node \in Path
        /\ resolved.status = "Listing" => resolved.node \in Inside
    BY ResolvedInside, StaticFilesAssumption
  <2>4. \A name \in listed : Child[resolved.node][name] \in Inside
    BY DEF Listed
  <2> HIDE DEF q, listed
  <2>5. /\ r.status \in {0, 200, 400, 403, 404, 500}
        /\ r.status = 0 => resolved.status = "File"
        /\ r.status = 200 => /\ resolved.status = "Listing" /\ r.tag = NoTag
                             /\ r.listed = listed
    BY <2>3, TextFields, ListingFields DEF NoReply, FirstReply, ErrorStatus
  <2> HIDE DEF r
  <2>6. r.status = 0 => q.node \in Inside /\ q.node \in Path
    BY <2>2, <2>3, <2>5
  <2>7. r.status = 200 =>
          /\ r.tag = NoTag /\ q.node \in Inside
          /\ \A name \in r.listed : Child[q.node][name] \in Inside
    BY <2>2, <2>3, <2>4, <2>5
  <2> WITNESS q, r
  <2> QED
    BY <2>1, <2>2, <2>5, <2>6, <2>7
<1> PICK q, r :
      /\ request' = [request EXCEPT ![w] = q] /\ reply' = [reply EXCEPT ![w] = r]
      /\ q.busy /\ (q.held = copy \/ q.held = NoCopy)
      /\ r.status \in {0, 200, 400, 403, 404, 500}
      /\ r.status = 0 => q.node \in Inside /\ q.node \in Path
      /\ r.status = 200 =>
           /\ r.tag = NoTag /\ q.node \in Inside
           /\ \A name \in r.listed : Child[q.node][name] \in Inside
  BY <1>1
<1>2. UNCHANGED <<vars, copy>>
  BY DEF Begin
<1>3. request'[w] = q /\ reply'[w] = r /\ worker' = worker /\ disk' = disk
  BY <1>2 DEF SInv, vars, fileVars
<1>4. worker[w].at = "idle"
  BY DEF Begin, SInv, Local, InStep
<1>5. Good(copy)' /\ Good(q.held)'
  BY <1>2, <1>3 DEF Good, SInv
<1>6. InStep(w)'
  BY <1>3, <1>4 DEF InStep, Working, Replied
<1>7. HeldBefore(w)'
  BY <1>3, <1>4, <1>5 DEF HeldBefore
<1>8. GoodReply(w)' /\ TrueNotModified(w)'
  BY <1>3 DEF GoodReply, TrueNotModified
<1>9. FromRoot(w)'
  BY <1>3 DEF FromRoot, Working, Replied
<1> QED
  BY <1>2, <1>5, <1>6, <1>7, <1>8, <1>9, WorkerMoves DEF Local, SInv

\* A short text in answer to the request, after which the worker rests.
LEMMA TextKeeps ==
  ASSUME SInv, NEW w \in Worker, WorkerStep(w) \/ UNCHANGED vars,
         Working(w), worker'[w].at = "idle",
         NEW r, Answer(w, r), r.tag = NoTag, r.listed = {}, r.status \in {416, 500}
  PROVE  SInv'
<1>1. request' = request /\ reply'[w] = r /\ disk' = disk
  BY AnswerFields, CacheStaysInPast DEF fileVars, vars
<1>2. InStep(w)'
  BY <1>1 DEF SInv, Local, InStep, Working, Replied
<1>3. HeldBefore(w)'
  BY <1>1, HeldStaysGood DEF HeldBefore
<1>4. GoodReply(w)' /\ TrueNotModified(w)'
  BY <1>1 DEF GoodReply, TrueNotModified
<1>5. FromRoot(w)'
  BY <1>1 DEF SInv, Local, FromRoot, Working, Replied
<1> QED
  BY <1>2, <1>3, <1>4, <1>5, OwnMove, AnswerFields DEF Local

LEMMA LookAtSizeKeeps ==
  ASSUME SInv, NEW w \in Worker, LookAtSize(w)
  PROVE  SInv'
<1>1. CASE StatSize(w, request[w].node) /\ UNCHANGED staticVars
  <2>1. Working(w) /\ request[w].node \in Path
    BY DEF LookAtSize, SInv, Local, InStep
  <2>2. worker'[w].at = "sized" /\ worker'[w].path = request[w].node
    BY <1>1, <2>1, StepFields
  <2>3. WorkerStep(w) /\ disk' = disk
    BY <1>1, <2>1 DEF WorkerStep, StatSize, fileVars
  <2>4. InStep(w)' /\ TrueNotModified(w)' /\ FromRoot(w)' /\ GoodReply(w)'
    BY <1>1, <2>1, <2>2, <2>3
       DEF SInv, Local, InStep, TrueNotModified, FromRoot, GoodReply, Working, Replied, staticVars
  <2>5. HeldBefore(w)'
    BY <1>1, <2>2, <2>3, HeldStaysGood DEF HeldBefore, staticVars
  <2> QED
    BY <1>1, <2>3, <2>4, <2>5, OwnMove DEF Local, staticVars
<1>2. CASE Answer(w, TextResponse(500, request[w].head)) /\ UNCHANGED vars
  <2>1. Working(w) /\ worker'[w].at = "idle"
    BY <1>2 DEF LookAtSize, vars
  <2> QED
    BY <1>2, <2>1, TextFields, TextKeeps
<1> QED
  BY <1>1, <1>2 DEF LookAtSize

LEMMA LookAtTimeKeeps ==
  ASSUME SInv, NEW w \in Worker, LookAtTime(w)
  PROVE  SInv'
<1>1. Working(w) /\ StatTime(w) /\ WorkerStep(w) /\ disk' = disk
  BY DEF LookAtTime, WorkerStep, StatTime, fileVars
<1>2. request[w].busy /\ worker[w].path = request[w].node /\ worker[w].path \in Path
  BY <1>1 DEF StatTime, SInv, Local, InStep
<1>3. CASE worker[w].path \in Missing
  <2>1. worker'[w].at = "idle"
    BY <1>1, <1>2, <1>3 DEF StatTime, Missing, SInv, IInv, Times, Idle
  <2>2. Answer(w, TextResponse(500, request[w].head))
    BY <1>3 DEF LookAtTime
  <2> QED
    BY <1>1, <2>1, <2>2, TextFields, TextKeeps
<1>4. CASE worker[w].path \notin Missing
  <2>1. UNCHANGED staticVars
    BY <1>4 DEF LookAtTime
  <2>2. worker'[w].at = "checked" /\ worker'[w].path = worker[w].path
        /\ worker'[w].mtime = disk[worker[w].path].mtime
    BY <1>1, <1>2, <1>4, StepFields DEF Missing
  <2>3. InStep(w)' /\ TrueNotModified(w)' /\ FromRoot(w)' /\ GoodReply(w)'
    BY <1>1, <1>2, <2>1, <2>2
       DEF SInv, Local, InStep, TrueNotModified, FromRoot, GoodReply, Working, Replied, staticVars
  <2>4. HeldBefore(w)'
    <3>1. Good(request[w].held)
      BY <1>2 DEF SInv, Local, HeldBefore
    <3> QED
      BY <1>1, <1>2, <2>1, <2>2, <3>1, HeldStaysGood DEF HeldBefore, Good, staticVars
  <2> QED
    BY <1>1, <2>1, <2>3, <2>4, OwnMove DEF Local, staticVars
<1> QED
  BY <1>3, <1>4

LEMMA NotModifiedKeeps ==
  ASSUME SInv, NEW w \in Worker, NotModified(w)
  PROVE  SInv'
<1> DEFINE r == [Response(304, NoBody, TRUE) EXCEPT !.tag = Tag(w)]
<1>1. Working(w) /\ AnswerFromStat(w) /\ WorkerStep(w) /\ NoneMatch(w) /\ Answer(w, r)
  BY DEF NotModified, WorkerStep
<1>2. r.status = 304 /\ r.tag = Tag(w) /\ r.listed = {}
  BY DEF Response
<1> HIDE DEF r
<1>3. worker[w].at = "checked" /\ worker'[w].at = "idle" /\ disk' = disk
  BY <1>1, StepFields, CacheStaysInPast DEF AnswerFromStat, fileVars
<1>4. request' = request /\ reply'[w] = r
  BY <1>1, AnswerFields
<1>5. InStep(w)' /\ FromRoot(w)' /\ GoodReply(w)'
  BY <1>1, <1>2, <1>3, <1>4
     DEF SInv, Local, InStep, FromRoot, GoodReply, Working, Replied
<1>6. HeldBefore(w)'
  BY <1>3, <1>4, HeldStaysGood DEF HeldBefore
<1>7. ~request[w].any => request[w].held.content = Tag(w).mtime
  <2> SUFFICES ASSUME ~request[w].any
               PROVE  request[w].held.content = Tag(w).mtime
    OBVIOUS
  <2>1. request[w].held # NoCopy /\ request[w].held.tag = Tag(w)
    BY <1>1 DEF NoneMatch
  <2>2. Tag(w).path = worker[w].path /\ Tag(w).mtime = worker[w].mtime
    BY DEF Tag, ETag
  <2>3. request[w].held.content <= Tag(w).mtime
    BY <1>3, <2>1, <2>2 DEF SInv, Local, HeldBefore
  <2>4. Tag(w).mtime <= request[w].held.content /\ Tag(w).mtime \in Nat
        /\ request[w].held.content \in Nat
    BY <1>1, <2>1 DEF SInv, Local, HeldBefore, Good, Working
  <2> QED
    BY <2>3, <2>4
<1>8. TrueNotModified(w)'
  BY <1>2, <1>4, <1>7 DEF TrueNotModified
<1> QED
  BY <1>1, <1>4, <1>5, <1>6, <1>8, OwnMove, AnswerFields DEF Local

LEMMA FailuresKeep ==
  ASSUME SInv, NEW w \in Worker, RangeNotSatisfiable(w) \/ CacheFails(w)
  PROVE  SInv'
<1>1. CASE RangeNotSatisfiable(w)
  <2> DEFINE text == TextResponse(416, request[w].head)
             r    == [text EXCEPT !.total = worker[w].size]
  <2>1. Working(w) /\ AnswerFromStat(w) /\ WorkerStep(w) /\ Answer(w, r)
    BY <1>1 DEF RangeNotSatisfiable, WorkerStep
  <2>2. r.status = 416 /\ r.tag = NoTag /\ r.listed = {}
    BY DEF TextResponse, Response
  <2> HIDE DEF r
  <2>3. worker'[w].at = "idle"
    BY <2>1, StepFields
  <2> QED
    BY <2>1, <2>2, <2>3, TextKeeps
<1>2. CASE CacheFails(w)
  <2>1. Working(w) /\ WorkerStep(w) /\ Answer(w, TextResponse(500, request[w].head))
    BY <1>2 DEF CacheFails, Proceeds, WorkerStep
  <2>2. worker'[w].at = "idle"
    BY <1>2, StepFields DEF CacheFails
  <2> QED
    BY <2>1, <2>2, TextFields, TextKeeps
<1> QED
  BY <1>1, <1>2

LEMMA FileFields ==
  ASSUME NEW w, NEW body
  PROVE  LET r == FileResponse(w, body)
         IN  /\ r.status \in {200, 206} /\ r.tag = Tag(w) /\ r.listed = {}
             /\ r.body = IF request[w].head THEN NoBody ELSE body
BY DEF FileResponse, Response

\* A file, or the part of it asked for, in answer to the request.
LEMMA FileKeeps ==
  ASSUME SInv, NEW w \in Worker, WorkerStep(w), Proceeds(w),
         NEW body, Answer(w, FileResponse(w, body)),
         \/ worker'[w].at = "idle" /\ body.what = "sendfile"
         \/ /\ worker'[w].at = "served" /\ worker'[w].path = worker[w].path
            /\ body.content \in Nat /\ worker[w].mtime <= body.content
            /\ body.content <= disk[worker[w].path].mtime
  PROVE  SInv'
<1> DEFINE r == FileResponse(w, body)
<1>1. /\ r.status \in {200, 206} /\ r.tag = Tag(w) /\ r.listed = {}
      /\ ~request[w].head => r.body = body
  BY FileFields
<1>2. Tag(w).path = worker[w].path /\ Tag(w).mtime = worker[w].mtime
  BY DEF Tag, ETag
<1> HIDE DEF r
<1>3. request' = request /\ reply'[w] = r /\ disk' = disk
  BY AnswerFields, CacheStaysInPast DEF fileVars, r
<1>4. Working(w) /\ worker[w].at = "checked" /\ request[w].busy
      /\ worker[w].path = request[w].node /\ request[w].node \in Path
      /\ worker[w].mtime \in Nat /\ worker[w].mtime <= disk[worker[w].path].mtime
  BY DEF Proceeds, Working, SInv, Local, InStep, IInv, Times, WorkerState
<1>5. InStep(w)' /\ TrueNotModified(w)' /\ FromRoot(w)'
  BY <1>1, <1>3, <1>4
     DEF SInv, Local, InStep, FromRoot, TrueNotModified, Working, Replied
<1>6. HeldBefore(w)'
  BY <1>3, HeldStaysGood DEF HeldBefore
<1>7. GoodReply(w)'
  BY <1>1, <1>2, <1>3, <1>4 DEF GoodReply
<1> QED
  BY <1>3, <1>5, <1>6, <1>7, OwnMove, AnswerFields DEF Local

LEMMA ServingKeeps ==
  ASSUME SInv, NEW w \in Worker, FromCache(w) \/ BySendfile(w)
  PROVE  SInv'
<1>1. worker[w].at = "checked" /\ worker[w].path \in Path
  BY DEF FromCache, BySendfile, Proceeds, SInv, IInv, Times, WorkerOK
<1>2. worker[w].mtime \in Nat /\ disk[worker[w].path].mtime \in Nat
      /\ worker[w].mtime <= disk[worker[w].path].mtime
  BY <1>1 DEF SInv, IInv, Times, WorkerState
<1>3. CASE FromCache(w)
  <2> DEFINE plain == [NoBody EXCEPT !.what = "file", !.content = worker'[w].content,
                                     !.first = Part(w).first, !.length = Part(w).length]
             body  == Compressed(request[w], plain, worker[w].path \in Compressible)
  <2>1. Proceeds(w) /\ Answer(w, FileResponse(w, body)) /\ WorkerStep(w)
    BY <1>3 DEF FromCache, WorkerStep
  <2>2. body.content = worker'[w].content
    BY DEF NoBody, Compressed, CompressedBody
  <2> HIDE DEF body
  <2>3. worker'[w].at = "served" /\ worker'[w].path = worker[w].path
    BY <1>3, StepFields DEF FromCache
  <2>4. body.content \in Nat /\ worker[w].mtime <= body.content
        /\ body.content <= disk[worker[w].path].mtime
    <3>1. CASE Load(w)
      BY <1>2, <2>2, <3>1, StepFields
    <3>2. CASE Hit(w)
      <4> DEFINE entry == entries[worker[w].path]
      <4>1. worker[w].path \in Cached /\ entry.mtime = worker[w].mtime
            /\ body.content = entry.content
        BY <2>2, <3>2, StepFields DEF Hit, Gets, Matches
      <4>2. entry.content \in Nat /\ entry.mtime <= entry.content
            /\ entry.content <= disk[worker[w].path].mtime
        BY <4>1 DEF SInv, IInv, Times, EntriesInPast
      <4> QED
        BY <4>1, <4>2
    <3> QED
      BY <1>3, <3>1, <3>2 DEF FromCache
  <2> QED
    BY <2>1, <2>3, <2>4, FileKeeps
<1>4. CASE BySendfile(w)
  <2> DEFINE body == [NoBody EXCEPT !.what = "sendfile", !.first = Part(w).first,
                                    !.length = Part(w).length]
  <2>1. Proceeds(w) /\ Answer(w, FileResponse(w, body)) /\ WorkerStep(w)
    BY <1>4 DEF BySendfile, WorkerStep
  <2>2. body.what = "sendfile"
    BY DEF NoBody
  <2> HIDE DEF body
  <2>3. worker'[w].at = "idle"
    BY <1>4, StepFields DEF BySendfile
  <2> QED
    BY <2>1, <2>2, <2>3, FileKeeps
<1> QED
  BY <1>3, <1>4

LEMMA DeliverKeeps ==
  ASSUME SInv, NEW w \in Worker, Deliver(w)
  PROVE  SInv'
<1> DEFINE r    == reply[w]
           sent == IF r.body.what = "sendfile" THEN disk[request[w].node].mtime
                                               ELSE r.body.content
<1>1. /\ Replied(w)
      /\ WorkerStep(w) \/ UNCHANGED vars
      /\ request' = [request EXCEPT ![w] = NoRequest]
      /\ reply' = [reply EXCEPT ![w] = NoReply]
  BY DEF Deliver, WorkerStep
<1>2. \/ copy' = copy
      \/ /\ r.status = 200 /\ r.tag # NoTag /\ ~request[w].head
         /\ copy' = [tag |-> r.tag, content |-> sent]
  BY DEF Deliver
<1>3. worker'[w].at = "idle" /\ disk' = disk
  <2>1. CASE worker[w].at = "served"
    BY <2>1, StepFields, CacheStaysInPast DEF Deliver, Reply, WorkerStep, fileVars
  <2>2. CASE worker[w].at # "served"
    BY <1>1, <2>2 DEF Deliver, vars, fileVars, SInv, Local, InStep
  <2> QED
    BY <2>1, <2>2
<1>4. Good(copy)'
  <2>1. CASE copy' = copy
    BY <1>3, <2>1 DEF SInv, Good
  <2>2. CASE /\ r.status = 200 /\ r.tag # NoTag /\ ~request[w].head
             /\ copy' = [tag |-> r.tag, content |-> sent]
    <3>1. copy'.tag = r.tag /\ copy'.content = sent
      BY <2>2
    <3>2. GoodReply(w) /\ \A p \in Path : disk[p].mtime \in Nat
      BY DEF SInv, Local, IInv, Times
    <3>3. r.tag.path \in Path /\ r.tag.mtime \in Nat /\ sent \in Nat
          /\ r.tag.mtime <= sent /\ sent <= disk[r.tag.path].mtime
      BY <2>2, <3>2 DEF GoodReply
    <3> QED
      BY <1>3, <3>1, <3>3 DEF Good
  <2> QED
    BY <1>2, <2>1, <2>2
<1>5. request'[w] = NoRequest /\ reply'[w] = NoReply
      /\ DOMAIN request' = Worker /\ DOMAIN reply' = Worker
      /\ \A v \in Worker \ {w} : request'[v] = request[v] /\ reply'[v] = reply[v]
  BY <1>1 DEF SInv
<1>6. Local(w)'
  BY <1>3, <1>5 DEF Local, InStep, HeldBefore, GoodReply, TrueNotModified, FromRoot, Replied,
                    Working, NoRequest, NoReply
<1> QED
  BY <1>1, <1>4, <1>5, <1>6, WorkerMoves

LEMMA SInvInductive == SInv /\ [StaticNext]_<<vars, staticVars>> => SInv'
<1> SUFFICES ASSUME SInv, [StaticNext]_<<vars, staticVars>> PROVE SInv'
  OBVIOUS
<1>1. CASE Files
  BY <1>1, FilesKeepSInv
<1>2. ASSUME NEW w \in Worker, Handles(w)
      PROVE  SInv'
  BY <1>2, BeginKeeps, LookAtSizeKeeps, LookAtTimeKeeps, NotModifiedKeeps, FailuresKeep,
     ServingKeeps, DeliverKeeps DEF Handles
<1>3. CASE UNCHANGED <<vars, staticVars>>
  <2>1. IInv' /\ EntriesInPast' /\ Good(copy)'
    BY <1>3, CacheUnchanged
       DEF SInv, IInv, DiskOK, Times, WorkerOK, NeverStale, EntriesInPast, Cached, Good, vars,
           fileVars, cacheVars, staticVars
  <2>2. \A p \in Path : disk'[p].mtime \in Nat /\ disk[p].mtime <= disk'[p].mtime
    BY <1>3 DEF SInv, IInv, Times, vars, fileVars
  <2>3. ASSUME NEW w \in Worker PROVE Local(w)'
    BY <1>3, <2>2, RestingWorker DEF vars, staticVars
  <2> QED
    BY <1>3, <2>1, <2>3 DEF SInv, staticVars
<1> QED
  BY <1>1, <1>2, <1>3 DEF StaticNext

----------------------------------------------------------------------------
(* What a response announces is what follows it: what is said of a response *)
(* is true when it is made, and stays so until it is delivered.             *)

Told(q, r) ==
  LET wanted == Wanted(q.range, r.total)
  IN  /\ IF q.head THEN r.body = NoBody ELSE r.announced = r.body.length
      /\ r.gzip => q.gzip
      /\ r.status = 206 =>
           /\ q.ranged /\ Legal(q.range)
           /\ wanted # {} /\ wanted = r.range.start .. r.range.end
           /\ r.announced = Cardinality(wanted) /\ ~r.gzip
           /\ ~q.head => r.body.first = r.range.start
      /\ r.status = 416 =>
           q.ranged /\ (Legal(q.range) /\ Representable(q.range) => wanted = {})
      /\ r.status = 200 /\ r.tag # NoTag =>
           /\ ~q.ranged /\ r.total = r.tag.size
           /\ r.announced = IF r.gzip THEN GzipLength[r.total] ELSE r.total
           /\ ~q.head => r.body.first = 0

Announced(w) ==
  /\ request[w].busy => request[w].range \in Seq(RangeElement)
  /\ Replied(w) => Told(request[w], reply[w])

\* A response before its file is named in it.
Plain(q, r, status, body) ==
  /\ r.status = status /\ r.tag = NoTag /\ r.announced = body.length /\ r.gzip = body.gzip
  /\ IF q.head THEN r.body = NoBody ELSE r.body = body

LEMMA PlainFields ==
  ASSUME NEW q, NEW body, NEW status
  PROVE  Plain(q, Response(status, body, q.head), status, body)
BY DEF Response, Plain

LEMMA TextTold ==
  ASSUME NEW q, NEW status \in {400, 403, 404, 500}
  PROVE  Told(q, TextResponse(status, q.head))
<1> DEFINE body == PageBody(1)
           r    == Response(status, body, q.head)
<1>1. TextResponse(status, q.head) = r
  BY DEF TextResponse
<1>2. body.gzip = FALSE
  BY DEF PageBody, NoBody
<1> HIDE DEF body
<1>3. Plain(q, r, status, body)
  BY PlainFields
<1> HIDE DEF r
<1> QED BY <1>1, <1>2, <1>3 DEF Told, Plain

LEMMA ListingTold ==
  ASSUME NEW q, NEW listed
  PROVE  Told(q, ListingResponse(q, listed))
<1> DEFINE html == PageBody(1 + Cardinality(listed))
           body == Compressed(q, html, TRUE)
           r    == Response(200, body, q.head)
<1>1. ListingResponse(q, listed) = [r EXCEPT !.listed = listed]
  BY DEF ListingResponse
<1>2. body.gzip => q.gzip
  BY DEF PageBody, NoBody, Compressed, CompressedBody
<1> HIDE DEF body
<1>3. Plain(q, r, 200, body)
  BY PlainFields
<1> DEFINE s == [r EXCEPT !.listed = listed]
<1>4. /\ s.status = r.status /\ s.tag = r.tag /\ s.announced = r.announced
      /\ s.gzip = r.gzip /\ s.body = r.body
  BY DEF Response
<1> HIDE DEF r, s
<1>5. Told(q, s)
  BY <1>2, <1>3, <1>4 DEF Told, Plain
<1> QED BY <1>1, <1>5 DEF s

LEMMA NotModifiedTold ==
  ASSUME NEW q, NEW tag
  PROVE  Told(q, [Response(304, NoBody, TRUE) EXCEPT !.tag = tag])
<1> DEFINE r == [Response(304, NoBody, TRUE) EXCEPT !.tag = tag]
<1>1. r.status = 304 /\ r.announced = 0 /\ r.gzip = FALSE /\ r.body = NoBody /\ NoBody.length = 0
  BY DEF Response, NoBody
<1> HIDE DEF r
<1>2. Told(q, r)
  BY <1>1 DEF Told
<1> QED BY <1>2 DEF r

LEMMA RefusalTold ==
  ASSUME NEW q, NEW size \in Nat, q.ranged, q.range \in Seq(RangeElement),
         ParseRange(q.range, size) = Unsatisfiable
  PROVE  Told(q, [TextResponse(416, q.head) EXCEPT !.total = size])
<1> DEFINE body == PageBody(1)
           text == Response(416, body, q.head)
           r    == [text EXCEPT !.total = size]
<1>1. r = [TextResponse(416, q.head) EXCEPT !.total = size]
  BY DEF TextResponse
<1>2. body.gzip = FALSE
  BY DEF PageBody, NoBody
<1> HIDE DEF body
<1>3. Plain(q, text, 416, body)
  BY PlainFields
<1>4. /\ r.status = text.status /\ r.announced = text.announced
      /\ r.gzip = text.gzip /\ r.body = text.body /\ r.total = size
  BY DEF Response
<1>5. Legal(q.range) /\ Representable(q.range) => Wanted(q.range, size) = {}
  BY RangeParsedExactly
<1> HIDE DEF r, text
<1>6. Told(q, r)
  BY <1>2, <1>3, <1>4, <1>5 DEF Told, Plain
<1> QED BY <1>1, <1>6 DEF r, text

\* A whole file, its compressed form, or the part of it that was asked for.
LEMMA FileTold ==
  ASSUME NEW w, NEW plain, NEW body,
         request[w].range \in Seq(RangeElement), worker[w].size \in Nat, ~RangeFails(w),
         plain.first = Part(w).first, plain.length = Part(w).length, plain.gzip = FALSE,
         \/ body = plain
         \/ request[w].gzip /\ ~request[w].ranged /\ body = CompressedBody(plain)
            /\ body.first = plain.first /\ body.gzip = TRUE /\ body.length = GzipLength[plain.length]
  PROVE  Told(request[w], FileResponse(w, body))
<1> DEFINE q == request[w]
           size == worker[w].size
           status == IF q.ranged THEN 206 ELSE 200
           raw == Response(status, body, q.head)
           r == FileResponse(w, body)
           p == ParseRange(q.range, size)
<1>1. Plain(q, raw, status, body)
  BY PlainFields
<1>2. /\ r.status = raw.status /\ r.announced = raw.announced /\ r.gzip = raw.gzip
      /\ r.body = raw.body /\ r.total = size /\ r.tag.size = size
      /\ q.ranged => r.range = p
  BY DEF FileResponse, Response, Tag, ETag, RangeOf
<1>3. /\ q.ranged => p # Unsatisfiable /\ plain.first = p.start /\ plain.length = p.end - p.start + 1
      /\ ~q.ranged => plain.first = 0 /\ plain.length = size
  BY DEF RangeFails, RangeOf, Part
<1> HIDE DEF raw, r
<1>4. CASE q.ranged
  <2> DEFINE wanted == Wanted(q.range, size)
  <2>1. /\ Legal(q.range) /\ p.start \in Nat /\ p.end \in Nat /\ p.start <= p.end
        /\ wanted = p.start .. p.end
    BY <1>3, <1>4, RangeParsedExactly
  <2> DEFINE a == p.start
             b == p.end
  <2> HIDE DEF p, wanted
  <2>2. Cardinality(wanted) = b - a + 1 /\ wanted # {}
    <3>1. a \in Int /\ b \in Int /\ a <= b /\ wanted = a .. b
      BY <2>1
    <3> HIDE DEF a, b
    <3>2. Cardinality(a .. b) = b - a + 1
      BY <3>1, FS_Interval
    <3>3. a \in a .. b
      BY <3>1
    <3> QED BY <3>1, <3>2, <3>3
  <2>3. body = plain /\ status = 206
    BY <1>4
  <2> HIDE DEF q, status, size
  <2> QED BY <1>1, <1>2, <1>3, <1>4, <2>1, <2>2, <2>3 DEF Told, Plain, wanted, r, q, status
<1>5. CASE ~q.ranged
  <2>1. status = 200 /\ plain.first = 0 /\ plain.length = size
    BY <1>3, <1>5
  <2> HIDE DEF status, size, q
  <2>2. /\ body.first = 0 /\ (body.gzip => q.gzip)
        /\ body.length = IF body.gzip THEN GzipLength[size] ELSE size
    <3>1. CASE body = plain
      BY <2>1, <3>1
    <3>2. CASE body # plain
      BY <2>1, <3>2 DEF q
    <3> QED BY <3>1, <3>2
  <2>3. Told(q, r)
    BY <1>1, <1>2, <1>5, <2>1, <2>2 DEF Told, Plain
  <2> QED BY <2>3 DEF r, q
<1> QED BY <1>4, <1>5

LEMMA BeginAnnounced ==
  ASSUME SInv, NEW w \in Worker, Begin(w)
  PROVE  Announced(w)'
<1> PICK t \in Request :
      \E resolved \in Resolutions(t.target, Missing) :
        LET q == Parsed(t, resolved.node)
        IN  /\ request' = [request EXCEPT ![w] = q]
            /\ reply' = [reply EXCEPT ![w] =
                 FirstReply(q, resolved.status, Listed(resolved.node, Missing))]
  BY DEF Begin
<1> PICK resolved \in Resolutions(t.target, Missing) :
      LET q == Parsed(t, resolved.node)
      IN  /\ request' = [request EXCEPT ![w] = q]
          /\ reply' = [reply EXCEPT ![w] =
               FirstReply(q, resolved.status, Listed(resolved.node, Missing))]
  OBVIOUS
<1> DEFINE q      == Parsed(t, resolved.node)
           listed == Listed(resolved.node, Missing)
           r      == FirstReply(q, resolved.status, listed)
<1>1. request'[w] = q /\ reply'[w] = r
  BY DEF SInv
<1>2. q.range \in Seq(RangeElement)
  <2>1. t.range \in Seq(Seq(RangeElement)) /\ q.range = FlattenSeq(t.range)
    BY StaticFilesAssumption DEF RequestType, Parsed, Merged
  <2> HIDE DEF q
  <2> QED BY <2>1, FlattenType
<1>3. resolved.status \in {"BadRequest", "Forbidden", "NotFound", "Error", "Listing", "File"}
  BY ResolvedInside
<1> HIDE DEF q, listed
<1>4. r.status # 0 => Told(q, r)
  <2>1. CASE resolved.status = "File"
    BY <2>1 DEF FirstReply, NoReply
  <2>2. CASE resolved.status = "Listing"
    BY <2>2, ListingTold DEF FirstReply
  <2>3. CASE resolved.status \in {"BadRequest", "Forbidden", "NotFound", "Error"}
    <3>1. ErrorStatus[resolved.status] \in {400, 403, 404, 500}
          /\ r = TextResponse(ErrorStatus[resolved.status], q.head)
      BY <2>3 DEF FirstReply, ErrorStatus
    <3> QED BY <3>1, TextTold
  <2> QED BY <1>3, <2>1, <2>2, <2>3
<1> HIDE DEF r
<1> QED BY <1>1, <1>2, <1>4 DEF Announced, Replied

LEMMA AnswerAnnounced ==
  ASSUME SInv, NEW w \in Worker, NEW r, Answer(w, r), Working(w), Announced(w),
         request[w].range \in Seq(RangeElement) => Told(request[w], r)
  PROVE  Announced(w)'
<1>1. request' = request /\ reply'[w] = r /\ request[w].busy
  BY AnswerFields DEF Working
<1> QED BY <1>1 DEF Announced

LEMMA ServingAnnounced ==
  ASSUME SInv, NEW w \in Worker, Announced(w), FromCache(w) \/ BySendfile(w)
  PROVE  Announced(w)'
<1>1. /\ request[w].range \in Seq(RangeElement) /\ worker[w].size \in Nat
      /\ ~RangeFails(w) /\ Working(w)
  BY DEF FromCache, BySendfile, Proceeds, Working, Announced, SInv, IInv, Times, WorkerState
<1>2. CASE FromCache(w)
  <2> DEFINE plain == [NoBody EXCEPT !.what = "file", !.content = worker'[w].content,
                                     !.first = Part(w).first, !.length = Part(w).length]
             body  == Compressed(request[w], plain, worker[w].path \in Compressible)
  <2>1. Answer(w, FileResponse(w, body))
    BY <1>2 DEF FromCache
  <2>2. plain.first = Part(w).first /\ plain.length = Part(w).length /\ plain.gzip = FALSE
    BY DEF NoBody
  <2>3. LET c == CompressedBody(plain)
        IN  c.first = plain.first /\ c.gzip = TRUE /\ c.length = GzipLength[plain.length]
    BY DEF NoBody, CompressedBody
  <2> HIDE DEF plain
  <2>4. \/ body = plain
        \/ request[w].gzip /\ ~request[w].ranged /\ body = CompressedBody(plain)
    BY DEF Compressed
  <2> HIDE DEF body
  <2>5. Told(request[w], FileResponse(w, body))
    BY <1>1, <2>2, <2>3, <2>4, FileTold
  <2> QED BY <1>1, <2>1, <2>5, AnswerAnnounced
<1>3. CASE BySendfile(w)
  <2> DEFINE body == [NoBody EXCEPT !.what = "sendfile", !.first = Part(w).first,
                                    !.length = Part(w).length]
  <2>1. Answer(w, FileResponse(w, body))
    BY <1>3 DEF BySendfile
  <2>2. body.first = Part(w).first /\ body.length = Part(w).length /\ body.gzip = FALSE
    BY DEF NoBody
  <2> HIDE DEF body
  <2>3. Told(request[w], FileResponse(w, body))
    BY <1>1, <2>2, FileTold
  <2> QED BY <1>1, <2>1, <2>3, AnswerAnnounced
<1> QED BY <1>2, <1>3

\* A worker's own step, or the loop's on its behalf.
LEMMA HandlesAnnounced ==
  ASSUME SInv, NEW w \in Worker, Announced(w), Handles(w)
  PROVE  Announced(w)'
<1>1. CASE UNCHANGED staticVars
  BY <1>1 DEF Announced, Replied, staticVars
<1>2. CASE Working(w) /\ Answer(w, TextResponse(500, request[w].head))
  BY <1>2, TextTold, AnswerAnnounced
<1>3. CASE LookAtSize(w) \/ LookAtTime(w) \/ CacheFails(w)
  BY <1>1, <1>2, <1>3 DEF LookAtSize, LookAtTime, CacheFails, Proceeds
<1>4. CASE NotModified(w)
  BY <1>4, NotModifiedTold, AnswerAnnounced DEF NotModified
<1>5. CASE RangeNotSatisfiable(w)
  <2>1. /\ Working(w) /\ worker[w].size \in Nat /\ request[w].ranged
        /\ ParseRange(request[w].range, worker[w].size) = Unsatisfiable
        /\ Answer(w, [TextResponse(416, request[w].head) EXCEPT !.total = worker[w].size])
    BY <1>5 DEF RangeNotSatisfiable, RangeFails, RangeOf, SInv, IInv, Times, WorkerState
  <2> QED BY <2>1, RefusalTold, AnswerAnnounced
<1>6. CASE Deliver(w)
  <2>1. request'[w] = NoRequest /\ reply'[w] = NoReply
    BY <1>6 DEF Deliver, SInv
  <2> QED BY <2>1 DEF Announced, Replied, NoRequest, NoReply
<1> QED
  BY <1>3, <1>4, <1>5, <1>6, BeginAnnounced, ServingAnnounced DEF Handles

----------------------------------------------------------------------------
(* The theorems *)

\* A client that is answered 304 because of its copy has the content the file had
\* when its time was looked at: for any workers, files, tree and requests, and
\* whatever is written between the looks at the file, the cache and the loop's
\* opening of the file.
THEOREM NotModifiedSound == StaticSpec => []NotModifiedIsTrue
<1>1. SInv => NotModifiedIsTrue
  BY DEF SInv, Local, TrueNotModified, NotModifiedIsTrue
<1> QED
  BY InitSInv, SInvInductive, <1>1, PTL DEF StaticSpec

\* Nothing outside the root directory is sent, told of by 304 or 416, or listed,
\* for any tree and links.
THEOREM RootHolds == StaticSpec => []ServedFromRoot
<1>1. SInv => ServedFromRoot
  BY DEF SInv, Local, FromRoot, ServedFromRoot
<1> QED
  BY InitSInv, SInvInductive, <1>1, PTL DEF StaticSpec

\* Every response announces what follows it: the length is that of what is sent,
\* or would be for GET; a part has exactly the bytes asked for; the whole is
\* the file or its compressed form, only for a client that takes it; a range is
\* refused only if no byte is in it or its numbers do not fit.  For any
\* workers, files, tree, requests, capacity and width of numbers.
THEOREM AnnouncesTruly == StaticSpec => []AnnouncesWhatIsSent
<1> DEFINE AInv == \A w \in Worker : Announced(w)
<1>1. StaticInit => AInv
  BY DEF StaticInit, Announced, Replied, NoRequest, NoReply
<1>2. SInv /\ AInv /\ [StaticNext]_<<vars, staticVars>> => AInv'
  <2> SUFFICES ASSUME SInv, AInv, [StaticNext]_<<vars, staticVars>>, NEW v \in Worker
               PROVE  Announced(v)'
    OBVIOUS
  <2>1. CASE UNCHANGED staticVars
    BY <2>1 DEF Announced, Replied, staticVars
  <2>2. ASSUME NEW w \in Worker, Handles(w), v # w
        PROVE  Announced(v)'
    <3>1. \/ UNCHANGED staticVars
          \/ \E r : Answer(w, r)
          \/ \E q, r : request' = [request EXCEPT ![w] = q] /\ reply' = [reply EXCEPT ![w] = r]
      BY <2>2 DEF Handles, Begin, LookAtSize, LookAtTime, NotModified,
         RangeNotSatisfiable, FromCache, CacheFails, BySendfile, Deliver
    <3>2. request'[v] = request[v] /\ reply'[v] = reply[v]
      BY <2>2, <3>1 DEF SInv, Answer, staticVars
    <3> QED BY <3>2 DEF Announced, Replied
  <2> QED BY <2>1, <2>2, HandlesAnnounced DEF StaticNext, Files
<1>3. AInv => AnnouncesWhatIsSent
  BY DEF Announced, Told, AnnouncesWhatIsSent
<1> QED BY InitSInv, SInvInductive, <1>1, <1>2, <1>3, PTL DEF StaticSpec

\* The handler adds nothing to the cache: what it does to files, cache and workers
\* is a behaviour of FileCache, so what is proved of that holds here.
THEOREM UsesTheCache == StaticSpec => Spec
<1>1. StaticInit => Init
  BY DEF StaticInit
<1>2. SInv /\ [StaticNext]_<<vars, staticVars>> => [Next]_vars
  <2> SUFFICES ASSUME SInv, StaticNext PROVE [Next]_vars
    BY DEF vars
  <2>1. CASE Files
    BY <2>1 DEF Files, Next
  <2>2. ASSUME NEW w \in Worker, Handles(w)
        PROVE  WorkerStep(w) \/ UNCHANGED vars
    <3>1. LookAtSize(w) => request[w].node \in Path
      BY DEF LookAtSize, SInv, Local, InStep
    <3> QED
      BY <2>2, <3>1 DEF Handles, Begin, LookAtSize, LookAtTime, NotModified,
         RangeNotSatisfiable, FromCache, CacheFails, BySendfile, Deliver, WorkerStep
  <2> QED
    BY <2>1, <2>2 DEF StaticNext, Next
<1> QED
  BY <1>1, <1>2, InitSInv, SInvInductive, PTL DEF StaticSpec, Spec
============================================================================
