---------------------------- MODULE MCFileCache ----------------------------
(* A small instance of FileCache for TLC. *)
EXTENDS FileCache, TLC

\* Workers are interchangeable, and so are the files that do not change; no
\* liveness is checked.
Symmetry == Permutations(Worker) \cup Permutations(Path \ Changing)
============================================================================
