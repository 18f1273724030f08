--------------------------- MODULE PathResolution ---------------------------
(***************************************************************************)
(* Which file or directory a request target stands for:                    *)
(* StaticFileHandler::resolveRequestPath over a tree with symbolic links,  *)
(* and the entries a directory listing shows.                              *)
(*                                                                         *)
(* A target is the sequence of its segments after the first slash, without *)
(* query and fragment, and decoded, so that an escaped slash or dot counts *)
(* as one.  Malformed stands for one that urlDecode refuses, that contains *)
(* a backslash or a null byte, or that does not begin with a slash.        *)
(***************************************************************************)
EXTENDS SequencesExt

CONSTANTS
  Root,       \* rootDirectory_
  Directory,  \* all directories
  Regular,    \* all regular files; there may be others, such as pipes
  Inside,     \* what is under Root, and Root
  Child,      \* [directory -> [name -> what it is or, for a link, leads to]]
  ListingEnabled,  \* enableDirectoryListing_
  Malformed

ASSUME PathAssumption ==
  /\ Root \in Directory \cap Inside
  /\ Directory \cap Regular = {}
  /\ DOMAIN Child = Directory
  /\ ListingEnabled \in BOOLEAN

----------------------------------------------------------------------------
(* weakly_canonical: follow the names as far as there are files.  gone is  *)
(* the set of files that do not exist.  "" is an empty segment.            *)

Follow(place, name, gone) ==
  IF place.missing THEN place
  ELSE IF place.node \notin Directory THEN [place EXCEPT !.missing = TRUE]
  ELSE IF name \in {"", "."} THEN place
  ELSE IF name \in DOMAIN Child[place.node] /\ Child[place.node][name] \notin gone
    THEN [place EXCEPT !.node = Child[place.node][name]]
  ELSE [place EXCEPT !.missing = TRUE]

\* What is missing is looked for under the node reached: without "..", it is
\* under the root if that node is.
Walk(target, gone) ==
  FoldLeft(LAMBDA place, name : Follow(place, name, gone),
           [node |-> Root, missing |-> FALSE], target)

\* "//x" leaves an absolute path.
BadTarget(target) ==
  \/ target = Malformed
  \/ Len(target) > 1 /\ Head(target) = ""
  \/ Contains(target, "..")

Outcome(status, node) == [status |-> status, node |-> node]

\* Mutant: index.html is not looked at again.
IndexUnchecked(directory, gone) ==
  LET index == Follow([node |-> directory, missing |-> FALSE], "index.html", gone)
  IN  IF index.missing
        THEN Outcome(IF ListingEnabled THEN "Listing" ELSE "Forbidden", directory)
      ELSE IF index.node \notin Regular THEN Outcome("Forbidden", directory)
      ELSE Outcome("File", index.node)

Index(directory, gone) ==
  LET index == Follow([node |-> directory, missing |-> FALSE], "index.html", gone)
  IN  IF index.missing
        THEN Outcome(IF ListingEnabled THEN "Listing" ELSE "Forbidden", directory)
      ELSE IF index.node \notin Inside \cap Regular
        THEN Outcome("Forbidden", directory)
      ELSE Outcome("File", index.node)

ResolveRequestPath(target, gone) ==
  IF BadTarget(target) THEN Outcome("BadRequest", Root)
  ELSE LET place == Walk(target, gone)
       IN  IF place.node \notin Inside THEN Outcome("Forbidden", place.node)
           ELSE IF place.missing THEN Outcome("NotFound", place.node)
           ELSE IF place.node \in Directory THEN Index(place.node, gone)
           ELSE IF place.node \notin Regular THEN Outcome("Forbidden", place.node)
           ELSE Outcome("File", place.node)

\* What may come of it.  Every request fails if the root directory was not found
\* (rootDirectoryReady_), and any may fail on an error other than a missing file,
\* in the tree or in the directory to be listed.
Resolutions(target, gone) == {ResolveRequestPath(target, gone), Outcome("Error", Root)}

\* buildDirectoryListing leaves out what leads out of the root, or nowhere.
Listed(directory, gone) ==
  {name \in DOMAIN Child[directory] :
     Child[directory][name] \in Inside /\ Child[directory][name] \notin gone}
============================================================================
