----------------------------- MODULE StaticFiles -----------------------------
(***************************************************************************)
(* Requests for static files, from the parsed headers to the response that *)
(* buildResponse returns and the file the event loop opens for it:         *)
(* StaticFileHandler::handle around the cache, conditional requests,       *)
(* ranges, compression, listings and HEAD.  A step here is a step of       *)
(* FileCache or leaves its variables alone.                                *)
(*                                                                         *)
(* A header value is a sequence of the elements its commas separate, and a *)
(* header that occurs more than once has the elements of all its lines     *)
(* (HttpParser::parse joins them with a comma).  A body is a part of one   *)
(* version of a file, known by the time of its write as in FileCache.  An  *)
(* ETag is the path, size and time it is made of.  MIME types are left out *)
(* but for what Compressible says of them, and so are API paths and /ws,   *)
(* which are answered before.                                              *)
(***************************************************************************)
EXTENDS FileCache, ByteRange, PathResolution

CONSTANTS
  Request,       \* what clients send, see RequestType
  Compressible,  \* paths whose content type is compressed
  GzipLength,    \* [length of a body -> length of what deflate makes of it]
  AnyTag,        \* "*" in If-None-Match
  NoTag, NoCopy  \* absent values

\* range and noneMatch are the lines of these headers.  An element of
\* noneMatch is "*" or the ETag of the copy the client holds ("own"); W/ makes no
\* difference.  gzip: acceptsGzip.
RequestType ==
  [target : Seq(STRING) \cup {Malformed}, head : BOOLEAN,
   range : Seq(Seq(RangeElement)), noneMatch : Seq(Seq({AnyTag, "own"})), gzip : BOOLEAN]

ASSUME StaticFilesAssumption ==
  /\ Regular = Path
  /\ \A r \in Request : r \in RequestType
  /\ Compressible \subseteq Path
  /\ \A size \in FileSize : GzipLength[size] \in Nat

VARIABLES
  request,  \* the request a worker is busy with, see Parsed
  reply,    \* the response it has built
  copy      \* a response a client has kept, with the content it had

staticVars == <<request, reply, copy>>

Missing == {p \in Path : disk[p].size = Gone}

ETag(p, size, mtime) == [path |-> p, size |-> size, mtime |-> mtime]

\* A worker without a request, and a request without a reply.
NoRequest == [busy |-> FALSE]
NoReply == [status |-> 0]

StaticInit ==
  /\ Init
  /\ request = [w \in Worker |-> NoRequest]
  /\ reply = [w \in Worker |-> NoReply]
  /\ copy = NoCopy

----------------------------------------------------------------------------
(* Responses.  announced is the Content-Length, range and total are the    *)
(* Content-Range, gzip the Content-Encoding, listed the entries of a page. *)

NoBody == [what |-> "none", content |-> 0, first |-> 0, length |-> 0, gzip |-> FALSE]
PageBody(length) == [NoBody EXCEPT !.what = "page", !.length = length]

\* Content-Length is set from the body, and kept when HEAD leaves the body out.
Response(status, body, head) ==
  [status |-> status, announced |-> body.length, gzip |-> body.gzip,
   body |-> IF head THEN NoBody ELSE body,
   range |-> Unsatisfiable, total |-> 0, tag |-> NoTag, listed |-> {}]

\* A short text.
TextResponse(status, head) == Response(status, PageBody(1), head)

CompressedBody(body) == [body EXCEPT !.gzip = TRUE, !.length = GzipLength[@]]

\* maybeApplyGzip, which is not asked for partial responses.
Compressed(q, body, compressible) ==
  IF q.gzip /\ ~q.ranged /\ compressible THEN CompressedBody(body) ELSE body

----------------------------------------------------------------------------
(* Parsing and path resolution                                             *)

\* A header of these lines.
Merged(lines) == FlattenSeq(lines)

\* The request a worker goes on with: held stands for what If-None-Match names.
Parsed(r, node) ==
  [busy |-> TRUE, target |-> r.target, head |-> r.head, ranged |-> r.range # <<>>,
   range |-> Merged(r.range), gzip |-> r.gzip, node |-> node,
   any  |-> Contains(Merged(r.noneMatch), AnyTag),
   held |-> IF Contains(Merged(r.noneMatch), "own") THEN copy ELSE NoCopy]

ErrorStatus == [BadRequest |-> 400, Forbidden |-> 403, NotFound |-> 404, Error |-> 500]

ListingResponse(q, listed) ==
  LET html == PageBody(1 + Cardinality(listed))
  IN  [Response(200, Compressed(q, html, TRUE), q.head) EXCEPT !.listed = listed]

\* What is answered without a look at the file.
FirstReply(q, status, listed) ==
  IF status = "File" THEN NoReply
  ELSE IF status = "Listing" THEN ListingResponse(q, listed)
  ELSE TextResponse(ErrorStatus[status], q.head)

Begin(w) ==
  /\ ~request[w].busy
  /\ \E r \in Request :
       \E resolved \in Resolutions(r.target, Missing) :
         LET q == Parsed(r, resolved.node)
         IN  /\ request' = [request EXCEPT ![w] = q]
             /\ reply' = [reply EXCEPT ![w] =
                  FirstReply(q, resolved.status, Listed(resolved.node, Missing))]
  /\ UNCHANGED <<vars, copy>>

----------------------------------------------------------------------------
(* handle, once the target has turned out to be a file                     *)

Replied(w) == reply[w].status # 0

Working(w) == request[w].busy /\ ~Replied(w)

Answer(w, response) ==
  /\ reply' = [reply EXCEPT ![w] = response]
  /\ UNCHANGED <<request, copy>>

\* file_size, last_write_time: 500 if the file is gone.
LookAtSize(w) ==
  /\ Working(w) /\ worker[w].at = "idle"
  /\ \/ StatSize(w, request[w].node) /\ UNCHANGED staticVars
     \/ /\ request[w].node \in Missing
        /\ Answer(w, TextResponse(500, request[w].head)) /\ UNCHANGED vars

LookAtTime(w) ==
  /\ Working(w) /\ StatTime(w)
  /\ IF worker[w].path \in Missing THEN Answer(w, TextResponse(500, request[w].head))
                                   ELSE UNCHANGED staticVars

\* Mutant: the time is no part of the ETag.
TagOfSize(w) == ETag(worker[w].path, worker[w].size, 0)

\* etagForFile
Tag(w) == ETag(worker[w].path, worker[w].size, worker[w].mtime)

\* ifNoneMatchMatches
NoneMatch(w) ==
  \/ request[w].any
  \/ request[w].held # NoCopy /\ request[w].held.tag = Tag(w)

NotModified(w) ==
  /\ Working(w) /\ AnswerFromStat(w)
  /\ NoneMatch(w)
  /\ Answer(w, [Response(304, NoBody, TRUE) EXCEPT !.tag = Tag(w)])

RangeOf(w) == ParseRange(request[w].range, worker[w].size)

RangeFails(w) == request[w].ranged /\ RangeOf(w) = Unsatisfiable

RangeNotSatisfiable(w) ==
  /\ Working(w) /\ AnswerFromStat(w)
  /\ ~NoneMatch(w) /\ RangeFails(w)
  /\ Answer(w, [TextResponse(416, request[w].head) EXCEPT !.total = worker[w].size])

\* What is asked for: first byte and length.
Part(w) ==
  IF request[w].ranged
    THEN [first |-> RangeOf(w).start, length |-> RangeOf(w).end - RangeOf(w).start + 1]
    ELSE [first |-> 0, length |-> worker[w].size]

FileResponse(w, body) ==
  LET q == request[w]
  IN  [Response(IF q.ranged THEN 206 ELSE 200, body, q.head) EXCEPT
         !.tag = Tag(w), !.total = worker[w].size,
         !.range = IF q.ranged THEN RangeOf(w) ELSE Unsatisfiable]

Proceeds(w) == Working(w) /\ worker[w].at = "checked" /\ ~NoneMatch(w) /\ ~RangeFails(w)

\* substr of what get returned, compressed if the whole of it is sent.
FromCache(w) ==
  /\ Proceeds(w)
  /\ Hit(w) \/ Load(w)
  /\ LET body == [NoBody EXCEPT !.what = "file", !.content = worker'[w].content,
                                !.first = Part(w).first, !.length = Part(w).length]
     IN  Answer(w, FileResponse(w, Compressed(request[w], body,
                                              worker[w].path \in Compressible)))

CacheFails(w) ==
  /\ Proceeds(w) /\ LoadFails(w)
  /\ Answer(w, TextResponse(500, request[w].head))

\* The event loop is to send this part of the file.
BySendfile(w) ==
  /\ Proceeds(w) /\ Bypass(w)
  /\ Answer(w, FileResponse(w, [NoBody EXCEPT !.what = "sendfile", !.first = Part(w).first,
                                              !.length = Part(w).length]))

----------------------------------------------------------------------------
(* The event loop opens a file it is to send, which is by then what it is, *)
(* and a client may keep what it gets.                                     *)

Deliver(w) ==
  /\ Replied(w)
  /\ LET r       == reply[w]
         sent    == IF r.body.what = "sendfile" THEN disk[request[w].node].mtime
                                                ELSE r.body.content
         missing == r.body.what = "sendfile" /\ request[w].node \in Missing
     IN  copy' \in {copy} \cup (IF r.status = 200 /\ r.tag # NoTag /\ ~request[w].head /\ ~missing
                                  THEN {[tag |-> r.tag, content |-> sent]} ELSE {})
  /\ request' = [request EXCEPT ![w] = NoRequest]
  /\ reply' = [reply EXCEPT ![w] = NoReply]
  /\ IF worker[w].at = "served" THEN Reply(w) ELSE UNCHANGED vars

----------------------------------------------------------------------------

Files ==
  /\ Tick \/ \E p \in Changing : Delete(p) \/ \E size \in FileSize : Write(p, size)
  /\ UNCHANGED staticVars

Handles(w) ==
  \/ Begin(w) \/ LookAtSize(w) \/ LookAtTime(w) \/ NotModified(w)
  \/ RangeNotSatisfiable(w) \/ FromCache(w) \/ CacheFails(w) \/ BySendfile(w)
  \/ Deliver(w)

StaticNext == Files \/ \E w \in Worker : Handles(w)

StaticSpec == StaticInit /\ [][StaticNext]_<<vars, staticVars>>

----------------------------------------------------------------------------
(* Properties *)

\* Every response announces what follows it.  Content-Length is the number of
\* bytes sent and, for HEAD, of those that GET would send.  A 206 has the bytes
\* the client asked for and no others, they are in the file, and Content-Range
\* names them; 416 is the answer only if there are none, or if a number does
\* not fit the code's integers; 200 is the whole file, or its compressed form if
\* the client accepts that (README.md on ranges and on HEAD).
AnnouncesWhatIsSent ==
  \A w \in Worker : Replied(w) =>
    LET q == request[w]
        r == reply[w]
        wanted == Wanted(q.range, r.total)
    IN  /\ IF q.head THEN r.body = NoBody ELSE r.announced = r.body.length
        /\ r.gzip => q.gzip
        /\ r.status = 206 =>
             /\ q.ranged /\ Legal(q.range)
             /\ wanted # {} /\ wanted = r.range.start .. r.range.end
             /\ r.announced = Cardinality(wanted) /\ ~r.gzip
             /\ ~q.head => r.body.first = r.range.start
        /\ r.status = 416 =>
             q.ranged /\ (Legal(q.range) /\ Representable(q.range) => wanted = {})
        /\ r.status = 200 /\ r.tag # NoTag =>
             /\ ~q.ranged /\ r.total = r.tag.size
             /\ r.announced = IF r.gzip THEN GzipLength[r.total] ELSE r.total
             /\ ~q.head => r.body.first = 0

\* A client that is answered 304 because of its copy has the content that the file
\* had when its time was looked at, whatever was written between the looks at
\* the file, the cache and the loop's opening of the file when the copy was made.
NotModifiedIsTrue ==
  \A w \in Worker :
    LET q == request[w]
        r == reply[w]
    IN  r.status = 304 /\ ~q.any => q.held.content = r.tag.mtime

\* What is sent, what 304 and 416 tell of, and every entry of a listing is under
\* the root directory, whichever way links lead.
ServedFromRoot ==
  \A w \in Worker :
    LET q == request[w]
        r == reply[w]
    IN  r.status \in {200, 206, 304, 416} =>
          /\ q.node \in Inside
          /\ \A name \in r.listed : Child[q.node][name] \in Inside
============================================================================
