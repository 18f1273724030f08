\* One page that changes; files of size 3 are sent by the event loop.
CONSTANTS
  Worker = {w1}
  page = page
  hidden = hidden
  www = www
  docs = docs
  site = site
  leak = leak
  top = top
  pipe = pipe
  Path = {page, hidden}
  Changing = {page}
  FileSize = {0, 2, 3}
  MaxCacheableFileSize = 3
  MaxCapacity = 3
  MaxTime = 1
  Base = 3
  MaxUnsigned = 7
  Root = www
  Directory = {www, docs, site, leak, top}
  Regular = {page, hidden}
  Inside = {page, www, docs, site, leak, pipe}
  Child <- Children
  ListingEnabled = TRUE
  Malformed = Malformed
  Request <- Requests
  Compressible = {page}
  GzipLength <- Gzip
  AnyTag = AnyTag
  NoTag = NoTag
  NoCopy = NoCopy
  Gone = Gone
  NoPath = NoPath
SPECIFICATION StaticSpec
INVARIANTS
  AnnouncesWhatIsSent
  NotModifiedIsTrue
  ServedFromRoot
