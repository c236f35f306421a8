----------------------------- MODULE DeviceCache -----------------------------
(***************************************************************************)
(* The device's offline cache: the service worker, public/sw.js.           *)
(*                                                                         *)
(* The page asks by message to cache a book, to clear a book, or to clear  *)
(* everything.  The worker keeps a record per book in IndexedDB with the   *)
(* status of each file, the metadata of each file's URL, and the bodies in *)
(* Cache Storage: one entry for a file, or one per chunk of a large        *)
(* audiobook.  Books are downloaded one at a time by a loop that works on  *)
(* its own copy of the record and writes all of it back at every step.     *)
(* As on the server, an action is what happens between two awaits.  The    *)
(* browser may stop the worker at any time; record, urls and cache survive *)
(* and everything else is lost.  A new version of the worker activates and *)
(* resumes; a stopped one that is started again does not.                  *)
(***************************************************************************)
EXTENDS WaitingList, Integers, FiniteSets, Sequences

CONSTANTS
  Msgs,        \* messages the page may send, each sent once
  Op,          \* what a message asks for
  Target,      \* the book it is about
  Books,
  Files,       \* files of the offline manifests, by URL
  BookOf,      \* the book whose manifest lists a file
  Chunked,     \* whether a file is cached in chunks
  Parts,       \* number of its cache entries
  Loops,       \* invocations of processQueue that may run
  MaxStops,    \* bound on how often the browser stops the worker
  MaxUpdates,  \* bound on how often a new version activates
  DbErrors,    \* whether IndexedDB may fail
  NoBook, NoFile

ASSUME ConstantsAssumption ==
  /\ Op \in [Msgs -> {"cache", "clear", "clearAll"}]
  /\ Target \in [Msgs -> Books]
  /\ BookOf \in [Files -> Books]
  /\ Chunked \in [Files -> BOOLEAN]
  /\ Parts \in [Files -> Nat \ {0}]
  /\ \A f \in Files : Chunked[f] \/ Parts[f] = 1
  /\ MaxStops \in Nat /\ MaxUpdates \in Nat
  /\ DbErrors \in BOOLEAN
  /\ NoBook \notin Books /\ NoFile \notin Files

VARIABLES
  record,      \* STORE_BOOKS: the status of each file, "none" without a record
  urls,        \* STORE_URLS: files whose URL has its metadata
  cache,       \* Cache Storage: entries <<file, part>>
  bookQueue, queuedBooks, processingQueue, activeBookId,
  loop,        \* locals of each running processQueue, down to cacheUrl
  stray,       \* entries that may still be put for a file whose download has failed
  late,        \* records that such a download may still write, "none" if there is none
  msg,         \* locals of each message handler
  resume,      \* locals of resumePendingDownloads
  stops, updates  \* how often either happened, bounded by the constants

disk == <<record, urls, cache>>
queueing == <<bookQueue, queuedBooks, processingQueue, activeBookId, late, loop>>
ends == <<stops, updates>>
vars == <<disk, queueing, stray, msg, resume, ends>>

Statuses == {"none", "queued", "downloading", "ready", "failed"}
FilesOf(b) == {f \in Files : BookOf[f] = b}
PartsOf(f) == {f} \X (1..Parts[f])
Entries == UNION {PartsOf(f) : f \in Files}
Exists(b) == \E f \in FilesOf(b) : record[f] # "none"
Unsettled(f) == record[f] \in {"queued", "downloading"}

NoRecord == [f \in Files |-> "none"]
NoTask == [pc |-> "idle", book |-> NoBook, rec |-> NoRecord, todo |-> {}, file |-> NoFile,
           left |-> {}, putting |-> {}, aborted |-> FALSE, detached |-> FALSE,
           straggles |-> FALSE]
NoCall == [pc |-> "new", todo |-> {}]
NoResume == [pc |-> "off", recs |-> NoRecord, todo |-> {}]

Init ==
  /\ record = NoRecord /\ urls = {} /\ cache = {}
  /\ bookQueue = <<>> /\ queuedBooks = {} /\ processingQueue = FALSE
  /\ activeBookId = NoBook /\ late = NoRecord
  /\ loop = [w \in Loops |-> NoTask] /\ stray = {}
  /\ msg = [m \in Msgs |-> NoCall] /\ resume = NoResume
  /\ stops = 0 /\ updates = 0

-----------------------------------------------------------------------------
(* enqueueBook and processQueue                                             *)

(* The records recs, that of book b replaced by what rec says of it.        *)
Replaced(recs, b, rec) == [f \in Files |-> IF BookOf[f] = b THEN rec[f] ELSE recs[f]]

(* dbPut: the whole record of a book is replaced.                           *)
PutRecord(b, rec) == record' = Replaced(record, b, rec)

(* The loop takes the first book and cacheBookNow issues its dbGet.         *)
Shift(w, q, qs) ==
  /\ bookQueue' = Tail(q) /\ queuedBooks' = qs \ {Head(q)}
  /\ processingQueue' = TRUE /\ activeBookId' = Head(q) /\ UNCHANGED late
  /\ loop' = [loop EXCEPT ![w] = [NoTask EXCEPT !.pc = "get", !.book = Head(q)]]

(* Mutant: processQueue does not look at processingQueue.                   *)
EnqueueBook_Reenters(b) ==
  IF b \in queuedBooks THEN UNCHANGED queueing
  ELSE \E w \in Loops : loop[w].pc = "idle" /\ Shift(w, Append(bookQueue, b), queuedBooks \cup {b})

EnqueueBook(b) ==
  IF b \in queuedBooks THEN UNCHANGED queueing
  ELSE \/ /\ processingQueue
          /\ bookQueue' = Append(bookQueue, b) /\ queuedBooks' = queuedBooks \cup {b}
          /\ UNCHANGED <<processingQueue, activeBookId, late, loop>>
       \/ /\ ~processingQueue
          /\ \E w \in Loops :
               loop[w].pc = "idle" /\ Shift(w, Append(bookQueue, b), queuedBooks \cup {b})

Running(w, pc) == loop[w].pc = pc
Step(w, t) == loop' = [loop EXCEPT ![w] = t]

(* Mutant: processQueue takes one book and ends.                            *)
NextBook_Ends(w) ==
  /\ Running(w, "next")
  /\ processingQueue' = FALSE /\ Step(w, NoTask)
  /\ UNCHANGED <<bookQueue, queuedBooks, activeBookId, late, disk, stray, msg, resume, ends>>

(* cacheBookNow has returned: the next book, or the end of the loop.        *)
NextBook(w) ==
  /\ Running(w, "next")
  /\ \/ bookQueue # <<>> /\ Shift(w, bookQueue, queuedBooks)
     \/ /\ bookQueue = <<>>
        /\ processingQueue' = FALSE /\ Step(w, NoTask)
        /\ UNCHANGED <<bookQueue, queuedBooks, activeBookId, late>>
  /\ UNCHANGED <<disk, stray, msg, resume, ends>>

(* Chunks of a failed file that are still coming keep the loop's copy.      *)
Outlives(w) ==
  late' = IF loop[w].straggles THEN Replaced(late, loop[w].book, loop[w].rec) ELSE late

(* cacheBookNow rejects: the loop ends in its finally block, the rejection *)
(* is ignored by enqueueBook, and activeBookId keeps its value.             *)
LoopRejects(w) ==
  /\ DbErrors
  /\ loop[w].pc \in {"get", "put", "failed", "final"}
  /\ processingQueue' = FALSE /\ Step(w, NoTask) /\ Outlives(w)
  /\ UNCHANGED <<disk, bookQueue, queuedBooks, activeBookId, stray, msg, resume, ends>>

-----------------------------------------------------------------------------
(* cacheBookNow: the book's files one after the other                       *)

(* The book is done: return from cacheBookNow.                              *)
Return(w) == activeBookId' = NoBook /\ Outlives(w) /\ Step(w, [NoTask EXCEPT !.pc = "next"])

(* The next file that is not ready is marked; after the last one, a last   *)
(* dbPut is issued if every file is ready.                                  *)
NextFile(w, t) ==
  \/ \E f \in t.todo :
       /\ Step(w, [t EXCEPT !.pc = "mark", !.file = f, !.todo = @ \ {f},
                            !.rec[f] = "downloading"])
       /\ UNCHANGED <<activeBookId, late>>
  \/ /\ t.todo = {} /\ \A f \in FilesOf(t.book) : t.rec[f] = "ready"
     /\ Step(w, [t EXCEPT !.pc = "final"])
     /\ UNCHANGED <<activeBookId, late>>
  \/ /\ t.todo = {} /\ \E f \in FilesOf(t.book) : t.rec[f] # "ready"
     /\ Return(w)

queue == <<bookQueue, queuedBooks, processingQueue>>

(* Mutant: a missing record ends the book without resetting activeBookId.   *)
Get_KeepsActive(w) ==
  /\ Running(w, "get")
  /\ \/ /\ Exists(loop[w].book)
        /\ Step(w, [loop[w] EXCEPT !.pc = "verify", !.rec = record])
     \/ /\ ~Exists(loop[w].book)
        /\ Step(w, [NoTask EXCEPT !.pc = "next"])
  /\ UNCHANGED <<disk, queue, activeBookId, late, stray, msg, resume, ends>>

Get(w) ==
  /\ Running(w, "get")
  /\ \/ /\ Exists(loop[w].book)
        /\ Step(w, [loop[w] EXCEPT !.pc = "verify", !.rec = record])
        /\ UNCHANGED <<activeBookId, late>>
     \/ /\ ~Exists(loop[w].book)
        /\ Return(w)
  /\ UNCHANGED <<disk, queue, stray, msg, resume, ends>>

(* Files that are ready stay so when their first entry is in the cache.     *)
Verify(w) ==
  /\ Running(w, "verify")
  /\ LET t == loop[w]
     IN  Step(w, [t EXCEPT !.pc = "put", !.rec =
                    [f \in Files |->
                       IF t.rec[f] = "ready" /\ <<f, 1>> \notin cache THEN "queued"
                       ELSE t.rec[f]]])
  /\ UNCHANGED <<disk, queue, activeBookId, late, stray, msg, resume, ends>>

PutFirst(w) ==
  /\ Running(w, "put")
  /\ LET t == loop[w]
     IN  /\ PutRecord(t.book, t.rec)
         /\ NextFile(w, [t EXCEPT !.todo = {f \in FilesOf(t.book) : t.rec[f] # "ready"}])
  /\ UNCHANGED <<urls, cache, queue, stray, msg, resume, ends>>

(* The catch block: the file has failed and the record is written.          *)
Fails(w) == Step(w, [loop[w] EXCEPT !.pc = "failed", !.rec[loop[w].file] = "failed"])

Mark(w) ==
  /\ Running(w, "mark")
  /\ \/ /\ PutRecord(loop[w].book, loop[w].rec)
        /\ Step(w, [loop[w] EXCEPT !.pc = "meta"])
     \/ DbErrors /\ Fails(w) /\ UNCHANGED record
  /\ UNCHANGED <<urls, cache, queue, activeBookId, late, stray, msg, resume, ends>>

(* dbUrlPut before the download; its failure is ignored.                    *)
Meta(w) ==
  /\ Running(w, "meta")
  /\ \/ urls' = urls \cup {loop[w].file}
     \/ DbErrors /\ UNCHANGED urls
  /\ Step(w, [loop[w] EXCEPT !.pc = "open"])
  /\ UNCHANGED <<record, cache, queue, activeBookId, late, stray, msg, resume, ends>>

(* caches.open; the controller is put in activeDownloads and the fetch of  *)
(* the file, or the first fetches of its chunks, are issued.  A controller *)
(* stays in the map after its download, where aborting it does nothing: the *)
(* map matters while its download runs, so it needs no variable.            *)
Open(w) ==
  /\ Running(w, "open")
  /\ Step(w, [loop[w] EXCEPT !.pc = "fetch", !.left = PartsOf(loop[w].file),
                             !.putting = {}, !.aborted = FALSE, !.detached = FALSE])
  /\ UNCHANGED <<disk, queue, activeBookId, late, stray, msg, resume, ends>>

(* A chunk that is in the cache is not fetched.                             *)
Hit(w) ==
  /\ Running(w, "fetch") /\ Chunked[loop[w].file] /\ ~loop[w].detached
  /\ \E p \in loop[w].left \cap cache : Step(w, [loop[w] EXCEPT !.left = @ \ {p}])
  /\ UNCHANGED <<disk, queue, activeBookId, late, stray, msg, resume, ends>>

(* The body of the file, or of a chunk, has arrived; cache.put is issued.   *)
(* Chunks are fetched several at a time and arrive in any order.            *)
Receive(w) ==
  /\ Running(w, "fetch") /\ ~loop[w].aborted
  /\ \E p \in loop[w].left :
       Step(w, [loop[w] EXCEPT !.left = @ \ {p}, !.putting = @ \cup {p}])
  /\ UNCHANGED <<disk, queue, activeBookId, late, stray, msg, resume, ends>>

(* cache.put has stored an entry, in a cache that may have been deleted.    *)
Store(w) ==
  /\ Running(w, "fetch")
  /\ \E p \in loop[w].putting :
       /\ cache' = IF loop[w].detached THEN cache ELSE cache \cup {p}
       /\ Step(w, [loop[w] EXCEPT !.putting = @ \ {p}])
  /\ UNCHANGED <<record, urls, queue, activeBookId, late, stray, msg, resume, ends>>

(* The file has failed while some of its entries may still be stored.       *)
Straggle(w, strays) ==
  /\ stray' = IF loop[w].detached THEN stray ELSE stray \cup strays
  /\ Step(w, [loop[w] EXCEPT !.pc = "failed", !.rec[loop[w].file] = "failed", !.left = {},
                !.putting = {}, !.straggles = @ \/ Parts[loop[w].file] > 1])

(* A request fails, or is aborted, which aborts those of the other chunks:  *)
(* only those that have arrived are stored.  When a body breaks off, or an  *)
(* entry cannot be stored, nothing tells the other chunks.                  *)
Fail(w) ==
  /\ Running(w, "fetch")
  /\ \/ loop[w].left # {} /\ Straggle(w, loop[w].putting)
     \/ \E p \in loop[w].left \cup loop[w].putting :
          /\ loop[w].aborted => p \in loop[w].putting
          /\ Straggle(w, (loop[w].putting \cup IF loop[w].aborted THEN {} ELSE loop[w].left) \ {p})
  /\ UNCHANGED <<disk, queue, activeBookId, late, msg, resume, ends>>

StoreStray ==
  /\ \E p \in stray : cache' = cache \cup {p} /\ stray' = stray \ {p}
  /\ UNCHANGED <<record, urls, queueing, msg, resume, ends>>

(* onProgress writes the record at most twice a second, without awaiting.   *)
(* A chunk of a file that has failed does so too: the loop's copy, while    *)
(* the loop is at that book, and what the copy has come to, after that.     *)
PersistProgress(w) ==
  /\ Running(w, "fetch") \/ loop[w].straggles
  /\ PutRecord(loop[w].book, loop[w].rec)
  /\ UNCHANGED <<urls, cache, queueing, stray, msg, resume, ends>>

LateProgress(b) ==
  /\ \E f \in FilesOf(b) : late[f] # "none"
  /\ PutRecord(b, late)
  /\ UNCHANGED <<urls, cache, queueing, stray, msg, resume, ends>>

IsReady(w) == Step(w, [loop[w] EXCEPT !.pc = "ready", !.rec[loop[w].file] = "ready"])

(* Mutant: cacheUrl returns without awaiting cache.put.                     *)
Downloaded_EarlyPut(w) ==
  /\ Running(w, "fetch") /\ loop[w].left = {}
  /\ stray' = stray \cup loop[w].putting
  /\ \/ Chunked[loop[w].file] /\ Step(w, [loop[w] EXCEPT !.pc = "urlMeta", !.putting = {}])
     \/ ~Chunked[loop[w].file] /\ IsReady(w)
  /\ UNCHANGED <<disk, queue, activeBookId, late, msg, resume, ends>>

Downloaded(w) ==
  /\ Running(w, "fetch") /\ loop[w].left = {} /\ loop[w].putting = {}
  /\ \/ Chunked[loop[w].file] /\ Step(w, [loop[w] EXCEPT !.pc = "urlMeta"])
     \/ ~Chunked[loop[w].file] /\ IsReady(w)
  /\ UNCHANGED <<disk, queue, activeBookId, late, stray, msg, resume, ends>>

(* cacheUrlChunked ends with a dbUrlPut whose failure fails the file.       *)
UrlMeta(w) ==
  /\ Running(w, "urlMeta")
  /\ \/ urls' = urls \cup {loop[w].file} /\ IsReady(w)
     \/ DbErrors /\ Fails(w) /\ UNCHANGED urls
  /\ UNCHANGED <<record, cache, queue, activeBookId, late, stray, msg, resume, ends>>

PutReady(w) ==
  /\ Running(w, "ready")
  /\ \/ PutRecord(loop[w].book, loop[w].rec) /\ NextFile(w, loop[w])
     \/ DbErrors /\ Fails(w) /\ UNCHANGED <<record, activeBookId, late>>
  /\ UNCHANGED <<urls, cache, queue, stray, msg, resume, ends>>

PutFailed(w) ==
  /\ Running(w, "failed")
  /\ PutRecord(loop[w].book, loop[w].rec) /\ NextFile(w, loop[w])
  /\ UNCHANGED <<urls, cache, queue, stray, msg, resume, ends>>

PutFinal(w) ==
  /\ Running(w, "final")
  /\ PutRecord(loop[w].book, loop[w].rec) /\ Return(w)
  /\ UNCHANGED <<urls, cache, queue, stray, msg, resume, ends>>

-----------------------------------------------------------------------------
(* The messages                                                             *)

Sent(m, op) == msg[m].pc = "new" /\ Op[m] = op
At(m, op, pc) == msg[m].pc = pc /\ Op[m] = op
Goto(m, pc) == msg' = [msg EXCEPT ![m].pc = pc]

(* Mutant: the page's word for the status is stored.                        *)
CachePut_Pending(m) ==
  /\ Sent(m, "cache")
  /\ PutRecord(Target[m], [f \in Files |-> "not_started"]) /\ Goto(m, "meta")
  /\ UNCHANGED <<urls, cache, queueing, stray, resume, ends>>

(* cacheBook: the record of the manifest, every file queued.                *)
CachePut(m) ==
  /\ Sent(m, "cache")
  /\ \/ PutRecord(Target[m], [f \in Files |-> "queued"]) /\ Goto(m, "meta")
     \/ DbErrors /\ Goto(m, "done") /\ UNCHANGED record
  /\ UNCHANGED <<urls, cache, queueing, stray, resume, ends>>

(* The metadata of all its URLs, failures ignored; then enqueueBook.        *)
CacheMeta(m) ==
  /\ At(m, "cache", "meta")
  /\ \E missed \in SUBSET FilesOf(Target[m]) :
       /\ DbErrors \/ missed = {}
       /\ urls' = urls \cup (FilesOf(Target[m]) \ missed)
  /\ EnqueueBook(Target[m]) /\ Goto(m, "done")
  /\ UNCHANGED <<record, cache, stray, resume, ends>>

(* clearBook: dbGet, or the handler fails.                                  *)
ClearFind(m) ==
  /\ Sent(m, "clear")
  /\ \/ msg' = [msg EXCEPT ![m] =
          [pc |-> "stop", todo |-> IF Exists(Target[m]) THEN FilesOf(Target[m]) ELSE {}]]
     \/ DbErrors /\ Goto(m, "done")
  /\ UNCHANGED <<disk, queueing, stray, resume, ends>>

(* controller.abort() for the downloads of the books of bs.                 *)
Aborted(bs) ==
  [w \in Loops |-> IF Running(w, "fetch") /\ loop[w].book \in bs
                   THEN [loop[w] EXCEPT !.aborted = TRUE] ELSE loop[w]]

(* Mutant: the book leaves bookQueue but not queuedBooks.                   *)
ClearStop_KeepsQueued(m) ==
  /\ At(m, "clear", "stop")
  /\ bookQueue' = Without(bookQueue, {Target[m]})
  /\ loop' = Aborted({Target[m]})
  /\ Goto(m, IF msg[m].todo = {} THEN "record" ELSE "files")
  /\ UNCHANGED <<disk, queuedBooks, processingQueue, activeBookId, late, stray, resume, ends>>

(* caches.open; the book leaves the queue and its download is aborted.      *)
ClearStop(m) ==
  /\ At(m, "clear", "stop")
  /\ queuedBooks' = queuedBooks \ {Target[m]}
  /\ bookQueue' = Without(bookQueue, {Target[m]})
  /\ loop' = Aborted({Target[m]})
  /\ Goto(m, IF msg[m].todo = {} THEN "record" ELSE "files")
  /\ UNCHANGED <<disk, processingQueue, activeBookId, late, stray, resume, ends>>

(* A file's metadata and entries are deleted, all files at a time.          *)
ClearFile(m) ==
  /\ At(m, "clear", "files")
  /\ \E f \in msg[m].todo :
       /\ urls' = urls \ {f} \/ (DbErrors /\ UNCHANGED urls)
       /\ cache' = cache \ PartsOf(f)
       /\ msg' = [msg EXCEPT ![m] = [pc |-> IF @.todo = {f} THEN "record" ELSE "files",
                                     todo |-> @.todo \ {f}]]
  /\ UNCHANGED <<record, queueing, stray, resume, ends>>

ClearRecord(m) ==
  /\ At(m, "clear", "record")
  /\ PutRecord(Target[m], NoRecord) \/ (DbErrors /\ UNCHANGED record)
  /\ Goto(m, "done")
  /\ UNCHANGED <<urls, cache, queueing, stray, resume, ends>>

(* clearAll: every download is aborted and the queue emptied.               *)
ClearAllStop(m) ==
  /\ Sent(m, "clearAll")
  /\ bookQueue' = <<>> /\ queuedBooks' = {} /\ loop' = Aborted(Books)
  /\ Goto(m, "cache")
  /\ UNCHANGED <<disk, processingQueue, activeBookId, late, stray, resume, ends>>

(* Mutant: the records are left.                                            *)
ClearAllCache_KeepsDb(m) ==
  /\ At(m, "clearAll", "cache")
  /\ cache' = {} /\ stray' = {} /\ Goto(m, "done")
  /\ UNCHANGED <<record, urls, queueing, resume, ends>>

(* caches.delete: downloads go on with a cache nobody can open any more;    *)
(* the chunks they would have found in it, they still find.                 *)
ClearAllCache(m) ==
  /\ At(m, "clearAll", "cache")
  /\ cache' = {} /\ stray' = {}
  /\ loop' = [w \in Loops |->
                IF Running(w, "fetch")
                THEN [loop[w] EXCEPT !.detached = TRUE,
                        !.left = IF Chunked[loop[w].file] /\ ~loop[w].detached
                                 THEN @ \ cache ELSE @]
                ELSE loop[w]]
  /\ Goto(m, "db")
  /\ UNCHANGED <<record, urls, queue, activeBookId, late, resume, ends>>

ClearAllDb(m) ==
  /\ At(m, "clearAll", "db")
  /\ \/ record' = NoRecord /\ urls' = {}
     \/ DbErrors /\ UNCHANGED <<record, urls>>
  /\ Goto(m, "done")
  /\ UNCHANGED <<cache, queueing, stray, resume, ends>>

-----------------------------------------------------------------------------
(* The life of the worker                                                   *)

(* Its memory is gone, and so are the handlers that were running.           *)
Forget ==
  /\ bookQueue' = <<>> /\ queuedBooks' = {} /\ processingQueue' = FALSE
  /\ activeBookId' = NoBook /\ late' = NoRecord
  /\ loop' = [w \in Loops |-> NoTask] /\ stray' = {}
  /\ msg' = [m \in Msgs |-> IF msg[m].pc = "new" THEN NoCall ELSE [NoCall EXCEPT !.pc = "done"]]
  /\ UNCHANGED disk

(* The browser stops the worker; the next event starts it, with no activate *)
(* event.                                                                   *)
Stop ==
  /\ stops < MaxStops /\ stops' = stops + 1
  /\ Forget /\ resume' = NoResume /\ UNCHANGED updates

(* A new version takes over, and its activate event is handled.             *)
Update ==
  /\ updates < MaxUpdates /\ updates' = updates + 1
  /\ Forget /\ resume' = [NoResume EXCEPT !.pc = "list"] /\ UNCHANGED stops

(* Mutant: only books with a queued file are taken up again.                *)
ResumeList_OnlyQueued ==
  /\ resume.pc = "list"
  /\ LET pending == {b \in Books : \E f \in FilesOf(b) : record[f] = "queued"}
     IN  \/ resume' = [pc |-> IF pending = {} THEN "off" ELSE "each", recs |-> record,
                       todo |-> pending]
         \/ DbErrors /\ resume' = NoResume
  /\ UNCHANGED <<disk, queueing, stray, msg, ends>>

(* resumePendingDownloads: dbListBooks.                                     *)
ResumeList ==
  /\ resume.pc = "list"
  /\ LET pending == {b \in Books : \E f \in FilesOf(b) : Unsettled(f)}
     IN  \/ resume' = [pc |-> IF pending = {} THEN "off" ELSE "each", recs |-> record,
                       todo |-> pending]
         \/ DbErrors /\ resume' = NoResume
  /\ UNCHANGED <<disk, queueing, stray, msg, ends>>

Rest(b) == IF resume.todo = {b} THEN NoResume ELSE [resume EXCEPT !.todo = @ \ {b}]

(* The next record: what was downloading is queued again, and so is the    *)
(* book; a failure ends the whole function.                                 *)
ResumeBook ==
  /\ resume.pc = "each"
  /\ \/ \E b \in resume.todo :
          /\ IF \E f \in FilesOf(b) : resume.recs[f] = "downloading"
             THEN PutRecord(b, [f \in Files |->
                    IF resume.recs[f] = "downloading" THEN "queued" ELSE resume.recs[f]])
             ELSE UNCHANGED record
          /\ EnqueueBook(b) /\ resume' = Rest(b)
     \/ DbErrors /\ resume' = NoResume /\ UNCHANGED <<record, queueing>>
  /\ UNCHANGED <<urls, cache, stray, msg, ends>>

-----------------------------------------------------------------------------
(* What the page sees                                                       *)

(* The fetch event of a media URL: the cached file; for a file known to be *)
(* chunked its chunks, a missing one breaking the stream; the network.      *)
Served(f) ==
  IF ~Chunked[f] THEN IF <<f, 1>> \in cache THEN "cache" ELSE "network"
  ELSE IF f \notin urls THEN "network"
  ELSE IF PartsOf(f) \subseteq cache THEN "cache" ELSE "error"

(* The status QUERY_BOOKS reports.                                          *)
QueryStatus(b) ==
  LET has(s) == \E f \in FilesOf(b) : record[f] = s
  IN  IF ~Exists(b) THEN "not_started"
      ELSE IF \A f \in FilesOf(b) : record[f] = "ready" THEN "ready"
      ELSE IF has("failed") /\ ~has("ready") THEN "failed"
      ELSE IF has("downloading") THEN "downloading"
      ELSE IF has("queued") THEN "queued" ELSE "partial"

-----------------------------------------------------------------------------
Begin(m) == CachePut(m) \/ ClearFind(m) \/ ClearAllStop(m)

Continue(m) ==
  \/ CacheMeta(m)
  \/ ClearStop(m) \/ ClearFile(m) \/ ClearRecord(m)
  \/ ClearAllCache(m) \/ ClearAllDb(m)

LoopStep(w) ==
  \/ NextBook(w) \/ LoopRejects(w) \/ Get(w) \/ Verify(w) \/ PutFirst(w) \/ Mark(w)
  \/ Meta(w) \/ Open(w) \/ Hit(w) \/ Receive(w) \/ Store(w) \/ Fail(w) \/ Downloaded(w)
  \/ UrlMeta(w) \/ PutReady(w) \/ PutFailed(w) \/ PutFinal(w)

Next ==
  \/ \E m \in Msgs : Begin(m) \/ Continue(m)
  \/ \E w \in Loops : LoopStep(w) \/ PersistProgress(w)
  \/ \E b \in Books : LateProgress(b)
  \/ StoreStray \/ ResumeList \/ ResumeBook \/ Stop \/ Update

Spec == Init /\ [][Next]_vars

(* The event loop of a worker that is not stopped runs every continuation. *)
(* Requests end: the browser fails those that do not.                       *)
FairSpec ==
  /\ Spec
  /\ \A m \in Msgs : WF_vars(Continue(m))
  /\ \A w \in Loops : WF_vars(LoopStep(w))
  /\ WF_vars(ResumeList \/ ResumeBook)

-----------------------------------------------------------------------------
(* Properties                                                               *)

Pcs == {"idle", "next", "get", "verify", "put", "mark", "meta", "open", "fetch",
        "urlMeta", "ready", "failed", "final"}
Tasks == [pc : Pcs, book : Books \cup {NoBook}, rec : [Files -> Statuses],
          todo : SUBSET Files, file : Files \cup {NoFile}, left : SUBSET Entries,
          putting : SUBSET Entries, aborted : BOOLEAN, detached : BOOLEAN, straggles : BOOLEAN]
Calls == [pc : {"new", "meta", "stop", "files", "record", "cache", "db", "done"},
          todo : SUBSET Files]
Resumes == [pc : {"off", "list", "each"}, recs : [Files -> Statuses], todo : SUBSET Books]

(* Every variable has the type the worker's code gives it.                  *)
TypeOK ==
  /\ record \in [Files -> Statuses] /\ urls \subseteq Files /\ cache \subseteq Entries
  /\ bookQueue \in Seq(Books) /\ queuedBooks \subseteq Books
  /\ processingQueue \in BOOLEAN /\ activeBookId \in Books \cup {NoBook}
  /\ late \in [Files -> Statuses]
  /\ loop \in [Loops -> Tasks] /\ stray \subseteq Entries
  /\ msg \in [Msgs -> Calls] /\ resume \in Resumes
  /\ stops \in 0..MaxStops /\ updates \in 0..MaxUpdates

Busy == {w \in Loops : loop[w].pc # "idle"}

(* One book is downloaded at a time: processingQueue is set exactly while  *)
(* one processQueue runs.                                                   *)
OneBook ==
  /\ processingQueue <=> Busy # {}
  /\ \A v, w \in Busy : v = w

(* bookQueue holds the books of queuedBooks, each once: a book that is in  *)
(* one and not in the other could never be queued again, or be twice.       *)
QueueAgrees == Agrees(bookQueue, queuedBooks)

(* While IndexedDB works, a queued book has a loop that will come to it.    *)
QueueServed == bookQueue # <<>> => processingQueue

(* While IndexedDB works, the book shown at position 0 of the queue is the *)
(* one the loop works on.                                                   *)
ActiveAgrees ==
  \A b \in Books : activeBookId = b <=> \E w \in Loops : loop[w].book = b

(* Somebody will still write the record of book b, or delete it.            *)
Responsible(b) ==
  \/ b \in queuedBooks \/ \E w \in Loops : loop[w].book = b
  \/ \E m \in Msgs : \/ At(m, "cache", "meta") /\ Target[m] = b
                     \/ Target[m] = b /\ (At(m, "clear", "files") \/ At(m, "clear", "record"))
                     \/ At(m, "clearAll", "cache") \/ At(m, "clearAll", "db")
  \/ resume.pc = "list" \/ b \in resume.todo

(* No file is shown as queued or downloading when nobody is going to take  *)
(* it on, as long as the browser does not stop the worker.                  *)
Accounted == \A f \in Files : Unsettled(f) => Responsible(BookOf[f])

(* While nothing is cleared, a file shown as ready is served from the      *)
(* device, all of it, through aborts, updates and failures.                 *)
ReadyServes == \A f \in Files : record[f] = "ready" => Served(f) = "cache"

(* Every file that is queued or downloading is settled some day, and so is *)
(* what a query says of its book.                                           *)
EveryFileSettles ==
  /\ \A f \in Files : Unsettled(f) ~> ~Unsettled(f)
  /\ \A b \in Books : QueryStatus(b) \in {"queued", "downloading"}
                       ~> QueryStatus(b) \in {"ready", "failed", "partial"}
=============================================================================
