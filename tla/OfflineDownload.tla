--------------------------- MODULE OfflineDownload ---------------------------
(***************************************************************************)
(* The server's offline cache (library/offline-download.service.ts).       *)
(*                                                                         *)
(* Checking a book out queues one download row per media file of the book; *)
(* a single processing loop takes the rows one by one, streams the file    *)
(* from Bookdarr into <path>.part, renames it to <path> and marks the row  *)
(* ready.  Returning a book and the administrator's "Clear Server Cache"   *)
(* abort, dequeue and delete.  The process is single threaded: an action   *)
(* is what happens between two awaits, that is the effect of one database, *)
(* disk or network call together with the synchronous code that runs up to *)
(* the next await.  Requests and the loop interleave at every await.       *)
(*                                                                         *)
(* rows, media and part survive a crash; every other variable is memory.   *)
(***************************************************************************)
EXTENDS WaitingList, Integers, FiniteSets, Sequences

CONSTANTS
  Reqs,           \* HTTP requests that may reach the service, each made once
  Op,             \* the service method a request ends up calling
  Target,         \* the book a request is about (a book of one user)
  Files,          \* media files, each at one path data/offline/user/book/file
  Books,          \* (user, book) pairs
  BookOf,         \* the book a file belongs to
  Loops,          \* invocations of processQueue that may run
  ListedBytes,    \* size of a file in Bookdarr's file list, 0 when unknown
  BodyBytes,      \* size of the body Bookdarr sends for it
  MaxFileBytes,   \* bound on both sizes
  MaxCacheBytes,  \* OFFLINE_MAX_CACHE_MB, 0 when there is no cap
  EvictOldest,    \* OFFLINE_EVICT_OLDEST
  MaxRestarts,    \* bound on the number of process restarts
  DbErrors,       \* whether a database call may fail where the code survives it
  NoId            \* the id of a task or request that has none

Ops == {"queue", "remove", "clear", "serve"}

(* uuid of a row: a checkout creates at most one row per file *)
Ids == {r \in Reqs : Op[r] = "queue"} \X Files
FileOf(id) == id[2]

ASSUME ConstantsAssumption ==
  /\ IsFiniteSet(Reqs) /\ IsFiniteSet(Files)
  /\ Op \in [Reqs -> Ops]
  /\ Target \in [Reqs -> Books]
  /\ BookOf \in [Files -> Books]
  /\ MaxFileBytes \in Nat
  /\ ListedBytes \in [Files -> 0..MaxFileBytes]
  /\ BodyBytes \in [Files -> 1..MaxFileBytes]
  /\ MaxCacheBytes \in Nat
  /\ EvictOldest \in BOOLEAN
  /\ MaxRestarts \in Nat
  /\ DbErrors \in BOOLEAN
  /\ NoId \notin Ids

VARIABLES
  rows,        \* table offline_downloads: Ids -> row, NoRow when absent
  media,       \* files present at their final path
  part,        \* files whose .part exists
  queue,       \* this.queue
  queuedIds,   \* this.queuedIds
  active,      \* keys of this.active
  processing, clearing, stopping,   \* the three flags of the service
  loop,        \* locals of each running processQueue and its downloadFile
  req,         \* locals of each request
  phase,       \* "boot", "resuming" (onModuleInit), "up" (requests accepted)
  pending,     \* rows resumePending has found and not yet enqueued
  restarts     \* number of restarts so far, bounded by MaxRestarts

disk == <<rows, media, part>>
work == <<queue, queuedIds, processing, loop>>
boot == <<phase, pending, restarts>>
vars == <<disk, work, active, clearing, stopping, req, boot>>

Statuses == {"none", "queued", "downloading", "ready", "failed"}
NoRow  == [status |-> "none", bytes |-> 0]
Exists(id) == rows[id].status # "none"
RowsOf(b) == {id \in Ids : Exists(id) /\ BookOf[FileOf(id)] = b}

NoTask == [pc |-> "idle", id |-> NoId, aborted |-> FALSE, bytes |-> 0, keep |-> {},
           victim |-> NoId]
NoCall == [pc |-> "new", files |-> {}, ids |-> {}, id |-> NoId]

Init ==
  /\ rows = [id \in Ids |-> NoRow]
  /\ media = {} /\ part = {}
  /\ queue = <<>> /\ queuedIds = {} /\ active = {}
  /\ processing = FALSE /\ clearing = FALSE /\ stopping = FALSE
  /\ loop = [w \in Loops |-> NoTask]
  /\ req = [r \in Reqs |-> NoCall]
  /\ phase = "boot" /\ pending = {} /\ restarts = 0

-----------------------------------------------------------------------------
(* Database calls.  repo.update by id does nothing when the row is gone.    *)

(* Mutant: save instead of update, which inserts a missing row.             *)
SetRow_Saves(id, status, bytes) ==
  rows' = [rows EXCEPT ![id] = [status |-> status, bytes |-> bytes]]

SetRow(id, status, bytes) ==
  rows' = IF Exists(id)
          THEN [rows EXCEPT ![id] = [status |-> status, bytes |-> bytes]]
          ELSE rows

SetStatus(id, status) == SetRow(id, status, rows[id].bytes)

DeleteRows(ids) == rows' = [id \in Ids |-> IF id \in ids THEN NoRow ELSE rows[id]]

(* One byte cell <<row, k>> for each byte of each <<id, bytes>> in S, so    *)
(* that their number is the sum of the byte counts.                        *)
Cells(S) == {c \in S \X (1..MaxFileBytes) : c[2] <= c[1][2]}
Bytes(S) == Cardinality(Cells(S))

ReadyRows == {p \in Ids \X (0..MaxFileBytes) :
                rows[p[1]].status = "ready" /\ rows[p[1]].bytes = p[2]}

-----------------------------------------------------------------------------
(* processQueue and enqueue                                                 *)

(* Mutant: the processing flag is not reset when the loop ends.             *)
TakeNext_KeepsFlag(w, q, qs, act) ==
  LET waiting == {k \in DOMAIN q : q[k] \notin act}
  IN  \/ /\ waiting = {}
         /\ queue' = <<>> /\ queuedIds' = qs \ Members(q)
         /\ processing' = TRUE
         /\ loop' = [loop EXCEPT ![w] = NoTask]
      \/ \E k \in waiting :
         /\ \A j \in waiting : k <= j
         /\ queue' = SubSeq(q, k + 1, Len(q))
         /\ queuedIds' = qs \ {q[j] : j \in 1..k}
         /\ processing' = TRUE
         /\ loop' = [loop EXCEPT ![w] = [NoTask EXCEPT !.pc = "find", !.id = q[k]]]

(* The head of the while loop in processQueue: shift ids, skip those that  *)
(* are active, and issue findOne for the first other one; leave the loop   *)
(* when nothing is left.                                                   *)
TakeNext(w, q, qs, act) ==
  LET waiting == {k \in DOMAIN q : q[k] \notin act}
  IN  \/ /\ waiting = {}
         /\ queue' = <<>>
         /\ queuedIds' = qs \ Members(q)
         /\ processing' = FALSE
         /\ loop' = [loop EXCEPT ![w] = NoTask]
      \/ \E k \in waiting :
         /\ \A j \in waiting : k <= j
         /\ queue' = SubSeq(q, k + 1, Len(q))
         /\ queuedIds' = qs \ {q[j] : j \in 1..k}
         /\ processing' = TRUE
         /\ loop' = [loop EXCEPT ![w] = [NoTask EXCEPT !.pc = "find", !.id = q[k]]]

(* Mutant: the guard forgets the processing flag.                           *)
ProcessQueue_Reenters(q, qs) ==
  \/ /\ stopping \/ clearing
     /\ queue' = q /\ queuedIds' = qs
     /\ UNCHANGED <<processing, loop>>
  \/ /\ ~(stopping \/ clearing)
     /\ \E w \in Loops : loop[w].pc = "idle" /\ TakeNext(w, q, qs, active)

(* processQueue, called when q holds the queue.                             *)
ProcessQueue(q, qs) ==
  \/ /\ processing \/ stopping \/ clearing
     /\ queue' = q /\ queuedIds' = qs
     /\ UNCHANGED <<processing, loop>>
  \/ /\ ~(processing \/ stopping \/ clearing)
     /\ \E w \in Loops : loop[w].pc = "idle" /\ TakeNext(w, q, qs, active)

(* Mutant: nothing is pushed while a loop is running.                       *)
Enqueue_WhenIdle(id) ==
  \/ /\ clearing \/ processing \/ id \in queuedIds \/ id \in active
     /\ UNCHANGED work
  \/ /\ ~(clearing \/ processing \/ id \in queuedIds \/ id \in active)
     /\ ProcessQueue(Append(queue, id), queuedIds \cup {id})

Enqueue(id) ==
  \/ /\ clearing \/ id \in queuedIds \/ id \in active
     /\ UNCHANGED work
  \/ /\ ~(clearing \/ id \in queuedIds \/ id \in active)
     /\ ProcessQueue(Append(queue, id), queuedIds \cup {id})

(* controller.abort() for every active id of ids; this.active forgets them. *)
Aborted(ids) ==
  [w \in Loops |->
     IF loop[w].pc \notin {"idle", "find"} /\ loop[w].id \in ids \cap active
     THEN [loop[w] EXCEPT !.aborted = TRUE] ELSE loop[w]]

-----------------------------------------------------------------------------
(* queueBook                                                                *)

Started(r, op) == phase = "up" /\ req[r].pc = "new" /\ Op[r] = op
At(r, op, pc)  == phase = "up" /\ req[r].pc = pc /\ Op[r] = op
Goto(r, pc)    == req' = [req EXCEPT ![r].pc = pc]

(* getBookFiles fails: nothing is queued; or it lists the book's files.     *)
QueueFiles(r) ==
  /\ Started(r, "queue")
  /\ \E fs \in {{}, {f \in Files : BookOf[f] = Target[r]}} :
       req' = [req EXCEPT ![r] =
                 [@ EXCEPT !.pc = IF fs = {} THEN "done" ELSE "find", !.files = fs]]
  /\ UNCHANGED <<disk, work, active, clearing, stopping, boot>>

(* findOne of the next file's row: a ready row is left alone, an existing  *)
(* one will be reset, a missing one created.                               *)
QueueFind(r) ==
  /\ At(r, "queue", "find")
  /\ \E f \in req[r].files :
       LET found == {id \in Ids : FileOf(id) = f /\ Exists(id)}
           rest  == req[r].files \ {f}
       IN  \/ /\ found = {}
              /\ req' = [req EXCEPT ![r] =
                           [pc |-> "save", files |-> rest, ids |-> {}, id |-> <<r, f>>]]
           \/ \E id \in found :
              /\ rows[id].status = "ready"
              /\ req' = [req EXCEPT ![r] =
                           [@ EXCEPT !.pc = IF rest = {} THEN "done" ELSE "find",
                                     !.files = rest]]
           \/ \E id \in found :
              /\ rows[id].status # "ready"
              /\ req' = [req EXCEPT ![r] =
                           [pc |-> "update", files |-> rest, ids |-> {}, id |-> id]]
  /\ UNCHANGED <<disk, work, active, clearing, stopping, boot>>

QueueNext(r) == Goto(r, IF req[r].files = {} THEN "done" ELSE "find")

QueueSave(r) ==
  /\ At(r, "queue", "save")
  /\ LET id == req[r].id
     IN  /\ rows' = [rows EXCEPT ![id] =
                       [status |-> "queued", bytes |-> ListedBytes[FileOf(id)]]]
         /\ Enqueue(id)
  /\ QueueNext(r)
  /\ UNCHANGED <<media, part, active, clearing, stopping, boot>>

QueueUpdate(r) ==
  /\ At(r, "queue", "update")
  /\ SetRow(req[r].id, "queued", ListedBytes[FileOf(req[r].id)])
  /\ Goto(r, "rm")
  /\ UNCHANGED <<media, part, work, active, clearing, stopping, boot>>

QueueRemoveFile(r) ==
  /\ At(r, "queue", "rm")
  /\ media' = media \ {FileOf(req[r].id)}
  /\ Goto(r, "rmPart")
  /\ UNCHANGED <<rows, part, work, active, clearing, stopping, boot>>

QueueRemovePart(r) ==
  /\ At(r, "queue", "rmPart")
  /\ part' = part \ {FileOf(req[r].id)}
  /\ Enqueue(req[r].id)
  /\ QueueNext(r)
  /\ UNCHANGED <<rows, media, active, clearing, stopping, boot>>

-----------------------------------------------------------------------------
(* removeBook                                                               *)

RemoveFind(r) ==
  /\ Started(r, "remove")
  /\ LET ids == RowsOf(Target[r])
     IN  /\ loop' = Aborted(ids)
         /\ active' = active \ ids
         /\ queuedIds' = queuedIds \ ids
         /\ queue' = Without(queue, ids)
         /\ req' = [req EXCEPT ![r] = [@ EXCEPT !.pc = "delete", !.ids = ids]]
  /\ UNCHANGED <<disk, processing, clearing, stopping, boot>>

RemoveDelete(r) ==
  /\ At(r, "remove", "delete")
  /\ DeleteRows(RowsOf(Target[r]))
  /\ Goto(r, IF req[r].ids = {} THEN "done" ELSE "rm")
  /\ UNCHANGED <<media, part, work, active, clearing, stopping, boot>>

RemoveFile(r) ==
  /\ At(r, "remove", "rm")
  /\ \E id \in req[r].ids :
       /\ media' = media \ {FileOf(id)}
       /\ req' = [req EXCEPT ![r] =
                    [@ EXCEPT !.pc = "rmPart", !.id = id, !.ids = req[r].ids \ {id}]]
  /\ UNCHANGED <<rows, part, work, active, clearing, stopping, boot>>

RemovePart(r) ==
  /\ At(r, "remove", "rmPart")
  /\ part' = part \ {FileOf(req[r].id)}
  /\ Goto(r, IF req[r].ids = {} THEN "done" ELSE "rm")
  /\ UNCHANGED <<rows, media, work, active, clearing, stopping, boot>>

-----------------------------------------------------------------------------
(* clearAllCachedMedia                                                      *)

(* Mutant: the queue is emptied, the set of queued ids is not.              *)
ClearStart_KeepsIds(r) ==
  /\ Started(r, "clear")
  /\ clearing' = TRUE
  /\ loop' = Aborted(Ids)
  /\ active' = {} /\ queue' = <<>>
  /\ Goto(r, "delete")
  /\ UNCHANGED <<disk, queuedIds, processing, stopping, boot>>

ClearStart(r) ==
  /\ Started(r, "clear")
  /\ clearing' = TRUE
  /\ loop' = Aborted(Ids)
  /\ active' = {} /\ queuedIds' = {} /\ queue' = <<>>
  /\ Goto(r, "delete")
  /\ UNCHANGED <<disk, processing, stopping, boot>>

ClearDelete(r) ==
  /\ At(r, "clear", "delete")
  /\ DeleteRows(Ids)
  /\ Goto(r, "rm")
  /\ UNCHANGED <<media, part, work, active, clearing, stopping, boot>>

(* rm -r of the directory: what is there is removed, unless rm fails, which *)
(* the code ignores.                                                       *)
ClearFiles(r) ==
  /\ At(r, "clear", "rm")
  /\ \/ media' = {} /\ part' = {}
     \/ UNCHANGED <<media, part>>
  /\ Goto(r, "mkdir")
  /\ UNCHANGED <<rows, work, active, clearing, stopping, boot>>

ClearDone(r) ==
  /\ At(r, "clear", "mkdir")
  /\ clearing' = FALSE
  /\ Goto(r, "done")
  /\ UNCHANGED <<disk, work, active, stopping, boot>>

-----------------------------------------------------------------------------
(* getCachedFilePath: findOne of a ready row, access, and update to failed  *)
(* when the file is missing.                                                *)

ServeFind(r) ==
  /\ Started(r, "serve")
  /\ LET ready == {id \in RowsOf(Target[r]) : rows[id].status = "ready"}
     IN  \/ /\ ready = {}
            /\ Goto(r, "done")
         \/ \E id \in ready :
              req' = [req EXCEPT ![r] = [@ EXCEPT !.pc = "access", !.id = id]]
  /\ UNCHANGED <<disk, work, active, clearing, stopping, boot>>

ServeAccess(r) ==
  /\ At(r, "serve", "access")
  /\ Goto(r, IF FileOf(req[r].id) \in media THEN "done" ELSE "fail")
  /\ UNCHANGED <<disk, work, active, clearing, stopping, boot>>

ServeMissing(r) ==
  /\ At(r, "serve", "fail")
  /\ SetStatus(req[r].id, "failed")
  /\ Goto(r, "done")
  /\ UNCHANGED <<media, part, work, active, clearing, stopping, boot>>

-----------------------------------------------------------------------------
(* Mutant: clearing is reset at the end of the method, not in a finally.    *)
CallFails_NoFinally(r) ==
  /\ DbErrors /\ phase = "up"
  /\ req[r].pc \in {"find", "save", "update", "delete", "fail"}
  /\ Goto(r, "done")
  /\ UNCHANGED <<disk, work, active, clearing, stopping, boot>>

(* A database call fails: the request ends there with an error, what it has *)
(* done stays done; the finally block of clearAllCachedMedia resets the flag*)
CallFails(r) ==
  /\ DbErrors /\ phase = "up"
  /\ req[r].pc \in {"find", "save", "update", "delete", "fail"}
  /\ Goto(r, "done")
  /\ clearing' = IF Op[r] = "clear" THEN FALSE ELSE clearing
  /\ UNCHANGED <<disk, work, active, stopping, boot>>

-----------------------------------------------------------------------------
(* The loop: processQueue, downloadFile, assertCacheCapacity                *)

Task(w)  == loop[w]
Path(w)  == FileOf(loop[w].id)
Running  == phase # "boot"

Step(w, from) == Running /\ loop[w].pc = from
To(w, pc)     == loop' = [loop EXCEPT ![w].pc = pc]

(* downloadFile ends: active.delete, then processQueue (which returns, as  *)
(* this loop is processing), then the next turn of the loop.               *)
Finish(w) ==
  /\ active' = active \ {Task(w).id}
  /\ TakeNext(w, queue, queuedIds, active \ {Task(w).id})

(* findOne of the shifted id: gone or ready rows are skipped, for any other *)
(* downloadFile begins.  assertCacheCapacity refuses while clearing.       *)
LoopFind(w) ==
  /\ Step(w, "find")
  /\ LET id == Task(w).id
     IN  \/ /\ rows[id].status \in {"none", "ready"}
            /\ TakeNext(w, queue, queuedIds, active)
            /\ UNCHANGED active
         \/ /\ rows[id].status \notin {"none", "ready"}
            /\ active' = active \cup {id}
            /\ loop' = [loop EXCEPT ![w] =
                 [@ EXCEPT !.bytes = rows[id].bytes,
                           !.pc = CASE MaxCacheBytes = 0 -> "disk"
                                    [] MaxCacheBytes # 0 /\ clearing -> "reject"
                                    [] OTHER -> "capacity"]]
            /\ UNCHANGED <<queue, queuedIds, processing>>
  /\ UNCHANGED <<disk, clearing, stopping, req, boot>>

(* Mutant: the download about to start is not counted.                      *)
Fits_Before(keep, bytes) == Bytes(keep) <= MaxCacheBytes

Fits(keep, bytes) == Bytes(keep) + bytes <= MaxCacheBytes

(* The ready rows are read once; keep is what eviction leaves of them.      *)
Capacity(w) ==
  /\ Step(w, "capacity")
  /\ loop' = [loop EXCEPT ![w] =
       [@ EXCEPT !.keep = ReadyRows,
                 !.pc = CASE Fits(ReadyRows, Task(w).bytes) -> "disk"
                          [] ~Fits(ReadyRows, Task(w).bytes) /\ EvictOldest -> "evict"
                          [] OTHER -> "reject"]]
  /\ UNCHANGED <<disk, queue, queuedIds, processing, active, clearing, stopping, req, boot>>

(* Evict one row after another (the code takes the oldest first, here any) *)
(* until the download fits: its files, then the row.  A row that cannot be *)
(* deleted is counted as freed all the same.                               *)
Evict(w) ==
  /\ Step(w, "evict")
  /\ ~Fits(Task(w).keep, Task(w).bytes)
  /\ \E p \in Task(w).keep :
       /\ media' = media \ {FileOf(p[1])}
       /\ part' = part \ {FileOf(p[1])}
       /\ loop' = [loop EXCEPT ![w] = [@ EXCEPT !.pc = "evictRow", !.victim = p[1]]]
  /\ UNCHANGED <<rows, queue, queuedIds, processing, active, clearing, stopping, req, boot>>

EvictRow(w) ==
  /\ Step(w, "evictRow")
  /\ \/ DeleteRows({Task(w).victim})
     \/ DbErrors /\ UNCHANGED rows
  /\ loop' = [loop EXCEPT ![w] =
       [@ EXCEPT !.pc = "evict", !.victim = NoId,
                 !.keep = {p \in Task(w).keep : p[1] # Task(w).victim}]]
  /\ UNCHANGED <<media, part, queue, queuedIds, processing, active, clearing, stopping,
                 req, boot>>

EvictEnd(w) ==
  /\ Step(w, "evict")
  /\ \/ Fits(Task(w).keep, Task(w).bytes) /\ To(w, "disk")
     \/ ~Fits(Task(w).keep, Task(w).bytes) /\ Task(w).keep = {} /\ To(w, "reject")
  /\ UNCHANGED <<disk, queue, queuedIds, processing, active, clearing, stopping, req, boot>>

(* assertDiskSpace: statfs decides, a failure counts as no space.           *)
DiskSpace(w) ==
  /\ Step(w, "disk")
  /\ \E pc \in {"mark", "reject"} : To(w, pc)
  /\ UNCHANGED <<disk, queue, queuedIds, processing, active, clearing, stopping, req, boot>>

Reject(w) ==
  /\ Step(w, "reject")
  /\ SetStatus(Task(w).id, "failed")
  /\ Finish(w)
  /\ UNCHANGED <<media, part, clearing, stopping, req, boot>>

Mark(w) ==
  /\ Step(w, "mark")
  /\ SetStatus(Task(w).id, "downloading")
  /\ To(w, "fetch")
  /\ UNCHANGED <<media, part, queue, queuedIds, processing, active, clearing, stopping,
                 req, boot>>

(* streamBookFile: fails, as it must once aborted, or answers, with or     *)
(* without a content-length.                                               *)
Fetch(w) ==
  /\ Step(w, "fetch")
  /\ \/ To(w, "discard")
     \/ /\ ~Task(w).aborted
        /\ \E n \in {Task(w).bytes, BodyBytes[Path(w)]} :
             loop' = [loop EXCEPT ![w] =
               [@ EXCEPT !.bytes = n, !.pc = IF n # Task(w).bytes THEN "resize" ELSE "open"]]
  /\ UNCHANGED <<disk, queue, queuedIds, processing, active, clearing, stopping, req, boot>>

Resize(w) ==
  /\ Step(w, "resize")
  /\ \/ SetRow(Task(w).id, rows[Task(w).id].status, Task(w).bytes) /\ To(w, "open")
     \/ DbErrors /\ UNCHANGED rows /\ To(w, "discard")
  /\ UNCHANGED <<media, part, queue, queuedIds, processing, active, clearing, stopping,
                 req, boot>>

(* mkdir and createWriteStream; the first read of an aborted body fails.    *)
OpenPart(w) ==
  /\ Step(w, "open")
  /\ \/ /\ part' = part \cup {Path(w)}
        /\ To(w, IF Task(w).aborted THEN "discard" ELSE "stream")
     \/ UNCHANGED part /\ To(w, "discard")
  /\ UNCHANGED <<rows, media, queue, queuedIds, processing, active, clearing, stopping,
                 req, boot>>

(* Mutant: the row is marked ready before the file is renamed.              *)
Stream_MarksReady(w) ==
  /\ Step(w, "stream")
  /\ SetStatus(Task(w).id, "ready")
  /\ \E pc \in {"rename", "discard"} : To(w, pc)
  /\ UNCHANGED <<media, part, queue, queuedIds, processing, active, clearing, stopping,
                 req, boot>>

(* The pipeline ends with the whole body on disk, or fails.  An abort that *)
(* comes after the last byte was read does not fail it.                    *)
Stream(w) ==
  /\ Step(w, "stream")
  /\ \E pc \in {"rename", "discard"} : To(w, pc)
  /\ UNCHANGED <<disk, queue, queuedIds, processing, active, clearing, stopping, req, boot>>

(* Once a second the progress is written, without waiting for the answer.   *)
Progress(w) ==
  /\ Step(w, "stream")
  /\ SetRow(Task(w).id, rows[Task(w).id].status, Task(w).bytes)
  /\ UNCHANGED <<media, part, work, active, clearing, stopping, req, boot>>

(* rename fails when somebody has removed the .part meanwhile.              *)
Rename(w) ==
  /\ Step(w, "rename")
  /\ \/ /\ Path(w) \in part
        /\ part' = part \ {Path(w)} /\ media' = media \cup {Path(w)}
        /\ To(w, "ready")
     \/ /\ Path(w) \notin part
        /\ UNCHANGED <<part, media>>
        /\ To(w, "discard")
  /\ UNCHANGED <<rows, queue, queuedIds, processing, active, clearing, stopping, req, boot>>

(* Mutant: the bytes read are added to the announced length.                *)
FinalBytes_Added(w) == Task(w).bytes + BodyBytes[Path(w)]

FinalBytes(w) == IF Task(w).bytes > 0 THEN Task(w).bytes ELSE BodyBytes[Path(w)]

Ready(w) ==
  /\ Step(w, "ready")
  /\ \/ SetRow(Task(w).id, "ready", FinalBytes(w)) /\ Finish(w)
     \/ /\ DbErrors
        /\ To(w, "discard")
        /\ UNCHANGED <<rows, queue, queuedIds, processing, active>>
  /\ UNCHANGED <<media, part, clearing, stopping, req, boot>>

(* The catch block: remove the .part; an aborted download reports nothing.  *)
Discard(w) ==
  /\ Step(w, "discard")
  /\ part' = part \ {Path(w)}
  /\ \/ /\ Task(w).aborted \/ stopping
        /\ Finish(w)
     \/ /\ ~(Task(w).aborted \/ stopping)
        /\ To(w, "fail")
        /\ UNCHANGED <<queue, queuedIds, processing, active>>
  /\ UNCHANGED <<rows, media, clearing, stopping, req, boot>>

Fail(w) ==
  /\ Step(w, "fail")
  /\ SetStatus(Task(w).id, "failed")
  /\ Finish(w)
  /\ UNCHANGED <<media, part, clearing, stopping, req, boot>>

-----------------------------------------------------------------------------
(* Start, stop and crash                                                    *)

(* Mutant: the row that was being downloaded is not picked up again.        *)
BootFind_QueuedOnly ==
  /\ phase = "boot"
  /\ pending' = {id \in Ids : rows[id].status = "queued"}
  /\ phase' = IF pending' = {} THEN "up" ELSE "resuming"
  /\ UNCHANGED <<disk, work, active, clearing, stopping, req, restarts>>

(* resumePending reads the rows left queued or downloading ...              *)
BootFind ==
  /\ phase = "boot"
  /\ pending' = {id \in Ids : rows[id].status \in {"queued", "downloading"}}
  /\ phase' = IF pending' = {} THEN "up" ELSE "resuming"
  /\ UNCHANGED <<disk, work, active, clearing, stopping, req, restarts>>

(* ... and enqueues each, back to queued if it was downloading.             *)
Resume ==
  /\ phase = "resuming"
  /\ \E id \in pending :
       /\ SetStatus(id, "queued")
       /\ Enqueue(id)
       /\ pending' = pending \ {id}
  /\ phase' = IF pending' = {} THEN "up" ELSE "resuming"
  /\ UNCHANGED <<media, part, active, clearing, stopping, req, restarts>>

(* onModuleDestroy                                                          *)
Destroy ==
  /\ phase = "up" /\ ~stopping /\ restarts < MaxRestarts
  /\ stopping' = TRUE
  /\ loop' = Aborted(Ids)
  /\ UNCHANGED <<disk, queue, queuedIds, processing, active, clearing, req, boot>>

(* The process ends at any await (a database error in the loop is an       *)
(* unhandled rejection and ends it too) and is started again: the memory   *)
(* and the requests in flight are lost.                                    *)
Crash ==
  /\ restarts < MaxRestarts
  /\ restarts' = restarts + 1
  /\ phase' = "boot" /\ pending' = {}
  /\ queue' = <<>> /\ queuedIds' = {} /\ active' = {}
  /\ processing' = FALSE /\ clearing' = FALSE /\ stopping' = FALSE
  /\ loop' = [w \in Loops |-> NoTask]
  /\ req' = [r \in Reqs |->
               IF req[r].pc = "new" THEN req[r] ELSE [NoCall EXCEPT !.pc = "done"]]
  /\ UNCHANGED disk

-----------------------------------------------------------------------------
Begin(r) == QueueFiles(r) \/ RemoveFind(r) \/ ClearStart(r) \/ ServeFind(r)

Continue(r) ==
  \/ QueueFind(r) \/ QueueSave(r) \/ QueueUpdate(r)
  \/ QueueRemoveFile(r) \/ QueueRemovePart(r)
  \/ RemoveDelete(r) \/ RemoveFile(r) \/ RemovePart(r)
  \/ ClearDelete(r) \/ ClearFiles(r) \/ ClearDone(r)
  \/ ServeAccess(r) \/ ServeMissing(r) \/ CallFails(r)

LoopStep(w) ==
  \/ LoopFind(w) \/ Capacity(w) \/ Evict(w) \/ EvictRow(w) \/ EvictEnd(w)
  \/ DiskSpace(w) \/ Reject(w) \/ Mark(w) \/ Fetch(w) \/ Resize(w)
  \/ OpenPart(w) \/ Stream(w) \/ Progress(w) \/ Rename(w) \/ Ready(w)
  \/ Discard(w) \/ Fail(w)

Next ==
  \/ \E r \in Reqs : Begin(r) \/ Continue(r)
  \/ \E w \in Loops : LoopStep(w)
  \/ BootFind \/ Resume \/ Destroy \/ Crash

Spec == Init /\ [][Next]_vars

(* Every await returns: the event loop runs each continuation, the database*)
(* and the disk answer, and Bookdarr's answer ends (streamBookFile has no  *)
(* timeout, so this last is an assumption about Bookdarr).  A process told *)
(* to stop exits.  Requests need not arrive, nor the process crash.        *)
Fairness ==
  /\ \A r \in Reqs : WF_vars(Continue(r))
  /\ \A w \in Loops : WF_vars(LoopStep(w))
  /\ WF_vars(BootFind) /\ WF_vars(Resume)
  /\ WF_vars(stopping /\ Crash)

FairSpec == Spec /\ Fairness

-----------------------------------------------------------------------------
(* Properties                                                               *)

LoopPcs == {"idle", "find", "capacity", "evict", "evictRow", "disk", "reject", "mark",
            "fetch", "resize", "open", "stream", "rename", "ready", "discard", "fail"}
CallPcs == {"new", "find", "save", "update", "rm", "rmPart", "delete", "mkdir",
            "access", "fail", "done"}

Rows  == [status : Statuses, bytes : 0..MaxFileBytes]
Tasks == [pc : LoopPcs, id : Ids \cup {NoId}, aborted : BOOLEAN, bytes : 0..MaxFileBytes,
          keep : SUBSET (Ids \X (0..MaxFileBytes)), victim : Ids \cup {NoId}]
Calls == [pc : CallPcs, files : SUBSET Files, ids : SUBSET Ids, id : Ids \cup {NoId}]

(* Every variable keeps its type.                                           *)
TypeOK ==
  /\ rows \in [Ids -> Rows]
  /\ media \subseteq Files /\ part \subseteq Files
  /\ queue \in Seq(Ids) /\ queuedIds \subseteq Ids /\ active \subseteq Ids
  /\ processing \in BOOLEAN /\ clearing \in BOOLEAN /\ stopping \in BOOLEAN
  /\ loop \in [Loops -> Tasks]
  /\ req \in [Reqs -> Calls]
  /\ phase \in {"boot", "resuming", "up"}
  /\ pending \subseteq Ids
  /\ restarts \in 0..MaxRestarts

Busy(w) == loop[w].pc # "idle"

(* However enqueue, the finally block and resumePending call processQueue, *)
(* one loop runs at a time, so nobody else writes the .part it writes and  *)
(* no second download can use the space its capacity check has counted.    *)
OneLoop == \A v, w \in Loops : Busy(v) /\ Busy(w) => v = w

(* The set and the array agree and hold no id twice, through queueing,     *)
(* returns and clears, so that no row is downloaded twice for one request  *)
(* and none is refused as already queued while nothing will take it.       *)
QueueAgrees == Agrees(queue, queuedIds)

(* No lost wake-up: while the process is not stopping, work in the queue   *)
(* has a loop running for it, and the flag says so exactly.                *)
QueueServed ==
  /\ processing <=> \E w \in Loops : Busy(w)
  /\ queue # <<>> /\ ~stopping => processing

(* A row waiting for a download has somebody who will settle it: the queue,*)
(* a loop whose download is not aborted, a request about to enqueue it, or *)
(* one about to delete it.                                                 *)
Tended(id) ==
  \/ id \in queuedIds
  \/ \E w \in Loops : Busy(w) /\ loop[w].id = id /\ ~loop[w].aborted
  \/ \E r \in Reqs : Op[r] = "queue" /\ req[r].pc \in {"rm", "rmPart"} /\ req[r].id = id
  \/ \E r \in Reqs : Op[r] = "remove" /\ req[r].pc = "delete" /\ id \in req[r].ids
  \/ \E r \in Reqs : Op[r] = "clear" /\ req[r].pc = "delete"
  \/ id \in pending

Forgotten(id) ==
  /\ phase # "boot" /\ ~stopping
  /\ rows[id].status \in {"queued", "downloading"}
  /\ ~Tended(id)

(* Nothing checked out is forgotten: a row shown as queued or downloading   *)
(* is in the hands of the process, which holds the queue in memory only.   *)
NothingForgotten == \A id \in Ids : ~Forgotten(id)

(* Where the cache may be cleared and calls may fail, a row is forgotten   *)
(* only by a step taken while a clear is under way (enqueue then drops it   *)
(* without a trace), by a request whose database call fails half way, or by *)
(* the loop marking a row whose download was aborted and whose deletion     *)
(* failed before.                                                          *)
ForgottenOnlyByClear ==
  [][clearing \/ \A id \in Ids : Forgotten(id)' =>
       \/ Forgotten(id)
       \/ \E r \in Reqs : CallFails(r)
       \/ \E w \in Loops : loop[w].id = id /\ loop[w].aborted /\ Mark(w)]_vars

(* However a clear ends, and however many overlap, the flag that silently  *)
(* drops every new download does not outlive the clears.                   *)
ClearingEnds ==
  clearing => \E r \in Reqs : Op[r] = "clear" /\ req[r].pc \in {"delete", "rm", "mkdir"}

(* The ready files on the disk never add up to more than                    *)
(* OFFLINE_MAX_CACHE_MB, whatever is evicted, cleared or fails meanwhile.   *)
CapRespected ==
  MaxCacheBytes > 0 => Bytes({p \in ReadyRows : FileOf(p[1]) \in media}) <= MaxCacheBytes

(* A checkout of a book that was out already queues its files again, and    *)
(* removes one that the loop has just renamed into place and goes on to     *)
(* mark ready.                                                              *)
QueuedAgain(id) ==
  \E r \in Reqs \ {id[1]} :
    Op[r] = "queue" /\ Target[r] = BookOf[id[2]] /\ req[r].pc # "new"

(* A ready row has its file, unless it was queued again: what is marked     *)
(* ready was renamed into place first, at whatever await the process ended, *)
(* and a return deletes the row before the file.                            *)
ReadyHasFile ==
  \A id \in Ids :
    rows[id].status = "ready" /\ ~QueuedAgain(id) => FileOf(id) \in media

(* Only queueBook makes rows: no late answer to the loop, to a stream       *)
(* request or to a resumed download brings a deleted row back.             *)
NoResurrection ==
  [][\A id \in Ids : ~Exists(id) /\ Exists(id)' => req[id[1]].pc = "save"]_vars

(* Every row waiting for a download is settled, ready, failed or deleted,  *)
(* through aborts, lost .part files and restarts.                          *)
EveryRowSettles ==
  \A id \in {i \in Ids : Target[i[1]] = BookOf[i[2]]} :
    rows[id].status \in {"queued", "downloading"}
      ~> rows[id].status \notin {"queued", "downloading"}
=============================================================================
