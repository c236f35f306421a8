-------------------------- MODULE DeviceCache_proofs --------------------------
(***************************************************************************)
(* Proofs about DeviceCache, for every set of messages, books, files and   *)
(* loops and every value of the other constants.  The last part is about   *)
(* what the device shows: a ready file is served, a file that is shown as  *)
(* on its way is on its way, a queued book is reached.  Each of those      *)
(* holds under an assumption on the constants, stated with the theorem.    *)
(***************************************************************************)
EXTENDS DeviceCache, WaitingList_proofs, TLAPS

-----------------------------------------------------------------------------
(* The tasks a loop can have                                                *)

Settled(t, f) == t.rec[f] \in {"ready", "failed"}

(* A task without a book, or with one.  From the first dbPut on, a file of *)
(* the book that is not settled in the loop's copy is one to come, or the  *)
(* current one.                                                             *)
GoodTask(t) ==
  /\ t.pc \in {"idle", "next"} <=> t.book = NoBook
  /\ t.pc \in {"mark", "meta", "open", "fetch", "urlMeta", "ready", "failed"}
       => t.file \in FilesOf(t.book)
  /\ t.pc \in {"mark", "meta", "open", "fetch", "urlMeta"}
       => \A f \in FilesOf(t.book) : Settled(t, f) \/ f \in t.todo \/ f = t.file
  /\ t.pc \in {"ready", "failed"}
       => \A f \in FilesOf(t.book) : Settled(t, f) \/ f \in t.todo
  /\ t.pc = "final" => \A f \in FilesOf(t.book) : t.rec[f] = "ready"
  /\ t.todo \subseteq FilesOf(t.book)
  /\ t.pc \in {"get", "verify", "put"} => ~t.straggles
GoodTasks == {t \in Tasks : GoodTask(t)}

Memory == loop \in [Loops -> GoodTasks] /\ processingQueue \in BOOLEAN /\ OneBook

(* The task of a running loop is replaced by another.                       *)
LEMMA StepOK ==
  ASSUME Memory, NEW w \in Loops, loop[w].pc # "idle",
         NEW t \in GoodTasks, t.pc # "idle", Step(w, t), UNCHANGED processingQueue
  PROVE  Memory'
<1>1. loop' = [loop EXCEPT ![w] = t] /\ loop' \in [Loops -> GoodTasks]
  BY DEF Memory, Step
<1>2. \A v \in Loops : loop'[v].pc # "idle" <=> loop[v].pc # "idle"
  BY <1>1 DEF Memory
<1>3. Busy' = Busy
  BY <1>2 DEF Busy
<1> QED
  BY <1>1, <1>3 DEF Memory, OneBook

(* The loop ends.                                                           *)
LEMMA EndOK ==
  ASSUME Memory, NEW w \in Loops, loop[w].pc # "idle",
         Step(w, NoTask), processingQueue' = FALSE
  PROVE  Memory'
<1>1. NoTask \in GoodTasks /\ NoTask.pc = "idle"
  BY DEF NoTask, GoodTasks, GoodTask, Tasks, Pcs, NoRecord, Statuses
<1>2. loop' = [loop EXCEPT ![w] = NoTask] /\ loop' \in [Loops -> GoodTasks]
  BY <1>1 DEF Memory, Step
<1>3. w \in Busy /\ \A v \in Busy : v = w
  BY DEF Busy, Memory, OneBook
<1>4. Busy' = {}
  BY <1>1, <1>2, <1>3 DEF Busy, Memory
<1> QED
  BY <1>2, <1>4 DEF Memory, OneBook

LEMMA NextTask ==
  /\ NoTask \in GoodTasks
  /\ [NoTask EXCEPT !.pc = "next"] \in GoodTasks
  /\ \A b \in Books : [NoTask EXCEPT !.pc = "get", !.book = b] \in GoodTasks
BY ConstantsAssumption DEF NoTask, GoodTasks, GoodTask, Tasks, Pcs, NoRecord, Statuses

(* The loop shifts a book off the queue.                                    *)
LEMMA ShiftOK ==
  ASSUME loop \in [Loops -> GoodTasks], NEW w \in Loops, \A v \in Busy : v = w,
         NEW q \in Seq(Books), NEW qs, q # <<>>, Agrees(q, qs), Shift(w, q, qs)
  PROVE  /\ Memory' /\ QueueAgrees' /\ bookQueue' \in Seq(Books)
         /\ activeBookId' \in Books /\ loop'[w].book = activeBookId'
         /\ activeBookId' = Head(q) /\ queuedBooks' = qs \ {Head(q)}
<1>1. Head(q) \in Books /\ Tail(q) \in Seq(Books) /\ Agrees(Tail(q), qs \ {Head(q)})
  BY TailAgrees
<1> DEFINE t == [NoTask EXCEPT !.pc = "get", !.book = Head(q)]
<1>2. t \in GoodTasks /\ t.pc = "get" /\ t.book = Head(q)
  BY <1>1, NextTask DEF NoTask
<1>3. loop' = [loop EXCEPT ![w] = t]
  BY DEF Shift
<1> HIDE DEF t
<1>4. loop' \in [Loops -> GoodTasks] /\ loop'[w] = t
  BY <1>2, <1>3
<1>5. Busy' = {w}
  BY <1>2, <1>3, <1>4 DEF Busy
<1> QED
  BY <1>1, <1>2, <1>4, <1>5 DEF Shift, Memory, OneBook, QueueAgrees

(* enqueueBook keeps the queue and the loops in order, and afterwards the  *)
(* book is queued or being downloaded; others stay where they were.         *)
LEMMA EnqueueOK ==
  ASSUME Memory, QueueAgrees, bookQueue \in Seq(Books), NEW b \in Books,
         activeBookId \in Books \cup {NoBook}, EnqueueBook(b)
  PROVE  /\ Memory' /\ QueueAgrees' /\ bookQueue' \in Seq(Books)
         /\ activeBookId' \in Books \cup {NoBook}
         /\ \A c \in Books :
              c = b \/ c \in queuedBooks \/ (\E w \in Loops : loop[w].book = c)
              => c \in queuedBooks' \/ \E w \in Loops : loop'[w].book = c
<1>1. CASE b \in queuedBooks
  <2>1. UNCHANGED queueing
    BY <1>1 DEF EnqueueBook
  <2> QED
    BY <1>1, <2>1 DEF queueing, Memory, OneBook, Busy, QueueAgrees
<1>2. CASE b \notin queuedBooks
  <2> DEFINE q == Append(bookQueue, b)
             qs == queuedBooks \cup {b}
  <2>1. q \in Seq(Books) /\ Agrees(q, qs) /\ q # <<>>
    <3>1. q \in Seq(Books) /\ Agrees(q, qs)
      BY <1>2, AppendAgrees DEF QueueAgrees
    <3>2. q # <<>>
      BY AppendProperties
    <3> QED
      BY <3>1, <3>2
  <2>2. CASE /\ processingQueue
             /\ bookQueue' = q /\ queuedBooks' = qs
             /\ UNCHANGED <<processingQueue, activeBookId, loop>>
    BY <2>1, <2>2 DEF Memory, OneBook, Busy, QueueAgrees
  <2>3. CASE /\ ~processingQueue
             /\ \E w \in Loops : loop[w].pc = "idle" /\ Shift(w, q, qs)
    <3> PICK w \in Loops : loop[w].pc = "idle" /\ Shift(w, q, qs)
      BY <2>3
    <3>1. Busy = {} /\ \A v \in Loops : loop[v].pc = "idle" /\ loop[v].book = NoBook
      <4>1. Busy = {}
        BY <2>3 DEF Memory, OneBook
      <4> QED
        BY <4>1 DEF Busy, Memory, GoodTasks, GoodTask
    <3> HIDE DEF q, qs
    <3>2. /\ Memory' /\ QueueAgrees' /\ bookQueue' \in Seq(Books)
          /\ activeBookId' \in Books /\ loop'[w].book = activeBookId'
          /\ activeBookId' = Head(q) /\ queuedBooks' = qs \ {Head(q)}
      BY <2>1, <3>1, ShiftOK DEF Memory
    <3> QED
      BY <3>1, <3>2, ConstantsAssumption DEF qs
  <2> QED
    BY <1>2, <2>2, <2>3 DEF EnqueueBook
<1> QED
  BY <1>1, <1>2

-----------------------------------------------------------------------------
(* The inductive invariant                                                  *)

Rest_OK ==
  /\ record \in [Files -> Statuses] /\ urls \subseteq Files /\ cache \subseteq Entries
  /\ bookQueue \in Seq(Books) /\ activeBookId \in Books \cup {NoBook}
  /\ stray \subseteq Entries
  /\ msg \in [Msgs -> Calls] /\ resume \in Resumes
  /\ stops \in 0..MaxStops /\ updates \in 0..MaxUpdates

IInv == Memory /\ QueueAgrees /\ Rest_OK

LEMMA TypeFollows == IInv /\ late \in [Files -> Statuses] => TypeOK
<1> SUFFICES ASSUME IInv, late \in [Files -> Statuses] PROVE TypeOK
  OBVIOUS
<1>1. queuedBooks \subseteq Books
  <2>1. \A i \in DOMAIN bookQueue : bookQueue[i] \in Books
    BY ElementOfSeq, LenProperties DEF IInv, Rest_OK
  <2> QED
    BY <2>1 DEF IInv, QueueAgrees, Agrees, Members
<1>2. loop \in [Loops -> Tasks]
  BY DEF IInv, Memory, GoodTasks
<1> QED
  BY <1>1, <1>2 DEF IInv, Rest_OK, Memory, TypeOK

LEMMA InitOK == Init => IInv
<1> SUFFICES ASSUME Init PROVE IInv
  OBVIOUS
<1>1. loop \in [Loops -> GoodTasks]
  BY NextTask DEF Init
<1>2. OneBook
  BY DEF Init, OneBook, Busy, NoTask
<1>3. QueueAgrees /\ bookQueue \in Seq(Books)
  BY EmptyAgrees DEF Init, QueueAgrees
<1>4. msg \in [Msgs -> Calls] /\ resume \in Resumes /\ record \in [Files -> Statuses]
  BY DEF Init, NoCall, Calls, NoResume, Resumes, NoRecord, Statuses
<1>5. Memory
  BY <1>1, <1>2 DEF Init, Memory
<1>6. Rest_OK
  BY <1>3, <1>4, ConstantsAssumption DEF Init, Rest_OK
<1> QED
  BY <1>3, <1>5, <1>6 DEF IInv

(* dbPut stores a record's statuses.                                        *)
LEMMA PutRecordOK ==
  ASSUME record \in [Files -> Statuses], NEW b, NEW rec,
         \A f \in FilesOf(b) : rec[f] \in Statuses, PutRecord(b, rec)
  PROVE  /\ record' \in [Files -> Statuses]
         /\ \A f \in FilesOf(b) : record'[f] = rec[f]
         /\ \A f \in Files : f \notin FilesOf(b) => record'[f] = record[f]
BY DEF PutRecord, Replaced, FilesOf

-----------------------------------------------------------------------------
(* The steps of the loop                                                    *)

(* After the last write for a file the loop turns to the next one, or      *)
(* leaves the book with every file of it settled.                           *)
LEMMA NextFileOK ==
  ASSUME Memory, NEW w \in Loops, loop[w].pc # "idle", UNCHANGED processingQueue,
         activeBookId \in Books \cup {NoBook},
         NEW t \in Tasks, t.book \in Books, t.book = loop[w].book, t.todo \subseteq FilesOf(t.book),
         \A f \in FilesOf(t.book) : Settled(t, f) \/ f \in t.todo,
         NextFile(w, t)
  PROVE  /\ Memory' /\ activeBookId' \in Books \cup {NoBook}
         /\ \/ loop'[w].book = t.book
            \/ \A f \in FilesOf(t.book) : Settled(t, f)
         /\ \A v \in Loops : v # w => loop'[v] = loop[v]
<1>1. CASE \E f \in t.todo :
             /\ Step(w, [t EXCEPT !.pc = "mark", !.file = f, !.todo = @ \ {f},
                                  !.rec[f] = "downloading"])
             /\ UNCHANGED activeBookId
  <2> PICK f \in t.todo : Step(w, [t EXCEPT !.pc = "mark", !.file = f, !.todo = @ \ {f},
                                            !.rec[f] = "downloading"])
    BY <1>1
  <2> DEFINE u == [t EXCEPT !.pc = "mark", !.file = f, !.todo = @ \ {f},
                            !.rec[f] = "downloading"]
  <2>1. u \in Tasks
    BY DEF Tasks, Pcs, Statuses, FilesOf
  <2>2. GoodTask(u)
    BY ConstantsAssumption DEF GoodTask, Tasks, Settled, FilesOf
  <2>3. u \in GoodTasks /\ u.pc = "mark" /\ u.book = t.book
    BY <2>1, <2>2 DEF GoodTasks, Tasks
  <2>4. Step(w, u)
    OBVIOUS
  <2> HIDE DEF u
  <2>5. Memory'
    BY <2>3, <2>4, StepOK
  <2>6. loop' = [loop EXCEPT ![w] = u]
    BY <2>4 DEF Step
  <2> QED
    BY <1>1, <2>3, <2>5, <2>6 DEF Memory
<1>2. CASE /\ t.todo = {} /\ \A f \in FilesOf(t.book) : t.rec[f] = "ready"
           /\ Step(w, [t EXCEPT !.pc = "final"])
           /\ UNCHANGED activeBookId
  <2> DEFINE u == [t EXCEPT !.pc = "final"]
  <2>1. u \in GoodTasks /\ u.pc = "final" /\ u.book = t.book
    BY <1>2, ConstantsAssumption DEF GoodTasks, GoodTask, Tasks, Pcs
  <2>2. Step(w, u)
    BY <1>2
  <2> HIDE DEF u
  <2>3. loop' = [loop EXCEPT ![w] = u]
    BY <2>2 DEF Step
  <2> QED
    BY <1>2, <2>1, <2>2, <2>3, StepOK DEF Memory
<1>3. CASE t.todo = {} /\ Return(w)
  <2> DEFINE u == [NoTask EXCEPT !.pc = "next"]
  <2>1. u \in GoodTasks /\ u.pc = "next" /\ Step(w, u) /\ activeBookId' = NoBook
    BY <1>3, NextTask DEF Return, NoTask
  <2> HIDE DEF u
  <2>2. loop' = [loop EXCEPT ![w] = u]
    BY <2>1 DEF Step
  <2> QED
    BY <1>3, <2>1, <2>2, StepOK DEF Memory
<1> QED
  BY <1>1, <1>2, <1>3 DEF NextFile

(* A step that gives the loop another task, and does not end it.            *)
LEMMA TaskOK ==
  ASSUME IInv, NEW w \in Loops, loop[w].pc # "idle",
         NEW t \in GoodTasks, t.pc # "idle", Step(w, t),
         UNCHANGED <<queue, activeBookId, msg, resume, ends>>,
         record' \in [Files -> Statuses], urls' \subseteq Files, cache' \subseteq Entries,
         stray' \subseteq Entries
  PROVE  IInv'
<1>1. Memory'
  BY StepOK DEF IInv, queue
<1> QED
  BY <1>1 DEF IInv, Rest_OK, QueueAgrees, queue, ends

LEMMA LoopPlainOK ==
  ASSUME IInv, NEW w \in Loops, \/ Verify(w) \/ Meta(w) \/ Open(w) \/ Hit(w) \/ Receive(w)
                                \/ Store(w) \/ Downloaded(w)
  PROVE  IInv'
<1> DEFINE s == loop[w]
<1>1. s \in GoodTasks /\ s \in Tasks /\ GoodTask(s)
  BY DEF IInv, Memory, GoodTasks
<1>2. /\ record \in [Files -> Statuses] /\ urls \subseteq Files /\ cache \subseteq Entries
      /\ stray \subseteq Entries
  BY DEF IInv, Rest_OK
<1>3. CASE Verify(w)
  <2> DEFINE rec == [f \in Files |->
                       IF s.rec[f] = "ready" /\ <<f, 1>> \notin cache THEN "queued" ELSE s.rec[f]]
             t == [s EXCEPT !.pc = "put", !.rec = rec]
  <2>1. rec \in [Files -> Statuses]
    BY <1>1 DEF Tasks, Statuses
  <2> HIDE DEF rec
  <2>2. t \in GoodTasks /\ t.pc # "idle"
    BY <1>1, <1>3, <2>1 DEF Verify, Running, GoodTasks, GoodTask, Tasks, Pcs
  <2>3. Step(w, t)
    BY <1>3 DEF Verify, rec
  <2> HIDE DEF t
  <2> QED
    BY <1>2, <1>3, <2>2, <2>3, TaskOK DEF Verify, Running, disk
<1>4. CASE Meta(w)
  <2> DEFINE t == [s EXCEPT !.pc = "open"]
  <2>1. t \in GoodTasks /\ t.pc # "idle"
    BY <1>1, <1>4 DEF Meta, Running, GoodTasks, GoodTask, Tasks, Pcs, Settled
  <2>2. Step(w, t) /\ urls' \subseteq Files
    BY <1>1, <1>2, <1>4 DEF Meta, Running, GoodTask, FilesOf
  <2> HIDE DEF t
  <2> QED
    BY <1>2, <1>4, <2>1, <2>2, TaskOK DEF Meta, Running
<1>5. CASE Open(w)
  <2> DEFINE t == [s EXCEPT !.pc = "fetch", !.left = PartsOf(s.file),
                            !.putting = {}, !.aborted = FALSE, !.detached = FALSE]
  <2>1. PartsOf(s.file) \subseteq Entries
    BY <1>1, <1>5 DEF Open, Running, GoodTask, FilesOf, Entries
  <2>2. t \in GoodTasks /\ t.pc # "idle"
    BY <1>1, <1>5, <2>1 DEF Open, Running, GoodTasks, GoodTask, Tasks, Pcs, Settled
  <2>3. Step(w, t)
    BY <1>5 DEF Open
  <2> HIDE DEF t
  <2> QED
    BY <1>2, <1>5, <2>2, <2>3, TaskOK DEF Open, Running, disk
<1>6. CASE Hit(w)
  <2> PICK p \in s.left : Step(w, [s EXCEPT !.left = @ \ {p}])
    BY <1>6 DEF Hit
  <2> DEFINE t == [s EXCEPT !.left = @ \ {p}]
  <2>1. t \in GoodTasks /\ t.pc # "idle"
    BY <1>1, <1>6 DEF Hit, Running, GoodTasks, GoodTask, Tasks, Settled
  <2>2. Step(w, t)
    OBVIOUS
  <2> HIDE DEF t
  <2> QED
    BY <1>2, <1>6, <2>1, <2>2, TaskOK DEF Hit, Running, disk
<1>7. CASE Receive(w)
  <2> PICK p \in s.left : Step(w, [s EXCEPT !.left = @ \ {p}, !.putting = @ \cup {p}])
    BY <1>7 DEF Receive
  <2> DEFINE t == [s EXCEPT !.left = @ \ {p}, !.putting = @ \cup {p}]
  <2>1. t \in GoodTasks /\ t.pc # "idle"
    BY <1>1, <1>7 DEF Receive, Running, GoodTasks, GoodTask, Tasks, Settled
  <2>2. Step(w, t)
    OBVIOUS
  <2> HIDE DEF t
  <2> QED
    BY <1>2, <1>7, <2>1, <2>2, TaskOK DEF Receive, Running, disk
<1>8. CASE Store(w)
  <2> PICK p \in s.putting : /\ Step(w, [s EXCEPT !.putting = @ \ {p}])
                             /\ cache' = IF s.detached THEN cache ELSE cache \cup {p}
    BY <1>8 DEF Store
  <2> DEFINE t == [s EXCEPT !.putting = @ \ {p}]
  <2>1. t \in GoodTasks /\ t.pc # "idle"
    BY <1>1, <1>8 DEF Store, Running, GoodTasks, GoodTask, Tasks, Settled
  <2>2. Step(w, t) /\ cache' \subseteq Entries
    BY <1>1, <1>2 DEF Tasks
  <2> HIDE DEF t
  <2> QED
    BY <1>2, <1>8, <2>1, <2>2, TaskOK DEF Store, Running
<1>9. CASE Downloaded(w)
  <2> DEFINE t == IF Chunked[s.file] THEN [s EXCEPT !.pc = "urlMeta"]
                  ELSE [s EXCEPT !.pc = "ready", !.rec[s.file] = "ready"]
  <2>1. t \in GoodTasks /\ t.pc # "idle"
    BY <1>1, <1>9 DEF Downloaded, Running, GoodTasks, GoodTask, Tasks, Pcs, Settled,
                      Statuses, FilesOf
  <2>2. Step(w, t)
    BY <1>9 DEF Downloaded, IsReady
  <2> HIDE DEF t
  <2> QED
    BY <1>2, <1>9, <2>1, <2>2, TaskOK DEF Downloaded, Running, disk
<1> QED
  BY <1>3, <1>4, <1>5, <1>6, <1>7, <1>8, <1>9

(* The catch block.                                                         *)
LEMMA FailsOK ==
  ASSUME IInv, NEW w \in Loops, Fails(w) \/ \E strays : Straggle(w, strays),
         loop[w].pc \in {"mark", "fetch", "urlMeta", "ready"}, stray' \subseteq Entries,
         UNCHANGED <<disk, queue, activeBookId, msg, resume, ends>>
  PROVE  IInv'
<1> DEFINE s == loop[w]
           t == [s EXCEPT !.pc = "failed", !.rec[s.file] = "failed"]
           more == s.straggles \/ Parts[s.file] > 1
           u == [t EXCEPT !.left = {}, !.putting = {}, !.straggles = more]
<1>1. s \in GoodTasks /\ s \in Tasks /\ GoodTask(s)
  BY DEF IInv, Memory, GoodTasks
<1>2. t \in GoodTasks /\ t.pc = "failed"
  BY <1>1 DEF GoodTasks, GoodTask, Tasks, Pcs, Settled, Statuses, FilesOf
<1>3. u \in GoodTasks /\ u.pc = "failed"
  <2>1. more \in BOOLEAN
    OBVIOUS
  <2> HIDE DEF t, more
  <2>2. u \in Tasks
    BY <1>2, <2>1 DEF GoodTasks, Tasks
  <2>3. GoodTask(u)
    BY <1>2 DEF GoodTasks, GoodTask, Tasks, Settled
  <2> QED
    BY <1>2, <2>2, <2>3 DEF GoodTasks, Tasks
<1>4. Step(w, t) \/ Step(w, u)
  BY <1>1 DEF Fails, Straggle, Tasks
<1> HIDE DEF t, u
<1> QED
  BY <1>2, <1>3, <1>4, TaskOK DEF IInv, Rest_OK, disk

(* What holds when the loop's copy is written.                              *)
LEMMA LoopPutOK ==
  ASSUME IInv, NEW w \in Loops, PutRecord(loop[w].book, loop[w].rec)
  PROVE  record' \in [Files -> Statuses]
<1>1. loop[w].rec \in [Files -> Statuses]
  BY DEF IInv, Memory, GoodTasks, Tasks
<1> QED
  BY <1>1, PutRecordOK DEF IInv, Rest_OK, FilesOf

LEMMA LoopTryOK ==
  ASSUME IInv, NEW w \in Loops, Mark(w) \/ UrlMeta(w) \/ Fail(w)
  PROVE  IInv'
<1> DEFINE s == loop[w]
<1>1. s \in GoodTasks /\ s \in Tasks /\ GoodTask(s)
  BY DEF IInv, Memory, GoodTasks
<1>2. /\ record \in [Files -> Statuses] /\ urls \subseteq Files /\ cache \subseteq Entries
      /\ stray \subseteq Entries
  BY DEF IInv, Rest_OK
<1>3. CASE Mark(w)
  <2>1. CASE DbErrors /\ Fails(w) /\ UNCHANGED record
    BY <1>2, <1>3, <2>1, FailsOK DEF Mark, Running, disk
  <2>2. CASE PutRecord(s.book, s.rec) /\ Step(w, [s EXCEPT !.pc = "meta"])
    <3> DEFINE t == [s EXCEPT !.pc = "meta"]
    <3>1. t \in GoodTasks /\ t.pc # "idle"
      BY <1>1, <1>3 DEF Mark, Running, GoodTasks, GoodTask, Tasks, Pcs, Settled
    <3>2. Step(w, t)
      BY <2>2
    <3>3. record' \in [Files -> Statuses]
      BY <1>3, <2>2, LoopPutOK DEF Mark, Running
    <3> HIDE DEF t
    <3> QED
      BY <1>2, <1>3, <2>2, <3>1, <3>2, <3>3, TaskOK DEF Mark, Running
  <2> QED
    BY <1>3, <2>1, <2>2 DEF Mark
<1>4. CASE UrlMeta(w)
  <2>1. CASE DbErrors /\ Fails(w) /\ UNCHANGED urls
    BY <1>2, <1>4, <2>1, FailsOK DEF UrlMeta, Running, disk
  <2>2. CASE urls' = urls \cup {s.file} /\ IsReady(w)
    <3> DEFINE t == [s EXCEPT !.pc = "ready", !.rec[s.file] = "ready"]
    <3>1. t \in GoodTasks /\ t.pc # "idle"
      BY <1>1, <1>4 DEF UrlMeta, Running, GoodTasks, GoodTask, Tasks, Pcs, Settled,
                        Statuses, FilesOf
    <3>2. Step(w, t) /\ urls' \subseteq Files
      BY <1>1, <1>2, <1>4, <2>2 DEF IsReady, UrlMeta, Running, GoodTask, FilesOf
    <3> HIDE DEF t
    <3> QED
      BY <1>2, <1>4, <2>2, <3>1, <3>2, TaskOK DEF UrlMeta, Running
  <2> QED
    BY <1>4, <2>1, <2>2 DEF UrlMeta
<1>5. CASE Fail(w)
  <2>1. /\ stray' \subseteq Entries
        /\ \E strays : Straggle(w, strays)
    BY <1>1, <1>2, <1>5 DEF Fail, Straggle, Tasks
  <2> QED
    BY <1>5, <2>1, FailsOK DEF Fail, Running
<1> QED
  BY <1>3, <1>4, <1>5

LEMMA LoopWriteOK ==
  ASSUME IInv, NEW w \in Loops, \/ PutFirst(w) \/ PutReady(w) \/ PutFailed(w) \/ PutFinal(w)
                                \/ PersistProgress(w)
  PROVE  IInv'
<1> DEFINE s == loop[w]
<1>1. s \in GoodTasks /\ s \in Tasks /\ GoodTask(s)
  BY DEF IInv, Memory, GoodTasks
<1>2. CASE PutFirst(w)
  <2> DEFINE t == [s EXCEPT !.todo = {f \in FilesOf(s.book) : s.rec[f] # "ready"}]
  <2>1. t \in Tasks /\ t.book \in Books /\ t.book = s.book /\ t.todo \subseteq FilesOf(t.book)
    BY <1>1, <1>2 DEF PutFirst, Running, GoodTask, Tasks, FilesOf
  <2>2. \A f \in FilesOf(t.book) : Settled(t, f) \/ f \in t.todo
    BY <1>1 DEF Settled, Tasks
  <2>3. NextFile(w, t) /\ record' \in [Files -> Statuses]
    BY <1>2, LoopPutOK DEF PutFirst, Running
  <2> HIDE DEF t
  <2>4. Memory' /\ activeBookId' \in Books \cup {NoBook}
    BY <1>2, <2>1, <2>2, <2>3, NextFileOK DEF PutFirst, Running, IInv, Rest_OK, queue
  <2> QED
    BY <1>2, <2>3, <2>4 DEF PutFirst, IInv, Rest_OK, QueueAgrees, queue, ends
<1>3. ASSUME s.pc \in {"ready", "failed"}, PutRecord(s.book, s.rec), NextFile(w, s),
             UNCHANGED <<urls, cache, queue, stray, msg, resume, ends>>
      PROVE  IInv'
  <2>1. /\ s.book \in Books /\ s.todo \subseteq FilesOf(s.book)
        /\ \A f \in FilesOf(s.book) : Settled(s, f) \/ f \in s.todo
    BY <1>1, <1>3 DEF GoodTask, Tasks
  <2>2. Memory' /\ activeBookId' \in Books \cup {NoBook}
    BY <1>1, <1>3, <2>1, NextFileOK DEF IInv, Rest_OK, queue
  <2>3. record' \in [Files -> Statuses]
    BY <1>3, LoopPutOK
  <2> QED
    BY <1>3, <2>2, <2>3 DEF IInv, Rest_OK, QueueAgrees, queue, ends
<1>4. CASE PutReady(w)
  <2>1. CASE DbErrors /\ Fails(w) /\ UNCHANGED <<record, activeBookId>>
    BY <1>4, <2>1, FailsOK DEF PutReady, Running, disk, IInv, Rest_OK
  <2> QED
    BY <1>3, <1>4, <2>1 DEF PutReady, Running
<1>5. CASE PutFailed(w)
  BY <1>3, <1>5 DEF PutFailed, Running
<1>6. CASE PutFinal(w)
  <2> DEFINE t == [NoTask EXCEPT !.pc = "next"]
  <2>1. t \in GoodTasks /\ t.pc # "idle" /\ Step(w, t) /\ activeBookId' = NoBook
    BY <1>6, NextTask DEF PutFinal, Return, NoTask
  <2> HIDE DEF t
  <2>2. Memory'
    BY <1>6, <2>1, StepOK DEF PutFinal, Running, IInv, queue
  <2>3. record' \in [Files -> Statuses]
    BY <1>6, LoopPutOK DEF PutFinal, Running
  <2> QED
    BY <1>6, <2>1, <2>2, <2>3 DEF PutFinal, IInv, Rest_OK, QueueAgrees, queue, ends
<1>7. CASE PersistProgress(w)
  <2>1. record' \in [Files -> Statuses]
    BY <1>7, LoopPutOK DEF PersistProgress, Running
  <2> QED
    BY <1>7, <2>1 DEF PersistProgress, IInv, Memory, OneBook, Busy, Rest_OK, QueueAgrees,
                      queueing, ends
<1> QED
  BY <1>2, <1>4, <1>5, <1>6, <1>7

LEMMA LoopBookOK ==
  ASSUME IInv, NEW w \in Loops, Get(w) \/ NextBook(w) \/ LoopRejects(w)
  PROVE  IInv'
<1> DEFINE s == loop[w]
<1>1. s \in GoodTasks /\ s \in Tasks /\ GoodTask(s)
  BY DEF IInv, Memory, GoodTasks
<1>2. CASE Get(w)
  <2>1. CASE Step(w, [s EXCEPT !.pc = "verify", !.rec = record]) /\ UNCHANGED activeBookId
    <3> DEFINE t == [s EXCEPT !.pc = "verify", !.rec = record]
    <3>1. t \in GoodTasks /\ t.pc # "idle"
      BY <1>1, <1>2 DEF Get, Running, GoodTasks, GoodTask, Tasks, Pcs, IInv, Rest_OK
    <3>2. Step(w, t)
      BY <2>1
    <3> HIDE DEF t
    <3> QED
      BY <1>2, <2>1, <3>1, <3>2, TaskOK DEF Get, Running, IInv, Rest_OK, disk
  <2>2. CASE Return(w)
    <3> DEFINE t == [NoTask EXCEPT !.pc = "next"]
    <3>1. t \in GoodTasks /\ t.pc # "idle" /\ Step(w, t) /\ activeBookId' = NoBook
      BY <2>2, NextTask DEF Return, NoTask
    <3> HIDE DEF t
    <3>2. Memory'
      BY <1>2, <3>1, StepOK DEF Get, Running, IInv, queue
    <3> QED
      BY <1>2, <3>1, <3>2 DEF Get, IInv, Rest_OK, QueueAgrees, queue, ends, disk
  <2> QED
    BY <1>2, <2>1, <2>2 DEF Get
<1>3. CASE NextBook(w)
  <2>1. CASE bookQueue # <<>> /\ Shift(w, bookQueue, queuedBooks)
    <3>1. \A v \in Busy : v = w
      BY <1>3 DEF NextBook, Running, IInv, Memory, OneBook, Busy
    <3>2. Memory' /\ QueueAgrees' /\ bookQueue' \in Seq(Books) /\ activeBookId' \in Books
      BY <2>1, <3>1, ShiftOK DEF IInv, Memory, Rest_OK, QueueAgrees
    <3> QED
      BY <1>3, <3>2 DEF NextBook, IInv, Rest_OK, disk, ends
  <2>2. CASE /\ processingQueue' = FALSE /\ Step(w, NoTask)
             /\ UNCHANGED <<bookQueue, queuedBooks, activeBookId>>
    <3>1. Memory'
      BY <1>3, <2>2, EndOK DEF NextBook, Running, IInv
    <3> QED
      BY <1>3, <2>2, <3>1 DEF NextBook, IInv, Rest_OK, QueueAgrees, disk, ends
  <2> QED
    BY <1>3, <2>1, <2>2 DEF NextBook
<1>4. CASE LoopRejects(w)
  <2>1. Memory'
    BY <1>4, EndOK DEF LoopRejects, IInv
  <2> QED
    BY <1>4, <2>1 DEF LoopRejects, IInv, Rest_OK, QueueAgrees, disk, ends
<1> QED
  BY <1>2, <1>3, <1>4

-----------------------------------------------------------------------------
(* The messages and the life of the worker                                  *)

(* Steps of a message handler that leave the queue and the loops alone.     *)
LEMMA DiskOK ==
  ASSUME IInv, UNCHANGED <<queueing, ends>>,
         record' \in [Files -> Statuses], urls' \subseteq Files, cache' \subseteq Entries,
         stray' \subseteq Entries, msg' \in [Msgs -> Calls], resume' \in Resumes
  PROVE  IInv'
BY DEF IInv, Memory, OneBook, Busy, QueueAgrees, Rest_OK, queueing, ends

LEMMA GotoOK ==
  ASSUME msg \in [Msgs -> Calls], NEW m \in Msgs,
         NEW pc \in {"new", "meta", "stop", "files", "record", "cache", "db", "done"},
         Goto(m, pc)
  PROVE  msg' \in [Msgs -> Calls]
BY DEF Goto, Calls

LEMMA CacheOK ==
  ASSUME IInv, NEW m \in Msgs, CachePut(m) \/ CacheMeta(m)
  PROVE  IInv'
<1>1. msg \in [Msgs -> Calls] /\ record \in [Files -> Statuses] /\ Target[m] \in Books
  BY ConstantsAssumption DEF IInv, Rest_OK
<1>2. CASE CachePut(m)
  <2>1. msg' \in [Msgs -> Calls]
    BY <1>1, <1>2, GotoOK DEF CachePut
  <2>2. record' \in [Files -> Statuses]
    <3> DEFINE rec == [f \in Files |-> "queued"]
    <3>1. \A f \in FilesOf(Target[m]) : rec[f] \in Statuses
      BY DEF FilesOf, Statuses
    <3> HIDE DEF rec
    <3>2. PutRecord(Target[m], rec) => record' \in [Files -> Statuses]
      BY <1>1, <3>1, PutRecordOK
    <3> QED
      BY <1>1, <1>2, <3>2 DEF CachePut, rec
  <2> QED
    BY <1>2, <2>1, <2>2, DiskOK DEF CachePut, IInv, Rest_OK
<1>3. CASE CacheMeta(m)
  <2>1. msg' \in [Msgs -> Calls] /\ urls' \subseteq Files
    BY <1>1, <1>3, GotoOK DEF CacheMeta, FilesOf, IInv, Rest_OK
  <2>2. /\ Memory' /\ QueueAgrees' /\ bookQueue' \in Seq(Books)
        /\ activeBookId' \in Books \cup {NoBook}
    BY <1>1, <1>3, EnqueueOK DEF CacheMeta, IInv, Rest_OK
  <2> QED
    BY <1>3, <2>1, <2>2 DEF CacheMeta, IInv, Rest_OK, ends
<1> QED
  BY <1>2, <1>3

(* What a clear does to a task does not make it a bad one.                  *)
LEMMA SameTask ==
  ASSUME NEW t \in GoodTasks
  PROVE  /\ [t EXCEPT !.aborted = TRUE] \in GoodTasks
         /\ [t EXCEPT !.aborted = TRUE].pc = t.pc
         /\ \A left \in SUBSET t.left :
              LET u == [t EXCEPT !.detached = TRUE, !.left = left]
              IN  u \in GoodTasks /\ u.pc = t.pc
BY DEF GoodTasks, GoodTask, Tasks, Settled

(* Aborting downloads leaves every loop where it is.                        *)
LEMMA AbortedOK ==
  ASSUME Memory, NEW bs, loop' = Aborted(bs), UNCHANGED processingQueue
  PROVE  Memory'
<1>1. \A w \in Loops : /\ loop'[w] \in GoodTasks
                       /\ loop'[w].pc = loop[w].pc
  <2> SUFFICES ASSUME NEW w \in Loops PROVE loop'[w] \in GoodTasks /\ loop'[w].pc = loop[w].pc
    OBVIOUS
  <2>1. loop[w] \in GoodTasks
    BY DEF Memory
  <2> QED
    BY <2>1, SameTask DEF Aborted
<1>2. Busy' = Busy
  BY <1>1 DEF Busy
<1>3. loop' = [w \in Loops |-> loop'[w]]
  BY DEF Aborted
<1> QED
  BY <1>1, <1>2, <1>3 DEF Memory, OneBook

LEMMA ClearOK ==
  ASSUME IInv, NEW m \in Msgs, ClearFind(m) \/ ClearStop(m) \/ ClearFile(m) \/ ClearRecord(m)
  PROVE  IInv'
<1>1. /\ msg \in [Msgs -> Calls] /\ record \in [Files -> Statuses] /\ Target[m] \in Books
      /\ cache \subseteq Entries /\ urls \subseteq Files
  BY ConstantsAssumption DEF IInv, Rest_OK
<1>2. CASE ClearFind(m)
  <2>1. msg' \in [Msgs -> Calls]
    BY <1>1, <1>2, GotoOK DEF ClearFind, Calls, FilesOf
  <2> QED
    BY <1>2, <2>1, DiskOK DEF ClearFind, disk, IInv, Rest_OK
<1>3. CASE ClearStop(m)
  <2>1. msg' \in [Msgs -> Calls]
    BY <1>1, <1>3, GotoOK DEF ClearStop
  <2>2. Memory'
    BY <1>3, AbortedOK DEF ClearStop, IInv
  <2>3. QueueAgrees' /\ bookQueue' \in Seq(Books)
    <3>1. /\ Without(bookQueue, {Target[m]}) \in Seq(Books)
          /\ Agrees(Without(bookQueue, {Target[m]}), queuedBooks \ {Target[m]})
      BY WithoutAgrees DEF IInv, Rest_OK, QueueAgrees
    <3> QED
      BY <1>3, <3>1 DEF ClearStop, QueueAgrees
  <2> QED
    BY <1>3, <2>1, <2>2, <2>3 DEF ClearStop, IInv, Rest_OK, disk, ends
<1>4. CASE ClearFile(m)
  <2>1. msg' \in [Msgs -> Calls]
    BY <1>1, <1>4 DEF ClearFile, Calls
  <2>2. cache' \subseteq Entries /\ urls' \subseteq Files
    BY <1>1, <1>4 DEF ClearFile
  <2> QED
    BY <1>4, <2>1, <2>2, DiskOK DEF ClearFile, IInv, Rest_OK
<1>5. CASE ClearRecord(m)
  <2>1. msg' \in [Msgs -> Calls]
    BY <1>1, <1>5, GotoOK DEF ClearRecord
  <2>2. record' \in [Files -> Statuses]
    <3>1. \A f \in FilesOf(Target[m]) : NoRecord[f] \in Statuses
      BY DEF NoRecord, FilesOf, Statuses
    <3> QED
      BY <1>1, <1>5, <3>1, PutRecordOK DEF ClearRecord
  <2> QED
    BY <1>5, <2>1, <2>2, DiskOK DEF ClearRecord, IInv, Rest_OK
<1> QED
  BY <1>2, <1>3, <1>4, <1>5

LEMMA ClearAllOK ==
  ASSUME IInv, NEW m \in Msgs, ClearAllStop(m) \/ ClearAllCache(m) \/ ClearAllDb(m)
  PROVE  IInv'
<1>1. msg \in [Msgs -> Calls] /\ record \in [Files -> Statuses]
  BY DEF IInv, Rest_OK
<1>2. CASE ClearAllStop(m)
  <2>1. msg' \in [Msgs -> Calls]
    BY <1>1, <1>2, GotoOK DEF ClearAllStop
  <2>2. Memory'
    BY <1>2, AbortedOK DEF ClearAllStop, IInv
  <2> QED
    BY <1>2, <2>1, <2>2, EmptyAgrees DEF ClearAllStop, QueueAgrees, IInv, Rest_OK, disk, ends
<1>3. CASE ClearAllCache(m)
  <2>1. msg' \in [Msgs -> Calls]
    BY <1>1, <1>3, GotoOK DEF ClearAllCache
  <2>2. \A w \in Loops : loop'[w] \in GoodTasks /\ loop'[w].pc = loop[w].pc
    <3> SUFFICES ASSUME NEW w \in Loops PROVE loop'[w] \in GoodTasks /\ loop'[w].pc = loop[w].pc
      OBVIOUS
    <3>1. loop[w] \in GoodTasks
      BY DEF IInv, Memory
    <3>2. \E left \in SUBSET loop[w].left :
            loop'[w] = IF Running(w, "fetch")
                       THEN [loop[w] EXCEPT !.detached = TRUE, !.left = left] ELSE loop[w]
      <4> DEFINE left == IF Chunked[loop[w].file] /\ ~loop[w].detached
                         THEN loop[w].left \ cache ELSE loop[w].left
      <4>1. left \in SUBSET loop[w].left
        OBVIOUS
      <4>2. loop'[w] = IF Running(w, "fetch")
                       THEN [loop[w] EXCEPT !.detached = TRUE, !.left = left] ELSE loop[w]
        BY <1>3 DEF ClearAllCache
      <4> QED
        BY <4>1, <4>2
    <3> QED
      BY <3>1, <3>2, SameTask
  <2>3. Busy' = Busy /\ loop' = [w \in Loops |-> loop'[w]]
    BY <1>3, <2>2 DEF Busy, ClearAllCache
  <2>4. Memory'
    BY <1>3, <2>2, <2>3 DEF ClearAllCache, IInv, Memory, OneBook, queue
  <2> QED
    BY <1>3, <2>1, <2>4 DEF ClearAllCache, IInv, Rest_OK, QueueAgrees, queue, ends
<1>4. CASE ClearAllDb(m)
  <2>1. msg' \in [Msgs -> Calls]
    BY <1>1, <1>4, GotoOK DEF ClearAllDb
  <2>2. record' \in [Files -> Statuses] /\ urls' \subseteq Files
    BY <1>4 DEF ClearAllDb, NoRecord, Statuses, IInv, Rest_OK
  <2> QED
    BY <1>4, <2>1, <2>2, DiskOK DEF ClearAllDb, IInv, Rest_OK
<1> QED
  BY <1>2, <1>3, <1>4

LEMMA ForgetOK ==
  ASSUME IInv, Forget
  PROVE  /\ Memory' /\ QueueAgrees' /\ bookQueue' \in Seq(Books)
         /\ msg' \in [Msgs -> Calls] /\ activeBookId' = NoBook /\ stray' = {}
<1>1. loop' \in [Loops -> GoodTasks] /\ Busy' = {}
  BY NextTask DEF Forget, Busy, NoTask
<1>2. msg' \in [Msgs -> Calls]
  BY DEF Forget, NoCall, Calls, IInv, Rest_OK
<1> QED
  BY <1>1, <1>2, EmptyAgrees DEF Forget, Memory, OneBook, QueueAgrees

LEMMA LateOK ==
  ASSUME IInv, late \in [Files -> Statuses], NEW b \in Books, LateProgress(b)
  PROVE  IInv'
<1>1. record' \in [Files -> Statuses]
  BY PutRecordOK DEF LateProgress, IInv, Rest_OK, FilesOf
<1> QED
  BY <1>1, DiskOK DEF LateProgress, IInv, Rest_OK

LEMMA LifeOK ==
  ASSUME IInv, Stop \/ Update \/ ResumeList \/ ResumeBook \/ StoreStray
  PROVE  IInv'
<1>1. /\ msg \in [Msgs -> Calls] /\ record \in [Files -> Statuses] /\ resume \in Resumes
      /\ cache \subseteq Entries /\ stray \subseteq Entries
  BY DEF IInv, Rest_OK
<1>2. CASE Stop \/ Update
  <2>1. Forget /\ resume' \in Resumes
    BY <1>2 DEF Stop, Update, NoResume, Resumes, NoRecord, Statuses
  <2>2. stops' \in 0..MaxStops /\ updates' \in 0..MaxUpdates
    BY <1>2, ConstantsAssumption DEF Stop, Update, IInv, Rest_OK
  <2> QED
    BY <2>1, <2>2, ForgetOK DEF Forget, disk, IInv, Rest_OK
<1>3. CASE ResumeList
  <2>1. resume' \in Resumes
    BY <1>1, <1>3 DEF ResumeList, Resumes, NoResume, NoRecord, Statuses
  <2> QED
    BY <1>3, <2>1, DiskOK DEF ResumeList, disk, IInv, Rest_OK
<1>4. CASE ResumeBook
  <2>1. CASE resume' = NoResume /\ UNCHANGED <<record, queueing>>
    <3>1. resume' \in Resumes
      BY <2>1 DEF Resumes, NoResume, NoRecord, Statuses
    <3> QED
      BY <1>4, <2>1, <3>1, DiskOK DEF ResumeBook, IInv, Rest_OK
  <2>2. ASSUME NEW b \in resume.todo,
               IF \E f \in FilesOf(b) : resume.recs[f] = "downloading"
               THEN PutRecord(b, [f \in Files |->
                      IF resume.recs[f] = "downloading" THEN "queued" ELSE resume.recs[f]])
               ELSE UNCHANGED record,
               EnqueueBook(b), resume' = Rest(b)
        PROVE  IInv'
    <3>1. b \in Books
      BY <1>1, <2>2 DEF Resumes
    <3>2. record' \in [Files -> Statuses]
      <4> DEFINE rec == [f \in Files |->
                     IF resume.recs[f] = "downloading" THEN "queued" ELSE resume.recs[f]]
      <4>1. \A f \in FilesOf(b) : rec[f] \in Statuses
        BY <1>1 DEF FilesOf, Resumes, Statuses
      <4>2. PutRecord(b, rec) \/ UNCHANGED record
        BY <2>2
      <4> HIDE DEF rec
      <4> QED
        BY <1>1, <4>1, <4>2, PutRecordOK
    <3>3. resume' \in Resumes
      BY <1>1, <2>2 DEF Rest, Resumes, NoResume, NoRecord, Statuses
    <3>4. /\ Memory' /\ QueueAgrees' /\ bookQueue' \in Seq(Books)
          /\ activeBookId' \in Books \cup {NoBook}
      BY <2>2, <3>1, EnqueueOK DEF IInv, Rest_OK
    <3> QED
      BY <1>4, <3>2, <3>3, <3>4 DEF ResumeBook, IInv, Rest_OK, ends
  <2> QED
    BY <1>4, <2>1, <2>2 DEF ResumeBook
<1>5. CASE StoreStray
  <2>1. cache' \subseteq Entries /\ stray' \subseteq Entries
    BY <1>1, <1>5 DEF StoreStray
  <2> QED
    BY <1>5, <2>1, DiskOK DEF StoreStray, IInv, Rest_OK
<1> QED
  BY <1>2, <1>3, <1>4, <1>5

-----------------------------------------------------------------------------
(* The theorems                                                             *)

(* What is left of a book that failed: what was, nothing, or a loop's copy. *)
LEMMA LateChanges ==
  ASSUME [Next]_vars
  PROVE  UNCHANGED late \/ late' = NoRecord \/ \E w \in Loops : Outlives(w)
<1>1. ASSUME NEW b, EnqueueBook(b) PROVE UNCHANGED late
  BY <1>1 DEF EnqueueBook, Shift, queueing
<1>2. ASSUME NEW m \in Msgs, Begin(m) \/ Continue(m) PROVE UNCHANGED late
  <2>1. CASE CacheMeta(m)
    BY <1>1, <2>1 DEF CacheMeta
  <2> QED
    BY <1>2, <2>1 DEF Begin, Continue, CachePut, ClearFind, ClearStop, ClearFile, ClearRecord,
                      ClearAllStop, ClearAllCache, ClearAllDb, queueing
<1>3. ASSUME NEW w \in Loops, LoopStep(w) \/ PersistProgress(w)
      PROVE  UNCHANGED late \/ Outlives(w)
  <2>1. ASSUME NEW t, NextFile(w, t) PROVE UNCHANGED late \/ Outlives(w)
    BY <2>1 DEF NextFile, Return
  <2>2. CASE PutFirst(w) \/ PutReady(w) \/ PutFailed(w)
    BY <2>1, <2>2 DEF PutFirst, PutReady, PutFailed
  <2>3. CASE NextBook(w) \/ LoopRejects(w) \/ Get(w) \/ PutFinal(w)
    BY <2>3 DEF NextBook, Shift, LoopRejects, Get, PutFinal, Return
  <2> QED
    BY <1>3, <2>2, <2>3 DEF LoopStep, PersistProgress, Verify, Mark, Meta, Open, Hit, Receive,
                            Store, Fail, Downloaded, UrlMeta, queueing
<1>4. CASE ResumeBook
  BY <1>1, <1>4 DEF ResumeBook, queueing
<1>5. CASE \/ Stop \/ Update \/ StoreStray \/ ResumeList
           \/ \E b \in Books : LateProgress(b)
  BY <1>5 DEF Stop, Update, Forget, StoreStray, ResumeList, LateProgress, queueing
<1> QED
  BY <1>2, <1>3, <1>4, <1>5 DEF Next, vars, queueing

LEMMA LateTyped ==
  ASSUME IInv, late \in [Files -> Statuses], [Next]_vars
  PROVE  late' \in [Files -> Statuses]
<1>1. ASSUME NEW w \in Loops, Outlives(w) PROVE late' \in [Files -> Statuses]
  <2>1. loop[w].rec \in [Files -> Statuses]
    BY DEF IInv, Memory, GoodTasks, Tasks
  <2> QED
    BY <1>1, <2>1 DEF Outlives, Replaced
<1>2. NoRecord \in [Files -> Statuses]
  BY DEF NoRecord, Statuses
<1> QED
  BY <1>1, <1>2, LateChanges

LEMMA NextOK ==
  ASSUME IInv, late \in [Files -> Statuses], [Next]_vars
  PROVE  IInv'
<1>1. CASE \E m \in Msgs : Begin(m) \/ Continue(m)
  BY <1>1, CacheOK, ClearOK, ClearAllOK DEF Begin, Continue
<1>2. CASE \E w \in Loops : LoopStep(w) \/ PersistProgress(w)
  BY <1>2, LoopPlainOK, LoopTryOK, LoopWriteOK, LoopBookOK DEF LoopStep
<1>3. CASE StoreStray \/ ResumeList \/ ResumeBook \/ Stop \/ Update
  BY <1>3, LifeOK
<1>4. CASE UNCHANGED vars
  BY <1>4, DiskOK DEF vars, disk, IInv, Rest_OK
<1>5. CASE \E b \in Books : LateProgress(b)
  BY <1>5, LateOK
<1> QED
  BY <1>1, <1>2, <1>3, <1>4, <1>5 DEF Next

LEMMA Invariance == Spec => [](IInv /\ late \in [Files -> Statuses])
<1>1. Init => late \in [Files -> Statuses]
  BY DEF Init, NoRecord, Statuses
<1>2. IInv /\ late \in [Files -> Statuses] /\ [Next]_vars
        => IInv' /\ (late \in [Files -> Statuses])'
  BY NextOK, LateTyped
<1> QED
  BY <1>1, <1>2, InitOK, PTL DEF Spec

(* Every variable of the worker keeps its type.                             *)
THEOREM TypeCorrect == Spec => []TypeOK
BY Invariance, TypeFollows, PTL

(* Whatever messages, failures, stops and updates come, processQueue never *)
(* runs twice, and processingQueue says whether it runs.                    *)
THEOREM OneBookAlways == Spec => []OneBook
<1>1. IInv => OneBook
  BY DEF IInv, Memory
<1> QED
  BY <1>1, Invariance, PTL

(* bookQueue and queuedBooks never differ, and no book is queued twice.     *)
THEOREM QueueAgreesAlways == Spec => []QueueAgrees
<1>1. IInv => QueueAgrees
  BY DEF IInv
<1> QED
  BY <1>1, Invariance, PTL

-----------------------------------------------------------------------------
(* A queued book has a loop, while IndexedDB works                          *)

LEMMA QueueServedStep ==
  ASSUME ~DbErrors, IInv, QueueServed, [Next]_vars
  PROVE  QueueServed'
<1>1. ASSUME NEW b, EnqueueBook(b) PROVE QueueServed'
  BY <1>1 DEF EnqueueBook, Shift, queueing, QueueServed
<1>2. ASSUME NEW m \in Msgs, Begin(m) \/ Continue(m) PROVE QueueServed'
  <2>1. CASE ClearStop(m)
    <3>1. IInv'
      BY <2>1, ClearOK
    <3>2. bookQueue' # <<>> => bookQueue # <<>>
      <4>1. bookQueue = <<>> => queuedBooks = {}
        BY DEF IInv, QueueAgrees, Agrees, Members
      <4>2. queuedBooks' = {} => DOMAIN bookQueue' = {}
        BY <3>1 DEF IInv, QueueAgrees, Agrees, Members
      <4>3. DOMAIN bookQueue' = {} => bookQueue' = <<>>
        BY <3>1, EmptySeq, LenProperties DEF IInv, Rest_OK
      <4> QED
        BY <2>1, <4>1, <4>2, <4>3 DEF ClearStop
    <3> QED
      BY <2>1, <3>2 DEF ClearStop, QueueServed
  <2>2. CASE CacheMeta(m)
    BY <1>1, <2>2 DEF CacheMeta
  <2>3. CASE ClearAllStop(m)
    BY <2>3 DEF ClearAllStop, QueueServed
  <2>4. CASE \/ CachePut(m) \/ ClearFind(m) \/ ClearFile(m) \/ ClearRecord(m)
             \/ ClearAllCache(m) \/ ClearAllDb(m)
    BY <2>4 DEF CachePut, ClearFind, ClearFile, ClearRecord, ClearAllCache, ClearAllDb,
                queueing, queue, QueueServed
  <2> QED
    BY <1>2, <2>1, <2>2, <2>3, <2>4 DEF Begin, Continue
<1>3. ASSUME NEW w \in Loops, LoopStep(w) \/ PersistProgress(w) PROVE QueueServed'
  <2>1. CASE NextBook(w)
    BY <2>1 DEF NextBook, Shift, QueueServed
  <2>2. ~LoopRejects(w)
    BY DEF LoopRejects
  <2>3. UNCHANGED queue => QueueServed'
    BY DEF queue, QueueServed
  <2>4. CASE Get(w) \/ Verify(w) \/ PutFirst(w) \/ Mark(w) \/ Meta(w) \/ Open(w) \/ Hit(w)
             \/ Receive(w) \/ Store(w) \/ Fail(w)
    BY <2>3, <2>4 DEF Get, Verify, PutFirst, Mark, Meta, Open, Hit, Receive, Store, Fail
  <2>5. CASE Downloaded(w) \/ UrlMeta(w) \/ PutReady(w) \/ PutFailed(w) \/ PutFinal(w)
             \/ PersistProgress(w)
    BY <2>3, <2>5 DEF Downloaded, UrlMeta, PutReady, PutFailed, PutFinal, PersistProgress,
                      queueing, queue
  <2> QED
    BY <1>3, <2>1, <2>2, <2>4, <2>5 DEF LoopStep
<1>4. CASE Stop \/ Update
  BY <1>4 DEF Stop, Update, Forget, QueueServed
<1>5. CASE ResumeBook
  BY <1>1, <1>5 DEF ResumeBook
<1>6. CASE StoreStray \/ ResumeList \/ (\E b \in Books : LateProgress(b)) \/ UNCHANGED vars
  BY <1>6 DEF StoreStray, ResumeList, LateProgress, vars, queueing, QueueServed
<1> QED
  BY <1>2, <1>3, <1>4, <1>5, <1>6 DEF Next

(* While IndexedDB works, processQueue never ends with a book in its queue *)
(* and no message leaves one there unattended.                              *)
THEOREM QueueServedAlways ==
  ASSUME ~DbErrors
  PROVE  Spec => []QueueServed
<1>1. Init => QueueServed
  BY DEF Init, QueueServed
<1>2. IInv /\ QueueServed /\ [Next]_vars => QueueServed'
  BY QueueServedStep
<1> QED
  BY <1>1, <1>2, Invariance, PTL DEF Spec

-----------------------------------------------------------------------------
(* The book at position 0 is the one the loop works on                      *)

LEMMA ActiveKept ==
  ASSUME ActiveAgrees, UNCHANGED activeBookId, \A w \in Loops : loop'[w].book = loop[w].book
  PROVE  ActiveAgrees'
BY DEF ActiveAgrees

(* Loop w is the only one with a book, and activeBookId is told of its next.*)
LEMMA ActiveSet ==
  ASSUME loop \in [Loops -> GoodTasks], NEW w \in Loops,
         \A v \in Loops : v # w => loop[v].book = NoBook,
         NEW t, Step(w, t), activeBookId' = t.book
  PROVE  ActiveAgrees'
<1>1. loop'[w] = t /\ \A v \in Loops : v # w => loop'[v].book = NoBook
  BY DEF Step
<1> QED
  BY <1>1, ConstantsAssumption DEF ActiveAgrees

LEMMA OthersIdle ==
  ASSUME Memory, NEW w \in Loops, \A v \in Busy : v = w
  PROVE  \A v \in Loops : v # w => loop[v].book = NoBook
<1>1. \A v \in Loops : v # w => loop[v].pc = "idle"
  BY DEF Busy
<1> QED
  BY <1>1 DEF Memory, GoodTasks, GoodTask

LEMMA ActiveShift ==
  ASSUME Memory, NEW w \in Loops, \A v \in Busy : v = w, NEW q, NEW qs, Shift(w, q, qs)
  PROVE  ActiveAgrees'
<1> DEFINE t == [NoTask EXCEPT !.pc = "get", !.book = Head(q)]
<1>1. Step(w, t) /\ activeBookId' = t.book
  BY DEF Shift, Step, NoTask
<1> HIDE DEF t
<1> QED
  BY <1>1, ActiveSet, OthersIdle DEF Memory

LEMMA ActiveEnqueue ==
  ASSUME IInv, ActiveAgrees, NEW b, EnqueueBook(b)
  PROVE  ActiveAgrees'
<1>1. CASE UNCHANGED <<activeBookId, loop>>
  BY <1>1, ActiveKept
<1>2. ASSUME ~processingQueue, NEW w \in Loops,
             Shift(w, Append(bookQueue, b), queuedBooks \cup {b})
      PROVE  ActiveAgrees'
  BY <1>2, ActiveShift DEF IInv, Memory, OneBook
<1> QED
  BY <1>1, <1>2 DEF EnqueueBook, queueing

(* A step of the loop keeps its book, gives it back with activeBookId, or   *)
(* takes the next.                                                          *)
LEMMA ActiveLoop ==
  ASSUME ~DbErrors, IInv, ActiveAgrees, NEW w \in Loops, LoopStep(w) \/ PersistProgress(w)
  PROVE  ActiveAgrees'
<1>0. loop \in [Loops -> GoodTasks] /\ Memory /\ loop[w] \in GoodTasks
  BY DEF IInv, Memory
<1>1. ASSUME loop[w].pc # "idle" PROVE \A v \in Busy : v = w
  BY <1>0, <1>1 DEF Memory, OneBook, Busy
<1>2. ASSUME NEW t, Step(w, t), t.book = loop[w].book, UNCHANGED activeBookId
      PROVE  ActiveAgrees'
  BY <1>0, <1>2, ActiveKept DEF Step
<1>3. ASSUME loop[w].pc # "idle", Return(w) PROVE ActiveAgrees'
  <2>1. [NoTask EXCEPT !.pc = "next"].book = NoBook
    BY DEF NoTask
  <2> QED
    BY <1>0, <1>1, <1>3, <2>1, ActiveSet, OthersIdle DEF Return
<1>4. ASSUME loop[w].pc # "idle", NEW t \in Tasks, t.book = loop[w].book, NextFile(w, t)
      PROVE  ActiveAgrees'
  <2>1. ASSUME NEW f \in t.todo, UNCHANGED activeBookId,
               Step(w, [t EXCEPT !.pc = "mark", !.file = f, !.todo = @ \ {f},
                                 !.rec[f] = "downloading"])
        PROVE  ActiveAgrees'
    <3> DEFINE u == [t EXCEPT !.pc = "mark", !.file = f, !.todo = @ \ {f},
                              !.rec[f] = "downloading"]
    <3>1. u.book = loop[w].book /\ Step(w, u)
      BY <1>4, <2>1 DEF Tasks
    <3> HIDE DEF u
    <3> QED
      BY <1>2, <2>1, <3>1
  <2>2. CASE Step(w, [t EXCEPT !.pc = "final"]) /\ UNCHANGED activeBookId
    <3> DEFINE u == [t EXCEPT !.pc = "final"]
    <3>1. u.book = loop[w].book /\ Step(w, u)
      BY <1>4, <2>2 DEF Tasks
    <3> HIDE DEF u
    <3> QED
      BY <1>2, <2>2, <3>1
  <2> QED
    BY <1>3, <1>4, <2>1, <2>2 DEF NextFile
<1>5. ASSUME Fails(w) \/ \E strays : Straggle(w, strays), UNCHANGED activeBookId
      PROVE  ActiveAgrees'
  <2> DEFINE t == [loop[w] EXCEPT !.pc = "failed", !.rec[loop[w].file] = "failed"]
             u == [loop[w] EXCEPT !.pc = "failed", !.rec[loop[w].file] = "failed", !.left = {},
                     !.putting = {}, !.straggles = @ \/ Parts[loop[w].file] > 1]
  <2>1. t.book = loop[w].book /\ u.book = loop[w].book
    BY <1>0 DEF GoodTasks, Tasks
  <2>2. Step(w, t) \/ Step(w, u)
    BY <1>5 DEF Fails, Straggle
  <2> HIDE DEF t, u
  <2> QED
    BY <1>2, <1>5, <2>1, <2>2
<1>6. ASSUME IsReady(w), UNCHANGED activeBookId PROVE ActiveAgrees'
  <2> DEFINE u == [loop[w] EXCEPT !.pc = "ready", !.rec[loop[w].file] = "ready"]
  <2>1. u.book = loop[w].book /\ Step(w, u)
    BY <1>0, <1>6 DEF IsReady, GoodTasks, Tasks
  <2> HIDE DEF u
  <2> QED
    BY <1>2, <1>6, <2>1
<1>7. CASE NextBook(w)
  <2>1. CASE Shift(w, bookQueue, queuedBooks)
    BY <1>0, <1>1, <1>7, <2>1, ActiveShift DEF NextBook, Running
  <2>2. CASE Step(w, NoTask) /\ UNCHANGED activeBookId
    <3>1. NoTask.book = NoBook /\ loop[w].book = NoBook
      BY <1>0, <1>7 DEF NextBook, Running, NoTask, GoodTasks, GoodTask
    <3> QED
      BY <1>2, <2>2, <3>1
  <2> QED
    BY <1>7, <2>1, <2>2 DEF NextBook
<1>8. CASE Get(w)
  <2>1. CASE Step(w, [loop[w] EXCEPT !.pc = "verify", !.rec = record]) /\ UNCHANGED activeBookId
    BY <1>0, <1>2, <2>1 DEF GoodTasks, Tasks
  <2> QED
    BY <1>3, <1>8, <2>1 DEF Get, Running
<1>9. CASE Verify(w)
  <2> DEFINE rec == [f \in Files |->
                       IF loop[w].rec[f] = "ready" /\ <<f, 1>> \notin cache THEN "queued"
                       ELSE loop[w].rec[f]]
             u == [loop[w] EXCEPT !.pc = "put", !.rec = rec]
  <2>1. Step(w, u) /\ UNCHANGED activeBookId
    BY <1>9 DEF Verify
  <2>2. u.book = loop[w].book
    BY <1>0 DEF GoodTasks, Tasks
  <2> HIDE DEF u
  <2> QED
    BY <1>2, <2>1, <2>2
<1>10. CASE PutFirst(w)
  <2> DEFINE u == [loop[w] EXCEPT !.todo =
                     {f \in FilesOf(loop[w].book) : loop[w].rec[f] # "ready"}]
  <2>1. u \in Tasks /\ u.book = loop[w].book
    BY <1>0 DEF GoodTasks, Tasks, FilesOf
  <2>2. NextFile(w, u) /\ loop[w].pc # "idle"
    BY <1>10 DEF PutFirst, Running
  <2> HIDE DEF u
  <2> QED
    BY <1>4, <2>1, <2>2
<1>11. CASE Mark(w) \/ Meta(w) \/ Open(w)
  <2>1. CASE Step(w, [loop[w] EXCEPT !.pc = "meta"]) /\ UNCHANGED activeBookId
    BY <1>0, <1>2, <2>1 DEF GoodTasks, Tasks
  <2>2. CASE Meta(w)
    BY <1>0, <1>2, <2>2 DEF Meta, GoodTasks, Tasks
  <2>3. CASE Open(w)
    BY <1>0, <1>2, <2>3 DEF Open, GoodTasks, Tasks
  <2> QED
    BY <1>5, <1>11, <2>1, <2>2, <2>3 DEF Mark
<1>12. CASE Hit(w) \/ Receive(w) \/ Store(w)
  <2>1. UNCHANGED activeBookId /\
        \E left, putting : Step(w, [loop[w] EXCEPT !.left = left, !.putting = putting])
    <3>1. loop[w] = [loop[w] EXCEPT !.left = loop[w].left, !.putting = loop[w].putting]
      BY <1>0 DEF GoodTasks, Tasks
    <3>2. CASE Hit(w)
      <4>1. PICK p : Step(w, [loop[w] EXCEPT !.left = @ \ {p}])
        BY <3>2 DEF Hit
      <4>2. [loop[w] EXCEPT !.left = @ \ {p}]
              = [loop[w] EXCEPT !.left = loop[w].left \ {p}, !.putting = loop[w].putting]
        BY <1>0 DEF GoodTasks, Tasks
      <4> QED
        BY <3>2, <4>1, <4>2 DEF Hit
    <3>3. CASE Receive(w)
      BY <3>3 DEF Receive
    <3>4. CASE Store(w)
      <4>1. PICK p : Step(w, [loop[w] EXCEPT !.putting = @ \ {p}])
        BY <3>4 DEF Store
      <4>2. [loop[w] EXCEPT !.putting = @ \ {p}]
              = [loop[w] EXCEPT !.left = loop[w].left, !.putting = loop[w].putting \ {p}]
        BY <1>0 DEF GoodTasks, Tasks
      <4> QED
        BY <3>4, <4>1, <4>2 DEF Store
    <3> QED
      BY <1>12, <3>2, <3>3, <3>4
  <2>2. PICK left, putting : Step(w, [loop[w] EXCEPT !.left = left, !.putting = putting])
    BY <2>1
  <2>3. [loop[w] EXCEPT !.left = left, !.putting = putting].book = loop[w].book
    BY <1>0 DEF GoodTasks, Tasks
  <2> QED
    BY <1>2, <2>1, <2>2, <2>3
<1>13. CASE Fail(w)
  BY <1>5, <1>13 DEF Fail
<1>14. CASE Downloaded(w)
  <2>1. CASE Step(w, [loop[w] EXCEPT !.pc = "urlMeta"]) /\ UNCHANGED activeBookId
    BY <1>0, <1>2, <2>1 DEF GoodTasks, Tasks
  <2> QED
    BY <1>6, <1>14, <2>1 DEF Downloaded
<1>15. CASE UrlMeta(w)
  BY <1>5, <1>6, <1>15 DEF UrlMeta
<1>16. CASE PutReady(w) \/ PutFailed(w)
  <2>1. loop[w] \in Tasks /\ loop[w].pc # "idle"
    BY <1>0, <1>16 DEF GoodTasks, PutReady, PutFailed, Running
  <2> QED
    BY <1>4, <1>16, <2>1 DEF PutReady, PutFailed
<1>17. CASE PutFinal(w)
  BY <1>3, <1>17 DEF PutFinal, Running
<1>18. CASE PersistProgress(w)
  BY <1>18, ActiveKept DEF PersistProgress, queueing
<1>19. ~LoopRejects(w)
  BY DEF LoopRejects
<1> QED
  BY <1>7, <1>8, <1>9, <1>10, <1>11, <1>12, <1>13, <1>14, <1>15, <1>16, <1>17, <1>18, <1>19
  DEF LoopStep

LEMMA ActiveMessage ==
  ASSUME IInv, ActiveAgrees, NEW m \in Msgs, Begin(m) \/ Continue(m)
  PROVE  ActiveAgrees'
<1>0. loop \in [Loops -> GoodTasks]
  BY DEF IInv, Memory
<1>1. ASSUME NEW bs, loop' = Aborted(bs), UNCHANGED activeBookId PROVE ActiveAgrees'
  <2>1. \A w \in Loops : [loop[w] EXCEPT !.aborted = TRUE].book = loop[w].book
    BY <1>0 DEF GoodTasks, Tasks
  <2> QED
    BY <1>1, <2>1, ActiveKept DEF Aborted
<1>2. CASE ClearStop(m) \/ ClearAllStop(m)
  BY <1>1, <1>2 DEF ClearStop, ClearAllStop
<1>3. CASE CacheMeta(m)
  BY <1>3, ActiveEnqueue DEF CacheMeta
<1>4. CASE CachePut(m) \/ ClearFind(m) \/ ClearFile(m) \/ ClearRecord(m) \/ ClearAllDb(m)
  BY <1>4, ActiveKept DEF CachePut, ClearFind, ClearFile, ClearRecord, ClearAllDb, queueing
<1>5. CASE ClearAllCache(m)
  <2>1. ASSUME NEW w \in Loops PROVE loop'[w].book = loop[w].book
    <3>1. PICK left : loop'[w] \in {loop[w], [loop[w] EXCEPT !.detached = TRUE, !.left = left]}
      BY <1>5 DEF ClearAllCache
    <3>2. [loop[w] EXCEPT !.detached = TRUE, !.left = left].book = loop[w].book
      BY <1>0 DEF GoodTasks, Tasks
    <3> QED
      BY <3>1, <3>2
  <2> QED
    BY <1>5, <2>1, ActiveKept DEF ClearAllCache
<1> QED
  BY <1>2, <1>3, <1>4, <1>5 DEF Begin, Continue

LEMMA ActiveStep ==
  ASSUME ~DbErrors, IInv, ActiveAgrees, [Next]_vars
  PROVE  ActiveAgrees'
<1>1. CASE Stop \/ Update
  <2>1. Forget
    BY <1>1 DEF Stop, Update
  <2>2. activeBookId' = NoBook /\ \A w \in Loops : loop'[w].book = NoBook
    BY <2>1 DEF Forget, NoTask
  <2> QED
    BY <2>2, ConstantsAssumption DEF ActiveAgrees
<1>2. CASE ResumeBook
  BY <1>2, ActiveEnqueue, ActiveKept DEF ResumeBook, queueing
<1>3. CASE StoreStray \/ ResumeList \/ (\E b \in Books : LateProgress(b)) \/ UNCHANGED vars
  BY <1>3, ActiveKept DEF StoreStray, ResumeList, LateProgress, vars, queueing
<1> QED
  BY <1>1, <1>2, <1>3, ActiveMessage, ActiveLoop DEF Next

(* While IndexedDB works, the book that QUERY_QUEUE puts at position 0 is   *)
(* the one processQueue works on, through aborts, clears, missing records   *)
(* and updates: cacheBookNow resets activeBookId wherever it returns, and   *)
(* only a rejection leaves it behind.                                       *)
THEOREM ActiveAgreesAlways ==
  ASSUME ~DbErrors
  PROVE  Spec => []ActiveAgrees
<1>1. Init => ActiveAgrees
  BY ConstantsAssumption DEF Init, ActiveAgrees, NoTask
<1>2. IInv /\ ActiveAgrees /\ [Next]_vars => ActiveAgrees'
  BY ActiveStep
<1> QED
  BY <1>1, <1>2, Invariance, PTL DEF Spec

-----------------------------------------------------------------------------
(* A ready file is served, while nothing is cleared                         *)

OnlyCaches == \A m \in Msgs : Op[m] = "cache"

(* Everything the fetch handler needs to serve a file is among the entries *)
(* c of the cache and the files u with metadata.                            *)
Complete(f, c, u) == PartsOf(f) \subseteq c /\ (Chunked[f] => f \in u)

(* No copy of a record, in memory or on disk, calls a file ready that is   *)
(* not complete, and a download loses no entry between its request and its *)
(* place in the cache.                                                      *)
Honest(t, c, u) ==
  /\ \A f \in Files : t.rec[f] = "ready" => Complete(f, c, u)
  /\ t.pc = "fetch" => ~t.detached /\ PartsOf(t.file) \subseteq c \cup t.left \cup t.putting
  /\ t.pc = "urlMeta" => PartsOf(t.file) \subseteq c

AllHonest ==
  /\ \A f \in Files : record[f] = "ready" => Complete(f, cache, urls)
  /\ \A f \in Files : resume.recs[f] = "ready" => Complete(f, cache, urls)
  /\ \A f \in Files : late[f] = "ready" => Complete(f, cache, urls)
  /\ \A w \in Loops : Honest(loop[w], cache, urls)

Grows == cache \subseteq cache' /\ urls \subseteq urls'

LEMMA HonestFollows == AllHonest => ReadyServes
<1> SUFFICES ASSUME AllHonest, NEW f \in Files, record[f] = "ready" PROVE Served(f) = "cache"
  BY DEF ReadyServes
<1>1. Complete(f, cache, urls)
  BY DEF AllHonest
<1>2. <<f, 1>> \in PartsOf(f)
  BY ConstantsAssumption DEF PartsOf
<1> QED
  BY <1>1, <1>2 DEF Complete, Served

(* What is complete stays so, and tasks that do not change stay honest.     *)
LEMMA GrowsOK ==
  ASSUME Grows
  PROVE  /\ \A f \in Files : Complete(f, cache, urls) => Complete(f, cache', urls')
         /\ \A t : Honest(t, cache, urls) => Honest(t, cache', urls')
<1>1. \A f \in Files : Complete(f, cache, urls) => Complete(f, cache', urls')
  BY DEF Grows, Complete
<1> QED
  BY <1>1 DEF Grows, Honest

(* A loop's step that gives it an honest task and writes its record, or    *)
(* writes none.                                                             *)
LEMMA HonestStep ==
  ASSUME IInv, AllHonest, Grows, NEW w \in Loops, NEW t \in Tasks, Step(w, t),
         Honest(t, cache', urls'), UNCHANGED resume,
         UNCHANGED record \/ PutRecord(loop[w].book, loop[w].rec),
         UNCHANGED late \/ Outlives(w)
  PROVE  AllHonest'
<1>1. /\ \A f \in Files : Complete(f, cache, urls) => Complete(f, cache', urls')
      /\ \A v \in Loops : Honest(loop[v], cache', urls')
  BY GrowsOK DEF AllHonest
<1>2. loop' = [loop EXCEPT ![w] = t]
  BY DEF Step
<1>3. \A v \in Loops : Honest(loop'[v], cache', urls')
  BY <1>1, <1>2 DEF IInv, Memory
<1>4. \A f \in Files : record'[f] = "ready" => Complete(f, cache', urls')
  BY <1>1 DEF AllHonest, Honest, PutRecord, Replaced
<1>5. \A f \in Files : late'[f] = "ready" => Complete(f, cache', urls')
  BY <1>1 DEF AllHonest, Honest, Outlives, Replaced
<1> QED
  BY <1>1, <1>3, <1>4, <1>5 DEF AllHonest

(* The record and the queue are written, the task only shifted.             *)
LEMMA HonestRest ==
  ASSUME AllHonest, Grows,
         \A w \in Loops : \/ loop'[w] = loop[w]
                          \/ /\ loop'[w].rec = NoRecord
                             /\ loop'[w].pc \notin {"fetch", "urlMeta"},
         \A f \in Files : record'[f] = "ready" =>
                            record[f] = "ready" \/ resume.recs[f] = "ready" \/ late[f] = "ready",
         \A f \in Files : late'[f] = "ready" => late[f] = "ready",
         \A f \in Files : resume'.recs[f] = "ready" =>
                            record[f] = "ready" \/ resume.recs[f] = "ready"
  PROVE  AllHonest'
<1>1. /\ \A f \in Files : Complete(f, cache, urls) => Complete(f, cache', urls')
      /\ \A v \in Loops : Honest(loop[v], cache', urls')
  BY GrowsOK DEF AllHonest
<1>2. \A v \in Loops : Honest(loop'[v], cache', urls')
  BY <1>1 DEF Honest, NoRecord
<1> QED
  BY <1>1, <1>2 DEF AllHonest

LEMMA NextFileHonest ==
  ASSUME NEW w, NEW t \in Tasks, NEW c, NEW u, Honest(t, c, u), NextFile(w, t)
  PROVE  /\ \E n \in Tasks : Step(w, n) /\ Honest(n, c, u)
         /\ UNCHANGED late \/ Outlives(w)
<1>1. CASE /\ \E f \in t.todo : Step(w, [t EXCEPT !.pc = "mark", !.file = f, !.todo = @ \ {f},
                                                  !.rec[f] = "downloading"])
           /\ UNCHANGED late
  <2> PICK f \in t.todo : Step(w, [t EXCEPT !.pc = "mark", !.file = f, !.todo = @ \ {f},
                                            !.rec[f] = "downloading"])
    BY <1>1
  <2> DEFINE n == [t EXCEPT !.pc = "mark", !.file = f, !.todo = @ \ {f}, !.rec[f] = "downloading"]
  <2>1. n \in Tasks /\ Honest(n, c, u)
    BY DEF Tasks, Pcs, Statuses, Honest
  <2> QED
    BY <1>1, <2>1
<1>2. CASE Step(w, [t EXCEPT !.pc = "final"]) /\ UNCHANGED late
  <2>1. [t EXCEPT !.pc = "final"] \in Tasks /\ Honest([t EXCEPT !.pc = "final"], c, u)
    BY DEF Tasks, Pcs, Honest
  <2> QED
    BY <1>2, <2>1
<1>3. CASE Return(w)
  <2> DEFINE n == [NoTask EXCEPT !.pc = "next"]
  <2>1. n \in Tasks /\ Honest(n, c, u)
    BY NextTask DEF GoodTasks, Honest, NoTask, NoRecord
  <2> QED
    BY <1>3, <2>1 DEF Return
<1> QED
  BY <1>1, <1>2, <1>3 DEF NextFile

LEMMA HonestFails ==
  ASSUME IInv, AllHonest, NEW w \in Loops, Fails(w) \/ \E strays : Straggle(w, strays),
         UNCHANGED <<disk, resume, late>>
  PROVE  AllHonest'
<1> DEFINE s == loop[w]
           t == [s EXCEPT !.pc = "failed", !.rec[s.file] = "failed"]
           u == [s EXCEPT !.pc = "failed", !.rec[s.file] = "failed", !.left = {},
                          !.putting = {}, !.straggles = @ \/ Parts[s.file] > 1]
<1>1. s \in Tasks /\ Honest(s, cache, urls)
  BY DEF IInv, Memory, GoodTasks, AllHonest
<1>2. t \in Tasks /\ Honest(t, cache, urls)
  BY <1>1 DEF Tasks, Pcs, Statuses, Honest
<1>3. u \in Tasks /\ Honest(u, cache, urls)
  BY <1>1 DEF Tasks, Pcs, Statuses, Honest
<1>4. Step(w, t) \/ Step(w, u)
  BY DEF Fails, Straggle
<1> HIDE DEF t, u
<1> QED
  BY <1>2, <1>3, <1>4, HonestStep DEF disk, Grows

(* Each step of the loop before a file is ready, and the failing ones.      *)
LEMMA HonestDownload ==
  ASSUME IInv, AllHonest, NEW w \in Loops,
         \/ Verify(w) \/ Meta(w) \/ Open(w) \/ Hit(w) \/ Receive(w) \/ Store(w)
         \/ Fail(w) \/ Mark(w)
  PROVE  AllHonest'
<1> DEFINE s == loop[w]
<1>1. s \in Tasks /\ GoodTask(s) /\ Honest(s, cache, urls)
  BY DEF IInv, Memory, GoodTasks, AllHonest
<1>2. CASE Verify(w)
  <2> DEFINE rec == [f \in Files |->
                       IF s.rec[f] = "ready" /\ <<f, 1>> \notin cache THEN "queued" ELSE s.rec[f]]
             t == [s EXCEPT !.pc = "put", !.rec = rec]
  <2>1. rec \in [Files -> Statuses] /\ \A f \in Files : rec[f] = "ready" => s.rec[f] = "ready"
    BY <1>1 DEF Tasks, Statuses
  <2> HIDE DEF rec
  <2>2. t \in Tasks /\ Honest(t, cache, urls)
    BY <1>1, <2>1 DEF Tasks, Pcs, Honest
  <2>3. Step(w, t) /\ UNCHANGED <<disk, resume, late>>
    BY <1>2 DEF Verify, rec
  <2> HIDE DEF t
  <2> QED
    BY <2>2, <2>3, HonestStep DEF disk, Grows
<1>3. CASE Meta(w)
  <2> DEFINE t == [s EXCEPT !.pc = "open"]
  <2>1. Grows /\ Step(w, t) /\ UNCHANGED <<record, resume, late>>
    BY <1>3 DEF Meta, Grows
  <2>2. t \in Tasks /\ Honest(t, cache', urls')
    BY <1>1, <2>1, GrowsOK DEF Tasks, Pcs, Honest
  <2> HIDE DEF t
  <2> QED
    BY <2>1, <2>2, HonestStep
<1>4. CASE Open(w)
  <2> DEFINE t == [s EXCEPT !.pc = "fetch", !.left = PartsOf(s.file),
                            !.putting = {}, !.aborted = FALSE, !.detached = FALSE]
  <2>1. Step(w, t) /\ UNCHANGED <<disk, resume, late>>
    BY <1>4 DEF Open
  <2>2. PartsOf(s.file) \subseteq Entries
    BY <1>1, <1>4 DEF Open, Running, GoodTask, FilesOf, Entries
  <2>3. t \in Tasks /\ Honest(t, cache, urls)
    BY <1>1, <2>2 DEF Tasks, Pcs, Honest
  <2> HIDE DEF t
  <2> QED
    BY <2>1, <2>3, HonestStep DEF disk, Grows
<1>5. CASE Hit(w)
  <2> PICK p \in s.left \cap cache : Step(w, [s EXCEPT !.left = @ \ {p}])
    BY <1>5 DEF Hit
  <2> DEFINE t == [s EXCEPT !.left = @ \ {p}]
  <2>1. Step(w, t) /\ UNCHANGED <<disk, resume, late>>
    BY <1>5 DEF Hit
  <2>2. t \in Tasks /\ Honest(t, cache, urls)
    BY <1>1 DEF Tasks, Honest
  <2> HIDE DEF t
  <2> QED
    BY <2>1, <2>2, HonestStep DEF disk, Grows
<1>6. CASE Receive(w)
  <2> PICK p \in s.left : Step(w, [s EXCEPT !.left = @ \ {p}, !.putting = @ \cup {p}])
    BY <1>6 DEF Receive
  <2> DEFINE t == [s EXCEPT !.left = @ \ {p}, !.putting = @ \cup {p}]
  <2>1. Step(w, t) /\ UNCHANGED <<disk, resume, late>>
    BY <1>6 DEF Receive
  <2>2. t \in Tasks /\ Honest(t, cache, urls)
    BY <1>1 DEF Tasks, Honest
  <2> HIDE DEF t
  <2> QED
    BY <2>1, <2>2, HonestStep DEF disk, Grows
<1>7. CASE Store(w)
  <2> PICK p \in s.putting : /\ Step(w, [s EXCEPT !.putting = @ \ {p}])
                             /\ cache' = IF s.detached THEN cache ELSE cache \cup {p}
    BY <1>7 DEF Store
  <2> DEFINE t == [s EXCEPT !.putting = @ \ {p}]
  <2>1. Step(w, t) /\ Grows /\ UNCHANGED <<record, resume, late>> /\ cache' = cache \cup {p}
    BY <1>1, <1>7 DEF Store, Running, Honest, Grows
  <2>2. Honest(s, cache', urls')
    BY <1>1, <2>1, GrowsOK
  <2>3. t \in Tasks /\ Honest(t, cache', urls')
    BY <1>1, <2>1, <2>2 DEF Tasks, Honest
  <2> HIDE DEF t
  <2> QED
    BY <2>1, <2>3, HonestStep
<1>9. CASE Fail(w)
  BY <1>9, HonestFails DEF Fail
<1>10. CASE Mark(w)
  <2>1. CASE PutRecord(s.book, s.rec) /\ Step(w, [s EXCEPT !.pc = "meta"])
    <3> DEFINE t == [s EXCEPT !.pc = "meta"]
    <3>1. t \in Tasks /\ Honest(t, cache, urls)
      BY <1>1 DEF Tasks, Pcs, Honest
    <3>2. Step(w, t)
      BY <2>1
    <3> HIDE DEF t
    <3> QED
      BY <1>10, <2>1, <3>1, <3>2, HonestStep DEF Mark, Grows
  <2>2. CASE Fails(w) /\ UNCHANGED record
    BY <1>10, <2>2, HonestFails DEF Mark, disk
  <2> QED
    BY <1>10, <2>1, <2>2 DEF Mark
<1> QED
  BY <1>2, <1>3, <1>4, <1>5, <1>6, <1>7, <1>9, <1>10

(* The steps that call a file ready, with all of it in the cache.           *)
LEMMA HonestReady ==
  ASSUME IInv, AllHonest, NEW w \in Loops, Downloaded(w) \/ UrlMeta(w)
  PROVE  AllHonest'
<1> DEFINE s == loop[w]
           t == [s EXCEPT !.pc = "ready", !.rec[s.file] = "ready"]
<1>1. s \in Tasks /\ GoodTask(s) /\ Honest(s, cache, urls)
  BY DEF IInv, Memory, GoodTasks, AllHonest
<1>2. t \in Tasks
  BY <1>1 DEF Tasks, Pcs, Statuses
<1>3. CASE Downloaded(w)
  <2>1. UNCHANGED <<disk, resume, late>> /\ PartsOf(s.file) \subseteq cache
    BY <1>1, <1>3 DEF Downloaded, Running, Honest
  <2>2. CASE Step(w, [s EXCEPT !.pc = "urlMeta"])
    <3> DEFINE u == [s EXCEPT !.pc = "urlMeta"]
    <3>1. u \in Tasks /\ Honest(u, cache, urls) /\ Step(w, u)
      BY <1>1, <2>1, <2>2 DEF Tasks, Pcs, Honest
    <3> HIDE DEF u
    <3> QED
      BY <2>1, <3>1, HonestStep DEF disk, Grows
  <2>3. CASE ~Chunked[s.file] /\ IsReady(w)
    <3>1. Honest(t, cache, urls) /\ Step(w, t)
      BY <1>1, <2>1, <2>3 DEF Honest, Complete, IsReady, Tasks
    <3> HIDE DEF t
    <3> QED
      BY <1>2, <2>1, <3>1, HonestStep DEF disk, Grows
  <2> QED
    BY <1>3, <2>2, <2>3 DEF Downloaded
<1>4. CASE UrlMeta(w)
  <2>1. CASE urls' = urls \cup {s.file} /\ IsReady(w)
    <3>1. Grows /\ UNCHANGED <<record, resume, late>>
      BY <1>4, <2>1 DEF UrlMeta, Grows
    <3>2. Complete(s.file, cache', urls') /\ Honest(s, cache', urls')
      BY <1>1, <1>4, <2>1, <3>1, GrowsOK DEF UrlMeta, Running, Honest, Complete
    <3>3. Honest(t, cache', urls') /\ Step(w, t)
      BY <1>1, <2>1, <3>2 DEF Honest, IsReady, Tasks
    <3> HIDE DEF t
    <3> QED
      BY <1>2, <3>1, <3>3, HonestStep
  <2>2. CASE Fails(w) /\ UNCHANGED urls
    BY <1>4, <2>2, HonestFails DEF UrlMeta, disk
  <2> QED
    BY <1>4, <2>1, <2>2 DEF UrlMeta
<1> QED
  BY <1>3, <1>4

(* The steps that write the record, or turn to another book.                *)
LEMMA HonestWrite ==
  ASSUME IInv, AllHonest, NEW w \in Loops,
         \/ PutFirst(w) \/ PutReady(w) \/ PutFailed(w) \/ PutFinal(w) \/ PersistProgress(w)
         \/ Get(w) \/ NextBook(w) \/ LoopRejects(w)
  PROVE  AllHonest'
<1> DEFINE s == loop[w]
<1>1. s \in Tasks /\ Honest(s, cache, urls) /\ loop \in [Loops -> Tasks]
  BY DEF IInv, Memory, GoodTasks, AllHonest
<1>2. ASSUME NEW t \in Tasks, Honest(t, cache, urls), NextFile(w, t),
             PutRecord(s.book, s.rec), UNCHANGED <<urls, cache, resume>>
      PROVE  AllHonest'
  <2>1. /\ \E n \in Tasks : Step(w, n) /\ Honest(n, cache, urls)
        /\ UNCHANGED late \/ Outlives(w)
    BY <1>2, NextFileHonest
  <2> QED
    BY <1>2, <2>1, HonestStep DEF Grows
<1>3. NoTask \in Tasks /\ NoTask.rec = NoRecord /\ NoTask.pc = "idle"
  BY NextTask DEF GoodTasks, NoTask
<1>4. CASE PutFirst(w)
  <2> DEFINE t == [s EXCEPT !.todo = {f \in FilesOf(s.book) : s.rec[f] # "ready"}]
  <2>1. t \in Tasks /\ Honest(t, cache, urls)
    BY <1>1 DEF Tasks, Honest, FilesOf
  <2>2. NextFile(w, t)
    BY <1>4 DEF PutFirst
  <2> HIDE DEF t
  <2> QED
    BY <1>2, <1>4, <2>1, <2>2 DEF PutFirst
<1>5. CASE PutReady(w) \/ PutFailed(w)
  <2>1. CASE Fails(w) /\ UNCHANGED <<record, late>>
    BY <1>5, <2>1, HonestFails DEF PutReady, PutFailed, disk
  <2> QED
    BY <1>1, <1>2, <1>5, <2>1 DEF PutReady, PutFailed
<1>6. ASSUME NEW t \in Tasks, Step(w, t), t.rec = NoRecord \/ t.rec = record,
             t.pc \notin {"fetch", "urlMeta"}, UNCHANGED <<urls, cache, resume>>,
             UNCHANGED record \/ PutRecord(s.book, s.rec), UNCHANGED late \/ Outlives(w)
      PROVE  AllHonest'
  <2>1. Honest(t, cache, urls)
    BY <1>6 DEF Honest, NoRecord, AllHonest
  <2> QED
    BY <1>6, <2>1, HonestStep DEF Grows
<1>7. CASE PutFinal(w) \/ Get(w)
  <2>1. CASE Return(w)
    <3> DEFINE t == [NoTask EXCEPT !.pc = "next"]
    <3>1. t \in Tasks /\ Step(w, t) /\ t.rec = NoRecord /\ t.pc = "next" /\ Outlives(w)
      BY <2>1, NextTask DEF Return, GoodTasks, NoTask
    <3> HIDE DEF t
    <3> QED
      BY <1>6, <1>7, <3>1 DEF PutFinal, Get, disk
  <2>2. CASE Get(w) /\ Step(w, [s EXCEPT !.pc = "verify", !.rec = record]) /\ UNCHANGED late
    <3> DEFINE t == [s EXCEPT !.pc = "verify", !.rec = record]
    <3>1. t \in Tasks /\ Step(w, t) /\ t.rec = record /\ t.pc = "verify"
      BY <1>1, <2>2 DEF Tasks, Pcs, IInv, Rest_OK
    <3> HIDE DEF t
    <3> QED
      BY <1>6, <2>2, <3>1 DEF Get, disk
  <2> QED
    BY <1>7, <2>1, <2>2 DEF PutFinal, Get
<1>8. CASE PersistProgress(w)
  BY <1>8, HonestRest DEF PersistProgress, queueing, PutRecord, Replaced, AllHonest, Honest, Grows, Complete
<1>9. CASE NextBook(w)
  <2>1. CASE Step(w, NoTask) /\ UNCHANGED late
    BY <1>3, <1>6, <1>9, <2>1 DEF NextBook, disk
  <2>2. CASE Shift(w, bookQueue, queuedBooks)
    <3> DEFINE t == [NoTask EXCEPT !.pc = "get", !.book = Head(bookQueue)]
    <3>1. /\ t.rec = NoRecord /\ t.pc = "get" /\ loop' = [loop EXCEPT ![w] = t]
          /\ UNCHANGED late
      BY <2>2 DEF Shift, NoTask
    <3> HIDE DEF t
    <3>2. \A v \in Loops : loop'[v] = loop[v] \/ loop'[v] = t
      BY <1>1, <3>1
    <3> QED
      BY <1>9, <3>1, <3>2, HonestRest DEF NextBook, disk, Grows
  <2> QED
    BY <1>9, <2>1, <2>2 DEF NextBook
<1>10. CASE LoopRejects(w)
  BY <1>3, <1>6, <1>10 DEF LoopRejects, disk
<1> QED
  BY <1>4, <1>5, <1>7, <1>8, <1>9, <1>10

(* enqueueBook shifts at most one loop, to a task without a record.         *)
LEMMA EnqueueShifts ==
  ASSUME loop \in [Loops -> GoodTasks], NEW b, EnqueueBook(b)
  PROVE  /\ \A w \in Loops : \/ loop'[w] = loop[w]
                             \/ /\ loop'[w].rec = NoRecord
                                /\ loop'[w].pc \notin {"fetch", "urlMeta"}
         /\ UNCHANGED late
<1>1. CASE UNCHANGED <<loop, late>>
  BY <1>1
<1>2. ASSUME NEW w \in Loops, Shift(w, Append(bookQueue, b), queuedBooks \cup {b})
      PROVE  /\ \A v \in Loops : \/ loop'[v] = loop[v]
                                 \/ /\ loop'[v].rec = NoRecord
                                    /\ loop'[v].pc \notin {"fetch", "urlMeta"}
             /\ UNCHANGED late
  <2> DEFINE t == [NoTask EXCEPT !.pc = "get", !.book = Head(Append(bookQueue, b))]
  <2>1. /\ t.rec = NoRecord /\ t.pc = "get" /\ loop' = [loop EXCEPT ![w] = t]
        /\ UNCHANGED late
    BY <1>2 DEF Shift, NoTask
  <2> HIDE DEF t
  <2> QED
    BY <2>1
<1> QED
  BY <1>1, <1>2 DEF EnqueueBook, queueing

LEMMA HonestMessage ==
  ASSUME OnlyCaches, IInv, AllHonest, NEW m \in Msgs, Begin(m) \/ Continue(m)
  PROVE  AllHonest'
<1>1. CASE CachePut(m)
  BY <1>1, HonestRest DEF CachePut, PutRecord, Replaced, queueing, Grows
<1>2. CASE CacheMeta(m)
  <2>1. Grows
    BY <1>2 DEF CacheMeta, Grows
  <2> QED
    BY <1>2, <2>1, EnqueueShifts, HonestRest DEF CacheMeta, IInv, Memory
<1> QED
  BY <1>1, <1>2 DEF OnlyCaches, Begin, Continue, ClearFind, ClearStop, ClearFile, ClearRecord,
                    ClearAllStop, ClearAllCache, ClearAllDb, Sent, At

LEMMA HonestLife ==
  ASSUME IInv, AllHonest,
         \/ Stop \/ Update \/ ResumeList \/ ResumeBook \/ StoreStray
         \/ \E b \in Books : LateProgress(b)
  PROVE  AllHonest'
<1>1. CASE Stop \/ Update
  <2>1. Forget /\ resume'.recs = NoRecord
    BY <1>1 DEF Stop, Update, NoResume
  <2>2. \A w \in Loops : loop'[w].rec = NoRecord /\ loop'[w].pc = "idle"
    BY <2>1 DEF Forget, NoTask
  <2> QED
    BY <2>1, <2>2, HonestRest DEF Forget, disk, NoRecord, Grows
<1>2. CASE ResumeList
  BY <1>2, HonestRest DEF ResumeList, NoResume, NoRecord, disk, queueing, Grows
<1>3. CASE ResumeBook
  <2>1. CASE UNCHANGED <<record, queueing>> /\ resume' = NoResume
    BY <1>3, <2>1, HonestRest DEF ResumeBook, NoResume, NoRecord, queueing, Grows
  <2>2. ASSUME NEW b,
               IF \E f \in FilesOf(b) : resume.recs[f] = "downloading"
               THEN PutRecord(b, [f \in Files |->
                      IF resume.recs[f] = "downloading" THEN "queued" ELSE resume.recs[f]])
               ELSE UNCHANGED record,
               EnqueueBook(b), resume' = Rest(b)
        PROVE  AllHonest'
    <3>1. \A f \in Files : record'[f] = "ready" => record[f] = "ready" \/ resume.recs[f] = "ready"
      BY <2>2 DEF PutRecord, Replaced
    <3>2. \A f \in Files : resume'.recs[f] = "ready" => resume.recs[f] = "ready"
      BY <2>2 DEF Rest, NoResume, NoRecord, IInv, Rest_OK, Resumes
    <3> QED
      BY <1>3, <2>2, <3>1, <3>2, EnqueueShifts, HonestRest DEF ResumeBook, IInv, Memory, Grows
  <2> QED
    BY <1>3, <2>1, <2>2 DEF ResumeBook
<1>4. CASE StoreStray
  <2>1. Grows
    BY <1>4 DEF StoreStray, Grows
  <2> QED
    BY <1>4, <2>1, HonestRest DEF StoreStray, queueing
<1>5. CASE \E b \in Books : LateProgress(b)
  BY <1>5, HonestRest DEF LateProgress, PutRecord, Replaced, queueing, Grows
<1> QED
  BY <1>1, <1>2, <1>3, <1>4, <1>5

(* While the page only caches, whatever fails, stops or is updated: a file *)
(* shown as ready is served from the device, every chunk of it.             *)
THEOREM ReadyServesAlways ==
  ASSUME OnlyCaches
  PROVE  Spec => []ReadyServes
<1>1. Init => AllHonest
  <2> SUFFICES ASSUME Init PROVE AllHonest
    OBVIOUS
  <2>1. \A f \in Files : NoRecord[f] = "none"
    BY DEF NoRecord
  <2>2. record = NoRecord /\ late = NoRecord /\ resume.recs = NoRecord
    BY DEF Init, NoResume
  <2>3. \A w \in Loops : loop[w].rec = NoRecord /\ loop[w].pc = "idle"
    BY DEF Init, NoTask
  <2> QED
    BY <2>1, <2>2, <2>3 DEF AllHonest, Honest
<1>2. ASSUME IInv, AllHonest, [Next]_vars PROVE AllHonest'
  <2>1. CASE UNCHANGED vars
    BY <1>2, <2>1, HonestRest DEF vars, disk, queueing, Grows
  <2>2. CASE \E m \in Msgs : Begin(m) \/ Continue(m)
    BY <1>2, <2>2, HonestMessage
  <2>3. CASE \E w \in Loops : LoopStep(w) \/ PersistProgress(w)
    BY <1>2, <2>3, HonestDownload, HonestReady, HonestWrite DEF LoopStep
  <2> QED
    BY <1>2, <2>1, <2>2, <2>3, HonestLife DEF Next
<1> QED
  BY <1>1, <1>2, HonestFollows, Invariance, PTL DEF Spec

-----------------------------------------------------------------------------
(* Somebody takes on what is shown as on its way                            *)

(* A step accounts for every file it leaves unsettled, if whoever answered *)
(* for the file's book still does, or somebody else does.                   *)
LEMMA AccountedKept ==
  ASSUME Accounted,
         \A f \in Files : Unsettled(f)' => Unsettled(f) \/ Responsible(BookOf[f])',
         \A f \in Files : Unsettled(f)' /\ Responsible(BookOf[f]) => Responsible(BookOf[f])'
  PROVE  Accounted'
BY DEF Accounted

(* A loop keeps its book, or leaves it settled.                             *)
LEMMA AccountedStep ==
  ASSUME IInv, Accounted, NEW w \in Loops, UNCHANGED <<queuedBooks, msg, resume>>,
         \A v \in Loops : v # w => loop'[v] = loop[v],
         UNCHANGED record \/ PutRecord(loop[w].book, loop[w].rec),
         \/ loop'[w].book = loop[w].book
         \/ \A f \in FilesOf(loop[w].book) : ~Unsettled(f)'
  PROVE  Accounted'
<1> PICK b : b = loop[w].book
  OBVIOUS
<1>1. \A c : c # b /\ Responsible(c) => Responsible(c)'
  BY DEF Responsible, At
<1>2. \A f \in Files : BookOf[f] # b => (Unsettled(f)' => Unsettled(f))
  BY DEF PutRecord, Replaced, Unsettled
<1>3. CASE loop'[w].book = b
  <2>1. Responsible(b)'
    BY <1>3 DEF Responsible
  <2> QED
    BY <1>1, <1>2, <2>1, AccountedKept
<1>4. CASE \A f \in FilesOf(b) : ~Unsettled(f)'
  BY <1>1, <1>2, <1>4, AccountedKept DEF FilesOf
<1> QED
  BY <1>3, <1>4

LEMMA AccountedLoop ==
  ASSUME ~DbErrors, IInv, Accounted, NEW w \in Loops, LoopStep(w) \/ PersistProgress(w)
  PROVE  Accounted'
<1> DEFINE s == loop[w]
<1>1. s \in Tasks /\ GoodTask(s) /\ loop \in [Loops -> GoodTasks] /\ Memory
  BY DEF IInv, Memory, GoodTasks
<1> DEFINE Kept == loop'[w].book = s.book /\ \A v \in Loops : v # w => loop'[v] = loop[v]
<1>2. ASSUME NEW t, Step(w, t), t.book = s.book PROVE Kept
  <2>1. loop' = [loop EXCEPT ![w] = t]
    BY <1>2 DEF Step
  <2> QED
    BY <1>1, <1>2, <2>1
<1>3. CASE \/ Verify(w) \/ Meta(w) \/ Open(w) \/ Hit(w) \/ Receive(w) \/ Store(w)
           \/ Fail(w) \/ Mark(w) \/ Downloaded(w) \/ UrlMeta(w)
  <2>1. Kept
    <3>1. ASSUME Verify(w) \/ Meta(w) \/ Open(w) PROVE Kept
      <4>1. CASE Verify(w)
        BY <1>1, <4>1 DEF Verify, Step, Tasks
      <4>2. CASE Meta(w)
        BY <1>1, <4>2 DEF Meta, Step, Tasks
      <4>3. CASE Open(w)
        <5> DEFINE t == [s EXCEPT !.pc = "fetch", !.left = PartsOf(s.file),
                                  !.putting = {}, !.aborted = FALSE, !.detached = FALSE]
        <5>1. t.book = s.book /\ Step(w, t)
          BY <1>1, <4>3 DEF Open, Tasks
        <5> HIDE DEF t
        <5> QED
          BY <1>2, <5>1
      <4> QED
        BY <3>1, <4>1, <4>2, <4>3
    <3>2. ASSUME Hit(w) \/ Receive(w) \/ Store(w) PROVE Kept
      <4>1. ASSUME NEW p,
                   \/ Step(w, [s EXCEPT !.left = @ \ {p}])
                   \/ Step(w, [s EXCEPT !.left = @ \ {p}, !.putting = @ \cup {p}])
                   \/ Step(w, [s EXCEPT !.putting = @ \ {p}])
            PROVE  Kept
        BY <1>1, <4>1 DEF Step, Tasks
      <4> QED
        BY <3>2, <4>1 DEF Hit, Receive, Store
    <3>3. ASSUME Fails(w) \/ \E strays : Straggle(w, strays) PROVE Kept
      <4> DEFINE t == [s EXCEPT !.pc = "failed", !.rec[s.file] = "failed"]
                 u == [s EXCEPT !.pc = "failed", !.rec[s.file] = "failed", !.left = {},
                                !.putting = {}, !.straggles = @ \/ Parts[s.file] > 1]
      <4>1. t.book = s.book /\ u.book = s.book
        BY <1>1 DEF Tasks
      <4>2. Step(w, t) \/ Step(w, u)
        BY <3>3 DEF Fails, Straggle
      <4> HIDE DEF t, u
      <4> QED
        BY <1>2, <4>1, <4>2
    <3>4. ASSUME IsReady(w) PROVE Kept
      <4> DEFINE t == [s EXCEPT !.pc = "ready", !.rec[s.file] = "ready"]
      <4>1. t.book = s.book /\ Step(w, t)
        BY <1>1, <3>4 DEF IsReady, Tasks
      <4> HIDE DEF t
      <4> QED
        BY <1>2, <4>1
    <3>5. ASSUME Fail(w) PROVE Kept
      BY <3>3, <3>5 DEF Fail
    <3>6. ASSUME Mark(w) PROVE Kept
      BY <1>1, <3>3, <3>6 DEF Mark, Step, Tasks
    <3>7. ASSUME Downloaded(w) PROVE Kept
      BY <1>1, <3>4, <3>7 DEF Downloaded, Step, Tasks
    <3>8. ASSUME UrlMeta(w) PROVE Kept
      BY <3>3, <3>4, <3>8 DEF UrlMeta
    <3> QED
      BY <1>3, <3>1, <3>2, <3>5, <3>6, <3>7, <3>8
  <2>2. /\ UNCHANGED <<queuedBooks, msg, resume>>
        /\ UNCHANGED record \/ PutRecord(s.book, s.rec)
    BY <1>3 DEF Verify, Meta, Open, Hit, Receive, Store, Fail, Mark, Downloaded, UrlMeta,
                disk, queue
  <2> QED
    BY <2>1, <2>2, AccountedStep
<1>4. ASSUME s.pc \in {"put", "ready", "failed"}, PutRecord(s.book, s.rec),
             NEW t \in Tasks, t.book = s.book, t.rec = s.rec, t.todo \subseteq FilesOf(t.book),
             \A f \in FilesOf(t.book) : Settled(t, f) \/ f \in t.todo,
             NextFile(w, t), UNCHANGED <<queue, msg, resume>>
      PROVE  Accounted'
  <2>1. t.book \in Books
    BY <1>1, <1>4 DEF GoodTask, Tasks
  <2>2. /\ loop'[w].book = t.book \/ \A f \in FilesOf(t.book) : Settled(t, f)
        /\ \A v \in Loops : v # w => loop'[v] = loop[v]
    BY <1>1, <1>4, <2>1, NextFileOK DEF IInv, Rest_OK, queue
  <2>3. (\A f \in FilesOf(t.book) : Settled(t, f)) => \A f \in FilesOf(s.book) : ~Unsettled(f)'
    BY <1>4 DEF PutRecord, Replaced, FilesOf, Settled, Unsettled
  <2> QED
    BY <1>4, <2>2, <2>3, AccountedStep DEF queue
<1>5. CASE PutFirst(w)
  <2> DEFINE t == [s EXCEPT !.todo = {f \in FilesOf(s.book) : s.rec[f] # "ready"}]
  <2>1. /\ t \in Tasks /\ t.book = s.book /\ t.rec = s.rec /\ t.todo \subseteq FilesOf(t.book)
        /\ \A f \in FilesOf(t.book) : Settled(t, f) \/ f \in t.todo
    BY <1>1 DEF Tasks, FilesOf, Settled
  <2>2. NextFile(w, t) /\ s.pc = "put"
    BY <1>5 DEF PutFirst, Running
  <2> HIDE DEF t
  <2> QED
    BY <1>4, <1>5, <2>1, <2>2 DEF PutFirst
<1>6. CASE PutReady(w) \/ PutFailed(w)
  BY <1>1, <1>4, <1>6 DEF PutReady, PutFailed, Running, GoodTask
<1>7. ASSUME NEW t, Step(w, t), \A f \in FilesOf(s.book) : ~Unsettled(f)',
             UNCHANGED <<queue, msg, resume>>,
             UNCHANGED record \/ PutRecord(s.book, s.rec)
      PROVE  Accounted'
  <2>1. loop' = [loop EXCEPT ![w] = t]
    BY <1>7 DEF Step
  <2> QED
    BY <1>1, <1>7, <2>1, AccountedStep DEF queue
<1>8. CASE PutFinal(w)
  <2>1. \A f \in FilesOf(s.book) : ~Unsettled(f)'
    BY <1>1, <1>8 DEF PutFinal, Running, GoodTask, PutRecord, Replaced, FilesOf, Unsettled
  <2> QED
    BY <1>7, <1>8, <2>1 DEF PutFinal, Return
<1>9. CASE Get(w)
  <2>1. CASE Step(w, [s EXCEPT !.pc = "verify", !.rec = record])
    <3> DEFINE t == [s EXCEPT !.pc = "verify", !.rec = record]
    <3>1. t.book = s.book /\ Step(w, t)
      BY <1>1, <2>1 DEF Tasks
    <3> HIDE DEF t
    <3>2. Kept
      BY <1>2, <3>1
    <3> QED
      BY <1>9, <3>2, AccountedStep DEF Get, disk, queue
  <2>2. CASE ~Exists(s.book) /\ Return(w)
    <3>1. \A f \in FilesOf(s.book) : ~Unsettled(f)'
      BY <1>9, <2>2 DEF Get, Exists, Unsettled, disk
    <3> QED
      BY <1>7, <1>9, <2>2, <3>1 DEF Get, Return, disk
  <2> QED
    BY <1>9, <2>1, <2>2 DEF Get
<1>10. CASE PersistProgress(w)
  BY <1>10, AccountedStep DEF PersistProgress, queueing
<1>11. CASE NextBook(w)
  <2>1. s.book = NoBook
    BY <1>1, <1>11 DEF NextBook, Running, GoodTask
  <2>2. CASE processingQueue' = FALSE /\ Step(w, NoTask) /\ UNCHANGED <<bookQueue, queuedBooks, activeBookId>>
    <3>1. NoTask.book = NoBook
      BY DEF NoTask
    <3>2. Kept
      BY <1>2, <2>1, <2>2, <3>1
    <3> QED
      BY <1>11, <2>2, <3>2, AccountedStep DEF NextBook, disk
  <2>3. CASE bookQueue # <<>> /\ Shift(w, bookQueue, queuedBooks)
    <3>1. \A v \in Busy : v = w
      BY <1>1, <1>11 DEF NextBook, Running, Memory, OneBook, Busy
    <3>2. loop'[w].book = Head(bookQueue) /\ queuedBooks' = queuedBooks \ {Head(bookQueue)}
      BY <1>1, <2>3, <3>1, ShiftOK DEF IInv, Rest_OK, QueueAgrees
    <3>3. \A v \in Loops : v # w => loop'[v] = loop[v]
      BY <2>3 DEF Shift
    <3>4. \A b \in Books : Responsible(b) => Responsible(b)'
      BY <1>11, <2>1, <3>2, <3>3, ConstantsAssumption DEF NextBook, Responsible, At
    <3> QED
      BY <1>11, <3>4, AccountedKept, ConstantsAssumption DEF NextBook, disk, Unsettled
  <2> QED
    BY <1>11, <2>2, <2>3 DEF NextBook
<1> QED
  BY <1>3, <1>5, <1>6, <1>8, <1>9, <1>10, <1>11 DEF LoopStep, LoopRejects

(* Whoever answered for a book when a message or a resumption goes on.      *)
LEMMA EnqueueAnswers ==
  ASSUME IInv, NEW b \in Books, EnqueueBook(b)
  PROVE  \A c \in Books :
           c = b \/ c \in queuedBooks \/ (\E w \in Loops : loop[w].book = c)
           => c \in queuedBooks' \/ \E w \in Loops : loop'[w].book = c
BY EnqueueOK DEF IInv, Rest_OK

LEMMA AccountedMessage ==
  ASSUME ~DbErrors, IInv, Accounted, NEW m \in Msgs, Begin(m) \/ Continue(m)
  PROVE  Accounted'
<1>1. msg \in [Msgs -> Calls] /\ Target[m] \in Books /\ \A f \in Files : BookOf[f] \in Books
  BY ConstantsAssumption DEF IInv, Rest_OK
<1>3. CASE CachePut(m)
  <2>1. CASE DbErrors
    BY <2>1
  <2>2. CASE PutRecord(Target[m], [f \in Files |-> "queued"]) /\ Goto(m, "meta")
    <3>1. msg'[m].pc = "meta" /\ \A k \in Msgs : k # m => msg'[k] = msg[k]
      BY <1>1, <2>2 DEF Goto, Calls
    <3>2. At(m, "cache", "meta")' /\ ~At(m, "cache", "meta")
      BY <1>3, <3>1 DEF CachePut, Sent, At
    <3>3. Responsible(Target[m])'
      BY <3>2 DEF Responsible
    <3>4. \A b : Responsible(b) => Responsible(b)'
      BY <1>3, <3>1 DEF CachePut, Sent, At, Responsible, queueing
    <3>5. \A f \in Files : BookOf[f] # Target[m] => (Unsettled(f)' => Unsettled(f))
      BY <2>2 DEF PutRecord, Replaced, Unsettled
    <3> QED
      BY <3>3, <3>4, <3>5, AccountedKept
  <2> QED
    BY <1>3, <2>1, <2>2 DEF CachePut
<1>4. CASE CacheMeta(m)
  <2>1. \A k \in Msgs : k # m => msg'[k] = msg[k]
    BY <1>1, <1>4 DEF CacheMeta, Goto
  <2>2. \A c \in Books :
           c = Target[m] \/ c \in queuedBooks \/ (\E w \in Loops : loop[w].book = c)
           => c \in queuedBooks' \/ \E w \in Loops : loop'[w].book = c
    BY <1>1, <1>4, EnqueueAnswers DEF CacheMeta
  <2>3. \A c \in Books : Responsible(c) => Responsible(c)'
    BY <1>4, <2>1, <2>2 DEF CacheMeta, Responsible, At
  <2> QED
    BY <1>1, <1>4, <2>3, AccountedKept DEF CacheMeta, Unsettled
<1>5. CASE ClearFind(m)
  <2>1. \A k \in Msgs : k # m => msg'[k] = msg[k]
    BY <1>1, <1>5 DEF ClearFind, Goto
  <2>2. \A b : Responsible(b) => Responsible(b)'
    BY <1>5, <2>1 DEF ClearFind, Sent, At, Responsible, queueing
  <2> QED
    BY <1>5, <2>2, AccountedKept DEF ClearFind, disk, Unsettled
<1>6. ASSUME \A w \in Loops : loop'[w].book = loop[w].book,
             ClearStop(m) \/ ClearAllStop(m)
      PROVE  Accounted'
  <2>1. msg'[m].pc \in {"files", "record", "cache"} /\ \A k \in Msgs : k # m => msg'[k] = msg[k]
    BY <1>1, <1>6 DEF ClearStop, ClearAllStop, Goto, Calls
  <2>2. CASE ClearStop(m)
    <3>1. At(m, "clear", "files")' \/ At(m, "clear", "record")'
      BY <1>1, <2>2 DEF ClearStop, Goto, At, Calls
    <3>2. Responsible(Target[m])'
      BY <3>1 DEF Responsible
    <3>3. \A b : b # Target[m] /\ Responsible(b) => Responsible(b)'
      BY <1>6, <2>1, <2>2 DEF ClearStop, Responsible, At
    <3> QED
      BY <2>2, <3>2, <3>3, AccountedKept DEF ClearStop, disk, Unsettled
  <2>3. CASE ClearAllStop(m)
    <3>1. At(m, "clearAll", "cache")'
      BY <1>1, <2>3 DEF ClearAllStop, Goto, Sent, At, Calls
    <3>2. \A b : Responsible(b)'
      BY <3>1 DEF Responsible
    <3> QED
      BY <2>3, <3>2, AccountedKept DEF ClearAllStop, disk, Unsettled
  <2> QED
    BY <1>6, <2>2, <2>3
<1>7. CASE ClearFile(m)
  <2>1. /\ msg'[m].pc \in {"files", "record"} /\ \A k \in Msgs : k # m => msg'[k] = msg[k]
    BY <1>1, <1>7 DEF ClearFile, Calls
  <2>2. \A b : Responsible(b) => Responsible(b)'
    BY <1>7, <2>1 DEF ClearFile, At, Responsible, queueing
  <2> QED
    BY <1>7, <2>2, AccountedKept DEF ClearFile, Unsettled
<1>8. CASE ClearRecord(m)
  <2>1. PutRecord(Target[m], NoRecord) /\ \A k \in Msgs : k # m => msg'[k] = msg[k]
    BY <1>1, <1>8 DEF ClearRecord, Goto
  <2>2. \A b : b # Target[m] /\ Responsible(b) => Responsible(b)'
    BY <1>8, <2>1 DEF ClearRecord, At, Responsible, queueing
  <2>3. \A f \in Files : /\ BookOf[f] = Target[m] => ~Unsettled(f)'
                         /\ Unsettled(f)' => Unsettled(f)
    BY <2>1 DEF PutRecord, Replaced, NoRecord, Unsettled
  <2> QED
    BY <2>2, <2>3, AccountedKept
<1>9. CASE ClearAllCache(m)
  <2>1. At(m, "clearAll", "db")'
    BY <1>1, <1>9 DEF ClearAllCache, Goto, At, Calls
  <2>2. \A b : Responsible(b)'
    BY <2>1 DEF Responsible
  <2> QED
    BY <1>9, <2>2, AccountedKept DEF ClearAllCache, Unsettled
<1>10. CASE ClearAllDb(m)
  BY <1>10 DEF ClearAllDb, Accounted, Unsettled, NoRecord
<1>11. ClearStop(m) \/ ClearAllStop(m) => \A w \in Loops : loop'[w].book = loop[w].book
  BY DEF ClearStop, ClearAllStop, Aborted, IInv, Memory, GoodTasks, Tasks
<1> QED
  BY <1>3, <1>4, <1>5, <1>6, <1>7, <1>8, <1>9, <1>10, <1>11 DEF Begin, Continue

(* What may still be written of a book that the loop has left is settled.   *)
LateSettled == \A f \in Files : late[f] \in {"none", "ready", "failed"}

LEMMA LateStep ==
  ASSUME ~DbErrors, IInv, LateSettled, [Next]_vars
  PROVE  LateSettled'
<1>1. ASSUME NEW w \in Loops, Outlives(w), \A f \in FilesOf(loop[w].book) : Settled(loop[w], f)
      PROVE  LateSettled'
  BY <1>1 DEF Outlives, Replaced, LateSettled, Settled, FilesOf
<1>2. UNCHANGED late => LateSettled'
  BY DEF LateSettled
<1>3. ASSUME NEW w \in Loops, LoopStep(w) \/ PersistProgress(w)
      PROVE  LateSettled'
  <2> DEFINE s == loop[w]
  <2>1. s \in Tasks /\ GoodTask(s)
    BY DEF IInv, Memory, GoodTasks
  <2>2. CASE Get(w) \/ PutFirst(w)
    <3>1. ~s.straggles
      BY <2>1, <2>2 DEF Get, PutFirst, Running, GoodTask
    <3> QED
      BY <1>2, <2>2, <3>1 DEF Get, PutFirst, NextFile, Return, Outlives
  <2>3. CASE PutReady(w) \/ PutFailed(w)
    <3>1. NextFile(w, s) /\ \A f \in FilesOf(s.book) : Settled(s, f) \/ f \in s.todo
      BY <2>1, <2>3 DEF PutReady, PutFailed, Running, GoodTask
    <3>2. UNCHANGED late \/ (s.todo = {} /\ Outlives(w))
      BY <3>1 DEF NextFile, Return
    <3> QED
      BY <1>1, <1>2, <3>1, <3>2
  <2>4. CASE PutFinal(w)
    BY <1>1, <2>1, <2>4 DEF PutFinal, Running, Return, GoodTask, Settled
  <2>5. CASE NextBook(w)
    BY <1>2, <2>5 DEF NextBook, Shift
  <2> QED
    BY <1>2, <1>3, <2>2, <2>3, <2>4, <2>5
    DEF LoopStep, LoopRejects, PersistProgress, Verify, Mark, Meta, Open, Hit, Receive,
        Store, Fail, Downloaded, UrlMeta, queueing
<1>4. ASSUME NEW b, EnqueueBook(b) PROVE LateSettled'
  BY <1>2, <1>4 DEF EnqueueBook, Shift, queueing
<1>5. ASSUME NEW m \in Msgs, Begin(m) \/ Continue(m) PROVE LateSettled'
  <2>1. CASE CacheMeta(m)
    BY <1>4, <2>1 DEF CacheMeta
  <2> QED
    BY <1>2, <1>5, <2>1 DEF Begin, Continue, CachePut, ClearFind, ClearStop, ClearFile,
                            ClearRecord, ClearAllStop, ClearAllCache, ClearAllDb, queueing
<1>6. CASE ResumeBook
  BY <1>2, <1>4, <1>6 DEF ResumeBook, queueing
<1>7. CASE Stop \/ Update
  BY <1>7 DEF Stop, Update, Forget, NoRecord, LateSettled
<1>8. CASE StoreStray \/ ResumeList \/ \E b \in Books : LateProgress(b)
  BY <1>2, <1>8 DEF StoreStray, ResumeList, LateProgress, queueing
<1> QED
  BY <1>2, <1>3, <1>5, <1>6, <1>7, <1>8 DEF Next, vars, queueing

LEMMA AccountedLife ==
  ASSUME ~DbErrors, MaxStops = 0, IInv, LateSettled, Accounted,
         \/ Stop \/ Update \/ ResumeList \/ ResumeBook \/ StoreStray
         \/ \E b \in Books : LateProgress(b)
  PROVE  Accounted'
<1>1. ~Stop
  BY DEF Stop, IInv, Rest_OK
<1>2. CASE Update
  <2>1. \A b : Responsible(b)'
    BY <1>2 DEF Update, Responsible
  <2> QED
    BY <1>2, <2>1, AccountedKept DEF Update, Forget, disk, Unsettled
<1>3. CASE ResumeList
  <2>1. \A f \in Files : Unsettled(f) => BookOf[f] \in resume'.todo
    BY <1>3, ConstantsAssumption DEF ResumeList, FilesOf
  <2> QED
    BY <1>3, <2>1 DEF ResumeList, disk, Accounted, Unsettled, Responsible
<1>4. CASE ResumeBook
  <2>1. PICK b \in resume.todo :
          /\ IF \E f \in FilesOf(b) : resume.recs[f] = "downloading"
             THEN PutRecord(b, [f \in Files |->
                    IF resume.recs[f] = "downloading" THEN "queued" ELSE resume.recs[f]])
             ELSE UNCHANGED record
          /\ EnqueueBook(b) /\ resume' = Rest(b)
    BY <1>4 DEF ResumeBook
  <2>2. b \in Books /\ resume \in Resumes
    BY DEF IInv, Rest_OK, Resumes
  <2>3. \A c \in Books :
           c = b \/ c \in queuedBooks \/ (\E w \in Loops : loop[w].book = c)
           => c \in queuedBooks' \/ \E w \in Loops : loop'[w].book = c
    BY <2>1, <2>2, EnqueueAnswers
  <2>4. resume.todo \ {b} \subseteq resume'.todo
    BY <2>1, <2>2 DEF Rest, Resumes
  <2>5. \A c \in Books : c = b \/ Responsible(c) => Responsible(c)'
    BY <1>4, <2>3, <2>4 DEF ResumeBook, Responsible, At
  <2>6. \A f \in Files : BookOf[f] # b => (Unsettled(f)' => Unsettled(f))
    BY <2>1 DEF PutRecord, Replaced, Unsettled
  <2> QED
    BY <2>2, <2>5, <2>6, AccountedKept, ConstantsAssumption
<1>5. CASE StoreStray
  BY <1>5 DEF StoreStray, queueing, Accounted, Unsettled, Responsible, At
<1>6. ASSUME NEW b \in Books, LateProgress(b) PROVE Accounted'
  <2>1. \A f \in Files : Unsettled(f)' => Unsettled(f)
    BY <1>6 DEF LateProgress, PutRecord, Replaced, Unsettled, LateSettled
  <2>2. \A c : Responsible(c) => Responsible(c)'
    BY <1>6 DEF LateProgress, Responsible, At, queueing
  <2> QED
    BY <2>1, <2>2, AccountedKept
<1> QED
  BY <1>1, <1>2, <1>3, <1>4, <1>5, <1>6

(* Unless the browser stops the worker or IndexedDB fails: no file is ever *)
(* shown as queued or downloading with nobody left to take it on, whatever *)
(* is cached, cleared or updated in between.                                *)
THEOREM AccountedAlways ==
  ASSUME ~DbErrors, MaxStops = 0
  PROVE  Spec => []Accounted
<1>1. Init => Accounted /\ LateSettled
  BY DEF Init, Accounted, Unsettled, LateSettled, NoRecord
<1>2. ASSUME IInv, LateSettled, Accounted, [Next]_vars PROVE Accounted'
  <2>1. CASE UNCHANGED vars
    BY <1>2, <2>1 DEF vars, disk, queueing, Accounted, Unsettled, Responsible, At
  <2>2. CASE \E m \in Msgs : Begin(m) \/ Continue(m)
    BY <1>2, <2>2, AccountedMessage
  <2>3. CASE \E w \in Loops : LoopStep(w) \/ PersistProgress(w)
    BY <1>2, <2>3, AccountedLoop
  <2> QED
    BY <1>2, <2>1, <2>2, <2>3, AccountedLife DEF Next
<1> QED
  BY <1>1, <1>2, LateStep, Invariance, PTL DEF Spec
=============================================================================
