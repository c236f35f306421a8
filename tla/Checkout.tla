------------------------------ MODULE Checkout ------------------------------
(***************************************************************************)
(* Checking books out, returning them and marking them read                *)
(* (library/user-library.service.ts, called by library.service.ts), over   *)
(* the offline cache of OfflineDownload.                                   *)
(*                                                                         *)
(* A checkout writes a user_library row and then queues the downloads; a   *)
(* return closes the row and then removes them; a read mark rewrites the   *)
(* row of the copy the user holds or last held.  No transaction spans two  *)
(* awaits, so requests about one book interleave with each other, with the *)
(* download loop and with a restart of the process.                        *)
(***************************************************************************)
EXTENDS OfflineDownload

CONSTANTS
  Readers,   \* requests that mark a book read or unread
  About,     \* the book a read-mark request is about
  Together   \* sets of kinds of requests about one book that may overlap

(* Marking unread is one database call: a mark under way marks read.        *)
Kind(r) == IF r \in Reqs THEN Op[r] ELSE "read"
Book(r) == IF r \in Reqs THEN Target[r] ELSE About[r]
Patrons == Readers \cup {r \in Reqs : Op[r] \in {"queue", "remove"}}

ASSUME CheckoutAssumption ==
  /\ Readers \cap Reqs = {}
  /\ About \in [Readers -> Books]
  /\ Together \subseteq SUBSET {"queue", "remove", "read", "unread"}

VARIABLES
  shelf,   \* table user_library of one user, in the order of checkedOutAt
  lib      \* locals of each request in UserLibraryService

all == <<vars, shelf, lib>>

Row(b, out, read) == [book |-> b, out |-> out, read |-> read]
Unmarked == [out |-> FALSE, read |-> FALSE]
Nothing  == [pc |-> "new", row |-> 0, copy |-> Unmarked]

CheckoutInit == Init /\ shelf = <<>> /\ lib = [r \in Patrons |-> Nothing]

RowsFor(b) == {i \in DOMAIN shelf : shelf[i].book = b}
Active(b)  == {i \in RowsFor(b) : shelf[i].out}
Latest(S)  == CHOOSE i \in S : \A j \in S : j <= i

UnderWay(r) ==
  \/ lib[r].pc \in {"save", "latest", "create"}
  \/ lib[r].pc = "downloads" /\ r \in Reqs /\ req[r].pc # "done"

(* A request that arrives now meets only requests it may overlap.           *)
Arrives(r, kind) ==
  /\ phase = "up" /\ lib[r].pc = "new"
  /\ (r \in Readers /\ kind \in {"read", "unread"}) \/ (r \in Reqs /\ kind = Op[r])
  /\ \A s \in Patrons \ {r} :
       Book(s) = Book(r) /\ UnderWay(s) => {Kind(s), kind} \in Together

In(r, kind, pc) == phase = "up" /\ lib[r].pc = pc /\ Kind(r) = kind
Then(r, pc)     == lib' = [lib EXCEPT ![r].pc = pc]
Holding(r, i)   ==
  lib' = [lib EXCEPT ![r] = [pc |-> "save", row |-> i,
                             copy |-> [out |-> shelf[i].out, read |-> shelf[i].read]]]

(* repo.save of an entity found earlier writes back every column of it.     *)
WriteBack(r, entity) ==
  shelf' = [shelf EXCEPT ![lib[r].row] = Row(@.book, entity.out, entity.read)]

-----------------------------------------------------------------------------
(* Mutant: the row the user already holds is not looked for.                *)
CheckoutFind_Blind(r) == Arrives(r, "queue") /\ Then(r, "save") /\ UNCHANGED <<vars, shelf>>

(* The book has media (else nothing happens): is it already checked out?    *)
CheckoutFind(r) ==
  /\ Arrives(r, "queue")
  /\ \/ Active(Book(r)) = {} /\ Then(r, "save")
     \/ \E i \in Active(Book(r)) :
          lib' = [lib EXCEPT ![r].pc = "downloads", ![r].row = i]
  /\ UNCHANGED <<vars, shelf>>

CheckoutSave(r) ==
  /\ In(r, "queue", "save")
  /\ shelf' = Append(shelf, Row(Book(r), TRUE, FALSE))
  /\ Then(r, "downloads")
  /\ UNCHANGED vars

ReturnFind(r) ==
  /\ Arrives(r, "remove")
  /\ \/ \E i \in Active(Book(r)) : Holding(r, i)
     \/ Active(Book(r)) = {} /\ Then(r, "downloads")
  /\ UNCHANGED <<vars, shelf>>

(* A returned book counts as read.                                          *)
ReturnSave(r) ==
  /\ In(r, "remove", "save")
  /\ WriteBack(r, [lib[r].copy EXCEPT !.out = FALSE, !.read = TRUE])
  /\ Then(r, "downloads")
  /\ UNCHANGED vars

(* setReadStatus(true): the copy that is out, else the last one, else a new *)
(* row that is not out.                                                     *)
ReadFind(r) ==
  /\ Arrives(r, "read")
  /\ LET found == Active(Book(r))
     IN  IF found = {} THEN Then(r, "latest") ELSE Holding(r, Latest(found))
  /\ UNCHANGED <<vars, shelf>>

ReadLatest(r) ==
  /\ In(r, "read", "latest")
  /\ LET found == RowsFor(Book(r))
     IN  IF found = {} THEN Then(r, "create") ELSE Holding(r, Latest(found))
  /\ UNCHANGED <<vars, shelf>>

ReadSave(r) ==
  /\ In(r, "read", "save")
  /\ WriteBack(r, [lib[r].copy EXCEPT !.read = TRUE])
  /\ Then(r, "done")
  /\ UNCHANGED vars

ReadCreate(r) ==
  /\ In(r, "read", "create")
  /\ shelf' = Append(shelf, Row(Book(r), FALSE, TRUE))
  /\ Then(r, "done")
  /\ UNCHANGED vars

Unread(r) ==
  /\ Arrives(r, "unread")
  /\ shelf' = [i \in DOMAIN shelf |->
                 IF shelf[i].book = Book(r) THEN [shelf[i] EXCEPT !.read = FALSE]
                 ELSE shelf[i]]
  /\ Then(r, "done")
  /\ UNCHANGED vars

-----------------------------------------------------------------------------
LibraryStep(r) ==
  \/ CheckoutFind(r) \/ CheckoutSave(r) \/ ReturnFind(r) \/ ReturnSave(r)
  \/ ReadFind(r) \/ ReadLatest(r) \/ ReadSave(r) \/ ReadCreate(r) \/ Unread(r)

(* checkoutBook and returnBook go on to the downloads when the row is saved.*)
DownloadStep(r) ==
  /\ r \in Patrons => lib[r].pc = "downloads"
  /\ Begin(r) \/ Continue(r)
  /\ UNCHANGED <<shelf, lib>>

Restart ==
  /\ Crash
  /\ lib' = [r \in Patrons |->
               IF UnderWay(r) THEN [Nothing EXCEPT !.pc = "lost"] ELSE lib[r]]
  /\ UNCHANGED shelf

CheckoutNext ==
  \/ \E r \in Patrons : LibraryStep(r)
  \/ \E r \in Reqs : DownloadStep(r)
  \/ (\E w \in Loops : LoopStep(w)) /\ UNCHANGED <<shelf, lib>>
  \/ (BootFind \/ Resume \/ Destroy) /\ UNCHANGED <<shelf, lib>>
  \/ Restart

CheckoutSpec == CheckoutInit /\ [][CheckoutNext]_all

-----------------------------------------------------------------------------
(* What the library page shows of a book's downloads (getStatusMap).        *)

(* Mutant: a failed file does not count when the others are ready.          *)
Summary_Tolerant(b) ==
  LET st == {rows[id].status : id \in RowsOf(b)}
  IN  IF st = {} THEN "not_started"
      ELSE IF "ready" \in st /\ st \subseteq {"ready", "failed"} THEN "ready"
      ELSE IF "failed" \in st THEN "failed"
      ELSE IF "downloading" \in st THEN "downloading" ELSE "queued"

Summary(b) ==
  LET st == {rows[id].status : id \in RowsOf(b)}
  IN  IF st = {} THEN "not_started"
      ELSE IF st = {"ready"} THEN "ready"
      ELSE IF "failed" \in st THEN "failed"
      ELSE IF "downloading" \in st THEN "downloading" ELSE "queued"

(* No request about b is under way and none was lost with the process.      *)
Settled(b) ==
  \A r \in Patrons : Book(r) = b => ~UnderWay(r) /\ lib[r].pc # "lost"

Copies == [book : Books, out : BOOLEAN, read : BOOLEAN]

CheckoutTypeOK ==
  /\ shelf \in Seq(Copies)
  /\ lib \in [Patrons ->
       [pc : {"new", "save", "latest", "create", "downloads", "done", "lost"},
        row : {0} \cup DOMAIN shelf, copy : [out : BOOLEAN, read : BOOLEAN]]]

(* The user holds at most one copy of a book, whatever stale row a request *)
(* writes back: a second one would survive the next return.  (And each      *)
(* request refers to a row that there is.)                                  *)
OneCopyOut == CheckoutTypeOK /\ \A b \in Books : Cardinality(Active(b)) <= 1

(* Downloads exist only for books that are checked out: a return leaves     *)
(* nothing behind, however it meets the loop, the resumed downloads and     *)
(* the read marks, unless the process ended half way through it.            *)
CachedOnlyWhileOut ==
  \A b \in Books : Settled(b) /\ RowsOf(b) # {} => Active(b) # {}

(* A checkout of a book that was already out: it queues the files again.    *)
Again(r) == Kind(r) = "queue" /\ lib[r].row # 0

(* A book shown as ready has every one of its files on the server's disk,  *)
(* unless one was evicted (this is for EvictOldest = FALSE) or the book was *)
(* checked out again while out: queueBook then removes a file that the loop *)
(* has just renamed into place and goes on to mark ready.                  *)
ReadyIsComplete ==
  \A b \in Books :
    /\ Settled(b) /\ Summary(b) = "ready"
    /\ \A r \in Patrons : Book(r) = b => ~Again(r)
    => {f \in Files : BookOf[f] = b} \subseteq media
=============================================================================
