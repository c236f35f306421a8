----------------------------- MODULE LibraryPage -----------------------------
(***************************************************************************)
(* The My Library page (app.service.ts) of one user on one device: the     *)
(* list it polls while the server downloads, the detail modal with its     *)
(* Check out / Return button, and the button that keeps a copy of the book *)
(* on the device, which the service worker does when told.                 *)
(*                                                                         *)
(* No request is cancelled and no answer is matched with what the page has *)
(* come to show meanwhile: every answer is simply rendered.  The page and  *)
(* the worker exchange messages, which come in order; what the worker does *)
(* with them one by one is in DeviceCache; here it is a queue of books, one *)
(* of which it fetches.                                                     *)
(***************************************************************************)
EXTENDS Naturals, Sequences, FiniteSets

CONSTANTS
  Books, None,
  Requests,    \* requests that may be in flight at once
  MaxClicks,   \* bound on clicks
  MaxMail,     \* bound on messages under way when the worker tells of progress
  Ordered      \* whether answers come in the order the server gave them

ASSUME PageAssumption ==
  /\ None \notin Books \cup Requests
  /\ MaxClicks \in Nat /\ MaxMail \in Nat /\ Ordered \in BOOLEAN

(* A book as the server has it: in, or out with its download going on or    *)
(* done.  These rules of the server are those of Checkout.                  *)
Status == {"in", "loading", "done"}
AllIn  == [b \in Books |-> "in"]

VARIABLES
  status,   \* the server's state of each book
  modal,    \* detailModal.dataset.bookId
  detail,   \* currentDetail: a book and its status
  list,     \* state.myLibrary
  poll,     \* whether myLibraryRefreshTimer is set
  kept,     \* deviceOfflineByBookId says queued, downloading or ready
  refused,  \* books opted out of the device cache
  device,   \* books of which the worker's record says queued, downloading or ready
  bookQueue, activeBookId,  \* its queue, in any order, and the book it fetches
  orders,   \* messages from the page to the worker
  mail,     \* messages from the worker to the page
  req,      \* requests in flight
  line,     \* those the server has answered, in order
  clicks,
  waited,   \* history: the user clicked only when nothing was under way
  good,     \* history: no request has failed
  spared    \* history: books that the worker was fetching when it was told to clear them,
            \* until it is told anything else of them

page == <<modal, detail, list, poll, kept, refused>>
loop == <<bookQueue, activeBookId>>
worker == <<device, loop, orders, mail>>
hist == <<waited, good, spared>>
pageVars == <<status, page, worker, req, line, clicks, hist>>

NoDetail == [book |-> None, status |-> "in"]
Free == [kind |-> "free", book |-> None, body |-> AllIn]
Call(kind, b) == [kind |-> kind, book |-> b, body |-> AllIn]

(* All books are out: one that is not is not listed, nor opened.            *)
PageInit ==
  /\ status = [b \in Books |-> "done"]
  /\ modal = None /\ detail = NoDetail /\ list = status /\ poll = FALSE
  /\ kept = {} /\ refused = {} /\ device = {}
  /\ bookQueue = {} /\ activeBookId = None
  /\ orders = <<>> /\ mail = <<>>
  /\ req = [q \in Requests |-> Free] /\ line = <<>>
  /\ clicks = 0 /\ waited = TRUE /\ good = TRUE /\ spared = {}

InFlight(kinds, books) == {q \in Requests : req[q].kind \in kinds /\ req[q].book \in books}

(* Which of those that are free is taken makes no difference.               *)
Send(kind, b) ==
  LET free == InFlight({"free"}, {None})
  IN  free # {} /\ req' = [req EXCEPT ![CHOOSE q \in free : TRUE] = Call(kind, b)]

Dialogue == InFlight({"detail", "again", "refresh", "read", "checkout", "return"}, Books)
Quiet    == /\ orders = <<>> /\ mail = <<>> /\ activeBookId = None
            /\ \A q \in Requests : req[q] = Free

Answered(q) == \E i \in DOMAIN line : line[i] = q

(* sendSwMessage: an order about some books, and what waits for its answer. *)
Tell(kind, books, q) == orders' = Append(orders, [kind |-> kind, books |-> books, query |-> q])

-----------------------------------------------------------------------------
(* The user                                                                 *)

Clicks == clicks < MaxClicks /\ clicks' = clicks + 1

(* openBookDetail, of a listed book.  Closing the modal keeps its state.    *)
Open(b) ==
  /\ list[b] # "in" /\ Clicks /\ Send("detail", b)
  /\ modal' = b /\ detail' = NoDetail
  /\ waited' = (waited /\ Dialogue = {})
  /\ UNCHANGED <<status, list, poll, kept, refused, worker, line, good, spared>>

(* What the button does: before the detail is there it says "Check out".    *)
Action == IF detail.status # "in" THEN "return" ELSE "checkout"

(* toggleCheckoutStatus                                                     *)
ToggleCheckout ==
  /\ modal # None /\ Clicks /\ Send(Action, modal)
  /\ waited' = (waited /\ Dialogue = {})
  /\ UNCHANGED <<status, page, worker, line, good, spared>>

(* toggleReadStatus                                                         *)
ToggleRead ==
  /\ modal # None /\ Clicks /\ Send("read", modal)
  /\ waited' = (waited /\ Dialogue = {})
  /\ UNCHANGED <<status, page, worker, line, good, spared>>

(* refreshBookDetail: the metadata of the book are fetched anew.            *)
RefreshDetail ==
  /\ modal # None /\ Clicks /\ Send("refresh", modal)
  /\ waited' = (waited /\ Dialogue = {})
  /\ UNCHANGED <<status, page, worker, line, good, spared>>

(* Start, or retry, the device download (startDeviceOfflineCacheForBook).   *)
StartDevice(b) ==
  /\ b \notin kept
  /\ refused' = refused \ {b}
  /\ \/ /\ InFlight({"manifest"}, {b}) = {}
        /\ kept' = kept \cup {b} /\ Send("manifest", b)
     \/ InFlight({"manifest"}, {b}) # {} /\ UNCHANGED <<kept, req>>
  /\ UNCHANGED <<orders, waited>>

(* Cancel it, or remove the copy: nothing tells a manifest request.         *)
ClearDevice(b) ==
  /\ b \in kept
  /\ refused' = refused \cup {b} /\ kept' = kept \ {b} /\ Tell("clear", {b}, None)
  /\ waited' = (waited /\ InFlight({"manifest"}, {b}) = {})
  /\ UNCHANGED req

ToggleDevice ==
  /\ modal # None /\ detail.status # "in" /\ Clicks
  /\ StartDevice(detail.book) \/ ClearDevice(detail.book)
  /\ UNCHANGED <<status, modal, detail, list, poll, device, loop, mail, line, good, spared>>

(* The interval of scheduleMyLibraryRefresh: loadMyLibrary.                 *)
Poll ==
  /\ poll /\ Send("list", None)
  /\ UNCHANGED <<status, page, worker, line, clicks, hist>>

-----------------------------------------------------------------------------
(* The server                                                               *)

(* getLibraryDetail, refreshMetadata, setReadStatus, getMyLibrary,          *)
(* getOfflineManifest                                                       *)
Look(q) ==
  req[q].kind \in {"detail", "refresh", "read", "list", "manifest"} /\ UNCHANGED status

(* checkoutBook, which queues the downloads, and returnBook                 *)
CheckOut(q) ==
  /\ req[q].kind = "checkout"
  /\ status' = [status EXCEPT ![req[q].book] = IF @ = "in" THEN "loading" ELSE @]

TakeBack(q) ==
  /\ req[q].kind = "return"
  /\ status' = [status EXCEPT ![req[q].book] = "in"]

(* The answer tells how things are when it is made.                         *)
Serve(q) ==
  /\ ~Answered(q)
  /\ Look(q) \/ CheckOut(q) \/ TakeBack(q)
  /\ req' = [req EXCEPT ![q].body = status']
  /\ line' = Append(line, q)
  /\ UNCHANGED <<page, worker, clicks, hist>>

(* The last file of the book is ready, or has failed (getStatusMap).        *)
Downloaded(b) ==
  /\ status[b] = "loading" /\ status' = [status EXCEPT ![b] = "done"]
  /\ UNCHANGED <<page, worker, req, line, clicks, hist>>

-----------------------------------------------------------------------------
(* The answers                                                              *)

(* The answer in the i-th place leaves the line.                            *)
Leaves(i) == line' = [k \in 1..(Len(line) - 1) |-> IF k < i THEN line[k] ELSE line[k + 1]]

(* The answer of q comes in; q goes on as the request then.                 *)
Arrives(q, kinds, then) ==
  /\ req[q].kind \in kinds
  /\ \E i \in DOMAIN line : line[i] = q /\ (Ordered => i = 1) /\ Leaves(i)
  /\ req' = [req EXCEPT ![q] = then]

Render(q) == detail' = [book |-> req[q].book, status |-> req[q].body[req[q].book]]

(* A book that is out is rendered again when the worker has been asked.     *)
DetailArrives(q) ==
  /\ LET out == req[q].body[req[q].book] # "in"
     IN  /\ Arrives(q, {"detail"}, IF out THEN [req[q] EXCEPT !.kind = "again"] ELSE Free)
         /\ IF out THEN Tell("query", {req[q].book}, q) ELSE UNCHANGED orders
  /\ Render(q)
  /\ UNCHANGED <<status, modal, list, poll, kept, refused, device, loop, mail, clicks, hist>>

Refreshed(q) ==
  /\ Arrives(q, {"refresh"}, Free) /\ Render(q)
  /\ UNCHANGED <<status, modal, list, poll, kept, refused, worker, clicks, hist>>

MarkArrives(q) ==
  /\ Arrives(q, {"read"}, Call("list", None)) /\ Render(q)
  /\ UNCHANGED <<status, modal, list, poll, kept, refused, worker, clicks, hist>>

(* The book is put on the list at once, which is then loaded anew.          *)
CheckoutArrives(q) ==
  /\ Arrives(q, {"checkout"}, Call("list", None))
  /\ Render(q)
  /\ list' = [list EXCEPT ![req[q].book] = req[q].body[req[q].book]]
  /\ UNCHANGED <<status, modal, poll, kept, refused, worker, clicks, hist>>

(* Mutant: the copy on the device is forgotten, not cleared.                *)
ReturnArrives_KeepsCopy(q) ==
  /\ Arrives(q, {"return"}, Call("list", None))
  /\ Render(q)
  /\ list' = [list EXCEPT ![req[q].book] = "in"]
  /\ kept' = kept \ {modal} /\ refused' = refused \ {modal}
  /\ UNCHANGED <<status, modal, poll, worker, clicks, hist>>

(* Mutant: the modal goes on showing the book as it was.                    *)
ReturnArrives_Unrendered(q) ==
  /\ Arrives(q, {"return"}, Call("list", None))
  /\ list' = [list EXCEPT ![req[q].book] = "in"]
  /\ kept' = kept \ {modal} /\ refused' = refused \ {modal} /\ Tell("clear", {modal}, None)
  /\ UNCHANGED <<status, modal, detail, poll, device, loop, mail, clicks, hist>>

(* The copy of the book that the modal shows by now is cleared.             *)
ReturnArrives(q) ==
  /\ Arrives(q, {"return"}, Call("list", None))
  /\ Render(q)
  /\ list' = [list EXCEPT ![req[q].book] = "in"]
  /\ kept' = kept \ {modal} /\ refused' = refused \ {modal} /\ Tell("clear", {modal}, None)
  /\ UNCHANGED <<status, modal, poll, device, loop, mail, clicks, hist>>

(* Mutant: polling ends when one of the downloads has.                      *)
Active_All(body) == \A b \in Books : body[b] = "loading"

(* hasActiveDownloads                                                       *)
Active(body) == \E b \in Books : body[b] = "loading"

(* The worker is asked what it has of the listed books.                     *)
Listed(body) == {b \in Books : body[b] # "in"}

ListArrives(q) ==
  /\ LET books == Listed(req[q].body)
     IN  /\ Arrives(q, {"list"}, IF books = {} THEN Free ELSE [req[q] EXCEPT !.kind = "copies"])
         /\ IF books = {} THEN UNCHANGED orders ELSE Tell("query", books, q)
  /\ list' = req[q].body /\ poll' = Active(req[q].body)
  /\ UNCHANGED <<status, modal, detail, kept, refused, device, loop, mail, clicks, hist>>

(* CACHE_BOOK is sent, or the book is shown as failed.                      *)
ManifestArrives(q) ==
  LET b == req[q].book IN
  /\ Arrives(q, {"manifest"}, Free)
  /\ \/ req[q].body[b] # "in" /\ Tell("cache", {b}, None) /\ UNCHANGED kept
     \/ req[q].body[b] = "in" /\ kept' = kept \ {b} /\ UNCHANGED orders
  /\ UNCHANGED <<status, modal, detail, list, poll, refused, device, loop, mail, clicks, hist>>

(* An error: for the list, one the server answers empties it and ends the   *)
(* polling, since the body is no list.                                      *)
ErrorArrives(q) ==
  /\ req[q].kind \in {"detail", "refresh", "read", "checkout", "return", "list", "manifest"}
  /\ good' = FALSE
  /\ req' = [req EXCEPT ![q] = Free]
  /\ IF Answered(q) THEN \E i \in DOMAIN line : line[i] = q /\ Leaves(i) ELSE UNCHANGED line
  /\ \/ req[q].kind = "list" /\ list' = AllIn /\ poll' = FALSE /\ UNCHANGED kept
     \/ req[q].kind = "manifest" /\ kept' = kept \ {req[q].book} /\ UNCHANGED <<list, poll>>
     \/ req[q].kind # "manifest" /\ UNCHANGED <<list, poll, kept>>
  /\ UNCHANGED <<status, modal, detail, refused, worker, clicks, waited, spared>>

-----------------------------------------------------------------------------
(* The service worker                                                       *)

(* postToAllClients, or the answer to a query: what it has of some books.   *)
Report(books, there, q) ==
  mail' = Append(mail, [books |-> books, there |-> there, query |-> q])

(* CACHE_BOOK: the record is written and the book is queued.                *)
ObeyCache(b) ==
  /\ device' = device \cup {b} /\ bookQueue' = bookQueue \cup {b}
  /\ spared' = spared \ {b}
  /\ Report({b}, {b}, None)
  /\ UNCHANGED activeBookId

(* CLEAR_BOOK: the record is deleted and the book leaves the queue.  If it  *)
(* is being fetched, this ends one file of it, and not the loop.            *)
ObeyClear(b) ==
  /\ device' = device \ {b} /\ bookQueue' = bookQueue \ {b}
  /\ spared' = IF activeBookId = b THEN spared \cup {b} ELSE spared \ {b}
  /\ Report({b}, {}, None)
  /\ UNCHANGED activeBookId

(* QUERY_BOOKS: of the book being fetched the record may say anything.      *)
ObeyQuery(books, q) ==
  /\ \E there \in SUBSET books :
       there \ {activeBookId} = (device \cap books) \ {activeBookId} /\ Report(books, there, q)
  /\ UNCHANGED <<device, loop, spared>>

Obey ==
  /\ orders # <<>> /\ orders' = Tail(orders)
  /\ LET o == Head(orders)
     IN  \/ o.kind = "cache" /\ \E b \in o.books : ObeyCache(b)
         \/ o.kind = "clear" /\ \E b \in o.books : ObeyClear(b)
         \/ o.kind = "query" /\ ObeyQuery(o.books, o.query)
  /\ UNCHANGED <<status, page, req, line, clicks, waited, good>>

(* cacheBookNow takes the next book; it tells of progress, and of files     *)
(* that fail; when it has come to the last file, its record is there (again *)
(* if it was cleared meanwhile), for the better or the worse.               *)
Take(b) ==
  /\ activeBookId = None /\ b \in bookQueue
  /\ activeBookId' = b /\ bookQueue' = bookQueue \ {b}
  /\ UNCHANGED <<status, page, device, orders, mail, req, line, clicks, hist>>

Fetching(b) ==
  /\ activeBookId = b /\ Len(mail) < MaxMail
  /\ \E there \in SUBSET {b} : Report({b}, there, None)
  /\ UNCHANGED <<status, page, device, loop, orders, req, line, clicks, hist>>

Fetched(b) ==
  /\ activeBookId = b /\ activeBookId' = None
  /\ device' \in {device \cup {b}, device \ {b}}
  /\ Report({b}, device' \cap {b}, None)
  /\ UNCHANGED <<status, page, bookQueue, orders, req, line, clicks, hist>>

(* onSwMessage; an answer that a detail waits for has it rendered again.    *)
MailArrives ==
  /\ mail # <<>> /\ mail' = Tail(mail)
  /\ LET m == Head(mail)
     IN  /\ kept' = (kept \ m.books) \cup m.there
         /\ req' = IF m.query = None THEN req ELSE [req EXCEPT ![m.query] = Free]
         /\ IF m.query # None /\ req[m.query].kind = "again" THEN Render(m.query) ELSE UNCHANGED detail
  /\ UNCHANGED <<status, modal, list, poll, refused, device, loop, orders, line, clicks, hist>>

-----------------------------------------------------------------------------
Answer(q) ==
  DetailArrives(q) \/ Refreshed(q) \/ MarkArrives(q) \/ CheckoutArrives(q) \/ ReturnArrives(q)
  \/ ListArrives(q) \/ ManifestArrives(q)

PageNext ==
  \/ \E b \in Books : Open(b) \/ Downloaded(b) \/ Take(b) \/ Fetching(b) \/ Fetched(b)
  \/ Obey \/ MailArrives
  \/ RefreshDetail \/ ToggleRead \/ ToggleCheckout \/ ToggleDevice \/ Poll
  \/ \E q \in Requests : Serve(q) \/ Answer(q) \/ ErrorArrives(q)

PageSpec == PageInit /\ [][PageNext]_pageVars

(* Timers fire, downloads end, and requests are served and answered.        *)
FairPageSpec ==
  /\ PageSpec /\ WF_pageVars(Poll) /\ WF_pageVars(Obey) /\ WF_pageVars(MailArrives)
  /\ \A b \in Books : WF_pageVars(Downloaded(b))
  /\ \A q \in Requests : WF_pageVars(Serve(q)) /\ WF_pageVars(Answer(q))

-----------------------------------------------------------------------------
PageTypeOK ==
  /\ status \in [Books -> Status] /\ list \in [Books -> Status] /\ poll \in BOOLEAN
  /\ modal \in Books \cup {None} /\ detail \in [book : Books \cup {None}, status : Status]
  /\ kept \in SUBSET Books /\ refused \in SUBSET Books /\ device \in SUBSET Books
  /\ bookQueue \in SUBSET Books /\ activeBookId \in Books \cup {None}
  /\ \A i \in DOMAIN line : req[line[i]] # Free

(* The button of the modal does what it says, to the book that is shown.    *)
(* (And only requests that are in flight are answered.)                     *)
ButtonTells ==
  /\ PageTypeOK
  /\ waited /\ good /\ Dialogue = {} /\ modal # None /\ detail # NoDetail =>
       detail.book = modal /\ (detail.status = "in" <=> status[modal] = "in")

(* Once nothing is under way, the page shows the copies that the device     *)
(* has, and none of them is of a returned book or of one whose copy was     *)
(* removed, whether its download was starting, waiting or done, or was      *)
(* restarted while the book was being returned.  Not so of a book that the  *)
(* worker was fetching when it was told to clear it: the loop goes on with  *)
(* the book's other files and writes its record back (sw.js:769-786).       *)
CopiesAgree ==
  waited /\ good /\ Quiet =>
    \A b \in Books \ spared :
      /\ b \in device <=> b \in kept
      /\ b \in device => b \notin refused /\ status[b] # "in"

(* The page ends up with the server's list and the final state of each book.*)
ListCatchesUp == <>[](good => list = status)
=============================================================================
