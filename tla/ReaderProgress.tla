--------------------------- MODULE ReaderProgress ---------------------------
(***************************************************************************)
(* The reading position of one file of one user: the row of reader_progress*)
(* (library/reader-progress.service.ts) and the copies that the reader in  *)
(* the page (app.service.ts) keeps in localStorage and on the screen of    *)
(* each device.                                                            *)
(*                                                                         *)
(* The page never waits for a write, opens at what the server answers, and *)
(* asks again in the background; requests are answered in any order, or    *)
(* not at all.  The handlers find, compare and save with awaits between.   *)
(***************************************************************************)
EXTENDS Integers, FiniteSets

CONSTANTS
  Devices,
  LastPage,    \* pages are 1..LastPage
  Requests,    \* requests that may be in flight at once
  MaxTime,     \* bound on Date.now(), which every write advances
  Overlap      \* whether handlers that write the row may overlap

Pages == 1..LastPage
Positions == [page : Pages, at : 1..MaxTime]
Nowhere == [page |-> 0, at |-> 0]   \* no row, no item

Reads  == {"load", "apply", "check"}
Writes == {"save", "sync", "reset"}

ASSUME ProgressAssumption ==
  LastPage \in Nat \ {0} /\ MaxTime \in Nat /\ Overlap \in BOOLEAN

VARIABLES
  row,      \* the row of reader_progress
  local,    \* localStorage of each device
  view,     \* what each reader shows: Closed, Loading or a page
  req,      \* requests in flight
  now,      \* the clocks, taken to agree
  newest,   \* history: updatedAt of the newest write answered since the last reset
  clean     \* history: nothing was lost, no reader used while it was reading

vars == <<row, local, view, req, now, newest, clean>>

Closed  == 0
Loading == -1
Open(d) == view[d] \in Pages

Free == [pc |-> "free", op |-> "save", dev |-> "none",
         pos |-> Nowhere, found |-> Nowhere]
Request(op, d, pos) == [pc |-> "sent", op |-> op, dev |-> d, pos |-> pos, found |-> Nowhere]

Init ==
  /\ row = Nowhere /\ local = [d \in Devices |-> Nowhere]
  /\ view = [d \in Devices |-> Closed]
  /\ req = [q \in Requests |-> Free]
  /\ now = 0 /\ newest = 0 /\ clean = TRUE

IsFree(q) == req[q].pc = "free"
Waiting(d) == \E q \in Requests : ~IsFree(q) /\ req[q].dev = d /\ req[q].op # "save"
Quiet == \A q \in Requests : IsFree(q)

-----------------------------------------------------------------------------
(* The page                                                                 *)

(* Mutant: a clock that ticks more slowly than pages are turned.            *)
Stamped_Coarse(page) == [page |-> page, at |-> (now + 2) \div 2]

Stamped(page) == [page |-> page, at |-> now + 1]

(* renderPdfPage: show the page and save it, in localStorage and, with     *)
(* request q, on the server.  requests is the function to update.          *)
Render(d, page, q, requests) ==
  /\ now < MaxTime /\ now' = now + 1
  /\ view' = [view EXCEPT ![d] = page]
  /\ local' = [local EXCEPT ![d] = Stamped(page)]
  /\ req' = [requests EXCEPT ![q] = Request("save", d, Stamped(page))]

(* The user acts: calmly, or while the reader still waits for an answer.    *)
Acts(d) == clean' = (clean /\ ~Waiting(d))

OpenReader(d) ==
  /\ view[d] = Closed
  /\ \E q \in Requests :
       IsFree(q) /\ req' = [req EXCEPT ![q] = Request("load", d, local[d])]
  /\ view' = [view EXCEPT ![d] = Loading]
  /\ clean' = (clean /\ ~Waiting(d) /\ \A e \in Devices : view[e] = Closed)
  /\ UNCHANGED <<row, local, now, newest>>

CloseReader(d) ==
  /\ view[d] # Closed
  /\ view' = [view EXCEPT ![d] = Closed]
  /\ Acts(d)
  /\ UNCHANGED <<row, local, req, now, newest>>

TurnPage(d) ==
  /\ Open(d)
  /\ \E q \in Requests, step \in {-1, 1} :
       IsFree(q) /\ view[d] + step \in Pages /\ Render(d, view[d] + step, q, req)
  /\ Acts(d)
  /\ UNCHANGED <<row, newest>>

(* The Sync button: reconcileProgress.                                      *)
Sync(d) ==
  /\ Open(d)
  /\ \E q \in Requests :
       IsFree(q) /\ req' = [req EXCEPT ![q] = Request("check", d, local[d])]
  /\ Acts(d)
  /\ UNCHANGED <<row, local, view, now, newest>>

(* The Restart button: the reset and the save of page 1 are both sent.      *)
Restart(d) ==
  /\ Open(d)
  /\ \E q, p \in Requests :
       /\ IsFree(q) /\ IsFree(p) /\ q # p
       /\ Render(d, 1, p, [req EXCEPT ![q] = Request("reset", d, Nowhere)])
  /\ clean' = (clean /\ Quiet)
  /\ UNCHANGED <<row, newest>>

-----------------------------------------------------------------------------
(* The answers, as the page takes them                                      *)

Answered(q, op) == req[q].pc = "answered" /\ req[q].op = op
Done(q) == req' = [req EXCEPT ![q] = Free]
Keep(d, pos) == local' = [local EXCEPT ![d] = pos]

(* Mutant: no page is made up when there is no progress at all.             *)
Resumed_Raw(found, stored) == IF found # Nowhere THEN found.page ELSE stored.page

(* loadProgress, then openPdfReader: at the server's page, else at the page *)
(* localStorage held, else at the first; then ask again in the background, *)
(* also if the reader has been closed.                                      *)
Resumed(found, stored) ==
  IF found # Nowhere THEN found.page ELSE IF stored # Nowhere THEN stored.page ELSE 1

Loaded(q) ==
  /\ Answered(q, "load")
  /\ LET d == req[q].dev
         again == Request("apply", d, Nowhere)
     IN  \/ /\ view[d] = Closed
            /\ Keep(d, IF req[q].found # Nowhere THEN req[q].found ELSE local[d])
            /\ req' = [req EXCEPT ![q] = again] /\ UNCHANGED <<view, now>>
         \/ /\ view[d] # Closed
            /\ \E p \in Requests :
                 IsFree(p) /\ Render(d, Resumed(req[q].found, req[q].pos), q,
                                     [req EXCEPT ![p] = again])
  /\ UNCHANGED <<row, newest, clean>>

(* Store what the server answered; an open reader goes there.               *)
Apply(q) ==
  LET d == req[q].dev
  IN  \/ /\ ~Open(d)
         /\ Keep(d, req[q].found)
         /\ Done(q) /\ UNCHANGED <<view, now>>
      \/ /\ Open(d)
         /\ Render(d, req[q].found.page, q, req)

Ignore(q) == Done(q) /\ UNCHANGED <<local, view, now>>

Reloaded(q) ==
  /\ Answered(q, "apply")
  /\ \/ req[q].found # Nowhere /\ Apply(q)
     \/ req[q].found = Nowhere /\ Ignore(q)
  /\ UNCHANGED <<row, newest, clean>>

ServerWins(found, stored) == found # Nowhere /\ found.at >= stored.at

Checked(q) ==
  /\ Answered(q, "check")
  /\ LET d == req[q].dev
     IN  \/ ServerWins(req[q].found, req[q].pos) /\ Apply(q)
         \/ /\ ~ServerWins(req[q].found, req[q].pos) /\ req[q].pos # Nowhere
            /\ now < MaxTime /\ now' = now + 1
            /\ req' = [req EXCEPT ![q] = Request("sync", d, Stamped(req[q].pos.page))]
            /\ UNCHANGED <<local, view>>
         \/ /\ ~ServerWins(req[q].found, req[q].pos) /\ req[q].pos = Nowhere
            /\ Ignore(q)
  /\ UNCHANGED <<row, newest, clean>>

Synced(q) ==
  /\ Answered(q, "sync") /\ Apply(q)
  /\ UNCHANGED <<row, newest, clean>>

Saved(q) ==
  /\ Answered(q, "save") \/ Answered(q, "reset")
  /\ Ignore(q)
  /\ UNCHANGED <<row, newest, clean>>

-----------------------------------------------------------------------------
(* The server                                                               *)

Arrives(q, ops) == req[q].pc = "sent" /\ req[q].op \in ops
Later(s, t) == IF s > t THEN s ELSE t
Serialised(q) == Overlap \/ \A p \in Requests : req[p].pc # "found"
To(q, pc, found) == req' = [req EXCEPT ![q] = [@ EXCEPT !.pc = pc, !.found = found]]

GetProgress(q) ==
  /\ Arrives(q, Reads)
  /\ To(q, "answered", row)
  /\ UNCHANGED <<row, local, view, now, newest, clean>>

(* Only a sync looks at the position it is answered.                        *)
Answer(q, pos) == To(q, "answered", IF req[q].op = "sync" THEN pos ELSE Nowhere)

(* Mutant: the comparison is the other way round.                           *)
Newer_Reversed(found, pos) == found # Nowhere /\ found.at < pos.at

Newer(found, pos) == found # Nowhere /\ found.at > pos.at

(* setProgress: a newer row is answered instead of being written over.      *)
SetFind(q) ==
  /\ Arrives(q, {"save", "sync"}) /\ Serialised(q)
  /\ \/ /\ Newer(row, req[q].pos)
        /\ Answer(q, row)
        /\ newest' = Later(newest, req[q].pos.at)
     \/ /\ ~Newer(row, req[q].pos)
        /\ To(q, "found", row)
        /\ UNCHANGED newest
  /\ UNCHANGED <<row, local, view, now, clean>>

(* The row is inserted or updated; save inserts an entity whose row has     *)
(* gone.  The unique index refuses an insert beside another row, which may  *)
(* be there too in place of the one that was found.                         *)
SetSave(q) ==
  /\ req[q].pc = "found" /\ req[q].op \in {"save", "sync"}
  /\ \/ /\ row # Nowhere /\ (req[q].found = Nowhere \/ Overlap)
        /\ Done(q) /\ UNCHANGED <<row, newest>>
     \/ /\ ~(req[q].found = Nowhere /\ row # Nowhere)
        /\ row' = req[q].pos
        /\ \/ Answer(q, req[q].pos) /\ newest' = Later(newest, req[q].pos.at)
           \/ Done(q) /\ UNCHANGED newest
  /\ clean' = (clean /\ req'[q].pc = "answered")
  /\ UNCHANGED <<local, view, now>>

ResetFind(q) ==
  /\ Arrives(q, {"reset"}) /\ Serialised(q)
  /\ To(q, IF row = Nowhere THEN "answered" ELSE "found", Nowhere)
  /\ newest' = IF row = Nowhere THEN 0 ELSE newest
  /\ UNCHANGED <<row, local, view, now, clean>>

ResetRemove(q) ==
  /\ req[q].pc = "found" /\ req[q].op = "reset"
  /\ row' = Nowhere /\ newest' = 0
  /\ To(q, "answered", Nowhere)
  /\ UNCHANGED <<local, view, now, clean>>

(* A request or its answer is lost, or the server ends while it handles it; *)
(* the page ignores the error.  A failed read is answered as no progress.   *)
Lose(q) ==
  /\ ~IsFree(q) /\ clean' = FALSE
  /\ \/ req[q].op \in {"load", "apply", "check"} /\ To(q, "answered", Nowhere)
     \/ req[q].op \in Writes /\ Done(q)
  /\ UNCHANGED <<row, local, view, now, newest>>

-----------------------------------------------------------------------------
User(d) == OpenReader(d) \/ CloseReader(d) \/ TurnPage(d) \/ Sync(d) \/ Restart(d)

Takes(q) == Loaded(q) \/ Reloaded(q) \/ Checked(q) \/ Synced(q) \/ Saved(q)

Handle(q) ==
  GetProgress(q) \/ SetFind(q) \/ SetSave(q) \/ ResetFind(q) \/ ResetRemove(q) \/ Lose(q)

Next == (\E d \in Devices : User(d)) \/ \E q \in Requests : Takes(q) \/ Handle(q)

Spec == Init /\ [][Next]_vars

-----------------------------------------------------------------------------
Places == Positions \cup {Nowhere}
Pcs == {"free", "sent", "found", "answered"}

TypeOK ==
  /\ row \in Places /\ local \in [Devices -> Places]
  /\ view \in [Devices -> Pages \cup {Closed, Loading}]
  /\ req \in [Requests -> [pc : Pcs, op : Reads \cup Writes, dev : Devices \cup {"none"},
                           pos : Places, found : Places]]
  /\ now \in 0..MaxTime /\ newest \in 0..MaxTime /\ clean \in BOOLEAN

(* The server keeps the newest of the positions it was sent since the last *)
(* restart of the book, whatever order they arrive in (HANDOFF.md:95).     *)
Abstract == INSTANCE NewestWins
  WITH value <- row

KeepsNewest == Abstract!Spec

(* A read asks the row as it is: two devices do not end up apart.  When all *)
(* requests are answered, and nobody used a reader before it had read or    *)
(* two readers at once, the open reader shows what the server holds.        *)
ReaderAgrees ==
  clean /\ Quiet => \A d \in Devices :
    Open(d) => view[d] = IF row = Nowhere THEN 1 ELSE row.page
=============================================================================
