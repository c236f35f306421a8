------------------------------ MODULE PageTurns ------------------------------
(***************************************************************************)
(* Turning the pages of an EPUB (app.service.ts): clicks, keys and swipes  *)
(* are queued and given to epub.js one at a time, under a lock that its    *)
(* "relocated" event or a timer releases; the page number is counted from  *)
(* those events, per section, and kept in localStorage.  The number is     *)
(* counted again outside those events too: when the first page is shown    *)
(* and when epub.js has worked out its locations.                          *)
(*                                                                         *)
(* epub.js carries out what it is told in order, some time later, and then *)
(* reports where it is.  Nothing resets the queue or the lock when the     *)
(* reader is closed and another book is opened.                            *)
(***************************************************************************)
EXTENDS Integers, Sequences, FiniteSets

CONSTANTS
  Books, NoBook,
  Starts,       \* pages before each section, and at last all of them
  QueueLimit,   \* turns that may wait (25)
  PendingLimit, \* turns whose report may be outstanding (10)
  MaxClicks,    \* bound on clicks
  MaxGoes,      \* bound on openings, synchronisations and resizes
  PastEnds      \* whether the reader presses on at either end of the book

Sections     == 1..(Len(Starts) - 1)
Pages(s)     == Starts[s + 1] - Starts[s]
Places       == 1..Starts[Len(Starts)]
SectionOf(p) == CHOOSE s \in Sections : Starts[s] < p /\ p <= Starts[s + 1]
PageIn(p)    == p - Starts[SectionOf(p)]

ASSUME TurnsAssumption ==
  /\ Starts \in Seq(Nat) /\ Len(Starts) > 1 /\ Starts[1] = 0
  /\ \A s \in Sections : Starts[s] < Starts[s + 1]
  /\ NoBook \notin Books
  /\ QueueLimit \in Nat \ {0} /\ PendingLimit \in Nat \ {0}

VARIABLES
  book, mounted,  \* readerFile; whether epubRendition is set
  place, shown, moves, reports,   \* epub.js: the page, whether one is shown yet, what it was
                  \* told, reports to come
  queue, locked, timer,    \* epubNavQueue, epubNavLocked, epubNavUnlockTimer
  callbacks,      \* setTimeout(processEpubTurnQueue, 0) outstanding
  pending,        \* readerNavPending
  map,            \* totals, offsets and last page and section of the open book
  disk,           \* stored map of each book
  clicks, goes,   \* how many there were
  base, calm      \* history: number less place in each book; nothing odd happened

turner == <<queue, locked, timer, callbacks, pending>>
engine == <<place, shown, moves, reports>>
vars == <<book, mounted, engine, turner, map, disk, clicks, goes, base, calm>>

Unseen == [totals |-> {}, offsets |-> <<>>, section |-> 0, page |-> 0]

Init ==
  /\ book = NoBook /\ mounted = FALSE /\ place = 1 /\ shown = FALSE /\ moves = <<>> /\ reports = 0
  /\ queue = 0 /\ locked = FALSE /\ timer = FALSE /\ callbacks = 0 /\ pending = 0
  /\ map = Unseen
  /\ disk = [b \in Books |-> Unseen]
  /\ clicks = 0 /\ goes = 0 /\ base = [b \in Books |-> 0] /\ calm = TRUE

Sign(n) == IF n > 0 THEN 1 ELSE IF n < 0 THEN -1 ELSE 0
AtMost(limit, n) == IF n > limit THEN limit ELSE IF n < -limit THEN -limit ELSE n
Larger(m, n) == IF m > n THEN m ELSE n

(* What epub.js is told: turn by a step, or go to a place.                  *)
Turn(step) == [step |-> step, to |-> 0]
GoTo(p)    == [step |-> 0, to |-> p]

Unnumbered == DOMAIN map.offsets = {}   \* readerLastGlobalPage is null

Resting == moves = <<>> /\ reports = 0
Still   == Resting /\ queue = 0 /\ ~locked /\ ~timer /\ callbacks = 0

-----------------------------------------------------------------------------
(* The queue of turns                                                       *)

(* processEpubTurnQueue, with q turns waiting, lock telling whether one is  *)
(* under way and armed whether the timer runs.  next() throws while epub.js *)
(* has not started.                                                         *)
Process(q, lock, armed, quiet) ==
  \/ /\ ~mounted
     /\ queue' = 0 /\ locked' = FALSE /\ timer' = armed /\ calm' = quiet
     /\ UNCHANGED <<moves, pending>>
  \/ /\ mounted /\ (lock \/ q = 0)
     /\ queue' = q /\ locked' = lock /\ timer' = armed /\ calm' = quiet
     /\ UNCHANGED <<moves, pending>>
  \/ /\ mounted /\ ~lock /\ q # 0
     /\ queue' = q - Sign(q) /\ timer' = TRUE
     /\ pending' = AtMost(PendingLimit, pending + Sign(q))
     /\ \/ moves' = Append(moves, Turn(Sign(q))) /\ locked' = TRUE /\ calm' = quiet
        \/ Unnumbered /\ locked' = FALSE /\ calm' = FALSE /\ UNCHANGED moves

(* Where the reader will be when all turns are taken.                       *)
Told(step) == Cardinality({i \in DOMAIN moves : moves[i].step = step})
Bound      == place + queue + Told(1) - Told(-1)

(* goNext and goPrev.  All is well when nothing else moves the reader and   *)
(* the turn leads to a page that can have a number.                         *)
Click(step) ==
  /\ mounted /\ clicks < MaxClicks /\ clicks' = clicks + 1
  /\ PastEnds \/ ~shown \/ Bound + step \in Places
  /\ LET numbered == ~Unnumbered /\ base[book] + Bound + step >= 1
         fits     == queue + step = AtMost(QueueLimit, queue + step)
     IN  Process(AtMost(QueueLimit, queue + step), locked, timer,
                 calm /\ numbered /\ fits /\ (Resting \/ locked))
  /\ UNCHANGED <<book, mounted, place, shown, reports, callbacks, map, disk, goes, base>>

(* unlockEpubNavSoon: the fallback should relocated never come.             *)
TimerFires ==
  /\ timer
  /\ Process(queue, FALSE, FALSE, calm /\ Resting)
  /\ UNCHANGED <<book, mounted, place, shown, reports, callbacks, map, disk, clicks, goes, base>>

(* Mutant: the lock is not looked at.                                       *)
Callback_Forces ==
  /\ callbacks > 0 /\ callbacks' = callbacks - 1
  /\ Process(queue, FALSE, timer, calm)
  /\ UNCHANGED <<book, mounted, place, shown, reports, map, disk, clicks, goes, base>>

(* setTimeout(..., 0) of the relocated event.                               *)
Callback ==
  /\ callbacks > 0 /\ callbacks' = callbacks - 1
  /\ Process(queue, locked, timer, calm)
  /\ UNCHANGED <<book, mounted, place, shown, reports, map, disk, clicks, goes, base>>

-----------------------------------------------------------------------------
(* epub.js                                                                  *)

Move ==
  /\ moves # <<>> /\ moves' = Tail(moves) /\ reports' = reports + 1 /\ shown' = TRUE
  /\ LET m == Head(moves)
     IN  place' = IF m.to # 0 THEN m.to
                  ELSE IF place + m.step \in Places THEN place + m.step ELSE place
  /\ UNCHANGED <<book, mounted, turner, map, disk, clicks, goes, base, calm>>

(* A section that cannot be loaded: no report follows.                      *)
MoveFails ==
  /\ moves # <<>> /\ moves' = Tail(moves) /\ calm' = FALSE
  /\ UNCHANGED <<book, mounted, place, shown, reports, turner, map, disk, clicks, goes, base>>

-----------------------------------------------------------------------------
(* The page number (updateEpubPageNumbers)                                  *)

Known(s) == s \in DOMAIN map.offsets

(* Pages before section s, as far as the sections seen so far tell.         *)
Offset(s) ==
  IF Known(s) THEN map.offsets[s]
  ELSE IF s = 1 THEN 0
  ELSE IF Known(s - 1) /\ (s - 1) \in map.totals THEN map.offsets[s - 1] + Pages(s - 1)
  ELSE IF s > map.section THEN Larger(0, map.page) ELSE 0

(* While turns are to be reported, each report counts for one of them.      *)
Number(s, page) ==
  IF pending = 0 THEN Offset(s) + page ELSE Larger(1, map.page + Sign(pending))

With(f, s, n) == [x \in DOMAIN f \cup {s} |-> IF x = s THEN n ELSE f[x]]

Renumbered(s, page) ==
  IF Unnumbered
  THEN [totals |-> map.totals, offsets |-> With(map.offsets, s, 1 - page),
        section |-> s, page |-> 1]
  ELSE LET number == Number(s, page)
           offset == IF pending = 0 THEN Offset(s) ELSE number - page
       IN  [totals |-> map.totals \cup {s}, offsets |-> With(map.offsets, s, offset),
            section |-> s, page |-> number]

(* Mutant: a report that was counted still counts for the next one.         *)
Outstanding_Kept == pending

(* The turns still to be reported after this report.                        *)
Outstanding == IF Unnumbered THEN pending ELSE pending - Sign(pending)

(* Mutant: the turns that wait are left to the next click.                  *)
Scheduled_Never == callbacks

Scheduled == IF queue # 0 THEN callbacks + 1 ELSE callbacks

(* Count the page shown and store the map.                                  *)
CountPage ==
  /\ map' = Renumbered(SectionOf(place), PageIn(place))
  /\ pending' = Outstanding
  /\ disk' = [disk EXCEPT ![book] = map']
  /\ base' = IF Unnumbered THEN [base EXCEPT ![book] = 1 - place] ELSE base

(* The relocated event: unlock, go on with the queue, count the page.       *)
Relocated ==
  /\ reports > 0 /\ reports' = reports - 1
  /\ locked' = FALSE /\ timer' = FALSE
  /\ callbacks' = Scheduled
  /\ CountPage
  /\ UNCHANGED <<book, mounted, place, shown, moves, queue, clicks, goes, calm>>

(* syncEpubLocation, once the first page is shown and again seconds later,  *)
(* when the locations are there.  Between a turn and its page it counts the *)
(* old page for the turn: that is odd.                                      *)
SyncLocation ==
  /\ mounted /\ shown /\ CountPage
  /\ calm' = (calm /\ (pending = 0 \/ moves = <<>>))
  /\ UNCHANGED <<book, mounted, engine, queue, locked, timer, callbacks, clicks, goes>>

-----------------------------------------------------------------------------
(* The reader                                                               *)

Goes == goes < MaxGoes /\ goes' = goes + 1

(* resetReaderState, then loadReaderPageMap.                                *)
Reset(b, stored) ==
  /\ book' = b /\ map' = stored
  /\ mounted' = FALSE /\ place' = 1 /\ shown' = FALSE /\ moves' = <<>> /\ reports' = 0 /\ pending' = 0
  /\ calm' = (calm /\ Still)
  /\ UNCHANGED <<queue, locked, timer, callbacks, disk, clicks, base>>

OpenReader(b) == book = NoBook /\ Goes /\ Reset(b, disk[b])

CloseReader == book # NoBook /\ Reset(NoBook, Unseen) /\ UNCHANGED goes

(* At the position loadProgress has got, the server's if it answers: it may *)
(* lie in a section that the stored map does not know.                      *)
Mount(p) ==
  /\ book # NoBook /\ ~mounted /\ mounted' = TRUE
  /\ moves' = <<GoTo(p)>>
  /\ calm' = (calm /\ (Unnumbered \/ Known(SectionOf(p))))
  /\ UNCHANGED <<book, place, shown, reports, turner, map, disk, clicks, goes, base>>

(* A synchronised position, or a resize, which shows the same place again.  *)
Display(p) ==
  /\ mounted /\ Goes
  /\ moves' = Append(moves, GoTo(p))
  /\ calm' = (calm /\ Still /\ Known(SectionOf(p)))
  /\ UNCHANGED <<book, mounted, place, shown, reports, turner, map, disk, clicks, base>>

-----------------------------------------------------------------------------
Next ==
  \/ \E step \in {-1, 1} : Click(step)
  \/ TimerFires \/ Callback \/ Move \/ MoveFails \/ Relocated \/ SyncLocation
  \/ CloseReader
  \/ \E b \in Books : OpenReader(b)
  \/ \E p \in Places : Mount(p) \/ Display(p)

Spec == Init /\ [][Next]_vars

(* The browser runs timers.  epub.js need not answer.                       *)
FairSpec == Spec /\ WF_vars(TimerFires) /\ WF_vars(Callback)

-----------------------------------------------------------------------------
TypeOK ==
  /\ book \in Books \cup {NoBook} /\ mounted \in BOOLEAN /\ shown \in BOOLEAN
  /\ place \in Places /\ reports \in Nat
  /\ moves \in Seq([step : {-1, 0, 1}, to : {0} \cup Places])
  /\ queue \in -QueueLimit..QueueLimit /\ pending \in -PendingLimit..PendingLimit
  /\ locked \in BOOLEAN /\ timer \in BOOLEAN /\ callbacks \in Nat

(* Turns are taken one at a time: however fast the reader clicks, epub.js   *)
(* has at most one to carry out and report ("lock + queue", CHANGELOG:221), *)
(* and those that wait are no more than the limit.                          *)
OneTurn == TypeOK /\ (calm /\ locked => Len(moves) + reports = 1)

(* The page number is tied to the page: each turn counts once, across       *)
(* sections, reopenings and resizes (CHANGELOG:652, 661, 664), and however  *)
(* often syncEpubLocation counts the page again.  It fails, and calm is     *)
(* FALSE, when that happens between a turn and its page, or when a book is  *)
(* opened in a section its stored map does not know.                        *)
CountsTurns ==
  calm /\ mounted /\ Resting /\ ~Unnumbered => map.page = base[book] + place

(* The lock is released and the queue drained, even if epub.js never        *)
(* reports ("prevents permanent lock").                                     *)
QueueDrains == <>[](queue = 0 /\ ~locked)
=============================================================================
