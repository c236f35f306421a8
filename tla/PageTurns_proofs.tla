-------------------------- MODULE PageTurns_proofs --------------------------
(***************************************************************************)
(* Proofs about PageTurns, for every layout of the book and every value of *)
(* the other constants.                                                    *)
(*                                                                         *)
(* While nothing odd happens the reader and epub.js are in one of four     *)
(* shapes (Shapes), in each of which it is known what epub.js will do and  *)
(* which number the reader will give to the page it then shows (Numbers).  *)
(***************************************************************************)
EXTENDS PageTurns, FiniteSetTheorems, SequenceTheorems, WellFoundedInduction, TLAPS

(* The layout of the book as numbers.                                       *)
LEMMA Layout ==
  /\ Starts \in [1..Len(Starts) -> Nat] /\ Len(Starts) \in Nat /\ Len(Starts) > 1
  /\ \A s \in Sections : s \in Nat /\ s >= 1 /\ Starts[s] \in Nat /\ Starts[s + 1] \in Nat
  /\ \A p \in Places : p \in Int /\ p >= 1
BY TurnsAssumption DEF Sections, Places

(* The limits as numbers.                                                   *)
LEMMA Limits ==
  QueueLimit \in Nat /\ QueueLimit >= 1 /\ PendingLimit \in Nat /\ PendingLimit >= 1
BY TurnsAssumption

(* Each page is in a section: the first that ends at it or later.           *)
LEMMA SectionFound ==
  ASSUME NEW p \in Places
  PROVE  /\ SectionOf(p) \in Sections
         /\ Starts[SectionOf(p)] < p /\ p <= Starts[SectionOf(p) + 1]
<1> DEFINE n == Len(Starts)
           T == {s \in 1..n : p <= Starts[s]}
<1>1. n \in T /\ T \subseteq Nat
  BY Layout DEF Places
<1>2. PICK m \in T : \A k \in T : ~ (<<k, m>> \in OpToRel(<, Nat))
  BY <1>1, WFMin, NatLessThanWellFounded
<1>3. \A k \in T : ~ (k < m)
  BY <1>1, <1>2 DEF OpToRel
<1>4. m \in 1..n /\ p <= Starts[m] /\ m # 1
  BY Layout, TurnsAssumption
<1>5. m - 1 \in 1..n /\ ~ (p <= Starts[m - 1])
  BY <1>3, <1>4, Layout
<1>6. m - 1 \in Sections /\ Starts[m - 1] < p /\ p <= Starts[(m - 1) + 1]
  BY <1>4, <1>5, Layout DEF Sections
<1> QED
  BY <1>6 DEF SectionOf

-----------------------------------------------------------------------------
(* Types                                                                    *)

Orders == [step : {-1, 0, 1}, to : {0} \cup Places]
Maps   == [totals : SUBSET Sections, offsets : UNION {[D -> Int] : D \in SUBSET Sections},
           section : Int, page : Int]

Typed ==
  /\ TypeOK
  /\ map \in Maps /\ disk \in [Books -> Maps] /\ base \in [Books -> Int]
  /\ mounted => book # NoBook
  /\ ~mounted => Resting /\ ~shown

(* What sign and clamp return.                                              *)
LEMMA Signs ==
  /\ \A n \in Int : Sign(n) \in {-1, 0, 1} /\ (n # 0 => Sign(n) \in {-1, 1})
  /\ \A n \in Int, k \in Nat : AtMost(k, n) \in -k..k
BY DEF Sign, AtMost

(* A turn is an order to epub.js.                                           *)
LEMMA TurnOrdered ==
  ASSUME NEW step \in {-1, 1}
  PROVE  Turn(step) \in Orders
BY DEF Turn, Orders

(* Giving the next turn to epub.js keeps the types.                         *)
LEMMA ProcessTyped ==
  ASSUME Typed, NEW q \in -QueueLimit..QueueLimit, NEW lock \in BOOLEAN, NEW armed \in BOOLEAN, NEW quiet,
         Process(q, lock, armed, quiet)
  PROVE  /\ queue' \in -QueueLimit..QueueLimit /\ pending' \in -PendingLimit..PendingLimit
         /\ locked' \in BOOLEAN /\ timer' \in BOOLEAN /\ moves' \in Seq(Orders)
         /\ ~mounted => UNCHANGED moves
<1>0. /\ q \in Int /\ moves \in Seq(Orders) /\ pending \in -PendingLimit..PendingLimit
      /\ pending \in Int /\ 0 \in -QueueLimit..QueueLimit
  BY Limits DEF Typed, TypeOK, Orders
<1>1. CASE UNCHANGED <<moves, pending>> /\ queue' \in {0, q} /\ locked' \in {FALSE, lock} /\ timer' = armed
  BY <1>0, <1>1
<1>2. CASE /\ mounted /\ q # 0 /\ queue' = q - Sign(q) /\ timer' = TRUE
           /\ pending' = AtMost(PendingLimit, pending + Sign(q))
           /\ \/ moves' = Append(moves, Turn(Sign(q))) /\ locked' = TRUE
              \/ UNCHANGED moves /\ locked' = FALSE
  <2>1. queue' \in -QueueLimit..QueueLimit
    BY <1>2, Limits DEF Sign
  <2>2. pending' \in -PendingLimit..PendingLimit
    <3>0. Sign(q) \in {-1, 0, 1}
      BY <1>0, Signs
    <3>1. pending + Sign(q) \in Int
      BY <1>0, <3>0
    <3> QED
      BY <1>2, <3>1, Signs, Limits
  <2>3. moves' \in Seq(Orders)
    <3> DEFINE t == Turn(Sign(q))
    <3>1. t \in Orders
      BY <1>0, <1>2, Signs, TurnOrdered
    <3>2. moves' = moves \/ moves' = Append(moves, t)
      BY <1>2
    <3> HIDE DEF t
    <3> QED
      BY <1>0, <3>1, <3>2
  <2> QED
    BY <1>2, <2>1, <2>2, <2>3
<1> QED
  BY <1>1, <1>2 DEF Process

(* The pages before a section are a number.                                 *)
LEMMA OffsetTyped ==
  ASSUME Typed, NEW s \in Sections
  PROVE  Offset(s) \in Int
<1>1. map.page \in Int /\ \A k \in DOMAIN map.offsets : map.offsets[k] \in Int
  BY DEF Typed, Maps
<1>2. s # 1 => s - 1 \in Sections /\ Pages(s - 1) \in Int
  BY Layout DEF Sections, Pages
<1> QED
  BY <1>1, <1>2, Layout DEF Offset, Known, Larger

(* A renumbered map is a map.                                               *)
LEMMA RenumberedTyped ==
  ASSUME Typed, NEW s \in Sections, NEW page \in Int
  PROVE  Renumbered(s, page) \in Maps
<1>1. PICK D \in SUBSET Sections : map.offsets \in [D -> Int]
  BY DEF Typed, Maps
<1>2. s \in Int /\ pending \in Int /\ map.page \in Int
  BY Layout, Limits DEF Typed, TypeOK, Maps
<1>3. Number(s, page) \in Int
  <2>1. Sign(pending) \in Int
    BY <1>2, Signs
  <2> QED
    BY <1>2, <2>1, OffsetTyped DEF Number, Larger
<1>4. \A o \in Int : With(map.offsets, s, o) \in [D \cup {s} -> Int]
  BY <1>1 DEF With
<1>6. map.totals \in SUBSET Sections
  BY DEF Typed, Maps
<1>7. CASE Unnumbered
  <2> DEFINE n == 1 - page
             o == With(map.offsets, s, n)
  <2>1. Renumbered(s, page) = [totals |-> map.totals, offsets |-> o, section |-> s, page |-> 1]
    BY <1>7 DEF Renumbered
  <2>2. n \in Int
    OBVIOUS
  <2> HIDE DEF n
  <2>3. o \in [D \cup {s} -> Int]
    BY <1>4, <2>2
  <2> HIDE DEF o
  <2> QED
    BY <1>2, <1>6, <2>1, <2>3 DEF Maps
<1>8. CASE ~Unnumbered
  <2> DEFINE number == Number(s, page)
             offset == IF pending = 0 THEN Offset(s) ELSE number - page
             o == With(map.offsets, s, offset)
             t == map.totals \cup {s}
  <2>1. Renumbered(s, page) = [totals |-> t, offsets |-> o, section |-> s, page |-> number]
    BY <1>8 DEF Renumbered
  <2>2. offset \in Int /\ number \in Int /\ t \in SUBSET Sections
    BY <1>3, <1>6, OffsetTyped
  <2> HIDE DEF number, offset, t
  <2>3. o \in [D \cup {s} -> Int]
    BY <1>4, <2>2
  <2> HIDE DEF o
  <2>4. o \in UNION {[C -> Int] : C \in SUBSET Sections}
    BY <2>3
  <2> QED
    BY <1>2, <2>1, <2>2, <2>4 DEF Maps
<1> QED
  BY <1>7, <1>8

(* The map of a book not read yet is a map.                                 *)
LEMMA UnseenTyped == Unseen \in Maps
<1> DEFINE none == <<>>
           all  == UNION {[D -> Int] : D \in SUBSET Sections}
<1>1. none \in [{} -> Int] /\ {} \in SUBSET Sections
  OBVIOUS
<1> HIDE DEF none
<1>2. none \in all
  BY <1>1
<1>3. Unseen = [totals |-> {}, offsets |-> none, section |-> 0, page |-> 0]
  BY DEF Unseen, none
<1> HIDE DEF all
<1>4. Maps = [totals : SUBSET Sections, offsets : all, section : Int, page : Int]
  BY DEF Maps, all
<1>5. {} \in SUBSET Sections
  OBVIOUS
<1> QED
  BY <1>2, <1>3, <1>4, <1>5

(* A book has a first page.                                                 *)
LEMMA FirstPlace == 1 \in Places
<1>1. \A s \in Sections : Starts[s] \in Nat
  BY Layout
<1>2. Len(Starts) - 1 \in Sections /\ Len(Starts) \in Nat
  BY Layout DEF Sections
<1>3. Starts[Len(Starts)] \in Nat /\ Starts[Len(Starts) - 1] < Starts[Len(Starts)]
  BY <1>2, TurnsAssumption, Layout
<1>4. Starts[Len(Starts)] >= 1
  BY <1>1, <1>2, <1>3
<1> QED
  BY <1>3, <1>4 DEF Places

(* The types hold at first.                                                 *)
LEMMA InitTyped == Init => Typed
<1> SUFFICES ASSUME Init PROVE Typed
  OBVIOUS
<1>3. map \in Maps
  BY UnseenTyped DEF Init
<1>4. 1 \in Places /\ Resting
  BY FirstPlace DEF Init, Resting
<1>5. disk \in [Books -> Maps]
  BY UnseenTyped DEF Init
<1>6. base \in [Books -> Int]
  BY DEF Init
<1>7. TypeOK
  <2>1. moves \in Seq([step : {-1, 0, 1}, to : {0} \cup Places])
    BY DEF Init
  <2>2. 0 \in -QueueLimit..QueueLimit /\ 0 \in -PendingLimit..PendingLimit
    BY Limits
  <2> QED
    BY <1>4, <2>1, <2>2 DEF Init, TypeOK
<1> QED
  BY <1>3, <1>4, <1>5, <1>6, <1>7 DEF Typed, Init, Resting

(* So is a place to go to.                                                  *)
LEMMA GoOrdered ==
  ASSUME NEW p \in Places
  PROVE  GoTo(p) \in Orders
BY DEF GoTo, Orders

(* What epub.js carries out, and what it has left to do.                    *)
LEMMA MoveTyped ==
  ASSUME Typed, moves # <<>>
  PROVE  Tail(moves) \in Seq(Orders) /\ Head(moves) \in Orders
<1>1. moves \in Seq(Orders)
  BY DEF Typed, TypeOK, Orders
<1> QED
  BY <1>1

(* Every step keeps the types.                                              *)
LEMMA TypedStep ==
  ASSUME Typed, [Next]_vars
  PROVE  Typed'
<1>0. /\ moves \in Seq(Orders) /\ queue \in Int /\ pending \in Int
      /\ 0 \in -QueueLimit..QueueLimit /\ 0 \in -PendingLimit..PendingLimit
  BY Limits DEF Typed, TypeOK, Orders
<1>1. ASSUME NEW q \in -QueueLimit..QueueLimit, NEW lock \in BOOLEAN, NEW armed \in BOOLEAN, NEW quiet,
             Process(q, lock, armed, quiet), callbacks' \in Nat,
             UNCHANGED <<book, mounted, place, shown, reports, map, disk, base>>
      PROVE  Typed'
  <2>1. /\ queue' \in -QueueLimit..QueueLimit /\ pending' \in -PendingLimit..PendingLimit
        /\ locked' \in BOOLEAN /\ timer' \in BOOLEAN /\ moves' \in Seq(Orders)
        /\ ~mounted => UNCHANGED moves
    BY <1>1, ProcessTyped
  <2> QED
    BY <1>1, <2>1 DEF Typed, TypeOK, Orders, Resting
<1>2. ASSUME NEW step \in {-1, 1}, Click(step) PROVE Typed'
  <2>1. AtMost(QueueLimit, queue + step) \in -QueueLimit..QueueLimit
    <3>1. queue + step \in Int
      BY <1>0
    <3> QED
      BY <3>1, Signs, Limits
  <2> QED
    BY <1>1, <1>2, <2>1 DEF Click, Typed, TypeOK
<1>3. CASE TimerFires
  BY <1>1, <1>3 DEF TimerFires, Typed, TypeOK
<1>4. CASE Callback
  <2>1. callbacks' \in Nat
    BY <1>4 DEF Callback, Typed, TypeOK
  <2> QED
    BY <1>1, <1>4, <2>1 DEF Callback, Typed, TypeOK
<1>5. CASE Move \/ MoveFails
  <2>1. moves # <<>> /\ moves' \in Seq(Orders) /\ reports' \in Nat /\ mounted
    <3>1. moves # <<>> /\ moves' = Tail(moves) /\ reports' \in {reports, reports + 1}
      BY <1>5 DEF Move, MoveFails
    <3>2. reports \in Nat /\ mounted
      BY <3>1 DEF Typed, TypeOK, Resting
    <3> QED
      BY <3>1, <3>2, MoveTyped
  <2>2. place' \in Places
    <3>1. CASE Move
      <4>1. Head(moves) \in Orders
        BY <2>1, MoveTyped
      <4> QED
        BY <3>1, <4>1 DEF Move, Orders, Typed, TypeOK
    <3>2. CASE MoveFails
      BY <3>2 DEF MoveFails, Typed, TypeOK
    <3> QED
      BY <1>5, <3>1, <3>2
  <2> QED
    BY <1>5, <2>1, <2>2 DEF Move, MoveFails, Typed, TypeOK, Orders, Resting, turner
<1>6. ASSUME CountPage
      PROVE  /\ map' \in Maps /\ disk' \in [Books -> Maps] /\ base' \in [Books -> Int]
             /\ pending' \in -PendingLimit..PendingLimit
  <2>1. place \in Places /\ place \in Int
    BY Layout DEF Typed, TypeOK
  <2>2. SectionOf(place) \in Sections /\ PageIn(place) \in Int
    BY <2>1, SectionFound, Layout DEF PageIn
  <2>3. map' \in Maps
    BY <1>6, <2>2, RenumberedTyped DEF CountPage
  <2>4. disk' \in [Books -> Maps]
    BY <1>6, <2>3 DEF CountPage, Typed
  <2>5. base' \in [Books -> Int]
    <3>1. 1 - place \in Int
      BY <2>1
    <3> QED
      BY <1>6, <3>1 DEF CountPage, Typed
  <2>6. pending' \in -PendingLimit..PendingLimit
    BY <1>6, Limits DEF CountPage, Outstanding, Sign, Typed, TypeOK
  <2> QED
    BY <2>3, <2>4, <2>5, <2>6
<1>8. CASE Relocated
  <2>1. callbacks' \in Nat /\ reports' \in Nat /\ mounted
    BY <1>8 DEF Relocated, Scheduled, Typed, TypeOK, Resting
  <2> QED
    BY <1>6, <1>8, <2>1 DEF Relocated, Typed, TypeOK
<1>14. CASE SyncLocation
  BY <1>6, <1>14 DEF SyncLocation, engine, Typed, TypeOK, Resting
<1>7. ASSUME NEW b \in Books \cup {NoBook}, NEW stored \in Maps, Reset(b, stored) PROVE Typed'
  <2>1. moves' \in Seq([step : {-1, 0, 1}, to : {0} \cup Places])
    BY <1>7 DEF Reset
  <2>2. place' \in Places
    BY <1>7, FirstPlace DEF Reset
  <2> QED
    BY <1>0, <1>7, <2>1, <2>2 DEF Reset, Typed, TypeOK, Resting
<1>9. ASSUME NEW b \in Books, OpenReader(b) PROVE Typed'
  BY <1>7, <1>9 DEF OpenReader, Typed
<1>10. CASE CloseReader
  BY <1>7, UnseenTyped, <1>10 DEF CloseReader
<1>11. ASSUME NEW p \in Places, Mount(p) PROVE Typed'
  <2>1. moves' \in Seq(Orders)
    BY <1>11, GoOrdered DEF Mount
  <2> QED
    BY <1>11, <2>1 DEF Mount, Typed, TypeOK, Orders, turner
<1>12. ASSUME NEW p \in Places, Display(p) PROVE Typed'
  <2>1. moves' \in Seq(Orders)
    BY <1>0, <1>12, GoOrdered DEF Display
  <2> QED
    BY <1>12, <2>1 DEF Display, Typed, TypeOK, Orders, turner
<1>13. CASE UNCHANGED vars
  BY <1>13 DEF vars, engine, turner, Typed, TypeOK, Resting
<1> QED
  BY <1>2, <1>3, <1>4, <1>5, <1>8, <1>9, <1>10, <1>11, <1>12, <1>13, <1>14 DEF Next

-----------------------------------------------------------------------------
(* Shapes                                                                   *)

(* What epub.js has to do, while nothing odd happens.                       *)
Idle    == Resting /\ ~locked /\ ~timer /\ pending = 0
Shut    == ~mounted /\ Idle /\ queue = 0 /\ callbacks = 0
Waiting == mounted /\ shown /\ Idle /\ ~Unnumbered
Turning ==
  /\ mounted /\ shown /\ locked /\ ~Unnumbered /\ pending \in {-1, 0, 1}
  /\ \/ moves = <<Turn(pending)>> /\ reports = 0 /\ pending # 0
     \/ moves = <<>> /\ reports = 1   \* syncEpubLocation may have counted it already
Going ==
  /\ mounted /\ ~locked /\ ~timer /\ queue = 0 /\ callbacks = 0 /\ pending = 0
  /\ \/ reports = 0 /\ \E p \in Places : moves = <<GoTo(p)>>
     \/ reports = 1 /\ moves = <<>> /\ shown

Shapes == calm => Shut \/ Waiting \/ Turning \/ Going

(* Where the reader will be when epub.js has done what it was told.         *)
Goal == IF moves = <<>> THEN place ELSE IF moves[1].to # 0 THEN moves[1].to ELSE place + pending

(* A page has a number that the reader can show.                            *)
Numbered(p) == p \in Places /\ base[book] + p >= 1

(* A map that counts from b: offset of a section, and the section of p.     *)
CountsFrom(m, b) == \A s \in DOMAIN m.offsets : s \in Sections /\ m.offsets[s] = b + Starts[s]
Covers(m, p)     == DOMAIN m.offsets = {} \/ SectionOf(p) \in DOMAIN m.offsets
Stored == \A b \in Books : CountsFrom(disk[b], base[b])
Opened ==
  book # NoBook =>
    /\ CountsFrom(map, base[book])
    /\ ~mounted => map = disk[book]
    /\ Going => Covers(map, Goal) /\ (shown => Covers(map, place))
    /\ Going /\ shown /\ moves # <<>> => ~Unnumbered
Counted ==
  /\ Waiting => /\ map.page = base[book] + place /\ Covers(map, place)
                /\ queue # 0 => Numbered(place) /\ Numbered(place + queue)
  /\ Turning => /\ map.page = base[book] + Goal - pending
                /\ pending = 0 => Covers(map, place)
                /\ Numbered(Goal) /\ Numbered(Goal + queue)

Numbers == calm /\ ~PastEnds => Stored /\ Opened /\ Counted

-----------------------------------------------------------------------------

(* At first the reader is shut.                                             *)
LEMMA InitShapes == Init => Shapes
BY DEF Init, Shapes, Shut, Idle, Resting

(* A turn that is the only one outstanding is counted as it is.             *)
LEMMA Steps ==
  /\ Sign(0) = 0 /\ Sign(1) = 1 /\ Sign(-1) = -1
  /\ \A n \in {-1, 1} : AtMost(PendingLimit, 0 + n) = n
BY Limits DEF Sign, AtMost

(* With a turn under way the others wait; otherwise the next one starts.    *)
LEMMA ProcessCalm ==
  ASSUME Typed, NEW q \in Int, Waiting \/ Turning, NEW quiet,
         Process(q, locked, timer, quiet), calm'
  PROVE  /\ quiet
         /\ \/ queue' = q /\ UNCHANGED <<moves, pending, locked, timer>> /\ (Turning \/ q = 0)
            \/ /\ Waiting /\ q # 0 /\ queue' = q - pending' /\ pending' = Sign(q)
               /\ pending' \in {-1, 1} /\ locked' = TRUE /\ moves' = <<Turn(pending')>>
<1>1. mounted
  BY DEF Waiting, Turning
<1>2. CASE /\ mounted /\ (locked \/ q = 0)
           /\ queue' = q /\ locked' = locked /\ timer' = timer /\ calm' = quiet
           /\ UNCHANGED <<moves, pending>>
  BY <1>2 DEF Waiting, Turning, Idle
<1>3. CASE /\ mounted /\ ~locked /\ q # 0
           /\ queue' = q - Sign(q) /\ timer' = TRUE
           /\ pending' = AtMost(PendingLimit, pending + Sign(q))
           /\ moves' = Append(moves, Turn(Sign(q))) /\ locked' = TRUE /\ calm' = quiet
  <2>1. Waiting /\ pending = 0 /\ moves = <<>>
    BY <1>3 DEF Waiting, Turning, Idle, Resting
  <2>2. Sign(q) \in {-1, 1}
    BY <1>3, Signs
  <2>3. pending' = Sign(q)
    BY <1>3, <2>1, <2>2, Steps
  <2>4. moves' = <<Turn(Sign(q))>>
    BY <1>3, <2>1
  <2> QED
    BY <1>3, <2>1, <2>2, <2>3, <2>4
<1> QED
  BY <1>1, <1>2, <1>3 DEF Process

(* Either way the reader is left waiting, or with one turn under way.       *)
LEMMA ProcessShape ==
  ASSUME Typed, NEW q \in Int, Waiting \/ Turning, NEW quiet,
         Process(q, locked, timer, quiet), calm', UNCHANGED <<mounted, shown, reports, map>>
  PROVE  (Waiting \/ Turning)'
<1>1. CASE queue' = q /\ UNCHANGED <<moves, pending, locked, timer>> /\ (Turning \/ q = 0)
  BY <1>1 DEF Waiting, Turning, Idle, Resting, Unnumbered
<1>2. CASE /\ Waiting /\ q # 0 /\ queue' = q - pending' /\ pending' = Sign(q)
           /\ pending' \in {-1, 1} /\ locked' = TRUE /\ moves' = <<Turn(pending')>>
  <2>1. mounted' /\ shown' /\ ~Unnumbered' /\ reports' = 0
    BY <1>2 DEF Waiting, Idle, Resting, Unnumbered
  <2> QED
    BY <1>2, <2>1 DEF Turning, Turn
<1> QED
  BY <1>1, <1>2, ProcessCalm

(* The section of the page that is reported is known from then on.          *)
LEMMA RenumberedDomain ==
  ASSUME NEW s, NEW page
  PROVE  /\ DOMAIN Renumbered(s, page).offsets = DOMAIN map.offsets \cup {s}
         /\ DOMAIN Renumbered(s, page).offsets # {}
<1>1. \A o : DOMAIN With(map.offsets, s, o) = DOMAIN map.offsets \cup {s}
  BY DEF With
<1>2. CASE Unnumbered
  <2> DEFINE o == With(map.offsets, s, 1 - page)
  <2>1. Renumbered(s, page).offsets = o
    BY <1>2 DEF Renumbered
  <2> QED
    BY <1>1, <2>1
<1>3. CASE ~Unnumbered
  <2> DEFINE offset == IF pending = 0 THEN Offset(s) ELSE Number(s, page) - page
             o == With(map.offsets, s, offset)
  <2>1. Renumbered(s, page).offsets = o
    BY <1>3 DEF Renumbered
  <2> HIDE DEF offset
  <2> QED
    BY <1>1, <2>1
<1> QED
  BY <1>2, <1>3

(* What was odd stays so.                                                   *)
LEMMA CalmBefore ==
  ASSUME [Next]_vars, calm'
  PROVE  calm
<1>1. \A q, lock, armed, quiet : Process(q, lock, armed, quiet) /\ calm' => quiet
  BY DEF Process
<1>2. ASSUME NEW step \in {-1, 1}, Click(step) PROVE calm
  BY <1>1, <1>2 DEF Click
<1>3. CASE TimerFires
  BY <1>3 DEF TimerFires, Process
<1>8. CASE Callback
  BY <1>8 DEF Callback, Process
<1>4. CASE Move \/ MoveFails \/ Relocated \/ SyncLocation \/ UNCHANGED vars
  BY <1>4 DEF Move, MoveFails, Relocated, SyncLocation, vars
<1>5. CASE CloseReader
  BY <1>5 DEF CloseReader, Reset
<1>6. ASSUME NEW b, OpenReader(b) PROVE calm
  BY <1>6 DEF OpenReader, Reset
<1>7. ASSUME NEW p, Mount(p) \/ Display(p) PROVE calm
  BY <1>7 DEF Mount, Display
<1> QED
  BY <1>2, <1>3, <1>4, <1>5, <1>6, <1>7, <1>8 DEF Next

(* Epub.js has one thing to carry out or to report.                         *)
LEMMA GoingOne == (Going \/ Turning) => Len(moves) + reports = 1
<1>1. \A x : moves = <<x>> => Len(moves) = 1
  OBVIOUS
<1>2. ASSUME reports = 0, NEW x, moves = <<x>> PROVE Len(moves) + reports = 1
  BY <1>1, <1>2
<1>3. ASSUME reports = 1, moves = <<>> PROVE Len(moves) + reports = 1
  <2>1. Len(moves) = 0
    BY <1>3
  <2> QED
    BY <1>3, <2>1
<1>4. CASE Going
  BY <1>2, <1>3, <1>4 DEF Going
<1>5. CASE Turning
  BY <1>2, <1>3, <1>5 DEF Turning
<1> QED
  BY <1>4, <1>5

(* Every step leads from shape to shape.                                    *)
LEMMA ShapesStep ==
  ASSUME Typed, Shapes, [Next]_vars
  PROVE  Shapes'
<1> SUFFICES ASSUME calm' PROVE (Shut \/ Waiting \/ Turning \/ Going)'
  BY DEF Shapes
<1>0. calm /\ (Shut \/ Waiting \/ Turning \/ Going)
  BY CalmBefore DEF Shapes
<1>i. queue \in Int /\ pending \in Int
  BY Limits DEF Typed, TypeOK
<1>q. \A q, lock, armed, quiet : Process(q, lock, armed, quiet) /\ calm' => quiet
  BY DEF Process
<1>1. ASSUME NEW step \in {-1, 1}, Click(step) PROVE (Waiting \/ Turning)'
  <2> DEFINE q == AtMost(QueueLimit, queue + step)
             quiet == calm /\ (~Unnumbered /\ base[book] + Bound + step >= 1) /\ queue + step = q /\ (Resting \/ locked)
  <2>1. q \in Int
    BY <1>i, Limits DEF AtMost
  <2>2. mounted /\ Process(q, locked, timer, quiet) /\ UNCHANGED <<mounted, shown, reports, map>>
    BY <1>1 DEF Click
  <2>3. Resting \/ locked
    BY <1>q, <2>2
  <2>4. Waiting \/ Turning
    BY <1>0, <2>2, <2>3 DEF Shut, Going, Resting
  <2> HIDE DEF q, quiet
  <2> QED
    BY <2>1, <2>2, <2>4, ProcessShape
<1>2. CASE TimerFires
  <2>1. timer /\ Resting
    BY <1>q, <1>2 DEF TimerFires
  <2>2. Turning
    BY <1>0, <2>1 DEF Shut, Waiting, Going, Idle
  <2>3. Len(moves) + reports = 1
    BY <2>2, GoingOne
  <2> QED
    BY <2>1, <2>3 DEF Resting
<1>3. CASE Callback
  <2>1. Waiting \/ Turning
    BY <1>0, <1>3 DEF Callback, Shut, Going
  <2> QED
    BY <1>i, <1>3, <2>1, ProcessShape DEF Callback
<1>4. CASE Move
  <2>1. /\ moves # <<>> /\ moves' = Tail(moves) /\ reports' = reports + 1 /\ shown'
        /\ UNCHANGED <<mounted, turner, map>>
    BY <1>4 DEF Move
  <2>2. CASE Turning
    <3>1. reports = 0 /\ moves' = <<>>
      BY <2>1, <2>2 DEF Turning
    <3> QED
      BY <2>1, <2>2, <3>1 DEF Turning, turner, Unnumbered
  <2>3. CASE Going
    <3>1. reports = 0 /\ moves' = <<>>
      BY <2>1, <2>3 DEF Going
    <3> QED
      BY <2>1, <2>3, <3>1 DEF Going, turner
  <2> QED
    BY <1>0, <2>1, <2>2, <2>3 DEF Shut, Waiting, Idle, Resting
<1>5. CASE MoveFails
  BY <1>5 DEF MoveFails
<1>6. CASE Relocated
  <2>1. /\ (Turning \/ Going) /\ moves = <<>> /\ reports = 1
    BY <1>0, <1>6 DEF Relocated, Shut, Waiting, Idle, Resting, Turning, Going
  <2>2. pending' = 0
    BY <1>6, <2>1, Steps DEF Relocated, CountPage, Outstanding, Turning, Going
  <2>3. ~Unnumbered'
    BY <1>6, RenumberedDomain DEF Relocated, CountPage, Unnumbered
  <2>4. mounted /\ shown
    BY <2>1 DEF Turning, Going
  <2> QED
    BY <1>6, <2>1, <2>2, <2>3, <2>4 DEF Relocated, Waiting, Idle, Resting
<1>7. ASSUME NEW b, NEW stored, Reset(b, stored) PROVE Shut'
  BY <1>7 DEF Reset, Shut, Idle, Resting, Still
<1>8. CASE CloseReader
  BY <1>7, <1>8 DEF CloseReader
<1>9. ASSUME NEW b \in Books, OpenReader(b) PROVE Shut'
  BY <1>7, <1>9 DEF OpenReader
<1>10. ASSUME NEW p \in Places, Mount(p) PROVE Going'
  BY <1>0, <1>10 DEF Mount, Shut, Waiting, Turning, Going, Idle, Resting, turner
<1>13. CASE SyncLocation
  <2>1. /\ mounted /\ (pending = 0 \/ moves = <<>>) /\ pending' = Outstanding
        /\ map' = Renumbered(SectionOf(place), PageIn(place))
        /\ UNCHANGED <<mounted, shown, moves, reports, queue, locked, timer, callbacks>>
    BY <1>13 DEF SyncLocation, CountPage, engine
  <2>2. ~Unnumbered'
    BY <2>1, RenumberedDomain DEF Unnumbered
  <2>3. pending' = 0
    BY <1>0, <2>1, Steps DEF Outstanding, Shut, Waiting, Turning, Going, Idle
  <2> QED
    BY <1>0, <2>1, <2>2, <2>3 DEF Shut, Waiting, Turning, Going, Idle, Resting
<1>11. ASSUME NEW p \in Places, Display(p) PROVE Going'
  <2>0. mounted /\ Still /\ moves = <<>> /\ moves' = Append(moves, GoTo(p))
    BY <1>11 DEF Display, Still, Resting
  <2>1. mounted /\ Still /\ moves = <<>> /\ moves' = <<GoTo(p)>>
    BY <2>0
  <2>2. pending = 0
    BY <1>0, <2>1 DEF Shut, Waiting, Turning, Going, Idle, Still, Resting
  <2> QED
    BY <1>11, <2>1, <2>2 DEF Display, Going, turner, Still, Resting
<1>12. CASE UNCHANGED vars
  BY <1>0, <1>12 DEF vars, engine, turner, Shut, Waiting, Turning, Going, Idle, Resting, Unnumbered
<1> QED
  BY <1>1, <1>2, <1>3, <1>4, <1>5, <1>6, <1>8, <1>9, <1>10, <1>11, <1>12, <1>13 DEF Next

(* In every shape the lock stands for one turn.                             *)
LEMMA ShapesGiveOneTurn == Typed /\ Shapes => OneTurn
<1> SUFFICES ASSUME Typed, Shapes, calm, locked PROVE Len(moves) + reports = 1
  BY DEF Typed, OneTurn
<1>1. Turning
  BY DEF Shapes, Shut, Waiting, Going, Idle
<1> QED
  BY <1>1, GoingOne

(* Turns are taken one at a time: as long as nothing odd happens, whenever  *)
(* processEpubTurnQueue holds the lock epub.js has exactly one turn to carry*)
(* out or to report, however clicks, timer, callbacks and relocated events  *)
(* interleave, at both ends of the book, and across closing and opening.    *)
THEOREM OneTurnAlways == Spec => []OneTurn
<1>1. Init => Typed /\ Shapes
  BY InitTyped, InitShapes
<1>2. (Typed /\ Shapes) /\ [Next]_vars => (Typed /\ Shapes)'
  BY TypedStep, ShapesStep
<1> QED
  BY <1>1, <1>2, ShapesGiveOneTurn, PTL DEF Spec

-----------------------------------------------------------------------------

(* Numbers                                                                  *)

(* Counting a page whose section is known, or to which a turn led: the map  *)
(* goes on counting from the same place.                                    *)
LEMMA RenumberedCounts ==
  ASSUME Typed, NEW b \in Int, NEW p \in Places, CountsFrom(map, b), ~Unnumbered,
         \/ pending = 0 /\ SectionOf(p) \in DOMAIN map.offsets
         \/ pending \in {-1, 1} /\ map.page + pending = b + p /\ b + p >= 1
  PROVE  /\ Renumbered(SectionOf(p), PageIn(p)).page = b + p
         /\ CountsFrom(Renumbered(SectionOf(p), PageIn(p)), b)
<1> DEFINE s == SectionOf(p)
           page == PageIn(p)
           number == Number(s, page)
           offset == IF pending = 0 THEN Offset(s) ELSE number - page
           o == With(map.offsets, s, offset)
<1>1. /\ s \in Sections /\ Starts[s] \in Int /\ p \in Int /\ page = p - Starts[s]
      /\ \A x \in DOMAIN map.offsets : x \in Sections /\ map.offsets[x] = b + Starts[x]
  BY SectionFound, Layout DEF PageIn, CountsFrom
<1>2. /\ Renumbered(s, page).page = number /\ Renumbered(s, page).offsets = o
  BY DEF Renumbered
<1>3. number = b + p /\ offset = b + Starts[s]
  <2>1. CASE pending = 0 /\ s \in DOMAIN map.offsets
    <3>1. Offset(s) = b + Starts[s]
      BY <1>1, <2>1 DEF Offset, Known
    <3> QED
      BY <1>1, <2>1, <3>1 DEF Number
  <2>2. CASE pending \in {-1, 1} /\ map.page + pending = b + p /\ b + p >= 1
    <3>1. Sign(pending) = pending
      BY <2>2, Steps
    <3>2. number = b + p
      BY <1>1, <2>2, <3>1 DEF Number, Larger
    <3> HIDE DEF number
    <3> QED
      BY <1>1, <2>2, <3>2
  <2> QED
    BY <2>1, <2>2
<1> HIDE DEF number, offset
<1>4. /\ DOMAIN o = DOMAIN map.offsets \cup {s}
      /\ \A x \in DOMAIN o : o[x] = IF x = s THEN offset ELSE map.offsets[x]
  BY DEF With
<1> HIDE DEF o, s, page
<1>5. CountsFrom(Renumbered(s, page), b)
  BY <1>1, <1>2, <1>3, <1>4 DEF CountsFrom
<1> QED
  BY <1>2, <1>3, <1>5 DEF s, page

(* Counting the first page that is reported: the map begins to count        *)
(* there.                                                                   *)
LEMMA FirstCounts ==
  ASSUME Typed, NEW p \in Places, Unnumbered
  PROVE  /\ Renumbered(SectionOf(p), PageIn(p)).page = (1 - p) + p
         /\ CountsFrom(Renumbered(SectionOf(p), PageIn(p)), 1 - p)
<1> DEFINE s == SectionOf(p)
           page == PageIn(p)
           n == 1 - page
           o == With(map.offsets, s, n)
<1>1. /\ s \in Sections /\ Starts[s] \in Int /\ p \in Int /\ page = p - Starts[s]
  BY SectionFound, Layout DEF PageIn
<1>2. /\ Renumbered(s, page).page = 1 /\ Renumbered(s, page).offsets = o
  BY DEF Renumbered
<1>3. n = (1 - p) + Starts[s]
  BY <1>1
<1> HIDE DEF n
<1>4. DOMAIN o = {s} /\ o[s] = n
  BY DEF With, Unnumbered
<1> HIDE DEF o, s, page
<1>5. CountsFrom(Renumbered(s, page), 1 - p)
  BY <1>1, <1>2, <1>3, <1>4 DEF CountsFrom
<1> QED
  BY <1>1, <1>2, <1>5 DEF s, page

(* What is stored, when one book's map and count are replaced.              *)
LEMMA StoredStep ==
  ASSUME Typed, Stored, book \in Books, NEW b \in Int, NEW m, CountsFrom(m, b),
         disk' = [disk EXCEPT ![book] = m], base' = [base EXCEPT ![book] = b]
  PROVE  Stored' /\ base'[book] = b
<1>1. disk \in [Books -> Maps] /\ base \in [Books -> Int]
  BY DEF Typed
<1>2. ASSUME NEW c \in Books PROVE CountsFrom(disk'[c], base'[c])
  <2>1. CASE c = book
    BY <1>1, <2>1
  <2>2. CASE c # book
    <3>1. disk'[c] = disk[c] /\ base'[c] = base[c]
      BY <1>1, <2>2
    <3> QED
      BY <3>1 DEF Stored
  <2> QED
    BY <2>1, <2>2
<1> QED
  BY <1>1, <1>2 DEF Stored

(* Counting the first page of a book.                                       *)
LEMMA CountPageFirst ==
  ASSUME Typed, Stored, book \in Books, CountPage, Unnumbered
  PROVE  /\ Stored' /\ map'.page = base'[book] + place /\ CountsFrom(map', base'[book])
         /\ SectionOf(place) \in DOMAIN map'.offsets /\ DOMAIN map.offsets \subseteq DOMAIN map'.offsets
<1> DEFINE m == Renumbered(SectionOf(place), PageIn(place))
           b == 1 - place
<1>1. place \in Places /\ place \in Int /\ b \in Int
  BY Layout DEF Typed, TypeOK
<1>2. m.page = b + place /\ CountsFrom(m, b) /\ DOMAIN m.offsets = DOMAIN map.offsets \cup {SectionOf(place)}
  BY <1>1, FirstCounts, RenumberedDomain
<1>3. map' = m /\ disk' = [disk EXCEPT ![book] = m] /\ base' = [base EXCEPT ![book] = b]
  BY DEF CountPage
<1> HIDE DEF m, b
<1> QED
  BY <1>1, <1>2, <1>3, StoredStep

(* Counting another one.                                                    *)
LEMMA CountPageOn ==
  ASSUME Typed, Stored, book \in Books, CountPage, ~Unnumbered, CountsFrom(map, base[book]),
         \/ pending = 0 /\ SectionOf(place) \in DOMAIN map.offsets
         \/ pending \in {-1, 1} /\ map.page + pending = base[book] + place /\ base[book] + place >= 1
  PROVE  /\ Stored' /\ map'.page = base'[book] + place /\ CountsFrom(map', base'[book])
         /\ SectionOf(place) \in DOMAIN map'.offsets /\ DOMAIN map.offsets \subseteq DOMAIN map'.offsets
         /\ base' = base
<1> DEFINE m == Renumbered(SectionOf(place), PageIn(place))
           b == base[book]
<1>1. place \in Places /\ place \in Int /\ b \in Int /\ base \in [Books -> Int]
  BY Layout DEF Typed, TypeOK
<1>2. m.page = b + place /\ CountsFrom(m, b) /\ DOMAIN m.offsets = DOMAIN map.offsets \cup {SectionOf(place)}
  BY <1>1, RenumberedCounts, RenumberedDomain
<1>3. map' = m /\ disk' = [disk EXCEPT ![book] = m] /\ base' = base
  BY DEF CountPage
<1>4. base' = [base EXCEPT ![book] = b]
  BY <1>1, <1>3
<1> HIDE DEF m, b
<1> QED
  BY <1>1, <1>2, <1>3, <1>4, StoredStep

(* What epub.js was told, when it is at most one turn.                      *)
LEMMA ToldOne ==
  /\ moves = <<>> => Told(1) = 0 /\ Told(-1) = 0
  /\ \A n \in {-1, 1} : moves = <<Turn(n)>> => Told(n) = 1 /\ Told(-n) = 0
<1>1. CASE moves = <<>>
  <2>1. \A k : {i \in DOMAIN moves : moves[i].step = k} = {}
    BY <1>1
  <2> QED
    BY <1>1, <2>1, FS_EmptySet DEF Told
<1>2. ASSUME NEW n \in {-1, 1}, moves = <<Turn(n)>> PROVE Told(n) = 1 /\ Told(-n) = 0
  <2>1. DOMAIN moves = {1} /\ moves[1].step = n
    BY <1>2 DEF Turn
  <2>2. {i \in DOMAIN moves : moves[i].step = n} = {1}
    BY <2>1
  <2>3. {i \in DOMAIN moves : moves[i].step = -n} = {}
    BY <2>1
  <2> QED
    BY <2>2, <2>3, FS_EmptySet, FS_Singleton DEF Told
<1> QED
  BY <1>1, <1>2, FS_EmptySet DEF Told

(* Where the queued turns lead.                                             *)
LEMMA BoundIs ==
  ASSUME Typed, Waiting \/ Turning
  PROVE  Bound = Goal + queue /\ Goal \in Int /\ (Waiting => Goal = place)
<1>1. place \in Int /\ queue \in Int
  BY Layout, Limits DEF Typed, TypeOK
<1>2. CASE moves = <<>>
  BY <1>1, <1>2, ToldOne DEF Bound, Goal
<1>3. CASE moves = <<Turn(pending)>> /\ pending \in {-1, 1} /\ Turning
  <2>1. Goal = place + pending
    BY <1>3 DEF Goal, Turn
  <2>2. Told(pending) = 1 /\ Told(-pending) = 0
    BY <1>3, ToldOne
  <2>3. Told(1) - Told(-1) = pending
    BY <1>3, <2>2
  <2>4. ~Waiting
    BY <1>3 DEF Waiting, Turning, Idle
  <2> QED
    BY <1>1, <1>3, <2>1, <2>2, <2>4 DEF Bound
<1> QED
  BY <1>2, <1>3 DEF Waiting, Turning, Idle, Resting

(* A page between two that have numbers has one.                            *)
LEMMA Between ==
  ASSUME NEW p \in Int, NEW q \in Int, q # 0, Numbered(p), Numbered(p + q), base \in [Books -> Int], book \in Books
  PROVE  Numbered(p + Sign(q))
<1>1. base[book] \in Int
  OBVIOUS
<1>2. Starts[Len(Starts)] \in Int
  BY Layout
<1> QED
  BY <1>1, <1>2 DEF Numbered, Places, Sign

(* No page has a number at first.                                           *)
LEMMA InitNumbers == Init => Numbers
<1> SUFFICES ASSUME Init PROVE Stored /\ Opened /\ Counted
  BY DEF Numbers
<1>1. \A b \in Books : disk[b] = Unseen
  BY DEF Init
<1>2. DOMAIN Unseen.offsets = {}
  BY DEF Unseen
<1> QED
  BY <1>1, <1>2 DEF Init, Stored, Opened, Counted, CountsFrom, Covers, Waiting, Turning

(* The shapes exclude each other.                                           *)
LEMMA Apart ==
  /\ Going => ~Waiting /\ ~Turning
  /\ Waiting => ~Turning
  /\ Shut => ~Waiting /\ ~Turning /\ ~Going
<1>1. Going => Len(moves) + reports = 1
  BY GoingOne
<1>2. Waiting => Len(moves) + reports = 0
  BY DEF Waiting, Idle, Resting
<1> QED
  BY <1>1, <1>2 DEF Going, Waiting, Turning, Shut, Idle

(* Processing a queue whose turns all lead to pages with numbers.           *)
LEMMA ProcessNumbers ==
  ASSUME Typed, NEW q \in Int, Waiting \/ Turning, NEW quiet,
         Process(q, locked, timer, quiet), calm', Stored, Opened, Counted,
         q # 0 => Numbered(Goal + q),
         Waiting /\ q # 0 => Numbered(Goal + Sign(q)),
         Turning => Numbered(Goal + q),
         UNCHANGED <<book, mounted, place, shown, reports, map, disk, base>>
  PROVE  (Stored /\ Opened /\ Counted)'
<1>0. place \in Int /\ place \in Places /\ Goal \in Int /\ mounted
  BY BoundIs, Layout DEF Typed, TypeOK, Waiting, Turning
<1>1. Stored'
  BY DEF Stored, CountsFrom, Covers
<1>2. (Waiting \/ Turning)'
  BY ProcessShape
<1>3. ~Going'
  <2>1. (Going => ~Waiting /\ ~Turning)'
    BY Apart, PTL
  <2> QED
    BY <1>2, <2>1
<1>4. Opened'
  BY <1>0, <1>3 DEF Opened, CountsFrom
<1>5. Counted'
  <2>1. CASE queue' = q /\ UNCHANGED <<moves, pending, locked, timer>> /\ (Turning \/ q = 0)
    <3>1. (Waiting' <=> Waiting) /\ (Turning' <=> Turning) /\ Goal' = Goal
      BY <2>1 DEF Waiting, Turning, Idle, Resting, Goal, Unnumbered
    <3>2. ~(Waiting /\ Turning)
      BY DEF Waiting, Turning, Idle
    <3> QED
      BY <2>1, <3>1, <3>2 DEF Counted, Covers, Numbered
  <2>2. CASE /\ Waiting /\ q # 0 /\ queue' = q - pending' /\ pending' = Sign(q)
             /\ pending' \in {-1, 1} /\ locked' = TRUE /\ moves' = <<Turn(pending')>>
    <3>1. Goal = place /\ map.page = base[book] + place
      BY <2>2, BoundIs DEF Counted
    <3>2. Goal' = place + pending'
      BY <2>2 DEF Goal, Turn
    <3>3. ~Waiting'
      BY <2>2 DEF Waiting, Idle
    <3>4. map'.page = base'[book'] + Goal' - pending'
      <4>1. map.page \in Int /\ base[book] \in Int
        BY <1>0 DEF Typed, TypeOK, Maps
      <4> QED
        BY <1>0, <2>2, <3>1, <3>2, <4>1
    <3>5. Numbered(Goal)' /\ Numbered(Goal + queue)'
      <4>1. Goal' = Goal + Sign(q) /\ Goal' + queue' = Goal + q
        BY <1>0, <2>2, <3>1, <3>2
      <4> QED
        BY <2>2, <4>1 DEF Numbered
    <3> QED
      BY <2>2, <3>3, <3>4, <3>5 DEF Counted
  <2> QED
    BY <2>1, <2>2, ProcessCalm
<1> QED
  BY <1>1, <1>4, <1>5

(* Every step keeps the numbers, unless the reader presses on at an end of  *)
(* the book.                                                                *)
LEMMA NumbersStep ==
  ASSUME Typed, Shapes, Numbers, [Next]_vars, ~PastEnds
  PROVE  Numbers'
<1> SUFFICES ASSUME calm' PROVE (Stored /\ Opened /\ Counted)'
  BY DEF Numbers
<1>0. /\ calm /\ (Shut \/ Waiting \/ Turning \/ Going) /\ Stored /\ Opened /\ Counted
      /\ (Shut \/ Waiting \/ Turning \/ Going)'
  BY CalmBefore, ShapesStep DEF Shapes, Numbers
<1>i. /\ queue \in Int /\ pending \in Int /\ place \in Int /\ place \in Places /\ map.page \in Int
      /\ \A b \in Books : base[b] \in Int
      /\ mounted => book \in Books
      /\ book \in Books \cup {NoBook}
  BY Limits, Layout DEF Typed, TypeOK, Maps
<1>m. (Waiting \/ Turning \/ Going => mounted) /\ (mounted => book # NoBook)
  BY DEF Waiting, Turning, Going, Typed
<1>1. ASSUME NEW step \in {-1, 1}, Click(step) PROVE (Stored /\ Opened /\ Counted)'
  <2> DEFINE q == AtMost(QueueLimit, queue + step)
             quiet == calm /\ (~Unnumbered /\ base[book] + Bound + step >= 1) /\ queue + step = q /\ (Resting \/ locked)
  <2>1. /\ Process(q, locked, timer, quiet) /\ UNCHANGED <<book, mounted, place, shown, reports, map, disk, base>>
        /\ mounted /\ (shown => Bound + step \in Places)
    BY <1>1 DEF Click
  <2>2. quiet
    BY <2>1 DEF Process
  <2>3. Waiting \/ Turning
    <3>1. Resting \/ locked
      BY <2>2
    <3>2. ~Going
      BY <3>1, GoingOne DEF Resting, Going
    <3> QED
      BY <1>0, <2>1, <3>2 DEF Shut
  <2>4. q = queue + step /\ Bound = Goal + queue /\ Goal \in Int /\ (Waiting => Goal = place)
    BY <2>2, <2>3, BoundIs
  <2>5. Numbered(Goal + q)
    <3>1. base[book] + Bound + step >= 1 /\ Bound + step = Goal + q
      BY <1>i, <2>2, <2>4
    <3>2. base[book] \in Int /\ Bound \in Int
      BY <1>i, <2>1, <2>4
    <3> HIDE DEF q, quiet
    <3>3. shown
      BY <2>3 DEF Waiting, Turning
    <3> QED
      BY <2>1, <2>4, <3>1, <3>2, <3>3 DEF Numbered
  <2> HIDE DEF quiet
  <2>6. Waiting /\ q # 0 => Numbered(Goal + Sign(q))
    <3> SUFFICES ASSUME Waiting, q # 0 PROVE Numbered(Goal + Sign(q))
      OBVIOUS
    <3>1. CASE queue = 0
      <4>1. q = step /\ Sign(q) = q
        BY <2>4, <3>1, Steps
      <4> HIDE DEF q
      <4> QED
        BY <2>5, <4>1
    <3>2. CASE queue # 0
      <4>1. Numbered(Goal)
        BY <1>0, <2>4, <3>2 DEF Counted
      <4>2. book \in Books /\ base \in [Books -> Int] /\ q \in Int
        BY <1>i, <2>1, <2>4 DEF Typed
      <4> HIDE DEF q
      <4> QED
        BY <2>4, <2>5, <4>1, <4>2, Between
    <3> QED
      BY <3>1, <3>2
  <2>7. q \in Int
    BY <1>i, <2>4
  <2> HIDE DEF q
  <2> QED
    BY <1>0, <2>1, <2>3, <2>5, <2>6, <2>7, ProcessNumbers
<1>2. CASE TimerFires
  <2>1. timer /\ Resting
    BY <1>2 DEF TimerFires, Process
  <2>2. Turning
    BY <1>0, <2>1 DEF Shut, Waiting, Going, Idle
  <2>3. Len(moves) + reports = 1
    BY <2>2, GoingOne
  <2> QED
    BY <2>1, <2>3 DEF Resting
<1>3. CASE Callback
  <2>1. Waiting \/ Turning
    BY <1>0, <1>3 DEF Callback, Shut, Going
  <2>2. Goal \in Int /\ (Waiting => Goal = place)
    BY <2>1, BoundIs
  <2>3. queue # 0 => Numbered(Goal + queue)
    BY <1>0, <2>1, <2>2 DEF Counted
  <2>4. Waiting /\ queue # 0 => Numbered(Goal + Sign(queue))
    <3> SUFFICES ASSUME Waiting, queue # 0 PROVE Numbered(Goal + Sign(queue))
      OBVIOUS
    <3>1. Numbered(Goal)
      BY <1>0, <2>2 DEF Counted
    <3>2. book \in Books /\ base \in [Books -> Int]
      BY <1>i, <1>m DEF Typed
    <3> QED
      BY <1>i, <2>2, <2>3, <3>1, <3>2, Between
  <2>5. Turning => Numbered(Goal + queue)
    BY <1>0 DEF Counted
  <2> QED
    BY <1>0, <1>i, <1>3, <2>1, <2>3, <2>4, <2>5, ProcessNumbers DEF Callback
<1>4. CASE Move
  <2>1. /\ moves # <<>> /\ moves' = Tail(moves) /\ reports' = reports + 1 /\ shown'
        /\ UNCHANGED <<book, mounted, turner, map, disk, base>>
    BY <1>4 DEF Move
  <2>2. Turning \/ Going
    BY <1>0, <2>1 DEF Shut, Waiting, Idle, Resting
  <2>3. moves' = <<>> /\ place' = Goal
    <3>1. CASE Turning
      <4>1. moves = <<Turn(pending)>> /\ pending \in {-1, 1}
        BY <2>1, <3>1 DEF Turning
      <4>2. moves' = <<>> /\ Head(moves) = Turn(pending) /\ Goal = place + pending
        BY <2>1, <4>1 DEF Goal, Turn
      <4>3. Goal \in Places
        BY <1>0, <3>1 DEF Counted, Numbered
      <4> QED
        BY <1>4, <4>2, <4>3 DEF Move, Turn
    <3>2. CASE Going
      <4>1. PICK p \in Places : moves = <<GoTo(p)>>
        BY <2>1, <3>2 DEF Going
      <4>2. moves' = <<>> /\ Head(moves) = GoTo(p) /\ p # 0
        BY <2>1, <4>1, Layout
      <4>3. Goal = p
        BY <4>1, <4>2 DEF Goal, GoTo
      <4> QED
        BY <1>4, <4>2, <4>3 DEF Move, GoTo
    <3> QED
      BY <2>2, <3>1, <3>2
  <2>4. Goal' = Goal
    BY <2>3 DEF Goal
  <2>5. ~Waiting' /\ (Turning' => Turning) /\ (Going' => Going)
    <3>1. ~Waiting'
      <4>1. reports' # 0
        BY <2>1 DEF Typed, TypeOK
      <4> QED
        BY <4>1 DEF Waiting, Idle, Resting
    <3>2. Turning' => ~Going
      BY <2>1 DEF Turning, Going, turner
    <3>3. Going' => ~Turning
      BY <2>1 DEF Turning, Going, turner
    <3> QED
      BY <2>2, <3>1, <3>2, <3>3
  <2>6. Stored'
    BY <1>0, <2>1 DEF Stored, CountsFrom, Covers
  <2>7. Opened'
    BY <1>0, <2>1, <2>3, <2>4, <2>5 DEF Opened, CountsFrom, Covers
  <2>8. Counted'
    <3>1. Turning => pending # 0
      BY <2>1 DEF Turning
    <3> QED
      <4>1. pending' = pending /\ queue' = queue /\ map' = map /\ base' = base /\ book' = book
        BY <2>1 DEF turner
      <4>2. Turning' => /\ map.page = base[book] + Goal - pending
                        /\ Numbered(Goal) /\ Numbered(Goal + queue) /\ pending # 0
        BY <1>0, <2>5, <3>1 DEF Counted
      <4> QED
        BY <2>4, <2>5, <4>1, <4>2 DEF Counted, Numbered
  <2> QED
    BY <2>6, <2>7, <2>8
<1>5. CASE MoveFails
  BY <1>5 DEF MoveFails
<1>c. ASSUME CountPage, mounted,
             \/ Waiting
             \/ (Turning \/ Going) /\ moves = <<>>
             \/ Going /\ ~Unnumbered /\ SectionOf(place) \in DOMAIN map.offsets
      PROVE  /\ Stored' /\ map'.page = base'[book] + place /\ CountsFrom(map', base'[book])
             /\ SectionOf(place) \in DOMAIN map'.offsets /\ DOMAIN map.offsets \subseteq DOMAIN map'.offsets
             /\ ~Unnumbered => base' = base
  <2>1. book \in Books /\ book # NoBook /\ CountsFrom(map, base[book]) /\ base[book] \in Int
    BY <1>0, <1>i, <1>m, <1>c DEF Opened
  <2>2. CASE Unnumbered
    BY <1>0, <1>i, <1>c, <2>1, <2>2, CountPageFirst
  <2>3. CASE ~Unnumbered /\ pending = 0
    <3>1. SectionOf(place) \in DOMAIN map.offsets
      BY <1>0, <1>c, <2>1, <2>3 DEF Opened, Counted, Covers, Goal, Unnumbered
    <3> QED
      BY <1>0, <1>i, <1>c, <2>1, <2>3, <3>1, CountPageOn
  <2>4. CASE ~Unnumbered /\ pending # 0
    <3>1. Turning /\ moves = <<>>
      BY <1>c, <2>4 DEF Waiting, Going, Idle
    <3>2. pending \in {-1, 1} /\ map.page = base[book] + place - pending /\ base[book] + place >= 1
      BY <1>0, <2>4, <3>1 DEF Counted, Turning, Numbered, Goal
    <3>3. map.page + pending = base[book] + place
      BY <1>i, <2>1, <3>2
    <3> QED
      BY <1>0, <1>i, <1>c, <2>1, <2>4, <3>2, <3>3, CountPageOn
  <2> QED
    BY <2>2, <2>3, <2>4
<1>6. CASE Relocated
  <2>1. /\ (Turning \/ Going) /\ moves = <<>> /\ reports = 1 /\ Goal = place
    BY <1>0, <1>6 DEF Relocated, Shut, Waiting, Idle, Resting, Turning, Going, Goal
  <2>2. /\ mounted /\ shown /\ CountPage /\ UNCHANGED <<book, mounted, place, shown, queue>>
        /\ moves' = <<>> /\ reports' = 0 /\ ~locked'
    BY <1>6, <2>1 DEF Relocated, Turning, Going
  <2>3. /\ Stored' /\ map'.page = base'[book] + place /\ CountsFrom(map', base'[book])
        /\ SectionOf(place) \in DOMAIN map'.offsets /\ (~Unnumbered => base' = base)
    BY <1>c, <2>1, <2>2
  <2>4. ~Turning' /\ ~Going'
    BY <2>2 DEF Turning, Going
  <2>5. Opened'
    BY <2>2, <2>3, <2>4 DEF Opened, CountsFrom
  <2>6. queue # 0 => Numbered(place)' /\ Numbered(place + queue)'
    <3>1. queue # 0 => Turning
      BY <2>1 DEF Going
    <3>2. queue # 0 => Numbered(place) /\ Numbered(place + queue) /\ base' = base
      BY <1>0, <2>1, <2>3, <3>1 DEF Counted, Turning
    <3> QED
      BY <2>2, <3>2 DEF Numbered
  <2> QED
    BY <2>2, <2>3, <2>4, <2>5, <2>6 DEF Counted, Covers
<1>13. CASE SyncLocation
  <2>1. /\ mounted /\ shown /\ CountPage /\ (pending = 0 \/ moves = <<>>) /\ pending' = Outstanding
        /\ UNCHANGED <<book, mounted, place, shown, moves, reports, queue, locked, timer, callbacks>>
    BY <1>13 DEF SyncLocation, CountPage, engine
  <2>2. Goal' = Goal \/ moves # <<>>
    BY <2>1 DEF Goal
  <2>3. CASE Waiting
    <3>1. /\ Stored' /\ map'.page = base'[book] + place /\ CountsFrom(map', base'[book])
          /\ SectionOf(place) \in DOMAIN map'.offsets /\ base' = base
      BY <1>c, <2>1, <2>3 DEF Waiting
    <3>2. ~Turning' /\ ~Going'
      BY <2>1, <2>3 DEF Waiting, Idle, Resting, Turning, Going
    <3> QED
      BY <1>0, <2>1, <2>3, <3>1, <3>2 DEF Opened, CountsFrom, Counted, Covers, Numbered
  <2>4. CASE Turning
    <3>1. moves = <<>> /\ Goal = place /\ pending' = 0 /\ Goal' = place
      BY <2>1, <2>4, Steps DEF Turning, Goal, Outstanding
    <3>2. /\ Stored' /\ map'.page = base'[book] + place /\ CountsFrom(map', base'[book])
          /\ SectionOf(place) \in DOMAIN map'.offsets /\ base' = base
      BY <1>c, <2>1, <2>4, <3>1 DEF Turning
    <3>3. ~Waiting' /\ ~Going'
      BY <2>1, <2>4 DEF Waiting, Idle, Turning, Going
    <3>4. base'[book'] \in Int
      BY <1>i, <1>m, <2>1, <3>2
    <3> QED
      BY <1>0, <1>i, <2>1, <2>4, <3>1, <3>2, <3>3, <3>4 DEF Opened, CountsFrom, Counted, Covers, Numbered
  <2>5. CASE Going
    <3>1. moves # <<>> => ~Unnumbered /\ SectionOf(place) \in DOMAIN map.offsets
      BY <1>0, <1>m, <2>1, <2>5 DEF Opened, Covers, Unnumbered
    <3>2. /\ Stored' /\ map'.page = base'[book] + place /\ CountsFrom(map', base'[book])
          /\ SectionOf(place) \in DOMAIN map'.offsets /\ DOMAIN map.offsets \subseteq DOMAIN map'.offsets
      BY <1>c, <2>1, <2>5, <3>1
    <3>3. ~Waiting' /\ ~Turning'
      BY <2>1, <2>5, GoingOne DEF Waiting, Idle, Resting, Turning, Going
    <3>4. moves # <<>> => Goal' = Goal /\ SectionOf(Goal) \in DOMAIN map.offsets
      <4> SUFFICES ASSUME moves # <<>> PROVE Goal' = Goal /\ SectionOf(Goal) \in DOMAIN map.offsets
        OBVIOUS
      <4>1. PICK p \in Places : moves = <<GoTo(p)>>
        BY <2>5 DEF Going
      <4>2. Goal' = Goal
        BY <2>1, <4>1, Layout DEF Goal, GoTo
      <4> QED
        BY <1>0, <1>m, <2>1, <2>5, <3>1, <4>2 DEF Opened, Covers, Unnumbered
    <3>5. moves = <<>> => Goal' = place
      BY <2>1 DEF Goal
    <3>6. DOMAIN map'.offsets # {}
      BY <3>2
    <3>7. Opened'
      BY <2>1, <3>2, <3>4, <3>5, <3>6 DEF Opened, CountsFrom, Covers, Unnumbered
    <3> QED
      BY <3>2, <3>3, <3>7 DEF Counted
  <2> QED
    BY <1>0, <2>1, <2>3, <2>4, <2>5 DEF Shut
<1>7. ASSUME NEW c \in Books \cup {NoBook}, NEW stored, Reset(c, stored),
             c # NoBook => stored = disk[c]
      PROVE  (Stored /\ Opened /\ Counted)'
  <2>1. Stored'
    BY <1>0, <1>7 DEF Reset, Stored, CountsFrom, Covers
  <2>2. ~mounted'
    BY <1>7 DEF Reset
  <2>3. Opened'
    BY <1>0, <1>7, <2>2 DEF Reset, Opened, Going, Stored, CountsFrom
  <2> QED
    BY <2>1, <2>2, <2>3 DEF Counted, Waiting, Turning
<1>8. CASE CloseReader
  BY <1>7, <1>8 DEF CloseReader
<1>9. ASSUME NEW c \in Books, OpenReader(c) PROVE (Stored /\ Opened /\ Counted)'
  BY <1>7, <1>9, TurnsAssumption DEF OpenReader
<1>10. ASSUME NEW p \in Places, Mount(p) PROVE (Stored /\ Opened /\ Counted)'
  <2>1. /\ book \in Books /\ moves' = <<GoTo(p)>> /\ Covers(map, p) /\ ~shown' /\ ~locked
        /\ UNCHANGED <<book, place, shown, reports, turner, map, disk, base>>
    BY <1>0, <1>i, <1>10
       DEF Mount, Typed, Covers, Known, Unnumbered, Shut, Waiting, Turning, Going, Idle
  <2>2. Goal' = p
    BY <2>1, Layout DEF Goal, GoTo
  <2>3. Stored'
    BY <1>0, <2>1 DEF Stored, CountsFrom
  <2>4. Opened'
    BY <1>0, <1>10, <2>1, <2>2 DEF Mount, Opened, CountsFrom, Covers
  <2>5. ~Waiting' /\ ~Turning'
    BY <2>1 DEF Waiting, Turning, turner
  <2> QED
    BY <2>3, <2>4, <2>5 DEF Counted
<1>11. ASSUME NEW p \in Places, Display(p) PROVE (Stored /\ Opened /\ Counted)'
  <2>0. mounted /\ Still /\ moves = <<>> /\ moves' = Append(moves, GoTo(p)) /\ Known(SectionOf(p))
    BY <1>11 DEF Display, Still, Resting
  <2>6. Waiting
    BY <1>0, <2>0, GoingOne DEF Shut, Going, Turning, Still, Resting
  <2>1. moves' = <<GoTo(p)>>
    BY <2>0
  <2>2. Goal' = p
    BY <2>1, Layout DEF Goal, GoTo
  <2>3. Stored'
    BY <1>0, <1>11 DEF Display, Stored, CountsFrom, Covers
  <2>4. Opened'
    BY <1>0, <1>11, <2>0, <2>2, <2>6
       DEF Display, Opened, CountsFrom, Counted, Covers, Known, Waiting, Unnumbered
  <2>5. ~Waiting' /\ ~Turning'
    <3>1. moves' # <<>>
      BY <2>1
    <3>2. ~locked'
      BY <1>11, <2>0 DEF Display, turner, Still
    <3> QED
      BY <3>1, <3>2 DEF Waiting, Turning, Idle, Resting
  <2> QED
    BY <2>3, <2>4, <2>5 DEF Counted
<1>12. CASE UNCHANGED vars
  <2>1. /\ Stored' /\ Goal' = Goal /\ (Going' <=> Going) /\ (Waiting' <=> Waiting) /\ (Turning' <=> Turning)
    BY <1>0, <1>12 DEF vars, engine, turner, Stored, CountsFrom, Covers, Goal, Going, Waiting, Turning,
       Idle, Resting, Unnumbered
  <2> QED
    BY <1>0, <1>12, <2>1
       DEF vars, engine, turner, Opened, Counted, CountsFrom, Covers, Numbered, Unnumbered
<1> QED
  BY <1>1, <1>2, <1>3, <1>4, <1>5, <1>6, <1>8, <1>9, <1>10, <1>11, <1>12, <1>13 DEF Next

(* At rest, the number shown is that of the page.                           *)
LEMMA NumbersGiveCounts == Typed /\ Shapes /\ Numbers /\ ~PastEnds => CountsTurns
<1> SUFFICES ASSUME Typed, Shapes, Numbers, ~PastEnds, calm, mounted, Resting, ~Unnumbered
             PROVE  map.page = base[book] + place
  BY DEF CountsTurns
<1>1. Shut \/ Waiting \/ Turning \/ Going
  BY DEF Shapes
<1>2. ~Going
  BY GoingOne DEF Resting
<1>3. ~Turning
  BY GoingOne DEF Resting
<1> QED
  BY <1>1, <1>2, <1>3 DEF Shut, Numbers, Counted

(* The page number is tied to the page: unless the reader presses on at an  *)
(* end of the book, each turn counts once in updateEpubPageNumbers, across  *)
(* sections whose length is not known yet, a page map stored and read       *)
(* again, synchronisations, resizes, and calls of syncEpubLocation before   *)
(* or after the event that reports the page.  Not claimed (calm is FALSE)   *)
(* after a call between a turn and its page, nor when a book is opened or   *)
(* synchronised at a section the stored map does not know.                  *)
THEOREM CountsTurnsAlways ==
  ASSUME ~PastEnds
  PROVE  Spec => []CountsTurns
<1>1. Init => Typed /\ Shapes /\ Numbers
  BY InitTyped, InitShapes, InitNumbers
<1>2. (Typed /\ Shapes /\ Numbers) /\ [Next]_vars => (Typed /\ Shapes /\ Numbers)'
  BY TypedStep, ShapesStep, NumbersStep
<1>3. Typed /\ Shapes /\ Numbers => CountsTurns
  BY NumbersGiveCounts
<1> QED
  BY <1>1, <1>2, <1>3, PTL DEF Spec

-----------------------------------------------------------------------------
(* The safety half of QueueDrains: whoever waits, a timer or a callback is  *)
(* there to go on.                                                          *)
QueueTended == (locked => timer) /\ (queue # 0 => timer \/ callbacks > 0)

LEMMA ProcessTended ==
  ASSUME Typed, NEW q, NEW lock, NEW armed \in BOOLEAN, NEW quiet, Process(q, lock, armed, quiet), lock => armed
  PROVE  (locked' => timer') /\ (queue' # 0 => timer')
BY DEF Process

LEMMA TendedStep ==
  ASSUME Typed, QueueTended, [Next]_vars
  PROVE  QueueTended'
<1>1. ASSUME NEW step \in {-1, 1}, Click(step) PROVE QueueTended'
  <2>1. PICK q, quiet : Process(q, locked, timer, quiet)
    BY <1>1 DEF Click
  <2> QED
    BY <2>1, ProcessTended DEF QueueTended, Typed, TypeOK
<1>2. CASE TimerFires
  <2>1. PICK quiet : Process(queue, FALSE, FALSE, quiet)
    BY <1>2 DEF TimerFires
  <2> QED
    BY <2>1, ProcessTended DEF QueueTended
<1>3. CASE Callback
  <2>1. Process(queue, locked, timer, calm)
    BY <1>3 DEF Callback
  <2> QED
    BY <2>1, ProcessTended DEF QueueTended, Typed, TypeOK
<1>4. CASE Relocated
  <2>1. UNCHANGED queue /\ locked' = FALSE /\ callbacks' = Scheduled /\ callbacks \in Nat
    BY <1>4 DEF Relocated, Typed, TypeOK
  <2>2. queue # 0 => callbacks' > 0
    BY <2>1 DEF Scheduled
  <2> QED
    BY <2>1, <2>2 DEF QueueTended
<1>5. ASSUME UNCHANGED <<queue, locked, timer, callbacks>> PROVE QueueTended'
  BY <1>5 DEF QueueTended
<1> QED
  BY <1>1, <1>2, <1>3, <1>4, <1>5
     DEF Next, Move, MoveFails, SyncLocation, Reset, CloseReader, OpenReader, Mount, Display, turner, vars

(* The lock never lasts and turns never wait with nothing to come: a timer  *)
(* (unlockEpubNavSoon) or a callback (processEpubTurnQueue) will go on,     *)
(* whatever epub.js does and whichever book is opened meanwhile.            *)
THEOREM QueueTendedAlways == Spec => []QueueTended
<1>1. Init => Typed /\ QueueTended
  BY InitTyped DEF Init, QueueTended
<1>2. (Typed /\ QueueTended) /\ [Next]_vars => (Typed /\ QueueTended)'
  BY TypedStep, TendedStep
<1> QED
  BY <1>1, <1>2, PTL DEF Spec
=============================================================================
