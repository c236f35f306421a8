------------------------ MODULE ReaderProgress_proofs ------------------------
(***************************************************************************)
(* The type invariant of ReaderProgress, and, where the handlers that      *)
(* write the row do not overlap: the row is a register that keeps the      *)
(* newest position it is sent, and an open reader shows what is in it.     *)
(***************************************************************************)
EXTENDS ReaderProgress, TLAPS

Reqs == [pc : Pcs, op : Reads \cup Writes, dev : Devices \cup {"none"},
         pos : Places, found : Places]

(* A request under way has a device; a write has a position to write, an    *)
(* answered sync one to show.                                              *)
Good == {m \in Reqs :
           /\ m.pc # "free" => m.dev \in Devices
           /\ m.pc # "free" /\ m.op \in {"save", "sync"} => m.pos \in Positions
           /\ m.pc = "answered" /\ m.op = "sync" => m.found \in Positions}

Typed ==
  /\ row \in Places /\ local \in [Devices -> Places]
  /\ view \in [Devices -> Pages \cup {Closed, Loading}]
  /\ req \in [Requests -> Good]
  /\ now \in 0..MaxTime /\ newest \in 0..MaxTime /\ clean \in BOOLEAN

LEMMA SentIsGood ==
  ASSUME NEW op \in Reads \cup Writes, NEW d \in Devices, NEW pos \in Places,
         op \in {"save", "sync"} => pos \in Positions
  PROVE  Request(op, d, pos) \in Good
  BY DEF Request, Good, Reqs, Pcs, Reads, Writes, Places

LEMMA FreeIsGood == Free \in Good
  BY DEF Free, Good, Reqs, Pcs, Reads, Writes, Places

LEMMA StampedIsPosition ==
  ASSUME NEW page \in Pages, now \in 0..MaxTime, now < MaxTime
  PROVE  Stamped(page) \in Positions
  BY ProgressAssumption DEF Stamped, Positions

(* A rendered page is stored and shown, and a save of it is sent.           *)
LEMMA RenderTyped ==
  ASSUME Typed, NEW d \in Devices, NEW page \in Pages, NEW q \in Requests,
         NEW f \in [Requests -> Good], Render(d, page, q, f)
  PROVE  /\ local' \in [Devices -> Places]
         /\ view' \in [Devices -> Pages \cup {Closed, Loading}]
         /\ req' \in [Requests -> Good]
         /\ now' \in 0..MaxTime
<1>1. Stamped(page) \in Positions
      BY StampedIsPosition DEF Typed, Render
<1>2. Request("save", d, Stamped(page)) \in Good
      BY <1>1, SentIsGood DEF Writes, Places
<1>3. now' \in 0..MaxTime
      BY ProgressAssumption DEF Typed, Render
<1>4. QED BY <1>1, <1>2, <1>3 DEF Typed, Render, Places

LEMMA DoneTyped ==
  ASSUME Typed, NEW q \in Requests, Done(q)
  PROVE  req' \in [Requests -> Good]
  BY FreeIsGood DEF Typed, Done

LEMMA ToTyped ==
  ASSUME Typed, NEW q \in Requests, req[q].pc # "free",
         NEW pc \in Pcs \ {"free"}, NEW found \in Places,
         pc = "answered" /\ req[q].op = "sync" => found \in Positions,
         To(q, pc, found)
  PROVE  req' \in [Requests -> Good]
<1>1. req[q] \in Good
      BY DEF Typed
<1>2. [req[q] EXCEPT !.pc = pc, !.found = found] \in Good
      BY <1>1 DEF Good, Reqs
<1>3. QED BY <1>2 DEF Typed, To

LEMMA UserTyped ==
  ASSUME Typed, NEW d \in Devices, User(d)
  PROVE  Typed'
<1> USE DEF Typed
<1>1. CASE OpenReader(d)
  <2>1. PICK q \in Requests : req' = [req EXCEPT ![q] = Request("load", d, local[d])]
        BY <1>1 DEF OpenReader
  <2>2. Request("load", d, local[d]) \in Good
        BY SentIsGood DEF Reads
  <2>3. QED BY <1>1, <2>1, <2>2 DEF OpenReader
<1>2. CASE CloseReader(d)
      BY <1>2 DEF CloseReader, Acts
<1>3. CASE TurnPage(d)
      BY <1>3, RenderTyped DEF TurnPage, Acts
<1>4. CASE Sync(d)
  <2>1. PICK q \in Requests : req' = [req EXCEPT ![q] = Request("check", d, local[d])]
        BY <1>4 DEF Sync
  <2>2. Request("check", d, local[d]) \in Good
        BY SentIsGood DEF Reads
  <2>3. QED BY <1>4, <2>1, <2>2 DEF Sync, Acts
<1>5. CASE Restart(d)
  <2>1. PICK q \in Requests, p \in Requests :
          Render(d, 1, p, [req EXCEPT ![q] = Request("reset", d, Nowhere)])
        BY <1>5 DEF Restart
  <2>2. [req EXCEPT ![q] = Request("reset", d, Nowhere)] \in [Requests -> Good]
        BY SentIsGood DEF Writes, Places
  <2>3. 1 \in Pages
        BY ProgressAssumption DEF Pages
  <2>4. QED BY <1>5, <2>1, <2>2, <2>3, RenderTyped DEF Restart
<1>6. QED BY <1>1, <1>2, <1>3, <1>4, <1>5 DEF User

LEMMA ApplyTyped ==
  ASSUME Typed, NEW q \in Requests, req[q].pc = "answered", req[q].found \in Positions,
         Apply(q)
  PROVE  /\ local' \in [Devices -> Places]
         /\ view' \in [Devices -> Pages \cup {Closed, Loading}]
         /\ req' \in [Requests -> Good]
         /\ now' \in 0..MaxTime
<1>1. req[q].dev \in Devices
      BY DEF Typed, Good
<1>2. req[q].found.page \in Pages
      BY DEF Positions
<1>3. CASE ~Open(req[q].dev)
      BY <1>1, <1>3, DoneTyped DEF Apply, Keep, Typed, Places
<1>4. CASE Open(req[q].dev)
      BY <1>1, <1>2, <1>4, RenderTyped DEF Apply, Typed
<1>5. QED BY <1>3, <1>4

LEMMA FoundIsPlace ==
  ASSUME Typed, NEW q \in Requests
  PROVE  req[q].found \in Places /\ req[q].pos \in Places
  BY DEF Typed, Good, Reqs

LEMMA TakesTyped ==
  ASSUME Typed, NEW q \in Requests, Takes(q)
  PROVE  Typed'
<1>1. CASE Loaded(q)
  <2>1. req[q].dev \in Devices /\ req[q].pc = "answered"
        BY <1>1 DEF Loaded, Answered, Typed, Good
  <2>2. CASE view[req[q].dev] = Closed
    <3>1. Request("apply", req[q].dev, Nowhere) \in Good
          BY <2>1, SentIsGood DEF Reads, Places
    <3>2. QED BY <1>1, <2>1, <2>2, <3>1, FoundIsPlace DEF Loaded, Keep, Typed, Render
  <2>3. CASE view[req[q].dev] # Closed
    <3>1. PICK p \in Requests :
            Render(req[q].dev, Resumed(req[q].found, req[q].pos), q,
                   [req EXCEPT ![p] = Request("apply", req[q].dev, Nowhere)])
          BY <1>1, <2>3 DEF Loaded
    <3>2. [req EXCEPT ![p] = Request("apply", req[q].dev, Nowhere)] \in [Requests -> Good]
          BY <2>1, SentIsGood DEF Reads, Places, Typed
    <3>3. Resumed(req[q].found, req[q].pos) \in Pages
          BY FoundIsPlace, ProgressAssumption DEF Resumed, Places, Positions, Pages
    <3>4. QED BY <1>1, <2>1, <3>1, <3>2, <3>3, RenderTyped DEF Loaded, Typed
  <2>4. QED BY <2>2, <2>3
<1>2. CASE Reloaded(q)
  <2>1. CASE req[q].found # Nowhere /\ Apply(q)
    <3>1. req[q].found \in Positions
          BY <2>1, FoundIsPlace DEF Places
    <3>2. QED BY <1>2, <2>1, <3>1, ApplyTyped DEF Reloaded, Answered, Typed
  <2>2. CASE Ignore(q)
        BY <1>2, <2>2, DoneTyped DEF Reloaded, Ignore, Typed
  <2>3. QED BY <1>2, <2>1, <2>2 DEF Reloaded
<1>3. CASE Checked(q)
  <2>1. req[q].dev \in Devices /\ req[q].pc = "answered"
        BY <1>3 DEF Checked, Answered, Typed, Good
  <2>2. CASE ServerWins(req[q].found, req[q].pos) /\ Apply(q)
    <3>1. req[q].found \in Positions
          BY <2>2, FoundIsPlace DEF Places, ServerWins
    <3>2. QED BY <1>3, <2>1, <2>2, <3>1, ApplyTyped DEF Checked, Typed
  <2>3. CASE /\ req[q].pos # Nowhere
             /\ now < MaxTime /\ now' = now + 1
             /\ req' = [req EXCEPT ![q] =
                          Request("sync", req[q].dev, Stamped(req[q].pos.page))]
             /\ UNCHANGED <<local, view>>
    <3>1. req[q].pos.page \in Pages
          BY <2>3, FoundIsPlace DEF Places, Positions
    <3>2. Stamped(req[q].pos.page) \in Positions
          BY <2>3, <3>1, StampedIsPosition DEF Typed
    <3>3. Request("sync", req[q].dev, Stamped(req[q].pos.page)) \in Good
          BY <2>1, <3>2, SentIsGood DEF Writes, Places
    <3>4. now' \in 0..MaxTime
          BY <2>3, ProgressAssumption DEF Typed
    <3>5. QED BY <1>3, <2>3, <3>3, <3>4 DEF Checked, Typed
  <2>4. CASE Ignore(q)
        BY <1>3, <2>4, DoneTyped DEF Checked, Ignore, Typed
  <2>5. QED BY <1>3, <2>2, <2>3, <2>4 DEF Checked
<1>4. CASE Synced(q)
  <2>1. req[q].found \in Positions /\ req[q].pc = "answered"
        BY <1>4 DEF Synced, Answered, Typed, Good
  <2>2. QED BY <1>4, <2>1, ApplyTyped DEF Synced, Typed
<1>5. CASE Saved(q)
      BY <1>5, DoneTyped DEF Saved, Ignore, Typed
<1>6. QED BY <1>1, <1>2, <1>3, <1>4, <1>5 DEF Takes

LEMMA SentIsNotFree ==
  ASSUME NEW q \in Requests, NEW ops, Arrives(q, ops)
  PROVE  req[q].pc # "free"
  BY DEF Arrives

LEMMA HandleTyped ==
  ASSUME Typed, NEW q \in Requests, Handle(q)
  PROVE  Typed'
<1> USE DEF Typed
<1>0. req[q] \in Good /\ newest \in 0..MaxTime
      OBVIOUS
<1>1. CASE GetProgress(q)
  <2>1. req[q].op # "sync" /\ req[q].pc # "free"
        BY <1>1 DEF GetProgress, Arrives, Reads
  <2>2. req' \in [Requests -> Good]
        BY <1>1, <2>1, ToTyped DEF GetProgress, Pcs
  <2>3. QED BY <1>1, <2>2 DEF GetProgress
<1>2. CASE SetFind(q)
  <2>1. req[q].pc # "free" /\ req[q].op \in {"save", "sync"}
        BY <1>2 DEF SetFind, Arrives
  <2>2. req[q].pos \in Positions
        BY <1>0, <2>1 DEF Good
  <2>3. CASE Newer(row, req[q].pos) /\ Answer(q, row)
             /\ newest' = Later(newest, req[q].pos.at)
    <3>1. row \in Positions
          BY <2>3 DEF Newer, Places
    <3>2. req' \in [Requests -> Good]
          BY <2>1, <2>3, <3>1, ToTyped DEF Answer, Pcs, Places
    <3>3. newest' \in 0..MaxTime
          BY <2>2, <2>3, ProgressAssumption DEF Later, Positions
    <3>4. QED BY <1>2, <3>2, <3>3 DEF SetFind
  <2>4. CASE To(q, "found", row) /\ UNCHANGED newest
    <3>1. req' \in [Requests -> Good]
          BY <2>1, <2>4, ToTyped DEF Pcs
    <3>2. QED BY <1>2, <2>4, <3>1 DEF SetFind
  <2>5. QED BY <1>2, <2>3, <2>4 DEF SetFind
<1>3. CASE SetSave(q)
  <2>1. req[q].pc # "free" /\ req[q].op \in {"save", "sync"}
        BY <1>3 DEF SetSave
  <2>2. req[q].pos \in Positions
        BY <1>0, <2>1 DEF Good
  <2>3. req' \in [Requests -> Good]
    <3>1. CASE Done(q)
          BY <3>1, DoneTyped
    <3>2. CASE Answer(q, req[q].pos)
          BY <2>1, <2>2, <3>2, ToTyped DEF Answer, Pcs, Places
    <3>3. QED BY <1>3, <3>1, <3>2 DEF SetSave
  <2>4. newest' \in 0..MaxTime
        BY <1>3, <2>2, ProgressAssumption DEF SetSave, Later, Positions
  <2>5. row' \in Places /\ clean' \in BOOLEAN
        BY <1>3, <2>2 DEF SetSave, Places
  <2>6. QED BY <1>3, <2>3, <2>4, <2>5 DEF SetSave
<1>4. CASE ResetFind(q)
  <2>1. req[q].pc # "free" /\ req[q].op # "sync"
        BY <1>4 DEF ResetFind, Arrives
  <2>2. req' \in [Requests -> Good]
        BY <1>4, <2>1, ToTyped DEF ResetFind, Pcs, Places
  <2>3. newest' \in 0..MaxTime
        BY <1>4, ProgressAssumption DEF ResetFind
  <2>4. QED BY <1>4, <2>2, <2>3 DEF ResetFind
<1>5. CASE ResetRemove(q)
  <2>1. req[q].pc # "free" /\ req[q].op # "sync"
        BY <1>5 DEF ResetRemove
  <2>2. req' \in [Requests -> Good]
        BY <1>5, <2>1, ToTyped DEF ResetRemove, Pcs, Places
  <2>3. QED BY <1>5, <2>2, ProgressAssumption DEF ResetRemove, Places
<1>6. CASE Lose(q)
  <2>1. req' \in [Requests -> Good]
    <3>1. CASE req[q].op \in {"load", "apply", "check"} /\ To(q, "answered", Nowhere)
          BY <1>6, <3>1, ToTyped DEF Lose, IsFree, Pcs, Places
    <3>2. CASE Done(q)
          BY <3>2, DoneTyped
    <3>3. QED BY <1>6, <3>1, <3>2 DEF Lose
  <2>2. QED BY <1>6, <2>1 DEF Lose
<1>7. QED BY <1>1, <1>2, <1>3, <1>4, <1>5, <1>6 DEF Handle

LEMMA InitTyped == Init => Typed
  BY FreeIsGood, ProgressAssumption DEF Init, Typed, Places

LEMMA NextTyped ==
  ASSUME Typed, [Next]_vars
  PROVE  Typed'
<1>1. CASE UNCHANGED vars
      BY <1>1 DEF Typed, vars
<1>2. QED BY <1>1, UserTyped, TakesTyped, HandleTyped DEF Next

(* Every variable keeps its type, for any number of devices, pages and      *)
(* requests.                                                               *)
THEOREM TypeCorrect == Spec => []TypeOK
<1>1. Typed => TypeOK
      BY DEF Typed, TypeOK, Good, Reqs
<1>2. QED BY <1>1, InitTyped, NextTyped, PTL DEF Spec

-----------------------------------------------------------------------------
(* Where Overlap is FALSE, at most one handler is between its find and its  *)
(* save, and the row is not newer than what that handler is about to write.*)
Finding(q) == req[q].pc = "found"

Alone ==
  /\ \A p, q \in Requests : Finding(p) /\ Finding(q) => p = q
  /\ \A q \in Requests : Finding(q) /\ req[q].op \in {"save", "sync"}
                           => row.at <= req[q].pos.at

LEMMA NobodyElse ==
  ASSUME Alone, UNCHANGED row,
         \A q \in Requests : Finding(q)' => req'[q] = req[q]
  PROVE  Alone'
  BY DEF Alone, Finding

(* The page's own steps leave the row and the handlers alone.               *)
LEMMA PageLeavesHandlers ==
  ASSUME Typed, (\E d \in Devices : User(d)) \/ (\E q \in Requests : Takes(q))
  PROVE  /\ UNCHANGED <<row, newest>>
         /\ \A q \in Requests : Finding(q)' => req'[q] = req[q]
<1> USE DEF Typed, Finding, Request, Render
<1>1. CASE \E d \in Devices : User(d)
      BY <1>1 DEF User, OpenReader, CloseReader, TurnPage, Sync, Restart
<1>2. CASE \E q \in Requests : Takes(q)
  <2>1. PICK q \in Requests : Takes(q)
        BY <1>2
  <2> USE DEF Done, Free, Ignore, Apply
  <2>2. CASE Loaded(q)
        BY <2>2 DEF Loaded
  <2>3. CASE Reloaded(q)
        BY <2>3 DEF Reloaded
  <2>4. CASE Checked(q)
        BY <2>4 DEF Checked
  <2>5. CASE Synced(q) \/ Saved(q)
        BY <2>5 DEF Synced, Saved
  <2>6. QED BY <2>1, <2>2, <2>3, <2>4, <2>5 DEF Takes
<1>3. QED BY <1>1, <1>2

(* A step of the handlers is a step of the register, or none.               *)
LEMMA HandleImplements ==
  ASSUME Typed, Alone, ~Overlap, NEW q \in Requests, Handle(q)
  PROVE  Alone' /\ [Abstract!Next]_<<row, newest>>
<1> USE DEF Typed, Finding
<1>0. req[q] \in Good /\ row.at \in Nat /\ newest \in Nat
      BY DEF Places, Positions, Nowhere
<1>1. CASE GetProgress(q)
      BY <1>1, NobodyElse DEF GetProgress, To
<1>2. CASE SetFind(q)
  <2>1. req[q].pos \in Positions
        BY <1>0, <1>2 DEF SetFind, Arrives, Good
  <2>2. CASE Newer(row, req[q].pos) /\ Answer(q, row)
             /\ newest' = Later(newest, req[q].pos.at)
    <3>1. Abstract!Put(req[q].pos)
          BY <1>0, <1>2, <2>1, <2>2 DEF Abstract!Put, Newer, Later, SetFind, Positions
    <3>2. Alone'
          BY <1>2, <2>2, NobodyElse DEF SetFind, Answer, To
    <3>3. QED BY <2>1, <3>1, <3>2 DEF Abstract!Next
  <2>3. CASE ~Newer(row, req[q].pos) /\ To(q, "found", row) /\ UNCHANGED newest
    <3>1. row.at <= req[q].pos.at
          BY <1>0, <2>1, <2>3 DEF Newer, Positions, Nowhere
    <3>2. \A p \in Requests : ~Finding(p)
          BY <1>2 DEF SetFind, Serialised
    <3>3. Alone'
          BY <1>2, <2>3, <3>1, <3>2 DEF SetFind, To, Alone
    <3>4. QED BY <1>2, <2>3, <3>3 DEF SetFind
  <2>4. QED BY <1>2, <2>2, <2>3 DEF SetFind
<1>3. CASE SetSave(q)
  <2>1. req[q].pos \in Positions /\ row.at <= req[q].pos.at
        BY <1>0, <1>3 DEF SetSave, Good, Alone
  <2>2. Finding(q)
        BY <1>3 DEF SetSave
  <2>3. req' \in [Requests -> Good] /\ ~Finding(q)'
             /\ \A p \in Requests \ {q} : req'[p] = req[p]
    <3>1. Typed'
          BY <1>3, HandleTyped DEF Handle
    <3>2. CASE Done(q)
          BY <3>1, <3>2 DEF Done, Free
    <3>3. CASE Answer(q, req[q].pos)
          BY <3>1, <3>3 DEF Answer, To
    <3>4. QED BY <1>3, <3>2, <3>3 DEF SetSave
  <2>4. Alone'
        BY <2>2, <2>3 DEF Alone
  <2>5. CASE Done(q) /\ UNCHANGED <<row, newest>>
        BY <2>4, <2>5
  <2>6. CASE row' = req[q].pos /\ newest' = Later(newest, req[q].pos.at)
    <3>1. Abstract!Put(req[q].pos)
          BY <1>0, <2>1, <2>6 DEF Abstract!Put, Later, Positions
    <3>2. QED BY <2>1, <2>4, <3>1 DEF Abstract!Next
  <2>7. CASE row' = req[q].pos /\ UNCHANGED newest
    <3>1. Abstract!PutSilently(req[q].pos)
          BY <2>1, <2>7 DEF Abstract!PutSilently
    <3>2. QED BY <2>1, <2>4, <3>1 DEF Abstract!Next
  <2>8. QED BY <1>3, <2>5, <2>6, <2>7 DEF SetSave
<1>4. CASE ResetFind(q)
  <2>1. CASE row = Nowhere
    <3>1. Alone'
          BY <1>4, <2>1, NobodyElse DEF ResetFind, To
    <3>2. Abstract!Clear
          BY <1>4, <2>1 DEF ResetFind, Abstract!Clear
    <3>3. QED BY <3>1, <3>2 DEF Abstract!Next
  <2>2. CASE row # Nowhere
    <3>1. \A p \in Requests : ~Finding(p)
          BY <1>4 DEF ResetFind, Serialised
    <3>2. Alone'
          BY <1>4, <2>2, <3>1 DEF ResetFind, Arrives, To, Alone
    <3>3. QED BY <1>4, <2>2, <3>2 DEF ResetFind
  <2>3. QED BY <2>1, <2>2
<1>5. CASE ResetRemove(q)
  <2>1. Finding(q) /\ ~Finding(q)' /\ \A p \in Requests \ {q} : req'[p] = req[p]
        BY <1>5 DEF ResetRemove, To
  <2>2. Alone'
        BY <2>1 DEF Alone
  <2>3. Abstract!Clear
        BY <1>5 DEF ResetRemove, Abstract!Clear
  <2>4. QED BY <2>2, <2>3 DEF Abstract!Next
<1>6. CASE Lose(q)
  <2>1. \A p \in Requests : Finding(p)' => req'[p] = req[p]
    <3>1. CASE To(q, "answered", Nowhere)
          BY <3>1 DEF To
    <3>2. CASE Done(q)
          BY <3>2 DEF Done, Free
    <3>3. QED BY <1>6, <3>1, <3>2 DEF Lose
  <2>2. Alone'
        BY <1>6, <2>1, NobodyElse DEF Lose
  <2>3. QED BY <1>6, <2>2 DEF Lose
<1>7. QED BY <1>1, <1>2, <1>3, <1>4, <1>5, <1>6 DEF Handle

(* Where writing handlers do not overlap, the server's row implements the  *)
(* register that keeps the newest position: HANDOFF.md:95.                 *)
THEOREM ImplementsNewestWins == ~Overlap /\ Spec => KeepsNewest
<1>1. Init => Alone /\ Abstract!Init
      BY DEF Init, Alone, Finding, Free, Abstract!Init
<1>2. ASSUME ~Overlap, Typed, Alone, [Next]_vars
      PROVE  Alone' /\ [Abstract!Next]_<<row, newest>>
  <2>1. CASE UNCHANGED vars
        BY <1>2, <2>1, NobodyElse DEF vars, Finding
  <2>2. CASE (\E d \in Devices : User(d)) \/ (\E q \in Requests : Takes(q))
        BY <1>2, <2>2, PageLeavesHandlers, NobodyElse
  <2>3. CASE \E q \in Requests : Handle(q)
        BY <1>2, <2>3, HandleImplements
  <2>4. QED BY <1>2, <2>1, <2>2, <2>3 DEF Next
<1>3. CASE ~Overlap
      BY <1>1, <1>2, <1>3, InitTyped, NextTyped, PTL DEF Spec, KeepsNewest, Abstract!Spec
<1>4. QED BY <1>3

(* So no write that was answered is newer than what the server holds.       *)
THEOREM NothingNewerLost == ~Overlap /\ Spec => []Abstract!NewestKept
<1>1. Init => Abstract!NewestKept
      BY DEF Init, Abstract!NewestKept, Nowhere
<1>2. ASSUME Typed, Abstract!NewestKept, [Abstract!Next]_<<row, newest>>
      PROVE  Abstract!NewestKept'
  <2>1. row.at \in Nat /\ newest \in Nat /\ Nowhere.at = 0
        BY <1>2 DEF Typed, Places, Positions, Nowhere
  <2>2. CASE \E p \in Positions : Abstract!Put(p) \/ Abstract!PutSilently(p)
        BY <1>2, <2>1, <2>2
        DEF Abstract!Put, Abstract!PutSilently, Abstract!NewestKept, Positions
  <2>3. CASE Abstract!Clear \/ UNCHANGED <<row, newest>>
        BY <1>2, <2>1, <2>3 DEF Abstract!Clear, Abstract!NewestKept
  <2>4. QED BY <1>2, <2>2, <2>3 DEF Abstract!Next
<1>3. QED BY <1>1, <1>2, InitTyped, NextTyped, ImplementsNewestWins, PTL
          DEF Spec, KeepsNewest, Abstract!Spec

-----------------------------------------------------------------------------
(* What the open reader shows is what the server will hold                  *)

Writing(q)  == req[q].op \in {"save", "sync"} /\ req[q].pc \in {"sent", "found"}
Clearing(q) == req[q].op = "reset" /\ req[q].pc \in {"sent", "found"}
Waits(q)    == ~IsFree(q) /\ req[q].op # "save"

(* Nothing is stamped later than now, and the row a handler found is there. *)
Timed ==
  /\ row.at <= now
  /\ \A q \in Requests : Writing(q) => req[q].pos.at <= now
  /\ \A q \in Requests : Finding(q) /\ Writing(q) => req[q].found = row

(* A reader that is used calmly: it alone is open, and it waits for one     *)
(* answer at most.                                                          *)
Calm ==
  /\ \A d, e \in Devices : view[d] # Closed /\ view[e] # Closed => d = e
  /\ \A p, q \in Requests : Waits(p) /\ Waits(q) => p = q
  /\ \A q \in Requests : Waits(q) =>
       /\ view[req[q].dev] # Closed
       /\ req[q].op = "load" <=> view[req[q].dev] = Loading
       /\ req[q].op = "check" => req[q].pos = local[req[q].dev]

(* Since the reader's last page was shown: what is written, or about to be, *)
(* is that page; and it is written, or about to be, unless the book starts  *)
(* again, where no row means the first page.                                *)
Since(d, pos) == pos.at >= local[d].at
Shown(d, pos) == pos.page = view[d]
AboutToStart(d) == view[d] = 1 /\ \A q \in Requests : Writing(q) => req[q].pos.page = 1
Due(d) ==
  /\ local[d] \in Positions /\ Shown(d, local[d])
  /\ Since(d, row) => Shown(d, row)
  /\ \A q \in Requests : Writing(q) /\ Since(d, req[q].pos) => Shown(d, req[q].pos)
  /\ \/ Since(d, row)
     \/ \E q \in Requests : Writing(q) /\ Since(d, req[q].pos)
     \/ AboutToStart(d) /\ row.page \in {0, 1}
  /\ (\E q \in Requests : Clearing(q)) => AboutToStart(d)

Settling == clean => Calm /\ \A d \in Devices : Open(d) => Due(d)

LEMMA StampedFields ==
  ASSUME NEW page
  PROVE  Stamped(page).page = page /\ Stamped(page).at = now + 1
  BY DEF Stamped

LEMMA RequestFields ==
  ASSUME NEW op, NEW d, NEW pos
  PROVE  /\ Request(op, d, pos).pc = "sent" /\ Request(op, d, pos).op = op
         /\ Request(op, d, pos).dev = d /\ Request(op, d, pos).pos = pos
  BY DEF Request

(* The page just shown is newer than all that is written or on its way.     *)
LEMMA RenderDue ==
  ASSUME Typed, Timed, NEW d \in Devices, NEW page \in Pages, NEW q \in Requests,
         NEW f \in [Requests -> Good], Render(d, page, q, f), UNCHANGED row,
         \A p \in Requests \ {q} :
           f[p].op \in {"save", "sync"} /\ f[p].pc \in {"sent", "found"} => f[p].pos.at <= now,
         (\E p \in Requests \ {q} : f[p].op = "reset" /\ f[p].pc # "free") =>
           /\ page = 1
           /\ \A p \in Requests \ {q} : f[p].pc # "free" => f[p].op = "reset"
  PROVE  Due(d)'
<1> DEFINE pos == Stamped(page)
<1>0. now \in Nat /\ row.at \in Int /\ row.at <= now /\ page \in Nat
      BY DEF Typed, Timed, Places, Positions, Nowhere, Pages
<1>1. local'[d] = pos /\ view'[d] = page /\ row' = row
      BY DEF Render, Typed
<1>2. pos \in Positions /\ pos.page = page /\ pos.at = now + 1
      BY StampedIsPosition, StampedFields DEF Render, Typed
<1>3. req'[q] = Request("save", d, pos) /\ \A p \in Requests \ {q} : req'[p] = f[p]
      BY DEF Render
<1> HIDE DEF pos
<1>4. /\ req'[q].op = "save" /\ req'[q].pc = "sent" /\ req'[q].pos = pos
      BY <1>3, RequestFields
<1>5. Writing(q)'
      BY <1>4 DEF Writing
<1>6. \A p \in Requests \ {q} : Writing(p)' => req'[p].pos.at <= now
      BY <1>3 DEF Writing
<1>7. (\E p \in Requests : Clearing(p)') =>
        page = 1 /\ \A p \in Requests \ {q} : ~Writing(p)'
  <2> SUFFICES ASSUME NEW p \in Requests, Clearing(p)'
               PROVE  page = 1 /\ \A o \in Requests \ {q} : ~Writing(o)'
        OBVIOUS
  <2>1. p # q
        BY <1>4 DEF Clearing
  <2>2. f[p].op = "reset" /\ f[p].pc # "free"
        BY <1>3, <2>1 DEF Clearing
  <2> QED BY <1>3, <2>1, <2>2 DEF Writing
<1>8. \A p \in Requests : Writing(p)' /\ req'[p].pos.at >= pos.at => req'[p].pos.page = page
  <2> SUFFICES ASSUME NEW p \in Requests, Writing(p)', req'[p].pos.at >= pos.at
               PROVE  req'[p].pos.page = page
        OBVIOUS
  <2>1. CASE p = q
        BY <1>2, <1>4, <2>1
  <2>2. CASE p # q
    <3>1. req'[p] \in Good
          BY <1>3, <2>2
    <3>2. req'[p].pos.at \in Int
          BY <3>1 DEF Good, Reqs, Places, Positions, Nowhere
    <3> QED BY <1>0, <1>2, <1>6, <2>2, <3>2
  <2> QED BY <2>1, <2>2
<1>9. (\E p \in Requests : Clearing(p)') =>
        page = 1 /\ \A p \in Requests : Writing(p)' => req'[p].pos.page = 1
      BY <1>2, <1>4, <1>7
<1>10. pos.at >= pos.at /\ ~(row.at >= pos.at)
      BY <1>0, <1>2
<1> QED BY <1>1, <1>2, <1>4, <1>5, <1>8, <1>9, <1>10 DEF Due, Since, Shown, AboutToStart

(* A step that keeps the row, the reader and what is on its way.            *)
LEMMA DueKept ==
  ASSUME NEW d \in Devices, Due(d), row' = row, local'[d] = local[d], view'[d] = view[d],
         \A q \in Requests : /\ Writing(q)' <=> Writing(q)
                             /\ Writing(q) => req'[q].pos = req[q].pos
                             /\ Clearing(q)' => Clearing(q)
  PROVE  Due(d)'
  BY DEF Due, Since, Shown, AboutToStart

LEMMA CalmKept ==
  ASSUME Calm, UNCHANGED <<view, local>>,
         \A q \in Requests : Waits(q)' => /\ Waits(q) /\ req'[q].op = req[q].op
                                          /\ req'[q].dev = req[q].dev
                                          /\ req'[q].pos = req[q].pos
  PROVE  Calm'
  BY DEF Calm

LEMMA CalmRender ==
  ASSUME Typed, Calm, NEW d \in Devices, view[d] # Closed, NEW page \in Pages,
         view' = [view EXCEPT ![d] = page],
         \A p \in Requests : Waits(p)' => req'[p].dev = d /\ req'[p].op \notin {"load", "check"},
         \A p, q \in Requests : Waits(p)' /\ Waits(q)' => p = q
  PROVE  Calm'
<1>1. page # Closed /\ page # Loading
      BY DEF Pages, Closed, Loading
<1>2. \A e \in Devices : view'[e] # Closed => view[e] # Closed
      BY DEF Typed
<1>3. view'[d] = page
      BY DEF Typed
<1> QED BY <1>1, <1>2, <1>3 DEF Calm

LEMMA OpenShows ==
  \A d \in Devices : Open(d) => view[d] # Closed /\ view[d] # Loading
  BY ProgressAssumption DEF Open, Pages, Closed, Loading

(* Of the readers, d alone can be open.                                     *)
LEMMA RenderSettles ==
  ASSUME Calm', NEW d \in Devices, view'[d] # Closed, Due(d)'
  PROVE  \A e \in Devices : Open(e)' => Due(e)'
<1>1. \A e \in Devices : Open(e)' => view'[e] # Closed
      BY DEF Open, Pages, Closed
<1> QED BY <1>1 DEF Calm

LEMMA UserSettles ==
  ASSUME Typed, Timed, Settling, NEW d \in Devices, User(d), clean'
  PROVE  Calm' /\ \A e \in Devices : Open(e)' => Due(e)'
<1>0. clean /\ Calm /\ \A e \in Devices : Open(e) => Due(e)
      BY DEF User, OpenReader, CloseReader, TurnPage, Sync, Restart, Acts, Settling
<1>0a. ASSUME view[d] # Closed, ~Waiting(d), NEW p \in Requests
       PROVE  ~Waits(p) /\ ~Clearing(p)
  <2>1. req[p] \in Good /\ (Waits(p) => req[p].dev \in Devices)
        BY DEF Typed, Good, Waits, IsFree
  <2>2. ~Waits(p)
        BY <1>0, <1>0a, <2>1 DEF Calm, Waiting, Waits
  <2> QED BY <2>2 DEF Waits, Clearing, IsFree
<1>1. CASE OpenReader(d)
  <2>1. PICK q \in Requests : req' = [req EXCEPT ![q] = Request("load", d, local[d])]
        BY <1>1 DEF OpenReader
  <2>2. /\ \A p \in Requests \ {q} : req'[p] = req[p]
        /\ req'[q].op = "load" /\ req'[q].dev = d
        BY <2>1, RequestFields DEF Typed
  <2>3. /\ \A e \in Devices : view[e] = Closed
        /\ \A e \in Devices : view'[e] # Closed => e = d /\ view'[e] = Loading
        /\ view'[d] = Loading
        BY <1>1 DEF OpenReader, Typed
  <2>4. \A p \in Requests : ~Waits(p)
    <3> SUFFICES ASSUME NEW p \in Requests, Waits(p) PROVE FALSE
          OBVIOUS
    <3>1. req[p].dev \in Devices
          BY DEF Typed, Good, Waits, IsFree
    <3> QED BY <1>0, <2>3, <3>1 DEF Calm
  <2>5. \A p \in Requests : Waits(p)' => p = q
        BY <2>2, <2>4 DEF Waits, IsFree
  <2>6. Loading # Closed /\ Loading \notin Pages
        BY DEF Loading, Closed, Pages
  <2>7. Calm'
        BY <2>2, <2>3, <2>5, <2>6 DEF Calm
  <2>8. \A e \in Devices : ~Open(e)'
    <3>1. Closed \notin Pages
          BY DEF Closed, Pages
    <3> QED BY <2>3, <2>6, <3>1 DEF Open
  <2> QED BY <2>7, <2>8
<1>2. CASE CloseReader(d)
  <2>1. view[d] # Closed /\ ~Waiting(d) /\ req' = req /\ local' = local
        BY <1>2 DEF CloseReader, Acts
  <2>2. \A e \in Devices : view'[e] = Closed
    <3>1. \A e \in Devices : view'[e] = IF e = d THEN Closed ELSE view[e]
          BY <1>2 DEF CloseReader, Typed
    <3> QED BY <1>0, <2>1, <3>1 DEF Calm
  <2>3. \A p \in Requests : ~Waits(p)'
        BY <1>0a, <2>1 DEF Waits, IsFree
  <2>4. \A e \in Devices : ~Open(e)'
        BY <2>2 DEF Open, Closed, Pages
  <2> QED BY <2>2, <2>3, <2>4 DEF Calm
<1>3. CASE TurnPage(d)
  <2>1. /\ view[d] # Closed /\ ~Waiting(d)
        /\ UNCHANGED row
        BY <1>3, OpenShows DEF TurnPage, Acts
  <2>2. PICK q \in Requests, step \in {-1, 1} :
          view[d] + step \in Pages /\ Render(d, view[d] + step, q, req)
        BY <1>3 DEF TurnPage
  <2> DEFINE page == view[d] + step
  <2>3. page \in Pages /\ Render(d, page, q, req)
        BY <2>2
  <2> HIDE DEF page
  <2>4. \A p \in Requests \ {q} : req'[p] = req[p]
        BY <2>3 DEF Render
  <2>5. req'[q].op = "save"
        BY <2>3, RequestFields DEF Render, Typed
  <2>6. \A p \in Requests : ~Waits(p)'
        BY <1>0a, <2>1, <2>4, <2>5 DEF Waits, IsFree
  <2>7. Calm'
        BY <1>0, <2>1, <2>3, <2>6, CalmRender DEF Render
  <2>8. \A p \in Requests : ~(req[p].op = "reset" /\ req[p].pc # "free")
        BY <1>0a, <2>1 DEF Waits, IsFree
  <2>9. \A p \in Requests : req[p].op \in {"save", "sync"} /\ req[p].pc \in {"sent", "found"}
                              => req[p].pos.at <= now
        BY DEF Timed, Writing
  <2>10. Due(d)'
        BY <2>1, <2>3, <2>8, <2>9, RenderDue DEF Typed
  <2>11. view'[d] # Closed
        BY <2>3 DEF Render, Typed, Pages, Closed
  <2> QED BY <2>7, <2>10, <2>11, RenderSettles
<1>4. CASE Sync(d)
  <2>1. PICK q \in Requests : IsFree(q) /\ req' = [req EXCEPT ![q] = Request("check", d, local[d])]
        BY <1>4 DEF Sync
  <2>2. /\ view[d] # Closed /\ view[d] # Loading /\ ~Waiting(d)
        /\ UNCHANGED <<row, local, view>>
        BY <1>4, OpenShows DEF Sync, Acts
  <2>3. /\ \A p \in Requests \ {q} : req'[p] = req[p]
        /\ req'[q].op = "check" /\ req'[q].dev = d /\ req'[q].pos = local[d]
        BY <2>1, RequestFields DEF Typed
  <2>4. \A p \in Requests : Waits(p)' => p = q
        BY <1>0a, <2>2, <2>3 DEF Waits, IsFree
  <2>5. Calm'
        BY <1>0, <2>2, <2>3, <2>4 DEF Calm
  <2>6. \A p \in Requests : /\ Writing(p)' <=> Writing(p)
                            /\ Writing(p) => req'[p].pos = req[p].pos
                            /\ Clearing(p)' => Clearing(p)
        BY <2>1, <2>3 DEF Writing, Clearing, IsFree
  <2>7. \A e \in Devices : Due(e) => Due(e)'
        BY <2>2, <2>6, DueKept
  <2>8. \A e \in Devices : Open(e)' => Open(e)
        BY <2>2 DEF Open
  <2> QED BY <1>0, <2>5, <2>7, <2>8
<1>5. CASE Restart(d)
  <2>1. view[d] # Closed /\ Quiet /\ UNCHANGED row
        BY <1>5, OpenShows DEF Restart
  <2>2. PICK q \in Requests, p \in Requests :
          q # p /\ Render(d, 1, p, [req EXCEPT ![q] = Request("reset", d, Nowhere)])
        BY <1>5 DEF Restart
  <2> DEFINE f == [req EXCEPT ![q] = Request("reset", d, Nowhere)]
  <2>3. f \in [Requests -> Good]
        BY SentIsGood DEF Writes, Places, Typed
  <2>4. f[q].op = "reset" /\ f[q].dev = d /\ \A o \in Requests \ {q} : f[o] = req[o]
        BY RequestFields DEF Typed
  <2>5. 1 \in Pages /\ Render(d, 1, p, f)
        BY <2>2, ProgressAssumption DEF Pages
  <2> HIDE DEF f
  <2>6. req'[p].op = "save" /\ \A o \in Requests \ {p} : req'[o] = f[o]
        BY <2>3, <2>5, RequestFields DEF Render
  <2>7. \A o \in Requests \ {q} : f[o].pc = "free"
        BY <2>1, <2>4 DEF Quiet, IsFree
  <2>8. \A o \in Requests : Waits(o)' => o = q
        BY <2>6, <2>7 DEF Waits, IsFree
  <2>9. req'[q].dev = d /\ req'[q].op = "reset"
        BY <2>2, <2>4, <2>6
  <2>10. Calm'
        BY <1>0, <2>1, <2>5, <2>8, <2>9, CalmRender DEF Render
  <2>11. Due(d)'
        BY <2>1, <2>3, <2>4, <2>5, <2>7, RenderDue
  <2>12. view'[d] # Closed
        BY <2>5 DEF Render, Typed, Pages, Closed
  <2> QED BY <2>10, <2>11, <2>12, RenderSettles
<1> QED BY <1>1, <1>2, <1>3, <1>4, <1>5 DEF User

LEMMA ApplySettles ==
  ASSUME Typed, Timed, Calm, \A e \in Devices : Open(e) => Due(e),
         NEW q \in Requests, Waits(q), req[q].op # "load", req[q].found \in Positions,
         Apply(q), UNCHANGED row
  PROVE  Calm' /\ \A e \in Devices : Open(e)' => Due(e)'
<1>1. PICK d \in Devices, page \in Pages : d = req[q].dev /\ page = req[q].found.page
      BY DEF Typed, Good, Waits, IsFree, Positions
<1>2. view[d] # Closed /\ view[d] # Loading
      BY <1>1 DEF Calm
<1>3. view[d] \in Pages
      BY <1>1, <1>2 DEF Typed
<1>4. Render(d, page, q, req)
      BY <1>1, <1>3 DEF Apply, Open
<1>5. \A p \in Requests \ {q} : ~Waits(p)
      BY DEF Calm
<1>6. req'[q].op = "save" /\ \A p \in Requests \ {q} : req'[p] = req[p]
      BY <1>4, RequestFields DEF Render, Typed
<1>7. \A p \in Requests : ~Waits(p)'
      BY <1>5, <1>6 DEF Waits, IsFree
<1>8. Calm'
      BY <1>1, <1>2, <1>4, <1>7, CalmRender DEF Render
<1>9. \A p \in Requests \ {q} : ~(req[p].op = "reset" /\ req[p].pc # "free")
      BY <1>5 DEF Waits, IsFree
<1>10. \A p \in Requests : req[p].op \in {"save", "sync"} /\ req[p].pc \in {"sent", "found"}
                             => req[p].pos.at <= now
      BY DEF Timed, Writing
<1>11. Due(d)'
      BY <1>1, <1>4, <1>9, <1>10, RenderDue DEF Typed
<1>12. view'[d] # Closed
      BY <1>1, <1>4 DEF Render, Typed, Pages, Closed
<1> QED BY <1>1, <1>8, <1>11, <1>12, RenderSettles

LEMMA IgnoreSettles ==
  ASSUME Typed, Calm, \A e \in Devices : Open(e) => Due(e),
         NEW q \in Requests, req[q].pc = "answered", Ignore(q), UNCHANGED row
  PROVE  Calm' /\ \A e \in Devices : Open(e)' => Due(e)'
<1>1. /\ req'[q].pc = "free"
      /\ \A p \in Requests \ {q} : req'[p] = req[p]
      /\ UNCHANGED <<view, local, row>>
      BY DEF Ignore, Done, Free, Typed
<1>2. Calm'
      BY <1>1, CalmKept DEF Waits, IsFree
<1>3. \A p \in Requests : /\ Writing(p)' <=> Writing(p)
                          /\ Writing(p) => req'[p].pos = req[p].pos
                          /\ Clearing(p)' => Clearing(p)
      BY <1>1 DEF Writing, Clearing
<1>4. \A e \in Devices : Due(e) => Due(e)'
      BY <1>1, <1>3, DueKept
<1> QED BY <1>1, <1>2, <1>4 DEF Open

LEMMA TakesSettles ==
  ASSUME Typed, Timed, Settling, NEW q \in Requests, Takes(q), clean'
  PROVE  Calm' /\ \A e \in Devices : Open(e)' => Due(e)'
<1>0. clean /\ Calm /\ (\A e \in Devices : Open(e) => Due(e)) /\ UNCHANGED row
      BY DEF Takes, Loaded, Reloaded, Checked, Synced, Saved, Settling
<1>1. CASE Loaded(q)
  <2>1. Waits(q) /\ req[q].op = "load" /\ req[q].pc = "answered"
        BY <1>1 DEF Loaded, Answered, Waits, IsFree
  <2>2. PICK d \in Devices : d = req[q].dev /\ view[d] # Closed
        BY <1>0, <2>1 DEF Calm, Typed, Good
  <2>3. PICK page \in Pages : page = Resumed(req[q].found, req[q].pos)
        BY FoundIsPlace, ProgressAssumption DEF Resumed, Places, Positions, Pages
  <2>4. PICK p \in Requests :
          IsFree(p) /\ Render(d, page, q, [req EXCEPT ![p] = Request("apply", d, Nowhere)])
        BY <1>1, <2>2, <2>3 DEF Loaded
  <2> DEFINE f == [req EXCEPT ![p] = Request("apply", d, Nowhere)]
  <2>5. f \in [Requests -> Good]
        BY <2>2, SentIsGood DEF Reads, Places, Typed
  <2>6. f[p].op = "apply" /\ f[p].dev = d /\ \A o \in Requests \ {p} : f[o] = req[o]
        BY RequestFields DEF Typed
  <2>7. Render(d, page, q, f)
        BY <2>4
  <2> HIDE DEF f
  <2>8. req'[q].op = "save" /\ \A o \in Requests \ {q} : req'[o] = f[o]
        BY <2>5, <2>7, RequestFields DEF Render
  <2>9. \A o \in Requests \ {q} : ~Waits(o)
        BY <1>0, <2>1 DEF Calm
  <2>10. p # q
        BY <2>1, <2>4 DEF IsFree
  <2>11. \A o \in Requests : Waits(o)' => o = p
        BY <2>6, <2>8, <2>9 DEF Waits, IsFree
  <2>12. req'[p].dev = d /\ req'[p].op = "apply"
        BY <2>6, <2>8, <2>10
  <2>13. Calm'
        BY <1>0, <2>2, <2>3, <2>7, <2>11, <2>12, CalmRender DEF Render
  <2>14. \A o \in Requests \ {q} : ~(f[o].op = "reset" /\ f[o].pc # "free")
        BY <2>6, <2>9 DEF Waits, IsFree
  <2>15. \A o \in Requests \ {q} :
           f[o].op \in {"save", "sync"} /\ f[o].pc \in {"sent", "found"} => f[o].pos.at <= now
        BY <2>6 DEF Timed, Writing
  <2>16. Due(d)'
        BY <1>0, <2>2, <2>3, <2>5, <2>7, <2>14, <2>15, RenderDue
  <2>17. view'[d] # Closed
        BY <2>2, <2>3, <2>7 DEF Render, Typed, Pages, Closed
  <2> QED BY <2>2, <2>13, <2>16, <2>17, RenderSettles
<1>2. CASE Reloaded(q)
  <2>1. req[q].pc = "answered" /\ req[q].op = "apply" /\ Waits(q)
        BY <1>2 DEF Reloaded, Answered, Waits, IsFree
  <2>2. CASE req[q].found # Nowhere /\ Apply(q)
    <3>1. req[q].found \in Positions
          BY <2>2, FoundIsPlace DEF Places
    <3> QED BY <1>0, <2>1, <2>2, <3>1, ApplySettles
  <2> QED BY <1>0, <1>2, <2>1, <2>2, IgnoreSettles DEF Reloaded
<1>3. CASE Checked(q)
  <2>1. req[q].pc = "answered" /\ req[q].op = "check" /\ Waits(q)
        BY <1>3 DEF Checked, Answered, Waits, IsFree
  <2>2. CASE ServerWins(req[q].found, req[q].pos) /\ Apply(q)
    <3>1. req[q].found \in Positions
          BY <2>2, FoundIsPlace DEF Places, ServerWins
    <3> QED BY <1>0, <2>1, <2>2, <3>1, ApplySettles
  <2>3. CASE /\ req[q].pos # Nowhere
             /\ now < MaxTime /\ now' = now + 1
             /\ req' = [req EXCEPT ![q] =
                          Request("sync", req[q].dev, Stamped(req[q].pos.page))]
             /\ UNCHANGED <<local, view>>
    <3>1. PICK d \in Devices : d = req[q].dev /\ view[d] # Closed /\ view[d] # Loading
          BY <1>0, <2>1 DEF Typed, Good, Calm
    <3>2. Open(d) /\ Due(d)
          BY <1>0, <3>1 DEF Typed, Open
    <3>3. Stamped(req[q].pos.page).page = view[d]
          BY <1>0, <2>1, <3>1, <3>2, StampedFields DEF Calm, Due, Shown
    <3>4. /\ req'[q].op = "sync" /\ req'[q].dev = d /\ req'[q].pos = Stamped(req[q].pos.page)
          /\ req'[q].pc = "sent"
          /\ \A p \in Requests \ {q} : req'[p] = req[p]
          BY <2>3, <3>1, RequestFields DEF Typed
    <3>5. \A p \in Requests \ {q} : ~Waits(p)
          BY <1>0, <2>1 DEF Calm
    <3>6. Calm'
      <4>1. \A p \in Requests : Waits(p)' => p = q
            BY <3>4, <3>5 DEF Waits, IsFree
      <4> QED BY <1>0, <2>3, <3>1, <3>4, <4>1 DEF Calm
    <3>7. /\ ~Writing(q) /\ ~Clearing(q)' /\ req'[q].pos.page = view[d]
          /\ \A p \in Requests \ {q} : /\ Writing(p)' <=> Writing(p)
                                       /\ req'[p].pos = req[p].pos
                                       /\ Clearing(p)' => Clearing(p)
          BY <2>1, <3>3, <3>4 DEF Writing, Clearing
    <3>8. Due(d)'
          BY <1>0, <2>3, <3>2, <3>7 DEF Due, Since, Shown, AboutToStart
    <3>9. view'[d] # Closed
          BY <2>3, <3>1
    <3> QED BY <3>1, <3>6, <3>8, <3>9, RenderSettles
  <2> QED BY <1>0, <1>3, <2>1, <2>2, <2>3, IgnoreSettles DEF Checked
<1>4. CASE Synced(q)
  <2>1. req[q].found \in Positions /\ req[q].op = "sync" /\ Waits(q)
        BY <1>4 DEF Synced, Answered, Typed, Good, Waits, IsFree
  <2> QED BY <1>0, <1>4, <2>1, ApplySettles DEF Synced
<1>5. CASE Saved(q)
      BY <1>0, <1>5, IgnoreSettles DEF Saved, Answered
<1> QED BY <1>1, <1>2, <1>3, <1>4, <1>5 DEF Takes

(* A handler changes no more of a request than what it has found.           *)
LEMMA ToFields ==
  ASSUME Typed, NEW q \in Requests, NEW pc, NEW found, To(q, pc, found)
  PROVE  /\ req'[q].pc = pc /\ req'[q].op = req[q].op /\ req'[q].found = found
         /\ req'[q].dev = req[q].dev /\ req'[q].pos = req[q].pos
         /\ \A p \in Requests \ {q} : req'[p] = req[p]
<1>1. req[q] \in Reqs
      BY DEF Typed, Good
<1> QED BY <1>1 DEF To, Typed, Reqs

LEMMA HandleCalm ==
  ASSUME Typed, Calm, NEW q \in Requests, ~IsFree(q), UNCHANGED <<view, local>>,
         NEW pc, NEW found, To(q, pc, found)
  PROVE  Calm'
<1>1. \A p \in Requests : Waits(p)' => Waits(p)
      BY ToFields DEF Waits, IsFree
<1>2. \A p \in Requests : /\ req'[p].op = req[p].op /\ req'[p].dev = req[p].dev
                          /\ req'[p].pos = req[p].pos
      BY ToFields
<1> QED BY <1>1, <1>2, CalmKept

LEMMA HandleSettles ==
  ASSUME Typed, Timed, Alone, Settling, NEW q \in Requests, Handle(q), clean'
  PROVE  Calm' /\ \A e \in Devices : Open(e)' => Due(e)'
<1>0. clean /\ Calm /\ (\A e \in Devices : Open(e) => Due(e))
      BY DEF Handle, GetProgress, SetFind, SetSave, ResetFind, ResetRemove, Lose, Settling
<1>0a. UNCHANGED <<view, local>> /\ ~IsFree(q)
      BY DEF Handle, GetProgress, SetFind, SetSave, ResetFind, ResetRemove, Lose, IsFree, Arrives
<1>0b. ASSUME \A e \in Devices : Open(e) /\ Due(e) => Due(e)'
       PROVE  \A e \in Devices : Open(e)' => Due(e)'
      BY <1>0, <1>0a, <1>0b DEF Open
<1>0c. /\ row.at \in Int
       /\ \A p \in Requests : req[p].pos.at \in Int
       /\ \A e \in Devices : local[e].at \in Int
      BY DEF Typed, Good, Reqs, Places, Positions, Nowhere
<1>1. CASE GetProgress(q)
  <2>1. Calm'
        BY <1>0, <1>0a, <1>1, HandleCalm DEF GetProgress
  <2>2. To(q, "answered", row) /\ row' = row /\ req[q].op \in Reads
        BY <1>1 DEF GetProgress, Arrives
  <2>3. \A p \in Requests : /\ Writing(p)' <=> Writing(p)
                            /\ Writing(p) => req'[p].pos = req[p].pos
                            /\ Clearing(p)' => Clearing(p)
        BY <2>2, ToFields DEF Writing, Clearing, Reads
  <2> QED BY <1>0a, <1>0b, <2>1, <2>2, <2>3, DueKept
<1>2. CASE SetFind(q)
  <2>1. req[q].op \in {"save", "sync"} /\ req[q].pc = "sent" /\ row' = row
        BY <1>2 DEF SetFind, Arrives
  <2>2. CASE Newer(row, req[q].pos) /\ Answer(q, row)
    <3>1. PICK found : To(q, "answered", found)
          BY <2>2 DEF Answer
    <3>2. /\ ~Writing(q)'
          /\ \A p \in Requests \ {q} : /\ Writing(p)' <=> Writing(p)
                                       /\ req'[p].pos = req[p].pos
          /\ \A p \in Requests : Clearing(p)' => Clearing(p)
          BY <2>1, <3>1, ToFields DEF Writing, Clearing
    <3>3. \A e \in Devices : Since(e, req[q].pos) => Since(e, row)
          BY <1>0c, <2>2 DEF Newer, Since
    <3>4. \A e \in Devices : Due(e) => Due(e)'
          BY <1>0a, <2>1, <3>2, <3>3 DEF Due, Since, Shown, AboutToStart
    <3> QED BY <1>0, <1>0a, <1>0b, <3>1, <3>4, HandleCalm
  <2>3. CASE To(q, "found", row)
    <3>1. \A p \in Requests : /\ Writing(p)' <=> Writing(p)
                              /\ Writing(p) => req'[p].pos = req[p].pos
                              /\ Clearing(p)' => Clearing(p)
          BY <2>1, <2>3, ToFields DEF Writing, Clearing
    <3> QED BY <1>0, <1>0a, <1>0b, <2>1, <2>3, <3>1, DueKept, HandleCalm
  <2> QED BY <1>2, <2>2, <2>3 DEF SetFind
<1>3. CASE SetSave(q)
  <2>1. Writing(q) /\ Finding(q) /\ req[q].found = row /\ row.at <= req[q].pos.at
        BY <1>3 DEF SetSave, Writing, Finding, Timed, Alone
  <2>2. req'[q].pc = "answered"
        BY <1>3 DEF SetSave
  <2>3. ~Done(q)
        BY <2>2 DEF Done, Free, Typed
  <2>4. row' = req[q].pos /\ Answer(q, req[q].pos)
        BY <1>3, <2>3 DEF SetSave
  <2>5. PICK found : To(q, "answered", found)
        BY <2>4 DEF Answer
  <2>6. /\ ~Writing(q)'
        /\ \A p \in Requests \ {q} : /\ Writing(p)' <=> Writing(p)
                                     /\ req'[p].pos = req[p].pos
        /\ \A p \in Requests : Clearing(p)' => Clearing(p)
        BY <2>1, <2>5, ToFields DEF Writing, Clearing
  <2>7. \A e \in Devices : Since(e, row) => Since(e, req[q].pos)
        BY <1>0c, <2>1 DEF Since
  <2>8. \A e \in Devices : Due(e) => Due(e)'
        BY <1>0a, <2>1, <2>4, <2>6, <2>7 DEF Due, Since, Shown, AboutToStart
  <2> QED BY <1>0, <1>0a, <1>0b, <2>5, <2>8, HandleCalm
<1>4. CASE ResetFind(q)
  <2>1. req[q].op = "reset" /\ req[q].pc = "sent" /\ row' = row
        BY <1>4 DEF ResetFind, Arrives
  <2>2. PICK pc \in {"answered", "found"} : To(q, pc, Nowhere)
        BY <1>4 DEF ResetFind
  <2>3. \A p \in Requests : /\ Writing(p)' <=> Writing(p)
                            /\ Writing(p) => req'[p].pos = req[p].pos
                            /\ Clearing(p)' => Clearing(p)
        BY <2>1, <2>2, ToFields DEF Writing, Clearing
  <2> QED BY <1>0, <1>0a, <1>0b, <2>1, <2>2, <2>3, DueKept, HandleCalm
<1>5. CASE ResetRemove(q)
  <2>1. Clearing(q) /\ To(q, "answered", Nowhere) /\ row' = Nowhere
        BY <1>5 DEF ResetRemove, Clearing
  <2>2. /\ \A p \in Requests : /\ Writing(p)' <=> Writing(p)
                               /\ Writing(p) => req'[p].pos = req[p].pos
                               /\ Clearing(p)' => Clearing(p)
        BY <2>1, ToFields DEF Writing, Clearing
  <2>3. \A e \in Devices : Due(e) => Due(e)'
    <3> SUFFICES ASSUME NEW e \in Devices, Due(e) PROVE Due(e)'
          OBVIOUS
    <3>1. AboutToStart(e)'
          BY <1>0a, <2>1, <2>2 DEF Due, AboutToStart
    <3>2. ~Since(e, row)' /\ row'.page \in {0, 1}
          BY <1>0a, <2>1 DEF Due, Since, Positions, Nowhere
    <3>3. /\ local'[e] \in Positions /\ Shown(e, local[e])'
          /\ \A p \in Requests : Writing(p)' /\ Since(e, req[p].pos)' => Shown(e, req[p].pos)'
          BY <1>0a, <2>2 DEF Due, Since, Shown
    <3> QED BY <3>1, <3>2, <3>3 DEF Due
  <2> QED BY <1>0, <1>0a, <1>0b, <2>1, <2>3, HandleCalm
<1>6. CASE Lose(q)
      BY <1>0, <1>6 DEF Lose
<1> QED BY <1>1, <1>2, <1>3, <1>4, <1>5, <1>6 DEF Handle

(* Time moves on before anything is written, and the row changes only when  *)
(* the handler that has found it saves.                                     *)
LEMMA PageStamps ==
  ASSUME Typed, (\E d \in Devices : User(d)) \/ (\E q \in Requests : Takes(q)),
         NEW q \in Requests, Writing(q)'
  PROVE  (Writing(q) /\ req'[q].pos = req[q].pos) \/ req'[q].pos.at <= now'
<1>0. now \in Int
      BY DEF Typed
<1>1. ASSUME NEW d \in Devices, NEW page, NEW p \in Requests, NEW f \in [Requests -> Good],
             Render(d, page, p, f), f[q] = req[q] \/ f[q].op \notin {"save", "sync"}
      PROVE  (Writing(q) /\ req'[q].pos = req[q].pos) \/ req'[q].pos.at <= now'
  <2>1. CASE q = p
        BY <1>0, <1>1, <2>1, RequestFields, StampedFields DEF Render
  <2>2. CASE q # p
        BY <1>1, <2>2 DEF Render, Writing
  <2> QED BY <2>1, <2>2
<1>2. ASSUME NEW d \in Devices, User(d)
      PROVE  (Writing(q) /\ req'[q].pos = req[q].pos) \/ req'[q].pos.at <= now'
  <2>1. CASE OpenReader(d) \/ Sync(d)
        BY <2>1, RequestFields DEF OpenReader, Sync, Typed, Writing
  <2>2. CASE CloseReader(d)
        BY <2>2 DEF CloseReader, Writing
  <2>3. CASE TurnPage(d)
        BY <1>1, <2>3 DEF TurnPage, Typed
  <2>4. CASE Restart(d)
    <3>1. PICK o \in Requests, p \in Requests :
            Render(d, 1, p, [req EXCEPT ![o] = Request("reset", d, Nowhere)])
          BY <2>4 DEF Restart
    <3> DEFINE f == [req EXCEPT ![o] = Request("reset", d, Nowhere)]
    <3>2. f \in [Requests -> Good]
          BY SentIsGood DEF Writes, Places, Typed
    <3>3. f[q] = req[q] \/ f[q].op \notin {"save", "sync"}
          BY RequestFields DEF Typed
    <3>4. Render(d, 1, p, f)
          BY <3>1
    <3> HIDE DEF f
    <3> QED BY <1>1, <3>2, <3>3, <3>4
  <2> QED BY <1>2, <2>1, <2>2, <2>3, <2>4 DEF User
<1>3. ASSUME NEW p \in Requests, Takes(p)
      PROVE  (Writing(q) /\ req'[q].pos = req[q].pos) \/ req'[q].pos.at <= now'
  <2>1. CASE Done(p)
        BY <2>1 DEF Done, Free, Typed, Writing
  <2>2. req[p].pc = "answered" => req[p].dev \in Devices
        BY DEF Typed, Good
  <2>3. CASE Apply(p) /\ req[p].pc = "answered"
        BY <1>1, <2>1, <2>2, <2>3 DEF Apply, Typed
  <2>4. CASE Loaded(p)
    <3> DEFINE d == req[p].dev
    <3>1. d \in Devices
          BY <2>2, <2>4 DEF Loaded, Answered
    <3>2. CASE view[d] # Closed
      <4>1. PICK o \in Requests :
              Render(d, Resumed(req[p].found, req[p].pos), p,
                     [req EXCEPT ![o] = Request("apply", d, Nowhere)])
            BY <2>4, <3>2 DEF Loaded
      <4> DEFINE f == [req EXCEPT ![o] = Request("apply", d, Nowhere)]
      <4> HIDE DEF d
      <4>2. f \in [Requests -> Good]
            BY <3>1, SentIsGood DEF Reads, Places, Typed
      <4>3. f[q] = req[q] \/ f[q].op \notin {"save", "sync"}
            BY RequestFields DEF Typed
      <4>4. Render(d, Resumed(req[p].found, req[p].pos), p, f)
            BY <4>1
      <4> HIDE DEF f
      <4> QED BY <1>1, <3>1, <4>2, <4>3, <4>4
    <3>3. CASE view[d] = Closed
      <4>1. req' = [req EXCEPT ![p] = Request("apply", d, Nowhere)] /\ now' = now
            BY <2>4, <3>3 DEF Loaded, Render
      <4> HIDE DEF d
      <4> QED BY <1>0, <4>1, RequestFields DEF Typed, Writing
    <3> QED BY <3>2, <3>3
  <2>5. CASE Checked(p)
    <3>1. CASE /\ now' = now + 1
               /\ req' = [req EXCEPT ![p] =
                            Request("sync", req[p].dev, Stamped(req[p].pos.page))]
          BY <1>0, <3>1, RequestFields, StampedFields DEF Typed, Writing
    <3> QED BY <2>1, <2>3, <2>5, <3>1 DEF Checked, Answered, Ignore
  <2> QED BY <1>3, <2>1, <2>3, <2>4, <2>5
          DEF Takes, Reloaded, Synced, Saved, Ignore, Answered
<1> QED BY <1>2, <1>3

LEMMA TimedStep ==
  ASSUME Typed, Alone, ~Overlap, Timed, [Next]_vars
  PROVE  Timed'
<1>0. now \in Int /\ row.at \in Int /\ \A q \in Requests : req[q].pos.at \in Int
      BY DEF Typed, Good, Reqs, Places, Positions, Nowhere
<1>1. CASE UNCHANGED vars
      BY <1>1 DEF Timed, vars, Writing, Finding
<1>2. CASE (\E d \in Devices : User(d)) \/ (\E q \in Requests : Takes(q))
  <2>1. row' = row /\ \A q \in Requests : Finding(q)' => req'[q] = req[q]
        BY <1>2, PageLeavesHandlers
  <2>2. now <= now'
    <3>1. CASE \E d \in Devices : User(d)
          BY <1>0, <3>1 DEF User, OpenReader, CloseReader, TurnPage, Sync, Restart, Render
    <3>2. CASE \E q \in Requests : Takes(q)
          BY <1>0, <3>2 DEF Takes, Loaded, Reloaded, Checked, Synced, Saved, Apply, Ignore, Render
    <3> QED BY <1>2, <3>1, <3>2
  <2>3. now' \in Int
    <3>1. Typed'
          BY NextTyped
    <3> QED BY <3>1 DEF Typed
  <2>4. \A q \in Requests : Writing(q)' => req'[q].pos.at <= now'
    <3> SUFFICES ASSUME NEW q \in Requests, Writing(q)' PROVE req'[q].pos.at <= now'
          OBVIOUS
    <3>1. (Writing(q) /\ req'[q].pos = req[q].pos) \/ req'[q].pos.at <= now'
          BY <1>2, PageStamps
    <3> QED BY <1>0, <2>2, <2>3, <3>1 DEF Timed
  <2>5. \A q \in Requests : Finding(q)' /\ Writing(q)' => req'[q].found = row'
        BY <2>1 DEF Timed, Writing, Finding
  <2> QED BY <1>0, <2>1, <2>2, <2>3, <2>4, <2>5 DEF Timed
<1>3. ASSUME NEW q \in Requests, Handle(q) PROVE Timed'
  <2>1. now' = now
        BY <1>3 DEF Handle, GetProgress, SetFind, SetSave, ResetFind, ResetRemove, Lose
  <2>2. ASSUME NEW pc, NEW found, To(q, pc, found), UNCHANGED row,
               Writing(q)' => Writing(q), Writing(q)' => pc # "found" \/ found = row
        PROVE  Timed'
    <3>1. /\ \A p \in Requests : Writing(p)' => Writing(p) /\ req'[p].pos = req[p].pos
          /\ \A p \in Requests : Finding(p)' /\ Writing(p)' => req'[p].found = row
          BY <2>2, ToFields DEF Timed, Writing, Finding
    <3> QED BY <2>1, <2>2, <3>1 DEF Timed
  <2>3. ASSUME Done(q), UNCHANGED row PROVE Timed'
        BY <2>1, <2>3 DEF Done, Free, Typed, Timed, Writing, Finding
  <2>4. ASSUME Finding(q), Writing(q) \/ req[q].op = "reset",
               row' \in {req[q].pos, Nowhere}, row' = req[q].pos => Writing(q),
               ~Finding(q)', \A p \in Requests \ {q} : req'[p] = req[p],
               Writing(q)' => Writing(q) /\ req'[q].pos = req[q].pos
        PROVE  Timed'
    <3>1. \A p \in Requests : ~Finding(p)'
          BY <2>4 DEF Alone, Finding
    <3>2. \A p \in Requests : Writing(p)' => Writing(p) /\ req'[p].pos = req[p].pos
          BY <2>4 DEF Writing
    <3>3. row'.at <= now
      <4>1. Nowhere.at <= now
            BY DEF Typed, Nowhere
      <4> QED BY <2>4, <4>1 DEF Timed
    <3> QED BY <2>1, <3>1, <3>2, <3>3 DEF Timed
  <2>5. CASE GetProgress(q)
    <3>1. To(q, "answered", row) /\ UNCHANGED row
          BY <2>5 DEF GetProgress
    <3>2. ~Writing(q)'
          BY <3>1, ToFields DEF Writing
    <3> QED BY <2>2, <3>1, <3>2
  <2>6. CASE SetFind(q)
    <3>1. UNCHANGED row /\ Writing(q)
          BY <2>6 DEF SetFind, Arrives, Writing
    <3>2. CASE To(q, "found", row)
          BY <2>2, <3>1, <3>2
    <3>3. CASE Answer(q, row)
      <4>1. PICK found : To(q, "answered", found)
            BY <3>3 DEF Answer
      <4> QED BY <2>2, <3>1, <4>1
    <3> QED BY <2>6, <3>2, <3>3 DEF SetFind
  <2>7. CASE SetSave(q)
    <3>1. Finding(q) /\ Writing(q)
          BY <2>7 DEF SetSave, Finding, Writing
    <3>2. CASE Done(q)
      <4>1. ~Finding(q)' /\ ~Writing(q)' /\ \A p \in Requests \ {q} : req'[p] = req[p]
            BY <3>2 DEF Done, Free, Typed, Finding, Writing
      <4>2. row' = row \/ row' = req[q].pos
            BY <2>7 DEF SetSave
      <4> QED BY <2>3, <2>4, <3>1, <3>2, <4>1, <4>2
    <3>3. CASE row' = req[q].pos /\ Answer(q, req[q].pos)
      <4>1. PICK found : To(q, "answered", found)
            BY <3>3 DEF Answer
      <4>2. ~Finding(q)' /\ ~Writing(q)' /\ \A p \in Requests \ {q} : req'[p] = req[p]
            BY <4>1, ToFields DEF Finding, Writing
      <4> QED BY <2>4, <3>1, <3>3, <4>2
    <3> QED BY <2>7, <3>2, <3>3 DEF SetSave
  <2>8. CASE ResetFind(q)
    <3>1. req[q].op = "reset" /\ UNCHANGED row
          BY <2>8 DEF ResetFind, Arrives
    <3>2. PICK pc : To(q, pc, Nowhere)
          BY <2>8 DEF ResetFind
    <3>3. ~Writing(q)'
          BY <3>1, <3>2, ToFields DEF Writing
    <3> QED BY <2>2, <3>1, <3>2, <3>3
  <2>9. CASE ResetRemove(q)
    <3>1. Finding(q) /\ req[q].op = "reset" /\ ~Writing(q) /\ row' = Nowhere
          BY <2>9 DEF ResetRemove, Finding, Writing
    <3>2. To(q, "answered", Nowhere)
          BY <2>9 DEF ResetRemove
    <3>3. ~Finding(q)' /\ ~Writing(q)' /\ \A p \in Requests \ {q} : req'[p] = req[p]
          BY <3>2, ToFields DEF Finding, Writing
    <3>4. row' # req[q].pos \/ row' = row \/ req[q].pos = Nowhere
          BY <3>1
    <3>5. Nowhere.at <= now
          BY DEF Typed, Nowhere
    <3>6. \A p \in Requests : ~Finding(p)'
          BY <3>1, <3>3 DEF Alone, Finding
    <3> QED BY <2>1, <3>1, <3>3, <3>5, <3>6 DEF Timed, Writing
  <2>10. CASE Lose(q)
    <3>1. UNCHANGED row
          BY <2>10 DEF Lose
    <3>2. CASE To(q, "answered", Nowhere)
      <4>1. ~Writing(q)'
            BY <3>2, ToFields DEF Writing
      <4> QED BY <2>2, <3>1, <3>2, <4>1
    <3> QED BY <2>3, <2>10, <3>1, <3>2 DEF Lose
  <2> QED BY <1>3, <2>5, <2>6, <2>7, <2>8, <2>9, <2>10 DEF Handle
<1> QED BY <1>1, <1>2, <1>3 DEF Next

LEMMA SettlingStep ==
  ASSUME Typed, Alone, Timed, Settling, [Next]_vars
  PROVE  Settling'
<1>1. CASE UNCHANGED vars
  <2>1. Calm => Calm'
        BY <1>1 DEF vars, Calm, Waits, IsFree
  <2>2. \A d \in Devices : Due(d) => Due(d)'
        BY <1>1, DueKept DEF vars, Writing, Clearing
  <2> QED BY <1>1, <2>1, <2>2 DEF vars, Settling, Open
<1>2. CASE clean'
      BY <1>1, <1>2, UserSettles, TakesSettles, HandleSettles DEF Next, Settling
<1> QED BY <1>2 DEF Settling

(* When all requests are answered, the open reader shows what the server    *)
(* holds, as long as nothing was lost and readers were used one at a time   *)
(* and not while they were waiting: what was shown last is what was stamped *)
(* last, and reset and save of a restart may arrive in any order            *)
(* (reconcileProgress and renderPdfPage in app.service.ts).  It needs       *)
(* handlers that write the row to follow each other.                        *)
THEOREM ReaderAlwaysAgrees == ~Overlap /\ Spec => []ReaderAgrees
<1>1. Init => Alone /\ Timed /\ Settling
  <2> SUFFICES ASSUME Init PROVE Alone /\ Timed /\ Settling
        OBVIOUS
  <2>1. \A q \in Requests : req[q].pc = "free"
        BY DEF Init, Free
  <2>2. Calm
        BY <2>1 DEF Init, Calm, Waits, IsFree
  <2>3. \A d \in Devices : ~Open(d)
        BY DEF Init, Open, Closed, Pages
  <2> QED BY <2>1, <2>2, <2>3 DEF Init, Alone, Timed, Settling, Finding, Writing, Nowhere
<1>2. ASSUME Typed, Settling PROVE ReaderAgrees
  <2> SUFFICES ASSUME clean, Quiet, NEW d \in Devices, Open(d)
               PROVE  view[d] = IF row = Nowhere THEN 1 ELSE row.page
        BY DEF ReaderAgrees
  <2>1. Due(d) /\ \A q \in Requests : ~Writing(q)
        BY <1>2 DEF Settling, Quiet, Writing, IsFree
  <2>2. local[d].at \in Int /\ local[d].at > 0 /\ Nowhere.at = 0
        BY <2>1 DEF Due, Positions, Nowhere
  <2>3. CASE Since(d, row)
        BY <2>1, <2>2, <2>3 DEF Due, Since, Shown
  <2>4. CASE AboutToStart(d) /\ row.page \in {0, 1}
    <3>1. row # Nowhere => row.page # 0
          BY <1>2 DEF Typed, Places, Positions, Pages
    <3> QED BY <2>4, <3>1 DEF AboutToStart
  <2> QED BY <2>1, <2>3, <2>4 DEF Due
<1>3. ASSUME ~Overlap, Typed, Alone, [Next]_vars PROVE Alone'
  <2>1. CASE UNCHANGED vars
        BY <1>3, <2>1, NobodyElse DEF vars, Finding
  <2>2. CASE (\E d \in Devices : User(d)) \/ (\E q \in Requests : Takes(q))
        BY <1>3, <2>2, PageLeavesHandlers, NobodyElse
  <2>3. CASE \E q \in Requests : Handle(q)
        BY <1>3, <2>3, HandleImplements
  <2> QED BY <1>3, <2>1, <2>2, <2>3 DEF Next
<1>4. CASE ~Overlap
      BY <1>1, <1>2, <1>3, <1>4, InitTyped, NextTyped, TimedStep, SettlingStep, PTL DEF Spec
<1> QED BY <1>4
=============================================================================
