--------------------------- MODULE Catalogue_proofs ---------------------------
(***************************************************************************)
(* Proofs about the cached list of books.  Whatever is requested and       *)
(* however often the configuration changes, a list shows one Bookdarr,     *)
(* unless it was changed while that list was made, and a list made over a  *)
(* change goes to nobody who asks after it (Own); and while builds do not  *)
(* overlap (alone) a refresh lasts (Calm).                                 *)
(***************************************************************************)
EXTENDS Catalogue, TLAPS

MaybeConf == Configs \cup {Unset}
BookLists == [pool : MaybeConf, covers : MaybeConf, books : Nat,
              changed : BOOLEAN]
Stages == {"new", "read", "clear", "pool", "covers", "open", "write", "answered", "failed"}
Locals == [pc : Stages, key : MaybeConf, list : BookLists, at : Nat, open : BOOLEAN,
           since : Nat, seen : SUBSET MaybeConf]
Written == [kind : {"entry"}, key : {Signature(c) : c \in MaybeConf}, list : BookLists, at : Nat]
Edits   == [pc : {"new", "save", "done"}, path : Paths \cup {Blank}]

Types ==
  /\ conf \in MaybeConf /\ books \in 0..MaxChanges /\ fresh \in 0..books
  /\ file \in {NoFile, Torn} \cup Written
  /\ req \in [Reqs -> Locals] /\ edit \in [Admins -> Edits]
  /\ now \in Nat /\ alone \in BOOLEAN /\ back \in BOOLEAN /\ past \in SUBSET MaybeConf

(* No time is in the future, and a list that was fetched has a pool.        *)
Dated ==
  /\ \A r \in Reqs : /\ req[r].at <= now
                     /\ req[r].pc \in {"covers", "open", "write", "answered"}
                          => req[r].list.pool \in Configs
  /\ file.kind = "entry" => file.at <= now /\ file.list.pool \in Configs

(* No list is newer than the books.                                         *)
NotAhead ==
  /\ \A r \in Reqs : req[r].list.books <= books
  /\ file.kind = "entry" => file.list.books <= books

(* Where what a request has fetched so far comes from, and what the file    *)
(* holds.                                                                   *)
Got(q) ==
  IF q.pc = "covers" THEN {q.list.pool}
  ELSE IF q.pc \in {"open", "write"} THEN {q.list.pool, q.list.covers}
  ELSE {}

(* A request has seen what is configured, and fetches only what it sees.    *)
Seeing ==
  /\ \A r \in Reqs : Reading(r) => {conf, req[r].key} \cup Got(req[r]) \subseteq req[r].seen
  /\ ~back => conf \notin past

(* Unless the configuration changed while it was made, a list is of the     *)
(* configuration its key names.                                             *)
Unchanged ==
  /\ \A r \in Reqs : Reading(r) /\ ~req[r].list.changed =>
       /\ Making(r) => req[r].key = conf
       /\ Got(req[r]) \subseteq {req[r].key}
  /\ file.kind = "entry" /\ ~file.list.changed =>
       file.key = Signature(file.list.pool) /\ file.list.covers = file.list.pool

(* While no configuration comes back, what is made or kept under the        *)
(* present key is of the present configuration, and what is kept under the  *)
(* key of a request is of configurations that the request has seen.         *)
Known == {conf} \cup past
Keyed ==
  /\ \A r \in Reqs : Reading(r) => req[r].key \in Known /\ (req[r].key = conf => Got(req[r]) \subseteq {conf})
  /\ file.kind = "entry" => \E k \in Known :
       file.key = Signature(k) /\ (k = conf => {file.list.pool, file.list.covers} \subseteq {conf})
Shared ==
  \A r \in Reqs : At(r, "read") =>
    /\ \A s \in Reqs : Reading(s) /\ req[s].key = req[r].key => Got(req[s]) \subseteq req[r].seen
    /\ file.kind = "entry" /\ file.key = Signature(req[r].key) =>
         {file.list.pool, file.list.covers} \subseteq req[r].seen

OwnList ==
  \A r \in Reqs : At(r, "answered") =>
    /\ ~req[r].list.changed =>
         req[r].list.pool \in req[r].seen /\ req[r].list.covers = req[r].list.pool
    /\ ~back => {req[r].list.pool, req[r].list.covers} \subseteq req[r].seen

Own == Seeing /\ Unchanged /\ (~back => Keyed /\ Shared) /\ OwnList

(* While builds do not overlap: each is for the present configuration, ... *)
OneBuild == \A r, s \in Reqs : Building(r) /\ Building(s) => r = s

Present ==
  \A r \in Reqs : Reading(r) =>
    /\ req[r].key = conf /\ req[r].seen = {conf} /\ req[r].since <= fresh
    /\ At(r, "covers") \/ At(r, "open") \/ At(r, "write") =>
         req[r].list.pool = conf /\ req[r].list.books >= fresh
    /\ At(r, "open") \/ At(r, "write") => req[r].list.covers = conf

(* ... what the file says is true of the list in it, ...                    *)
Truthful ==
  file.kind = "entry" =>
    /\ file.key = Signature(file.list.pool) /\ file.list.covers = file.list.pool
    /\ file.list.books >= fresh

(* ... a refresh that builds has removed the old list, ...                  *)
Removed ==
  \A r \in Reqs :
    /\ r \in Refreshes /\ (At(r, "pool") \/ At(r, "covers") \/ At(r, "open")) => file = NoFile
    /\ At(r, "write") => file \in {NoFile, Torn}
    /\ At(r, "read") => r \notin Refreshes

(* ... and what was answered is right.                                       *)
Right ==
  \A r \in Reqs : At(r, "answered") =>
    /\ req[r].list.pool \in req[r].seen /\ req[r].list.covers = req[r].list.pool
    /\ req[r].list.books >= req[r].since

Calm == OneBuild /\ Present /\ Truthful /\ Removed /\ Right
IInv == Types /\ Dated /\ NotAhead /\ Own /\ (alone => Calm)

-----------------------------------------------------------------------------
(* The key of an entry names the configuration.                             *)
LEMMA SignatureNames ==
  ASSUME NEW c \in MaybeConf, NEW d \in MaybeConf, Signature(c) = Signature(d)
  PROVE  c = d
BY DEF MaybeConf, Configs, Unset, Signature

LEMMA NewTyped == New \in Locals /\ Nothing \in BookLists
BY DEF New, Nothing, Locals, Stages, BookLists, MaybeConf, Unset

(* Starting.                                                                *)
LEMMA InitInv == Init => IInv
<1> SUFFICES ASSUME Init PROVE IInv
    OBVIOUS
<1>1. /\ file.kind = "none" /\ past = {} /\ back = FALSE
      /\ \A r \in Reqs : req[r].pc = "new" /\ req[r].at = 0 /\ req[r].list.books = 0
    BY DEF Init, New, Nothing, NoFile
<1>2. Types
  <2>1. conf \in MaybeConf /\ books = 0 /\ fresh = 0 /\ file = NoFile /\ now = 0
        /\ alone = TRUE /\ back = FALSE /\ past = {}
      BY CatalogueAssumption DEF Init, MaybeConf
  <2>2. req \in [Reqs -> Locals]
      BY NewTyped DEF Init
  <2>3. edit \in [Admins -> Edits]
      BY DEF Init, Edits
  <2>4. books \in 0..MaxChanges /\ fresh \in 0..books /\ now \in Nat
      BY <2>1, CatalogueAssumption
  <2>5. past \in SUBSET MaybeConf
      BY <2>1
  <2>6. QED BY <2>1, <2>2, <2>3, <2>4, <2>5 DEF Types
<1>3. Dated /\ NotAhead
    BY <1>1 DEF Init, Dated, NotAhead
<1>4. Own
    BY <1>1 DEF Own, Seeing, Unchanged, Keyed, Shared, OwnList, At, Building, Reading
<1>5. Calm
    BY <1>1 DEF Calm, OneBuild, Present, Truthful, Removed, Right, At, Building, Reading
<1>6. QED BY <1>2, <1>3, <1>4, <1>5 DEF IInv

(* What a request holds keeps its type, ...                                *)
LEMMA SetTyped ==
  ASSUME Types, NEW r \in Reqs, NEW new \in Locals, Set(r, new)
  PROVE  req' \in [Reqs -> Locals]
BY DEF Types, Set

(* ... and only it changes, ...                                             *)
LEMMA SetChanges ==
  ASSUME Types, NEW r \in Reqs, NEW new, Set(r, new)
  PROVE  req'[r] = new /\ \A s \in Reqs \ {r} : req'[s] = req[s]
BY DEF Types, Set

LEMMA EndsChanges ==
  ASSUME Types, NEW r \in Reqs, NEW list, Ends(r, list)
  PROVE  /\ req'[r].pc = "answered" /\ req'[r].list = list /\ req'[r].at = 0
         /\ req'[r].since = req[r].since /\ req'[r].seen = req[r].seen
         /\ \A s \in Reqs \ {r} : req'[s] = req[s]
<1> DEFINE new == [New EXCEPT !.pc = "answered", !.list = list, !.since = req[r].since,
                              !.seen = req[r].seen]
<1>1. /\ new.pc = "answered" /\ new.list = list /\ new.at = 0
      /\ new.since = req[r].since /\ new.seen = req[r].seen
      BY DEF New
<1>2. Set(r, new)
      BY DEF Ends
<1> HIDE DEF new
<1>3. QED BY <1>1, <1>2, SetChanges

LEMMA FailsChanges ==
  ASSUME Types, NEW r \in Reqs, Fails(r)
  PROVE  /\ req'[r].pc = "failed" /\ req'[r].list = Nothing /\ req'[r].at = 0
         /\ \A s \in Reqs \ {r} : req'[s] = req[s]
<1> DEFINE new == [New EXCEPT !.pc = "failed"]
<1>1. new.pc = "failed" /\ new.list = Nothing /\ new.at = 0
      BY DEF New
<1>2. Set(r, new)
      BY DEF Fails
<1> HIDE DEF new
<1>3. QED BY <1>1, <1>2, SetChanges

LEMMA GoesChanges ==
  ASSUME Types, NEW r \in Reqs, NEW pc, Goto(r, pc)
  PROVE  /\ req'[r].pc = pc /\ req'[r].list = req[r].list /\ req'[r].at = req[r].at
         /\ req'[r].key = req[r].key /\ req'[r].since = req[r].since
         /\ req'[r].seen = req[r].seen
         /\ \A s \in Reqs \ {r} : req'[s] = req[s]
<1>1. req'[r] = [req[r] EXCEPT !.pc = pc] /\ \A s \in Reqs \ {r} : req'[s] = req[s]
      BY SetChanges DEF Goto
<1>2. req[r] \in Locals
      BY DEF Types
<1>3. QED BY <1>1, <1>2 DEF Locals

(* ... also when it ends.                                                   *)
LEMMA EndsTyped ==
  ASSUME Types, NEW r \in Reqs, NEW list \in BookLists, Ends(r, list) \/ Fails(r)
  PROVE  req' \in [Reqs -> Locals]
<1>1. /\ [New EXCEPT !.pc = "failed"] \in Locals
      /\ [New EXCEPT !.pc = "answered", !.list = list, !.since = req[r].since,
                     !.seen = req[r].seen] \in Locals
      BY NewTyped DEF Types, Locals, Stages
<1>2. QED BY <1>1, SetTyped DEF Ends, Fails

(* What the steps of a request make of what it holds.                       *)
Others(r) == \A s \in Reqs \ {r} : req'[s] = req[s]
Same(r)   == /\ req'[r].key = req[r].key /\ req'[r].since = req[r].since
             /\ req'[r].seen = req[r].seen

LEMMA BeginDoes ==
  ASSUME Types, NEW r \in Reqs, Begin(r)
  PROVE  /\ Others(r) /\ req'[r].at = 0 /\ req'[r].list = Nothing
         /\ \/ req'[r].pc = "failed"
            \/ /\ req'[r].pc = IF r \in Refreshes THEN "clear" ELSE "read"
               /\ req'[r].key = conf /\ req'[r].since = fresh /\ req'[r].seen = {conf}
<1> DEFINE q == [New EXCEPT !.pc = IF r \in Refreshes THEN "clear" ELSE "read",
                            !.key = conf, !.since = fresh, !.seen = {conf}]
<1>1. /\ q.pc = (IF r \in Refreshes THEN "clear" ELSE "read") /\ q.at = 0
      /\ q.list = Nothing /\ q.key = conf /\ q.since = fresh /\ q.seen = {conf}
      BY DEF New
<1>2. Set(r, q) \/ Fails(r)
      BY DEF Begin
<1> HIDE DEF q
<1>3. QED BY <1>1, <1>2, SetChanges, FailsChanges DEF Others

LEMMA FetchDoes ==
  ASSUME Types, NEW r \in Reqs, FetchPool(r)
  PROVE  /\ Others(r)
         /\ \/ req'[r].pc = "failed" /\ req'[r].list = Nothing /\ req'[r].at = 0
            \/ /\ conf \in Configs /\ req'[r].pc = "covers" /\ Same(r)
               /\ req'[r].at = req[r].at
               /\ req'[r].list.pool = conf /\ req'[r].list.books = books
               /\ req'[r].list.changed = req[r].list.changed
<1> DEFINE q == [req[r] EXCEPT !.pc = "covers", !.list.pool = conf, !.list.books = books]
<1>1. /\ q.pc = "covers" /\ q.at = req[r].at /\ q.list.pool = conf /\ q.list.books = books
      /\ q.list.changed = req[r].list.changed /\ q.key = req[r].key /\ q.since = req[r].since /\ q.seen = req[r].seen
  <2>1. req[r] \in Locals
      BY DEF Types
  <2>2. QED BY <2>1 DEF Locals, BookLists
<1>2. (Configured /\ Set(r, q)) \/ Fails(r)
      BY DEF FetchPool
<1>3. Configured => conf \in Configs
      BY DEF Configured, Types, MaybeConf
<1> HIDE DEF q
<1>4. QED BY <1>1, <1>2, <1>3, SetChanges, FailsChanges DEF Others, Same

LEMMA CoversDoes ==
  ASSUME Types, NEW r \in Reqs, FindCovers(r)
  PROVE  /\ Others(r)
         /\ \/ req'[r].pc = "failed" /\ req'[r].list = Nothing /\ req'[r].at = 0
            \/ /\ Same(r) /\ req'[r].pc = "open" /\ req'[r].at = req[r].at
               /\ req'[r].list.pool = req[r].list.pool /\ req'[r].list.books = req[r].list.books
               /\ req'[r].list.covers = conf /\ req'[r].list.changed = req[r].list.changed
<1> DEFINE q == [req[r] EXCEPT !.pc = "open", !.list.covers = conf]
<1>1. /\ q.pc = "open" /\ q.at = req[r].at /\ q.list.changed = req[r].list.changed
      /\ q.list.pool = req[r].list.pool /\ q.list.books = req[r].list.books
      /\ q.list.covers = conf
      /\ q.key = req[r].key /\ q.since = req[r].since /\ q.seen = req[r].seen
  <2>1. req[r] \in Locals
      BY DEF Types
  <2>2. QED BY <2>1 DEF Locals, BookLists
<1>2. Set(r, q) \/ Fails(r)
      BY DEF FindCovers
<1> HIDE DEF q
<1>3. QED BY <1>1, <1>2, SetChanges, FailsChanges DEF Others, Same

LEMMA OpenDoes ==
  ASSUME Types, NEW r \in Reqs, OpenFile(r)
  PROVE  \/ Ends(r, req[r].list) /\ Answer(r) /\ file' = file
         \/ /\ Others(r) /\ Same(r) /\ req'[r].pc = "write" /\ req'[r].at = now
            /\ req'[r].list = req[r].list /\ file' = Torn /\ fresh' = fresh
<1> DEFINE q == [req[r] EXCEPT !.pc = "write", !.at = now, !.open = TRUE]
<1>1. /\ q.pc = "write" /\ q.at = now /\ q.list = req[r].list
      /\ q.key = req[r].key /\ q.since = req[r].since /\ q.seen = req[r].seen
  <2>1. req[r] \in Locals
      BY DEF Types
  <2>2. QED BY <2>1 DEF Locals
<1>2. \/ Set(r, q) /\ file' = Torn /\ fresh' = fresh
      \/ Ends(r, req[r].list) /\ Answer(r) /\ file' = file
      BY DEF OpenFile
<1> HIDE DEF q
<1>3. QED BY <1>1, <1>2, SetChanges DEF Others, Same

LEMMA AnswerTyped ==
  ASSUME Types, NEW r \in Reqs, req[r].list.books <= books, Answer(r)
  PROVE  fresh' \in 0..books
BY DEF Types, Answer, Locals, BookLists

(* Every step keeps the types.                                             *)
LEMMA TypesStep ==
  ASSUME Types, NotAhead, [Next]_vars
  PROVE  Types'
<1> USE CatalogueAssumption DEF Types
<1>1. CASE \E r \in Reqs : Request(r)
  <2> PICK r \in Reqs : Request(r)
      BY <1>1
  <2>1. req[r] \in Locals /\ req[r].list \in BookLists
      BY DEF Locals
  <2>2. CASE Begin(r)
    <3> DEFINE q == [New EXCEPT !.pc = IF r \in Refreshes THEN "clear" ELSE "read",
                                !.key = conf, !.since = fresh, !.seen = {conf}]
    <3>1. q \in Locals
      <4>1. (IF r \in Refreshes THEN "clear" ELSE "read") \in Stages
          BY DEF Stages
      <4>2. fresh \in Nat /\ {conf} \in SUBSET MaybeConf
          OBVIOUS
      <4>3. QED BY NewTyped, <4>1, <4>2 DEF Locals
    <3>2. req' \in [Reqs -> Locals]
        BY <2>2, <3>1, SetTyped, EndsTyped, NewTyped DEF Begin
    <3>3. alone' \in BOOLEAN
        BY <2>2 DEF Begin, BuildAlone
    <3>4. QED BY <2>2, <3>2, <3>3 DEF Begin
  <2>3. CASE ReadCache(r)
    <3>1. CASE Valid(r) /\ Ends(r, file.list) /\ UNCHANGED alone
      <4>1. file.list \in BookLists
          BY <3>1 DEF Valid, Written, NoFile, Torn
      <4>2. QED BY <2>3, <3>1, <4>1, EndsTyped DEF ReadCache
    <3>2. CASE Goto(r, "pool") /\ BuildAlone(r)
      <4>1. [req[r] EXCEPT !.pc = "pool"] \in Locals
          BY <2>1 DEF Locals, Stages
      <4>2. req' = [req EXCEPT ![r] = [req[r] EXCEPT !.pc = "pool"]]
          BY <3>2 DEF Goto, Set
      <4>3. req' \in [Reqs -> Locals]
          BY <4>1, <4>2
      <4>4. QED BY <2>3, <3>2, <4>3 DEF ReadCache, BuildAlone
    <3>3. QED BY <2>3, <3>1, <3>2 DEF ReadCache
  <2>4. CASE ClearCache(r)
    <3>1. req' \in [Reqs -> Locals]
      <4>1. \A s \in Reqs : /\ [req[s] EXCEPT !.pc = "pool"] \in Locals
                            /\ [req[s] EXCEPT !.open = FALSE] \in Locals
          BY DEF Locals, Stages
      <4>2. QED BY <2>4, <4>1 DEF ClearCache
    <3>2. QED BY <2>4, <3>1 DEF ClearCache
  <2>5. CASE FetchPool(r)
    <3>1. [req[r] EXCEPT !.pc = "covers", !.list.pool = conf, !.list.books = books] \in Locals
      <4>1. [req[r].list EXCEPT !.pool = conf, !.books = books] \in BookLists
        <5>1. books \in Nat /\ conf \in MaybeConf
            OBVIOUS
        <5>2. QED BY ONLY <2>1, <5>1 DEF BookLists
      <4>2. QED BY <2>1, <4>1 DEF Locals, Stages
    <3>2. req' \in [Reqs -> Locals]
        BY <2>5, <3>1, SetTyped, EndsTyped, NewTyped DEF FetchPool
    <3>3. QED BY <2>5, <3>2 DEF FetchPool
  <2>6. CASE FindCovers(r)
    <3>1. [req[r] EXCEPT !.pc = "open", !.list.covers = conf] \in Locals
        BY <2>1 DEF Locals, Stages, BookLists
    <3>2. req' \in [Reqs -> Locals]
        BY <2>6, <3>1, SetTyped, EndsTyped, NewTyped DEF FindCovers
    <3>3. QED BY <2>6, <3>2 DEF FindCovers
  <2>7. CASE OpenFile(r)
    <3>1. [req[r] EXCEPT !.pc = "write", !.at = now, !.open = TRUE] \in Locals
        BY <2>1 DEF Locals, Stages
    <3>2. req' \in [Reqs -> Locals]
        BY <2>1, <2>7, <3>1, SetTyped, EndsTyped DEF OpenFile
    <3>3. fresh' \in 0..books
        BY <2>7, AnswerTyped DEF OpenFile, NotAhead
    <3>4. QED BY <2>7, <3>2, <3>3 DEF OpenFile
  <2>8. CASE WriteFile(r)
    <3>1. req' \in [Reqs -> Locals]
        BY <2>1, <2>8, EndsTyped DEF WriteFile
    <3>2. fresh' \in 0..books
        BY <2>8, AnswerTyped DEF WriteFile, NotAhead
    <3>3. Entry(Signature(req[r].key), req[r].list, req[r].at) \in Written
        BY <2>1 DEF Entry, Written, Locals
    <3>4. QED BY <2>8, <3>1, <3>2, <3>3 DEF WriteFile
  <2>9. QED BY <2>2, <2>3, <2>4, <2>5, <2>6, <2>7, <2>8 DEF Request
<1>2. CASE \E a \in Admins : FindConfig(a)
      BY <1>2 DEF FindConfig, Edits, MaybeConf, Configs, Unset
<1>3. CASE \E a \in Admins : SaveConfig(a)
  <2> PICK a \in Admins : SaveConfig(a)
      BY <1>3
  <2>1. conf' \in Configs
      BY DEF SaveConfig, Edits, Default, Configs
  <2>2. edit' \in [Admins -> Edits]
      BY DEF SaveConfig, Saved, Edits
  <2>3. req' \in [Reqs -> Locals]
    <3>1. \A r \in Reqs : req[r] \in Locals /\ req[r].list \in BookLists
        BY DEF Locals
    <3>2. ASSUME NEW r \in Reqs
          PROVE  [req[r] EXCEPT !.seen = @ \cup {conf'},
                    !.list.changed = @ \/ (Making(r) /\ conf' # conf)] \in Locals
      <4> DEFINE c == req[r].list.changed \/ (Making(r) /\ conf' # conf)
                 n == req[r].seen \cup {conf'}
      <4>1. c \in BOOLEAN
          BY <3>1 DEF BookLists
      <4>2. n \in SUBSET MaybeConf
          BY <2>1, <3>1 DEF Locals, MaybeConf
      <4> HIDE DEF c, n
      <4>3. [req[r].list EXCEPT !.changed = c] \in BookLists
          BY <3>1, <4>1 DEF BookLists
      <4>4. [req[r] EXCEPT !.seen = n, !.list.changed = c] \in Locals
          BY <3>1, <4>2, <4>3 DEF Locals
      <4>5. QED BY <4>4 DEF c, n
    <3>3. QED BY <3>1, <3>2 DEF SaveConfig
  <2>4. past' \in SUBSET MaybeConf /\ back' \in BOOLEAN
      BY <2>1 DEF SaveConfig, MaybeConf
  <2>5. QED BY <2>1, <2>2, <2>3, <2>4 DEF SaveConfig, MaybeConf
<1>4. CASE Change \/ Tick
      BY <1>4 DEF Change, Tick
<1>5. CASE Crash
      BY <1>5 DEF Crash, Saved, New, Locals, Stages, BookLists, Nothing, MaybeConf, Unset, Edits
<1>6. CASE UNCHANGED vars
      BY <1>6 DEF vars
<1>7. QED BY <1>1, <1>2, <1>3, <1>4, <1>5, <1>6 DEF Next

(* What saving a configuration does to the requests.                        *)
LEMMA SaveDoes ==
  ASSUME Types, \E a \in Admins : SaveConfig(a)
  PROVE  /\ UNCHANGED <<books, file, now, crashes, fresh>>
         /\ past' = IF conf' = conf THEN past ELSE past \cup {conf}
         /\ back' = (back \/ conf' \in past')
         /\ \A r \in Reqs :
              /\ req'[r].at = req[r].at /\ req'[r].pc = req[r].pc /\ req'[r].key = req[r].key
              /\ req'[r].since = req[r].since
              /\ req'[r].list.pool = req[r].list.pool /\ req'[r].list.covers = req[r].list.covers
              /\ req'[r].list.books = req[r].list.books
              /\ req'[r].seen = IF Reading(r) THEN req[r].seen \cup {conf'} ELSE req[r].seen
              /\ req'[r].list.changed = (req[r].list.changed \/ (Making(r) /\ conf' # conf))
<1>1. /\ UNCHANGED <<books, file, now, crashes, fresh>>
      /\ past' = IF conf' = conf THEN past ELSE past \cup {conf}
      /\ back' = (back \/ conf' \in past')
      /\ req' = [r \in Reqs |->
           IF Reading(r) THEN [req[r] EXCEPT !.seen = @ \cup {conf'},
                                 !.list.changed = @ \/ (Making(r) /\ conf' # conf)]
           ELSE req[r]]
      BY DEF SaveConfig
<1>2. ASSUME NEW r \in Reqs
      PROVE  /\ req'[r].at = req[r].at /\ req'[r].pc = req[r].pc /\ req'[r].key = req[r].key
             /\ req'[r].since = req[r].since
             /\ req'[r].list.pool = req[r].list.pool /\ req'[r].list.covers = req[r].list.covers
             /\ req'[r].list.books = req[r].list.books
             /\ req'[r].seen = IF Reading(r) THEN req[r].seen \cup {conf'} ELSE req[r].seen
             /\ req'[r].list.changed = (req[r].list.changed \/ (Making(r) /\ conf' # conf))
  <2>1. req[r] \in Locals /\ req[r].list \in BookLists
      BY DEF Types, Locals
  <2> DEFINE c == req[r].list.changed \/ (Making(r) /\ conf' # conf)
             n == req[r].seen \cup {conf'}
  <2>2. CASE Reading(r)
    <3>1. req'[r] = [req[r] EXCEPT !.seen = n, !.list.changed = c]
        BY <1>1, <2>2
    <3> HIDE DEF c, n
    <3>2. /\ req'[r].at = req[r].at /\ req'[r].pc = req[r].pc /\ req'[r].key = req[r].key
          /\ req'[r].since = req[r].since /\ req'[r].seen = n
          /\ req'[r].list = [req[r].list EXCEPT !.changed = c]
        BY <2>1, <3>1 DEF Locals
    <3>3. /\ req'[r].list.pool = req[r].list.pool /\ req'[r].list.covers = req[r].list.covers
          /\ req'[r].list.books = req[r].list.books /\ req'[r].list.changed = c
        BY <2>1, <3>2 DEF BookLists
    <3>4. QED BY <2>2, <3>2, <3>3 DEF c, n
  <2>3. CASE ~Reading(r)
    <3>1. req'[r] = req[r] /\ ~Making(r)
        BY <1>1, <2>3 DEF Making
    <3>2. req[r].list.changed \in BOOLEAN
        BY <2>1 DEF BookLists
    <3>3. QED BY <2>3, <3>1, <3>2
  <2>4. QED BY <2>2, <2>3
<1>3. QED BY <1>1, <1>2

(* No step dates anything in the future or invents books.                   *)
LEMMA DatedStep ==
  ASSUME Types, Dated, NotAhead, [Next]_vars
  PROVE  Dated' /\ NotAhead'
<1> USE CatalogueAssumption DEF Types, Dated, NotAhead
<1>0. \A r \in Reqs : req[r] \in Locals
      OBVIOUS
<1>1. CASE \E r \in Reqs : Request(r)
  <2> PICK r \in Reqs : Request(r)
      BY <1>1
  <2> USE <1>0 DEF Locals, BookLists, Stages, New, Nothing, At
  <2>2. CASE Begin(r)
    <3>1. /\ Others(r) /\ req'[r].at = 0 /\ req'[r].list = Nothing
          /\ req'[r].pc \in {"failed", "clear", "read"}
        BY <2>2, BeginDoes
    <3>2. QED BY <2>2, <3>1 DEF Begin, Others
  <2>3. CASE ReadCache(r)
    <3>1. CASE Valid(r) /\ Ends(r, file.list)
      <4>1. /\ file' = file /\ now' = now /\ books' = books /\ file.kind = "entry"
            /\ req'[r].at = 0 /\ req'[r].list = file.list /\ Others(r)
        <5>1. file.kind = "entry" /\ file.list \in BookLists
            BY <3>1 DEF Valid, Written, NoFile, Torn
        <5>2. QED BY <2>3, <3>1, <5>1, EndsChanges DEF ReadCache, Others
      <4>2. QED BY <4>1 DEF Others
    <3>2. CASE Goto(r, "pool")
        BY <2>3, <3>2, GoesChanges DEF ReadCache
    <3>3. QED BY <2>3, <3>1, <3>2 DEF ReadCache
  <2>4. CASE ClearCache(r)
      BY <2>4 DEF ClearCache, NoFile
  <2>5. CASE FetchPool(r)
    <3>1. /\ Others(r)
          /\ \/ req'[r].pc = "failed" /\ req'[r].list = Nothing /\ req'[r].at = 0
             \/ /\ conf \in Configs /\ req'[r].at = req[r].at
                /\ req'[r].list.pool = conf /\ req'[r].list.books = books
        BY <2>5, FetchDoes
    <3>2. now \in Nat /\ books \in Nat /\ Nothing.books = 0
        BY DEF Types
    <3>3. /\ req'[r].at <= now /\ req'[r].list.books <= books
          /\ req'[r].pc \in {"covers", "open", "write", "answered"}
               => req'[r].list.pool \in Configs
        BY <3>1, <3>2
    <3>4. QED BY <2>5, <3>1, <3>3 DEF FetchPool, Others
  <2>6. CASE FindCovers(r)
    <3>1. /\ Others(r)
          /\ \/ req'[r].pc = "failed" /\ req'[r].list = Nothing /\ req'[r].at = 0
             \/ /\ req'[r].pc = "open" /\ req'[r].at = req[r].at
                /\ req'[r].list.pool = req[r].list.pool /\ req'[r].list.books = req[r].list.books
        BY <2>6, CoversDoes
    <3>2. now \in Nat /\ books \in Nat /\ Nothing.books = 0 /\ At(r, "covers")
        BY <2>6 DEF Types, FindCovers
    <3>3. /\ req'[r].at <= now /\ req'[r].list.books <= books
          /\ req'[r].pc \in {"covers", "open", "write", "answered"}
               => req'[r].list.pool \in Configs
        BY <3>1, <3>2
    <3>4. QED BY <2>6, <3>1, <3>3 DEF FindCovers, Others
  <2>7. CASE OpenFile(r)
    <3>1. CASE Ends(r, req[r].list) /\ file' = file
        BY <2>7, <3>1, EndsChanges DEF OpenFile
    <3>2. CASE Others(r) /\ req'[r].at = now /\ req'[r].list = req[r].list /\ file' = Torn
        BY <2>7, <3>2 DEF OpenFile, Others, Torn
    <3>3. \/ Ends(r, req[r].list) /\ file' = file
          \/ Others(r) /\ req'[r].at = now /\ req'[r].list = req[r].list /\ file' = Torn
        BY <2>7, OpenDoes
    <3>4. QED BY <3>1, <3>2, <3>3
  <2>8. CASE WriteFile(r)
      BY <2>8 DEF WriteFile, Set, Ends, Torn, Entry
  <2>9. QED BY <2>2, <2>3, <2>4, <2>5, <2>6, <2>7, <2>8 DEF Request
<1>2. CASE \E a \in Admins : FindConfig(a)
      BY <1>2 DEF FindConfig
<1>3. CASE \E a \in Admins : SaveConfig(a)
  <2>1. /\ UNCHANGED <<books, file, now>>
        /\ \A r \in Reqs : /\ req'[r].at = req[r].at /\ req'[r].pc = req[r].pc
                           /\ req'[r].list.pool = req[r].list.pool
                           /\ req'[r].list.books = req[r].list.books
      BY <1>3, SaveDoes
  <2>2. QED BY <2>1
<1>4. CASE Change \/ Tick
  <2>1. \A r \in Reqs : req[r].at \in Nat /\ req[r].list.books \in Nat
      BY <1>0 DEF Locals, BookLists
  <2>2. file.kind = "entry" => file.at \in Nat /\ file.list.books \in Nat
      BY DEF Written, BookLists, NoFile, Torn
  <2>3. QED BY <1>4, <2>1, <2>2 DEF Change, Tick, At
<1>5. CASE Crash
      BY <1>5 DEF Crash, New, Nothing
<1>6. CASE UNCHANGED vars
      BY <1>6 DEF vars
<1>7. QED BY <1>1, <1>2, <1>3, <1>4, <1>5, <1>6 DEF Next

-----------------------------------------------------------------------------
(* The pools and covers of the lists, whoever overlaps whom                 *)

(* A step that only brings requests forward, one of them perhaps ending     *)
(* with the list l, keeps what is known of the others.                      *)
LEMMA RequestOwn ==
  ASSUME Types, Types', Own, NEW r \in Reqs, Request(r)
  PROVE  Own'
<1> USE DEF At, Building, Reading, Making
<1>0. /\ \A s \in Reqs : req[s] \in Locals /\ req[s].key \in MaybeConf /\ req[s].list \in BookLists
      /\ conf' = conf /\ past' = past /\ back' = back /\ conf \in MaybeConf
      BY DEF Types, Locals, Request, Begin, ReadCache, ClearCache, FetchPool, FindCovers, OpenFile, WriteFile
<1>k. Known' = Known /\ Known \subseteq MaybeConf
      BY <1>0 DEF Known, Types
(* Nothing of the others changes, and the file at most goes.                *)
<1>a. ASSUME \A s \in Reqs \ {r} : /\ req'[s].pc = req[s].pc /\ req'[s].key = req[s].key
                                  /\ req'[s].list = req[s].list /\ req'[s].seen = req[s].seen,
             file' = file \/ file'.kind # "entry",
             \/ req'[r].pc = "failed"
             \/ /\ req'[r].pc \in {"read", "clear"} /\ req'[r].key = conf
                /\ req'[r].seen = {conf} /\ req'[r].list = Nothing
             \/ /\ Reading(r) /\ req'[r].pc \in {"pool", "covers", "open", "write"} /\ Same(r)
                /\ req'[r].list.changed = req[r].list.changed
                /\ req'[r].pc \in {"pool", "covers", "open"} => Making(r)
                /\ Got(req'[r]) \subseteq Got(req[r]) \cup (IF Making(r) THEN {conf} ELSE {})
      PROVE  Own'
  <2>1. Got(req'[r]) = {} \/ req'[r].pc \in {"covers", "open", "write"}
      BY DEF Got
  <2>2. \A s \in Reqs \ {r} : Got(req'[s]) = Got(req[s])
      BY <1>a DEF Got
  <2>3. Seeing'
      BY <1>0, <1>a, <2>1, <2>2 DEF Own, Seeing, Same
  <2>4. Unchanged'
      BY <1>0, <1>a, <2>1, <2>2 DEF Own, Unchanged, Same, Nothing
  <2>5. ~back => Keyed'
    <3> SUFFICES ASSUME ~back PROVE Keyed'
        OBVIOUS
    <3>1. ASSUME NEW s \in Reqs, Reading(s)'
          PROVE  req'[s].key \in Known /\ (req'[s].key = conf => Got(req'[s]) \subseteq {conf})
        BY <1>0, <1>a, <2>1, <2>2, <3>1 DEF Own, Keyed, Same, Known
    <3>2. file'.kind = "entry" => \E k \in Known :
            file'.key = Signature(k) /\ (k = conf => {file'.list.pool, file'.list.covers} \subseteq {conf})
        BY <1>a DEF Own, Keyed
    <3>3. QED BY <1>0, <1>k, <3>1, <3>2 DEF Keyed
  <2>6. ~back => Shared'
    <3> SUFFICES ASSUME ~back PROVE Shared'
        OBVIOUS
    <3>1. ASSUME NEW t \in Reqs, req'[t].pc = "read", NEW s \in Reqs, Reading(s)',
                 req'[s].key = req'[t].key
          PROVE  Got(req'[s]) \subseteq req'[t].seen
      <4>1. CASE t = r
        <5>1. req'[r].key = conf /\ req'[r].seen = {conf} /\ Got(req'[r]) = {}
            BY <1>a, <3>1, <4>1 DEF Got
        <5>2. QED BY <1>a, <2>2, <3>1, <4>1, <5>1 DEF Own, Keyed
      <4>2. CASE t # r /\ s # r
          BY <1>a, <2>2, <3>1, <4>2 DEF Own, Shared
      <4>3. CASE t # r /\ s = r
        <5>1. /\ req[t].pc = "read" /\ req'[t].seen = req[t].seen /\ conf \in req[t].seen
              /\ req'[t].key = req[t].key
            BY <1>a, <3>1, <4>3 DEF Own, Seeing
        <5>2. Got(req'[r]) = {} \/ Got(req[r]) \subseteq req[t].seen
            BY <1>a, <2>1, <3>1, <4>3, <5>1 DEF Own, Shared, Same
        <5>3. QED BY <1>a, <2>1, <4>3, <5>1, <5>2
      <4>4. QED BY <4>1, <4>2, <4>3
    <3>2. ASSUME NEW t \in Reqs, req'[t].pc = "read", file'.kind = "entry",
                 file'.key = Signature(req'[t].key)
          PROVE  {file'.list.pool, file'.list.covers} \subseteq req'[t].seen
      <4>1. CASE t = r
        <5>1. req'[r].key = conf /\ req'[r].seen = {conf}
            BY <1>a, <3>2, <4>1
        <5>2. PICK k \in Known :
                file.key = Signature(k) /\ (k = conf => {file.list.pool, file.list.covers} \subseteq {conf})
            BY <1>a, <3>2 DEF Own, Keyed
        <5>3. k = conf
            BY <1>0, <1>a, <1>k, <3>2, <4>1, <5>1, <5>2, SignatureNames
        <5>4. QED BY <1>a, <3>2, <4>1, <5>1, <5>2, <5>3
      <4>2. CASE t # r
          BY <1>a, <3>2, <4>2 DEF Own, Shared
      <4>3. QED BY <4>1, <4>2
    <3>3. QED BY <3>1, <3>2 DEF Shared
  <2>7. OwnList'
      BY <1>0, <1>a DEF Own, OwnList
  <2>8. QED BY <1>0, <2>3, <2>4, <2>5, <2>6, <2>7 DEF Own
(* It ends with a list, and what becomes of the file is right.              *)
<1>b. ASSUME NEW l, Ends(r, l),
             ~l.changed => l.pool \in req[r].seen /\ l.covers = l.pool,
             ~back => {l.pool, l.covers} \subseteq req[r].seen,
             \/ file' = file \/ file'.kind # "entry"
             \/ /\ req[r].pc = "write"
                /\ file'.key = Signature(req[r].key) /\ file'.list = req[r].list
      PROVE  Own'
  <2>1. /\ Others(r) /\ req'[r].pc = "answered" /\ req'[r].list = l /\ req'[r].seen = req[r].seen
      BY <1>b, EndsChanges DEF Others
  <2>2. Seeing' /\ OwnList'
      BY <1>0, <1>b, <2>1 DEF Own, Seeing, OwnList, Others
  <2>3. req[r].pc = "write" =>
          /\ Got(req[r]) = {req[r].list.pool, req[r].list.covers}
          /\ ~req[r].list.changed => Got(req[r]) \subseteq {req[r].key}
          /\ ~back => /\ req[r].key \in Known /\ (req[r].key = conf => Got(req[r]) \subseteq {conf})
                      /\ \A t \in Reqs : req[t].pc = "read" /\ req[r].key = req[t].key =>
                            Got(req[r]) \subseteq req[t].seen
      BY DEF Got, Own, Unchanged, Keyed, Shared
  <2>4. Unchanged'
      BY <1>0, <1>b, <2>1, <2>3 DEF Own, Unchanged, Others
  <2>5. ~back => Keyed'
    <3> SUFFICES ASSUME ~back PROVE Keyed'
        OBVIOUS
    <3>1. ASSUME NEW s \in Reqs, Reading(s)'
          PROVE  req'[s].key \in Known /\ (req'[s].key = conf => Got(req'[s]) \subseteq {conf})
        BY <2>1, <3>1 DEF Own, Keyed, Others
    <3>2. file'.kind = "entry" => \E k \in Known :
            file'.key = Signature(k) /\ (k = conf => {file'.list.pool, file'.list.covers} \subseteq {conf})
        BY <1>b, <2>3 DEF Own, Keyed
    <3>3. QED BY <1>0, <1>k, <3>1, <3>2 DEF Keyed
  <2>6. ~back => Shared'
    <3> SUFFICES ASSUME ~back PROVE Shared'
        OBVIOUS
    <3>1. ASSUME NEW t \in Reqs, req'[t].pc = "read", NEW s \in Reqs, Reading(s)',
                 req'[s].key = req'[t].key
          PROVE  Got(req'[s]) \subseteq req'[t].seen
        BY <2>1, <3>1 DEF Own, Shared, Others
    <3>2. ASSUME NEW t \in Reqs, req'[t].pc = "read", file'.kind = "entry",
                 file'.key = Signature(req'[t].key)
          PROVE  {file'.list.pool, file'.list.covers} \subseteq req'[t].seen
      <4>1. t # r /\ req[t].pc = "read" /\ req'[t] = req[t]
          BY <2>1, <3>2 DEF Others
      <4>2. CASE file' = file
          BY <3>2, <4>1, <4>2 DEF Own, Shared
      <4>3. CASE /\ req[r].pc = "write"
                 /\ file'.key = Signature(req[r].key) /\ file'.list = req[r].list
        <5>1. req[r].key = req[t].key
            BY <1>0, <3>2, <4>1, <4>3, SignatureNames
        <5>2. QED BY <2>3, <4>1, <4>3, <5>1
      <4>4. QED BY <1>b, <3>2, <4>2, <4>3
    <3>3. QED BY <3>1, <3>2 DEF Shared
  <2>7. QED BY <1>0, <2>2, <2>4, <2>5, <2>6 DEF Own
(* What a build holds at its end is right.                                  *)
<1>c. req[r].pc \in {"open", "write"} =>
        /\ ~req[r].list.changed =>
             req[r].list.pool \in req[r].seen /\ req[r].list.covers = req[r].list.pool
        /\ {req[r].list.pool, req[r].list.covers} \subseteq req[r].seen
      BY DEF Own, Seeing, Unchanged, Got
<1>1. CASE Begin(r)
  <2>1. /\ file' = file /\ Others(r) /\ req'[r].list = Nothing
        /\ \/ req'[r].pc = "failed"
           \/ /\ req'[r].pc \in {"clear", "read"}
              /\ req'[r].key = conf /\ req'[r].seen = {conf}
      BY <1>1, BeginDoes DEF Begin
  <2>2. QED BY <1>a, <2>1 DEF Others
<1>2. CASE ReadCache(r)
  <2>1. CASE Valid(r) /\ Ends(r, file.list)
    <3>1. /\ file' = file /\ req[r].pc = "read" /\ file.kind = "entry"
          /\ file.key = Signature(req[r].key) /\ file.list \in BookLists
        BY <1>2, <2>1 DEF ReadCache, Valid, Types, Written, NoFile, Torn
    <3>2. ~file.list.changed => file.list.pool = req[r].key /\ file.list.covers = file.list.pool
      <4>1. file.list.pool \in MaybeConf
          BY <3>1 DEF BookLists
      <4>2. QED BY <1>0, <3>1, <4>1, SignatureNames DEF Own, Unchanged
    <3>3. ~file.list.changed => file.list.pool \in req[r].seen /\ file.list.covers = file.list.pool
        BY <3>1, <3>2 DEF Own, Seeing
    <3>4. ~back => {file.list.pool, file.list.covers} \subseteq req[r].seen
        BY <3>1 DEF Own, Shared
    <3>5. QED BY <1>b, <2>1, <3>1, <3>3, <3>4
  <2>2. CASE Goto(r, "pool")
    <3>1. /\ file' = file /\ req[r].pc = "read" /\ Others(r) /\ Same(r) /\ req'[r].pc = "pool"
          /\ req'[r].list = req[r].list
        BY <1>2, <2>2, GoesChanges DEF ReadCache, Others, Same
    <3>2. Got(req'[r]) = {}
        BY <3>1 DEF Got
    <3>3. QED BY <1>a, <3>1, <3>2 DEF Others
  <2>3. QED BY <1>2, <2>1, <2>2 DEF ReadCache
<1>3. CASE ClearCache(r)
  <2>1. /\ file'.kind # "entry" /\ req[r].pc = "clear" /\ req'[r].pc = "pool" /\ Same(r)
        /\ req'[r].list = req[r].list
        /\ \A s \in Reqs \ {r} :
             /\ req'[s].pc = req[s].pc /\ req'[s].key = req[s].key
             /\ req'[s].list = req[s].list /\ req'[s].seen = req[s].seen
      BY <1>0, <1>3 DEF ClearCache, NoFile, Same, Locals
  <2>2. Got(req'[r]) = {}
      BY <2>1 DEF Got
  <2>3. QED BY <1>a, <2>1, <2>2
<1>4. CASE FetchPool(r)
  <2>1. /\ file' = file /\ Others(r) /\ req[r].pc = "pool"
        /\ \/ req'[r].pc = "failed"
           \/ /\ req'[r].pc = "covers" /\ Same(r) /\ req'[r].list.pool = conf
              /\ req'[r].list.changed = req[r].list.changed
      BY <1>4, FetchDoes DEF FetchPool
  <2>2. req'[r].pc = "covers" => Got(req'[r]) = {req'[r].list.pool}
      BY DEF Got
  <2>3. QED BY <1>a, <2>1, <2>2 DEF Others
<1>5. CASE FindCovers(r)
  <2>1. /\ file' = file /\ Others(r) /\ req[r].pc = "covers"
        /\ \/ req'[r].pc = "failed"
           \/ /\ req'[r].pc = "open" /\ Same(r) /\ req'[r].list.pool = req[r].list.pool
              /\ req'[r].list.covers = conf /\ req'[r].list.changed = req[r].list.changed
      BY <1>5, CoversDoes DEF FindCovers
  <2>2. /\ Got(req[r]) = {req[r].list.pool}
        /\ req'[r].pc = "open" => Got(req'[r]) = {req'[r].list.pool, req'[r].list.covers}
      BY <2>1 DEF Got
  <2>3. QED BY <1>a, <2>1, <2>2 DEF Others
<1>6. CASE OpenFile(r)
  <2>1. req[r].pc = "open"
      BY <1>6 DEF OpenFile
  <2>2. CASE Ends(r, req[r].list) /\ file' = file
      BY <1>b, <1>c, <2>1, <2>2
  <2>3. CASE /\ Others(r) /\ Same(r) /\ req'[r].pc = "write"
             /\ req'[r].list = req[r].list /\ file' = Torn
    <3>1. Got(req'[r]) = Got(req[r]) /\ file'.kind # "entry"
        BY <2>1, <2>3 DEF Got, Torn
    <3>2. QED BY <1>a, <2>1, <2>3, <3>1 DEF Others
  <2>4. QED BY <1>6, <2>2, <2>3, OpenDoes
<1>7. CASE WriteFile(r)
  <2>1. /\ req[r].pc = "write" /\ Ends(r, req[r].list)
        /\ \/ file' = file \/ file' = Torn
           \/ file' = Entry(Signature(req[r].key), req[r].list, req[r].at)
      BY <1>7 DEF WriteFile
  <2>2. \/ file' = file \/ file'.kind # "entry"
        \/ file'.key = Signature(req[r].key) /\ file'.list = req[r].list
      BY <2>1 DEF Torn, Entry
  <2>3. QED BY <1>b, <1>c, <2>1, <2>2
<1>8. QED BY <1>1, <1>2, <1>3, <1>4, <1>5, <1>6, <1>7 DEF Request

(* The configuration changes, time passes, the process ends.                *)
LEMMA EnvironmentOwn ==
  ASSUME Types, Types', Own,
         \/ \E a \in Admins : FindConfig(a) \/ SaveConfig(a)
         \/ Change \/ Tick \/ Crash \/ UNCHANGED vars
  PROVE  Own'
<1> USE DEF At, Building, Reading, Making
<1>1. CASE \/ \E a \in Admins : FindConfig(a)
           \/ Change \/ Tick \/ UNCHANGED vars
  <2>1. req' = req /\ conf' = conf /\ file' = file /\ past' = past /\ back' = back
      BY <1>1 DEF FindConfig, Change, Tick, vars
  <2>2. QED BY <2>1 DEF Own, Seeing, Unchanged, Keyed, Known, Shared, OwnList, Got
<1>2. CASE \E a \in Admins : SaveConfig(a)
  <2>1. /\ file' = file /\ past' = (IF conf' = conf THEN past ELSE past \cup {conf})
        /\ back' = (back \/ conf' \in past')
        /\ \A r \in Reqs :
             /\ req'[r].pc = req[r].pc /\ req'[r].key = req[r].key
             /\ req'[r].list.pool = req[r].list.pool /\ req'[r].list.covers = req[r].list.covers
             /\ req'[r].seen = IF Reading(r) THEN req[r].seen \cup {conf'} ELSE req[r].seen
             /\ req'[r].list.changed = (req[r].list.changed \/ (Making(r) /\ conf' # conf))
      BY <1>2, SaveDoes
  <2>2. \A r \in Reqs : Got(req'[r]) = Got(req[r])
      BY <2>1 DEF Got
  <2>3. Seeing'
      BY <2>1, <2>2 DEF Own, Seeing
  <2>4. Unchanged'
      BY <2>1, <2>2 DEF Own, Unchanged
  <2>5. OwnList'
      BY <2>1 DEF Own, OwnList
  <2>6. ~back' => ~back /\ Known \subseteq Known' /\ conf' \notin past'
        /\ (conf' # conf => conf' \notin Known)
      BY <2>1 DEF Known
  <2>7. ~back' => Keyed'
    <3> SUFFICES ASSUME ~back' PROVE Keyed'
        OBVIOUS
    <3>1. ASSUME NEW s \in Reqs, Reading(s)'
          PROVE  req'[s].key \in Known' /\ (req'[s].key = conf' => Got(req'[s]) \subseteq {conf'})
        BY <2>1, <2>2, <2>6, <3>1 DEF Own, Keyed
    <3>2. file'.kind = "entry" => \E k \in Known' :
            file'.key = Signature(k) /\ (k = conf' => {file'.list.pool, file'.list.covers} \subseteq {conf'})
        BY <2>1, <2>6 DEF Own, Keyed
    <3>3. QED BY <3>1, <3>2 DEF Keyed
  <2>8. ~back' => Shared'
    <3> SUFFICES ASSUME ~back' PROVE Shared'
        OBVIOUS
    <3>1. ASSUME NEW t \in Reqs, req'[t].pc = "read", NEW s \in Reqs, Reading(s)',
                 req'[s].key = req'[t].key
          PROVE  Got(req'[s]) \subseteq req'[t].seen
        BY <2>1, <2>2, <2>6, <3>1 DEF Own, Shared
    <3>2. ASSUME NEW t \in Reqs, req'[t].pc = "read", file'.kind = "entry",
                 file'.key = Signature(req'[t].key)
          PROVE  {file'.list.pool, file'.list.covers} \subseteq req'[t].seen
        BY <2>1, <2>6, <3>2 DEF Own, Shared
    <3>3. QED BY <3>1, <3>2 DEF Shared
  <2>9. QED BY <2>3, <2>4, <2>5, <2>7, <2>8 DEF Own
<1>3. CASE Crash
  <2>1. /\ file' = file /\ conf' = conf /\ past' = past /\ back' = back
        /\ \A r \in Reqs : /\ ~Reading(r)'
                           /\ ~Reading(r) => req'[r] = req[r]
                           /\ Reading(r) => req'[r].pc = "failed"
      BY <1>3 DEF Crash, New
  <2>2. QED BY <2>1 DEF Own, Seeing, Unchanged, Keyed, Known, Shared, OwnList
<1>4. QED BY <1>1, <1>2, <1>3

-----------------------------------------------------------------------------
(* A list that ends with what it holds is right.                            *)
LEMMA EndsRight ==
  ASSUME Types, Calm, NEW r \in Reqs, At(r, "open") \/ At(r, "write")
  PROVE  /\ req[r].list.pool \in req[r].seen /\ req[r].list.covers = req[r].list.pool
         /\ req[r].list.books >= req[r].since /\ req[r].list.books >= fresh
<1>1. Reading(r)
      BY DEF Reading, Building, At
<1>2. req[r].list.books \in Nat /\ req[r].since \in Nat /\ fresh \in Nat
      BY CatalogueAssumption DEF Types, Locals, BookLists
<1>3. QED BY <1>1, <1>2 DEF Calm, Present

(* When a build answers, no list in the file is older than a refresh.       *)
LEMMA AnswerCalm ==
  ASSUME Types, Calm, NEW r \in Reqs, At(r, "open") \/ At(r, "write"), Answer(r)
  PROVE  fresh' \in Nat /\ fresh <= fresh' /\ fresh' <= req[r].list.books
<1>1. req[r].list.books \in Nat /\ fresh \in Nat /\ req[r].list.books >= fresh
      BY EndsRight, CatalogueAssumption DEF Types, Locals, BookLists
<1>2. QED BY <1>1 DEF Answer

(* While builds do not overlap, the steps of a request keep all this.       *)
LEMMA RequestCalm ==
  ASSUME Types, Dated, NotAhead, Types', Calm, alone', NEW r \in Reqs, Request(r)
  PROVE  Calm'
<1> USE DEF At, Building, Reading
<1>0. /\ \A s \in Reqs : req[s] \in Locals /\ req[s].since \in Nat /\ req[s].list.books \in Nat
      /\ fresh \in Nat
      BY CatalogueAssumption DEF Types, Locals, BookLists
<1>1. CASE Begin(r)
  <2>1. conf' = conf /\ file' = file /\ fresh' = fresh /\ Others(r)
      BY <1>1, BeginDoes DEF Begin
  <2>a. \/ req'[r].pc \in {"failed", "read"}
        \/ req'[r].pc = "clear" /\ \A s \in Reqs \ {r} : ~Building(s)
    <3>1. req'[r].pc \in {"failed", "read"} \/ (req'[r].pc = "clear" /\ r \in Refreshes)
        BY <1>1, BeginDoes
    <3>2. req'[r].pc = "failed" \/ (r \in Refreshes => BuildAlone(r))
        BY <1>1, FailsChanges DEF Begin
    <3>3. QED BY <3>1, <3>2 DEF BuildAlone
  <2>2. OneBuild'
      BY <2>1, <2>a DEF Calm, OneBuild, Others
  <2>3. Present'
      BY <1>0, <1>1, <2>1, BeginDoes DEF Calm, Present, Others
  <2>4. Truthful' /\ Removed' /\ Right'
      BY <1>1, <2>1, BeginDoes DEF Calm, Truthful, Removed, Right, Others
  <2>5. QED BY <2>2, <2>3, <2>4 DEF Calm
<1>2. CASE ReadCache(r) /\ Valid(r) /\ Ends(r, file.list)
  <2>1. /\ conf' = conf /\ file' = file /\ fresh' = fresh /\ Others(r)
        /\ req'[r].pc = "answered" /\ req'[r].list = file.list
        /\ req'[r].since = req[r].since /\ req'[r].seen = {conf}
        /\ req[r].key = conf /\ req[r].since <= fresh
      BY <1>2, EndsChanges DEF ReadCache, Others, Calm, Present
  <2>2. /\ file.kind = "entry" /\ file.key = Signature(conf) /\ file.list \in BookLists
        /\ file.key = Signature(file.list.pool) /\ file.list.covers = file.list.pool
        /\ file.list.books >= fresh
      BY <1>2, <2>1 DEF Valid, Calm, Truthful, Types, Written, NoFile, Torn
  <2>3. file.list.pool = conf
      BY <2>2, SignatureNames DEF Types, BookLists
  <2>4. Right'
      BY <1>0, <2>1, <2>2, <2>3 DEF Calm, Right, Others, BookLists
  <2>5. OneBuild' /\ Present' /\ Truthful' /\ Removed'
      BY <2>1 DEF Calm, OneBuild, Present, Truthful, Removed, Others
  <2>6. QED BY <2>4, <2>5 DEF Calm
<1>3. CASE ReadCache(r) /\ Goto(r, "pool") /\ BuildAlone(r)
  <2>1. /\ conf' = conf /\ file' = file /\ fresh' = fresh /\ Others(r) /\ Same(r)
        /\ req[r].pc = "read" /\ req'[r].pc = "pool" /\ r \notin Refreshes
        /\ \A s \in Reqs \ {r} : ~Building(s)
      BY <1>3, GoesChanges DEF ReadCache, Others, Same, BuildAlone, Calm, Removed
  <2>2. OneBuild' /\ Present'
      BY <2>1 DEF Calm, OneBuild, Present, Others, Same
  <2>3. Truthful' /\ Removed' /\ Right'
      BY <2>1 DEF Calm, Truthful, Removed, Right, Others
  <2>4. QED BY <2>2, <2>3 DEF Calm
<1>4. CASE ClearCache(r)
  <2>1. /\ conf' = conf /\ file' = NoFile /\ fresh' = fresh
        /\ req[r].pc = "clear" /\ req'[r].pc = "pool" /\ Same(r)
        /\ \A s \in Reqs \ {r} :
             /\ req'[s].pc = req[s].pc /\ req'[s].key = req[s].key
             /\ req'[s].list = req[s].list /\ req'[s].seen = req[s].seen
             /\ req'[s].since = req[s].since
      BY <1>0, <1>4 DEF ClearCache, Same, Locals
  <2>2. OneBuild' /\ Present'
      BY <2>1 DEF Calm, OneBuild, Present, Same
  <2>3. Truthful' /\ Removed' /\ Right'
      BY <2>1 DEF Calm, Truthful, Removed, Right, NoFile
  <2>4. QED BY <2>2, <2>3 DEF Calm
<1>5. CASE FetchPool(r)
  <2>1. /\ conf' = conf /\ file' = file /\ fresh' = fresh /\ Others(r) /\ req[r].pc = "pool"
        /\ \/ req'[r].pc = "failed"
           \/ /\ req'[r].pc = "covers" /\ Same(r)
              /\ req'[r].list.pool = conf /\ req'[r].list.books = books
      BY <1>5, FetchDoes DEF FetchPool
  <2>2. books >= fresh
      BY CatalogueAssumption DEF Types
  <2>3. OneBuild' /\ Present'
      BY <2>1, <2>2 DEF Calm, OneBuild, Present, Others, Same
  <2>4. Truthful' /\ Removed' /\ Right'
      BY <2>1 DEF Calm, Truthful, Removed, Right, Others
  <2>5. QED BY <2>3, <2>4 DEF Calm
<1>6. CASE FindCovers(r)
  <2>1. /\ conf' = conf /\ file' = file /\ fresh' = fresh /\ Others(r) /\ req[r].pc = "covers"
        /\ \/ req'[r].pc = "failed"
           \/ /\ req'[r].pc = "open" /\ Same(r)
              /\ req'[r].list.pool = req[r].list.pool /\ req'[r].list.books = req[r].list.books
              /\ req'[r].list.covers = conf
      BY <1>6, CoversDoes DEF FindCovers
  <2>2. OneBuild' /\ Present'
      BY <2>1 DEF Calm, OneBuild, Present, Others, Same
  <2>3. Truthful' /\ Removed' /\ Right'
      BY <2>1 DEF Calm, Truthful, Removed, Right, Others
  <2>4. QED BY <2>2, <2>3 DEF Calm
(* At the end of a build nobody else builds, and readers asked before it.   *)
<1>a. At(r, "open") \/ At(r, "write") =>
        \A s \in Reqs \ {r} : ~Building(s)
      BY DEF Calm, OneBuild
<1>b. ASSUME At(r, "open") \/ At(r, "write"), Ends(r, req[r].list), Answer(r), conf' = conf
      PROVE  OneBuild' /\ Present' /\ Removed' /\ Right'
  <2>1. /\ Others(r) /\ req'[r].pc = "answered" /\ req'[r].list = req[r].list
        /\ req'[r].since = req[r].since /\ req'[r].seen = req[r].seen
      BY <1>b, EndsChanges DEF Others
  <2>2. fresh' \in Nat /\ fresh <= fresh'
      BY <1>b, AnswerCalm
  <2>3. OneBuild' /\ Removed'
      BY <1>a, <1>b, <2>1 DEF Calm, OneBuild, Removed, Others
  <2>4. Present'
    <3>1. SUFFICES ASSUME NEW s \in Reqs, Reading(s)' PROVE Present!(s)'
        BY DEF Present
    <3>2. QED BY <1>0, <1>a, <1>b, <2>1, <2>2, <3>1 DEF Calm, Present, Others
  <2>5. Right'
      BY <1>b, <2>1, EndsRight DEF Calm, Right, Others
  <2>6. QED BY <2>3, <2>4, <2>5
<1>7. CASE OpenFile(r)
  <2>0. At(r, "open") /\ conf' = conf
      BY <1>7 DEF OpenFile
  <2>1. CASE Ends(r, req[r].list) /\ Answer(r) /\ file' = file
    <3>1. OneBuild' /\ Present' /\ Removed' /\ Right'
        BY <1>b, <2>0, <2>1
    <3>2. Truthful'
      <4>1. CASE r \in Refreshes
          BY <2>0, <2>1, <4>1 DEF Calm, Removed, Truthful, NoFile
      <4>2. CASE r \notin Refreshes
          BY <2>1, <4>2 DEF Answer, Calm, Truthful
      <4>3. QED BY <4>1, <4>2
    <3>3. QED BY <3>1, <3>2 DEF Calm
  <2>2. CASE /\ Others(r) /\ Same(r) /\ req'[r].pc = "write"
             /\ req'[r].list = req[r].list /\ file' = Torn /\ fresh' = fresh
    <3>1. OneBuild' /\ Present'
        BY <2>0, <2>2 DEF Calm, OneBuild, Present, Others, Same
    <3>2. Removed'
        BY <1>a, <2>0, <2>2 DEF Calm, Removed, Others
    <3>3. Truthful' /\ Right'
        BY <2>0, <2>2 DEF Calm, Truthful, Right, Others, Torn
    <3>4. QED BY <3>1, <3>2, <3>3 DEF Calm
  <2>3. QED BY <1>7, <2>1, <2>2, OpenDoes
<1>8. CASE WriteFile(r)
  <2>0. /\ At(r, "write") /\ conf' = conf /\ Ends(r, req[r].list) /\ Answer(r)
        /\ \/ file' = file \/ file' = Torn
           \/ file' = Entry(Signature(req[r].key), req[r].list, req[r].at)
      BY <1>8 DEF WriteFile
  <2>1. OneBuild' /\ Present' /\ Removed' /\ Right'
      BY <1>b, <2>0
  <2>2. file \in {NoFile, Torn}
      BY <2>0 DEF Calm, Removed
  <2>3. fresh' <= req[r].list.books /\ fresh' \in Nat
      BY <2>0, AnswerCalm
  <2>4. /\ req[r].key = conf /\ req[r].list.pool = conf /\ req[r].list.covers = conf
      BY <2>0 DEF Calm, Present
  <2>5. Truthful'
      BY <1>0, <2>0, <2>2, <2>3, <2>4 DEF Truthful, Entry, NoFile, Torn
  <2>6. QED BY <2>1, <2>5 DEF Calm
<1>9. QED BY <1>1, <1>2, <1>3, <1>4, <1>5, <1>6, <1>7, <1>8 DEF Request, ReadCache

(* The configuration changes, time passes, the process ends.                *)
LEMMA EnvironmentCalm ==
  ASSUME Types, Calm, alone',
         \/ \E a \in Admins : FindConfig(a) \/ SaveConfig(a)
         \/ Change \/ Tick \/ Crash \/ UNCHANGED vars
  PROVE  Calm'
<1> USE DEF At, Building, Reading
<1>1. CASE \/ \E a \in Admins : FindConfig(a)
           \/ Change \/ Tick \/ UNCHANGED vars
  <2>1. req' = req /\ conf' = conf /\ file' = file /\ fresh' = fresh
      BY <1>1 DEF FindConfig, Change, Tick, vars
  <2>2. QED BY <2>1 DEF Calm, OneBuild, Present, Truthful, Removed, Right
<1>2. CASE \E a \in Admins : SaveConfig(a)
  <2>1. /\ file' = file /\ fresh' = fresh /\ req' = req
        /\ \A r \in Reqs : ~Reading(r)
    <3>1. \A r \in Reqs : ~Reading(r)
        BY <1>2 DEF SaveConfig
    <3>2. req' = [r \in Reqs |-> req[r]]
        BY <1>2, <3>1 DEF SaveConfig
    <3>3. QED BY <1>2, <3>1, <3>2 DEF SaveConfig, Types
  <2>2. QED BY <2>1 DEF Calm, OneBuild, Present, Truthful, Removed, Right
<1>3. CASE Crash
  <2>1. /\ file' = file /\ fresh' = fresh /\ conf' = conf
        /\ \A r \in Reqs : /\ ~Reading(r)'
                           /\ ~Reading(r) => req'[r] = req[r]
                           /\ Reading(r) => req'[r].pc = "failed"
      BY <1>3 DEF Crash, New
  <2>2. QED BY <2>1 DEF Calm, OneBuild, Present, Truthful, Removed, Right
<1>4. QED BY <1>1, <1>2, <1>3

(* What has overlapped stays overlapped.                                    *)
LEMMA AloneBefore ==
  ASSUME Types, [Next]_vars, alone'
  PROVE  alone
<1>1. CASE \E r \in Reqs : Request(r)
      BY <1>1 DEF Request, Begin, ReadCache, ClearCache, FetchPool, FindCovers, OpenFile,
                  WriteFile, BuildAlone, Types
<1>2. CASE \E a \in Admins : FindConfig(a) \/ SaveConfig(a)
      BY <1>2 DEF FindConfig, SaveConfig, Types
<1>3. CASE Change \/ Tick \/ Crash \/ UNCHANGED vars
      BY <1>3 DEF Change, Tick, Crash, vars
<1>4. QED BY <1>1, <1>2, <1>3 DEF Next

LEMMA StepInv ==
  ASSUME IInv, [Next]_vars
  PROVE  IInv'
<1>1. Types' /\ Dated' /\ NotAhead'
      BY TypesStep, DatedStep DEF IInv
<1>2. ASSUME alone' PROVE Calm'
  <2>1. Calm
      BY <1>2, AloneBefore DEF IInv
  <2>2. CASE \E r \in Reqs : Request(r)
      BY <1>1, <1>2, <2>1, <2>2, RequestCalm DEF IInv
  <2>3. CASE ~\E r \in Reqs : Request(r)
    <3>1. \/ \E a \in Admins : FindConfig(a) \/ SaveConfig(a)
          \/ Change \/ Tick \/ Crash \/ UNCHANGED vars
        BY <2>3 DEF Next
    <3>2. QED BY <1>2, <2>1, <3>1, EnvironmentCalm DEF IInv
  <2>4. QED BY <2>2, <2>3
<1>3. Own'
  <2>1. CASE \E r \in Reqs : Request(r)
      BY <1>1, <2>1, RequestOwn DEF IInv
  <2>2. CASE ~\E r \in Reqs : Request(r)
    <3>1. \/ \E a \in Admins : FindConfig(a) \/ SaveConfig(a)
          \/ Change \/ Tick \/ Crash \/ UNCHANGED vars
        BY <2>2 DEF Next
    <3>2. QED BY <1>1, <3>1, EnvironmentOwn DEF IInv
  <2>3. QED BY <2>1, <2>2
<1>4. QED BY <1>1, <1>2, <1>3 DEF IInv

LEMMA InvHolds == Spec => []IInv
<1>1. IInv /\ [Next]_vars => IInv'
      BY StepInv
<1>2. QED BY InitInv, <1>1, PTL DEF Spec

-----------------------------------------------------------------------------
(* A list shows the pool and the covers of one configuration that was in    *)
(* force during its request, for any sites, paths, requests and             *)
(* administrators, crashes and failing writes, and however builds, writes   *)
(* of the file and changes of the configuration overlap, unless it changed  *)
(* while that list was made; and as long as no configuration comes back, no *)
(* list at all shows one that was not in force during its request.          *)
THEOREM AlwaysOwnPool == Spec => []OwnPool
<1>1. IInv => TypeOK
  <2>1. ASSUME IInv PROVE TypeOK
    <3>1. /\ \A r \in Reqs : req[r].at <= now /\ (At(r, "answered") => req[r].list.pool \in Configs)
          /\ conf \in Configs \cup {Unset} /\ books \in 0..MaxChanges /\ fresh \in 0..books
        BY <2>1 DEF IInv, Types, Dated, At, MaybeConf
    <3>2. file.kind = "entry" => file.at \in 0..now
      <4>1. file.kind = "entry" => file.at \in Nat
          BY <2>1 DEF IInv, Types, Written, NoFile, Torn
      <4>2. QED BY <2>1, <4>1 DEF IInv, Types, Dated
    <3>3. QED BY <3>1, <3>2 DEF TypeOK
  <2>2. QED BY <2>1
<1>2. IInv => OwnPool
      BY <1>1 DEF IInv, Own, OwnList, OwnPool
<1>3. QED BY InvHolds, <1>2, PTL

(* Nobody who asks after a refresh was answered gets an older list, unless  *)
(* builds overlapped, or a build and a change of the configuration.         *)
THEOREM RefreshLastsAlways == Spec => []RefreshLasts
<1>1. IInv => RefreshLasts
      BY DEF IInv, RefreshLasts, Calm, Right
<1>2. QED BY InvHolds, <1>1, PTL
===============================================================================
