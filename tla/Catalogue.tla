------------------------------ MODULE Catalogue ------------------------------
(***************************************************************************)
(* The list of books: fetched from the Bookdarr that is configured         *)
(* (bookdarr/), and kept for ten minutes in one cache file that says for   *)
(* which configuration (library.service.ts, library-cache.service.ts).     *)
(*                                                                         *)
(* A request reads the configuration afresh before each call, so it may    *)
(* change under a build; builds, refreshes and the writes of the file,     *)
(* which truncate it first, interleave; errors of the file are swallowed.  *)
(***************************************************************************)
EXTENDS Integers, FiniteSets

CONSTANTS
  Lists, Refreshes,  \* requests for the list, and for a new one
  Admins,            \* requests that change the configuration
  Input,             \* what they enter: site, and path or Blank
  Sites, Paths, Blank,
  Initially,         \* what may be configured at first
  TTL, MaxTime,      \* CACHE_TTL_MS; bound on the clock
  MaxChanges,        \* bound on changes of the books Bookdarr has
  MaxCrashes

Reqs    == Lists \cup Refreshes
Configs == [site : Sites, path : Paths]
Unset   == [site |-> Blank, path |-> Blank]

ASSUME CatalogueAssumption ==
  /\ Lists \cap Refreshes = {} /\ Admins \cap Reqs = {}
  /\ Blank \notin Sites \cup Paths /\ Sites # {} /\ Paths # {}
  /\ Initially \subseteq Configs \cup {Unset}
  /\ Input \in [Admins -> [site : Sites, path : Paths \cup {Blank}]]
  /\ TTL \in Nat /\ MaxTime \in Nat /\ MaxChanges \in Nat /\ MaxCrashes \in Nat

VARIABLES
  conf,     \* the row of bookdarr_config, or Unset
  books,    \* how often the books of Bookdarr have changed
  file,     \* the cache file
  req,      \* locals of each request
  edit,     \* locals of each change of the configuration
  now, crashes,
  fresh,    \* history: the books at the start of the last completed refresh
  alone,    \* history: no two builds overlapped, nor a build and a new configuration
  past,     \* history: configurations that were replaced
  back      \* history: one of them came back

vars == <<conf, books, file, req, edit, now, crashes, fresh, alone, past, back>>

NoFile   == [kind |-> "none"]
Torn     == [kind |-> "torn"]      \* truncated, or a mixture
Entry(key, list, at) == [kind |-> "entry", key |-> key, list |-> list, at |-> at]

(* A list of books: where it and its covers come from, how new it is, and   *)
(* (history) whether the configuration changed while it was made.           *)
Nothing == [pool |-> Unset, covers |-> Unset, books |-> 0, changed |-> FALSE]

New == [pc |-> "new", key |-> Unset, list |-> Nothing, at |-> 0,
        open |-> FALSE, since |-> 0, seen |-> {}]

Init ==
  /\ conf \in Initially /\ books = 0 /\ file = NoFile
  /\ req = [r \in Reqs |-> New]
  /\ edit = [a \in Admins |-> [pc |-> "new", path |-> Blank]]
  /\ now = 0 /\ crashes = 0 /\ fresh = 0 /\ alone = TRUE
  /\ past = {} /\ back = FALSE

Building(r) == req[r].pc \in {"clear", "pool", "covers", "open", "write"}
At(r, pc)   == req[r].pc = pc
Set(r, new) == req' = [req EXCEPT ![r] = new]
Goto(r, pc) == Set(r, [req[r] EXCEPT !.pc = pc])
Ends(r, list) == Set(r, [New EXCEPT !.pc = "answered", !.list = list,
                                    !.since = req[r].since, !.seen = req[r].seen])
Fails(r)    == Set(r, [New EXCEPT !.pc = "failed"])
Configured  == conf # Unset     \* getApiConfig throws otherwise

Reading(r)  == At(r, "read") \/ Building(r)
Making(r)   == Reading(r) /\ ~At(r, "open") /\ ~At(r, "write")

BuildAlone(r) == alone' = (alone /\ \A s \in Reqs \ {r} : ~Building(s))

-----------------------------------------------------------------------------
(* getConfigSignature                                                       *)
Signature(c) == <<c.site, c.path>>

Begin(r) ==
  /\ At(r, "new")
  /\ \/ /\ Configured
        /\ Set(r, [New EXCEPT !.pc = IF r \in Refreshes THEN "clear" ELSE "read",
                              !.key = conf, !.since = fresh, !.seen = {conf}])
        /\ IF r \in Refreshes THEN BuildAlone(r) ELSE UNCHANGED alone
     \/ ~Configured /\ Fails(r) /\ UNCHANGED alone
  /\ UNCHANGED <<conf, books, file, edit, now, crashes, fresh, past, back>>

Valid(r) ==
  /\ file.kind = "entry" /\ file.key = Signature(req[r].key)
  /\ now - file.at <= TTL

(* getCached                                                                *)
ReadCache(r) ==
  /\ At(r, "read")
  /\ \/ /\ Valid(r)
        /\ Ends(r, file.list)
        /\ UNCHANGED alone
     \/ ~Valid(r) /\ Goto(r, "pool") /\ BuildAlone(r)
  /\ UNCHANGED <<conf, books, file, edit, now, crashes, fresh, past, back>>

(* Mutant: the old list is left until the new one is written.               *)
ClearCache_Skipped(r) ==
  /\ At(r, "clear") /\ Goto(r, "pool")
  /\ UNCHANGED <<conf, books, file, edit, now, crashes, fresh, alone, past, back>>

(* clearCached: a file that is being written has no name any more.  That    *)
(* the removal fails, which is passed over too, is left out.                *)
ClearCache(r) ==
  /\ At(r, "clear")
  /\ file' = NoFile
  /\ req' = [s \in Reqs |-> IF s = r THEN [req[s] EXCEPT !.pc = "pool"]
                            ELSE [req[s] EXCEPT !.open = FALSE]]
  /\ UNCHANGED <<conf, books, edit, now, crashes, fresh, alone, past, back>>

(* buildLibraryItems: the pool, then the URLs of the covers.                *)
FetchPool(r) ==
  /\ At(r, "pool")
  /\ \/ /\ Configured
        /\ Set(r, [req[r] EXCEPT !.pc = "covers", !.list.pool = conf, !.list.books = books])
     \/ Fails(r)
  /\ UNCHANGED <<conf, books, file, edit, now, crashes, fresh, alone, past, back>>

FindCovers(r) ==
  /\ At(r, "covers")
  /\ Set(r, [req[r] EXCEPT !.pc = "open", !.list.covers = conf]) \/ Fails(r)
  /\ UNCHANGED <<conf, books, file, edit, now, crashes, fresh, alone, past, back>>

Answer(r) ==
  fresh' = IF r \in Refreshes /\ req[r].list.books > fresh THEN req[r].list.books ELSE fresh

(* setCached: opening the file empties it, or fails and is passed over.     *)
OpenFile(r) ==
  /\ At(r, "open")
  /\ \/ /\ file' = Torn
        /\ Set(r, [req[r] EXCEPT !.pc = "write", !.at = now, !.open = TRUE])
        /\ UNCHANGED fresh
     \/ Ends(r, req[r].list) /\ Answer(r) /\ UNCHANGED file
  /\ UNCHANGED <<conf, books, edit, now, crashes, alone, past, back>>

(* Mutant: the key is that of the configuration when the file is written.   *)
WriteFile_KeyNow(r) ==
  /\ At(r, "write")
  /\ \/ ~req[r].open /\ UNCHANGED file
     \/ req[r].open /\ file' \in {Entry(Signature(conf), req[r].list, req[r].at), Torn}
  /\ Ends(r, req[r].list) /\ Answer(r)
  /\ UNCHANGED <<conf, books, edit, now, crashes, alone, past, back>>

(* The content reaches the file unless that was removed; over what another *)
(* request wrote meanwhile it may leave a mixture.                          *)
WriteFile(r) ==
  /\ At(r, "write")
  /\ \/ ~req[r].open /\ UNCHANGED file
     \/ /\ req[r].open
        /\ file' \in {Entry(Signature(req[r].key), req[r].list, req[r].at)}
                     \cup (IF file = Torn THEN {} ELSE {Torn})
     \/ req[r].open /\ file' = Torn      \* the disk is full
  /\ Ends(r, req[r].list) /\ Answer(r)
  /\ UNCHANGED <<conf, books, edit, now, crashes, alone, past, back>>

-----------------------------------------------------------------------------
Saved == [pc |-> "done", path |-> Blank]

(* upsert of the configuration: an empty path keeps the one there is.       *)
FindConfig(a) ==
  /\ edit[a].pc = "new"
  /\ edit' = [edit EXCEPT ![a] =
       [pc |-> "save", path |-> IF Input[a].path = Blank THEN conf.path ELSE Input[a].path]]
  /\ UNCHANGED <<conf, books, file, req, now, crashes, fresh, alone, past, back>>

(* Without a path the default applies, here the first of the paths.         *)
Default == CHOOSE p \in Paths : TRUE

SaveConfig(a) ==
  /\ edit[a].pc = "save"
  /\ conf' = [site |-> Input[a].site,
              path |-> IF edit[a].path = Blank THEN Default ELSE edit[a].path]
  /\ edit' = [edit EXCEPT ![a] = Saved]
  /\ past' = IF conf' = conf THEN past ELSE past \cup {conf}
  /\ back' = (back \/ conf' \in past')
  /\ req' = [r \in Reqs |->
       IF Reading(r) THEN [req[r] EXCEPT !.seen = @ \cup {conf'},
                             !.list.changed = @ \/ (Making(r) /\ conf' # conf)]
       ELSE req[r]]
  /\ alone' = (alone /\ \A r \in Reqs : ~Reading(r))
  /\ UNCHANGED <<books, file, now, crashes, fresh>>

(* Bookdarr's books change; time passes.                                    *)
Change == books < MaxChanges /\ books' = books + 1
          /\ UNCHANGED <<conf, file, req, edit, now, crashes, fresh, alone, past, back>>

Tick == now < MaxTime /\ now' = now + 1
        /\ UNCHANGED <<conf, books, file, req, edit, crashes, fresh, alone, past, back>>

(* The process ends; the file stays as it is.                               *)
Crash ==
  /\ crashes < MaxCrashes /\ crashes' = crashes + 1
  /\ req' = [r \in Reqs |-> IF Reading(r)
                            THEN [New EXCEPT !.pc = "failed"] ELSE req[r]]
  /\ edit' = [a \in Admins |-> IF edit[a].pc = "save" THEN Saved ELSE edit[a]]
  /\ UNCHANGED <<conf, books, file, now, fresh, alone, past, back>>

Request(r) == Begin(r) \/ ReadCache(r) \/ ClearCache(r) \/ FetchPool(r)
              \/ FindCovers(r) \/ OpenFile(r) \/ WriteFile(r)

Next ==
  \/ \E r \in Reqs : Request(r)
  \/ \E a \in Admins : FindConfig(a) \/ SaveConfig(a)
  \/ Change \/ Tick \/ Crash

Spec == Init /\ [][Next]_vars

-----------------------------------------------------------------------------
TypeOK ==
  /\ conf \in Configs \cup {Unset}
  /\ \A r \in Reqs : req[r].at <= now /\ (At(r, "answered") => req[r].list.pool \in Configs)
  /\ file.kind = "entry" => file.at \in 0..now
  /\ books \in 0..MaxChanges /\ fresh \in 0..books

(* A list shows the pool, with the covers, of one configuration that was in *)
(* force during the request: whatever is configured back and forth, however *)
(* many requests build and write the file at once, and whoever wrote what   *)
(* is read, unless the configuration changed while that very list was made, *)
(* between reading the key and finding the covers.  And such a list goes to *)
(* nobody whose request began after the change, as long as no configuration *)
(* that was replaced comes back.  (No entry is dated in the future.)        *)
OwnPool ==
  /\ TypeOK
  /\ \A r \in Reqs : At(r, "answered") =>
       LET list == req[r].list
       IN  /\ ~list.changed => list.pool \in req[r].seen /\ list.covers = list.pool
           /\ ~back => {list.pool, list.covers} \subseteq req[r].seen

(* Once a refresh has been answered, nobody who asks later sees an older    *)
(* list, even if the new one could not be written or the process ended      *)
(* half way ("clears and rebuilds the Book Pool cache", HANDOFF.md:239).    *)
RefreshLasts ==
  alone => \A r \in Reqs : At(r, "answered") => req[r].list.books >= req[r].since
=============================================================================
