-------------------------- MODULE MCOfflineDownload --------------------------
(***************************************************************************)
(* Instances of OfflineDownload for TLC: which requests arrive, which      *)
(* files they are about and how large those files are.                     *)
(***************************************************************************)
EXTENDS OfflineDownload, TLC

CONSTANTS r1, r2, r3, r4, r5, r6, f1, f2, f3, b1, b2, b3

(* Files *)
FilePerBook == f1 :> b1 @@ f2 :> b2
ThreeBooks  == f1 :> b1 @@ f2 :> b2 @@ f3 :> b3

(* Three books compete for the cache while it is cleared, twice, and one is *)
(* returned.                                                                *)
ClearOps     == r1 :> "queue" @@ r2 :> "queue" @@ r5 :> "queue"
                @@ r3 :> "clear" @@ r4 :> "clear" @@ r6 :> "remove"
ClearTargets == r1 :> b1 @@ r2 :> b2 @@ r5 :> b3 @@ r3 :> b1 @@ r4 :> b1 @@ r6 :> b1

(* Two books are checked out, one of them twice, and streamed.             *)
AgainOps     == r1 :> "queue" @@ r2 :> "queue" @@ r3 :> "queue" @@ r4 :> "serve"
AgainTargets == r1 :> b1 @@ r2 :> b2 @@ r3 :> b1 @@ r4 :> b1

(* Sizes *)
Unit    == [f \in Files |-> 1]
Unknown == [f \in Files |-> 0]
Sized   == [f \in Files |-> IF f = f1 THEN 1 ELSE IF f = f2 THEN 2 ELSE 3]

LoopSymmetry == Permutations(Loops)

(* Array.prototype.filter is SelectSeq: Without is it, on short queues.     *)
ASSUME \A q \in UNION {[1..n -> 1..3] : n \in 0..3} :
         \A gone \in SUBSET (1..3) :
           Without(q, gone) = SelectSeq(q, LAMBDA x : x \notin gone)
=============================================================================
