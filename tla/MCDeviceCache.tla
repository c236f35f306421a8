---------------------------- MODULE MCDeviceCache ----------------------------
(***************************************************************************)
(* Instances of DeviceCache for TLC: which messages the page sends and     *)
(* which files the books have.  f2 is an audiobook in one chunk or two.     *)
(***************************************************************************)
EXTENDS DeviceCache, TLC

CONSTANTS m1, m2, m3, m4, f1, f2, f3, b1, b2

(* An ebook with its audiobook; an audiobook and an ebook; an audiobook.    *)
Pair    == [f \in Files |-> b1]
TwoOnes == [f \in Files |-> IF f = f2 THEN b1 ELSE b2]
InChunks == [f \in Files |-> f = f2]
Entries1or2 == [f \in Files |-> IF f = f2 THEN 2 ELSE 1]
Entries1    == [f \in Files |-> 1]

(* m2 is about the second book; the others are about the first.             *)
Targets == [m \in Msgs |-> IF m = m2 THEN b2 ELSE b1]

(* Books are cached, one of them twice; one is cleared, or all are, while  *)
(* they are cached.                                                         *)
CacheOps    == [m \in Msgs |-> "cache"]
ClearOps    == [m \in Msgs |-> IF m = m3 THEN "clear" ELSE IF m = m4 THEN "clearAll" ELSE "cache"]

LoopSymmetry == Permutations(Loops)
=============================================================================
