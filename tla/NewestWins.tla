----------------------------- MODULE NewestWins -----------------------------
(***************************************************************************)
(* What the progress endpoints promise (HANDOFF.md, "Mobile Prep"): of the *)
(* positions written since the last restart of the book, the server keeps  *)
(* the one with the newest updatedAt.                                      *)
(***************************************************************************)
EXTENDS Integers

CONSTANTS Positions,   \* what may be stored; each has its updatedAt, "at"
          Nowhere      \* no progress, at 0

VARIABLES value,   \* the stored position
          newest   \* updatedAt of the newest write answered since the reset

Init == value = Nowhere /\ newest = 0

(* A write is answered: it is stored unless a newer one is.                 *)
Put(p) ==
  /\ value' = IF value.at > p.at THEN value ELSE p
  /\ newest' = IF newest > p.at THEN newest ELSE p.at

(* The same, but the answer is lost: nobody knows of it.                    *)
PutSilently(p) == value.at <= p.at /\ value' = p /\ UNCHANGED newest

Clear == value' = Nowhere /\ newest' = 0

Next == Clear \/ \E p \in Positions : Put(p) \/ PutSilently(p)

Spec == Init /\ [][Next]_<<value, newest>>

(* No answered write is newer than what is stored.                          *)
NewestKept == newest <= value.at
=============================================================================
