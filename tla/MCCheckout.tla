----------------------------- MODULE MCCheckout -----------------------------
(* Instances of Checkout.                                                   *)
EXTENDS Checkout, TLC

CONSTANTS c1, c2, c3, b1

TwoFiles == [f \in Files |-> b1]

(* A book of two files is checked out, returned and checked out again, and *)
(* marked read and unread meanwhile.                                       *)
BackOps   == c1 :> "queue" @@ c2 :> "remove" @@ c3 :> "queue"
BackBooks == c1 :> b1 @@ c2 :> b1 @@ c3 :> b1
MarkBooks == [m \in Readers |-> b1]
Unit      == [f \in Files |-> 1]

(* Pairs about one book that may overlap: a return with a return, marks     *)
(* with marks, and a mark with a checkout or, when it only clears, a return.*)
Benign == {{"remove"}, {"read"}, {"read", "unread"},
           {"queue", "read"}, {"queue", "unread"}, {"remove", "unread"}}

FileSymmetry == Permutations(Files)
=============================================================================
