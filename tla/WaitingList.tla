----------------------------- MODULE WaitingList -----------------------------
(***************************************************************************)
(* A queue kept twice, as an array in order of arrival and as a set of     *)
(* what is in it.  The offline downloads of the server and the service     *)
(* worker of the device both keep their work this way.                      *)
(***************************************************************************)
EXTENDS Integers, FiniteSets, Sequences

Members(q) == {q[i] : i \in DOMAIN q}

(* Array and set hold the same things, and the array each of them once.     *)
Agrees(q, qs) ==
  /\ Members(q) = qs
  /\ \A i, j \in DOMAIN q : q[i] = q[j] => i = j

(* What is in q, in order, with those in gone left out: filter or splice.   *)
Without(q, gone) ==
  LET kept == {i \in DOMAIN q : q[i] \notin gone}
      rank == [i \in kept |-> Cardinality({j \in kept : j <= i})]
  IN  [n \in 1..Cardinality(kept) |-> q[CHOOSE i \in kept : rank[i] = n]]
=============================================================================
