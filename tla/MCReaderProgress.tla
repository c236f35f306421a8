-------------------------- MODULE MCReaderProgress --------------------------
(* Two devices on which one user reads one file.                            *)
EXTENDS ReaderProgress, TLC

Alike == Permutations(Requests) \cup Permutations(Devices)
=============================================================================
