----------------------------- MODULE MCPageTurns -----------------------------
(* Two books of four pages in two sections.                                *)
EXTENDS PageTurns

Chapters == <<0, 1, 4>>
=============================================================================
