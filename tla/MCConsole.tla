----------------------------- MODULE MCConsole -----------------------------
(* A queue of two and three messages: the reader may fall behind, also     *)
(* through a second join, after which every message comes twice.  Four     *)
(* levels of menus: a room is joined, read, read again and left by 'q'.    *)
EXTENDS Console
=============================================================================
