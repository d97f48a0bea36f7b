--------------------------- MODULE MCManagerSeason ---------------------------
(* Small instances of ManagerSeason for TLC.                               *)
EXTENDS ManagerSeason

CONSTANTS p1, p2
MCPlayer == {p1, p2}
MCInitial == {p1}
=============================================================================
