------------------------------ MODULE MCBackfill ------------------------------
(* Small instances of Backfill for TLC.                                    *)
EXTENDS Backfill, TLC

\* A double gameweek.
MCGameweekOf == <<1, 1>>

\* Players are told apart by nothing but their rows.
MCSymmetry == Permutations(Player)
=============================================================================
