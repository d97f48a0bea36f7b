---------------------------- MODULE MCProjections ----------------------------
(* Small instances of Projections for TLC.                                 *)
EXTENDS Projections, TLC

CONSTANTS old, new  \* a player of the first sync, and one who joins later

MCPlayer == {old, new}
MCDeadline == <<1, 3>>

\* The second change of the database brings the new player and moves a
\* fixture of the other one from gameweek 1 to gameweek 2.
MCPlaying == [s \in 0..2 |-> CASE s = 0 -> <<{}, {}>>
                               [] s = 1 -> <<{old}, {old}>>
                               [] s = 2 -> <<{new}, {old}>>]
MCListed == [s \in 0..2 |-> CASE s = 0 -> {}
                              [] s = 1 -> {old}
                              [] s = 2 -> {old, new}]

\* The clock is read in two places only: elsewhere its move commutes with every
\* step, and TLC lets it move only there.
ClockMovesWhereRead ==
    now' # now => \E p \in Runner : pc[p] \in {"near", "horizon"}

\* The invocations of the hourly job are interchangeable: the cron's tick goes to
\* the first that is free.  (A liveness property admits no SYMMETRY.)
FirstFreeTakesTheTick ==
    \A p, q \in Hourly :
        (p < q /\ pc[q] = "idle" /\ pc'[q] = "sync") => pc[p] # "idle"
=============================================================================
