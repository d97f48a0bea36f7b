----------------------------- MODULE MCArchive -----------------------------
(* Two people importing a season that is published three times, once with   *)
(* a duplicate, once with a match and a manager's row gone; and a season    *)
(* of two rounds, one of whose deadlines is brought forward.                *)
EXTENDS Archive

MCRow(e, f, label, starts) ==
    [element |-> e, fixture |-> f, label |-> label, starts |-> starts, points |-> TRUE, counted |-> TRUE]

MCMerged1 == << MCRow(1, 1, "GK", 1), MCRow(1, 1, "GK", 1), MCRow(2, 1, "MID", 1), MCRow(1, 2, "GK", 1),
                MCRow(2, 2, "MID", 1), MCRow(3, 2, "AM", 0) >>
MCMerged2 == << MCRow(1, 1, "GK", 1), MCRow(2, 1, "MID", 0), MCRow(1, 3, "GK", 0), MCRow(2, 3, "MID", 0) >>
MCMerged3 == << MCRow(1, 1, "GK", 1), [MCRow(2, 1, "MID", 1) EXCEPT !.points = FALSE] >>

MCPublications == << [merged |-> MCMerged1, codes |-> {1, 2, 3}],
                     [merged |-> MCMerged2, codes |-> {1, 2}],
                     [merged |-> MCMerged3, codes |-> {1, 2}] >>

MCCapture(d1, d2, finished, next) == [deadlines |-> <<d1, d2>>, finished |-> finished, next |-> next]
MCCaptures ==
    [t \in {1, 3, 4, 6, 9} |->
        CASE t = 1 -> MCCapture(3, 8, {}, 1)
          [] t = 3 -> MCCapture(3, 8, {}, 1)
          [] t = 4 -> MCCapture(3, 8, {}, 1)
          [] t = 6 -> MCCapture(3, 5, {1}, 2)
          [] t = 9 -> MCCapture(3, 5, {1, 2}, 0)]
=============================================================================
