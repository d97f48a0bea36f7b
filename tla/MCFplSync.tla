------------------------------ MODULE MCFplSync ------------------------------
(* Small instances of FplSync for TLC.                                     *)
EXTENDS FplSync

\* Revision 2 moves the ownership, to a whole percentage, but not the price,
\* and reports gameweek 1 finished.
MCValueOf == [price |-> <<1, 1>>, ownership |-> <<1, 2>>]
MCWholePercent == {2}
MCFinishedIn == <<{}, {1}>>
MCDeadline == <<1, 3>>

\* A pass reads the clock in StartRun, an endpoint's payload in Fetch and the
\* live payloads after the bootstrap's Fetch.  With one process synchronising
\* at a time, a move of the outside world commutes with every other step, so
\* TLC lets it move only where it is about to be read (the clock before the
\* fetch too, which separates the start of a run from what it fetched).
ExternalMovesAtReads ==
    LET Reading(e) == \E p \in Proc : pc[p] = "fetch" /\ job[p].task = e
    IN  /\ now' # now => \E p \in Proc : pc[p] \in {"start", "fetch"}
        /\ \A e \in Endpoint : upstream'[e] # upstream[e] => Reading(e)
        /\ liveUp' # liveUp => Reading("bootstrap")
=============================================================================
