-------------------------- MODULE MCRollingOrigin --------------------------
(* Five seasons whose columns start in different ones, whole and faulty     *)
(* archives of two to five of them, and runs of the options' corners.       *)
EXTENDS RollingOrigin

MCFirstSeasonWith == [xg |-> 2, starts |-> 3, defcon |-> 4]
MCColumns(s) == {c \in DOMAIN MCFirstSeasonWith : s >= MCFirstSeasonWith[c]}
MCHeld(S, extra) ==
    [s \in S |-> [columns |-> MCColumns(s) \union extra, holes |-> {}, faults |-> {}]]

MCWhole == {MCHeld(S, e) : S \in {{1, 3, 4}, {1, 2}, {3, 4}, {3, 4, 5}},
                           e \in {{}, {"epNext", "flags"}}} \union {MCHeld(1..5, {})}
MCFaulty ==
    {[MCHeld({1, 3, 4}, {}) EXCEPT ![3].columns = @ \ {"starts"}],
     [MCHeld({1, 3, 4}, {}) EXCEPT ![3].faults = {"startedUnplayed"}],
     [MCHeld({1, 3, 4}, {}) EXCEPT ![1].faults = {"unseenBand"}],
     [MCHeld({1, 3, 4}, {}) EXCEPT ![4].holes = {"starts"}],
     [MCHeld({1, 3, 4}, {}) EXCEPT ![1].faults = {"rounds"}]}
MCArchives == MCWhole \union MCFaulty

MCRun(window, imputed, cut, mode, selects, given, compares) ==
    [window |-> window, imputed |-> imputed, cut |-> cut, mode |-> mode, selects |-> selects,
     given |-> given, compares |-> compares]

MCFound == [s \in 1..5 |-> 1 + (s % 2)]

MCGiven == {<<>>, [perPlayer |-> 1], [perPlayer |-> 1, prior |-> 2, tau |-> 1, startShrink |-> 1],
            [confidence |-> 1, rates |-> 1, crowd |-> 1]}
MCRuns ==
    {MCRun(9, i, 3, m, {}, g, Comparisons) : i \in BOOLEAN, m \in {"joint", "unflagged-base"}, g \in MCGiven} \union
    {MCRun(w, i, 3, "joint", s, g, Comparisons) : w \in {1, 9}, i \in BOOLEAN, g \in MCGiven,
        s \in {{"window"}, {"startShrink", "prior"}, {"confidence", "rates"}, {"tau", "crowd"}}} \union
    {MCRun(9, FALSE, 2, "joint", {}, <<>>, {})}
=============================================================================
