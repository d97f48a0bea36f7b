------------------------------ MODULE SyncMirror ------------------------------
(***************************************************************************)
(* What SyncService.syncBootstrap promises of the tables it owns, without  *)
(* its runs: each table follows the payloads upstream serves, never        *)
(* backwards, in its own time, and a payload is recorded as the last good  *)
(* one only while every table holds it.                                    *)
(*                                                                         *)
(* Payloads are numbered in the order upstream serves them.                *)
(***************************************************************************)
EXTENDS Naturals

CONSTANT Table  \* what the bootstrap payload is written to

VARIABLES
    served,   \* the payload upstream serves
    mirror,   \* table -> the payload its rows hold, 0 when it has none
    recorded  \* the payload recorded as the last good one, if any

vars == <<served, mirror, recorded>>

TypeOK ==
    /\ served \in Nat \ {0}
    /\ mirror \in [Table -> Nat]
    /\ recorded \subseteq Nat

Init ==
    /\ served = 1
    /\ mirror = [t \in Table |-> 0]
    /\ recorded = {}

Publish ==
    /\ served' \in Nat /\ served' > served
    /\ UNCHANGED <<mirror, recorded>>

Refresh(t) ==
    /\ \E r \in (mirror[t] + 1)..served : mirror' = [mirror EXCEPT ![t] = r]
    /\ UNCHANGED <<served, recorded>>

Record ==
    /\ \E r \in 1..served : /\ \A t \in Table : mirror[t] = r
                            /\ recorded' = {r}
    /\ UNCHANGED <<served, mirror>>

Next ==
    \/ Publish
    \/ \E t \in Table : Refresh(t)
    \/ Record

Spec == Init /\ [][Next]_vars
-----------------------------------------------------------------------------
(* The promise callers rely on: while upstream serves the payload recorded *)
(* last, reading the tables is reading upstream, so that writing them      *)
(* again "would be no-ops anyway" (sync.service.ts:32).                    *)
SkipIsSound == served \in recorded => \A t \in Table : mirror[t] = served

(* No table has anything upstream has not served, and none has lost what   *)
(* was recorded of it.                                                     *)
Between ==
    \A t \in Table : mirror[t] <= served /\ \A r \in recorded : r <= mirror[t]
=============================================================================
