---------------------------- MODULE MCSquadImport ----------------------------
(* Two imports of one manager at once, two gameweeks; the second gameweek's *)
(* squad holds a player the store first learns of in a later sync.          *)
EXTENDS SquadImport

MCLocked    == <<{1, 2}, {1, 3}>>
MCLate      == {3}
MCAnnounced == <<1, 2>>
MCWideApart == <<1, 3>>
=============================================================================
