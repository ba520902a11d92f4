--------------------------- MODULE MC_SenderQueue ---------------------------
(***************************************************************************)
(* A small instance of SenderQueue: three tiles of which two collide on   *)
(* equalityHash, two views and a malformed view-cursor body, and one      *)
(* message of every other command the dispatch distinguishes.             *)
(***************************************************************************)
EXTENDS SenderQueue

MCTiles == {"tA", "tB", "tC"}
MCHashes == {1, 2}
\* tA and tB share a position hash; tC does not.
MCTileHash == [t \in MCTiles |-> IF t = "tC" THEN 2 ELSE 1]
MCViews == {"v1", "v2"}

Msg(c) == [cmd |-> c, tile |-> "tA", setvalue |-> FALSE, view |-> NoView]
TileMsg(t) == [Msg("tile:") EXCEPT !.tile = t]
ProgressMsg(b) == [Msg("progress:") EXCEPT !.setvalue = b]
ViewCursorMsg(v) == [Msg("invalidateviewcursor:") EXCEPT !.view = v]

MCPayloads ==
    { TileMsg(t) : t \in MCTiles }
    \cup { Msg("invalidatecursor:"), Msg("setpart:"), Msg("other:") }
    \cup { ProgressMsg(b) : b \in BOOLEAN }
    \cup { ViewCursorMsg(v) : v \in MCViews \cup {NoView} }

MCMaxCalls == 4
=============================================================================
