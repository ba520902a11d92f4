------------------------ MODULE MC_SenderQueueDump ------------------------
(* dumpState over every queue of up to MaxItems items built from two or  *)
(* three abbreviations, both kinds of frame and two sizes.               *)
EXTENDS SenderQueueDump

MCAbbrs == {"", "status:", "tile:"}
MCTextAbbrs == {"status:", "tile:"}
MCEmptyAbbrs == {""}
MCSizes == {1, 2}
MCMaxItems == 4
=============================================================================
