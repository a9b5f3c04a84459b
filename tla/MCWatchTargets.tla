--------------------------- MODULE MCWatchTargets ---------------------------
(* Small instances of WatchTargets for TLC. *)
EXTENDS WatchTargets, TLC

CONSTANTS menu, locations

MCQueries == {menu, locations}

MCForbidden == {locations}
=============================================================================
