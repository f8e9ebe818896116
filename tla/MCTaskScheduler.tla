--------------------------- MODULE MCTaskScheduler ---------------------------
(* TaskScheduler for TLC: the client spawns r; r spawns a and b, and b c.  The *)
(* stack has room for one task: every push uses the slot that a thief may be  *)
(* reading, and it is full unless a was stolen before b is spawned.           *)
EXTENDS TaskScheduler, TLC

CONSTANTS r, a, b, c

MCRoots == <<r>>

MCChildren == r :> <<a, b>> @@ a :> <<>> @@ b :> <<c>> @@ c :> <<>>
=============================================================================
