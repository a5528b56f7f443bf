---------------------------- MODULE MCScopedPool ----------------------------
(* Instance of ScopedPool: three requests of two accounts share two clients. *)
EXTENDS ScopedPool

CONSTANTS r1, r2, r3, u1, u2

MCUserOf == [r \in {r1, r2, r3} |-> IF r = r3 THEN u2 ELSE u1]
MCOffered ==
  [r \in {r1, r2, r3} |->
     CASE r = r1 -> {"export", "deleteAccount"}
       [] r = r2 -> {"upload", "deleteAccount"}
       [] r = r3 -> {"extract", "ready"}]
MCStored == {"resumes"}
=============================================================================
