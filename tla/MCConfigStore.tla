--------------------------- MODULE MCConfigStore ---------------------------
(* ConfigStore on two processes: one with two threads that share an object  *)
(* (the desktop application), one with a thread and an object of its own.   *)
EXTENDS ConfigStore

CONSTANTS t1, t2, t3, p1, p2, o1, o2, v0, v1

MCThreads == {t1, t2, t3}
MCProcOf  == [t \in MCThreads |-> IF t = t3 THEN p2 ELSE p1]
MCOwnerOf == [o \in {o1, o2} |-> IF o = o2 THEN p2 ELSE p1]
=============================================================================
