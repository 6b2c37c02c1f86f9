---------------------------- MODULE MCDumpDates -----------------------------
EXTENDS DumpDates

(* Three dumps of one file system, the names of which tell their levels,    *)
(* and one of another.                                                      *)
MCDumps   == {"a0", "a1", "a2", "b0"}
MCFilesys == [p \in MCDumps |-> IF p = "b0" THEN "b" ELSE "a"]
MCLevel   == [p \in MCDumps |-> IF p = "a1" THEN 1 ELSE IF p = "a2" THEN 2 ELSE 0]

(* The dump of level 2 is without -u. *)
NotA2 == [p \in MCDumps |-> p # "a2"]

(* With a dumpdates file, and without. *)
Either == BOOLEAN
=============================================================================
