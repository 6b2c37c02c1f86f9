---------------------------- MODULE MCDumpRestore ---------------------------
EXTENDS DumpRestore

T == TRUE
F == FALSE
Map(n) == [kind |-> "map", addr |-> [i \in 1 .. n |-> TRUE]]
Inode(addr) == [kind |-> "inode", addr |-> addr]

(* The two maps, of one record each, then directories and files with and    *)
(* without holes.                                                           *)
SmallMap == <<Map(1), Map(1), Inode(<<T, T, F, T, F, T>>), Inode(<<T>>),
              Inode(<<F, T, T, T, F, T, T>>), Inode(<<T>>), Inode(<<T, T, T>>),
              Inode(<< >>), Inode(<<T, T, F, F, T, T, T>>), Inode(<<T, T, T, T>>)>>

(* One file more: 38 records with the first volume header. *)
OneMore == SmallMap \o <<Inode(<<T>>)>>

(* Volumes that end where the operator said and are rewritten; and a volume *)
(* that ends where its device says, up to all slaves' blocks earlier.       *)
SizeLimit == [volumes |-> 4, eots |-> 0, rewrites |-> 2, dup |-> 0]
EndOfTape == [volumes |-> 2, eots |-> 1, rewrites |-> 1, dup |-> 3]
MCLimits == {SizeLimit, EndOfTape}

(* Three volumes after an end of tape with duplicates; a second end of tape *)
(* before the slots of the first were refilled.                             *)
ThirdVolume == {[volumes |-> 4, eots |-> 1, rewrites |-> 0, dup |-> 3]}
SecondEnd == {[volumes |-> 4, eots |-> 2, rewrites |-> 0, dup |-> 0]}
=============================================================================
