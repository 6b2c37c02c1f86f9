------------------------------ MODULE DumpMaps ------------------------------
(***************************************************************************)
(* Which inodes are dumped: passes I and II of dump (src/dump/traverse.c   *)
(* and main.c).  Pass I goes through the inodes and fills three bit maps;  *)
(* pass II, mapdirs, is repeated over the directories until nothing        *)
(* changes: it adds the directories that lead to a dumped file, drops      *)
(* those that lead to nothing, and takes out what lies below an excluded   *)
(* directory.  The file system does not change meanwhile.                  *)
(***************************************************************************)
EXTENDS Integers, FiniteSets

CONSTANTS
    MaxIno,      \* bound: the inodes are 1 .. MaxIno
    NBBY,        \* bits in a byte of a map
    MaxLinks,    \* bound: names of a file
    MaxExcluded, \* bound: excluded inodes
    RootNodump   \* may the root directory have the nodump attribute?

ROOTINO == 2

ASSUME MapsAssumption ==
    /\ MaxIno \in Nat /\ MaxIno >= ROOTINO
    /\ NBBY \in Nat \ {0} /\ MaxLinks \in Nat /\ MaxExcluded \in Nat
    /\ RootNodump \in BOOLEAN

VARIABLES
    fs,     \* the file system and the options, see Init
    pc,     \* the pass
    ino,    \* the inode it has come to
    isdir,  \* mapdirs: the byte of dumpdirmap it looks at
    calls,  \* calls of mapdirs so far
    maps    \* usedinomap, dumpdirmap, dumpinomap; and anydirskipped (change)

vars == <<fs, pc, ino, isdir, calls, maps>>

Inodes == ROOTINO .. MaxIno
Others == Inodes \ {ROOTINO}

-----------------------------------------------------------------------------
(* The file system: a tree of directories; files with one or more names.    *)
(* A name is a pair of a directory and an inode.                            *)

(* What lies at or below from: it is in every set that has from and the     *)
(* entries of each directory in it.                                         *)
Reach(names, from) ==
    LET closed == {S \in SUBSET Inodes :
                      from \in S /\ \A n \in names : n[1] \in S => n[2] \in S}
    IN  {i \in Inodes : \A S \in closed : i \in S}

(* Each directory but the root is in one directory, ... *)
Trees(dirs) ==
    {t \in {{<<p[d], d>> : d \in dirs} : p \in [dirs -> dirs \cup {ROOTINO}]} :
        dirs \subseteq Reach(t, ROOTINO)}

(* ... each other file in some. *)
FileNames(dirs) ==
    [Others \ dirs ->
        {s \in SUBSET (dirs \cup {ROOTINO}) : Cardinality(s) \in 1 .. MaxLinks}]

FileSystemsOf(dirs) ==
    {[dirs  |-> dirs \cup {ROOTINO},
      names |-> t \cup {n \in (dirs \cup {ROOTINO}) \X (Others \ dirs) : n[1] \in l[n[2]]}] :
        t \in Trees(dirs), l \in FileNames(dirs)}

FileSystems == UNION {FileSystemsOf(dirs) : dirs \in SUBSET Others}

(* changed: ctime is not before the date of the last dump.  excluded: by    *)
(* -e, which refuses the root, or by the nodump attribute, which mapfileino *)
(* enters into the exclusion bitmap.  path: the name given to dump instead  *)
(* of a file system, which only a level 0 dump may be; <<2, 2>> if none.    *)
WholeFs == <<ROOTINO, ROOTINO>>

Init ==
    /\ \E f \in FileSystems, changed \in SUBSET Others,
          excluded \in SUBSET (IF RootNodump THEN Inodes ELSE Others) :
          \E path \in f.names \cup {WholeFs} :
          /\ Cardinality(excluded) <= MaxExcluded
          /\ path # WholeFs => changed = Others
          /\ fs = [dirs |-> f.dirs, names |-> f.names, excluded |-> excluded,
                   changed |-> changed \cup {ROOTINO}, path |-> path]
    /\ pc = "passI" /\ ino = 1 /\ isdir = {} /\ calls = 0
    /\ maps = [used |-> {}, dir |-> {}, dump |-> {}, skipped |-> FALSE]

Entries(d) == {i \in Inodes : <<d, i>> \in fs.names}
Below(i)   == Reach(fs.names, i)
Above(d)   == {e \in fs.dirs : d \in Below(e)}

(* What pass I looks at: everything, or the directories of a path and what  *)
(* lies at and below its end.                                               *)
InScope == IF fs.path = WholeFs THEN Inodes
           ELSE Above(fs.path[1]) \cup Below(fs.path[2])

-----------------------------------------------------------------------------
(* Pass I *)

(* Fault: a directory that is not dumped itself is not entered. *)
MapFileIno_DirsWhenDumped(i, m) ==
    IF i \in m.used THEN m
    ELSE IF i \in fs.changed \ fs.excluded
         THEN [m EXCEPT !.used = @ \cup {i}, !.dump = @ \cup {i},
                        !.dir = IF i \in fs.dirs THEN @ \cup {i} ELSE @]
         ELSE [m EXCEPT !.used = IF i \in fs.dirs \cap fs.excluded THEN @ ELSE @ \cup {i},
                        !.skipped = @ \/ i \in fs.dirs]

MapFileIno(i, m) ==
    IF i \in m.used THEN m
    ELSE LET dir == IF i \in fs.dirs THEN m.dir \cup {i} ELSE m.dir
         IN  IF i \in fs.changed \ fs.excluded
             THEN [m EXCEPT !.used = @ \cup {i}, !.dir = dir, !.dump = @ \cup {i}]
             ELSE [m EXCEPT !.dir = dir,
                            !.used = IF i \in fs.dirs \cap fs.excluded THEN @ ELSE @ \cup {i},
                            !.skipped = @ \/ i \in fs.dirs]

(* One inode of the scan.  mapfileino can be called for the inodes in any   *)
(* order, so the walk of mapfilesindir, which enters excluded directories   *)
(* too, is taken in the order of the numbers as well.                       *)
MapIno ==
    /\ pc = "passI" /\ ino <= MaxIno
    /\ maps' = IF ino \in InScope THEN MapFileIno(ino, maps) ELSE maps
    /\ ino' = ino + 1
    /\ UNCHANGED <<fs, pc, isdir, calls>>

(* The end of mapfiles and mapfilesfromdir. *)
MapFilesEnd ==
    /\ pc = "passI" /\ ino > MaxIno
    /\ fs.path = WholeFs \/ fs.path[2] \in fs.dirs
    /\ maps' = [maps EXCEPT !.dump = @ \cup {ROOTINO}]
    /\ pc' = "passII" /\ UNCHANGED <<fs, ino, isdir, calls>>

(* The end of maponefile. *)
MapOneFileEnd ==
    /\ pc = "passI" /\ ino > MaxIno
    /\ fs.path # WholeFs /\ fs.path[2] \notin fs.dirs
    /\ maps' = [maps EXCEPT !.dir = @ \cup {ROOTINO}]
    /\ pc' = "passII" /\ UNCHANGED <<fs, ino, isdir, calls>>

-----------------------------------------------------------------------------
(* Pass II.  mapdirs goes through dumpdirmap in the order of the inode      *)
(* numbers and looks at a byte of it only once, at its first bit.           *)

Byte(i) == {j \in 1 .. MaxIno : (j - 1) \div NBBY = (i - 1) \div NBBY}

(* Fault: files are taken out of the map of used inodes. *)
SearchExcluded_FreesFiles(d, m) ==
    LET subdirs == Entries(d) \cap fs.dirs
    IN  [m EXCEPT !.dump = @ \ Entries(d),
                  !.dir = (@ \cup subdirs) \ {d},
                  !.used = @ \ Entries(d),
                  !.skipped = @ \/ subdirs # {}]

(* Fault: the subdirectories are left to themselves. *)
SearchExcluded_NotBelow(d, m) ==
    [m EXCEPT !.dump = @ \ Entries(d), !.dir = @ \ {d}]

(* searchdir with nodump: nothing in the directory is dumped, and its       *)
(* subdirectories are to be treated in the same way.                        *)
SearchExcluded(d, m) ==
    LET subdirs == Entries(d) \cap fs.dirs
    IN  [m EXCEPT !.dump = @ \ Entries(d),
                  !.dir = (@ \cup subdirs) \ {d},
                  !.used = @ \ subdirs,
                  !.skipped = @ \/ subdirs # {}]

(* Fault: the directory is not dropped, but one more pass is asked for. *)
SearchDir_NotDropped(d, m) ==
    IF Entries(d) \cap m.dump # {}
    THEN [m EXCEPT !.dump = @ \cup {d}, !.skipped = TRUE]
    ELSE IF Entries(d) \cap m.dir # {} THEN m
    ELSE [m EXCEPT !.skipped = TRUE]

(* searchdir otherwise: a dumped file makes its directory dumped; no dumped *)
(* file and no subdirectory makes it superfluous.                           *)
SearchDir(d, m) ==
    IF Entries(d) \cap m.dump # {}
    THEN [m EXCEPT !.dump = @ \cup {d}, !.skipped = TRUE]
    ELSE IF Entries(d) \cap m.dir # {} THEN m
    ELSE [m EXCEPT !.dir = @ \ {d}, !.skipped = TRUE]

(* while (anydirskipped) anydirskipped = mapdirs(...) *)
MapDirsBegin ==
    /\ pc = "passII" /\ ino > MaxIno /\ maps.skipped
    /\ maps' = [maps EXCEPT !.skipped = FALSE]
    /\ ino' = 1 /\ calls' = calls + 1 /\ UNCHANGED <<fs, pc, isdir>>

(* Fault: a directory that is dumped for itself is visited all the same. *)
MapDirsIno_VisitsDumped ==
    /\ pc = "passII" /\ ino <= MaxIno
    /\ isdir' = IF (ino - 1) % NBBY = 0 THEN maps.dir \cap Byte(ino) ELSE isdir
    /\ maps' = IF ino \notin isdir' THEN maps
               ELSE IF ino \notin maps.used THEN SearchExcluded(ino, maps)
               ELSE SearchDir(ino, maps)
    /\ ino' = ino + 1 /\ UNCHANGED <<fs, pc, calls>>

MapDirsIno ==
    /\ pc = "passII" /\ ino <= MaxIno
    /\ isdir' = IF (ino - 1) % NBBY = 0 THEN maps.dir \cap Byte(ino) ELSE isdir
    /\ maps' = IF ino \notin isdir' THEN maps
               ELSE IF ino \notin maps.used THEN SearchExcluded(ino, maps)
               ELSE IF ino \in maps.dump THEN maps
               ELSE SearchDir(ino, maps)
    /\ ino' = ino + 1 /\ UNCHANGED <<fs, pc, calls>>

Mapped ==
    /\ pc = "passII" /\ ino > MaxIno /\ ~maps.skipped
    /\ pc' = "mapped" /\ UNCHANGED <<fs, ino, isdir, calls, maps>>

Finished == pc = "mapped" /\ UNCHANGED vars

Step == \/ MapIno \/ MapFilesEnd \/ MapOneFileEnd
        \/ MapDirsBegin \/ MapDirsIno \/ Mapped \/ Finished

Spec == Init /\ [][Step]_vars

-----------------------------------------------------------------------------
(* What passes III and IV write.  dumpmap writes dumpinomap as TS_BITS and  *)
(* usedinomap as TS_CLRI.                                                   *)

OnTape == maps.dir \cup (maps.dump \ fs.dirs)

(* A directory is written without its entries for excluded inodes. *)
Saved == {n \in fs.names : n[1] \in OnTape \cap fs.dirs /\ n[2] \notin fs.excluded}

-----------------------------------------------------------------------------
(* Properties *)

(* What lies at or below an excluded directory, by any of its names, or is  *)
(* excluded itself.                                                         *)
Shadow == UNION {Below(i) : i \in fs.excluded \cap InScope}

(* The incremental dump is complete: every inode that changed is on the     *)
(* tape, and of every directory that restore needs to get at it.            *)
ChangedDumped ==
    pc = "mapped" => (fs.changed \cap InScope) \ Shadow \subseteq OnTape

(* restore finds every inode on the tape by a name in a directory on the    *)
(* tape.                                                                    *)
NamesSaved ==
    pc = "mapped" => \A i \in OnTape \ {ROOTINO} : \E d \in fs.dirs : <<d, i>> \in Saved

(* NEWS, 0.4b29: a directory that is excluded, and the files below it, are  *)
(* not dumped, whatever the order of the inode numbers.                     *)
NothingExcluded ==
    pc = "mapped" => OnTape \cap Shadow \subseteq {ROOTINO}

(* restore -r takes an inode that is not in the TS_CLRI map for deleted, so *)
(* only directories that are kept out of the dump are missing from it; and  *)
(* what TS_BITS announces is on the tape.                                   *)
MapsTellTruth ==
    pc = "mapped" =>
        /\ InScope \ maps.used \subseteq Shadow \cap fs.dirs
        /\ maps.dump \subseteq OnTape

(* The loop over mapdirs ends, although a pass takes directories off the    *)
(* map and puts others on it: it is entered at most once for each directory *)
(* there is.                                                                *)
MapsSettle == calls <= Cardinality(fs.dirs)
=============================================================================
