-------------------------- MODULE DumpMaps_proofs ---------------------------
(***************************************************************************)
(* Passes I and II of dump, for file systems of any size, any exclusions   *)
(* and bytes of any number of bits: what the maps hold when mapdirs has    *)
(* come to its end, although it goes through a map that it changes, and    *)
(* sees a byte of it as it was when it came to the first bit.              *)
(***************************************************************************)
EXTENDS DumpMaps, NaturalNumbers, FiniteSetTheorems, TLAPS

(* Each inode but the root has a name, each directory can be reached from   *)
(* the root, and what is dumped is everything or what has a name.           *)
FsInv ==
    /\ fs.dirs \subseteq Inodes /\ ROOTINO \in fs.dirs
    /\ fs.names \subseteq fs.dirs \X Others
    /\ \A i \in Others : \E d \in fs.dirs : <<d, i>> \in fs.names
    /\ fs.dirs \subseteq Below(ROOTINO)
    /\ fs.excluded \subseteq Inodes /\ (~RootNodump => ROOTINO \notin fs.excluded)
    /\ fs.path \in fs.names \cup {WholeFs}

Maps == [used : SUBSET Inodes, dir : SUBSET Inodes, dump : SUBSET Inodes, skipped : BOOLEAN]

TypeInv ==
    /\ pc \in {"passI", "passII", "mapped"} /\ ino \in 1 .. MaxIno + 1
    /\ maps \in Maps /\ maps.dir \subseteq fs.dirs /\ isdir \subseteq Inodes

(* Pass I has mapped the inodes in scope that it has come to. *)
Seen == {i \in InScope : i < ino}

PassOneInv ==
    pc = "passI" =>
        /\ maps.used = Seen \ (fs.dirs \cap fs.excluded)
        /\ maps.dir = Seen \cap fs.dirs
        /\ maps.dump = (Seen \cap fs.changed) \ fs.excluded
        /\ ~maps.skipped => maps.dir \subseteq maps.used
        /\ isdir = {}

(* A directory on dumpdirmap that is not on usedinomap is marked: what is   *)
(* in it is to be taken out.                                                *)
Marked == maps.dir \ maps.used

(* What is taken off usedinomap is a directory below an excluded one, what  *)
(* is on the tape was in scope or is marked, and what is dumped is used.    *)
UsedInv ==
    pc # "passI" =>
        /\ InScope \ maps.used \subseteq Shadow \cap fs.dirs
        /\ Marked \subseteq Shadow
        /\ OnTape \subseteq InScope \cup Shadow
        /\ maps.dump \ {ROOTINO} \subseteq maps.used
        /\ (maps.dump \ fs.dirs) \cap fs.excluded = {}

(* A directory that is dumped is on dumpdirmap, but for a root that is      *)
(* marked, and no change that is to be dumped gets lost.                    *)
DumpInv ==
    pc # "passI" =>
        /\ maps.dump \cap fs.dirs \subseteq maps.dir \cup ({ROOTINO} \ maps.used)
        /\ (fs.changed \cap InScope) \ Shadow \subseteq maps.dump

(* What has not yet been taken out lies below a marked directory. *)
PendingInv ==
    pc # "passI" => \A y \in Shadow \cap fs.dirs :
        (y \in maps.dir \/ (Entries(y) \ fs.dirs) \cap maps.dump # {}) =>
            \E a \in Marked : y \in Below(a)

(* What is to stay on the tape has a name in a directory that is to stay.   *)
NameInv ==
    pc # "passI" => \A i \in OnTape \ (Shadow \cup {ROOTINO}) :
        \E d \in maps.dir : <<d, i>> \in fs.names

(* The bits of the byte that are still to be looked at are set in the map   *)
(* as well; and a pass that has not asked for another one will come to all  *)
(* marked directories.                                                      *)
ByteInv ==
    pc = "passII" =>
        /\ ino > 1 => \A d \in isdir : d >= ino => d \in maps.dir
        /\ ~maps.skipped => \A d \in Marked :
              /\ d >= ino
              /\ (ino > 1 /\ d \in Byte(ino - 1)) => d \in isdir

MapsInv ==
    /\ FsInv /\ TypeInv /\ PassOneInv /\ UsedInv /\ DumpInv /\ PendingInv
    /\ NameInv /\ ByteInv
    /\ pc = "mapped" => Marked = {}

-----------------------------------------------------------------------------
(* What lies below an inode. *)

Links == SUBSET (Inodes \X Inodes)

LEMMA ReachLeast ==
    ASSUME NEW names \in Links, NEW from \in Inodes, NEW S \in SUBSET Inodes,
           from \in S, \A n \in names : n[1] \in S => n[2] \in S
    PROVE  Reach(names, from) \subseteq S
BY DEF Reach

LEMMA ReachSelf ==
    ASSUME NEW names \in Links, NEW from \in Inodes
    PROVE  from \in Reach(names, from) /\ Reach(names, from) \subseteq Inodes
BY DEF Reach

LEMMA ReachClosed ==
    ASSUME NEW names \in Links, NEW from \in Inodes,
           NEW d \in Reach(names, from), NEW i, <<d, i>> \in names
    PROVE  i \in Reach(names, from)
<1>1. i \in Inodes
  BY DEF Links
<1>2. \A S \in SUBSET Inodes :
          (from \in S /\ \A n \in names : n[1] \in S => n[2] \in S) => i \in S
  <2> SUFFICES ASSUME NEW S \in SUBSET Inodes, from \in S,
                      \A n \in names : n[1] \in S => n[2] \in S
               PROVE  i \in S
    OBVIOUS
  <2>1. d \in S
    BY ReachLeast
  <2>2. <<d, i>>[1] = d /\ <<d, i>>[2] = i
    OBVIOUS
  <2> QED BY <2>1, <2>2
<1> QED BY <1>1, <1>2 DEF Reach

LEMMA ReachTrans ==
    ASSUME NEW names \in Links, NEW a \in Inodes,
           NEW b \in Reach(names, a), NEW c \in Reach(names, b)
    PROVE  c \in Reach(names, a)
<1> DEFINE S == Reach(names, a)
<1>1. S \in SUBSET Inodes /\ b \in Inodes
  BY ReachSelf
<1>2. \A n \in names : n[1] \in S => n[2] \in S
  <2> SUFFICES ASSUME NEW n \in names, n[1] \in S PROVE n[2] \in S
    OBVIOUS
  <2>1. n = <<n[1], n[2]>>
    BY DEF Links
  <2> HIDE DEF S
  <2>2. <<n[1], n[2]>> \in names
    BY <2>1
  <2> QED BY <2>2, ReachClosed DEF S
<1> HIDE DEF S
<1>3. b \in S
  BY DEF S
<1>4. Reach(names, b) \subseteq S
  BY <1>1, <1>2, <1>3, ReachLeast
<1> QED BY <1>4 DEF S

LEMMA ReachMore ==
    ASSUME NEW few \in Links, NEW names \in Links, few \subseteq names, NEW a \in Inodes
    PROVE  Reach(few, a) \subseteq Reach(names, a)
<1> DEFINE S == Reach(names, a)
<1>1. S \in SUBSET Inodes /\ a \in S
  BY ReachSelf
<1>2. \A n \in few : n[1] \in S => n[2] \in S
  <2> SUFFICES ASSUME NEW n \in few, n[1] \in S PROVE n[2] \in S
    OBVIOUS
  <2>1. n = <<n[1], n[2]>> /\ n \in names
    BY DEF Links
  <2> HIDE DEF S
  <2>2. <<n[1], n[2]>> \in names
    BY <2>1
  <2> QED BY <2>2, ReachClosed DEF S
<1> HIDE DEF S
<1>3. Reach(few, a) \subseteq S
  BY <1>1, <1>2, ReachLeast
<1> QED BY <1>3 DEF S

(* What lies below a, but not a, lies at or below an entry of a. *)
LEMMA FirstStep ==
    ASSUME NEW names \in Links, NEW a \in Inodes, NEW x \in Reach(names, a), x # a
    PROVE  \E c \in Inodes : <<a, c>> \in names /\ c # a /\ x \in Reach(names, c)
<1> DEFINE S == {i \in Inodes : i = a \/ \E c \in Inodes :
                    <<a, c>> \in names /\ c # a /\ i \in Reach(names, c)}
<1>1. S \in SUBSET Inodes /\ a \in S
  OBVIOUS
<1>2. \A n \in names : n[1] \in S => n[2] \in S
  <2> SUFFICES ASSUME NEW n \in names, n[1] \in S PROVE n[2] \in S
    OBVIOUS
  <2>1. <<n[1], n[2]>> \in names /\ n[2] \in Inodes
    BY DEF Links
  <2>2. CASE n[1] = a
    <3>1. n[2] \in Reach(names, n[2])
      BY <2>1, ReachSelf
    <3> QED BY <2>1, <2>2, <3>1
  <2>3. CASE n[1] # a
    <3>1. PICK c \in Inodes : <<a, c>> \in names /\ c # a /\ n[1] \in Reach(names, c)
      BY <2>3
    <3>2. n[2] \in Reach(names, c)
      BY <2>1, <3>1, ReachClosed
    <3> QED BY <2>1, <3>1, <3>2
  <2> QED BY <2>2, <2>3
<1> HIDE DEF S
<1>3. x \in S
  BY <1>1, <1>2, ReachLeast
<1> QED BY <1>3 DEF S

(* ... and is an entry of something at or below a. *)
LEMMA LastStep ==
    ASSUME NEW names \in Links, NEW a \in Inodes, NEW x \in Reach(names, a), x # a
    PROVE  \E d \in Reach(names, a) : <<d, x>> \in names
<1> DEFINE S == {i \in Inodes : i = a \/ (i \in Reach(names, a) /\
                    \E d \in Reach(names, a) : <<d, i>> \in names)}
<1>1. S \in SUBSET Inodes /\ a \in S
  OBVIOUS
<1>2. \A n \in names : n[1] \in S => n[2] \in S
  <2> SUFFICES ASSUME NEW n \in names, n[1] \in S PROVE n[2] \in S
    OBVIOUS
  <2>1. <<n[1], n[2]>> \in names /\ n[2] \in Inodes
    BY DEF Links
  <2>2. n[1] \in Reach(names, a)
    BY ReachSelf
  <2>3. n[2] \in Reach(names, a)
    BY <2>1, <2>2, ReachClosed
  <2> QED BY <2>1, <2>2, <2>3
<1> HIDE DEF S
<1>3. x \in S
  BY <1>1, <1>2, ReachLeast
<1> QED BY <1>3 DEF S

-----------------------------------------------------------------------------
(* The file system. *)

(* A file system as Init picks it: its directories, each in one directory,  *)
(* and the directories that each other file is in.                          *)
LEMMA FileSystemIs ==
    ASSUME NEW f \in FileSystems
    PROVE  /\ f.dirs \subseteq Inodes /\ ROOTINO \in f.dirs
           /\ f.names \subseteq f.dirs \X Others
           /\ \A i \in Others : \E d \in f.dirs : <<d, i>> \in f.names
           /\ f.dirs \subseteq Reach(f.names, ROOTINO)
           /\ \A d \in f.dirs : \A x, y :
                 (<<x, d>> \in f.names /\ <<y, d>> \in f.names) => x = y
<1>0. ROOTINO \in Inodes /\ Others \subseteq Inodes
  BY MapsAssumption DEF Inodes, Others, ROOTINO
<1>1. PICK dirs \in SUBSET Others : f \in FileSystemsOf(dirs)
  BY DEF FileSystems
<1>2. PICK t \in Trees(dirs), l \in FileNames(dirs) :
          f = [dirs  |-> dirs \cup {ROOTINO},
               names |-> t \cup {n \in (dirs \cup {ROOTINO}) \X (Others \ dirs) :
                                    n[1] \in l[n[2]]}]
  BY <1>1 DEF FileSystemsOf
<1> DEFINE all   == dirs \cup {ROOTINO}
           links == {n \in all \X (Others \ dirs) : n[1] \in l[n[2]]}
<1>3. f.dirs = all /\ f.names = t \cup links
  BY <1>2
<1>4. PICK p \in [dirs -> all] : t = {<<p[d], d>> : d \in dirs}
  BY DEF Trees
<1>5. t \subseteq all \X dirs /\ \A i \in dirs : p[i] \in all /\ <<p[i], i>> \in t
  BY <1>4
<1>6. all \subseteq Inodes /\ ROOTINO \in all
  BY <1>0, <1>1
<1>7. t \cup links \subseteq all \X Others
  BY <1>1, <1>5
<1>8. ASSUME NEW i \in Others \ dirs PROVE \E d \in all : <<d, i>> \in links
  <2>1. l[i] \subseteq all /\ Cardinality(l[i]) \in 1 .. MaxLinks
    BY DEF FileNames
  <2>2. l[i] # {}
    BY <2>1, FS_EmptySet
  <2>3. PICK d \in l[i] : TRUE
    BY <2>2
  <2> QED BY <2>1, <2>3
<1>9. \A i \in Others : \E d \in all : <<d, i>> \in t \cup links
  <2> SUFFICES ASSUME NEW i \in Others PROVE \E d \in all : <<d, i>> \in t \cup links
    OBVIOUS
  <2>1. CASE i \in dirs
    <3>1. p[i] \in all /\ <<p[i], i>> \in t
      BY <1>5, <2>1
    <3> HIDE DEF links
    <3> QED BY <3>1
  <2>2. CASE i \notin dirs
    <3> HIDE DEF links
    <3> QED BY <1>8, <2>2
  <2> QED BY <2>1, <2>2
<1>10. all \subseteq Reach(t \cup links, ROOTINO)
  <2>1. t \in Links /\ (t \cup links) \in Links
    <3> HIDE DEF links
    <3> QED BY <1>0, <1>5, <1>6, <1>7 DEF Links
  <2>2. dirs \subseteq Reach(t, ROOTINO)
    BY DEF Trees
  <2> HIDE DEF links
  <2>3. Reach(t, ROOTINO) \subseteq Reach(t \cup links, ROOTINO)
    BY <1>0, <2>1, ReachMore
  <2> QED BY <1>0, <2>1, <2>2, <2>3, ReachSelf
<1>11. ASSUME NEW d \in all, NEW x, <<x, d>> \in t \cup links PROVE x = p[d]
  <2>1. <<x, d>> \notin links
    BY <1>1, <1>11 DEF Others
  <2>2. <<x, d>> \in t
    BY <1>11, <2>1
  <2> QED BY <1>4, <2>2
<1> HIDE DEF all, links
<1>12. \A d \in all : \A x, y : (<<x, d>> \in t \cup links /\ <<y, d>> \in t \cup links) => x = y
  BY <1>11
<1> QED BY <1>3, <1>6, <1>7, <1>9, <1>10, <1>12

LEMMA FsInit == Init => FsInv
<1> SUFFICES ASSUME Init PROVE FsInv
  OBVIOUS
<1>1. PICK f \in FileSystems, changed \in SUBSET Others,
           excluded \in SUBSET (IF RootNodump THEN Inodes ELSE Others) :
           \E path \in f.names \cup {WholeFs} :
              fs = [dirs |-> f.dirs, names |-> f.names, excluded |-> excluded,
                    changed |-> changed \cup {ROOTINO}, path |-> path]
  BY DEF Init
<1>2. excluded \subseteq Inodes /\ (~RootNodump => ROOTINO \notin excluded)
  BY MapsAssumption DEF Inodes, Others
<1>3. fs.dirs = f.dirs /\ fs.names = f.names /\ fs.excluded = excluded
      /\ fs.path \in f.names \cup {WholeFs}
  BY <1>1
<1>4. /\ f.dirs \subseteq Inodes /\ ROOTINO \in f.dirs
      /\ f.names \subseteq f.dirs \X Others
      /\ \A i \in Others : \E d \in f.dirs : <<d, i>> \in f.names
      /\ f.dirs \subseteq Reach(f.names, ROOTINO)
  BY FileSystemIs
<1> QED BY <1>2, <1>3, <1>4 DEF FsInv, Below

LEMMA FsLinks ==
    ASSUME FsInv
    PROVE  /\ fs.names \in Links /\ ROOTINO \in Inodes /\ Others \subseteq Inodes
           /\ \A i \in Inodes : i \in Below(i) /\ Below(i) \subseteq Inodes
<1>1. ROOTINO \in Inodes /\ Others \subseteq Inodes
  BY MapsAssumption DEF Inodes, Others, ROOTINO
<1>2. fs.names \in Links
  BY <1>1 DEF FsInv, Links
<1> QED BY <1>1, <1>2, ReachSelf DEF Below

(* Nothing lies below what is no directory. *)
LEMMA BelowFile ==
    ASSUME FsInv, NEW i \in Inodes, i \notin fs.dirs
    PROVE  Below(i) = {i}
<1>1. ASSUME NEW x \in Below(i), x # i PROVE FALSE
  <2>1. \E c \in Inodes : <<i, c>> \in fs.names
    BY <1>1, FsLinks, FirstStep DEF Below
  <2> QED BY <2>1 DEF FsInv
<1> QED BY <1>1, FsLinks

LEMMA ShadowIs ==
    ASSUME FsInv
    PROVE  /\ InScope \subseteq Inodes /\ Shadow \subseteq Inodes
           /\ fs.excluded \cap InScope \subseteq Shadow
           /\ \A d \in Shadow : \A i : <<d, i>> \in fs.names => i \in Shadow
           /\ ROOTINO \in Shadow => ROOTINO \in fs.excluded
<1>1. \A i \in Inodes : i \in Below(i) /\ Below(i) \subseteq Inodes
  BY FsLinks
<1>2. fs.path = WholeFs \/ (fs.path[1] \in fs.dirs /\ fs.path[2] \in Inodes)
  BY FsLinks DEF FsInv
<1>3. InScope \subseteq Inodes
  <2>1. fs.dirs \subseteq Inodes
    BY DEF FsInv
  <2> QED BY <1>1, <1>2, <2>1 DEF InScope, Above
<1>4. Shadow \subseteq Inodes /\ fs.excluded \cap InScope \subseteq Shadow
  <2>1. fs.excluded \subseteq Inodes
    BY DEF FsInv
  <2> QED BY <1>1, <2>1 DEF Shadow
<1>5. ASSUME NEW d \in Shadow, NEW i, <<d, i>> \in fs.names PROVE i \in Shadow
  <2>1. PICK x \in fs.excluded \cap InScope : d \in Below(x)
    BY DEF Shadow
  <2>2. x \in Inodes
    BY <2>1 DEF FsInv
  <2>3. i \in Below(x)
    BY <1>5, <2>1, <2>2, FsLinks, ReachClosed DEF Below
  <2> QED BY <2>1, <2>3 DEF Shadow
<1>6. ASSUME ROOTINO \in Shadow PROVE ROOTINO \in fs.excluded
  <2>1. PICK x \in fs.excluded \cap InScope : ROOTINO \in Below(x)
    BY <1>6 DEF Shadow
  <2>2. x \in Inodes
    BY <2>1 DEF FsInv
  <2>3. ASSUME x # ROOTINO PROVE FALSE
    <3>1. \E d \in Below(x) : <<d, ROOTINO>> \in fs.names
      BY <2>1, <2>2, <2>3, FsLinks, LastStep DEF Below
    <3> QED BY <3>1 DEF FsInv, Others
  <2> QED BY <2>1, <2>3
<1> QED BY <1>3, <1>4, <1>5, <1>6

(* With an inode, the directories that lead to it are in scope. *)
LEMMA ScopeIs ==
    ASSUME FsInv
    PROVE  /\ ROOTINO \in InScope
           /\ \A i \in InScope \ {ROOTINO} :
                 \E d \in InScope \cap fs.dirs : <<d, i>> \in fs.names
<1>1. CASE fs.path = WholeFs
  <2>1. InScope = Inodes
    BY <1>1 DEF InScope
  <2> QED BY <2>1, FsLinks DEF FsInv, Others
<1>2. CASE fs.path # WholeFs
  <2> DEFINE a == fs.path[1]
             b == fs.path[2]
  <2>1. a \in fs.dirs /\ b \in Inodes /\ <<a, b>> \in fs.names /\ a \in Inodes
    <3>1. fs.path \in fs.names
      BY <1>2 DEF FsInv
    <3>2. fs.path = <<a, b>> /\ a \in fs.dirs /\ b \in Others
      BY <3>1 DEF FsInv
    <3> QED BY <3>1, <3>2, FsLinks DEF FsInv
  <2>2. InScope = {e \in fs.dirs : a \in Below(e)} \cup Below(b)
    BY <1>2 DEF InScope, Above
  <2> HIDE DEF a, b
  <2>3. ROOTINO \in InScope /\ a \in InScope
    BY <2>1, <2>2, FsLinks DEF FsInv
  <2>4. ASSUME NEW i \in fs.dirs, a \in Below(i), i # ROOTINO
        PROVE  \E d \in InScope \cap fs.dirs : <<d, i>> \in fs.names
    <3>1. i \in Others
      BY <2>4 DEF FsInv, Others
    <3>2. PICK d \in fs.dirs : <<d, i>> \in fs.names
      BY <3>1 DEF FsInv
    <3>3. d \in Inodes
      BY DEF FsInv
    <3>4. i \in Below(d)
      BY <3>2, <3>3, FsLinks, ReachClosed DEF Below
    <3>5. a \in Below(d)
      BY <2>4, <3>3, <3>4, FsLinks, ReachTrans DEF Below
    <3> QED BY <2>2, <3>2, <3>5
  <2>5. ASSUME NEW i \in Below(b), i # ROOTINO
        PROVE  \E d \in InScope \cap fs.dirs : <<d, i>> \in fs.names
    <3>1. CASE i = b
      BY <2>1, <2>3, <3>1
    <3>2. CASE i # b
      <4>1. PICK d \in Below(b) : <<d, i>> \in fs.names
        BY <2>1, <2>5, <3>2, FsLinks, LastStep DEF Below
      <4>2. d \in fs.dirs
        BY <4>1 DEF FsInv
      <4> QED BY <2>2, <4>1, <4>2
    <3> QED BY <3>1, <3>2
  <2> QED BY <2>2, <2>3, <2>4, <2>5
<1> QED BY <1>1, <1>2

-----------------------------------------------------------------------------
(* What the operations on the maps do. *)

LEMMA MapFileInoGives ==
    ASSUME NEW m \in Maps, NEW i \in Inodes, i \notin m.used
    PROVE  /\ MapFileIno(i, m) \in Maps
           /\ MapFileIno(i, m).used = m.used \cup ({i} \ (fs.dirs \cap fs.excluded))
           /\ MapFileIno(i, m).dir = m.dir \cup ({i} \cap fs.dirs)
           /\ MapFileIno(i, m).dump = m.dump \cup (({i} \cap fs.changed) \ fs.excluded)
           /\ MapFileIno(i, m).skipped <=>
                 (m.skipped \/ (i \in fs.dirs /\ i \notin fs.changed \ fs.excluded))
<1>1. CASE i \in fs.changed \ fs.excluded
  <2> DEFINE n == [m EXCEPT !.used = @ \cup {i}, !.dir = IF i \in fs.dirs THEN m.dir \cup {i} ELSE m.dir,
                            !.dump = @ \cup {i}]
  <2>1. MapFileIno(i, m) = n
    BY <1>1 DEF MapFileIno
  <2>2. /\ n \in Maps /\ n.used = m.used \cup {i} /\ n.dump = m.dump \cup {i}
        /\ n.dir = IF i \in fs.dirs THEN m.dir \cup {i} ELSE m.dir
        /\ n.skipped = m.skipped
    BY DEF Maps
  <2> HIDE DEF n
  <2> QED BY <1>1, <2>1, <2>2
<1>2. CASE i \notin fs.changed \ fs.excluded
  <2> DEFINE u == IF i \in fs.dirs \cap fs.excluded THEN m.used ELSE m.used \cup {i}
             r == IF i \in fs.dirs THEN m.dir \cup {i} ELSE m.dir
             k == m.skipped \/ i \in fs.dirs
             n == [m EXCEPT !.dir = r, !.used = u, !.skipped = k]
  <2>1. MapFileIno(i, m) = n
    BY <1>2 DEF MapFileIno
  <2>2. u \in SUBSET Inodes /\ r \in SUBSET Inodes /\ k \in BOOLEAN
    BY DEF Maps
  <2> HIDE DEF u, r, k
  <2>3. n \in Maps /\ n.used = u /\ n.dump = m.dump /\ n.dir = r /\ n.skipped = k
    BY <2>2 DEF Maps
  <2> HIDE DEF n
  <2> QED BY <1>2, <2>1, <2>3 DEF u, r, k
<1> QED BY <1>1, <1>2

LEMMA SearchExcludedGives ==
    ASSUME NEW m \in Maps, NEW d \in Inodes
    PROVE  /\ SearchExcluded(d, m) \in Maps
           /\ SearchExcluded(d, m).used = m.used \ (Entries(d) \cap fs.dirs)
           /\ SearchExcluded(d, m).dir = (m.dir \cup (Entries(d) \cap fs.dirs)) \ {d}
           /\ SearchExcluded(d, m).dump = m.dump \ Entries(d)
           /\ SearchExcluded(d, m).skipped <=> (m.skipped \/ Entries(d) \cap fs.dirs # {})
<1> DEFINE sub == Entries(d) \cap fs.dirs
           k   == m.skipped \/ sub # {}
           n   == [m EXCEPT !.dump = @ \ Entries(d), !.dir = (@ \cup sub) \ {d},
                            !.used = @ \ sub, !.skipped = k]
<1>1. SearchExcluded(d, m) = n
  BY DEF SearchExcluded
<1>2. sub \subseteq Inodes /\ k \in BOOLEAN
  BY DEF Entries, Maps
<1> HIDE DEF sub, k
<1>3. /\ n \in Maps /\ n.used = m.used \ sub /\ n.dir = (m.dir \cup sub) \ {d}
      /\ n.dump = m.dump \ Entries(d) /\ n.skipped = k
  BY <1>2 DEF Maps
<1> HIDE DEF n
<1> QED BY <1>1, <1>3 DEF sub, k

LEMMA SearchDirGives ==
    ASSUME NEW m \in Maps, NEW d \in Inodes
    PROVE  LET n == SearchDir(d, m)
           IN  \/ n = m
               \/ /\ n \in Maps /\ n.skipped /\ n.used = m.used /\ n.dir = m.dir
                  /\ n.dump = m.dump \cup {d}
               \/ /\ n \in Maps /\ n.skipped /\ n.used = m.used /\ n.dump = m.dump
                  /\ n.dir = m.dir \ {d}
                  /\ Entries(d) \cap m.dump = {} /\ Entries(d) \cap m.dir = {}
<1> DEFINE a == [m EXCEPT !.dump = @ \cup {d}, !.skipped = TRUE]
           b == [m EXCEPT !.dir = @ \ {d}, !.skipped = TRUE]
<1>1. SearchDir(d, m) = IF Entries(d) \cap m.dump # {} THEN a
                        ELSE IF Entries(d) \cap m.dir # {} THEN m ELSE b
  BY DEF SearchDir
<1>2. /\ a \in Maps /\ a.skipped /\ a.used = m.used /\ a.dir = m.dir
      /\ a.dump = m.dump \cup {d}
  BY DEF Maps
<1>3. /\ b \in Maps /\ b.skipped /\ b.used = m.used /\ b.dump = m.dump
      /\ b.dir = m.dir \ {d}
  BY DEF Maps
<1> HIDE DEF a, b
<1> QED BY <1>1, <1>2, <1>3

LEMMA FsKept ==
    ASSUME FsInv, fs' = fs
    PROVE  /\ FsInv' /\ InScope' = InScope /\ Shadow' = Shadow
           /\ \A i : Below(i)' = Below(i) /\ Entries(i)' = Entries(i)
<1>1. ASSUME NEW i PROVE Below(i)' = Below(i) /\ Entries(i)' = Entries(i)
  BY DEF Below, Entries
<1>2. InScope' = InScope
  BY DEF InScope, Above, Below
<1>3. Shadow' = Shadow
  BY <1>2 DEF Shadow, Below
<1>4. FsInv'
  BY DEF FsInv, Below
<1> QED BY <1>1, <1>2, <1>3, <1>4

-----------------------------------------------------------------------------
(* Pass I. *)

LEMMA MapsInit == Init => MapsInv
<1> SUFFICES ASSUME Init PROVE MapsInv
  OBVIOUS
<1>1. FsInv
  BY FsInit
<1>2. /\ pc = "passI" /\ ino = 1 /\ isdir = {}
      /\ maps = [used |-> {}, dir |-> {}, dump |-> {}, skipped |-> FALSE]
  BY DEF Init
<1>3. TypeInv
  BY <1>2, MapsAssumption DEF TypeInv, Maps
<1>4. PassOneInv
  <2>1. Seen = {}
    BY <1>1, <1>2, ShadowIs DEF Seen, Inodes, ROOTINO
  <2> QED BY <1>2, <2>1 DEF PassOneInv
<1> QED BY <1>1, <1>2, <1>3, <1>4
    DEF MapsInv, UsedInv, DumpInv, PendingInv, NameInv, ByteInv

LEMMA StepMapIno ==
    ASSUME MapsInv, MapIno
    PROVE  MapsInv'
<1>1. /\ pc = "passI" /\ ino <= MaxIno /\ ino' = ino + 1 /\ fs' = fs /\ pc' = pc
      /\ isdir' = isdir
      /\ maps' = IF ino \in InScope THEN MapFileIno(ino, maps) ELSE maps
  BY DEF MapIno
<1>2. /\ FsInv /\ TypeInv /\ maps \in Maps /\ ino \in 1 .. MaxIno + 1 /\ MaxIno \in Nat
  BY MapsAssumption DEF MapsInv, TypeInv
<1>3. /\ FsInv' /\ InScope' = InScope /\ InScope \subseteq Inodes
  BY <1>1, <1>2, FsKept, ShadowIs
<1>4. /\ maps.used = Seen \ (fs.dirs \cap fs.excluded)
      /\ maps.dir = Seen \cap fs.dirs
      /\ maps.dump = (Seen \cap fs.changed) \ fs.excluded
      /\ ~maps.skipped => maps.dir \subseteq maps.used
      /\ isdir = {}
  BY <1>1 DEF MapsInv, PassOneInv
<1>5. Seen' = IF ino \in InScope THEN Seen \cup {ino} ELSE Seen
  <2>1. \A i \in InScope : i < ino + 1 <=> (i < ino \/ i = ino)
    BY <1>2, <1>3 DEF Inodes, ROOTINO
  <2> QED BY <1>1, <1>3, <2>1 DEF Seen
<1>6. PassOneInv' /\ TypeInv'
  <2>1. CASE ino \in InScope
    <3>1. ino \in Inodes /\ ino \notin maps.used
      BY <1>3, <1>4, <2>1 DEF Seen, Inodes
    <3>2. /\ maps' \in Maps
          /\ maps'.used = maps.used \cup ({ino} \ (fs.dirs \cap fs.excluded))
          /\ maps'.dir = maps.dir \cup ({ino} \cap fs.dirs)
          /\ maps'.dump = maps.dump \cup (({ino} \cap fs.changed) \ fs.excluded)
          /\ maps'.skipped <=>
                (maps.skipped \/ (ino \in fs.dirs /\ ino \notin fs.changed \ fs.excluded))
      BY <1>1, <1>2, <2>1, <3>1, MapFileInoGives
    <3>3. PassOneInv'
      BY <1>1, <1>4, <1>5, <2>1, <3>2 DEF PassOneInv
    <3>4. TypeInv'
      BY <1>1, <1>2, <3>2 DEF TypeInv
    <3> QED BY <3>3, <3>4
  <2>2. CASE ino \notin InScope
    <3>1. maps' = maps
      BY <1>1, <2>2
    <3>2. PassOneInv'
      BY <1>1, <1>4, <1>5, <2>2, <3>1 DEF PassOneInv
    <3>3. TypeInv'
      BY <1>1, <1>2, <3>1 DEF TypeInv
    <3> QED BY <3>2, <3>3
  <2> QED BY <2>1, <2>2
<1> QED BY <1>1, <1>3, <1>6 DEF MapsInv, UsedInv, DumpInv, PendingInv, NameInv, ByteInv

(* At the end of pass I only the root may still be put on dumpinomap. *)
LEMMA PassOneEnds ==
    ASSUME MapsInv, pc = "passI", ino > MaxIno, pc' = "passII",
           UNCHANGED <<fs, ino, isdir>>, maps' \in Maps,
           maps'.used = maps.used, maps'.dir = maps.dir, maps'.skipped = maps.skipped,
           maps.dump \subseteq maps'.dump, maps'.dump \subseteq maps.dump \cup {ROOTINO}
    PROVE  MapsInv'
<1>1. FsInv /\ TypeInv /\ ino \in 1 .. MaxIno + 1 /\ MaxIno \in Nat
  BY MapsAssumption DEF MapsInv, TypeInv
<1>2. /\ FsInv' /\ InScope' = InScope /\ Shadow' = Shadow
      /\ \A i : Below(i)' = Below(i) /\ Entries(i)' = Entries(i)
  BY <1>1, FsKept
<1>3. Seen = InScope
  <2>1. \A i \in InScope : i < ino
    BY <1>1, ShadowIs DEF Inodes, ROOTINO
  <2> QED BY <2>1 DEF Seen
<1>4. /\ maps.used = InScope \ (fs.dirs \cap fs.excluded)
      /\ maps.dir = InScope \cap fs.dirs
      /\ maps.dump = (InScope \cap fs.changed) \ fs.excluded
      /\ ~maps.skipped => maps.dir \subseteq maps.used
      /\ isdir = {}
  BY <1>3 DEF MapsInv, PassOneInv
<1>5. /\ fs.excluded \cap InScope \subseteq Shadow
      /\ ROOTINO \in InScope /\ ROOTINO \in fs.dirs
  BY <1>1, ShadowIs, ScopeIs DEF FsInv
<1>6. Marked' = InScope \cap fs.dirs \cap fs.excluded
  BY <1>4 DEF Marked
<1>7. OnTape' \subseteq InScope
  BY <1>4, <1>5 DEF OnTape
<1>8. TypeInv'
  BY <1>1 DEF TypeInv
<1>9. UsedInv'
  BY <1>2, <1>4, <1>5, <1>6, <1>7 DEF UsedInv
<1>10. DumpInv'
  BY <1>2, <1>4, <1>5 DEF DumpInv
<1>11. PendingInv'
  <2> SUFFICES ASSUME NEW y \in Shadow \cap fs.dirs PROVE \E a \in Marked' : y \in Below(a)
    BY <1>2 DEF PendingInv
  <2>1. PICK x \in fs.excluded \cap InScope : y \in Below(x)
    BY DEF Shadow
  <2>2. x \in fs.dirs
    <3>1. x \in Inodes
      BY <1>1, <2>1 DEF FsInv
    <3>2. y \in fs.dirs /\ y \in Below(x)
      BY <2>1
    <3>3. x \notin fs.dirs => Below(x) = {x}
      BY <1>1, <3>1, BelowFile
    <3> QED BY <3>2, <3>3
  <2> QED BY <1>6, <2>1, <2>2
<1>12. NameInv'
  <2> SUFFICES ASSUME NEW i \in InScope \ {ROOTINO}
               PROVE  \E d \in maps.dir : <<d, i>> \in fs.names
    BY <1>7 DEF NameInv
  <2>1. PICK d \in InScope \cap fs.dirs : <<d, i>> \in fs.names
    BY <1>1, ScopeIs
  <2> QED BY <1>4, <2>1
<1>13. ByteInv'
  BY <1>4 DEF ByteInv, Marked
<1> QED BY <1>2, <1>8, <1>9, <1>10, <1>11, <1>12, <1>13 DEF MapsInv, PassOneInv

LEMMA StepPassOneEnd ==
    ASSUME MapsInv, MapFilesEnd \/ MapOneFileEnd
    PROVE  MapsInv'
<1>1. /\ pc = "passI" /\ ino > MaxIno /\ pc' = "passII" /\ UNCHANGED <<fs, ino, isdir>>
  BY DEF MapFilesEnd, MapOneFileEnd
<1>2. /\ FsInv /\ maps \in Maps /\ ino \in 1 .. MaxIno + 1 /\ MaxIno \in Nat
      /\ ROOTINO \in Inodes
  BY MapsAssumption, FsLinks DEF MapsInv, TypeInv
<1>3. ROOTINO \in maps.dir
  <2>1. ROOTINO \in InScope /\ ROOTINO \in fs.dirs /\ InScope \subseteq Inodes
    BY <1>2, ScopeIs, ShadowIs DEF FsInv
  <2>2. ROOTINO < ino
    BY <1>1, <1>2 DEF Inodes, ROOTINO
  <2> QED BY <1>1, <2>1, <2>2 DEF MapsInv, PassOneInv, Seen
<1>4. CASE MapFilesEnd
  <2>1. maps' = [maps EXCEPT !.dump = @ \cup {ROOTINO}]
    BY <1>4 DEF MapFilesEnd
  <2>2. /\ maps' \in Maps /\ maps'.used = maps.used /\ maps'.dir = maps.dir
        /\ maps'.skipped = maps.skipped /\ maps'.dump = maps.dump \cup {ROOTINO}
    BY <1>2, <2>1 DEF Maps
  <2> QED BY <1>1, <2>2, PassOneEnds
<1>5. CASE MapOneFileEnd
  <2>1. maps' = [maps EXCEPT !.dir = @ \cup {ROOTINO}]
    BY <1>5 DEF MapOneFileEnd
  <2>2. /\ maps' \in Maps /\ maps'.used = maps.used /\ maps'.dir = maps.dir
        /\ maps'.skipped = maps.skipped /\ maps'.dump = maps.dump
    BY <1>2, <1>3, <2>1 DEF Maps
  <2> QED BY <1>1, <2>2, PassOneEnds
<1> QED BY <1>4, <1>5

-----------------------------------------------------------------------------
(* Pass II. *)

(* A bit that is not the first of its byte is in the byte of the bit before. *)
LEMMA ByteGoesOn ==
    ASSUME NEW i \in Nat, i > 1, (i - 1) % NBBY # 0
    PROVE  Byte(i) = Byte(i - 1)
<1>1. NBBY \in Nat /\ NBBY > 0
  BY MapsAssumption
<1>2. (i - 1) \div NBBY = (i - 1 - 1) \div NBBY
  BY <1>1
<1> QED BY <1>2 DEF Byte

(* What MapDirsIno sees of its byte. *)
LEMMA ByteSeen ==
    ASSUME MapsInv, MapDirsIno
    PROVE  /\ \A d \in isdir' : d >= ino => d \in maps.dir
           /\ ~maps.skipped => \A d \in Marked :
                 d >= ino /\ (d \in Byte(ino) => d \in isdir')
<1>1. /\ pc = "passII" /\ ino \in 1 .. MaxIno + 1 /\ ino <= MaxIno
      /\ NBBY \in Nat /\ NBBY > 0 /\ MaxIno \in Nat
      /\ isdir' = IF (ino - 1) % NBBY = 0 THEN maps.dir \cap Byte(ino) ELSE isdir
  BY MapsAssumption DEF MapDirsIno, MapsInv, TypeInv
<1>2. /\ ino > 1 => \A d \in isdir : d >= ino => d \in maps.dir
      /\ ~maps.skipped => \A d \in Marked :
            d >= ino /\ ((ino > 1 /\ d \in Byte(ino - 1)) => d \in isdir)
  BY <1>1 DEF MapsInv, ByteInv
<1>3. CASE (ino - 1) % NBBY = 0
  BY <1>1, <1>2, <1>3 DEF Marked
<1>4. CASE (ino - 1) % NBBY # 0
  <2>1. ino # 1
    <3>1. 0 % NBBY = 0
      BY <1>1
    <3> QED BY <1>4, <3>1
  <2>2. ino > 1 /\ ino \in Nat
    BY <1>1, <2>1
  <2>3. Byte(ino) = Byte(ino - 1)
    BY <1>4, <2>2, ByteGoesOn
  <2> QED BY <1>1, <1>2, <1>4, <2>2, <2>3
<1> QED BY <1>3, <1>4

(* What is left to show of a step of mapdirs: the maps keep their           *)
(* invariant, it takes nothing off dumpdirmap but the directory it looks    *)
(* at, and unless it asks for another pass it does not mark any, and leaves *)
(* that directory unmarked.                                                 *)
LEMMA NextBit ==
    ASSUME MapsInv, MapDirsIno, maps' \in Maps, maps'.dir \subseteq fs.dirs,
           UsedInv', DumpInv', PendingInv', NameInv',
           maps.dir \ {ino} \subseteq maps'.dir,
           ~maps'.skipped => (~maps.skipped /\ Marked' \subseteq Marked \ {ino})
    PROVE  MapsInv'
<1>1. /\ pc = "passII" /\ pc' = pc /\ ino' = ino + 1 /\ fs' = fs
      /\ ino \in 1 .. MaxIno + 1 /\ ino <= MaxIno /\ MaxIno \in Nat /\ FsInv
      /\ maps \in Maps
  BY MapsAssumption DEF MapDirsIno, MapsInv, TypeInv
<1>2. FsInv'
  BY <1>1, FsKept
<1>3. isdir' \subseteq Inodes
  BY <1>1 DEF MapDirsIno, Maps, MapsInv, TypeInv
<1>4. isdir' \subseteq Int /\ maps.dir \subseteq Int
  BY <1>1, <1>3 DEF Inodes, ROOTINO, Maps
<1>5. TypeInv'
  BY <1>1, <1>3 DEF TypeInv
<1>6. ByteInv'
  <2>1. ASSUME NEW d \in isdir', d >= ino + 1 PROVE d \in maps'.dir
    <3>1. d >= ino /\ d # ino
      BY <1>1, <1>4, <2>1
    <3>2. d \in maps.dir
      BY <3>1, ByteSeen
    <3> QED BY <3>1, <3>2
  <2>2. ASSUME ~maps'.skipped, NEW d \in Marked'
        PROVE  d >= ino + 1 /\ (d \in Byte(ino) => d \in isdir')
    <3>1. ~maps.skipped /\ d \in Marked /\ d # ino
      BY <2>2
    <3>2. d >= ino /\ (d \in Byte(ino) => d \in isdir')
      BY <3>1, ByteSeen
    <3>3. d \in Int
      BY <1>4, <3>1 DEF Marked
    <3> QED BY <1>1, <3>1, <3>2, <3>3
  <2>3. ino' - 1 = ino
    BY <1>1
  <2>4. /\ \A d \in isdir' : d >= ino' => d \in maps'.dir
        /\ ~maps'.skipped => \A d \in Marked' :
              d >= ino' /\ ((ino' > 1 /\ d \in Byte(ino' - 1)) => d \in isdir')
    BY <1>1, <2>1, <2>2, <2>3
  <2> QED BY <2>4 DEF ByteInv
<1> QED BY <1>1, <1>2, <1>5, <1>6 DEF MapsInv, PassOneInv

(* mapdirs passes over what is not set in its byte or is dumped. *)
LEMMA StepPassOver ==
    ASSUME MapsInv, MapDirsIno, ino \notin isdir' \/ (ino \in maps.used /\ ino \in maps.dump)
    PROVE  MapsInv'
<1>1. /\ pc = "passII" /\ pc' = pc /\ fs' = fs /\ maps' = maps /\ ino <= MaxIno
      /\ ino \in 1 .. MaxIno + 1 /\ MaxIno \in Nat /\ FsInv /\ maps \in Maps
      /\ maps.dir \subseteq fs.dirs
  BY MapsAssumption DEF MapDirsIno, MapsInv, TypeInv
<1>2. /\ InScope' = InScope /\ Shadow' = Shadow
      /\ \A i : Below(i)' = Below(i) /\ Entries(i)' = Entries(i)
  BY <1>1, FsKept
<1>3. UsedInv' /\ DumpInv' /\ NameInv'
  BY <1>1, <1>2 DEF MapsInv, UsedInv, DumpInv, NameInv, Marked, OnTape
<1>4. PendingInv'
  BY <1>1, <1>2 DEF MapsInv, PendingInv, Marked
<1>5. ~maps.skipped => ino \notin Marked
  <2>1. ino \in Byte(ino)
    BY <1>1 DEF Byte
  <2> QED BY <2>1, ByteSeen DEF Marked
<1>6. Marked' = Marked
  BY <1>1 DEF Marked
<1> QED BY <1>1, <1>3, <1>4, <1>5, <1>6, NextBit

(* searchdir of a directory that is not marked. *)
LEMMA StepSearchDir ==
    ASSUME MapsInv, MapDirsIno, ino \in isdir', ino \in maps.used, ino \notin maps.dump
    PROVE  MapsInv'
<1>1. /\ pc = "passII" /\ pc' = pc /\ fs' = fs /\ maps' = SearchDir(ino, maps)
      /\ ino <= MaxIno /\ ino \in 1 .. MaxIno + 1 /\ MaxIno \in Nat /\ FsInv
      /\ maps \in Maps /\ maps.dir \subseteq fs.dirs
  BY MapsAssumption DEF MapDirsIno, MapsInv, TypeInv
<1>2. /\ InScope' = InScope /\ Shadow' = Shadow
      /\ \A i : Below(i)' = Below(i) /\ Entries(i)' = Entries(i)
  BY <1>1, FsKept
<1>3. ino \in maps.dir /\ ino \in Inodes /\ ino \in fs.dirs
  BY <1>1, ByteSeen DEF Maps
<1>4. \/ maps' = maps
      \/ /\ maps' \in Maps /\ maps'.skipped /\ maps'.used = maps.used
         /\ maps'.dir = maps.dir /\ maps'.dump = maps.dump \cup {ino}
      \/ /\ maps' \in Maps /\ maps'.skipped /\ maps'.used = maps.used
         /\ maps'.dump = maps.dump /\ maps'.dir = maps.dir \ {ino}
         /\ Entries(ino) \cap maps.dump = {} /\ Entries(ino) \cap maps.dir = {}
  BY <1>1, <1>3, SearchDirGives
<1>5. /\ maps' \in Maps /\ maps'.used = maps.used /\ maps'.dir \subseteq fs.dirs
      /\ maps.dir \ {ino} \subseteq maps'.dir /\ maps'.dir \subseteq maps.dir
      /\ maps.dump \subseteq maps'.dump /\ maps'.dump \subseteq maps.dump \cup {ino}
      /\ maps'.skipped \/ maps' = maps
  BY <1>1, <1>4
<1>6. Marked' = Marked /\ ino \notin Marked
  BY <1>3, <1>5 DEF Marked
<1>7. OnTape' \subseteq OnTape
  BY <1>1, <1>3, <1>5 DEF OnTape
<1>8. UsedInv'
  BY <1>1, <1>2, <1>3, <1>5, <1>6, <1>7 DEF MapsInv, UsedInv
<1>9. DumpInv'
  BY <1>1, <1>2, <1>3, <1>4 DEF MapsInv, DumpInv
<1>10. PendingInv'
  <2>1. \A y : (Entries(y) \ fs.dirs) \cap maps'.dump = (Entries(y) \ fs.dirs) \cap maps.dump
    BY <1>3, <1>5
  <2> QED BY <1>1, <1>2, <1>5, <1>6, <2>1 DEF MapsInv, PendingInv
<1>11. NameInv'
  <2> SUFFICES ASSUME NEW i \in OnTape' \ (Shadow \cup {ROOTINO})
               PROVE  \E d \in maps'.dir : <<d, i>> \in fs.names
    BY <1>1, <1>2 DEF NameInv
  <2>1. PICK d \in maps.dir : <<d, i>> \in fs.names
    BY <1>1, <1>7 DEF MapsInv, NameInv
  <2>2. CASE d \in maps'.dir
    BY <2>1, <2>2
  <2>3. CASE d \notin maps'.dir
    <3>1. /\ d = ino /\ Entries(ino) \cap maps.dump = {} /\ Entries(ino) \cap maps.dir = {}
          /\ maps'.dump = maps.dump
      BY <1>4, <2>1, <2>3
    <3>2. i \in Inodes
      BY <1>1, <2>1, FsLinks DEF FsInv
    <3>3. i \in Entries(ino)
      BY <2>1, <3>1, <3>2 DEF Entries
    <3> QED BY <1>5, <3>1, <3>3, <1>1 DEF OnTape
  <2> QED BY <2>2, <2>3
<1>12. ~maps'.skipped => (~maps.skipped /\ Marked' \subseteq Marked \ {ino})
  BY <1>5, <1>6
<1> QED BY <1>5, <1>8, <1>9, <1>10, <1>11, <1>12, NextBit

(* searchdir of a marked directory: the subdirectories are marked instead.  *)
LEMMA StepSearchExcluded ==
    ASSUME MapsInv, MapDirsIno, ino \in isdir', ino \notin maps.used
    PROVE  MapsInv'
<1> DEFINE sub == Entries(ino) \cap fs.dirs
<1>1. /\ pc = "passII" /\ pc' = pc /\ fs' = fs /\ maps' = SearchExcluded(ino, maps)
      /\ ino <= MaxIno /\ ino \in 1 .. MaxIno + 1 /\ MaxIno \in Nat /\ FsInv
      /\ maps \in Maps /\ maps.dir \subseteq fs.dirs
  BY MapsAssumption DEF MapDirsIno, MapsInv, TypeInv
<1>2. /\ InScope' = InScope /\ Shadow' = Shadow
      /\ \A i : Below(i)' = Below(i) /\ Entries(i)' = Entries(i)
  BY <1>1, FsKept
<1>3. ino \in maps.dir /\ ino \in Inodes /\ ino \in Marked
  BY <1>1, ByteSeen DEF Maps, Marked
<1>4. /\ maps' \in Maps /\ maps'.used = maps.used \ sub
      /\ maps'.dir = (maps.dir \cup sub) \ {ino} /\ maps'.dump = maps.dump \ Entries(ino)
      /\ maps'.skipped <=> (maps.skipped \/ sub # {})
  BY <1>1, <1>3, SearchExcludedGives
<1>5. /\ Entries(ino) \subseteq Shadow /\ sub \subseteq Shadow /\ sub \subseteq fs.dirs
      /\ sub \subseteq Entries(ino)
  <2>1. ino \in Shadow
    BY <1>1, <1>3 DEF MapsInv, UsedInv
  <2> QED BY <1>1, <2>1, ShadowIs DEF Entries
<1> HIDE DEF sub
<1>6. Marked' = (Marked \cup sub) \ {ino}
  BY <1>4 DEF Marked
<1>7. OnTape' \subseteq OnTape \cup sub
  BY <1>1, <1>4 DEF OnTape
<1>8. UsedInv'
  BY <1>1, <1>2, <1>4, <1>5, <1>6, <1>7 DEF MapsInv, UsedInv
<1>9. DumpInv'
  <2>1. /\ maps.dump \cap fs.dirs \subseteq maps.dir \cup ({ROOTINO} \ maps.used)
        /\ (fs.changed \cap InScope) \ Shadow \subseteq maps.dump
        /\ maps.dump \ {ROOTINO} \subseteq maps.used
    BY <1>1 DEF MapsInv, DumpInv, UsedInv
  <2>2. maps'.dump \cap fs.dirs \subseteq maps'.dir \cup ({ROOTINO} \ maps'.used)
    <3> SUFFICES ASSUME NEW x \in maps.dump \cap fs.dirs
                 PROVE  x \in maps'.dir \/ (x = ROOTINO /\ x \notin maps'.used)
      BY <1>4
    <3>1. CASE x = ino
      BY <1>3, <1>4, <2>1, <3>1 DEF Marked
    <3>2. CASE x # ino
      BY <1>4, <2>1, <3>2
    <3> QED BY <3>1, <3>2
  <2>3. (fs.changed \cap InScope) \ Shadow \subseteq maps'.dump
    BY <1>4, <1>5, <2>1
  <2> QED BY <1>1, <1>2, <2>2, <2>3 DEF DumpInv
<1>10. PendingInv'
  <2> SUFFICES ASSUME NEW y \in Shadow \cap fs.dirs,
                      y \in maps'.dir \/ (Entries(y) \ fs.dirs) \cap maps'.dump # {}
               PROVE  \E a \in Marked' : y \in Below(a)
    BY <1>1, <1>2 DEF PendingInv
  <2>1. y # ino /\ y \in Inodes
    BY <1>1, <1>4 DEF FsInv
  <2>2. CASE y \in sub
    BY <1>1, <1>6, <2>1, <2>2, FsLinks
  <2>3. CASE y \notin sub
    <3>1. y \in maps.dir \/ (Entries(y) \ fs.dirs) \cap maps.dump # {}
      BY <1>4, <2>3
    <3>2. PICK a \in Marked : y \in Below(a)
      BY <1>1, <3>1 DEF MapsInv, PendingInv
    <3>3. CASE a # ino
      BY <1>6, <3>2, <3>3
    <3>4. CASE a = ino
      <4>1. PICK c \in Inodes : <<ino, c>> \in fs.names /\ c # ino /\ y \in Below(c)
        BY <1>1, <1>3, <2>1, <3>2, <3>4, FsLinks, FirstStep DEF Below
      <4>2. c \in fs.dirs
        BY <1>1, <4>1, BelowFile
      <4>3. c \in sub
        BY <4>1, <4>2 DEF sub, Entries
      <4> QED BY <1>6, <4>1, <4>3
    <3> QED BY <3>3, <3>4
  <2> QED BY <2>2, <2>3
<1>11. NameInv'
  <2> SUFFICES ASSUME NEW i \in OnTape' \ (Shadow \cup {ROOTINO})
               PROVE  \E d \in maps'.dir : <<d, i>> \in fs.names
    BY <1>1, <1>2 DEF NameInv
  <2>1. PICK d \in maps.dir : <<d, i>> \in fs.names
    BY <1>1, <1>5, <1>7 DEF MapsInv, NameInv
  <2>2. i \in Inodes
    BY <1>1, <2>1, FsLinks DEF FsInv
  <2>3. d # ino
    BY <1>5, <2>1, <2>2 DEF Entries
  <2> QED BY <1>4, <2>1, <2>3
<1>12. ~maps'.skipped => (~maps.skipped /\ Marked' \subseteq Marked \ {ino})
  BY <1>4, <1>6
<1>13. maps'.dir \subseteq fs.dirs /\ maps.dir \ {ino} \subseteq maps'.dir
  BY <1>1, <1>4, <1>5
<1> QED BY <1>4, <1>8, <1>9, <1>10, <1>11, <1>12, <1>13, NextBit

LEMMA StepMapDirsBegin ==
    ASSUME MapsInv, MapDirsBegin
    PROVE  MapsInv'
<1>1. /\ pc = "passII" /\ pc' = pc /\ fs' = fs /\ ino' = 1 /\ isdir' = isdir
      /\ maps' = [maps EXCEPT !.skipped = FALSE] /\ FsInv /\ TypeInv /\ maps \in Maps
      /\ MaxIno \in Nat
  BY MapsAssumption DEF MapDirsBegin, MapsInv, TypeInv
<1>2. /\ FsInv' /\ InScope' = InScope /\ Shadow' = Shadow
      /\ \A i : Below(i)' = Below(i) /\ Entries(i)' = Entries(i)
  BY <1>1, FsKept
<1>3. /\ maps' \in Maps /\ maps'.used = maps.used /\ maps'.dir = maps.dir
      /\ maps'.dump = maps.dump
  BY <1>1 DEF Maps
<1>4. Marked' = Marked /\ OnTape' = OnTape
  BY <1>1, <1>3 DEF Marked, OnTape
<1>5. TypeInv'
  BY <1>1, <1>3 DEF TypeInv
<1>6. UsedInv' /\ DumpInv' /\ NameInv'
  BY <1>1, <1>2, <1>3, <1>4 DEF MapsInv, UsedInv, DumpInv, NameInv
<1>7. PendingInv'
  BY <1>1, <1>2, <1>3, <1>4 DEF MapsInv, PendingInv
<1>8. ByteInv'
  <2>1. \A d \in Marked : d >= 1
    BY <1>1 DEF Marked, Maps, Inodes, ROOTINO
  <2> QED BY <1>1, <1>4, <2>1 DEF ByteInv
<1> QED BY <1>1, <1>2, <1>5, <1>6, <1>7, <1>8 DEF MapsInv, PassOneInv

(* A pass that asks for no other one has come to every marked directory.    *)
LEMMA StepMapped ==
    ASSUME MapsInv, Mapped
    PROVE  MapsInv'
<1>1. /\ pc = "passII" /\ pc' = "mapped" /\ UNCHANGED <<fs, ino, isdir, maps>>
      /\ ino > MaxIno /\ ~maps.skipped /\ FsInv /\ TypeInv /\ maps \in Maps
      /\ MaxIno \in Nat /\ ino \in 1 .. MaxIno + 1
  BY MapsAssumption DEF Mapped, MapsInv, TypeInv
<1>2. /\ FsInv' /\ InScope' = InScope /\ Shadow' = Shadow
      /\ \A i : Below(i)' = Below(i) /\ Entries(i)' = Entries(i)
  BY <1>1, FsKept
<1>3. Marked' = Marked /\ OnTape' = OnTape
  BY <1>1 DEF Marked, OnTape
<1>4. Marked = {}
  <2> SUFFICES ASSUME NEW d \in Marked PROVE FALSE
    OBVIOUS
  <2>1. d >= ino
    BY <1>1 DEF MapsInv, ByteInv
  <2>2. d \in Int /\ d <= MaxIno
    BY <1>1 DEF Marked, Maps, Inodes, ROOTINO
  <2> QED BY <1>1, <2>1, <2>2
<1>5. UsedInv' /\ DumpInv' /\ NameInv'
  BY <1>1, <1>2, <1>3 DEF MapsInv, UsedInv, DumpInv, NameInv
<1>6. PendingInv'
  BY <1>1, <1>2, <1>3 DEF MapsInv, PendingInv
<1> QED BY <1>1, <1>2, <1>3, <1>4, <1>5, <1>6 DEF MapsInv, TypeInv, PassOneInv, ByteInv

LEMMA MapsStep == MapsInv /\ [Step]_vars => MapsInv'
<1> SUFFICES ASSUME MapsInv, [Step]_vars PROVE MapsInv'
  OBVIOUS
<1>1. CASE MapIno
  BY <1>1, StepMapIno
<1>2. CASE MapFilesEnd \/ MapOneFileEnd
  BY <1>2, StepPassOneEnd
<1>3. CASE MapDirsBegin
  BY <1>3, StepMapDirsBegin
<1>4. CASE MapDirsIno
  BY <1>4, StepPassOver, StepSearchDir, StepSearchExcluded
<1>5. CASE Mapped
  BY <1>5, StepMapped
<1>6. CASE UNCHANGED vars
  <2>1. UNCHANGED <<fs, pc, ino, isdir, maps>>
    BY <1>6 DEF vars
  <2>2. /\ FsInv' /\ InScope' = InScope /\ Shadow' = Shadow
        /\ \A i : Below(i)' = Below(i) /\ Entries(i)' = Entries(i)
    BY <2>1, FsKept DEF MapsInv
  <2>3. Marked' = Marked /\ OnTape' = OnTape /\ Seen' = Seen
    BY <2>1, <2>2 DEF Marked, OnTape, Seen
  <2>4. UsedInv' /\ DumpInv' /\ NameInv' /\ TypeInv' /\ PassOneInv'
    BY <2>1, <2>2, <2>3 DEF MapsInv, UsedInv, DumpInv, NameInv, TypeInv, PassOneInv
  <2>5. PendingInv'
    BY <2>1, <2>2, <2>3 DEF MapsInv, PendingInv
  <2>6. ByteInv'
    BY <2>1, <2>3 DEF MapsInv, ByteInv, Byte
  <2> QED BY <2>1, <2>2, <2>3, <2>4, <2>5, <2>6 DEF MapsInv
<1> QED BY <1>1, <1>2, <1>3, <1>4, <1>5, <1>6 DEF Step, Finished

LEMMA MapsAlways == Spec => []MapsInv
BY MapsInit, MapsStep, PTL DEF Spec

-----------------------------------------------------------------------------
(* What holds of the finished maps. *)

(* Every inode that changed is dumped, and so are the directories that      *)
(* restore needs to get at it (src/dump/traverse.c, mapfileino, searchdir). *)
THEOREM ChangesDumped == Spec => []ChangedDumped
<1>1. MapsInv => ChangedDumped
  <2> SUFFICES ASSUME MapsInv, pc = "mapped", NEW i \in (fs.changed \cap InScope) \ Shadow
               PROVE  i \in OnTape
    BY DEF ChangedDumped
  <2>1. /\ FsInv /\ UsedInv /\ DumpInv /\ pc # "passI"
    BY DEF MapsInv
  <2>2. i \in maps.dump
    BY <2>1 DEF DumpInv
  <2>3. i = ROOTINO => i \in maps.used
    BY <2>1 DEF UsedInv
  <2> QED BY <2>1, <2>2, <2>3 DEF DumpInv, OnTape
<1> QED BY <1>1, MapsAlways, PTL

LEMMA NoneExcluded ==
    ASSUME MapsInv, pc = "mapped"
    PROVE  OnTape \cap Shadow \subseteq {ROOTINO}
<1>1. /\ FsInv /\ UsedInv /\ PendingInv /\ pc # "passI" /\ Marked = {} /\ maps.dir \subseteq fs.dirs
  BY DEF MapsInv, TypeInv
<1>2. \A y \in Shadow \cap fs.dirs :
          y \notin maps.dir /\ (Entries(y) \ fs.dirs) \cap maps.dump = {}
  BY <1>1 DEF PendingInv
<1> SUFFICES ASSUME NEW i \in OnTape \cap Shadow PROVE FALSE
  OBVIOUS
<1>3. i \in maps.dump \ fs.dirs
  BY <1>1, <1>2 DEF OnTape
<1>4. PICK x \in fs.excluded \cap InScope : i \in Below(x)
  BY DEF Shadow
<1>5. x \in Inodes /\ i # x
  BY <1>1, <1>3, <1>4 DEF UsedInv, FsInv
<1>6. PICK d \in Below(x) : <<d, i>> \in fs.names
  BY <1>1, <1>4, <1>5, FsLinks, LastStep DEF Below
<1>7. d \in Shadow \cap fs.dirs
  BY <1>1, <1>4, <1>6 DEF Shadow, FsInv
<1>8. i \in Entries(d)
  BY <1>1, <1>6, FsLinks DEF Entries, FsInv
<1> QED BY <1>2, <1>3, <1>7, <1>8

(* Nothing at or below an excluded directory is dumped, whatever the order  *)
(* of the inode numbers and the size of a byte (NEWS, 0.4b29).              *)
THEOREM NothingExcludedDumped == Spec => []NothingExcluded
<1>1. MapsInv => NothingExcluded
  BY NoneExcluded DEF NothingExcluded
<1> QED BY <1>1, MapsAlways, PTL

(* What is on the tape has a name in a directory on the tape, which         *)
(* convert_dir (src/dump/traverse.c) does not leave out.                    *)
THEOREM NamesFound == Spec => []NamesSaved
<1>1. MapsInv => NamesSaved
  <2> SUFFICES ASSUME MapsInv, pc = "mapped", NEW i \in OnTape \ {ROOTINO}
               PROVE  \E d \in fs.dirs : <<d, i>> \in Saved
    BY DEF NamesSaved
  <2>1. /\ FsInv /\ UsedInv /\ NameInv /\ pc # "passI" /\ maps.dir \subseteq fs.dirs
    BY DEF MapsInv, TypeInv
  <2>2. i \notin Shadow
    BY NoneExcluded
  <2>3. i \in InScope /\ i \notin fs.excluded
    BY <2>1, <2>2, ShadowIs DEF UsedInv
  <2>4. PICK d \in maps.dir : <<d, i>> \in fs.names
    BY <2>1, <2>2 DEF NameInv
  <2>5. <<d, i>>[1] = d /\ <<d, i>>[2] = i /\ d \in OnTape \cap fs.dirs
    BY <2>1, <2>4 DEF OnTape
  <2> QED BY <2>3, <2>4, <2>5 DEF Saved
<1> QED BY <1>1, MapsAlways, PTL

(* The maps on the tape tell the truth to restore, which takes an inode     *)
(* that is not in the map of used ones for deleted: only what lies below an *)
(* excluded directory is missing from it, and what is announced follows.    *)
THEOREM MapsTrue ==
    ASSUME ~RootNodump
    PROVE  Spec => []MapsTellTruth
<1>1. MapsInv => MapsTellTruth
  <2> SUFFICES ASSUME MapsInv, pc = "mapped"
               PROVE  /\ InScope \ maps.used \subseteq Shadow \cap fs.dirs
                      /\ maps.dump \subseteq OnTape
    BY DEF MapsTellTruth
  <2>1. /\ FsInv /\ UsedInv /\ DumpInv /\ pc # "passI" /\ ROOTINO \notin fs.excluded
    BY DEF MapsInv, FsInv
  <2>2. ROOTINO \in maps.used
    BY <2>1, ShadowIs, ScopeIs DEF UsedInv
  <2> QED BY <2>1, <2>2 DEF UsedInv, DumpInv, OnTape
<1> QED BY <1>1, MapsAlways, PTL

-----------------------------------------------------------------------------
(* How often mapdirs is called.                                              *)

(* A directory is in one directory, and the root always counts as changed.   *)
TreeInv ==
    /\ \A d \in fs.dirs : \A x, y :
          (<<x, d>> \in fs.names /\ <<y, d>> \in fs.names) => x = y
    /\ ROOTINO \in fs.changed

(* The directories that mapdirs still has to deal with: below an excluded    *)
(* one, those that a marked one is yet to reach, and elsewhere those on the  *)
(* map of which it is not known whether they lead to a dumped file.          *)
Unsettled ==
    {d \in fs.dirs : IF d \in Shadow THEN \E a \in Marked : d \in Below(a)
                                     ELSE d \in maps.dir \ maps.dump}

(* A pass will come to d, and see it in its byte, ... *)
Comes(d) == d \in maps.dir /\ d >= ino /\ ((ino > 1 /\ d \in Byte(ino - 1)) => d \in isdir)

(* ... and then deals with it for good: it has no marked directory above it, *)
(* or nothing is marked and there is none below it that is not settled.      *)
Highest(d) == d \in Marked /\ \A b \in Marked : d \in Below(b) => b = d
Lowest(d)  == Marked = {} /\ d \in Unsettled /\ \A e \in Unsettled : e \in Below(d) => e = d

(* Unless it is excluded, the root is settled from the start. *)
Rounds == IF ROOTINO \in fs.excluded THEN Cardinality(fs.dirs) ELSE Cardinality(fs.dirs) - 1

(* Each call but the one that is running has settled a directory, and that   *)
(* one has done so too or is yet to come to one that it will settle.         *)
Measured ==
    \/ Unsettled = {}
    \/ calls + Cardinality(Unsettled) <= Rounds
    \/ /\ calls + Cardinality(Unsettled) <= Rounds + 1
       /\ \E d \in fs.dirs : Comes(d) /\ (Highest(d) \/ Lowest(d))

SettleInv ==
    /\ TreeInv
    /\ calls \in Nat /\ calls <= Cardinality(fs.dirs)
    /\ pc = "passI" => calls = 0
    /\ pc = "passII" => Measured
    /\ (pc = "passII" /\ maps.skipped) => calls < Cardinality(fs.dirs)

LEMMA TreeInit == Init => TreeInv
<1> SUFFICES ASSUME Init PROVE TreeInv
  OBVIOUS
<1>1. PICK f \in FileSystems, changed \in SUBSET Others,
           excluded \in SUBSET (IF RootNodump THEN Inodes ELSE Others) :
           \E path \in f.names \cup {WholeFs} :
              fs = [dirs |-> f.dirs, names |-> f.names, excluded |-> excluded,
                    changed |-> changed \cup {ROOTINO}, path |-> path]
  BY DEF Init
<1>2. fs.dirs = f.dirs /\ fs.names = f.names /\ ROOTINO \in fs.changed
  BY <1>1
<1>3. \A d \in f.dirs : \A x, y :
          (<<x, d>> \in f.names /\ <<y, d>> \in f.names) => x = y
  BY FileSystemIs
<1> QED BY <1>2, <1>3 DEF TreeInv

(* A directory is not below an entry of its own, ... *)
LEMMA Acyclic ==
    ASSUME FsInv, TreeInv, NEW a \in fs.dirs, NEW c \in fs.dirs, <<a, c>> \in fs.names
    PROVE  a \notin Below(c)
<1> SUFFICES ASSUME a \in Below(c) PROVE FALSE
  OBVIOUS
<1> DEFINE S == {i \in Inodes : i \notin Below(c) \/ i \notin fs.dirs}
<1>1. c \in Inodes /\ c \in Others /\ fs.names \in Links /\ ROOTINO \in Inodes
  BY FsLinks DEF FsInv
<1>2. ROOTINO \in S
  <2>1. ASSUME ROOTINO \in Below(c) PROVE FALSE
    <3>1. ROOTINO # c
      BY <1>1 DEF Others
    <3>2. \E d \in Below(c) : <<d, ROOTINO>> \in fs.names
      BY <1>1, <2>1, <3>1, LastStep DEF Below
    <3> QED BY <3>2 DEF FsInv, Others
  <2> QED BY <1>1, <2>1
<1>3. \A n \in fs.names : n[1] \in S => n[2] \in S
  <2> SUFFICES ASSUME NEW n \in fs.names, n[1] \in S, n[2] \notin S PROVE FALSE
    OBVIOUS
  <2>1. /\ n = <<n[1], n[2]>> /\ n[1] \in fs.dirs /\ n[2] \in Inodes
    BY FsLinks DEF FsInv
  <2>2. n[1] \notin Below(c) /\ n[2] \in Below(c) /\ n[2] \in fs.dirs
    BY <2>1
  <2>3. ASSUME NEW x, <<x, n[2]>> \in fs.names PROVE x = n[1]
    BY <2>1, <2>2, <2>3 DEF TreeInv
  <2>4. CASE n[2] = c
    BY <2>2, <2>3, <2>4
  <2>5. CASE n[2] # c
    <3>1. \E d \in Below(c) : <<d, n[2]>> \in fs.names
      BY <1>1, <2>2, <2>5, LastStep DEF Below
    <3> QED BY <2>2, <2>3, <3>1
  <2> QED BY <2>4, <2>5
<1>4. c \in Below(ROOTINO) /\ c \in Below(c)
  BY <1>1, FsLinks DEF FsInv
<1>5. c \notin S
  BY <1>4
<1>6. S \in SUBSET Inodes
  OBVIOUS
<1> HIDE DEF S
<1>7. Below(ROOTINO) \subseteq S
  BY <1>1, <1>2, <1>3, <1>6, ReachLeast DEF Below
<1> QED BY <1>4, <1>5, <1>7

(* ... and of two directories at most one is below the other. *)
LEMMA OneWay ==
    ASSUME FsInv, TreeInv, NEW a \in fs.dirs, NEW b \in fs.dirs, a \in Below(b), a # b
    PROVE  /\ b \notin Below(a)
           /\ Cardinality(Below(a)) < Cardinality(Below(b))
<1>1. a \in Inodes /\ b \in Inodes /\ fs.names \in Links
  BY FsLinks DEF FsInv
<1>2. PICK c \in Inodes : <<b, c>> \in fs.names /\ a \in Below(c)
  BY <1>1, FirstStep DEF Below
<1>3. c \in fs.dirs
  BY <1>2, BelowFile
<1>4. b \notin Below(a)
  <2> SUFFICES ASSUME b \in Below(a) PROVE FALSE
    OBVIOUS
  <2>1. b \in Below(c)
    BY <1>1, <1>2, ReachTrans DEF Below
  <2> QED BY <1>2, <1>3, <2>1, Acyclic
<1>5. Below(a) \subseteq Below(b) /\ b \in Below(b) /\ Below(b) \subseteq Inodes
  <2>1. \A x \in Below(a) : x \in Below(b)
    BY <1>1, ReachTrans DEF Below
  <2> QED BY <1>1, <2>1, FsLinks
<1>6. IsFiniteSet(Inodes)
  BY MapsAssumption, FS_Interval DEF Inodes, ROOTINO
<1>7. IsFiniteSet(Below(b)) /\ IsFiniteSet(Below(a))
  BY <1>5, <1>6, FS_Subset
<1>8. /\ Cardinality(Below(a)) <= Cardinality(Below(b))
      /\ Cardinality(Below(b)) = Cardinality(Below(a)) => Below(b) = Below(a)
  BY <1>5, <1>7, FS_Subset
<1>9. Cardinality(Below(a)) \in Nat /\ Cardinality(Below(b)) \in Nat
  BY <1>7, FS_CardinalityType
<1> QED BY <1>4, <1>5, <1>8, <1>9

LEMMA DirsFinite ==
    ASSUME FsInv
    PROVE  /\ IsFiniteSet(fs.dirs) /\ Cardinality(fs.dirs) \in Nat
           /\ Cardinality(fs.dirs) >= 1 /\ Rounds \in Nat
           /\ Rounds <= Cardinality(fs.dirs) /\ Cardinality(fs.dirs) <= Rounds + 1
<1>1. IsFiniteSet(Inodes)
  BY MapsAssumption, FS_Interval DEF Inodes, ROOTINO
<1>2. IsFiniteSet(fs.dirs) /\ fs.dirs # {}
  BY <1>1, FS_Subset DEF FsInv
<1>3. Cardinality(fs.dirs) \in Nat /\ Cardinality(fs.dirs) # 0
  BY <1>2, FS_CardinalityType, FS_EmptySet
<1> QED BY <1>2, <1>3 DEF Rounds

LEMMA UnsettledIs ==
    ASSUME MapsInv
    PROVE  /\ Unsettled \subseteq fs.dirs /\ IsFiniteSet(Unsettled)
           /\ Cardinality(Unsettled) \in Nat
           /\ Unsettled # {} => Cardinality(Unsettled) >= 1
<1>1. Unsettled \subseteq fs.dirs
  BY DEF Unsettled
<1>2. IsFiniteSet(Unsettled)
  BY <1>1, DirsFinite, FS_Subset DEF MapsInv
<1>3. Cardinality(Unsettled) \in Nat /\ (Unsettled # {} => Cardinality(Unsettled) # 0)
  BY <1>2, FS_CardinalityType, FS_EmptySet
<1> QED BY <1>1, <1>2, <1>3

(* A marked directory is not settled. *)
LEMMA MarkedUnsettled ==
    ASSUME MapsInv, pc # "passI"
    PROVE  Marked \subseteq Unsettled /\ Marked \subseteq Shadow /\ Marked \subseteq fs.dirs
<1>1. Marked \subseteq Shadow /\ Marked \subseteq fs.dirs
  BY DEF MapsInv, UsedInv, TypeInv, Marked
<1>2. \A d \in Marked : d \in Below(d)
  BY <1>1, FsLinks DEF MapsInv, FsInv
<1> QED BY <1>1, <1>2 DEF Unsettled

(* While not all is settled, there is a directory to deal with. *)
LEMMA NextToSettle ==
    ASSUME MapsInv, TreeInv, pc # "passI", Unsettled # {}
    PROVE  \E d \in fs.dirs : d \in maps.dir /\ (Highest(d) \/ Lowest(d))
<1> DEFINE size(d) == Cardinality(Below(d))
<1>1. FsInv /\ Marked \subseteq fs.dirs /\ Unsettled \subseteq fs.dirs
  BY MarkedUnsettled DEF MapsInv, Unsettled
<1>2. \A d \in fs.dirs : size(d) \in Nat /\ size(d) <= Cardinality(Inodes)
  <2>1. IsFiniteSet(Inodes)
    BY MapsAssumption, FS_Interval DEF Inodes, ROOTINO
  <2> SUFFICES ASSUME NEW d \in fs.dirs PROVE size(d) \in Nat /\ size(d) <= Cardinality(Inodes)
    OBVIOUS
  <2>2. Below(d) \in SUBSET Inodes
    BY <1>1, FsLinks DEF FsInv
  <2> QED BY <2>1, <2>2, FS_Subset, FS_CardinalityType
<1>3. Cardinality(Inodes) \in Nat
  BY MapsAssumption, FS_Interval, FS_CardinalityType DEF Inodes, ROOTINO
<1>4. \A a, b \in fs.dirs : (a \in Below(b) /\ a # b) => size(a) < size(b)
  BY <1>1, OneWay
<1> HIDE DEF size
<1>5. CASE Marked # {}
  <2> DEFINE T == {size(d) : d \in Marked}
  <2>1. T \subseteq Nat /\ T # {} /\ \A n \in T : n <= Cardinality(Inodes)
    BY <1>1, <1>2, <1>5
  <2> HIDE DEF T
  <2>2. PICK m \in T : \A n \in T : n <= m
    BY <1>3, <2>1, Greatest
  <2>3. PICK d \in Marked : m = size(d)
    BY DEF T
  <2>4. ASSUME NEW b \in Marked, d \in Below(b), b # d PROVE FALSE
    <3>1. size(b) <= size(d)
      BY <2>2, <2>3 DEF T
    <3>2. size(d) < size(b)
      BY <1>1, <1>4, <2>4
    <3>3. size(d) \in Nat /\ size(b) \in Nat
      BY <1>1, <1>2
    <3> QED BY <3>1, <3>2, <3>3
  <2>5. Highest(d) /\ d \in maps.dir /\ d \in fs.dirs
    BY <1>1, <2>4 DEF Highest, Marked
  <2> QED BY <2>5
<1>6. CASE Marked = {}
  <2> DEFINE T == {size(d) : d \in Unsettled}
  <2>1. T \subseteq Nat /\ T # {}
    BY <1>1, <1>2
  <2> HIDE DEF T
  <2>2. PICK m \in T : \A n \in T : m <= n
    BY <2>1, Least
  <2>3. PICK d \in Unsettled : m = size(d)
    BY DEF T
  <2>4. ASSUME NEW e \in Unsettled, e \in Below(d), e # d PROVE FALSE
    <3>1. size(d) <= size(e)
      BY <2>2, <2>3 DEF T
    <3>2. size(e) < size(d)
      BY <1>1, <1>4, <2>4
    <3>3. size(d) \in Nat /\ size(e) \in Nat
      BY <1>1, <1>2
    <3> QED BY <3>1, <3>2, <3>3
  <2>5. Lowest(d) /\ d \in fs.dirs
    BY <1>1, <1>6, <2>4 DEF Lowest
  <2>6. d \in maps.dir
    BY <1>6, <2>3 DEF Unsettled
  <2> QED BY <2>5, <2>6
<1> QED BY <1>5, <1>6

(* What mapdirs will come to, it still comes to after another directory.    *)
LEMMA ComesOn ==
    ASSUME MapsInv, MapDirsIno, maps.dir \ {ino} \subseteq maps'.dir,
           NEW d, Comes(d)
    PROVE  /\ d \in Byte(ino) => d \in isdir'
           /\ d # ino => Comes(d)'
<1>1. /\ ino \in 1 .. MaxIno + 1 /\ ino <= MaxIno /\ MaxIno \in Nat /\ ino' = ino + 1
      /\ isdir' = IF (ino - 1) % NBBY = 0 THEN maps.dir \cap Byte(ino) ELSE isdir
      /\ NBBY \in Nat /\ NBBY > 0
  BY MapsAssumption DEF MapDirsIno, MapsInv, TypeInv
<1>2. d \in maps.dir /\ d >= ino /\ ((ino > 1 /\ d \in Byte(ino - 1)) => d \in isdir)
  BY DEF Comes
<1>3. d \in Int
  BY <1>2 DEF MapsInv, TypeInv, Maps, Inodes, ROOTINO
<1>4. d \in Byte(ino) => d \in isdir'
  <2>1. CASE (ino - 1) % NBBY = 0
    BY <1>1, <1>2, <2>1
  <2>2. CASE (ino - 1) % NBBY # 0
    <3>1. ino # 1
      <4>1. 0 % NBBY = 0
        BY <1>1
      <4> QED BY <2>2, <4>1
    <3>2. ino > 1 /\ ino \in Nat
      BY <1>1, <3>1
    <3>3. Byte(ino) = Byte(ino - 1)
      BY <2>2, <3>2, ByteGoesOn
    <3> QED BY <1>1, <1>2, <2>2, <3>2, <3>3
  <2> QED BY <2>1, <2>2
<1>5. ASSUME d # ino PROVE Comes(d)'
  <2>1. d \in maps'.dir /\ d >= ino + 1
    BY <1>1, <1>2, <1>3, <1>5
  <2>2. ino' - 1 = ino /\ ino' = ino + 1
    BY <1>1
  <2>3. d \in maps'.dir /\ d >= ino' /\ ((ino' > 1 /\ d \in Byte(ino' - 1)) => d \in isdir')
    BY <1>4, <2>1, <2>2
  <2> QED BY <2>3 DEF Comes, Byte
<1> QED BY <1>4, <1>5

(* Another pass is asked for only while it is within the bound. *)
LEMMA MayCall ==
    ASSUME MapsInv, SettleInv, pc = "passII", NEW d \in Unsettled,
           ROOTINO \in fs.excluded => \E e \in Unsettled : e # d
    PROVE  calls < Cardinality(fs.dirs)
<1>1. /\ Cardinality(fs.dirs) \in Nat /\ calls \in Nat /\ Cardinality(Unsettled) \in Nat
      /\ Cardinality(Unsettled) >= 1 /\ IsFiniteSet(Unsettled)
      /\ calls + Cardinality(Unsettled) <= Rounds + 1
      /\ Rounds \in Nat
  BY DirsFinite, UnsettledIs DEF MapsInv, SettleInv, Measured
<1>2. CASE ROOTINO \notin fs.excluded
  BY <1>1, <1>2 DEF Rounds
<1>3. CASE ROOTINO \in fs.excluded
  <2>1. IsFiniteSet(Unsettled \ {d}) /\ Unsettled \ {d} # {}
    BY <1>1, <1>3, FS_RemoveElement
  <2>2. Cardinality(Unsettled \ {d}) \in Nat /\ Cardinality(Unsettled \ {d}) # 0
    BY <2>1, FS_CardinalityType, FS_EmptySet
  <2>3. Cardinality(Unsettled \ {d}) = Cardinality(Unsettled) - 1
    BY <1>1, FS_RemoveElement
  <2> QED BY <1>1, <1>3, <2>2, <2>3 DEF Rounds
<1> QED BY <1>2, <1>3

(* What is left to show of a step of mapdirs: it does not unsettle anything, *)
(* it leaves what is to be dealt with to be dealt with, unless it is that    *)
(* directory, which is settled, and it asks for another pass only because of *)
(* one that was not.                                                         *)
LEMMA NextSettled ==
    ASSUME MapsInv, SettleInv, MapDirsIno, Unsettled' \subseteq Unsettled,
           maps.dir \ {ino} \subseteq maps'.dir,
           \A d \in fs.dirs \ {ino} :
               (Highest(d) => Highest(d)') /\ (Comes(d) /\ Lowest(d) => Lowest(d)'),
           (ino \in isdir' /\ (Highest(ino) \/ Lowest(ino))) => ino \notin Unsettled',
           maps'.skipped => (maps.skipped \/ (ino \in Unsettled /\
               (ROOTINO \in fs.excluded => \E e \in Unsettled : e # ino)))
    PROVE  SettleInv'
<1>1. /\ pc = "passII" /\ pc' = pc /\ fs' = fs /\ calls' = calls
      /\ ino \in 1 .. MaxIno + 1 /\ ino <= MaxIno /\ MaxIno \in Nat /\ FsInv
  BY MapsAssumption DEF MapDirsIno, MapsInv, TypeInv
<1>2. TreeInv' /\ Rounds' = Rounds
  BY <1>1 DEF SettleInv, TreeInv, Rounds
<1>3. /\ calls \in Nat /\ calls <= Cardinality(fs.dirs) /\ Measured
      /\ maps.skipped => calls < Cardinality(fs.dirs)
  BY <1>1 DEF SettleInv
<1>4. maps'.skipped => calls < Cardinality(fs.dirs)
  BY <1>1, <1>3, MayCall
<1> DEFINE n == Cardinality(Unsettled)
           k == Cardinality(Unsettled')
<1>5. /\ IsFiniteSet(Unsettled) /\ n \in Nat /\ k \in Nat /\ k <= n /\ Rounds \in Nat
      /\ \A d \in Unsettled : d \notin Unsettled' => k <= n - 1
  <2>1. IsFiniteSet(Unsettled) /\ Rounds \in Nat
    BY <1>1, DirsFinite, UnsettledIs
  <2>2. IsFiniteSet(Unsettled') /\ k <= n
    BY <2>1, FS_Subset
  <2>3. k \in Nat /\ n \in Nat
    BY <2>1, <2>2, FS_CardinalityType
  <2>4. ASSUME NEW d \in Unsettled, d \notin Unsettled' PROVE k <= n - 1
    <3>1. IsFiniteSet(Unsettled \ {d}) /\ Cardinality(Unsettled \ {d}) = n - 1
      BY <2>1, FS_RemoveElement
    <3>2. Unsettled' \subseteq Unsettled \ {d}
      BY <2>4
    <3> QED BY <3>1, <3>2, FS_Subset
  <2> QED BY <2>1, <2>2, <2>3, <2>4
<1>6. Measured'
  <2>1. CASE Unsettled = {}
    BY <2>1 DEF Measured
  <2>2. CASE calls + n <= Rounds
    <3> HIDE DEF n, k
    <3>1. calls + k <= Rounds
      BY <1>3, <1>5, <2>2
    <3> QED BY <1>1, <1>2, <3>1 DEF Measured, k
  <2>3. CASE /\ calls + n <= Rounds + 1
             /\ \E d \in fs.dirs : Comes(d) /\ (Highest(d) \/ Lowest(d))
    <3>1. PICK d \in fs.dirs : Comes(d) /\ (Highest(d) \/ Lowest(d))
      BY <2>3
    <3>2. CASE d = ino
      <4>1. ino \in Byte(ino)
        BY <1>1 DEF Byte
      <4>2. ino \in isdir'
        BY <3>1, <3>2, <4>1, ComesOn
      <4>3. ino \in Unsettled
        BY <1>1, <3>1, <3>2, MarkedUnsettled DEF Highest, Lowest
      <4>4. k <= n - 1
        BY <1>5, <3>1, <3>2, <4>2, <4>3
      <4> HIDE DEF n, k
      <4>5. calls + k <= Rounds
        BY <1>3, <1>5, <2>3, <4>4
      <4> QED BY <1>1, <1>2, <4>5 DEF Measured, k
    <3>3. CASE d # ino
      <4>1. Comes(d)' /\ (Highest(d)' \/ Lowest(d)')
        BY <3>1, <3>3, ComesOn
      <4> HIDE DEF n, k
      <4>2. calls + k <= Rounds + 1
        BY <1>3, <1>5, <2>3
      <4> QED BY <1>1, <1>2, <4>1, <4>2 DEF Measured, k
    <3> QED BY <3>2, <3>3
  <2> QED BY <1>3, <2>1, <2>2, <2>3 DEF Measured
<1> QED BY <1>1, <1>2, <1>3, <1>4, <1>6 DEF SettleInv

LEMMA SettlePassOver ==
    ASSUME MapsInv, SettleInv, MapDirsIno,
           ino \notin isdir' \/ (ino \in maps.used /\ ino \in maps.dump)
    PROVE  SettleInv'
<1>1. /\ pc = "passII" /\ fs' = fs /\ maps' = maps /\ FsInv
  BY DEF MapDirsIno, MapsInv
<1>2. Shadow' = Shadow /\ Marked' = Marked /\ \A i : Below(i)' = Below(i)
  BY <1>1, FsKept DEF Marked
<1>3. Unsettled' = Unsettled
  BY <1>1, <1>2 DEF Unsettled
<1>4. \A d : (Highest(d) => Highest(d)') /\ (Lowest(d) => Lowest(d)')
  BY <1>2, <1>3 DEF Highest, Lowest
<1>5. ASSUME ino \in isdir', Highest(ino) \/ Lowest(ino) PROVE FALSE
  <2>1. ino \in maps.used /\ ino \in maps.dump
    BY <1>5
  <2>2. ~Highest(ino)
    BY <2>1 DEF Highest, Marked
  <2>3. ino \in Unsettled /\ Marked = {}
    BY <1>5, <2>2 DEF Lowest
  <2> QED BY <2>1, <2>3 DEF Unsettled
<1> QED BY <1>1, <1>3, <1>4, <1>5, NextSettled

(* The lowest of the unsettled directories turns out to lead to a dumped     *)
(* file or to nothing, so that searchdir enters it or drops it.              *)
LEMMA LowestSettled ==
    ASSUME MapsInv, SettleInv, pc = "passII", NEW d \in Inodes, d \in maps.dir, Lowest(d),
           Entries(d) \cap maps.dump = {}
    PROVE  Entries(d) \cap maps.dir = {}
<1> SUFFICES ASSUME NEW e \in Entries(d) \cap maps.dir PROVE FALSE
  OBVIOUS
<1>1. FsInv /\ TreeInv /\ PendingInv /\ maps.dir \subseteq fs.dirs /\ Marked = {}
  BY DEF MapsInv, SettleInv, TypeInv, Lowest
<1>2. <<d, e>> \in fs.names /\ e \in fs.dirs /\ d \in fs.dirs /\ e \in Inodes
  BY <1>1 DEF Entries
<1>3. e \notin Shadow
  BY <1>1, <1>2 DEF PendingInv
<1>4. e \in Unsettled
  BY <1>2, <1>3 DEF Unsettled
<1>5. e \in Below(d) /\ e \in Below(e)
  BY <1>1, <1>2, FsLinks, ReachClosed DEF Below
<1>6. e = d
  BY <1>4, <1>5 DEF Lowest
<1>7. d \notin Below(e)
  BY <1>1, <1>2, Acyclic
<1> QED BY <1>5, <1>6, <1>7

LEMMA SettleSearchDir ==
    ASSUME MapsInv, SettleInv, MapDirsIno, ino \in isdir', ino \in maps.used, ino \notin maps.dump
    PROVE  SettleInv'
<1>1. /\ pc = "passII" /\ fs' = fs /\ maps' = SearchDir(ino, maps)
      /\ FsInv /\ maps \in Maps /\ maps.dir \subseteq fs.dirs /\ PendingInv
      /\ ino \in 1 .. MaxIno + 1
  BY DEF MapDirsIno, MapsInv, TypeInv
<1>2. ino \in maps.dir /\ ino \in Inodes /\ ino \in fs.dirs
  BY <1>1, ByteSeen DEF Maps
<1>3. Shadow' = Shadow /\ \A i : Below(i)' = Below(i)
  BY <1>1, FsKept
<1>4. \/ maps' = maps
      \/ /\ maps' \in Maps /\ maps'.skipped /\ maps'.used = maps.used
         /\ maps'.dir = maps.dir /\ maps'.dump = maps.dump \cup {ino}
      \/ /\ maps' \in Maps /\ maps'.skipped /\ maps'.used = maps.used
         /\ maps'.dump = maps.dump /\ maps'.dir = maps.dir \ {ino}
         /\ Entries(ino) \cap maps.dump = {} /\ Entries(ino) \cap maps.dir = {}
  BY <1>1, <1>2, SearchDirGives
<1>5. /\ maps'.used = maps.used /\ maps.dir \ {ino} \subseteq maps'.dir
      /\ maps'.dir \subseteq maps.dir
      /\ maps.dump \subseteq maps'.dump /\ maps'.dump \subseteq maps.dump \cup {ino}
  BY <1>4
<1>6. Marked' = Marked /\ ino \notin Marked
  BY <1>2, <1>5 DEF Marked
<1>7. Unsettled' \subseteq Unsettled /\ Unsettled \ {ino} \subseteq Unsettled'
  BY <1>1, <1>3, <1>5, <1>6 DEF Unsettled
<1>8. \A d \in fs.dirs \ {ino} :
          (Highest(d) => Highest(d)') /\ (Lowest(d) => Lowest(d)')
  BY <1>3, <1>6, <1>7 DEF Highest, Lowest
<1>9. ASSUME Highest(ino) \/ Lowest(ino) PROVE ino \notin Unsettled'
  <2>1. Lowest(ino)
    BY <1>6, <1>9 DEF Highest
  <2>2. ino \notin Shadow
    BY <2>1 DEF Lowest, Unsettled
  <2>3. CASE Entries(ino) \cap maps.dump # {}
    <3>1. maps' = [maps EXCEPT !.dump = @ \cup {ino}, !.skipped = TRUE]
      BY <1>1, <2>3 DEF SearchDir
    <3>2. ino \in maps'.dump
      BY <1>1, <3>1 DEF Maps
    <3> QED BY <1>3, <2>2, <3>2 DEF Unsettled
  <2>4. CASE Entries(ino) \cap maps.dump = {}
    <3>1. Entries(ino) \cap maps.dir = {}
      BY <1>1, <1>2, <2>1, <2>4, LowestSettled
    <3>2. maps' = [maps EXCEPT !.dir = @ \ {ino}, !.skipped = TRUE]
      BY <1>1, <2>4, <3>1 DEF SearchDir
    <3>3. ino \notin maps'.dir
      BY <1>1, <3>2 DEF Maps
    <3> QED BY <1>3, <2>2, <3>3 DEF Unsettled
  <2> QED BY <2>3, <2>4
<1>10. ino \in Unsettled /\ (ROOTINO \in fs.excluded => \E e \in Unsettled : e # ino)
  <2>1. ASSUME ino \in Shadow
        PROVE  ino \in Unsettled /\ \E e \in Unsettled : e # ino
    <3>1. PICK a \in Marked : ino \in Below(a)
      BY <1>1, <1>2, <2>1 DEF PendingInv
    <3>2. ino \in Unsettled
      BY <1>2, <2>1, <3>1 DEF Unsettled
    <3>3. a \in Unsettled
      BY <1>1, <3>1, MarkedUnsettled
    <3> QED BY <1>6, <3>1, <3>2, <3>3
  <2>2. ASSUME ROOTINO \in fs.excluded PROVE ino \in Shadow
    <3>1. ROOTINO \in InScope /\ ino \in Below(ROOTINO)
      BY <1>1, <1>2, ScopeIs DEF FsInv
    <3> QED BY <2>2, <3>1 DEF Shadow
  <2>3. ino \notin Shadow => ino \in Unsettled
    BY <1>2 DEF Unsettled
  <2> QED BY <2>1, <2>2, <2>3
<1> QED BY <1>5, <1>7, <1>8, <1>9, <1>10, NextSettled

LEMMA SettleSearchExcluded ==
    ASSUME MapsInv, SettleInv, MapDirsIno, ino \in isdir', ino \notin maps.used
    PROVE  SettleInv'
<1> DEFINE sub == Entries(ino) \cap fs.dirs
<1>1. /\ pc = "passII" /\ fs' = fs /\ maps' = SearchExcluded(ino, maps)
      /\ FsInv /\ TreeInv /\ maps \in Maps /\ maps.dir \subseteq fs.dirs
  BY DEF MapDirsIno, MapsInv, SettleInv, TypeInv
<1>2. ino \in maps.dir /\ ino \in Inodes /\ ino \in Marked /\ ino \in fs.dirs
  <2>1. ino \in Int /\ ino >= ino
    BY DEF MapsInv, TypeInv
  <2>2. ino \in maps.dir
    BY <2>1, ByteSeen
  <2> QED BY <1>1, <2>2 DEF Maps, Marked
<1>3. Shadow' = Shadow /\ \A i : Below(i)' = Below(i)
  BY <1>1, FsKept
<1>4. /\ maps' \in Maps /\ maps'.used = maps.used \ sub
      /\ maps'.dir = (maps.dir \cup sub) \ {ino} /\ maps'.dump = maps.dump \ Entries(ino)
      /\ maps'.skipped <=> (maps.skipped \/ sub # {})
  BY <1>1, <1>2, SearchExcludedGives
<1>5. Marked \subseteq Unsettled /\ Marked \subseteq Shadow
  BY <1>1, MarkedUnsettled
<1>6. Entries(ino) \subseteq Shadow
  BY <1>1, <1>2, <1>5, ShadowIs DEF Entries
<1>7. ASSUME NEW c \in sub
      PROVE  /\ c \in fs.dirs /\ c \in Shadow /\ c \in Inodes /\ <<ino, c>> \in fs.names
             /\ ino \notin Below(c) /\ c # ino
             /\ \A x \in Below(c) : x \in Below(ino)
  <2>1. c \in fs.dirs /\ c \in Shadow /\ c \in Inodes /\ <<ino, c>> \in fs.names
    BY <1>6 DEF Entries
  <2>2. ino \notin Below(c)
    BY <1>1, <1>2, <2>1, Acyclic
  <2>3. c \in Below(c) /\ c \in Below(ino)
    BY <1>1, <1>2, <2>1, FsLinks, ReachClosed DEF Below
  <2>4. \A x \in Below(c) : x \in Below(ino)
    BY <1>1, <1>2, <2>3, FsLinks, ReachTrans DEF Below
  <2> QED BY <2>1, <2>2, <2>3, <2>4
<1> HIDE DEF sub
<1>8. Marked' = (Marked \cup sub) \ {ino}
  BY <1>4 DEF Marked
<1>9. Unsettled' \subseteq Unsettled
  <2> SUFFICES ASSUME NEW d \in Unsettled' PROVE d \in Unsettled
    OBVIOUS
  <2>1. d \in fs.dirs
    BY <1>1 DEF Unsettled
  <2>2. CASE d \in Shadow
    <3>1. PICK a \in Marked' : d \in Below(a)
      BY <1>3, <2>2 DEF Unsettled
    <3>2. \E b \in Marked : d \in Below(b)
      BY <1>2, <1>7, <1>8, <3>1
    <3> QED BY <2>1, <2>2, <3>2 DEF Unsettled
  <2>3. CASE d \notin Shadow
    <3>1. d \in maps'.dir \ maps'.dump
      BY <1>3, <2>3 DEF Unsettled
    <3>2. d \in maps.dir \ maps.dump
      BY <1>4, <1>6, <1>7, <2>3, <3>1
    <3> QED BY <2>1, <2>3, <3>2 DEF Unsettled
  <2> QED BY <2>2, <2>3
<1>10. \A d \in fs.dirs \ {ino} : Highest(d) => Highest(d)'
  <2> SUFFICES ASSUME NEW d \in fs.dirs \ {ino}, Highest(d) PROVE Highest(d)'
    OBVIOUS
  <2>1. d \in Marked /\ \A b \in Marked : d \in Below(b) => b = d
    BY DEF Highest
  <2>2. ASSUME NEW b \in Marked', d \in Below(b) PROVE b = d
    <3>1. CASE b \in Marked
      BY <2>1, <2>2, <3>1
    <3>2. CASE b \in sub
      BY <1>2, <1>7, <2>1, <2>2, <3>2
    <3> QED BY <1>8, <3>1, <3>2
  <2> QED BY <1>3, <1>8, <2>1, <2>2 DEF Highest
<1>11. \A d : ~Lowest(d)
  BY <1>2 DEF Lowest
<1>12. ASSUME Highest(ino) PROVE ino \notin Unsettled'
  <2>1. ASSUME NEW a \in Marked', ino \in Below(a) PROVE FALSE
    <3>1. CASE a \in Marked
      BY <1>8, <1>12, <2>1, <3>1 DEF Highest
    <3>2. CASE a \in sub
      BY <1>7, <2>1, <3>2
    <3> QED BY <1>8, <3>1, <3>2
  <2>2. ino \in Shadow'
    BY <1>2, <1>3, <1>5
  <2> QED BY <1>3, <2>1, <2>2 DEF Unsettled
<1>13. ASSUME sub # {} PROVE ino \in Unsettled /\ \E e \in Unsettled : e # ino
  <2>1. PICK c \in sub : TRUE
    BY <1>13
  <2>2. c \in Below(c)
    BY <1>1, <1>7, FsLinks
  <2>3. c \in Unsettled /\ c # ino
    BY <1>2, <1>7, <2>2 DEF Unsettled
  <2> QED BY <1>2, <1>5, <2>3
<1>14. maps.dir \ {ino} \subseteq maps'.dir
  BY <1>4
<1> QED BY <1>4, <1>9, <1>10, <1>11, <1>12, <1>13, <1>14, NextSettled

(* The first pass has at most the directories to settle, ... *)
LEMMA SettleStarts ==
    ASSUME MapsInv, SettleInv, MapFilesEnd \/ MapOneFileEnd
    PROVE  SettleInv'
<1>1. /\ pc = "passI" /\ pc' = "passII" /\ fs' = fs /\ calls' = calls /\ FsInv
  BY DEF MapFilesEnd, MapOneFileEnd, MapsInv
<1>2. MapsInv'
  BY StepPassOneEnd
<1>3. /\ FsInv' /\ InScope' = InScope /\ Shadow' = Shadow
  BY <1>1, FsKept
<1>4. TreeInv' /\ TreeInv /\ Rounds' = Rounds
  BY <1>1 DEF SettleInv, TreeInv, Rounds
<1>5. /\ IsFiniteSet(fs.dirs) /\ Cardinality(fs.dirs) \in Nat /\ Cardinality(fs.dirs) >= 1
  BY <1>1, DirsFinite
<1>6. calls = 0
  BY <1>1 DEF SettleInv
<1>7. Unsettled' \subseteq fs.dirs
  BY <1>1 DEF Unsettled
<1>8. IsFiniteSet(Unsettled') /\ Cardinality(Unsettled') \in Nat
      /\ Cardinality(Unsettled') <= Cardinality(fs.dirs)
  BY <1>5, <1>7, FS_Subset, FS_CardinalityType
<1>9. Cardinality(Unsettled') <= Rounds
  <2>1. CASE ROOTINO \in fs.excluded
    BY <1>8, <2>1 DEF Rounds
  <2>2. CASE ROOTINO \notin fs.excluded
    <3>1. ROOTINO \notin Shadow /\ ROOTINO \in InScope /\ ROOTINO \in fs.dirs
      BY <1>1, <2>2, ShadowIs, ScopeIs DEF FsInv
    <3>2. DumpInv'
      BY <1>2 DEF MapsInv
    <3>3. (fs.changed \cap InScope) \ Shadow \subseteq maps'.dump
      BY <1>1, <1>3, <3>2 DEF DumpInv
    <3>4. ROOTINO \in maps'.dump
      BY <1>4, <3>1, <3>3 DEF TreeInv
    <3>5. ROOTINO \notin Unsettled'
      BY <1>3, <3>1, <3>4 DEF Unsettled
    <3>6. Unsettled' \subseteq fs.dirs \ {ROOTINO}
      BY <1>7, <3>5
    <3>7. /\ IsFiniteSet(fs.dirs \ {ROOTINO})
          /\ Cardinality(fs.dirs \ {ROOTINO}) = Cardinality(fs.dirs) - 1
      BY <1>5, <3>1, FS_RemoveElement
    <3>8. Cardinality(Unsettled') <= Cardinality(fs.dirs \ {ROOTINO})
      BY <3>6, <3>7, FS_Subset
    <3> QED BY <2>2, <3>7, <3>8 DEF Rounds
  <2> QED BY <2>1, <2>2
<1>10. Measured'
  BY <1>1, <1>4, <1>6, <1>8, <1>9 DEF Measured
<1> QED BY <1>1, <1>4, <1>5, <1>6, <1>10 DEF SettleInv

(* ... and when another one begins, the last has come to its end, and so has *)
(* settled one.                                                              *)
LEMMA SettleBegins ==
    ASSUME MapsInv, SettleInv, MapDirsBegin
    PROVE  SettleInv'
<1>1. /\ pc = "passII" /\ pc' = pc /\ fs' = fs /\ ino' = 1 /\ calls' = calls + 1
      /\ maps' = [maps EXCEPT !.skipped = FALSE] /\ ino > MaxIno /\ maps.skipped
      /\ FsInv /\ TypeInv /\ maps \in Maps /\ MaxIno \in Nat /\ ino \in 1 .. MaxIno + 1
  BY MapsAssumption DEF MapDirsBegin, MapsInv, TypeInv
<1>2. Shadow' = Shadow /\ \A i : Below(i)' = Below(i)
  BY <1>1, FsKept
<1>3. /\ maps'.used = maps.used /\ maps'.dir = maps.dir /\ maps'.dump = maps.dump
      /\ ~maps'.skipped
  BY <1>1 DEF Maps
<1>4. Marked' = Marked
  BY <1>3 DEF Marked
<1>5. Unsettled' = Unsettled
  BY <1>1, <1>2, <1>3, <1>4 DEF Unsettled
<1>6. TreeInv' /\ TreeInv /\ Rounds' = Rounds
  BY <1>1 DEF SettleInv, TreeInv, Rounds
<1>7. /\ calls \in Nat /\ calls < Cardinality(fs.dirs) /\ Measured
      /\ Cardinality(fs.dirs) \in Nat /\ Rounds \in Nat /\ Cardinality(Unsettled) \in Nat
  BY <1>1, DirsFinite, UnsettledIs DEF SettleInv
<1>8. ASSUME NEW d \in fs.dirs, Comes(d) PROVE FALSE
  <2>1. d >= ino /\ d \in Int /\ d <= MaxIno
    BY <1>1, <1>8 DEF Comes, Maps, Inodes, ROOTINO
  <2> QED BY <1>1, <2>1
<1>9. Unsettled = {} \/ calls + Cardinality(Unsettled) <= Rounds
  BY <1>7, <1>8 DEF Measured
<1>10. Measured'
  <2>1. CASE Unsettled = {}
    BY <1>5, <2>1 DEF Measured
  <2>2. CASE Unsettled # {}
    <3>1. PICK d \in fs.dirs : d \in maps.dir /\ (Highest(d) \/ Lowest(d))
      BY <1>1, <1>6, <2>2, NextToSettle
    <3>2. d >= 1
      BY <1>1, <3>1 DEF Maps, Inodes, ROOTINO
    <3>3. Comes(d)'
      BY <1>1, <1>3, <3>1, <3>2 DEF Comes
    <3>4. Highest(d)' \/ Lowest(d)'
      BY <1>2, <1>4, <1>5, <3>1 DEF Highest, Lowest
    <3>5. calls + 1 + Cardinality(Unsettled) <= Rounds + 1
      BY <1>7, <1>9, <2>2
    <3> QED BY <1>1, <1>5, <1>6, <3>1, <3>3, <3>4, <3>5 DEF Measured
  <2> QED BY <2>1, <2>2
<1>11. calls + 1 \in Nat /\ calls + 1 <= Cardinality(fs.dirs)
  BY <1>7
<1> QED BY <1>1, <1>3, <1>6, <1>10, <1>11 DEF SettleInv

LEMMA SettleStep == MapsInv /\ SettleInv /\ [Step]_vars => SettleInv'
<1> SUFFICES ASSUME MapsInv, SettleInv, [Step]_vars PROVE SettleInv'
  OBVIOUS
<1>1. CASE MapIno \/ Mapped
  <2>1. /\ fs' = fs /\ calls' = calls /\ (pc' = "passI" => pc = "passI")
        /\ pc' # "passII" /\ pc # "mapped"
    BY <1>1 DEF MapIno, Mapped
  <2>2. TreeInv'
    BY <2>1 DEF SettleInv, TreeInv
  <2> QED BY <2>1, <2>2 DEF SettleInv
<1>2. CASE MapFilesEnd \/ MapOneFileEnd
  BY <1>2, SettleStarts
<1>3. CASE MapDirsBegin
  BY <1>3, SettleBegins
<1>4. CASE MapDirsIno
  BY <1>4, SettlePassOver, SettleSearchDir, SettleSearchExcluded
<1>5. CASE UNCHANGED vars
  <2>1. UNCHANGED <<fs, pc, ino, isdir, calls, maps>>
    BY <1>5 DEF vars
  <2>2. Shadow' = Shadow /\ \A i : Below(i)' = Below(i)
    BY <2>1, FsKept DEF MapsInv
  <2>3. Marked' = Marked
    BY <2>1 DEF Marked
  <2>4. Unsettled' = Unsettled /\ Rounds' = Rounds /\ TreeInv'
    BY <2>1, <2>2, <2>3 DEF Unsettled, Rounds, SettleInv, TreeInv
  <2>5. \A d : Comes(d)' = Comes(d) /\ Highest(d)' = Highest(d) /\ Lowest(d)' = Lowest(d)
    BY <2>1, <2>2, <2>3, <2>4 DEF Comes, Highest, Lowest, Byte
  <2>6. Measured' = Measured
    BY <2>1, <2>4, <2>5 DEF Measured
  <2> QED BY <2>1, <2>4, <2>6 DEF SettleInv
<1> QED BY <1>1, <1>2, <1>3, <1>4, <1>5 DEF Step, Finished

(* However a pass takes directories off the map and puts others on it,       *)
(* mapdirs (called in a loop by main, src/dump/main.c) is called at most     *)
(* once for each directory.                                                  *)
THEOREM MapsSettled == Spec => []MapsSettle
<1>1. Init => SettleInv
  <2> SUFFICES ASSUME Init PROVE SettleInv
    OBVIOUS
  <2>1. pc = "passI" /\ calls = 0 /\ FsInv /\ TreeInv
    BY FsInit, TreeInit DEF Init
  <2>2. Cardinality(fs.dirs) \in Nat
    BY <2>1, DirsFinite
  <2> QED BY <2>1, <2>2 DEF SettleInv
<1>2. SettleInv => MapsSettle
  BY DEF SettleInv, MapsSettle
<1> QED BY <1>1, <1>2, MapsAlways, SettleStep, PTL DEF Spec
=============================================================================
