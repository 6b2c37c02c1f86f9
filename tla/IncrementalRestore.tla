------------------------- MODULE IncrementalRestore -------------------------
(* restore -r: a full dump, then incremental dumps, are restored one upon     *)
(* the other into one directory (restore/restore.c, symtab.c, utilities.c,   *)
(* dirs.c: treescan, main.c: 'r' and 'R').                                    *)
(*                                                                            *)
(* Between two dumps the file system becomes any other.  What restore knows   *)
(* of it is the tape (two maps of inodes, the directories, the files) and its *)
(* own symbol table of names and inodes, saved by the restore before.         *)
(* Everything of a name that matters is which name it is: names are 1-tuples, *)
(* temporary names <<"RSTTMP", i, ino>>.  The contents of a file are its      *)
(* inode number and the dump that last found it changed.  All files are       *)
(* regular; owners, modes and times are left out, as are whiteouts.           *)
(*                                                                            *)
(* After a complaint restore goes on, as it does when the operator does not   *)
(* want it to abort (or with -y).                                             *)
EXTENDS Integers, Sequences, FiniteSets, SequencesExt, FiniteSetsExt, Folds, Functions

CONSTANTS
  Inodes,      \* the inode numbers besides the root's, a set of numbers > 2
  NameSeq,     \* the names, in the order in which a directory has them
  MaxLinks,    \* most names of a file
  MaxDumps,    \* dumps taken: one of level 0, the others incremental
  MaxHidden,   \* most inode numbers that excluded files take over
  LinkedReuse, \* a directory may get the inode number of a file with two names
  HashSize,    \* entrytblsize, buckets of the table of inodes
  MaxCrashes,  \* restores that are broken off and go on with -R
  BreakInLinks \* they may also be broken off while the links are made

Root  == 2
None  == 0
Names == {<<NameSeq[i]>> : i \in DOMAIN NameSeq}
LEAF  == "LEAF"
NODE  == "NODE"

VARIABLES
  fs,      \* the file system the latest dump found
  tape,    \* that dump: dumpmap, usedinomap, directories, files not yet read
  w,       \* the symbol table (ent, list, chain, gone), the directory that is
           \* restored into (obj, dents) and the complaints so far (bad)
  phase,   \* how far restore has come
  todo,    \* the names treescan has not yet passed on
  save,    \* the checkpoint: the symbol table, and what is still to be read
  dumps,   \* number of dumps taken
  crashes

vars == <<fs, tape, w, phase, todo, save, dumps, crashes>>

-----------------------------------------------------------------------------
(* File systems: which inodes are directories, and what each name in them is  *)

Slots(dirs) == (dirs \cup {Root}) \X Names
NoNames == [s \in Slots(Inodes) |-> None]

Dirs(f)       == f.dirs \cup {Root}
Used(f)       == f.dirs \cup f.files
NamesOf(f, i) == {s \in Slots(f.dirs) : f.at[s] = i}
ChildrenOf(f, d) == {f.at[<<d, n>>] : n \in Names} \ {None}

IsFileSystem(f) ==
  /\ f.dirs \subseteq Range(f.at)
  /\ \A i \in f.dirs  : Cardinality(NamesOf(f, i)) = 1
  /\ \A i \in f.files : Cardinality(NamesOf(f, i)) <= MaxLinks
  /\ \A S \in SUBSET f.dirs \ {{}} :           \* no loop of directories
       \E i \in S, s \in Slots(f.dirs) : f.at[s] = i /\ s[1] \notin S

FileSystems ==
  UNION {{f \in {[dirs |-> dirs, files |-> Range(a) \ (dirs \cup {None}), at |-> a @@ NoNames] :
                   a \in [Slots(dirs) -> Inodes \cup {None}]} :
            IsFileSystem(f)} : dirs \in SUBSET Inodes}

\* The inodes are numbered in the order of their names: which numbers the
\* first dump finds is of no consequence, only how they are used later.
NameNo(n) == CHOOSE k \in DOMAIN NameSeq : <<NameSeq[k]>> = n
FirstNo(f, i) ==
  Min({s[1] * (Len(NameSeq) + 1) + NameNo(s[2]) : s \in NamesOf(f, i)})
FirstFileSystems ==
  {f \in FileSystems : /\ \A i \in Used(f), j \in Inodes : j < i => j \in Used(f)
                       /\ \A i, j \in Used(f) : i < j => FirstNo(f, i) < FirstNo(f, j)}

\* What has another ctime than before, at least: new inodes, those with other
\* names or of another type, directories in which a name has come, gone, or is
\* that of another file now.
MustChange(old, new) ==
  LET other == (old.files \cap new.dirs) \cup (old.dirs \cap new.files)
      moved == {s \in Slots(Inodes) : old.at[s] # new.at[s]}
  IN  other \cup (Used(new) \ Used(old))
        \cup (UNION {{old.at[s], new.at[s]} : s \in moved} \cap Used(new))
        \cup {d \in Dirs(new) : d \notin Dirs(old) \/ (\E s \in moved : s[1] = d)
                                  \/ ChildrenOf(new, d) \cap other # {}}

\* The directories on a tape: those that lead to something on it.
LeadTo(f, S) ==
  LET up[k \in 0..Cardinality(f.dirs) + 1] ==
        IF k = 0 THEN S
        ELSE LET U == up[k-1] IN U \cup {d \in Dirs(f) : ChildrenOf(f, d) \cap U # {}}
  IN  (up[Cardinality(f.dirs) + 1] \cap Dirs(f)) \cup {Root}

-----------------------------------------------------------------------------
(* The directory restore works on.  w.obj: its files and directories; w.dents *)
(* the name of each in its directory; object Root is the directory itself.   *)

Complain(v, what) == [v EXCEPT !.bad = @ \cup {what}]

Follow(v, path) ==
  LET go[k \in 0..Len(path)] ==
        IF k = 0 THEN Root
        ELSE LET slot == <<go[k-1], path[k]>>
             IN  IF slot \in DOMAIN v.dents THEN v.dents[slot] ELSE None
  IN  go[Len(path)]

Place(v, path) == <<Follow(v, Front(path)), Last(path)>>

\* An object without a name is gone.
Collect(v) == [v EXCEPT !.obj = Restrict(@, {Root} \cup Range(v.dents))]

SetName(v, slot, o) == [v EXCEPT !.dents = (slot :> o) @@ @]
DropName(v, slot)   == Collect([v EXCEPT !.dents = Restrict(@, DOMAIN @ \ {slot})])

Unlink(v, path) ==
  LET o == Follow(v, path)
  IN  IF o # None /\ v.obj[o].type = LEAF THEN DropName(v, Place(v, path))
      ELSE Complain(v, "unlink")

Rmdir(v, path) ==
  LET o == Follow(v, path)
  IN  IF o # None /\ v.obj[o].type = NODE /\ \A s \in DOMAIN v.dents : s[1] # o
      THEN DropName(v, Place(v, path)) ELSE Complain(v, "rmdir")

\* mkdir, creat: a new object
NewObj(v) == Min((Root + 1)..(Root + 1 + Cardinality(DOMAIN v.obj)) \ DOMAIN v.obj)

Make(v, path, type, data) ==
  IF Follow(v, Front(path)) = None THEN Complain(v, "create")
  ELSE SetName([v EXCEPT !.obj = (NewObj(v) :> [type |-> type, data |-> data]) @@ @],
               Place(v, path), NewObj(v))

\* Restore renames to names that are free, as far as it knows.  To one that is
\* not, rename(2) would replace the file that has it: this counts as a failure.
RenameIt(v, from, to) ==
  LET o == Follow(v, from)
  IN  IF o = None \/ Follow(v, Front(to)) = None \/ Follow(v, to) # None
      THEN Complain(v, "rename")
      ELSE [v EXCEPT !.dents = (Place(v, to) :> o) @@ Restrict(@, DOMAIN @ \ {Place(v, from)})]

Link(v, from, to) ==
  LET o == Follow(v, from)
  IN  IF o = None \/ Follow(v, Front(to)) = None \/ Follow(v, to) # None
      THEN Complain(v, "link") ELSE SetName(v, Place(v, to), o)

-----------------------------------------------------------------------------
(* The symbol table.  v.ent: the entries; v.list: the entries of an inode, the *)
(* first and those linked to it by e_links; v.chain: the inodes in a bucket   *)
(* of the table, by e_next.  v.gone: the removelist, in any order.           *)

Bucket(i)     == i % HashSize
Lookup(v, i)  == IF i \in Range(v.chain[Bucket(i)]) THEN Head(v.list[i]) ELSE None
Entries(v, i) == IF Lookup(v, i) = None THEN <<>> ELSE v.list[i]
Children(v, e) == {c \in DOMAIN v.ent : v.ent[c].parent = e /\ c # e}
NewId(v) == Min(1..(1 + Cardinality(DOMAIN v.ent)) \ DOMAIN v.ent)
Flag(v, e, on, off) == [v EXCEPT !.ent[e].flags = (@ \ off) \cup on]
Has(v, e, flag) == flag \in v.ent[e].flags

\* myname
PathOf(v, e) ==
  LET path[c \in DOMAIN v.ent] ==
        IF v.ent[c].parent = c THEN <<>> ELSE Append(path[v.ent[c].parent], v.ent[c].name)
  IN  path[e]

\* lookupname: below a leaf every name finds the leaf.
Find(v, path) ==
  LET go[k \in 0..Len(path)] ==
        IF k = 0 THEN Lookup(v, Root)
        ELSE LET d == go[k-1]
                 S == {c \in Children(v, d) : v.ent[c].name = path[k]}
             IN  IF d = None \/ (d # None /\ v.ent[d].type = LEAF) THEN d
                 ELSE IF S = {} THEN None ELSE CHOOSE c \in S : TRUE
  IN  go[Len(path)]

AddIno(v, i, list) ==
  [v EXCEPT !.list = (i :> list) @@ @, !.chain[Bucket(i)] = <<i>> \o @]
DeleteIno(v, i) ==
  [v EXCEPT !.list = Restrict(@, DOMAIN @ \ {i}), !.chain[Bucket(i)] = Remove(@, i)]

\* addentry; link says that the inode has an entry already
AddEntry(v, path, i, type, link) ==
  LET e    == NewId(v)
      p    == Find(v, Front(path))
      Entry(ino) == [v EXCEPT !.ent =
                       (e :> [name |-> Last(path), parent |-> IF p = None THEN e ELSE p,
                              ino |-> ino, type |-> type, flags |-> {}]) @@ @]
  IN  IF p = None \/ (p # None /\ v.ent[p].type = LEAF) THEN Complain(Entry(None), "bad name")
      ELSE IF link = (Lookup(v, i) = None) THEN Complain(Entry(None), "addentry")
      ELSE IF link THEN [Entry(i) EXCEPT !.list[i] = InsertAt(@, 2, e)]
      ELSE AddIno(Entry(i), i, <<e>>)

FreeEntry(v, e) ==
  LET i    == v.ent[e].ino
      rest == Remove(v.list[i], e)
      v1   == IF i = None THEN v
              ELSE IF Lookup(v, i) # e THEN [v EXCEPT !.list[i] = rest]
              ELSE IF rest = <<>> THEN DeleteIno(v, i)
              ELSE AddIno(DeleteIno(v, i), i, rest)
      v2   == [v1 EXCEPT !.ent = Restrict(@, DOMAIN @ \ {e})]
  IN  IF v.ent[e].flags # {"REMOVED"} \/ Children(v, e) # {} THEN Complain(v2, "freeentry") ELSE v2

MoveEntry_SameParent(v, e, path) ==
  [v EXCEPT !.ent[e] = [@ EXCEPT !.name = Last(path), !.flags = @ \ {"TMPNAME"}]]
MoveEntry(v, e, path) ==
  [v EXCEPT !.ent[e] = [@ EXCEPT !.parent = Find(v, Front(path)), !.name = Last(path),
                                 !.flags = @ \ {"TMPNAME"}]]

MkTempName(v, e) ==
  LET i    == v.ent[e].ino
      name == <<"RSTTMP", SelectInSeq(Entries(v, i), LAMBDA x : x = e) - 1, i>>
      v1   == [v EXCEPT !.ent[e].name = name, !.ent[e].flags = @ \cup {"TMPNAME"}]
  IN  IF Has(v, e, "TMPNAME") THEN Complain(v, "mktempname")
      ELSE RenameIt(v1, PathOf(v, e), PathOf(v1, e))

NewNode(v, e) ==
  IF Follow(v, PathOf(v, e)) # None
  THEN Complain(Flag(v, e, {"EXISTED"}, {}), "mkdir") ELSE Make(v, PathOf(v, e), NODE, <<>>)

\* a new entry, with its directory
AddNew(v, path, i, type, link, flags) ==
  LET v1 == Flag(AddEntry(v, path, i, type, link), NewId(v), flags, {})
  IN  IF type = NODE THEN NewNode(v1, NewId(v)) ELSE v1

RemoveLeaf(v, e) == Unlink(Flag(v, e, {"REMOVED"}, {"TMPNAME"}), PathOf(v, e))
Drop(v, e)       == FreeEntry(RemoveLeaf(v, e), e)
DropAll(v, S)    == FoldSet(LAMBDA e, u : Drop(u, e), v, S)

\* deleteino, and on the removelist
Retire(v, e) ==
  [DeleteIno(v, v.ent[e].ino) EXCEPT !.ent[e].ino = None, !.gone = @ \cup {e}]

-----------------------------------------------------------------------------
(* A dump of another file system, and the start of its restore               *)

Contents(f, changed) ==
  [i \in f.files |-> IF i \in changed THEN <<i, dumps + 1>> ELSE fs.data[i]]

\* treescan of a directory: the names in it, each with its inode
ScanDir(f, path, d) ==
  LET there == SelectSeq(NameSeq, LAMBDA n : f.at[<<d, <<n>>>>] # None)
  IN  [k \in DOMAIN there |-> <<Append(path, <<there[k]>>), f.at[<<d, <<there[k]>>>>]>>]

Dump(f, changed, hidden) ==
  LET onTape  == changed \cup LeadTo(f, changed)
  IN
  /\ dumps' = dumps + 1
  /\ fs' = [dirs |-> f.dirs, files |-> f.files, at |-> f.at, data |-> Contents(f, changed)]
  /\ tape' = [map |-> onTape, used |-> Used(f) \cup hidden \cup {Root},
              dirs |-> onTape \cap Dirs(f),
              files |-> SetToSortSeq(onTape \cap f.files, <)]
  /\ phase' = IF dumps = 0 THEN "scan" ELSE "oldleaves"
  /\ todo' = << <<<<>>, Root>> >>
  /\ UNCHANGED <<w, save, crashes>>

-----------------------------------------------------------------------------
(* What is no longer in use goes: files at once, directories get a temporary  *)
(* name and are put on the removelist, for there may be files in them that    *)
(* are only renamed.                                                          *)
RemoveOldLeaves ==
  LET old == {i \in DOMAIN w.list : i > Root /\ i \notin tape.used}
      One(v, e) == IF v.ent[e].type = LEAF THEN Drop(v, e) ELSE Retire(MkTempName(v, e), e)
      All(v, i) == FoldLeft(One, v, Entries(v, i))
  IN
  /\ phase = "oldleaves"
  /\ w' = FoldLeft(All, w, SetToSortSeq(old, <))
  /\ phase' = "scan"
  /\ UNCHANGED <<fs, tape, todo, save, dumps, crashes>>

(* nodeupdates, for a name on the tape that is inode i there.  np is the entry *)
(* of that name, ip that of the inode: the same if one of its links has it.   *)
NameFound(v, path) == Find(v, path)
InodeFound(v, path, i) ==
  IF Find(v, path) \in Range(Entries(v, i)) THEN Find(v, path) ELSE Lookup(v, i)

\* The name is free for what it means now: another link goes, another file is
\* moved aside, to be found by its inode number later.
MoveAside(v, np) ==
  IF Lookup(v, v.ent[np].ino) # np THEN Drop(v, np) ELSE MkTempName(v, np)

\* the inode is on the tape and is of another type than it was
ChangeMode(v, path, i, type, ip) ==
  LET links == Entries(v, i)
      from  == SelectInSeq(links, LAMBDA e : e = ip)
      v1    == IF v.ent[ip].type = LEAF
               THEN FoldLeft(Drop, v, SubSeq(links, from, Len(links)))
               ELSE Retire(IF Has(v, ip, "TMPNAME") THEN v ELSE MkTempName(v, ip), ip)
  IN  IF Has(v, ip, "KEEP") THEN Complain(v, "cannot KEEP and change modes")
      ELSE AddNew(v1, path, i, type, FALSE, {"NEW", "KEEP"})

\* the inode is known, by other names only
NewName_Again(v, path, i, type, ip, onTape) ==
  IF v.ent[ip].type = NODE /\ Has(v, ip, "KEEP") THEN v
  ELSE Flag(MoveEntry(RenameIt(v, PathOf(v, ip), path), ip, path), ip,
            {"KEEP"} \cup IF onTape /\ type = LEAF THEN {"EXTRACT"} ELSE {}, {})
NewName(v, path, i, type, ip, onTape) ==
  IF ~Has(v, ip, "KEEP")
  THEN Flag(MoveEntry(RenameIt(v, PathOf(v, ip), path), ip, path), ip,
            {"KEEP"} \cup IF onTape /\ type = LEAF THEN {"EXTRACT"} ELSE {}, {})
  ELSE IF v.ent[ip].type = NODE THEN v
  ELSE AddNew(v, path, i, type, TRUE, {"NEW"})

\* inode and name belong together as before
SameName_OldLinks(v, path, i, type, ip, onTape) ==
  IF ~onTape \/ Lookup(v, i) # ip THEN Flag(v, ip, {"KEEP"}, {})
  ELSE Flag(v, ip, {"KEEP"} \cup IF type = LEAF THEN {"EXTRACT"} ELSE {}, {})
SameName(v, path, i, type, ip, onTape) ==
  IF ~onTape THEN Flag(v, ip, {"KEEP"}, {})
  ELSE IF Lookup(v, i) # ip THEN AddNew(Drop(v, ip), path, i, type, TRUE, {"NEW", "KEEP"})
  ELSE Flag(v, ip, {"KEEP"} \cup IF type = LEAF THEN {"EXTRACT"} ELSE {}, {})

NodeUpdates(v, path, i, type) ==
  LET np     == NameFound(v, path)
      ip     == InodeFound(v, path, i)
      onTape == i \in tape.map
      v0     == IF np # None /\ Entries(v, v.ent[np].ino) = <<>>
                THEN Complain(v, "corrupted symbol table") ELSE v
      v1     == IF np # None /\ np # ip /\ (ip # None \/ onTape) THEN MoveAside(v0, np) ELSE v0
  IN  CASE ip = None /\ ~onTape -> v0
        [] ip = None /\ onTape -> AddNew(v1, path, i, type, FALSE, {"NEW", "KEEP"})
        [] ip # None /\ onTape /\ v.ent[ip].type # type -> ChangeMode(v1, path, i, type, ip)
        [] ip # None /\ ~(onTape /\ v.ent[ip].type # type) ->
             IF ip = np THEN SameName(v, path, i, type, ip, onTape)
                        ELSE NewName(v1, path, i, type, ip, onTape)

\* whether treescan goes on below the name
Descends(v, path, i) ==
  LET ip == InodeFound(v, path, i)
  IN  /\ i \in tape.dirs
      /\ ~(ip # None /\ ip # NameFound(v, path) /\ v.ent[ip].type = NODE /\ Has(v, ip, "KEEP"))

TreeScan ==
  LET path == Head(todo)[1]
      i    == Head(todo)[2]
  IN
  /\ phase = "scan" /\ todo # <<>>
  /\ w' = NodeUpdates(w, path, i, IF i \in tape.dirs THEN NODE ELSE LEAF)
  /\ todo' = (IF Descends(w, path, i) THEN ScanDir(fs, path, i) ELSE <<>>) \o Tail(todo)
  /\ UNCHANGED <<fs, tape, phase, save, dumps, crashes>>

-----------------------------------------------------------------------------
(* Names that were not seen again, in the directories on the tape and in the  *)
(* removed ones.  A directory whose number an excluded file has taken over is *)
(* found here only; in a removed directory it is put on the removelist by its *)
(* e_next, which is still in use for its bucket: what came after it is lost.  *)
Unseen(v, e) == v.ent[e].flags \subseteq {"TMPNAME"}
LeavesOf(v, S) == {e \in S : v.ent[e].type = LEAF}
NodesOf(v, S)  == {e \in S : v.ent[e].type = NODE}

RetireUnseen(e, v) == Retire(Flag(v, e, {"TMPNAME"}, {}), e)

UnseenNames_Everywhere(v) ==
  LET unseen == {e \in UNION {Children(v, d) : d \in NodesOf(v, DOMAIN v.ent)} : Unseen(v, e)}
      nodes  == {e \in NodesOf(v, unseen) : v.ent[e].ino # None}
  IN  FoldSet(RetireUnseen, DropAll(v, LeavesOf(v, unseen)), nodes)
UnseenNames(v) ==
  LET known  == {Lookup(v, i) : i \in tape.map} \ {None}
      unseen == {e \in UNION {Children(v, d) : d \in NodesOf(v, known)} : Unseen(v, e)}
      nodes  == {e \in NodesOf(v, unseen) : v.ent[e].ino # None}
  IN  FoldSet(RetireUnseen, DropAll(v, LeavesOf(v, unseen)), nodes)

CutChain(v, e) ==
  LET i == v.ent[e].ino
      c == v.chain[Bucket(i)]
      k == SelectInSeq(c, LAMBDA x : x = i)
  IN  IF i = None THEN v ELSE [v EXCEPT !.chain[Bucket(i)] = SubSeq(c, 1, k)]

RemovedTrees(v) ==
  LET more[k \in 0..Cardinality(DOMAIN v.ent)] ==
        IF k = 0 THEN v.gone
        ELSE LET S == more[k-1]
             IN  S \cup {e \in UNION {NodesOf(v, Children(v, d)) : d \in S} : v.ent[e].flags = {}}
      gone    == more[Cardinality(DOMAIN v.ent)]
      below   == UNION {Children(v, d) : d \in gone}
      flagged == {e \in below : v.ent[e].flags # {} /\ (v.ent[e].type = LEAF \/ ~Unseen(v, e))}
      v1 == DropAll(v, LeavesOf(v, below))
      v2 == FoldSet(LAMBDA e, u : CutChain(u, e), v1, gone \ v.gone)
      v3 == [v2 EXCEPT !.gone = gone]
  IN  IF flagged = {} THEN v3 ELSE Complain(v3, "unreferenced with flags")

FindUnrefLinks ==
  /\ phase = "scan" /\ todo = <<>> /\ dumps > 1
  /\ w' = RemovedTrees(UnseenNames(w))
  /\ phase' = "unref"
  /\ UNCHANGED <<fs, tape, todo, save, dumps, crashes>>

RemoveNode(v, e) ==
  IF Children(v, e) # {} THEN Complain(v, "cannot remove, non-empty")
  ELSE FreeEntry(Rmdir(Flag(v, e, {"REMOVED"}, {"TMPNAME"}), PathOf(v, e)), e)

\* The deepest first: what the code does by going around until nothing changes.
RemoveOldNodes ==
  LET Deeper(a, b) == Len(PathOf(w, a)) > Len(PathOf(w, b))
  IN
  /\ phase = "unref"
  /\ w' = [FoldLeft(RemoveNode, w, SetToSortSeq(w.gone, Deeper)) EXCEPT !.gone = {}]
  /\ phase' = "removed"
  /\ UNCHANGED <<fs, tape, todo, save, dumps, crashes>>

-----------------------------------------------------------------------------
(* createleaves: the files in the order of the tape.  lowerbnd looks at the    *)
(* first entry of an inode only.                                              *)
Requested(v) ==
  {i \in Inodes : Lookup(v, i) # None /\ v.ent[Lookup(v, i)].type = LEAF
                    /\ v.ent[Lookup(v, i)].flags \cap {"NEW", "EXTRACT"} # {}}

NotOnTape(v, S) ==
  LET One(i, u) == Complain(Flag(u, Lookup(u, i), {}, {"NEW", "EXTRACT"}), "not found on tape")
  IN  FoldSet(One, v, S)

\* extractfile of a regular file
ExtractFile(v, e, data) ==
  LET v1   == IF Has(v, e, "EXTRACT") THEN Flag(RemoveLeaf(v, e), e, {}, {"REMOVED"}) ELSE v
      path == PathOf(v1, e)
      o    == Follow(v1, path)
      v2   == IF o = None THEN Make(v1, path, LEAF, data)
              ELSE IF v1.obj[o].type = NODE THEN Complain(v1, "open")
              ELSE [v1 EXCEPT !.obj[o].data = data]
  IN  Flag(v2, e, {}, {"NEW", "EXTRACT"})

StartLeaves ==
  /\ phase = "removed" \/ (phase = "scan" /\ todo = <<>> /\ dumps = 1)
  /\ phase' = "leaves"
  /\ save' = [w |-> w, files |-> tape.files]
  /\ UNCHANGED <<fs, tape, w, todo, dumps, crashes>>

\* The next file on the tape; with it the volume may come to its end, and the
\* next begins with the file after it.
NextLeaf ==
  LET i  == Head(tape.files)
      v1 == NotOnTape(w, {j \in Requested(w) : j < i})
      v2 == IF i \in Requested(w) THEN ExtractFile(v1, Lookup(w, i), fs.data[i])
            ELSE Complain(v1, "expected next file")
  IN
  /\ phase = "leaves" /\ tape.files # <<>>
  /\ w' = v2
  /\ tape' = [tape EXCEPT !.files = Tail(@)]
  /\ save' \in {save} \cup
       IF crashes < MaxCrashes THEN {[w |-> v2, files |-> Tail(tape.files)]} ELSE {}
  /\ UNCHANGED <<fs, phase, todo, dumps, crashes>>

LeavesDone ==
  /\ phase = "leaves" /\ tape.files = <<>>
  /\ w' = NotOnTape(w, Requested(w))
  /\ phase' = "links"
  /\ UNCHANGED <<fs, tape, todo, save, dumps, crashes>>

\* createlinks, a link at a time
NewLinks(v) == {e \in UNION {Range(Tail(v.list[i])) :
                              i \in {j \in DOMAIN v.list : Lookup(v, j) # None}} : Has(v, e, "NEW")}
CreateLink ==
  LET e == Min(NewLinks(w))
  IN
  /\ phase = "links" /\ NewLinks(w) # {}
  /\ w' = Flag(Link(w, PathOf(w, Lookup(w, w.ent[e].ino)), PathOf(w, e)), e, {}, {"NEW"})
  /\ UNCHANGED <<fs, tape, phase, todo, save, dumps, crashes>>

\* setdirmodes, checkrestore, and the table saved for the next dump
Finish ==
  LET lost  == {d \in tape.dirs : Lookup(w, d) = None}
      known == UNION {Range(Entries(w, i)) : i \in Inodes \cup {Root}}
      Clear(e) == w.ent[e].flags \ IF w.ent[e].type = NODE THEN {"KEEP", "NEW", "EXISTED"} ELSE {"KEEP"}
      v1 == [w EXCEPT !.ent = [e \in DOMAIN @ |->
               IF e \in known THEN [@[e] EXCEPT !.flags = Clear(e)] ELSE @[e]]]
      v2 == IF lost # {} THEN Complain(v1, "cannot find directory inode") ELSE v1
      v3 == IF \E e \in known : Clear(e) # {} THEN Complain(v2, "incomplete operations") ELSE v2
  IN
  /\ phase = "links" /\ NewLinks(w) = {}
  /\ w' = v3
  /\ phase' = "done"
  /\ save' = [w |-> v3, files |-> <<>>]
  /\ UNCHANGED <<fs, tape, todo, dumps, crashes>>

\* Restore is broken off, perhaps in the middle of a file, and goes on with -R
\* from the volume of the checkpoint.
HalfDone ==
  LET i == Head(tape.files)
      e == Lookup(w, i)
  IN  IF tape.files = <<>> \/ i \notin Requested(w) THEN {}
      ELSE {ExtractFile(w, e, <<>>)} \cup IF Has(w, e, "EXTRACT") THEN {RemoveLeaf(w, e)} ELSE {}

Resume ==
  /\ phase = "leaves" \/ (phase = "links" /\ BreakInLinks)
  /\ crashes < MaxCrashes
  /\ crashes' = crashes + 1
  /\ phase' = "leaves"
  /\ \E v \in {w} \cup HalfDone :
       w' = [save.w EXCEPT !.obj = v.obj, !.dents = v.dents, !.bad = v.bad]
  /\ tape' = [tape EXCEPT !.files = save.files]
  /\ UNCHANGED <<fs, todo, save, dumps>>

Ended == phase = "done" /\ dumps = MaxDumps /\ UNCHANGED vars

-----------------------------------------------------------------------------
Empty == [dirs |-> {}, files |-> {}, at |-> NoNames, data |-> <<>>]
NewTable ==
  [ent   |-> (1 :> [name |-> <<".">>, parent |-> 1, ino |-> Root, type |-> NODE,
                    flags |-> {"NEW"}]),
   list  |-> (Root :> <<1>>),
   chain |-> [b \in 0..HashSize-1 |-> IF b = Bucket(Root) THEN <<Root>> ELSE <<>>],
   gone  |-> {},
   obj   |-> (Root :> [type |-> NODE, data |-> <<>>]),
   dents |-> <<>>,
   bad   |-> {}]

Init ==
  /\ fs = Empty
  /\ tape = [map |-> {}, used |-> {}, dirs |-> {}, files |-> <<>>]
  /\ w = NewTable
  /\ phase = "done" /\ todo = <<>> /\ save = [w |-> NewTable, files |-> <<>>]
  /\ dumps = 0 /\ crashes = 0

FullDump ==
  /\ phase = "done" /\ dumps = 0
  /\ \E f \in FirstFileSystems : Dump(f, Used(f) \cup {Root}, {})

\* Files that need not have changed may be written as well.
HiddenIn(f) == {S \in SUBSET (Used(fs) \ Used(f)) : Cardinality(S) <= MaxHidden}

NextDump ==
  /\ phase = "done" /\ dumps \in 1..(MaxDumps - 1)
  /\ \E f \in FileSystems :
       LET must == MustChange(fs, f)
       IN  /\ LinkedReuse \/ \A i \in f.dirs \cap fs.files : Cardinality(NamesOf(fs, i)) = 1
           /\ \E written \in SUBSET (f.files \ must), hidden \in HiddenIn(f) :
                Dump(f, must \cup written, hidden)

Next == \/ FullDump \/ NextDump \/ RemoveOldLeaves \/ TreeScan \/ FindUnrefLinks \/ RemoveOldNodes
        \/ StartLeaves \/ NextLeaf \/ LeavesDone \/ CreateLink \/ Finish \/ Resume \/ Ended

Spec == Init /\ [][Next]_vars

-----------------------------------------------------------------------------

(* Each inode of the file system with the object that is found by walking the *)
(* same names.                                                                *)
Pairs ==
  LET below(i, o) == {<<fs.at[<<i, n>>], w.dents[<<o, n>>]>> :
                        n \in {n \in Names : fs.at[<<i, n>>] # None
                                               /\ <<o, n>> \in DOMAIN w.dents}}
      more[k \in 0..Cardinality(Inodes)] ==
        IF k = 0 THEN {<<Root, Root>>}
        ELSE LET P == more[k-1] IN P \cup UNION {below(p[1], p[2]) : p \in P}
  IN  more[Cardinality(Inodes)]

\* Once a restore has ended, the directory is what the dump has seen: the same
\* names, types and contents, and the same names are links to one file.
Restored ==
  phase = "done" =>
    /\ \A p \in Pairs :
         /\ w.obj[p[2]].type = IF p[1] \in Dirs(fs) THEN NODE ELSE LEAF
         /\ w.obj[p[2]].type = LEAF => w.obj[p[2]].data = fs.data[p[1]]
         /\ {n \in Names : fs.at[<<p[1], n>>] # None} =
            {s[2] : s \in {s \in DOMAIN w.dents : s[1] = p[2]}}
    /\ \A p, q \in Pairs : p[1] = q[1] <=> p[2] = q[2]

\* The symbol table and the directory agree, after each name: what the table
\* has is there, all names of an inode are one file, and nothing else is there.
\* Files and links yet to come are not.  After a break, at the end again.
Made(e)   == w.ent[e].type = NODE \/ "NEW" \notin w.ent[e].flags
Object(e) == Follow(w, PathOf(w, e))
TableMatches ==
  crashes = 0 \/ phase = "done" =>
    /\ \A e \in DOMAIN w.ent :
         IF Made(e) THEN Object(e) # None /\ w.obj[Object(e)].type = w.ent[e].type
                    ELSE Object(e) = None
    /\ \A i \in Inodes, d, e \in DOMAIN w.ent :
         w.ent[d].ino = i /\ w.ent[e].ino = i /\ Made(d) /\ Made(e) => Object(d) = Object(e)
    /\ \A e \in DOMAIN w.ent :
         IF e \in w.gone THEN phase # "done" ELSE e \in Range(Entries(w, w.ent[e].ino))
    /\ Cardinality(DOMAIN w.dents) =
       Cardinality({e \in DOMAIN w.ent : e # Lookup(w, Root) /\ Made(e)})

\* No call of the system fails and no complaint about the table is made,
\* except for a file that was removed just before the break.
NoTrouble == w.bad \subseteq IF crashes = 0 THEN {} ELSE {"unlink"}

\* The contents of a file that is not on the tape exist at every moment: the
\* restore could not get them back.
NothingLost ==
  \A i \in fs.files \ tape.map : \E o \in DOMAIN w.obj : w.obj[o].data = fs.data[i]
=============================================================================
