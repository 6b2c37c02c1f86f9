----------------------------- MODULE Directories ----------------------------
(***************************************************************************)
(* The directories of a dump: how dump converts them (convert_dir and      *)
(* dumpdirino in src/dump/traverse.c) and how restore puts all of them     *)
(* into one file and finds its way in it (src/restore/dirs.c): extraction, *)
(* scan, search of a path, reading like opendir, literal copies, and the   *)
(* modes set or compared at the end.                                       *)
(*                                                                         *)
(* A file of directories is a sequence of cells, one for each unit of      *)
(* alignment: the first cell of an entry is its header, the others Mid.    *)
(***************************************************************************)
EXTENDS Integers, Sequences, SequencesExt, FiniteSets, FiniteSetsExt, Functions

CONSTANTS RestoreBlk,   \* DIRBLKSIZ of restore and TP_BSIZE, in units
          DumpBlk,      \* cdc.bs, DIRBLKSIZ of dump, in units
          Plans,        \* what was dumped and what can be read of it
          MaxTasks,     \* bound: what restore does after the scan
          CopyLast      \* is nothing looked up after a literal copy?

ASSUME BlockAssumption == /\ DumpBlk \in Nat \ {0} /\ RestoreBlk \in Nat
                          /\ RestoreBlk % DumpBlk = 0

VARIABLES job, tape,        \* the directories of the disk, their data on the tape
          pc, ino, buf, loc, \* extractdirs: its directory, the data, putdir's place in them
          w,                \* the file of directories being written
          inotab, modefile, \* where each directory starts, and its mode
          dirp, dp,         \* the open file of directories, the entry read last
          stack, listed,    \* treescan: its frames, the calls of todo
          task, result,     \* what restore does with the scanned tree, and got
          ran,              \* how many tasks it has done
          tree              \* what of the dump can be read (for the properties)

vars == <<job, tape, tree, pc, ino, buf, loc, w, inotab, modefile, dirp, dp, stack, listed, task, result,
          ran>>
----------------------------------------------------------------------------
(* Entries.  A name is a number: its place in the directory, or one of the *)
(* three that mean something.                                              *)
Dot == -1
DotDot == -2
Slash == -3
Entry(name, i, size) == [name |-> name, ino |-> i, size |-> size, reclen |-> size]
Mid == [name |-> 0, ino |-> 0, size |-> 1, reclen |-> 0]     \* also what a lost record reads as
nulldir == Entry(Slash, 0, 1)
NULL == Mid
Cells(e) == <<e>> \o [k \in 1..(e.size - 1) |-> Mid]

Dirs == DOMAIN job.dirs
Root == 1

(* dump: an entry must not cross a block; the one before it is made longer.*)
Extended(c) ==
    LET left == DumpBlk - (Len(c.cells) % DumpBlk)
    IN  [c EXCEPT !.cells = [@ EXCEPT ![c.prev + 1].reclen = @ + left]
                                \o [k \in 1..left |-> Mid]]
convert_dir(c, e) ==
    IF e.ino \in job.excluded THEN c
    ELSE LET off == Len(c.cells)
             d == IF (off + e.size - 1) \div DumpBlk = off \div DumpBlk THEN c ELSE Extended(c)
         IN  [cells |-> d.cells \o Cells(e), prev |-> Len(d.cells)]

(* The entries of directory d on the disk, and as dumped.                  *)
Entries(d) ==
    <<Entry(Dot, d, 1), Entry(DotDot, job.dirs[d].parent, 1)>> \o
    [k \in DOMAIN job.dirs[d].ents |-> Entry(k, job.dirs[d].ents[k].ino, job.dirs[d].ents[k].size)]
dumpdirino(d) ==
    LET es == Entries(d)
        conv[n \in 0..Len(es)] == IF n = 0 THEN [cells |-> <<>>, prev |-> 0]
                                  ELSE CHOOSE r \in {convert_dir(c, es[n]) : c \in {conv[n - 1]}} : TRUE
        all == conv[Len(es)]
    IN  IF Len(all.cells) % DumpBlk = 0 THEN all.cells ELSE Extended(all).cells

(* The data of directory d as read: a record that is lost reads as zeros.  *)
RecordOf(k) == (k - 1) \div RestoreBlk + 1
FromTape(d) ==
    [k \in DOMAIN tape[d] |-> IF <<d, RecordOf(k)>> \in job.lost THEN Mid ELSE tape[d][k]]
----------------------------------------------------------------------------
(* What can be read of the tape: the entries of each directory, and the    *)
(* names reached from the root with their inodes.                          *)
Readable(d) == d \in Dirs /\ <<d, 0>> \notin job.lost
Kept(d) ==
    LET lost(e) == \E k \in DOMAIN tape[d] : /\ tape[d][k].name = e.name
                                             /\ <<d, RecordOf(k)>> \in job.lost
        es == SelectSeq(Entries(d), LAMBDA e : e.ino \notin job.excluded /\ ~lost(e))
    IN  [k \in DOMAIN es |-> <<es[k].name, es[k].ino>>]
Reached(kept) ==
    LET at[n \in 0..Len(job.dirs)] ==
            IF n = 0 THEN {<<<<Dot>>, Root>>}
            ELSE UNION {{<<Append(x[1], e[1]), e[2]>> : e \in {e \in ToSet(kept[x[2]]) : e[1] > 0}} :
                            x \in {x \in at[n - 1] : Readable(x[2])}}
    IN  UNION {at[n] : n \in DOMAIN at}
----------------------------------------------------------------------------
(* Writing the file of directories.                                        *)
NoFile == [df |-> <<>>, dirbuf |-> [k \in 1..RestoreBlk |-> Mid], dirloc |-> 0, prev |-> 0,
           seekpt |-> 0]
LastExtended(o) == [o.dirbuf EXCEPT ![o.prev + 1].reclen = RestoreBlk - o.prev]

(* Fault: the last entry of a block keeps its length.                      *)
putent_Short(o, e) ==
    LET p == IF o.dirloc + e.size > RestoreBlk
             THEN [o EXCEPT !.df = @ \o o.dirbuf, !.dirloc = 0] ELSE o
    IN  [p EXCEPT !.dirbuf = [k \in 1..RestoreBlk |->
                                 IF k \in (p.dirloc + 1)..(p.dirloc + e.size)
                                 THEN Cells(e)[k - p.dirloc] ELSE @[k]],
                  !.prev = p.dirloc, !.dirloc = @ + e.size]
putent(o, dir) ==
    LET e == [dir EXCEPT !.reclen = dir.size]
        p == IF o.dirloc + e.size > RestoreBlk
             THEN [o EXCEPT !.df = @ \o LastExtended(o), !.dirloc = 0] ELSE o
    IN  [p EXCEPT !.dirbuf = [k \in 1..RestoreBlk |->
                                 IF k \in (p.dirloc + 1)..(p.dirloc + e.size)
                                 THEN Cells(e)[k - p.dirloc] ELSE @[k]],
                  !.prev = p.dirloc, !.dirloc = @ + e.size]

(* Fault: the end of a directory is written as a whole block, and the next *)
(* one is thought to follow where the entries end.                         *)
flushent_Whole(o) ==
    [o EXCEPT !.df = @ \o LastExtended(o), !.seekpt = Len(o.df) + o.dirloc, !.dirloc = 0]
flushent(o) ==
    LET f == o.df \o SubSeq(LastExtended(o), 1, o.dirloc)
    IN  [o EXCEPT !.df = f, !.seekpt = Len(f), !.dirloc = 0]

Init ==
    /\ \E plan \in Plans : job = plan
    /\ tape = [d \in Dirs |-> dumpdirino(d)]
    /\ \E kept \in {[d \in Dirs |-> Kept(d)]} :
           tree = [listing |-> kept, reached |-> Reached(kept)]
    /\ pc = "extract" /\ ino = 1 /\ buf = <<>> /\ loc = 0
    /\ w = NoFile
    /\ inotab = <<>> /\ modefile = <<>>
    /\ dirp = [pos |-> 0, loc |-> 0, size |-> 0, win |-> 0] /\ dp = NULL
    /\ stack = <<>> /\ listed = <<>>
    /\ task = [kind |-> "none"] /\ result = <<>> /\ ran = 0

reading == <<dirp, dp, stack, listed, task, result, ran>>

(* extractdirs: the next directory of the tape, unless its header is lost. *)
Known(d) == d \in DOMAIN inotab
allocinotab(d) == inotab @@ (d :> [seekpt |-> w.seekpt, size |-> 0])
extractdirs ==
    /\ pc = "extract" /\ ino \in Dirs
    /\ IF <<ino, 0>> \in job.lost
       THEN ino' = ino + 1 /\ UNCHANGED <<pc, buf, loc, inotab>>
       ELSE /\ inotab' = allocinotab(ino)
            /\ buf' = FromTape(ino) /\ loc' = 0
            /\ pc' = "putdir"
            /\ UNCHANGED ino
    /\ UNCHANGED <<job, tape, tree, w, modefile, reading>>

(* Fault: an entry whose length is zero is not mangled.                    *)
Mangled_Zero(e, left) == e.reclen > left
Mangled(e, left) == e.reclen > left \/ e.reclen < e.size
putdir ==
    /\ pc = "putdir" /\ loc < Len(buf)
    /\ LET e    == buf[loc + 1]
           left == RestoreBlk - (loc % RestoreBlk)
       IN  IF Mangled(e, left) THEN loc' = loc + left /\ UNCHANGED w
           ELSE /\ loc' = loc + e.reclen
                /\ w' = IF e.ino # 0 THEN putent(w, e) ELSE w
    /\ UNCHANGED <<job, tape, tree, pc, ino, buf, inotab, modefile, reading>>

(* Fault: the inode is taken after getfile, which has read the next header.*)
modeinfo_Late(d) == [ino |-> d, of |-> d + 1, xattr |-> d \in job.attrs]
modeinfo(d) == [ino |-> d, of |-> d, xattr |-> d \in job.attrs]
EndOfDir ==
    /\ pc = "putdir" /\ loc >= Len(buf)
    /\ modefile' = Append(modefile, modeinfo(ino))
    /\ w' = flushent(putent(w, nulldir))
    /\ inotab' = [inotab EXCEPT ![ino].size = w'.seekpt - inotab[ino].seekpt]
    /\ pc' = "extract" /\ ino' = ino + 1
    /\ UNCHANGED <<job, tape, tree, buf, loc, reading>>
----------------------------------------------------------------------------
(* Reading.  The buffer of a descriptor holds what begins at win of the    *)
(* file; a seek that does not read leaves it, and its size, as they were.  *)
rst_telldir(d) == d.pos - d.size + d.loc
Read(d) ==
    LET got == Min({RestoreBlk, Len(w.df) - d.pos})
    IN  [d EXCEPT !.win = d.pos, !.size = got, !.pos = @ + got]

(* Fault: the block is taken from the start of the file.                   *)
rst_seekdir_File(d, at, base) ==
    IF at = rst_telldir(d) THEN d
    ELSE LET s == [d EXCEPT !.pos = at - (at % RestoreBlk), !.loc = at % RestoreBlk]
         IN  IF s.loc # 0 THEN Read(s) ELSE s
rst_seekdir(d, at, base) ==
    IF at = rst_telldir(d) THEN d
    ELSE LET off == at - base
             s   == [d EXCEPT !.pos = base + off - (off % RestoreBlk), !.loc = off % RestoreBlk]
         IN  IF s.loc # 0 THEN Read(s) ELSE s

(* The next entry and the descriptor behind it; NULL at the end, and at an *)
(* entry that is not all in the buffer.                                    *)
rst_readdir(d) ==
    LET f == IF d.loc = 0 \/ d.loc >= d.size THEN Read([d EXCEPT !.loc = 0]) ELSE d
        e == w.df[f.win + f.loc + 1]
        n == [f EXCEPT !.loc = @ + e.reclen]
    IN  IF f.size <= 0 THEN [dp |-> NULL, dir |-> f]
        ELSE IF e.reclen = 0 \/ e.reclen > RestoreBlk - f.loc THEN [dp |-> NULL, dir |-> f]
        ELSE IF e.name = Slash THEN [dp |-> NULL, dir |-> n]
        ELSE [dp |-> e, dir |-> n]
Base(d) == inotab[d].seekpt

written == <<job, tape, tree, buf, loc, w, inotab, modefile>>
----------------------------------------------------------------------------
(* pathsearch of task.left from the directory ino.                         *)
Search(kind, path) == [kind |-> kind, path |-> path, left |-> path]
opendirfile ==
    /\ pc = "extract" /\ ino \notin Dirs
    /\ pc' = "search" /\ ino' = Root
    /\ task' = Search("root", <<Dot>>)        \* panic unless it is found
    /\ UNCHANGED <<written, dirp, dp, stack, listed, result, ran>>

(* rst_opendir: a new descriptor, whose size is not set.                   *)
Fresh == {[pos |-> 0, loc |-> 0, size |-> n, win |-> 0] : n \in {0, RestoreBlk}}
Answer(i) ==
    IF task.kind = "root" THEN pc' = "visit" /\ ino' = Root /\ UNCHANGED <<task, result>>
    ELSE IF task.kind = "ls" /\ Known(i)
    THEN /\ \E d \in Fresh : task' = [task EXCEPT !.left = rst_seekdir(d, Base(i), Base(i))]
         /\ pc' = "list" /\ result' = <<>> /\ ino' = i
    ELSE pc' = "idle" /\ result' = <<i>> /\ UNCHANGED <<ino, task>>

pathsearch ==
    /\ pc = "search"
    /\ IF task.left = <<>> THEN Answer(ino) /\ UNCHANGED dirp
       ELSE IF ~Known(ino) THEN Answer(0) /\ UNCHANGED dirp
       ELSE dirp' = rst_seekdir(dirp, Base(ino), Base(ino)) /\ pc' = "match"
            /\ UNCHANGED <<ino, task, result>>
    /\ UNCHANGED <<written, dp, stack, listed, ran>>

searchdir ==
    /\ pc = "match"
    /\ \E r \in {rst_readdir(dirp)} :
        /\ dirp' = r.dir /\ dp' = r.dp
        /\ IF r.dp = NULL THEN Answer(0)
           ELSE IF r.dp.name # Head(task.left) THEN UNCHANGED <<pc, ino, task, result>>
           ELSE /\ pc' = "search" /\ ino' = r.dp.ino
                /\ task' = [task EXCEPT !.left = SubSeq(@, 2, Len(@))] /\ UNCHANGED result
    /\ UNCHANGED <<written, stack, listed, ran>>
----------------------------------------------------------------------------
(* treescan(".", ROOTINO): a frame is a call that reads a directory.       *)
ThePath == IF stack = <<>> THEN <<Dot>> ELSE Append(Last(stack).path, dp.name)

Visit ==
    /\ pc = "visit"
    /\ IF Known(ino)
       THEN /\ listed' = Append(listed, <<ThePath, ino, "NODE">>)
            /\ stack' = Append(stack, [path |-> ThePath, ino |-> ino, bpt |-> 0])
            /\ dirp' = rst_seekdir(dirp, Base(ino), Base(ino))
            /\ pc' = "first"
       ELSE /\ listed' = Append(listed, <<ThePath, ino, "LEAF">>)
            /\ pc' = IF stack = <<>> THEN "idle" ELSE "back"
            /\ UNCHANGED <<stack, dirp>>
    /\ UNCHANGED <<written, ino, dp, task, result, ran>>

(* "." and ".." are passed over; where they are missing a warning is       *)
(* printed and the first entry is what was found instead.                  *)
Passed(r, name) == IF r.dp.name = name THEN rst_readdir(r.dir) ELSE r
At(bpt) == [stack EXCEPT ![Len(stack)].bpt = bpt]
First ==
    /\ pc = "first"
    /\ \E r \in {Passed(Passed(rst_readdir(dirp), Dot), DotDot)} :
        /\ dp' = r.dp /\ dirp' = r.dir
        /\ stack' = At(rst_telldir(r.dir))
    /\ pc' = "entry"
    /\ UNCHANGED <<written, ino, listed, task, result, ran>>

Descend ==
    /\ pc = "entry" /\ dp # NULL
    /\ ino' = dp.ino /\ pc' = "visit"
    /\ UNCHANGED <<written, dirp, dp, stack, listed, task, result, ran>>

Return ==
    /\ pc = "entry" /\ dp = NULL
    /\ stack' = Front(stack)
    /\ pc' = IF Len(stack) = 1 THEN "idle" ELSE "back"
    /\ UNCHANGED <<written, ino, dirp, dp, listed, task, result, ran>>

(* Back from an entry: to where the directory was left, and on.            *)
Back ==
    /\ pc = "back"
    /\ \E r \in {rst_readdir(rst_seekdir(dirp, Last(stack).bpt, Base(Last(stack).ino)))} :
        /\ dp' = r.dp /\ dirp' = r.dir
        /\ stack' = At(rst_telldir(r.dir))
    /\ pc' = "entry"
    /\ UNCHANGED <<written, ino, listed, task, result, ran>>
----------------------------------------------------------------------------
(* What the commands do with the directories afterwards.                   *)
Tasks ==
    {Search(kind, p) : kind \in {"lookup", "ls"},
                       p \in {l[1] : l \in ToSet(listed)} \cup job.paths}
    \cup {[kind |-> "modes"], [kind |-> "copy"]}
    \cup {[kind |-> "compare", changed |-> d, how |-> h] : d \in Dirs, h \in {"mode", "xattr"}}
Begin ==
    /\ pc = "idle" /\ ran < MaxTasks
    /\ task.kind = "copy" => ~CopyLast
    /\ ran' = ran + 1
    /\ task' \in Tasks
    /\ result' = <<>>
    /\ pc' = IF task'.kind \in {"lookup", "ls"} THEN "search" ELSE task'.kind
    /\ ino' = IF task'.kind \in {"lookup", "ls"} THEN Root ELSE 1
    /\ UNCHANGED <<written, dirp, dp, stack, listed>>

(* ls: entries through the descriptor of rst_opendir until rst_readdir     *)
(* returns NULL, then rst_closedir.                                        *)
List ==
    /\ pc = "list"
    /\ \E r \in {rst_readdir(task.left)} :
        IF r.dp = NULL
        THEN pc' = "idle" /\ task' = [task EXCEPT !.left = <<>>] /\ UNCHANGED result
        ELSE /\ task' = [task EXCEPT !.left = r.dir]
             /\ result' = Append(result, <<r.dp.name, r.dp.ino>>) /\ UNCHANGED pc
    /\ UNCHANGED <<written, ino, dirp, dp, stack, listed, ran>>

(* genliteraldir of each directory, in the order of the tape.  dup shares  *)
(* the place in the file with dirp, which is left behind the copy.         *)
genliteraldir ==
    /\ pc = "copy"
    /\ IF ino \notin Dirs THEN pc' = "idle" /\ UNCHANGED <<ino, dirp, result>>
       ELSE /\ ino' = ino + 1
            /\ UNCHANGED pc
            /\ IF ~Known(ino) THEN UNCHANGED <<dirp, result>>
               ELSE \E d \in {rst_seekdir(dirp, Base(ino), Base(ino))} :
                    \E end \in {Min({d.pos + inotab[ino].size, Len(w.df)})} :
                        /\ dirp' = [d EXCEPT !.pos = end]
                        /\ result' = Append(result, <<ino, SubSeq(w.df, d.pos + 1, end)>>)
    /\ UNCHANGED <<written, dp, stack, listed, task, ran>>

(* lookupino of a directory: the name the scan entered it under.           *)
Names(i) == {l[1] : l \in {l \in ToSet(listed) : l[2] = i /\ l[3] = "NODE"}}
setdirmodes ==
    /\ pc = "modes"
    /\ IF ino > Len(modefile) THEN pc' = "idle" /\ UNCHANGED <<ino, result>>
       ELSE \E node \in {modefile[ino]} :
            /\ ino' = ino + 1 /\ UNCHANGED pc
            /\ result' = result \o SetToSeq({<<p, node.of, node.xattr>> : p \in Names(node.ino)})
    /\ UNCHANGED <<written, dirp, dp, stack, listed, task, ran>>

Original(d) == [mode |-> d, xattr |-> d \in job.attrs]
OnDisk(d) ==
    IF d # task.changed THEN Original(d)
    ELSE IF task.how = "xattr" THEN [Original(d) EXCEPT !.xattr = ~@]
    ELSE [Original(d) EXCEPT !.mode = 0]           \* another one, or lstat fails
comparedirmodes ==
    /\ pc = "compare"
    /\ IF ino > Len(modefile) THEN pc' = "idle" /\ UNCHANGED <<ino, result>>
       ELSE \E node \in {modefile[ino]} :
            /\ ino' = ino + 1 /\ UNCHANGED pc
            /\ result' = IF OnDisk(node.ino) = [mode |-> node.of, xattr |-> node.xattr] THEN result
                         ELSE result \o SetToSeq(Names(node.ino))
    /\ UNCHANGED <<written, dirp, dp, stack, listed, task, ran>>

Next == \/ extractdirs \/ putdir \/ EndOfDir \/ opendirfile \/ pathsearch \/ searchdir
        \/ Visit \/ First \/ Descend \/ Return \/ Back
        \/ Begin \/ List \/ genliteraldir \/ setdirmodes \/ comparedirmodes
Spec == Init /\ [][Next]_vars /\ WF_vars(Next)
----------------------------------------------------------------------------
(* A path starts at the "." in the root directory.                         *)
InodeOf(path) == IF Readable(Root) /\ <<Dot, Root>> \in ToSet(tree.listing[Root])
                    /\ \E x \in tree.reached : x[1] = path
                 THEN (CHOOSE x \in tree.reached : x[1] = path)[2] ELSE 0
Done(kind) == pc = "idle" /\ task.kind = kind

(* The scan gives each readable name once, as a directory exactly if its   *)
(* contents are on the tape, however entries fall on the blocks of dump    *)
(* and of restore and whatever was lost (treescan over rst_readdir).       *)
Listed ==
    pc = "idle" =>
        /\ ToSet(listed) = {<<x[1], x[2], IF Readable(x[2]) THEN "NODE" ELSE "LEAF">> : x \in tree.reached}
        /\ Len(listed) = Cardinality(tree.reached)

(* A path is found exactly if it is on the tape, and as the right inode,   *)
(* wherever the reading before left the file (pathsearch).                 *)
Found == Done("lookup") => result = <<InodeOf(task.path)>>

(* The entries of a literal directory, from one to the next by d_reclen.   *)
Walk(cells) ==
    LET from[p \in 1..(Len(cells) + 1)] ==
            IF p > Len(cells) THEN <<>>
            ELSE <<<<cells[p].name, cells[p].ino>>>> \o from[Min({p + Max({cells[p].reclen, 1}), Len(cells) + 1})]
    IN  from[1]
(* A literal copy and a listing have the entries of that directory, in     *)
(* their order, and nothing of its neighbours in the file (genliteraldir,  *)
(* rst_opendir).                                                           *)
Copied ==
    /\ Done("copy") =>
         LET ds == SelectSeq([d \in Dirs |-> d], Readable)
         IN  /\ Len(result) = Len(ds)
             /\ \A k \in DOMAIN ds : /\ result[k][1] = ds[k]
                                    /\ Walk(result[k][2]) = Append(tree.listing[ds[k]], <<Slash, 0>>)
    /\ Done("ls") => result = LET i == InodeOf(task.path)
                              IN  IF Readable(i) THEN tree.listing[i] ELSE <<i>>

(* Each directory that was scanned gets the mode and the attributes of its *)
(* own inode, and a comparison names the one that differs and no other     *)
(* (savemodeinfo, setdirmodes, comparedirmodes).                           *)
OwnModes ==
    LET seen == {x \in tree.reached : Readable(x[2])}
    IN  /\ Done("modes") => ToSet(result) = {<<x[1], x[2], x[2] \in job.attrs>> : x \in seen}
        /\ Done("compare") => ToSet(result) = {x[1] : x \in {x \in seen : x[2] = task.changed}}

(* The extraction and the scan end: no damage makes them go round.         *)
Ends == <>(pc = "idle")
=============================================================================
