---------------------------- MODULE ExtractFiles ----------------------------
(***************************************************************************)
(* How restore takes the leaves of a dump off a tape: the loops of -r and  *)
(* -C over the headers (src/restore/restore.c), and under them, record by  *)
(* record, extractfile, comparefile, getfile, gethead, findinode and       *)
(* readtape (src/restore/tape.c).  A block of the tape that cannot be read *)
(* is replaced by zeros, a dump on a pipe may end anywhere.                *)
(***************************************************************************)
EXTENDS TapeRecords, FiniteSets, FiniteSetsExt

CONSTANTS FsRecs,         \* fssize of restore in records: st_blksize where it extracts
          Plans,          \* what was dumped: sequences of leaves
          MaxLost,        \* unreadable blocks of the tape
          MaxUnwanted,    \* leaves that are not asked for
          CutAnywhere     \* does the input also end within attributes and maps?

VARIABLES job,      \* what is asked of restore, and of which tape
          tape,     \* the records
          pos,      \* the next of them
          spcl,     \* the current header
          curfile,  \* what restore believes to be reading
          pc, then, \* where getfile is, and where it returns to
          g,        \* the variables of getfile and of the function it fills
          leaf,     \* the variables of extractfile and comparefile
          todo,     \* inodes whose NEW or EXTRACT flag is set
          made,     \* what has been extracted
          named     \* leaves about which a message was printed

vars == <<job, tape, pos, spcl, curfile, pc, then, g, leaf, todo, made, named>>

Inos == DOMAIN job.files
maxino == Len(job.files) + 1
NoLeaf == [kind |-> "none", data |-> <<>>, attrs |-> {}]
EAblock == -1            \* curfile.name of readxattr
----------------------------------------------------------------------------
(* Inputs.                                                                 *)
(* A leaf of the disk that -C compares with: the same, or changed.         *)
OnDisk(f) == [there |-> TRUE, mode |-> TRUE, data |-> Whole(f), attrs |-> Attrs(f)]
Changed(f) ==
    LET d == OnDisk(f)
    IN  {d, [d EXCEPT !.there = FALSE], [d EXCEPT !.mode = FALSE],
         [d EXCEPT !.attrs = {InodeAttr([ino |-> 0])}], [d EXCEPT !.attrs = {}]}
        \cup (IF f.kind = "reg" /\ ~f.metaonly
              THEN {[d EXCEPT !.data = Append(@, Zero)], [d EXCEPT !.data = <<>>]}
              ELSE {})
        \cup {[d EXCEPT !.data[n] = Junk] : n \in DOMAIN d.data}

(* Headers at which a caller of getfile looks again.                       *)
Repeated(h) == h.ext \/ h.type = "BITS"
HeaderBefore(t, n) == t[Max({k \in 1..n : IsHeader(t[k])})]
Damages(t) ==
    {[bad |-> B, last |-> Len(t)] :
        B \in {B \in SUBSET (2..(Len(t) \div NTREC)) : Cardinality(B) <= MaxLost}}
    \cup {[bad |-> {}, last |-> n] :
            n \in {n \in 1..Len(t) : n % NTREC = 0 /\ (Repeated(HeaderBefore(t, n)) => CutAnywhere)}}

Jobs(files) ==
    LET Wants == {W \in SUBSET DOMAIN files : Cardinality(W) >= Len(files) - MaxUnwanted}
        same  == [i \in DOMAIN files |-> OnDisk(files[i])]
    IN  {[files |-> files, cmd |-> "r", wanted |-> W, bad |-> d.bad, last |-> d.last, disk |-> same] :
            W \in Wants, d \in Damages(TapeOf(files))}
        \cup UNION {{[files |-> files, cmd |-> "C", wanted |-> DOMAIN files, bad |-> {},
                      last |-> Len(TapeOf(files)), disk |-> [same EXCEPT ![i] = d]] :
                         d \in Changed(files[i])} : i \in DOMAIN files}

NoGet == [fill |-> "null", i |-> 1, size |-> 0, origsize |-> 0, buf |-> <<>>, hole |-> FALSE,
          out |-> <<>>, off |-> 0]
Start(h, fill) == [NoGet EXCEPT !.fill = fill, !.size = h.size, !.origsize = h.size]

(* restore begins behind the header of the map of what is dumped.          *)
Init ==
    \E plan \in Plans : \E j \in Jobs([i \in DOMAIN plan |-> [plan[i] EXCEPT !.ino = i]]) :
        /\ job = j
        /\ tape = TapeOf(j.files)
        /\ pos = 2
        /\ spcl = tape[1]
        /\ curfile = [name |-> 0, using |-> FALSE, ino |-> 0, dip |-> FALSE]
        /\ pc = "data" /\ then = "maps"
        /\ g = Start(tape[1], "null")
        /\ leaf = [ino |-> 0, kind |-> "none", metaonly |-> FALSE, attr |-> FALSE]
        /\ todo = j.wanted
        /\ made = [i \in DOMAIN j.files |->
                     IF j.files[i].metaonly THEN [NoLeaf EXCEPT !.kind = j.files[i].kind] ELSE NoLeaf]
        /\ named = {}
----------------------------------------------------------------------------
(* readtape: the next record of the buffer, which is filled a tape block   *)
(* at a time; the message names what is being restored when it is.         *)
Block(n) == (n - 1) \div NTREC + 1
ZeroRec == [type |-> "zero", cells |-> Zeros(RecBytes)]
ReadError == pos % NTREC = 1 % NTREC /\ Block(pos) \in job.bad /\ curfile.using
readtape == IF Block(pos) \in job.bad THEN ZeroRec ELSE tape[pos]

(* The record is consumed; names are those of the messages about it.       *)
Consume(names) ==
    /\ pos <= job.last
    /\ pos' = pos + 1
    /\ named' = named \cup names \cup IF ReadError THEN {curfile.name} ELSE {}

Present(i) == g.fill = "xattr" \/ spcl.addr[i]     \* readmapflag
InAddr == g.i <= Len(spcl.addr)

(* A function of getfile takes the first n bytes of the buffer ...         *)
fill(x, n) ==
    LET flat  == FlattenSeq(x.buf)
        bytes == [k \in 1..n |-> IF k <= Len(flat) THEN flat[k] ELSE Junk]
        size  == IF x.off + n > Len(x.out) THEN x.off + n ELSE Len(x.out)
    IN  [x EXCEPT !.buf = <<>>, !.hole = FALSE, !.off = @ + n,
                  !.out = IF x.fill = "null" THEN <<>>
                          ELSE [k \in 1..size |->
                                  IF k > x.off /\ k <= x.off + n THEN bytes[k - x.off]
                                  ELSE IF k <= Len(x.out) THEN x.out[k] ELSE Zero]]
(* ... or steps over n bytes; a comparison reads them from the disk.       *)
skip(x, n) ==
    [x EXCEPT !.hole = TRUE, !.off = @ + n,
              !.out = IF x.fill = "cmp" THEN @ \o Zeros(n) ELSE @]

Smaller(a, b) == IF a < b THEN a ELSE b

getfile_Block(x) ==
    IF Len(x.buf) = FsRecs
    THEN fill(x, IF x.size > RecBytes THEN FsRecs * RecBytes ELSE (FsRecs - 1) * RecBytes + x.size)
    ELSE x
getfile_Hole(x) ==
    LET before == IF x.buf = <<>> THEN x
                  ELSE fill(x, IF x.size > RecBytes THEN Len(x.buf) * RecBytes
                               ELSE (Len(x.buf) - 1) * RecBytes + x.size)
    IN  skip(before, Smaller(x.size, RecBytes))

Counted(x) == [x EXCEPT !.i = @ + 1, !.size = @ - RecBytes]
AfterRecord(x) == pc' = (IF x.size - RecBytes <= 0 THEN "rest" ELSE "data")

DataRecord ==
    /\ pc = "data" /\ InAddr /\ Present(g.i)
    /\ Consume({})
    /\ g' = Counted(getfile_Block([g EXCEPT !.buf = Append(@, readtape.cells)]))
    /\ AfterRecord(g)
    /\ UNCHANGED <<job, tape, spcl, curfile, then, leaf, todo, made>>

HoleRecord ==
    /\ pc = "data" /\ InAddr /\ ~Present(g.i)
    /\ g' = Counted(getfile_Hole(g))
    /\ AfterRecord(g)
    /\ UNCHANGED <<job, tape, pos, spcl, curfile, then, leaf, todo, made, named>>

(* What the header has behind the end of the file is read and dropped.     *)
RestOfAddr ==
    /\ pc = "rest" /\ InAddr
    /\ IF Present(g.i) THEN Consume({}) ELSE UNCHANGED <<pos, named>>
    /\ g' = [g EXCEPT !.i = @ + 1]
    /\ UNCHANGED <<job, tape, spcl, curfile, pc, then, leaf, todo, made>>

EndOfAddr ==
    /\ pc \in {"data", "rest"} /\ ~InAddr
    /\ pc' = "head"
    /\ UNCHANGED <<job, tape, pos, spcl, curfile, then, g, leaf, todo, made, named>>

(* gethead: a record that is no header is passed over with a message.  A   *)
(* continuation is taken for that of the file that still misses data.      *)
(* (spcl holds what has been read; within the bounds nobody looks at it    *)
(* before it is a header.)                                                 *)
gethead ==
    /\ pc = "head"
    /\ Consume(IF IsHeader(readtape) THEN {} ELSE {curfile.name})
    /\ IF IsHeader(readtape)
       THEN /\ spcl' = readtape
            /\ pc' = IF g.size > 0 /\ readtape.type = "ADDR" THEN "data" ELSE "tail"
            /\ g' = [g EXCEPT !.i = 1]
       ELSE UNCHANGED <<spcl, pc, g>>
    /\ UNCHANGED <<job, tape, curfile, then, leaf, todo, made>>

(* What is still in the buffer is written.  What is missing is reported,   *)
(* and stepped over; a file that ends in a hole gets its size.             *)
Flush(x) == IF x.buf # <<>> THEN fill(x, Len(x.buf) * RecBytes + x.size) ELSE x
(* Fault: a hole at the end is not made part of the file.                  *)
ftruncate_Not(x) == x
ftruncate(x) ==
    IF x.hole /\ x.fill = "file"
    THEN [x EXCEPT !.out = [k \in 1..x.origsize |-> IF k <= Len(x.out) THEN x.out[k] ELSE Zero]]
    ELSE x
Missing == IF g.size > 0 THEN {curfile.name} ELSE {}

EndOfFile ==
    /\ pc = "tail"
    /\ LET written == Flush(g)
       IN  g' = ftruncate(IF g.size > 0 THEN skip(written, g.size) ELSE written)
    /\ named' = named \cup Missing
    /\ pc' = IF g.size > 0 /\ g.fill = "lnk" THEN "exit" ELSE "find"      \* xtrlnkskip
    /\ UNCHANGED <<job, tape, pos, spcl, curfile, then, leaf, todo, made>>

(* findinode: what is being read from here on.                             *)
Unknown == [name |-> 0, using |-> FALSE, ino |-> 0, dip |-> FALSE]
findinode(h) ==
    CASE h.type = "INODE" -> [Unknown EXCEPT !.ino = h.ino, !.dip = TRUE]
      [] h.type = "END"   -> [Unknown EXCEPT !.ino = maxino]
      [] OTHER            -> Unknown

FindInode ==
    /\ pc = "find"
    /\ curfile' = findinode(spcl)
    /\ pc' = IF spcl.type = "ADDR" THEN "skipaddr" ELSE "return"
    /\ g' = [g EXCEPT !.i = 1]
    /\ UNCHANGED <<job, tape, pos, spcl, then, leaf, todo, made, named>>

SkipAddr ==
    /\ pc = "skipaddr" /\ InAddr
    /\ IF spcl.addr[g.i] THEN Consume({}) ELSE UNCHANGED <<pos, named>>
    /\ g' = [g EXCEPT !.i = @ + 1]
    /\ UNCHANGED <<job, tape, spcl, curfile, pc, then, leaf, todo, made>>

NextHeader ==
    /\ pc = "skipaddr" /\ ~InAddr
    /\ Consume({})
    /\ IF IsHeader(readtape) THEN spcl' = readtape /\ pc' = "find" ELSE UNCHANGED <<spcl, pc>>
    /\ UNCHANGED <<job, tape, curfile, then, g, leaf, todo, made>>

(* terminateinput: wherever getfile is, it returns to its caller at once.  *)
(* Fault: the number of the inode behind all others is not set.            *)
terminateinput_NoInode == Unknown
terminateinput == [Unknown EXCEPT !.ino = maxino]
(* Fault: the warning is left out.                                         *)
EndWarning_None == {}
EndWarning == IF curfile.using THEN {curfile.name} ELSE {}
Reading ==
    \/ pc = "data" /\ InAddr /\ Present(g.i)
    \/ pc = "rest" /\ InAddr /\ Present(g.i)
    \/ pc = "skipaddr" /\ (InAddr => spcl.addr[g.i])
    \/ pc = "head"
EndOfInput ==
    /\ Reading /\ pos > job.last
    /\ named' = named \cup EndWarning
    /\ curfile' = terminateinput
    /\ pc' = "return"
    /\ UNCHANGED <<job, tape, pos, spcl, then, g, leaf, todo, made>>

getfile == DataRecord \/ HoleRecord \/ RestOfAddr \/ EndOfAddr \/ gethead \/ EndOfFile
           \/ FindInode \/ SkipAddr \/ NextHeader \/ EndOfInput
----------------------------------------------------------------------------
(* The callers.  Call(f, fill, back): f is what messages name, back where  *)
(* the caller goes on; skipfile is a call that fills nothing.              *)
Call(name, fill_, back) ==
    /\ pc' = "data" /\ then' = back
    /\ g' = Start(spcl, fill_)
    /\ curfile' = [curfile EXCEPT !.name = name, !.using = (fill_ # "null")]

skipmaps ==
    /\ pc = "return" /\ then = "maps"
    /\ IF spcl.type = "BITS" THEN Call(0, "null", "maps")
       ELSE pc' = "leaf" /\ UNCHANGED <<then, g, curfile>>
    /\ UNCHANGED <<job, tape, pos, spcl, leaf, todo, made, named>>

AtLeaf == pc = "leaf" /\ curfile.ino < maxino
first == Min(todo \cup {maxino})             \* lowerbnd

(* Leaves that should have come before this one are not on the tape.       *)
NotFound ==
    /\ pc = "leaf" /\ first < curfile.ino
    /\ named' = named \cup {first}
    /\ todo' = todo \ {first}
    /\ UNCHANGED <<job, tape, pos, spcl, curfile, pc, then, g, leaf, made>>

(* A leaf that was not asked for, or attributes that were left.            *)
NotExpected ==
    /\ AtLeaf /\ first > curfile.ino
    /\ Call(curfile.name, "null", "leaf")
    /\ UNCHANGED <<job, tape, pos, spcl, leaf, todo, made, named>>
SkippedLeaf ==
    /\ pc = "return" /\ then = "leaf"
    /\ pc' = "leaf"
    /\ UNCHANGED <<job, tape, pos, spcl, curfile, then, g, leaf, todo, made, named>>

Found == AtLeaf /\ first = curfile.ino
ThisLeaf == [ino |-> curfile.ino, kind |-> spcl.kind, metaonly |-> spcl.metaonly, attr |-> FALSE]

(* extractfile up to the return of getfile.  What the caller needs of the  *)
(* header is saved: when getfile returns the next one is current.          *)
extractfile ==
    /\ job.cmd = "r" /\ Found
    /\ leaf' = ThisLeaf
    /\ Call(curfile.ino,
            IF spcl.metaonly THEN "null"
            ELSE IF spcl.kind = "reg" THEN "file" ELSE IF spcl.kind = "lnk" THEN "lnk" ELSE "null",
            "body")
    /\ UNCHANGED <<job, tape, pos, spcl, todo, made, named>>

(* The rest of it.  The target of a link ends at the first zero.  A file   *)
(* or link of which only the metadata was dumped is there already.         *)
Target(out) == SubSeq(out, 1, Min({k \in 1..Len(out) : out[k] = Zero} \cup {Len(out) + 1}) - 1)
Create == [kind |-> leaf.kind, data |-> IF leaf.kind = "lnk" THEN Target(g.out) ELSE g.out, attrs |-> {}]
Exists(ino) == made[ino].kind # "none"
Extracted ==
    /\ job.cmd = "r" /\ pc = "return" /\ then = "body" /\ leaf.kind \in {"reg", "lnk"}
    /\ IF leaf.kind = "lnk" /\ ~leaf.metaonly /\ Target(g.out) = <<>>
       THEN pc' = "skipattr" /\ UNCHANGED made
       ELSE /\ pc' = "attr"
            /\ made' = IF leaf.metaonly THEN made ELSE [made EXCEPT ![leaf.ino] = Create]
    /\ UNCHANGED <<job, tape, pos, spcl, curfile, then, g, leaf, todo, named>>

(* Of a fifo, socket or device the flag for metadata is looked at only     *)
(* here, behind getfile, in the header of what comes next.                 *)
mknod ==
    /\ job.cmd = "r" /\ pc = "return" /\ then = "body" /\ leaf.kind \notin {"reg", "lnk"}
    /\ IF spcl.metaonly
       THEN pc' = "attr" /\ UNCHANGED made
       ELSE IF Exists(leaf.ino)
       THEN pc' = "skipattr" /\ UNCHANGED made
       ELSE pc' = "attr" /\ made' = [made EXCEPT ![leaf.ino] = Create]
    /\ named' = named \cup IF spcl.metaonly # Exists(leaf.ino) THEN {leaf.ino} ELSE {}
    /\ UNCHANGED <<job, tape, pos, spcl, curfile, then, g, leaf, todo>>

(* comparefile.  A socket is skipped; of a fifo, and of a file of which    *)
(* there is only the metadata, nothing but owner and mode is compared.     *)
Disk == job.disk[curfile.ino]
Differs(b) == IF b THEN {leaf.ino} ELSE {}
comparefile ==
    /\ job.cmd = "C" /\ Found
    /\ leaf' = ThisLeaf
    /\ IF spcl.kind = "sock" \/ ~Disk.there \/ spcl.metaonly \/ spcl.kind = "fifo"
       THEN Call(curfile.ino, "null", "skipattr")
       ELSE Call(curfile.ino, IF spcl.kind = "reg" THEN "cmp"
                              ELSE IF spcl.kind = "lnk" THEN "lnk" ELSE "null", "body")
    /\ named' = named \cup
           IF spcl.kind # "sock" /\ (~Disk.there \/ ~Disk.mode) THEN {curfile.ino} ELSE {}
    /\ UNCHANGED <<job, tape, pos, spcl, todo, made>>

(* xtrcmpfile and the read that must find the end of the file.             *)
(* Fault: that read is left out.                                           *)
SameData_NoEnd(out, data) == IsPrefix(out, data)
SameData(out, data) == out = data
Compared ==
    /\ job.cmd = "C" /\ pc = "return" /\ then = "body"
    /\ LET data == job.disk[leaf.ino].data
           same == CASE leaf.kind = "reg" -> SameData(g.out, data)
                     [] leaf.kind = "lnk" -> Target(g.out) = data
                     [] OTHER             -> TRUE
       IN  /\ named' = named \cup Differs(~same)
           /\ pc' = IF leaf.kind = "lnk" /\ ~same THEN "skipattr" ELSE "attr"
    /\ UNCHANGED <<job, tape, pos, spcl, curfile, then, g, leaf, todo, made>>

(* extractattr and compareattr: as long as the current header is one of    *)
(* attributes they are those of this leaf.  readxattr looks at the inode   *)
(* of curfile, which there is none of behind the end of the input.         *)
readxattr ==
    /\ pc = "attr" /\ spcl.ext
    /\ IF curfile.dip THEN Call(EAblock, "xattr", "attr")
       ELSE pc' = "crash" /\ UNCHANGED <<then, g, curfile>>
    /\ UNCHANGED <<job, tape, pos, spcl, leaf, todo, made, named>>

xattr_verify(buffer) == buffer # <<>> /\ buffer[1].part # 0
xattr_compare(attrs, buffer) == Cardinality(attrs) = 1 /\ xattr_verify(buffer) /\ buffer \in attrs
Attribute ==
    /\ pc = "return" /\ then = "attr"
    /\ pc' = "attr"
    /\ leaf' = [leaf EXCEPT !.attr = TRUE]
    /\ IF job.cmd = "r"
       THEN /\ made' = [made EXCEPT ![leaf.ino].attrs =
                           IF xattr_verify(g.out) /\ Exists(leaf.ino) THEN @ \cup {g.out} ELSE @]
            /\ UNCHANGED named
       ELSE /\ named' = named \cup Differs(~xattr_compare(job.disk[leaf.ino].attrs, g.out))
            /\ UNCHANGED made
    /\ UNCHANGED <<job, tape, pos, spcl, curfile, then, g, todo>>

NewAttrs == job.cmd = "C" /\ ~leaf.attr /\ job.disk[leaf.ino].attrs # {}
EndOfAttrs ==
    /\ pc = "attr" /\ ~spcl.ext
    /\ named' = named \cup Differs(NewAttrs)
    /\ pc' = "skipattr"
    /\ UNCHANGED <<job, tape, pos, spcl, curfile, then, g, leaf, todo, made>>

(* skipxattr, and the flags of the entry are cleared.                      *)
skipxattr ==
    /\ \/ pc = "skipattr"
       \/ pc = "return" /\ then = "skipattr"
    /\ IF spcl.ext
       THEN Call(curfile.name, "null", "skipattr") /\ UNCHANGED todo
       ELSE /\ pc' = "leaf" /\ todo' = todo \ {leaf.ino}
            /\ UNCHANGED <<then, g, curfile>>
    /\ UNCHANGED <<job, tape, pos, spcl, leaf, made, named>>

Done ==
    /\ pc = "leaf" /\ curfile.ino = maxino /\ todo = {}
    /\ pc' = "end"
    /\ UNCHANGED <<job, tape, pos, spcl, curfile, then, g, leaf, todo, made, named>>

leaves == NotFound \/ NotExpected \/ SkippedLeaf \/ extractfile \/ Extracted \/ mknod
          \/ comparefile \/ Compared \/ readxattr \/ Attribute \/ EndOfAttrs \/ skipxattr \/ Done

Next == skipmaps \/ getfile \/ leaves
Spec == Init /\ [][Next]_vars /\ WF_vars(Next)
----------------------------------------------------------------------------
(* Properties.                                                             *)

(* Where a leaf lies on the tape: its records without its attributes, its  *)
(* attributes, and the header that follows.                                *)
Before(ino) == Len(dumpmap) + Len(FlattenSeq([k \in 1..(ino - 1) |-> dumpino(job.files[k])]))
MainLen(ino) == Len(dumpino(job.files[ino])) - Len(dump_xattr(job.files[ino]))
Main(ino)  == (Before(ino) + 1)..(Before(ino) + MainLen(ino))
Records(ino) == (Before(ino) + 1)..(Before(ino) + Len(dumpino(job.files[ino])) + 1)
Readable(S) == \A n \in S : Block(n) \notin job.bad /\ n < job.last

GoodData(ino) ==
    LET f == job.files[ino]
    IN  /\ made[ino].kind = f.kind
        /\ made[ino].data = IF f.kind \in {"reg", "lnk"} THEN Whole(f) ELSE made[ino].data
GoodAttrs(ino) == made[ino].attrs = Attrs(job.files[ino])

(* A leaf that is asked for and whose records can be read comes back byte  *)
(* by byte, whatever else is damaged: holes, blocks behind its end and     *)
(* headers of its continuation included; the input must go on behind them. *)
(* Its attributes come back if the header behind them can be read too.     *)
IntactRestored ==
    pc = "end" /\ job.cmd = "r" =>
        \A ino \in job.wanted :
            /\ Readable(Main(ino)) => GoodData(ino)
            /\ Readable(Records(ino)) => GoodAttrs(ino)

(* A leaf whose contents do not come back as they were is named in a       *)
(* message.  (A leaf of which only the header of the attributes is left is *)
(* taken to be what that header says, and attributes may go to the wrong   *)
(* leaf without a word: README.)                                           *)
HeaderLost(ino) == ~Readable({Before(ino) + 1}) /\ dump_xattr(job.files[ino]) # <<>>
WrongNamed ==
    pc = "end" /\ job.cmd = "r" =>
        \A ino \in job.wanted : GoodData(ino) \/ ino \in named \/ HeaderLost(ino)

(* -C names a leaf exactly if the disk differs from the tape in what is    *)
(* compared for a leaf of this kind.                                       *)
CompareTells ==
    pc = "end" /\ job.cmd = "C" =>
        \A ino \in Inos :
            LET f == job.files[ino]
                d == job.disk[ino]
                o == OnDisk(f)
            IN  ino \in named <=>
                  IF f.kind = "sock" THEN FALSE
                  ELSE IF f.kind = "fifo" \/ f.metaonly THEN ~d.there \/ ~d.mode
                  ELSE d # o

(* restore ends: no damage and no end of the input makes it go round for   *)
(* ever, or use the inode it does not have.                                *)
Ends == <>(pc \in {"end", "exit"})
=============================================================================
