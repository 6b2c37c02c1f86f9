---------------------------- MODULE TapeRecords ----------------------------
(***************************************************************************)
(* The records that dump writes for one leaf (src/dump/traverse.c:         *)
(* dumpino, dumponeblock, blksout, dump_xattr) and the tape they make up.  *)
(* Sizes are scaled: a record of TP_BSIZE bytes is RecBytes cells long, a  *)
(* block of the dumped file system BlockRecs records.  A cell stands for   *)
(* one byte by where it comes from, so that a byte that ends up in the     *)
(* wrong file or at the wrong place is seen.                               *)
(***************************************************************************)
EXTENDS Integers, Sequences, SequencesExt

CONSTANTS RecBytes,   \* TP_BSIZE, in cells
          BlockRecs,  \* tape records in a block of the dumped file system
          TP_NINDIR,  \* records that one header describes
          NINDIR,     \* blocks that dumponeblock collects for one blksout
          NTREC       \* records in a block of the tape

ASSUME SizesAssumption ==
    {RecBytes, BlockRecs, TP_NINDIR, NINDIR, NTREC} \subseteq Nat \ {0}

Pieces(s, n) == [k \in 1..((Len(s) + n - 1) \div n) |->
                    SubSeq(s, (k - 1) * n + 1, IF k * n < Len(s) THEN k * n ELSE Len(s))]
----------------------------------------------------------------------------
(* Bytes.  part 0 is the contents, 1 the attributes in the inode, 2 the    *)
(* attributes in their own block.                                          *)
Cell(ino, part, n) == [of |-> ino, part |-> part, at |-> n]
Zero == Cell(0, 0, 0)       \* a zero byte
Junk == Cell(0, 0, 1)       \* a byte that nobody wrote for this purpose
Zeros(n) == [k \in 1..n |-> Zero]

BlockBytes == BlockRecs * RecBytes
HasBlock(f, b) == b <= Len(f.blocks) /\ f.blocks[b]
(* The n-th byte of the file: a block that lies behind the end of the file *)
(* (preallocated) holds anything.                                          *)
ByteAt(f, n) == IF ~HasBlock(f, (n - 1) \div BlockBytes + 1) THEN Zero
                ELSE IF n > f.size THEN Junk ELSE Cell(f.ino, 0, n)
Contents(f) == [n \in 1..f.size |-> ByteAt(f, n)]

(* The attributes of f as readxattr must find them.                        *)
InodeAttr(f) == <<Cell(f.ino, 1, 1)>>
BlockAttr(f) == [n \in 1..BlockBytes |-> Cell(f.ino, 2, n)]
Attrs(f) == (IF f.xinode THEN {InodeAttr(f)} ELSE {}) \cup (IF f.xblock THEN {BlockAttr(f)} ELSE {})
----------------------------------------------------------------------------
(* A record of the tape is a header or data.  A header keeps what restore  *)
(* looks at; addr tells for each record it describes whether it is on the  *)
(* tape, so that c_count is its length.                                    *)
DataRec(cells) == [type |-> "data", cells |-> cells]
Header(f, type, size) ==
    [type |-> type, ino |-> f.ino, kind |-> f.kind, size |-> size,
     addr |-> <<>>, ext |-> FALSE, metaonly |-> FALSE]
IsHeader(r) == r.type \notin {"data", "zero"}

(* A header and the present records among those it describes.              *)
writeheader(h, recs) ==
    <<[h EXCEPT !.addr = [k \in 1..Len(recs) |-> recs[k].present]]>>
    \o LET here == SelectSeq(recs, LAMBDA r : r.present)
       IN  [k \in 1..Len(here) |-> DataRec(here[k].cells)]

blksout(h, recs) ==
    LET pieces == Pieces(recs, TP_NINDIR)
    IN  FlattenSeq([k \in 1..Len(pieces) |->
            writeheader(IF k = 1 THEN h ELSE [h EXCEPT !.type = "ADDR"], pieces[k])])

(* The records of block b of f; those of a hole are not present.           *)
BlockRecords(f, b) ==
    [r \in 1..BlockRecs |->
        [present |-> HasBlock(f, b),
         cells |-> [c \in 1..RecBytes |->
                        ByteAt(f, (b - 1) * BlockBytes + (r - 1) * RecBytes + c)]]]

(* Blocks are collected up to the last one that is allocated, then holes   *)
(* are added up to the size.  What has been collected goes out in pieces   *)
(* of NINDIR blocks, of which only the first begins the file.              *)
dumponeblock(f) ==
    LET sized == (f.size + BlockBytes - 1) \div BlockBytes
        count == IF Len(f.blocks) > sized THEN Len(f.blocks) ELSE sized
        pieces == Pieces([b \in 1..count |-> b], NINDIR)
    IN  FlattenSeq([k \in 1..Len(pieces) |->
            blksout(Header(f, IF k = 1 THEN "INODE" ELSE "ADDR", f.size),
                    FlattenSeq([j \in 1..Len(pieces[k]) |-> BlockRecords(f, pieces[k][j])]))])

(* The attributes follow the file, each with a header of its own that      *)
(* carries the number of the file's inode.                                 *)
dump_xattr(f) ==
    LET h(size) == [Header(f, "INODE", size) EXCEPT !.ext = TRUE]
        Padded(cells, r) == [c \in 1..RecBytes |->
            IF (r - 1) * RecBytes + c \in DOMAIN cells THEN cells[(r - 1) * RecBytes + c] ELSE Zero]
        Recs(cells, n) == [r \in 1..n |-> [present |-> TRUE, cells |-> Padded(cells, r)]]
    IN  (IF f.xinode THEN writeheader(h(1), Recs(InodeAttr(f), 1)) ELSE <<>>)
        \o (IF f.xblock THEN blksout(h(BlockBytes), Recs(BlockAttr(f), BlockRecs)) ELSE <<>>)

ShortLink(f) == f.kind = "lnk" /\ f.blocks = <<>>
dumpino(f) ==
    (IF f.metaonly
     THEN writeheader([Header(f, "INODE", 0) EXCEPT !.metaonly = TRUE], <<>>)
     ELSE IF ShortLink(f)
     THEN writeheader(Header(f, "INODE", f.size),
                      <<[present |-> TRUE,
                         cells |-> [c \in 1..RecBytes |->
                             IF c <= f.size THEN Cell(f.ino, 0, c) ELSE Zero]]>>)
     ELSE IF f.kind \in {"reg", "lnk"} /\ f.size > 0
     THEN dumponeblock(f)
     ELSE writeheader(Header(f, "INODE", f.size), <<>>))
    \o dump_xattr(f)

(* What a file comes back as: a short link has no block.                   *)
Whole(f) == IF f.metaonly THEN <<>>
            ELSE IF ShortLink(f) THEN [c \in 1..f.size |-> Cell(f.ino, 0, c)] ELSE Contents(f)
----------------------------------------------------------------------------
(* The tape: the map of what is dumped, the files in the order of their    *)
(* inodes, and headers TS_END that fill the last block and one more.       *)
NoInode == [ino |-> 0, kind |-> "none"]
dumpmap == writeheader(Header(NoInode, "BITS", RecBytes),
                       <<[present |-> TRUE, cells |-> [c \in 1..RecBytes |-> Junk]]>>)
TapeOf(files) ==
    LET body == dumpmap \o FlattenSeq([k \in 1..Len(files) |-> dumpino(files[k])])
        ends == 2 * NTREC - (Len(body) % NTREC)
    IN  body \o [k \in 1..ends |-> Header([ino |-> Len(files) + 1, kind |-> "none"], "END", 0)]
=============================================================================
