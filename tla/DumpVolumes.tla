---------------------------- MODULE DumpVolumes -----------------------------
(***************************************************************************)
(* The master of a dump across the volumes, record by record: writerec,    *)
(* dumpblock, flushtape, trewind, rollforward and the checkpoints of       *)
(* startnewtape (src/dump/tape.c), driven by the records that traverse.c   *)
(* and main.c produce.  The slaves appear only as what VolumeWriter        *)
(* promises: blocks reach the tape in order, at most N of them             *)
(* unconfirmed.  What a block did is decided when its result is read.      *)
(***************************************************************************)
EXTENDS Integers, Sequences, FiniteSets, SequencesExt

CONSTANTS
    N,          \* slaves
    Ntrec,      \* records in a block, -b
    Items,      \* what is dumped: a sequence of [kind, addr], see below
    MinBlocks,  \* bound: blocks confirmed before a volume ends
    Limits      \* bounds, of which each behaviour takes one: volumes,
                \* volumes ended by the device, volumes rewritten, and blocks
                \* found on a volume beyond its end of tape

(* An item is an inode map ("map", one record for each element of addr) or  *)
(* an inode ("inode"): its header lists in addr which blocks are there      *)
(* (TRUE) and which are holes.                                              *)
ASSUME ConstantsAssumption ==
    /\ N \in Nat \ {0} /\ Ntrec \in Nat \ {0, 1}
    /\ MinBlocks \in Nat
    /\ Limits \subseteq [volumes : Nat \ {0}, eots : Nat, rewrites : Nat,
                         dup : 0 .. N]
    /\ Items \in Seq([kind : {"map", "inode"}, addr : Seq(BOOLEAN)])

VARIABLES
    mpc,        \* where the master is
    m,          \* its memory, the part that a checkpoint saves
    vol,        \* the blocks handed to the slaves on this volume
    acked,      \* how many of them were confirmed
    tapes,      \* the finished volumes, each a sequence of records
    ckpt,       \* what the parent process saved when this volume was started
    eots, rewrites,
    limits      \* the bounds of this behaviour

vars == <<mpc, m, vol, acked, tapes, ckpt, eots, rewrites, limits>>

Slots == 0 .. N - 1
Next(s) == IF s + 1 >= N THEN 0 ELSE s + 1

-----------------------------------------------------------------------------
(* Records.  A volume header carries what restore steers by.                *)

TapeRec(count, tapea, firstrec) ==
    [t |-> "tape", count |-> count, tapea |-> tapea, firstrec |-> firstrec]
HeaderRec(item) == [t |-> "header", item |-> item]
DataRec(item, i) == [t |-> "data", item |-> item, i |-> i]
EndRec == [t |-> "end"]

IsHeader(r) == r.t # "data"

(* What is there to be read back: the headers and the blocks that are no    *)
(* holes, in order.                                                         *)
Present(item) ==
    LET addr == Items[item].addr
        there[i \in 0 .. Len(addr)] ==
            IF i = 0 THEN << >>
            ELSE there[i - 1] \o (IF addr[i] THEN <<i>> ELSE << >>)
    IN  there[Len(addr)]
RecordsOf(item) ==
    <<HeaderRec(item)>> \o [i \in 1 .. Len(Present(item)) |-> DataRec(item, Present(item)[i])]
Logical == FlattenSeq([item \in 1 .. Len(Items) |-> RecordsOf(item)])

-----------------------------------------------------------------------------
(* The master's memory: the slots, the fields of spcl, and how far the      *)
(* passes of the dump have come.                                            *)

(* TP_NINDIR, the length of spcl.c_addr, as far as the items need it. *)
AddrLen == Max({Len(Items[i].addr) : i \in DOMAIN Items})

EmptySlot == [recs |-> << >>, count |-> 0, tapea |-> 0, firstrec |-> 0]

(* alloctape; spcl.c_type is TS_TAPE until the first map. *)
InitialMemory ==
    [slp |-> 0,
     slot |-> [s \in Slots |-> IF s = 0 THEN [EmptySlot EXCEPT !.count = 1]
                                        ELSE EmptySlot],
     tapea |-> 0, last |-> -1,
     type |-> "tape", count |-> 0, addr |-> [j \in 1 .. AddrLen |-> FALSE],
     item |-> 0, i |-> 0, trailer |-> 0]

(* writerec and dumpblock, one record: it goes to the buffer of slot slp.   *)
Put(c, rec) ==
    [c EXCEPT !.slot[c.slp].recs = Append(@, rec),
              !.last = IF IsHeader(rec) THEN c.tapea ELSE @,
              !.tapea = @ + 1]

BufferFull(c) == Len(c.slot[c.slp].recs) >= Ntrec

(* The number of records that follow the current header: the loop over      *)
(* spcl.c_addr, which a map leaves as it was.                               *)
Blks(c) == CASE c.type = "map" -> c.count
             [] c.type = "end" -> 0
             [] OTHER -> Cardinality({j \in 1 .. c.count : c.addr[j]})

(* startnewtape in the child: the volume header.  It leaves its type and    *)
(* count in spcl.                                                           *)
VolumeHeader(c) ==
    TapeRec(c.slot[c.slp].count, c.tapea, c.slot[c.slp].firstrec)
StampHeader(c) == [c EXCEPT !.type = "tape", !.count = c.slot[c.slp].count]

(* flushtape after the send: the next slot takes over, with the distance to *)
(* the next header, the record number and the position on the tape.         *)
Advance(c) ==
    LET s == Next(c.slp)
        before == c.slot[c.slp].firstrec
    IN  [c EXCEPT !.slp = s,
                  !.slot[s] = [recs |-> << >>,
                               count |-> c.last + Blks(c) + 1 - c.tapea,
                               tapea |-> c.tapea,
                               firstrec |-> before + Ntrec]]

(* rollforward: the requests of all slots, from slp on, move up by one      *)
(* record to make room for the volume header; N blocks are sent and the     *)
(* last record begins the next one.  Slot buffers other than slp's keep     *)
(* what they had.                                                           *)
SlotAt(c, k) == LET s == c.slp + k IN IF s >= N THEN s - N ELSE s

(* Fault: the header describes the newest block instead of the oldest. *)
Replayed_NewestHeader(c) ==
    LET newest == c.slot[SlotAt(c, N - 1)]
    IN  <<TapeRec(newest.count, newest.tapea, newest.firstrec)>>
          \o FlattenSeq([k \in 1 .. N |-> c.slot[SlotAt(c, k - 1)].recs])

Replayed(c) ==
    LET header == TapeRec(c.slot[c.slp].count, c.slot[c.slp].tapea,
                          c.slot[c.slp].firstrec)
    IN  <<header>> \o FlattenSeq([k \in 1 .. N |-> c.slot[SlotAt(c, k - 1)].recs])

ReplayedBlocks(c) ==
    [b \in 1 .. N |-> SubSeq(Replayed(c), (b - 1) * Ntrec + 1, b * Ntrec)]

AfterRollforward(c) ==
    LET stamped == [StampHeader(c) EXCEPT !.last = c.tapea - 1]
    IN  [stamped EXCEPT
           !.slot[c.slp] =
               [recs |-> <<Last(Replayed(c))>>,
                count |-> stamped.last + Blks(stamped) + 1 - stamped.tapea,
                tapea |-> @.tapea,
                firstrec |-> c.slot[SlotAt(c, N - 1)].firstrec + Ntrec]]

(* What the child process of startnewtape starts from: "top" is the call in *)
(* main, "next" the one in flushtape, "roll" the one in rollforward.        *)
Resume(k) ==
    IF k.how = "roll"
    THEN /\ mpc' = "first" /\ m' = AfterRollforward(k.mem)
         /\ vol' = ReplayedBlocks(k.mem)
    ELSE /\ mpc' = "fill"
         /\ m' = Put(StampHeader(k.mem), VolumeHeader(k.mem))
         /\ vol' = << >>

StartNewTape(how, mem) ==
    /\ ckpt' = [how |-> how, mem |-> mem]
    /\ Resume(ckpt')
    /\ acked' = 0

(* The tape as it is found later: the first n blocks of this volume. *)
OnTape(n) == FlattenSeq(SubSeq(vol, 1, n))

-----------------------------------------------------------------------------
Init == /\ ckpt = [how |-> "top", mem |-> InitialMemory]
        /\ m = Put(StampHeader(InitialMemory), VolumeHeader(InitialMemory))
        /\ mpc = "fill" /\ vol = << >> /\ acked = 0
        /\ tapes = << >> /\ eots = 0 /\ rewrites = 0
        /\ limits \in Limits

InTrailer == m.item > Len(Items)

ItemDone ==
    \/ m.item = 0
    \/ /\ m.item \in DOMAIN Items
       /\ m.i >= IF Items[m.item].kind = "map" THEN m.count
                 ELSE Len(Present(m.item))

(* The passes.  dumpmap, or writeheader in blksout: the header of the next  *)
(* item.                                                                    *)
NextHeader ==
    /\ mpc = "fill" /\ ~BufferFull(m)
    /\ ItemDone /\ m.item < Len(Items)
    /\ LET next == Items[m.item + 1]
       IN  m' = Put([m EXCEPT !.item = @ + 1, !.i = 0,
                              !.type = next.kind, !.count = Len(next.addr),
                              !.addr = [j \in DOMAIN @ |->
                                  IF next.kind = "inode" /\ j <= Len(next.addr)
                                  THEN next.addr[j] ELSE @[j]]],
                    HeaderRec(m.item + 1))
    /\ UNCHANGED <<mpc, vol, acked, tapes, ckpt, eots, rewrites>>

(* The next record of the item: of the map, in the loop of dumpmap that     *)
(* runs up to spcl.c_count, or of the blocks that are there.                *)
NextData ==
    /\ mpc = "fill" /\ ~BufferFull(m) /\ ~InTrailer /\ ~ItemDone
    /\ m' = Put([m EXCEPT !.i = @ + 1],
                DataRec(m.item, IF Items[m.item].kind = "map" THEN m.i + 1
                                ELSE Present(m.item)[m.i + 1]))
    /\ UNCHANGED <<mpc, vol, acked, tapes, ckpt, eots, rewrites>>

(* Fault: a full buffer gets no trailer. *)
BeginTrailer_NoneWhenFull ==
    /\ mpc = "fill" /\ ~BufferFull(m)
    /\ ItemDone /\ m.item = Len(Items)
    /\ m' = [m EXCEPT !.type = "end", !.item = @ + 1,
                      !.trailer = (Ntrec - (m.tapea % Ntrec)) % Ntrec]
    /\ UNCHANGED <<mpc, vol, acked, tapes, ckpt, eots, rewrites>>

(* main after the passes: the number of trailers, and each of them.  A      *)
(* volume header in between has left its type in spcl.                      *)
BeginTrailer ==
    /\ mpc = "fill" /\ ~BufferFull(m)
    /\ ItemDone /\ m.item = Len(Items)
    /\ m' = [m EXCEPT !.type = "end", !.item = @ + 1,
                      !.trailer = Ntrec - (m.tapea % Ntrec)]
    /\ UNCHANGED <<mpc, vol, acked, tapes, ckpt, eots, rewrites>>

NextTrailer ==
    /\ mpc = "fill" /\ ~BufferFull(m) /\ m.trailer > 0
    /\ m' = Put([m EXCEPT !.trailer = @ - 1],
                IF m.type = "end" THEN EndRec ELSE TapeRec(m.count, m.tapea, 0))
    /\ UNCHANGED <<mpc, vol, acked, tapes, ckpt, eots, rewrites>>

EndOfDump ==
    /\ mpc = "fill" /\ ~BufferFull(m) /\ InTrailer /\ m.trailer = 0
    /\ mpc' = "last"
    /\ UNCHANGED <<m, vol, acked, tapes, ckpt, eots, rewrites>>

(* flushtape: the block of slot slp is sent; the next slot is looked at.    *)
Flush ==
    /\ mpc = "fill" /\ BufferFull(m)
    /\ vol' = Append(vol, m.slot[m.slp].recs)
    /\ mpc' = "result"
    /\ UNCHANGED <<m, acked, tapes, ckpt, eots, rewrites>>

Outstanding == Len(vol) - acked

(* No result is due yet, or it is good: the next slot takes over, and the   *)
(* volume may have reached its size.                                        *)
FlushGood ==
    /\ mpc = "result"
    /\ acked' = IF Outstanding >= N THEN acked + 1 ELSE acked
    /\ m' = Advance(m)
    /\ \/ mpc' = "fill"
       \/ /\ Len(vol) >= MinBlocks /\ Len(tapes) + 1 < limits.volumes
          /\ mpc' = "full"
    /\ UNCHANGED <<vol, tapes, ckpt, eots, rewrites>>

(* The result says end of tape, or it is an error and the operator wants    *)
(* the next tape.  The results of the other slots are dropped; their blocks *)
(* may be on the tape all the same.                                         *)
FlushEndOfTape ==
    /\ mpc = "result" /\ Outstanding >= N
    /\ acked >= MinBlocks /\ eots < limits.eots /\ Len(tapes) + 1 < limits.volumes
    /\ \E dup \in 0 .. limits.dup : tapes' = Append(tapes, OnTape(acked + dup))
    /\ StartNewTape("roll", [m EXCEPT !.slp = Next(@)])
    /\ eots' = eots + 1
    /\ UNCHANGED rewrites

(* rollforward reads the result of its first block. *)
FirstGood ==
    /\ mpc = "first"
    /\ mpc' = "fill" /\ acked' = 1
    /\ UNCHANGED <<m, vol, tapes, ckpt, eots, rewrites>>

(* trewind, all outstanding results good: the next volume, or the end. *)
CloseFull ==
    /\ mpc = "full"
    /\ tapes' = Append(tapes, OnTape(Len(vol)))
    /\ StartNewTape("next", m)
    /\ UNCHANGED <<eots, rewrites>>

CloseLast ==
    /\ mpc = "last"
    /\ tapes' = Append(tapes, OnTape(Len(vol)))
    /\ mpc' = "done"
    /\ UNCHANGED <<m, vol, acked, ckpt, eots, rewrites>>

(* A write error where a result is read. *)
ErrorSeen == \/ mpc = "result" /\ Outstanding >= N
             \/ mpc \in {"full", "last"} /\ Outstanding > 0
             \/ mpc = "first"

(* The operator has the volume rewritten: this process exits X_REWRITE and  *)
(* the parent, which kept the memory of the volume's start, forks again.    *)
Rewrite ==
    /\ ErrorSeen /\ rewrites < limits.rewrites
    /\ rewrites' = rewrites + 1
    /\ Resume(ckpt) /\ acked' = 0
    /\ UNCHANGED <<tapes, ckpt, eots>>

(* The operator gives up, or the end of tape comes in trewind or on the     *)
(* first block of a volume that rollforward began.                          *)
Abort ==
    /\ ErrorSeen
    /\ mpc' = "aborted"
    /\ UNCHANGED <<m, vol, acked, tapes, ckpt, eots, rewrites>>

(* "Start the next tape" where tperror's caller just goes on: the block is  *)
(* missing from now on (SlaveRing's skipped); not followed here.   *)
GoOnWithGap ==
    /\ mpc \in {"full", "last", "first"} /\ ErrorSeen
    /\ mpc' = "gap"
    /\ UNCHANGED <<m, vol, acked, tapes, ckpt, eots, rewrites>>

Stopped ==
    /\ mpc \in {"done", "aborted", "gap"}
    /\ UNCHANGED <<mpc, m, vol, acked, tapes, ckpt, eots, rewrites>>

Step == /\ \/ NextHeader \/ NextData \/ BeginTrailer \/ NextTrailer \/ EndOfDump
           \/ Flush \/ FlushGood \/ FlushEndOfTape \/ FirstGood
           \/ CloseFull \/ CloseLast
           \/ Rewrite \/ Abort \/ GoOnWithGap \/ Stopped
        /\ UNCHANGED limits

Spec == Init /\ [][Step]_vars
=============================================================================
