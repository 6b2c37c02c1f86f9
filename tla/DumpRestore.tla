---------------------------- MODULE DumpRestore -----------------------------
(***************************************************************************)
(* What the volumes of DumpVolumes are worth: read back as RestoreTape     *)
(* reads them, they must give what was dumped.                             *)
(***************************************************************************)
EXTENDS DumpVolumes, RestoreTape

(* A finished dump reads back whole: every header and every block, in       *)
(* order, wherever the volumes were changed or rewritten.                   *)
RestoreReads == mpc = "done" => IsPrefix(Logical, ReadBack(tapes))

(* ... and is followed by the end of tape header that makes restore stop    *)
(* instead of asking for one more volume.                                   *)
EndMarked ==
    mpc = "done" =>
        LET out == ReadBack(tapes)
        IN  Len(out) > Len(Logical) /\ out[Len(Logical) + 1] = EndRec

LaterVolumes == {v \in DOMAIN tapes \ {1} : tapes[v] # << >>}

(* The count in the header of a later volume is the distance to the next    *)
(* header (slave.h), by which restore finds that header when it comes to    *)
(* the volume at random.                                                    *)
CountIsDistance ==
    \A v \in LaterVolumes :
        LET count == Head(tapes[v]).count
            next  == SelectInSubSeq(tapes[v], 2, Len(tapes[v]), IsHeader)
        IN  IF next = 0 THEN count >= Len(tapes[v]) - 1 ELSE count = next - 2
=============================================================================
