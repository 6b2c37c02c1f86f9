---------------------------- MODULE RestoreTape -----------------------------
(***************************************************************************)
(* How restore reads a dump back, volume after volume: readtape and getvol *)
(* (src/restore/tape.c) for uncompressed volumes, as functions of what is  *)
(* on the volumes.  A volume is a sequence of records, the first of which  *)
(* is the volume header; the records are those of DumpVolumes.             *)
(***************************************************************************)
EXTENDS Integers, Sequences, SequencesExt

(* Fault: the volume header is counted as one of the records read twice. *)
Duplicates_CountsHeader(tpblksread, header) ==
    IF header.firstrec > 0 /\ header.firstrec < tpblksread
    THEN tpblksread - header.firstrec
    ELSE 0

(* getvol when the reader continues from the volume before: the header      *)
(* counts as read, and as many records are skipped as were read beyond the  *)
(* point at which this volume starts.                                       *)
Duplicates(tpblksread, header) ==
    IF header.firstrec > 0 /\ header.firstrec < tpblksread - 1
    THEN tpblksread - header.firstrec - 1
    ELSE 0

ReadVolume(r, volume) ==
    LET dups == Duplicates(r.tpblksread + 1, Head(volume))
    IN  [out |-> r.out \o SubSeq(volume, 2 + dups, Len(volume)),
         tpblksread |-> r.tpblksread + Len(volume)]

(* The records restore sees after the volume headers, to the end of the     *)
(* last volume on which something was written.                              *)
Reading(volumes) ==
    LET read[v \in 0 .. Len(volumes)] ==
            IF v = 0 THEN [out |-> << >>, tpblksread |-> 0]
            ELSE IF volumes[v] = << >> THEN read[v - 1]
            ELSE ReadVolume(read[v - 1], volumes[v])
    IN  read[Len(volumes)]
ReadBack(volumes) == Reading(volumes).out
=============================================================================
