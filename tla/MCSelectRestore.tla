--------------------------- MODULE MCSelectRestore --------------------------
EXTENDS SelectRestore

Rec(t, ino, count, left) ==
    [t |-> t, ino |-> ino, count |-> count, left |-> left, dir |-> FALSE, info |-> <<>>, firstrec |-> 0]
Data(ino, k) == [t |-> "DATA", ino |-> ino, k |-> k]
Maps == <<Rec("CLRI", 0, 1, 1), Data(0, 1), Rec("BITS", 0, 1, 1), Data(0, 2),
          [Rec("INODE", Root, 1, 1) EXCEPT !.dir = TRUE], Data(Root, 1)>>
Files == <<Rec("INODE", 3, 1, 1), Data(3, 1),
           Rec("INODE", 5, 2, 3), Data(5, 1), Data(5, 2), Rec("ADDR", 5, 1, 1), Data(5, 3),
           Rec("INODE", 8, 1, 1), Data(8, 1)>>
TheEnd(info) == <<[Rec("END", 0, 0, 0) EXCEPT !.info = info]>>
Stream(info) == Maps \o Files \o TheEnd(info)
DataIn(i) == SelectSeq(Files, LAMBDA rec : rec.t = "DATA" /\ rec.ino = i)

(* The volumes of a dump: volume v holds the records after cuts[v - 1] up  *)
(* to cuts[v], the last one after its again last ones of the volume before.*)
Distance(stream, from) == Min({k \in from..Len(stream) : IsHeader(stream[k])}) - from
VolumesOf(cuts, again, info) ==
    LET stream == Stream(info)
        n == Len(cuts) + 1
        First(v) == IF v = 1 THEN 1 ELSE cuts[v - 1] + 1 - (IF v = n THEN again ELSE 0)
        Until(v) == IF v = n THEN Len(stream) ELSE cuts[v]
    IN  [v \in 1..n |->
            <<[Rec("TAPE", 0, IF v = 1 THEN 1 ELSE Distance(stream, First(v)), 0)
                  EXCEPT !.firstrec = First(v) + v - 2]>> \o SubSeq(stream, First(v), Until(v))]
VolinfoOf(cuts) ==
    <<Root>> \o [v \in DOMAIN cuts |-> Stream(<<>>)[cuts[v] + 1].ino]

AllNames == [a |-> 3, b |-> 5, b2 |-> 5, d |-> 8, lost |-> 6]
Chosen(S) == [n \in S |-> AllNames[n]]
Plan(aflag, cuts, again, archived, names, extracts) ==
    LET info == IF archived THEN VolinfoOf(cuts) ELSE <<>>
    IN  [aflag |-> aflag, volumes |-> VolumesOf(cuts, again, info),
         archive |-> IF archived THEN <<Rec("TAPE", 0, 1, 0)>> \o Maps \o TheEnd(info) ELSE <<>>,
         names |-> Chosen(names), dumpmap |-> {Root, 3, 5, 6, 8}, maxino |-> 10,
         extracts |-> extracts, data |-> [i \in 0..9 |-> DataIn(i)]]

(* The places where a volume may end: Maps has 6 records, the headers of   *)
(* Files are at 7, 9, 12 and 14, the end at 16.                            *)
InOrder == {Plan(TRUE, cuts, 0, FALSE, {"b", "b2", "d", "lost"}, 1) : cuts \in {<<7, 12>>, <<9, 14>>, <<12, 14>>}}
           \cup {Plan(TRUE, <<10, 14>>, 1, FALSE, {"a", "b", "d"}, 1)}
Random == {Plan(FALSE, <<8, 13>>, 0, FALSE, {"b", "b2", "d", "lost"}, 1),
           Plan(FALSE, <<10, 13>>, 0, FALSE, {"a", "b", "d"}, 2)}
Archived == {Plan(TRUE, <<10, 14>>, 0, TRUE, names, 1) : names \in {{"a"}, {"d", "lost"}}}
MCPlans == InOrder \cup Random \cup Archived

(* A volume that begins in a file, mounted before the one it continues.    *)
MidFilePlans == {Plan(FALSE, <<12>>, 0, FALSE, {"d"}, 1)}
(* An archive file, and files on two volumes.                              *)
TwoVolumePlans == {Plan(TRUE, <<10, 14>>, 0, TRUE, {"a", "d"}, 1)}
=============================================================================
