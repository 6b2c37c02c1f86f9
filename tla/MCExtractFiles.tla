--------------------------- MODULE MCExtractFiles ---------------------------
EXTENDS ExtractFiles

Leaf(kind, size, blocks, xinode, xblock) ==
    [ino |-> 0, kind |-> kind, size |-> size, blocks |-> blocks, xinode |-> xinode,
     xblock |-> xblock, metaonly |-> FALSE]
Long    == Leaf("reg", 9, <<TRUE, TRUE, TRUE, TRUE, TRUE>>, FALSE, TRUE)
Sparse  == Leaf("reg", 8, <<FALSE, FALSE, TRUE>>, FALSE, FALSE)
Gap     == Leaf("reg", 6, <<TRUE, FALSE, TRUE>>, TRUE, FALSE)
HoleEnd == Leaf("reg", 5, <<TRUE, TRUE>>, FALSE, FALSE)
Behind  == Leaf("reg", 1, <<TRUE, TRUE, TRUE>>, FALSE, FALSE)
Empty   == Leaf("reg", 0, <<>>, FALSE, TRUE)
Meta    == [Leaf("reg", 3, <<TRUE, TRUE>>, FALSE, TRUE) EXCEPT !.metaonly = TRUE]
Link    == Leaf("lnk", 1, <<>>, TRUE, FALSE)
LongLink == Leaf("lnk", 3, <<TRUE, TRUE>>, FALSE, FALSE)
Fifo    == Leaf("fifo", 0, <<>>, FALSE, FALSE)
Sock    == Leaf("sock", 0, <<>>, TRUE, FALSE)
Device  == Leaf("chr", 0, <<>>, FALSE, TRUE)
MetaFifo == [Fifo EXCEPT !.metaonly = TRUE]

Leaves == {Long, Sparse, Gap, HoleEnd, Behind, Empty, Meta, Link, LongLink, Fifo, Sock, Device}
(* No special file without attributes right before a leaf of which there   *)
(* is only the metadata: see StalePlans.                                   *)
Stale(plan) == \E k \in 1..(Len(plan) - 1) :
                   /\ plan[k].kind \in {"fifo", "sock", "chr"}
                   /\ ~plan[k].xinode /\ ~plan[k].xblock /\ plan[k + 1].metaonly
MCPlans == {plan \in {<<a, b>> : a \in Leaves, b \in Leaves}
                      \cup {<<a, b, c>> : a \in {Behind, Gap, Long}, b \in Leaves, c \in {Long, Link}}
                      \cup {<<MetaFifo, Link>>} : ~Stale(plan)}
StalePlans == {<<Fifo, Meta>>}

(* A file that ends in a hole in the middle of a block of restore's.       *)
UnevenPlans == {<<Leaf("reg", 3, <<TRUE>>, FALSE, FALSE)>>}
(* Attributes in the inode and in a block.                                 *)
BothAttrs == {<<Leaf("reg", 3, <<TRUE, TRUE>>, TRUE, TRUE)>>}
=============================================================================
