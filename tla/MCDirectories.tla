---------------------------- MODULE MCDirectories ----------------------------
EXTENDS Directories

(* Directories 1 to 3; the entries of directory d are the leaves of sizes  *)
(* a, its subdirectories, then the leaves of sizes z.                      *)
Leaves(d, from, sizes) == [k \in DOMAIN sizes |-> [ino |-> 10 * d + from + k, size |-> sizes[k]]]
Dir(parents, d, a, z) ==
    [parent |-> parents[d],
     ents |-> Leaves(d, 0, a)
              \o [k \in DOMAIN SetToSeq({c \in 2..3 : parents[c] = d}) |->
                    [ino |-> SetToSeq({c \in 2..3 : parents[c] = d})[k], size |-> k]]
              \o Leaves(d, Len(a), z)]
Shape(parents, a, z) == [d \in 1..3 |-> Dir(parents, d, a[d], z[d])]

Before == {<<>>, <<2, 2>>, <<3, 3, 1>>}
After  == {<<>>, <<3, 3>>}
Trees(parents) ==
    {Shape(parents, <<a1, a2, a3>>, <<z1, z2, <<>>>>) :
        a1 \in Before, a2 \in Before, a3 \in {<<>>, <<3, 2>>}, z1 \in After, z2 \in {<<>>, <<3>>}}
Damages == {{}} \cup {{<<d, k>>} : d \in 1..3, k \in 0..1} \cup {{<<1, 2>>}, {<<2, 2>>}, {<<2, 0>>, <<3, 1>>}}
Plan(dirs, lost, out) ==
    [dirs |-> dirs, lost |-> lost, excluded |-> out, attrs |-> {1, 3},
     paths |-> {<<Dot, 9>>, <<Dot, 1, 1>>, <<Dot, 1>>}]

Chain == <<1, 1, 2>>
Flat == <<1, 1, 1>>
Early == <<1, 3, 1>>     \* directory 2 lies in directory 3, which is dumped after it
Full == {t \in Trees(Chain) : Len(t[1].ents) > 4 /\ Len(t[3].ents) > 0}
MCPlans == {Plan(t, {}, {}) : t \in Trees(Flat) \cup Trees(Early)}
           \cup {Plan(t, {}, {11, 22}) : t \in Trees(Chain)}
           \cup {Plan(t, lost, {}) : t \in Full, lost \in Damages}

(* Directory 2 ends a whole number of blocks before the entry of directory *)
(* 3 that follows its name, and later an entry lies across the end of such *)
(* a block.                                                                *)
EarlyPlans == {Plan(Shape(Early, <<a, <<>>, <<2>>>>, <<<<>>, <<>>, z>>), {}, {}) :
                   a \in Before, z \in {<<3>>, <<3, 3, 3>>}}
(* All that was dumped fills one block.                                    *)
OneBlock == {[Plan([Shape(Early, <<<<>>, <<1>>, <<>>>>, <<<<>>, <<>>, <<>>>>) EXCEPT ![1].ents[1].ino = 2],
                   {<<3, 0>>}, {}) EXCEPT !.attrs = {}]}
=============================================================================
