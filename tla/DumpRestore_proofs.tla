------------------------- MODULE DumpRestore_proofs -------------------------
(***************************************************************************)
(* Volumes are read back as they were dumped (DumpRestore!RestoreReads),   *)
(* for any number of slaves, any blocking factor and anything dumped:      *)
(* volumes that end at their size, rewritten at any error, and one volume  *)
(* that its device ends.                                                   *)
(***************************************************************************)
EXTENDS DumpRestore, NaturalNumbers, SequenceTheorems, FiniteSetTheorems

(* The records of the first n items. *)
Upto(n) == FlattenSeq([item \in 1 .. n |-> RecordsOf(item)])

(* What the theorems assume of the bounds.  A volume ends with something    *)
(* confirmed; a volume ended by its device is read back right if it is the  *)
(* only one, and if blocks of it are on the next one too, for no more       *)
(* volumes than these two.                                                  *)
OneEnd ==
    /\ MinBlocks > 0
    /\ \A l \in Limits : l.eots <= 1 /\ (l.eots = 0 \/ l.dup = 0 \/ l.volumes <= 2)

(* Only maps depend on the count in the last header: they come first, have  *)
(* no holes and fit the first volume.                                       *)
MapsFirst ==
    \A n \in DOMAIN Items : Items[n].kind = "map" =>
        /\ \A k \in 1 .. n : Items[k].kind = "map"
        /\ \A k \in DOMAIN Items[n].addr : Items[n].addr[k]
        /\ Len(Upto(n)) + 1 < MinBlocks * Ntrec

-----------------------------------------------------------------------------
TapeRecs == [t : {"tape"}, count : Int, tapea : Nat, firstrec : Nat]
Recs == TapeRecs \cup [t : {"header"}, item : Nat] \cup [t : {"data"}, item : Nat, i : Nat]
        \cup {EndRec}
Volumes == {v \in Seq(Recs) : v # << >> => Head(v) \in TapeRecs}
Slot == [recs : Seq(Recs), count : Int, tapea : Nat, firstrec : Nat]
Memory ==
    [slp : Slots, slot : [Slots -> Slot], tapea : Nat, last : Int,
     type : {"tape", "map", "inode", "end"}, count : Int, addr : [1 .. AddrLen -> BOOLEAN],
     item : 0 .. Len(Items) + 1, i : Nat, trailer : Nat]

Buffer(c) == c.slot[c.slp].recs

(* What the passes have produced, which is what must have been read once    *)
(* the volume is; then the whole dump and the headers behind it.            *)
Begun(c) == <<HeaderRec(c.item)>> \o [k \in 1 .. c.i |-> DataRec(c.item, Present(c.item)[k])]
Produced(c) == IF c.item = 0 THEN << >> ELSE Upto(c.item - 1) \o Begun(c)

Rest(out) == SubSeq(out, Len(Logical) + 1, Len(out))
Begins(out) == /\ Len(out) >= Len(Logical) /\ out = Logical \o Rest(out)
               /\ Rest(out) = << >> \/ Head(Rest(out)) = EndRec

InItem(c) == c.item <= Len(Items)
Passed(c, out) == /\ InItem(c) => out = Produced(c) /\ c.trailer = 0
                  /\ ~InItem(c) => Begins(out)
                  /\ c.item \in DOMAIN Items => c.i <= Len(Present(c.item))
NoMaps(c) == \A n \in DOMAIN Items : Items[n].kind = "map" => n < c.item

(* What the reader r makes of volume v.                                     *)
Skips(r, v) == Duplicates(r.tpblksread + 1, Head(v))
Out(r, v) == r.out \o SubSeq(v, 2 + Skips(r, v), Len(v))
Follows(r, v) == v \in Volumes /\ v # << >> /\ Skips(r, v) < Len(v)

Before == Reading(tapes)
Filled == FlattenSeq(vol)
InBuffer == IF mpc \in {"fill", "first"} THEN Buffer(m) ELSE << >>
Volume == Filled \o InBuffer
MoreVolumes == Len(tapes) + 1 < limits.volumes

Live == mpc \in {"fill", "first", "result", "full"}

StaticInv ==
    /\ ckpt.mem \in Memory /\ ckpt.how \in {"top", "next", "roll"}
    /\ tapes \in Seq(Volumes) /\ eots \in Nat /\ rewrites \in Nat
    /\ limits \in Limits /\ eots <= limits.eots
TypeInv ==
    /\ mpc \in {"fill", "first", "result", "full", "last", "done", "aborted", "gap"}
    /\ m \in Memory /\ vol \in Seq(Seq(Recs)) /\ acked \in Nat
    /\ StaticInv

BlockInv ==
    /\ \A b \in 1 .. Len(vol) : Len(vol[b]) = Ntrec
    /\ acked <= Len(vol)
    /\ mpc = "fill" => Len(Buffer(m)) <= Ntrec
    /\ mpc = "first" => Len(Buffer(m)) = 1 /\ Len(vol) = N /\ acked = 0
    /\ mpc = "result" => vol # << >> /\ vol[Len(vol)] = Buffer(m)
    /\ mpc = "full" => Buffer(m) = << >> /\ Len(vol) >= MinBlocks /\ MoreVolumes
    /\ mpc \in {"fill", "full"} => Len(vol) - acked <= N - 1
    /\ mpc = "result" => Len(vol) - acked <= N

OutInv ==
    /\ Follows(Before, Volume) /\ Passed(m, Out(Before, Volume))
    /\ eots = 0 => Skips(Before, Volume) = 0

PlaceInv == MoreVolumes =>
    m.slot[m.slp].firstrec + (IF mpc = "result" THEN Ntrec ELSE 0)
        = Before.tpblksread + Len(vol) * Ntrec

FillInv == (m.tapea + eots - Len(InBuffer)) % Ntrec = 0

(* The other slots hold the blocks before the last, for the end of tape.    *)
Holds(s, b) ==
    /\ m.slot[s].recs = vol[b]
    /\ MoreVolumes => m.slot[s].firstrec = Before.tpblksread + (b - 1) * Ntrec
Ahead == IF mpc = "result" THEN N ELSE N - 1
SlotInv == eots < limits.eots =>
    \A k \in 1 .. N - 1 : Len(vol) - Ahead + k >= 1 => Holds(SlotAt(m, k), Len(vol) - Ahead + k)

MapInv ==
    /\ \A n \in DOMAIN Items : (n = m.item /\ Items[n].kind = "map") =>
           m.count = Len(Items[n].addr)
    /\ ckpt.how # "top" => NoMaps(m)

(* All of the dump, and if no device ended a volume the end as well.        *)
Whole(out) == Begins(out) /\ (eots = 0 => Rest(out) # << >>)
Written == Filled \in Volumes /\ Whole(ReadBack(Append(tapes, Filled)))

TrailInv == ~InItem(m) =>
    /\ \/ Rest(Out(Before, Volume)) # << >>
       \/ mpc = "fill" /\ m.trailer > 0 /\ m.type = "end" /\ ~BufferFull(m)
    /\ mpc \in {"fill", "first"} => Len(Buffer(m)) + m.trailer >= Ntrec \/ Written

(* What the parent of a volume has kept. *)
Resumable ==
    \/ ckpt.how = "top" /\ tapes = << >> /\ eots = 0 /\ ckpt.mem = InitialMemory
    \/ /\ ckpt.how = "next" /\ tapes # << >>
       /\ Buffer(ckpt.mem) = << >> /\ NoMaps(ckpt.mem)
       /\ Passed(ckpt.mem, Before.out)
       /\ ~InItem(ckpt.mem) => Rest(Before.out) # << >>
       /\ ckpt.mem.slot[ckpt.mem.slp].firstrec = Before.tpblksread
       /\ (ckpt.mem.tapea + eots) % Ntrec = 0
    \/ /\ ckpt.how = "roll" /\ tapes # << >> /\ eots = limits.eots /\ eots = 1
       /\ \A s \in Slots : Len(ckpt.mem.slot[s].recs) = Ntrec
       /\ NoMaps(ckpt.mem)
       /\ Follows(Before, Replayed(ckpt.mem))
       /\ Passed(ckpt.mem, Out(Before, Replayed(ckpt.mem)))
       /\ ~InItem(ckpt.mem) => Rest(Out(Before, Replayed(ckpt.mem))) # << >>
       /\ MoreVolumes => ckpt.mem.slot[SlotAt(ckpt.mem, N - 1)].firstrec
                            = Before.tpblksread + (N - 1) * Ntrec
       /\ ckpt.mem.tapea % Ntrec = 0

Running == BlockInv /\ OutInv /\ PlaceInv /\ FillInv /\ SlotInv /\ MapInv /\ TrailInv

ReadInv == /\ TypeInv
           /\ Live => Running
           /\ Live \/ mpc = "last" => Resumable
           /\ mpc = "last" => Written
           /\ mpc = "done" => Whole(ReadBack(tapes))

-----------------------------------------------------------------------------
(* Sequences that are put together step by step.                            *)

(* What holds of 0 and goes from each number to the next holds up to n.     *)
LEMMA Climb ==
    ASSUME NEW n \in Nat, NEW S, 0 \in S, \A k \in 0 .. n - 1 : k \in S => k + 1 \in S
    PROVE  \A k \in 0 .. n : k \in S
<1> DEFINE T == {k \in 0 .. n : k \notin S}
<1> SUFFICES ASSUME T # {} PROVE FALSE
  OBVIOUS
<1>1. PICK k \in T : \A j \in T : k <= j
  <2>1. T \subseteq Nat
    OBVIOUS
  <2> HIDE DEF T
  <2> QED BY <2>1, Least
<1>2. k - 1 \in 0 .. n - 1 /\ k - 1 \notin T
  BY <1>1
<1>3. k - 1 + 1 \in S
  BY <1>2
<1> QED BY <1>1, <1>3

(* A function on 0 .. n may be defined by its value at 0 and a step.        *)
Runs(f, n, V, a, step) == /\ f \in [0 .. n -> V] /\ f[0] = a
                          /\ \A i \in 1 .. n : f[i] = step[<<i, f[i - 1]>>]

LEMMA Recursion ==
    ASSUME NEW n \in Nat, NEW V, NEW a \in V, NEW step \in [(1 .. n) \X V -> V]
    PROVE  \E f : Runs(f, n, V, a, step)
<1> DEFINE Goes(f, k) == Runs(f, k, V, a, step)
           S == {k \in 0 .. n : \E f : Goes(f, k)}
<1>1. 0 \in S
  <2>1. Goes([i \in 0 .. 0 |-> a], 0)
    BY DEF Runs
  <2>2. 0 \in 0 .. n
    OBVIOUS
  <2> HIDE DEF Goes
  <2> QED BY <2>1, <2>2
<1>2. ASSUME NEW k \in 0 .. n - 1, k \in S PROVE k + 1 \in S
  <2>1. PICK f : Goes(f, k)
    BY <1>2
  <2> USE DEF Runs
  <2> DEFINE g == [i \in 0 .. k + 1 |-> IF i <= k THEN f[i] ELSE step[<<k + 1, f[k]>>]]
  <2>2. f[k] \in V /\ <<k + 1, f[k]>> \in (1 .. n) \X V
    BY <2>1
  <2>3. step[<<k + 1, f[k]>>] \in V
    BY <2>2
  <2>4. g \in [0 .. k + 1 -> V]
    BY <2>1, <2>3
  <2>5. g[0] = a /\ \A i \in 1 .. k : g[i] = step[<<i, g[i - 1]>>]
    BY <2>1
  <2>6. g[k + 1] = step[<<k + 1, g[k]>>]
    BY SMTT(60)
  <2>7. Goes(g, k + 1)
    <3> HIDE DEF g
    <3>1. ASSUME NEW i \in 1 .. k + 1 PROVE g[i] = step[<<i, g[i - 1]>>]
      <4>1. i \in 1 .. k \/ i = k + 1
        OBVIOUS
      <4>2. k + 1 - 1 = k
        OBVIOUS
      <4> QED BY <2>5, <2>6, <4>1, <4>2
    <3> QED BY <2>4, <2>5, <3>1, Zenon DEF Runs
  <2> HIDE DEF Goes
  <2> QED BY <2>7
<1>3. n \in S
  <2> HIDE DEF S
  <2> QED BY <1>1, <1>2, Climb
<1>4. PICK f : Goes(f, n)
  BY <1>3
<1> QED BY <1>4, Zenon

(* FlattenSeq through the sequences that it goes through.                   *)
Sums(s, g, S) == /\ g \in [0 .. Len(s) -> Seq(S)] /\ g[0] = << >>
                 /\ \A i \in 1 .. Len(s) : g[i] = g[i - 1] \o s[i]

LEMMA FlattenIs ==
    ASSUME NEW S, NEW s \in Seq(Seq(S))
    PROVE  \E g : Sums(s, g, S) /\ FlattenSeq(s) = g[Len(s)]
<1> DEFINE n == Len(s)
           step == [p \in (1 .. n) \X Seq(S) |-> p[2] \o s[p[1]]]
<1>1. n \in Nat /\ \A i \in 1 .. n : s[i] \in Seq(S)
  BY ElementOfSeq
<1>2. << >> \in Seq(S)
  BY EmptySeq
<1>3. step \in [(1 .. n) \X Seq(S) -> Seq(S)]
  <2>1. ASSUME NEW p \in (1 .. n) \X Seq(S) PROVE p[2] \o s[p[1]] \in Seq(S)
    BY <1>1, ConcatProperties
  <2> QED BY <2>1
<1>4. \A i \in 1 .. n, v \in Seq(S) : step[<<i, v>>] = v \o s[i]
  OBVIOUS
<1>5. PICK g : Runs(g, n, Seq(S), << >>, step)
  <2> HIDE DEF step, n
  <2> QED BY <1>1, <1>2, <1>3, Recursion, Zenon
<1> HIDE DEF step
<1>7. g[0] = << >> /\ \A i \in 1 .. n : g[i] = g[i - 1] \o s[i]
  <2> HIDE DEF n
  <2>1. ASSUME NEW i \in 1 .. n PROVE g[i] = g[i - 1] \o s[i]
    <3>1. i - 1 \in 0 .. n
      BY <1>1
    <3>2. g[i - 1] \in Seq(S) /\ g[i] = step[<<i, g[i - 1]>>]
      BY <1>5, <3>1 DEF Runs
    <3> QED BY <1>4, <3>2, Zenon
  <2> QED BY <1>5, <2>1, Zenon DEF Runs
<1>8. Sums(s, g, S)
  BY <1>5, <1>7 DEF Sums, Runs
<1>9. CASE n = 0
  <2>1. s = << >>
    BY <1>9, EmptySeq
  <2> QED BY <1>7, <1>8, <1>9, <2>1 DEF FlattenSeq
<1>10. CASE n # 0
  <2> DEFINE Eq(flat) == flat = [i \in 1 .. n |-> IF i = 1 THEN s[i] ELSE flat[i - 1] \o s[i]]
             flat == CHOOSE flat : Eq(flat)
             h == [i \in 1 .. n |-> g[i]]
  <2>1. h[1] = s[1]
    <3>1. 1 \in 1 .. n /\ 1 - 1 = 0
      BY <1>1, <1>10
    <3>2. g[1] = << >> \o s[1]
      BY <1>7, <3>1
    <3> QED BY <1>1, <3>1, <3>2, ConcatEmptySeq
  <2>2. \A i \in 1 .. n : i # 1 => h[i] = h[i - 1] \o s[i]
    <3>1. ASSUME NEW i \in 1 .. n, i # 1 PROVE i - 1 \in 1 .. n
      BY <1>1, <3>1
    <3> QED BY <1>7, <3>1, Zenon
  <2>3. \A i \in 1 .. n : h[i] = IF i = 1 THEN s[i] ELSE h[i - 1] \o s[i]
    BY <2>1, <2>2, Zenon
  <2>4. h = [i \in 1 .. n |-> h[i]]
    OBVIOUS
  <2>5. Eq(h)
    <3> HIDE DEF h, n
    <3> QED BY <2>3, <2>4, Zenon
  <2>6. Eq(flat)
    <3> HIDE DEF Eq, h
    <3> QED BY <2>5, Zenon
  <2>7. \A i \in 1 .. n : flat[i] = IF i = 1 THEN s[i] ELSE flat[i - 1] \o s[i]
    <3> HIDE DEF flat, n
    <3> QED BY <2>6, Zenon
  <2>8. FlattenSeq(s) = flat[n]
    BY <1>10, Zenon DEF FlattenSeq
  <2> DEFINE G(x, i) == x \o s[i]
  <2>9. \A i \in 1 .. n : i # 1 => flat[i] = G(flat[i - 1], i) /\ g[i] = G(g[i - 1], i)
    <3> HIDE DEF flat, n
    <3> QED BY <1>7, <2>7, Zenon
  <2> HIDE DEF G
  <2>10. flat[1] = g[1] /\ 1 \in 1 .. n
    <3> HIDE DEF flat
    <3> QED BY <1>1, <1>10, <2>1, <2>7
  <2>11. flat[n] = g[n]
    <3> DEFINE A == {k \in 0 .. n : k = 0 \/ flat[k] = g[k]}
    <3> HIDE DEF flat, n
    <3>1. 0 \in A
      BY <1>1
    <3>2. ASSUME NEW k \in 0 .. n - 1, k \in A PROVE k + 1 \in A
      <4>1. k + 1 \in 1 .. n /\ k + 1 - 1 = k /\ k + 1 \in 0 .. n
        BY <1>1
      <4>2. CASE k = 0
        BY <2>10, <4>1, <4>2
      <4>3. CASE k # 0
        <5>1. k + 1 # 1
          BY <4>3
        <5>2. flat[k + 1] = G(flat[k + 1 - 1], k + 1) /\ g[k + 1] = G(g[k + 1 - 1], k + 1)
          BY <2>9, <4>1, <5>1
        <5> QED BY <3>2, <4>1, <4>3, <5>2, Zenon
      <4> QED BY <4>2, <4>3
    <3>3. n \in A
      <4>1. n \in 0 .. n
        BY <1>1
      <4> HIDE DEF A
      <4> QED BY <1>1, <3>1, <3>2, <4>1, Climb
    <3> QED BY <1>10, <3>3
  <2> QED BY <1>8, <2>8, <2>11
<1> QED BY <1>9, <1>10

(* Such sums agree as far as what they sum does.                            *)
LEMMA SumsAgree ==
    ASSUME NEW S, NEW s \in Seq(Seq(S)), NEW t \in Seq(Seq(S)), NEW g, NEW h,
           Sums(s, g, S), Sums(t, h, S), NEW n \in Nat, n <= Len(s), n <= Len(t),
           \A i \in 1 .. n : s[i] = t[i]
    PROVE  \A k \in 0 .. n : g[k] = h[k]
<1> DEFINE A == {k \in 0 .. n : g[k] = h[k]}
           G(x, y) == x \o y
<1>1. /\ g[0] = << >> /\ \A i \in 1 .. Len(s) : g[i] = G(g[i - 1], s[i])
      /\ h[0] = << >> /\ \A i \in 1 .. Len(t) : h[i] = G(h[i - 1], t[i])
  BY DEF Sums
<1> HIDE DEF G
<1>2. 0 \in A
  BY <1>1
<1>3. ASSUME NEW k \in 0 .. n - 1, k \in A PROVE k + 1 \in A
  <2>1. /\ k + 1 \in 1 .. n /\ k + 1 - 1 = k /\ k + 1 \in 0 .. n
        /\ k + 1 \in 1 .. Len(s) /\ k + 1 \in 1 .. Len(t)
    BY LenProperties
  <2>2. g[k + 1] = G(g[k + 1 - 1], s[k + 1]) /\ h[k + 1] = G(h[k + 1 - 1], t[k + 1])
    BY <1>1, <2>1
  <2>3. s[k + 1] = t[k + 1] /\ g[k] = h[k]
    BY <1>3, <2>1
  <2> QED BY <2>1, <2>2, <2>3
<1>4. \A k \in 0 .. n : k \in A
  <2> HIDE DEF A
  <2> QED BY <1>2, <1>3, Climb
<1> QED BY <1>4

LEMMA FlattenType ==
    ASSUME NEW S, NEW s \in Seq(Seq(S))
    PROVE  FlattenSeq(s) \in Seq(S)
<1>1. PICK g : Sums(s, g, S) /\ FlattenSeq(s) = g[Len(s)]
  BY FlattenIs
<1>2. Len(s) \in 0 .. Len(s)
  BY LenProperties
<1> QED BY <1>1, <1>2 DEF Sums

LEMMA FlattenEmpty == FlattenSeq(<< >>) = << >>
BY EmptySeq DEF FlattenSeq

LEMMA FlattenAppend ==
    ASSUME NEW S, NEW s \in Seq(Seq(S)), NEW e \in Seq(S)
    PROVE  FlattenSeq(Append(s, e)) = FlattenSeq(s) \o e
<1> DEFINE t == Append(s, e)
           n == Len(s)
<1>1. /\ t \in Seq(Seq(S)) /\ Len(t) = n + 1 /\ t[n + 1] = e /\ n \in Nat
      /\ \A i \in 1 .. n : s[i] = t[i]
  BY AppendProperties, LenProperties
<1>2. PICK g : Sums(s, g, S) /\ FlattenSeq(s) = g[n]
  BY FlattenIs
<1> HIDE DEF t
<1>3. PICK h : Sums(t, h, S) /\ FlattenSeq(t) = h[n + 1]
  BY <1>1, FlattenIs
<1>4. g[n] = h[n]
  <2>1. \A k \in 0 .. n : g[k] = h[k]
    <3>1. n <= Len(s) /\ n <= Len(t)
      BY <1>1
    <3> HIDE DEF n
    <3> QED BY <1>1, <1>2, <1>3, <3>1, SumsAgree
  <2> QED BY <1>1, <2>1
<1>5. h[n + 1] = h[n] \o t[n + 1]
  <2> DEFINE G(x, y) == x \o y
  <2>1. n \in Nat /\ n + 1 \in 1 .. Len(t) /\ n + 1 - 1 = n
    BY <1>1
  <2>2. \A i \in 1 .. Len(t) : h[i] = G(h[i - 1], t[i])
    BY <1>3, Zenon DEF Sums
  <2> HIDE DEF n, G
  <2>4. h[n + 1] = G(h[n + 1 - 1], t[n + 1])
    BY <2>1, <2>2
  <2>3. h[n + 1] = G(h[n], t[n + 1])
    BY <2>1, <2>4, Zenon
  <2> QED BY <2>3 DEF G
<1> QED BY <1>1, <1>2, <1>3, <1>4, <1>5, Zenon DEF t

LEMMA OneMoreOf ==
    ASSUME NEW S, NEW s \in Seq(S), NEW a \in Nat \ {0}, NEW b \in Nat, a <= b + 1, b + 1 <= Len(s)
    PROVE  SubSeq(s, a, b + 1) = Append(SubSeq(s, a, b), s[b + 1])
<1> DEFINE u == SubSeq(s, a, b)
           v == SubSeq(s, a, b + 1)
<1>1. /\ u \in Seq(S) /\ Len(u) = b - a + 1 /\ \A i \in 1 .. b - a + 1 : u[i] = s[a + i - 1]
      /\ v \in Seq(S) /\ Len(v) = b - a + 2 /\ \A i \in 1 .. b - a + 2 : v[i] = s[a + i - 1]
  <2>1. \A i \in a .. b + 1 : s[i] \in S
    BY ElementOfSeq
  <2> QED BY <2>1, SubSeqProperties
<1>2. s[b + 1] \in S
  BY ElementOfSeq
<1> HIDE DEF u, v
<1>3. /\ Append(u, s[b + 1]) \in Seq(S) /\ Len(Append(u, s[b + 1])) = Len(v)
      /\ \A i \in 1 .. Len(u) : Append(u, s[b + 1])[i] = u[i]
      /\ Append(u, s[b + 1])[Len(u) + 1] = s[b + 1]
  <2> DEFINE e == s[b + 1]
  <2> HIDE DEF e
  <2>1. u \in Seq(S) /\ e \in S
    BY <1>1, <1>2 DEF e
  <2>2. /\ Append(u, e) \in Seq(S) /\ Len(Append(u, e)) = Len(u) + 1
        /\ \A i \in 1 .. Len(u) : Append(u, e)[i] = u[i]
        /\ Append(u, e)[Len(u) + 1] = e
    BY <2>1, AppendProperties
  <2>3. Len(u) + 1 = Len(v)
    BY <1>1
  <2> QED BY <2>2, <2>3 DEF e
<1>4. ASSUME NEW i \in 1 .. Len(v) PROVE v[i] = Append(u, s[b + 1])[i]
  <2>1. CASE i <= Len(u)
    BY <1>1, <1>3, <2>1
  <2>2. CASE i > Len(u)
    <3>1. i = Len(u) + 1 /\ a + i - 1 = b + 1
      BY <1>1, <2>2
    <3> QED BY <1>1, <1>3, <3>1
  <2> QED BY <1>1, <2>1, <2>2
<1> QED BY <1>1, <1>3, <1>4, SeqEqual DEF u, v

(* Sequences of sequences: put together in two parts, of one length each.   *)
LEMMA FlattenSplit ==
    ASSUME NEW S, NEW s \in Seq(Seq(S)), NEW k \in 0 .. Len(s)
    PROVE  FlattenSeq(s) = FlattenSeq(SubSeq(s, 1, k)) \o FlattenSeq(SubSeq(s, k + 1, Len(s)))
<1> DEFINE F(a, b) == FlattenSeq(SubSeq(s, a, b))
           n == Len(s) - k
           A == {j \in 0 .. n : F(1, k + j) = F(1, k) \o F(k + 1, k + j)}
<1>1. Len(s) \in Nat /\ n \in Nat /\ k \in Nat /\ k + n = Len(s)
  BY LenProperties
<1>2. ASSUME NEW a \in 1 .. Len(s) + 1, NEW b \in 0 .. Len(s)
      PROVE  SubSeq(s, a, b) \in Seq(Seq(S)) /\ F(a, b) \in Seq(S)
  <2>1. \A i \in a .. b : s[i] \in Seq(S)
    BY <1>1, ElementOfSeq
  <2>2. SubSeq(s, a, b) \in Seq(Seq(S))
    BY <1>1, <2>1, SubSeqProperties
  <2> QED BY <2>2, FlattenType
<1>3. ASSUME NEW a \in 1 .. Len(s), NEW b \in 0 .. Len(s) - 1, a <= b + 1
      PROVE  F(a, b + 1) = F(a, b) \o s[b + 1]
  <2>1. SubSeq(s, a, b + 1) = Append(SubSeq(s, a, b), s[b + 1])
    BY <1>1, <1>3, OneMoreOf
  <2>2. s[b + 1] \in Seq(S)
    BY <1>1, ElementOfSeq
  <2>3. SubSeq(s, a, b) \in Seq(Seq(S))
    BY <1>1, <1>2
  <2> QED BY <2>1, <2>2, <2>3, FlattenAppend
<1>4. 0 \in A
  <2>1. k + 0 = k
    BY <1>1
  <2>2. SubSeq(s, k + 1, k) = << >>
    BY <1>1, SubSeqEmpty
  <2>3. F(1, k) \o << >> = F(1, k)
    BY <1>1, <1>2, ConcatEmptySeq
  <2>4. F(k + 1, k) = << >>
    BY <2>2, FlattenEmpty
  <2> HIDE DEF F
  <2>5. F(1, k) = F(1, k) \o F(k + 1, k)
    BY <2>3, <2>4, Zenon
  <2>6. 0 \in 0 .. n
    BY <1>1
  <2> QED BY <2>1, <2>5, <2>6, Zenon
<1>5. ASSUME NEW j \in 0 .. n - 1, j \in A PROVE j + 1 \in A
  <2> HIDE DEF F
  <2>1. /\ k + j \in 0 .. Len(s) - 1 /\ k + (j + 1) = k + j + 1 /\ 1 <= k + j + 1
        /\ k + 1 <= k + j + 1 /\ 1 \in 1 .. Len(s) /\ k + 1 \in 1 .. Len(s) /\ k + j + 1 \in 1 .. Len(s)
        /\ j + 1 \in 0 .. n /\ k \in 0 .. Len(s) /\ k + j \in 0 .. Len(s)
        /\ 1 \in 1 .. Len(s) + 1 /\ k + 1 \in 1 .. Len(s) + 1
    BY <1>1
  <2>2. F(1, k + j + 1) = F(1, k + j) \o s[k + j + 1] /\ F(k + 1, k + j + 1) = F(k + 1, k + j) \o s[k + j + 1]
    BY <1>3, <2>1
  <2>3. F(1, k + j) = F(1, k) \o F(k + 1, k + j)
    BY <1>5
  <2>4. F(1, k) \in Seq(S) /\ F(k + 1, k + j) \in Seq(S) /\ s[k + j + 1] \in Seq(S)
    BY <1>2, <2>1, ElementOfSeq
  <2>5. F(1, k + j + 1) = F(1, k) \o F(k + 1, k + j + 1)
    <3> DEFINE x == F(1, k)
               y == F(k + 1, k + j)
               z == s[k + j + 1]
    <3> HIDE DEF x, y, z
    <3>3. x \in Seq(S) /\ y \in Seq(S) /\ z \in Seq(S)
      BY <2>4 DEF x, y, z
    <3>2. (x \o y) \o z = x \o (y \o z)
      BY <3>3, ConcatAssociative, SMTT(60)
    <3>1. (F(1, k) \o F(k + 1, k + j)) \o s[k + j + 1] = F(1, k) \o (F(k + 1, k + j) \o s[k + j + 1])
      BY <3>2, Zenon DEF x, y, z
    <3> QED BY <2>2, <2>3, <3>1, Zenon
  <2> QED BY <2>1, <2>5
<1>6. n \in A
  <2>1. n \in 0 .. n
    BY <1>1
  <2> HIDE DEF A, n
  <2> QED BY <1>1, <1>4, <1>5, <2>1, Climb
<1>7. SubSeq(s, 1, Len(s)) = s
  BY SubSeqFull
<1> QED BY <1>1, <1>6, <1>7

LEMMA FlattenLength ==
    ASSUME NEW S, NEW s \in Seq(Seq(S)), NEW w \in Nat, \A i \in 1 .. Len(s) : Len(s[i]) = w
    PROVE  Len(FlattenSeq(s)) = Len(s) * w
<1>1. PICK g : Sums(s, g, S) /\ FlattenSeq(s) = g[Len(s)]
  BY FlattenIs
<1> DEFINE n == Len(s)
           L(x) == Len(x)
           A == {k \in 0 .. n : L(g[k]) = k * w}
<1>2. n \in Nat
  BY LenProperties
<1>3. ASSUME NEW k \in 0 .. n - 1 PROVE L(g[k + 1]) = L(g[k]) + w /\ L(g[k]) \in Nat
  <2>1. k \in 0 .. n /\ k + 1 \in 1 .. n /\ k + 1 - 1 = k
    BY <1>2
  <2>2. g[k] \in Seq(S) /\ s[k + 1] \in Seq(S) /\ L(s[k + 1]) = w
    BY <1>1, <2>1, ElementOfSeq DEF Sums
  <2>3. g[k + 1] = g[k] \o s[k + 1]
    <3> DEFINE G(x, y) == x \o y
    <3>1. \A i \in 1 .. n : g[i] = G(g[i - 1], s[i])
      BY <1>1, Zenon DEF Sums
    <3> HIDE DEF n, G
    <3>2. g[k + 1] = G(g[k + 1 - 1], s[k + 1])
      BY <1>2, <2>1, <3>1
    <3>3. g[k + 1] = G(g[k], s[k + 1])
      BY <2>1, <3>2, Zenon
    <3> QED BY <3>3 DEF G
  <2> QED BY <2>2, <2>3, ConcatProperties, LenProperties, ZenonT(60)
<1>4. L(g[0]) = 0
  BY <1>1 DEF Sums
<1> HIDE DEF n, L
<1>5. 0 \in A
  BY <1>2, <1>4
<1>6. ASSUME NEW k \in 0 .. n - 1, k \in A PROVE k + 1 \in A
  <2>1. (k + 1) * w = k * w + w /\ k + 1 \in 0 .. n
    BY <1>2
  <2> QED BY <1>3, <1>6, <2>1
<1>7. n \in A
  <2>1. n \in 0 .. n
    BY <1>2
  <2> HIDE DEF A
  <2> QED BY <1>2, <1>5, <1>6, <2>1, Climb
<1> QED BY <1>1, <1>7 DEF n, L

(* A sequence cut into pieces of one length is put together again.          *)
Pieces(R, w, n) == [b \in 1 .. n |-> SubSeq(R, (b - 1) * w + 1, b * w)]

LEMMA FlattenPieces ==
    ASSUME NEW S, NEW R \in Seq(S), NEW w \in Nat, NEW n \in Nat, n * w <= Len(R)
    PROVE  /\ Pieces(R, w, n) \in Seq(Seq(S)) /\ Len(Pieces(R, w, n)) = n
           /\ \A b \in 1 .. n : Len(Pieces(R, w, n)[b]) = w
           /\ FlattenSeq(Pieces(R, w, n)) = SubSeq(R, 1, n * w)
<1> DEFINE pieces == [b \in 1 .. n |-> SubSeq(R, (b - 1) * w + 1, b * w)]
<1>1. Len(R) \in Nat /\ \A i \in 1 .. Len(R) : R[i] \in S
  BY LenProperties, ElementOfSeq
<1>2. ASSUME NEW k \in Nat, k + 1 <= n
      PROVE  /\ k * w \in Nat /\ (k + 1) * w = k * w + w /\ (k + 1) * w <= Len(R)
             /\ (k + 1 - 1) * w = k * w
  <2>1. (k + 1) * w = k * w + w /\ k * w \in Nat /\ (k + 1) * w \in Nat /\ n * w \in Nat
    OBVIOUS
  <2>2. (n - (k + 1)) \in Nat /\ n * w = (k + 1) * w + (n - (k + 1)) * w
    BY <1>2
  <2>3. (n - (k + 1)) * w \in Nat
    BY <2>2
  <2>4. k + 1 - 1 = k
    OBVIOUS
  <2> QED BY <1>1, <2>1, <2>2, <2>3, <2>4
<1>3. ASSUME NEW b \in 1 .. n
      PROVE  pieces[b] = SubSeq(R, (b - 1) * w + 1, b * w) /\ pieces[b] \in Seq(S) /\ Len(pieces[b]) = w
  <2>1. b - 1 \in Nat /\ b - 1 + 1 = b
    OBVIOUS
  <2>2. (b - 1) * w \in Nat /\ b * w = (b - 1) * w + w /\ b * w <= Len(R)
    BY <1>2, <2>1
  <2> DEFINE lo == (b - 1) * w
             hi == b * w
  <2>3. pieces[b] = SubSeq(R, lo + 1, hi)
    OBVIOUS
  <2> HIDE DEF lo, hi, pieces
  <2>4. lo \in Nat /\ hi = lo + w /\ hi <= Len(R)
    BY <2>2 DEF lo, hi
  <2>5. \A i \in lo + 1 .. hi : R[i] \in S
    BY <1>1, <2>4
  <2>6. lo + 1 \in Int /\ hi \in Int /\ (IF lo + 1 <= hi THEN hi - (lo + 1) + 1 ELSE 0) = w
    BY <2>4
  <2>7. SubSeq(R, lo + 1, hi) \in Seq(S) /\ Len(SubSeq(R, lo + 1, hi)) = w
    BY <2>5, <2>6, SubSeqProperties
  <2> QED BY <2>3, <2>7 DEF lo, hi
<1>4. pieces \in Seq(Seq(S)) /\ Len(pieces) = n
  <2>1. \A b \in 1 .. n : SubSeq(R, (b - 1) * w + 1, b * w) \in Seq(S)
    BY <1>3
  <2> QED BY <2>1
<1> HIDE DEF pieces
<1>5. PICK g : Sums(pieces, g, S) /\ FlattenSeq(pieces) = g[n]
  BY <1>4, FlattenIs
<1> DEFINE A == {k \in 0 .. n : g[k] = SubSeq(R, 1, k * w)}
           G(x, y) == x \o y
<1>6. 0 \in A
  <2>1. 0 * w = 0
    OBVIOUS
  <2>2. SubSeq(R, 1, 0) = << >>
    BY SubSeqEmpty
  <2> QED BY <1>5, <2>1, <2>2 DEF Sums
<1>7. ASSUME NEW k \in 0 .. n - 1, k \in A PROVE k + 1 \in A
  <2>1. k + 1 \in 1 .. n /\ k + 1 - 1 = k /\ k \in Nat /\ k + 1 <= n /\ k + 1 \in 0 .. n
    OBVIOUS
  <2>2. g[k + 1] = G(g[k], pieces[k + 1])
    <3>1. \A i \in 1 .. n : g[i] = G(g[i - 1], pieces[i])
      BY <1>4, <1>5, Zenon DEF Sums
    <3> HIDE DEF G
    <3>2. g[k + 1] = G(g[k + 1 - 1], pieces[k + 1])
      BY <2>1, <3>1
    <3> QED BY <2>1, <3>2, Zenon
  <2> DEFINE lo == k * w
             hi == (k + 1) * w
  <2>3. pieces[k + 1] = SubSeq(R, lo + 1, hi)
    <3>1. pieces[k + 1] = SubSeq(R, (k + 1 - 1) * w + 1, (k + 1) * w)
      BY <1>3, <2>1
    <3> QED BY <2>1, <3>1, Zenon
  <2>4. g[k] = SubSeq(R, 1, lo)
    BY <1>7
  <2>5. lo \in Nat /\ hi = lo + w /\ hi <= Len(R)
    BY <1>2, <2>1
  <2>6. SubSeq(R, 1, lo) \o SubSeq(R, lo + 1, hi) = SubSeq(R, 1, hi)
    <3> HIDE DEF lo, hi
    <3>1. 1 \in 1 .. Len(R) + 1 /\ lo \in 1 - 1 .. Len(R) /\ hi \in lo .. Len(R)
      BY <1>1, <2>5
    <3> QED BY <3>1, ConcatAdjacentSubSeq
  <2> QED BY <2>1, <2>2, <2>3, <2>4, <2>6, Zenon
<1>8. n \in A
  <2>1. n \in 0 .. n
    OBVIOUS
  <2> HIDE DEF A
  <2> QED BY <1>6, <1>7, <2>1, Climb
<1>9. Pieces(R, w, n) = pieces
  BY DEF Pieces, pieces
<1> QED BY <1>3, <1>4, <1>5, <1>8, <1>9

(* A function that is given by its steps is what Recursion promises.        *)
LEMMA RunsTyped ==
    ASSUME NEW n \in Nat, NEW V, NEW a \in V, NEW step \in [(1 .. n) \X V -> V],
           NEW f, f = [i \in 0 .. n |-> f[i]], f[0] = a,
           \A i \in 1 .. n : \A v \in V : v = f[i - 1] => f[i] = step[<<i, v>>]
    PROVE  Runs(f, n, V, a, step)
<1> DEFINE A == {k \in 0 .. n : f[k] \in V}
<1>1. 0 \in A
  OBVIOUS
<1>2. ASSUME NEW k \in 0 .. n - 1, k \in A PROVE k + 1 \in A
  <2>1. k + 1 \in 1 .. n /\ k + 1 - 1 = k /\ f[k] \in V
    BY <1>2
  <2>2. f[k + 1] = step[<<k + 1, f[k]>>]
    <3> DEFINE v == f[k]
    <3>1. v \in V /\ v = f[k + 1 - 1]
      BY <2>1
    <3> HIDE DEF v
    <3>2. f[k + 1] = step[<<k + 1, v>>]
      BY <2>1, <3>1
    <3> QED BY <3>2 DEF v
  <2>3. <<k + 1, f[k]>> \in (1 .. n) \X V
    BY <2>1
  <2>4. step[<<k + 1, f[k]>>] \in V
    BY <2>3
  <2> QED BY <2>1, <2>2, <2>4
<1>3. \A k \in 0 .. n : f[k] \in V
  <2> HIDE DEF A
  <2>1. \A k \in 0 .. n : k \in A
    BY <1>1, <1>2, Climb
  <2> QED BY <2>1 DEF A
<1>4. f \in [0 .. n -> V]
  BY <1>3
<1>5. \A i \in 1 .. n : i - 1 \in 0 .. n
  OBVIOUS
<1> QED BY <1>3, <1>4, <1>5 DEF Runs

LEMMA RunsAgree ==
    ASSUME NEW n \in Nat, NEW k \in Nat, NEW V, NEW a \in V, NEW step, NEW other, NEW f, NEW g, n <= k,
           Runs(f, n, V, a, step), Runs(g, k, V, a, other),
           \A i \in 1 .. n : \A v \in V : step[<<i, v>>] = other[<<i, v>>]
    PROVE  \A j \in 0 .. n : f[j] = g[j]
<1> DEFINE A == {j \in 0 .. n : f[j] = g[j]}
<1>1. 0 \in A
  BY DEF Runs
<1>2. ASSUME NEW j \in 0 .. n - 1, j \in A PROVE j + 1 \in A
  <2>1. /\ j + 1 \in 1 .. n /\ j + 1 - 1 = j /\ j + 1 \in 1 .. k /\ j \in 0 .. n /\ j + 1 \in 0 .. n
    OBVIOUS
  <2>2. f[j + 1] = step[<<j + 1, f[j + 1 - 1]>>] /\ g[j + 1] = other[<<j + 1, g[j + 1 - 1]>>] /\ f[j] \in V
    BY <2>1 DEF Runs
  <2>3. f[j] = g[j]
    BY <1>2
  <2>4. step[<<j + 1, f[j]>>] = other[<<j + 1, f[j]>>]
    BY <2>1, <2>2
  <2> QED BY <2>1, <2>2, <2>3, <2>4
<1>3. \A j \in 0 .. n : j \in A
  <2> HIDE DEF A
  <2> QED BY <1>1, <1>2, Climb
<1> QED BY <1>3

-----------------------------------------------------------------------------
(* Volumes, and what is read of them.                                       *)
Reader == [out : Seq(Recs), tpblksread : Nat]
ReadOne(r, v) == IF v = << >> THEN r ELSE ReadVolume(r, v)
NothingRead == [out |-> << >>, tpblksread |-> 0]

LEMMA SkipsType ==
    ASSUME NEW r \in Reader, NEW v \in Volumes, v # << >>
    PROVE  Skips(r, v) \in Nat
<1>1. Head(v).firstrec \in Nat
  BY DEF Volumes, TapeRecs
<1> QED BY <1>1 DEF Skips, Duplicates, Reader

LEMMA OutType ==
    ASSUME NEW r \in Reader, NEW v \in Volumes, v # << >>
    PROVE  /\ SubSeq(v, 2 + Skips(r, v), Len(v)) \in Seq(Recs) /\ Out(r, v) \in Seq(Recs)
           /\ ReadOne(r, v) = [out |-> Out(r, v), tpblksread |-> r.tpblksread + Len(v)]
           /\ ReadOne(r, v) \in Reader
<1>1. Skips(r, v) \in Nat /\ Len(v) \in Nat /\ v \in Seq(Recs) /\ r.out \in Seq(Recs) /\ r.tpblksread \in Nat
  BY SkipsType, LenProperties DEF Volumes, Reader
<1>2. \A i \in 2 + Skips(r, v) .. Len(v) : v[i] \in Recs
  BY <1>1, ElementOfSeq
<1>3. SubSeq(v, 2 + Skips(r, v), Len(v)) \in Seq(Recs)
  BY <1>1, <1>2, SubSeqProperties
<1>4. Out(r, v) \in Seq(Recs)
  BY <1>1, <1>3, ConcatProperties DEF Out
<1>5. ReadOne(r, v) = [out |-> Out(r, v), tpblksread |-> r.tpblksread + Len(v)]
  BY DEF ReadOne, ReadVolume, Out, Skips
<1> QED BY <1>1, <1>3, <1>4, <1>5 DEF Reader

(* Reading goes through the volumes one by one.                             *)
ReadStep(volumes) == [p \in (1 .. Len(volumes)) \X Reader |-> ReadOne(p[2], volumes[p[1]])]

LEMMA ReadStepType ==
    ASSUME NEW vs \in Seq(Volumes)
    PROVE  /\ ReadStep(vs) \in [(1 .. Len(vs)) \X Reader -> Reader]
           /\ \A i \in 1 .. Len(vs) : \A r \in Reader : ReadStep(vs)[<<i, r>>] = ReadOne(r, vs[i])
           /\ NothingRead \in Reader
<1>1. ASSUME NEW r \in Reader, NEW i \in 1 .. Len(vs) PROVE ReadOne(r, vs[i]) \in Reader
  <2>1. vs[i] \in Volumes
    BY ElementOfSeq
  <2>2. CASE vs[i] = << >>
    BY <2>2 DEF ReadOne
  <2>3. CASE vs[i] # << >>
    BY <2>1, <2>3, OutType
  <2> QED BY <2>2, <2>3
<1>2. ReadStep(vs) \in [(1 .. Len(vs)) \X Reader -> Reader]
  <2>1. ASSUME NEW p \in (1 .. Len(vs)) \X Reader PROVE ReadOne(p[2], vs[p[1]]) \in Reader
    BY <1>1
  <2> QED BY <2>1 DEF ReadStep
<1>3. \A i \in 1 .. Len(vs) : \A r \in Reader : ReadStep(vs)[<<i, r>>] = ReadOne(r, vs[i])
  BY DEF ReadStep
<1>4. NothingRead \in Reader
  BY EmptySeq DEF NothingRead, Reader
<1> QED BY <1>2, <1>3, <1>4

LEMMA ReadingIs ==
    ASSUME NEW vs \in Seq(Volumes)
    PROVE  \E g : /\ Runs(g, Len(vs), Reader, NothingRead, ReadStep(vs))
                  /\ Reading(vs) = g[Len(vs)]
<1> DEFINE n == Len(vs)
           step == ReadStep(vs)
           Body(x, i) == IF i = 0 THEN NothingRead
                         ELSE IF vs[i] = << >> THEN x[i - 1] ELSE ReadVolume(x[i - 1], vs[i])
           Eq(x) == x = [i \in 0 .. n |-> Body(x, i)]
           read == CHOOSE x : Eq(x)
<1>1. n \in Nat
  BY LenProperties
<1>2. /\ step \in [(1 .. n) \X Reader -> Reader] /\ NothingRead \in Reader
      /\ \A i \in 1 .. n : \A r \in Reader : step[<<i, r>>] = ReadOne(r, vs[i])
  BY ReadStepType
<1>3. Reading(vs) = read[n]
  BY Zenon DEF Reading, NothingRead
<1> HIDE DEF step, n
<1>4. PICK g : Runs(g, n, Reader, NothingRead, step)
  BY <1>1, <1>2, Recursion, Zenon
<1>5. Eq(g)
  <2>1. g = [i \in 0 .. n |-> g[i]]
    BY <1>4 DEF Runs
  <2>2. ASSUME NEW i \in 0 .. n PROVE g[i] = Body(g, i)
    <3>1. CASE i = 0
      BY <1>4, <3>1 DEF Runs
    <3>2. CASE i # 0
      <4>1. i \in 1 .. n /\ i - 1 \in 0 .. n
        BY <1>1, <3>2
      <4>2. g[i] = step[<<i, g[i - 1]>>] /\ g[i - 1] \in Reader
        BY <1>4, <4>1 DEF Runs
      <4>3. g[i] = ReadOne(g[i - 1], vs[i])
        BY <1>2, <4>1, <4>2
      <4> QED BY <3>2, <4>3, Zenon DEF ReadOne
    <3> QED BY <3>1, <3>2
  <2> HIDE DEF Body
  <2> QED BY <2>1, <2>2, Zenon
<1>6. Eq(read)
  <2> HIDE DEF Eq
  <2> QED BY <1>5, Zenon
<1> HIDE DEF read
<1>7. ASSUME NEW i \in 0 .. n PROVE read[i] = Body(read, i)
  <2> HIDE DEF Body
  <2> QED BY <1>6, Zenon
<1>8. Runs(read, n, Reader, NothingRead, step)
  <2>1. read = [i \in 0 .. n |-> read[i]]
    <3> HIDE DEF Body
    <3>1. read = [i \in 0 .. n |-> Body(read, i)]
      BY <1>6
    <3> QED BY <3>1
  <2>2. read[0] = NothingRead
    BY <1>1, <1>7
  <2>3. ASSUME NEW i \in 1 .. n, NEW r \in Reader, r = read[i - 1] PROVE read[i] = step[<<i, r>>]
    <3>1. i \in 0 .. n /\ i # 0
      BY <1>1
    <3>2. read[i] = ReadOne(r, vs[i])
      BY <1>7, <2>3, <3>1, Zenon DEF ReadOne
    <3> QED BY <1>2, <2>3, <3>2
  <2> HIDE DEF Body, Eq
  <2> QED BY <1>1, <1>2, <2>1, <2>2, <2>3, RunsTyped
<1> QED BY <1>3, <1>8, Zenon DEF n, step

LEMMA ReadingType ==
    ASSUME NEW vs \in Seq(Volumes)
    PROVE  Reading(vs) \in Reader
<1>1. PICK g : Runs(g, Len(vs), Reader, NothingRead, ReadStep(vs)) /\ Reading(vs) = g[Len(vs)]
  BY ReadingIs
<1>2. Len(vs) \in 0 .. Len(vs)
  BY LenProperties
<1> QED BY <1>1, <1>2 DEF Runs

LEMMA ReadingEmpty == Reading(<< >>) = NothingRead
<1>1. << >> \in Seq(Volumes) /\ Len(<< >>) = 0
  BY EmptySeq
<1>2. PICK g : Runs(g, 0, Reader, NothingRead, ReadStep(<< >>)) /\ Reading(<< >>) = g[0]
  BY <1>1, ReadingIs
<1> QED BY <1>2 DEF Runs

LEMMA ReadingAppend ==
    ASSUME NEW vs \in Seq(Volumes), NEW v \in Volumes
    PROVE  Reading(Append(vs, v)) = ReadOne(Reading(vs), v)
<1> DEFINE ws == Append(vs, v)
           n == Len(vs)
<1>1. /\ ws \in Seq(Volumes) /\ Len(ws) = n + 1 /\ ws[n + 1] = v /\ n \in Nat
      /\ \A i \in 1 .. n : vs[i] = ws[i]
  BY AppendProperties, LenProperties
<1>2. PICK g : Runs(g, n, Reader, NothingRead, ReadStep(vs)) /\ Reading(vs) = g[n]
  BY ReadingIs
<1> HIDE DEF ws
<1>3. PICK h : Runs(h, n + 1, Reader, NothingRead, ReadStep(ws)) /\ Reading(ws) = h[n + 1]
  BY <1>1, ReadingIs
<1>4. /\ \A i \in 1 .. n : \A r \in Reader : ReadStep(vs)[<<i, r>>] = ReadOne(r, vs[i])
      /\ \A i \in 1 .. n + 1 : \A r \in Reader : ReadStep(ws)[<<i, r>>] = ReadOne(r, ws[i])
      /\ NothingRead \in Reader
  BY <1>1, ReadStepType
<1> HIDE DEF n
<1>5. g[n] = h[n]
  <2>1. ASSUME NEW i \in 1 .. n, NEW r \in Reader
        PROVE  ReadStep(vs)[<<i, r>>] = ReadStep(ws)[<<i, r>>]
    <3>1. i \in 1 .. n + 1
      BY <1>1
    <3>2. vs[i] = ws[i]
      BY <1>1
    <3> QED BY <1>4, <3>1, <3>2, Zenon
  <2>2. n + 1 \in Nat /\ n <= n + 1 /\ n \in 0 .. n
    BY <1>1
  <2>3. \A j \in 0 .. n : g[j] = h[j]
    BY <1>1, <1>2, <1>3, <1>4, <2>1, <2>2, RunsAgree
  <2> QED BY <2>2, <2>3
<1>6. h[n + 1] = ReadOne(h[n], v)
  <2>1. n + 1 \in 1 .. n + 1 /\ n + 1 - 1 = n /\ n \in 0 .. n + 1
    BY <1>1
  <2>2. h[n + 1] = ReadStep(ws)[<<n + 1, h[n + 1 - 1]>>] /\ h[n] \in Reader
    BY <1>3, <2>1 DEF Runs
  <2> QED BY <1>1, <1>4, <2>1, <2>2
<1> QED BY <1>2, <1>3, <1>5, <1>6 DEF ws

LEMMA ReadBackAppend ==
    ASSUME NEW vs \in Seq(Volumes), NEW v \in Volumes
    PROVE  ReadBack(Append(vs, v)) = IF v = << >> THEN Reading(vs).out ELSE Out(Reading(vs), v)
<1>1. Reading(vs) \in Reader
  BY ReadingType
<1>2. CASE v = << >>
  BY <1>2, ReadingAppend DEF ReadBack, ReadOne
<1>3. CASE v # << >>
  BY <1>1, <1>3, ReadingAppend, OutType DEF ReadBack
<1> QED BY <1>2, <1>3

-----------------------------------------------------------------------------
(* What is dumped.                                                          *)
LEMMA Constants ==
    /\ N \in Nat /\ N >= 1 /\ Ntrec \in Nat /\ Ntrec >= 2 /\ MinBlocks \in Nat
    /\ Len(Items) \in Nat /\ DOMAIN Items = 1 .. Len(Items)
    /\ \A n \in 1 .. Len(Items) :
           /\ Items[n].kind \in {"map", "inode"} /\ Items[n].addr \in Seq(BOOLEAN)
           /\ Len(Items[n].addr) \in Nat /\ DOMAIN Items[n].addr = 1 .. Len(Items[n].addr)
    /\ \A l \in Limits : /\ l.volumes \in Nat /\ l.eots \in Nat /\ l.rewrites \in Nat
                         /\ l.dup \in 0 .. N
<1>1. /\ Len(Items) \in Nat /\ DOMAIN Items = 1 .. Len(Items)
      /\ \A n \in 1 .. Len(Items) : Items[n] \in [kind : {"map", "inode"}, addr : Seq(BOOLEAN)]
  BY ConstantsAssumption, LenProperties, ElementOfSeq DEF ConstantsAssumption
<1>2. ASSUME NEW n \in 1 .. Len(Items)
      PROVE  /\ Items[n].kind \in {"map", "inode"} /\ Items[n].addr \in Seq(BOOLEAN)
             /\ Len(Items[n].addr) \in Nat /\ DOMAIN Items[n].addr = 1 .. Len(Items[n].addr)
  BY <1>1, LenProperties
<1> QED BY <1>1, <1>2, ConstantsAssumption DEF ConstantsAssumption

LEMMA PresentIs ==
    ASSUME NEW n \in DOMAIN Items
    PROVE  /\ Present(n) \in Seq(Nat)
           /\ (\A k \in DOMAIN Items[n].addr : Items[n].addr[k]) =>
                  Present(n) = [k \in 1 .. Len(Items[n].addr) |-> k]
<1> DEFINE addr == Items[n].addr
           l == Len(addr)
           One(i) == IF addr[i] THEN <<i>> ELSE << >>
           step == [p \in (1 .. l) \X Seq(Nat) |-> p[2] \o One(p[1])]
           Body(x, i) == IF i = 0 THEN << >> ELSE x[i - 1] \o One(i)
           Eq(x) == x = [i \in 0 .. l |-> Body(x, i)]
           there == CHOOSE x : Eq(x)
<1>1. l \in Nat /\ DOMAIN addr = 1 .. l
  BY Constants
<1>2. ASSUME NEW i \in 1 .. l PROVE One(i) \in Seq(Nat)
  BY <1>1
<1>3. step \in [(1 .. l) \X Seq(Nat) -> Seq(Nat)]
  <2>1. ASSUME NEW p \in (1 .. l) \X Seq(Nat) PROVE p[2] \o One(p[1]) \in Seq(Nat)
    <3>1. One(p[1]) \in Seq(Nat)
      BY <1>2
    <3> HIDE DEF One
    <3> QED BY <3>1, ConcatProperties
  <2> HIDE DEF One
  <2> QED BY <2>1
<1> HIDE DEF One
<1>4. \A i \in 1 .. l : \A v \in Seq(Nat) : step[<<i, v>>] = v \o One(i)
  OBVIOUS
<1>5. << >> \in Seq(Nat)
  BY EmptySeq
<1>6. Present(n) = there[l]
  BY Zenon DEF Present, One
<1> HIDE DEF step, l
<1>7. PICK g : Runs(g, l, Seq(Nat), << >>, step)
  BY <1>1, <1>3, <1>5, Recursion, Zenon
<1> DEFINE G(v, i) == v \o One(i)
<1>8. \A i \in 1 .. l : \A v \in Seq(Nat) : step[<<i, v>>] = G(v, i)
  BY <1>4
<1>9. \A x, i : Body(x, i) = IF i = 0 THEN << >> ELSE G(x[i - 1], i)
  BY Zenon
<1> HIDE DEF G
<1>10. Eq(g)
  <2>1. g = [i \in 0 .. l |-> g[i]]
    BY <1>7 DEF Runs
  <2>2. ASSUME NEW i \in 0 .. l PROVE g[i] = Body(g, i)
    <3> HIDE DEF Body
    <3>1. CASE i = 0
      BY <1>7, <1>9, <3>1 DEF Runs
    <3>2. CASE i # 0
      <4>1. i \in 1 .. l /\ i - 1 \in 0 .. l
        BY <1>1, <3>2
      <4>2. g[i] = step[<<i, g[i - 1]>>] /\ g[i - 1] \in Seq(Nat)
        BY <1>7, <4>1 DEF Runs
      <4>3. g[i] = G(g[i - 1], i)
        BY <1>8, <4>1, <4>2
      <4> QED BY <1>9, <3>2, <4>3, Zenon
    <3> QED BY <3>1, <3>2
  <2> HIDE DEF Body
  <2> QED BY <2>1, <2>2, Zenon
<1>11. Eq(there)
  <2> HIDE DEF Eq
  <2> QED BY <1>10, Zenon
<1> HIDE DEF there, Body
<1>12. ASSUME NEW i \in 0 .. l PROVE there[i] = IF i = 0 THEN << >> ELSE G(there[i - 1], i)
  BY <1>9, <1>11, Zenon
<1>13. there = [i \in 0 .. l |-> there[i]]
  <2>1. there = [i \in 0 .. l |-> Body(there, i)]
    BY <1>11
  <2> QED BY <2>1
<1>14. Runs(there, l, Seq(Nat), << >>, step)
  <2>1. there[0] = << >>
    BY <1>1, <1>12
  <2>2. ASSUME NEW i \in 1 .. l, NEW v \in Seq(Nat), v = there[i - 1] PROVE there[i] = step[<<i, v>>]
    <3>1. i \in 0 .. l /\ i # 0
      BY <1>1
    <3>2. there[i] = G(v, i)
      BY <1>12, <2>2, <3>1, Zenon
    <3> QED BY <1>8, <3>2
  <2> HIDE DEF Eq
  <2> QED BY <1>1, <1>3, <1>5, <1>13, <2>1, <2>2, RunsTyped
<1>15. Present(n) \in Seq(Nat)
  <2>1. l \in 0 .. l
    BY <1>1
  <2> QED BY <1>6, <1>14, <2>1 DEF Runs
<1>16. ASSUME \A k \in DOMAIN addr : addr[k]
       PROVE  Present(n) = [k \in 1 .. l |-> k]
  <2> DEFINE Id(j) == [k \in 1 .. j |-> k]
             A == {j \in 0 .. l : there[j] = Id(j)}
  <2>1. 0 \in A
    <3>1. there[0] = << >>
      BY <1>14 DEF Runs
    <3>2. Id(0) = << >>
      OBVIOUS
    <3> QED BY <1>1, <3>1, <3>2
  <2>2. ASSUME NEW j \in 0 .. l - 1, j \in A PROVE j + 1 \in A
    <3>1. j + 1 \in 1 .. l /\ j + 1 \in 0 .. l /\ j + 1 # 0 /\ j + 1 - 1 = j
      BY <1>1
    <3>2. there[j + 1] = G(there[j + 1 - 1], j + 1)
      BY <1>12, <3>1
    <3>3. there[j + 1] = Id(j) \o One(j + 1)
      BY <2>2, <3>1, <3>2, Zenon DEF G
    <3>4. One(j + 1) = <<j + 1>>
      BY <1>1, <1>16, <3>1 DEF One
    <3>5. Id(j) \o <<j + 1>> = Id(j + 1)
      OBVIOUS
    <3> HIDE DEF Id
    <3> QED BY <3>1, <3>3, <3>4, <3>5, Zenon
  <2>3. l \in A
    <3>1. l \in 0 .. l
      BY <1>1
    <3> HIDE DEF A
    <3> QED BY <1>1, <2>1, <2>2, <3>1, Climb
  <2> QED BY <1>6, <2>3
<1> QED BY <1>15, <1>16 DEF l

LEMMA RecordsAre ==
    ASSUME NEW n \in DOMAIN Items
    PROVE  /\ RecordsOf(n) \in Seq(Recs)
           /\ Len(RecordsOf(n)) = 1 + Len(Present(n)) /\ Len(Present(n)) \in Nat
           /\ \A c : (c.item = n /\ c.i = Len(Present(n))) => RecordsOf(n) = Begun(c)
<1> DEFINE data == [k \in 1 .. Len(Present(n)) |-> DataRec(n, Present(n)[k])]
<1>1. Present(n) \in Seq(Nat) /\ Len(Present(n)) \in Nat /\ n \in Nat
  BY PresentIs, LenProperties, Constants
<1>2. \A k \in 1 .. Len(Present(n)) : DataRec(n, Present(n)[k]) \in Recs
  <2>1. ASSUME NEW k \in 1 .. Len(Present(n)) PROVE DataRec(n, Present(n)[k]) \in [t : {"data"}, item : Nat, i : Nat]
    BY <1>1, ElementOfSeq DEF DataRec
  <2> QED BY <2>1 DEF Recs
<1>3. data \in Seq(Recs) /\ Len(data) = Len(Present(n))
  BY <1>1, <1>2
<1>4. HeaderRec(n) \in Recs
  BY <1>1 DEF HeaderRec, Recs
<1>5. <<HeaderRec(n)>> \in Seq(Recs) /\ Len(<<HeaderRec(n)>>) = 1
  BY <1>4
<1>6. RecordsOf(n) = <<HeaderRec(n)>> \o data
  BY DEF RecordsOf
<1>7. RecordsOf(n) \in Seq(Recs) /\ Len(RecordsOf(n)) = 1 + Len(Present(n))
  <2> HIDE DEF data
  <2> QED BY <1>3, <1>5, <1>6, ConcatProperties
<1>8. ASSUME NEW c, c.item = n, c.i = Len(Present(n)) PROVE RecordsOf(n) = Begun(c)
  BY <1>8 DEF RecordsOf, Begun
<1> QED BY <1>1, <1>7, <1>8

LEMMA UptoIs ==
    /\ Upto(0) = << >> /\ Logical = Upto(Len(Items))
    /\ \A n \in 0 .. Len(Items) : Upto(n) \in Seq(Recs) /\ Len(Upto(n)) \in Nat
    /\ \A n \in 1 .. Len(Items) : Upto(n) = Upto(n - 1) \o RecordsOf(n)
<1> DEFINE recs(n) == [item \in 1 .. n |-> RecordsOf(item)]
<1>1. Logical = Upto(Len(Items))
  BY DEF Logical, Upto
<1>2. Upto(0) = << >>
  <2>1. recs(0) = << >>
    OBVIOUS
  <2> QED BY <2>1, FlattenEmpty DEF Upto
<1>3. ASSUME NEW n \in 0 .. Len(Items)
      PROVE  /\ recs(n) \in Seq(Seq(Recs)) /\ Upto(n) \in Seq(Recs) /\ Len(Upto(n)) \in Nat
  <2>1. \A item \in 1 .. n : RecordsOf(item) \in Seq(Recs)
    BY RecordsAre, Constants
  <2>2. recs(n) \in Seq(Seq(Recs))
    BY <2>1, Constants
  <2> QED BY <2>2, FlattenType, LenProperties DEF Upto
<1>4. ASSUME NEW n \in 1 .. Len(Items) PROVE Upto(n) = Upto(n - 1) \o RecordsOf(n)
  <2>1. n - 1 \in 0 .. Len(Items) /\ n - 1 \in Nat /\ n - 1 + 1 = n /\ n \in Nat
    BY Constants
  <2>2. recs(n) = Append(recs(n - 1), RecordsOf(n))
    BY <2>1
  <2>3. recs(n - 1) \in Seq(Seq(Recs)) /\ RecordsOf(n) \in Seq(Recs)
    BY <1>3, <2>1, RecordsAre, Constants
  <2> HIDE DEF recs
  <2>4. FlattenSeq(recs(n)) = FlattenSeq(recs(n - 1)) \o RecordsOf(n)
    BY <2>2, <2>3, FlattenAppend
  <2> QED BY <2>4 DEF Upto, recs
<1> QED BY <1>1, <1>2, <1>3, <1>4

(* The records grow with the items.                                         *)
LEMMA UptoGrows ==
    ASSUME NEW k \in 0 .. Len(Items), NEW n \in 0 .. Len(Items), k <= n
    PROVE  Len(Upto(k)) <= Len(Upto(n))
<1> DEFINE L(j) == Len(Upto(j))
           A == {j \in 0 .. n - k : L(k) <= L(k + j)}
<1>1. k \in Nat /\ n - k \in Nat /\ Len(Items) \in Nat
  BY Constants
<1>2. ASSUME NEW j \in 1 .. Len(Items) PROVE L(j - 1) <= L(j)
  <2>1. j - 1 \in 0 .. Len(Items) /\ j \in DOMAIN Items
    BY Constants
  <2>2. Upto(j - 1) \in Seq(Recs) /\ RecordsOf(j) \in Seq(Recs)
    BY <2>1, UptoIs, RecordsAre
  <2>3. Len(Upto(j - 1) \o RecordsOf(j)) = L(j - 1) + Len(RecordsOf(j)) /\ Len(RecordsOf(j)) \in Nat /\ L(j - 1) \in Nat
    BY <2>2, ConcatProperties, LenProperties
  <2>4. Upto(j) = Upto(j - 1) \o RecordsOf(j)
    BY UptoIs
  <2> QED BY <2>3, <2>4
<1>3. \A j \in 0 .. Len(Items) : L(j) \in Nat
  BY UptoIs
<1> HIDE DEF L
<1>4. 0 \in A
  <2>1. k + 0 = k /\ L(k) <= L(k)
    BY <1>1, <1>3
  <2> QED BY <1>1, <2>1
<1>5. ASSUME NEW j \in 0 .. n - k - 1, j \in A PROVE j + 1 \in A
  <2>1. k + j + 1 \in 1 .. Len(Items) /\ k + j + 1 - 1 = k + j /\ k + (j + 1) = k + j + 1
        /\ k + j \in 0 .. Len(Items) /\ k + j + 1 \in 0 .. Len(Items) /\ j + 1 \in 0 .. n - k
    BY <1>1
  <2>2. L(k + j + 1 - 1) <= L(k + j + 1)
    BY <1>2, <2>1
  <2>3. L(k) <= L(k + j + 1)
    BY <1>3, <1>5, <2>1, <2>2
  <2> QED BY <2>1, <2>3
<1>6. n - k \in A
  <2>1. n - k \in 0 .. n - k
    BY <1>1
  <2> HIDE DEF A
  <2> QED BY <1>1, <1>4, <1>5, <2>1, Climb
<1>7. k + (n - k) = n
  BY <1>1
<1> QED BY <1>6, <1>7 DEF L

(* One record more.                                                         *)
LEMMA TailOfAppend ==
    ASSUME NEW S, NEW s \in Seq(S), NEW e \in S, NEW a \in Nat \ {0}, a <= Len(s) + 1
    PROVE  /\ SubSeq(Append(s, e), a, Len(s) + 1) = Append(SubSeq(s, a, Len(s)), e)
           /\ SubSeq(s, a, Len(s)) \in Seq(S)
<1> DEFINE t == Append(s, e)
           b == Len(s)
<1>1. /\ b \in Nat /\ t \in Seq(S) /\ Len(t) = b + 1 /\ t[b + 1] = e
      /\ \A i \in 1 .. b : t[i] = s[i] /\ s[i] \in S
  BY AppendProperties, LenProperties, ElementOfSeq
<1> HIDE DEF t, b
<1>2. SubSeq(t, a, b + 1) = Append(SubSeq(t, a, b), t[b + 1])
  BY <1>1, OneMoreOf DEF b
<1>3. \A i \in a .. b : t[i] = s[i] /\ s[i] \in S /\ t[i] \in S
  BY <1>1
<1>4. /\ SubSeq(t, a, b) \in Seq(S) /\ Len(SubSeq(t, a, b)) = (IF a <= b THEN b - a + 1 ELSE 0)
      /\ \A i \in 1 .. b - a + 1 : SubSeq(t, a, b)[i] = t[a + i - 1]
  BY <1>1, <1>3, SubSeqProperties
<1>5. /\ SubSeq(s, a, b) \in Seq(S) /\ Len(SubSeq(s, a, b)) = (IF a <= b THEN b - a + 1 ELSE 0)
      /\ \A i \in 1 .. b - a + 1 : SubSeq(s, a, b)[i] = s[a + i - 1]
  BY <1>1, <1>3, SubSeqProperties
<1>6. ASSUME NEW i \in 1 .. Len(SubSeq(t, a, b)) PROVE SubSeq(t, a, b)[i] = SubSeq(s, a, b)[i]
  <2>1. i \in 1 .. b - a + 1 /\ a + i - 1 \in a .. b
    BY <1>1, <1>4
  <2> QED BY <1>3, <1>4, <1>5, <2>1
<1>7. SubSeq(t, a, b) = SubSeq(s, a, b)
  BY <1>4, <1>5, <1>6, SeqEqual
<1> QED BY <1>1, <1>2, <1>5, <1>7 DEF t, b

LEMMA LogicalIs == Logical \in Seq(Recs) /\ Len(Logical) \in Nat
BY UptoIs, Constants

LEMMA RestAppend ==
    ASSUME NEW out \in Seq(Recs), NEW e \in Recs, Len(Logical) <= Len(out)
    PROVE  /\ Rest(Append(out, e)) = Append(Rest(out), e) /\ Rest(out) \in Seq(Recs)
           /\ Rest(Append(out, e)) # << >>
<1>1. Len(Append(out, e)) = Len(out) + 1
  BY AppendProperties
<1>2. Len(Logical) + 1 \in Nat \ {0} /\ Len(Logical) + 1 <= Len(out) + 1
  BY LogicalIs, LenProperties
<1>3. Rest(Append(out, e)) = Append(Rest(out), e) /\ Rest(out) \in Seq(Recs)
  BY <1>1, <1>2, TailOfAppend, ZenonT(60) DEF Rest
<1> QED BY <1>3, AppendProperties

LEMMA BeginsAppend ==
    ASSUME NEW out \in Seq(Recs), NEW e \in Recs, Begins(out), Rest(out) = << >> => e = EndRec
    PROVE  Begins(Append(out, e)) /\ Rest(Append(out, e)) # << >>
<1>1. /\ Rest(Append(out, e)) = Append(Rest(out), e) /\ Rest(out) \in Seq(Recs)
      /\ Rest(Append(out, e)) # << >>
  BY RestAppend DEF Begins
<1>2. Append(out, e) = Logical \o Append(Rest(out), e)
  <2> DEFINE l == Logical
             r == Rest(out)
  <2>1. l \in Seq(Recs) /\ r \in Seq(Recs) /\ out = l \o r
    BY <1>1, LogicalIs DEF Begins
  <2> HIDE DEF l, r
  <2>2. /\ Append(out, e) = out \o <<e>> /\ Append(r, e) = r \o <<e>> /\ <<e>> \in Seq(Recs)
    BY <2>1, AppendIsConcat
  <2>3. (l \o r) \o <<e>> = l \o (r \o <<e>>)
    BY <2>1, <2>2, ConcatAssociative
  <2>4. Append(out, e) = l \o Append(r, e)
    BY <2>1, <2>2, <2>3, Zenon
  <2> QED BY <2>4 DEF l, r
<1>3. Len(Append(out, e)) >= Len(Logical)
  BY AppendProperties, LogicalIs, LenProperties DEF Begins
<1>4. Head(Append(Rest(out), e)) = IF Rest(out) = << >> THEN e ELSE Head(Rest(out))
  BY <1>1, HeadTailAppend
<1> QED BY <1>1, <1>2, <1>3, <1>4 DEF Begins

LEMMA BeginsFront ==
    ASSUME NEW out \in Seq(Recs), NEW e \in Recs, Begins(Append(out, e)), Rest(Append(out, e)) # << >>
    PROVE  Begins(out)
<1> DEFINE l == Logical
           t == Append(out, e)
           r == SubSeq(out, Len(l) + 1, Len(out))
<1>1. Len(t) = Len(out) + 1 /\ Len(out) \in Nat /\ Len(l) \in Nat /\ l \in Seq(Recs) /\ t \in Seq(Recs)
  BY AppendProperties, LogicalIs, LenProperties
<1>2. Len(l) <= Len(out)
  <2>1. CASE Len(l) = Len(t)
    <3>1. Rest(t) = << >>
      BY <1>1, <2>1, SubSeqEmpty DEF Rest
    <3> QED BY <3>1
  <2>2. Len(t) >= Len(l)
    BY DEF Begins
  <2> HIDE DEF t, l
  <2> QED BY <1>1, <2>1, <2>2
<1>3. /\ Rest(t) = Append(Rest(out), e) /\ Rest(out) \in Seq(Recs)
  BY <1>2, RestAppend
<1>4. t = l \o Append(Rest(out), e)
  BY <1>3 DEF Begins
<1>5. out = l \o Rest(out)
  <2> DEFINE q == Rest(out)
  <2>0. q \in Seq(Recs) /\ t = l \o Append(q, e) /\ t = Append(out, e)
    BY <1>3, <1>4
  <2> HIDE DEF q, l, t
  <2>1. Append(q, e) = q \o <<e>> /\ <<e>> \in Seq(Recs)
    BY <2>0, AppendIsConcat
  <2>2. (l \o q) \o <<e>> = l \o (q \o <<e>>)
    BY <1>1, <2>0, <2>1, ConcatAssociative
  <2>3. l \o q \in Seq(Recs)
    BY <1>1, <2>0, ConcatProperties
  <2>4. Append(l \o q, e) = (l \o q) \o <<e>>
    BY <2>3, AppendIsConcat
  <2>5. Append(out, e) = Append(l \o q, e)
    BY <2>0, <2>1, <2>2, <2>4, Zenon
  <2>6. out = l \o q
    <3> DEFINE w == l \o q
    <3> HIDE DEF w
    <3>1. w \in Seq(Recs) /\ Append(out, e) = Append(w, e)
      BY <2>3, <2>5 DEF w
    <3>2. out = w
      BY <3>1, AppendInjective
    <3> QED BY <3>2 DEF w
  <2> QED BY <2>6 DEF l, q
<1>6. Rest(out) = << >> \/ Head(Rest(out)) = EndRec
  <2>1. Head(Append(Rest(out), e)) = IF Rest(out) = << >> THEN e ELSE Head(Rest(out))
    BY <1>3, HeadTailAppend
  <2> QED BY <1>3, <2>1 DEF Begins
<1> QED BY <1>1, <1>2, <1>5, <1>6 DEF Begins

(* When all is there and nothing yet behind it.                             *)
LEMMA BeginsWhole == Begins(Logical) /\ Rest(Logical) = << >>
<1>1. Rest(Logical) = << >>
  BY LogicalIs, SubSeqEmpty DEF Rest
<1>2. Logical \o << >> = Logical
  BY LogicalIs, ConcatEmptySeq
<1> QED BY <1>1, <1>2, LogicalIs DEF Begins

LEMMA VolumeAppend ==
    ASSUME NEW v \in Volumes, v # << >>, NEW e \in Recs
    PROVE  /\ Append(v, e) \in Volumes /\ Append(v, e) # << >> /\ Head(Append(v, e)) = Head(v)
           /\ Len(Append(v, e)) = Len(v) + 1
BY AppendProperties, HeadTailAppend DEF Volumes

LEMMA OutAppend ==
    ASSUME NEW r \in Reader, NEW v, Follows(r, v), NEW e \in Recs
    PROVE  /\ Follows(r, Append(v, e)) /\ Skips(r, Append(v, e)) = Skips(r, v)
           /\ Out(r, Append(v, e)) = Append(Out(r, v), e)
<1>1. v \in Volumes /\ v # << >> /\ v \in Seq(Recs) /\ Len(v) \in Nat /\ r.out \in Seq(Recs)
  BY LenProperties DEF Follows, Volumes, Reader
<1>2. Skips(r, v) \in Nat /\ Skips(r, v) < Len(v)
  BY <1>1, SkipsType DEF Follows
<1>3. Skips(r, Append(v, e)) = Skips(r, v)
  BY <1>1, VolumeAppend DEF Skips
<1>4. Len(Append(v, e)) = Len(v) + 1
  BY <1>1, VolumeAppend
<1>5. Follows(r, Append(v, e))
  BY <1>1, <1>2, <1>3, <1>4, VolumeAppend DEF Follows
<1> DEFINE a == 2 + Skips(r, v)
           u == SubSeq(v, a, Len(v))
           o == r.out
<1>6. a \in Nat \ {0} /\ a <= Len(v) + 1
  BY <1>1, <1>2
<1> HIDE DEF a
<1>7. SubSeq(Append(v, e), a, Len(v) + 1) = Append(u, e) /\ u \in Seq(Recs)
  BY <1>1, <1>6, TailOfAppend
<1> HIDE DEF u
<1>8. o \o Append(u, e) = Append(o \o u, e)
  <2> HIDE DEF o
  <2>1. Append(u, e) = u \o <<e>> /\ <<e>> \in Seq(Recs) /\ o \in Seq(Recs)
    BY <1>1, <1>7, AppendIsConcat DEF o
  <2>2. (o \o u) \o <<e>> = o \o (u \o <<e>>)
    BY <1>7, <2>1, ConcatAssociative, SMTT(60)
  <2>3. o \o u \in Seq(Recs)
    BY <1>7, <2>1, ConcatProperties
  <2>4. Append(o \o u, e) = (o \o u) \o <<e>>
    BY <2>3, AppendIsConcat
  <2> QED BY <2>1, <2>2, <2>4, Zenon
<1>9. Out(r, v) = o \o u
  BY DEF Out, u, a
<1>10. Out(r, Append(v, e)) = o \o Append(u, e)
  BY <1>3, <1>4, <1>7 DEF Out, a
<1> QED BY <1>3, <1>5, <1>8, <1>9, <1>10, Zenon

-----------------------------------------------------------------------------
(* The master's memory.                                                     *)
Kept(c, d) == d.item = c.item /\ d.i = c.i /\ d.trailer = c.trailer

LEMMA SlotsAre ==
    ASSUME NEW c \in Memory
    PROVE  /\ c.slp \in Slots /\ Next(c.slp) \in Slots
           /\ \A s \in Slots : c.slot[s] \in Slot
           /\ SlotAt(c, 0) = c.slp
           /\ \A k \in 1 .. N - 1 : SlotAt(c, k) \in Slots /\ SlotAt(c, k) # c.slp
<1>1. c.slp \in 0 .. N - 1 /\ N \in Nat
  BY Constants DEF Memory, Slots
<1>2. Next(c.slp) \in Slots
  BY <1>1 DEF Next, Slots
<1>3. \A s \in Slots : c.slot[s] \in Slot
  BY DEF Memory
<1>4. SlotAt(c, 0) = c.slp
  BY <1>1 DEF SlotAt
<1>5. \A k \in 1 .. N - 1 : SlotAt(c, k) \in Slots /\ SlotAt(c, k) # c.slp
  BY <1>1 DEF SlotAt, Slots
<1> QED BY <1>1, <1>2, <1>3, <1>4, <1>5 DEF Slots

(* One record more in the buffer, and nothing else but the record numbers.  *)
Puts(c, d, rec) ==
    /\ d \in Memory /\ Kept(c, d) /\ d.slp = c.slp /\ d.tapea = c.tapea + 1
    /\ d.type = c.type /\ d.count = c.count
    /\ Buffer(d) = Append(Buffer(c), rec)
    /\ \A s \in Slots : d.slot[s].firstrec = c.slot[s].firstrec
    /\ \A s \in Slots : s # c.slp => d.slot[s] = c.slot[s]

LEMMA PutGives ==
    ASSUME NEW c \in Memory, NEW rec \in Recs
    PROVE  Puts(c, Put(c, rec), rec)
<1> DEFINE recs == Append(Buffer(c), rec)
           slot == [c.slot EXCEPT ![c.slp] = [c.slot[c.slp] EXCEPT !.recs = recs]]
           last == IF IsHeader(rec) THEN c.tapea ELSE c.last
           d == [c EXCEPT !.slot = slot, !.last = last, !.tapea = c.tapea + 1]
<1>1. Put(c, rec) = d
  BY Zenon DEF Put, Buffer
<1>2. c.slp \in Slots /\ c.slot \in [Slots -> Slot] /\ c.slot[c.slp] \in Slot /\ c.last \in Int /\ c.tapea \in Nat
  BY SlotsAre DEF Memory
<1>3. recs \in Seq(Recs)
  BY <1>2, AppendProperties DEF Buffer, Slot
<1>4. [c.slot[c.slp] EXCEPT !.recs = recs] \in Slot
  <2> HIDE DEF recs
  <2> QED BY <1>2, <1>3 DEF Slot
<1>5. slot \in [Slots -> Slot] /\ last \in Int
  <2> HIDE DEF recs
  <2> QED BY <1>2, <1>4
<1>6. slot[c.slp] = [c.slot[c.slp] EXCEPT !.recs = recs] /\ slot[c.slp].recs = recs
      /\ slot[c.slp].firstrec = c.slot[c.slp].firstrec
  <2> HIDE DEF recs
  <2> QED BY <1>2, <1>3 DEF Slot
<1>7. \A s \in Slots : s # c.slp => slot[s] = c.slot[s]
  BY <1>2
<1> HIDE DEF slot, last, recs
<1>8. d \in Memory
  <2> DEFINE e == [c EXCEPT !.slot = slot]
             f == [e EXCEPT !.last = last]
             tapea == c.tapea + 1
  <2>1. e \in Memory
    BY <1>5 DEF Memory
  <2> HIDE DEF e
  <2>2. f \in Memory
    BY <1>5, <2>1 DEF Memory
  <2> HIDE DEF f, tapea
  <2>3. [f EXCEPT !.tapea = tapea] \in Memory
    <3>1. tapea \in Nat
      BY <1>2 DEF tapea
    <3> QED BY <2>2, <3>1 DEF Memory
  <2>4. d = [f EXCEPT !.tapea = tapea]
    BY DEF e, f, tapea, Memory
  <2> QED BY <2>3, <2>4
<1>9. /\ d.slp = c.slp /\ d.tapea = c.tapea + 1 /\ d.slot = slot /\ Kept(c, d)
      /\ d.type = c.type /\ d.count = c.count
  BY DEF Memory, Kept
<1> HIDE DEF d
<1>10. Buffer(d) = recs
  BY <1>6, <1>9 DEF Buffer
<1>11. \A s \in Slots : d.slot[s].firstrec = c.slot[s].firstrec
  BY <1>6, <1>7, <1>9
<1>12. \A s \in Slots : s # c.slp => d.slot[s] = c.slot[s]
  BY <1>7, <1>9
<1> QED BY <1>1, <1>8, <1>9, <1>10, <1>11, <1>12 DEF Puts, recs

LEMMA StampGives ==
    ASSUME NEW c \in Memory
    PROVE  /\ StampHeader(c) \in Memory /\ Kept(c, StampHeader(c))
           /\ StampHeader(c).slp = c.slp /\ StampHeader(c).slot = c.slot
           /\ StampHeader(c).tapea = c.tapea
           /\ VolumeHeader(c) \in TapeRecs /\ VolumeHeader(c) \in Recs
           /\ VolumeHeader(c).firstrec = c.slot[c.slp].firstrec
<1>1. c.slot[c.slp] \in Slot /\ c.tapea \in Nat
  BY SlotsAre DEF Memory
<1>2. c.slot[c.slp].count \in Int /\ c.slot[c.slp].firstrec \in Nat
  BY <1>1 DEF Slot
<1>3. VolumeHeader(c) \in TapeRecs /\ VolumeHeader(c).firstrec = c.slot[c.slp].firstrec
  BY <1>1, <1>2 DEF VolumeHeader, TapeRec, TapeRecs
<1>4. StampHeader(c) \in Memory
  BY <1>2 DEF StampHeader, Memory
<1> QED BY <1>3, <1>4 DEF StampHeader, Memory, Kept, Recs

LEMMA BlksType ==
    ASSUME NEW c \in Memory
    PROVE  Blks(c) \in Int
<1> DEFINE present == {j \in 1 .. c.count : c.addr[j]}
<1>1. c.count \in Int
  BY DEF Memory
<1>2. IsFiniteSet(1 .. c.count)
  BY <1>1, FS_Interval
<1>3. IsFiniteSet(present)
  BY <1>2, FS_Subset
<1>4. Cardinality(present) \in Nat
  BY <1>3, FS_CardinalityType
<1> HIDE DEF present
<1>5. Blks(c) = CASE c.type = "map" -> c.count [] c.type = "end" -> 0 [] OTHER -> Cardinality(present)
  BY Zenon DEF Blks, present
<1> QED BY <1>1, <1>4, <1>5

LEMMA AdvanceGives ==
    ASSUME NEW c \in Memory
    PROVE  LET d == Advance(c)
           IN  /\ d \in Memory /\ Kept(c, d) /\ d.slp = Next(c.slp) /\ d.tapea = c.tapea
               /\ d.type = c.type /\ d.count = c.count
               /\ Buffer(d) = << >> /\ d.slot[d.slp].firstrec = c.slot[c.slp].firstrec + Ntrec
               /\ \A s \in Slots : s # d.slp => d.slot[s] = c.slot[s]
<1> DEFINE s == Next(c.slp)
           new == [recs |-> << >>, count |-> c.last + Blks(c) + 1 - c.tapea, tapea |-> c.tapea,
                   firstrec |-> c.slot[c.slp].firstrec + Ntrec]
           slot == [c.slot EXCEPT ![s] = new]
           d == [c EXCEPT !.slp = s, !.slot = slot]
<1>1. Advance(c) = d
  BY Zenon DEF Advance
<1>2. s \in Slots /\ c.slot \in [Slots -> Slot] /\ c.slot[c.slp] \in Slot /\ c.last \in Int /\ c.tapea \in Nat
  BY SlotsAre DEF Memory
<1>3. new \in Slot
  <2> DEFINE count == c.last + Blks(c) + 1 - c.tapea
             first == c.slot[c.slp].firstrec + Ntrec
  <2>1. count \in Int
    BY <1>2, BlksType
  <2>2. first \in Nat
    BY <1>2, Constants, SMTT(60) DEF Slot
  <2>3. << >> \in Seq(Recs) /\ c.tapea \in Nat
    BY <1>2, EmptySeq
  <2> HIDE DEF count, first
  <2>4. [recs |-> << >>, count |-> count, tapea |-> c.tapea, firstrec |-> first] \in Slot
    BY <2>1, <2>2, <2>3 DEF Slot
  <2> QED BY <2>4 DEF count, first
<1>4. new.recs = << >> /\ new.firstrec = c.slot[c.slp].firstrec + Ntrec
  OBVIOUS
<1> HIDE DEF new, s
<1>5. slot \in [Slots -> Slot] /\ slot[s] = new /\ \A x \in Slots : x # s => slot[x] = c.slot[x]
  BY <1>2, <1>3
<1> HIDE DEF slot
<1>6. d \in Memory
  BY <1>2, <1>5 DEF Memory
<1>7. d.slp = s /\ d.slot = slot /\ Kept(c, d) /\ d.tapea = c.tapea /\ d.type = c.type /\ d.count = c.count
  BY DEF Memory, Kept
<1> HIDE DEF d
<1> QED BY <1>1, <1>4, <1>5, <1>6, <1>7, Zenon DEF Buffer, s

(* What rollforward sends: the blocks that are still there, behind a header.*)
RollHeader(c) == TapeRec(c.slot[c.slp].count, c.slot[c.slp].tapea, c.slot[c.slp].firstrec)
Blocks(c) == [k \in 1 .. N |-> c.slot[SlotAt(c, k - 1)].recs]

LEMMA ReplayIs ==
    ASSUME NEW c \in Memory
    PROVE  /\ Blocks(c) \in Seq(Seq(Recs)) /\ Len(Blocks(c)) = N
           /\ RollHeader(c) \in TapeRecs /\ <<RollHeader(c)>> \in Seq(Recs)
           /\ Replayed(c) = <<RollHeader(c)>> \o FlattenSeq(Blocks(c))
           /\ Replayed(c) \in Volumes /\ Replayed(c) # << >> /\ Head(Replayed(c)) = RollHeader(c)
           /\ Len(Replayed(c)) = 1 + Len(FlattenSeq(Blocks(c)))
<1>1. ASSUME NEW k \in 1 .. N PROVE c.slot[SlotAt(c, k - 1)].recs \in Seq(Recs)
  <2>1. SlotAt(c, k - 1) \in Slots
    <3>1. k - 1 = 0 \/ k - 1 \in 1 .. N - 1
      BY Constants
    <3> QED BY <3>1, SlotsAre
  <2>2. c.slot[SlotAt(c, k - 1)] \in Slot
    BY <2>1, SlotsAre
  <2> QED BY <2>2 DEF Slot
<1>2. Blocks(c) \in Seq(Seq(Recs)) /\ Len(Blocks(c)) = N
  <2>1. N \in Nat
    BY Constants
  <2>2. \A k \in 1 .. N : c.slot[SlotAt(c, k - 1)].recs \in Seq(Recs)
    BY <1>1
  <2> QED BY <2>1, <2>2 DEF Blocks
<1>3. Replayed(c) = <<RollHeader(c)>> \o FlattenSeq(Blocks(c))
  BY Zenon DEF Replayed, RollHeader, Blocks
<1> DEFINE h == RollHeader(c)
           f == FlattenSeq(Blocks(c))
<1>4. h \in TapeRecs /\ h \in Recs /\ f \in Seq(Recs)
  <2>1. c.slot[c.slp] \in Slot
    BY SlotsAre
  <2>2. h \in TapeRecs
    BY <2>1 DEF RollHeader, TapeRec, TapeRecs, Slot
  <2> QED BY <1>2, <2>2, FlattenType DEF Recs
<1> HIDE DEF h, f
<1>5. <<h>> \in Seq(Recs) /\ Len(<<h>>) = 1 /\ <<h>>[1] = h
  BY <1>4
<1>6. /\ <<h>> \o f \in Seq(Recs) /\ Len(<<h>> \o f) = 1 + Len(f) /\ Len(f) \in Nat
      /\ (<<h>> \o f)[1] = h
  BY <1>4, <1>5, ConcatProperties, LenProperties
<1>7. <<h>> \o f # << >> /\ Head(<<h>> \o f) = h
  <2> DEFINE v == <<h>> \o f
  <2> HIDE DEF v
  <2>1. v \in Seq(Recs) /\ Len(v) = 1 + Len(f) /\ v[1] = h
    BY <1>6 DEF v
  <2> QED BY <1>6, <2>1 DEF v
<1>8. <<h>> \o f \in Volumes
  BY <1>4, <1>6, <1>7 DEF Volumes
<1> QED BY <1>2, <1>3, <1>4, <1>5, <1>6, <1>7, <1>8 DEF h, f

LEMMA RollGives ==
    ASSUME NEW c \in Memory
    PROVE  LET d == AfterRollforward(c)
           IN  /\ d \in Memory /\ Kept(c, d) /\ d.slp = c.slp /\ d.tapea = c.tapea
               /\ Buffer(d) = <<Last(Replayed(c))>>
               /\ d.slot[d.slp].firstrec = c.slot[SlotAt(c, N - 1)].firstrec + Ntrec
<1> DEFINE stamped == [StampHeader(c) EXCEPT !.last = c.tapea - 1]
           new == [recs |-> <<Last(Replayed(c))>>,
                   count |-> stamped.last + Blks(stamped) + 1 - stamped.tapea,
                   tapea |-> stamped.slot[c.slp].tapea,
                   firstrec |-> c.slot[SlotAt(c, N - 1)].firstrec + Ntrec]
           slot == [stamped.slot EXCEPT ![c.slp] = new]
           d == [stamped EXCEPT !.slot = slot]
<1>1. AfterRollforward(c) = d
  BY Zenon DEF AfterRollforward
<1>2. c.tapea - 1 \in Int /\ c.slp \in Slots
  BY SlotsAre DEF Memory
<1>3. stamped \in Memory
  <2> DEFINE e == StampHeader(c)
  <2>1. e \in Memory
    BY StampGives
  <2> HIDE DEF e
  <2>2. [e EXCEPT !.last = c.tapea - 1] \in Memory
    BY <1>2, <2>1 DEF Memory
  <2> QED BY <2>2 DEF e
<1>4. /\ Kept(c, stamped) /\ stamped.slp = c.slp /\ stamped.slot = c.slot
      /\ stamped.tapea = c.tapea
  <2> DEFINE e == StampHeader(c)
             f == [e EXCEPT !.last = c.tapea - 1]
  <2>1. e \in Memory /\ Kept(c, e) /\ e.slp = c.slp /\ e.slot = c.slot /\ e.tapea = c.tapea
    BY StampGives
  <2> HIDE DEF e
  <2>2. Kept(c, f) /\ f.slp = c.slp /\ f.slot = c.slot /\ f.tapea = c.tapea
    BY <2>1 DEF Memory, Kept
  <2> QED BY <2>2 DEF e, f
<1> HIDE DEF stamped
<1>5. new \in Slot
  <2> DEFINE count == stamped.last + Blks(stamped) + 1 - stamped.tapea
             first == c.slot[SlotAt(c, N - 1)].firstrec + Ntrec
             recs == <<Last(Replayed(c))>>
             tapea == stamped.slot[c.slp].tapea
  <2>1. count \in Int
    <3>1. stamped.last \in Int /\ stamped.tapea \in Nat
      BY <1>3 DEF Memory
    <3> QED BY <1>3, <3>1, BlksType
  <2>2. first \in Nat
    <3>1. SlotAt(c, N - 1) \in Slots
      <4>1. N - 1 = 0 \/ N - 1 \in 1 .. N - 1
        BY Constants
      <4> QED BY <4>1, SlotsAre
    <3>2. c.slot[SlotAt(c, N - 1)] \in Slot
      BY <3>1, SlotsAre
    <3> QED BY <3>2, Constants DEF Slot
  <2>3. recs \in Seq(Recs)
    <3> DEFINE r == Replayed(c)
    <3>1. r \in Seq(Recs) /\ r # << >>
      BY ReplayIs DEF Volumes
    <3> HIDE DEF r
    <3>2. Len(r) \in 1 .. Len(r)
      BY <3>1, EmptySeq
    <3>3. r[Len(r)] \in Recs
      BY <3>1, <3>2, ElementOfSeq
    <3> QED BY <3>3 DEF Last, r
  <2>4. tapea \in Nat
    <3>1. c.slot[c.slp] \in Slot
      BY SlotsAre
    <3> QED BY <1>4, <3>1 DEF Slot
  <2> HIDE DEF count, first, recs, tapea
  <2>5. [recs |-> recs, count |-> count, tapea |-> tapea, firstrec |-> first] \in Slot
    BY <2>1, <2>2, <2>3, <2>4 DEF Slot
  <2> QED BY <2>5 DEF count, first, recs, tapea
<1>6. new.recs = <<Last(Replayed(c))>> /\ new.firstrec = c.slot[SlotAt(c, N - 1)].firstrec + Ntrec
  OBVIOUS
<1> HIDE DEF new
<1>7. slot \in [Slots -> Slot] /\ slot[c.slp] = new
  BY <1>2, <1>3, <1>5 DEF Memory
<1> HIDE DEF slot
<1>8. d \in Memory
  BY <1>3, <1>7 DEF Memory
<1>9. d.slp = stamped.slp /\ d.slot = slot /\ Kept(stamped, d) /\ d.tapea = stamped.tapea
  BY <1>3 DEF Memory, Kept
<1> HIDE DEF d
<1>10. Kept(c, d)
  BY <1>4, <1>9 DEF Kept
<1> QED BY <1>1, <1>4, <1>6, <1>7, <1>8, <1>9, <1>10, Zenon DEF Buffer

-----------------------------------------------------------------------------
(* A volume that is started.                                                *)
LEMMA KeptGives ==
    ASSUME NEW c, NEW d, Kept(c, d)
    PROVE  /\ Produced(d) = Produced(c) /\ (InItem(d) <=> InItem(c))
           /\ \A out : Passed(c, out) => Passed(d, out)
           /\ NoMaps(c) => NoMaps(d)
<1> DEFINE P(item, i) ==
        IF item = 0 THEN << >>
        ELSE Upto(item - 1) \o (<<HeaderRec(item)>> \o [k \in 1 .. i |-> DataRec(item, Present(item)[k])])
<1>1. Produced(c) = P(c.item, c.i) /\ Produced(d) = P(d.item, d.i)
  BY Zenon DEF Produced, Begun
<1> HIDE DEF P
<1>2. Produced(d) = Produced(c)
  BY <1>1 DEF Kept
<1>3. InItem(d) <=> InItem(c)
  BY DEF InItem, Kept
<1>4. NoMaps(c) => NoMaps(d)
  BY DEF NoMaps, Kept
<1>5. ASSUME NEW out, Passed(c, out) PROVE Passed(d, out)
  BY <1>2, <1>3, <1>5 DEF Passed, Kept
<1> QED BY <1>2, <1>3, <1>4, <1>5

(* What holds of the master's memory when a volume begins with nothing in   *)
(* the buffer.                                                              *)
Fresh(c) ==
    /\ c \in Memory /\ Buffer(c) = << >> /\ Passed(c, Before.out)
    /\ ~InItem(c) => Rest(Before.out) # << >>
    /\ c.slot[c.slp].firstrec = Before.tpblksread
    /\ (c.tapea + eots) % Ntrec = 0
    /\ c.item = 0 \/ NoMaps(c)

LEMMA FreshTop ==
    ASSUME StaticInv, ckpt.how = "top", Resumable
    PROVE  Fresh(ckpt.mem)
<1> DEFINE c == InitialMemory
<1>1. ckpt.mem = c /\ tapes = << >> /\ eots = 0
  BY DEF Resumable
<1>2. Before = NothingRead
  BY <1>1, ReadingEmpty DEF Before
<1>3. Before.out = << >> /\ Before.tpblksread = 0
  BY <1>2 DEF NothingRead
<1>4. /\ c.slp = 0 /\ c.item = 0 /\ c.tapea = 0 /\ c.trailer = 0
      /\ c.slot = [s \in Slots |-> IF s = 0 THEN [EmptySlot EXCEPT !.count = 1] ELSE EmptySlot]
  BY Zenon DEF InitialMemory
<1>5. 0 \in Slots /\ Ntrec \in Nat /\ Ntrec >= 2 /\ Len(Items) \in Nat
  BY Constants DEF Slots
<1> HIDE DEF c
<1>6. c.slot[0].recs = << >> /\ c.slot[0].firstrec = 0
  BY <1>4, <1>5 DEF EmptySlot
<1>7. InItem(c) /\ Produced(c) = << >> /\ c.item \notin DOMAIN Items
  BY <1>4, <1>5, Constants DEF InItem, Produced
<1>8. Passed(c, Before.out)
  BY <1>3, <1>4, <1>7 DEF Passed
<1>9. (c.tapea + eots) % Ntrec = 0
  BY <1>1, <1>4, <1>5
<1> QED BY <1>1, <1>3, <1>4, <1>6, <1>7, <1>8, <1>9 DEF Fresh, StaticInv, Buffer

LEMMA FreshNext ==
    ASSUME StaticInv, ckpt.how = "next", Resumable
    PROVE  Fresh(ckpt.mem)
BY DEF Resumable, StaticInv, Fresh

Started ==
    /\ acked = 0
    /\ IF ckpt.how = "roll"
       THEN /\ mpc = "first" /\ m = AfterRollforward(ckpt.mem)
            /\ vol = ReplayedBlocks(ckpt.mem)
       ELSE /\ mpc = "fill" /\ vol = << >>
            /\ m = Put(StampHeader(ckpt.mem), VolumeHeader(ckpt.mem))

(* A volume with its header only.                                           *)
LEMMA OneHeader ==
    ASSUME NEW r \in Reader, NEW h \in TapeRecs, h.firstrec = r.tpblksread
    PROVE  /\ <<h>> \in Volumes /\ Follows(r, <<h>>) /\ Skips(r, <<h>>) = 0
           /\ Out(r, <<h>>) = r.out
<1> DEFINE v == <<h>>
<1>1. h \in Recs /\ h.firstrec \in Nat /\ r.tpblksread \in Nat /\ r.out \in Seq(Recs)
  BY DEF TapeRecs, Recs, Reader
<1>2. v \in Seq(Recs) /\ Len(v) = 1 /\ Head(v) = h /\ v # << >>
  BY <1>1
<1> HIDE DEF v
<1>3. Skips(r, v) = 0
  BY <1>1, <1>2 DEF Skips, Duplicates
<1>4. SubSeq(v, 2, 1) = << >>
  BY SubSeqEmpty
<1>5. Out(r, v) = r.out
  BY <1>1, <1>2, <1>3, <1>4, ConcatEmptySeq DEF Out
<1> QED BY <1>2, <1>3, <1>5 DEF Follows, Volumes, v

LEMMA FreshStart ==
    ASSUME StaticInv, Resumable, Started, ckpt.how # "roll"
    PROVE  TypeInv /\ Running
<1> DEFINE c == ckpt.mem
           h == VolumeHeader(c)
           e == StampHeader(c)
<1>1. Fresh(c)
  BY FreshTop, FreshNext DEF StaticInv
<1>2. c \in Memory /\ Before \in Reader
  BY <1>1, ReadingType DEF Fresh, StaticInv, Before
<1>3. /\ e \in Memory /\ Kept(c, e) /\ e.slp = c.slp /\ e.slot = c.slot /\ e.tapea = c.tapea
      /\ h \in TapeRecs /\ h \in Recs /\ h.firstrec = Before.tpblksread
  BY <1>1, <1>2, StampGives DEF Fresh
<1>4. m = Put(e, h) /\ mpc = "fill" /\ vol = << >> /\ acked = 0
  BY DEF Started
<1>5. Puts(e, m, h)
  BY <1>3, <1>4, PutGives
<1> HIDE DEF c, h, e
<1>6. Kept(c, m)
  BY <1>3, <1>5 DEF Kept, Puts
<1>7. Buffer(m) = <<h>>
  <2>1. Buffer(e) = Buffer(c)
    BY <1>3 DEF Buffer
  <2>2. Buffer(m) = Append(<< >>, h)
    BY <1>1, <1>5, <2>1 DEF Fresh, Puts
  <2> QED BY <2>2
<1>8. /\ Follows(Before, <<h>>) /\ Skips(Before, <<h>>) = 0 /\ Out(Before, <<h>>) = Before.out
      /\ <<h>> \in Volumes
  BY <1>2, <1>3, OneHeader
<1>9. Volume = <<h>> /\ Filled = << >> /\ InBuffer = <<h>>
  <2>1. Filled = << >> /\ InBuffer = <<h>>
    BY <1>4, <1>7, FlattenEmpty DEF Filled, InBuffer
  <2>2. << >> \o <<h>> = <<h>>
    BY <1>8, ConcatEmptySeq DEF Volumes
  <2> QED BY <2>1, <2>2 DEF Volume
<1>10. Passed(m, Before.out) /\ (InItem(m) <=> InItem(c))
  BY <1>1, <1>6, KeptGives DEF Fresh
<1>11. TypeInv
  BY <1>4, <1>5, EmptySeq DEF TypeInv, Puts
<1>12. BlockInv
  <2>1. Len(vol) = 0 /\ Len(Buffer(m)) = 1
    BY <1>4, <1>7
  <2> QED BY <1>4, <2>1, Constants DEF BlockInv
<1>13. OutInv
  BY <1>8, <1>9, <1>10 DEF OutInv
<1>14. PlaceInv
  <2>1. m.slot[m.slp].firstrec = Before.tpblksread
    BY <1>1, <1>3, <1>5, SlotsAre, <1>2 DEF Puts, Fresh
  <2>2. Len(vol) * Ntrec = 0 /\ Before.tpblksread \in Nat
    BY <1>2, <1>4, Constants DEF Reader
  <2> QED BY <1>4, <2>1, <2>2 DEF PlaceInv
<1>15. FillInv
  <2>1. m.tapea = c.tapea + 1 /\ c.tapea \in Nat
    BY <1>2, <1>3, <1>5 DEF Puts, Memory
  <2>2. m.tapea + eots - Len(InBuffer) = c.tapea + eots
    <3>1. Len(InBuffer) = 1
      BY <1>9
    <3>2. eots \in Nat
      BY DEF StaticInv
    <3> QED BY <2>1, <3>1, <3>2
  <2> QED BY <1>1, <2>2 DEF FillInv, Fresh
<1>16. SlotInv
  <2>1. ASSUME NEW k \in 1 .. N - 1 PROVE ~(Len(vol) - Ahead + k >= 1)
    BY <1>4, Constants DEF Ahead
  <2> QED BY <1>4, <2>1 DEF SlotInv
<1>17. MapInv
  <2>1. \A n \in DOMAIN Items : ~(n = m.item /\ Items[n].kind = "map")
    <3>1. CASE c.item = 0
      BY <1>6, <3>1, Constants DEF Kept
    <3>2. CASE NoMaps(c)
      <4> SUFFICES ASSUME NEW n \in DOMAIN Items, n = m.item, Items[n].kind = "map" PROVE FALSE
        OBVIOUS
      <4>1. n < c.item /\ n = c.item /\ n \in Nat
        BY <1>6, <3>2, Constants DEF NoMaps, Kept
      <4> QED BY <4>1
    <3> QED BY <1>1, <3>1, <3>2 DEF Fresh
  <2>2. ckpt.how # "top" => NoMaps(m)
    <3>1. ckpt.how = "next" => NoMaps(c)
      BY DEF Resumable, c
    <3> QED BY <1>6, <3>1, KeptGives DEF StaticInv
  <2> QED BY <2>1, <2>2 DEF MapInv
<1>18. TrailInv
  <2> SUFFICES ASSUME ~InItem(m) PROVE Rest(Before.out) # << >> /\ Written
    BY <1>8, <1>9 DEF TrailInv
  <2>1. ~InItem(c) /\ Rest(Before.out) # << >> /\ Begins(Before.out)
    BY <1>1, <1>10 DEF Fresh, Passed
  <2>2. ReadBack(Append(tapes, << >>)) = Before.out
    <3>1. << >> \in Volumes
      BY EmptySeq DEF Volumes
    <3> QED BY <3>1, ReadBackAppend DEF Before, StaticInv
  <2>3. Filled \in Volumes
    BY <1>9, EmptySeq DEF Volumes
  <2> QED BY <1>9, <2>1, <2>2, <2>3 DEF Written, Whole
<1> QED BY <1>11, <1>12, <1>13, <1>14, <1>15, <1>16, <1>17, <1>18 DEF Running

LEMMA RollStart ==
    ASSUME StaticInv, Resumable, Started, ckpt.how = "roll"
    PROVE  TypeInv /\ Running
<1> DEFINE c == ckpt.mem
           R == Replayed(c)
           B == Before
<1>1. /\ tapes # << >> /\ eots = limits.eots /\ eots = 1
      /\ \A s \in Slots : Len(c.slot[s].recs) = Ntrec
      /\ NoMaps(c) /\ Follows(B, R) /\ Passed(c, Out(B, R))
      /\ ~InItem(c) => Rest(Out(B, R)) # << >>
      /\ MoreVolumes => c.slot[SlotAt(c, N - 1)].firstrec = B.tpblksread + (N - 1) * Ntrec
      /\ c.tapea % Ntrec = 0
  BY DEF Resumable
<1>2. c \in Memory /\ B \in Reader
  BY ReadingType DEF StaticInv, Before
<1>3. m = AfterRollforward(c) /\ mpc = "first" /\ vol = ReplayedBlocks(c) /\ acked = 0
  BY DEF Started
<1>4. /\ m \in Memory /\ Kept(c, m) /\ m.slp = c.slp /\ m.tapea = c.tapea
      /\ Buffer(m) = <<Last(R)>>
      /\ m.slot[m.slp].firstrec = c.slot[SlotAt(c, N - 1)].firstrec + Ntrec
  BY <1>2, <1>3, RollGives
<1>5. N \in Nat /\ N >= 1 /\ Ntrec \in Nat /\ Ntrec >= 2 /\ N * Ntrec \in Nat /\ (N - 1) * Ntrec + Ntrec = N * Ntrec
  <2>1. N \in Nat /\ Ntrec \in Nat /\ N >= 1 /\ Ntrec >= 2
    BY Constants
  <2> QED BY <2>1
<1>6. R \in Seq(Recs) /\ Len(R) = N * Ntrec + 1 /\ R \in Volumes /\ Head(R) \in TapeRecs
  <2>1. /\ Blocks(c) \in Seq(Seq(Recs)) /\ Len(Blocks(c)) = N
        /\ Len(R) = 1 + Len(FlattenSeq(Blocks(c)))
        /\ R \in Volumes /\ R # << >>
    BY <1>2, ReplayIs
  <2>2. ASSUME NEW k \in 1 .. N PROVE Len(Blocks(c)[k]) = Ntrec
    <3>1. Blocks(c)[k] = c.slot[SlotAt(c, k - 1)].recs
      BY DEF Blocks
    <3>2. SlotAt(c, k - 1) \in Slots
      <4>1. k - 1 = 0 \/ k - 1 \in 1 .. N - 1
        BY <1>5
      <4> QED BY <1>2, <4>1, SlotsAre
    <3> QED BY <1>1, <3>1, <3>2
  <2>3. Len(FlattenSeq(Blocks(c))) = N * Ntrec
    BY <1>5, <2>1, <2>2, FlattenLength
  <2> QED BY <1>5, <2>1, <2>3 DEF Volumes
<1> HIDE DEF c, R
<1> DEFINE V == SubSeq(R, 1, N * Ntrec)
           last == R[N * Ntrec + 1]
<1>7. /\ vol \in Seq(Seq(Recs)) /\ Len(vol) = N /\ \A b \in 1 .. N : Len(vol[b]) = Ntrec
      /\ Filled = V
  <2>1. N * Ntrec <= Len(R)
    BY <1>5, <1>6
  <2>2. vol = Pieces(R, Ntrec, N)
    BY <1>3, Zenon DEF ReplayedBlocks, Pieces, R
  <2> HIDE DEF V
  <2>3. /\ Pieces(R, Ntrec, N) \in Seq(Seq(Recs)) /\ Len(Pieces(R, Ntrec, N)) = N
        /\ \A b \in 1 .. N : Len(Pieces(R, Ntrec, N)[b]) = Ntrec
        /\ FlattenSeq(Pieces(R, Ntrec, N)) = SubSeq(R, 1, N * Ntrec)
    BY <1>5, <1>6, <2>1, FlattenPieces, SMTT(60)
  <2> QED BY <2>2, <2>3 DEF Filled, V
<1>8. last \in Recs /\ V \in Seq(Recs) /\ Len(V) = N * Ntrec /\ R = Append(V, last) /\ Last(R) = last
  <2> DEFINE l == N * Ntrec
  <2>1. l \in Nat /\ Len(R) = l + 1
    BY <1>5, <1>6
  <2> HIDE DEF l
  <2>2. SubSeq(R, 1, l + 1) = Append(SubSeq(R, 1, l), R[l + 1])
    BY <1>6, <2>1, OneMoreOf
  <2>3. SubSeq(R, 1, Len(R)) = R
    BY <1>6, SubSeqFull
  <2>4. R[l + 1] \in Recs /\ \A i \in 1 .. l : R[i] \in Recs
    BY <1>6, <2>1, ElementOfSeq
  <2>5. SubSeq(R, 1, l) \in Seq(Recs) /\ Len(SubSeq(R, 1, l)) = l
    BY <2>1, <2>4, SubSeqProperties
  <2> QED BY <2>1, <2>2, <2>3, <2>4, <2>5 DEF l, Last
<1>9. V \in Volumes /\ V # << >> /\ Head(V) = Head(R)
  <2>1. V # << >>
    <3>1. N * Ntrec # 0
      <4>1. (N - 1) * Ntrec \in Nat
        BY <1>5
      <4> QED BY <1>5, <4>1
    <3> HIDE DEF V
    <3> QED BY <1>8, <3>1, EmptySeq
  <2> HIDE DEF V, last
  <2>2. Head(Append(V, last)) = Head(V)
    BY <1>8, <2>1, HeadTailAppend
  <2> QED BY <1>6, <1>8, <2>1, <2>2 DEF Volumes
<1> HIDE DEF V, last
<1>10. InBuffer = <<last>> /\ Volume = R
  <2>1. InBuffer = <<last>>
    BY <1>3, <1>4, <1>8 DEF InBuffer
  <2> QED BY <1>7, <1>8, <2>1, AppendIsConcat DEF Volume
<1>11. Passed(m, Out(B, R)) /\ NoMaps(m) /\ (InItem(m) <=> InItem(c))
  BY <1>1, <1>4, KeptGives
<1>12. TypeInv
  BY <1>3, <1>4, <1>7 DEF TypeInv
<1>13. BlockInv
  <2>1. Len(Buffer(m)) = 1
    BY <1>4, <1>8
  <2> QED BY <1>3, <1>5, <1>7, <2>1 DEF BlockInv
<1>14. OutInv
  BY <1>1, <1>10, <1>11 DEF OutInv
<1>15. PlaceInv
  <2> SUFFICES ASSUME MoreVolumes PROVE m.slot[m.slp].firstrec = B.tpblksread + Len(vol) * Ntrec
    <3>1. m.slot[m.slp].firstrec \in Nat
      BY <1>4, SlotsAre DEF Slot
    <3> QED BY <1>3, <3>1 DEF PlaceInv
  <2>1. B.tpblksread \in Nat
    BY <1>2 DEF Reader
  <2>2. m.slot[m.slp].firstrec = (B.tpblksread + (N - 1) * Ntrec) + Ntrec
    BY <1>1, <1>4
  <2>3. (N - 1) * Ntrec \in Nat
    BY <1>5
  <2> DEFINE x == (N - 1) * Ntrec
             y == N * Ntrec
             z == m.slot[m.slp].firstrec
             t == B.tpblksread
  <2>4. x \in Nat /\ t \in Nat /\ y = x + Ntrec /\ z = (t + x) + Ntrec
    BY <1>5, <2>1, <2>2, <2>3
  <2> HIDE DEF x, y, z, t
  <2>5. z = t + y
    BY <1>5, <2>4
  <2> QED BY <1>7, <2>5 DEF y, z, t
<1>16. FillInv
  <2>1. m.tapea \in Nat /\ Len(InBuffer) = 1
    BY <1>4, <1>10 DEF Memory
  <2>2. m.tapea + eots - Len(InBuffer) = c.tapea
    BY <1>1, <1>4, <2>1
  <2> QED BY <1>1, <2>2 DEF FillInv
<1>17. SlotInv
  BY <1>1 DEF SlotInv, StaticInv
<1>18. MapInv
  <2>1. ASSUME NEW n \in DOMAIN Items, n = m.item, Items[n].kind = "map" PROVE FALSE
    <3>1. n < m.item /\ n \in Nat
      BY <1>11, <2>1, Constants DEF NoMaps
    <3> QED BY <2>1, <3>1
  <2> QED BY <1>11, <2>1 DEF MapInv
<1>19. ASSUME ~InItem(m) PROVE Rest(Out(B, R)) # << >> /\ Written
  <2>1. Rest(Out(B, R)) # << >> /\ Begins(Out(B, R))
    BY <1>1, <1>11, <1>19 DEF Passed
  <2>2. Skips(B, R) = Skips(B, V) /\ Skips(B, V) \in Nat /\ Skips(B, V) < N * Ntrec + 1
    <3>1. Skips(B, R) = Skips(B, V)
      BY <1>9 DEF Skips
    <3>2. Skips(B, V) \in Nat
      BY <1>2, <1>9, SkipsType
    <3> QED BY <1>1, <1>6, <3>1, <3>2 DEF Follows
  <2>3. Out(B, V) \in Seq(Recs)
    BY <1>2, <1>9, OutType
  <2>4. ASSUME Skips(B, V) < Len(V) PROVE Begins(Out(B, V))
    <3>1. Follows(B, V)
      BY <1>9, <2>4 DEF Follows
    <3>2. Out(B, R) = Append(Out(B, V), last)
      BY <1>2, <1>8, <3>1, OutAppend
    <3> DEFINE o == Out(B, V)
    <3>3. o \in Seq(Recs) /\ Out(B, R) = Append(o, last)
      BY <2>3, <3>2
    <3> HIDE DEF o
    <3>4. Begins(Append(o, last)) /\ Rest(Append(o, last)) # << >>
      BY <2>1, <3>3
    <3>5. Begins(o)
      BY <1>8, <3>3, <3>4, BeginsFront
    <3> QED BY <3>5 DEF o
  <2>5. ASSUME Skips(B, V) >= Len(V) PROVE Begins(Out(B, V))
    <3>1. Skips(B, V) = N * Ntrec
      BY <1>5, <1>8, <2>2, <2>5
    <3>2. SubSeq(V, 2 + Skips(B, V), Len(V)) = << >> /\ SubSeq(R, 2 + Skips(B, R), Len(R)) = << >>
      <4> DEFINE l == N * Ntrec
      <4>1. l \in Nat /\ Len(V) = l /\ Len(R) = l + 1 /\ Skips(B, V) = l /\ Skips(B, R) = l
        BY <1>5, <1>6, <1>8, <2>2, <3>1
      <4> HIDE DEF l
      <4> QED BY <4>1, SubSeqEmpty
    <3>3. Out(B, V) = Out(B, R)
      BY <3>2 DEF Out
    <3> QED BY <2>1, <3>3, Zenon
  <2>6. Begins(Out(B, V))
    <3>1. Skips(B, V) < Len(V) \/ Skips(B, V) >= Len(V)
      BY <1>5, <1>8, <2>2
    <3> QED BY <2>4, <2>5, <3>1
  <2>7. ReadBack(Append(tapes, V)) = Out(B, V)
    BY <1>9, ReadBackAppend DEF StaticInv, Before
  <2> QED BY <1>1, <1>7, <1>9, <2>1, <2>6, <2>7 DEF Written, Whole
<1>20. TrailInv
  BY <1>10, <1>19 DEF TrailInv
<1> QED BY <1>12, <1>13, <1>14, <1>15, <1>16, <1>17, <1>18, <1>20 DEF Running

LEMMA StartedInv == StaticInv /\ Resumable /\ Started => ReadInv
<1> SUFFICES ASSUME StaticInv, Resumable, Started PROVE ReadInv
  OBVIOUS
<1>1. TypeInv /\ Running
  BY FreshStart, RollStart
<1>2. mpc \in {"fill", "first"}
  BY DEF Started
<1> QED BY <1>1, <1>2 DEF ReadInv

-----------------------------------------------------------------------------
(* Quotients and remainders.                                                *)

LEMMA DivIs ==
    ASSUME NEW x \in Int, NEW w \in Nat \ {0}
    PROVE  x = (x \div w) * w + (x % w) /\ x % w \in 0 .. w - 1 /\ x \div w \in Int
OBVIOUS

LEMMA ModIs ==
    ASSUME NEW x \in Int, NEW w \in Nat \ {0}, NEW q \in Int, NEW r \in 0 .. w - 1, x = q * w + r
    PROVE  x % w = r
<1> DEFINE p == x \div w
           s == x % w
<1>1. x = p * w + s /\ s \in 0 .. w - 1 /\ p \in Int
  BY DivIs
<1> HIDE DEF p, s
<1>2. (p - q) * w = r - s
  <2>1. (p - q) * w = p * w - q * w
    BY <1>1
  <2> QED BY <1>1, <2>1
<1>3. p - q = 0
  <2>1. CASE p - q >= 1
    <3>1. (p - q) * w = w + (p - q - 1) * w /\ (p - q - 1) * w \in Nat
      BY <1>1, <2>1
    <3> QED BY <1>1, <1>2, <3>1
  <2>2. CASE p - q <= -1
    <3>1. (p - q) * w = -w - (q - p - 1) * w /\ (q - p - 1) * w \in Nat
      BY <1>1, <2>2
    <3> QED BY <1>1, <1>2, <3>1
  <2> QED BY <1>1, <2>1, <2>2
<1>4. s = r
  BY <1>1, <1>2, <1>3
<1> QED BY <1>4 DEF s

(* One w less is the same remainder, one less is the remainder before.      *)
LEMMA ModShift ==
    ASSUME NEW x \in Int, NEW w \in Nat \ {0}
    PROVE  (x - w) % w = x % w
<1> DEFINE q == x \div w
           r == x % w
<1>1. x = q * w + r /\ r \in 0 .. w - 1 /\ q \in Int
  BY DivIs
<1> HIDE DEF q, r
<1>2. (q - 1) * w = q * w - w
  BY <1>1
<1>3. x - w \in Int /\ q - 1 \in Int /\ x - w = (q - 1) * w + r
  BY <1>1, <1>2
<1>4. (x - w) % w = r
  BY <1>1, <1>3, ModIs
<1> QED BY <1>4 DEF r

-----------------------------------------------------------------------------
(* The steps.  First what they leave alone.                                 *)

LEMMA ParentKept ==
    ASSUME UNCHANGED <<tapes, ckpt, eots, limits>>
    PROVE  /\ Before' = Before /\ (MoreVolumes' <=> MoreVolumes)
           /\ Resumable => Resumable'
           /\ StaticInv /\ rewrites' \in Nat => StaticInv'
<1>1. Before' = Before
  BY DEF Before
<1>2. MoreVolumes' <=> MoreVolumes
  BY DEF MoreVolumes
<1>3. Resumable => Resumable'
  BY <1>1, <1>2, Zenon DEF Resumable
<1>4. StaticInv /\ rewrites' \in Nat => StaticInv'
  BY DEF StaticInv
<1> QED BY <1>1, <1>2, <1>3, <1>4

(* One record more: what the master's memory e makes of it must have passed *)
(* with it, and be right about the maps and the trailers.                   *)
PutStep(e, rec) ==
    /\ mpc = "fill" /\ ~BufferFull(m)
    /\ m' = Put(e, rec) /\ e.slp = m.slp /\ e.slot = m.slot /\ e.tapea = m.tapea
    /\ UNCHANGED <<mpc, vol, acked, tapes, ckpt, eots, rewrites, limits>>

LEMMA PutInv ==
    ASSUME ReadInv, NEW e \in Memory, NEW rec \in Recs, PutStep(e, rec),
           Passed(e, Append(Out(Before, Volume), rec)),
           \A n \in DOMAIN Items : (n = e.item /\ Items[n].kind = "map") =>
               e.count = Len(Items[n].addr),
           NoMaps(m) => NoMaps(e),
           ~InItem(e) => ~InItem(m) /\ e.trailer + 1 = m.trailer
    PROVE  ReadInv'
<1>1. /\ TypeInv /\ StaticInv /\ Running /\ Resumable /\ mpc = "fill" /\ ~BufferFull(m)
      /\ BlockInv /\ OutInv /\ PlaceInv /\ FillInv /\ SlotInv /\ MapInv /\ TrailInv
  BY DEF ReadInv, PutStep, Live, TypeInv, Running
<1>2. UNCHANGED <<mpc, vol, acked, tapes, ckpt, eots, rewrites, limits>>
  BY DEF PutStep
<1>3. Before' = Before /\ (MoreVolumes' <=> MoreVolumes) /\ Resumable' /\ StaticInv' /\ mpc' = "fill"
  BY <1>1, <1>2, ParentKept DEF StaticInv
<1>4. Before \in Reader /\ m \in Memory /\ vol \in Seq(Seq(Recs)) /\ acked \in Nat
  BY <1>1, ReadingType DEF Before, TypeInv, StaticInv
<1>5. e.slp = m.slp /\ e.slot = m.slot /\ e.tapea = m.tapea /\ m' = Put(e, rec)
  BY DEF PutStep
<1>6. Puts(e, m', rec)
  BY <1>5, PutGives
<1>7. m' \in Memory /\ m'.slp = m.slp /\ m'.tapea = m.tapea + 1 /\ Kept(e, m') /\ m'.count = e.count
  BY <1>5, <1>6 DEF Puts
<1>8. Buffer(m') = Append(Buffer(m), rec) /\ Buffer(m) \in Seq(Recs)
  <2>1. Buffer(e) = Buffer(m)
    BY <1>5 DEF Buffer
  <2>2. Buffer(m) \in Seq(Recs)
    BY <1>4, SlotsAre DEF Buffer, Slot
  <2> QED BY <1>6, <2>1, <2>2 DEF Puts
<1>9. Len(Buffer(m')) = Len(Buffer(m)) + 1 /\ Len(Buffer(m)) \in Nat /\ Len(Buffer(m)) < Ntrec
  <2>1. Len(Buffer(m)) \in Nat /\ Len(Append(Buffer(m), rec)) = Len(Buffer(m)) + 1
    BY <1>8, AppendProperties, LenProperties
  <2>2. Len(Buffer(m)) < Ntrec
    BY <1>1, <2>1, Constants DEF BufferFull, Buffer
  <2> QED BY <1>8, <2>1, <2>2
<1>10. /\ InBuffer = Buffer(m) /\ InBuffer' = Buffer(m')
       /\ Filled' = Filled /\ Filled \in Seq(Recs)
  <2>1. InBuffer = Buffer(m) /\ InBuffer' = Buffer(m')
    BY <1>1, <1>3 DEF InBuffer
  <2>2. Filled' = Filled
    BY <1>2 DEF Filled
  <2>3. Filled \in Seq(Recs)
    BY <1>4, FlattenType DEF Filled
  <2> QED BY <2>1, <2>2, <2>3
<1>11. Volume' = Append(Volume, rec) /\ Volume \in Seq(Recs)
  <2> DEFINE f == Filled
             b == Buffer(m)
  <2>1. f \in Seq(Recs) /\ b \in Seq(Recs) /\ Volume = f \o b /\ Volume' = f \o Append(b, rec)
    BY <1>8, <1>10 DEF Volume
  <2> HIDE DEF f, b
  <2>2. f \o Append(b, rec) = Append(f \o b, rec) /\ f \o b \in Seq(Recs)
    BY <2>1
  <2> QED BY <2>1, <2>2
<1>12. /\ Follows(Before, Volume') /\ Skips(Before, Volume') = Skips(Before, Volume)
       /\ Out(Before, Volume') = Append(Out(Before, Volume), rec)
       /\ Out(Before, Volume) \in Seq(Recs)
  <2>1. Follows(Before, Volume)
    BY <1>1 DEF OutInv
  <2>2. Out(Before, Volume) \in Seq(Recs)
    BY <1>4, <2>1, OutType DEF Follows
  <2> QED BY <1>4, <1>11, <2>1, <2>2, OutAppend
<1>13. Passed(m', Out(Before, Volume')) /\ (InItem(m') <=> InItem(e)) /\ (NoMaps(e) => NoMaps(m'))
  BY <1>7, <1>12, KeptGives
<1>14. TypeInv'
  BY <1>2, <1>3, <1>4, <1>7 DEF TypeInv
<1>15. BlockInv'
  BY <1>1, <1>2, <1>3, <1>9, Constants DEF BlockInv
<1>16. OutInv'
  BY <1>1, <1>2, <1>3, <1>12, <1>13 DEF OutInv
<1>17. PlaceInv'
  <2>1. m'.slot[m'.slp].firstrec = m.slot[m.slp].firstrec
    BY <1>4, <1>5, <1>6, <1>7, SlotsAre DEF Puts
  <2> QED BY <1>1, <1>2, <1>3, <2>1 DEF PlaceInv
<1>18. FillInv'
  <2>1. m.tapea \in Nat /\ eots \in Nat
    BY <1>1, <1>4 DEF Memory, StaticInv
  <2>2. m'.tapea + eots - Len(InBuffer') = m.tapea + eots - Len(InBuffer)
    BY <1>7, <1>9, <1>10, <2>1, SMTT(60)
  <2> QED BY <1>1, <1>2, <2>2 DEF FillInv
<1>19. SlotInv'
  <2>1. ASSUME NEW k \in 1 .. N - 1
        PROVE  SlotAt(m', k) = SlotAt(m, k) /\ m'.slot[SlotAt(m, k)] = m.slot[SlotAt(m, k)]
    <3>1. SlotAt(m, k) \in Slots /\ SlotAt(m, k) # m.slp
      BY <1>4, SlotsAre
    <3>2. SlotAt(m', k) = SlotAt(m, k)
      BY <1>7 DEF SlotAt
    <3> QED BY <1>5, <1>6, <3>1, <3>2 DEF Puts
  <2> SUFFICES ASSUME eots < limits.eots, NEW k \in 1 .. N - 1, Len(vol) - Ahead + k >= 1
               PROVE  Holds(SlotAt(m, k), Len(vol) - Ahead + k)'
    <3>1. Ahead' = Ahead
      BY <1>2 DEF Ahead
    <3> QED BY <1>2, <2>1, <3>1, Zenon DEF SlotInv
  <2> DEFINE b == Len(vol) - Ahead + k
  <2>2. Holds(SlotAt(m, k), b)
    BY <1>1, Zenon DEF SlotInv
  <2>3. b' = b
    BY <1>2 DEF Ahead
  <2>4. SlotAt(m, k)' = SlotAt(m, k)
    BY <2>1
  <2> HIDE DEF b
  <2>5. Holds(SlotAt(m, k), b)'
    BY <1>2, <1>3, <2>1, <2>2, <2>3, <2>4 DEF Holds
  <2> QED BY <2>5 DEF b
<1>20. MapInv'
  <2>1. ckpt.how # "top" => NoMaps(m)
    BY <1>1 DEF MapInv
  <2>2. ckpt'.how # "top" => NoMaps(m')
    BY <1>2, <1>13, <2>1
  <2>3. \A n \in DOMAIN Items : (n = m'.item /\ Items[n].kind = "map") =>
            m'.count = Len(Items[n].addr)
    BY <1>7 DEF Kept
  <2> QED BY <2>2, <2>3 DEF MapInv
<1>21. TrailInv'
  <2> SUFFICES ASSUME ~InItem(m')
               PROVE  /\ Rest(Out(Before, Volume')) # << >>
                      /\ Len(Buffer(m')) + m'.trailer >= Ntrec \/ Written'
    BY <1>3 DEF TrailInv
  <2>1. ~InItem(e) /\ ~InItem(m) /\ e.trailer + 1 = m.trailer /\ m'.trailer = e.trailer
    BY <1>7, <1>13 DEF Kept
  <2>2. Len(Logical) <= Len(Out(Before, Volume))
    BY <1>1, <2>1, <1>12, LogicalIs DEF OutInv, Passed, Begins
  <2>3. Rest(Out(Before, Volume')) # << >>
    BY <1>12, <2>2, RestAppend
  <2>4. Written' <=> Written
    BY <1>2, <1>10 DEF Written, Whole
  <2>5. e.trailer \in Nat
    BY DEF Memory
  <2>6. Len(Buffer(m)) + m.trailer >= Ntrec \/ Written
    BY <1>1, <2>1 DEF TrailInv
  <2>7. Len(Buffer(m')) + m'.trailer = Len(Buffer(m)) + m.trailer
    BY <1>9, <2>1, <2>5
  <2> QED BY <2>3, <2>4, <2>6, <2>7
<1> QED
  BY <1>3, <1>14, <1>15, <1>16, <1>17, <1>18, <1>19, <1>20, <1>21 DEF ReadInv, Running

(* The volume as it is: what of it a step that adds no record needs.        *)
LEMMA VolumeIs ==
    ASSUME TypeInv, Follows(Before, Volume)
    PROVE  /\ Before \in Reader /\ Filled \in Seq(Recs) /\ InBuffer \in Seq(Recs)
           /\ Buffer(m) \in Seq(Recs) /\ Len(Buffer(m)) \in Nat
           /\ Volume \in Volumes /\ Volume # << >> /\ Out(Before, Volume) \in Seq(Recs)
           /\ InBuffer = << >> => Volume = Filled
<1>1. Before \in Reader /\ m \in Memory /\ vol \in Seq(Seq(Recs))
  BY ReadingType DEF TypeInv, StaticInv, Before
<1>2. Filled \in Seq(Recs)
  BY <1>1, FlattenType DEF Filled
<1>3. Buffer(m) \in Seq(Recs)
  BY <1>1, SlotsAre DEF Buffer, Slot
<1>4. InBuffer \in Seq(Recs)
  BY <1>3, EmptySeq DEF InBuffer
<1>5. InBuffer = << >> => Volume = Filled
  BY <1>2, ConcatEmptySeq DEF Volume
<1>6. Volume \in Volumes /\ Volume # << >>
  BY DEF Follows
<1>7. Out(Before, Volume) \in Seq(Recs)
  BY <1>1, <1>6, OutType
<1> QED BY <1>1, <1>2, <1>3, <1>4, <1>5, <1>6, <1>7, LenProperties

(* A volume that is read to the end is worth what the master has passed.    *)
LEMMA WrittenIs ==
    ASSUME TypeInv, Follows(Before, Volume), Volume = Filled,
           Begins(Out(Before, Volume)), eots = 0 => Rest(Out(Before, Volume)) # << >>
    PROVE  Written
<1>1. tapes \in Seq(Volumes) /\ Filled \in Volumes /\ Filled # << >>
  BY DEF TypeInv, StaticInv, Follows
<1>2. ReadBack(Append(tapes, Filled)) = Out(Before, Filled)
  BY <1>1, ReadBackAppend DEF Before
<1> QED BY <1>1, <1>2 DEF Written, Whole

(* flushtape: the block is sent.                                            *)
LEMMA FlushInv == ReadInv /\ Flush /\ UNCHANGED limits => ReadInv'
<1> SUFFICES ASSUME ReadInv, Flush, UNCHANGED limits PROVE ReadInv'
  OBVIOUS
<1> DEFINE b == Buffer(m)
           l == Len(vol)
<1>1. /\ mpc = "fill" /\ BufferFull(m) /\ vol' = Append(vol, b) /\ mpc' = "result"
      /\ UNCHANGED <<m, acked, tapes, ckpt, eots, rewrites, limits>>
  BY DEF Flush, Buffer
<1>2. /\ TypeInv /\ StaticInv /\ Resumable
      /\ BlockInv /\ OutInv /\ PlaceInv /\ FillInv /\ SlotInv /\ MapInv /\ TrailInv
  BY <1>1 DEF ReadInv, Live, TypeInv, Running
<1>3. Before' = Before /\ (MoreVolumes' <=> MoreVolumes) /\ Resumable' /\ StaticInv'
  BY <1>1, <1>2, ParentKept DEF StaticInv
<1>4. /\ Before \in Reader /\ Filled \in Seq(Recs) /\ b \in Seq(Recs) /\ Volume \in Seq(Recs)
      /\ vol \in Seq(Seq(Recs)) /\ l \in Nat
      /\ Follows(Before, Volume) /\ Out(Before, Volume) \in Seq(Recs) /\ m \in Memory /\ acked \in Nat
  BY <1>2, VolumeIs, LenProperties DEF OutInv, TypeInv, Volumes
<1>5. Len(b) = Ntrec
  BY <1>1, <1>2, <1>4, Constants DEF BlockInv, BufferFull, Buffer
<1> HIDE DEF b, l
<1>6. /\ Len(vol') = l + 1 /\ vol' \in Seq(Seq(Recs)) /\ vol'[l + 1] = b
      /\ \A i \in 1 .. l : vol'[i] = vol[i]
  BY <1>1, <1>4, AppendProperties DEF l
<1>7. Volume' = Volume /\ InBuffer' = << >> /\ InBuffer = b
  <2>1. Filled' = Filled \o b
    <3>1. FlattenSeq(Append(vol, b)) = FlattenSeq(vol) \o b
      BY <1>4, FlattenAppend
    <3> QED BY <1>1, <3>1 DEF Filled
  <2>2. InBuffer = b /\ InBuffer' = << >>
    BY <1>1 DEF InBuffer, b
  <2>3. Volume = Filled \o b
    BY <2>2 DEF Volume
  <2>4. Volume' = (Filled \o b) \o << >>
    BY <2>1, <2>2 DEF Volume
  <2> QED BY <1>4, <2>2, <2>3, <2>4, ConcatEmptySeq
<1>8. TypeInv'
  BY <1>1, <1>3, <1>4, <1>6 DEF TypeInv
<1>9. BlockInv'
  <2>1. \A i \in 1 .. l + 1 : Len(vol'[i]) = Ntrec
    <3> TAKE i \in 1 .. l + 1
    <3>1. i \in 1 .. l \/ i = l + 1
      BY <1>4
    <3> QED BY <1>2, <1>5, <1>6, <3>1 DEF BlockInv, l
  <2>2. Buffer(m') = b /\ vol' # << >>
    <3>1. Len(vol') # 0
      BY <1>4, <1>6
    <3>2. vol' # << >>
      BY <3>1, EmptySeq
    <3> QED BY <1>1, <3>2 DEF b
  <2>3. acked <= l /\ l - acked <= N - 1
    BY <1>1, <1>2 DEF BlockInv, l
  <2> QED BY <1>1, <1>4, <1>6, <2>1, <2>2, <2>3, Constants DEF BlockInv
<1>10. OutInv'
  BY <1>1, <1>2, <1>3, <1>7 DEF OutInv
<1>11. PlaceInv'
  <2> SUFFICES ASSUME MoreVolumes
               PROVE  m.slot[m.slp].firstrec + Ntrec = Before.tpblksread + (l + 1) * Ntrec
    BY <1>1, <1>3, <1>6 DEF PlaceInv
  <2>1. m.slot[m.slp].firstrec + 0 = Before.tpblksread + l * Ntrec
    BY <1>1, <1>2 DEF PlaceInv, l
  <2>2. m.slot[m.slp].firstrec \in Nat /\ Before.tpblksread \in Nat
    BY <1>4, SlotsAre DEF Slot, Reader
  <2>3. (l + 1) * Ntrec = l * Ntrec + Ntrec /\ l * Ntrec \in Nat
    BY <1>4, Constants
  <2> QED BY <2>1, <2>2, <2>3, Constants
<1>12. FillInv'
  <2>1. Len(InBuffer') = 0 /\ Len(InBuffer) = Ntrec
    BY <1>5, <1>7
  <2>2. m.tapea \in Nat /\ eots \in Nat /\ (m.tapea + eots - Ntrec) % Ntrec = 0
    BY <1>2, <1>4, <2>1 DEF Memory, StaticInv, FillInv
  <2>3. (m.tapea + eots) % Ntrec = 0
    <3> DEFINE x == m.tapea + eots
    <3>1. x \in Int /\ Ntrec \in Nat \ {0}
      BY <2>2, Constants
    <3>2. (x - Ntrec) % Ntrec = 0
      <4> DEFINE y == m.tapea + eots - Ntrec
      <4>1. y % Ntrec = 0 /\ y = x - Ntrec
        BY <2>2, Constants
      <4> HIDE DEF x, y
      <4> QED BY <4>1
    <3> HIDE DEF x
    <3>3. x % Ntrec = 0
      BY <3>1, <3>2, ModShift, Zenon
    <3> QED BY <3>3 DEF x
  <2>4. m'.tapea + eots' - Len(InBuffer') = m.tapea + eots
    BY <1>1, <2>1, <2>2
  <2> QED BY <2>3, <2>4 DEF FillInv
<1>13. SlotInv'
  <2>1. m' = m /\ Ahead' = N /\ Ahead = N - 1 /\ Len(vol') = l + 1 /\ eots' = eots /\ limits' = limits
    BY <1>1, <1>6 DEF Ahead
  <2> SUFFICES ASSUME eots < limits.eots, NEW k \in 1 .. N - 1, NEW b1, b1 = l + 1 - N + k, b1 >= 1,
                      NEW s, s = SlotAt(m, k)
               PROVE  Holds(s, b1)'
    <3>1. SUFFICES ASSUME eots < limits.eots, NEW k \in 1 .. N - 1, Len(vol') - Ahead' + k >= 1
                   PROVE  Holds(SlotAt(m, k), Len(vol) - Ahead + k)'
      BY <2>1, Zenon DEF SlotInv
    <3>2. SlotAt(m', k) = SlotAt(m, k)
      BY <2>1
    <3>3. Len(vol') - Ahead' + k = l + 1 - N + k
      BY <1>4, <2>1, Constants
    <3> QED BY <3>1, <3>2, <3>3, Zenon
  <2>2. b1 = l - (N - 1) + k /\ b1 \in 1 .. l
    BY <1>4, Constants
  <2>3. Holds(s, b1)
    <3>1. Len(vol) - Ahead + k = b1
      BY <2>1, <2>2 DEF l
    <3>2. Len(vol) - Ahead + k >= 1 => Holds(s, Len(vol) - Ahead + k)
      BY <1>2, Zenon DEF SlotInv
    <3> QED BY <3>1, <3>2
  <2> QED BY <1>1, <1>3, <1>6, <2>2, <2>3 DEF Holds
<1>14. MapInv'
  BY <1>1, <1>2, Zenon DEF MapInv, NoMaps
<1>15. TrailInv'
  <2>1. InItem(m') <=> InItem(m)
    BY <1>1 DEF InItem
  <2> QED BY <1>1, <1>2, <1>3, <1>7, <2>1 DEF TrailInv
<1> QED BY <1>1, <1>3, <1>8, <1>9, <1>10, <1>11, <1>12, <1>13, <1>14, <1>15 DEF ReadInv, Running

(* flushtape: the next slot takes over.                                     *)
LEMMA FlushGoodInv == ReadInv /\ FlushGood /\ UNCHANGED limits => ReadInv'
<1> SUFFICES ASSUME ReadInv, FlushGood, UNCHANGED limits PROVE ReadInv'
  OBVIOUS
<1> DEFINE l == Len(vol)
<1>1. /\ mpc = "result" /\ m' = Advance(m) /\ acked' = (IF l - acked >= N THEN acked + 1 ELSE acked)
      /\ mpc' = "fill" \/ (mpc' = "full" /\ l >= MinBlocks /\ MoreVolumes)
      /\ UNCHANGED <<vol, tapes, ckpt, eots, rewrites, limits>>
  BY Zenon DEF FlushGood, Outstanding, MoreVolumes
<1>2. /\ TypeInv /\ StaticInv /\ Resumable
      /\ BlockInv /\ OutInv /\ PlaceInv /\ FillInv /\ SlotInv /\ MapInv /\ TrailInv
  BY <1>1 DEF ReadInv, Live, TypeInv, Running
<1>3. Before' = Before /\ (MoreVolumes' <=> MoreVolumes) /\ Resumable' /\ StaticInv'
  BY <1>1, <1>2, ParentKept DEF StaticInv
<1>4. /\ Before \in Reader /\ Filled \in Seq(Recs) /\ vol \in Seq(Seq(Recs)) /\ l \in Nat
      /\ Follows(Before, Volume) /\ Out(Before, Volume) \in Seq(Recs) /\ m \in Memory /\ acked \in Nat
  BY <1>2, VolumeIs, LenProperties DEF OutInv, TypeInv, Volumes
<1>5. /\ m' \in Memory /\ Kept(m, m') /\ m'.slp = Next(m.slp) /\ m'.tapea = m.tapea
      /\ m'.type = m.type /\ m'.count = m.count
      /\ Buffer(m') = << >> /\ m'.slot[m'.slp].firstrec = m.slot[m.slp].firstrec + Ntrec
      /\ \A s \in Slots : s # m'.slp => m'.slot[s] = m.slot[s]
  BY <1>1, <1>4, AdvanceGives
<1>6. l >= 1 /\ vol[l] = Buffer(m) /\ Len(vol[l]) = Ntrec
  <2>1. vol # << >> /\ vol[l] = Buffer(m) /\ \A b \in 1 .. l : Len(vol[b]) = Ntrec
    BY <1>1, <1>2 DEF BlockInv
  <2>2. l # 0
    BY <1>4, <2>1, EmptySeq
  <2> QED BY <1>4, <2>1, <2>2
<1>7. InBuffer = << >> /\ InBuffer' = << >> /\ Filled' = Filled /\ Volume = Filled /\ Volume' = Volume
  <2>1. InBuffer = << >> /\ InBuffer' = << >> /\ Filled' = Filled
    BY <1>1, <1>5 DEF InBuffer, Filled
  <2> QED BY <1>4, <2>1, ConcatEmptySeq DEF Volume
<1>8. acked' \in Nat /\ acked' <= l /\ l - acked' <= N - 1
  <2>1. acked <= l /\ l - acked <= N
    BY <1>1, <1>2 DEF BlockInv
  <2> QED BY <1>1, <1>4, <1>6, <2>1, Constants
<1>9. TypeInv'
  BY <1>1, <1>3, <1>4, <1>5, <1>8 DEF TypeInv
<1>10. BlockInv'
  <2>1. Len(Buffer(m')) = 0
    BY <1>5
  <2> QED BY <1>1, <1>2, <1>3, <1>5, <1>8, <2>1, Constants DEF BlockInv
<1>11. (InItem(m') <=> InItem(m)) /\ Passed(m', Out(Before, Volume)) /\ (NoMaps(m) => NoMaps(m'))
  BY <1>2, <1>5, KeptGives DEF OutInv
<1>12. OutInv'
  BY <1>1, <1>2, <1>3, <1>7, <1>11 DEF OutInv
<1>13. PlaceInv'
  <2>1. MoreVolumes => m.slot[m.slp].firstrec + Ntrec = Before.tpblksread + l * Ntrec
    BY <1>1, <1>2 DEF PlaceInv
  <2>2. m'.slot[m'.slp].firstrec + 0 = m'.slot[m'.slp].firstrec
    BY <1>5, SlotsAre DEF Slot
  <2> QED BY <1>1, <1>3, <1>5, <2>1, <2>2 DEF PlaceInv
<1>14. FillInv'
  BY <1>1, <1>2, <1>5, <1>7 DEF FillInv
<1>15. SlotInv'
  <2>1. Ahead' = N - 1 /\ Ahead = N /\ N \in Nat /\ N >= 1 /\ Ntrec \in Nat
    BY <1>1, Constants DEF Ahead
  <2> SUFFICES ASSUME eots < limits.eots, NEW k \in 1 .. N - 1, NEW b, b = l - (N - 1) + k, b >= 1,
                      NEW s, s = SlotAt(m', k)
               PROVE  Holds(s, b)'
    <3>1. SUFFICES ASSUME eots < limits.eots, NEW k \in 1 .. N - 1, Len(vol') - Ahead' + k >= 1
                   PROVE  Holds(SlotAt(m, k), Len(vol) - Ahead + k)'
      BY <1>1, Zenon DEF SlotInv
    <3>2. Len(vol') - Ahead' + k = l - (N - 1) + k
      BY <1>1, <2>1
    <3> QED BY <3>1, <3>2, Zenon
  <2>2. s \in Slots /\ s # m'.slp
    BY <1>5, SlotsAre
  <2>3. m'.slot[s] = m.slot[s]
    BY <1>5, <2>2
  <2>4. Holds(s, b)
    <3>1. CASE k + 1 \in 1 .. N - 1
      <4>1. s = SlotAt(m, k + 1)
        <5>1. m.slp \in 0 .. N - 1
          BY <1>4 DEF Memory, Slots
        <5> QED BY <1>5, <2>1, <3>1, <5>1, SMTT(60) DEF SlotAt, Next
      <4>2. Len(vol) - Ahead + (k + 1) = b
        BY <1>4, <2>1
      <4>3. Len(vol) - Ahead + (k + 1) >= 1 => Holds(SlotAt(m, k + 1), Len(vol) - Ahead + (k + 1))
        BY <1>2, <3>1, Zenon DEF SlotInv
      <4> QED BY <4>1, <4>2, <4>3
    <3>2. CASE k = N - 1
      <4>1. s = m.slp /\ b = l
        <5>1. m.slp \in 0 .. N - 1
          BY <1>4 DEF Memory, Slots
        <5> QED BY <1>4, <1>5, <2>1, <3>2, <5>1 DEF SlotAt, Next
      <4>2. m.slot[s].recs = vol[b]
        BY <1>6, <4>1 DEF Buffer
      <4>3. ASSUME MoreVolumes PROVE m.slot[s].firstrec = Before.tpblksread + (b - 1) * Ntrec
        <5>1. m.slot[s].firstrec + Ntrec = Before.tpblksread + l * Ntrec
          BY <1>1, <1>2, <4>1, <4>3 DEF PlaceInv
        <5>2. m.slot[s].firstrec \in Nat /\ Before.tpblksread \in Nat
          BY <1>4, <4>1, SlotsAre DEF Slot, Reader
        <5>3. (l - 1) * Ntrec + Ntrec = l * Ntrec /\ (l - 1) * Ntrec \in Nat
          <6> HIDE DEF l
          <6> QED BY <1>4, <1>6, <2>1
        <5>4. m.slot[s].firstrec = Before.tpblksread + (l - 1) * Ntrec
          <6> HIDE DEF l
          <6> QED BY <2>1, <5>1, <5>2, <5>3
        <5> QED BY <4>1, <5>4
      <4> QED BY <4>2, <4>3 DEF Holds
    <3> QED BY <2>1, <3>1, <3>2
  <2> QED BY <1>1, <1>3, <2>3, <2>4 DEF Holds
<1>16. MapInv'
  <2>1. ckpt.how # "top" => NoMaps(m)
    BY <1>2 DEF MapInv
  <2>2. ckpt'.how # "top" => NoMaps(m')
    BY <1>1, <1>11, <2>1
  <2>3. \A n \in DOMAIN Items : (n = m'.item /\ Items[n].kind = "map") =>
            m'.count = Len(Items[n].addr)
    BY <1>2, <1>5 DEF Kept, MapInv
  <2> QED BY <2>2, <2>3 DEF MapInv
<1>17. TrailInv'
  <2> SUFFICES ASSUME ~InItem(m) PROVE Rest(Out(Before, Volume)) # << >> /\ Written'
    BY <1>1, <1>3, <1>7, <1>11 DEF TrailInv
  <2>1. Rest(Out(Before, Volume)) # << >>
    BY <1>1, <1>2 DEF TrailInv
  <2>2. Begins(Out(Before, Volume))
    BY <1>2 DEF OutInv, Passed
  <2>3. Written
    BY <1>2, <1>4, <1>7, <2>1, <2>2, WrittenIs
  <2>4. Written' <=> Written
    BY <1>1, <1>7 DEF Written, Whole
  <2> QED BY <2>1, <2>3, <2>4
<1> QED BY <1>1, <1>3, <1>9, <1>10, <1>12, <1>13, <1>14, <1>15, <1>16, <1>17 DEF ReadInv, Running, Live

(* rollforward: the first block is confirmed.                               *)
LEMMA FirstGoodInv == ReadInv /\ FirstGood /\ UNCHANGED limits => ReadInv'
<1> SUFFICES ASSUME ReadInv, FirstGood, UNCHANGED limits PROVE ReadInv'
  OBVIOUS
<1>1. /\ mpc = "first" /\ mpc' = "fill" /\ acked' = 1
      /\ UNCHANGED <<m, vol, tapes, ckpt, eots, rewrites, limits>>
  BY DEF FirstGood
<1>2. /\ TypeInv /\ StaticInv /\ Resumable
      /\ BlockInv /\ OutInv /\ PlaceInv /\ FillInv /\ SlotInv /\ MapInv /\ TrailInv
  BY <1>1 DEF ReadInv, Live, TypeInv, Running
<1>3. Before' = Before /\ (MoreVolumes' <=> MoreVolumes) /\ Resumable' /\ StaticInv'
  BY <1>1, <1>2, ParentKept DEF StaticInv
<1>4. InBuffer' = InBuffer /\ Filled' = Filled /\ Volume' = Volume
  BY <1>1 DEF InBuffer, Filled, Volume
<1>5. TypeInv'
  BY <1>1, <1>2, <1>3 DEF TypeInv
<1>6. BlockInv'
  <2>1. /\ \A b \in 1 .. Len(vol) : Len(vol[b]) = Ntrec
        /\ Len(Buffer(m)) = 1 /\ Len(vol) = N
    BY <1>1, <1>2 DEF BlockInv
  <2>2. 1 <= N /\ 1 <= Ntrec /\ N - 1 <= N - 1
    BY Constants
  <2> QED BY <1>1, <2>1, <2>2 DEF BlockInv
<1>7. OutInv'
  BY <1>1, <1>2, <1>3, <1>4 DEF OutInv
<1>8. PlaceInv'
  BY <1>1, <1>2, <1>3 DEF PlaceInv
<1>9. FillInv'
  BY <1>1, <1>2, <1>4 DEF FillInv
<1>10. SlotInv'
  <2>1. Ahead' = Ahead
    BY <1>1 DEF Ahead
  <2>2. \A s, b : Holds(s, b)' <=> Holds(s, b)
    BY <1>1, <1>3, Zenon DEF Holds
  <2> QED BY <1>1, <1>2, <2>1, <2>2, Zenon DEF SlotInv
<1>11. MapInv'
  BY <1>1, <1>2, Zenon DEF MapInv, NoMaps
<1>12. TrailInv'
  <2>1. (InItem(m') <=> InItem(m)) /\ (Written' <=> Written)
    BY <1>1, <1>4 DEF InItem, Written, Whole
  <2> QED BY <1>1, <1>2, <1>3, <1>4, <2>1 DEF TrailInv
<1> QED BY <1>1, <1>3, <1>5, <1>6, <1>7, <1>8, <1>9, <1>10, <1>11, <1>12 DEF ReadInv, Running

(* When an item is done, all its records were produced: a map's count is    *)
(* still its own, and it has no holes.                                      *)
LEMMA ItemDoneIs ==
    ASSUME MapsFirst, MapInv, m \in Memory, NEW out, Passed(m, out), InItem(m), ItemDone
    PROVE  out = Upto(m.item) /\ m.item \in 0 .. Len(Items)
<1>1. out = Produced(m) /\ m.item \in Nat /\ m.item <= Len(Items)
  BY Constants DEF Passed, InItem, Memory
<1>2. CASE m.item = 0
  BY <1>1, <1>2, UptoIs, Constants DEF Produced
<1>3. CASE m.item # 0
  <2> DEFINE n == m.item
  <2>1. n \in DOMAIN Items /\ n \in 1 .. Len(Items)
    BY <1>1, <1>3, Constants
  <2>2. m.i <= Len(Present(n)) /\ Len(Present(n)) \in Nat /\ m.i \in Nat
    BY <2>1, RecordsAre DEF Passed, Memory
  <2>3. m.i >= Len(Present(n))
    <3>1. CASE Items[n].kind = "map"
      <4>1. m.i >= m.count /\ m.count = Len(Items[n].addr)
        BY <1>3, <2>1, <3>1 DEF ItemDone, MapInv
      <4>2. Present(n) = [k \in 1 .. Len(Items[n].addr) |-> k]
        BY <2>1, <3>1, PresentIs DEF MapsFirst
      <4>3. Len(Present(n)) = Len(Items[n].addr)
        <5>1. Len(Items[n].addr) \in Nat
          BY <2>1, Constants
        <5> QED BY <4>2, <5>1
      <4> QED BY <4>1, <4>3
    <3>2. CASE Items[n].kind # "map"
      BY <1>3, <2>1, <3>2 DEF ItemDone
    <3> QED BY <3>1, <3>2
  <2>4. m.i = Len(Present(n))
    BY <2>2, <2>3
  <2>5. RecordsOf(n) = Begun(m)
    BY <2>1, <2>4, RecordsAre
  <2>6. Upto(n) = Upto(n - 1) \o RecordsOf(n)
    BY <2>1, UptoIs
  <2>7. Produced(m) = Upto(n - 1) \o Begun(m)
    BY <1>3 DEF Produced
  <2> QED BY <1>1, <2>5, <2>6, <2>7
<1> QED BY <1>2, <1>3

(* The first header of an item.                                             *)
LEMMA NextHeaderInv == MapsFirst /\ ReadInv /\ NextHeader /\ UNCHANGED limits => ReadInv'
<1> SUFFICES ASSUME MapsFirst, ReadInv, NextHeader, UNCHANGED limits PROVE ReadInv'
  OBVIOUS
<1> DEFINE next == Items[m.item + 1]
           addr == [j \in DOMAIN m.addr |-> IF next.kind = "inode" /\ j <= Len(next.addr)
                                            THEN next.addr[j] ELSE m.addr[j]]
           e == [m EXCEPT !.item = m.item + 1, !.i = 0, !.type = next.kind,
                          !.count = Len(next.addr), !.addr = addr]
           rec == HeaderRec(m.item + 1)
           out == Out(Before, Volume)
<1>1. /\ mpc = "fill" /\ ~BufferFull(m) /\ ItemDone /\ m.item < Len(Items)
      /\ m' = Put(e, rec)
      /\ UNCHANGED <<mpc, vol, acked, tapes, ckpt, eots, rewrites, limits>>
  BY Zenon DEF NextHeader
<1>2. /\ TypeInv /\ OutInv /\ MapInv /\ m \in Memory
      /\ Follows(Before, Volume) /\ Passed(m, out)
  BY <1>1 DEF ReadInv, Live, TypeInv, Running, OutInv
<1>3. out \in Seq(Recs)
  BY <1>2, VolumeIs
<1> HIDE DEF out
<1>4. m.item \in Nat /\ InItem(m) /\ m.item + 1 \in DOMAIN Items /\ m.trailer = 0
  <2>1. m.item \in Nat /\ m.item + 1 \in DOMAIN Items /\ InItem(m)
    BY <1>1, <1>2, Constants DEF Memory, InItem
  <2> QED BY <1>2, <2>1 DEF Passed
<1>5. out = Upto(m.item) /\ m.item \in 0 .. Len(Items)
  BY <1>1, <1>2, <1>4, ItemDoneIs
<1>6. /\ next.kind \in {"map", "inode"} /\ Len(next.addr) \in Nat /\ next.addr \in Seq(BOOLEAN)
      /\ DOMAIN next.addr = 1 .. Len(next.addr)
  BY <1>4, Constants
<1> HIDE DEF next
<1>7. addr \in [1 .. AddrLen -> BOOLEAN]
  <2>1. DOMAIN m.addr = 1 .. AddrLen /\ \A j \in 1 .. AddrLen : m.addr[j] \in BOOLEAN
    BY <1>2 DEF Memory
  <2>2. \A j \in 1 .. AddrLen : j <= Len(next.addr) => next.addr[j] \in BOOLEAN
    <3> SUFFICES ASSUME NEW j \in 1 .. AddrLen, j <= Len(next.addr) PROVE next.addr[j] \in BOOLEAN
      OBVIOUS
    <3>1. j \in 1 .. Len(next.addr)
      BY <1>6
    <3> QED BY <1>6, <3>1, ElementOfSeq
  <2> QED BY <2>1, <2>2
<1> HIDE DEF addr
<1>8. /\ e.item = m.item + 1 /\ e.i = 0 /\ e.slp = m.slp /\ e.slot = m.slot /\ e.tapea = m.tapea
      /\ e.type = next.kind /\ e.count = Len(next.addr) /\ e.trailer = m.trailer /\ e \in Memory
  <2> DEFINE n == m.item + 1
             l == Len(next.addr)
             t == next.kind
  <2>1. n \in 0 .. Len(Items) + 1 /\ l \in Int /\ t \in {"tape", "map", "inode", "end"} /\ 0 \in Nat
    BY <1>4, <1>6, Constants
  <2> DEFINE f == [m EXCEPT !.item = n]
             g == [f EXCEPT !.i = 0]
             h == [g EXCEPT !.type = t]
             p == [h EXCEPT !.count = l]
             q == [p EXCEPT !.addr = addr]
  <2>2. e = q
    BY <1>2 DEF Memory
  <2> HIDE DEF n, l, t, e
  <2>3. f \in Memory /\ f.item = n /\ f.slp = m.slp /\ f.slot = m.slot /\ f.tapea = m.tapea /\ f.trailer = m.trailer
    BY <1>2, <2>1 DEF Memory
  <2> HIDE DEF f
  <2>4. /\ g \in Memory /\ g.item = f.item /\ g.i = 0
        /\ g.slp = f.slp /\ g.slot = f.slot /\ g.tapea = f.tapea /\ g.trailer = f.trailer
    BY <2>1, <2>3 DEF Memory
  <2> HIDE DEF g
  <2>5. /\ h \in Memory /\ h.item = g.item /\ h.i = 0 /\ h.type = t
        /\ h.slp = g.slp /\ h.slot = g.slot /\ h.tapea = g.tapea /\ h.trailer = g.trailer
    BY <2>1, <2>4 DEF Memory
  <2> HIDE DEF h
  <2>6. /\ p \in Memory /\ p.item = h.item /\ p.i = 0 /\ p.type = t /\ p.count = l
        /\ p.slp = h.slp /\ p.slot = h.slot /\ p.tapea = h.tapea /\ p.trailer = h.trailer
    BY <2>1, <2>5 DEF Memory
  <2> HIDE DEF p
  <2>7. /\ q \in Memory /\ q.item = p.item /\ q.i = 0 /\ q.type = t /\ q.count = l
        /\ q.slp = p.slp /\ q.slot = p.slot /\ q.tapea = p.tapea /\ q.trailer = p.trailer
    BY <1>7, <2>6 DEF Memory
  <2> QED BY <2>2, <2>3, <2>4, <2>5, <2>6, <2>7 DEF n, l, t
<1> HIDE DEF e
<1>9. rec \in Recs
  BY <1>4 DEF HeaderRec, Recs
<1>10. Passed(e, Append(out, rec))
  <2>1. InItem(e) /\ e.trailer = 0 /\ e.item # 0 /\ e.item \in DOMAIN Items
    BY <1>4, <1>8, Constants DEF InItem
  <2>2. Begun(e) = <<rec>>
    <3>1. [k \in 1 .. 0 |-> DataRec(e.item, Present(e.item)[k])] = << >>
      OBVIOUS
    <3>2. HeaderRec(e.item) = rec
      BY <1>8
    <3>3. <<rec>> \in Seq(Recs)
      BY <1>9
    <3> HIDE DEF rec
    <3> QED BY <1>8, <3>1, <3>2, <3>3, ConcatEmptySeq DEF Begun
  <2>3. Produced(e) = Upto(e.item - 1) \o <<rec>>
    BY <2>1, <2>2 DEF Produced
  <2>4. e.item - 1 = m.item
    BY <1>4, <1>8
  <2>5. Produced(e) = out \o <<rec>>
    BY <1>5, <2>3, <2>4
  <2> HIDE DEF rec
  <2>6. out \o <<rec>> = Append(out, rec)
    BY <1>3, <1>9, AppendIsConcat
  <2>7. e.i <= Len(Present(e.item))
    BY <1>8, <2>1, RecordsAre
  <2> QED BY <2>1, <2>5, <2>6, <2>7 DEF Passed
<1>11. \A n \in DOMAIN Items : (n = e.item /\ Items[n].kind = "map") => e.count = Len(Items[n].addr)
  BY <1>8 DEF next
<1>12. NoMaps(m) => NoMaps(e)
  <2> SUFFICES ASSUME NoMaps(m), NEW n \in DOMAIN Items, Items[n].kind = "map" PROVE n < e.item
    BY DEF NoMaps
  <2>1. n < m.item /\ n \in Nat
    BY Constants DEF NoMaps
  <2> QED BY <1>4, <1>8, <2>1
<1>13. InItem(e)
  BY <1>4, <1>8, Constants DEF InItem
<1>14. PutStep(e, rec)
  BY <1>1, <1>8 DEF PutStep
<1> HIDE DEF rec
<1> QED BY <1>8, <1>9, <1>10, <1>11, <1>12, <1>13, <1>14, PutInv DEF out

(* The next record of an item.                                              *)
LEMMA NextDataInv == MapsFirst /\ ReadInv /\ NextData /\ UNCHANGED limits => ReadInv'
<1> SUFFICES ASSUME MapsFirst, ReadInv, NextData, UNCHANGED limits PROVE ReadInv'
  OBVIOUS
<1> DEFINE n == m.item
           i == m.i + 1
           e == [m EXCEPT !.i = i]
           d == IF Items[n].kind = "map" THEN i ELSE Present(n)[i]
           out == Out(Before, Volume)
<1>1. /\ mpc = "fill" /\ ~BufferFull(m) /\ ~InTrailer /\ ~ItemDone
      /\ m' = Put(e, DataRec(n, d))
      /\ UNCHANGED <<mpc, vol, acked, tapes, ckpt, eots, rewrites, limits>>
  BY Zenon DEF NextData
<1>2. /\ TypeInv /\ OutInv /\ MapInv /\ m \in Memory
      /\ Follows(Before, Volume) /\ Passed(m, out)
  BY <1>1 DEF ReadInv, Live, TypeInv, Running, OutInv
<1>3. out \in Seq(Recs)
  BY <1>2, VolumeIs
<1> HIDE DEF out
<1>4. n \in DOMAIN Items /\ n \in Nat /\ n # 0 /\ InItem(m) /\ m.i \in Nat
  BY <1>1, <1>2, Constants DEF Memory, InItem, InTrailer, ItemDone
<1>5. /\ out = Produced(m) /\ m.trailer = 0 /\ m.i <= Len(Present(n))
      /\ Present(n) \in Seq(Nat) /\ Len(Present(n)) \in Nat
  BY <1>2, <1>4, PresentIs, RecordsAre DEF Passed
<1>6. i \in 1 .. Len(Present(n)) /\ d = Present(n)[i]
  <2>1. CASE Items[n].kind = "map"
    <3>1. ~(m.i >= m.count) /\ m.count = Len(Items[n].addr)
      BY <1>1, <1>2, <1>4, <2>1 DEF ItemDone, MapInv
    <3>2. Present(n) = [k \in 1 .. Len(Items[n].addr) |-> k] /\ Len(Items[n].addr) \in Nat
      BY <1>4, <2>1, PresentIs, Constants DEF MapsFirst
    <3>3. i \in 1 .. Len(Items[n].addr)
      BY <1>4, <3>1, <3>2
    <3>4. Len(Present(n)) = Len(Items[n].addr) /\ Present(n)[i] = i
      <4> HIDE DEF i
      <4> QED BY <3>2, <3>3
    <3> QED BY <2>1, <3>3, <3>4
  <2>2. CASE Items[n].kind # "map"
    <3>1. ~(m.i >= Len(Present(n)))
      BY <1>1, <1>4, <2>2 DEF ItemDone
    <3> QED BY <1>4, <1>5, <2>2, <3>1
  <2> QED BY <2>1, <2>2
<1> DEFINE rec == DataRec(n, d)
<1>7. d \in Nat /\ rec \in Recs
  <2>1. d \in Nat
    <3> HIDE DEF i, d
    <3> QED BY <1>5, <1>6, ElementOfSeq
  <2> HIDE DEF d, n
  <2> QED BY <1>4, <2>1 DEF DataRec, Recs
<1>8. /\ e \in Memory /\ e.item = n /\ e.i = i /\ e.slp = m.slp /\ e.slot = m.slot /\ e.tapea = m.tapea
      /\ e.count = m.count /\ e.trailer = m.trailer
  <2>1. i \in Nat
    BY <1>4
  <2> HIDE DEF i
  <2> QED BY <1>2, <2>1 DEF Memory
<1>9. rec = DataRec(n, Present(n)[i])
  BY <1>6
<1> HIDE DEF e, d, rec
<1>10. Passed(e, Append(out, rec))
  <2> DEFINE P == Present(n)
             F(j) == [k \in 1 .. j |-> DataRec(n, P[k])]
             h == <<HeaderRec(n)>>
  <2>1. F(i) = Append(F(m.i), rec) /\ F(m.i) \in Seq(Recs)
    <3> DEFINE j == m.i
    <3>1. j \in Nat /\ i = j + 1 /\ i \in 1 .. Len(P)
      BY <1>4, <1>6
    <3>2. \A k \in 1 .. j : DataRec(n, P[k]) \in Recs
      <4> SUFFICES ASSUME NEW k \in 1 .. j PROVE DataRec(n, P[k]) \in Recs
        OBVIOUS
      <4>1. k \in 1 .. Len(P)
        BY <3>1
      <4>2. P[k] \in Nat
        BY <1>5, <4>1, ElementOfSeq
      <4> HIDE DEF n, P
      <4> QED BY <1>4, <4>2 DEF DataRec, Recs
    <3>3. F(j) \in Seq(Recs) /\ Len(F(j)) = j /\ \A k \in 1 .. j : F(j)[k] = DataRec(n, P[k])
      <4> HIDE DEF j, P
      <4> QED BY <3>1, <3>2
    <3>4. F(j + 1) \in Seq(Recs) /\ Len(F(j + 1)) = j + 1
          /\ \A k \in 1 .. j + 1 : F(j + 1)[k] = DataRec(n, P[k])
      <4>1. DataRec(n, P[j + 1]) = rec
        BY <1>9, <3>1
      <4> HIDE DEF j, P
      <4>2. \A k \in 1 .. j + 1 : DataRec(n, P[k]) \in Recs
        BY <1>7, <3>1, <3>2, <4>1
      <4> QED BY <3>1, <4>2
    <3> HIDE DEF F, j, P
    <3>5. /\ Append(F(j), rec) \in Seq(Recs) /\ Len(Append(F(j), rec)) = j + 1
          /\ \A k \in 1 .. j : Append(F(j), rec)[k] = F(j)[k]
          /\ Append(F(j), rec)[j + 1] = rec
      BY <1>7, <3>1, <3>3, AppendProperties
    <3>6. \A k \in 1 .. j + 1 : Append(F(j), rec)[k] = F(j + 1)[k]
      <4> SUFFICES ASSUME NEW k \in 1 .. j + 1 PROVE Append(F(j), rec)[k] = F(j + 1)[k]
        OBVIOUS
      <4>1. CASE k = j + 1
        BY <1>9, <3>1, <3>4, <3>5, <4>1 DEF P
      <4>2. CASE k \in 1 .. j
        BY <3>1, <3>3, <3>4, <3>5, <4>2
      <4>3. k = j + 1 \/ k \in 1 .. j
        BY <3>1
      <4> QED BY <4>1, <4>2, <4>3, Zenon
    <3>7. Append(F(j), rec) = F(j + 1)
      BY <3>4, <3>5, <3>6, SeqEqual
    <3> QED BY <3>1, <3>3, <3>7 DEF j
  <2>2. Begun(m) = h \o F(m.i) /\ Begun(e) = h \o F(i)
    BY <1>8 DEF Begun
  <2>3. Produced(m) = Upto(n - 1) \o Begun(m) /\ Produced(e) = Upto(n - 1) \o Begun(e)
    BY <1>4, <1>8 DEF Produced
  <2>4. h \in Seq(Recs) /\ Upto(n - 1) \in Seq(Recs)
    <3>1. HeaderRec(n) \in Recs
      BY <1>4 DEF HeaderRec, Recs
    <3>2. n - 1 \in 0 .. Len(Items)
      BY <1>4, Constants
    <3> QED BY <3>1, <3>2, UptoIs
  <2> DEFINE f == F(m.i)
             u == Upto(n - 1)
  <2>5. f \in Seq(Recs) /\ Begun(e) = h \o Append(f, rec) /\ Begun(m) = h \o f
    BY <2>1, <2>2
  <2> HIDE DEF f, u, h
  <2>6. h \o Append(f, rec) = Append(h \o f, rec) /\ h \o f \in Seq(Recs)
    BY <1>7, <2>4, <2>5
  <2>7. Begun(m) \in Seq(Recs) /\ Begun(e) = Append(Begun(m), rec)
    BY <2>5, <2>6
  <2>8. u \o Append(Begun(m), rec) = Append(u \o Begun(m), rec)
    BY <1>7, <2>4, <2>7 DEF u
  <2>9. Append(out, rec) = Produced(e)
    BY <1>5, <2>3, <2>7, <2>8 DEF u
  <2>10. InItem(e) /\ e.trailer = 0 /\ e.i <= Len(Present(e.item))
    BY <1>4, <1>5, <1>6, <1>8 DEF InItem
  <2> QED BY <2>9, <2>10 DEF Passed
<1>11. \A k \in DOMAIN Items : (k = e.item /\ Items[k].kind = "map") => e.count = Len(Items[k].addr)
  BY <1>2, <1>8 DEF MapInv
<1>12. NoMaps(m) => NoMaps(e)
  BY <1>8 DEF NoMaps
<1>13. InItem(e)
  BY <1>4, <1>8 DEF InItem
<1>14. PutStep(e, rec)
  BY <1>1, <1>8 DEF PutStep, rec
<1> QED BY <1>7, <1>8, <1>10, <1>11, <1>12, <1>13, <1>14, PutInv DEF out

(* The headers that fill the last block.                                    *)
LEMMA NextTrailerInv == ReadInv /\ NextTrailer /\ UNCHANGED limits => ReadInv'
<1> SUFFICES ASSUME ReadInv, NextTrailer, UNCHANGED limits PROVE ReadInv'
  OBVIOUS
<1> DEFINE e == [m EXCEPT !.trailer = m.trailer - 1]
           rec == IF m.type = "end" THEN EndRec ELSE TapeRec(m.count, m.tapea, 0)
           out == Out(Before, Volume)
<1>1. /\ mpc = "fill" /\ ~BufferFull(m) /\ m.trailer > 0 /\ m' = Put(e, rec)
      /\ UNCHANGED <<mpc, vol, acked, tapes, ckpt, eots, rewrites, limits>>
  BY Zenon DEF NextTrailer
<1>2. /\ TypeInv /\ OutInv /\ MapInv /\ TrailInv /\ m \in Memory
      /\ Follows(Before, Volume) /\ Passed(m, out)
  BY <1>1 DEF ReadInv, Live, TypeInv, Running, OutInv
<1>3. out \in Seq(Recs)
  BY <1>2, VolumeIs
<1>4. ~InItem(m) /\ m.trailer \in Nat /\ m.count \in Int /\ m.tapea \in Nat
  BY <1>1, <1>2 DEF Passed, Memory
<1>5. Begins(out) /\ (Rest(out) # << >> \/ m.type = "end")
  BY <1>2, <1>4 DEF Passed, TrailInv
<1>6. rec \in Recs
  BY <1>4 DEF EndRec, TapeRec, TapeRecs, Recs
<1> HIDE DEF out
<1>7. Begins(Append(out, rec))
  <2>1. Rest(out) = << >> => rec = EndRec
    BY <1>5
  <2> HIDE DEF rec
  <2> QED BY <1>3, <1>5, <1>6, <2>1, BeginsAppend
<1>8. /\ e \in Memory /\ e.item = m.item /\ e.i = m.i /\ e.slp = m.slp /\ e.slot = m.slot
      /\ e.tapea = m.tapea /\ e.count = m.count /\ e.trailer + 1 = m.trailer
  <2> DEFINE t == m.trailer - 1
  <2>1. t \in Nat /\ t + 1 = m.trailer
    BY <1>1, <1>4
  <2> HIDE DEF t
  <2>2. [m EXCEPT !.trailer = t].trailer = t
    BY <1>2 DEF Memory
  <2> QED BY <1>2, <2>1, <2>2 DEF Memory, t
<1> HIDE DEF e, rec
<1>9. ~InItem(e) /\ (NoMaps(m) => NoMaps(e))
  BY <1>4, <1>8 DEF InItem, NoMaps
<1>10. Passed(e, Append(out, rec))
  <2>1. e.item \notin DOMAIN Items
    BY <1>4, <1>8, Constants DEF InItem
  <2> QED BY <1>7, <1>9, <2>1 DEF Passed
<1>11. \A n \in DOMAIN Items : (n = e.item /\ Items[n].kind = "map") => e.count = Len(Items[n].addr)
  BY <1>2, <1>8 DEF MapInv
<1>12. PutStep(e, rec)
  BY <1>1, <1>8 DEF PutStep
<1> QED BY <1>4, <1>6, <1>8, <1>9, <1>10, <1>11, <1>12, PutInv DEF out

(* main after the passes: as many headers as are left of the block, or of   *)
(* a whole one more.  Where an end of tape has shifted the blocks by the    *)
(* new volume's header, the buffer may be empty and the dump is written.    *)
LEMMA BeginTrailerInv == OneEnd /\ MapsFirst /\ ReadInv /\ BeginTrailer /\ UNCHANGED limits => ReadInv'
<1> SUFFICES ASSUME OneEnd, MapsFirst, ReadInv, BeginTrailer, UNCHANGED limits PROVE ReadInv'
  OBVIOUS
<1> DEFINE q == m.tapea % Ntrec
           out == Out(Before, Volume)
<1>1. /\ mpc = "fill" /\ mpc' = "fill" /\ ~BufferFull(m) /\ ItemDone /\ m.item = Len(Items)
      /\ m' = [m EXCEPT !.type = "end", !.item = m.item + 1, !.trailer = Ntrec - q]
      /\ UNCHANGED <<vol, acked, tapes, ckpt, eots, rewrites, limits>>
  BY Zenon DEF BeginTrailer
<1>2. /\ TypeInv /\ StaticInv /\ Resumable
      /\ BlockInv /\ OutInv /\ PlaceInv /\ FillInv /\ SlotInv /\ MapInv /\ TrailInv
  BY <1>1 DEF ReadInv, Live, TypeInv, Running
<1>3. Before' = Before /\ (MoreVolumes' <=> MoreVolumes) /\ Resumable' /\ StaticInv'
  BY <1>1, <1>2, ParentKept DEF StaticInv
<1>4. /\ Before \in Reader /\ Filled \in Seq(Recs) /\ Follows(Before, Volume) /\ out \in Seq(Recs)
      /\ m \in Memory /\ Passed(m, out) /\ Buffer(m) \in Seq(Recs) /\ Len(Buffer(m)) \in Nat
      /\ InBuffer = << >> => Volume = Filled
  BY <1>2, VolumeIs DEF OutInv, TypeInv
<1> HIDE DEF out
<1>5. Ntrec \in Nat \ {0} /\ m.tapea \in Int /\ eots \in Nat /\ eots <= limits.eots
  BY <1>2, <1>4, Constants DEF Memory, StaticInv
<1>6. q \in 0 .. Ntrec - 1
  BY <1>5, DivIs
<1> HIDE DEF q
<1>7. /\ m' \in Memory /\ m'.item = Len(Items) + 1 /\ m'.i = m.i /\ m'.slp = m.slp /\ m'.slot = m.slot
      /\ m'.tapea = m.tapea /\ m'.count = m.count /\ m'.type = "end" /\ m'.trailer = Ntrec - q
      /\ Ntrec - q >= 1
  <2> DEFINE n == m.item + 1
             t == Ntrec - q
             f == [m EXCEPT !.type = "end"]
             g == [f EXCEPT !.item = n]
             h == [g EXCEPT !.trailer = t]
  <2>1. n = Len(Items) + 1 /\ n \in 0 .. Len(Items) + 1 /\ t \in Nat /\ t >= 1
    BY <1>1, <1>5, <1>6, Constants
  <2>2. m' = h
    BY <1>1, <1>4 DEF Memory
  <2> HIDE DEF n, t
  <2>3. /\ f \in Memory /\ f.type = "end" /\ f.i = m.i /\ f.slp = m.slp /\ f.slot = m.slot
        /\ f.tapea = m.tapea /\ f.count = m.count
    BY <1>4 DEF Memory
  <2> HIDE DEF f
  <2>4. /\ g \in Memory /\ g.type = "end" /\ g.i = f.i /\ g.slp = f.slp /\ g.slot = f.slot
        /\ g.tapea = f.tapea /\ g.count = f.count /\ g.item = n
    BY <2>1, <2>3 DEF Memory
  <2> HIDE DEF g
  <2>5. /\ h \in Memory /\ h.type = "end" /\ h.i = g.i /\ h.slp = g.slp /\ h.slot = g.slot
        /\ h.tapea = g.tapea /\ h.count = g.count /\ h.item = n /\ h.trailer = t
    BY <2>1, <2>4 DEF Memory
  <2> QED BY <2>1, <2>2, <2>3, <2>4, <2>5 DEF t
<1>8. out = Logical /\ Begins(out)
  <2>1. InItem(m)
    BY <1>1, Constants DEF InItem
  <2> QED BY <1>1, <1>2, <1>4, <2>1, ItemDoneIs, UptoIs, BeginsWhole
<1>9. ~InItem(m') /\ NoMaps(m') /\ m'.item \notin DOMAIN Items
  BY <1>7, Constants DEF InItem, NoMaps
<1>10. /\ Buffer(m') = Buffer(m) /\ InBuffer' = InBuffer /\ InBuffer = Buffer(m)
       /\ Filled' = Filled /\ Volume' = Volume
  BY <1>1, <1>7 DEF Buffer, InBuffer, Filled, Volume
<1>11. TypeInv'
  BY <1>1, <1>2, <1>3, <1>7 DEF TypeInv
<1>12. BlockInv'
  BY <1>1, <1>2, <1>10 DEF BlockInv
<1>13. OutInv'
  BY <1>1, <1>2, <1>3, <1>8, <1>9, <1>10 DEF OutInv, Passed, out
<1>14. PlaceInv'
  BY <1>1, <1>2, <1>3, <1>7 DEF PlaceInv
<1>15. FillInv'
  BY <1>1, <1>2, <1>7, <1>10 DEF FillInv
<1>16. SlotInv'
  <2>1. Ahead' = Ahead /\ \A k : SlotAt(m', k) = SlotAt(m, k)
    BY <1>1, <1>7 DEF Ahead, SlotAt
  <2>2. \A s, b : Holds(s, b)' <=> Holds(s, b)
    BY <1>1, <1>3, <1>7, Zenon DEF Holds
  <2> QED BY <1>1, <1>2, <2>1, <2>2, Zenon DEF SlotInv
<1>17. MapInv'
  BY <1>9 DEF MapInv
<1>18. Len(Buffer(m)) + m'.trailer >= Ntrec \/ Written
  <2> DEFINE b == Len(Buffer(m))
             p == m.tapea \div Ntrec
  <2>1. b < Ntrec
    BY <1>1, <1>4, Constants DEF BufferFull, Buffer
  <2>2. m.tapea = p * Ntrec + q /\ p \in Int
    BY <1>5, DivIs DEF q
  <2> HIDE DEF b, p
  <2>3. b \in Nat
    BY <1>4 DEF b
  <2>4. ASSUME b < q PROVE eots > 0 /\ b = 0
    <3> DEFINE x == m.tapea + eots - b
    <3>1. x % Ntrec = 0
      BY <1>2, <1>10 DEF FillInv, b
    <3>2. x = p * Ntrec + (q - b + eots) /\ p * Ntrec \in Int
      BY <1>5, <1>6, <2>2, <2>3
    <3>3. PICK y \in Int : x = y * Ntrec
      <4>1. x \in Int
        BY <1>5, <2>3
      <4> HIDE DEF x
      <4>2. x = (x \div Ntrec) * Ntrec + (x % Ntrec) /\ x \div Ntrec \in Int
        BY <1>5, <4>1, DivIs
      <4> HIDE DEF x
      <4>3. (x \div Ntrec) * Ntrec \in Int
        BY <1>5, <4>2
      <4>4. x = (x \div Ntrec) * Ntrec
        BY <3>1, <4>2, <4>3
      <4> QED BY <4>2, <4>4
    <3> HIDE DEF x
    <3>4. (y - p) * Ntrec = q - b + eots
      <4>1. (y - p) * Ntrec = y * Ntrec - p * Ntrec /\ y * Ntrec \in Int
        BY <1>5, <2>2, <3>3
      <4> QED BY <1>5, <1>6, <2>3, <3>2, <3>3, <4>1
    <3>5. q - b + eots >= 1
      BY <1>5, <1>6, <2>3, <2>4
    <3>6. y - p >= 1
      <4>1. ASSUME y - p <= 0 PROVE (y - p) * Ntrec <= 0
        BY <1>5, <2>2, <3>3, <4>1
      <4> QED BY <1>5, <1>6, <2>2, <2>3, <3>3, <3>4, <3>5, <4>1
    <3>7. (y - p) * Ntrec >= Ntrec
      BY <1>5, <2>2, <3>3, <3>6
    <3>8. eots <= 1
      <4>1. limits \in Limits /\ limits.eots <= 1 /\ limits.eots \in Nat
        BY <1>2, Constants DEF OneEnd, StaticInv
      <4> QED BY <1>5, <4>1
    <3> QED BY <1>5, <1>6, <2>3, <3>4, <3>7, <3>8
  <2>5. CASE b >= q
    BY <1>5, <1>6, <1>7, <2>3, <2>5 DEF b
  <2>6. CASE b < q
    <3>1. eots > 0 /\ Len(Buffer(m)) = 0
      BY <2>4, <2>6 DEF b
    <3>2. InBuffer = << >>
      BY <1>4, <1>10, <3>1, EmptySeq
    <3>3. Volume = Filled /\ Begins(Out(Before, Volume)) /\ eots # 0
      BY <1>4, <1>8, <3>1, <3>2 DEF out
    <3> QED BY <1>2, <1>4, <3>3, WrittenIs
  <2> QED BY <1>6, <2>3, <2>5, <2>6
<1>19. TrailInv'
  <2>1. Written' <=> Written
    BY <1>1, <1>10 DEF Written, Whole
  <2>2. ~BufferFull(m')
    BY <1>1, <1>7 DEF BufferFull
  <2>3. m'.trailer > 0
    BY <1>5, <1>6, <1>7
  <2> QED BY <1>1, <1>7, <1>10, <1>18, <2>1, <2>2, <2>3 DEF TrailInv
<1> QED BY <1>1, <1>3, <1>11, <1>12, <1>13, <1>14, <1>15, <1>16, <1>17, <1>19 DEF ReadInv, Running

(* The last header is out: what is in the buffer is not needed.             *)
LEMMA EndOfDumpInv == ReadInv /\ EndOfDump /\ UNCHANGED limits => ReadInv'
<1> SUFFICES ASSUME ReadInv, EndOfDump, UNCHANGED limits PROVE ReadInv'
  OBVIOUS
<1>1. /\ mpc = "fill" /\ mpc' = "last" /\ ~BufferFull(m) /\ InTrailer /\ m.trailer = 0
      /\ UNCHANGED <<m, vol, acked, tapes, ckpt, eots, rewrites, limits>>
  BY DEF EndOfDump
<1>2. TypeInv /\ StaticInv /\ Resumable /\ BlockInv /\ OutInv /\ TrailInv
  BY <1>1 DEF ReadInv, Live, TypeInv, Running
<1>3. Resumable' /\ StaticInv'
  BY <1>1, <1>2, ParentKept DEF StaticInv
<1>4. ~InItem(m)
  BY <1>1, <1>2, Constants DEF InTrailer, InItem, TypeInv, Memory
<1>5. Written
  <2>1. Len(Buffer(m)) + 0 >= Ntrec \/ Written
    BY <1>1, <1>2, <1>4 DEF TrailInv
  <2>2. Len(Buffer(m)) \in Nat
    BY <1>2, VolumeIs DEF OutInv
  <2> QED BY <1>1, <2>1, <2>2, Constants DEF BufferFull, Buffer
<1>6. Written' <=> Written
  BY <1>1 DEF Written, Whole, Filled
<1>7. TypeInv'
  BY <1>1, <1>2, <1>3 DEF TypeInv
<1> QED BY <1>1, <1>3, <1>5, <1>6, <1>7 DEF ReadInv, Live

(* trewind: all of a volume is on the tape.                                 *)
LEMMA OnTapeAll ==
    ASSUME vol \in Seq(Seq(Recs))
    PROVE  OnTape(Len(vol)) = Filled
<1>1. SubSeq(vol, 1, Len(vol)) = vol
  BY SubSeqFull
<1> QED BY <1>1 DEF OnTape, Filled

LEMMA CloseLastInv == ReadInv /\ CloseLast /\ UNCHANGED limits => ReadInv'
<1> SUFFICES ASSUME ReadInv, CloseLast, UNCHANGED limits PROVE ReadInv'
  OBVIOUS
<1>1. /\ mpc = "last" /\ mpc' = "done" /\ tapes' = Append(tapes, OnTape(Len(vol)))
      /\ UNCHANGED <<m, vol, acked, ckpt, eots, rewrites, limits>>
  BY DEF CloseLast
<1>2. TypeInv /\ StaticInv /\ Written /\ vol \in Seq(Seq(Recs))
  BY <1>1 DEF ReadInv, TypeInv
<1>3. tapes' = Append(tapes, Filled) /\ Filled \in Volumes /\ tapes \in Seq(Volumes)
  BY <1>1, <1>2, OnTapeAll DEF Written, StaticInv
<1>4. StaticInv'
  <2>1. tapes' \in Seq(Volumes)
    BY <1>3, AppendProperties
  <2> QED BY <1>1, <1>2, <2>1 DEF StaticInv
<1>5. TypeInv'
  BY <1>1, <1>2, <1>4 DEF TypeInv
<1>6. Whole(ReadBack(tapes))'
  BY <1>1, <1>2, <1>3 DEF Written, Whole
<1> QED BY <1>1, <1>5, <1>6 DEF ReadInv, Live

(* What a volume is begun with, by the first process or by one that its     *)
(* parent has forked again.                                                 *)
LEMMA ResumeGives == ASSUME Resume(ckpt'), acked' = 0 PROVE Started'
BY DEF Resume, Started

LEMMA StartedNext == ASSUME StaticInv', Resumable', Started' PROVE ReadInv'
<1>1. (StaticInv /\ Resumable /\ Started => ReadInv)'
  BY StartedInv, PTL
<1> QED BY <1>1

LEMMA RewriteInv == ReadInv /\ Rewrite /\ UNCHANGED limits => ReadInv'
<1> SUFFICES ASSUME ReadInv, Rewrite, UNCHANGED limits PROVE ReadInv'
  OBVIOUS
<1>1. /\ mpc \in {"result", "full", "last", "first"} /\ rewrites' = rewrites + 1
      /\ Resume(ckpt) /\ acked' = 0 /\ UNCHANGED <<tapes, ckpt, eots, limits>>
  BY DEF Rewrite, ErrorSeen
<1>2. TypeInv /\ StaticInv /\ Resumable
  BY <1>1 DEF ReadInv, Live, TypeInv
<1>3. Resumable' /\ StaticInv'
  <2>1. rewrites' \in Nat
    BY <1>1, <1>2 DEF StaticInv
  <2> QED BY <1>1, <1>2, <2>1, ParentKept
<1>4. Started'
  <2>1. ckpt' = ckpt
    BY <1>1
  <2> QED BY <1>1, <2>1, ResumeGives
<1> QED BY <1>3, <1>4, StartedNext

(* The operator gives up, or a block is left out.                           *)
LEMMA StopInv ==
    ReadInv /\ (Abort \/ GoOnWithGap \/ Stopped) /\ UNCHANGED limits => ReadInv'
<1> SUFFICES ASSUME ReadInv, Abort \/ GoOnWithGap \/ Stopped, UNCHANGED limits PROVE ReadInv'
  OBVIOUS
<1>1. /\ mpc' \in {"done", "aborted", "gap"} /\ (mpc' = "done" => mpc = "done")
      /\ UNCHANGED <<m, vol, acked, tapes, ckpt, eots, rewrites, limits>>
  BY DEF Abort, GoOnWithGap, Stopped
<1>2. TypeInv'
  BY <1>1 DEF ReadInv, TypeInv, StaticInv
<1>3. ~Live' /\ mpc' # "last"
  BY <1>1 DEF Live
<1>4. mpc' = "done" => Whole(ReadBack(tapes))'
  BY <1>1 DEF ReadInv, Whole
<1> QED BY <1>2, <1>3, <1>4 DEF ReadInv

LEMMA InitInv == Init => ReadInv
<1> SUFFICES ASSUME Init PROVE ReadInv
  OBVIOUS
<1> DEFINE c == InitialMemory
           addr == [j \in 1 .. AddrLen |-> FALSE]
           first == [EmptySlot EXCEPT !.count = 1]
           slot == [s \in Slots |-> IF s = 0 THEN first ELSE EmptySlot]
<1>1. /\ ckpt.how = "top" /\ ckpt.mem = c /\ m = Put(StampHeader(c), VolumeHeader(c)) /\ mpc = "fill"
      /\ vol = << >> /\ acked = 0 /\ tapes = << >> /\ eots = 0 /\ rewrites = 0 /\ limits \in Limits
  BY DEF Init
<1>2. c \in Memory
  <2>1. EmptySlot \in Slot /\ first \in Slot
    <3>1. << >> \in Seq(Recs)
      BY EmptySeq
    <3> DEFINE empty == << >>
    <3>2. empty \in Seq(Recs) /\ EmptySlot = [recs |-> empty, count |-> 0, tapea |-> 0, firstrec |-> 0]
      BY <3>1 DEF EmptySlot
    <3> HIDE DEF empty
    <3>3. EmptySlot \in Slot
      BY <3>2 DEF Slot
    <3> QED BY <3>3 DEF Slot
  <2> HIDE DEF first
  <2>2. slot \in [Slots -> Slot] /\ addr \in [1 .. AddrLen -> BOOLEAN] /\ 0 \in Slots
    BY <2>1, Constants DEF Slots
  <2>3. 0 \in 0 .. Len(Items) + 1
    BY Constants
  <2>4. c = [slp |-> 0, slot |-> slot, tapea |-> 0, last |-> -1, type |-> "tape", count |-> 0,
             addr |-> addr, item |-> 0, i |-> 0, trailer |-> 0]
    BY Zenon DEF InitialMemory, first
  <2> HIDE DEF slot, addr, c
  <2> QED BY <2>2, <2>3, <2>4 DEF Memory
<1>3. StaticInv
  <2>1. tapes \in Seq(Volumes)
    BY <1>1, EmptySeq
  <2>2. limits.eots >= 0
    BY <1>1, Constants
  <2> HIDE DEF c
  <2> QED BY <1>1, <1>2, <2>1, <2>2 DEF StaticInv
<1>4. Resumable
  BY <1>1, Zenon DEF Resumable
<1>5. Started
  BY <1>1, Zenon DEF Started
<1> QED BY <1>3, <1>4, <1>5, StartedInv

(* The end of a concatenation that begins in its first part.                *)
LEMMA TailOfConcat ==
    ASSUME NEW S, NEW s \in Seq(S), NEW t \in Seq(S), NEW a \in Nat \ {0}, a <= Len(s) + 1
    PROVE  SubSeq(s \o t, a, Len(s \o t)) = SubSeq(s, a, Len(s)) \o t
<1> DEFINE u == s \o t
           b == Len(s)
           c == Len(t)
           v == SubSeq(s, a, b)
           w == SubSeq(u, a, b + c)
<1>1. /\ b \in Nat /\ c \in Nat /\ u \in Seq(S) /\ Len(u) = b + c
      /\ \A i \in 1 .. b + c : u[i] = (IF i <= b THEN s[i] ELSE t[i - b]) /\ u[i] \in S
      /\ \A i \in 1 .. b : s[i] \in S
  BY ConcatProperties, LenProperties, ElementOfSeq
<1> HIDE DEF u, b, c
<1>2. /\ v \in Seq(S) /\ Len(v) = b - a + 1 /\ \A i \in 1 .. b - a + 1 : v[i] = s[a + i - 1]
  <2>1. /\ v \in Seq(S) /\ Len(v) = (IF a <= b THEN b - a + 1 ELSE 0)
        /\ \A i \in 1 .. b - a + 1 : v[i] = s[a + i - 1]
    <3>1. \A i \in a .. b : s[i] \in S
      BY <1>1
    <3> QED BY <1>1, <3>1, SubSeqProperties
  <2>2. (IF a <= b THEN b - a + 1 ELSE 0) = b - a + 1
    BY <1>1 DEF b
  <2> QED BY <2>1, <2>2
<1>3. /\ w \in Seq(S) /\ Len(w) = b + c - a + 1 /\ \A i \in 1 .. b + c - a + 1 : w[i] = u[a + i - 1]
  <2>1. /\ w \in Seq(S) /\ Len(w) = (IF a <= b + c THEN b + c - a + 1 ELSE 0)
        /\ \A i \in 1 .. b + c - a + 1 : w[i] = u[a + i - 1]
    <3>1. \A i \in a .. b + c : u[i] \in S
      BY <1>1
    <3> QED BY <1>1, <3>1, SubSeqProperties
  <2>2. (IF a <= b + c THEN b + c - a + 1 ELSE 0) = b + c - a + 1
    BY <1>1 DEF b
  <2> QED BY <2>1, <2>2
<1> DEFINE x == v \o t
<1> HIDE DEF v, w
<1>4. /\ x \in Seq(S) /\ Len(x) = b - a + 1 + c
      /\ \A i \in 1 .. b - a + 1 + c : x[i] = (IF i <= b - a + 1 THEN v[i] ELSE t[i - (b - a + 1)])
  BY <1>1, <1>2, ConcatProperties, SMTT(60) DEF c
<1> HIDE DEF x
<1>5. Len(w) = Len(x)
  BY <1>1, <1>3, <1>4
<1>6. ASSUME NEW i \in 1 .. Len(w) PROVE w[i] = x[i]
  <2>1. i \in 1 .. b + c - a + 1 /\ a + i - 1 \in 1 .. b + c /\ i \in 1 .. b - a + 1 + c
    BY <1>1, <1>3
  <2>2. w[i] = (IF a + i - 1 <= b THEN s[a + i - 1] ELSE t[a + i - 1 - b])
    BY <1>1, <1>3, <2>1
  <2>3. CASE a + i - 1 <= b
    <3>1. i \in 1 .. b - a + 1
      BY <1>1, <2>1, <2>3
    <3> QED BY <1>2, <1>4, <2>1, <2>2, <2>3, <3>1
  <2>4. CASE a + i - 1 > b
    <3>1. ~(i <= b - a + 1) /\ i - (b - a + 1) = a + i - 1 - b /\ ~(a + i - 1 <= b)
      BY <1>1, <2>1, <2>4
    <3> QED BY <1>4, <2>1, <2>2, <3>1
  <2> QED BY <1>1, <2>1, <2>3, <2>4
<1>7. w = x
  BY <1>3, <1>4, <1>5, <1>6, SeqEqual
<1> QED BY <1>1, <1>7 DEF w, x, u, v, b

(* What the passes have produced is no longer than their items.             *)
LEMMA ProducedLength ==
    ASSUME NEW c \in Memory, NEW out, Passed(c, out), InItem(c)
    PROVE  Len(out) \in Nat /\ Len(out) <= Len(Upto(c.item)) /\ c.item \in 0 .. Len(Items)
<1>1. out = Produced(c) /\ c.item \in 0 .. Len(Items) /\ c.i \in Nat
  BY Constants DEF Passed, InItem, Memory
<1>2. CASE c.item = 0
  <2>1. out = << >> /\ Upto(c.item) = << >>
    BY <1>1, <1>2, UptoIs DEF Produced
  <2> QED BY <1>1, <2>1
<1>3. CASE c.item # 0
  <2> DEFINE n == c.item
             P == Present(n)
             f == [k \in 1 .. c.i |-> DataRec(n, P[k])]
             h == <<HeaderRec(n)>>
             u == Upto(n - 1)
  <2>1. n \in 1 .. Len(Items) /\ n \in DOMAIN Items /\ n - 1 \in 0 .. Len(Items) /\ n \in Nat
    BY <1>1, <1>3, Constants
  <2>2. c.i <= Len(P) /\ Len(RecordsOf(n)) = 1 + Len(P) /\ Len(P) \in Nat /\ RecordsOf(n) \in Seq(Recs)
    BY <2>1, RecordsAre DEF Passed
  <2>3. P \in Seq(Nat)
    BY <2>1, PresentIs
  <2>4. f \in Seq(Recs) /\ Len(f) = c.i
    <3>1. \A k \in 1 .. c.i : DataRec(n, P[k]) \in Recs
      <4> SUFFICES ASSUME NEW k \in 1 .. c.i PROVE DataRec(n, P[k]) \in Recs
        OBVIOUS
      <4>1. k \in 1 .. Len(P)
        BY <1>1, <2>2
      <4>2. P[k] \in Nat
        BY <2>3, <4>1, ElementOfSeq
      <4> HIDE DEF n, P
      <4> QED BY <2>1, <4>2 DEF DataRec, Recs
    <3> HIDE DEF P, n
    <3> QED BY <1>1, <3>1
  <2>5. h \in Seq(Recs) /\ Len(h) = 1
    <3>1. HeaderRec(n) \in Recs
      BY <2>1 DEF HeaderRec, Recs
    <3> QED BY <3>1
  <2>6. u \in Seq(Recs) /\ Len(u) \in Nat /\ Upto(n) = u \o RecordsOf(n)
    BY <2>1, UptoIs
  <2>7. out = u \o (h \o f)
    BY <1>1, <1>3 DEF Produced, Begun
  <2> HIDE DEF f, h, u, P
  <2>8. h \o f \in Seq(Recs) /\ Len(h \o f) = 1 + c.i
    <3>1. h \o f \in Seq(Recs) /\ Len(h \o f) = Len(h) + Len(f)
      BY <2>4, <2>5, ConcatProperties
    <3> QED BY <1>1, <2>4, <2>5, <3>1
  <2>9. Len(u \o (h \o f)) = Len(u) + (1 + c.i)
    BY <2>6, <2>8, ConcatProperties
  <2>10. Len(Upto(n)) = Len(u) + (1 + Len(P))
    <3> DEFINE r == RecordsOf(n)
    <3>1. r \in Seq(Recs) /\ Len(r) = 1 + Len(P) /\ Upto(n) = u \o r
      BY <2>2, <2>6
    <3> HIDE DEF r
    <3>2. Len(u \o r) = Len(u) + Len(r)
      BY <2>6, <3>1, ConcatProperties
    <3> QED BY <3>1, <3>2
  <2> QED BY <1>1, <2>1, <2>2, <2>6, <2>7, <2>9, <2>10, SMTT(60)
<1> QED BY <1>2, <1>3

(* The maps are on the first volume when it is full.                        *)
LEMMA NoMapsLeft ==
    ASSUME MapsFirst, ReadInv, mpc \in {"result", "full"}, Len(vol) >= MinBlocks
    PROVE  NoMaps(m)
<1>1. TypeInv /\ StaticInv /\ Resumable /\ BlockInv /\ OutInv /\ MapInv
  BY DEF ReadInv, Live, TypeInv, Running
<1>2. CASE ckpt.how # "top"
  BY <1>1, <1>2 DEF MapInv
<1>3. CASE ckpt.how = "top"
  <2> DEFINE out == Out(Before, Volume)
             l == Len(vol)
  <2>1. tapes = << >> /\ eots = 0
    BY <1>1, <1>3 DEF Resumable
  <2>2. Before.out = << >>
    BY <2>1, ReadingEmpty DEF Before, NothingRead
  <2>3. /\ Volume = Filled /\ Filled \in Seq(Recs) /\ Passed(m, out) /\ Skips(Before, Volume) = 0
        /\ m \in Memory /\ vol \in Seq(Seq(Recs)) /\ l \in Nat
    BY <1>1, <2>1, VolumeIs, LenProperties DEF OutInv, InBuffer, TypeInv
  <2>4. Len(Filled) = l * Ntrec /\ l * Ntrec \in Nat /\ l * Ntrec >= MinBlocks * Ntrec
    <3>1. \A b \in 1 .. l : Len(vol[b]) = Ntrec
      BY <1>1 DEF BlockInv
    <3>2. Len(Filled) = l * Ntrec
      BY <2>3, <3>1, FlattenLength, Constants DEF Filled
    <3>3. l - MinBlocks \in Nat /\ l * Ntrec = MinBlocks * Ntrec + (l - MinBlocks) * Ntrec
      <4> HIDE DEF l
      <4>1. l >= MinBlocks
        BY DEF l
      <4> QED BY <2>3, <4>1, Constants
    <3>4. (l - MinBlocks) * Ntrec \in Nat /\ MinBlocks * Ntrec \in Nat
      <4> DEFINE x == l - MinBlocks
      <4>1. x \in Nat
        BY <3>3
      <4> HIDE DEF x
      <4>2. x * Ntrec \in Nat /\ MinBlocks * Ntrec \in Nat
        BY <4>1, Constants
      <4> QED BY <4>2 DEF x
    <3> HIDE DEF l
    <3> QED BY <3>2, <3>3, <3>4
  <2>5. Len(out) = l * Ntrec - 1
    <3> DEFINE w == l * Ntrec
               v == SubSeq(Filled, 2, w)
    <3>1. Filled # << >>
      BY <1>1, <2>3 DEF OutInv, Follows
    <3>2. w >= 1 /\ w \in Nat /\ Len(Filled) = w
      <4>1. Len(Filled) # 0
        BY <2>3, <3>1, EmptySeq
      <4> QED BY <2>4, <4>1
    <3> HIDE DEF w
    <3>3. \A i \in 2 .. w : Filled[i] \in Recs
      BY <2>3, <3>2, ElementOfSeq
    <3>4. v \in Seq(Recs) /\ Len(v) = (IF 2 <= w THEN w - 2 + 1 ELSE 0)
      BY <3>2, <3>3, SubSeqProperties
    <3>5. out = << >> \o v
      BY <2>2, <2>3, <3>2 DEF Out
    <3> HIDE DEF v
    <3>6. out = v
      BY <3>4, <3>5, ConcatEmptySeq
    <3> QED BY <3>2, <3>4, <3>6 DEF w
  <2> HIDE DEF out, l
  <2> SUFFICES ASSUME NEW n \in DOMAIN Items, Items[n].kind = "map", ~(n < m.item) PROVE FALSE
    BY DEF NoMaps
  <2>6. Len(Upto(n)) + 1 < MinBlocks * Ntrec /\ n \in 1 .. Len(Items)
    BY Constants DEF MapsFirst
  <2>7. m.item <= n /\ InItem(m)
    BY <2>3, <2>6, Constants DEF Memory, InItem
  <2>8. Len(out) <= Len(Upto(m.item)) /\ m.item \in 0 .. Len(Items)
    BY <2>3, <2>7, ProducedLength
  <2>9. Len(Upto(m.item)) <= Len(Upto(n)) /\ Len(Upto(n)) \in Nat /\ Len(Upto(m.item)) \in Nat
    <3>1. n \in 0 .. Len(Items)
      BY <2>6, Constants
    <3> QED BY <2>7, <2>8, <3>1, UptoGrows, UptoIs
  <2>10. MinBlocks * Ntrec \in Int
    BY Constants
  <2> QED BY <2>4, <2>5, <2>6, <2>8, <2>9, <2>10
<1> QED BY <1>2, <1>3

(* A volume that has reached its size.                                      *)
LEMMA CloseFullInv == MapsFirst /\ ReadInv /\ CloseFull /\ UNCHANGED limits => ReadInv'
<1> SUFFICES ASSUME MapsFirst, ReadInv, CloseFull, UNCHANGED limits PROVE ReadInv'
  OBVIOUS
<1>1. /\ mpc = "full" /\ tapes' = Append(tapes, OnTape(Len(vol)))
      /\ ckpt' = [how |-> "next", mem |-> m] /\ Resume(ckpt') /\ acked' = 0
      /\ UNCHANGED <<eots, rewrites, limits>>
  BY DEF CloseFull, StartNewTape
<1>2. /\ TypeInv /\ StaticInv /\ BlockInv /\ OutInv /\ PlaceInv /\ FillInv /\ TrailInv
  BY <1>1 DEF ReadInv, Live, TypeInv, Running
<1>3. /\ Before \in Reader /\ Filled \in Seq(Recs) /\ Follows(Before, Volume) /\ m \in Memory
      /\ InBuffer = << >> /\ Volume = Filled /\ vol \in Seq(Seq(Recs)) /\ tapes \in Seq(Volumes)
      /\ Filled \in Volumes /\ Filled # << >>
  BY <1>1, <1>2, VolumeIs DEF OutInv, InBuffer, TypeInv, StaticInv
<1>4. tapes' = Append(tapes, Filled) /\ tapes' \in Seq(Volumes) /\ tapes' # << >>
  <2>1. tapes' = Append(tapes, Filled)
    BY <1>1, <1>3, OnTapeAll
  <2> QED BY <1>3, <2>1, AppendProperties
<1>5. Before' = [out |-> Out(Before, Volume), tpblksread |-> Before.tpblksread + Len(Filled)]
  <2>1. Reading(Append(tapes, Filled)) = ReadOne(Reading(tapes), Filled)
    BY <1>3, ReadingAppend
  <2>2. ReadOne(Before, Filled) = [out |-> Out(Before, Filled), tpblksread |-> Before.tpblksread + Len(Filled)]
    BY <1>3, OutType
  <2> QED BY <1>3, <1>4, <2>1, <2>2 DEF Before
<1>6. Before'.out = Out(Before, Volume) /\ Before'.tpblksread = Before.tpblksread + Len(Filled)
  BY <1>5
<1>7. Len(Filled) = Len(vol) * Ntrec
  <2>1. \A b \in 1 .. Len(vol) : Len(vol[b]) = Ntrec
    BY <1>2 DEF BlockInv
  <2> QED BY <1>3, <2>1, FlattenLength, Constants DEF Filled
<1>8. StaticInv'
  <2>1. ckpt'.mem = m /\ ckpt'.how = "next"
    BY <1>1
  <2> QED BY <1>1, <1>2, <1>3, <1>4, <2>1 DEF StaticInv
<1>9. Resumable'
  <2>1. ckpt'.mem = m /\ ckpt'.how = "next"
    BY <1>1
  <2>2. Buffer(m) = << >>
    BY <1>1, <1>2 DEF BlockInv
  <2>3. NoMaps(m)
    <3>1. Len(vol) >= MinBlocks
      BY <1>1, <1>2 DEF BlockInv
    <3> QED BY <1>1, <3>1, NoMapsLeft
  <2>4. Passed(m, Before'.out) /\ (~InItem(m) => Rest(Before'.out) # << >>)
    BY <1>1, <1>2, <1>6 DEF OutInv, TrailInv
  <2>5. m.slot[m.slp].firstrec = Before'.tpblksread
    <3>1. MoreVolumes
      BY <1>1, <1>2 DEF BlockInv
    <3>2. m.slot[m.slp].firstrec + 0 = Before.tpblksread + Len(vol) * Ntrec
      BY <1>1, <1>2, <3>1 DEF PlaceInv
    <3>3. m.slot[m.slp].firstrec \in Nat
      BY <1>3, SlotsAre DEF Slot
    <3> QED BY <1>6, <1>7, <3>2, <3>3
  <2>6. (m.tapea + eots) % Ntrec = 0
    <3>1. (m.tapea + eots - Len(InBuffer)) % Ntrec = 0
      BY <1>2 DEF FillInv
    <3>2. m.tapea + eots - Len(InBuffer) = m.tapea + eots
      BY <1>2, <1>3 DEF Memory, StaticInv
    <3> QED BY <3>1, <3>2, Zenon
  <2> QED BY <1>1, <1>4, <2>1, <2>2, <2>3, <2>4, <2>5, <2>6 DEF Resumable
<1> QED BY <1>1, <1>8, <1>9, ResumeGives, StartedNext

(* What the process after an end of tape starts from.                       *)
NextSlot(c) == [c EXCEPT !.slp = Next(@)]

LEMMA NextSlotIs ==
    ASSUME NEW c \in Memory
    PROVE  /\ NextSlot(c) \in Memory /\ Kept(c, NextSlot(c)) /\ NextSlot(c).slot = c.slot
           /\ NextSlot(c).slp = Next(c.slp) /\ NextSlot(c).tapea = c.tapea
           /\ SlotAt(NextSlot(c), N - 1) = c.slp
           /\ \A k \in 1 .. N - 1 : SlotAt(NextSlot(c), k - 1) = SlotAt(c, k)
           /\ \A s \in Slots : s = c.slp \/ \E k \in 1 .. N - 1 : s = SlotAt(c, k)
<1> DEFINE d == NextSlot(c)
           t == Next(c.slp)
<1>1. c.slp \in 0 .. N - 1 /\ t \in Slots /\ N \in Nat /\ N >= 1
  BY SlotsAre, Constants DEF Slots
<1>2. d \in Memory /\ d.slp = t /\ d.slot = c.slot /\ d.tapea = c.tapea /\ Kept(c, d)
  <2>1. d = [c EXCEPT !.slp = t]
    BY DEF NextSlot
  <2> HIDE DEF t, d
  <2> QED BY <1>1, <2>1 DEF Memory, Kept
<1> HIDE DEF d
<1>3. SlotAt(d, N - 1) = c.slp /\ \A k \in 1 .. N - 1 : SlotAt(d, k - 1) = SlotAt(c, k)
  BY <1>1, <1>2 DEF SlotAt, Next
<1>4. ASSUME NEW s \in Slots, s # c.slp PROVE \E k \in 1 .. N - 1 : s = SlotAt(c, k)
  <2>1. CASE s > c.slp
    <3>1. s - c.slp \in 1 .. N - 1 /\ s = SlotAt(c, s - c.slp)
      BY <1>1, <2>1 DEF SlotAt, Slots
    <3> QED BY <3>1
  <2>2. CASE s < c.slp
    <3>1. s + N - c.slp \in 1 .. N - 1 /\ s = SlotAt(c, s + N - c.slp)
      BY <1>1, <2>2 DEF SlotAt, Slots
    <3> QED BY <3>1
  <2> QED BY <1>1, <1>4, <2>1, <2>2 DEF Slots
<1> QED BY <1>2, <1>3, <1>4 DEF d

(* At an end of tape the slots hold the blocks that are not confirmed.      *)
LEMMA SlotsHold ==
    ASSUME ReadInv, mpc = "result", eots < limits.eots, MoreVolumes, acked = Len(vol) - N
    PROVE  LET c == NextSlot(m)
           IN  /\ \A k \in 1 .. N : Blocks(c)[k] = vol[acked + k]
               /\ Blocks(c) \in Seq(Seq(Recs)) /\ Len(Blocks(c)) = N
               /\ RollHeader(c).firstrec = Before.tpblksread + acked * Ntrec
               /\ c.slot[SlotAt(c, N - 1)].firstrec = Before.tpblksread + (acked + (N - 1)) * Ntrec
               /\ \A s \in Slots : Len(c.slot[s].recs) = Ntrec
<1> DEFINE c == NextSlot(m)
           t == Before.tpblksread
           l == Len(vol)
<1>1. TypeInv /\ BlockInv /\ PlaceInv /\ SlotInv /\ m \in Memory /\ acked \in Nat
  BY DEF ReadInv, Live, TypeInv, Running
<1>2. N \in Nat /\ N >= 1 /\ Ntrec \in Nat /\ l = acked + N /\ l \in Nat
  BY <1>1, Constants DEF TypeInv
<1>3. t \in Nat
  BY <1>1, ReadingType DEF TypeInv, StaticInv, Before, Reader
<1>4. /\ c \in Memory /\ c.slot = m.slot /\ c.slp = Next(m.slp) /\ SlotAt(c, N - 1) = m.slp
      /\ \A k \in 1 .. N - 1 : SlotAt(c, k - 1) = SlotAt(m, k)
      /\ \A s \in Slots : s = m.slp \/ \E k \in 1 .. N - 1 : s = SlotAt(m, k)
  BY <1>1, NextSlotIs
<1> HIDE DEF c, t, l
<1>5. ASSUME NEW k \in 1 .. N - 1
      PROVE  /\ m.slot[SlotAt(m, k)].recs = vol[acked + k]
             /\ m.slot[SlotAt(m, k)].firstrec = t + (acked + k - 1) * Ntrec
  <2> DEFINE b == Len(vol) - Ahead + k
  <2>1. b = acked + k /\ b >= 1
    BY <1>1, <1>2 DEF Ahead, l
  <2>2. b >= 1 => Holds(SlotAt(m, k), b)
    BY <1>1, Zenon DEF SlotInv
  <2> HIDE DEF b
  <2>3. Holds(SlotAt(m, k), acked + k)
    BY <2>1, <2>2
  <2> QED BY <2>3 DEF Holds, t
<1>6. /\ m.slot[m.slp].recs = vol[acked + N]
      /\ m.slot[m.slp].firstrec = t + (acked + (N - 1)) * Ntrec
  <2>1. m.slot[m.slp].recs = vol[l]
    BY <1>1 DEF BlockInv, Buffer, l
  <2>2. m.slot[m.slp].firstrec + Ntrec = t + l * Ntrec
    BY <1>1 DEF PlaceInv, t, l
  <2>3. l * Ntrec = (acked + (N - 1)) * Ntrec + Ntrec /\ (acked + (N - 1)) * Ntrec \in Nat
    <3> DEFINE x == acked + (N - 1)
    <3>1. x \in Nat /\ l = x + 1
      BY <1>1, <1>2
    <3> HIDE DEF x
    <3>2. (x + 1) * Ntrec = x * Ntrec + Ntrec /\ x * Ntrec \in Nat
      BY <1>2, <3>1
    <3> QED BY <3>1, <3>2 DEF x
  <2>4. m.slot[m.slp].firstrec \in Nat
    BY <1>1, SlotsAre DEF Slot
  <2> DEFINE y == (acked + (N - 1)) * Ntrec
             z == l * Ntrec
             f == m.slot[m.slp].firstrec
  <2>5. f + Ntrec = t + z /\ z = y + Ntrec /\ y \in Nat /\ f \in Nat
    BY <2>2, <2>3, <2>4
  <2> HIDE DEF y, z, f
  <2>6. f = t + y
    BY <1>2, <1>3, <2>5
  <2> QED BY <1>2, <2>1, <2>6 DEF f, y
<1>7. ASSUME NEW k \in 1 .. N PROVE Blocks(c)[k] = vol[acked + k]
  <2>1. Blocks(c)[k] = m.slot[SlotAt(c, k - 1)].recs
    BY <1>4 DEF Blocks
  <2>2. CASE k \in 1 .. N - 1
    BY <1>4, <1>5, <2>1, <2>2
  <2>3. CASE k = N
    BY <1>4, <1>6, <2>1, <2>3
  <2> QED BY <1>2, <2>2, <2>3
<1>8. Blocks(c) \in Seq(Seq(Recs)) /\ Len(Blocks(c)) = N
  BY <1>4, ReplayIs
<1>9. RollHeader(c).firstrec = t + acked * Ntrec
  <2>1. RollHeader(c).firstrec = m.slot[c.slp].firstrec
    BY <1>4 DEF RollHeader, TapeRec
  <2>2. SlotAt(c, 0) = c.slp
    BY <1>4, SlotsAre
  <2>3. CASE N = 1
    <3>1. c.slp = m.slp
      BY <1>4, <2>2, <2>3
    <3>2. acked + (N - 1) = acked
      BY <1>1, <2>3
    <3> QED BY <1>6, <2>1, <3>1, <3>2
  <2>4. CASE N # 1
    <3>1. 1 \in 1 .. N - 1 /\ 1 - 1 = 0 /\ acked + 1 - 1 = acked
      BY <1>1, <1>2, <2>4
    <3>2. c.slp = SlotAt(m, 1)
      BY <1>4, <2>2, <3>1
    <3> QED BY <1>5, <2>1, <3>1, <3>2
  <2> QED BY <2>3, <2>4
<1>10. ASSUME NEW s \in Slots PROVE Len(c.slot[s].recs) = Ntrec
  <2>1. \A b \in 1 .. l : Len(vol[b]) = Ntrec
    BY <1>1 DEF BlockInv, l
  <2>2. CASE s = m.slp
    <3>1. acked + N \in 1 .. l
      BY <1>1, <1>2
    <3> QED BY <1>4, <1>6, <2>1, <2>2, <3>1
  <2>3. ASSUME NEW k \in 1 .. N - 1, s = SlotAt(m, k) PROVE Len(c.slot[s].recs) = Ntrec
    <3>1. acked + k \in 1 .. l
      BY <1>1, <1>2
    <3> QED BY <1>4, <1>5, <2>1, <2>3, <3>1
  <2> QED BY <1>4, <2>2, <2>3
<1> QED BY <1>4, <1>6, <1>7, <1>8, <1>9, <1>10 DEF c, t

(* A piece of a sequence.                                                   *)
LEMMA PieceIs ==
    ASSUME NEW S, NEW s \in Seq(S), NEW a \in Nat, NEW b \in Nat, a <= b, b <= Len(s)
    PROVE  /\ SubSeq(s, a + 1, b) \in Seq(S) /\ Len(SubSeq(s, a + 1, b)) = b - a
           /\ \A i \in 1 .. b - a : SubSeq(s, a + 1, b)[i] = s[a + i]
<1> DEFINE c == a + 1
           p == SubSeq(s, c, b)
<1>1. c \in Nat /\ b \in Int /\ c <= b + 1 /\ c = a + 1
  OBVIOUS
<1> HIDE DEF c
<1>2. \A i \in c .. b : s[i] \in S
  BY <1>1, ElementOfSeq
<1>3. /\ p \in Seq(S) /\ Len(p) = (IF c <= b THEN b - c + 1 ELSE 0)
      /\ \A i \in 1 .. b - c + 1 : p[i] = s[c + i - 1]
  BY <1>1, <1>2, SubSeqProperties
<1> HIDE DEF p
<1>4. Len(p) = b - a
  BY <1>1, <1>3
<1>5. ASSUME NEW i \in 1 .. b - a PROVE p[i] = s[a + i]
  <2>1. i \in 1 .. b - c + 1 /\ c + i - 1 = a + i
    BY <1>1
  <2>2. p[i] = s[c + i - 1]
    BY <1>3, <2>1
  <2> QED BY <2>1, <2>2
<1> QED BY <1>3, <1>4, <1>5 DEF p, c

(* The volume ended by its device, with dup blocks that are on the next one *)
(* as well, and the blocks sent again after it: read one after the other    *)
(* they give what the volume would have given.                              *)
LEMMA EndOfTapeReads ==
    ASSUME ReadInv, mpc = "result", eots = 0, eots < limits.eots, MoreVolumes,
           acked = Len(vol) - N, acked >= 1, NEW dup \in 0 .. N,
           NEW T, T = OnTape(acked + dup), NEW r, r = Reading(Append(tapes, T)),
           NEW R, R = Replayed(NextSlot(m))
    PROVE  /\ T \in Volumes /\ r.tpblksread = Before.tpblksread + (acked + dup) * Ntrec
           /\ Follows(r, R) /\ Out(r, R) = Out(Before, Volume)
<1> DEFINE c == NextSlot(m)
           F == Filled
           l == Len(vol)
           n == acked + dup
           t == Before.tpblksread
           B == Blocks(c)
           h == RollHeader(c)
           D == FlattenSeq(SubSeq(vol, n + 1, l))
           C == FlattenSeq(SubSeq(B, 1, dup))
<1>1. TypeInv /\ StaticInv /\ BlockInv /\ OutInv /\ m \in Memory /\ acked \in Nat
  BY DEF ReadInv, Live, TypeInv, Running
<1>2. /\ N \in Nat /\ N >= 1 /\ Ntrec \in Nat /\ Ntrec >= 2 /\ l = acked + N /\ l \in Nat
      /\ n \in 1 .. l /\ dup \in Nat /\ n = acked + dup /\ dup <= N
  BY <1>1, Constants DEF TypeInv
<1>3. /\ Before \in Reader /\ F \in Seq(Recs) /\ Volume = F /\ vol \in Seq(Seq(Recs)) /\ tapes \in Seq(Volumes)
      /\ F \in Volumes /\ F # << >> /\ Skips(Before, F) = 0 /\ t \in Nat /\ Before.out \in Seq(Recs)
  BY <1>1, VolumeIs DEF OutInv, InBuffer, TypeInv, StaticInv, Reader
<1>4. /\ \A k \in 1 .. N : B[k] = vol[acked + k]
      /\ B \in Seq(Seq(Recs)) /\ Len(B) = N /\ h.firstrec = t + acked * Ntrec
  BY SlotsHold
<1>5. c \in Memory
  BY <1>1, NextSlotIs
<1>6. /\ h \in TapeRecs /\ h \in Recs /\ R = <<h>> \o FlattenSeq(B) /\ R \in Volumes /\ R # << >> /\ Head(R) = h
      /\ Len(R) = 1 + Len(FlattenSeq(B))
  BY <1>5, ReplayIs DEF Recs
<1> HIDE DEF c, F, l, n, t, B, h
<1>7. /\ F = T \o D /\ T \in Seq(Recs) /\ D \in Seq(Recs) /\ Len(T) = n * Ntrec
  <2> DEFINE front == SubSeq(vol, 1, n)
  <2>1. n \in 0 .. Len(vol)
    BY <1>2 DEF l
  <2>2. FlattenSeq(vol) = FlattenSeq(SubSeq(vol, 1, n)) \o FlattenSeq(SubSeq(vol, n + 1, Len(vol)))
    BY <1>3, <2>1, FlattenSplit
  <2>3. \A b \in 1 .. l : vol[b] \in Seq(Recs) /\ Len(vol[b]) = Ntrec
    BY <1>1, <1>3, ElementOfSeq DEF BlockInv, l
  <2>4. front \in Seq(Seq(Recs)) /\ Len(front) = n /\ \A i \in 1 .. n : front[i] = vol[i]
    <3>1. 0 <= n /\ n <= Len(vol) /\ n \in Nat /\ n - 0 = n /\ 0 + 1 = 1
      BY <1>2 DEF l
    <3>2. /\ SubSeq(vol, 0 + 1, n) \in Seq(Seq(Recs)) /\ Len(SubSeq(vol, 0 + 1, n)) = n - 0
          /\ \A i \in 1 .. n - 0 : SubSeq(vol, 0 + 1, n)[i] = vol[0 + i]
      BY <1>3, <3>1, PieceIs
    <3>3. front = SubSeq(vol, 0 + 1, n)
      BY <3>1, Zenon
    <3> HIDE DEF front
    <3> QED BY <3>1, <3>2, <3>3
  <2>5. SubSeq(vol, n + 1, l) \in Seq(Seq(Recs))
    <3>1. \A i \in n + 1 .. l : vol[i] \in Seq(Recs)
      BY <1>2, <2>3
    <3> QED BY <1>2, <3>1, SubSeqProperties
  <2>6. T = FlattenSeq(front)
    BY DEF OnTape, n
  <2> HIDE DEF front
  <2>7. \A i \in 1 .. Len(front) : Len(front[i]) = Ntrec
    BY <1>2, <2>3, <2>4, SMTT(60)
  <2>8. Len(FlattenSeq(front)) = Len(front) * Ntrec /\ FlattenSeq(front) \in Seq(Recs)
    BY <1>2, <2>4, <2>7, FlattenLength, FlattenType
  <2>9. D \in Seq(Recs)
    BY <2>5, FlattenType
  <2>10. F = T \o D
    BY <2>2, <2>6, Zenon DEF F, D, l, front, Filled
  <2> QED BY <2>4, <2>6, <2>8, <2>9, <2>10
<1>8. /\ FlattenSeq(B) = C \o D /\ C \in Seq(Recs) /\ Len(C) = dup * Ntrec
  <2> DEFINE front == SubSeq(B, 1, dup)
             back == SubSeq(B, dup + 1, N)
             left == SubSeq(vol, n + 1, l)
  <2>1. FlattenSeq(B) = FlattenSeq(front) \o FlattenSeq(back)
    <3>1. dup \in 0 .. Len(B)
      BY <1>2, <1>4
    <3> QED BY <1>4, <3>1, FlattenSplit
  <2>2. \A k \in 1 .. N : B[k] \in Seq(Recs) /\ Len(B[k]) = Ntrec
    <3> SUFFICES ASSUME NEW k \in 1 .. N PROVE B[k] \in Seq(Recs) /\ Len(B[k]) = Ntrec
      OBVIOUS
    <3>1. acked + k \in 1 .. Len(vol)
      BY <1>1, <1>2 DEF l
    <3>2. Len(vol[acked + k]) = Ntrec /\ vol[acked + k] \in Seq(Recs)
      BY <1>1, <1>3, <3>1, ElementOfSeq DEF BlockInv
    <3> QED BY <1>4, <3>2
  <2>3. front \in Seq(Seq(Recs)) /\ Len(front) = dup /\ \A i \in 1 .. dup : front[i] = B[i]
    <3>1. 0 <= dup /\ dup <= Len(B) /\ dup - 0 = dup /\ 0 + 1 = 1
      BY <1>2, <1>4
    <3>2. /\ SubSeq(B, 0 + 1, dup) \in Seq(Seq(Recs)) /\ Len(SubSeq(B, 0 + 1, dup)) = dup - 0
          /\ \A i \in 1 .. dup - 0 : SubSeq(B, 0 + 1, dup)[i] = B[0 + i]
      BY <1>2, <1>4, <3>1, PieceIs
    <3>3. front = SubSeq(B, 0 + 1, dup)
      BY <3>1, Zenon
    <3> HIDE DEF front
    <3> QED BY <3>1, <3>2, <3>3
  <2>4. /\ back \in Seq(Seq(Recs)) /\ Len(back) = N - dup
        /\ \A i \in 1 .. N - dup : back[i] = B[dup + i]
    <3>1. dup <= N /\ N <= Len(B)
      BY <1>2, <1>4
    <3> QED BY <1>2, <1>4, <3>1, PieceIs
  <2>5. /\ left \in Seq(Seq(Recs)) /\ Len(left) = l - n
        /\ \A i \in 1 .. l - n : left[i] = vol[n + i]
    <3>1. n \in Nat /\ n <= l /\ l <= Len(vol)
      BY <1>2 DEF l
    <3>2. vol \in Seq(Seq(Recs)) /\ l \in Nat
      BY <1>2, <1>3
    <3> QED BY <3>1, <3>2, PieceIs
  <2> HIDE DEF front, back, left
  <2>6. back = left
    <3>1. Len(back) = Len(left) /\ Len(back) = N - dup
      BY <1>1, <1>2, <2>4, <2>5
    <3>2. ASSUME NEW i \in 1 .. Len(back) PROVE back[i] = left[i]
      <4>1. i \in 1 .. N - dup /\ i \in 1 .. l - n /\ dup + i \in 1 .. N /\ acked + (dup + i) = n + i
        <5>1. i \in 1 .. N - dup
          BY <2>4, <3>1
        <5> QED BY <1>1, <1>2, <5>1
      <4> QED BY <1>4, <2>4, <2>5, <4>1, ZenonT(60)
    <3> QED BY <2>4, <2>5, <3>1, <3>2, SeqEqual
  <2>7. \A i \in 1 .. Len(front) : Len(front[i]) = Ntrec
    <3>1. \A i \in 1 .. dup : i \in 1 .. N
      BY <1>2
    <3> QED BY <2>2, <2>3, <3>1
  <2>8. Len(FlattenSeq(front)) = Len(front) * Ntrec /\ FlattenSeq(front) \in Seq(Recs)
    BY <1>2, <2>3, <2>7, FlattenLength, FlattenType
  <2>9. C = FlattenSeq(front) /\ D = FlattenSeq(left)
    BY DEF front, left
  <2> QED BY <2>1, <2>3, <2>6, <2>8, <2>9
<1> HIDE DEF C, D
<1>9. n * Ntrec = acked * Ntrec + dup * Ntrec /\ acked * Ntrec \in Nat \ {0} /\ dup * Ntrec \in Nat
  <2>1. acked * Ntrec \in Nat /\ dup * Ntrec \in Nat /\ (acked - 1) * Ntrec \in Nat
    BY <1>1, <1>2
  <2>2. acked * Ntrec = (acked - 1) * Ntrec + Ntrec
    BY <1>1, <1>2
  <2>3. n * Ntrec = acked * Ntrec + dup * Ntrec
    BY <1>1, <1>2
  <2> QED BY <1>2, <2>1, <2>2, <2>3
<1> DEFINE a == acked * Ntrec
           d == dup * Ntrec
<1>10. a \in Nat /\ a >= 1 /\ d \in Nat /\ Len(T) = a + d /\ Len(C) = d /\ h.firstrec = t + a
  BY <1>4, <1>7, <1>8, <1>9
<1>11. T \in Volumes /\ T # << >> /\ Head(T) = Head(F) /\ Skips(Before, T) = 0
  <2> HIDE DEF a, d
  <2>1. T # << >>
    <3>1. Len(T) # 0
      BY <1>10
    <3> QED BY <3>1, EmptySeq
  <2>2. Head(T) = T[1] /\ Head(F) = F[1] /\ F[1] = T[1]
    <3>1. 1 \in 1 .. Len(T) + Len(D) /\ 1 <= Len(T)
      BY <1>7, <1>10, LenProperties
    <3>2. (T \o D)[1] = T[1]
      BY <1>7, <3>1, ConcatProperties
    <3> QED BY <1>3, <1>7, <2>1, <3>2
  <2>3. Head(F) \in TapeRecs
    BY <1>3 DEF Volumes
  <2>4. Skips(Before, T) = Skips(Before, F)
    BY <2>2 DEF Skips
  <2> QED BY <1>3, <1>7, <2>1, <2>2, <2>3, <2>4 DEF Volumes
<1>12. r.out = Out(Before, T) /\ r.tpblksread = t + (a + d)
  <2>1. Reading(Append(tapes, T)) = ReadOne(Before, T)
    BY <1>3, <1>11, ReadingAppend DEF Before
  <2>2. ReadOne(Before, T) = [out |-> Out(Before, T), tpblksread |-> t + Len(T)]
    BY <1>3, <1>11, OutType DEF t
  <2> QED BY <1>10, <2>1, <2>2
<1> HIDE DEF a, d
<1>13. Skips(r, R) = d
  <2> DEFINE x == r.tpblksread + 1
             f == h.firstrec
  <2>1. Skips(r, R) = (IF f > 0 /\ f < x - 1 THEN x - f - 1 ELSE 0)
    BY <1>6, Zenon DEF Skips, Duplicates
  <2>2. x = t + (a + d) + 1 /\ f = t + a
    BY <1>10, <1>12
  <2> HIDE DEF x, f
  <2>3. t \in Nat /\ a \in Nat /\ a >= 1 /\ d \in Nat
    BY <1>3, <1>10
  <2>4. f > 0 /\ (f < x - 1 <=> d > 0) /\ x - f - 1 = d
    BY <2>2, <2>3
  <2> QED BY <2>1, <2>3, <2>4
<1> DEFINE U == SubSeq(T, 2, Len(T))
           V == <<h>> \o C
<1>14. U \in Seq(Recs) /\ Out(Before, T) = Before.out \o U /\ Out(Before, F) = Before.out \o (U \o D)
  <2>1. \A i \in 2 .. Len(T) : T[i] \in Recs
    BY <1>7, ElementOfSeq
  <2>2. U \in Seq(Recs)
    BY <1>10, <2>1, SubSeqProperties
  <2>3. SubSeq(T \o D, 2, Len(T \o D)) = SubSeq(T, 2, Len(T)) \o D
    <3>1. 2 \in Nat \ {0} /\ 2 <= Len(T) + 1
      BY <1>10
    <3> QED BY <1>7, <3>1, TailOfConcat
  <2>4. 2 + Skips(Before, T) = 2 /\ 2 + Skips(Before, F) = 2
    BY <1>3, <1>11
  <2> QED BY <1>7, <2>2, <2>3, <2>4, Zenon DEF Out
<1>15. V \in Seq(Recs) /\ Len(V) = 1 + d /\ R = V \o D
  <2>1. <<h>> \in Seq(Recs) /\ Len(<<h>>) = 1
    BY <1>6
  <2> DEFINE g == <<h>>
  <2>2. g \in Seq(Recs) /\ Len(g) = 1
    BY <2>1
  <2>3. R = g \o (C \o D)
    BY <1>6, <1>8
  <2> HIDE DEF g
  <2>4. g \o C \in Seq(Recs) /\ Len(g \o C) = Len(g) + Len(C)
    BY <1>8, <2>2, ConcatProperties
  <2>5. (g \o C) \o D = g \o (C \o D)
    <3>1. g \in Seq(Recs) /\ C \in Seq(Recs) /\ D \in Seq(Recs)
      BY <1>7, <1>8, <2>2
    <3> QED BY <3>1, ConcatAssociative, SMTT(60)
  <2>6. V = g \o C
    BY DEF g
  <2> QED BY <1>10, <2>2, <2>3, <2>4, <2>5, <2>6
<1> HIDE DEF U, V
<1>16. SubSeq(R, 2 + d, Len(R)) = D
  <2>1. SubSeq(V \o D, 2 + d, Len(V \o D)) = SubSeq(V, 2 + d, Len(V)) \o D
    <3>1. 2 + d \in Nat \ {0} /\ 2 + d <= Len(V) + 1
      BY <1>10, <1>15
    <3> QED BY <1>7, <1>15, <3>1, TailOfConcat
  <2>2. SubSeq(V, 2 + d, Len(V)) = << >>
    BY <1>10, <1>15, SubSeqEmpty
  <2>3. << >> \o D = D
    BY <1>7, ConcatEmptySeq
  <2> QED BY <1>15, <2>1, <2>2, <2>3
<1>17. Out(r, R) = Out(Before, F)
  <2>1. Out(r, R) = (Before.out \o U) \o D
    BY <1>12, <1>13, <1>14, <1>16, Zenon DEF Out
  <2>2. (Before.out \o U) \o D = Before.out \o (U \o D)
    <3> DEFINE o == Before.out
    <3>1. o \in Seq(Recs) /\ U \in Seq(Recs) /\ D \in Seq(Recs)
      BY <1>3, <1>7, <1>14
    <3> HIDE DEF o
    <3>2. (o \o U) \o D = o \o (U \o D)
      BY <3>1, ConcatAssociative, SMTT(60)
    <3> QED BY <3>2 DEF o
  <2> QED BY <1>14, <2>1, <2>2
<1>18. Follows(r, R)
  <2>1. Len(R) = 1 + (d + Len(D)) /\ Len(D) \in Nat
    <3>1. Len(C \o D) = Len(C) + Len(D) /\ Len(D) \in Nat
      BY <1>7, <1>8, ConcatProperties, LenProperties
    <3> QED BY <1>6, <1>8, <1>10, <3>1
  <2> QED BY <1>6, <1>10, <1>13, <2>1 DEF Follows
<1>19. a + d = (acked + dup) * Ntrec
  BY <1>9 DEF a, d, n
<1> QED BY <1>3, <1>11, <1>12, <1>17, <1>18, <1>19 DEF t

(* A volume ended by its device.                                            *)
LEMMA FlushEndOfTapeInv ==
    OneEnd /\ MapsFirst /\ ReadInv /\ FlushEndOfTape /\ UNCHANGED limits => ReadInv'
<1> SUFFICES ASSUME OneEnd, MapsFirst, ReadInv, FlushEndOfTape, UNCHANGED limits PROVE ReadInv'
  OBVIOUS
<1> DEFINE c == NextSlot(m)
           R == Replayed(c)
<1>1. /\ mpc = "result" /\ Len(vol) - acked >= N /\ acked >= MinBlocks /\ eots < limits.eots /\ MoreVolumes
      /\ ckpt' = [how |-> "roll", mem |-> c] /\ Resume(ckpt') /\ acked' = 0
      /\ eots' = eots + 1 /\ UNCHANGED <<rewrites, limits>>
  BY Zenon DEF FlushEndOfTape, Outstanding, MoreVolumes, StartNewTape, NextSlot
<1>2. PICK dup \in 0 .. limits.dup : tapes' = Append(tapes, OnTape(acked + dup))
  BY DEF FlushEndOfTape
<1>3. /\ TypeInv /\ StaticInv /\ BlockInv /\ OutInv /\ FillInv /\ TrailInv
      /\ m \in Memory /\ acked \in Nat /\ vol \in Seq(Seq(Recs)) /\ tapes \in Seq(Volumes)
  BY <1>1 DEF ReadInv, Live, TypeInv, StaticInv, Running
<1>4. /\ limits \in Limits /\ limits.eots \in Nat /\ limits.eots <= 1 /\ limits.dup \in 0 .. N
      /\ limits.volumes \in Nat /\ (limits.eots = 0 \/ limits.dup = 0 \/ limits.volumes <= 2)
      /\ MinBlocks \in Nat /\ MinBlocks >= 1 /\ N \in Nat /\ N >= 1 /\ Ntrec \in Nat
  BY <1>3, Constants DEF OneEnd, StaticInv
<1>5. eots = 0 /\ limits.eots = 1 /\ eots' = 1 /\ limits'.eots = 1
  BY <1>1, <1>3, <1>4 DEF StaticInv
<1>6. acked = Len(vol) - N /\ acked >= 1 /\ dup \in 0 .. N /\ Len(vol) \in Nat
  <2>1. Len(vol) - acked <= N /\ Len(vol) \in Nat
    BY <1>1, <1>3, LenProperties DEF BlockInv
  <2> QED BY <1>1, <1>3, <1>4, <2>1
<1> DEFINE T == OnTape(acked + dup)
<1>7. tapes' = Append(tapes, T) /\ Before' = Reading(Append(tapes, T))
  BY <1>2 DEF Before
<1> DEFINE r == Reading(Append(tapes, T))
<1>8. /\ T \in Volumes /\ r.tpblksread = Before.tpblksread + (acked + dup) * Ntrec
      /\ Follows(r, R) /\ Out(r, R) = Out(Before, Volume)
  BY <1>1, <1>5, <1>6, EndOfTapeReads
<1>9. /\ c.slot[SlotAt(c, N - 1)].firstrec = Before.tpblksread + (acked + (N - 1)) * Ntrec
      /\ \A s \in Slots : Len(c.slot[s].recs) = Ntrec
  BY <1>1, <1>6, SlotsHold
<1>10. c \in Memory /\ Kept(m, c) /\ c.tapea = m.tapea
  BY <1>3, NextSlotIs
<1> HIDE DEF c, T, r, R
<1>11. tapes' \in Seq(Volumes) /\ tapes' # << >> /\ Len(tapes') = Len(tapes) + 1 /\ Len(tapes) \in Nat
  BY <1>3, <1>7, <1>8, AppendProperties, LenProperties
<1>12. ckpt'.mem = c /\ ckpt'.how = "roll"
  BY <1>1
<1>13. StaticInv'
  BY <1>1, <1>3, <1>4, <1>5, <1>10, <1>11, <1>12 DEF StaticInv
<1>14. NoMaps(c)
  <2>1. NoMaps(m)
    <3>1. Len(vol) >= MinBlocks
      BY <1>1, <1>3, <1>4, <1>6
    <3> QED BY <1>1, <3>1, NoMapsLeft
  <2> QED BY <1>10, <2>1, KeptGives
<1>15. Passed(c, Out(r, R)) /\ (~InItem(c) => Rest(Out(r, R)) # << >>)
  <2>1. Passed(m, Out(Before, Volume)) /\ (~InItem(m) => Rest(Out(Before, Volume)) # << >>)
    BY <1>1, <1>3 DEF OutInv, TrailInv
  <2>2. Passed(c, Out(Before, Volume)) /\ (InItem(c) <=> InItem(m))
    BY <1>10, <2>1, KeptGives
  <2> QED BY <1>8, <2>1, <2>2
<1>16. ASSUME MoreVolumes'
       PROVE  c.slot[SlotAt(c, N - 1)].firstrec = r.tpblksread + (N - 1) * Ntrec
  <2>1. Len(tapes) + 1 + 1 < limits.volumes
    BY <1>1, <1>11, <1>16 DEF MoreVolumes
  <2>2. dup = 0
    BY <1>4, <1>5, <1>11, <2>1, <1>2
  <2>3. (acked + (N - 1)) * Ntrec = (acked + dup) * Ntrec + (N - 1) * Ntrec
    BY <1>3, <1>4, <2>2
  <2>4. Before.tpblksread \in Nat
    BY <1>3, ReadingType DEF Before, Reader
  <2>5. (acked + dup) * Ntrec \in Nat /\ (N - 1) * Ntrec \in Nat
    BY <1>3, <1>4, <2>2
  <2> DEFINE x == (acked + dup) * Ntrec
             y == (N - 1) * Ntrec
             z == (acked + (N - 1)) * Ntrec
             f == c.slot[SlotAt(c, N - 1)].firstrec
             t == Before.tpblksread
  <2>6. x \in Nat /\ y \in Nat /\ z = x + y /\ f = t + z /\ t \in Nat /\ r.tpblksread = t + x
    BY <1>8, <1>9, <2>3, <2>4, <2>5
  <2> HIDE DEF x, y, z, f, t
  <2>7. f = r.tpblksread + y
    BY <2>6
  <2> QED BY <2>7 DEF f, y
<1>17. c.tapea % Ntrec = 0
  <2>1. (m.tapea + eots - Len(InBuffer)) % Ntrec = 0 /\ Len(InBuffer) = 0
    BY <1>1, <1>3 DEF FillInv, InBuffer
  <2>2. m.tapea + eots - Len(InBuffer) = m.tapea
    BY <1>3, <1>5, <2>1 DEF Memory
  <2> QED BY <1>10, <2>1, <2>2, Zenon
<1>18. Resumable'
  <2>1. Before' = r /\ eots' = limits'.eots /\ R = Replayed(c)
    BY <1>5, <1>7 DEF r, R
  <2>2. /\ ckpt'.how = "roll" /\ tapes' # << >> /\ eots' = limits'.eots /\ eots' = 1
        /\ \A s \in Slots : Len(ckpt'.mem.slot[s].recs) = Ntrec
        /\ NoMaps(ckpt'.mem)
        /\ Follows(Before', Replayed(ckpt'.mem))
        /\ Passed(ckpt'.mem, Out(Before', Replayed(ckpt'.mem)))
        /\ ~InItem(ckpt'.mem) => Rest(Out(Before', Replayed(ckpt'.mem))) # << >>
        /\ MoreVolumes' => ckpt'.mem.slot[SlotAt(ckpt'.mem, N - 1)].firstrec
                             = Before'.tpblksread + (N - 1) * Ntrec
        /\ ckpt'.mem.tapea % Ntrec = 0
    BY <1>5, <1>8, <1>9, <1>11, <1>12, <1>14, <1>15, <1>16, <1>17, <2>1
  <2> QED BY <2>2, Zenon DEF Resumable
<1> QED BY <1>1, <1>13, <1>18, ResumeGives, StartedNext

(* Every step keeps the invariant.                                          *)
LEMMA StepInv == OneEnd /\ MapsFirst /\ ReadInv /\ [Step]_vars => ReadInv'
<1> SUFFICES ASSUME OneEnd, MapsFirst, ReadInv, [Step]_vars PROVE ReadInv'
  OBVIOUS
<1>1. CASE Step
  BY <1>1, NextHeaderInv, NextDataInv, BeginTrailerInv, NextTrailerInv, EndOfDumpInv, FlushInv,
     FlushGoodInv, FlushEndOfTapeInv, FirstGoodInv, CloseFullInv, CloseLastInv, RewriteInv, StopInv
     DEF Step
<1>2. CASE UNCHANGED vars
  <2>1. UNCHANGED <<mpc, m, vol, acked, tapes, ckpt, eots, rewrites, limits>>
    BY <1>2 DEF vars
  <2>2. Before' = Before /\ (MoreVolumes' <=> MoreVolumes) /\ (Live' <=> Live)
    BY <2>1 DEF Before, MoreVolumes, Live
  <2>3. /\ InBuffer' = InBuffer /\ Filled' = Filled /\ Volume' = Volume /\ Ahead' = Ahead
        /\ (Written' <=> Written) /\ \A s, b : Holds(s, b)' <=> Holds(s, b)
    BY <2>1, <2>2 DEF InBuffer, Filled, Volume, Ahead, Written, Whole, Holds
  <2>4. TypeInv' <=> TypeInv
    BY <2>1 DEF TypeInv, StaticInv
  <2>5. Resumable' <=> Resumable
    BY <2>1, <2>2, Zenon DEF Resumable
  <2>6. Running' <=> Running
    <3>1. (BlockInv' <=> BlockInv) /\ (OutInv' <=> OutInv) /\ (PlaceInv' <=> PlaceInv)
      BY <2>1, <2>2, <2>3, Zenon DEF BlockInv, OutInv, PlaceInv
    <3>2. (FillInv' <=> FillInv) /\ (SlotInv' <=> SlotInv) /\ (MapInv' <=> MapInv) /\ (TrailInv' <=> TrailInv)
      BY <2>1, <2>2, <2>3, Zenon DEF FillInv, SlotInv, MapInv, TrailInv
    <3> QED BY <3>1, <3>2 DEF Running
  <2>7. Whole(ReadBack(tapes))' <=> Whole(ReadBack(tapes))
    BY <2>1 DEF Whole
  <2> QED BY <2>1, <2>2, <2>3, <2>4, <2>5, <2>6, <2>7, Zenon DEF ReadInv
<1> QED BY <1>1, <1>2

LEMMA Invariant == OneEnd /\ MapsFirst /\ Spec => []ReadInv
<1> SUFFICES ASSUME OneEnd, MapsFirst PROVE Spec => []ReadInv
  OBVIOUS
<1>1. Init => ReadInv
  BY InitInv
<1>2. ReadInv /\ [Step]_vars => ReadInv'
  BY StepInv
<1> QED BY <1>1, <1>2, PTL DEF Spec

(* RestoreReads: a finished dump reads back whole.                          *)
LEMMA InvReads == ReadInv => RestoreReads
<1> SUFFICES ASSUME ReadInv, mpc = "done" PROVE IsPrefix(Logical, ReadBack(tapes))
  BY DEF RestoreReads
<1> DEFINE out == ReadBack(tapes)
           l == Len(Logical)
<1>1. Len(out) >= l /\ out = Logical \o Rest(out)
  BY DEF ReadInv, Whole, Begins
<1>2. Logical \in Seq(Recs) /\ l \in Nat
  BY LogicalIs
<1>3. out \in Seq(Recs)
  BY ReadingType DEF ReadInv, TypeInv, StaticInv, ReadBack, Reader
<1> HIDE DEF out
<1>4. Rest(out) \in Seq(Recs)
  <2>1. \A i \in l + 1 .. Len(out) : out[i] \in Recs
    BY <1>2, <1>3, ElementOfSeq
  <2>2. l + 1 \in Int /\ Len(out) \in Int
    BY <1>2, <1>3, LenProperties
  <2> QED BY <2>1, <2>2, SubSeqProperties DEF Rest
<1> DEFINE f == SubSeq(Logical, 1, l)
           g == SubSeq(out, 1, l)
<1>5. \A i \in 1 .. l : Logical[i] \in Recs /\ out[i] \in Recs /\ out[i] = Logical[i]
  <2>1. \A i \in 1 .. Len(Logical) + Len(Rest(out)) :
            (Logical \o Rest(out))[i] = IF i <= Len(Logical) THEN Logical[i] ELSE Rest(out)[i - Len(Logical)]
    BY <1>2, <1>4, ConcatProperties
  <2>2. Len(Rest(out)) \in Nat
    BY <1>4, LenProperties
  <2>3. \A i \in 1 .. l : i \in 1 .. Len(Logical) + Len(Rest(out)) /\ i <= Len(Logical)
    BY <1>2, <2>2
  <2>4. \A i \in 1 .. l : Logical[i] \in Recs
    BY <1>2, ElementOfSeq
  <2> QED BY <1>1, <2>1, <2>3, <2>4
<1>6. /\ f \in Seq(Recs) /\ Len(f) = (IF 1 <= l THEN l - 1 + 1 ELSE 0)
      /\ \A i \in 1 .. l - 1 + 1 : f[i] = Logical[1 + i - 1]
  BY <1>2, <1>5, SubSeqProperties
<1>7. /\ g \in Seq(Recs) /\ Len(g) = (IF 1 <= l THEN l - 1 + 1 ELSE 0)
      /\ \A i \in 1 .. l - 1 + 1 : g[i] = out[1 + i - 1]
  BY <1>2, <1>5, SubSeqProperties
<1> HIDE DEF f, g, l
<1>8. ASSUME NEW i \in 1 .. Len(f) PROVE f[i] = g[i]
  <2>1. i \in 1 .. l /\ i \in 1 .. l - 1 + 1 /\ 1 + i - 1 = i
    BY <1>2, <1>6
  <2>2. f[i] = Logical[1 + i - 1] /\ g[i] = out[1 + i - 1]
    BY <1>6, <1>7, <2>1
  <2> QED BY <1>5, <2>1, <2>2
<1>9. f = g
  BY <1>6, <1>7, <1>8, SeqEqual
<1> QED BY <1>1, <1>9 DEF IsPrefix, f, g, l, out

(* EndMarked, when no volume was ended by its device.                       *)
LEMMA InvMarks == ReadInv /\ eots = 0 => EndMarked
<1> SUFFICES ASSUME ReadInv, eots = 0, mpc = "done"
             PROVE  LET out == ReadBack(tapes)
                    IN  Len(out) > Len(Logical) /\ out[Len(Logical) + 1] = EndRec
  BY DEF EndMarked
<1> DEFINE out == ReadBack(tapes)
           l == Len(Logical)
           rest == Rest(out)
<1>1. /\ Len(out) >= l /\ out = Logical \o rest /\ rest # << >>
      /\ rest = << >> \/ Head(rest) = EndRec
  BY DEF ReadInv, Whole, Begins
<1>2. Logical \in Seq(Recs) /\ l \in Nat
  BY LogicalIs
<1>3. out \in Seq(Recs) /\ Len(out) \in Nat
  BY ReadingType, LenProperties DEF ReadInv, TypeInv, StaticInv, ReadBack, Reader
<1>4. rest = SubSeq(out, l + 1, Len(out))
  BY DEF Rest
<1> HIDE DEF out, l, rest
<1>5. Len(out) > l
  <2>1. Len(out) # l
    <3> SUFFICES ASSUME Len(out) = l PROVE rest = << >>
      BY <1>1
    <3> QED BY <1>2, <1>4, SubSeqEmpty
  <2> QED BY <1>1, <1>2, <1>3, <2>1
<1>6. Head(rest) = out[l + 1]
  <2>1. \A i \in l + 1 .. Len(out) : out[i] \in Recs
    BY <1>2, <1>3, ElementOfSeq
  <2>2. \A i \in 1 .. Len(out) - (l + 1) + 1 : rest[i] = out[l + 1 + i - 1]
    BY <1>2, <1>3, <1>4, <2>1, SubSeqProperties
  <2>3. 1 \in 1 .. Len(out) - (l + 1) + 1 /\ l + 1 + 1 - 1 = l + 1
    BY <1>2, <1>3, <1>5
  <2>4. rest[1] = out[l + 1]
    BY <2>2, <2>3
  <2>5. rest \in Seq(Recs)
    <3>1. l + 1 \in Int /\ Len(out) \in Int
      BY <1>2, <1>3
    <3> QED BY <1>4, <2>1, <3>1, SubSeqProperties
  <2>6. Head(rest) = rest[1]
    BY <1>1, <2>5
  <2> QED BY <2>4, <2>6
<1> QED BY <1>1, <1>5, <1>6 DEF out, l

(* A finished dump reads back whole, every header and every block in order: *)
(* with any number of slaves and any blocking factor, over volumes that end *)
(* at their size or were begun again after errors (startnewtape's parent    *)
(* forks a new child), and over one that its device ended, whose last       *)
(* blocks rollforward has put on the next volume as well.                   *)
THEOREM ReadsBack == OneEnd /\ MapsFirst /\ Spec => []RestoreReads
<1>1. OneEnd /\ MapsFirst /\ Spec => []ReadInv
  BY Invariant
<1>2. ReadInv => RestoreReads
  BY InvReads
<1> QED BY <1>1, <1>2, PTL

(* ... and if no device ended a volume it is followed by the end of tape    *)
(* header of main's last loop, which makes restore stop.                    *)
THEOREM EndsMarked ==
    OneEnd /\ MapsFirst /\ (\A l \in Limits : l.eots = 0) /\ Spec => []EndMarked
<1> SUFFICES ASSUME OneEnd, MapsFirst, \A l \in Limits : l.eots = 0 PROVE Spec => []EndMarked
  OBVIOUS
<1>1. Spec => []ReadInv
  BY Invariant
<1>2. ReadInv => EndMarked
  <2> SUFFICES ASSUME ReadInv PROVE EndMarked
    OBVIOUS
  <2>1. eots \in Nat /\ eots <= limits.eots /\ limits.eots = 0
    BY DEF ReadInv, TypeInv, StaticInv
  <2> QED BY <2>1, InvMarks
<1> QED BY <1>1, <1>2, PTL
=============================================================================
