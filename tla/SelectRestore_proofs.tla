------------------------ MODULE SelectRestore_proofs ------------------------
(***************************************************************************)
(* The list of restore -i holds what the user put on it and has not taken  *)
(* off again (SelectRestore!Listed), for any dump, any order of volumes    *)
(* and any number of extractions.                                          *)
(*                                                                         *)
(* What makes it hard is that an extraction has to take every request off  *)
(* the list, and that it is interrupted by reads, by the end of volumes    *)
(* and by jumps out of files.  So the argument is about todo: whatever is  *)
(* before its last elements belongs to reading (Inner), comes and goes     *)
(* without changing the list, and what follows tells how far createfiles   *)
(* is.                                                                     *)
(***************************************************************************)
EXTENDS SelectRestore, NaturalNumbers

(* What reading a file, passing over files and changing the volume do.     *)
Inner == {"setup", "extractdirs", "read", "head", "find", "file", "more", "end", "maps", "dirs",
          "getvol", "again", "open", "volume", "jump", "panic"}

IsSequence(s) == s \in Seq({s[i] : i \in DOMAIN s})
(* The sequence s ends with the operations b; what is before is reading.   *)
Framed(s, b) ==
    /\ IsSequence(s) /\ Len(s) >= Len(b)
    /\ \A i \in 1..(Len(s) - Len(b)) : s[i].op \in Inner
    /\ \A i \in 1..Len(b) : s[Len(s) - Len(b) + i].op = b[i]

(* How far restore is: in its shell, behind an extraction, after           *)
(* createfiles, in it, and in one of its files.                            *)
AtShell   == <<"shell">>
AtVolume0 == <<"volume0", "shell">>
AtLinks   == <<"links", "volume0", "shell">>
Stages    == {"create", "bounds", "reject", "rejected", "choose", "search", "skip", "skipped"}
Creating(x) == <<x, "links", "volume0", "shell">>
AtFile(x)   == <<x, "bounds", "links", "volume0", "shell">>

(* The entries of an inode: names of that inode, each once.                *)
Entry == [name : Names, new : BOOLEAN]
ChainOf(ch, i) ==
    /\ ch \in Seq(Entry)
    /\ \A k \in 1..Len(ch) : job.names[ch[k].name] = i
    /\ \A k, l \in 1..Len(ch) : ch[k].name = ch[l].name => k = l
Chains == /\ chain = [i \in Inodes |-> chain[i]]
          /\ \A i \in Inodes : ChainOf(chain[i], i)

(* The requests are between the bounds of createfiles.                     *)
InBounds ==
    /\ c.first \in Int /\ c.last \in Int
    /\ \A i \in Inodes : HasNew(i) => c.first <= i /\ i <= c.last

OnList == {n \in Names : Marked(n)} = wanted

ProgressWith(s) ==
    \/ s = << >>
    \/ Framed(s, AtShell) /\ OnList
    \/ Framed(s, AtVolume0) /\ OnList /\ wanted = {}
    \/ Framed(s, AtLinks) /\ wanted = {} /\ \A i \in Inodes : ~HasNew(i)
    \/ /\ wanted = {}
       /\ \E x \in Stages : Framed(s, Creating(x)) /\ (x = "create" \/ InBounds)
    \/ /\ wanted = {} /\ InBounds
       /\ \E x \in {"extract", "extracted"} : Framed(s, AtFile(x))
Progress == ProgressWith(todo)

(* A jump out of a file finds the end of that file.                        *)
Jumps == r.getting => \/ Doing("panic")
                      \/ \E k \in DOMAIN todo : todo[k].op = "end"

Fields == {"getting"} \subseteq DOMAIN r /\ {"first", "last"} \subseteq DOMAIN c

ListInv == job \in Plans /\ Chains /\ Fields /\ Jumps /\ Progress

-----------------------------------------------------------------------------
(* Sequences of what restore has to do. *)

LEMMA IsSeq ==
    ASSUME NEW S, NEW s \in Seq(S)
    PROVE  IsSequence(s)
<1>1. s \in [1 .. Len(s) -> {s[i] : i \in DOMAIN s}] /\ Len(s) \in Nat
  OBVIOUS
<1> QED BY <1>1 DEF IsSequence

(* s behind a. *)
LEMMA Before ==
    ASSUME NEW a, IsSequence(a), NEW s, IsSequence(s)
    PROVE  /\ IsSequence(a \o s) /\ Len(a) \in Nat /\ Len(s) \in Nat /\ Len(a \o s) = Len(a) + Len(s)
           /\ \A i \in 1 .. Len(a) : (a \o s)[i] = a[i]
           /\ \A i \in 1 .. Len(s) : (a \o s)[Len(a) + i] = s[i]
<1> DEFINE S == {a[i] : i \in DOMAIN a} \cup {s[i] : i \in DOMAIN s}
<1>1. a \in Seq(S) /\ s \in Seq(S)
  BY DEF IsSequence
<1> HIDE DEF S
<1>2. a \o s \in Seq(S)
  BY <1>1
<1>3. IsSequence(a \o s)
  BY <1>2, IsSeq
<1> QED BY <1>1, <1>3

(* What is behind the first element. *)
LEMMA Behind ==
    ASSUME NEW s, IsSequence(s), s # << >>
    PROVE  /\ IsSequence(Tail(s)) /\ Len(s) \in Nat \ {0} /\ Len(Tail(s)) = Len(s) - 1
           /\ Head(s) = s[1] /\ \A i \in 1 .. Len(s) - 1 : Tail(s)[i] = s[i + 1]
<1> DEFINE S == {s[i] : i \in DOMAIN s}
<1>1. s \in Seq(S)
  BY DEF IsSequence
<1> HIDE DEF S
<1>2. Tail(s) \in Seq(S) /\ Len(s) \in Nat \ {0} /\ Len(Tail(s)) = Len(s) - 1
  BY <1>1
<1>3. Head(s) = s[1] /\ \A i \in 1 .. Len(s) - 1 : Tail(s)[i] = s[i + 1]
  BY <1>1
<1> QED BY <1>2, <1>3, IsSeq

(* The first element of s gives way to a. *)
LEMMA Exchanged ==
    ASSUME NEW a, IsSequence(a), NEW s, IsSequence(s), s # << >>
    PROVE  LET t == a \o Tail(s)
           IN  /\ IsSequence(t) /\ Len(a) \in Nat /\ Len(s) \in Nat /\ Len(t) = Len(a) + Len(s) - 1
               /\ \A i \in 1 .. Len(a) : t[i] = a[i]
               /\ \A i \in 1 .. Len(s) - 1 : t[Len(a) + i] = s[i + 1]
<1>1. /\ IsSequence(Tail(s)) /\ Len(s) \in Nat \ {0} /\ Len(Tail(s)) = Len(s) - 1
      /\ \A i \in 1 .. Len(s) - 1 : Tail(s)[i] = s[i + 1]
  BY Behind
<1>2. ASSUME NEW u, IsSequence(u)
      PROVE  /\ IsSequence(a \o u) /\ Len(a) \in Nat /\ Len(a \o u) = Len(a) + Len(u)
             /\ \A i \in 1 .. Len(a) : (a \o u)[i] = a[i]
             /\ \A i \in 1 .. Len(u) : (a \o u)[Len(a) + i] = u[i]
  BY <1>2, Before
<1>3. /\ IsSequence(a \o Tail(s)) /\ Len(a) \in Nat /\ Len(a \o Tail(s)) = Len(a) + Len(Tail(s))
      /\ \A i \in 1 .. Len(a) : (a \o Tail(s))[i] = a[i]
      /\ \A i \in 1 .. Len(Tail(s)) : (a \o Tail(s))[Len(a) + i] = Tail(s)[i]
  BY <1>1, <1>2
<1> DEFINE t == a \o Tail(s)
           u == Tail(s)
<1>4. /\ IsSequence(t) /\ Len(a) \in Nat /\ Len(t) = Len(a) + Len(s) - 1
      /\ \A i \in 1 .. Len(a) : t[i] = a[i]
  <2> HIDE DEF t, u
  <2> QED BY <1>1, <1>3 DEF t
<1>5. \A i \in 1 .. Len(s) - 1 : t[Len(a) + i] = s[i + 1]
  BY <1>1, <1>3
<1> QED BY <1>1, <1>4, <1>5

(* What is behind the k-th element. *)
LEMMA Dropped ==
    ASSUME NEW s, IsSequence(s), NEW k \in 1 .. Len(s)
    PROVE  LET t == SubSeq(s, k + 1, Len(s))
           IN  /\ IsSequence(t) /\ Len(s) \in Nat /\ Len(t) = Len(s) - k
               /\ \A i \in 1 .. Len(s) - k : t[i] = s[k + i]
<1> DEFINE S == {s[i] : i \in DOMAIN s}
           t == SubSeq(s, k + 1, Len(s))
<1>1. s \in Seq(S)
  BY DEF IsSequence
<1> HIDE DEF S
<1>2. Len(s) \in Nat /\ k \in Nat /\ k >= 1 /\ k <= Len(s)
  BY <1>1
<1>3. t \in Seq(S) /\ Len(t) = Len(s) - k
  BY <1>1, <1>2
<1>4. \A i \in 1 .. Len(s) - k : t[i] = s[k + i]
  BY <1>1, <1>2
<1>5. IsSequence(t)
  BY <1>3, IsSeq
<1> QED BY <1>2, <1>3, <1>4, <1>5

-----------------------------------------------------------------------------
(* How what restore has to do changes behind, in front of and at its frame. *)

Frame(b) == Len(b) \in Nat /\ \A i \in 1..Len(b) : b[i] \notin Inner
Reading(a) == IsSequence(a) /\ \A i \in 1..Len(a) : a[i].op \in Inner

LEMMA Inside ==
    ASSUME NEW s, NEW b, Frame(b), Framed(s, b), s # << >>, Head(s).op \in Inner
    PROVE  Len(s) \in Nat /\ Len(s) > Len(b)
<1>1. Head(s) = s[1] /\ Len(s) \in Nat \ {0}
  BY Behind DEF Framed
<1>2. Len(s) # Len(b)
  <2> SUFFICES ASSUME Len(s) = Len(b) PROVE FALSE
    OBVIOUS
  <2>1. s[Len(s) - Len(b) + 1].op = b[1] /\ Len(s) - Len(b) + 1 = 1
    BY <1>1 DEF Framed
  <2> QED BY <1>1, <2>1 DEF Frame
<1> QED BY <1>1, <1>2 DEF Framed, Frame

LEMMA Prefixed ==
    ASSUME NEW s, NEW b, NEW a, Frame(b), Framed(s, b), Reading(a)
    PROVE  Framed(a \o s, b)
<1> DEFINE t == a \o s
<1>1. /\ IsSequence(t) /\ Len(a) \in Nat /\ Len(s) \in Nat /\ Len(t) = Len(a) + Len(s)
      /\ \A i \in 1 .. Len(a) : t[i] = a[i]
      /\ \A i \in 1 .. Len(s) : t[Len(a) + i] = s[i]
  BY Before DEF Framed, Reading
<1> HIDE DEF t
<1>2. Len(s) >= Len(b) /\ Len(b) \in Nat
  BY DEF Framed, Frame
<1>3. ASSUME NEW i \in 1 .. (Len(t) - Len(b)) PROVE t[i].op \in Inner
  <2>1. CASE i <= Len(a)
    BY <1>1, <2>1 DEF Reading
  <2>2. CASE i > Len(a)
    <3>1. i - Len(a) \in 1 .. (Len(s) - Len(b)) /\ i - Len(a) \in 1 .. Len(s) /\ i = Len(a) + (i - Len(a))
      BY <1>1, <1>2, <2>2
    <3>2. t[Len(a) + (i - Len(a))] = s[i - Len(a)]
      BY <1>1, <3>1
    <3> QED BY <3>1, <3>2 DEF Framed
  <2> QED BY <1>1, <2>1, <2>2
<1>4. ASSUME NEW i \in 1 .. Len(b) PROVE t[Len(t) - Len(b) + i].op = b[i]
  <2>1. /\ Len(s) - Len(b) + i \in 1 .. Len(s)
        /\ Len(t) - Len(b) + i = Len(a) + (Len(s) - Len(b) + i)
    BY <1>1, <1>2
  <2>2. t[Len(a) + (Len(s) - Len(b) + i)] = s[Len(s) - Len(b) + i]
    BY <1>1, <2>1
  <2> QED BY <2>1, <2>2 DEF Framed
<1> QED BY <1>1, <1>2, <1>3, <1>4 DEF Framed, t

(* The elements up to the k-th go, and the k-th is before the frame. *)
LEMMA Shortened ==
    ASSUME NEW s, NEW b, NEW k, NEW t, Frame(b), Framed(s, b), Len(s) \in Nat, k \in 1 .. Len(s) - Len(b),
           IsSequence(t), Len(t) = Len(s) - k, \A i \in 1 .. Len(s) - k : t[i] = s[k + i]
    PROVE  Framed(t, b)
<1>1. Len(s) >= Len(b) /\ Len(b) \in Nat /\ k \in Nat
  BY DEF Framed, Frame
<1>2. ASSUME NEW i \in 1 .. (Len(t) - Len(b)) PROVE t[i].op \in Inner
  <2>1. k + i \in 1 .. (Len(s) - Len(b)) /\ i \in 1 .. Len(s) - k
    BY <1>1
  <2> QED BY <2>1 DEF Framed
<1>3. ASSUME NEW i \in 1 .. Len(b) PROVE t[Len(t) - Len(b) + i].op = b[i]
  <2>1. Len(t) - Len(b) + i \in 1 .. Len(s) - k /\ k + (Len(t) - Len(b) + i) = Len(s) - Len(b) + i
    BY <1>1
  <2>2. t[Len(t) - Len(b) + i] = s[k + (Len(t) - Len(b) + i)]
    BY <2>1
  <2> QED BY <2>1, <2>2 DEF Framed
<1> QED BY <1>1, <1>2, <1>3 DEF Framed

LEMMA Replaced ==
    ASSUME NEW s, NEW b, NEW a, Frame(b), Framed(s, b), s # << >>, Head(s).op \in Inner, Reading(a)
    PROVE  Framed(a \o Tail(s), b)
<1>1. Len(s) \in Nat /\ Len(s) > Len(b) /\ Len(b) \in Nat
  BY Inside DEF Frame
<1>2. /\ IsSequence(Tail(s)) /\ Len(Tail(s)) = Len(s) - 1
      /\ \A i \in 1 .. Len(s) - 1 : Tail(s)[i] = s[i + 1]
  BY Behind DEF Framed
<1>3. 1 \in 1 .. Len(s) - Len(b) /\ \A i \in 1 .. Len(s) - 1 : Tail(s)[i] = s[1 + i]
  BY <1>1, <1>2
<1>4. Framed(Tail(s), b)
  BY <1>1, <1>2, <1>3, Shortened
<1> QED BY <1>4, Prefixed

LEMMA Jumped ==
    ASSUME NEW s, NEW b, Frame(b), Framed(s, b), NEW k \in 1 .. Len(s), s[k].op \in Inner
    PROVE  Framed(SubSeq(s, k + 1, Len(s)), b)
<1> DEFINE t == SubSeq(s, k + 1, Len(s))
<1>1. /\ IsSequence(t) /\ Len(s) \in Nat /\ Len(t) = Len(s) - k
      /\ \A i \in 1 .. Len(s) - k : t[i] = s[k + i]
  BY Dropped DEF Framed
<1> HIDE DEF t
<1>2. k <= Len(s) - Len(b)
  <2> SUFFICES ASSUME k > Len(s) - Len(b) PROVE FALSE
    BY <1>1 DEF Framed, Frame
  <2>1. k - (Len(s) - Len(b)) \in 1 .. Len(b) /\ Len(s) - Len(b) + (k - (Len(s) - Len(b))) = k
    BY <1>1 DEF Framed, Frame
  <2>2. s[Len(s) - Len(b) + (k - (Len(s) - Len(b)))].op = b[k - (Len(s) - Len(b))]
    BY <2>1 DEF Framed
  <2> QED BY <2>1, <2>2 DEF Frame
<1>3. k \in 1 .. Len(s) - Len(b)
  BY <1>1, <1>2 DEF Frame
<1>4. Framed(t, b)
  BY <1>1, <1>3, Shortened
<1> QED BY <1>4 DEF t

(* At the frame itself. *)
LEMMA AtFrame ==
    ASSUME NEW s, NEW b, Frame(b), Framed(s, b), s # << >>, Head(s).op \notin Inner
    PROVE  /\ Len(s) = Len(b) /\ Len(b) \in Nat \ {0} /\ Head(s).op = b[1]
           /\ \A i \in 1 .. Len(b) : s[i].op = b[i]
<1>1. Head(s) = s[1] /\ Len(s) \in Nat \ {0} /\ Len(b) \in Nat
  BY Behind DEF Framed, Frame
<1>2. Len(s) = Len(b)
  <2> SUFFICES ASSUME Len(s) # Len(b) PROVE FALSE
    OBVIOUS
  <2>1. 1 \in 1 .. (Len(s) - Len(b))
    BY <1>1 DEF Framed
  <2> QED BY <1>1, <2>1 DEF Framed
<1>3. \A i \in 1 .. Len(b) : Len(s) - Len(b) + i = i
  BY <1>1, <1>2
<1>4. \A i \in 1 .. Len(b) : s[i].op = b[i]
  BY <1>3 DEF Framed
<1> QED BY <1>1, <1>2, <1>4

(* f is e and then b without its first operation. *)
Gives(f, e, b) ==
    /\ Len(f) = Len(e) + Len(b) - 1
    /\ \A i \in 1..Len(e) : f[i] = e[i]
    /\ \A i \in 1..(Len(b) - 1) : f[Len(e) + i] = b[i + 1]

(* The frame of s gives way to e, behind a. *)
LEMMA Onward ==
    ASSUME NEW s, NEW b, Frame(b), Framed(s, b), s # << >>, Head(s).op \notin Inner,
           NEW a, NEW e, Framed(a, e), Len(e) \in Nat,
           NEW f, Gives(f, e, b)
    PROVE  Framed(a \o Tail(s), f)
<1>0. /\ Len(f) = Len(e) + Len(b) - 1 /\ \A i \in 1 .. Len(e) : f[i] = e[i]
      /\ \A i \in 1 .. Len(b) - 1 : f[Len(e) + i] = b[i + 1]
  BY DEF Gives
<1> DEFINE t == a \o Tail(s)
<1>1. /\ Len(s) = Len(b) /\ Len(b) \in Nat \ {0} /\ \A i \in 1 .. Len(b) : s[i].op = b[i]
  BY AtFrame
<1>2. IsSequence(a) /\ IsSequence(s)
  BY DEF Framed
<1>3. /\ IsSequence(t) /\ Len(a) \in Nat /\ Len(t) = Len(a) + Len(b) - 1
      /\ \A i \in 1 .. Len(a) : t[i] = a[i]
      /\ \A i \in 1 .. Len(b) - 1 : t[Len(a) + i] = s[i + 1]
  <2>1. /\ IsSequence(t) /\ Len(a) \in Nat /\ Len(t) = Len(a) + Len(s) - 1
        /\ \A i \in 1 .. Len(a) : t[i] = a[i]
        /\ \A i \in 1 .. Len(s) - 1 : t[Len(a) + i] = s[i + 1]
    BY <1>2, Exchanged
  <2> HIDE DEF t
  <2> QED BY <1>1, <1>2, <2>1
<1> HIDE DEF t
<1>4. Len(a) >= Len(e) /\ Len(t) - Len(f) = Len(a) - Len(e)
  BY <1>0, <1>1, <1>3 DEF Framed
<1>5. ASSUME NEW i \in 1 .. (Len(t) - Len(f)) PROVE t[i].op \in Inner
  <2>1. i \in 1 .. (Len(a) - Len(e)) /\ i \in 1 .. Len(a)
    BY <1>3, <1>4
  <2> QED BY <1>3, <2>1 DEF Framed
<1>6. ASSUME NEW i \in 1 .. Len(f) PROVE t[Len(t) - Len(f) + i].op = f[i]
  <2>1. CASE i <= Len(e)
    <3>1. Len(a) - Len(e) + i \in 1 .. Len(a) /\ i \in 1 .. Len(e)
      BY <1>3, <1>4, <2>1
    <3>2. t[Len(a) - Len(e) + i] = a[Len(a) - Len(e) + i]
      BY <1>3, <3>1
    <3>3. a[Len(a) - Len(e) + i].op = e[i]
      BY <3>1 DEF Framed
    <3> QED BY <1>0, <1>4, <3>1, <3>2, <3>3
  <2>2. CASE i > Len(e)
    <3> DEFINE j == i - Len(e)
    <3>1. j \in 1 .. Len(b) - 1 /\ i = Len(e) + j /\ Len(a) - Len(e) + i = Len(a) + j /\ j + 1 \in 1 .. Len(b)
      BY <1>0, <1>1, <1>3, <2>2
    <3> HIDE DEF j
    <3>2. t[Len(a) + j] = s[j + 1] /\ s[j + 1].op = b[j + 1] /\ f[Len(e) + j] = b[j + 1]
      BY <1>0, <1>1, <1>2, <1>3, <3>1
    <3> QED BY <1>4, <3>1, <3>2
  <2> QED BY <1>0, <1>1, <2>1, <2>2
<1>7. Len(t) >= Len(f)
  BY <1>0, <1>1, <1>3, <1>4
<1>8. Framed(t, f)
  BY <1>3, <1>5, <1>6, <1>7 DEF Framed
<1> QED BY <1>8 DEF t

LEMMA Frames ==
    /\ Frame(AtShell) /\ Frame(AtVolume0) /\ Frame(AtLinks)
    /\ \A x \in Stages : Frame(Creating(x))
    /\ \A x \in {"extract", "extracted"} : Frame(AtFile(x))
<1>1. Frame(AtShell) /\ Frame(AtVolume0) /\ Frame(AtLinks)
  BY DEF Frame, AtShell, AtVolume0, AtLinks, Inner
<1>2. ASSUME NEW x \in Stages PROVE Frame(Creating(x))
  BY DEF Frame, Creating, Stages, Inner
<1>3. ASSUME NEW x \in {"extract", "extracted"} PROVE Frame(AtFile(x))
  BY DEF Frame, AtFile, Inner
<1> QED BY <1>1, <1>2, <1>3

(* What restore does next, when it is not reading, tells how far it is. *)
LEMMA Whereabouts ==
    ASSUME Progress, todo # << >>, NEW x, Top.op = x, x \notin Inner
    PROVE  /\ x = "shell" => Framed(todo, AtShell) /\ OnList
           /\ x = "volume0" => Framed(todo, AtVolume0) /\ OnList /\ wanted = {}
           /\ x = "links" => /\ Framed(todo, AtLinks) /\ wanted = {}
                             /\ \A i \in Inodes : ~HasNew(i)
           /\ x \in Stages => Framed(todo, Creating(x)) /\ wanted = {} /\ (x = "create" \/ InBounds)
           /\ x \in {"extract", "extracted"} => Framed(todo, AtFile(x)) /\ wanted = {} /\ InBounds
<1>1. ASSUME NEW b, Frame(b), Framed(todo, b) PROVE b[1] = x
  BY <1>1, AtFrame DEF Top
<1>2. /\ AtShell[1] = "shell" /\ AtVolume0[1] = "volume0" /\ AtLinks[1] = "links"
      /\ \A y : Creating(y)[1] = y /\ AtFile(y)[1] = y
  BY DEF AtShell, AtVolume0, AtLinks, Creating, AtFile
<1>3. CASE Framed(todo, AtShell) /\ OnList
  BY <1>1, <1>2, <1>3, Frames DEF Stages
<1>4. CASE Framed(todo, AtVolume0) /\ OnList /\ wanted = {}
  BY <1>1, <1>2, <1>4, Frames DEF Stages
<1>5. CASE Framed(todo, AtLinks) /\ wanted = {} /\ \A i \in Inodes : ~HasNew(i)
  BY <1>1, <1>2, <1>5, Frames DEF Stages
<1>6. ASSUME wanted = {}, NEW y \in Stages, Framed(todo, Creating(y)), y = "create" \/ InBounds
      PROVE  y = x
  BY <1>1, <1>2, <1>6, Frames
<1>7. ASSUME NEW y \in {"extract", "extracted"}, Framed(todo, AtFile(y))
      PROVE  y = x
  BY <1>1, <1>2, <1>7, Frames
<1>8. CASE wanted = {} /\ \E y \in Stages : Framed(todo, Creating(y)) /\ (y = "create" \/ InBounds)
  BY <1>6, <1>8 DEF Stages
<1>9. CASE wanted = {} /\ InBounds /\ \E y \in {"extract", "extracted"} : Framed(todo, AtFile(y))
  BY <1>7, <1>9 DEF Stages
<1> QED BY <1>3, <1>4, <1>5, <1>8, <1>9 DEF Progress, ProgressWith

-----------------------------------------------------------------------------
(* The steps of reading leave the list, and how far createfiles is, alone. *)

LEMMA SameFrame ==
    ASSUME Progress, NEW s, todo # << >>,
           \A b : Frame(b) /\ Framed(todo, b) => Framed(s, b)
    PROVE  ProgressWith(s)
BY Frames DEF Progress, ProgressWith

LEMMA StillReading ==
    ASSUME Progress, todo # << >>, Top.op \in Inner, NEW a, Reading(a)
    PROVE  ProgressWith(a \o Tail(todo)) /\ ProgressWith(a \o todo)
<1>1. ASSUME NEW b, Frame(b), Framed(todo, b)
      PROVE  Framed(a \o Tail(todo), b) /\ Framed(a \o todo, b)
  BY <1>1, Replaced, Prefixed DEF Top
<1> QED BY <1>1, SameFrame

LEMMA OutOfFile ==
    ASSUME Progress, todo # << >>, NEW k \in 1 .. Len(todo), todo[k].op \in Inner
    PROVE  ProgressWith(SubSeq(todo, k + 1, Len(todo)))
<1>1. ASSUME NEW b, Frame(b), Framed(todo, b)
      PROVE  Framed(SubSeq(todo, k + 1, Len(todo)), b)
  BY <1>1, Jumped
<1> QED BY <1>1, SameFrame

LEMMA ProgressIsSequence ==
    ASSUME Progress
    PROVE  IsSequence(todo)
<1>1. IsSequence(<< >>)
  <2>1. << >> \in Seq({})
    OBVIOUS
  <2> QED BY <2>1, IsSeq
<1> QED BY <1>1 DEF Progress, ProgressWith, Framed

LEMMA Undisturbed ==
    ASSUME ProgressWith(todo'), UNCHANGED <<job, c, chain, wanted>>
    PROVE  Progress'
<1>1. /\ OnList' = OnList /\ InBounds' = InBounds /\ Inodes' = Inodes
      /\ \A i : HasNew(i)' = HasNew(i)
  BY DEF OnList, Marked, PlaceOf, Names, InBounds, HasNew, Inodes, maxino
<1> QED BY <1>1, Zenon DEF Progress, ProgressWith

(* The place of the end of the file in todo moves with what is before it. *)
LEMMA EndBehind ==
    ASSUME IsSequence(todo), todo # << >>, NEW k \in DOMAIN todo, todo[k].op = "end",
           NEW a, IsSequence(a)
    PROVE  /\ \E i \in DOMAIN (a \o todo) : (a \o todo)[i].op = "end"
           /\ k # 1 => \E i \in DOMAIN (a \o Tail(todo)) : (a \o Tail(todo))[i].op = "end"
<1>1. DOMAIN todo = 1 .. Len(todo) /\ Len(todo) \in Nat
  BY DEF IsSequence
<1>2. \E i \in DOMAIN (a \o todo) : (a \o todo)[i].op = "end"
  <2> DEFINE t == a \o todo
  <2>1. /\ IsSequence(t) /\ Len(a) \in Nat /\ Len(t) = Len(a) + Len(todo)
        /\ \A i \in 1 .. Len(todo) : t[Len(a) + i] = todo[i]
    BY Before
  <2> HIDE DEF t
  <2>2. Len(a) + k \in DOMAIN t /\ t[Len(a) + k].op = "end"
    BY <1>1, <2>1 DEF IsSequence
  <2> QED BY <2>2 DEF t
<1>3. ASSUME k # 1 PROVE \E i \in DOMAIN (a \o Tail(todo)) : (a \o Tail(todo))[i].op = "end"
  <2> DEFINE t == a \o Tail(todo)
  <2>1. /\ IsSequence(t) /\ Len(a) \in Nat /\ Len(t) = Len(a) + Len(todo) - 1
        /\ \A i \in 1 .. Len(todo) - 1 : t[Len(a) + i] = todo[i + 1]
    BY Exchanged
  <2> HIDE DEF t
  <2>2. k - 1 \in 1 .. Len(todo) - 1 /\ (k - 1) + 1 = k
    BY <1>1, <1>3
  <2>3. t[Len(a) + (k - 1)] = todo[k]
    BY <2>1, <2>2
  <2>4. Len(a) + (k - 1) \in DOMAIN t
    BY <1>1, <2>1, <2>2 DEF IsSequence
  <2> QED BY <2>3, <2>4 DEF t
<1> QED BY <1>2, <1>3

LEMMA JumpsKept ==
    ASSUME Jumps, IsSequence(todo), todo # << >>, Top.op \notin {"end", "panic"}, NEW a, IsSequence(a),
           todo' \in {a \o Tail(todo), a \o todo}, r'.getting => r.getting
    PROVE  Jumps'
<1> SUFFICES ASSUME r'.getting PROVE \E k \in DOMAIN todo' : todo'[k].op = "end"
  BY DEF Jumps
<1>1. PICK k \in DOMAIN todo : todo[k].op = "end"
  BY DEF Jumps, Doing, Top
<1>2. Head(todo) = todo[1]
  BY Behind
<1>3. k # 1
  BY <1>1, <1>2 DEF Top
<1> QED BY <1>1, <1>3, EndBehind

LEMMA ChainsKept ==
    ASSUME Chains, UNCHANGED <<job, chain>>
    PROVE  Chains'
BY DEF Chains, ChainOf, Entry, Names, Inodes, maxino

LEMMA ReadingStep ==
    ASSUME ListInv, todo # << >>, Top.op \in Inner, Top.op \notin {"end", "panic"},
           NEW a, Reading(a), todo' \in {a \o Tail(todo), a \o todo},
           UNCHANGED <<job, c, chain, wanted>>,
           "getting" \in DOMAIN r', r'.getting => r.getting
    PROVE  ListInv'
<1>1. Progress'
  BY StillReading, Undisturbed DEF ListInv
<1>2. Jumps'
  BY ProgressIsSequence, JumpsKept DEF ListInv, Reading
<1>3. Chains'
  BY ChainsKept DEF ListInv
<1> QED BY <1>1, <1>2, <1>3 DEF ListInv, Fields

(* Fields of the tape that are assigned leave the others as they were. *)
LEMMA Assigned ==
    ASSUME "getting" \in DOMAIN r
    PROVE  /\ \A x, y : LET s == [r EXCEPT ![x] = y]
                        IN  "getting" \in DOMAIN s /\ (x # "getting" => s.getting = r.getting)
           /\ \A y : LET s == [r EXCEPT !.getting = y] IN "getting" \in DOMAIN s /\ s.getting = y
OBVIOUS

(* Sequences of a few operations, all of them reading. *)
LEMMA Reading0 ==
    Reading(<< >>)
<1>1. << >> \in Seq({}) /\ Len(<< >>) = 0
  OBVIOUS
<1>2. IsSequence(<< >>)
  BY <1>1, IsSeq
<1> QED BY <1>1, <1>2 DEF Reading

LEMMA Reading1 ==
    ASSUME NEW a,
           a.op \in Inner
    PROVE  Reading(<<a>>)
<1>1. <<a>> \in Seq({a}) /\ Len(<<a>>) = 1
  OBVIOUS
<1>2. IsSequence(<<a>>)
  BY <1>1, IsSeq
<1>3. \A i \in 1 .. 1 : <<a>>[i].op \in Inner
  OBVIOUS
<1> QED BY <1>1, <1>2, <1>3 DEF Reading

LEMMA Reading2 ==
    ASSUME NEW a, NEW b,
           a.op \in Inner, b.op \in Inner
    PROVE  Reading(<<a, b>>)
<1>1. <<a, b>> \in Seq({a, b}) /\ Len(<<a, b>>) = 2
  OBVIOUS
<1>2. IsSequence(<<a, b>>)
  BY <1>1, IsSeq
<1>3. \A i \in 1 .. 2 : <<a, b>>[i].op \in Inner
  OBVIOUS
<1> QED BY <1>1, <1>2, <1>3 DEF Reading

LEMMA Reading3 ==
    ASSUME NEW a, NEW b, NEW d,
           a.op \in Inner, b.op \in Inner, d.op \in Inner
    PROVE  Reading(<<a, b, d>>)
<1>1. <<a, b, d>> \in Seq({a, b, d}) /\ Len(<<a, b, d>>) = 3
  OBVIOUS
<1>2. IsSequence(<<a, b, d>>)
  BY <1>1, IsSeq
<1>3. \A i \in 1 .. 3 : <<a, b, d>>[i].op \in Inner
  OBVIOUS
<1> QED BY <1>1, <1>2, <1>3 DEF Reading

LEMMA Reading4 ==
    ASSUME NEW a, NEW b, NEW d, NEW e,
           a.op \in Inner, b.op \in Inner, d.op \in Inner, e.op \in Inner
    PROVE  Reading(<<a, b, d, e>>)
<1>1. <<a, b, d, e>> \in Seq({a, b, d, e}) /\ Len(<<a, b, d, e>>) = 4
  OBVIOUS
<1>2. IsSequence(<<a, b, d, e>>)
  BY <1>1, IsSeq
<1>3. \A i \in 1 .. 4 : <<a, b, d, e>>[i].op \in Inner
  OBVIOUS
<1> QED BY <1>1, <1>2, <1>3 DEF Reading

LEMMA Reading5 ==
    ASSUME NEW a, NEW b, NEW d, NEW e, NEW g,
           a.op \in Inner, b.op \in Inner, d.op \in Inner, e.op \in Inner, g.op \in Inner
    PROVE  Reading(<<a, b, d, e, g>>)
<1>1. <<a, b, d, e, g>> \in Seq({a, b, d, e, g}) /\ Len(<<a, b, d, e, g>>) = 5
  OBVIOUS
<1>2. IsSequence(<<a, b, d, e, g>>)
  BY <1>1, IsSeq
<1>3. \A i \in 1 .. 5 : <<a, b, d, e, g>>[i].op \in Inner
  OBVIOUS
<1> QED BY <1>1, <1>2, <1>3 DEF Reading

LEMMA OpsOf ==
    /\ \A x \in Inner : Op(x).op \in Inner
    /\ \A n, to : Read(n, to).op \in Inner
    /\ \A n, to : More(n, to).op \in Inner
    /\ \A to : File(to).op \in Inner
    /\ \A n : Getvol(n).op \in Inner
BY DEF Op, Read, More, File, Getvol, Inner

LEMMA setupKeeps ==
    ASSUME ListInv, setup
    PROVE  ListInv'
<1>1. todo # << >> /\ Top.op = "setup" /\ todo' = <<Op("find")>> \o Tail(todo)
  BY DEF setup, Doing, Top, Then
<1>2. Reading(<<Op("find")>>)
  BY Reading1, OpsOf DEF Inner
<1>3. "getting" \in DOMAIN r' /\ r'.getting = r.getting
  BY Zenon DEF setup, ListInv, Fields
<1> QED BY <1>1, <1>2, <1>3, ReadingStep DEF setup, Inner, user

LEMMA readtapeKeeps ==
    ASSUME ListInv, readtape
    PROVE  ListInv'
<1>1. todo # << >> /\ Top.op = "read"
  BY DEF readtape, Doing, Top
<1>2. \E a : Reading(a) /\ todo' = a \o Tail(todo)
  <2>1. CASE Top.n <= Left
    <3> QED BY <2>1, Reading0 DEF readtape, Then
  <2>2. CASE ~(Top.n <= Left)
    <3> DEFINE n == Min({Top.n, Left})
               a == <<Getvol(r.volno + 1), Read(Top.n - n, Top.to)>>
    <3>1. Reading(a)
      BY Reading2, OpsOf
    <3>2. todo' = a \o Tail(todo)
      BY <2>2 DEF readtape
    <3> QED BY <3>1, <3>2
  <2> QED BY <2>1, <2>2
<1>3. "getting" \in DOMAIN r' /\ r'.getting = r.getting
  BY Zenon DEF readtape, EndOfTape, ListInv, Fields
<1>4. UNCHANGED <<job, c, chain, wanted>>
  BY DEF readtape, user
<1> QED BY <1>1, <1>2, <1>3, <1>4, ReadingStep DEF Inner

(* Out of the file being read, if there is one. *)
LEMMA LeavingFile ==
    ASSUME ListInv, todo # << >>, Top.op \in Inner, Top.op # "panic",
           IF r.getting THEN DropToEnd ELSE Then(<< >>),
           UNCHANGED <<job, c, chain, wanted>>,
           "getting" \in DOMAIN r', r'.getting = FALSE
    PROVE  ListInv'
<1>1. Progress'
  <2>1. CASE ~r.getting
    <3>1. todo' = << >> \o Tail(todo)
      BY <2>1 DEF Then
    <3> QED BY <3>1, Reading0, StillReading, Undisturbed DEF ListInv
  <2>2. CASE r.getting
    <3> DEFINE S == {k \in DOMAIN todo : todo[k].op = "end"}
               k == Min(S)
    <3>1. IsSequence(todo) /\ DOMAIN todo = 1 .. Len(todo) /\ Len(todo) \in Nat
      BY ProgressIsSequence DEF ListInv, IsSequence
    <3>2. S # {} /\ S \subseteq Nat
      BY <2>2, <3>1 DEF ListInv, Jumps, Doing, Top
    <3>3. k \in S
      BY <3>2, MinIs
    <3>4. todo' = SubSeq(todo, k + 1, Len(todo))
      BY <2>2 DEF DropToEnd
    <3>5. k \in 1 .. Len(todo) /\ todo[k].op \in Inner
      BY <3>1, <3>3 DEF Inner
    <3> HIDE DEF k
    <3> QED BY <3>4, <3>5, OutOfFile, Undisturbed DEF ListInv
  <2> QED BY <2>1, <2>2
<1>2. Chains'
  BY ChainsKept DEF ListInv
<1> QED BY <1>1, <1>2 DEF ListInv, Fields, Jumps

LEMMA getheadKeeps ==
    ASSUME ListInv, gethead
    PROVE  ListInv'
<1>1. todo # << >> /\ Top.op = "head"
  BY DEF gethead, Doing, Top
<1> DEFINE a == <<Getvol(r.volno + 1)>>
<1>2. Reading(<< >>) /\ Reading(a)
  BY Reading0, Reading1, OpsOf
<1>3. todo' = a \o todo \/ todo' = << >> \o Tail(todo)
  BY Zenon DEF gethead, Then
<1>4. "getting" \in DOMAIN r' /\ r'.getting = r.getting
  BY Zenon DEF gethead, EndOfTape, ListInv, Fields
<1>5. UNCHANGED <<job, c, chain, wanted>>
  BY DEF gethead, user
<1> HIDE DEF a
<1> QED BY <1>1, <1>2, <1>3, <1>4, <1>5, ReadingStep DEF Inner

LEMMA findinodeKeeps ==
    ASSUME ListInv, findinode
    PROVE  ListInv'
<1>1. todo # << >> /\ Top.op = "find"
  BY DEF findinode, Doing, Top
<1> DEFINE a == <<Read(r.spcl.count, None), Op("head"), Op("find")>>
<1>2. Reading(<< >>) /\ Reading(a)
  BY Reading0, Reading3, OpsOf DEF Inner
<1>3. todo' = a \o Tail(todo) \/ todo' = << >> \o Tail(todo)
  BY Zenon DEF findinode, Then
<1>4. "getting" \in DOMAIN r' /\ r'.getting = r.getting
  BY Zenon DEF findinode, ListInv, Fields
<1>5. UNCHANGED <<job, c, chain, wanted>>
  BY DEF findinode, user
<1> HIDE DEF a
<1> QED BY <1>1, <1>2, <1>3, <1>4, <1>5, ReadingStep DEF Inner

LEMMA MoreOfFileKeeps ==
    ASSUME ListInv, MoreOfFile
    PROVE  ListInv'
<1>1. todo # << >> /\ Top.op = "more"
  BY DEF MoreOfFile, Doing, Top
<1> DEFINE a == <<Read(r.spcl.count, Top.to), Op("head"), More(Top.size - r.spcl.count, Top.to)>>
<1>2. Reading(<< >>) /\ Reading(a)
  BY Reading0, Reading3, OpsOf DEF Inner
<1>3. todo' = a \o Tail(todo) \/ todo' = << >> \o Tail(todo)
  BY Zenon DEF MoreOfFile, Then
<1>4. UNCHANGED <<job, c, chain, wanted, r>>
  BY DEF MoreOfFile, user
<1> HIDE DEF a
<1> QED BY <1>1, <1>2, <1>3, <1>4, ReadingStep DEF Inner, ListInv, Fields

(* A file is passed over first, or there is none to be passed over. *)
LEMMA PassOver ==
    ASSUME ListInv, todo # << >>, Top.op \in Inner, Top.op \notin {"end", "panic"},
           todo' \in {<<File(None)>> \o todo, << >> \o Tail(todo)},
           UNCHANGED <<job, c, chain, wanted>>,
           "getting" \in DOMAIN r', r'.getting = r.getting
    PROVE  ListInv'
<1>1. Reading(<< >>) /\ Reading(<<File(None)>>)
  BY Reading0, Reading1, OpsOf
<1> QED BY <1>1, ReadingStep

LEMMA skippingKeeps ==
    ASSUME ListInv, skipmaps \/ skipdirs \/ extractdirs
    PROVE  ListInv'
<1>1. todo # << >> /\ Top.op \in {"maps", "dirs", "extractdirs"}
  BY DEF skipmaps, skipdirs, extractdirs, Doing, Top
<1>2. todo' = <<File(None)>> \o todo \/ todo' = << >> \o Tail(todo)
  BY Zenon DEF skipmaps, skipdirs, extractdirs, Then
<1>3. "getting" \in DOMAIN r' /\ r'.getting = r.getting
  <2>1. CASE skipmaps
    BY <2>1, Zenon DEF skipmaps, skipfile, ListInv, Fields
  <2>2. CASE skipdirs
    BY <2>2, Zenon DEF skipdirs, skipfile, ListInv, Fields
  <2>3. CASE extractdirs
    BY <2>3, Zenon DEF extractdirs, ListInv, Fields
  <2> QED BY <2>1, <2>2, <2>3
<1>4. UNCHANGED <<job, c, chain, wanted>>
  BY DEF skipmaps, skipdirs, extractdirs, user
<1> QED BY <1>1, <1>2, <1>3, <1>4, PassOver DEF Inner

LEMMA EndOfFileKeeps ==
    ASSUME ListInv, EndOfFile
    PROVE  ListInv'
<1>1. todo # << >> /\ Top.op = "end" /\ todo' = << >> \o Tail(todo)
  BY DEF EndOfFile, Doing, Top, Then
<1>2. "getting" \in DOMAIN r' /\ r'.getting = FALSE
  BY Zenon DEF EndOfFile, ListInv, Fields
<1>3. UNCHANGED <<job, c, chain, wanted>>
  BY DEF EndOfFile, user
<1>4. Progress'
  BY <1>1, <1>3, Reading0, StillReading, Undisturbed DEF ListInv, Inner
<1>5. Chains'
  BY <1>3, ChainsKept DEF ListInv
<1> QED BY <1>2, <1>3, <1>4, <1>5 DEF ListInv, Fields, Jumps

LEMMA getfileKeeps ==
    ASSUME ListInv, getfile
    PROVE  ListInv'
<1>1. todo # << >> /\ Top.op = "file" /\ IsSequence(todo)
  BY ProgressIsSequence DEF getfile, Doing, Top, ListInv
<1> DEFINE a == <<Read(r.spcl.count, Top.to), Op("head"), More(r.spcl.left - r.spcl.count, Top.to),
                  Op("find"), Op("end")>>
           p == <<Op("panic")>>
<1>2. Reading(a) /\ Reading(p)
  BY Reading1, Reading5, OpsOf DEF Inner
<1>3. todo' = a \o Tail(todo) \/ todo' = p \o Tail(todo)
  BY Zenon DEF getfile, Then
<1>4. UNCHANGED <<job, c, chain, wanted>>
  BY DEF getfile, user
<1>5. "getting" \in DOMAIN r'
  BY Zenon DEF getfile, ListInv, Fields
<1>6. Progress'
  <2> HIDE DEF a, p
  <2> QED BY <1>1, <1>2, <1>3, <1>4, StillReading, Undisturbed DEF ListInv, Inner
<1>7. Jumps'
  <2>1. CASE todo' = p \o Tail(todo)
    <3>1. p[1].op = "panic" /\ Len(p) = 1
      BY DEF Op
    <3> HIDE DEF p
    <3>2. IsSequence(todo') /\ todo'[1] = p[1] /\ Len(todo') \in Nat \ {0}
      <4>1. IsSequence(p)
        BY <1>2 DEF Reading
      <4>2. /\ IsSequence(p \o Tail(todo)) /\ Len(todo) \in Nat
            /\ Len(p \o Tail(todo)) = Len(p) + Len(todo) - 1
            /\ \A i \in 1 .. Len(p) : (p \o Tail(todo))[i] = p[i]
        BY <1>1, <4>1, Exchanged
      <4>3. Len(todo) # 0
        BY <1>1, Behind
      <4> QED BY <2>1, <3>1, <4>2, <4>3
    <3>3. todo' # << >>
      BY <3>2
    <3>4. Head(todo') = todo'[1]
      BY <3>2, <3>3, Behind
    <3> QED BY <3>1, <3>2, <3>3, <3>4 DEF Jumps, Doing
  <2>2. CASE todo' = a \o Tail(todo)
    <3>1. a[5].op = "end" /\ Len(a) = 5
      BY DEF Op
    <3> HIDE DEF a
    <3>2. IsSequence(todo') /\ todo'[5] = a[5] /\ Len(todo') \in Nat /\ Len(todo') >= 5
      <4>1. IsSequence(a)
        BY <1>2 DEF Reading
      <4>2. /\ IsSequence(a \o Tail(todo)) /\ Len(todo) \in Nat
            /\ Len(a \o Tail(todo)) = Len(a) + Len(todo) - 1
            /\ \A i \in 1 .. Len(a) : (a \o Tail(todo))[i] = a[i]
        BY <1>1, <4>1, Exchanged
      <4>3. Len(todo) # 0
        BY <1>1, Behind
      <4> QED BY <2>2, <3>1, <4>2, <4>3
    <3>3. 5 \in DOMAIN todo'
      BY <3>2 DEF IsSequence
    <3> QED BY <3>1, <3>2, <3>3 DEF Jumps
  <2> QED BY <1>3, <2>1, <2>2
<1>8. Chains'
  BY <1>4, ChainsKept DEF ListInv
<1> QED BY <1>4, <1>5, <1>6, <1>7, <1>8 DEF ListInv, Fields

-----------------------------------------------------------------------------
(* The change of volumes. *)

LEMMA terminateinputKeeps ==
    ASSUME ListInv, todo # << >>, Top.op \in Inner, Top.op # "panic", terminateinput,
           UNCHANGED <<job, c, chain, wanted>>
    PROVE  ListInv'
<1>1. "getting" \in DOMAIN r' /\ r'.getting = FALSE
  BY Zenon DEF terminateinput, ListInv, Fields
<1>2. IF r.getting THEN DropToEnd ELSE Then(<< >>)
  BY DEF terminateinput
<1> QED BY <1>1, <1>2, LeavingFile

LEMMA getvolKeeps ==
    ASSUME ListInv, getvol
    PROVE  ListInv'
<1> DEFINE a == <<[op |-> "again", vol |-> Top.vol, saved |-> r.tpblksread]>>
<1>1. todo # << >> /\ Top.op = "getvol" /\ todo' = a \o Tail(todo)
  BY DEF getvol, Doing, Top, Then
<1>2. Reading(a)
  BY Reading1 DEF Inner
<1>3. "getting" \in DOMAIN r' /\ (r'.getting => r.getting)
  BY Zenon DEF getvol, ListInv, Fields
<1>4. UNCHANGED <<job, c, chain, wanted>>
  BY DEF getvol, user
<1> HIDE DEF a
<1> QED BY <1>1, <1>2, <1>3, <1>4, ReadingStep DEF Inner

LEMMA NextVolumeKeeps ==
    ASSUME ListInv, todo # << >>, Top.op = "again", NEW v, NEW w, NextVolume(v, w),
           UNCHANGED <<job, c, chain, wanted>>
    PROVE  ListInv'
<1> DEFINE a == <<[op |-> "open", vol |-> Top.vol, saved |-> Top.saved,
                   newvol |-> v, wantnext |-> w]>>
<1>1. Reading(<< >>) /\ Reading(a)
  BY Reading0, Reading1 DEF Inner
<1>2. todo' = a \o Tail(todo) \/ todo' = << >> \o Tail(todo)
  BY Zenon DEF NextVolume, Then
<1>3. "getting" \in DOMAIN r' /\ r'.getting = r.getting
  BY Zenon DEF NextVolume, ListInv, Fields
<1> HIDE DEF a
<1> QED BY <1>1, <1>2, <1>3, ReadingStep DEF Inner

LEMMA AgainKeeps ==
    ASSUME ListInv, Again
    PROVE  ListInv'
<1>1. todo # << >> /\ Top.op = "again" /\ UNCHANGED <<job, c, chain, wanted>>
  BY DEF Again, Doing, Top, user
<1>2. terminateinput \/ \E v, w : NextVolume(v, w)
  BY Zenon DEF Again
<1> QED BY <1>1, <1>2, terminateinputKeeps, NextVolumeKeeps DEF Inner

LEMMA OpenKeeps ==
    ASSUME ListInv, Open
    PROVE  ListInv'
<1>1. todo # << >> /\ Top.op = "open" /\ UNCHANGED <<job, c, chain, wanted>>
  BY DEF Open, Doing, Top, user
<1>2. CASE terminateinput
  BY <1>1, <1>2, terminateinputKeeps DEF Inner
<1>3. CASE Wrong
  <2> DEFINE a == <<[op |-> "again", vol |-> Top.vol, saved |-> Top.saved]>>
  <2>1. Reading(a)
    BY Reading1 DEF Inner
  <2>2. todo' = a \o Tail(todo)
    BY <1>3 DEF Wrong, Then
  <2>3. "getting" \in DOMAIN r' /\ r'.getting = r.getting
    BY <1>3, Zenon DEF Wrong, ListInv, Fields
  <2> HIDE DEF a
  <2> QED BY <1>1, <2>1, <2>2, <2>3, ReadingStep DEF Inner
<1>4. CASE RightVolume
  <2>1. PICK n, k : todo' = <<Read(n, None), [op |-> "volume", count |-> k]>> \o Tail(todo)
    BY <1>4, Zenon DEF RightVolume, Then
  <2> DEFINE a == <<Read(n, None), [op |-> "volume", count |-> k]>>
  <2>2. Reading(a)
    BY Reading2, OpsOf DEF Inner
  <2>3. "getting" \in DOMAIN r' /\ r'.getting = r.getting
    BY <1>4, Zenon DEF RightVolume, ListInv, Fields
  <2> HIDE DEF a
  <2> QED BY <1>1, <2>1, <2>2, <2>3, ReadingStep DEF Inner, a
<1> QED BY <1>2, <1>3, <1>4, Zenon DEF Open

LEMMA ContinueKeeps ==
    ASSUME ListInv, Continue
    PROVE  ListInv'
<1>1. todo # << >> /\ Top.op = "volume" /\ UNCHANGED <<job, c, chain, wanted, r>>
  BY DEF Continue, Doing, Top, user
<1> DEFINE a == <<Read(Top.count, None), Op("head"), Op("find"), Op("jump")>>
           p == <<Op("panic")>>
<1>2. Reading(<< >>) /\ Reading(a) /\ Reading(p)
  BY Reading0, Reading1, Reading4, OpsOf DEF Inner
<1>3. \/ todo' = a \o Tail(todo) \/ todo' = p \o Tail(todo) \/ todo' = << >> \o Tail(todo)
  BY Zenon DEF Continue, Then
<1> HIDE DEF a, p
<1> QED BY <1>1, <1>2, <1>3, ReadingStep DEF Inner, ListInv, Fields

LEMMA JumpKeeps ==
    ASSUME ListInv, Jump
    PROVE  ListInv'
<1>1. todo # << >> /\ Top.op = "jump" /\ UNCHANGED <<job, c, chain, wanted>>
  BY DEF Jump, Doing, Top, user
<1>2. "getting" \in DOMAIN r' /\ r'.getting = FALSE
  BY Zenon DEF Jump, ListInv, Fields
<1>3. IF r.getting THEN DropToEnd ELSE Then(<< >>)
  BY DEF Jump
<1> QED BY <1>1, <1>2, <1>3, LeavingFile DEF Inner

-----------------------------------------------------------------------------
(* createfiles: the requests that are left, and the operations that end a  *)
(* sequence. *)

LEMMA PlanIs ==
    ASSUME job \in Plans
    PROVE  /\ maxino \in Nat /\ Inodes \subseteq Nat /\ \A i \in Inodes : i <= maxino - 1
           /\ \A n \in Names : job.names[n] \in Inodes
<1>1. maxino \in Nat /\ \A n \in Names : job.names[n] \in Root .. (maxino - 1)
  BY PlansAssumption DEF maxino, Names
<1> QED BY <1>1 DEF Inodes, Root

LEMMA LowerIs ==
    ASSUME job \in Plans, NEW s \in Int
    PROVE  /\ lowerbnd(s) \in Nat /\ lowerbnd(s) <= maxino
           /\ \A i \in Inodes : HasNew(i) /\ s <= i => lowerbnd(s) <= i
<1> DEFINE S == {i \in s .. (maxino - 1) : HasNew(i)} \cup {maxino}
<1>1. maxino \in Nat /\ Inodes \subseteq Nat /\ \A i \in Inodes : i <= maxino - 1
  BY PlanIs
<1>2. S \subseteq Nat /\ maxino \in S
  BY <1>1 DEF HasNew
<1>3. Min(S) \in S /\ \A n \in S : Min(S) <= n
  BY <1>2, MinIs
<1>4. \A i \in Inodes : HasNew(i) /\ s <= i => i \in S
  BY <1>1
<1>5. lowerbnd(s) = Min(S)
  BY DEF lowerbnd
<1> QED BY <1>2, <1>3, <1>4, <1>5

LEMMA UpperIs ==
    ASSUME job \in Plans, NEW s \in Int
    PROVE  /\ upperbnd(s) \in Int
           /\ \A i \in Inodes : HasNew(i) /\ i <= s => i <= upperbnd(s)
<1> DEFINE S == {i \in Root .. s : HasNew(i)}
<1>1. maxino \in Nat /\ Inodes \subseteq Nat /\ \A i \in Inodes : Root <= i
  BY PlanIs DEF Inodes, Root
<1>2. upperbnd(s) = IF S = {} THEN Root ELSE Max(S)
  BY DEF upperbnd
<1>3. \A i \in Inodes : HasNew(i) /\ i <= s => i \in S
  BY <1>1 DEF Root
<1>4. CASE S = {}
  BY <1>2, <1>3, <1>4 DEF Root
<1>5. CASE S # {}
  <2>1. S \subseteq Nat /\ s \in Nat /\ \A n \in S : n <= s
    BY <1>1, <1>5 DEF HasNew, Root
  <2>2. Max(S) \in S /\ \A n \in S : n <= Max(S)
    <3> HIDE DEF S
    <3> QED BY <1>5, <2>1, MaxIs
  <2> HIDE DEF S
  <2>3. upperbnd(s) = Max(S)
    BY <1>2, <1>5
  <2>4. Max(S) \in Int
    <3>1. Max(S) \in Nat
      BY <2>1, <2>2, Zenon
    <3> QED BY <3>1
  <2> QED BY <1>3, <2>2, <2>3, <2>4
<1> QED BY <1>4, <1>5

LEMMA ChainIs ==
    ASSUME Chains, NEW i \in Inodes
    PROVE  /\ chain[i] \in Seq(Entry) /\ Len(chain[i]) \in Nat /\ DOMAIN chain[i] = 1 .. Len(chain[i])
           /\ \A k \in 1 .. Len(chain[i]) : /\ chain[i][k] \in Entry
                                            /\ job.names[chain[i][k].name] = i
           /\ \A k, l \in 1 .. Len(chain[i]) : chain[i][k].name = chain[i][l].name => k = l
BY DEF Chains, ChainOf

LEMMA UnmarkedEntry ==
    ASSUME NEW x \in Entry
    PROVE  LET e == [x EXCEPT !.new = FALSE] IN e \in Entry /\ e.name = x.name /\ ~e.new
BY DEF Entry

(* Requests that are taken off the list are off it, and no others come. *)
LEMMA UnmarkedIs ==
    ASSUME Chains, NEW S, chain' = Unmarked(S), job' = job
    PROVE  Chains' /\ \A i \in Inodes : HasNew(i)' => HasNew(i) /\ i \notin S
<1>1. Inodes' = Inodes /\ Names' = Names /\ Entry' = Entry
  BY DEF Inodes, Names, Entry, maxino
<1>2. /\ chain' = [i \in Inodes |-> chain'[i]]
      /\ \A i \in Inodes : chain'[i] = IF i \in S THEN [chain[i] EXCEPT ![1].new = FALSE] ELSE chain[i]
  BY DEF Unmarked
<1>3. ASSUME NEW i \in Inodes
      PROVE  /\ chain'[i] \in Seq(Entry) /\ Len(chain'[i]) = Len(chain[i])
             /\ \A k \in 1 .. Len(chain[i]) : chain'[i][k].name = chain[i][k].name
             /\ i \in S /\ chain'[i] # << >> => ~chain'[i][1].new
  <2> DEFINE ch == chain[i]
             e  == [ch[1] EXCEPT !.new = FALSE]
             new == [ch EXCEPT ![1] = e]
  <2>1. ch \in Seq(Entry) /\ Len(ch) \in Nat /\ \A k \in 1 .. Len(ch) : ch[k] \in Entry
    BY ChainIs
  <2>2. CASE i \notin S
    BY <1>2, <2>1, <2>2
  <2>3. CASE i \in S
    <3>1. chain'[i] = new
      BY <1>2, <2>3
    <3>2. CASE Len(ch) = 0
      <4>1. new = ch
        BY <2>1, <3>2
      <4>2. ch = << >>
        BY <2>1, <3>2
      <4> HIDE DEF new
      <4> QED BY <2>1, <3>1, <4>1, <4>2 DEF ch
    <3>3. CASE Len(ch) # 0
      <4> HIDE DEF ch
      <4>1. e \in Entry /\ e.name = ch[1].name /\ ~e.new
        <5>1. ch[1] \in Entry
          BY <2>1, <3>3
        <5> QED BY <5>1, UnmarkedEntry
      <4> HIDE DEF e
      <4>2. new \in Seq(Entry) /\ Len(new) = Len(ch) /\ new[1] = e
        BY <2>1, <3>3, <4>1
      <4>3. \A k \in 1 .. Len(ch) : k # 1 => new[k] = ch[k]
        BY <2>1
      <4> HIDE DEF new
      <4> QED BY <3>1, <4>1, <4>2, <4>3 DEF ch
    <3> QED BY <3>2, <3>3
  <2> QED BY <2>2, <2>3
<1>4. Chains'
  <2>1. ASSUME NEW i \in Inodes
        PROVE  /\ chain'[i] \in Seq(Entry)
               /\ \A k \in 1 .. Len(chain'[i]) : job.names[chain'[i][k].name] = i
               /\ \A k, l \in 1 .. Len(chain'[i]) : chain'[i][k].name = chain'[i][l].name => k = l
    BY <1>3, ChainIs
  <2> QED BY <1>1, <1>2, <2>1 DEF Chains, ChainOf
<1>5. ASSUME NEW i \in Inodes, HasNew(i)' PROVE HasNew(i) /\ i \notin S
  <2>1. chain'[i] # << >> /\ chain'[i][1].new
    BY <1>5 DEF HasNew
  <2>2. i \notin S
    BY <1>3, <2>1
  <2>3. chain'[i] = chain[i]
    BY <1>2, <2>2
  <2> QED BY <2>1, <2>2, <2>3 DEF HasNew
<1> QED BY <1>4, <1>5

(* Sequences that end with one operation of createfiles, or two. *)
LEMMA EndsWith ==
    ASSUME NEW a, Reading(a), NEW x, NEW e, e.op = x
    PROVE  Framed(a \o <<e>>, <<x>>) /\ Len(<<x>>) = 1
<1>1. <<e>> \in Seq({e}) /\ Len(<<e>>) = 1 /\ <<e>>[1] = e /\ Len(<<x>>) = 1 /\ <<x>>[1] = x
  OBVIOUS
<1>2. IsSequence(<<e>>)
  BY <1>1, IsSeq
<1> DEFINE t == a \o <<e>>
<1>3. /\ IsSequence(t) /\ Len(a) \in Nat /\ Len(t) = Len(a) + 1
      /\ \A i \in 1 .. Len(a) : t[i] = a[i]
      /\ t[Len(a) + 1] = e
  BY <1>1, <1>2, Before DEF Reading
<1> HIDE DEF t
<1>4. Framed(t, <<x>>)
  BY <1>1, <1>3 DEF Framed, Reading
<1> QED BY <1>1, <1>4 DEF t

LEMMA Pair ==
    ASSUME NEW x, NEW y
    PROVE  <<x>> \o <<y>> = <<x, y>>
<1>1. <<x>> \in Seq({x, y}) /\ <<y>> \in Seq({x, y})
  OBVIOUS
<1> DEFINE t == <<x>> \o <<y>>
<1>2. t \in Seq({x, y}) /\ Len(t) = 2 /\ t[1] = x /\ t[2] = y
  BY <1>1
<1> HIDE DEF t
<1>3. t = <<x, y>>
  BY <1>2
<1> QED BY <1>3 DEF t

LEMMA EndsWithTwo ==
    ASSUME NEW x, NEW e, e.op = x, NEW y, NEW g, g.op = y
    PROVE  Framed(<<e, g>>, <<x, y>>)
<1>1. <<e, g>> \in Seq({e, g}) /\ Len(<<e, g>>) = 2 /\ Len(<<x, y>>) = 2
  OBVIOUS
<1>2. IsSequence(<<e, g>>)
  BY <1>1, IsSeq
<1>3. \A i \in 1 .. 2 : <<e, g>>[i].op = <<x, y>>[i]
  OBVIOUS
<1> QED BY <1>1, <1>2, <1>3 DEF Framed

(* From one operation of createfiles to the next. *)
LEMMA NextStage ==
    ASSUME todo # << >>, NEW x \in Stages, Top.op = x, Framed(todo, Creating(x)),
           NEW a, NEW y, Framed(a, <<y>>)
    PROVE  Framed(a \o Tail(todo), Creating(y))
<1>1. x \notin Inner /\ Frame(Creating(x))
  BY Frames DEF Stages, Inner
<1>2. Len(<<y>>) = 1 /\ Len(Creating(x)) = 4 /\ Len(Creating(y)) = 4
  BY DEF Creating
<1>3. /\ \A i \in 1 .. 1 : Creating(y)[i] = <<y>>[i]
      /\ \A i \in 1 .. 3 : Creating(y)[1 + i] = Creating(x)[i + 1]
  BY DEF Creating
<1> DEFINE b == Creating(x)
           e == <<y>>
           f == Creating(y)
<1>4. /\ Frame(b) /\ Framed(todo, b) /\ Head(todo).op \notin Inner /\ Framed(a, e)
      /\ Len(e) \in Nat /\ Len(f) = Len(e) + Len(b) - 1
  BY <1>1, <1>2 DEF Top
<1>5. /\ \A i \in 1 .. Len(e) : f[i] = e[i]
      /\ \A i \in 1 .. Len(b) - 1 : f[Len(e) + i] = b[i + 1]
  <2> HIDE DEF b, e, f
  <2> QED BY <1>2, <1>3 DEF b, e, f
<1> HIDE DEF b, e, f
<1>6. Framed(a \o Tail(todo), f)
  <2>1. Gives(f, e, b)
    BY <1>4, <1>5 DEF Gives
  <2> QED BY <1>4, <2>1, Onward
<1> QED BY <1>6 DEF f

LEMMA BoundsKept ==
    ASSUME InBounds, job' = job, c'.first = c.first, c'.last = c.last,
           \A i \in Inodes : HasNew(i)' => HasNew(i)
    PROVE  InBounds'
<1>1. Inodes' = Inodes
  BY DEF Inodes, maxino
<1> QED BY <1>1 DEF InBounds

(* A step of createfiles within it. *)
LEMMA StageStep ==
    ASSUME ListInv, todo # << >>, NEW x \in Stages, Top.op = x, NEW y \in Stages,
           NEW a, Framed(a, <<y>>), todo' = a \o Tail(todo), UNCHANGED <<job, wanted>>,
           Chains', InBounds',
           "getting" \in DOMAIN r', r'.getting = r.getting, {"first", "last"} \subseteq DOMAIN c'
    PROVE  ListInv'
<1>1. x \notin Inner /\ x \notin {"end", "panic"}
  BY DEF Stages, Inner
<1>2. Framed(todo, Creating(x)) /\ wanted = {}
  BY <1>1, Whereabouts DEF ListInv
<1>3. Framed(todo', Creating(y))
  BY <1>2, NextStage
<1>4. Progress'
  BY <1>2, <1>3, Zenon DEF Progress, ProgressWith
<1>5. Jumps'
  BY <1>1, <1>2, JumpsKept DEF ListInv, Framed
<1> QED BY <1>4, <1>5 DEF ListInv, Fields

LEMMA CreateSets ==
    ASSUME {"first", "last"} \subseteq DOMAIN c
    PROVE  \A x, y, n : /\ {"first", "last"} \subseteq DOMAIN [c EXCEPT !.first = x, !.last = y]
                        /\ [c EXCEPT !.first = x, !.last = y].first = x
                        /\ [c EXCEPT !.first = x, !.last = y].last = y
                        /\ {"first", "last"} \subseteq DOMAIN [c EXCEPT !.next = n]
                        /\ [c EXCEPT !.next = n].first = c.first
                        /\ [c EXCEPT !.next = n].last = c.last
                        /\ {"first", "last"} \subseteq DOMAIN [c EXCEPT !.curvol = n]
                        /\ [c EXCEPT !.curvol = n].first = c.first
                        /\ [c EXCEPT !.curvol = n].last = c.last
OBVIOUS

LEMMA createfilesKeeps ==
    ASSUME ListInv, createfiles
    PROVE  ListInv'
<1>1. todo # << >> /\ Top.op = "create" /\ UNCHANGED <<job, chain, wanted>>
  BY DEF createfiles, Doing, Top, user
<1>2. c' = [c EXCEPT !.first = Root, !.last = maxino - 1]
  BY DEF createfiles
<1>3. c'.first = Root /\ c'.last = maxino - 1 /\ {"first", "last"} \subseteq DOMAIN c'
  BY <1>2, CreateSets DEF ListInv, Fields
<1>4. Chains' /\ Inodes' = Inodes /\ maxino \in Nat
  BY <1>1, ChainsKept, PlanIs DEF ListInv, Inodes, maxino
<1>5. InBounds'
  <2>1. Root \in Int /\ \A i \in Inodes : Root <= i /\ i <= maxino - 1
    BY <1>4 DEF Inodes, Root
  <2> QED BY <1>3, <1>4, <2>1 DEF InBounds
<1>6. "getting" \in DOMAIN r' /\ r'.getting = r.getting
  BY Zenon DEF createfiles, ListInv, Fields
<1>7. \E a : Framed(a, <<"bounds">>) /\ todo' = a \o Tail(todo)
  <2> DEFINE g == IF r.volinfo # << >> THEN << >> ELSE <<Getvol(1)>>
             b == <<Op("maps"), Op("dirs"), Op("bounds")>>
  <2>1. Reading(g)
    BY Reading0, Reading1, OpsOf
  <2>2. Framed(b, <<"bounds">>)
    <3>1. b \in Seq({Op("maps"), Op("dirs"), Op("bounds")}) /\ Len(b) = 3
      OBVIOUS
    <3>2. IsSequence(b)
      BY <3>1, IsSeq
    <3> QED BY <3>1, <3>2 DEF Framed, Op, Inner
  <2>3. Frame(<<"bounds">>)
    BY DEF Frame, Inner
  <2>4. todo' = (g \o b) \o Tail(todo)
    BY DEF createfiles, Then
  <2> HIDE DEF g, b
  <2> QED BY <2>1, <2>2, <2>3, <2>4, Prefixed
<1> QED BY <1>1, <1>3, <1>4, <1>5, <1>6, <1>7, StageStep DEF Stages

(* The step that ends createfiles. *)
LEMMA LastStage ==
    ASSUME ListInv, todo # << >>, NEW x \in Stages, Top.op = x,
           todo' = << >> \o Tail(todo), UNCHANGED <<job, wanted>>,
           Chains', \A i \in Inodes : ~HasNew(i)',
           "getting" \in DOMAIN r', r'.getting = r.getting, {"first", "last"} \subseteq DOMAIN c'
    PROVE  ListInv'
<1>1. x \notin Inner /\ x \notin {"end", "panic"} /\ Frame(Creating(x))
  BY Frames DEF Stages, Inner
<1>2. Framed(todo, Creating(x)) /\ wanted = {}
  BY <1>1, Whereabouts DEF ListInv
<1> DEFINE b == Creating(x)
           e == << >>
           f == AtLinks
<1>3. IsSequence(e) /\ Len(e) = 0
  BY Reading0 DEF Reading
<1>4. Framed(e, e)
  BY <1>3 DEF Framed
<1>5. Len(f) = Len(e) + Len(b) - 1 /\ \A i \in 1 .. Len(b) - 1 : f[Len(e) + i] = b[i + 1]
  <2>1. Len(b) = 4 /\ Len(f) = 3 /\ \A i \in 1 .. 3 : f[i] = b[i + 1]
    BY DEF AtLinks, Creating
  <2> HIDE DEF b, e, f
  <2> QED BY <1>3, <2>1
<1>6. Framed(todo', AtLinks)
  <2>1. \A i \in 1 .. Len(e) : f[i] = e[i]
    BY <1>3
  <2>2. Frame(b) /\ Framed(todo, b) /\ Head(todo).op \notin Inner
    BY <1>1, <1>2 DEF Top
  <2>3. Len(e) \in Nat /\ Framed(e, e)
    BY <1>3, <1>4
  <2> HIDE DEF b, e, f
  <2>4. Framed(e \o Tail(todo), f)
    <3>1. Gives(f, e, b)
      BY <1>5, <2>1 DEF Gives
    <3> QED BY <2>2, <2>3, <3>1, Onward
  <2> QED BY <2>4 DEF e, f
<1>7. Inodes' = Inodes
  BY DEF Inodes, maxino
<1>8. Progress'
  BY <1>2, <1>6, <1>7 DEF Progress, ProgressWith
<1>9. Jumps'
  BY <1>1, <1>2, <1>3, JumpsKept DEF ListInv, Framed
<1> QED BY <1>8, <1>9 DEF ListInv, Fields

(* In createfiles the requests are within its bounds. *)
LEMMA InStage ==
    ASSUME ListInv, todo # << >>, NEW x \in Stages, Top.op = x
    PROVE  Framed(todo, Creating(x)) /\ wanted = {} /\ (x = "create" \/ InBounds)
BY Whereabouts DEF ListInv, Stages, Inner

LEMMA BoundsKeeps ==
    ASSUME ListInv, Bounds
    PROVE  ListInv'
<1>1. todo # << >> /\ Top.op = "bounds" /\ UNCHANGED <<job, r, chain, wanted>>
  BY DEF Bounds, Doing, Top, user
<1>2. InBounds
  BY <1>1, InStage DEF Stages
<1> DEFINE first == lowerbnd(c.first)
           last  == upperbnd(c.last)
<1>3. c' = [c EXCEPT !.first = first, !.last = last]
  BY DEF Bounds
<1>4. c'.first = first /\ c'.last = last /\ {"first", "last"} \subseteq DOMAIN c'
  <2> HIDE DEF first, last
  <2> QED BY <1>3, CreateSets DEF ListInv, Fields
<1>5. /\ first \in Int /\ last \in Int
      /\ \A i \in Inodes : HasNew(i) => first <= i /\ i <= last
  BY <1>2, LowerIs, UpperIs DEF ListInv, InBounds
<1>6. Chains' /\ Inodes' = Inodes /\ \A i : HasNew(i)' = HasNew(i)
  BY <1>1, ChainsKept DEF ListInv, Inodes, maxino, HasNew
<1>7. InBounds'
  <2> HIDE DEF first, last
  <2> QED BY <1>4, <1>5, <1>6 DEF InBounds
<1>8. CASE c'.first > c'.last
  <2>1. todo' = << >> \o Tail(todo)
    BY <1>8 DEF Bounds, Then
  <2>2. \A i \in Inodes : ~HasNew(i)'
    <3> HIDE DEF first, last
    <3>1. ASSUME NEW i \in Inodes, HasNew(i) PROVE FALSE
      <4>1. i \in Int
        BY PlanIs DEF ListInv
      <4> QED BY <1>4, <1>5, <1>8, <3>1, <4>1
    <3> QED BY <1>6, <3>1
  <2> QED BY <1>1, <1>4, <1>6, <2>1, <2>2, LastStage DEF Stages, ListInv, Fields
<1>9. CASE ~(c'.first > c'.last)
  <2> DEFINE a == << >> \o <<Op("reject")>>
  <2>1. todo' = a \o Tail(todo)
    BY <1>9 DEF Bounds, Then
  <2>2. Framed(a, <<"reject">>)
    BY Reading0, EndsWith DEF Op
  <2> HIDE DEF a
  <2> QED BY <1>1, <1>4, <1>6, <1>7, <2>1, <2>2, StageStep DEF Stages, ListInv, Fields
<1> QED BY <1>8, <1>9

LEMMA RejectKeeps ==
    ASSUME ListInv, Reject
    PROVE  ListInv'
<1>1. todo # << >> /\ Top.op = "reject" /\ UNCHANGED <<job, c, chain, wanted>>
  BY DEF Reject, Doing, Top, user
<1>2. InBounds
  BY <1>1, InStage DEF Stages
<1>3. Chains' /\ InBounds'
  BY <1>1, <1>2, ChainsKept, BoundsKept DEF ListInv, HasNew, Inodes, maxino
<1>4. "getting" \in DOMAIN r' /\ r'.getting = r.getting
  BY Zenon DEF Reject, ListInv, Fields
<1>5. CASE r.ino > c.last
  <2> DEFINE a == <<Getvol(0)>> \o <<Op("rejected")>>
  <2>1. todo' = a \o Tail(todo)
    BY <1>5 DEF Reject, Then
  <2>2. Framed(a, <<"rejected">>)
    BY Reading1, OpsOf, EndsWith DEF Op
  <2> HIDE DEF a
  <2> QED BY <1>1, <1>3, <1>4, <2>1, <2>2, StageStep DEF Stages, ListInv, Fields
<1>6. CASE ~(r.ino > c.last)
  <2> DEFINE a == << >> \o <<Op("choose")>>
  <2>1. todo' = a \o Tail(todo)
    BY <1>6 DEF Reject, Then
  <2>2. Framed(a, <<"choose">>)
    BY Reading0, EndsWith DEF Op
  <2> HIDE DEF a
  <2> QED BY <1>1, <1>3, <1>4, <2>1, <2>2, StageStep DEF Stages, ListInv, Fields
<1> QED BY <1>5, <1>6

(* Maps and directories are passed over before the operation x. *)
LEMMA MapsAndDirs ==
    ASSUME NEW x
    PROVE  Framed(<<Op("maps"), Op("dirs"), Op(x)>>, <<x>>)
<1> DEFINE b == <<Op("maps"), Op("dirs"), Op(x)>>
<1>1. b \in Seq({Op("maps"), Op("dirs"), Op(x)}) /\ Len(b) = 3 /\ Len(<<x>>) = 1
  OBVIOUS
<1>2. IsSequence(b)
  BY <1>1, IsSeq
<1> QED BY <1>1, <1>2 DEF Framed, Op, Inner

LEMMA RejectedKeeps ==
    ASSUME ListInv, Rejected
    PROVE  ListInv'
<1>1. todo # << >> /\ Top.op = "rejected" /\ UNCHANGED <<job, r, c, wanted>>
  BY DEF Rejected, Doing, Top, user
<1>2. InBounds
  BY <1>1, InStage DEF Stages
<1>3. CASE r.ino = maxino
  <2> DEFINE S == {i \in c.first .. (maxino - 1) : HasNew(i)}
  <2>1. chain' = Unmarked(S) /\ todo' = << >> \o Tail(todo)
    BY <1>3 DEF Rejected, NotFound, Then
  <2> HIDE DEF S
  <2>2. Chains' /\ \A i \in Inodes : HasNew(i)' => HasNew(i) /\ i \notin S
    BY <1>1, <2>1, UnmarkedIs DEF ListInv
  <2>3. ASSUME NEW i \in Inodes, HasNew(i) PROVE i \in S
    BY <1>2, <2>3, PlanIs DEF ListInv, InBounds, S
  <2>4. \A i \in Inodes : ~HasNew(i)'
    BY <2>2, <2>3
  <2> QED BY <1>1, <2>1, <2>2, <2>4, LastStage DEF Stages, ListInv, Fields
<1>4. CASE r.ino # maxino
  <2> DEFINE a == <<Op("maps"), Op("dirs"), Op("reject")>>
  <2>1. chain' = chain /\ todo' = a \o Tail(todo)
    BY <1>4 DEF Rejected, Then
  <2>2. Chains' /\ InBounds'
    BY <1>1, <1>2, <2>1, ChainsKept, BoundsKept DEF ListInv, HasNew, Inodes, maxino
  <2>3. Framed(a, <<"reject">>)
    BY MapsAndDirs
  <2> HIDE DEF a
  <2> QED BY <1>1, <2>1, <2>2, <2>3, StageStep DEF Stages, ListInv, Fields
<1> QED BY <1>3, <1>4

LEMMA ChooseKeeps ==
    ASSUME ListInv, Choose
    PROVE  ListInv'
<1>1. todo # << >> /\ Top.op = "choose" /\ UNCHANGED <<job, r, chain, wanted>>
  BY DEF Choose, Doing, Top, user
<1>2. InBounds
  BY <1>1, InStage DEF Stages
<1>3. \E n : c' = [c EXCEPT !.next = n]
  BY Zenon DEF Choose
<1>4. c'.first = c.first /\ c'.last = c.last /\ {"first", "last"} \subseteq DOMAIN c'
  BY <1>3, CreateSets DEF ListInv, Fields
<1>5. Chains' /\ InBounds'
  BY <1>1, <1>2, <1>4, ChainsKept, BoundsKept DEF ListInv, HasNew, Inodes, maxino
<1>6. \E g : Reading(g) /\ todo' = (g \o <<Op("search")>>) \o Tail(todo)
  <2> DEFINE next == lowerbnd(r.ino)
             g == IF r.volinfo # << >> /\ goodvol(next) # r.volno THEN <<Getvol(goodvol(next))>>
                  ELSE << >>
  <2>1. Reading(g)
    BY Reading0, Reading1, OpsOf
  <2>2. todo' = (g \o <<Op("search")>>) \o Tail(todo)
    BY DEF Choose, Then
  <2> HIDE DEF g
  <2> QED BY <2>1, <2>2
<1>7. PICK a : Framed(a, <<"search">>) /\ todo' = a \o Tail(todo)
  BY <1>6, EndsWith DEF Op
<1> QED BY <1>1, <1>4, <1>5, <1>7, StageStep DEF Stages, ListInv, Fields

LEMMA SearchKeeps ==
    ASSUME ListInv, Search
    PROVE  ListInv'
<1>1. todo # << >> /\ Top.op = "search" /\ UNCHANGED <<job, r, chain, wanted>>
  BY DEF Search, Doing, Top, user
<1>2. InBounds
  BY <1>1, InStage DEF Stages
<1>3. c'.first = c.first /\ c'.last = c.last /\ {"first", "last"} \subseteq DOMAIN c'
  BY CreateSets DEF Search, ListInv, Fields
<1>4. Chains' /\ InBounds'
  BY <1>1, <1>2, <1>3, ChainsKept, BoundsKept DEF ListInv, HasNew, Inodes, maxino
<1> DEFINE a == << >> \o <<Op("skip")>>
<1>5. todo' = a \o Tail(todo)
  BY DEF Search, Then
<1>6. Framed(a, <<"skip">>)
  BY Reading0, EndsWith DEF Op
<1> HIDE DEF a
<1> QED BY <1>1, <1>3, <1>4, <1>5, <1>6, StageStep DEF Stages, ListInv, Fields

LEMMA SkipKeeps ==
    ASSUME ListInv, Skip
    PROVE  ListInv'
<1>1. todo # << >> /\ Top.op = "skip" /\ UNCHANGED <<job, c, chain, wanted>>
  BY DEF Skip, Doing, Top, user
<1>2. InBounds /\ Framed(todo, Creating("skip")) /\ wanted = {}
  BY <1>1, InStage DEF Stages
<1>3. Chains' /\ InBounds'
  BY <1>1, <1>2, ChainsKept, BoundsKept DEF ListInv, HasNew, Inodes, maxino
<1>4. "getting" \in DOMAIN r' /\ r'.getting = r.getting
  BY Zenon DEF Skip, skipfile, ListInv, Fields
<1>5. CASE c.next > r.ino /\ r.volno = c.curvol
  <2>1. todo' = <<File(None)>> \o todo
    BY <1>5 DEF Skip
  <2>2. Reading(<<File(None)>>)
    BY Reading1, OpsOf
  <2>3. Framed(todo', Creating("skip"))
    BY <1>2, <2>1, <2>2, Prefixed, Frames DEF Stages
  <2>4. Progress'
    BY <1>1, <1>2, <1>3, <2>3 DEF Progress, ProgressWith, Stages
  <2>5. Jumps'
    BY <1>1, <1>2, <1>4, <2>1, <2>2, JumpsKept DEF ListInv, Framed, Reading
  <2> QED BY <1>1, <1>3, <1>4, <2>4, <2>5 DEF ListInv, Fields
<1>6. CASE ~(c.next > r.ino /\ r.volno = c.curvol)
  <2> DEFINE a == <<Op("maps"), Op("dirs"), Op("skipped")>>
  <2>1. todo' = a \o Tail(todo)
    BY <1>6 DEF Skip, Then
  <2>2. Framed(a, <<"skipped">>)
    BY MapsAndDirs
  <2> HIDE DEF a
  <2> QED BY <1>1, <1>3, <1>4, <2>1, <2>2, StageStep DEF Stages, ListInv, Fields
<1> QED BY <1>5, <1>6

(* From an operation of createfiles to a file that is on the volume. *)
LEMMA ToFile ==
    ASSUME todo # << >>, NEW x \in Stages, Top.op = x, Framed(todo, Creating(x)),
           NEW a, Framed(a, <<"extract", "bounds">>)
    PROVE  Framed(a \o Tail(todo), AtFile("extract"))
<1> DEFINE b == Creating(x)
           e == <<"extract", "bounds">>
           f == AtFile("extract")
<1>1. x \notin Inner /\ Frame(b)
  BY Frames DEF Stages, Inner
<1>2. Len(e) = 2 /\ Len(b) = 4 /\ Len(f) = 5
  BY DEF Creating, AtFile
<1>3. /\ \A i \in 1 .. 2 : f[i] = e[i]
      /\ \A i \in 1 .. 3 : f[2 + i] = b[i + 1]
  BY DEF Creating, AtFile
<1>4. /\ Frame(b) /\ Framed(todo, b) /\ Head(todo).op \notin Inner /\ Framed(a, e)
      /\ Len(e) \in Nat /\ Len(f) = Len(e) + Len(b) - 1
  BY <1>1, <1>2 DEF Top
<1>5. /\ \A i \in 1 .. Len(e) : f[i] = e[i]
      /\ \A i \in 1 .. Len(b) - 1 : f[Len(e) + i] = b[i + 1]
  <2> HIDE DEF b, e, f
  <2> QED BY <1>2, <1>3
<1> HIDE DEF b, e, f
<1>6. Framed(a \o Tail(todo), f)
  <2>1. Gives(f, e, b)
    BY <1>4, <1>5 DEF Gives
  <2> QED BY <1>4, <2>1, Onward
<1> QED BY <1>6 DEF f

LEMMA SkippedKeeps ==
    ASSUME ListInv, Skipped
    PROVE  ListInv'
<1>1. todo # << >> /\ Top.op = "skipped" /\ UNCHANGED <<job, r, wanted>>
  BY DEF Skipped, Doing, Top, user
<1>2. InBounds /\ Framed(todo, Creating("skipped")) /\ wanted = {}
  BY <1>1, InStage DEF Stages
<1>3. CASE r.volno # c.curvol
  <2>1. UNCHANGED <<chain, c>>
    BY <1>3 DEF Skipped
  <2>2. Chains' /\ InBounds'
    BY <1>1, <1>2, <2>1, ChainsKept, BoundsKept DEF ListInv, HasNew, Inodes, maxino
  <2>3. PICK y \in {"search", "bounds"} : todo' = (<< >> \o <<Op(y)>>) \o Tail(todo)
    BY <1>3 DEF Skipped, Then
  <2> DEFINE a == << >> \o <<Op(y)>>
  <2>4. Framed(a, <<y>>)
    BY Reading0, EndsWith DEF Op
  <2> HIDE DEF a
  <2> QED BY <1>1, <2>1, <2>2, <2>3, <2>4, StageStep DEF Stages, ListInv, Fields, a
<1>4. CASE r.volno = c.curvol
  <2> DEFINE S == c.next .. (r.ino - 1)
             M == {i \in S : HasNew(i)}
             next == IF c.next < r.ino THEN lowerbnd(r.ino) ELSE c.next
  <2>1. chain' = Unmarked(M) /\ c' = [c EXCEPT !.next = next]
    BY <1>4 DEF Skipped, NotFound
  <2>2. todo' = <<Op("extract")>> \o <<Op("bounds")>> \o Tail(todo)
        \/ todo' = << >> \o <<Op("bounds")>> \o Tail(todo)
    BY <1>4, Zenon DEF Skipped, Then
  <2> HIDE DEF M, next
  <2>3. Chains' /\ \A i \in Inodes : HasNew(i)' => HasNew(i)
    BY <1>1, <2>1, UnmarkedIs DEF ListInv
  <2>4. c'.first = c.first /\ c'.last = c.last /\ {"first", "last"} \subseteq DOMAIN c'
    BY <2>1, CreateSets DEF ListInv, Fields
  <2>5. InBounds'
    BY <1>1, <1>2, <2>3, <2>4, BoundsKept
  <2>6. CASE todo' = << >> \o <<Op("bounds")>> \o Tail(todo)
    <3> DEFINE a == << >> \o <<Op("bounds")>>
    <3>1. Framed(a, <<"bounds">>)
      BY Reading0, EndsWith DEF Op
    <3>2. todo' = a \o Tail(todo)
      BY <2>6
    <3> HIDE DEF a
    <3> QED BY <1>1, <2>3, <2>4, <2>5, <3>1, <3>2, StageStep DEF Stages, ListInv, Fields
  <2>7. CASE todo' = <<Op("extract")>> \o <<Op("bounds")>> \o Tail(todo)
    <3> DEFINE a == <<Op("extract")>> \o <<Op("bounds")>>
    <3>1. Framed(a, <<"extract", "bounds">>)
      <4>1. a = <<Op("extract"), Op("bounds")>>
        BY Pair
      <4> HIDE DEF a
      <4> QED BY <4>1, EndsWithTwo DEF Op
    <3>2. todo' = a \o Tail(todo)
      BY <2>7
    <3> HIDE DEF a
    <3>3. Framed(todo', AtFile("extract"))
      BY <1>1, <1>2, <3>1, <3>2, ToFile DEF Stages
    <3>4. Progress'
      BY <1>1, <1>2, <2>5, <3>3 DEF Progress, ProgressWith
    <3>5. Jumps'
      BY <1>1, <1>2, <3>1, <3>2, JumpsKept DEF ListInv, Framed
    <3> QED BY <1>1, <2>3, <2>4, <3>4, <3>5 DEF ListInv, Fields
  <2> QED BY <2>2, <2>6, <2>7
<1> QED BY <1>3, <1>4

LEMMA ExtractKeeps ==
    ASSUME ListInv, Extract
    PROVE  ListInv'
<1>1. todo # << >> /\ Top.op = "extract" /\ UNCHANGED <<job, c, chain, wanted>>
  BY DEF Extract, Doing, Top, user
<1>2. InBounds /\ Framed(todo, AtFile("extract")) /\ wanted = {} /\ "extract" \notin Inner
  BY <1>1, Whereabouts DEF ListInv, Inner
<1>3. Chains' /\ InBounds'
  BY <1>1, <1>2, ChainsKept, BoundsKept DEF ListInv, HasNew, Inodes, maxino
<1>4. "getting" \in DOMAIN r' /\ r'.getting = r.getting
  BY Zenon DEF Extract, ListInv, Fields
<1>5. PICK to : todo' = <<File(to), Op("extracted")>> \o Tail(todo)
  BY Zenon DEF Extract, Then
<1> DEFINE a == <<File(to), Op("extracted")>>
           b == AtFile("extract")
           e == <<"extracted">>
           f == AtFile("extracted")
<1>6. Framed(a, e)
  <2>1. Framed(<<File(to)>> \o <<Op("extracted")>>, e)
    <3>1. Reading(<<File(to)>>)
      BY Reading1, OpsOf
    <3>2. Op("extracted").op = "extracted"
      BY DEF Op
    <3> QED BY <3>1, <3>2, EndsWith
  <2>2. <<File(to)>> \o <<Op("extracted")>> = a
    BY Pair
  <2> QED BY <2>1, <2>2
<1>7. Len(e) = 1 /\ Len(b) = 5 /\ Len(f) = 5
  BY DEF AtFile
<1>8. f[1] = e[1] /\ \A i \in 1 .. 4 : f[1 + i] = b[i + 1]
  BY DEF AtFile
<1>9. /\ Frame(b) /\ Framed(todo, b) /\ Head(todo).op \notin Inner
      /\ Len(e) \in Nat /\ Len(f) = Len(e) + Len(b) - 1
  <2>1. Frame(b) /\ Framed(todo, b)
    BY <1>2, Frames
  <2>2. Head(todo).op \notin Inner
    BY <1>1, <1>2 DEF Top
  <2> HIDE DEF b, e, f
  <2> QED BY <1>7, <2>1, <2>2
<1>10. /\ \A i \in 1 .. Len(e) : f[i] = e[i]
       /\ \A i \in 1 .. Len(b) - 1 : f[Len(e) + i] = b[i + 1]
  <2> HIDE DEF b, e, f
  <2> QED BY <1>7, <1>8
<1> HIDE DEF a, b, e, f
<1>11. Framed(a \o Tail(todo), f)
  <2>1. Gives(f, e, b)
    BY <1>9, <1>10 DEF Gives
  <2> QED BY <1>1, <1>6, <1>9, <2>1, Onward
<1>12. Progress'
  BY <1>1, <1>2, <1>3, <1>5, <1>11 DEF Progress, ProgressWith, a, f
<1>13. Jumps'
  BY <1>1, <1>2, <1>4, <1>5, <1>6, JumpsKept DEF ListInv, Framed, a
<1> QED BY <1>1, <1>3, <1>4, <1>12, <1>13 DEF ListInv, Fields

LEMMA ExtractedKeeps ==
    ASSUME ListInv, Extracted
    PROVE  ListInv'
<1>1. todo # << >> /\ Top.op = "extracted" /\ UNCHANGED <<job, r, c, wanted>> /\ chain' = Unmarked({c.next})
  BY DEF Extracted, Doing, Top, user
<1>2. InBounds /\ Framed(todo, AtFile("extracted")) /\ wanted = {} /\ "extracted" \notin Inner
  BY <1>1, Whereabouts DEF ListInv, Inner
<1>3. Chains' /\ \A i \in Inodes : HasNew(i)' => HasNew(i)
  BY <1>1, UnmarkedIs DEF ListInv
<1>4. InBounds'
  BY <1>1, <1>2, <1>3, BoundsKept
<1>5. \E a : Reading(a) /\ todo' = a \o Tail(todo)
  <2>1. Reading(<< >>) /\ Reading(<<Op("maps")>>)
    BY Reading0, Reading1, OpsOf DEF Inner
  <2>2. todo' = << >> \o Tail(todo) \/ todo' = <<Op("maps")>> \o Tail(todo)
    BY Zenon DEF Extracted, Then
  <2> QED BY <2>1, <2>2
<1>6. PICK a : Reading(a) /\ todo' = a \o Tail(todo)
  BY <1>5
<1> DEFINE b == AtFile("extracted")
           e == << >>
           f == Creating("bounds")
<1>7. Len(e) = 0 /\ Len(b) = 5 /\ Len(f) = 4 /\ \A i \in 1 .. 4 : f[i] = b[i + 1]
  BY DEF AtFile, Creating
<1>8. Framed(a, e)
  <2>1. IsSequence(a) /\ Len(a) \in Nat
    BY <1>6 DEF Reading, IsSequence
  <2> QED BY <1>6, <1>7, <2>1 DEF Framed, Reading
<1>9. Frame(b) /\ Framed(todo, b) /\ Head(todo).op \notin Inner
  BY <1>1, <1>2, Frames DEF Top
<1>10. /\ Len(e) \in Nat /\ Len(f) = Len(e) + Len(b) - 1
       /\ \A i \in 1 .. Len(e) : f[i] = e[i]
       /\ \A i \in 1 .. Len(b) - 1 : f[Len(e) + i] = b[i + 1]
  <2> HIDE DEF b, e, f
  <2> QED BY <1>7
<1> HIDE DEF b, e, f
<1>11. Framed(a \o Tail(todo), f)
  <2>1. Gives(f, e, b)
    BY <1>10 DEF Gives
  <2> QED BY <1>1, <1>8, <1>9, <1>10, <2>1, Onward
<1>12. Progress'
  BY <1>1, <1>2, <1>4, <1>6, <1>11 DEF Progress, ProgressWith, f, Stages
<1>13. Jumps'
  BY <1>1, <1>2, <1>6, JumpsKept DEF ListInv, Framed, Reading
<1> QED BY <1>1, <1>3, <1>12, <1>13 DEF ListInv, Fields

-----------------------------------------------------------------------------
(* Behind createfiles, and the shell. *)

LEMMA Passed ==
    ASSUME todo # << >>, NEW b, Frame(b), Framed(todo, b), Head(todo).op \notin Inner,
           NEW f, Len(f) = Len(b) - 1, \A i \in 1 .. Len(b) - 1 : f[i] = b[i + 1]
    PROVE  Framed(<< >> \o Tail(todo), f)
<1> DEFINE e == << >>
<1>1. IsSequence(e) /\ Len(e) = 0
  BY Reading0 DEF Reading
<1>2. Framed(e, e) /\ Len(e) \in Nat
  BY <1>1 DEF Framed
<1>3. /\ Len(f) = Len(e) + Len(b) - 1
      /\ \A i \in 1 .. Len(e) : f[i] = e[i]
      /\ \A i \in 1 .. Len(b) - 1 : f[Len(e) + i] = b[i + 1]
  <2> HIDE DEF e
  <2> QED BY <1>1 DEF Frame
<1> HIDE DEF e
<1>4. Framed(e \o Tail(todo), f)
  <2>1. Gives(f, e, b)
    BY <1>3 DEF Gives
  <2> QED BY <1>2, <2>1, Onward
<1> QED BY <1>4 DEF e

LEMMA MarkedIs ==
    ASSUME Chains, job \in Plans, NEW n \in Names
    PROVE  /\ PlaceOf(n) = {k \in 1 .. Len(chain[job.names[n]]) : chain[job.names[n]][k].name = n}
           /\ Marked(n) <=> \E k \in 1 .. Len(chain[job.names[n]]) :
                                /\ chain[job.names[n]][k].name = n
                                /\ chain[job.names[n]][k].new
<1>1. job.names[n] \in Inodes
  BY PlanIs
<1>2. DOMAIN chain[job.names[n]] = 1 .. Len(chain[job.names[n]])
  BY <1>1, ChainIs
<1> QED BY <1>2 DEF Marked, PlaceOf

(* The second names are unmarked, and the first ones were before. *)
LEMMA createlinksKeeps ==
    ASSUME ListInv, createlinks
    PROVE  ListInv'
<1>1. todo # << >> /\ Top.op = "links" /\ UNCHANGED <<job, r, c, wanted>> /\ todo' = << >> \o Tail(todo)
  BY DEF createlinks, Doing, Top, user, Then
<1>2. /\ Framed(todo, AtLinks) /\ wanted = {} /\ "links" \notin Inner
      /\ \A i \in Inodes : ~HasNew(i)
  BY <1>1, Whereabouts DEF ListInv, Inner
<1>3. Inodes' = Inodes /\ Names' = Names /\ Entry' = Entry
  BY <1>1 DEF Inodes, Names, Entry, maxino
<1>4. chain' = [i \in Inodes |-> [k \in DOMAIN chain[i] |->
                   IF k > 1 THEN [chain[i][k] EXCEPT !.new = FALSE] ELSE chain[i][k]]]
  BY DEF createlinks
<1>5. ASSUME NEW i \in Inodes
      PROVE  /\ chain'[i] \in Seq(Entry) /\ Len(chain'[i]) = Len(chain[i])
             /\ \A k \in 1 .. Len(chain[i]) : /\ chain'[i][k].name = chain[i][k].name
                                              /\ ~chain'[i][k].new
  <2> DEFINE ch == chain[i]
             new == chain'[i]
  <2>1. ch \in Seq(Entry) /\ Len(ch) \in Nat /\ DOMAIN ch = 1 .. Len(ch)
        /\ \A k \in 1 .. Len(ch) : ch[k] \in Entry
    BY ChainIs DEF ListInv
  <2>2. new = [k \in DOMAIN ch |-> IF k > 1 THEN [ch[k] EXCEPT !.new = FALSE] ELSE ch[k]]
    BY <1>4
  <2>3. ch # << >> => ~ch[1].new
    BY <1>2 DEF HasNew
  <2> HIDE DEF ch, new
  <2>4. ASSUME NEW k \in 1 .. Len(ch)
        PROVE  new[k] \in Entry /\ new[k].name = ch[k].name /\ ~new[k].new
    <3>1. CASE k > 1
      <4>1. new[k] = [ch[k] EXCEPT !.new = FALSE]
        BY <2>1, <2>2, <3>1
      <4> QED BY <2>1, <4>1, UnmarkedEntry
    <3>2. CASE ~(k > 1)
      <4>1. k = 1 /\ ch # << >>
        BY <2>1, <3>2
      <4>2. new[k] = ch[k]
        BY <2>1, <2>2, <3>2
      <4> QED BY <2>1, <2>3, <4>1, <4>2
    <3> QED BY <3>1, <3>2
  <2>5. new \in [1 .. Len(ch) -> Entry]
    <3>1. new = [k \in 1 .. Len(ch) |-> new[k]]
      BY <2>1, <2>2
    <3> QED BY <2>4, <3>1
  <2>6. new \in Seq(Entry) /\ Len(new) = Len(ch)
    BY <2>1, <2>5
  <2> QED BY <2>4, <2>6 DEF ch, new
<1>6. Chains'
  <2>1. chain' = [i \in Inodes |-> chain'[i]]
    BY <1>4
  <2>2. ASSUME NEW i \in Inodes
        PROVE  /\ chain'[i] \in Seq(Entry)
               /\ \A k \in 1 .. Len(chain'[i]) : job.names[chain'[i][k].name] = i
               /\ \A k, l \in 1 .. Len(chain'[i]) : chain'[i][k].name = chain'[i][l].name => k = l
    BY <1>5, ChainIs DEF ListInv
  <2> QED BY <1>1, <1>3, <2>1, <2>2 DEF Chains, ChainOf
<1>7. ASSUME NEW n \in Names PROVE ~Marked(n)'
  <2>1. job.names[n] \in Inodes
    BY PlanIs DEF ListInv
  <2>2. DOMAIN chain'[job.names[n]] = 1 .. Len(chain[job.names[n]])
    BY <1>5, <2>1
  <2> QED BY <1>1, <1>5, <2>1, <2>2 DEF Marked, PlaceOf
<1>8. Framed(todo', AtVolume0)
  <2>1. Len(AtVolume0) = Len(AtLinks) - 1 /\ \A i \in 1 .. Len(AtLinks) - 1 : AtVolume0[i] = AtLinks[i + 1]
    <3>1. Len(AtVolume0) = 2 /\ Len(AtLinks) = 3 /\ \A i \in 1 .. 2 : AtVolume0[i] = AtLinks[i + 1]
      BY DEF AtVolume0, AtLinks
    <3> QED BY <3>1
  <2> QED BY <1>1, <1>2, <2>1, Frames, Passed DEF Top
<1>9. Progress'
  BY <1>1, <1>2, <1>3, <1>7, <1>8 DEF Progress, ProgressWith, OnList
<1>10. Jumps'
  BY <1>1, <1>2, Reading0, JumpsKept DEF ListInv, Framed, Reading
<1> QED BY <1>1, <1>6, <1>9, <1>10 DEF ListInv, Fields

LEMMA NoVolumeKeeps ==
    ASSUME ListInv, NoVolume
    PROVE  ListInv'
<1>1. /\ todo # << >> /\ Top.op = "volume0" /\ UNCHANGED <<job, c, chain, wanted>>
      /\ todo' = << >> \o Tail(todo)
  BY DEF NoVolume, Doing, Top, user, Then
<1>2. Framed(todo, AtVolume0) /\ OnList /\ "volume0" \notin Inner
  BY <1>1, Whereabouts DEF ListInv, Inner
<1>3. "getting" \in DOMAIN r' /\ r'.getting = r.getting
  BY Zenon DEF NoVolume, ListInv, Fields
<1>4. Framed(todo', AtShell)
  <2>1. Len(AtShell) = Len(AtVolume0) - 1 /\ \A i \in 1 .. Len(AtVolume0) - 1 : AtShell[i] = AtVolume0[i + 1]
    <3>1. Len(AtShell) = 1 /\ Len(AtVolume0) = 2 /\ AtShell[1] = AtVolume0[2]
      BY DEF AtVolume0, AtShell
    <3> QED BY <3>1
  <2> QED BY <1>1, <1>2, <2>1, Frames, Passed DEF Top
<1>5. OnList'
  BY <1>1, <1>2 DEF OnList, Marked, PlaceOf, Names
<1>6. Progress'
  BY <1>4, <1>5 DEF Progress, ProgressWith
<1>7. Jumps'
  BY <1>1, <1>2, <1>3, Reading0, JumpsKept DEF ListInv, Framed, Reading
<1>8. Chains'
  BY <1>1, ChainsKept DEF ListInv
<1> QED BY <1>1, <1>3, <1>6, <1>7, <1>8 DEF ListInv, Fields

(* In the shell nothing is being read. *)
LEMMA InShell ==
    ASSUME ListInv, Doing("shell")
    PROVE  todo # << >> /\ Framed(todo, AtShell) /\ OnList /\ ~r.getting
<1>1. todo # << >> /\ Top.op = "shell" /\ "shell" \notin Inner
  BY DEF Doing, Top, Inner
<1>2. Framed(todo, AtShell) /\ OnList
  BY <1>1, Whereabouts DEF ListInv
<1>3. Len(todo) = 1 /\ todo[1].op = "shell"
  <2>1. Len(todo) = Len(AtShell) /\ Head(todo) = todo[1]
    BY <1>1, <1>2, Frames, AtFrame, Behind DEF Top, Framed
  <2> QED BY <1>1, <2>1 DEF AtShell, Top
<1>4. ASSUME r.getting PROVE FALSE
  <2>1. PICK k \in DOMAIN todo : todo[k].op = "end"
    BY <1>1, <1>4 DEF ListInv, Jumps, Doing, Top
  <2>2. k = 1
    BY <1>2, <1>3 DEF Framed, IsSequence
  <2> QED BY <1>3, <2>1, <2>2
<1> QED BY <1>1, <1>2, <1>4

LEMMA extractKeeps ==
    ASSUME ListInv, extract
    PROVE  ListInv'
<1>1. Doing("shell") /\ UNCHANGED <<job, r, c, chain>> /\ wanted' = {}
      /\ todo' = <<Op("create"), Op("links"), Op("volume0"), Op("shell")>>
  BY DEF extract
<1>2. ~r.getting
  BY <1>1, InShell
<1>3. Framed(todo', Creating("create"))
  <2> DEFINE t == <<Op("create"), Op("links"), Op("volume0"), Op("shell")>>
  <2>1. t \in Seq({Op("create"), Op("links"), Op("volume0"), Op("shell")}) /\ Len(t) = 4
    OBVIOUS
  <2>2. IsSequence(t)
    BY <2>1, IsSeq
  <2>3. Len(Creating("create")) = 4 /\ \A i \in 1 .. 4 : t[i].op = Creating("create")[i]
    BY DEF Creating, Op
  <2> DEFINE b == Creating("create")
  <2>4. /\ IsSequence(t) /\ Len(t) = 4 /\ Len(b) = 4 /\ \A i \in 1 .. 4 : t[i].op = b[i]
    BY <2>1, <2>2, <2>3
  <2> HIDE DEF t, b
  <2>5. Framed(t, b)
    BY <2>4 DEF Framed
  <2> QED BY <1>1, <2>5 DEF t, b
<1>4. Progress'
  BY <1>1, <1>3 DEF Progress, ProgressWith, Stages
<1>5. Chains'
  BY <1>1, ChainsKept DEF ListInv
<1> QED BY <1>1, <1>2, <1>4, <1>5 DEF ListInv, Fields, Jumps

LEMMA quitKeeps ==
    ASSUME ListInv, quit
    PROVE  ListInv'
<1>1. Doing("shell") /\ UNCHANGED <<job, r, c, chain>> /\ todo' = << >>
  BY DEF quit
<1>2. ~r.getting
  BY <1>1, InShell
<1>3. Chains'
  BY <1>1, ChainsKept DEF ListInv
<1> QED BY <1>1, <1>2, <1>3 DEF ListInv, Fields, Jumps, Progress, ProgressWith

(* The names of one inode change. *)
LEMMA OneChain ==
    ASSUME Chains, job \in Plans, job' = job, NEW i \in Inodes, NEW ch, chain' = [chain EXCEPT ![i] = ch],
           ch \in Seq(Entry), \A k \in 1 .. Len(ch) : job.names[ch[k].name] = i,
           \A k, l \in 1 .. Len(ch) : ch[k].name = ch[l].name => k = l
    PROVE  /\ Chains'
           /\ \A m \in Names : job.names[m] # i => Marked(m)' = Marked(m)
           /\ \A m \in Names : job.names[m] = i =>
                  (Marked(m)' <=> \E k \in 1 .. Len(ch) : ch[k].name = m /\ ch[k].new)
<1>1. Inodes' = Inodes /\ Names' = Names /\ Entry' = Entry /\ job' \in Plans
  BY DEF Inodes, Names, Entry, maxino
<1>2. \A j \in Inodes : chain'[j] = IF j = i THEN ch ELSE chain[j]
  BY DEF Chains
<1>3. chain' = [j \in Inodes |-> chain'[j]]
  BY DEF Chains
<1>4. Chains'
  <2>1. ASSUME NEW j \in Inodes
        PROVE  /\ chain'[j] \in Seq(Entry)
               /\ \A k \in 1 .. Len(chain'[j]) : job.names[chain'[j][k].name] = j
               /\ \A k, l \in 1 .. Len(chain'[j]) : chain'[j][k].name = chain'[j][l].name => k = l
    BY <1>2, ChainIs
  <2> QED BY <1>1, <1>3, <2>1 DEF Chains, ChainOf
<1>5. ASSUME NEW m \in Names, job.names[m] # i PROVE Marked(m)' = Marked(m)
  <2>1. chain'[job.names[m]] = chain[job.names[m]]
    BY <1>2, <1>5, PlanIs
  <2> QED BY <2>1 DEF Marked, PlaceOf
<1>6. ASSUME NEW m \in Names, job.names[m] = i
      PROVE  Marked(m)' <=> \E k \in 1 .. Len(ch) : ch[k].name = m /\ ch[k].new
  <2>1. chain'[job'.names[m]] = ch /\ DOMAIN ch = 1 .. Len(ch)
    BY <1>2, <1>6
  <2> QED BY <2>1 DEF Marked, PlaceOf
<1> QED BY <1>4, <1>5, <1>6

(* ch is old with a request for n. *)
Renewed(ch, old, n) ==
    /\ ch \in Seq(Entry) /\ Len(ch) = Len(old)
    /\ \A k \in 1..Len(old) : /\ ch[k].name = old[k].name
                              /\ ch[k].new <=> old[k].name = n \/ old[k].new

(* A name that is put on the list again. *)
LEMMA RenewedIs ==
    ASSUME NEW old \in Seq(Entry), NEW n \in Names
    PROVE  Renewed([k \in 1..Len(old) |->
                       IF old[k].name = n THEN [name |-> n, new |-> TRUE] ELSE old[k]], old, n)
<1> DEFINE e == [name |-> n, new |-> TRUE]
           ch == [k \in 1 .. Len(old) |-> IF old[k].name = n THEN e ELSE old[k]]
<1>1. e \in Entry /\ e.name = n /\ e.new
  BY DEF Entry
<1> HIDE DEF e
<1>2. Len(old) \in Nat /\ \A k \in 1 .. Len(old) : old[k] \in Entry
  OBVIOUS
<1>3. ch \in [1 .. Len(old) -> Entry]
  BY <1>1, <1>2
<1>4. \A k \in 1 .. Len(old) : ch[k] = IF old[k].name = n THEN e ELSE old[k]
  OBVIOUS
<1> HIDE DEF ch
<1>5. ch \in Seq(Entry) /\ Len(ch) = Len(old)
  BY <1>2, <1>3
<1>6. ASSUME NEW k \in 1 .. Len(old)
      PROVE  ch[k].name = old[k].name /\ (ch[k].new <=> old[k].name = n \/ old[k].new)
  <2>1. CASE old[k].name = n
    BY <1>1, <1>4, <2>1
  <2>2. CASE old[k].name # n
    BY <1>4, <2>2
  <2> QED BY <2>1, <2>2
<1>7. Renewed(ch, old, n)
  BY <1>5, <1>6 DEF Renewed
<1> QED BY <1>7 DEF ch, e

LEMMA AddedAgain ==
    ASSUME Chains, job \in Plans, NEW n \in Names, PlaceOf(n) # {}
    PROVE  LET i == job.names[n]
               ch == [k \in DOMAIN chain[i] |->
                          IF k \in PlaceOf(n) THEN [name |-> n, new |-> TRUE] ELSE chain[i][k]]
           IN  /\ ch \in Seq(Entry) /\ \A k \in 1 .. Len(ch) : job.names[ch[k].name] = i
               /\ \A k, l \in 1 .. Len(ch) : ch[k].name = ch[l].name => k = l
               /\ \A m \in Names : job.names[m] = i =>
                      ((\E k \in 1 .. Len(ch) : ch[k].name = m /\ ch[k].new) <=> Marked(m) \/ m = n)
<1> DEFINE i == job.names[n]
           old == chain[i]
           ch == [k \in DOMAIN chain[i] |->
                      IF k \in PlaceOf(n) THEN [name |-> n, new |-> TRUE] ELSE chain[i][k]]
<1>1. i \in Inodes
  BY PlanIs
<1>2. /\ old \in Seq(Entry) /\ Len(old) \in Nat /\ DOMAIN old = 1 .. Len(old)
      /\ \A k \in 1 .. Len(old) : job.names[old[k].name] = i
      /\ \A k, l \in 1 .. Len(old) : old[k].name = old[l].name => k = l
  BY <1>1, ChainIs
<1>3. /\ PlaceOf(n) = {k \in 1 .. Len(old) : old[k].name = n}
      /\ \A m \in Names : job.names[m] = i =>
             (Marked(m) <=> \E k \in 1 .. Len(old) : old[k].name = m /\ old[k].new)
  BY MarkedIs
<1>4. ch = [k \in 1 .. Len(old) |-> IF old[k].name = n THEN [name |-> n, new |-> TRUE] ELSE old[k]]
  BY <1>2, <1>3
<1> HIDE DEF i, old, ch
<1>5. /\ ch \in Seq(Entry) /\ Len(ch) = Len(old)
      /\ \A k \in 1 .. Len(old) : /\ ch[k].name = old[k].name
                                  /\ ch[k].new <=> old[k].name = n \/ old[k].new
  <2> DEFINE new == [k \in 1 .. Len(old) |->
                        IF old[k].name = n THEN [name |-> n, new |-> TRUE] ELSE old[k]]
  <2>1. Renewed(new, old, n)
    BY <1>2, RenewedIs
  <2>2. ch = new
    BY <1>4 DEF new
  <2> HIDE DEF new
  <2> QED BY <2>1, <2>2 DEF Renewed
<1>6. ASSUME NEW m \in Names, job.names[m] = i
      PROVE  (\E k \in 1 .. Len(ch) : ch[k].name = m /\ ch[k].new) <=> Marked(m) \/ m = n
  <2>1. PICK p \in 1 .. Len(old) : old[p].name = n
    BY <1>3
  <2>2. CASE m = n
    BY <1>5, <2>1, <2>2
  <2>3. CASE m # n
    BY <1>3, <1>5, <1>6, <2>3
  <2> QED BY <2>2, <2>3
<1>7. \A k \in 1 .. Len(ch) : job.names[ch[k].name] = i
  BY <1>2, <1>5
<1>8. \A k, l \in 1 .. Len(ch) : ch[k].name = ch[l].name => k = l
  BY <1>2, <1>5
<1> QED BY <1>5, <1>6, <1>7, <1>8 DEF i, ch

(* A name that was not there comes first, or behind the first one. *)
LEMMA Entered ==
    ASSUME NEW old \in Seq(Entry), NEW e \in Entry
    PROVE  LET ch == addentry(old, e)
           IN  /\ ch \in Seq(Entry) /\ Len(old) \in Nat /\ Len(ch) = Len(old) + 1
               /\ \E q \in 1 .. Len(old) + 1 :
                      /\ ch[q] = e
                      /\ \A k \in 1 .. Len(old) + 1 : k < q => k \in 1 .. Len(old) /\ ch[k] = old[k]
                      /\ \A k \in 1 .. Len(old) + 1 : k > q => k - 1 \in 1 .. Len(old) /\ ch[k] = old[k - 1]
<1> DEFINE ch == addentry(old, e)
<1>1. Len(old) \in Nat
  OBVIOUS
<1>2. CASE old = << >>
  <2>1. ch = <<e>> /\ Len(old) = 0
    BY <1>2 DEF addentry
  <2>2. <<e>> \in Seq(Entry) /\ Len(<<e>>) = 1 /\ <<e>>[1] = e
    OBVIOUS
  <2> HIDE DEF ch
  <2>3. ch \in Seq(Entry) /\ Len(ch) = Len(old) + 1 /\ ch[1] = e
    BY <2>1, <2>2
  <2>4. /\ 1 \in 1 .. Len(old) + 1
        /\ \A k \in 1 .. Len(old) + 1 : ~(k < 1) /\ ~(k > 1)
    BY <2>1
  <2> QED BY <1>1, <2>3, <2>4 DEF ch
<1>3. CASE old # << >>
  <2> DEFINE a == <<old[1], e>>
             b == Tail(old)
  <2>1. ch = a \o b /\ Len(old) \in Nat \ {0}
    BY <1>3 DEF addentry
  <2>2. old[1] \in Entry
    BY <2>1
  <2>3. a \in Seq(Entry) /\ Len(a) = 2 /\ a[1] = old[1] /\ a[2] = e
    BY <2>2
  <2>4. b \in Seq(Entry) /\ Len(b) = Len(old) - 1 /\ \A k \in 1 .. Len(old) - 1 : b[k] = old[k + 1]
    BY <1>3
  <2> HIDE DEF ch, a, b
  <2>5. /\ ch \in Seq(Entry) /\ Len(ch) = Len(old) + 1
        /\ ch[1] = old[1] /\ ch[2] = e
        /\ \A k \in 1 .. Len(old) - 1 : ch[2 + k] = b[k]
    <3>1. /\ a \o b \in Seq(Entry) /\ Len(a \o b) = Len(a) + Len(b)
          /\ \A k \in 1 .. Len(a) : (a \o b)[k] = a[k]
          /\ \A k \in 1 .. Len(b) : (a \o b)[Len(a) + k] = b[k]
      <4>1. a \in Seq(Entry) /\ b \in Seq(Entry)
        BY <2>3, <2>4
      <4>2. ASSUME NEW x \in Seq(Entry), NEW y \in Seq(Entry)
            PROVE  /\ x \o y \in Seq(Entry) /\ Len(x \o y) = Len(x) + Len(y)
                   /\ \A k \in 1 .. Len(x) : (x \o y)[k] = x[k]
                   /\ \A k \in 1 .. Len(y) : (x \o y)[Len(x) + k] = y[k]
        OBVIOUS
      <4>3. a \o b \in Seq(Entry) /\ Len(a \o b) = Len(a) + Len(b)
        BY <4>1, <4>2
      <4>4. \A k \in 1 .. Len(a) : (a \o b)[k] = a[k]
        BY <4>1, <4>2
      <4>5. \A k \in 1 .. Len(b) : (a \o b)[Len(a) + k] = b[k]
        BY <4>1, <4>2
      <4> QED BY <4>3, <4>4, <4>5
    <3>2. 1 \in 1 .. Len(a) /\ 2 \in 1 .. Len(a) /\ Len(a) + Len(b) = Len(old) + 1
      BY <2>1, <2>3, <2>4
    <3> QED BY <2>1, <2>3, <2>4, <3>1, <3>2
  <2>6. ASSUME NEW k \in 1 .. Len(old) + 1, k > 2 PROVE k - 1 \in 1 .. Len(old) /\ ch[k] = old[k - 1]
    <3>1. k - 2 \in 1 .. Len(old) - 1 /\ 2 + (k - 2) = k /\ (k - 2) + 1 = k - 1 /\ k - 1 \in 1 .. Len(old)
      BY <1>1, <2>6
    <3>2. ch[2 + (k - 2)] = b[k - 2] /\ b[k - 2] = old[(k - 2) + 1]
      BY <2>4, <2>5, <3>1
    <3> QED BY <3>1, <3>2
  <2>7. /\ 2 \in 1 .. Len(old) + 1
        /\ \A k \in 1 .. Len(old) + 1 : k < 2 => k = 1 /\ k \in 1 .. Len(old)
    BY <2>1
  <2> QED BY <1>1, <2>5, <2>6, <2>7 DEF ch
<1> QED BY <1>2, <1>3

(* ch is old with e put in somewhere. *)
Inserted(ch, old, e) ==
    /\ ch \in Seq(Entry) /\ Len(ch) = Len(old) + 1
    /\ \E q \in 1..(Len(old) + 1) :
           /\ ch[q] = e
           /\ \A k \in 1..(Len(old) + 1) : k < q => k \in 1..Len(old) /\ ch[k] = old[k]
           /\ \A k \in 1..(Len(old) + 1) : k > q => k - 1 \in 1..Len(old) /\ ch[k] = old[k - 1]

LEMMA InsertedIs ==
    ASSUME NEW old \in Seq(Entry), NEW e \in Entry
    PROVE  Inserted(addentry(old, e), old, e)
BY Entered, Zenon DEF Inserted

LEMMA AddedNew ==
    ASSUME Chains, job \in Plans, NEW n \in Names, PlaceOf(n) = {}
    PROVE  LET i == job.names[n]
               ch == addentry(chain[i], [name |-> n, new |-> TRUE])
           IN  /\ ch \in Seq(Entry) /\ \A k \in 1 .. Len(ch) : job.names[ch[k].name] = i
               /\ \A k, l \in 1 .. Len(ch) : ch[k].name = ch[l].name => k = l
               /\ \A m \in Names : job.names[m] = i =>
                      ((\E k \in 1 .. Len(ch) : ch[k].name = m /\ ch[k].new) <=> Marked(m) \/ m = n)
<1> DEFINE i == job.names[n]
           old == chain[i]
           e == [name |-> n, new |-> TRUE]
           ch == addentry(old, e)
<1>1. i \in Inodes
  BY PlanIs
<1>2. /\ old \in Seq(Entry) /\ Len(old) \in Nat
      /\ \A k \in 1 .. Len(old) : job.names[old[k].name] = i
      /\ \A k, l \in 1 .. Len(old) : old[k].name = old[l].name => k = l
  BY <1>1, ChainIs
<1>3. /\ \A k \in 1 .. Len(old) : old[k].name # n
      /\ \A m \in Names : job.names[m] = i =>
             (Marked(m) <=> \E k \in 1 .. Len(old) : old[k].name = m /\ old[k].new)
  <2>1. PlaceOf(n) = {k \in 1 .. Len(old) : old[k].name = n}
    BY MarkedIs
  <2>2. \A m \in Names : job.names[m] = i =>
            (Marked(m) <=> \E k \in 1 .. Len(old) : old[k].name = m /\ old[k].new)
    BY MarkedIs
  <2> HIDE DEF old, i
  <2> QED BY <2>1, <2>2
<1>4. e \in Entry /\ e.name = n /\ e.new
  BY DEF Entry
<1> HIDE DEF old, e
<1>5. PICK q \in 1 .. Len(old) + 1 :
          /\ ch[q] = e
          /\ \A k \in 1 .. Len(old) + 1 : k < q => k \in 1 .. Len(old) /\ ch[k] = old[k]
          /\ \A k \in 1 .. Len(old) + 1 : k > q => k - 1 \in 1 .. Len(old) /\ ch[k] = old[k - 1]
  <2>1. Inserted(ch, old, e)
    BY <1>2, <1>4, InsertedIs
  <2> HIDE DEF ch
  <2> QED BY <2>1 DEF Inserted
<1>6. ch \in Seq(Entry) /\ Len(ch) = Len(old) + 1
  <2>1. Inserted(ch, old, e)
    BY <1>2, <1>4, InsertedIs
  <2> HIDE DEF ch
  <2> QED BY <2>1 DEF Inserted
<1>7. i = job.names[n]
  OBVIOUS
<1> HIDE DEF ch, i
<1>8. ASSUME NEW k \in 1 .. Len(old) + 1
      PROVE  \/ k = q
             \/ k < q /\ k \in 1 .. Len(old) /\ ch[k] = old[k]
             \/ k > q /\ k - 1 \in 1 .. Len(old) /\ ch[k] = old[k - 1]
  BY <1>2, <1>5
<1>9. ASSUME NEW k \in 1 .. Len(ch) PROVE job.names[ch[k].name] = i
  <2>1. k \in 1 .. Len(old) + 1
    BY <1>6
  <2>2. CASE k = q
    BY <1>4, <1>5, <1>7, <2>2
  <2>3. CASE k # q
    <3>1. PICK j \in 1 .. Len(old) : ch[k] = old[j]
      BY <1>8, <2>1, <2>3
    <3> QED BY <1>2, <3>1
  <2> QED BY <2>2, <2>3
<1>10. ASSUME NEW k \in 1 .. Len(ch), NEW l \in 1 .. Len(ch), ch[k].name = ch[l].name PROVE k = l
  <2>1. k \in 1 .. Len(old) + 1 /\ l \in 1 .. Len(old) + 1
    BY <1>6
  <2>2. CASE k = q \/ l = q
    <3>1. ch[q].name = n
      BY <1>4, <1>5
    <3>2. ASSUME NEW j \in 1 .. Len(old) + 1, j # q PROVE ch[j].name # n
      BY <1>3, <1>8, <3>2
    <3> QED BY <1>10, <2>1, <2>2, <3>1, <3>2
  <2>3. CASE k # q /\ l # q
    <3>1. PICK kk \in 1 .. Len(old) : ch[k] = old[kk] /\ (k < q => kk = k) /\ (k > q => kk = k - 1)
      <4>1. k < q \/ k > q
        BY <1>2, <2>1, <2>3
      <4>2. CASE k < q
        BY <1>2, <1>8, <2>1, <2>3, <4>2
      <4>3. CASE k > q
        BY <1>2, <1>8, <2>1, <2>3, <4>3
      <4> QED BY <4>1, <4>2, <4>3
    <3>2. PICK ll \in 1 .. Len(old) : ch[l] = old[ll] /\ (l < q => ll = l) /\ (l > q => ll = l - 1)
      <4>1. l < q \/ l > q
        BY <1>2, <2>1, <2>3
      <4>2. CASE l < q
        BY <1>2, <1>8, <2>1, <2>3, <4>2
      <4>3. CASE l > q
        BY <1>2, <1>8, <2>1, <2>3, <4>3
      <4> QED BY <4>1, <4>2, <4>3
    <3>3. kk = ll
      BY <1>2, <1>10, <3>1, <3>2
    <3> QED BY <1>2, <2>1, <2>3, <3>1, <3>2, <3>3
  <2> QED BY <2>2, <2>3
<1>11. ASSUME NEW m \in Names, job.names[m] = i
       PROVE  (\E k \in 1 .. Len(ch) : ch[k].name = m /\ ch[k].new) <=> Marked(m) \/ m = n
  <2>1. ASSUME NEW k \in 1 .. Len(ch), ch[k].name = m, ch[k].new PROVE Marked(m) \/ m = n
    BY <1>3, <1>4, <1>5, <1>6, <1>8, <1>11, <2>1
  <2>2. ASSUME Marked(m) PROVE \E k \in 1 .. Len(ch) : ch[k].name = m /\ ch[k].new
    <3>1. PICK j \in 1 .. Len(old) : old[j].name = m /\ old[j].new
      BY <1>3, <1>11, <2>2
    <3>2. CASE j < q
      <4>1. j \in 1 .. Len(old) + 1 /\ ch[j] = old[j]
        BY <1>2, <1>5, <3>2
      <4> QED BY <1>6, <3>1, <4>1
    <3>3. CASE ~(j < q)
      <4>1. j + 1 \in 1 .. Len(old) + 1 /\ j + 1 > q /\ (j + 1) - 1 = j
        BY <1>2, <3>3
      <4>2. ch[j + 1] = old[j]
        BY <1>5, <4>1
      <4> QED BY <1>6, <3>1, <4>1, <4>2
    <3> QED BY <3>2, <3>3
  <2>3. ASSUME m = n PROVE \E k \in 1 .. Len(ch) : ch[k].name = m /\ ch[k].new
    BY <1>4, <1>5, <1>6, <2>3
  <2> QED BY <2>1, <2>2, <2>3
<1> QED BY <1>6, <1>9, <1>10, <1>11 DEF ch, i, old, e

LEMMA addfileKeeps ==
    ASSUME ListInv, NEW n \in Names, addfile(n)
    PROVE  ListInv'
<1> DEFINE i == job.names[n]
           entry == [name |-> n, new |-> TRUE]
<1>1. /\ Doing("shell") /\ UNCHANGED <<job, todo, r, c>>
      /\ wanted' = wanted \cup IF i \in job.dumpmap THEN {n} ELSE {}
  BY DEF addfile
<1>2. /\ chain' = IF i \notin job.dumpmap THEN chain
                  ELSE IF PlaceOf(n) # {}
                  THEN [chain EXCEPT ![i] = [k \in DOMAIN @ |-> IF k \in PlaceOf(n) THEN entry ELSE @[k]]]
                  ELSE [chain EXCEPT ![i] = addentry(@, entry)]
  BY DEF addfile
<1>3. Framed(todo, AtShell) /\ OnList /\ i \in Inodes /\ Names' = Names
  BY <1>1, InShell, PlanIs DEF ListInv, Names
<1>4. Jumps' /\ Fields'
  BY <1>1 DEF ListInv, Jumps, Fields, Doing
<1>5. CASE i \notin job.dumpmap
  <2>1. chain' = chain /\ wanted' = wanted
    BY <1>1, <1>2, <1>5
  <2>2. Chains' /\ OnList'
    BY <1>1, <1>3, <2>1, ChainsKept DEF ListInv, OnList, Marked, PlaceOf, Names
  <2> QED BY <1>1, <1>3, <1>4, <2>2 DEF ListInv, Progress, ProgressWith
<1>6. CASE i \in job.dumpmap
  <2>1. wanted' = wanted \cup {n}
    BY <1>1, <1>6
  <2>2. PICK ch : /\ chain' = [chain EXCEPT ![i] = ch]
                  /\ ch \in Seq(Entry) /\ \A k \in 1 .. Len(ch) : job.names[ch[k].name] = i
                  /\ \A k, l \in 1 .. Len(ch) : ch[k].name = ch[l].name => k = l
                  /\ \A m \in Names : job.names[m] = i =>
                         ((\E k \in 1 .. Len(ch) : ch[k].name = m /\ ch[k].new) <=> Marked(m) \/ m = n)
    <3>1. CASE PlaceOf(n) # {}
      <4> DEFINE ch == [k \in DOMAIN chain[i] |-> IF k \in PlaceOf(n) THEN entry ELSE chain[i][k]]
      <4>1. chain' = [chain EXCEPT ![i] = ch]
        BY <1>2, <1>6, <3>1
      <4>2. /\ ch \in Seq(Entry) /\ \A k \in 1 .. Len(ch) : job.names[ch[k].name] = i
            /\ \A k, l \in 1 .. Len(ch) : ch[k].name = ch[l].name => k = l
            /\ \A m \in Names : job.names[m] = i =>
                   ((\E k \in 1 .. Len(ch) : ch[k].name = m /\ ch[k].new) <=> Marked(m) \/ m = n)
        BY <3>1, AddedAgain, Zenon DEF ListInv
      <4> HIDE DEF ch
      <4> QED BY <4>1, <4>2
    <3>2. CASE PlaceOf(n) = {}
      <4> DEFINE ch == addentry(chain[i], entry)
      <4>1. chain' = [chain EXCEPT ![i] = ch]
        BY <1>2, <1>6, <3>2
      <4>2. /\ ch \in Seq(Entry) /\ \A k \in 1 .. Len(ch) : job.names[ch[k].name] = i
            /\ \A k, l \in 1 .. Len(ch) : ch[k].name = ch[l].name => k = l
            /\ \A m \in Names : job.names[m] = i =>
                   ((\E k \in 1 .. Len(ch) : ch[k].name = m /\ ch[k].new) <=> Marked(m) \/ m = n)
        BY <3>2, AddedNew, Zenon DEF ListInv
      <4> HIDE DEF ch
      <4> QED BY <4>1, <4>2
    <3> QED BY <3>1, <3>2
  <2> HIDE DEF i, entry
  <2>3. /\ Chains'
        /\ \A m \in Names : job.names[m] # i => Marked(m)' = Marked(m)
        /\ \A m \in Names : job.names[m] = i =>
               (Marked(m)' <=> \E k \in 1 .. Len(ch) : ch[k].name = m /\ ch[k].new)
    BY <1>1, <1>3, <2>2, OneChain DEF ListInv
  <2>4. job.names[n] = i
    BY DEF i
  <2>5. \A m \in Names : Marked(m)' <=> Marked(m) \/ m = n
    BY <2>2, <2>3, <2>4
  <2>6. OnList'
    BY <1>3, <2>1, <2>5 DEF OnList
  <2> QED BY <1>1, <1>3, <1>4, <2>3, <2>6 DEF ListInv, Progress, ProgressWith
<1> QED BY <1>5, <1>6

(* A name that is taken off leaves its place to the next. *)
LEMMA Freed ==
    ASSUME NEW old \in Seq(Entry), NEW q \in 1 .. Len(old)
    PROVE  LET ch == RemoveAt(old, q)
           IN  /\ ch \in Seq(Entry) /\ Len(old) \in Nat /\ Len(ch) = Len(old) - 1
               /\ \A k \in 1 .. Len(old) - 1 : ch[k] = old[IF k < q THEN k ELSE k + 1]
<1> DEFINE x == SubSeq(old, 1, q - 1)
           y == SubSeq(old, q + 1, Len(old))
           ch == x \o y
<1>1. Len(old) \in Nat /\ q \in Nat /\ q >= 1 /\ q <= Len(old)
  OBVIOUS
<1>2. x \in Seq(Entry) /\ Len(x) = q - 1 /\ \A k \in 1 .. q - 1 : x[k] = old[k]
  BY <1>1
<1>3. y \in Seq(Entry) /\ Len(y) = Len(old) - q /\ \A k \in 1 .. Len(old) - q : y[k] = old[q + k]
  BY <1>1
<1>4. RemoveAt(old, q) = ch
  BY DEF RemoveAt
<1>5. ASSUME NEW u \in Seq(Entry), NEW v \in Seq(Entry)
      PROVE  /\ u \o v \in Seq(Entry) /\ Len(u \o v) = Len(u) + Len(v)
             /\ \A k \in 1 .. Len(u) : (u \o v)[k] = u[k]
             /\ \A k \in 1 .. Len(v) : (u \o v)[Len(u) + k] = v[k]
  OBVIOUS
<1> HIDE DEF x, y
<1>6. ch \in Seq(Entry) /\ Len(ch) = Len(x) + Len(y)
  BY <1>2, <1>3, <1>5
<1>7. \A k \in 1 .. Len(x) : ch[k] = x[k]
  BY <1>2, <1>3, <1>5
<1>8. \A k \in 1 .. Len(y) : ch[Len(x) + k] = y[k]
  BY <1>2, <1>3, <1>5
<1> HIDE DEF ch
<1>9. ASSUME NEW k \in 1 .. Len(old) - 1 PROVE ch[k] = old[IF k < q THEN k ELSE k + 1]
  <2>1. CASE k < q
    BY <1>1, <1>2, <1>7, <2>1
  <2>2. CASE ~(k < q)
    <3>1. k - (q - 1) \in 1 .. Len(old) - q /\ (q - 1) + (k - (q - 1)) = k /\ q + (k - (q - 1)) = k + 1
      BY <1>1, <2>2
    <3>2. ch[(q - 1) + (k - (q - 1))] = old[q + (k - (q - 1))]
      BY <1>2, <1>3, <1>8, <3>1
    <3> QED BY <2>2, <3>1, <3>2
  <2> QED BY <2>1, <2>2
<1>10. Len(ch) = Len(old) - 1
  BY <1>1, <1>2, <1>3, <1>6
<1> QED BY <1>1, <1>4, <1>6, <1>9, <1>10

LEMMA Deleted ==
    ASSUME Chains, job \in Plans, NEW n \in Names, Marked(n)
    PROVE  LET i == job.names[n]
               ch == freeentry(chain[i], n)
           IN  /\ ch \in Seq(Entry) /\ \A k \in 1 .. Len(ch) : job.names[ch[k].name] = i
               /\ \A k, l \in 1 .. Len(ch) : ch[k].name = ch[l].name => k = l
               /\ \A m \in Names : job.names[m] = i =>
                      ((\E k \in 1 .. Len(ch) : ch[k].name = m /\ ch[k].new) <=> Marked(m) /\ m # n)
<1> DEFINE i == job.names[n]
           old == chain[i]
           q == CHOOSE k \in DOMAIN old : old[k].name = n
           ch == RemoveAt(old, q)
           at0(k) == IF k < q THEN k ELSE k + 1
<1>1. i \in Inodes
  BY PlanIs
<1>2. /\ old \in Seq(Entry) /\ Len(old) \in Nat /\ DOMAIN old = 1 .. Len(old)
      /\ \A k \in 1 .. Len(old) : job.names[old[k].name] = i
      /\ \A k, l \in 1 .. Len(old) : old[k].name = old[l].name => k = l
  BY <1>1, ChainIs
<1>3. \A m \in Names : job.names[m] = i =>
          (Marked(m) <=> \E k \in 1 .. Len(old) : old[k].name = m /\ old[k].new)
  BY MarkedIs
<1>4. freeentry(old, n) = ch
  BY DEF freeentry
<1> HIDE DEF old
<1>5. q \in 1 .. Len(old) /\ old[q].name = n
  <2>1. \E k \in DOMAIN old : old[k].name = n
    BY <1>2, <1>3
  <2> QED BY <1>2, <2>1
<1> HIDE DEF q
<1>6. /\ ch \in Seq(Entry) /\ Len(ch) = Len(old) - 1
      /\ \A k \in 1 .. Len(old) - 1 : ch[k] = old[at0(k)]
  BY <1>2, <1>5, Freed
<1>7. i = job.names[n]
  OBVIOUS
<1> HIDE DEF ch, i
<1>8. \A k \in 1 .. Len(old) - 1 : at0(k) \in 1 .. Len(old) /\ at0(k) # q
  BY <1>2, <1>5
<1>9. \A k, l \in 1 .. Len(old) - 1 : at0(k) = at0(l) => k = l
  BY <1>2, <1>5
<1>10. \A j \in 1 .. Len(old) : j # q => \E k \in 1 .. Len(old) - 1 : at0(k) = j
  <2> SUFFICES ASSUME NEW j \in 1 .. Len(old), j # q PROVE \E k \in 1 .. Len(old) - 1 : at0(k) = j
    OBVIOUS
  <2>1. CASE j < q
    <3>1. j \in 1 .. Len(old) - 1 /\ at0(j) = j
      BY <1>2, <1>5, <2>1
    <3> QED BY <3>1
  <2>2. CASE j > q
    <3>1. j - 1 \in 1 .. Len(old) - 1 /\ at0(j - 1) = j
      BY <1>2, <1>5, <2>2
    <3> QED BY <3>1
  <2> QED BY <1>2, <1>5, <2>1, <2>2
<1> HIDE DEF at0
<1>11. \A k \in 1 .. Len(ch) : job.names[ch[k].name] = i
  BY <1>2, <1>6, <1>8
<1>12. \A k, l \in 1 .. Len(ch) : ch[k].name = ch[l].name => k = l
  BY <1>2, <1>6, <1>8, <1>9
<1>13. ASSUME NEW m \in Names, job.names[m] = i
       PROVE  (\E k \in 1 .. Len(ch) : ch[k].name = m /\ ch[k].new) <=> Marked(m) /\ m # n
  <2>1. ASSUME NEW k \in 1 .. Len(ch), ch[k].name = m, ch[k].new PROVE Marked(m) /\ m # n
    BY <1>2, <1>3, <1>5, <1>6, <1>8, <1>13, <2>1
  <2>2. ASSUME Marked(m), m # n PROVE \E k \in 1 .. Len(ch) : ch[k].name = m /\ ch[k].new
    <3>1. PICK j \in 1 .. Len(old) : old[j].name = m /\ old[j].new
      BY <1>3, <1>13, <2>2
    <3>2. PICK k \in 1 .. Len(old) - 1 : at0(k) = j
      BY <1>5, <1>10, <2>2, <3>1
    <3> QED BY <1>6, <3>1, <3>2
  <2> QED BY <2>1, <2>2
<1> QED BY <1>4, <1>6, <1>11, <1>12, <1>13 DEF i, old

LEMMA deletefileKeeps ==
    ASSUME ListInv, NEW n \in Names, deletefile(n)
    PROVE  ListInv'
<1> DEFINE i == job.names[n]
           ch == freeentry(chain[i], n)
<1>1. /\ Doing("shell") /\ UNCHANGED <<job, todo, r, c>> /\ Marked(n)
      /\ wanted' = wanted \ {n} /\ chain' = [chain EXCEPT ![i] = ch]
  BY DEF deletefile
<1>2. Framed(todo, AtShell) /\ OnList /\ i \in Inodes /\ Names' = Names
  BY <1>1, InShell, PlanIs DEF ListInv, Names
<1>3. Jumps' /\ Fields'
  BY <1>1 DEF ListInv, Jumps, Fields, Doing
<1>4. /\ ch \in Seq(Entry) /\ \A k \in 1 .. Len(ch) : job.names[ch[k].name] = i
      /\ \A k, l \in 1 .. Len(ch) : ch[k].name = ch[l].name => k = l
      /\ \A m \in Names : job.names[m] = i =>
             ((\E k \in 1 .. Len(ch) : ch[k].name = m /\ ch[k].new) <=> Marked(m) /\ m # n)
  BY <1>1, Deleted, Zenon DEF ListInv
<1>5. job.names[n] = i
  OBVIOUS
<1> HIDE DEF i, ch
<1>6. /\ Chains'
      /\ \A m \in Names : job.names[m] # i => Marked(m)' = Marked(m)
      /\ \A m \in Names : job.names[m] = i =>
             (Marked(m)' <=> \E k \in 1 .. Len(ch) : ch[k].name = m /\ ch[k].new)
  BY <1>1, <1>2, <1>4, OneChain DEF ListInv
<1>7. \A m \in Names : Marked(m)' <=> Marked(m) /\ m # n
  BY <1>4, <1>5, <1>6
<1>8. OnList'
  BY <1>1, <1>2, <1>7 DEF OnList
<1> QED BY <1>1, <1>2, <1>3, <1>6, <1>8 DEF ListInv, Progress, ProgressWith

-----------------------------------------------------------------------------
(* The invariant. *)

LEMMA ListInit ==
    ASSUME Init
    PROVE  ListInv
<1>1. job \in Plans /\ wanted = {} /\ ~r.getting
  BY DEF Init
<1>2. Fields
  BY DEF Init, Fields
<1>3. chain = [i \in Inodes |-> << >>]
  BY DEF Init
<1>4. Chains
  BY <1>3 DEF Chains, ChainOf
<1>5. OnList
  <2>1. ASSUME NEW n \in Names PROVE ~Marked(n)
    <3>1. chain[job.names[n]] = << >>
      BY <1>1, <1>3, PlanIs
    <3> QED BY <3>1 DEF Marked, PlaceOf
  <2> QED BY <1>1, <2>1 DEF OnList
<1>6. Framed(todo, AtShell)
  <2> DEFINE a == <<Op("setup"), Op("extractdirs"), Op("shell")>>
  <2>1. a \in Seq({Op("setup"), Op("extractdirs"), Op("shell")}) /\ Len(a) = 3
    OBVIOUS
  <2>2. IsSequence(a)
    BY <2>1, IsSeq
  <2>3. a[1].op \in Inner /\ a[2].op \in Inner /\ a[3].op = AtShell[1] /\ Len(AtShell) = 1
    BY DEF Op, Inner, AtShell
  <2>4. todo = a
    BY DEF Init
  <2> HIDE DEF a
  <2>5. \A i \in 1 .. (Len(a) - Len(AtShell)) : a[i].op \in Inner
    <3>1. \A i \in 1 .. (Len(a) - Len(AtShell)) : i = 1 \/ i = 2
      BY <2>1, <2>3
    <3> QED BY <2>3, <3>1
  <2>6. \A i \in 1 .. Len(AtShell) : a[Len(a) - Len(AtShell) + i].op = AtShell[i]
    <3>1. \A i \in 1 .. Len(AtShell) : i = 1 /\ Len(a) - Len(AtShell) + i = 3
      BY <2>1, <2>3
    <3> QED BY <2>3, <3>1
  <2>7. Len(a) >= Len(AtShell)
    BY <2>1, <2>3
  <2> QED BY <2>2, <2>4, <2>5, <2>6, <2>7 DEF Framed
<1> QED BY <1>1, <1>2, <1>4, <1>5, <1>6 DEF ListInv, Jumps, Progress, ProgressWith

LEMMA ListStutter ==
    ASSUME ListInv, UNCHANGED vars
    PROVE  ListInv'
<1>1. UNCHANGED <<job, todo, r, c, chain, wanted>>
  BY DEF vars
<1>2. Chains'
  BY <1>1, ChainsKept DEF ListInv
<1>3. Progress'
  BY <1>1, Undisturbed DEF ListInv, Progress
<1> QED BY <1>1, <1>2, <1>3 DEF ListInv, Fields, Jumps, Doing

LEMMA ListStep ==
    ASSUME ListInv, [Next]_vars
    PROVE  ListInv'
<1>1. ASSUME runcmdshell PROVE ListInv'
  BY <1>1, addfileKeeps, deletefileKeeps, extractKeeps, NoVolumeKeeps, quitKeeps DEF runcmdshell
<1>2. ASSUME setup \/ readtape \/ gethead \/ findinode \/ getfile \/ MoreOfFile \/ EndOfFile
             \/ skipmaps \/ skipdirs \/ extractdirs
      PROVE  ListInv'
  BY <1>2, setupKeeps, readtapeKeeps, getheadKeeps, findinodeKeeps, getfileKeeps, MoreOfFileKeeps,
     EndOfFileKeeps, skippingKeeps
<1>3. ASSUME getvol \/ Again \/ Open \/ Continue \/ Jump PROVE ListInv'
  BY <1>3, getvolKeeps, AgainKeeps, OpenKeeps, ContinueKeeps, JumpKeeps
<1>4. ASSUME createfiles \/ Bounds \/ Reject \/ Rejected \/ Choose \/ Search \/ Skip \/ Skipped
             \/ Extract \/ Extracted \/ createlinks
      PROVE  ListInv'
  BY <1>4, createfilesKeeps, BoundsKeeps, RejectKeeps, RejectedKeeps, ChooseKeeps, SearchKeeps, SkipKeeps,
     SkippedKeeps, ExtractKeeps, ExtractedKeeps, createlinksKeeps
<1> QED BY <1>1, <1>2, <1>3, <1>4, ListStutter DEF Next

(* In the shell, what is marked in the symbol table is what the user put   *)
(* on the list since the last extraction and did not take off: addfile     *)
(* and freeentry keep the other names of an inode, and createfiles with    *)
(* createlinks leaves no request behind, over whatever volumes.            *)
THEOREM ListKept == Spec => []Listed
<1>1. Init => ListInv
  BY ListInit
<1>2. ListInv /\ [Next]_vars => ListInv'
  BY ListStep
<1>3. ListInv => Listed
  BY InShell DEF Listed, OnList
<1> QED BY <1>1, <1>2, <1>3, PTL DEF Spec
=============================================================================
