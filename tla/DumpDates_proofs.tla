-------------------------- MODULE DumpDates_proofs --------------------------
(***************************************************************************)
(* The file dumpdates, for any number of dumps, file systems and levels:   *)
(* a dump goes back to a complete one of a lower level (ChainComplete),    *)
(* and the file tells the latest dump of each file system and level        *)
(* (Registered), however the dumps interleave and wherever they are        *)
(* killed.                                                                 *)
(***************************************************************************)
EXTENDS DumpDates, NaturalNumbers, SequenceTheorems

Before == {"start", "open", "create", "read"}
Places == Before \cup {"dump", "put", "write", "truncate", "ended", "failed"}

LineSet == [ok : {TRUE}, fs : {Filesys[p] : p \in Dumps}, level : Nat, date : Nat]
           \cup {Bad}

TypeInv ==
    /\ pc \in [Dumps -> Places]
    /\ date \in [Dumps -> Nat] /\ level \in [Dumps -> Nat]
    /\ ddate \in [Dumps -> Nat] /\ base \in [Dumps -> Int]
    /\ ddatev \in [Dumps -> Seq(LineSet)] /\ file \in Seq(LineSet)
    /\ clock \in Nat /\ done \in Seq(Dumps) /\ made \in 0 .. Len(done)

(* A dump has its level from the command line until it has read the file,   *)
(* and its date, which is not in the future, from its start on.             *)
StartInv ==
    /\ clock > 0
    /\ \A p \in Dumps :
          /\ date[p] <= clock
          /\ pc[p] # "start" => date[p] > 0
          /\ pc[p] \in Before => level[p] = Level[p] /\ ddate[p] = 0

(* Only the dump that has the lock is between its locking and its           *)
(* truncating of the file, and one that has entered itself is beyond.       *)
LockInv ==
    /\ \A p \in Dumps : pc[p] \in {"write", "truncate"} <=> lock = p
    /\ \A q \in ToSet(done) : pc[q] \in {"truncate", "ended", "failed"}

(* Each line, but a bad one, is that of a dump that has entered itself.     *)
KnownLines(lines) ==
    \A i \in DOMAIN lines :
        lines[i].ok => \E q \in ToSet(done) : lines[i] = Line(q)

OriginInv ==
    /\ KnownLines(file)
    /\ \A p \in Dumps : pc[p] = "write" =>
          \A i \in DOMAIN ddatev[p] :
              ddatev[p][i] = Line(p)
              \/ \E q \in ToSet(done) : ddatev[p][i] = Line(q)

DatesInv ==
    TypeInv /\ StartInv /\ LockInv /\ OriginInv /\ ChainComplete

-----------------------------------------------------------------------------
SameKey(k, l) == k.fs = l.fs /\ k.level = l.level

OneEach(lines) ==
    \A i, j \in DOMAIN lines : i # j => ~SameKey(lines[i], lines[j])

(* A file that has a bad line has no other. *)
FileInv == file = <<Bad>> \/ \A i \in DOMAIN file : file[i].ok

(* What is about to be written has the dump's own line, keeps the lines of  *)
(* other keys that the file has by now, and is no shorter.                  *)
WriteInv ==
    \A p \in Dumps : pc[p] = "write" =>
        /\ OneEach(ddatev[p])
        /\ \A i \in DOMAIN ddatev[p] : ddatev[p][i].ok
        /\ \E i \in DOMAIN ddatev[p] : ddatev[p][i] = Line(p)
        /\ \A i \in DOMAIN Lines(file) : ~SameKey(Lines(file)[i], Line(p)) =>
              \E j \in DOMAIN ddatev[p] : ddatev[p][j] = Lines(file)[i]
        /\ Len(file) <= Len(ddatev[p])

(* What is about to be cut is what has been written, unless the file has    *)
(* been created anew meanwhile.                                             *)
TruncateInv ==
    \A p \in Dumps : pc[p] = "truncate" =>
        /\ ddatev[p] # << >>
        /\ file = ddatev[p] \/ (file = << >> /\ made = Len(done))

RegisterInv == DatesInv /\ FileInv /\ WriteInv /\ TruncateInv /\ Registered

-----------------------------------------------------------------------------
(* The operators on lines. *)

(* Reading yields the lines before the first bad one, all of them when      *)
(* there is none.                                                           *)
LEMMA LinesRead ==
    ASSUME NEW f \in Seq(LineSet)
    PROVE  /\ Lines(f) \in Seq(LineSet)
           /\ DOMAIN Lines(f) \subseteq DOMAIN f
           /\ \A i \in DOMAIN Lines(f) : Lines(f)[i] = f[i] /\ f[i].ok
           /\ (\A i \in DOMAIN f : f[i].ok) => Lines(f) = f
<1> DEFINE B == {i \in 1 .. Len(f) : ~f[i].ok}
<1>1. Len(f) \in Nat /\ DOMAIN f = 1 .. Len(f) /\ B \subseteq Nat
  OBVIOUS
<1>2. CASE B = {}
  <2>1. Lines(f) = f
    BY <1>2 DEF Lines, SelectInSeq
  <2> QED BY <1>1, <1>2, <2>1
<1>3. CASE B # {}
  <2> DEFINE b == Min(B)
  <2>1. b \in B /\ \A i \in B : b <= i
    BY <1>1, <1>3, MinIs
  <2>2. b \in 1 .. Len(f) /\ ~f[b].ok /\ b # 0
    BY <1>1, <2>1
  <2>3. Lines(f) = SubSeq(f, 1, b - 1)
    BY <1>3, <2>2 DEF Lines, SelectInSeq
  <2>4. \A i \in 1 .. b - 1 : i \in 1 .. Len(f) /\ f[i].ok
    <3> HIDE DEF b
    <3>1. SUFFICES ASSUME NEW i \in 1 .. b - 1 PROVE i \in 1 .. Len(f) /\ f[i].ok
      OBVIOUS
    <3>2. i \in 1 .. Len(f) /\ ~(b <= i)
      BY <1>1, <2>2
    <3> QED BY <2>1, <3>2
  <2>5. /\ SubSeq(f, 1, b - 1) \in Seq(LineSet)
        /\ DOMAIN SubSeq(f, 1, b - 1) = 1 .. b - 1
        /\ \A i \in 1 .. b - 1 : SubSeq(f, 1, b - 1)[i] = f[i]
    <3> HIDE DEF b, B
    <3> QED BY <1>1, <2>2
  <2> QED BY <1>1, <2>2, <2>3, <2>4, <2>5
<1> QED BY <1>2, <1>3

(* Entering a line replaces the one of its key, or adds it at the end. *)
LEMMA LineEntered ==
    ASSUME NEW lines \in Seq(LineSet), NEW l \in LineSet
    PROVE  \/ /\ \A i \in DOMAIN lines : ~SameKey(lines[i], l)
              /\ Enter(lines, l) = Append(lines, l)
           \/ \E k \in DOMAIN lines : /\ SameKey(lines[k], l)
                                      /\ Enter(lines, l) = [lines EXCEPT ![k] = l]
<1> DEFINE K == {i \in 1 .. Len(lines) : lines[i].fs = l.fs /\ lines[i].level = l.level}
<1>1. Len(lines) \in Nat /\ DOMAIN lines = 1 .. Len(lines) /\ K \subseteq Nat
  OBVIOUS
<1>2. CASE K = {}
  BY <1>1, <1>2 DEF Enter, SelectInSeq, SameKey
<1>3. CASE K # {}
  <2> DEFINE k == Min(K)
  <2>1. k \in K
    BY <1>1, <1>3, MinIs
  <2>2. k \in DOMAIN lines /\ SameKey(lines[k], l) /\ k # 0
    BY <1>1, <2>1 DEF SameKey
  <2>3. Enter(lines, l) = [lines EXCEPT ![k] = l]
    BY <1>3, <2>2 DEF Enter, SelectInSeq
  <2> QED BY <2>2, <2>3
<1> QED BY <1>2, <1>3

LEMMA EnterGives ==
    ASSUME NEW lines \in Seq(LineSet), NEW l \in LineSet
    PROVE  /\ Enter(lines, l) \in Seq(LineSet)
           /\ Len(lines) <= Len(Enter(lines, l)) /\ Enter(lines, l) # << >>
           /\ \E i \in DOMAIN Enter(lines, l) : Enter(lines, l)[i] = l
           /\ \A i \in DOMAIN Enter(lines, l) :
                 Enter(lines, l)[i] = l \/ \E j \in DOMAIN lines : Enter(lines, l)[i] = lines[j]
           /\ \A i \in DOMAIN lines : ~SameKey(lines[i], l) =>
                 \E j \in DOMAIN Enter(lines, l) : Enter(lines, l)[j] = lines[i]
           /\ OneEach(lines) => OneEach(Enter(lines, l))
<1> DEFINE e == Enter(lines, l)
<1>1. Len(lines) \in Nat /\ DOMAIN lines = 1 .. Len(lines)
  OBVIOUS
<1>2. CASE /\ \A i \in DOMAIN lines : ~SameKey(lines[i], l)
           /\ e = Append(lines, l)
  <2>1. /\ e \in Seq(LineSet) /\ Len(e) = Len(lines) + 1
        /\ DOMAIN e = 1 .. Len(lines) + 1 /\ e[Len(lines) + 1] = l
        /\ \A i \in DOMAIN lines : i \in DOMAIN e /\ e[i] = lines[i]
        /\ \A i \in DOMAIN e : i = Len(lines) + 1 \/ i \in DOMAIN lines
    <3> HIDE DEF e
    <3> QED BY <1>1, <1>2
  <2>2. OneEach(lines) => OneEach(e)
    <3> HIDE DEF e
    <3> QED BY <1>2, <2>1 DEF OneEach, SameKey
  <2>3. \E i \in DOMAIN e : e[i] = l
    <3> HIDE DEF e
    <3> QED BY <1>1, <2>1
  <2>4. Len(lines) <= Len(e) /\ e # << >>
    <3> HIDE DEF e
    <3> QED BY <1>1, <2>1
  <2> QED
    <3> HIDE DEF e
    <3>1. e = Enter(lines, l)
      BY DEF e
    <3> QED BY <2>1, <2>2, <2>3, <2>4, <3>1
<1>3. ASSUME NEW k \in DOMAIN lines, SameKey(lines[k], l),
             e = [lines EXCEPT ![k] = l]
      PROVE  /\ e \in Seq(LineSet) /\ Len(e) = Len(lines) /\ DOMAIN e = DOMAIN lines
             /\ e[k] = l /\ \A i \in DOMAIN lines : i # k => e[i] = lines[i]
  <2> HIDE DEF e
  <2> QED BY <1>1, <1>3
<1>4. ASSUME NEW k \in DOMAIN lines, SameKey(lines[k], l),
             e = [lines EXCEPT ![k] = l]
      PROVE  OneEach(lines) => OneEach(e)
  <2> HIDE DEF e
  <2> QED BY <1>3, <1>4 DEF OneEach, SameKey
<1>5. CASE \E k \in DOMAIN lines : SameKey(lines[k], l) /\ e = [lines EXCEPT ![k] = l]
  <2>1. PICK k \in DOMAIN lines : SameKey(lines[k], l) /\ e = [lines EXCEPT ![k] = l]
    BY <1>5
  <2>2. e # << >>
    <3> HIDE DEF e
    <3> QED BY <1>1, <1>3, <2>1
  <2>3. e = Enter(lines, l)
    BY DEF e
  <2> HIDE DEF e
  <2>4. /\ e \in Seq(LineSet) /\ Len(e) = Len(lines) /\ DOMAIN e = DOMAIN lines
        /\ e[k] = l /\ \A i \in DOMAIN lines : i # k => e[i] = lines[i]
    BY <1>3, <2>1
  <2>5. Len(lines) <= Len(e)
    BY <1>1, <2>4
  <2>6. OneEach(lines) => OneEach(e)
    BY <1>4, <2>1
  <2>7. \A i \in DOMAIN lines : ~SameKey(lines[i], l) => e[i] = lines[i]
    BY <2>1, <2>4
  <2> QED BY <2>1, <2>2, <2>3, <2>4, <2>5, <2>6, <2>7
<1> QED BY <1>2, <1>5, LineEntered

Entered(e, lines, l) ==
    /\ e \in Seq(LineSet) /\ Len(lines) <= Len(e) /\ e # << >>
    /\ \E i \in DOMAIN e : e[i] = l
    /\ \A i \in DOMAIN e : e[i] = l \/ \E j \in DOMAIN lines : e[i] = lines[j]
    /\ \A i \in DOMAIN lines : ~SameKey(lines[i], l) => \E j \in DOMAIN e : e[j] = lines[i]
    /\ OneEach(lines) => OneEach(e)

LEMMA EnterIs ==
    ASSUME NEW lines \in Seq(LineSet), NEW l \in LineSet
    PROVE  Entered(Enter(lines, l), lines, l)
BY EnterGives DEF Entered

-----------------------------------------------------------------------------
(* The types. *)

LEMMA LineType ==
    ASSUME TypeInv, NEW p \in Dumps
    PROVE  Line(p) \in LineSet /\ Line(p).ok
BY DEF TypeInv, Line, LineSet

LEMMA OkLine ==
    ASSUME NEW l \in LineSet, l.ok
    PROVE  l.level \in Nat /\ l.date \in Nat
<1>1. l # Bad
  BY DEF Bad
<1>2. l \in [ok : {TRUE}, fs : {Filesys[p] : p \in Dumps}, level : Nat, date : Nat]
  BY <1>1 DEF LineSet
<1> QED BY <1>2

(* What getdumptime finds: nothing, or a line of a lower level of the file  *)
(* system and of the newest date, which is not zero.                        *)
LEMMA LowerFound ==
    ASSUME NEW lines \in Seq(LineSet), NEW p \in Dumps, NEW b \in Nat,
           \A i \in DOMAIN lines : lines[i].ok /\ lines[i].date <= b
    PROVE  LET lower  == Lower(p, lines)
               newest == Max({0} \cup {lines[i].date : i \in lower})
               first  == Min({i \in lower : lines[i].date = newest})
           IN  /\ newest \in Nat
               /\ newest # 0 => first \in lower /\ lines[first].date = newest
<1> DEFINE lower  == Lower(p, lines)
           D      == {0} \cup {lines[i].date : i \in lower}
           newest == Max(D)
           F      == {i \in lower : lines[i].date = newest}
<1>1. Len(lines) \in Nat /\ DOMAIN lines = 1 .. Len(lines)
  OBVIOUS
<1>2. lower \subseteq DOMAIN lines
  BY DEF Lower
<1>3. \A i \in lower : lines[i].date \in Nat /\ lines[i].date <= b
  BY <1>2, OkLine
<1>4. D \subseteq Nat /\ D # {} /\ \A n \in D : n <= b
  <2> HIDE DEF lower
  <2> QED BY <1>3
<1>5. newest \in D
  <2> HIDE DEF D
  <2> QED BY <1>4, MaxIs
<1>6. ASSUME newest # 0 PROVE Min(F) \in lower /\ lines[Min(F)].date = newest
  <2> HIDE DEF newest
  <2>1. F # {}
    BY <1>5, <1>6
  <2>2. F \subseteq Nat
    BY <1>1, <1>2
  <2>3. Min(F) \in F
    <3> HIDE DEF F
    <3> QED BY <2>1, <2>2, MinIs
  <2> QED BY <2>3
<1> QED BY <1>4, <1>5, <1>6

LEMMA TypeInit == Init => TypeInv
BY DumpsAssumption DEF Init, TypeInv, Places, Before, LineSet

(* The dates that are read are in the past. *)
LEMMA DatesPast ==
    ASSUME TypeInv, StartInv, OriginInv
    PROVE  \A i \in DOMAIN Lines(file) :
               Lines(file)[i].ok /\ Lines(file)[i].date <= clock
<1>1. file \in Seq(LineSet) /\ done \in Seq(Dumps)
  BY DEF TypeInv
<1>2. SUFFICES ASSUME NEW i \in DOMAIN Lines(file)
               PROVE  Lines(file)[i].ok /\ Lines(file)[i].date <= clock
  OBVIOUS
<1>3. i \in DOMAIN file /\ Lines(file)[i] = file[i] /\ file[i].ok
  BY <1>1, LinesRead
<1>4. PICK q \in ToSet(done) : file[i] = Line(q)
  BY <1>3 DEF OriginInv, KnownLines
<1>5. q \in Dumps
  BY <1>1 DEF ToSet
<1> QED BY <1>3, <1>4, <1>5 DEF StartInv, Line

LEMMA TypeStep ==
    ASSUME TypeInv, StartInv, OriginInv, Step
    PROVE  TypeInv'
<1> USE DEF TypeInv
<1>1. ASSUME NEW p \in Dumps, Start(p) PROVE TypeInv'
  BY <1>1 DEF Start, Goto, Places, Before
<1>2. ASSUME NEW p \in Dumps, Open(p) PROVE TypeInv'
  <2>1. \E to \in Places : pc' = [pc EXCEPT ![p] = to]
    BY <1>2 DEF Open, Goto, Places, Before
  <2>2. level' = level \/ level' = [level EXCEPT ![p] = 0]
    BY <1>2 DEF Open
  <2>3. UNCHANGED <<date, ddate, base, ddatev, file, exists, lock, clock, done, made>>
    BY <1>2 DEF Open
  <2>4. pc' \in [Dumps -> Places]
    BY <2>1
  <2>5. level \in [Dumps -> Nat] /\ [level EXCEPT ![p] = 0] \in [Dumps -> Nat]
    OBVIOUS
  <2>6. level' \in [Dumps -> Nat]
    BY <2>2, <2>5, Zenon
  <2> QED BY <2>3, <2>4, <2>6
<1>3. ASSUME NEW p \in Dumps, Create(p) PROVE TypeInv'
  BY <1>3 DEF Create, Goto, mine, Places, Before
<1>4. ASSUME NEW p \in Dumps, ReadDates(p) PROVE TypeInv'
  <2> DEFINE lines  == Lines(file)
             lower  == Lower(p, lines)
             newest == Max({0} \cup {lines[i].date : i \in lower})
             first  == Min({i \in lower : lines[i].date = newest})
  <2>1. lines \in Seq(LineSet)
    BY LinesRead
  <2>2. newest \in Nat /\ (newest # 0 => first \in lower)
    BY <2>1, LowerFound, DatesPast
  <2>3. newest # 0 => lines[first].level \in Int
    <3>1. lower \subseteq DOMAIN lines
      BY DEF Lower
    <3>2. ASSUME newest # 0 PROVE lines[first].level \in Int
      <4> HIDE DEF newest, lines, lower
      <4>1. lines[first].ok /\ lines[first] \in LineSet
        BY <2>1, <2>2, <3>1, <3>2, DatesPast DEF lines
      <4> QED BY <4>1, OkLine
    <3> QED BY <3>2
  <2>4. /\ ddatev' = [ddatev EXCEPT ![p] = lines]
        /\ IF newest = 0
           THEN level' = [level EXCEPT ![p] = 0] /\ UNCHANGED <<ddate, base>>
           ELSE /\ ddate' = [ddate EXCEPT ![p] = newest]
                /\ base' = [base EXCEPT ![p] = lines[first].level]
                /\ UNCHANGED level
        /\ UNCHANGED <<date, file, exists, lock, clock, done, made>>
        /\ pc' = [pc EXCEPT ![p] = "dump"]
    BY <1>4 DEF ReadDates, Goto
  <2> HIDE DEF newest, lines, lower, first
  <2> QED BY <2>1, <2>2, <2>3, <2>4 DEF Places
<1>5. ASSUME NEW p \in Dumps, Complete(p) PROVE TypeInv'
  BY <1>5 DEF Complete, Goto, mine, Places
<1>6. ASSUME NEW p \in Dumps, PutLock(p) PROVE TypeInv'
  <2>1. Enter(Lines(file), Line(p)) \in Seq(LineSet)
    BY LinesRead, EnterGives, LineType
  <2> QED BY <1>6, <2>1 DEF PutLock, Goto, Places
<1>7. ASSUME NEW p \in Dumps, PutWrite(p) PROVE TypeInv'
  <2>1. ddatev[p] \in Seq(LineSet) /\ file \in Seq(LineSet)
    OBVIOUS
  <2>2. SubSeq(file, Len(ddatev[p]) + 1, Len(file)) \in Seq(LineSet)
    BY <2>1
  <2>3. file' \in Seq(LineSet)
    BY <1>7, <2>1, <2>2 DEF PutWrite
  <2>4. done' \in Seq(Dumps) /\ made' \in 0 .. Len(done')
    BY <1>7 DEF PutWrite
  <2> QED BY <1>7, <2>3, <2>4 DEF PutWrite, Goto, mine, Places
<1>8. ASSUME NEW p \in Dumps, PutTruncate(p) PROVE TypeInv'
  <2>1. ddatev[p] \in Seq(LineSet) /\ file \in Seq(LineSet) /\ Bad \in LineSet
    BY DEF LineSet
  <2>2. file' \in Seq(LineSet)
    BY <1>8, <2>1 DEF PutTruncate
  <2> QED BY <1>8, <2>2 DEF PutTruncate, Goto, mine, Places
<1>9. ASSUME NEW p \in Dumps, Fail(p) PROVE TypeInv'
  BY <1>9 DEF Fail, mine, Places
<1>10. CASE AllEnded
  BY <1>10 DEF AllEnded, vars, mine
<1> QED BY <1>1, <1>2, <1>3, <1>4, <1>5, <1>6, <1>7, <1>8, <1>9, <1>10 DEF Step

-----------------------------------------------------------------------------
(* ChainComplete. *)

LEMMA SetOfSeq ==
    ASSUME NEW T, NEW s \in Seq(T)
    PROVE  ToSet(s) \subseteq T
BY DEF ToSet

LEMMA SetOfAppend ==
    ASSUME NEW T, NEW s \in Seq(T), NEW x \in T
    PROVE  ToSet(Append(s, x)) = ToSet(s) \cup {x}
<1>1. Len(s) \in Nat /\ DOMAIN s = 1 .. Len(s)
  OBVIOUS
<1>2. /\ DOMAIN Append(s, x) = 1 .. Len(s) + 1
      /\ Append(s, x)[Len(s) + 1] = x
      /\ \A i \in 1 .. Len(s) : Append(s, x)[i] = s[i]
  BY <1>1
<1>3. \A i \in DOMAIN Append(s, x) : i \in DOMAIN s \/ i = Len(s) + 1
  BY <1>1, <1>2
<1>4. \A y : y \in ToSet(Append(s, x)) <=> y \in ToSet(s) \cup {x}
  <2>1. Len(s) + 1 \in DOMAIN Append(s, x) /\ DOMAIN s \subseteq DOMAIN Append(s, x)
    BY <1>1, <1>2
  <2>2. \A i \in DOMAIN s : Append(s, x)[i] = s[i]
    BY <1>1, <1>2
  <2> QED BY <1>2, <1>3, <2>1, <2>2, Zenon DEF ToSet
<1> QED BY <1>4

(* A dump that has entered itself keeps its line. *)
LEMMA LineKept ==
    ASSUME TypeInv, LockInv, Step, NEW q \in ToSet(done)
    PROVE  /\ q \in ToSet(done') /\ q \in Dumps
           /\ date'[q] = date[q] /\ level'[q] = level[q] /\ Line(q)' = Line(q)
<1>0. done \in Seq(Dumps)
  BY DEF TypeInv
<1>1. /\ q \in Dumps /\ pc[q] \in {"truncate", "ended", "failed"}
  BY <1>0, SetOfSeq DEF LockInv
<1>2. q \in ToSet(done')
  <2>1. done' = done \/ \E p \in Dumps : done' = Append(done, p)
    BY DEF Step, Start, Open, Create, ReadDates, Complete, PutLock, PutWrite,
           PutTruncate, Fail, AllEnded, vars
  <2>2. \A p \in Dumps : ToSet(Append(done, p)) = ToSet(done) \cup {p}
    BY <1>0, SetOfAppend
  <2> QED BY <2>1, <2>2
<1>3. date'[q] = date[q]
  BY <1>1 DEF TypeInv, Step, Start, Open, Create, ReadDates, Complete, PutLock,
              PutWrite, PutTruncate, Fail, AllEnded, Goto, mine, vars
<1>4. level'[q] = level[q]
  <2>1. \/ level' = level
        \/ \E p \in Dumps : pc[p] \in {"open", "read"} /\ level' = [level EXCEPT ![p] = 0]
    BY DEF Step, Start, Open, Create, ReadDates, Complete, PutLock, PutWrite,
           PutTruncate, Fail, AllEnded, Goto, mine, vars
  <2> QED BY <1>1, <2>1 DEF TypeInv
<1> QED BY <1>1, <1>2, <1>3, <1>4 DEF Line

LEMMA StartStep ==
    ASSUME TypeInv, StartInv, Step
    PROVE  StartInv'
<1> USE DEF TypeInv, StartInv, Before
<1>1. ASSUME NEW p \in Dumps, Start(p) PROVE StartInv'
  BY <1>1 DEF Start, Goto
<1>2. ASSUME NEW p \in Dumps, Open(p) PROVE StartInv'
  BY <1>2 DEF Open, Goto
<1>3. ASSUME NEW p \in Dumps, Create(p) PROVE StartInv'
  BY <1>3 DEF Create, Goto, mine
<1>4. ASSUME NEW p \in Dumps, ReadDates(p) PROVE StartInv'
  <2>1. \A q \in Dumps : q # p => level'[q] = level[q] /\ ddate'[q] = ddate[q]
    BY <1>4 DEF ReadDates
  <2>2. UNCHANGED <<clock, date>> /\ pc[p] = "read" /\ pc' = [pc EXCEPT ![p] = "dump"]
    BY <1>4 DEF ReadDates, Goto
  <2> QED BY <2>1, <2>2
<1>5. ASSUME NEW p \in Dumps, Complete(p) PROVE StartInv'
  BY <1>5 DEF Complete, Goto, mine
<1>6. ASSUME NEW p \in Dumps, PutLock(p) PROVE StartInv'
  BY <1>6 DEF PutLock, Goto
<1>7. ASSUME NEW p \in Dumps, PutWrite(p) PROVE StartInv'
  BY <1>7 DEF PutWrite, Goto, mine
<1>8. ASSUME NEW p \in Dumps, PutTruncate(p) PROVE StartInv'
  BY <1>8 DEF PutTruncate, Goto, mine
<1>9. ASSUME NEW p \in Dumps, Fail(p) PROVE StartInv'
  BY <1>9 DEF Fail, mine
<1>10. CASE AllEnded
  BY <1>10 DEF AllEnded, vars, mine
<1> QED BY <1>1, <1>2, <1>3, <1>4, <1>5, <1>6, <1>7, <1>8, <1>9, <1>10 DEF Step

LEMMA LockStep ==
    ASSUME TypeInv, LockInv, Step
    PROVE  LockInv'
<1> USE DEF LockInv
<1>0. /\ pc \in [Dumps -> Places] /\ Nobody \notin Dumps
      /\ done \in Seq(Dumps) /\ ToSet(done) \subseteq Dumps
  <2>1. done \in Seq(Dumps)
    BY DEF TypeInv
  <2> QED BY <2>1, SetOfSeq, DumpsAssumption DEF TypeInv
<1>1. ASSUME NEW p \in Dumps, NEW from, NEW to, Goto(p, from, to),
             from \notin {"write", "truncate", "ended", "failed"},
             to \notin {"write", "truncate"}, UNCHANGED <<lock, done>>
      PROVE  LockInv'
  BY <1>0, <1>1 DEF Goto
<1>2. ASSUME NEW p \in Dumps, PutLock(p) PROVE LockInv'
  BY <1>0, <1>2 DEF PutLock, Goto
<1>3. ASSUME NEW p \in Dumps, PutWrite(p) PROVE LockInv'
  <2>1. ToSet(done') = ToSet(done) \cup {p}
    BY <1>0, <1>3, SetOfAppend DEF PutWrite
  <2>2. pc[p] = "write" /\ pc' = [pc EXCEPT ![p] = "truncate"] /\ lock' = lock
    BY <1>3 DEF PutWrite, Goto
  <2> QED BY <1>0, <2>1, <2>2
<1>4. ASSUME NEW p \in Dumps, PutTruncate(p) \/ Fail(p) PROVE LockInv'
  <2>1. /\ pc[p] \in {"dump", "write", "truncate"}
        /\ \E to \in {"ended", "failed"} : pc' = [pc EXCEPT ![p] = to]
        /\ lock' = IF lock = p THEN Nobody ELSE lock
        /\ done' = done
    BY <1>4 DEF PutTruncate, Fail, Goto
  <2>2. pc'[p] \in {"ended", "failed"} /\ \A q \in Dumps : q # p => pc'[q] = pc[q]
    BY <1>0, <2>1
  <2>3. \A q \in Dumps : pc'[q] \in {"write", "truncate"} <=> lock' = q
    BY <1>0, <2>1, <2>2
  <2> QED BY <1>0, <2>1, <2>2, <2>3
<1>5. CASE AllEnded
  BY <1>5 DEF AllEnded, vars
<1>6. ASSUME NEW p \in Dumps,
             Start(p) \/ Open(p) \/ Create(p) \/ ReadDates(p) \/ Complete(p)
      PROVE  LockInv'
  <2>1. UNCHANGED <<lock, done>>
    BY <1>6 DEF Start, Open, Create, ReadDates, Complete
  <2>2. \E from \in Before \cup {"dump"}, to \in Before \cup {"dump", "put", "ended"} :
            Goto(p, from, to)
    BY <1>6 DEF Start, Open, Create, ReadDates, Complete, Before
  <2> QED BY <1>1, <2>1, <2>2 DEF Before
<1> QED BY <1>2, <1>3, <1>4, <1>5, <1>6 DEF Step

LEMMA KnownKept ==
    ASSUME TypeInv, LockInv, Step, NEW l, \E q \in ToSet(done) : l = Line(q)
    PROVE  \E q \in ToSet(done') : l = Line(q)'
BY LineKept

(* What a dump is about to write stays as it is, and its line. *)
LEMMA WriterKept ==
    ASSUME TypeInv, Step, NEW p \in Dumps, pc[p] = "write", pc'[p] = "write"
    PROVE  ddatev'[p] = ddatev[p] /\ Line(p)' = Line(p)
<1>1. ddatev'[p] = ddatev[p]
  BY DEF TypeInv, Step, Start, Open, Create, ReadDates, Complete, PutLock,
         PutWrite, PutTruncate, Fail, AllEnded, Goto, mine, vars
<1>2. date'[p] = date[p]
  BY DEF TypeInv, Step, Start, Open, Create, ReadDates, Complete, PutLock,
         PutWrite, PutTruncate, Fail, AllEnded, Goto, mine, vars
<1>3. level'[p] = level[p]
  <2>1. \/ level' = level
        \/ \E q \in Dumps : pc[q] \in {"open", "read"} /\ level' = [level EXCEPT ![q] = 0]
    BY DEF Step, Start, Open, Create, ReadDates, Complete, PutLock, PutWrite,
           PutTruncate, Fail, AllEnded, Goto, mine, vars
  <2> QED BY <2>1 DEF TypeInv
<1> QED BY <1>1, <1>2, <1>3 DEF Line

(* Only PutLock leads to writing, and only PutWrite to truncating. *)
LEMMA ComesTo ==
    ASSUME TypeInv, Step, NEW p \in Dumps
    PROVE  /\ pc'[p] = "write" => pc[p] = "write" \/ PutLock(p)
           /\ pc'[p] = "truncate" => pc[p] = "truncate" \/ PutWrite(p)
<1> DEFINE Elsewhere == pc'[p] = pc[p] \/ pc'[p] \notin {"write", "truncate"}
<1>1. ASSUME NEW q \in Dumps, NEW x, NEW y, Goto(q, x, y)
      PROVE  IF q = p THEN pc'[p] = y ELSE pc'[p] = pc[p]
  BY <1>1 DEF Goto, TypeInv
<1>2. ASSUME NEW q \in Dumps, Start(q) \/ Open(q) \/ Create(q) \/ ReadDates(q) \/ Complete(q)
      PROVE  Elsewhere
  <2>1. \E x, y : Goto(q, x, y) /\ y \notin {"write", "truncate"}
    BY <1>2 DEF Start, Open, Create, ReadDates, Complete
  <2> QED BY <1>1, <2>1
<1>3. ASSUME NEW q \in Dumps, PutLock(q)
      PROVE  IF q = p THEN PutLock(p) /\ pc'[p] = "write" ELSE pc'[p] = pc[p]
  BY <1>1, <1>3 DEF PutLock
<1>4. ASSUME NEW q \in Dumps, PutWrite(q)
      PROVE  IF q = p THEN PutWrite(p) /\ pc'[p] = "truncate" ELSE pc'[p] = pc[p]
  BY <1>1, <1>4 DEF PutWrite
<1>5. ASSUME NEW q \in Dumps, PutTruncate(q) PROVE Elsewhere
  BY <1>1, <1>5 DEF PutTruncate
<1>6. ASSUME NEW q \in Dumps, Fail(q) PROVE Elsewhere
  BY <1>6 DEF Fail, TypeInv
<1>7. CASE AllEnded
  BY <1>7 DEF AllEnded, vars
<1> QED BY <1>2, <1>3, <1>4, <1>5, <1>6, <1>7 DEF Step

LEMMA OriginStep ==
    ASSUME TypeInv, LockInv, OriginInv, Step
    PROVE  OriginInv'
<1> DEFINE Known(l)  == \E q \in ToSet(done) : l = Line(q)
           Known1(l) == \E q \in ToSet(done') : l = Line(q)'
<1>1. \A l : Known(l) => Known1(l)
  BY KnownKept
<1>2. file \in Seq(LineSet) /\ done \in Seq(Dumps) /\ pc \in [Dumps -> Places]
  BY DEF TypeInv
<1>3. KnownLines(file)'
  <2> SUFFICES ASSUME NEW i \in DOMAIN file', file'[i].ok PROVE Known1(file'[i])
    BY DEF KnownLines
  <2>1. CASE file' = file
    BY <1>1, <2>1 DEF OriginInv, KnownLines
  <2>2. CASE \E p \in Dumps : PutWrite(p)
    <3>1. PICK p \in Dumps : PutWrite(p)
      BY <2>2
    <3> DEFINE d == ddatev[p]
               r == SubSeq(file, Len(d) + 1, Len(file))
    <3>2. file' = d \o r /\ d \in Seq(LineSet) /\ pc[p] = "write"
      BY <3>1 DEF PutWrite, Goto, TypeInv
    <3>3. p \in ToSet(done') /\ Line(p)' = Line(p)
      BY <1>2, <3>1, SetOfAppend DEF PutWrite, mine, Line
    <3>4. \A j \in DOMAIN d : Known1(d[j])
      <4>1. \A j \in DOMAIN d : d[j] = Line(p) \/ Known(d[j])
        BY <3>2 DEF OriginInv
      <4> QED BY <1>1, <3>3, <4>1
    <3>5. /\ r \in Seq(LineSet)
          /\ \A j \in DOMAIN r : \E k \in DOMAIN file : r[j] = file[k]
      <4>1. Len(d) \in Nat /\ Len(file) \in Nat /\ DOMAIN file = 1 .. Len(file)
        BY <1>2, <3>2
      <4>2. /\ r \in Seq(LineSet)
            /\ \A j \in DOMAIN r : /\ j + Len(d) \in 1 .. Len(file)
                                   /\ r[j] = file[j + Len(d)]
        <5> HIDE DEF d
        <5> QED BY <1>2, <4>1
      <4> HIDE DEF r
      <4> QED BY <4>1, <4>2
    <3>6. \A j \in DOMAIN r : r[j].ok => Known1(r[j])
      BY <1>1, <3>5 DEF OriginInv, KnownLines
    <3>7. (\E j \in DOMAIN d : file'[i] = d[j]) \/ (\E j \in DOMAIN r : file'[i] = r[j])
      <4> HIDE DEF r, d
      <4>1. i \in 1 .. Len(d) + Len(r)
        BY <3>2, <3>5
      <4>2. CASE i \in 1 .. Len(d)
        BY <3>2, <3>5, <4>2
      <4>3. CASE ~(i \in 1 .. Len(d))
        <5>1. i - Len(d) \in 1 .. Len(r) /\ file'[i] = r[i - Len(d)]
          BY <3>2, <3>5, <4>1, <4>3
        <5> QED BY <3>5, <5>1
      <4> QED BY <4>2, <4>3
    <3> HIDE DEF d, r
    <3> QED BY <3>4, <3>6, <3>7
  <2>3. CASE \E p \in Dumps : PutTruncate(p)
    <3>1. PICK n \in Nat : file' = IF Len(file) < n THEN Append(file, Bad) ELSE SubSeq(file, 1, n)
      BY <2>3 DEF PutTruncate, TypeInv
    <3>2. file'[i] = Bad \/ \E k \in DOMAIN file : file'[i] = file[k]
      BY <1>2, <3>1
    <3>3. ~Bad.ok
      BY DEF Bad
    <3> QED BY <1>1, <3>2, <3>3 DEF OriginInv, KnownLines
  <2>4. CASE file' = << >>
    BY <2>4
  <2> QED BY <2>1, <2>2, <2>3, <2>4
       DEF Step, Start, Open, Create, ReadDates, Complete, PutLock, Fail,
           AllEnded, mine, vars
<1>4. ASSUME NEW p \in Dumps, pc'[p] = "write"
      PROVE  \A i \in DOMAIN ddatev'[p] : ddatev'[p][i] = Line(p)' \/ Known1(ddatev'[p][i])
  <2>1. CASE pc[p] = "write"
    BY <1>1, <1>4, <2>1, WriterKept DEF OriginInv
  <2>2. CASE PutLock(p)
    <3> DEFINE lines == Lines(file)
    <3>1. lines \in Seq(LineSet) /\ \A j \in DOMAIN lines : Known(lines[j])
      BY <1>2, LinesRead DEF OriginInv, KnownLines
    <3>2. ddatev'[p] = Enter(lines, Line(p)) /\ Line(p)' = Line(p)
      BY <2>2 DEF PutLock, TypeInv, Line
    <3>3. \A i \in DOMAIN Enter(lines, Line(p)) :
              \/ Enter(lines, Line(p))[i] = Line(p)
              \/ \E j \in DOMAIN lines : Enter(lines, Line(p))[i] = lines[j]
      <4> HIDE DEF lines
      <4>1. Entered(Enter(lines, Line(p)), lines, Line(p))
        BY <3>1, EnterIs, LineType
      <4> QED BY <4>1 DEF Entered
    <3> HIDE DEF lines
    <3> QED BY <1>1, <3>1, <3>2, <3>3
  <2>3. pc[p] = "write" \/ PutLock(p)
    BY <1>1, <1>4, ComesTo
  <2> QED BY <2>1, <2>2, <2>3
<1> QED BY <1>3, <1>4 DEF OriginInv

(* The dump p, which goes back to date d and level b, has what it needs. *)
Chained(p) ==
    \/ level[p] = 0 /\ ddate[p] = 0
    \/ \E q \in ToSet(done) :
          /\ Filesys[q] = Filesys[p] /\ date[q] = ddate[p]
          /\ level[q] = base[p] /\ level[q] < level[p]

Dumping == {"dump", "put", "write", "truncate", "ended"}

(* When a dump has read the file, it goes back to a line of the file, and   *)
(* that is the line of a complete dump.                                     *)
LEMMA ChainRead ==
    ASSUME TypeInv, StartInv, LockInv, OriginInv, Step,
           NEW p \in Dumps, ReadDates(p)
    PROVE  Chained(p)'
<1> DEFINE lines  == Lines(file)
           lower  == Lower(p, lines)
           newest == Max({0} \cup {lines[i].date : i \in lower})
           first  == Min({i \in lower : lines[i].date = newest})
<1>1. pc[p] = "read" /\ level[p] = Level[p] /\ ddate[p] = 0 /\ p \in DOMAIN base
  BY DEF ReadDates, Goto, StartInv, Before, TypeInv
<1>2. IF newest = 0
      THEN level' = [level EXCEPT ![p] = 0] /\ UNCHANGED <<ddate, base>>
      ELSE /\ ddate' = [ddate EXCEPT ![p] = newest]
           /\ base' = [base EXCEPT ![p] = lines[first].level]
           /\ UNCHANGED level
  BY DEF ReadDates
<1>3. p \in DOMAIN level /\ p \in DOMAIN ddate /\ p \in DOMAIN base
  BY DEF TypeInv
<1>4. CASE newest = 0
  <2>1. level'[p] = 0 /\ ddate'[p] = 0
    BY <1>1, <1>2, <1>3, <1>4
  <2> QED BY <2>1 DEF Chained
<1>5. CASE newest # 0
  <2>1. lines \in Seq(LineSet)
    BY LinesRead DEF TypeInv
  <2>2. clock \in Nat
    BY DEF TypeInv
  <2>3. first \in lower /\ lines[first].date = newest
    BY <1>5, <2>1, <2>2, LowerFound, DatesPast
  <2>4. /\ first \in DOMAIN lines /\ lines[first].fs = Filesys[p]
        /\ lines[first].level < Level[p]
    BY <2>3 DEF Lower
  <2>5. first \in DOMAIN file /\ lines[first] = file[first] /\ file[first].ok
    BY <2>4, LinesRead DEF TypeInv
  <2>6. PICK q \in ToSet(done) : lines[first] = Line(q)
    BY <2>5 DEF OriginInv, KnownLines
  <2>7. /\ q \in ToSet(done') /\ date'[q] = date[q] /\ level'[q] = level[q]
    BY LineKept
  <2>8. /\ lines[first].fs = Filesys[q] /\ lines[first].level = level[q]
        /\ lines[first].date = date[q]
    BY <2>6 DEF Line
  <2>9. ddate'[p] = newest /\ base'[p] = lines[first].level /\ level'[p] = Level[p]
    BY <1>1, <1>2, <1>3, <1>5
  <2> HIDE DEF first, newest, lower, lines
  <2>10. /\ Filesys[q] = Filesys[p] /\ date'[q] = ddate'[p]
         /\ level'[q] = base'[p] /\ level'[q] < level'[p]
    BY <2>3, <2>4, <2>7, <2>8, <2>9
  <2> QED BY <2>7, <2>10 DEF Chained
<1> QED BY <1>4, <1>5

Moves(p) ==
    \/ Start(p) \/ Open(p) \/ Create(p) \/ ReadDates(p) \/ Complete(p)
    \/ PutLock(p) \/ PutWrite(p) \/ PutTruncate(p) \/ Fail(p)

LEMMA ChainStep ==
    ASSUME TypeInv, StartInv, LockInv, OriginInv, ChainComplete, Step
    PROVE  ChainComplete'
<1> SUFFICES ASSUME NEW p \in Dumps, pc'[p] \in Dumping PROVE Chained(p)'
  BY DEF ChainComplete, Chained, Dumping
<1>1. CASE pc[p] \in Dumping
  <2>1. Chained(p)
    BY <1>1 DEF ChainComplete, Chained, Dumping
  <2>2. level'[p] = level[p] /\ ddate'[p] = ddate[p] /\ base'[p] = base[p]
    <3>1. \/ UNCHANGED <<level, ddate, base>>
          \/ \E q \in Dumps :
                /\ pc[q] \in {"open", "read"}
                /\ level' = level \/ level' = [level EXCEPT ![q] = 0]
                /\ ddate' = ddate \/ \E d : ddate' = [ddate EXCEPT ![q] = d]
                /\ base' = base \/ \E b : base' = [base EXCEPT ![q] = b]
      BY DEF Step, Start, Open, Create, ReadDates, Complete, PutLock, PutWrite,
             PutTruncate, Fail, AllEnded, Goto, mine, vars
    <3> QED BY <1>1, <3>1 DEF TypeInv, Dumping
  <2>3. \A q \in ToSet(done) :
            q \in ToSet(done') /\ date'[q] = date[q] /\ level'[q] = level[q]
    BY LineKept
  <2> QED BY <2>1, <2>2, <2>3 DEF Chained
<1>2. CASE ReadDates(p)
  BY <1>2, ChainRead
<1>3. CASE Open(p) /\ pc'[p] = "dump"
  <2>1. pc[p] = "open" /\ ddate[p] = 0 /\ ddate' = ddate
    BY <1>3 DEF Open, Goto, StartInv, Before, TypeInv
  <2>2. level' = [level EXCEPT ![p] = 0]
    BY <1>3, <2>1 DEF Open, Goto, TypeInv
  <2>3. level'[p] = 0 /\ ddate'[p] = 0
    BY <2>1, <2>2 DEF TypeInv
  <2> QED BY <2>3 DEF Chained
<1>4. pc[p] \in Dumping \/ ReadDates(p) \/ (Open(p) /\ pc'[p] = "dump")
  <2>1. pc \in [Dumps -> Places]
    BY DEF TypeInv
  <2>2. ASSUME NEW q \in Dumps, q # p, NEW to, pc' = [pc EXCEPT ![q] = to]
        PROVE  pc[p] \in Dumping
    BY <2>1, <2>2
  <2>3. ASSUME NEW q \in Dumps, Moves(q) PROVE \E to : pc' = [pc EXCEPT ![q] = to]
    BY <2>3 DEF Moves, Start, Open, Create, ReadDates, Complete, PutLock, PutWrite,
                PutTruncate, Fail, Goto
  <2>4. CASE Start(p) \/ Create(p) \/ (Open(p) /\ pc'[p] # "dump")
    BY <2>1, <2>4 DEF Start, Open, Create, Goto, Dumping
  <2>5. CASE Complete(p) \/ PutLock(p) \/ PutWrite(p) \/ PutTruncate(p) \/ Fail(p)
    BY <2>1, <2>5 DEF Complete, PutLock, PutWrite, PutTruncate, Fail, Goto, Dumping
  <2>6. CASE AllEnded
    BY <2>6 DEF AllEnded, vars
  <2>7. (\E q \in Dumps : Moves(q)) \/ AllEnded
    BY DEF Step, Moves
  <2>8. CASE Moves(p)
    BY <2>4, <2>5, <2>8 DEF Moves
  <2> QED BY <2>2, <2>3, <2>6, <2>7, <2>8
<1> QED BY <1>1, <1>2, <1>3, <1>4

LEMMA DatesInit == Init => DatesInv
<1> SUFFICES ASSUME Init PROVE DatesInv
  OBVIOUS
<1>1. TypeInv
  BY TypeInit
<1>2. StartInv
  BY DumpsAssumption DEF Init, StartInv, Before
<1>3. LockInv /\ OriginInv
  BY DumpsAssumption DEF Init, LockInv, OriginInv, KnownLines, ToSet
<1>4. ChainComplete
  BY DEF Init, ChainComplete
<1> QED BY <1>1, <1>2, <1>3, <1>4 DEF DatesInv

LEMMA DatesStep == DatesInv /\ [Step]_vars => DatesInv'
<1>1. CASE Step
  BY <1>1, TypeStep, StartStep, LockStep, OriginStep, ChainStep DEF DatesInv
<1>2. CASE UNCHANGED vars
  BY <1>2 DEF DatesInv, TypeInv, StartInv, LockInv, OriginInv, KnownLines,
              ChainComplete, Line, vars, mine
<1> QED BY <1>1, <1>2

(* The dumps that a restore needs exist: the date that getdumptime finds in *)
(* the file is that of a dump of a lower level of the same file system      *)
(* which has been completed.                                                *)
THEOREM ChainsComplete == Spec => []ChainComplete
<1>1. DatesInv => ChainComplete
  BY DEF DatesInv
<1> QED BY <1>1, DatesInit, DatesStep, PTL DEF Spec

-----------------------------------------------------------------------------
(* Registered. *)

LEMMA OneBad == ~Bad.ok /\ Lines(<< >>) = << >> /\ Lines(<<Bad>>) = << >>
<1>1. ~Bad.ok
  BY DEF Bad
<1>2. << >> \in Seq(LineSet) /\ <<Bad>> \in Seq(LineSet)
  BY DEF LineSet
<1>3. DOMAIN Lines(<< >>) = {} /\ Lines(<< >>) \in Seq(LineSet)
  <2>1. DOMAIN Lines(<< >>) \subseteq DOMAIN << >>
    BY <1>2, LinesRead
  <2>2. DOMAIN << >> = {}
    OBVIOUS
  <2>3. Lines(<< >>) \in Seq(LineSet)
    BY <1>2, LinesRead
  <2> QED BY <2>1, <2>2, <2>3
<1>4. DOMAIN Lines(<<Bad>>) = {} /\ Lines(<<Bad>>) \in Seq(LineSet)
  <2>1. ASSUME NEW i \in DOMAIN Lines(<<Bad>>) PROVE FALSE
    <3>1. i \in DOMAIN <<Bad>> /\ <<Bad>>[i].ok
      BY <1>2, LinesRead
    <3>2. i = 1
      BY <3>1
    <3> QED BY <1>1, <3>1, <3>2
  <2> QED BY <1>2, <2>1, LinesRead
<1>5. \A s \in Seq(LineSet) : DOMAIN s = {} => s = << >>
  OBVIOUS
<1> QED BY <1>1, <1>3, <1>4, <1>5

(* What has been read is the file, but for a bad line. *)
LEMMA ReadFile ==
    ASSUME TypeInv, FileInv
    PROVE  \/ file = <<Bad>> /\ Lines(file) = << >>
           \/ Lines(file) = file
BY LinesRead, OneBad DEF FileInv, TypeInv

(* The new lines are no fewer than those in the file, so they are the file. *)
LEMMA Written ==
    ASSUME TypeInv, WriteInv, NEW p \in Dumps, PutWrite(p)
    PROVE  file' = ddatev[p]
<1> DEFINE d == ddatev[p]
<1>1. d \in Seq(LineSet) /\ file \in Seq(LineSet) /\ Len(file) <= Len(d)
  BY DEF TypeInv, WriteInv, PutWrite, Goto
<1>2. file' = d \o SubSeq(file, Len(d) + 1, Len(file))
  BY DEF PutWrite
<1> HIDE DEF d
<1>3. SubSeq(file, Len(d) + 1, Len(file)) = << >>
  BY <1>1
<1>4. d \o << >> = d
  BY <1>1
<1>5. file' = d
  BY <1>2, <1>3, <1>4
<1> QED BY <1>5 DEF d

(* Cutting leaves the file as it is, unless it has been created anew. *)
LEMMA Cut ==
    ASSUME TypeInv, TruncateInv, NEW p \in Dumps, PutTruncate(p)
    PROVE  \/ file' = file
           \/ file = << >> /\ file' = <<Bad>> /\ made = Len(done)
<1> DEFINE d == ddatev[p]
<1>1. /\ d \in Seq(LineSet) /\ file \in Seq(LineSet) /\ d # << >>
      /\ file = d \/ (file = << >> /\ made = Len(done))
  BY DEF TypeInv, TruncateInv, PutTruncate, Goto
<1>2. file' = IF Len(file) < Len(d) THEN Append(file, Bad) ELSE SubSeq(file, 1, Len(d))
  BY DEF PutTruncate
<1> HIDE DEF d
<1>3. CASE file = d
  <2>1. SubSeq(file, 1, Len(file)) = file
    BY <1>1
  <2>2. ~(Len(file) < Len(d)) /\ SubSeq(file, 1, Len(d)) = file
    BY <1>1, <1>3, <2>1
  <2>3. file' = file
    BY <1>2, <2>2
  <2> QED BY <2>3
<1>4. CASE file = << >> /\ made = Len(done)
  <2>1. Len(d) > 0
    BY <1>1
  <2>2. file' = Append(<< >>, Bad)
    BY <1>2, <1>4, <2>1
  <2> QED BY <1>4, <2>2
<1> QED BY <1>1, <1>3, <1>4

LEMMA FileStep ==
    ASSUME TypeInv, FileInv, WriteInv, TruncateInv, Step
    PROVE  FileInv'
<1>1. CASE file' = file
  BY <1>1 DEF FileInv
<1>2. CASE file' = << >>
  BY <1>2 DEF FileInv
<1>3. ASSUME NEW p \in Dumps, PutWrite(p) PROVE FileInv'
  BY <1>3, Written DEF FileInv, WriteInv, PutWrite, Goto
<1>4. ASSUME NEW p \in Dumps, PutTruncate(p) PROVE FileInv'
  BY <1>1, <1>4, Cut DEF FileInv
<1> QED BY <1>1, <1>2, <1>3, <1>4
     DEF Step, Start, Open, Create, ReadDates, Complete, PutLock, Fail, AllEnded,
         mine, vars

(* The lock keeps all others from writing and cutting. *)
LEMMA OthersIdle ==
    ASSUME TypeInv, LockInv, Step, NEW p \in Dumps, pc[p] \in {"write", "truncate"},
           pc'[p] = pc[p]
    PROVE  \/ UNCHANGED <<file, done, made>>
           \/ file' = << >> /\ done' = done /\ made' = Len(done)
<1>1. ASSUME NEW q \in Dumps, PutWrite(q) \/ PutTruncate(q) PROVE FALSE
  <2>1. pc[q] \in {"write", "truncate"} /\ pc'[q] # pc[q]
    BY <1>1 DEF PutWrite, PutTruncate, Goto, TypeInv
  <2>2. q # p /\ lock = p /\ lock = q
    BY <2>1 DEF LockInv
  <2> QED BY <2>2
<1> QED BY <1>1 DEF Step, Start, Open, Create, ReadDates, Complete, PutLock, Fail,
     AllEnded, mine, vars

LEMMA TruncateStep ==
    ASSUME TypeInv, LockInv, WriteInv, TruncateInv, Step
    PROVE  TruncateInv'
<1> SUFFICES ASSUME NEW p \in Dumps, pc'[p] = "truncate"
             PROVE  /\ ddatev'[p] # << >>
                    /\ file' = ddatev'[p] \/ (file' = << >> /\ made' = Len(done'))
  BY DEF TruncateInv
<1>1. CASE pc[p] = "truncate"
  <2>1. ddatev'[p] = ddatev[p]
    BY <1>1 DEF TypeInv, Step, Start, Open, Create, ReadDates, Complete, PutLock,
                PutWrite, PutTruncate, Fail, AllEnded, Goto, mine, vars
  <2> QED BY <1>1, <2>1, OthersIdle DEF TruncateInv
<1>2. CASE PutWrite(p)
  <2>1. ddatev'[p] = ddatev[p] /\ file' = ddatev[p] /\ pc[p] = "write"
    BY <1>2, Written DEF PutWrite, Goto, mine
  <2>2. ddatev[p] \in Seq(LineSet) /\ \E i \in DOMAIN ddatev[p] : TRUE
    BY <2>1 DEF WriteInv, TypeInv
  <2> QED BY <2>1, <2>2
<1>3. pc[p] = "truncate" \/ PutWrite(p)
  BY ComesTo
<1> QED BY <1>1, <1>2, <1>3

(* Registered, in two parts: no dump is missing, no line is there twice. *)
NoneMissing ==
    \A p \in Dumps : Latest(p) => \E i \in DOMAIN Lines(file) : Lines(file)[i] = Line(p)

LEMMA RegisteredParts == Registered <=> NoneMissing /\ OneEach(Lines(file))
BY DEF Registered, NoneMissing, OneEach, SameKey

LEMMA RegisteredPartsNext == Registered' <=> NoneMissing' /\ OneEach(Lines(file'))
BY DEF Registered, NoneMissing, OneEach, SameKey, Latest, Line

Writes(p, d, lines, n) ==
    /\ OneEach(d)
    /\ \A i \in DOMAIN d : d[i].ok
    /\ \E i \in DOMAIN d : d[i] = Line(p)
    /\ \A i \in DOMAIN lines : ~SameKey(lines[i], Line(p)) =>
          \E j \in DOMAIN d : d[j] = lines[i]
    /\ n <= Len(d)

(* What putdumptime is about to write after it has read the file again. *)
LEMMA WriteLocked ==
    ASSUME TypeInv, FileInv, Registered, NEW p \in Dumps, PutLock(p)
    PROVE  Writes(p, ddatev'[p], Lines(file), Len(file))
<1> DEFINE lines == Lines(file)
           l     == Line(p)
           d     == Enter(lines, l)
<1>1. /\ lines \in Seq(LineSet) /\ \A i \in DOMAIN lines : lines[i].ok
      /\ l \in LineSet /\ l.ok /\ OneEach(lines)
  <2>1. file \in Seq(LineSet)
    BY DEF TypeInv
  <2>2. lines \in Seq(LineSet) /\ \A i \in DOMAIN lines : lines[i].ok
    <3> HIDE DEF l
    <3> QED BY <2>1, LinesRead
  <2>3. OneEach(lines)
    BY RegisteredParts
  <2>4. l \in LineSet /\ l.ok
    BY LineType
  <2> QED BY <2>2, <2>3, <2>4
<1>2. ddatev'[p] = d
  BY DEF PutLock, TypeInv
<1>3. file \in Seq(LineSet) /\ ((file = <<Bad>> /\ lines = << >>) \/ lines = file)
  BY ReadFile DEF TypeInv
<1>4. /\ d \in Seq(LineSet) /\ Len(lines) <= Len(d) /\ d # << >>
      /\ \E i \in DOMAIN d : d[i] = l
      /\ \A i \in DOMAIN d : d[i] = l \/ \E j \in DOMAIN lines : d[i] = lines[j]
      /\ \A i \in DOMAIN lines : ~SameKey(lines[i], l) => \E j \in DOMAIN d : d[j] = lines[i]
      /\ OneEach(d)
  <2> HIDE DEF lines, l
  <2>1. Entered(d, lines, l)
    BY <1>1, EnterIs
  <2> HIDE DEF d
  <2> QED BY <1>1, <2>1 DEF Entered
<1> HIDE DEF d, lines, l
<1>5. \A i \in DOMAIN d : d[i].ok
  BY <1>1, <1>4
<1>6. Len(file) <= Len(d)
  BY <1>3, <1>4
<1>7. Writes(p, d, lines, Len(file))
  BY <1>4, <1>5, <1>6 DEF Writes, l
<1> QED BY <1>2, <1>7 DEF lines

LEMMA WriteStep ==
    ASSUME TypeInv, LockInv, FileInv, WriteInv, Registered, Step
    PROVE  WriteInv'
<1> SUFFICES ASSUME NEW p \in Dumps, pc'[p] = "write"
             PROVE  /\ OneEach(ddatev'[p])
                    /\ \A i \in DOMAIN ddatev'[p] : ddatev'[p][i].ok
                    /\ \E i \in DOMAIN ddatev'[p] : ddatev'[p][i] = Line(p)'
                    /\ \A i \in DOMAIN Lines(file') : ~SameKey(Lines(file')[i], Line(p)') =>
                          \E j \in DOMAIN ddatev'[p] : ddatev'[p][j] = Lines(file')[i]
                    /\ Len(file') <= Len(ddatev'[p])
  BY DEF WriteInv
<1>1. CASE pc[p] = "write"
  <2>1. ddatev'[p] = ddatev[p] /\ Line(p)' = Line(p)
    BY <1>1, WriterKept
  <2>2. Writes(p, ddatev[p], Lines(file), Len(file))
    BY <1>1 DEF WriteInv, Writes
  <2>3. CASE file' = file
    BY <2>1, <2>2, <2>3 DEF Writes
  <2>4. CASE file' = << >>
    <3>1. DOMAIN Lines(file') = {} /\ Len(file') = 0
      BY <2>4, OneBad
    <3>2. Len(file') <= Len(ddatev'[p])
      <4>1. ddatev[p] \in Seq(LineSet)
        BY DEF TypeInv
      <4> QED BY <2>1, <3>1, <4>1
    <3> QED BY <2>1, <2>2, <3>1, <3>2 DEF Writes
  <2> QED BY <1>1, <2>3, <2>4, OthersIdle
<1>2. CASE PutLock(p)
  <2>1. file' = file /\ Line(p)' = Line(p)
    BY <1>2 DEF PutLock, Line
  <2> QED BY <1>2, <2>1, WriteLocked DEF Writes
<1>3. pc[p] = "write" \/ PutLock(p)
  BY ComesTo
<1> QED BY <1>1, <1>2, <1>3

(* While no dump enters itself, the latest ones stay what they are. *)
LEMMA LatestKept ==
    ASSUME TypeInv, LockInv, Step, UNCHANGED <<done, made>>,
           NEW p \in Dumps, Latest(p)'
    PROVE  Latest(p) /\ Line(p)' = Line(p)
<1>1. done \in Seq(Dumps) /\ made \in 0 .. Len(done)
  BY DEF TypeInv
<1>2. \A i \in 1 .. Len(done) : done[i] \in ToSet(done)
  BY <1>1 DEF ToSet
<1>3. \A q \in ToSet(done) : level'[q] = level[q] /\ Line(q)' = Line(q)
  BY LineKept
<1>4. PICK i \in made + 1 .. Len(done) :
          /\ done[i] = p
          /\ \A j \in i + 1 .. Len(done) :
                Filesys[done[j]] # Filesys[p] \/ level'[done[j]] # level'[p]
  BY DEF Latest
<1>5. i \in 1 .. Len(done) /\ p \in ToSet(done)
  BY <1>1, <1>2, <1>4
<1>6. \A j \in i + 1 .. Len(done) :
          Filesys[done[j]] # Filesys[p] \/ level[done[j]] # level[p]
  <2> SUFFICES ASSUME NEW j \in i + 1 .. Len(done)
               PROVE  Filesys[done[j]] # Filesys[p] \/ level[done[j]] # level[p]
    OBVIOUS
  <2>1. j \in 1 .. Len(done)
    BY <1>1, <1>5
  <2>2. done[j] \in ToSet(done)
    BY <1>2, <2>1
  <2> QED BY <1>3, <1>4, <1>5, <2>2
<1>7. Latest(p)
  BY <1>4, <1>6 DEF Latest
<1> QED BY <1>3, <1>5, <1>7

(* When p enters itself, every other that is still the latest has another   *)
(* key and was the latest before.                                           *)
LEMMA LatestEntered ==
    ASSUME TypeInv, LockInv, NEW p \in Dumps, PutWrite(p),
           NEW q \in Dumps, q # p, Latest(q)'
    PROVE  Latest(q) /\ ~SameKey(Line(q), Line(p))
<1>1. done \in Seq(Dumps) /\ made \in 0 .. Len(done)
  BY DEF TypeInv
<1>2. done' = Append(done, p) /\ made' = made /\ level' = level
  BY DEF PutWrite, mine
<1>3. /\ Len(done') = Len(done) + 1 /\ done'[Len(done) + 1] = p
      /\ \A i \in 1 .. Len(done) : done'[i] = done[i]
  BY <1>1, <1>2
<1>4. PICK i \in made + 1 .. Len(done) + 1 :
          /\ done'[i] = q
          /\ \A j \in i + 1 .. Len(done) + 1 :
                Filesys[done'[j]] # Filesys[q] \/ level[done'[j]] # level[q]
  BY <1>2, <1>3 DEF Latest
<1>5. i # Len(done) + 1
  BY <1>3, <1>4
<1>6. i \in made + 1 .. Len(done) /\ i \in 1 .. Len(done) /\ Len(done) + 1 \in i + 1 .. Len(done) + 1
  BY <1>1, <1>4, <1>5
<1>7. Filesys[p] # Filesys[q] \/ level[p] # level[q]
  BY <1>3, <1>4, <1>6
<1>8. \A j \in i + 1 .. Len(done) :
          Filesys[done[j]] # Filesys[q] \/ level[done[j]] # level[q]
  <2> SUFFICES ASSUME NEW j \in i + 1 .. Len(done)
               PROVE  Filesys[done[j]] # Filesys[q] \/ level[done[j]] # level[q]
    OBVIOUS
  <2>1. j \in i + 1 .. Len(done) + 1 /\ j \in 1 .. Len(done)
    BY <1>1, <1>6
  <2> QED BY <1>3, <1>4, <2>1
<1>9. Latest(q)
  BY <1>3, <1>4, <1>6, <1>8 DEF Latest
<1> QED BY <1>7, <1>9 DEF SameKey, Line

LEMMA RegisteredStep ==
    ASSUME TypeInv, LockInv, FileInv, WriteInv, TruncateInv, Registered, Step
    PROVE  Registered'
<1>1. NoneMissing /\ OneEach(Lines(file))
  BY RegisteredParts
<1>2. CASE UNCHANGED <<file, done, made>>
  <2>1. OneEach(Lines(file'))
    BY <1>1, <1>2
  <2>2. ASSUME NEW p \in Dumps, Latest(p)'
        PROVE  \E i \in DOMAIN Lines(file') : Lines(file')[i] = Line(p)'
    <3>1. Latest(p) /\ Line(p)' = Line(p)
      BY <1>2, <2>2, LatestKept
    <3> QED BY <1>1, <1>2, <3>1 DEF NoneMissing
  <2> QED BY <2>1, <2>2, RegisteredPartsNext DEF NoneMissing
<1>3. ASSUME NEW f \in {<< >>, <<Bad>>}, file' = f, made' = Len(done')
      PROVE  Registered'
  <2>1. Lines(file') = << >>
    BY <1>3, OneBad
  <2>2. OneEach(Lines(file'))
    BY <2>1 DEF OneEach
  <2>3. ASSUME NEW p \in Dumps, Latest(p)' PROVE FALSE
    <3>1. \E i \in made' + 1 .. Len(done') : TRUE
      BY <2>3 DEF Latest
    <3>2. made' \in Nat
      <4>1. done' \in Seq(Dumps)
        <5>1. done \in Seq(Dumps)
          BY DEF TypeInv
        <5>2. done' = done \/ \E q \in Dumps : done' = Append(done, q)
          BY DEF Step, Start, Open, Create, ReadDates, Complete, PutLock, PutWrite,
                 PutTruncate, Fail, AllEnded, vars
        <5> QED BY <5>1, <5>2
      <4> QED BY <1>3, <4>1
    <3> QED BY <1>3, <3>1, <3>2
  <2> QED BY <2>2, <2>3, RegisteredPartsNext DEF NoneMissing
<1>4. ASSUME NEW p \in Dumps, PutWrite(p) PROVE Registered'
  <2> DEFINE d == ddatev[p]
  <2>1. d \in Seq(LineSet) /\ file' = d /\ pc[p] = "write"
    BY <1>4, Written DEF TypeInv, PutWrite, Goto
  <2>2. Writes(p, d, Lines(file), Len(file))
    BY <2>1 DEF WriteInv, Writes
  <2>3. Lines(file') = d
    <3> HIDE DEF d
    <3> QED BY <2>1, <2>2, LinesRead DEF Writes
  <2>4. \A q \in Dumps : Line(q)' = Line(q)
    BY <1>4 DEF PutWrite, mine, Line
  <2>5. ASSUME NEW q \in Dumps, Latest(q)' PROVE \E i \in DOMAIN d : d[i] = Line(q)
    <3>1. CASE q = p
      BY <2>2, <3>1 DEF Writes
    <3>2. CASE q # p
      <4>1. Latest(q) /\ ~SameKey(Line(q), Line(p))
        BY <1>4, <2>5, <3>2, LatestEntered
      <4>2. PICK i \in DOMAIN Lines(file) : Lines(file)[i] = Line(q)
        BY <1>1, <4>1 DEF NoneMissing
      <4> QED BY <2>2, <4>1, <4>2 DEF Writes
    <3> QED BY <3>1, <3>2
  <2>6. OneEach(Lines(file'))
    BY <2>2, <2>3 DEF Writes
  <2>7. NoneMissing'
    BY <2>3, <2>4, <2>5 DEF NoneMissing
  <2> QED BY <2>6, <2>7, RegisteredPartsNext
<1>5. ASSUME NEW p \in Dumps, PutTruncate(p) PROVE Registered'
  <2>1. UNCHANGED <<done, made>>
    BY <1>5 DEF PutTruncate
  <2> QED BY <1>2, <1>3, <1>5, <2>1, Cut
<1>6. ASSUME NEW p \in Dumps, Create(p) PROVE Registered'
  BY <1>3, <1>6 DEF Create
<1> QED BY <1>2, <1>4, <1>5, <1>6
     DEF Step, Start, Open, ReadDates, Complete, PutLock, Fail, AllEnded, mine, vars

LEMMA RegisterInit == Init => RegisterInv
<1> SUFFICES ASSUME Init PROVE RegisterInv
  OBVIOUS
<1>1. DatesInv
  BY DatesInit
<1>2. FileInv /\ WriteInv /\ TruncateInv
  BY DEF Init, FileInv, WriteInv, TruncateInv
<1>3. Registered
  <2>1. Lines(file) = << >> /\ \A p \in Dumps : ~Latest(p)
    BY OneBad DEF Init, Latest
  <2> QED BY <2>1 DEF Registered
<1> QED BY <1>1, <1>2, <1>3 DEF RegisterInv

LEMMA RegisterStep == RegisterInv /\ [Step]_vars => RegisterInv'
<1>1. CASE RegisterInv /\ Step
  <2>1. DatesInv'
    BY <1>1, DatesStep DEF RegisterInv
  <2> QED BY <1>1, <2>1, FileStep, WriteStep, TruncateStep, RegisteredStep
          DEF RegisterInv, DatesInv
<1>2. CASE RegisterInv /\ UNCHANGED vars
  <2>1. DatesInv'
    BY <1>2, DatesStep DEF RegisterInv
  <2>2. FileInv' /\ WriteInv' /\ TruncateInv' /\ Registered'
    BY <1>2 DEF RegisterInv, FileInv, WriteInv, TruncateInv, Registered, Latest,
                OneEach, SameKey, Line, vars, mine
  <2> QED BY <2>1, <2>2 DEF RegisterInv
<1> QED BY <1>1, <1>2

(* putdumptime leaves the lines of all other dumps alone: the file has the  *)
(* line of the latest dump of each file system and level, once, whichever   *)
(* dumps ran at the same time and wherever one of them was killed.          *)
THEOREM DumpsRegistered == Spec => []Registered
<1>1. RegisterInv => Registered
  BY DEF RegisterInv
<1> QED BY <1>1, RegisterInit, RegisterStep, PTL DEF Spec
=============================================================================
