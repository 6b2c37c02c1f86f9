------------------------- MODULE RemoteTape_proofs --------------------------
(***************************************************************************)
(* The remote tape, for buffers, counts and devices of any size, any       *)
(* letters of the names and any number of calls, with the connection lost  *)
(* anywhere: an answer is always read by the call it belongs to, and the   *)
(* server never performs what nobody asked for, although nothing but their *)
(* place in the stream connects them.  Both hold as long as every device   *)
(* name fits two buffers and no write is cut short: Orderly.               *)
(***************************************************************************)
EXTENDS RemoteTape, NaturalNumbers, SequenceTheorems

Kinds  == {"newline", "number", "name", "access", "flag", "text", "data", "status",
           "zero", "old", "A", "E", "O", "C", "R", "W", "L", "I", "S", "i", "s", "V"}
Bytes  == [c : Kinds, n : Int]
Stream == Seq(Bytes)

(* s is a part of w, from its beginning. *)
Begins(s, w) == Len(s) <= Len(w) /\ \A i \in 1 .. Len(s) : s[i] = w[i]

(* The calls there can be, of names that fit two buffers. *)
OpenCalls   == [op : {"O"}, name : {k \in NameLengths : k <= LongestName}, mode : Modes,
                count : {0}, pos : {0}, id : Nat]
DataCalls   == [op : {"R", "W"}, name : {0}, mode : {ReadMode}, count : Nat \ {0},
                pos : {0}, id : Nat]
MoveCalls   == [op : {"L", "I"}, name : {0}, mode : {ReadMode}, count : Nat,
                pos : Nat, id : Nat]
PlainCalls  == [op : {"C", "S"}, name : {0}, mode : {ReadMode}, count : {0},
                pos : {0}, id : Nat]
AllCalls    == OpenCalls \cup DataCalls \cup MoveCalls \cup PlainCalls

(* What a call puts on the stream when all goes well. *)
Whole(call) ==
    Request(call) \o (IF call.op = "W" THEN DataBytes(call.count, call.id) ELSE << >>)

Sent == IF client.pc = "senddata" THEN Request(client.call) ELSE Whole(client.call)

(* The answer that says what came of an operation. *)
ReplyOf(last) ==
    IF last.errno # 0 THEN <<Byte("E", 0), Num(last.errno), NL, Byte("text", 0), NL>>
    ELSE <<Byte("A", 0), Num(last.val), NL>> \o last.data

Reply == ReplyOf(lastop)

Results == [val : Int, errno : Int, data : Stream]

TypeInv ==
    /\ client \in [pc : {"start", "idle", "senddata", "reply", "data", "exit"},
                   open : BOOLEAN, call : AllCalls \cup {NoCall}, calls : Nat, res : Results,
                   long : BOOLEAN]
    /\ c2s \in Stream /\ s2c \in Stream /\ up \in BOOLEAN /\ ops \in Nat /\ cut \in Nat
    /\ server \in [run : BOOLEAN, open : BOOLEAN, name : Nat, acc : Int, pos : Nat]
    /\ server.open => server.name \in Devices
    /\ dev \in [Devices -> Stream]
    /\ client.calls > 0 => client.call \in AllCalls

(* The server has performed the latest call. *)
Served == ops = client.calls

(* The stream goes on with the rest of a request whose name was too long.   *)
Stuck == c2s # << >> /\ c2s[1].c = "number"

(* What the server did last was the latest call, once it has served it: the *)
(* reply says what came of it.                                              *)
LastInv ==
    (Served /\ client.calls > 0) =>
        /\ lastop.cmd.op = client.call.op /\ lastop.cmd.count = client.call.count
        /\ ShortName(client.call) =>
              /\ lastop.cmd.name = client.call.name /\ lastop.cmd.pos = client.call.pos
              /\ lastop.cmd.mode = [client.call.mode EXCEPT !.flags = @ \cap KnownFlags]
              /\ client.call.op = "W" =>
                    lastop.cmd.data = DataBytes(client.call.count, client.call.id)
        /\ lastop.errno \in Nat /\ lastop.val \in Int /\ lastop.data \in Stream
        /\ lastop.errno # 0 => lastop.val = -1 /\ lastop.data = << >>
        /\ lastop.errno = 0 => Len(lastop.data) = IF client.call.op \in {"R", "S"}
                                                  THEN lastop.val ELSE 0

(* The server is behind by one call at most.  What is on its stream is a    *)
(* part of that call's request, from its beginning; a rest of a request is  *)
(* only there after a name that was too long, and ends the server.          *)
RequestInv ==
    /\ ops = client.calls \/ ops + 1 = client.calls
    /\ Served =>
          c2s = << >> \/ (client.calls > 0 /\ ~ShortName(client.call) /\ (server.run => Stuck))
    /\ ~Served =>
          /\ s2c = << >>
          /\ server.run => Stuck \/ Begins(c2s, Sent)
          /\ (client.pc = "senddata" /\ Peer) => Stuck \/ c2s = Request(client.call)

(* A client that waits for an answer gets a part of the one to its call,    *)
(* from its beginning, and one that has returned has read all of it.        *)
ReplyInv ==
    /\ client.pc = "start" => client.calls = 0
    /\ client.pc \in {"start", "idle"} =>
          /\ Served /\ s2c = << >>
          /\ client.calls > 0 =>
                /\ client.res.val = lastop.val /\ client.res.data = lastop.data
                /\ client.res.errno = IF lastop.errno # 0 /\ client.call.op = "R" THEN -1
                                      ELSE lastop.errno
    /\ client.pc \in {"senddata", "reply"} => client.calls > 0 /\ client.res = NoRes
    /\ client.pc = "senddata" => ~Served /\ client.call.op = "W"
    /\ client.pc = "reply" => (Served => Begins(s2c, Reply))
    /\ client.pc = "data" =>
          /\ Served /\ client.calls > 0 /\ client.call.op \in {"R", "S"} /\ lastop.errno = 0
          /\ client.res = [NoRes EXCEPT !.val = lastop.val]
          /\ Begins(s2c, lastop.data)

Inv == TypeInv /\ LastInv /\ RequestInv /\ ReplyInv

(* A write that is cut short ends the order, and a name that is too long   *)
(* for two buffers.                                                        *)
RemoteInv == cut \in Nat /\ "long" \in DOMAIN client /\ (Orderly => Inv)

-----------------------------------------------------------------------------
(* Streams. *)

LEMMA ByteIs ==
    ASSUME NEW n \in Int
    PROVE  /\ \A c \in Kinds : Byte(c, n) \in Bytes
           /\ \A c : Byte(c, n).c = c /\ Byte(c, n).n = n
           /\ Num(n) \in Bytes /\ Num(n).c = "number" /\ Num(n).n = n
           /\ NL \in Bytes /\ NL.c = "newline"
           /\ \A b \in Bytes : b.c # "newline" => b # NL
<1>1. ASSUME NEW c \in Kinds PROVE Byte(c, n) \in Bytes
  BY DEF Bytes, Byte
<1>2. ASSUME NEW c PROVE Byte(c, n).c = c /\ Byte(c, n).n = n
  BY DEF Byte
<1>3. Num(n) \in Bytes /\ Num(n).c = "number" /\ Num(n).n = n
  BY <1>1, <1>2 DEF Num, Kinds
<1>4. NL \in Bytes /\ NL.c = "newline"
  BY DEF Bytes, Kinds, Byte, NL
<1>5. \A b \in Bytes : b.c # "newline" => b # NL
  BY <1>4
<1> QED BY <1>1, <1>2, <1>3, <1>4, <1>5

LEMMA AfterIs ==
    ASSUME NEW s \in Stream, NEW n \in 0 .. Len(s)
    PROVE  /\ After(s, n) \in Stream /\ Len(After(s, n)) = Len(s) - n
           /\ \A i \in 1 .. Len(s) - n : After(s, n)[i] = s[n + i]
           /\ SubSeq(s, 1, n) \in Stream /\ Len(SubSeq(s, 1, n)) = n
           /\ \A i \in 1 .. n : SubSeq(s, 1, n)[i] = s[i]
BY DEF After, Stream

LEMMA LineIs ==
    ASSUME NEW s \in Stream, NEW j \in 1 .. Len(s), s[j] = NL,
           \A i \in 1 .. j - 1 : s[i] # NL
    PROVE  HasLine(s) /\ LineEnd(s) = j
<1> DEFINE T == {i \in DOMAIN s : s[i] = NL}
<1>1. DOMAIN s = 1 .. Len(s) /\ Len(s) \in Nat
  BY DEF Stream
<1>2. j \in T /\ T \subseteq Nat
  BY <1>1
<1>3. \A n \in T : j <= n
  BY <1>1
<1>4. HasLine(s)
  BY <1>1 DEF HasLine, ToSet
<1> HIDE DEF T
<1>5. Min(T) \in T /\ \A n \in T : Min(T) <= n
  BY <1>2, MinIs
<1>6. Min(T) = j
  <2>1. Min(T) <= j /\ j <= Min(T) /\ Min(T) \in Nat /\ j \in Nat
    BY <1>2, <1>3, <1>5
  <2> QED BY <2>1
<1> QED BY <1>4, <1>6 DEF LineEnd, T

LEMMA LineEnds ==
    ASSUME NEW s \in Stream, HasLine(s)
    PROVE  /\ LineEnd(s) \in 1 .. Len(s) /\ s[LineEnd(s)] = NL
           /\ \A i \in 1 .. LineEnd(s) - 1 : s[i] # NL
<1> DEFINE T == {i \in DOMAIN s : s[i] = NL}
<1>1. DOMAIN s = 1 .. Len(s) /\ Len(s) \in Nat
  BY DEF Stream
<1>2. T \subseteq Nat /\ T # {}
  BY <1>1 DEF HasLine, ToSet
<1>3. \A i : i \in T <=> (i \in 1 .. Len(s) /\ s[i] = NL)
  BY <1>1
<1> HIDE DEF T
<1>4. Min(T) \in T /\ \A n \in T : Min(T) <= n
  BY <1>2, MinIs
<1>5. LineEnd(s) = Min(T)
  BY DEF LineEnd, T
<1>6. ASSUME NEW i \in 1 .. Min(T) - 1 PROVE s[i] # NL
  <2>1. i \notin T /\ i \in 1 .. Len(s)
    BY <1>1, <1>2, <1>3, <1>4
  <2> QED BY <1>3, <2>1
<1> QED BY <1>3, <1>4, <1>5, <1>6

LEMMA NoLine ==
    ASSUME NEW s \in Stream, \A i \in 1 .. Len(s) : s[i] # NL
    PROVE  ~HasLine(s)
BY DEF HasLine, ToSet, Stream

(* getstring reads a line that fits, ... *)
LEMMA GetLine ==
    ASSUME NEW s \in Stream, NEW j \in 1 .. Len(s), s[j] = NL, j < SSIZE,
           \A i \in 1 .. j - 1 : s[i] # NL
    PROVE  /\ HasString(s)
           /\ getstring(s).str = SubSeq(s, 1, j - 1) /\ getstring(s).rest = After(s, j)
BY LineIs DEF HasString, getstring, Line

(* ... or as much as fits, ... *)
LEMMA GetPart ==
    ASSUME NEW s \in Stream, Len(s) >= SSIZE - 1,
           \A i \in 1 .. SSIZE - 1 : s[i] # NL
    PROVE  /\ HasString(s)
           /\ getstring(s).str = SubSeq(s, 1, SSIZE - 1)
           /\ getstring(s).rest = After(s, SSIZE - 1)
<1>1. SSIZE \in Nat /\ Len(s) \in Nat
  BY RemoteAssumption DEF Stream
<1>2. ~(HasLine(s) /\ LineEnd(s) < SSIZE)
  BY <1>1, LineEnds
<1> QED BY <1>2 DEF HasString, getstring

(* ... and waits for it. *)
LEMMA GetNone ==
    ASSUME NEW s \in Stream, Len(s) < SSIZE - 1, \A i \in 1 .. Len(s) : s[i] # NL
    PROVE  ~HasString(s)
<1>1. SSIZE \in Nat /\ Len(s) \in Nat
  BY RemoteAssumption DEF Stream
<1> QED BY <1>1, NoLine DEF HasString

LEMMA Nothing ==
    ASSUME NEW s \in Stream, Len(s) = 0
    PROVE  s = << >>
BY EmptySeq DEF Stream

LEMMA Joined ==
    ASSUME NEW a \in Stream, NEW b \in Stream
    PROVE  /\ a \o b \in Stream /\ Len(a \o b) = Len(a) + Len(b) /\ Len(a) \in Nat /\ Len(b) \in Nat
           /\ \A i \in 1 .. Len(a) : (a \o b)[i] = a[i]
           /\ \A i \in 1 .. Len(b) : (a \o b)[Len(a) + i] = b[i]
BY DEF Stream

LEMMA JoinedAt ==
    ASSUME NEW a \in Stream, NEW b \in Stream, NEW m \in Nat, Len(a) = m
    PROVE  /\ a \o b \in Stream /\ Len(a \o b) = m + Len(b)
           /\ \A i \in 1 .. m : (a \o b)[i] = a[i]
           /\ \A i \in 1 .. Len(b) : (a \o b)[m + i] = b[i]
BY Joined

(* c is a and then b. *)
Join(c, a, b) ==
    /\ c \in Stream /\ Len(c) = Len(a) + Len(b)
    /\ \A i \in 1..Len(a) : c[i] = a[i]
    /\ \A i \in 1..Len(b) : c[Len(a) + i] = b[i]

LEMMA JoinIs ==
    ASSUME NEW a \in Stream, NEW b \in Stream
    PROVE  Join(a \o b, a, b)
<1>1. Len(a) \in Nat
  BY DEF Stream
<1> QED BY <1>1, JoinedAt DEF Join

LEMMA ByteOf ==
    ASSUME NEW c \in Kinds, NEW n \in Int
    PROVE  Byte(c, n) \in Bytes
BY ByteIs

LEMMA FewBytes ==
    ASSUME NEW a \in Bytes, NEW b \in Bytes
    PROVE  /\ << >> \in Stream /\ Len(<< >>) = 0
           /\ <<a>> \in Stream /\ Len(<<a>>) = 1 /\ <<a>>[1] = a
           /\ <<a, b>> \in Stream /\ Len(<<a, b>>) = 2 /\ <<a, b>>[1] = a /\ <<a, b>>[2] = b
BY DEF Stream

-----------------------------------------------------------------------------
(* The requests, byte for byte. *)

LEMMA FlagsIs ==
    ASSUME NEW mode \in Modes
    PROVE  LET f == rmtflags_tochar(mode)
           IN  /\ f \in Stream /\ f[1] = Byte("access", mode.acc) /\ mode.acc \in Int
               /\ \/ mode.flags = {} /\ Len(f) = 1
                  \/ /\ mode.flags = {O_CREAT, O_TRUNC} /\ Len(f) = 3
                     /\ f[2] = Byte("flag", O_CREAT) /\ f[3] = Byte("flag", O_TRUNC)
<1> DEFINE a == <<Byte("access", mode.acc)>>
           c == IF O_CREAT \in mode.flags THEN <<Byte("flag", O_CREAT)>> ELSE << >>
           t == IF O_TRUNC \in mode.flags THEN <<Byte("flag", O_TRUNC)>> ELSE << >>
<1>1. /\ mode.acc \in Int
      /\ mode.flags = {} \/ mode.flags = {O_CREAT, O_TRUNC}
      /\ O_CREAT \in Int /\ O_TRUNC \in Int
  BY DEF Modes, ReadMode, WriteMode, O_RDONLY, O_WRONLY, O_CREAT, O_TRUNC
<1>2. /\ Byte("access", mode.acc) \in Bytes /\ Byte("flag", O_CREAT) \in Bytes
      /\ Byte("flag", O_TRUNC) \in Bytes
  <2>1. "access" \in Kinds /\ "flag" \in Kinds
    BY DEF Kinds
  <2> QED BY <1>1, <2>1, ByteOf
<1>3. a \in Stream /\ Len(a) = 1 /\ a[1] = Byte("access", mode.acc)
  BY <1>2, FewBytes
<1>4. rmtflags_tochar(mode) = (a \o c) \o t
  BY DEF rmtflags_tochar
<1>5. CASE mode.flags = {}
  <2>1. c = << >> /\ t = << >> /\ << >> \in Stream /\ Len(<< >>) = 0
    BY <1>2, <1>5, FewBytes
  <2> HIDE DEF a, c, t
  <2>2. (a \o << >>) \o << >> = a
    BY <1>3 DEF Stream
  <2> QED BY <1>1, <1>3, <1>4, <1>5, <2>1, <2>2
<1>6. CASE mode.flags = {O_CREAT, O_TRUNC}
  <2>1. /\ c \in Stream /\ Len(c) = 1 /\ c[1] = Byte("flag", O_CREAT)
        /\ t \in Stream /\ Len(t) = 1 /\ t[1] = Byte("flag", O_TRUNC)
    BY <1>2, <1>6, FewBytes
  <2> HIDE DEF a, c, t
  <2> DEFINE u == a \o c
             v == u \o t
  <2>2. u \in Stream /\ Len(u) = 2 /\ u[1] = a[1] /\ u[2] = c[1]
    <3>1. /\ u \in Stream /\ Len(u) = Len(a) + Len(c) /\ \A i \in 1 .. Len(a) : u[i] = a[i]
          /\ \A i \in 1 .. Len(c) : u[Len(a) + i] = c[i]
      BY <1>3, <2>1, Joined
    <3> HIDE DEF u
    <3> QED BY <1>3, <2>1, <3>1
  <2> HIDE DEF u
  <2>3. v \in Stream /\ Len(v) = 3 /\ v[1] = u[1] /\ v[2] = u[2] /\ v[3] = t[1]
    <3>1. /\ v \in Stream /\ Len(v) = Len(u) + Len(t) /\ \A i \in 1 .. Len(u) : v[i] = u[i]
          /\ \A i \in 1 .. Len(t) : v[Len(u) + i] = t[i]
      BY <2>1, <2>2, Joined
    <3> HIDE DEF v
    <3> QED BY <2>1, <2>2, <3>1
  <2>4. rmtflags_tochar(mode) = v
    BY <1>4 DEF u
  <2> HIDE DEF v
  <2> QED BY <1>1, <1>3, <1>6, <2>1, <2>2, <2>3, <2>4
<1> QED BY <1>1, <1>5, <1>6

(* The letters of a name end no line.  *)
LEMMA NameBytesAre ==
    ASSUME NEW k \in NameLengths
    PROVE  /\ k \in Nat /\ k >= 1
           /\ NameBytes(k) \in Stream /\ Len(NameBytes(k)) = k
           /\ \A i \in 1 .. k : /\ NameBytes(k)[i] = Byte(NameText[i], i)
                                /\ Byte(NameText[i], i) # NL
<1>1. k \in 1 .. Len(NameText) /\ Len(NameText) \in Nat /\ NameText \in Seq(Letters)
  BY RemoteAssumption
<1>2. k \in Nat /\ k >= 1
  BY <1>1
<1>3. Letters \subseteq Kinds /\ "newline" \notin Letters
  BY DEF Letters, Kinds
<1>4. ASSUME NEW i \in 1 .. k
      PROVE  Byte(NameText[i], i) \in Bytes /\ Byte(NameText[i], i) # NL
  <2>1. NameText[i] \in Letters /\ i \in Int
    <3>1. i \in 1 .. Len(NameText)
      BY <1>1
    <3> QED BY <1>1, <3>1, ElementOfSeq
  <2> QED BY <1>3, <2>1 DEF Bytes, Byte, NL
<1> DEFINE b(i) == Byte(NameText[i], i)
<1>5. NameBytes(k) = [i \in 1 .. k |-> b(i)]
  BY DEF NameBytes
<1>6. \A i \in 1 .. k : b(i) \in Bytes /\ b(i) # NL
  BY <1>4
<1> HIDE DEF b
<1>7. [i \in 1 .. k |-> b(i)] \in Seq(Bytes) /\ Len([i \in 1 .. k |-> b(i)]) = k
  BY <1>2, <1>6
<1> QED BY <1>2, <1>5, <1>6, <1>7 DEF Stream, b

LEMMA OpenIs ==
    ASSUME NEW call \in OpenCalls
    PROVE  LET w == Whole(call)
               k == call.name
           IN  /\ w \in Stream /\ w = Request(call) /\ k \in Nat
               /\ w[1] = Byte("O", 0) /\ \A i \in 1 .. k : w[i + 1] = NameBytes(k)[i]
               /\ w[k + 2] = NL /\ w[k + 3] = Num(call.mode.acc)
               /\ w[k + 4] = Byte("access", call.mode.acc) /\ w[Len(w)] = NL
               /\ \/ call.mode.flags = {} /\ Len(w) = k + 5
                  \/ /\ call.mode.flags = {O_CREAT, O_TRUNC} /\ Len(w) = k + 7
                     /\ w[k + 5] = Byte("flag", O_CREAT) /\ w[k + 6] = Byte("flag", O_TRUNC)
<1> DEFINE k == call.name
           f == rmtflags_tochar(call.mode)
           o == <<Byte("O", 0)>>
           n == NameBytes(k)
           h == <<NL, Num(call.mode.acc)>>
           e == <<NL>>
           x == o \o n
           y == x \o h
           z == y \o f
           w == z \o e
<1>1. k \in Nat /\ call.mode \in Modes /\ call.op = "O"
  <2>1. call.name \in NameLengths /\ call.mode \in Modes /\ call.op = "O"
    BY DEF OpenCalls
  <2> QED BY <2>1, NameBytesAre
<1>2. /\ f \in Stream /\ f[1] = Byte("access", call.mode.acc) /\ call.mode.acc \in Int
      /\ \/ call.mode.flags = {} /\ Len(f) = 1
         \/ /\ call.mode.flags = {O_CREAT, O_TRUNC} /\ Len(f) = 3
            /\ f[2] = Byte("flag", O_CREAT) /\ f[3] = Byte("flag", O_TRUNC)
  BY <1>1, FlagsIs
<1>3. /\ NL \in Bytes /\ Num(call.mode.acc) \in Bytes
      /\ Byte("O", 0) \in Bytes
  BY <1>2, ByteIs DEF Kinds
<1>4. /\ o \in Stream /\ Len(o) = 1 /\ o[1] = Byte("O", 0)
      /\ h \in Stream /\ Len(h) = 2 /\ h[1] = NL /\ h[2] = Num(call.mode.acc)
      /\ e \in Stream /\ Len(e) = 1 /\ e[1] = NL
  BY <1>3, FewBytes
<1>5. n \in Stream /\ Len(n) = k
  <2>1. k \in NameLengths
    BY DEF OpenCalls
  <2> QED BY <2>1, NameBytesAre
<1>6. Request(call) = w /\ Whole(call) = w \o << >>
  BY <1>1 DEF Request, Whole
<1> HIDE DEF k, f, o, n, h, e
<1>7. /\ x \in Stream /\ Len(x) = k + 1 /\ x[1] = Byte("O", 0)
      /\ \A i \in 1 .. k : x[i + 1] = n[i]
  <2>1. /\ x \in Stream /\ Len(x) = 1 + Len(n) /\ \A i \in 1 .. 1 : x[i] = o[i]
        /\ \A i \in 1 .. Len(n) : x[1 + i] = n[i]
    <3>1. Join(x, o, n)
      BY <1>4, <1>5, JoinIs
    <3> HIDE DEF x
    <3> QED BY <1>4, <3>1 DEF Join
  <2> HIDE DEF x
  <2> QED BY <1>1, <1>4, <1>5, <2>1
<1> HIDE DEF x
<1>8. /\ y \in Stream /\ Len(y) = k + 3 /\ \A i \in 1 .. k + 1 : y[i] = x[i]
      /\ y[k + 2] = NL /\ y[k + 3] = Num(call.mode.acc)
  <2>1. k + 1 \in Nat
    BY <1>1
  <2>2. /\ y \in Stream /\ Len(y) = k + 1 + Len(h) /\ \A i \in 1 .. k + 1 : y[i] = x[i]
        /\ \A i \in 1 .. Len(h) : y[k + 1 + i] = h[i]
    <3>1. Join(y, x, h)
      BY <1>4, <1>7, JoinIs
    <3> HIDE DEF y
    <3> QED BY <1>7, <3>1 DEF Join
  <2> HIDE DEF y
  <2>3. y[k + 1 + 1] = h[1] /\ y[k + 1 + 2] = h[2]
    BY <1>4, <2>2
  <2> QED BY <1>1, <1>4, <2>2, <2>3
<1> HIDE DEF y
<1>9. /\ z \in Stream /\ Len(z) = k + 3 + Len(f) /\ \A i \in 1 .. k + 3 : z[i] = y[i]
      /\ \A i \in 1 .. Len(f) : z[k + 3 + i] = f[i]
  <2>1. Join(z, y, f)
    BY <1>2, <1>8, JoinIs
  <2> HIDE DEF z
  <2> QED BY <1>8, <2>1 DEF Join
<1> HIDE DEF z
<1>10. /\ w \in Stream /\ Len(w) = k + 4 + Len(f) /\ \A i \in 1 .. k + 3 + Len(f) : w[i] = z[i]
       /\ w[k + 4 + Len(f)] = NL
  <2>1. k + 3 + Len(f) \in Nat
    BY <1>1, <1>2
  <2>2. /\ w \in Stream /\ Len(w) = k + 3 + Len(f) + Len(e)
        /\ \A i \in 1 .. k + 3 + Len(f) : w[i] = z[i]
        /\ \A i \in 1 .. Len(e) : w[k + 3 + Len(f) + i] = e[i]
    <3>1. Join(w, z, e)
      BY <1>4, <1>9, JoinIs
    <3> HIDE DEF w
    <3> QED BY <1>9, <3>1 DEF Join
  <2> HIDE DEF w
  <2>3. w[k + 3 + Len(f) + 1] = e[1]
    BY <1>4, <2>2
  <2> QED BY <1>1, <1>2, <1>4, <2>2, <2>3
<1> HIDE DEF w
<1>11. w \o << >> = w
  BY <1>10 DEF Stream
<1>12. \A i \in 1 .. k + 3 : w[i] = y[i]
  BY <1>1, <1>2, <1>9, <1>10
<1>13. \A i \in 1 .. k + 1 : w[i] = x[i]
  BY <1>1, <1>8, <1>12
<1>14. \A i \in 1 .. k : w[i + 1] = n[i]
  BY <1>1, <1>7, <1>13
<1>15. \A i \in 1 .. Len(f) : w[k + 3 + i] = f[i]
  BY <1>1, <1>2, <1>9, <1>10
<1>16. w[k + 4] = f[1] /\ (Len(f) = 3 => w[k + 5] = f[2] /\ w[k + 6] = f[3])
  BY <1>1, <1>2, <1>15
<1>17. /\ w[1] = Byte("O", 0) /\ w[k + 2] = NL /\ w[k + 3] = Num(call.mode.acc)
       /\ w[Len(w)] = NL
  <2>1. 1 \in 1 .. k + 1 /\ k + 2 \in 1 .. k + 3 /\ k + 3 \in 1 .. k + 3
    BY <1>1 DEF k
  <2> QED BY <1>7, <1>8, <1>10, <1>12, <1>13, <2>1
<1>18. k \in Nat
  BY <1>1 DEF k
<1>19. \/ call.mode.flags = {} /\ Len(w) = k + 5
       \/ /\ call.mode.flags = {O_CREAT, O_TRUNC} /\ Len(w) = k + 7
          /\ w[k + 5] = Byte("flag", O_CREAT) /\ w[k + 6] = Byte("flag", O_TRUNC)
  <2>1. CASE call.mode.flags = {} /\ Len(f) = 1
    <3>1. Len(w) = k + 5
      BY <1>10, <1>18, <2>1
    <3> QED BY <2>1, <3>1
  <2>2. CASE /\ call.mode.flags = {O_CREAT, O_TRUNC} /\ Len(f) = 3
             /\ f[2] = Byte("flag", O_CREAT) /\ f[3] = Byte("flag", O_TRUNC)
    <3>1. Len(w) = k + 7
      BY <1>10, <1>18, <2>2
    <3>2. w[k + 5] = f[2] /\ w[k + 6] = f[3]
      BY <1>16, <2>2
    <3> QED BY <2>2, <3>1, <3>2
  <2> QED BY <1>2, <2>1, <2>2
<1>20. Whole(call) = w /\ Request(call) = w
  BY <1>6, <1>11
<1>21. w[k + 4] = Byte("access", call.mode.acc)
  BY <1>2, <1>16
<1> QED BY <1>10, <1>14, <1>17, <1>18, <1>19, <1>20, <1>21 DEF k, n

LEMMA DataIs ==
    ASSUME NEW call \in DataCalls
    PROVE  LET w == Whole(call)
           IN  /\ w \in Stream /\ Len(w) = 3 + (IF call.op = "W" THEN call.count ELSE 0)
               /\ w[1] = Byte(call.op, 0) /\ w[2] = Num(call.count) /\ w[3] = NL
               /\ call.op = "W" => \A i \in 1 .. call.count : w[3 + i] = Byte("data", call.id)
               /\ Request(call) \in Stream /\ Len(Request(call)) = 3
               /\ \A i \in 1 .. 3 : Request(call)[i] = w[i]
               /\ w = Request(call) \o (IF call.op = "W" THEN DataBytes(call.count, call.id)
                                        ELSE << >>)
<1> DEFINE r == <<Byte(call.op, 0), Num(call.count), NL>>
           d == IF call.op = "W" THEN DataBytes(call.count, call.id) ELSE << >>
           w == r \o d
<1>1. call.op \in {"R", "W"} /\ call.count \in Nat /\ call.count > 0 /\ call.id \in Nat
  BY DEF DataCalls
<1>2. /\ NL \in Bytes /\ Num(call.count) \in Bytes /\ Byte(call.op, 0) \in Bytes
      /\ Byte("data", call.id) \in Bytes
  BY <1>1, ByteIs DEF Kinds
<1>3. /\ r \in Stream /\ Len(r) = 3 /\ r[1] = Byte(call.op, 0) /\ r[2] = Num(call.count)
      /\ r[3] = NL
  BY <1>2 DEF Stream
<1>4. /\ d \in Stream /\ Len(d) = IF call.op = "W" THEN call.count ELSE 0
      /\ call.op = "W" => \A i \in 1 .. call.count : d[i] = Byte("data", call.id)
  BY <1>1, <1>2 DEF DataBytes, Stream
<1>5. Request(call) = r /\ Whole(call) = w
  BY <1>1 DEF Request, Whole
<1> HIDE DEF r, d
<1>6. /\ w \in Stream /\ Len(w) = 3 + Len(d) /\ \A i \in 1 .. 3 : w[i] = r[i]
      /\ \A i \in 1 .. Len(d) : w[3 + i] = d[i]
  <2>1. Join(w, r, d)
    BY <1>3, <1>4, JoinIs
  <2> HIDE DEF w
  <2> QED BY <1>3, <2>1 DEF Join
<1>7. w[1] = r[1] /\ w[2] = r[2] /\ w[3] = r[3]
  BY <1>6
<1>8. w = Request(call) \o d
  BY <1>5
<1> HIDE DEF w
<1>9. /\ Len(w) = 3 + (IF call.op = "W" THEN call.count ELSE 0)
      /\ call.op = "W" => \A i \in 1 .. call.count : w[3 + i] = Byte("data", call.id)
  BY <1>4, <1>6
<1> QED BY <1>3, <1>5, <1>6, <1>7, <1>8, <1>9 DEF d

LEMMA MoveIs ==
    ASSUME NEW call \in MoveCalls
    PROVE  LET w == Whole(call)
           IN  /\ w \in Stream /\ Len(w) = 5 /\ w = Request(call)
               /\ w[1] = Byte(call.op, 0) /\ w[2] = Num(call.count) /\ w[3] = NL
               /\ w[4] = Num(call.pos) /\ w[5] = NL
<1> DEFINE w == <<Byte(call.op, 0), Num(call.count), NL, Num(call.pos), NL>>
<1>1. call.op \in {"L", "I"} /\ call.count \in Nat /\ call.pos \in Nat
  BY DEF MoveCalls
<1>2. /\ NL \in Bytes /\ Num(call.count) \in Bytes /\ Num(call.pos) \in Bytes
      /\ Byte(call.op, 0) \in Bytes
  BY <1>1, ByteIs DEF Kinds
<1>3. /\ w \in Stream /\ Len(w) = 5 /\ w[1] = Byte(call.op, 0) /\ w[2] = Num(call.count)
      /\ w[3] = NL /\ w[4] = Num(call.pos) /\ w[5] = NL
  BY <1>2 DEF Stream
<1>4. Request(call) = w /\ Whole(call) = w \o << >>
  BY <1>1 DEF Request, Whole
<1> HIDE DEF w
<1>5. w \o << >> = w
  BY <1>3 DEF Stream
<1> QED BY <1>3, <1>4, <1>5

LEMMA PlainIs ==
    ASSUME NEW call \in PlainCalls
    PROVE  LET w == Whole(call)
           IN  /\ w \in Stream /\ w = Request(call) /\ w[1] = Byte(call.op, 0)
               /\ Len(w) = IF call.op = "C" THEN 2 ELSE 1
               /\ call.op = "C" => w[2] = NL
<1> DEFINE w == IF call.op = "C" THEN <<Byte("C", 0), NL>> ELSE <<Byte("S", 0)>>
<1>1. call.op \in {"C", "S"}
  BY DEF PlainCalls
<1>2. NL \in Bytes /\ Byte("C", 0) \in Bytes /\ Byte("S", 0) \in Bytes
  BY ByteIs DEF Kinds
<1>3. /\ w \in Stream /\ w[1] = Byte(call.op, 0) /\ Len(w) = IF call.op = "C" THEN 2 ELSE 1
      /\ call.op = "C" => w[2] = NL
  BY <1>1, <1>2, FewBytes
<1>4. Request(call) = w /\ Whole(call) = w \o << >>
  BY <1>1 DEF Request, Whole
<1> HIDE DEF w
<1>5. w \o << >> = w
  BY <1>3 DEF Stream
<1> QED BY <1>3, <1>4, <1>5

-----------------------------------------------------------------------------
(* What the server makes of a request. *)

(* It performs the operation that was called, with its count, and unless    *)
(* the name is too long with all its arguments, and nothing is left but,    *)
(* then, what is no command.                                                *)
Understood(call) ==
    /\ Command.op = call.op /\ Command.count = call.count
    /\ ShortName(call) =>
          /\ Command.name = call.name /\ Command.pos = call.pos /\ Command.rest = << >>
          /\ Command.mode = [call.mode EXCEPT !.flags = @ \cap KnownFlags]
          /\ call.op = "W" => Command.data = DataBytes(call.count, call.id)
    /\ Command.rest \in Stream
    /\ Command.rest = << >> \/ Command.rest[1].c = "number"
    /\ Command.op = "O" => Command.name \in Devices
    /\ Command.op = "W" => Len(c2s) = 3 + call.count
    /\ Command.data \in Stream /\ Command.pos \in Nat /\ Command.mode.acc \in Int

LEMMA Head_Tail ==
    ASSUME NEW s \in Stream, s # << >>
    PROVE  /\ Head(s) = s[1] /\ Tail(s) \in Stream /\ Len(s) \in Nat /\ Len(s) >= 1
           /\ Len(Tail(s)) = Len(s) - 1 /\ \A i \in 1 .. Len(s) - 1 : Tail(s)[i] = s[i + 1]
BY HeadTailProperties, EmptySeq DEF Stream

LEMMA NoMode ==
    /\ ReadMode.acc \in Int
    /\ [ReadMode EXCEPT !.flags = @ \cap KnownFlags] = ReadMode
BY DEF ReadMode, O_RDONLY

LEMMA Atoi ==
    ASSUME NEW s \in Stream, NEW n \in Int, Len(s) = 1, s[1] = Num(n)
    PROVE  atoi(s) = n
<1>1. s # << >> /\ s[1].c = "number" /\ s[1].n = n
  BY ByteIs, EmptySeq
<1> QED BY <1>1 DEF atoi

LEMMA DataUnderstood ==
    ASSUME NEW call \in DataCalls, c2s \in Stream, c2s # << >>, Begins(c2s, Whole(call)), Arrived
    PROVE  Understood(call)
<1> DEFINE t == Tail(c2s)
           w == Whole(call)
           g == getstring(t)
<1>1. /\ c2s[1] = Head(c2s) /\ t \in Stream /\ Len(c2s) \in Nat /\ Len(c2s) >= 1
      /\ Len(t) = Len(c2s) - 1 /\ \A i \in 1 .. Len(c2s) - 1 : t[i] = c2s[i + 1]
  BY Head_Tail
<1>2. /\ w \in Stream /\ Len(w) = 3 + (IF call.op = "W" THEN call.count ELSE 0)
      /\ w[1] = Byte(call.op, 0) /\ w[2] = Num(call.count) /\ w[3] = NL
      /\ call.op = "W" => \A i \in 1 .. call.count : w[3 + i] = Byte("data", call.id)
  BY DataIs
<1>3. /\ call.op \in {"R", "W"} /\ call.count \in Nat /\ call.id \in Nat /\ call.pos = 0
      /\ call.name = 0 /\ call.mode = ReadMode
  BY DEF DataCalls
<1> HIDE DEF w
<1>4. Len(c2s) <= Len(w) /\ \A i \in 1 .. Len(c2s) : c2s[i] = w[i]
  BY DEF Begins, w
<1>5. Head(c2s).c = call.op
  <2>1. c2s[1] = w[1]
    BY <1>1, <1>4
  <2> QED BY <1>1, <1>2, <2>1, ByteIs
<1>6. HasString(t) /\ (call.op = "W" => Len(g.rest) >= atoi(g.str))
  BY <1>3, <1>5 DEF Arrived
<1> HIDE DEF t
<1>7. Num(call.count) # NL
  BY <1>3, ByteIs
<1>8. Len(c2s) >= 3
  <2> SUFFICES ASSUME Len(c2s) < 3 PROVE FALSE
    BY <1>1
  <2>1. Len(t) <= 1 /\ Len(t) \in Nat /\ SSIZE \in Nat /\ SSIZE > 5
    BY <1>1, RemoteAssumption
  <2>2. \A i \in 1 .. Len(t) : t[i] # NL
    <3> SUFFICES ASSUME NEW i \in 1 .. Len(t) PROVE t[i] # NL
      OBVIOUS
    <3>1. i = 1 /\ 2 \in 1 .. Len(c2s) /\ 1 \in 1 .. Len(c2s) - 1
      BY <1>1, <2>1
    <3>2. t[1] = w[2]
      BY <1>1, <1>4, <3>1
    <3> QED BY <1>2, <1>7, <3>1, <3>2
  <2> QED BY <1>1, <1>6, <2>1, <2>2, GetNone
<1>9. t[1] = Num(call.count) /\ t[2] = NL /\ 2 \in 1 .. Len(t) /\ 1 \in 1 .. Len(t)
  <2>1. 1 \in 1 .. Len(c2s) - 1 /\ 2 \in 1 .. Len(c2s) - 1 /\ 2 \in 1 .. Len(c2s) /\ 3 \in 1 .. Len(c2s)
    BY <1>1, <1>8
  <2>2. t[1] = c2s[2] /\ t[2] = c2s[3]
    BY <1>1, <2>1
  <2> QED BY <1>1, <1>2, <1>4, <2>1, <2>2
<1>10. g.str = SubSeq(t, 1, 1) /\ g.rest = After(t, 2)
  <2>1. 2 < SSIZE /\ \A i \in 1 .. 2 - 1 : t[i] # NL
    BY <1>7, <1>9, RemoteAssumption
  <2> QED BY <1>1, <1>9, <2>1, GetLine
<1>11. atoi(g.str) = call.count
  <2>1. SubSeq(t, 1, 1) \in Stream /\ Len(SubSeq(t, 1, 1)) = 1 /\ SubSeq(t, 1, 1)[1] = t[1]
    BY <1>1, <1>9, AfterIs
  <2> HIDE DEF g
  <2>2. g.str \in Stream /\ Len(g.str) = 1 /\ g.str[1] = Num(call.count) /\ call.count \in Int
    BY <1>3, <1>9, <1>10, <2>1
  <2> QED BY <2>2, Atoi
<1>12. /\ g.rest \in Stream /\ Len(g.rest) = Len(c2s) - 3
       /\ \A i \in 1 .. Len(c2s) - 3 : g.rest[i] = t[2 + i]
  <2>1. 2 \in 0 .. Len(t)
    BY <1>1, <1>8
  <2>2. /\ After(t, 2) \in Stream /\ Len(After(t, 2)) = Len(t) - 2
        /\ \A i \in 1 .. Len(t) - 2 : After(t, 2)[i] = t[2 + i]
    BY <1>1, <2>1, AfterIs
  <2>3. Len(t) - 2 = Len(c2s) - 3
    BY <1>1
  <2> HIDE DEF g
  <2> QED BY <1>10, <2>2, <2>3
<1>13. CASE call.op = "R"
  <2>1. Command = [op |-> "R", name |-> 0, mode |-> ReadMode, count |-> call.count,
                   pos |-> 0, data |-> << >>, rest |-> g.rest]
    BY <1>5, <1>11, <1>13 DEF Command, t
  <2>2. g.rest = << >>
    BY <1>2, <1>4, <1>8, <1>12, <1>13, <1>1, Nothing
  <2>3. << >> \in Stream
    BY DEF Stream
  <2> HIDE DEF g
  <2> QED BY <1>3, <1>13, <2>1, <2>2, <2>3, NoMode DEF Understood
<1>14. CASE call.op = "W"
  <2> DEFINE d == SubSeq(g.rest, 1, call.count)
             e == DataBytes(call.count, call.id)
             r == After(g.rest, call.count)
  <2>1. Len(g.rest) = call.count
    BY <1>1, <1>2, <1>3, <1>4, <1>6, <1>8, <1>11, <1>12, <1>14
  <2>2. Command = [op |-> "W", name |-> 0, mode |-> ReadMode, count |-> call.count,
                   pos |-> 0, data |-> d, rest |-> r]
    BY <1>5, <1>11, <1>14 DEF Command, t
  <2>3. /\ d \in Stream /\ Len(d) = call.count /\ \A i \in 1 .. call.count : d[i] = g.rest[i]
        /\ r \in Stream /\ Len(r) = 0
    <3>1. call.count \in 0 .. Len(g.rest)
      BY <1>3, <2>1
    <3>2. /\ d \in Stream /\ Len(d) = call.count /\ \A i \in 1 .. call.count : d[i] = g.rest[i]
          /\ r \in Stream /\ Len(r) = Len(g.rest) - call.count
      BY <1>12, <3>1, AfterIs
    <3> HIDE DEF d, r, g
    <3> QED BY <1>3, <2>1, <3>2
  <2>4. r = << >>
    BY <2>3, Nothing
  <2>5. e \in Stream /\ Len(e) = call.count /\ \A i \in 1 .. call.count : e[i] = Byte("data", call.id)
    <3>1. Byte("data", call.id) \in Bytes
      BY <1>3, ByteIs DEF Kinds
    <3> QED BY <1>3, <3>1 DEF DataBytes, Stream
  <2>6. ASSUME NEW i \in 1 .. call.count PROVE d[i] = e[i]
    <3>1. i \in 1 .. Len(c2s) - 3 /\ 2 + i \in 1 .. Len(c2s) - 1 /\ 3 + i \in 1 .. Len(c2s)
          /\ 2 + i + 1 = 3 + i
      BY <1>1, <1>3, <1>12, <2>1
    <3>2. d[i] = c2s[3 + i]
      <4>1. d[i] = g.rest[i]
        BY <2>3
      <4>2. g.rest[i] = t[2 + i]
        BY <1>12, <3>1
      <4>3. t[2 + i] = c2s[3 + i]
        BY <1>1, <3>1
      <4> QED BY <4>1, <4>2, <4>3
    <3>3. c2s[3 + i] = w[3 + i]
      BY <1>4, <3>1
    <3> QED BY <1>2, <1>14, <2>5, <3>2, <3>3
  <2> HIDE DEF d, e, r
  <2>7. d = e
    BY <2>3, <2>5, <2>6, SeqEqual DEF Stream
  <2>9. Len(c2s) = 3 + call.count
    BY <1>1, <1>3, <1>12, <2>1
  <2>8. /\ Command.op = "W" /\ Command.name = 0 /\ Command.mode = ReadMode /\ Command.pos = 0
        /\ Command.count = call.count /\ Command.data = e /\ Command.rest = << >>
    BY <2>2, <2>4, <2>7
  <2> QED BY <1>3, <1>14, <2>3, <2>4, <2>5, <2>8, <2>9, NoMode DEF Understood, e
<1> QED BY <1>3, <1>13, <1>14

LEMMA MoveUnderstood ==
    ASSUME NEW call \in MoveCalls, c2s \in Stream, c2s # << >>, Begins(c2s, Whole(call)), Arrived
    PROVE  Understood(call)
<1> DEFINE t == Tail(c2s)
           w == Whole(call)
           g == getstring(t)
           h == getstring(g.rest)
<1>1. /\ c2s[1] = Head(c2s) /\ t \in Stream /\ Len(c2s) \in Nat /\ Len(c2s) >= 1
      /\ Len(t) = Len(c2s) - 1 /\ \A i \in 1 .. Len(c2s) - 1 : t[i] = c2s[i + 1]
  BY Head_Tail
<1>2. /\ w \in Stream /\ Len(w) = 5 /\ w[1] = Byte(call.op, 0) /\ w[2] = Num(call.count)
      /\ w[3] = NL /\ w[4] = Num(call.pos) /\ w[5] = NL
  BY MoveIs
<1>3. /\ call.op \in {"L", "I"} /\ call.count \in Nat /\ call.pos \in Nat
      /\ call.name = 0 /\ call.mode = ReadMode
  BY DEF MoveCalls
<1> HIDE DEF w
<1>4. Len(c2s) <= 5 /\ \A i \in 1 .. Len(c2s) : c2s[i] = w[i]
  BY <1>2 DEF Begins, w
<1>5. Head(c2s).c = call.op
  <2>1. c2s[1] = w[1]
    BY <1>1, <1>4
  <2> QED BY <1>1, <1>2, <2>1, ByteIs
<1>6. HasString(t) /\ HasString(g.rest)
  BY <1>3, <1>5 DEF Arrived
<1>7. Command = [op |-> call.op, name |-> 0, mode |-> ReadMode, count |-> atoi(g.str),
                 pos |-> atoi(h.str), data |-> << >>, rest |-> h.rest]
  BY <1>3, <1>5 DEF Command
<1> HIDE DEF t
<1>8. Num(call.count) # NL /\ Num(call.pos) # NL /\ SSIZE \in Nat /\ SSIZE > 5
  BY <1>3, ByteIs, RemoteAssumption
<1>9. \A i \in 1 .. Len(t) : t[i] = w[i + 1]
  <2> SUFFICES ASSUME NEW i \in 1 .. Len(t) PROVE t[i] = w[i + 1]
    OBVIOUS
  <2>1. i \in 1 .. Len(c2s) - 1 /\ i + 1 \in 1 .. Len(c2s)
    BY <1>1
  <2> QED BY <1>1, <1>4, <2>1
<1>10. Len(t) >= 2
  <2> SUFFICES ASSUME Len(t) < 2 PROVE FALSE
    BY <1>1
  <2>1. \A i \in 1 .. Len(t) : i = 1
    BY <1>1
  <2>2. \A i \in 1 .. Len(t) : t[i] # NL
    BY <1>2, <1>8, <1>9, <2>1
  <2> QED BY <1>1, <1>6, <1>8, <2>2, GetNone
<1>11. g.str = SubSeq(t, 1, 1) /\ g.rest = After(t, 2)
  <2>1. 1 \in 1 .. Len(t) /\ 2 \in 1 .. Len(t) /\ 2 < SSIZE
    BY <1>1, <1>8, <1>10
  <2>2. t[1] = w[2] /\ t[2] = w[3]
    BY <1>9, <2>1
  <2>3. \A i \in 1 .. 2 - 1 : t[i] # NL
    BY <1>2, <1>8, <2>2
  <2> QED BY <1>1, <1>2, <2>1, <2>2, <2>3, GetLine
<1>12. g.str \in Stream /\ Len(g.str) = 1 /\ g.str[1] = Num(call.count)
  <2>1. 1 \in 0 .. Len(t) /\ 1 \in 1 .. Len(t)
    BY <1>1, <1>10
  <2>2. SubSeq(t, 1, 1) \in Stream /\ Len(SubSeq(t, 1, 1)) = 1 /\ SubSeq(t, 1, 1)[1] = t[1]
    BY <1>1, <2>1, AfterIs
  <2>3. t[1] = w[2]
    BY <1>9, <2>1
  <2> HIDE DEF g
  <2> QED BY <1>2, <1>11, <2>2, <2>3
<1> DEFINE u == g.rest
<1>13. u \in Stream /\ Len(u) = Len(t) - 2 /\ \A i \in 1 .. Len(u) : u[i] = w[i + 3]
  <2>1. 2 \in 0 .. Len(t)
    BY <1>1, <1>10
  <2>2. /\ After(t, 2) \in Stream /\ Len(After(t, 2)) = Len(t) - 2
        /\ \A i \in 1 .. Len(t) - 2 : After(t, 2)[i] = t[2 + i]
    BY <1>1, <2>1, AfterIs
  <2> HIDE DEF g
  <2>3. /\ u \in Stream /\ Len(u) = Len(t) - 2 /\ \A i \in 1 .. Len(t) - 2 : u[i] = t[2 + i]
    BY <1>11, <2>2
  <2> HIDE DEF u
  <2>4. ASSUME NEW i \in 1 .. Len(u) PROVE u[i] = w[i + 3]
    <3>1. i \in 1 .. Len(t) - 2 /\ 2 + i \in 1 .. Len(t) /\ 2 + i + 1 = i + 3
      BY <1>1, <1>10, <2>3
    <3> QED BY <1>9, <2>3, <3>1
  <2> QED BY <2>3, <2>4
<1>14. HasString(u) /\ h = getstring(u)
  BY <1>6
<1> HIDE DEF u, g, h
<1>15. Len(u) = 2
  <2> SUFFICES ASSUME Len(u) < 2 PROVE FALSE
    BY <1>1, <1>4, <1>13
  <2>1. \A i \in 1 .. Len(u) : i = 1
    BY <1>1, <1>13
  <2>2. \A i \in 1 .. Len(u) : u[i] # NL
    BY <1>2, <1>8, <1>13, <2>1
  <2>3. Len(u) < SSIZE - 1
    BY <1>1, <1>8, <1>13
  <2> QED BY <1>13, <1>14, <2>2, <2>3, GetNone
<1>16. u[1] = Num(call.pos) /\ u[2] = NL
  <2>1. 1 \in 1 .. Len(u) /\ 2 \in 1 .. Len(u) /\ 1 + 3 = 4 /\ 2 + 3 = 5
    BY <1>15
  <2>2. u[1] = w[1 + 3] /\ u[2] = w[2 + 3]
    BY <1>13, <2>1
  <2> QED BY <1>2, <2>1, <2>2
<1>17. h.str = SubSeq(u, 1, 1) /\ h.rest = After(u, 2)
  <2>1. 2 \in 1 .. Len(u) /\ 2 < SSIZE /\ \A i \in 1 .. 2 - 1 : u[i] # NL
    BY <1>8, <1>15, <1>16
  <2> QED BY <1>13, <1>14, <1>16, <2>1, GetLine
<1>18. /\ h.str \in Stream /\ Len(h.str) = 1 /\ h.str[1] = Num(call.pos)
       /\ h.rest \in Stream /\ Len(h.rest) = 0
  <2>1. 1 \in 0 .. Len(u) /\ 2 \in 0 .. Len(u)
    BY <1>15
  <2>2. /\ SubSeq(u, 1, 1) \in Stream /\ Len(SubSeq(u, 1, 1)) = 1 /\ SubSeq(u, 1, 1)[1] = u[1]
        /\ After(u, 2) \in Stream /\ Len(After(u, 2)) = Len(u) - 2
    BY <1>13, <2>1, AfterIs
  <2> QED BY <1>15, <1>16, <1>17, <2>2
<1>19. atoi(g.str) = call.count /\ atoi(h.str) = call.pos /\ h.rest = << >>
  BY <1>3, <1>12, <1>18, Atoi, Nothing
<1>20. << >> \in Stream
  BY DEF Stream
<1>21. /\ Command.op = call.op /\ Command.name = 0 /\ Command.mode = ReadMode
       /\ Command.count = call.count /\ Command.pos = call.pos /\ Command.data = << >>
       /\ Command.rest = << >>
  BY <1>7, <1>19
<1> QED BY <1>3, <1>20, <1>21, NoMode DEF Understood

LEMMA PlainUnderstood ==
    ASSUME NEW call \in PlainCalls, c2s \in Stream, c2s # << >>, Begins(c2s, Whole(call)), Arrived
    PROVE  Understood(call)
<1> DEFINE t == Tail(c2s)
           w == Whole(call)
           g == getstring(t)
<1>1. /\ c2s[1] = Head(c2s) /\ t \in Stream /\ Len(c2s) \in Nat /\ Len(c2s) >= 1
      /\ Len(t) = Len(c2s) - 1 /\ \A i \in 1 .. Len(c2s) - 1 : t[i] = c2s[i + 1]
  BY Head_Tail
<1>2. /\ w \in Stream /\ Len(w) = (IF call.op = "C" THEN 2 ELSE 1) /\ w[1] = Byte(call.op, 0)
      /\ call.op = "C" => w[2] = NL
  BY PlainIs
<1>3. /\ call.op \in {"C", "S"} /\ call.count = 0 /\ call.pos = 0
      /\ call.name = 0 /\ call.mode = ReadMode
  BY DEF PlainCalls
<1> HIDE DEF w
<1>4. Len(c2s) <= Len(w) /\ \A i \in 1 .. Len(c2s) : c2s[i] = w[i]
  BY <1>2 DEF Begins, w
<1>5. Head(c2s).c = call.op
  <2>1. c2s[1] = w[1]
    BY <1>1, <1>4
  <2> QED BY <1>1, <1>2, <2>1, ByteIs
<1>6. call.op = "C" => HasString(t)
  BY <1>5 DEF Arrived
<1>7. << >> \in Stream /\ SSIZE \in Nat /\ SSIZE > 5
  BY RemoteAssumption DEF Stream
<1>8. CASE call.op = "S"
  <2>1. t = << >>
    BY <1>1, <1>2, <1>4, <1>8, Nothing
  <2>2. Command = [op |-> "S", name |-> 0, mode |-> ReadMode, count |-> 0,
                   pos |-> 0, data |-> << >>, rest |-> t]
    BY <1>5, <1>8 DEF Command
  <2> HIDE DEF t
  <2>3. /\ Command.op = "S" /\ Command.name = 0 /\ Command.mode = ReadMode
        /\ Command.count = 0 /\ Command.pos = 0 /\ Command.data = << >> /\ Command.rest = << >>
    BY <2>1, <2>2
  <2> QED BY <1>3, <1>7, <1>8, <2>3, NoMode DEF Understood
<1>9. CASE call.op = "C"
  <2>1. Command = [op |-> "C", name |-> 0, mode |-> ReadMode, count |-> atoi(g.str),
                   pos |-> 0, data |-> << >>, rest |-> g.rest]
    BY <1>5, <1>9 DEF Command
  <2> HIDE DEF t
  <2>2. Len(t) = 1
    <3> SUFFICES ASSUME Len(t) < 1 PROVE FALSE
      BY <1>1, <1>2, <1>4, <1>9
    <3>1. \A i \in 1 .. Len(t) : t[i] # NL
      BY <1>1
    <3> QED BY <1>1, <1>6, <1>7, <1>9, <3>1, GetNone
  <2>3. t[1] = NL
    <3>1. Len(c2s) = 2
      <4>1. Len(t) = Len(c2s) - 1 /\ Len(c2s) \in Nat
        BY <1>1
      <4>2. Len(c2s) - 1 = 1
        BY <2>2, <4>1
      <4>3. \A n \in Nat : n - 1 = 1 => n = 2
        OBVIOUS
      <4> QED BY <4>1, <4>2, <4>3, Zenon
    <3>2. 1 \in 1 .. Len(c2s) - 1 /\ 2 \in 1 .. Len(c2s) /\ 1 + 1 = 2
      BY <3>1
    <3>3. t[1] = c2s[1 + 1]
      BY <1>1, <3>2
    <3> QED BY <1>2, <1>4, <1>9, <3>2, <3>3
  <2>4. g.str = SubSeq(t, 1, 0) /\ g.rest = After(t, 1)
    <3>1. 1 \in 1 .. Len(t) /\ 1 < SSIZE /\ \A i \in 1 .. 1 - 1 : t[i] # NL
      BY <1>7, <2>2
    <3> QED BY <1>1, <2>3, <3>1, GetLine
  <2>5. g.str = << >> /\ g.rest = << >>
    <3>1. 0 \in 0 .. Len(t) /\ 1 \in 0 .. Len(t)
      BY <2>2
    <3>2. /\ SubSeq(t, 1, 0) \in Stream /\ Len(SubSeq(t, 1, 0)) = 0
          /\ After(t, 1) \in Stream /\ Len(After(t, 1)) = Len(t) - 1
      BY <1>1, <3>1, AfterIs
    <3> HIDE DEF g
    <3> QED BY <2>2, <2>4, <3>2, Nothing
  <2>6. atoi(g.str) = 0
    BY <2>5 DEF atoi
  <2> HIDE DEF g
  <2>7. /\ Command.op = "C" /\ Command.name = 0 /\ Command.mode = ReadMode
        /\ Command.count = 0 /\ Command.pos = 0 /\ Command.data = << >> /\ Command.rest = << >>
    BY <2>1, <2>5, <2>6
  <2> QED BY <1>3, <1>7, <1>9, <2>7, NoMode DEF Understood
<1> QED BY <1>3, <1>8, <1>9

(* The mode that a line stands for. *)
LEMMA ModeIs ==
    ASSUME NEW s \in Stream
    PROVE  rmtflags_toint(s).acc \in Int
<1> DEFINE access == {b \in ToSet(s) : b.c = "access"}
           known  == {b.n : b \in {x \in ToSet(s) : x.c = "flag"}} \cap KnownFlags
           number == IF s # << >> /\ s[1].c = "number" THEN s[1].n ELSE O_RDONLY
<1>1. \A b \in ToSet(s) : b \in Bytes
  BY DEF ToSet, Stream
<1>2. number \in Int
  <2>1. s # << >> => s[1] \in Bytes
    BY Head_Tail DEF Stream
  <2> QED BY <2>1 DEF Bytes, O_RDONLY
<1>3. access # {} => (CHOOSE b \in access : TRUE).n \in Int
  <2> SUFFICES ASSUME access # {} PROVE (CHOOSE b \in access : TRUE).n \in Int
    OBVIOUS
  <2>1. (CHOOSE b \in access : TRUE) \in access
    OBVIOUS
  <2> QED BY <1>1, <2>1 DEF Bytes
<1>4. rmtflags_toint(s).acc = IF access # {} THEN (CHOOSE b \in access : TRUE).n
                              ELSE IF known # {} THEN O_RDONLY ELSE number
  BY DEF rmtflags_toint
<1> HIDE DEF access, known, number
<1> QED BY <1>2, <1>3, <1>4 DEF O_RDONLY

LEMMA ModeOfFlags ==
    ASSUME NEW s \in Stream, NEW mode \in Modes,
           s[1] = Num(mode.acc), s[2] = Byte("access", mode.acc),
           \/ mode.flags = {} /\ Len(s) = 2
           \/ /\ mode.flags = {O_CREAT, O_TRUNC} /\ Len(s) = 4
              /\ s[3] = Byte("flag", O_CREAT) /\ s[4] = Byte("flag", O_TRUNC)
    PROVE  rmtflags_toint(s) = [mode EXCEPT !.flags = @ \cap KnownFlags]
<1> DEFINE access == {b \in ToSet(s) : b.c = "access"}
           flags  == {b.n : b \in {x \in ToSet(s) : x.c = "flag"}}
           number == IF s # << >> /\ s[1].c = "number" THEN s[1].n ELSE O_RDONLY
           a == Byte("access", mode.acc)
           x == Byte("flag", O_CREAT)
           y == Byte("flag", O_TRUNC)
           n == Num(mode.acc)
<1>1. mode = [acc |-> mode.acc, flags |-> mode.flags] /\ mode.acc \in Int
  BY DEF Modes, ReadMode, WriteMode, O_RDONLY, O_WRONLY
<1>2. /\ a.c = "access" /\ a.n = mode.acc /\ x.c = "flag" /\ x.n = O_CREAT
      /\ y.c = "flag" /\ y.n = O_TRUNC /\ n.c = "number"
  BY DEF Byte, Num
<1>3. ToSet(s) = {s[i] : i \in 1 .. Len(s)}
  BY DEF ToSet, Stream
<1> HIDE DEF a, x, y, n
<1>4. ToSet(s) = IF mode.flags = {} THEN {n, a} ELSE {n, a, x, y}
  <2>1. CASE mode.flags = {} /\ Len(s) = 2
    <3>1. 1 .. 2 = {1, 2}
      OBVIOUS
    <3> QED BY <1>3, <2>1, <3>1 DEF a, n
  <2>2. CASE /\ mode.flags = {O_CREAT, O_TRUNC} /\ Len(s) = 4
             /\ s[3] = x /\ s[4] = y
    <3>1. 1 .. 4 = {1, 2, 3, 4}
      OBVIOUS
    <3>2. {s[i] : i \in {1, 2, 3, 4}} = {s[1], s[2], s[3], s[4]}
      OBVIOUS
    <3> QED BY <1>3, <2>2, <3>1, <3>2 DEF a, n
  <2> QED BY <2>1, <2>2 DEF x, y
<1>5. access = {a}
  BY <1>2, <1>4
<1>6. flags = mode.flags
  <2>1. CASE mode.flags = {}
    BY <1>2, <1>4, <2>1
  <2>2. CASE mode.flags = {O_CREAT, O_TRUNC}
    <3>1. {z \in ToSet(s) : z.c = "flag"} = {x, y}
      BY <1>2, <1>4, <2>2
    <3>2. {b.n : b \in {x, y}} = {x.n, y.n}
      OBVIOUS
    <3> QED BY <1>2, <2>2, <3>1, <3>2
  <2> QED BY <2>1, <2>2
<1>7. (CHOOSE b \in access : TRUE) = a /\ access # {}
  BY <1>5
<1>8. rmtflags_toint(s) = [acc   |-> IF access # {} THEN (CHOOSE b \in access : TRUE).n
                                     ELSE IF flags \cap KnownFlags # {} THEN O_RDONLY ELSE number,
                           flags |-> flags \cap KnownFlags]
  BY DEF rmtflags_toint
<1> HIDE DEF access, flags, number
<1>9. rmtflags_toint(s) = [acc |-> mode.acc, flags |-> mode.flags \cap KnownFlags]
  BY <1>2, <1>6, <1>7, <1>8
<1> QED BY <1>1, <1>9

(* A name, and what of it fits a buffer. *)
LEMMA NameIs ==
    ASSUME NEW k \in NameLengths
    PROVE  /\ k \in Nat /\ k >= 1 /\ SSIZE \in Nat /\ SSIZE > 5
           /\ (IF k <= SSIZE - 1 THEN k ELSE SSIZE - 1) \in Devices
<1>1. SSIZE \in Nat /\ SSIZE > 5
  BY RemoteAssumption
<1>2. k \in Nat /\ k >= 1
  BY NameBytesAre
<1> DEFINE T == {k, SSIZE - 1}
           m == IF k <= SSIZE - 1 THEN k ELSE SSIZE - 1
<1>3. T \subseteq Nat /\ T # {}
  BY <1>1, <1>2
<1>4. m \in T /\ \A n \in T : m <= n
  BY <1>1, <1>2
<1>5. Min(T) \in Devices
  BY DEF Devices
<1> HIDE DEF T, m
<1>6. Min(T) \in T /\ \A n \in T : Min(T) <= n
  BY <1>3, MinIs
<1>7. Min(T) = m
  <2>1. Min(T) <= m /\ m <= Min(T) /\ m \in Nat /\ Min(T) \in Nat
    BY <1>3, <1>4, <1>6
  <2> QED BY <2>1
<1> QED BY <1>1, <1>2, <1>5, <1>7 DEF m

(* What a name opens is always one of the devices.                         *)
LEMMA DeviceIs ==
    ASSUME NEW s
    PROVE  Device(s) \in Devices
BY DEF Device, Devices

LEMMA OpenUnderstood ==
    ASSUME NEW call \in OpenCalls, c2s \in Stream, c2s # << >>, Begins(c2s, Whole(call)), Arrived
    PROVE  Understood(call)
<1> DEFINE t == Tail(c2s)
           w == Whole(call)
           g == getstring(t)
           u == g.rest
           h == getstring(u)
           k == call.name
           n == Len(c2s)
<1>1. /\ c2s[1] = Head(c2s) /\ t \in Stream /\ n \in Nat /\ n >= 1
      /\ Len(t) = n - 1 /\ \A i \in 1 .. n - 1 : t[i] = c2s[i + 1]
  BY Head_Tail
<1>2. /\ w \in Stream /\ k \in Nat
      /\ w[1] = Byte("O", 0) /\ \A i \in 1 .. k : w[i + 1] = NameBytes(k)[i]
      /\ w[k + 2] = NL /\ w[k + 3] = Num(call.mode.acc)
      /\ w[k + 4] = Byte("access", call.mode.acc) /\ w[Len(w)] = NL
      /\ \/ call.mode.flags = {} /\ Len(w) = k + 5
         \/ /\ call.mode.flags = {O_CREAT, O_TRUNC} /\ Len(w) = k + 7
            /\ w[k + 5] = Byte("flag", O_CREAT) /\ w[k + 6] = Byte("flag", O_TRUNC)
  BY OpenIs
<1>3. /\ call.op = "O" /\ call.count = 0 /\ call.pos = 0 /\ call.mode \in Modes
      /\ k \in NameLengths /\ k <= LongestName
  BY DEF OpenCalls
<1>4. /\ k \in Nat /\ k >= 1 /\ k <= 2 * SSIZE - 3 /\ SSIZE \in Nat /\ SSIZE > 5
      /\ (IF k <= SSIZE - 1 THEN k ELSE SSIZE - 1) \in Devices
  BY <1>3, NameIs DEF LongestName
<1>14. \/ call.mode.flags = {} /\ Len(w) = k + 5
       \/ call.mode.flags = {O_CREAT, O_TRUNC} /\ Len(w) = k + 7
  BY <1>2
<1> HIDE DEF w
<1>5. n <= Len(w) /\ \A i \in 1 .. n : c2s[i] = w[i]
  BY <1>2 DEF Begins, w
<1>6. Head(c2s).c = "O"
  <2>1. c2s[1] = w[1]
    BY <1>1, <1>5
  <2> QED BY <1>1, <1>2, <2>1, ByteIs
<1>7. HasString(t) /\ HasString(u)
  BY <1>6 DEF Arrived
<1>8. Command = [op |-> "O", name |-> Device(g.str), mode |-> rmtflags_toint(h.str),
                 count |-> 0, pos |-> 0, data |-> << >>, rest |-> h.rest]
  BY <1>6 DEF Command
<1> HIDE DEF t, n, k
<1>9. \A i \in 1 .. n - 1 : t[i] = w[i + 1]
  <2> SUFFICES ASSUME NEW i \in 1 .. n - 1 PROVE t[i] = w[i + 1]
    OBVIOUS
  <2>1. i + 1 \in 1 .. n
    BY <1>1
  <2> QED BY <1>1, <1>5, <2>1
<1>10. \A i \in 1 .. n - 1 : i <= k => t[i] # NL
  <2> SUFFICES ASSUME NEW i \in 1 .. n - 1, i <= k PROVE t[i] # NL
    OBVIOUS
  <2>1. i \in 1 .. k
    BY <1>1, <1>2
  <2>2. t[i] = NameBytes(k)[i]
    BY <1>2, <1>9, <2>1
  <2> QED BY <1>3, <2>1, <2>2, NameBytesAre
<1>11. << >> \in Stream
  BY DEF Stream
<1>12. CASE k < SSIZE - 1
  <2>1. n >= k + 2
    <3> SUFFICES ASSUME n < k + 2 PROVE FALSE
      BY <1>1, <1>2
    <3>1. Len(t) < SSIZE - 1 /\ \A i \in 1 .. Len(t) : i \in 1 .. n - 1 /\ i <= k
      BY <1>1, <1>4, <1>12
    <3> QED BY <1>1, <1>7, <1>10, <3>1, GetNone
  <2>2. g.str = SubSeq(t, 1, k) /\ u = After(t, k + 1)
    <3>1. /\ k + 1 \in 1 .. Len(t) /\ k + 1 \in 1 .. n - 1 /\ k + 1 < SSIZE
          /\ k + 1 + 1 = k + 2 /\ k + 1 - 1 = k
          /\ \A i \in 1 .. k : i \in 1 .. n - 1 /\ i <= k
      BY <1>1, <1>4, <1>12, <2>1
    <3>2. t[k + 1] = NL
      BY <1>2, <1>9, <3>1
    <3>3. \A i \in 1 .. k : t[i] # NL
      BY <1>10, <3>1
    <3> DEFINE j == k + 1
    <3>4. j \in 1 .. Len(t) /\ j < SSIZE /\ t[j] = NL
      BY <3>1, <3>2
    <3>5. j - 1 = k
      BY <1>2
    <3> HIDE DEF j
    <3>6. getstring(t).str = SubSeq(t, 1, j - 1) /\ getstring(t).rest = After(t, j)
      BY <1>1, <3>3, <3>4, <3>5, GetLine
    <3> QED BY <3>5, <3>6 DEF j
  <2>3. /\ g.str \in Stream /\ Len(g.str) = k /\ \A i \in 1 .. k : g.str[i] = t[i]
        /\ u \in Stream /\ Len(u) = n - k - 2 /\ \A i \in 1 .. n - k - 2 : u[i] = w[k + 2 + i]
    <3>1. k \in 0 .. Len(t) /\ k + 1 \in 0 .. Len(t)
      BY <1>1, <1>2, <2>1
    <3>2. /\ SubSeq(t, 1, k) \in Stream /\ Len(SubSeq(t, 1, k)) = k
          /\ \A i \in 1 .. k : SubSeq(t, 1, k)[i] = t[i]
          /\ After(t, k + 1) \in Stream /\ Len(After(t, k + 1)) = Len(t) - (k + 1)
          /\ \A i \in 1 .. Len(t) - (k + 1) : After(t, k + 1)[i] = t[k + 1 + i]
      BY <1>1, <3>1, AfterIs
    <3> HIDE DEF g, u
    <3>3. Len(t) - (k + 1) = n - k - 2
      BY <1>1, <1>2
    <3>4. \A i \in 1 .. n - k - 2 : k + 1 + i \in 1 .. n - 1 /\ k + 1 + i + 1 = k + 2 + i
      BY <1>1, <1>2
    <3> QED BY <1>9, <2>2, <3>2, <3>3, <3>4
  <2> HIDE DEF g, u
  <2>4. ASSUME NEW i \in 1 .. Len(u), k + 2 + i # Len(w) PROVE u[i] # NL
    <3>1. k + 2 + i <= Len(w) - 1 /\ i \in Nat /\ i >= 1
      BY <1>1, <1>2, <1>5, <2>3, <2>4
    <3>2. u[i] = w[k + 2 + i]
      BY <2>3
    <3>3. /\ i = 1 => u[i] = Num(call.mode.acc)
          /\ i = 2 => u[i] = Byte("access", call.mode.acc)
          /\ i = 3 => u[i] = Byte("flag", O_CREAT)
          /\ i = 4 => u[i] = Byte("flag", O_TRUNC)
          /\ i \in {1, 2, 3, 4}
      <4>1. k + 2 + 1 = k + 3 /\ k + 2 + 2 = k + 4 /\ k + 2 + 3 = k + 5 /\ k + 2 + 4 = k + 6
        BY <1>2
      <4>2. i <= 4 /\ (Len(w) = k + 5 => i <= 2)
        BY <1>2, <3>1
      <4>3. i \in {1, 2, 3, 4} /\ (Len(w) = k + 5 => i # 3 /\ i # 4)
        BY <3>1, <4>2
      <4>4. Len(w) # k + 5 => w[k + 5] = Byte("flag", O_CREAT) /\ w[k + 6] = Byte("flag", O_TRUNC)
        BY <1>2
      <4> QED BY <1>2, <3>2, <4>1, <4>3, <4>4
    <3> QED BY <3>3 DEF Num, Byte, NL
  <2>5. n = Len(w)
    <3> SUFFICES ASSUME n < Len(w) PROVE FALSE
      BY <1>1, <1>2, <1>5
    <3>1. Len(u) < SSIZE - 1 /\ \A i \in 1 .. Len(u) : k + 2 + i # Len(w)
      <4>1. Len(w) <= k + 7 /\ Len(w) \in Nat
        BY <1>2
      <4> QED BY <1>1, <1>2, <1>4, <2>3, <4>1
    <3> QED BY <1>7, <2>3, <2>4, <3>1, GetNone
  <2> DEFINE e == Len(u) - 1
  <2>6. /\ Len(u) \in Nat /\ k + 2 + Len(u) = Len(w) /\ e \in Nat /\ e + 1 = Len(u) /\ Len(u) < SSIZE
        /\ \/ call.mode.flags = {} /\ e = 2
           \/ call.mode.flags = {O_CREAT, O_TRUNC} /\ e = 4
    BY <1>4, <1>14, <2>3, <2>5
  <2>7. h.str = SubSeq(u, 1, e) /\ h.rest = After(u, Len(u))
    <3>1. Len(u) \in 1 .. Len(u) /\ Len(u) \in 1 .. n - k - 2
      BY <2>3, <2>6
    <3>2. u[Len(u)] = NL
      BY <1>2, <2>3, <2>6, <3>1
    <3>3. ASSUME NEW i \in 1 .. Len(u) - 1 PROVE u[i] # NL
      <4>1. i \in 1 .. Len(u) /\ k + 2 + i # Len(w)
        BY <1>2, <2>6
      <4> QED BY <2>4, <4>1
    <3> QED BY <2>3, <2>6, <3>1, <3>2, <3>3, GetLine
  <2>8. /\ h.str \in Stream /\ Len(h.str) = e /\ \A i \in 1 .. e : h.str[i] = w[k + 2 + i]
        /\ h.rest = << >>
    <3>1. e \in 0 .. Len(u) /\ Len(u) \in 0 .. Len(u) /\ \A i \in 1 .. e : i \in 1 .. n - k - 2
      BY <2>3, <2>6
    <3>4. u \in Stream
      BY <2>3
    <3> HIDE DEF e
    <3>2. /\ SubSeq(u, 1, e) \in Stream /\ Len(SubSeq(u, 1, e)) = e
          /\ \A i \in 1 .. e : SubSeq(u, 1, e)[i] = u[i]
          /\ After(u, Len(u)) \in Stream /\ Len(After(u, Len(u))) = Len(u) - Len(u)
      BY <3>1, <3>4, AfterIs
    <3> HIDE DEF h
    <3>3. Len(h.rest) = 0 /\ h.rest \in Stream
      BY <2>6, <2>7, <3>2
    <3> QED BY <2>3, <2>7, <3>1, <3>2, <3>3, Nothing
  <2> HIDE DEF h, e
  <2>9. rmtflags_toint(h.str) = [call.mode EXCEPT !.flags = @ \cap KnownFlags]
    <3>1. k + 2 + 1 = k + 3 /\ k + 2 + 2 = k + 4 /\ k + 2 + 3 = k + 5 /\ k + 2 + 4 = k + 6
      BY <1>2
    <3>2. 1 \in 1 .. e /\ 2 \in 1 .. e /\ (e = 4 => 3 \in 1 .. e /\ 4 \in 1 .. e)
      BY <2>6
    <3>3. /\ h.str[1] = Num(call.mode.acc) /\ h.str[2] = Byte("access", call.mode.acc)
          /\ e = 4 => h.str[3] = w[k + 5] /\ h.str[4] = w[k + 6]
      BY <1>2, <2>8, <3>1, <3>2
    <3>4. e = 4 => w[k + 5] = Byte("flag", O_CREAT) /\ w[k + 6] = Byte("flag", O_TRUNC)
      <4>1. e = 4 => Len(w) # k + 5
        <5> SUFFICES ASSUME e = 4 PROVE Len(w) # k + 5
          OBVIOUS
        <5>1. Len(u) = 5
          BY <2>6
        <5> QED BY <1>2, <2>6, <5>1
      <4> QED BY <1>2, <4>1
    <3>5. \/ call.mode.flags = {} /\ Len(h.str) = 2
          \/ /\ call.mode.flags = {O_CREAT, O_TRUNC} /\ Len(h.str) = 4
             /\ h.str[3] = Byte("flag", O_CREAT) /\ h.str[4] = Byte("flag", O_TRUNC)
      BY <2>6, <2>8, <3>3, <3>4
    <3> QED BY <1>3, <2>8, <3>3, <3>5, ModeOfFlags
  <2>10. /\ Command.op = "O" /\ Command.name = k /\ Command.count = 0 /\ Command.pos = 0
         /\ Command.mode = [call.mode EXCEPT !.flags = @ \cap KnownFlags]
         /\ Command.data = << >> /\ Command.rest = << >>
    <3>1. k \in Devices
      BY <1>2, <1>4, <1>12
    <3>2. /\ NameBytes(k) \in Seq(Bytes) /\ Len(NameBytes(k)) = k /\ k \in Nat
          /\ \A i \in 1 .. k : NameBytes(k)[i] = g.str[i]
      <4>1. \A i \in 1 .. k : i \in 1 .. n - 1
        BY <1>1, <1>2, <2>1
      <4> QED BY <1>2, <1>3, <1>9, <2>3, <4>1, NameBytesAre DEF Stream
    <3>3. g.str = NameBytes(k)
      BY <2>3, <3>2, SeqEqual DEF Stream
    <3>4. Device(g.str) = k
      BY <2>3, <3>1, <3>3 DEF Device
    <3> QED BY <1>8, <2>8, <2>9, <3>4
  <2>11. Command.mode.acc \in Int /\ k \in Devices
    <3>1. rmtflags_toint(h.str).acc \in Int
      BY <2>8, ModeIs
    <3>2. Command.mode = rmtflags_toint(h.str)
      BY <1>8
    <3>3. k <= SSIZE - 1
      BY <1>2, <1>4, <1>12
    <3>4. k \in Devices
      BY <1>4, <3>3
    <3> QED BY <3>1, <3>2, <3>4
  <2> QED BY <1>3, <1>11, <2>10, <2>11 DEF Understood, k
<1>13. CASE k >= SSIZE - 1
  <2>1. n >= SSIZE
    <3> SUFFICES ASSUME n < SSIZE PROVE FALSE
      BY <1>1, <1>4
    <3>1. Len(t) < SSIZE - 1 /\ \A i \in 1 .. Len(t) : i \in 1 .. n - 1 /\ i <= k
      BY <1>1, <1>4, <1>13
    <3> QED BY <1>1, <1>7, <1>10, <3>1, GetNone
  <2>2. g.str = SubSeq(t, 1, SSIZE - 1) /\ u = After(t, SSIZE - 1)
    <3>1. /\ Len(t) >= SSIZE - 1
          /\ \A i \in 1 .. SSIZE - 1 : i \in 1 .. n - 1 /\ i <= k
      BY <1>1, <1>4, <1>13, <2>1
    <3> HIDE DEF g
    <3> QED BY <1>1, <1>10, <3>1, GetPart DEF g
  <2>3. /\ Len(g.str) = SSIZE - 1
        /\ u \in Stream /\ Len(u) = n - SSIZE /\ \A i \in 1 .. n - SSIZE : u[i] = t[SSIZE - 1 + i]
    <3>1. SSIZE - 1 \in 0 .. Len(t)
      BY <1>1, <1>4, <2>1
    <3>2. /\ Len(SubSeq(t, 1, SSIZE - 1)) = SSIZE - 1
          /\ After(t, SSIZE - 1) \in Stream /\ Len(After(t, SSIZE - 1)) = Len(t) - (SSIZE - 1)
          /\ \A i \in 1 .. Len(t) - (SSIZE - 1) : After(t, SSIZE - 1)[i] = t[SSIZE - 1 + i]
      BY <1>1, <3>1, AfterIs
    <3>3. Len(t) - (SSIZE - 1) = n - SSIZE
      BY <1>1, <1>4
    <3> HIDE DEF g, u
    <3> QED BY <2>2, <3>2, <3>3
  <2> HIDE DEF g, u
  <2> DEFINE j == k + 2 - SSIZE
  <2>4. j \in Nat /\ j >= 1 /\ j < SSIZE /\ SSIZE - 1 + j = k + 1
    BY <1>2, <1>4, <1>13
  <2>5. ASSUME NEW i \in 1 .. Len(u), i < j PROVE u[i] # NL
    <3>1. /\ i \in 1 .. n - SSIZE /\ SSIZE - 1 + i \in 1 .. n - 1 /\ SSIZE - 1 + i <= k
      BY <1>1, <1>2, <1>4, <2>1, <2>3, <2>4, <2>5
    <3> QED BY <1>10, <2>3, <3>1
  <2>6. Len(u) >= j
    <3> SUFFICES ASSUME Len(u) < j PROVE FALSE
      BY <1>1, <1>4, <2>3, <2>4
    <3>1. Len(u) < SSIZE - 1 /\ \A i \in 1 .. Len(u) : i < j
      BY <1>1, <1>4, <2>1, <2>3, <2>4
    <3> QED BY <1>7, <2>3, <2>5, <3>1, GetNone
  <2>7. h.str = SubSeq(u, 1, j - 1) /\ h.rest = After(u, j)
    <3>1. /\ j \in 1 .. Len(u) /\ \A i \in 1 .. j - 1 : i \in 1 .. Len(u) /\ i < j
          /\ j \in 1 .. n - SSIZE /\ SSIZE - 1 + j \in 1 .. n - 1
      BY <1>1, <1>2, <1>4, <2>1, <2>3, <2>4, <2>6
    <3>2. u[j] = NL
      <4>1. u[j] = t[SSIZE - 1 + j] /\ t[SSIZE - 1 + j] = w[SSIZE - 1 + j + 1]
        BY <1>9, <2>3, <3>1
      <4>2. SSIZE - 1 + j + 1 = k + 2
        BY <1>2, <2>4
      <4> QED BY <1>2, <4>1, <4>2
    <3>3. \A i \in 1 .. j - 1 : u[i] # NL
      BY <2>5, <3>1
    <3> HIDE DEF j
    <3> QED BY <2>3, <2>4, <3>1, <3>2, <3>3, GetLine
  <2>8. /\ h.str \in Stream /\ h.rest \in Stream /\ Len(h.rest) = Len(u) - j
        /\ \A i \in 1 .. Len(u) - j : h.rest[i] = u[j + i]
    <3>0. Len(u) \in Nat
      BY <1>1, <1>4, <2>1, <2>3
    <3> HIDE DEF j, h
    <3>1. j - 1 \in 0 .. Len(u) /\ j \in 0 .. Len(u)
      BY <2>4, <2>6, <3>0
    <3>2. /\ SubSeq(u, 1, j - 1) \in Stream
          /\ After(u, j) \in Stream /\ Len(After(u, j)) = Len(u) - j
          /\ \A i \in 1 .. Len(u) - j : After(u, j)[i] = u[j + i]
      BY <2>3, <3>1, AfterIs
    <3> QED BY <2>7, <3>2
  <2> HIDE DEF h
  <2>9. h.rest = << >> \/ h.rest[1].c = "number"
    <3> SUFFICES ASSUME h.rest # << >> PROVE h.rest[1].c = "number"
      OBVIOUS
    <3>0. Len(u) \in Nat
      BY <1>1, <1>4, <2>1, <2>3
    <3>1. 1 \in 1 .. Len(u) - j
      <4>1. Len(u) - j # 0
        BY <2>8, Nothing
      <4> HIDE DEF j
      <4> QED BY <2>4, <2>6, <3>0, <4>1
    <3>2. /\ j + 1 \in 1 .. n - SSIZE /\ SSIZE - 1 + (j + 1) \in 1 .. n - 1
          /\ SSIZE - 1 + (j + 1) + 1 = k + 3
      BY <1>1, <1>2, <1>4, <2>1, <2>3, <2>4, <3>1
    <3> HIDE DEF j
    <3>3. h.rest[1] = u[j + 1]
      BY <2>8, <3>1
    <3>4. u[j + 1] = t[SSIZE - 1 + (j + 1)]
      BY <2>3, <3>2
    <3>5. t[SSIZE - 1 + (j + 1)] = w[k + 3]
      BY <1>9, <3>2
    <3> QED BY <1>2, <3>3, <3>4, <3>5 DEF Num, Byte
  <2>10. /\ Command.op = "O" /\ Command.name = Device(g.str) /\ Command.count = 0 /\ Command.pos = 0
         /\ Command.mode = rmtflags_toint(h.str) /\ Command.data = << >>
         /\ Command.rest = h.rest
    BY <1>8
  <2>11. Command.mode.acc \in Int /\ Command.name \in Devices
    <3>1. Device(g.str) \in Devices
      BY DeviceIs
    <3> QED BY <2>8, <2>10, <3>1, ModeIs
  <2>12. ~ShortName(call)
    BY <1>2, <1>4, <1>13 DEF ShortName, k
  <2> QED BY <1>3, <1>11, <2>8, <2>9, <2>10, <2>11, <2>12 DEF Understood
<1> QED BY <1>2, <1>4, <1>12, <1>13

LEMMA AllUnderstood ==
    ASSUME NEW call \in AllCalls, c2s \in Stream, c2s # << >>, Begins(c2s, Whole(call)), Arrived
    PROVE  Understood(call)
BY OpenUnderstood, DataUnderstood, MoveUnderstood, PlainUnderstood DEF AllCalls

-----------------------------------------------------------------------------
(* What the server does with a command. *)

Tapes == [run : BOOLEAN, open : BOOLEAN, name : Nat, acc : Int, pos : Nat]

Performed(cmd) ==
    /\ lastop'.cmd = cmd /\ ops' = ops + 1
    /\ lastop'.errno \in Nat /\ lastop'.val \in Int /\ lastop'.data \in Stream
    /\ lastop'.errno # 0 => lastop'.val = -1 /\ lastop'.data = << >>
    /\ lastop'.errno = 0 => Len(lastop'.data) = IF cmd.op \in {"R", "S"} THEN lastop'.val ELSE 0
    /\ s2c' = IF NoEnd THEN s2c \o Reply' ELSE s2c
    /\ server' \in Tapes /\ (server'.open => server'.name \in Devices)
    /\ dev' \in [Devices -> Stream]

LEMMA Answers ==
    ASSUME NEW cmd, NEW val \in Int, NEW errno \in Nat, NEW data \in Stream, NEW tape \in Tapes,
           tape.open => tape.name \in Devices,
           errno = 0 => Len(data) = IF cmd.op \in {"R", "S"} THEN val ELSE 0,
           errno # 0 => data = << >>,
           up \in BOOLEAN, dev' \in [Devices -> Stream], Answer(cmd, val, errno, data, tape)
    PROVE  Performed(cmd)
<1>1. /\ server' = [tape EXCEPT !.run = NoEnd] /\ ops' = ops + 1
      /\ lastop' = [cmd |-> cmd, val |-> IF errno # 0 THEN -1 ELSE val, errno |-> errno,
                    data |-> data]
      /\ s2c' = IF ~NoEnd THEN s2c
                ELSE s2c \o (IF errno # 0 THEN <<Byte("E", 0), Num(errno), NL, Byte("text", 0), NL>>
                             ELSE <<Byte("A", 0), Num(val), NL>> \o data)
  BY DEF Answer
<1>2. server' \in Tapes /\ (server'.open => server'.name \in Devices)
  <2>1. NoEnd \in BOOLEAN
    BY DEF NoEnd
  <2>2. /\ server'.open = tape.open /\ server'.name = tape.name /\ server' \in Tapes
    BY <1>1, <2>1 DEF Tapes
  <2> QED BY <2>2
<1>3. /\ lastop'.cmd = cmd /\ lastop'.val = (IF errno # 0 THEN -1 ELSE val)
      /\ lastop'.errno = errno /\ lastop'.data = data
  BY <1>1
<1>4. Reply' = IF errno # 0 THEN <<Byte("E", 0), Num(errno), NL, Byte("text", 0), NL>>
               ELSE <<Byte("A", 0), Num(val), NL>> \o data
  BY <1>3 DEF Reply, ReplyOf
<1>5. s2c' = IF NoEnd THEN s2c \o Reply' ELSE s2c
  BY <1>1, <1>4
<1>6. lastop'.val \in Int
  BY <1>3
<1> QED BY <1>1, <1>2, <1>3, <1>5, <1>6 DEF Performed

LEMMA Fails ==
    ASSUME NEW cmd, NEW errnos \in SUBSET (Nat \ {0}), NEW tape \in Tapes,
           tape.open => tape.name \in Devices, up \in BOOLEAN, dev \in [Devices -> Stream],
           Error(cmd, errnos, tape)
    PROVE  Performed(cmd)
<1>1. PICK e \in errnos : Answer(cmd, 0, e, << >>, tape) /\ UNCHANGED dev
  BY DEF Error
<1>2. << >> \in Stream /\ Len(<< >>) = 0
  BY DEF Stream
<1> QED BY <1>1, <1>2, Answers

LEMMA WrittenIs ==
    ASSUME NEW old \in Stream, NEW at \in Nat, NEW data \in Stream
    PROVE  Written(old, at, data) \in Stream
<1> DEFINE T == {Len(old), at + Len(data)}
           m == Max(T)
           b(i) == IF i \in at + 1 .. at + Len(data) THEN data[i - at]
                   ELSE IF i <= Len(old) THEN old[i] ELSE Byte("zero", 0)
<1>1. Len(old) \in Nat /\ Len(data) \in Nat
  BY DEF Stream
<1>2. T \subseteq Nat /\ T # {} /\ \A n \in T : n <= Len(old) + at + Len(data)
  BY <1>1
<1>3. m \in Nat
  <2>1. Len(old) + at + Len(data) \in Nat
    BY <1>1
  <2> HIDE DEF T
  <2> QED BY <1>2, <2>1, MaxIs
<1>4. ASSUME NEW i \in 1 .. m PROVE b(i) \in Bytes
  <2>1. i \in Nat /\ i >= 1
    BY <1>3
  <2>2. CASE i \in at + 1 .. at + Len(data)
    <3>1. i - at \in 1 .. Len(data)
      BY <1>1, <2>1, <2>2
    <3> QED BY <2>2, <3>1, ElementOfSeq DEF Stream
  <2>3. CASE i \notin at + 1 .. at + Len(data) /\ i <= Len(old)
    <3>1. i \in 1 .. Len(old)
      BY <1>1, <2>1, <2>3
    <3> QED BY <2>3, <3>1, ElementOfSeq DEF Stream
  <2>4. CASE i \notin at + 1 .. at + Len(data) /\ ~(i <= Len(old))
    BY <2>4, ByteIs DEF Kinds
  <2> QED BY <2>2, <2>3, <2>4
<1>5. Written(old, at, data) = [i \in 1 .. m |-> b(i)]
  BY DEF Written
<1> HIDE DEF m, b
<1>6. [i \in 1 .. m |-> b(i)] \in [1 .. m -> Bytes]
  BY <1>4
<1> QED BY <1>3, <1>5, <1>6, SeqDef DEF Stream

LEMMA AfterAny ==
    ASSUME NEW s \in Stream, NEW n \in Nat
    PROVE  After(s, n) \in Stream
<1>1. Len(s) \in Nat /\ \A i \in n + 1 .. Len(s) : s[i] \in Bytes
  <2>1. Len(s) \in Nat
    BY DEF Stream
  <2>2. \A i \in n + 1 .. Len(s) : i \in 1 .. Len(s)
    BY <2>1
  <2> QED BY <2>1, <2>2, ElementOfSeq DEF Stream
<1>2. n + 1 \in Int /\ Len(s) \in Int
  BY <1>1
<1> QED BY <1>1, <1>2, SubSeqProperties DEF After, Stream

(* What the server knows of a command when it performs it. *)
Readable(cmd) ==
    /\ cmd.count \in Nat /\ cmd.pos \in Nat /\ cmd.data \in Stream /\ cmd.mode.acc \in Int
    /\ cmd.op = "O" => cmd.name \in Devices

LEMMA ServePerforms ==
    ASSUME TypeInv, NEW cmd, Readable(cmd),
           \/ cmd.op = "O" /\ ServeOpen(cmd)
           \/ cmd.op = "C" /\ ServeClose(cmd)
           \/ cmd.op = "L" /\ ServeSeek(cmd)
           \/ cmd.op = "W" /\ ServeWrite(cmd)
           \/ cmd.op = "R" /\ ServeRead(cmd)
           \/ cmd.op = "I" /\ ServeIoctl(cmd)
           \/ cmd.op = "S" /\ ServeStatus(cmd)
    PROVE  Performed(cmd)
<1>1. /\ server \in Tapes /\ (server.open => server.name \in Devices) /\ up \in BOOLEAN
      /\ dev \in [Devices -> Stream]
  BY DEF TypeInv, Tapes
<1>2. << >> \in Stream /\ Len(<< >>) = 0
  BY DEF Stream
<1>3. Devices \subseteq Nat
  <2> DEFINE m(k) == Min({k, SSIZE - 1})
  <2>3. Devices = {0} \cup {m(k) : k \in NameLengths}
    BY DEF Devices
  <2> HIDE DEF m
  <2> SUFFICES ASSUME NEW k \in NameLengths PROVE m(k) \in Nat
    BY <2>3
  <2>1. k \in Nat /\ SSIZE - 1 \in Nat
    BY NameIs
  <2>2. {k, SSIZE - 1} \subseteq Nat /\ {k, SSIZE - 1} # {}
    BY <2>1
  <2> QED BY <2>2, MinIs DEF m
<1>4. \A n \in Nat : [server EXCEPT !.pos = n] \in Tapes
                     /\ [server EXCEPT !.pos = n].open = server.open
                     /\ [server EXCEPT !.pos = n].name = server.name
  BY <1>1 DEF Tapes
<1>5. ClosedTape \in Tapes /\ ~ClosedTape.open
  BY <1>1 DEF Tapes, ClosedTape
<1>6. /\ {EIO} \in SUBSET (Nat \ {0}) /\ {EBADF} \in SUBSET (Nat \ {0})
      /\ {EIO, ENOSPC} \in SUBSET (Nat \ {0})
  BY DEF EIO, EBADF, ENOSPC
<1>7. server.open => dev[server.name] \in Stream
  BY <1>1
<1>8. ASSUME NEW errnos \in SUBSET (Nat \ {0}), Error(cmd, errnos, server)
      PROVE  Performed(cmd)
  BY <1>1, <1>8, Fails
<1>16. ASSUME NEW val \in Int, NEW to \in Nat, cmd.op \notin {"R", "S"},
              Answer(cmd, val, 0, << >>, [server EXCEPT !.pos = to]), dev' \in [Devices -> Stream]
       PROVE  Performed(cmd)
  <2> DEFINE tape == [server EXCEPT !.pos = to]
  <2>1. tape \in Tapes /\ (tape.open => tape.name \in Devices)
    BY <1>1, <1>4
  <2>2. Answer(cmd, val, 0, << >>, tape)
    BY <1>16
  <2>3. Len(<< >>) = IF cmd.op \in {"R", "S"} THEN val ELSE 0
    BY <1>2, <1>16
  <2> HIDE DEF tape
  <2> QED BY <1>1, <1>2, <1>16, <2>1, <2>2, <2>3, Answers
<1>9. ASSUME cmd.op = "O", ServeOpen(cmd) PROVE Performed(cmd)
  <2>1. CASE Error(cmd, {EIO}, ClosedTape)
    BY <1>1, <1>5, <1>6, <2>1, Fails
  <2>2. CASE /\ Answer(cmd, 0, 0, << >>, [server EXCEPT !.open = TRUE, !.name = cmd.name,
                                                     !.acc = cmd.mode.acc, !.pos = 0])
             /\ dev' = IF O_TRUNC \in cmd.mode.flags THEN [dev EXCEPT ![cmd.name] = << >>] ELSE dev
    <3> DEFINE tape == [server EXCEPT !.open = TRUE, !.name = cmd.name,
                                      !.acc = cmd.mode.acc, !.pos = 0]
    <3>1. tape \in Tapes /\ tape.name = cmd.name /\ cmd.name \in Devices
      BY <1>1, <1>3, <1>9 DEF Tapes, Readable
    <3>2. dev' \in [Devices -> Stream]
      BY <1>1, <1>2, <2>2
    <3>3. Answer(cmd, 0, 0, << >>, tape)
      BY <2>2
    <3> HIDE DEF tape
    <3> QED BY <1>1, <1>2, <1>9, <3>1, <3>2, <3>3, Answers
  <2> QED BY <1>9, <2>1, <2>2 DEF ServeOpen
<1>10. ASSUME cmd.op = "C", ServeClose(cmd) PROVE Performed(cmd)
  <2>1. CASE Answer(cmd, 0, 0, << >>, ClosedTape) /\ UNCHANGED dev
    BY <1>1, <1>2, <1>5, <1>10, <2>1, Answers
  <2>2. CASE Error(cmd, {EIO}, ClosedTape)
    BY <1>1, <1>5, <1>6, <2>2, Fails
  <2> QED BY <1>6, <1>8, <1>10, <2>1, <2>2 DEF ServeClose
<1>11. ASSUME cmd.op = "L", ServeSeek(cmd) PROVE Performed(cmd)
  <2> DEFINE to == CASE cmd.pos = SEEK_CUR -> server.pos + cmd.count
                     [] cmd.pos \in {SEEK_SET, LSEEK_GO2_TAPEPOS} -> cmd.count
                     [] OTHER -> server.pos
  <2>1. CASE Error(cmd, {IF server.open THEN EIO ELSE EBADF}, server)
    BY <1>6, <1>8, <2>1
  <2>2. CASE server.open /\ Answer(cmd, to, 0, << >>, [server EXCEPT !.pos = to]) /\ UNCHANGED dev
    <3>1. to \in Nat
      BY <1>1 DEF Tapes, Readable
    <3> HIDE DEF to
    <3>2. to \in Int
      BY <3>1
    <3>3. dev' \in [Devices -> Stream]
      BY <1>1, <2>2
    <3> QED BY <1>11, <1>16, <2>2, <3>1, <3>2, <3>3
  <2> QED BY <1>11, <2>1, <2>2 DEF ServeSeek
<1>12. ASSUME cmd.op = "W", ServeWrite(cmd) PROVE Performed(cmd)
  <2>1. CASE Error(cmd, IF server.open /\ server.acc # O_RDONLY THEN {EIO, ENOSPC} ELSE {EBADF}, server)
    BY <1>6, <1>8, <2>1
  <2>2. CASE /\ server.open
             /\ \E k \in 1 .. Len(cmd.data) :
                /\ Answer(cmd, k, 0, << >>, [server EXCEPT !.pos = @ + k])
                /\ dev' = [dev EXCEPT ![server.name] = Written(@, server.pos, SubSeq(cmd.data, 1, k))]
    <3>1. PICK k \in 1 .. Len(cmd.data) :
                /\ Answer(cmd, k, 0, << >>, [server EXCEPT !.pos = server.pos + k])
                /\ dev' = [dev EXCEPT ![server.name] = Written(@, server.pos, SubSeq(cmd.data, 1, k))]
      BY <2>2
    <3>2. k \in Nat /\ k \in Int /\ server.pos + k \in Nat /\ server.pos \in Nat
      BY <1>1 DEF Tapes, Readable, Stream
    <3>3. SubSeq(cmd.data, 1, k) \in Stream
      <4>1. k \in 0 .. Len(cmd.data)
        BY <3>2
      <4> QED BY <4>1, AfterIs DEF Readable
    <3>4. Written(dev[server.name], server.pos, SubSeq(cmd.data, 1, k)) \in Stream
      BY <1>7, <2>2, <3>2, <3>3, WrittenIs
    <3>5. dev' \in [Devices -> Stream]
      BY <1>1, <3>1, <3>4
    <3> QED BY <1>12, <1>16, <3>1, <3>2, <3>5
  <2> QED BY <1>12, <2>1, <2>2 DEF ServeWrite
<1>13. ASSUME cmd.op = "R", ServeRead(cmd) PROVE Performed(cmd)
  <2>1. CASE Error(cmd, IF server.open /\ server.acc = O_RDONLY THEN {EIO} ELSE {EBADF}, server)
    BY <1>6, <1>8, <2>1
  <2> DEFINE there == After(dev[server.name], server.pos)
  <2>2. CASE /\ server.open /\ UNCHANGED dev
             /\ \E k \in 0 .. Min({cmd.count, Len(there)}) :
                   Answer(cmd, k, 0, SubSeq(there, 1, k), [server EXCEPT !.pos = @ + k])
    <3>1. there \in Stream /\ server.pos \in Nat
      <4>1. server.pos \in Nat
        BY <1>1 DEF Tapes
      <4> QED BY <1>7, <2>2, <4>1, AfterAny
    <3> HIDE DEF there
    <3>2. PICK k \in 0 .. Min({cmd.count, Len(there)}) :
              Answer(cmd, k, 0, SubSeq(there, 1, k), [server EXCEPT !.pos = server.pos + k])
      BY <2>2
    <3>3. k \in 0 .. Len(there) /\ Len(there) \in Nat
      <4>1. cmd.count \in Nat /\ Len(there) \in Nat
        BY <3>1 DEF Readable, Stream
      <4> DEFINE T == {cmd.count, Len(there)}
      <4>2. T \subseteq Nat /\ T # {} /\ Len(there) \in T
        BY <4>1
      <4> HIDE DEF T
      <4>3. Min(T) \in Nat /\ Min(T) <= Len(there)
        BY <4>2, MinIs
      <4>4. k \in 0 .. Min(T)
        BY DEF T
      <4> QED BY <4>1, <4>3, <4>4
    <3>4. k \in Nat /\ k \in Int /\ server.pos + k \in Nat
      BY <3>1, <3>3
    <3>5. SubSeq(there, 1, k) \in Stream /\ Len(SubSeq(there, 1, k)) = k
      BY <3>1, <3>3, AfterIs
    <3>6. dev' \in [Devices -> Stream]
      BY <1>1, <2>2
    <3> QED BY <1>1, <1>4, <1>13, <3>2, <3>4, <3>5, <3>6, Answers
  <2> QED BY <1>13, <2>1, <2>2 DEF ServeRead
<1>14. ASSUME cmd.op = "I", ServeIoctl(cmd) PROVE Performed(cmd)
  <2>1. CASE Error(cmd, {IF server.open THEN EIO ELSE EBADF}, server)
    BY <1>6, <1>8, <2>1
  <2>2. CASE /\ server.open /\ UNCHANGED dev
             /\ \E to \in server.pos .. Len(dev[server.name]) :
                   Answer(cmd, cmd.pos, 0, << >>, [server EXCEPT !.pos = to])
    <3>1. PICK to \in server.pos .. Len(dev[server.name]) :
                   Answer(cmd, cmd.pos, 0, << >>, [server EXCEPT !.pos = to])
      BY <2>2
    <3>2. to \in Nat /\ cmd.pos \in Int
      BY <1>1, <1>7, <2>2 DEF Tapes, Stream, Readable
    <3>3. dev' \in [Devices -> Stream]
      BY <1>1, <2>2
    <3> QED BY <1>14, <1>16, <3>1, <3>2, <3>3
  <2> QED BY <1>14, <2>1, <2>2 DEF ServeIoctl
<1>15. ASSUME cmd.op = "S", ServeStatus(cmd) PROVE Performed(cmd)
  <2> DEFINE d == [i \in 1 .. StatusBytes |-> Byte("status", 0)]
  <2>1. CASE Error(cmd, {IF server.open THEN EIO ELSE EBADF}, server)
    BY <1>6, <1>8, <2>1
  <2>2. CASE Answer(cmd, StatusBytes, 0, d, server) /\ UNCHANGED dev
    <3>1. Byte("status", 0) \in Bytes /\ StatusBytes = 2
      BY ByteIs DEF Kinds, StatusBytes
    <3>2. d \in Stream /\ Len(d) = StatusBytes /\ StatusBytes \in Int
      BY <3>1 DEF Stream
    <3> HIDE DEF d
    <3> QED BY <1>1, <1>15, <2>2, <3>2, Answers
  <2> QED BY <1>15, <2>1, <2>2 DEF ServeStatus
<1> QED BY <1>9, <1>10, <1>11, <1>12, <1>13, <1>14, <1>15

-----------------------------------------------------------------------------
(* Parts of a stream. *)

LEMMA BeginsAll ==
    ASSUME NEW w \in Stream
    PROVE  Begins(w, w) /\ Begins(<< >>, w)
<1>1. Len(w) \in Nat /\ Len(<< >>) = 0
  BY FewBytes DEF Stream
<1> QED BY <1>1 DEF Begins

LEMMA BeginsPart ==
    ASSUME NEW s \in Stream, NEW w, Len(w) \in Nat, Begins(s, w), NEW i \in 0 .. Len(s)
    PROVE  SubSeq(s, 1, i) \in Stream /\ Begins(SubSeq(s, 1, i), w)
<1>1. Len(s) \in Nat
  BY DEF Stream
<1>2. /\ SubSeq(s, 1, i) \in Stream /\ Len(SubSeq(s, 1, i)) = i
      /\ \A k \in 1 .. i : SubSeq(s, 1, i)[k] = s[k]
  BY AfterIs
<1>3. i \in Nat /\ i <= Len(w) /\ \A k \in 1 .. i : s[k] = w[k]
  BY <1>1 DEF Begins
<1> HIDE DEF Stream
<1> QED BY <1>2, <1>3 DEF Begins

LEMMA WholeIs ==
    ASSUME NEW call \in AllCalls
    PROVE  /\ Request(call) \in Stream /\ Whole(call) \in Stream
           /\ call.op = "W" => call \in DataCalls /\ Len(Request(call)) = 3
           /\ call.op # "W" => Whole(call) = Request(call)
           /\ \A s \in Stream : Begins(s, Request(call)) => Begins(s, Whole(call))
           /\ Request(call) # << >>
<1>1. CASE call \in DataCalls
  <2>1. /\ Request(call) \in Stream /\ Whole(call) \in Stream /\ Len(Request(call)) = 3
        /\ Len(Whole(call)) = 3 + (IF call.op = "W" THEN call.count ELSE 0)
        /\ call.count \in Nat /\ \A i \in 1 .. 3 : Request(call)[i] = Whole(call)[i]
        /\ Whole(call) = Request(call) \o (IF call.op = "W" THEN DataBytes(call.count, call.id)
                                           ELSE << >>)
    BY <1>1, DataIs DEF DataCalls
  <2>2. ASSUME call.op # "W" PROVE Whole(call) = Request(call)
    BY <2>1, <2>2 DEF Stream
  <2>3. ASSUME NEW s \in Stream, Begins(s, Request(call)) PROVE Begins(s, Whole(call))
    <3>1. Len(s) \in Nat /\ Len(s) <= 3 /\ \A i \in 1 .. Len(s) : s[i] = Request(call)[i]
      BY <2>1, <2>3 DEF Begins, Stream
    <3>2. Len(Whole(call)) \in Nat /\ Len(Whole(call)) >= 3
      BY <2>1
    <3>3. \A i \in 1 .. Len(s) : s[i] = Whole(call)[i]
      BY <2>1, <3>1
    <3> QED BY <3>1, <3>2, <3>3 DEF Begins
  <2>4. Request(call) # << >>
    <3>1. Len(<< >>) = 0
      BY DEF Stream
    <3> QED BY <2>1, <3>1
  <2> QED BY <1>1, <2>1, <2>2, <2>3, <2>4
<1>2. CASE call \in OpenCalls
  <2>1. Whole(call) \in Stream /\ Whole(call) = Request(call) /\ call.op = "O"
    BY <1>2, OpenIs DEF OpenCalls
  <2>2. Request(call) # << >>
    BY <1>2, <2>1, OpenIs, FewBytes
  <2> QED BY <2>1, <2>2
<1>3. CASE call \in MoveCalls
  <2>1. /\ Whole(call) \in Stream /\ Whole(call) = Request(call) /\ call.op # "W"
        /\ Len(Whole(call)) = 5
    BY <1>3, MoveIs DEF MoveCalls
  <2> QED BY <2>1, FewBytes
<1>4. CASE call \in PlainCalls
  <2>1. /\ Whole(call) \in Stream /\ Whole(call) = Request(call) /\ call.op # "W"
        /\ Len(Whole(call)) = IF call.op = "C" THEN 2 ELSE 1
    BY <1>4, PlainIs DEF PlainCalls
  <2>2. Len(Whole(call)) # 0
    BY <2>1
  <2> QED BY <2>1, <2>2, FewBytes
<1> QED BY <1>1, <1>2, <1>3, <1>4 DEF AllCalls

LEMMA ReplyIs ==
    ASSUME NEW l, l.errno \in Nat, l.val \in Int, l.data \in Stream
    PROVE  LET r == ReplyOf(l)
           IN  /\ r \in Stream /\ Len(r) = IF l.errno # 0 THEN 5 ELSE 3 + Len(l.data)
               /\ r[1] = Byte(IF l.errno # 0 THEN "E" ELSE "A", 0)
               /\ r[2] = Num(IF l.errno # 0 THEN l.errno ELSE l.val) /\ r[3] = NL
               /\ l.errno # 0 => r[4] = Byte("text", 0) /\ r[5] = NL
               /\ l.errno = 0 => \A i \in 1 .. Len(l.data) : r[3 + i] = l.data[i]
<1>1. /\ Byte("E", 0) \in Bytes /\ Byte("A", 0) \in Bytes /\ Byte("text", 0) \in Bytes
      /\ NL \in Bytes /\ Num(l.errno) \in Bytes /\ Num(l.val) \in Bytes
  BY ByteIs DEF Kinds
<1>2. CASE l.errno # 0
  <2>1. ReplyOf(l) = <<Byte("E", 0), Num(l.errno), NL, Byte("text", 0), NL>>
    BY <1>2 DEF ReplyOf
  <2> QED BY <1>1, <1>2, <2>1 DEF Stream
<1>3. CASE l.errno = 0
  <2> DEFINE a == <<Byte("A", 0), Num(l.val), NL>>
             r == a \o l.data
  <2>1. a \in Stream /\ Len(a) = 3 /\ a[1] = Byte("A", 0) /\ a[2] = Num(l.val) /\ a[3] = NL
    BY <1>1 DEF Stream
  <2>2. ReplyOf(l) = r
    BY <1>3 DEF ReplyOf
  <2> HIDE DEF a
  <2>3. /\ r \in Stream /\ Len(r) = 3 + Len(l.data) /\ \A i \in 1 .. 3 : r[i] = a[i]
        /\ \A i \in 1 .. Len(l.data) : r[3 + i] = l.data[i]
    <3>1. Join(r, a, l.data)
      BY <1>1, <2>1, JoinIs
    <3> HIDE DEF r
    <3> QED BY <2>1, <3>1 DEF Join
  <2>4. r[1] = a[1] /\ r[2] = a[2] /\ r[3] = a[3]
    BY <2>3
  <2> HIDE DEF r
  <2> QED BY <1>3, <2>1, <2>2, <2>3, <2>4
<1> QED BY <1>2, <1>3

(* The first line of an answer. *)
LEMMA FirstLine ==
    ASSUME NEW s \in Stream, HasLine(s), NEW r \in Stream, Begins(s, r), Len(r) >= 3,
           r[1].c # "newline", r[2].c # "newline", r[3] = NL
    PROVE  /\ Len(s) >= 3 /\ LineEnd(s) = 3 /\ Line(s) # << >>
           /\ Line(s)[1] = r[1] /\ Line(s)[2] = r[2]
<1>1. Len(s) \in Nat /\ Len(r) \in Nat /\ Len(s) <= Len(r)
      /\ \A i \in 1 .. Len(s) : s[i] = r[i]
  BY DEF Begins, Stream
<1>2. r[1] # NL /\ r[2] # NL
  BY ByteIs
<1>3. /\ LineEnd(s) \in 1 .. Len(s) /\ s[LineEnd(s)] = NL
      /\ \A i \in 1 .. LineEnd(s) - 1 : s[i] # NL
  BY LineEnds
<1>4. LineEnd(s) \in Nat /\ LineEnd(s) # 1 /\ LineEnd(s) # 2 /\ LineEnd(s) >= 1
  BY <1>1, <1>2, <1>3
<1>5. LineEnd(s) >= 3 /\ Len(s) >= 3
  BY <1>1, <1>3, <1>4
<1>6. LineEnd(s) = 3
  <2> SUFFICES ASSUME LineEnd(s) # 3 PROVE FALSE
    OBVIOUS
  <2>1. 3 \in 1 .. LineEnd(s) - 1 /\ s[3] = r[3]
    BY <1>1, <1>4, <1>5
  <2> QED BY <1>3, <2>1
<1>7. Line(s) = SubSeq(s, 1, 2)
  BY <1>6 DEF Line
<1>8. /\ SubSeq(s, 1, 2) \in Stream /\ Len(SubSeq(s, 1, 2)) = 2
      /\ \A i \in 1 .. 2 : SubSeq(s, 1, 2)[i] = s[i]
  <2>1. 2 \in 0 .. Len(s)
    BY <1>1, <1>5
  <2> QED BY <2>1, AfterIs
<1>9. s[1] = r[1] /\ s[2] = r[2]
  BY <1>1, <1>5
<1> QED BY <1>5, <1>6, <1>7, <1>8, <1>9, FewBytes

-----------------------------------------------------------------------------
(* The steps of the client. *)

LEMMA CallsAre ==
    ASSUME NEW id \in Nat, NEW call \in Calls(id), ~(call.name > LongestName)
    PROVE  call \in AllCalls
<1>1. MaxCount \in Nat
  BY RemoteAssumption
<1>2. CASE call \in {Call("O", k, m, 0, 0, id) : k \in NameLengths, m \in Modes}
  <2>1. PICK k \in NameLengths, m \in Modes : call = Call("O", k, m, 0, 0, id)
    BY <1>2
  <2>2. call.name = k
    BY <2>1 DEF Call
  <2>3. k <= LongestName
    BY <2>2, NameBytesAre, RemoteAssumption DEF LongestName
  <2> QED BY <2>1, <2>3 DEF Call, AllCalls, OpenCalls
<1>3. CASE call \in {Call(o, 0, ReadMode, n, 0, id) : o \in {"R", "W"}, n \in 1 .. MaxCount}
  <2>1. PICK o \in {"R", "W"}, n \in 1 .. MaxCount : call = Call(o, 0, ReadMode, n, 0, id)
    BY <1>3
  <2>2. n \in Nat \ {0}
    BY <1>1
  <2> QED BY <2>1, <2>2 DEF Call, AllCalls, DataCalls
<1>4. CASE call \in {Call("L", 0, ReadMode, 1, p, id) :
                        p \in {SEEK_CUR, LSEEK_GET_TAPEPOS, LSEEK_GO2_TAPEPOS}}
  <2>1. PICK p \in {SEEK_CUR, LSEEK_GET_TAPEPOS, LSEEK_GO2_TAPEPOS} :
             call = Call("L", 0, ReadMode, 1, p, id)
    BY <1>4
  <2>2. p \in Nat
    BY DEF SEEK_CUR, LSEEK_GET_TAPEPOS, LSEEK_GO2_TAPEPOS
  <2> QED BY <2>1, <2>2 DEF Call, AllCalls, MoveCalls
<1>5. CASE call = Call("I", 0, ReadMode, 1, 1, id)
  BY <1>5 DEF Call, AllCalls, MoveCalls
<1>6. CASE call \in {Call(o, 0, ReadMode, 0, 0, id) : o \in {"C", "S"}}
  BY <1>6 DEF Call, AllCalls, PlainCalls
<1> QED BY <1>2, <1>3, <1>4, <1>5, <1>6 DEF Calls

LEMMA RemoteInit ==
    ASSUME Init
    PROVE  RemoteInv
<1>1. /\ client = [pc |-> "start", open |-> FALSE, call |-> NoCall, calls |-> 0, res |-> NoRes,
                   long |-> FALSE]
      /\ c2s = << >> /\ s2c = << >> /\ up = TRUE /\ server = Run /\ ops = 0 /\ cut = 0
      /\ dev = [k \in Devices |-> <<Byte("old", 1), Byte("old", 2)>>]
  BY DEF Init
<1>2. << >> \in Stream /\ NoRes \in Results
  <2>1. << >> \in Stream
    BY DEF Stream
  <2> QED BY <2>1 DEF NoRes, Results
<1>3. client \in [pc : {"start", "idle", "senddata", "reply", "data", "exit"},
                  open : BOOLEAN, call : AllCalls \cup {NoCall}, calls : Nat, res : Results,
                   long : BOOLEAN]
  BY <1>1, <1>2
<1>4. dev \in [Devices -> Stream]
  <2>1. Byte("old", 1) \in Bytes /\ Byte("old", 2) \in Bytes
    BY ByteIs DEF Kinds
  <2> QED BY <1>1, <2>1, FewBytes
<1>5. /\ server \in [run : BOOLEAN, open : BOOLEAN, name : Nat, acc : Int, pos : Nat]
      /\ ~server.open
  BY <1>1 DEF Run, O_RDONLY
<1>6. TypeInv
  BY <1>1, <1>2, <1>3, <1>4, <1>5 DEF TypeInv
<1>7. LastInv /\ RequestInv /\ ReplyInv
  BY <1>1 DEF LastInv, RequestInv, ReplyInv, Served
<1>8. "long" \in DOMAIN client
  BY <1>1
<1> QED BY <1>1, <1>6, <1>7, <1>8 DEF RemoteInv, Inv

(* Whatever the client does, as long as it makes no call. *)
LEMMA SameCall ==
    ASSUME LastInv, UNCHANGED <<lastop, ops>>, client'.calls = client.calls,
           client'.call = client.call
    PROVE  LastInv' /\ (Served' <=> Served)
BY DEF LastInv, Served, ShortName

LEMMA ExitStep ==
    ASSUME Inv, Exit, UNCHANGED <<c2s, s2c, up, server, dev, lastop, ops, cut>>
    PROVE  Inv'
<1>1. TypeInv /\ LastInv /\ RequestInv /\ ReplyInv
  BY DEF Inv
<1>2. client' = [client EXCEPT !.pc = "exit"]
  BY DEF Exit
<1>3. /\ client'.pc = "exit" /\ client'.call = client.call /\ client'.calls = client.calls
      /\ client'.res = client.res
  BY <1>1, <1>2 DEF TypeInv
<1>4. TypeInv'
  <2>1. client' \in [pc : {"start", "idle", "senddata", "reply", "data", "exit"},
                     open : BOOLEAN, call : AllCalls \cup {NoCall}, calls : Nat, res : Results,
                   long : BOOLEAN]
    BY <1>1, <1>2 DEF TypeInv
  <2> QED BY <1>1, <1>3, <2>1 DEF TypeInv
<1>5. LastInv' /\ (Served' <=> Served)
  BY <1>1, <1>3, SameCall
<1>6. ASSUME ~Served, Begins(c2s, Sent) PROVE Begins(c2s, Sent')
  <2>1. client.call \in AllCalls /\ c2s \in Stream
    <3>1. client.calls > 0
      BY <1>1, <1>6 DEF TypeInv, RequestInv, Served
    <3> QED BY <1>1, <3>1 DEF TypeInv
  <2>2. Sent' = Whole(client.call)
    BY <1>3 DEF Sent
  <2> QED BY <1>6, <2>1, <2>2, WholeIs DEF Sent
<1>7. RequestInv'
  <2>1. (Stuck' <=> Stuck) /\ (Begins(c2s', Sent') <=> Begins(c2s, Sent'))
    BY DEF Stuck
  <2> QED BY <1>1, <1>3, <1>5, <1>6, <2>1 DEF RequestInv, ShortName
<1>8. ReplyInv'
  BY <1>3 DEF ReplyInv
<1> QED BY <1>4, <1>5, <1>7, <1>8 DEF Inv

LEMMA GetConnStep ==
    ASSUME Inv, rmtgetconn
    PROVE  Inv'
<1>1. CASE Exit
  BY <1>1, ExitStep DEF rmtgetconn
<1>2. CASE client' = [client EXCEPT !.pc = "idle"]
  <2>1. TypeInv /\ LastInv /\ RequestInv /\ ReplyInv /\ client.pc = "start"
        /\ UNCHANGED <<c2s, s2c, up, server, dev, lastop, ops, cut>>
    BY DEF Inv, rmtgetconn
  <2>2. /\ client'.pc = "idle" /\ client'.call = client.call /\ client'.calls = client.calls
        /\ client'.res = client.res
    BY <1>2, <2>1 DEF TypeInv
  <2>3. TypeInv'
    BY <1>2, <2>1, <2>2 DEF TypeInv
  <2>4. LastInv' /\ (Served' <=> Served)
    BY <2>1, <2>2, SameCall
  <2>5. Served /\ client.calls = 0 /\ s2c = << >>
    BY <2>1 DEF ReplyInv
  <2>6. RequestInv'
    BY <2>1, <2>2, <2>4, <2>5 DEF RequestInv, Stuck, ShortName
  <2>7. ReplyInv'
    BY <2>1, <2>2, <2>4, <2>5 DEF ReplyInv
  <2> QED BY <2>3, <2>4, <2>6, <2>7 DEF Inv
<1> QED BY <1>1, <1>2 DEF rmtgetconn

LEMMA CallStep ==
    ASSUME Inv, rmtcall, ~client'.long
    PROVE  Inv'
<1>1. /\ TypeInv /\ LastInv /\ RequestInv /\ ReplyInv /\ client.pc = "idle"
      /\ UNCHANGED <<s2c, up, server, dev, lastop, ops, cut>>
  BY DEF Inv, rmtcall
<1>2. CASE Exit /\ UNCHANGED c2s
  BY <1>1, <1>2, ExitStep
<1>3. ASSUME NEW call \in Calls(client.calls + 1),
             client' = [client EXCEPT !.pc = IF call.op = "W" THEN "senddata" ELSE "reply",
                                      !.call = call, !.calls = @ + 1, !.res = NoRes,
                                      !.open = call.op = "O" \/ @,
                                      !.long = @ \/ call.name > LongestName],
             c2s' = IF Peer THEN c2s \o Request(call) ELSE c2s
      PROVE  Inv'
  <2>1. call \in AllCalls /\ client.calls \in Nat
    <3>1. client.calls \in Nat
      BY <1>1 DEF TypeInv
    <3>2. client'.long = (client.long \/ call.name > LongestName)
      BY <1>1, <1>3 DEF TypeInv
    <3>3. ~(call.name > LongestName)
      BY <3>2
    <3> QED BY <3>1, <3>3, CallsAre
  <2>2. /\ client'.pc = (IF call.op = "W" THEN "senddata" ELSE "reply") /\ client'.call = call
        /\ client'.calls = client.calls + 1 /\ client'.res = NoRes
    BY <1>1, <1>3 DEF TypeInv
  <2>3. Served /\ s2c = << >>
    BY <1>1 DEF ReplyInv
  <2>4. ops' + 1 = client'.calls /\ ~Served' /\ client'.calls > 0
    BY <1>1, <2>1, <2>2, <2>3 DEF Served
  <2>5. /\ Request(call) \in Stream /\ Request(call) # << >>
        /\ call.op # "W" => Whole(call) = Request(call)
    BY <2>1, WholeIs
  <2>6. c2s' \in Stream
    BY <1>1, <1>3, <2>5, Joined DEF TypeInv
  <2>7. NoRes \in Results
    BY DEF NoRes, Results, Stream
  <2>8. TypeInv'
    <3>1. client' \in [pc : {"start", "idle", "senddata", "reply", "data", "exit"},
                       open : BOOLEAN, call : AllCalls \cup {NoCall}, calls : Nat, res : Results,
                   long : BOOLEAN]
      <4> DEFINE p == IF call.op = "W" THEN "senddata" ELSE "reply"
                 o == call.op = "O" \/ client.open
                 n == client.calls + 1
                 l == client.long \/ call.name > LongestName
      <4>1. /\ p \in {"start", "idle", "senddata", "reply", "data", "exit"} /\ o \in BOOLEAN
            /\ n \in Nat /\ l \in BOOLEAN
        BY <1>1, <2>1 DEF TypeInv
      <4>2. client' = [client EXCEPT !.pc = p, !.call = call, !.calls = n, !.res = NoRes,
                                     !.open = o, !.long = l]
        BY <1>1, <1>3 DEF TypeInv
      <4> HIDE DEF p, o, n, l
      <4> QED BY <1>1, <2>1, <2>7, <4>1, <4>2 DEF TypeInv
    <3> QED BY <1>1, <2>1, <2>2, <2>6, <3>1 DEF TypeInv
  <2>9. LastInv'
    BY <2>4 DEF LastInv
  <2>10. Sent' = Request(call)
    BY <2>2, <2>5 DEF Sent
  <2>11. server.run => c2s = << >> \/ Stuck
    BY <1>1, <2>3 DEF RequestInv
  <2>12. CASE Peer
    <3>1. c2s = << >> => c2s' = Request(call)
      BY <1>3, <2>5, <2>12 DEF Stream
    <3>2. Stuck => Stuck'
      <4> SUFFICES ASSUME Stuck PROVE Stuck'
        OBVIOUS
      <4>1. Len(c2s) >= 1 /\ Len(c2s) \in Nat /\ Len(Request(call)) \in Nat
        BY <1>1, <2>5, Head_Tail DEF TypeInv, Stuck, Stream
      <4>2. c2s' = c2s \o Request(call)
        BY <1>3, <2>12
      <4>3. c2s'[1] = c2s[1] /\ Len(c2s') = Len(c2s) + Len(Request(call))
        BY <1>1, <2>5, <4>1, <4>2, Joined DEF TypeInv
      <4>4. c2s' # << >>
        <5>1. Len(<< >>) = 0
          BY DEF Stream
        <5> QED BY <4>1, <4>3, <5>1
      <4> QED BY <4>3, <4>4 DEF Stuck
    <3>3. server.run
      BY <2>12 DEF Peer
    <3>4. Begins(Request(call), Request(call))
      BY <2>5, BeginsAll
    <3> QED BY <1>1, <2>2, <2>3, <2>4, <2>8, <2>9, <2>10, <2>11, <3>1, <3>2, <3>3, <3>4
            DEF Inv, RequestInv, ReplyInv
  <2>13. CASE ~Peer
    <3>1. c2s' = c2s /\ (Stuck' <=> Stuck) /\ ~Peer'
      BY <1>1, <1>3, <2>13 DEF Stuck, Peer
    <3>2. Begins(<< >>, Request(call))
      BY <2>5, BeginsAll
    <3> QED BY <1>1, <2>2, <2>3, <2>4, <2>8, <2>9, <2>10, <2>11, <3>1, <3>2
            DEF Inv, RequestInv, ReplyInv
  <2> QED BY <2>12, <2>13
<1> QED BY <1>2, <1>3 DEF rmtcall

LEMMA WriteStep ==
    ASSUME Inv, rmtwrite, cut = 0, cut' = 0
    PROVE  Inv'
<1>1. /\ TypeInv /\ LastInv /\ RequestInv /\ ReplyInv /\ client.pc = "senddata"
      /\ UNCHANGED <<s2c, up, server, dev, lastop, ops>>
  BY DEF Inv, rmtwrite
<1>2. CASE Exit /\ UNCHANGED <<c2s, cut>>
  BY <1>1, <1>2, ExitStep
<1>3. CASE /\ client' = [client EXCEPT !.pc = "reply"] /\ UNCHANGED cut
           /\ c2s' = IF Peer THEN c2s \o DataBytes(client.call.count, client.call.id) ELSE c2s
  <2> DEFINE call == client.call
             d == DataBytes(call.count, call.id)
  <2>1. /\ client.calls > 0 /\ client.res = NoRes /\ ~Served /\ call.op = "W" /\ call \in AllCalls
    BY <1>1 DEF ReplyInv, TypeInv
  <2>2. /\ client'.pc = "reply" /\ client'.call = call /\ client'.calls = client.calls
        /\ client'.res = client.res
    BY <1>1, <1>3 DEF TypeInv
  <2>3. /\ Request(call) \in Stream /\ Whole(call) \in Stream /\ call \in DataCalls
        /\ \A s \in Stream : Begins(s, Request(call)) => Begins(s, Whole(call))
        /\ Whole(call) = Request(call) \o d
    BY <2>1, WholeIs DEF Whole
  <2>4. d \in Stream
    <3>1. call.count \in Nat /\ Byte("data", call.id) \in Bytes
      BY <2>3, ByteIs DEF DataCalls, Kinds
    <3> QED BY <3>1 DEF DataBytes, Stream
  <2>5. LastInv' /\ (Served' <=> Served)
    BY <1>1, <2>2, SameCall
  <2>6. Sent = Request(call) /\ Sent' = Whole(call)
    BY <1>1, <2>2 DEF Sent
  <2>7. c2s \in Stream /\ c2s' = IF Peer THEN c2s \o d ELSE c2s
    BY <1>1, <1>3 DEF TypeInv
  <2> HIDE DEF d
  <2>8. c2s' \in Stream
    BY <2>4, <2>7, Joined
  <2>9. TypeInv'
    <3>1. client' \in [pc : {"start", "idle", "senddata", "reply", "data", "exit"},
                       open : BOOLEAN, call : AllCalls \cup {NoCall}, calls : Nat, res : Results,
                   long : BOOLEAN]
      BY <1>1, <1>3 DEF TypeInv
    <3> QED BY <1>1, <1>3, <2>1, <2>2, <2>8, <3>1 DEF TypeInv
  <2>10. ReplyInv'
    BY <2>1, <2>2, <2>5 DEF ReplyInv
  <2>11. server.run => Stuck' \/ Begins(c2s', Sent')
    <3> SUFFICES ASSUME server.run PROVE Stuck' \/ Begins(c2s', Whole(call))
      BY <2>6
    <3>1. CASE Stuck
      <4>1. Len(c2s) >= 1 /\ Len(c2s) \in Nat /\ Len(d) \in Nat
        BY <2>4, <2>7, <3>1, Head_Tail DEF Stuck, Stream
      <4>2. c2s'[1] = c2s[1] /\ Len(c2s') >= 1
        BY <2>4, <2>7, <4>1, Joined
      <4>3. c2s' # << >>
        <5>1. Len(<< >>) = 0
          BY DEF Stream
        <5> QED BY <4>2, <5>1
      <4> QED BY <3>1, <4>2, <4>3 DEF Stuck
    <3>2. CASE ~Stuck /\ Peer
      <4>1. c2s = Request(call)
        BY <1>1, <2>1, <3>2 DEF RequestInv
      <4>2. c2s' = Whole(call)
        BY <2>3, <2>7, <3>2, <4>1
      <4> QED BY <2>3, <4>2, BeginsAll
    <3>3. CASE ~Stuck /\ ~Peer
      <4>1. Begins(c2s, Request(call)) /\ c2s' = c2s
        BY <1>1, <2>1, <2>6, <2>7, <3>3 DEF RequestInv
      <4> QED BY <2>3, <2>7, <4>1
    <3> QED BY <3>1, <3>2, <3>3
  <2>12. RequestInv'
    BY <1>1, <2>1, <2>2, <2>5, <2>11 DEF RequestInv
  <2> QED BY <2>5, <2>9, <2>10, <2>12 DEF Inv
<1>4. CASE cut' = cut + 1
  BY <1>4
<1> QED BY <1>2, <1>3, <1>4 DEF rmtwrite

LEMMA ReplyStep ==
    ASSUME Inv, rmtreply
    PROVE  Inv'
<1> DEFINE call == client.call
           code == Line(s2c)
           rest == After(s2c, LineEnd(s2c))
           kind == IF code = << >> THEN "none" ELSE code[1].c
           open == IF call.op = "C" THEN FALSE ELSE client.open
<1>1. /\ TypeInv /\ LastInv /\ RequestInv /\ ReplyInv /\ client.pc = "reply" /\ HasLine(s2c)
      /\ UNCHANGED <<c2s, up, server, dev, lastop, ops, cut>>
  BY DEF Inv, rmtreply
<1>2. s2c \in Stream /\ s2c # << >>
  BY <1>1 DEF TypeInv, HasLine, ToSet, Stream
<1>3. /\ Served /\ client.calls > 0 /\ client.res = NoRes /\ Begins(s2c, Reply)
      /\ call \in AllCalls
  BY <1>1, <1>2 DEF ReplyInv, RequestInv, TypeInv
<1>4. /\ lastop.errno \in Nat /\ lastop.val \in Int /\ lastop.data \in Stream
      /\ lastop.errno # 0 => lastop.val = -1 /\ lastop.data = << >>
      /\ lastop.errno = 0 => Len(lastop.data) = IF call.op \in {"R", "S"} THEN lastop.val ELSE 0
  BY <1>1, <1>3 DEF LastInv
<1>5. /\ Reply \in Stream /\ Len(Reply) = IF lastop.errno # 0 THEN 5 ELSE 3 + Len(lastop.data)
      /\ Reply[1] = Byte(IF lastop.errno # 0 THEN "E" ELSE "A", 0)
      /\ Reply[2] = Num(IF lastop.errno # 0 THEN lastop.errno ELSE lastop.val)
      /\ Reply[3] = NL
      /\ lastop.errno # 0 => Reply[4] = Byte("text", 0) /\ Reply[5] = NL
      /\ lastop.errno = 0 => \A i \in 1 .. Len(lastop.data) : Reply[3 + i] = lastop.data[i]
  BY <1>4, ReplyIs DEF Reply
<1>6. /\ Len(s2c) \in Nat /\ Len(s2c) <= Len(Reply) /\ Len(lastop.data) \in Nat
      /\ \A i \in 1 .. Len(s2c) : s2c[i] = Reply[i]
  BY <1>2, <1>3, <1>4 DEF Begins, Stream
<1>7. /\ Len(s2c) >= 3 /\ LineEnd(s2c) = 3 /\ code # << >>
      /\ code[1] = Reply[1] /\ code[2] = Reply[2]
  <2>1. Len(Reply) >= 3 /\ Reply[1].c # "newline" /\ Reply[2].c # "newline"
    BY <1>4, <1>5, <1>6 DEF Byte, Num
  <2> QED BY <1>1, <1>2, <1>3, <1>5, <2>1, FirstLine
<1>8. /\ kind = (IF lastop.errno # 0 THEN "E" ELSE "A")
      /\ code[2].n = IF lastop.errno # 0 THEN lastop.errno ELSE lastop.val
  BY <1>5, <1>7 DEF Byte, Num
<1>9. /\ rest \in Stream /\ Len(rest) = Len(s2c) - 3
      /\ \A i \in 1 .. Len(s2c) - 3 : rest[i] = Reply[3 + i]
  <2>1. /\ After(s2c, 3) \in Stream /\ Len(After(s2c, 3)) = Len(s2c) - 3
        /\ \A i \in 1 .. Len(s2c) - 3 : After(s2c, 3)[i] = s2c[3 + i]
    <3>1. 3 \in 0 .. Len(s2c)
      BY <1>6, <1>7
    <3> QED BY <1>2, <3>1, AfterIs
  <2>2. \A i \in 1 .. Len(s2c) - 3 : s2c[3 + i] = Reply[3 + i]
    <3>1. \A i \in 1 .. Len(s2c) - 3 : 3 + i \in 1 .. Len(s2c)
      BY <1>6
    <3> QED BY <1>6, <3>1
  <2>3. rest = After(s2c, 3)
    BY <1>7
  <2> HIDE DEF rest
  <2> QED BY <2>1, <2>2, <2>3
<1>10. NoRes \in Results /\ NoRes.val = 0 /\ NoRes.errno = 0 /\ NoRes.data = << >>
  BY DEF NoRes, Results, Stream
<1> HIDE DEF code, rest, kind, open
(* What is the same for both kinds of an answer. *)
<1>11. ASSUME NEW p \in {"idle", "data"}, NEW r \in Results,
              client' = [client EXCEPT !.pc = p, !.open = open, !.res = r], s2c' \in Stream
       PROVE  /\ client'.pc = p /\ client'.call = call /\ client'.calls = client.calls
              /\ client'.res = r
              /\ TypeInv' /\ LastInv' /\ (Served' <=> Served) /\ RequestInv'
  <2>1. open \in BOOLEAN
    BY <1>1 DEF open, TypeInv
  <2>2. /\ client'.pc = p /\ client'.call = call /\ client'.calls = client.calls
        /\ client'.res = r
    BY <1>1, <1>11 DEF TypeInv
  <2>3. client' \in [pc : {"start", "idle", "senddata", "reply", "data", "exit"},
                     open : BOOLEAN, call : AllCalls \cup {NoCall}, calls : Nat, res : Results,
                   long : BOOLEAN]
    BY <1>1, <1>11, <2>1 DEF TypeInv
  <2>4. TypeInv'
    BY <1>1, <1>11, <2>2, <2>3 DEF TypeInv
  <2>5. LastInv' /\ (Served' <=> Served)
    BY <1>1, <2>2, SameCall
  <2>6. RequestInv'
    BY <1>1, <1>3, <2>2, <2>5 DEF RequestInv, Stuck, ShortName
  <2> QED BY <2>2, <2>4, <2>5, <2>6
<1>12. ASSUME kind = "A", s2c' = rest,
              client' = [client EXCEPT !.pc = IF call.op \in {"R", "S"} THEN "data" ELSE "idle",
                                       !.res.val = code[2].n, !.open = open]
       PROVE  Inv'
  <2> DEFINE p == IF call.op \in {"R", "S"} THEN "data" ELSE "idle"
  <2>1. lastop.errno = 0 /\ code[2].n = lastop.val
    BY <1>8, <1>12
  <2> DEFINE r == [NoRes EXCEPT !.val = lastop.val]
  <2>2. client' = [client EXCEPT !.pc = p, !.open = open, !.res = r]
    <3>1. client' = [client EXCEPT !.pc = p, !.open = open,
                                   !.res = [client.res EXCEPT !.val = lastop.val]]
      BY <1>1, <1>12, <2>1 DEF TypeInv, Results
    <3> QED BY <1>3, <3>1
  <2>3. p \in {"idle", "data"} /\ s2c' \in Stream
    BY <1>9, <1>12
  <2>4. Begins(rest, lastop.data)
    <3>1. Len(rest) <= Len(lastop.data) /\ Len(rest) \in Nat
      BY <1>5, <1>6, <1>7, <1>9, <2>1
    <3>2. \A i \in 1 .. Len(rest) : i \in 1 .. Len(s2c) - 3 /\ i \in 1 .. Len(lastop.data)
      BY <1>6, <1>9, <3>1
    <3>3. \A i \in 1 .. Len(rest) : rest[i] = lastop.data[i]
      BY <1>5, <1>9, <2>1, <3>2
    <3> QED BY <3>1, <3>3 DEF Begins
  <2>5. ASSUME call.op \notin {"R", "S"} PROVE rest = << >> /\ lastop.data = << >>
    <3>1. Len(lastop.data) = 0 /\ Len(rest) = 0
      BY <1>4, <1>5, <1>6, <1>7, <1>9, <2>1, <2>5
    <3> QED BY <1>4, <1>9, <3>1, Nothing
  <2>6. /\ r \in Results /\ r.val = lastop.val /\ r.data = << >> /\ r.errno = 0
    BY <1>4, <1>10 DEF Results
  <2> HIDE DEF p
  <2>7. /\ client'.pc = p /\ client'.call = call /\ client'.calls = client.calls
        /\ client'.res = r
        /\ TypeInv' /\ LastInv' /\ (Served' <=> Served) /\ RequestInv'
    <3> HIDE DEF r
    <3> QED BY <1>11, <2>2, <2>3, <2>6
  <2>8. ReplyInv'
    <3>1. CASE call.op \in {"R", "S"}
      <4>1. client'.pc = "data"
        BY <2>7, <3>1 DEF p
      <4> QED BY <1>1, <1>3, <1>12, <2>1, <2>4, <2>7, <3>1, <4>1 DEF ReplyInv
    <3>2. CASE call.op \notin {"R", "S"}
      <4>1. client'.pc = "idle" /\ s2c' = << >> /\ lastop.data = << >>
        BY <1>12, <2>5, <2>7, <3>2 DEF p
      <4> HIDE DEF r
      <4> QED BY <1>1, <1>3, <2>1, <2>6, <2>7, <4>1 DEF ReplyInv
    <3> QED BY <3>1, <3>2
  <2> QED BY <2>7, <2>8 DEF Inv
<1>13. ASSUME kind = "E", HasLine(rest), s2c' = After(rest, LineEnd(rest)),
              client' = [client EXCEPT !.pc = "idle", !.res.val = -1, !.open = open,
                            !.res.errno = IF call.op = "R" THEN -1 ELSE code[2].n]
       PROVE  Inv'
  <2> DEFINE e == IF call.op = "R" THEN -1 ELSE lastop.errno
  <2>1. /\ lastop.errno # 0 /\ code[2].n = lastop.errno /\ lastop.val = -1
        /\ lastop.data = << >> /\ e \in Int
    BY <1>4, <1>8, <1>13
  <2> DEFINE r == [NoRes EXCEPT !.val = -1, !.errno = e]
  <2>2. client' = [client EXCEPT !.pc = "idle", !.open = open, !.res = r]
    <3>1. client' = [client EXCEPT !.pc = "idle", !.open = open,
                                   !.res = [client.res EXCEPT !.val = -1, !.errno = e]]
      BY <1>1, <1>13, <2>1 DEF TypeInv, Results
    <3> QED BY <1>3, <3>1
  <2>3. LineEnd(rest) = 2 /\ Len(rest) = 2
    <3>1. LineEnd(rest) \in 1 .. Len(rest) /\ rest[LineEnd(rest)] = NL
      BY <1>9, <1>13, LineEnds
    <3>2. Len(rest) <= 2 /\ Len(rest) \in Nat
      BY <1>5, <1>6, <1>7, <1>9, <2>1
    <3>3. LineEnd(rest) # 1
      <4> SUFFICES ASSUME LineEnd(rest) = 1 PROVE FALSE
        OBVIOUS
      <4>1. 1 \in 1 .. Len(s2c) - 3
        BY <1>9, <3>1, <3>2
      <4>2. rest[1] = Byte("text", 0)
        BY <1>5, <1>9, <2>1, <4>1
      <4> QED BY <3>1, <4>2 DEF NL, Byte
    <3>4. LineEnd(rest) \in 1 .. Len(rest)
      BY <3>1
    <3> DEFINE l == LineEnd(rest)
               m == Len(rest)
    <3>5. l \in 1 .. m /\ m <= 2 /\ m \in Nat /\ l # 1
      BY <3>2, <3>3, <3>4
    <3> HIDE DEF l, m
    <3>6. l = 2 /\ m = 2
      BY <3>5
    <3> QED BY <3>6 DEF l, m
  <2>4. s2c' = << >>
    <3>1. After(rest, 2) \in Stream /\ Len(After(rest, 2)) = 0
      <4>1. 2 \in 0 .. Len(rest) /\ Len(rest) - 2 = 0
        BY <2>3
      <4>2. After(rest, 2) \in Stream /\ Len(After(rest, 2)) = Len(rest) - 2
        BY <1>9, <4>1, AfterIs
      <4> QED BY <4>1, <4>2
    <3> QED BY <1>13, <2>3, <3>1, Nothing
  <2>5. s2c' \in Stream
    BY <1>4, <2>1, <2>4
  <2> HIDE DEF e
  <2>6. /\ r \in Results /\ r.val = -1 /\ r.data = << >> /\ r.errno = e
    <3>1. -1 \in Int /\ e \in Int
      BY <2>1
    <3>2. r \in Results
      BY <1>10, <3>1 DEF Results
    <3>3. r.val = -1 /\ r.errno = e
      BY <1>10 DEF Results
    <3>4. r.data = NoRes.data
      BY <1>10 DEF Results
    <3> QED BY <1>10, <3>2, <3>3, <3>4
  <2> HIDE DEF r
  <2>7. /\ client'.pc = "idle" /\ client'.call = call /\ client'.calls = client.calls
        /\ client'.res = r
        /\ TypeInv' /\ LastInv' /\ (Served' <=> Served) /\ RequestInv'
    BY <1>11, <2>2, <2>5, <2>6
  <2>8. ReplyInv'
    BY <1>1, <1>3, <2>1, <2>4, <2>6, <2>7 DEF ReplyInv, e
  <2> QED BY <2>7, <2>8 DEF Inv
<1>14. kind \in {"A", "E"}
  BY <1>8
<1> QED BY <1>12, <1>13, <1>14 DEF rmtreply, code, rest, kind, open

LEMMA DataStep ==
    ASSUME Inv, ReadData
    PROVE  Inv'
<1> DEFINE v == client.res.val
<1>1. /\ TypeInv /\ LastInv /\ RequestInv /\ ReplyInv /\ client.pc = "data" /\ Len(s2c) >= v
      /\ client' = [client EXCEPT !.pc = "idle", !.res.data = SubSeq(s2c, 1, v)]
      /\ s2c' = After(s2c, v)
      /\ UNCHANGED <<c2s, up, server, dev, lastop, ops, cut>>
  BY DEF Inv, ReadData
<1>2. /\ Served /\ client.calls > 0 /\ client.call.op \in {"R", "S"} /\ lastop.errno = 0
      /\ client.res = [NoRes EXCEPT !.val = lastop.val] /\ Begins(s2c, lastop.data)
  BY <1>1 DEF ReplyInv
<1>3. /\ lastop.data \in Stream /\ lastop.val \in Int /\ Len(lastop.data) = lastop.val
      /\ s2c \in Stream
  BY <1>1, <1>2 DEF LastInv, TypeInv
<1>4. NoRes \in Results /\ NoRes.val = 0 /\ NoRes.errno = 0 /\ NoRes.data = << >>
  BY DEF NoRes, Results, Stream
<1>5. v = lastop.val /\ client.res.errno = 0
  BY <1>2, <1>4 DEF Results
<1> HIDE DEF v
<1>6. v \in Nat /\ Len(s2c) = v /\ \A i \in 1 .. v : s2c[i] = lastop.data[i]
  <2>1. Len(s2c) \in Nat /\ Len(lastop.data) \in Nat
    BY <1>3 DEF Stream
  <2> QED BY <1>1, <1>2, <1>3, <1>5, <2>1 DEF Begins
<1>7. /\ After(s2c, v) \in Stream /\ Len(After(s2c, v)) = 0
      /\ SubSeq(s2c, 1, v) \in Stream /\ Len(SubSeq(s2c, 1, v)) = v
      /\ \A i \in 1 .. v : SubSeq(s2c, 1, v)[i] = s2c[i]
  <2>1. v \in 0 .. Len(s2c) /\ Len(s2c) - v = 0
    BY <1>6
  <2> QED BY <1>3, <2>1, AfterIs
<1>8. SubSeq(s2c, 1, v) = lastop.data
  <2>1. Len(SubSeq(s2c, 1, v)) = Len(lastop.data)
    BY <1>3, <1>5, <1>7
  <2>2. \A i \in 1 .. Len(SubSeq(s2c, 1, v)) : SubSeq(s2c, 1, v)[i] = lastop.data[i]
    BY <1>6, <1>7
  <2> QED BY <1>3, <1>7, <2>1, <2>2, SeqEqual DEF Stream
<1>9. s2c' = << >>
  BY <1>1, <1>7, Nothing
<1>10. client' = [client EXCEPT !.pc = "idle", !.res = [client.res EXCEPT !.data = lastop.data]]
  BY <1>1, <1>8 DEF TypeInv, Results
<1> DEFINE r == [client.res EXCEPT !.data = lastop.data]
<1>11. /\ r \in Results /\ r.data = lastop.data /\ r.val = client.res.val
       /\ r.errno = client.res.errno
  BY <1>1, <1>3 DEF TypeInv, Results
<1> HIDE DEF r
<1>12. /\ client'.pc = "idle" /\ client'.call = client.call /\ client'.calls = client.calls
       /\ client'.res = r
  BY <1>1, <1>10 DEF TypeInv, r
<1>13. TypeInv'
  <2>1. client' \in [pc : {"start", "idle", "senddata", "reply", "data", "exit"},
                     open : BOOLEAN, call : AllCalls \cup {NoCall}, calls : Nat, res : Results,
                   long : BOOLEAN]
    BY <1>1, <1>10, <1>11 DEF TypeInv, r
  <2> QED BY <1>1, <1>7, <1>12, <2>1 DEF TypeInv
<1>14. LastInv' /\ (Served' <=> Served)
  BY <1>1, <1>12, SameCall
<1>15. RequestInv'
  BY <1>1, <1>2, <1>12, <1>14 DEF RequestInv, Stuck, ShortName
<1>16. ReplyInv'
  BY <1>1, <1>2, <1>5, <1>9, <1>11, <1>12, <1>14 DEF ReplyInv, v
<1> QED BY <1>13, <1>14, <1>15, <1>16 DEF Inv

-----------------------------------------------------------------------------
(* The steps of the server, and of the connection. *)

LEMMA ServeStep ==
    ASSUME Inv, Serve
    PROVE  Inv'
<1> DEFINE call == client.call
<1>1. /\ TypeInv /\ LastInv /\ RequestInv /\ ReplyInv /\ server.run /\ c2s # << >> /\ Arrived
      /\ c2s' = Command.rest /\ UNCHANGED <<client, up, cut>>
  BY DEF Inv, Serve
<1>2. c2s \in Stream /\ Head(c2s) = c2s[1] /\ Tail(c2s) \in Stream
  BY <1>1, Head_Tail DEF TypeInv
<1>3. CASE Stuck
  <2>1. Head(c2s).c = "number"
    BY <1>2, <1>3 DEF Stuck
  <2>2. Command.op = "number" /\ Command.rest = Tail(c2s)
    BY <2>1 DEF Command
  <2>3. server' = [server EXCEPT !.run = FALSE] /\ UNCHANGED <<s2c, dev, lastop, ops>>
    <3>1. Command.op \notin Letters
      BY <2>2 DEF Letters
    <3> QED BY <2>2, <3>1 DEF Serve
  <2>4. /\ server' \in [run : BOOLEAN, open : BOOLEAN, name : Nat, acc : Int, pos : Nat]
        /\ ~server'.run /\ server'.open = server.open /\ server'.name = server.name
    BY <1>1, <2>3 DEF TypeInv
  <2>5. TypeInv'
    BY <1>1, <1>2, <2>2, <2>3, <2>4 DEF TypeInv
  <2>6. LastInv' /\ (Served' <=> Served)
    BY <1>1, <2>3, SameCall
  <2>7. RequestInv'
    BY <1>1, <2>3, <2>4, <2>6 DEF RequestInv, ShortName, Peer
  <2>8. ReplyInv'
    BY <1>1, <2>3, <2>6 DEF ReplyInv, Reply, ReplyOf
  <2> QED BY <2>5, <2>6, <2>7, <2>8 DEF Inv
<1>4. CASE ~Stuck
  <2>1. ~Served /\ ops + 1 = client.calls /\ s2c = << >> /\ Begins(c2s, Sent)
    BY <1>1, <1>4 DEF RequestInv, Served
  <2>2. client.calls > 0 /\ call \in AllCalls /\ ops \in Nat /\ client.calls \in Nat
    BY <1>1, <2>1 DEF TypeInv
  <2>3. Begins(c2s, Whole(call))
    BY <1>2, <2>1, <2>2, WholeIs DEF Sent
  <2>4. Understood(call)
    BY <1>1, <1>2, <2>2, <2>3, AllUnderstood
  <2>5. client.pc # "senddata"
    <3> SUFFICES ASSUME client.pc = "senddata" PROVE FALSE
      OBVIOUS
    <3>1. call.op = "W"
      BY <1>1 DEF ReplyInv
    <3>2. Len(Request(call)) = 3 /\ call.count \in Nat /\ call.count > 0
      BY <2>2, <3>1, WholeIs DEF DataCalls
    <3>3. Len(c2s) = 3 + call.count
      BY <2>4, <3>1 DEF Understood
    <3>4. Len(c2s) <= 3
      BY <2>1, <3>2 DEF Begins, Sent
    <3> QED BY <3>2, <3>3, <3>4
  <2>6. client.pc \in {"reply", "exit"}
    BY <1>1, <2>1, <2>2, <2>5 DEF ReplyInv, TypeInv
  <2>7. Readable(Command)
    <3>1. Command.count \in Nat
      BY <2>2, <2>4 DEF Understood, AllCalls, OpenCalls, DataCalls, MoveCalls, PlainCalls
    <3> QED BY <2>4, <3>1 DEF Understood, Readable
  <2>8. /\ Command.op \in {"O", "C", "L", "W", "R", "I", "S"}
        /\ Command.op = "W" => ~(Command.count < 1)
    <3>1. call.op \in {"O", "C", "L", "W", "R", "I", "S"}
      BY <2>2 DEF AllCalls, OpenCalls, DataCalls, MoveCalls, PlainCalls
    <3>2. call.op = "W" => ~(call.count < 1)
      BY <2>2, WholeIs DEF DataCalls
    <3> QED BY <2>4, <3>1, <3>2 DEF Understood
  <2>9. Performed(Command)
    <3>1. \/ Command.op = "O" /\ ServeOpen(Command)
          \/ Command.op = "C" /\ ServeClose(Command)
          \/ Command.op = "L" /\ ServeSeek(Command)
          \/ Command.op = "W" /\ ServeWrite(Command)
          \/ Command.op = "R" /\ ServeRead(Command)
          \/ Command.op = "I" /\ ServeIoctl(Command)
          \/ Command.op = "S" /\ ServeStatus(Command)
      <4>1. Command.op \notin {"i", "s", "V"} /\ Command.op \in Letters \ {"name"}
        BY <2>8 DEF Letters
      <4> DEFINE cmd == Command
      <4> HIDE DEF cmd
      <4> QED BY <2>8, <4>1 DEF Serve, cmd
    <3> QED BY <1>1, <2>7, <3>1, ServePerforms
  <2>10. /\ lastop'.cmd = Command /\ ops' = ops + 1
         /\ lastop'.errno \in Nat /\ lastop'.val \in Int /\ lastop'.data \in Stream
         /\ lastop'.errno # 0 => lastop'.val = -1 /\ lastop'.data = << >>
         /\ lastop'.errno = 0 => Len(lastop'.data) = IF call.op \in {"R", "S"} THEN lastop'.val
                                                     ELSE 0
         /\ s2c' = IF NoEnd THEN s2c \o Reply' ELSE s2c
         /\ server' \in Tapes /\ (server'.open => server'.name \in Devices)
         /\ dev' \in [Devices -> Stream]
    BY <2>4, <2>9 DEF Performed, Understood
  <2>11. Served' /\ client'.calls > 0 /\ client' = client /\ ops' \in Nat
    BY <1>1, <2>1, <2>2, <2>10 DEF Served
  <2>12. LastInv'
    BY <2>4, <2>10, <2>11 DEF LastInv, Understood, ShortName
  <2>13. Reply' \in Stream
    BY <2>10, ReplyIs DEF Reply
  <2>14. s2c' \in Stream /\ Begins(s2c', Reply')
    <3>1. << >> \o Reply' = Reply'
      BY <2>13 DEF Stream
    <3>2. s2c' = Reply' \/ s2c' = << >>
      BY <2>1, <2>10, <3>1
    <3> DEFINE r == Reply'
    <3>3. r \in Stream
      BY <2>13
    <3> HIDE DEF r
    <3>4. Begins(r, r) /\ Begins(<< >>, r)
      BY <3>3, BeginsAll
    <3>5. s2c' \in Stream
      BY <1>1, <2>1, <2>13, <3>2 DEF TypeInv
    <3> QED BY <3>2, <3>4, <3>5 DEF r
  <2>15. Command.rest \in Stream /\ (Command.rest = << >> \/ Stuck')
         /\ (ShortName(call) => Command.rest = << >>)
    BY <1>1, <2>4 DEF Understood, Stuck
  <2>16. TypeInv'
    BY <1>1, <2>10, <2>11, <2>14, <2>15 DEF TypeInv, Tapes
  <2>17. RequestInv'
    BY <1>1, <2>11, <2>15 DEF RequestInv, Served, ShortName
  <2>18. ReplyInv'
    BY <1>1, <2>6, <2>11, <2>14 DEF ReplyInv
  <2> QED BY <2>12, <2>16, <2>17, <2>18 DEF Inv
<1> QED BY <1>3, <1>4

LEMMA EofStep ==
    ASSUME Inv, ServeEof
    PROVE  Inv'
<1>1. /\ TypeInv /\ LastInv /\ RequestInv /\ ReplyInv
      /\ server' = [server EXCEPT !.run = FALSE]
      /\ UNCHANGED <<client, c2s, s2c, up, dev, lastop, ops, cut>>
  BY DEF Inv, ServeEof
<1>2. /\ server' \in [run : BOOLEAN, open : BOOLEAN, name : Nat, acc : Int, pos : Nat]
      /\ ~server'.run /\ server'.open = server.open /\ server'.name = server.name
  BY <1>1 DEF TypeInv
<1>3. TypeInv'
  BY <1>1, <1>2 DEF TypeInv
<1>4. LastInv' /\ (Served' <=> Served)
  BY <1>1, SameCall
<1>5. RequestInv'
  BY <1>1, <1>2, <1>4 DEF RequestInv, ShortName, Peer
<1>6. ReplyInv'
  BY <1>1, <1>4 DEF ReplyInv, Reply, ReplyOf
<1> QED BY <1>3, <1>4, <1>5, <1>6 DEF Inv

LEMMA LoseStep ==
    ASSUME Inv, Lose
    PROVE  Inv'
<1>1. /\ TypeInv /\ LastInv /\ RequestInv /\ ReplyInv /\ client.pc # "start" /\ up' = FALSE
      /\ UNCHANGED <<client, server, dev, lastop, ops, cut>>
  BY DEF Inv, Lose
<1>2. PICK i \in 0 .. Len(c2s), j \in 0 .. Len(s2c) :
          c2s' = SubSeq(c2s, 1, i) /\ s2c' = SubSeq(s2c, 1, j)
  BY DEF Lose
<1>3. /\ c2s \in Stream /\ s2c \in Stream /\ Len(c2s) \in Nat /\ Len(s2c) \in Nat
      /\ i \in Nat /\ j \in Nat
  BY <1>1, <1>2 DEF TypeInv, Stream
<1>4. /\ c2s' \in Stream /\ Len(c2s') = i /\ \A k \in 1 .. i : c2s'[k] = c2s[k]
      /\ s2c' \in Stream /\ Len(s2c') = j
  BY <1>2, <1>3, AfterIs
<1>5. Len(<< >>) = 0
  BY DEF Stream
<1>6. (c2s = << >> => c2s' = << >>) /\ (s2c = << >> => s2c' = << >>)
  BY <1>2, <1>3, <1>4, <1>5, Nothing
<1>7. ASSUME Stuck PROVE c2s' = << >> \/ Stuck'
  <2> SUFFICES ASSUME c2s' # << >> PROVE Stuck'
    OBVIOUS
  <2>1. i # 0
    BY <1>4, Nothing
  <2>2. c2s'[1] = c2s[1]
    BY <1>3, <1>4, <2>1
  <2> QED BY <1>7, <2>2 DEF Stuck
<1>8. TypeInv'
  BY <1>1, <1>4 DEF TypeInv
<1>9. LastInv' /\ (Served' <=> Served)
  BY <1>1, SameCall
<1>10. ASSUME ~Served PROVE server.run => Stuck' \/ Begins(c2s', Sent)
  <2>1. client.call \in AllCalls
    BY <1>1, <1>10 DEF RequestInv, TypeInv, Served
  <2>2. Sent \in Stream /\ Len(Sent) \in Nat
    <3>1. Sent \in Stream
      BY <2>1, WholeIs DEF Sent
    <3> QED BY <3>1 DEF Stream
  <2>3. Begins(<< >>, Sent)
    BY <2>2, BeginsAll
  <2>4. ASSUME Begins(c2s, Sent) PROVE Begins(c2s', Sent)
    <3>1. Begins(SubSeq(c2s, 1, i), Sent)
      BY <1>3, <2>2, <2>4, BeginsPart
    <3> QED BY <1>2, <3>1
  <2> QED BY <1>1, <1>7, <1>10, <2>3, <2>4 DEF RequestInv
<1>11. RequestInv'
  <2>1. Sent' = Sent /\ ~Peer'
    BY <1>1 DEF Sent, Peer
  <2> QED BY <1>1, <1>6, <1>7, <1>9, <1>10, <2>1 DEF RequestInv, ShortName
<1>12. ReplyInv'
  <2>1. ASSUME NEW w \in Stream, Begins(s2c, w) PROVE Begins(s2c', w)
    <3>1. Len(w) \in Nat
      BY DEF Stream
    <3>2. Begins(SubSeq(s2c, 1, j), w)
      BY <1>2, <1>3, <2>1, <3>1, BeginsPart
    <3> QED BY <1>2, <3>2
  <2>2. CASE client.pc = "reply"
    <3>1. client.calls > 0 /\ client.res = NoRes /\ (Served => Begins(s2c, Reply))
      BY <1>1, <2>2 DEF ReplyInv
    <3>2. Reply' = Reply /\ (Served => Reply \in Stream)
      BY <1>1, <3>1, ReplyIs DEF LastInv, Reply
    <3>3. Served' => Begins(s2c', Reply')
      BY <1>9, <2>1, <3>1, <3>2
    <3> QED BY <1>1, <2>2, <3>1, <3>3 DEF ReplyInv
  <2>3. CASE client.pc = "data"
    <3>1. Served /\ client.calls > 0 /\ Begins(s2c, lastop.data)
      BY <1>1, <2>3 DEF ReplyInv
    <3>2. Begins(s2c', lastop.data)
      BY <1>1, <2>1, <3>1 DEF LastInv
    <3> QED BY <1>1, <1>9, <2>3, <3>2 DEF ReplyInv
  <2>4. CASE client.pc \in {"idle", "senddata", "exit"}
    BY <1>1, <1>6, <1>9, <2>4 DEF ReplyInv
  <2> QED BY <1>1, <2>2, <2>3, <2>4 DEF TypeInv
<1> QED BY <1>8, <1>9, <1>11, <1>12 DEF Inv

(* No step brings order back.                                              *)
LEMMA StaysLong ==
    ASSUME "long" \in DOMAIN client, [Next]_vars
    PROVE  "long" \in DOMAIN client' /\ (client.long => client'.long)
<1>1. CASE rmtgetconn
  BY <1>1 DEF rmtgetconn, Exit
<1>2. CASE rmtcall
  <2>1. CASE Exit
    BY <2>1 DEF Exit
  <2>2. CASE ~Exit
    <3>1. PICK call \in Calls(client.calls + 1) :
             client' = [client EXCEPT !.pc = IF call.op = "W" THEN "senddata" ELSE "reply",
                                      !.call = call, !.calls = @ + 1, !.res = NoRes,
                                      !.open = call.op = "O" \/ @,
                                      !.long = @ \/ call.name > LongestName]
      BY <1>2, <2>2 DEF rmtcall
    <3> QED BY <3>1
  <2> QED BY <2>1, <2>2
<1>3. CASE ShortHeader
  <2>1. PICK call \in {c \in Calls(client.calls + 1) : c.op = "W"} :
           client' = [client EXCEPT !.call = call, !.calls = @ + 1,
                                    !.res = [NoRes EXCEPT !.val = -1]]
    BY <1>3 DEF ShortHeader
  <2> QED BY <2>1
<1>4. CASE rmtwrite
  BY <1>4 DEF rmtwrite, Exit
<1>5. CASE rmtreply
  BY <1>5 DEF rmtreply, Exit
<1>6. CASE ReadData
  BY <1>6 DEF ReadData
<1>7. CASE rmtconnaborted
  BY <1>7 DEF rmtconnaborted, Exit
<1>8. CASE UNCHANGED client
  BY <1>8
<1> QED BY <1>1, <1>2, <1>3, <1>4, <1>5, <1>6, <1>7, <1>8
        DEF Next, Client, Serve, ServeEof, Lose, vars

LEMMA RemoteStep ==
    ASSUME RemoteInv, [Next]_vars
    PROVE  RemoteInv'
<1>1. cut \in Nat /\ cut' \in Nat /\ (cut' = 0 => cut = 0 /\ ~ShortHeader)
  <2>1. cut' = cut \/ (cut < MaxShort /\ cut' = cut + 1)
    BY DEF Next, Client, rmtgetconn, rmtcall, ShortHeader, rmtwrite, rmtreply, ReadData,
           rmtconnaborted, Serve, ServeEof, Lose, vars
  <2>2. ShortHeader => cut' = cut + 1
    BY DEF ShortHeader
  <2> QED BY <2>1, <2>2 DEF RemoteInv
<1> SUFFICES ASSUME Inv, cut = 0, cut' = 0, ~client.long, ~client'.long PROVE Inv'
  <2>1. "long" \in DOMAIN client' /\ (client.long => client'.long)
    BY StaysLong DEF RemoteInv
  <2> QED BY <1>1, <2>1 DEF RemoteInv, Orderly
<1>2. CASE rmtgetconn
  BY <1>2, GetConnStep
<1>3. CASE rmtcall
  BY <1>3, CallStep
<1>4. CASE rmtwrite
  BY <1>4, WriteStep
<1>5. CASE rmtreply
  BY <1>5, ReplyStep
<1>6. CASE ReadData
  BY <1>6, DataStep
<1>7. CASE rmtconnaborted
  BY <1>7, ExitStep DEF rmtconnaborted
<1>8. CASE Serve
  BY <1>8, ServeStep
<1>9. CASE ServeEof
  BY <1>9, EofStep
<1>10. CASE Lose
  BY <1>10, LoseStep
<1>11. CASE UNCHANGED vars
  <2>1. /\ client' = client /\ c2s' = c2s /\ s2c' = s2c /\ up' = up /\ server' = server
        /\ dev' = dev /\ lastop' = lastop /\ ops' = ops /\ cut' = cut
    BY <1>11 DEF vars
  <2>2. TypeInv' /\ LastInv'
    BY <2>1 DEF Inv, TypeInv, LastInv, Served, ShortName
  <2>3. RequestInv'
    BY <2>1 DEF Inv, RequestInv, Served, ShortName, Stuck, Sent, Peer
  <2>4. ReplyInv'
    BY <2>1 DEF Inv, ReplyInv, Served, Reply, ReplyOf
  <2> QED BY <2>2, <2>3, <2>4 DEF Inv
<1> QED BY <1>1, <1>2, <1>3, <1>4, <1>5, <1>6, <1>7, <1>8, <1>9, <1>10, <1>11 DEF Next, Client

(* Always, for a connection lost anywhere. *)
LEMMA RemoteAlways == Spec => []RemoteInv
<1>1. Init => RemoteInv
  BY RemoteInit
<1>2. RemoteInv /\ [Next]_vars => RemoteInv'
  BY RemoteStep
<1> QED BY <1>1, <1>2, PTL DEF Spec

-----------------------------------------------------------------------------
(* A call of dump or restore that has returned got the answer to its own    *)
(* request, for every sequence of calls, any answers of the device and a    *)
(* connection lost in any place, as long as no write was cut short, no      *)
(* device name was longer than two buffers of getstring (125 letters for    *)
(* the 64 bytes of rmt.c), and for a call whose own name fits one: rmtcall  *)
(* and rmtreply (src/common/dumprmt.c:394 and 403) and the loop of rmt      *)
(* (src/rmt/rmt.c:147) do not get out of step until then.                   *)
THEOREM AnswersBelong == Spec => []Answered
<1>1. RemoteInv => Answered
  <2> SUFFICES ASSUME RemoteInv, client.pc = "idle", client.calls > 0, Orderly,
                      ShortName(client.call)
               PROVE  LET call == client.call
                          did  == lastop.cmd
                      IN  /\ did.op = call.op /\ did.count = call.count /\ did.name = call.name
                          /\ did.pos = call.pos
                          /\ did.mode = [call.mode EXCEPT !.flags = @ \cap KnownFlags]
                          /\ call.op = "W" => did.data = DataBytes(call.count, call.id)
                          /\ client.res.val = lastop.val /\ client.res.data = lastop.data
                          /\ client.res.errno = IF lastop.errno # 0 /\ call.op = "R" THEN -1
                                                ELSE lastop.errno
                          /\ s2c = << >> /\ (up => c2s = << >>) /\ ops = client.calls
    BY DEF Answered
  <2>1. LastInv /\ RequestInv /\ ReplyInv
    BY DEF RemoteInv, Inv
  <2>2. Served /\ s2c = << >>
    BY <2>1 DEF ReplyInv
  <2>3. c2s = << >> /\ ops = client.calls
    BY <2>1, <2>2 DEF RequestInv, Served
  <2> QED BY <2>1, <2>2, <2>3 DEF LastInv, ReplyInv
<1> QED BY <1>1, RemoteAlways, PTL

(* Whatever is lost, and whatever the letters of the device names, rmt      *)
(* performs nothing twice and nothing that was not asked for (the switch,   *)
(* src/rmt/rmt.c:147), as long as no name is longer than two buffers of     *)
(* getstring and no write is cut short: of a name that fits two buffers but *)
(* not one, what is left in the stream is the mode, which is no command and *)
(* ends rmt.  Of a longer name letters are left, and performed.             *)
THEOREM NothingUnasked == Spec => []Asked
<1>1. RemoteInv => Asked
  <2> SUFFICES ASSUME RemoteInv, Orderly
               PROVE  /\ ops <= client.calls
                      /\ (ops > 0 /\ ops = client.calls) =>
                            lastop.cmd.op = client.call.op /\ lastop.cmd.count = client.call.count
    BY DEF Asked
  <2>1. LastInv /\ RequestInv /\ ops \in Nat /\ client.calls \in Nat
    BY DEF RemoteInv, Inv, TypeInv
  <2> QED BY <2>1 DEF LastInv, RequestInv, Served
<1> QED BY <1>1, RemoteAlways, PTL
=============================================================================
