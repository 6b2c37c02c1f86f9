----------------------------- MODULE RemoteTape -----------------------------
(***************************************************************************)
(* A tape on another host: the client linked into dump and restore         *)
(* (src/common/dumprmt.c) and the server rmt (src/rmt/rmt.c).  They share   *)
(* two byte streams and no framing: an answer belongs to a request only by  *)
(* its place in the stream.  The client makes one call at a time.  The     *)
(* connection may be lost at any moment, with any part of what is under    *)
(* way; a write of rmtwrite may take less than it is given.                *)
(***************************************************************************)
EXTENDS Integers, Sequences, SequencesExt, FiniteSetsExt

CONSTANTS
    SSIZE,       \* size of the server's string buffers
    NameText,    \* the letters of the device names, which are its beginnings
    NameLengths, \* lengths of the device names the client uses
    KnownFlags,  \* open flags the server's system has
    MaxCalls,    \* bound: calls of the client
    MaxCount,    \* bound: bytes of one read or write
    MaxSize,     \* bound: bytes of a device
    MaxLong,     \* bound: calls, once a device name was too long
    MaxLost,     \* bound: lost connections (0 or 1)
    MaxShort     \* bound: writes of rmtwrite that are cut short

(* A letter of a name is a command of rmt, one the client sends or one of  *)
(* the others, or a "name": any that is no command.  A digit counts as     *)
(* one of these.                                                           *)
Letters == {"O", "C", "L", "W", "R", "I", "S", "i", "s", "V", "name"}

(* A line of open flags fits a buffer; a device name need not.              *)
ASSUME RemoteAssumption ==
    /\ SSIZE \in Nat /\ SSIZE > 5
    /\ NameText \in Seq(Letters) /\ NameLengths \subseteq 1 .. Len(NameText)
    /\ KnownFlags \subseteq Nat \ {0} /\ MaxCalls \in Nat /\ MaxCount \in Nat
    /\ MaxSize \in Nat /\ MaxLong \in Nat /\ MaxLost \in {0, 1} /\ MaxShort \in Nat

VARIABLES
    client, \* rmtstate, the call it is in, and how far it is; long: a name
            \* did not fit two buffers (history)
    c2s,    \* tormtape: bytes sent and not yet read by the server
    s2c,    \* fromrmtape: bytes sent and not yet read by the client
    up,     \* the connection is there
    server, \* is rmt running, and what it has open
    dev,    \* what is on a device, by its name (the length stands for it)
    lastop, \* the last operation rmt performed and what came of it (history)
    ops,    \* operations performed (history)
    cut     \* writes of rmtwrite that were cut short (history)

vars == <<client, c2s, s2c, up, server, dev, lastop, ops, cut>>

O_RDONLY == 0
O_WRONLY == 1
O_CREAT  == 1
O_TRUNC  == 2
SEEK_SET == 0
SEEK_CUR == 1
LSEEK_GET_TAPEPOS == 10
LSEEK_GO2_TAPEPOS == 11
ENOSPC == 28
EIO    == 5
EBADF  == 9
StatusBytes == 2          \* sizeof(struct mtget), in bytes of the model

-----------------------------------------------------------------------------
(* Bytes.  A number, a flag's name and a message count as one byte each;   *)
(* the characters of a device name are bytes of their own, and what they   *)
(* are when rmt takes them for commands.                                   *)

Byte(c, n)  == [c |-> c, n |-> n]
NL          == Byte("newline", 0)
Num(n)      == Byte("number", n)
NameBytes(k) == [i \in 1 .. k |-> Byte(NameText[i], i)]
DataBytes(k, id) == [i \in 1 .. k |-> Byte("data", id)]

(* rmtflags_tochar: the access mode, then the other flags by name. *)
rmtflags_tochar(mode) ==
    <<Byte("access", mode.acc)>>
    \o (IF O_CREAT \in mode.flags THEN <<Byte("flag", O_CREAT)>> ELSE << >>)
    \o (IF O_TRUNC \in mode.flags THEN <<Byte("flag", O_TRUNC)>> ELSE << >>)

(* rmtflags_toint: names the system does not know are skipped; the number  *)
(* counts only if no name is known.  A line that starts with neither reads *)
(* as the number 0.                                                        *)
rmtflags_toint(line) ==
    LET access == {b \in ToSet(line) : b.c = "access"}
        known  == {b.n : b \in {x \in ToSet(line) : x.c = "flag"}} \cap KnownFlags
        number == IF line # << >> /\ line[1].c = "number" THEN line[1].n ELSE O_RDONLY
    IN  [acc   |-> IF access # {} THEN (CHOOSE b \in access : TRUE).n
                   ELSE IF known # {} THEN O_RDONLY ELSE number,
         flags |-> known]

-----------------------------------------------------------------------------
(* The client. *)

Call(op, name, mode, count, pos, id) ==
    [op |-> op, name |-> name, mode |-> mode, count |-> count, pos |-> pos, id |-> id]

ReadMode  == [acc |-> O_RDONLY, flags |-> {}]
WriteMode == [acc |-> O_WRONLY, flags |-> {O_CREAT, O_TRUNC}]
Modes     == {ReadMode, WriteMode}
NoCall    == Call("none", 0, ReadMode, 0, 0, 0)
NoRes     == [val |-> 0, errno |-> 0, data |-> << >>]

(* What dump and restore ask for.  rmtclose and rmtstatus ask nothing      *)
(* unless rmtstate is TS_OPEN; rmtioctl refuses a negative count itself.   *)
Calls(id) ==
    {Call("O", k, m, 0, 0, id) : k \in NameLengths, m \in Modes}
    \cup {Call(o, 0, ReadMode, n, 0, id) : o \in {"R", "W"}, n \in 1 .. MaxCount}
    \cup {Call("L", 0, ReadMode, 1, p, id) :
            p \in {SEEK_CUR, LSEEK_GET_TAPEPOS, LSEEK_GO2_TAPEPOS}}
    \cup {Call("I", 0, ReadMode, 1, 1, id)}
    \cup (IF client.open THEN {Call(o, 0, ReadMode, 0, 0, id) : o \in {"C", "S"}} ELSE {})

(* rmtopen, rmtclose, rmtread, rmtwrite, rmtseek, rmtstatus, rmtioctl: the *)
(* request as it is put on the stream.                                     *)
Request(call) ==
    CASE call.op = "O" -> <<Byte("O", 0)>> \o NameBytes(call.name) \o <<NL, Num(call.mode.acc)>>
                          \o rmtflags_tochar(call.mode) \o <<NL>>
      [] call.op = "C" -> <<Byte("C", 0), NL>>
      [] call.op \in {"R", "W"} -> <<Byte(call.op, 0), Num(call.count), NL>>
      [] call.op \in {"L", "I"} -> <<Byte(call.op, 0), Num(call.count), NL, Num(call.pos), NL>>
      [] call.op = "S" -> <<Byte("S", 0)>>

(* The other end of the connection is there. *)
Peer == up /\ server.run

Exit == client' = [client EXCEPT !.pc = "exit"]

(* rmthost, rmtgetconn, piped_child: a login or a child of RSH; if there   *)
(* is none the program ends.                                               *)
rmtgetconn ==
    /\ client.pc = "start"
    /\ \/ Exit
       \/ /\ client' = [client EXCEPT !.pc = "idle"]
    /\ UNCHANGED <<c2s, s2c, up, server, dev, lastop, ops, cut>>

(* The longest name that getstring takes off the stream, in two parts.     *)
LongestName == 2 * SSIZE - 3

(* rmtcall, and the header of rmtwrite.  On a lost connection the write    *)
(* fails (rmtconnaborted, which exits) or its bytes go nowhere.            *)
rmtcall ==
    /\ client.pc = "idle" /\ client.calls < MaxCalls
    /\ client.long => client.calls < MaxLong
    /\ \E call \in Calls(client.calls + 1) :
          \/ /\ client' = [client EXCEPT !.pc = IF call.op = "W" THEN "senddata" ELSE "reply",
                                         !.call = call, !.calls = @ + 1, !.res = NoRes,
                                         !.open = call.op = "O" \/ @,
                                         !.long = @ \/ call.name > LongestName]
             /\ c2s' = IF Peer THEN c2s \o Request(call) ELSE c2s
          \/ ~Peer /\ Exit /\ UNCHANGED c2s
    /\ UNCHANGED <<s2c, up, server, dev, lastop, ops, cut>>

(* rmtwrite, its header: a write that takes less than the line.            *)
ShortHeader ==
    /\ client.pc = "idle" /\ client.calls < MaxCalls
    /\ Peer /\ cut < MaxShort
    /\ \E call \in {c \in Calls(client.calls + 1) : c.op = "W"} :
          /\ \E k \in 0 .. Len(Request(call)) - 1 : c2s' = c2s \o SubSeq(Request(call), 1, k)
          /\ client' = [client EXCEPT !.call = call, !.calls = @ + 1,
                                      !.res = [NoRes EXCEPT !.val = -1]]
    /\ cut' = cut + 1
    /\ UNCHANGED <<s2c, up, server, dev, lastop, ops>>

(* rmtwrite: the data.  A write that takes less than it is given is        *)
(* returned as -1 and leaves the server waiting for the rest.              *)
rmtwrite ==
    /\ client.pc = "senddata"
    /\ \/ /\ client' = [client EXCEPT !.pc = "reply"]
          /\ c2s' = IF Peer THEN c2s \o DataBytes(client.call.count, client.call.id) ELSE c2s
          /\ UNCHANGED cut
       \/ /\ Peer /\ cut < MaxShort
          /\ \E k \in 0 .. client.call.count - 1 :
                c2s' = c2s \o DataBytes(k, client.call.id)
          /\ cut' = cut + 1
          /\ client' = [client EXCEPT !.pc = "idle", !.res.val = -1]
       \/ ~Peer /\ Exit /\ UNCHANGED <<c2s, cut>>
    /\ UNCHANGED <<s2c, up, server, dev, lastop, ops>>

(* A line is there, up to its newline. *)
HasLine(s) == NL \in ToSet(s)
LineEnd(s) == Min({i \in DOMAIN s : s[i] = NL})
Line(s)    == SubSeq(s, 1, LineEnd(s) - 1)
After(s, i) == SubSeq(s, i + 1, Len(s))

(* Fault: the message of an error reply is left in the stream. *)
rmtreply_LeavesMessage ==
    /\ client.pc = "reply" /\ HasLine(s2c)
    /\ LET code == Line(s2c)
       IN  /\ \/ /\ code[1].c = "A"
                 /\ client' = [client EXCEPT !.pc = IF client.call.op \in {"R", "S"} THEN "data" ELSE "idle",
                                             !.res.val = code[2].n,
                                             !.open = IF client.call.op = "C" THEN FALSE ELSE @]
              \/ /\ code[1].c = "E"
                 /\ client' = [client EXCEPT !.pc = "idle", !.res.val = -1,
                                             !.res.errno = code[2].n]
           /\ s2c' = After(s2c, LineEnd(s2c))
    /\ UNCHANGED <<c2s, up, server, dev, lastop, ops, cut>>

(* rmtreply: A with a value, or E with errno and then a line of text; the  *)
(* code of anything else, a rest of another answer, ends the program.      *)
(* rmtclose takes any answer; rmtread sets errno to -1, not to the code.   *)
rmtreply ==
    /\ client.pc = "reply" /\ HasLine(s2c)
    /\ \E code \in {Line(s2c)}, rest \in {After(s2c, LineEnd(s2c))} :
       LET kind == IF code = << >> THEN "none" ELSE code[1].c
           open == IF client.call.op = "C" THEN FALSE ELSE client.open
       IN  \/ /\ kind = "A"
              /\ client' = [client EXCEPT !.pc = IF client.call.op \in {"R", "S"} THEN "data" ELSE "idle",
                                          !.res.val = code[2].n, !.open = open]
              /\ s2c' = rest
           \/ /\ kind = "E" /\ HasLine(rest)
              /\ client' = [client EXCEPT !.pc = "idle", !.res.val = -1, !.open = open,
                               !.res.errno = IF client.call.op = "R" THEN -1 ELSE code[2].n]
              /\ s2c' = After(rest, LineEnd(rest))
           \/ /\ kind \notin {"A", "E"}
              /\ Exit /\ s2c' = rest
    /\ UNCHANGED <<c2s, up, server, dev, lastop, ops, cut>>

(* rmtread and rmtstatus: as many bytes as the answer said. *)
ReadData ==
    /\ client.pc = "data" /\ Len(s2c) >= client.res.val
    /\ client' = [client EXCEPT !.pc = "idle", !.res.data = SubSeq(s2c, 1, client.res.val)]
    /\ s2c' = After(s2c, client.res.val)
    /\ UNCHANGED <<c2s, up, server, dev, lastop, ops, cut>>

(* Fault: the loop of rmtread takes the end of the stream for no data yet. *)
rmtconnaborted_ReadWaits ==
    /\ ~Peer
    /\ client.pc = "reply"
    /\ HasLine(s2c) => Line(s2c) # << >> /\ Line(s2c)[1].c = "E"
                       /\ ~HasLine(After(s2c, LineEnd(s2c)))
    /\ Exit
    /\ UNCHANGED <<c2s, s2c, up, server, dev, lastop, ops, cut>>

(* rmtconnaborted: the end of the stream inside an answer, where           *)
(* abortifconnerr is set, as it is in dump and restore.                    *)
rmtconnaborted ==
    /\ ~Peer
    /\ \/ /\ client.pc = "reply"
          /\ HasLine(s2c) => Line(s2c) # << >> /\ Line(s2c)[1].c = "E"
                             /\ ~HasLine(After(s2c, LineEnd(s2c)))
       \/ client.pc = "data" /\ Len(s2c) < client.res.val
    /\ Exit
    /\ UNCHANGED <<c2s, s2c, up, server, dev, lastop, ops, cut>>

-----------------------------------------------------------------------------
(* The server. *)

Devices == {0} \cup {Min({k, SSIZE - 1}) : k \in NameLengths}
Run      == [run |-> TRUE, open |-> FALSE, name |-> 0, acc |-> O_RDONLY, pos |-> 0]
ClosedTape == [server EXCEPT !.open = FALSE]
NoEnd    == up /\ client.pc # "exit"

(* getstring: up to a newline, but no more than SSIZE - 1 bytes; what is    *)
(* longer stays in the stream.                                             *)
HasString(s) == HasLine(s) \/ Len(s) >= SSIZE - 1
getstring(s) ==
    IF HasLine(s) /\ LineEnd(s) < SSIZE
    THEN [str |-> Line(s), rest |-> After(s, LineEnd(s))]
    ELSE [str |-> SubSeq(s, 1, SSIZE - 1), rest |-> After(s, SSIZE - 1)]
atoi(str) == IF str # << >> /\ str[1].c = "number" THEN str[1].n ELSE 0

(* The device a name opens; 0 is any other than those the client names.    *)
Device(str) ==
    IF Len(str) \in Devices /\ str = NameBytes(Len(str)) THEN Len(str) ELSE 0

(* The command at the head of the stream with its arguments, when all of   *)
(* it has arrived: what rmt takes it for.                                  *)
Arrived ==
    LET s == Tail(c2s)
        two == HasString(s) /\ HasString(getstring(s).rest)
    IN  CASE Head(c2s).c \in {"O", "L", "I", "i"} -> two
          [] Head(c2s).c \in {"C", "R", "V"} -> HasString(s)
          [] Head(c2s).c = "s" -> s # << >>
          [] Head(c2s).c = "W" -> HasString(s) /\ Len(getstring(s).rest) >= atoi(getstring(s).str)
          [] OTHER -> TRUE

Command ==
    LET op == Head(c2s).c
        a  == getstring(Tail(c2s))
        b  == getstring(a.rest)
        n  == atoi(a.str)
    IN  CASE op = "O" -> [op |-> op, name |-> Device(a.str), mode |-> rmtflags_toint(b.str),
                          count |-> 0, pos |-> 0, data |-> << >>, rest |-> b.rest]
          [] op \in {"L", "I", "i"} -> [op |-> op, name |-> 0, mode |-> ReadMode, count |-> n,
                          pos |-> atoi(b.str), data |-> << >>, rest |-> b.rest]
          [] op = "W" -> [op |-> op, name |-> 0, mode |-> ReadMode, count |-> n, pos |-> 0,
                          data |-> SubSeq(a.rest, 1, n), rest |-> After(a.rest, n)]
          [] op \in {"R", "C", "V"} -> [op |-> op, name |-> 0, mode |-> ReadMode, count |-> n,
                          pos |-> 0, data |-> << >>, rest |-> a.rest]
          [] op = "s" -> [op |-> op, name |-> 0, mode |-> ReadMode, count |-> 0, pos |-> 0,
                          data |-> << >>, rest |-> Tail(Tail(c2s))]
          [] OTHER -> [op |-> op, name |-> 0, mode |-> ReadMode, count |-> 0,
                       pos |-> 0, data |-> << >>, rest |-> Tail(c2s)]

(* respond and ioerror, then top: one answer to one command.  What is      *)
(* written to a lost connection ends rmt.                                  *)
Answer(cmd, val, errno, data, tape) ==
    /\ server' = [tape EXCEPT !.run = NoEnd]
    /\ s2c' = IF ~NoEnd THEN s2c
              ELSE s2c \o (IF errno # 0 THEN <<Byte("E", 0), Num(errno), NL, Byte("text", 0), NL>>
                           ELSE <<Byte("A", 0), Num(val), NL>> \o data)
    /\ lastop' = [cmd |-> cmd, val |-> IF errno # 0 THEN -1 ELSE val, errno |-> errno, data |-> data]
    /\ ops' = ops + 1

Error(cmd, errnos, tape) ==
    \E e \in errnos : Answer(cmd, 0, e, << >>, tape) /\ UNCHANGED dev

(* O: an open tape is closed first, whatever comes of the open. *)
ServeOpen(cmd) ==
    \/ Error(cmd, {EIO}, ClosedTape)
    \/ /\ Answer(cmd, 0, 0, << >>, [server EXCEPT !.open = TRUE, !.name = cmd.name,
                                                !.acc = cmd.mode.acc, !.pos = 0])
       /\ dev' = IF O_TRUNC \in cmd.mode.flags THEN [dev EXCEPT ![cmd.name] = << >>] ELSE dev

(* C.  A close that fails has closed the tape all the same. *)
ServeClose(cmd) ==
    \/ ~server.open /\ Error(cmd, {EBADF}, server)
    \/ server.open /\ Error(cmd, {EIO}, ClosedTape)
    \/ server.open /\ Answer(cmd, 0, 0, << >>, ClosedTape) /\ UNCHANGED dev

(* L: lseek, or the positions that QFA asks for. *)
ServeSeek(cmd) ==
    \/ Error(cmd, {IF server.open THEN EIO ELSE EBADF}, server)
    \/ /\ server.open
       /\ LET to == CASE cmd.pos = SEEK_CUR -> server.pos + cmd.count
                      [] cmd.pos \in {SEEK_SET, LSEEK_GO2_TAPEPOS} -> cmd.count
                      [] OTHER -> server.pos
          IN  Answer(cmd, to, 0, << >>, [server EXCEPT !.pos = to])
       /\ UNCHANGED dev

(* The device after data is written at pos. *)
Written(old, pos, data) ==
    [i \in 1 .. Max({Len(old), pos + Len(data)}) |->
        IF i \in pos + 1 .. pos + Len(data) THEN data[i - pos]
        ELSE IF i <= Len(old) THEN old[i] ELSE Byte("zero", 0)]

(* W: the data is taken off the stream before anything can fail; a device  *)
(* may take less than it is given.                                         *)
ServeWrite(cmd) ==
    \/ Error(cmd, IF server.open /\ server.acc # O_RDONLY THEN {EIO, ENOSPC} ELSE {EBADF}, server)
    \/ /\ server.open /\ server.acc # O_RDONLY
       /\ \E k \in 1 .. Len(cmd.data) :
             /\ server.pos + k <= MaxSize
             /\ Answer(cmd, k, 0, << >>, [server EXCEPT !.pos = @ + k])
             /\ dev' = [dev EXCEPT ![server.name] = Written(@, server.pos, SubSeq(cmd.data, 1, k))]

(* R: no more than is asked for, less at the end of the device. *)
ServeRead(cmd) ==
    \/ Error(cmd, IF server.open /\ server.acc = O_RDONLY THEN {EIO} ELSE {EBADF}, server)
    \/ /\ server.open /\ server.acc = O_RDONLY
       /\ LET there == After(dev[server.name], server.pos)
          IN  \E k \in 0 .. Min({cmd.count, Len(there)}) :
                /\ k = 0 => there = << >> \/ cmd.count = 0
                /\ Answer(cmd, k, 0, SubSeq(there, 1, k), [server EXCEPT !.pos = @ + k])
       /\ UNCHANGED dev

(* I: an operation of the tape drive and how often, which is the answer;   *)
(* it moves the tape or fails.                                             *)
ServeIoctl(cmd) ==
    \/ Error(cmd, {IF server.open THEN EIO ELSE EBADF}, server)
    \/ /\ server.open
       /\ \E to \in server.pos .. Len(dev[server.name]) :
             Answer(cmd, cmd.pos, 0, << >>, [server EXCEPT !.pos = to])
       /\ UNCHANGED dev

(* S. *)
ServeStatus(cmd) ==
    \/ Error(cmd, {IF server.open THEN EIO ELSE EBADF}, server)
    \/ /\ server.open
       /\ Answer(cmd, StatusBytes, 0, [i \in 1 .. StatusBytes |-> Byte("status", 0)], server)
       /\ UNCHANGED dev

(* i, s and V, which the client does not send: an operation of the drive,  *)
(* one field of its status, and the version.                               *)
ServeOther(cmd) ==
    \/ cmd.op # "V" /\ Error(cmd, {IF server.open THEN EIO ELSE EBADF}, server)
    \/ /\ cmd.op = "V" \/ server.open
       /\ Answer(cmd, IF cmd.op = "V" THEN 2 ELSE cmd.pos, 0, << >>, server)
       /\ UNCHANGED dev

(* Fault: a command that failed stays in the stream. *)
Serve_Again ==
    /\ server.run /\ c2s # << >> /\ Arrived
    /\ \E cmd \in {Command} :
       /\ cmd.op \in {"C", "R"}
       /\ IF server.open THEN c2s' = cmd.rest ELSE UNCHANGED c2s
       /\ (cmd.op = "C" /\ ServeClose(cmd)) \/ (cmd.op = "R" /\ ServeRead(cmd))
    /\ UNCHANGED <<client, up, cut>>

(* main: the loop of the server, a command at a time.  A count of a write  *)
(* below 1 and a command that is none end it.                              *)
Serve ==
    /\ server.run /\ c2s # << >> /\ Arrived
    /\ \E cmd \in {Command} :
       LET bad == cmd.op \notin Letters \ {"name"} \/ (cmd.op = "W" /\ cmd.count < 1)
       IN  /\ c2s' = cmd.rest
           /\ \/ /\ bad
                 /\ server' = [server EXCEPT !.run = FALSE]
                 /\ UNCHANGED <<s2c, dev, lastop, ops>>
              \/ cmd.op = "O" /\ ServeOpen(cmd)
              \/ cmd.op = "C" /\ ServeClose(cmd)
              \/ cmd.op = "L" /\ ServeSeek(cmd)
              \/ cmd.op = "W" /\ ~bad /\ ServeWrite(cmd)
              \/ cmd.op = "R" /\ ServeRead(cmd)
              \/ cmd.op = "I" /\ ServeIoctl(cmd)
              \/ cmd.op = "S" /\ ServeStatus(cmd)
              \/ cmd.op \in {"i", "s", "V"} /\ ServeOther(cmd)
    /\ UNCHANGED <<client, up, cut>>

(* main, getstring and the data of W: the end of the stream. *)
ServeEof ==
    /\ server.run /\ ~NoEnd
    /\ c2s # << >> => ~Arrived
    /\ server' = [server EXCEPT !.run = FALSE]
    /\ UNCHANGED <<client, c2s, s2c, up, dev, lastop, ops, cut>>

-----------------------------------------------------------------------------
(* The connection is lost; of the bytes under way each end gets the first  *)
(* so many.                                                                *)
Lose ==
    /\ up /\ MaxLost = 1 /\ client.pc \notin {"start", "exit"}
    /\ up' = FALSE
    /\ \E i \in 0 .. Len(c2s), j \in 0 .. Len(s2c) :
          c2s' = SubSeq(c2s, 1, i) /\ s2c' = SubSeq(s2c, 1, j)
    /\ UNCHANGED <<client, server, dev, lastop, ops, cut>>

Init ==
    /\ client = [pc |-> "start", open |-> FALSE, call |-> NoCall, calls |-> 0, res |-> NoRes,
                 long |-> FALSE]
    /\ c2s = << >> /\ s2c = << >> /\ up = TRUE
    /\ server = Run
    /\ dev = [k \in Devices |-> <<Byte("old", 1), Byte("old", 2)>>]
    /\ lastop = [cmd |-> [op |-> "none"], val |-> 0, errno |-> 0, data |-> << >>]
    /\ ops = 0 /\ cut = 0

Client == rmtgetconn \/ rmtcall \/ ShortHeader \/ rmtwrite \/ rmtreply \/ ReadData \/ rmtconnaborted
Next   == Client \/ Serve \/ ServeEof \/ Lose

(* Both programs are run by their systems; what is sent arrives. *)
Fairness ==
    /\ WF_vars(rmtwrite \/ rmtreply \/ ReadData \/ rmtconnaborted)
    /\ WF_vars(Serve \/ ServeEof)

Spec == Init /\ [][Next]_vars /\ Fairness

-----------------------------------------------------------------------------
ShortName(call) == call.name < SSIZE - 1

(* No write of rmtwrite was cut short, and no device name was longer than  *)
(* two buffers of getstring (for the SSIZE of 64 of rmt.c, 125 letters).   *)
Orderly == cut = 0 /\ ~client.long

(* A call that has returned got the answer to its own request: the server  *)
(* performed that operation, with those arguments and that data, last, and *)
(* what came of it is what the call returns; nothing is left in a stream.  *)
(* This includes calls after error replies, reads that got less than they  *)
(* asked for and writes that failed (rmtreply and rmtread,                 *)
(* src/common/dumprmt.c:322 and 403), as long as every name fitted two     *)
(* buffers of getstring, that of this call one, and no write was cut short.*)
Answered ==
    (client.pc = "idle" /\ client.calls > 0 /\ Orderly /\ ShortName(client.call)) =>
        LET call == client.call
            did  == lastop.cmd
        IN  /\ did.op = call.op /\ did.count = call.count /\ did.name = call.name
            /\ did.pos = call.pos
            /\ did.mode = [call.mode EXCEPT !.flags = @ \cap KnownFlags]
            /\ call.op = "W" => did.data = DataBytes(call.count, call.id)
            /\ client.res.val = lastop.val /\ client.res.data = lastop.data
            /\ client.res.errno = IF lastop.errno # 0 /\ call.op = "R" THEN -1 ELSE lastop.errno
            /\ s2c = << >> /\ (up => c2s = << >>) /\ ops = client.calls

(* Whatever is lost, rmt performs nothing the client did not ask for, and  *)
(* nothing twice: it has performed at most as many operations as there     *)
(* were calls, and the last one is of the kind and for the count of the    *)
(* call with its number (getstring and the switch, src/rmt/rmt.c:147 and   *)
(* 557).  That holds also of a device name that does not fit one buffer:   *)
(* its rest is read as the mode, and the mode as a command, which ends     *)
(* rmt.  It does not hold of a name longer than two buffers, which rmtopen *)
(* sends all the same (src/common/dumprmt.c:291): letters of it are then   *)
(* performed as commands, each with an answer of its own.                  *)
Asked ==
    Orderly => /\ ops <= client.calls
               /\ (ops > 0 /\ ops = client.calls) =>
                      lastop.cmd.op = client.call.op /\ lastop.cmd.count = client.call.count

(* Every call returns or the program ends (rmtconnaborted,                 *)
(* src/common/dumprmt.c:130), also when the connection is lost in any      *)
(* place, unless a write was cut short before or a name was longer than    *)
(* two buffers.                                                            *)
CallEnds ==
    client.pc \in {"senddata", "reply", "data"} ~> client.pc \in {"idle", "exit"} \/ ~Orderly
=============================================================================
