---------------------------- MODULE SelectRestore ---------------------------
(***************************************************************************)
(* restore -x and -i: the list of files to extract, the search for them on *)
(* the volumes of a dump in whatever order the operator mounts them, and   *)
(* the links (src/restore/tape.c, restore.c, utilities.c, interactive.c).  *)
(*                                                                         *)
(* What restore is in the middle of is the sequence todo, the innermost    *)
(* call first: a read that comes to the end of a volume puts getvol before *)
(* itself, and the jump out of a file drops what is before its End.        *)
(***************************************************************************)
EXTENDS Integers, Sequences, SequencesExt, FiniteSets, FiniteSetsExt

CONSTANTS Plans,       \* dumps on volumes, and how restore is started
          AnyVolume,   \* may the operator choose any volume at any time?
          MaxAsk,      \* bound: volumes the operator names
          MaxWrong,    \* bound: wrong volumes, and names that cannot be opened
          MaxDeletes   \* bound: names taken from the list again

ASSUME SelectAssumption == AnyVolume \in BOOLEAN /\ {MaxAsk, MaxWrong, MaxDeletes} \subseteq Nat

VARIABLES job,         \* the dump, and how restore was started
          todo,        \* what restore still has to do
          r,           \* the tape: volno, mt, its place there, tpblksread, spcl, curfile, volinfo
          c,           \* createfiles: first, last, next, curvol
          chain,       \* the symbol table: of each inode its names
          at, data,    \* the disk: the file each name is, the records in each file
          told,        \* messages about files in the last extraction
          wanted,      \* names on the list, as the user sees it
          due,         \* names that were on the list at the last extraction
          h            \* volumes mounted in this extraction, and what the bounds count

vars == <<job, todo, r, c, chain, at, data, told, wanted, due, h>>
disk == <<at, data>>
user == <<wanted, due>>
----------------------------------------------------------------------------
Root == 2
(* A name's inode is one the maps of the dump can hold.                    *)
ASSUME PlansAssumption ==
    \A p \in Plans : p.maxino \in Nat /\ \A n \in DOMAIN p.names : p.names[n] \in Root..(p.maxino - 1)

maxino == job.maxino
Inodes == Root..(maxino - 1)
Names == DOMAIN job.names          \* the names of files, each with its inode
Volumes == DOMAIN job.volumes
None == "none"
Closed == -1                       \* mt; 0 is the archive file
Medium == CASE r.mt \in Volumes -> job.volumes[r.mt]
            [] r.mt = 0         -> job.archive
            [] OTHER            -> <<>>
Left == Len(Medium) - r.pos

(* A record of a medium is a header or data.                               *)
IsHeader(rec) == rec.t # "DATA"

Op(op) == [op |-> op]
Read(n, to) == [op |-> "read", n |-> n, to |-> to]      \* to: a file, or None
More(size, to) == [op |-> "more", size |-> size, to |-> to]
File(to) == [op |-> "file", to |-> to]
Getvol(n) == [op |-> "getvol", vol |-> n]

Doing(op) == todo # <<>> /\ Head(todo).op = op
Top == Head(todo)
Then(ops) == todo' = ops \o Tail(todo)
DropToEnd == LET k == Min({k \in DOMAIN todo : todo[k].op = "end"})
             IN  todo' = SubSeq(todo, k + 1, Len(todo))

(* The entries of the symbol table: lookupino is the first of the chain.   *)
HasNew(i) == i \in Inodes /\ chain[i] # <<>> /\ chain[i][1].new
lowerbnd(start) == Min({i \in start..(maxino - 1) : HasNew(i)} \cup {maxino})
upperbnd(start) == LET s == {i \in Root..start : HasNew(i)} IN IF s = {} THEN Root ELSE Max(s)
NameOf(i) == chain[i][1].name
Unmarked(S) == [i \in Inodes |-> IF i \in S THEN [chain[i] EXCEPT ![1].new = FALSE] ELSE chain[i]]
Message(what, n) == [what |-> what, name |-> n, mounted |-> h.mounted]
----------------------------------------------------------------------------
Init ==
    /\ \E plan \in Plans : job = plan
    /\ todo = <<Op("setup"), Op("extractdirs"), Op("shell")>>
    /\ r = [volno |-> 0, mt |-> Closed, pos |-> 0, tpblksread |-> 0,
            spcl |-> [t |-> "TAPE", ino |-> 0, count |-> 0, left |-> 0, dir |-> FALSE, info |-> <<>>],
            action |-> "UNKNOWN", ino |-> 0, dir |-> FALSE, getting |-> FALSE, volinfo |-> <<>>]
    /\ c = [first |-> Root, last |-> Root, next |-> Root, curvol |-> 0]
    /\ chain = [i \in Inodes |-> <<>>]
    /\ at = [n \in Names |-> None] /\ data = [n \in Names |-> <<>>]
    /\ told = {} /\ wanted = {} /\ due = {}
    /\ h = [mounted |-> {}, asks |-> 0, wrong |-> 0, extracts |-> 0, deletes |-> 0]

(* The first volume, or the archive file, up to what follows the maps,     *)
(* which are all on it.                                                    *)
setup ==
    /\ Doing("setup")
    /\ LET vol == IF job.archive = <<>> THEN 1 ELSE 0
           tape == IF vol = 1 THEN job.volumes[1] ELSE job.archive
           k == Min({k \in DOMAIN tape : tape[k].t \in {"INODE", "END"}})
       IN  r' = [r EXCEPT !.volno = vol, !.mt = vol, !.pos = k, !.tpblksread = k,
                          !.spcl = tape[k], !.volinfo = tape[k].info]
    /\ Then(<<Op("find")>>)
    /\ UNCHANGED <<job, c, chain, disk, told, user, h>>
----------------------------------------------------------------------------
(* Reading records, to a file or to nowhere; at the end of the volume the  *)
(* next one is asked for first.                                            *)
EndOfTape(n) == r' = [r EXCEPT !.pos = @ + n, !.tpblksread = @ + n, !.volno = 0]
readtape ==
    /\ Doing("read")
    /\ LET n == Min({Top.n, Left})
       IN  /\ IF Top.n <= Left
              THEN /\ r' = [r EXCEPT !.pos = @ + n, !.tpblksread = @ + n]
                   /\ Then(<<>>)
              ELSE /\ EndOfTape(n)
                   /\ todo' = <<Getvol(r.volno + 1), Read(Top.n - n, Top.to)>> \o Tail(todo)
           /\ data' = IF Top.to = None THEN data
                      ELSE [data EXCEPT ![Top.to] = @ \o SubSeq(Medium, r.pos + 1, r.pos + n)]
    /\ UNCHANGED <<job, c, chain, at, told, user, h>>

(* Reading on until there is a header.                                     *)
gethead ==
    /\ Doing("head")
    /\ LET heads == {k \in (r.pos + 1)..Len(Medium) : IsHeader(Medium[k])}
       IN  IF heads = {}
           THEN /\ EndOfTape(Left)
                /\ todo' = <<Getvol(r.volno + 1)>> \o todo
           ELSE LET k == Min(heads)
                IN  /\ r' = [r EXCEPT !.pos = k, !.tpblksread = @ + k - r.pos, !.spcl = Medium[k],
                                      !.volinfo = IF Medium[k].info # <<>> THEN Medium[k].info ELSE @]
                    /\ Then(<<>>)
    /\ UNCHANGED <<job, c, chain, disk, told, user, h>>

findinode ==
    /\ Doing("find")
    /\ r' = [r EXCEPT !.action = "UNKNOWN", !.dir = r.spcl.t = "INODE" /\ r.spcl.dir,
                      !.ino = CASE r.spcl.t = "INODE" -> r.spcl.ino
                                [] r.spcl.t = "END"   -> maxino
                                [] OTHER              -> 0]
    /\ Then(IF r.spcl.t = "ADDR" THEN <<Read(r.spcl.count, None), Op("head"), Op("find")>> ELSE <<>>)
    /\ UNCHANGED <<job, c, chain, disk, told, user, h>>

(* Fault: the headers in the middle of a file end it.                      *)
getfile_NoAddr ==
    /\ Doing("file")
    /\ r' = [r EXCEPT !.getting = TRUE]
    /\ Then(IF r.spcl.t = "END" THEN <<Op("panic")>>
            ELSE <<Read(r.spcl.count, Top.to), Op("head"), Op("find"), Op("end")>>)
    /\ UNCHANGED <<job, c, chain, disk, told, user, h>>
getfile ==
    /\ Doing("file")
    /\ r' = [r EXCEPT !.getting = TRUE]
    /\ Then(IF r.spcl.t = "END" THEN <<Op("panic")>>
            ELSE <<Read(r.spcl.count, Top.to), Op("head"), More(r.spcl.left - r.spcl.count, Top.to),
                   Op("find"), Op("end")>>)
    /\ UNCHANGED <<job, c, chain, disk, told, user, h>>
MoreOfFile ==
    /\ Doing("more")
    /\ Then(IF Top.size > 0 /\ r.spcl.t = "ADDR"
            THEN <<Read(r.spcl.count, Top.to), Op("head"), More(Top.size - r.spcl.count, Top.to)>>
            ELSE <<>>)
    /\ UNCHANGED <<job, r, c, chain, disk, told, user, h>>
EndOfFile ==
    /\ Doing("end")
    /\ r' = [r EXCEPT !.getting = FALSE]
    /\ Then(<<>>)
    /\ UNCHANGED <<job, c, chain, disk, told, user, h>>

skipfile == r' = [r EXCEPT !.action = "SKIP"]
skipmaps ==
    /\ Doing("maps")
    /\ IF r.spcl.t \in {"BITS", "CLRI"}
       THEN skipfile /\ todo' = <<File(None)>> \o todo
       ELSE UNCHANGED r /\ Then(<<>>)
    /\ UNCHANGED <<job, c, chain, disk, told, user, h>>
skipdirs ==
    /\ Doing("dirs")
    /\ IF r.dir THEN skipfile /\ todo' = <<File(None)>> \o todo ELSE UNCHANGED r /\ Then(<<>>)
    /\ UNCHANGED <<job, c, chain, disk, told, user, h>>
extractdirs ==
    /\ Doing("extractdirs")
    /\ r' = [r EXCEPT !.action = "USING"]
    /\ IF r.dir THEN todo' = <<File(None)>> \o todo ELSE Then(<<>>)
    /\ UNCHANGED <<job, c, chain, disk, told, user, h>>
----------------------------------------------------------------------------
(* Changing the volume.                                                    *)
Extracting == Doing("extracted") \/ \E k \in DOMAIN todo : todo[k].op = "extracted"

(* Fault: the inode looked at stays what it was.                           *)
terminateinput_SameInode ==
    /\ r' = [r EXCEPT !.action = "UNKNOWN", !.dir = FALSE, !.getting = FALSE]
    /\ IF r.getting THEN DropToEnd ELSE Then(<<>>)
    /\ told' = IF r.getting /\ r.action = "USING" /\ Extracting
               THEN told \cup {Message("cut", NameOf(c.next))} ELSE told
    /\ UNCHANGED h
terminateinput ==
    /\ r' = [r EXCEPT !.action = "UNKNOWN", !.dir = FALSE, !.getting = FALSE, !.ino = maxino]
    /\ IF r.getting THEN DropToEnd ELSE Then(<<>>)
    /\ told' = IF r.getting /\ r.action = "USING" /\ Extracting
               THEN told \cup {Message("cut", NameOf(c.next))} ELSE told
    /\ UNCHANGED h

getvol ==
    /\ Doing("getvol")
    /\ r' = IF Top.vol = 1 THEN [r EXCEPT !.getting = FALSE] ELSE r
    /\ Then(<<[op |-> "again", vol |-> Top.vol, saved |-> r.tpblksread]>>)
    /\ UNCHANGED <<job, c, chain, disk, told, user, h>>

(* The volumes the operator may choose without losing files: one that      *)
(* begins with a header, or with -a one behind all that were read; the one *)
(* that is mounted only where it stands at its beginning.                  *)
Suitable(v, wantnext) ==
    \/ AnyVolume
    \/ /\ v = r.volno => Top.vol = 1
       /\ IF wantnext THEN \A m \in h.mounted : m < v ELSE job.volumes[v][1].count = 0 \/ v = 1

NextVolume(newvol, wantnext) ==
    IF newvol = r.volno
    THEN /\ Then(<<>>)
         /\ h' = [h EXCEPT !.mounted = @ \cup {newvol}, !.asks = @ + 1]
         /\ UNCHANGED r
    ELSE /\ r' = [r EXCEPT !.mt = Closed, !.pos = 0]
         /\ Then(<<[op |-> "open", vol |-> Top.vol, saved |-> Top.saved,
                    newvol |-> newvol, wantnext |-> wantnext]>>)
         /\ h' = [h EXCEPT !.asks = @ + 1]
Again ==
    /\ Doing("again")
    /\ LET wantnext == job.aflag \/ r.action # "SKIP"
       IN  \/ /\ wantnext /\ Top.vol > 0
              /\ NextVolume(Top.vol, TRUE) /\ UNCHANGED told
           \/ /\ ~wantnext \/ Top.vol = 0
              /\ \/ terminateinput
                 \/ /\ h.asks < MaxAsk /\ UNCHANGED told
                    /\ \E v \in Volumes : Suitable(v, wantnext) /\ NextVolume(v, wantnext)
    /\ UNCHANGED <<job, c, chain, disk, user>>

(* Another volume is in the drive, or it cannot be opened: ask again.      *)
Wrong ==
    /\ h.wrong < MaxWrong
    /\ \E m \in (Volumes \cup {Closed}) \ {Top.newvol} :
           r' = IF m = Closed THEN [r EXCEPT !.volno = -1]
                ELSE [r EXCEPT !.mt = m, !.pos = 1, !.volno = 0, !.tpblksread = Top.saved]
    /\ Then(<<[op |-> "again", vol |-> Top.vol, saved |-> Top.saved]>>)
    /\ h' = [h EXCEPT !.wrong = @ + 1]

(* Fault: one record more is taken for read.                               *)
RightVolume_OneMore ==
    LET v == Top.newvol
        tmpbuf == job.volumes[v][1]
        tpblksread == r.tpblksread + 1
        again == tpblksread - tmpbuf.firstrec
    IN  /\ r' = [r EXCEPT !.mt = v, !.pos = 1, !.volno = v,
                          !.tpblksread = IF Top.wantnext THEN tpblksread ELSE tmpbuf.firstrec + 1]
        /\ Then(<<Read(CASE ~Top.wantnext -> tmpbuf.count
                         [] Top.wantnext /\ tmpbuf.firstrec > 0 /\ again > 0 -> again
                         [] OTHER -> 0, None),
                  [op |-> "volume", count |-> tmpbuf.count]>>)
        /\ h' = [h EXCEPT !.mounted = @ \cup {v}]
(* The right volume: what was read of it at the end of the one before is   *)
(* passed over.                                                            *)
RightVolume ==
    LET v == Top.newvol
        tmpbuf == job.volumes[v][1]
        tpblksread == r.tpblksread + 1
        again == tpblksread - tmpbuf.firstrec - 1
    IN  /\ r' = [r EXCEPT !.mt = v, !.pos = 1, !.volno = v,
                          !.tpblksread = IF Top.wantnext THEN tpblksread ELSE tmpbuf.firstrec + 1]
        /\ Then(<<Read(CASE ~Top.wantnext -> tmpbuf.count
                         [] Top.wantnext /\ tmpbuf.firstrec > 0 /\ again > 0 -> again
                         [] OTHER -> 0, None),
                  [op |-> "volume", count |-> tmpbuf.count]>>)
        /\ h' = [h EXCEPT !.mounted = @ \cup {v}]
Open ==
    /\ Doing("open")
    /\ \/ terminateinput
       \/ /\ Wrong \/ (Top.newvol \in Volumes /\ RightVolume)
          /\ UNCHANGED told
    /\ UNCHANGED <<job, c, chain, disk, user>>

(* A file being extracted goes on; else on to the next header, and out of  *)
(* the file that was being skipped.                                        *)
Continue ==
    /\ Doing("volume")
    /\ Then(IF r.action = "USING" THEN IF r.volno = 1 THEN <<Op("panic")>> ELSE <<>>
            ELSE <<Read(Top.count, None), Op("head"), Op("find"), Op("jump")>>)
    /\ UNCHANGED <<job, r, c, chain, disk, told, user, h>>
Jump ==
    /\ Doing("jump")
    /\ r' = [r EXCEPT !.getting = FALSE]
    /\ IF r.getting THEN DropToEnd ELSE Then(<<>>)
    /\ UNCHANGED <<job, c, chain, disk, told, user, h>>
----------------------------------------------------------------------------
(* createfiles: the files on the list, in the order of their inodes.       *)
createfiles ==
    /\ Doing("create")
    /\ c' = [c EXCEPT !.first = Root, !.last = maxino - 1]
    /\ LET archive == r.volinfo # <<>>
       IN  /\ r' = [r EXCEPT !.action = "SKIP", !.ino = IF archive THEN 0 ELSE @]
           /\ Then((IF archive THEN <<>> ELSE <<Getvol(1)>>)
                     \o <<Op("maps"), Op("dirs"), Op("bounds")>>)
    /\ UNCHANGED <<job, chain, disk, told, user, h>>

Bounds ==
    /\ Doing("bounds")
    /\ LET first == lowerbnd(c.first)
           last == upperbnd(c.last)
       IN  c' = [c EXCEPT !.first = first, !.last = last]
    /\ Then(IF c'.first > c'.last THEN <<>> ELSE <<Op("reject")>>)
    /\ UNCHANGED <<job, r, chain, disk, told, user, h>>

(* Requests in S are reported and taken off the list.                      *)
NotFound(S) ==
    LET missing == {i \in S : HasNew(i)}
    IN  /\ told' = told \cup {Message("missing", NameOf(i)) : i \in missing}
        /\ chain' = Unmarked(missing)

(* A volume behind the last file needed is exchanged.                      *)
Reject ==
    /\ Doing("reject")
    /\ IF r.ino > c.last
       THEN r' = [r EXCEPT !.action = "SKIP"] /\ Then(<<Getvol(0), Op("rejected")>>)
       ELSE UNCHANGED r /\ Then(<<Op("choose")>>)
    /\ UNCHANGED <<job, c, chain, disk, told, user, h>>
Rejected ==
    /\ Doing("rejected")
    /\ IF r.ino = maxino
       THEN NotFound(c.first..(maxino - 1)) /\ Then(<<>>)
       ELSE UNCHANGED <<told, chain>> /\ Then(<<Op("maps"), Op("dirs"), Op("reject")>>)
    /\ UNCHANGED <<job, r, c, disk, user, h>>

(* The next file, and the volume it is on if the archive tells.            *)
goodvol(next) == Max({1} \cup {i \in DOMAIN r.volinfo : r.volinfo[i] < next})
Choose ==
    /\ Doing("choose")
    /\ LET next == lowerbnd(r.ino)
       IN  /\ c' = [c EXCEPT !.next = next]
           /\ Then((IF r.volinfo # <<>> /\ goodvol(next) # r.volno THEN <<Getvol(goodvol(next))>>
                    ELSE <<>>) \o <<Op("search")>>)
    /\ UNCHANGED <<job, r, chain, disk, told, user, h>>
Search ==
    /\ Doing("search")
    /\ c' = [c EXCEPT !.curvol = r.volno]
    /\ Then(<<Op("skip")>>)
    /\ UNCHANGED <<job, r, chain, disk, told, user, h>>
Skip ==
    /\ Doing("skip")
    /\ IF c.next > r.ino /\ r.volno = c.curvol
       THEN skipfile /\ todo' = <<File(None)>> \o todo
       ELSE UNCHANGED r /\ Then(<<Op("maps"), Op("dirs"), Op("skipped")>>)
    /\ UNCHANGED <<job, c, chain, disk, told, user, h>>

(* The volume was changed in order or out of order, or the file is here    *)
(* unless what is here comes after it.                                     *)
Skipped ==
    /\ Doing("skipped")
    /\ IF r.volno # c.curvol
       THEN /\ Then(<<IF r.volno = c.curvol + 1 THEN Op("search") ELSE Op("bounds")>>)
            /\ UNCHANGED <<chain, told, c>>
       ELSE LET S == c.next..(r.ino - 1)
                next == IF c.next < r.ino THEN lowerbnd(r.ino) ELSE c.next
            IN  /\ NotFound(S)
                /\ c' = [c EXCEPT !.next = next]
                /\ Then((IF next = r.ino /\ next <= c.last THEN <<Op("extract")>> ELSE <<>>)
                          \o <<Op("bounds")>>)
    /\ UNCHANGED <<job, r, disk, user, h>>
Extract ==
    /\ Doing("extract")
    /\ LET name == NameOf(c.next)
           file == IF at[name] = None THEN name ELSE at[name]
       IN  /\ at' = [at EXCEPT ![name] = file]
           /\ data' = [data EXCEPT ![file] = <<>>]
           /\ Then(<<File(file), Op("extracted")>>)
    /\ r' = [r EXCEPT !.action = "USING"]
    /\ UNCHANGED <<job, c, chain, told, user, h>>
Extracted ==
    /\ Doing("extracted")
    /\ chain' = Unmarked({c.next})
    /\ Then(IF r.volno # c.curvol THEN <<Op("maps")>> ELSE <<>>)
    /\ UNCHANGED <<job, r, c, disk, told, user, h>>

(* A link can be made to what is there, where nothing is.                  *)
linkit(existing, new) == at[existing] # None /\ at[new] = None

(* createlinks: the other names on the list, linked to the first one.      *)
createlinks ==
    /\ Doing("links")
    /\ LET new(i) == {k \in 2..Len(chain[i]) : chain[i][k].new}
           links == UNION {{<<chain[i][1].name, chain[i][k].name>> : k \in new(i)} : i \in Inodes}
           made == {l \in links : linkit(l[1], l[2])}
       IN  /\ at' = [n \in Names |-> IF \E l \in made : l[2] = n
                                     THEN at[(CHOOSE l \in made : l[2] = n)[1]] ELSE at[n]]
           /\ told' = told \cup {Message("not linked", l[2]) : l \in links \ made}
    /\ chain' = [i \in Inodes |-> [k \in DOMAIN chain[i] |->
                    IF k > 1 THEN [chain[i][k] EXCEPT !.new = FALSE] ELSE chain[i][k]]]
    /\ Then(<<>>)
    /\ UNCHANGED <<job, r, c, data, user, h>>
----------------------------------------------------------------------------
(* The list, as the user changes it.                                       *)
PlaceOf(n) == {k \in DOMAIN chain[job.names[n]] : chain[job.names[n]][k].name = n}
Marked(n) == \E k \in PlaceOf(n) : chain[job.names[n]][k].new

(* A new link comes behind the first entry of its inode; the first entry   *)
(* leaves its place to the next.                                           *)
addentry(ch, entry) == IF ch = <<>> THEN <<entry>> ELSE <<ch[1], entry>> \o Tail(ch)
(* Fault: the other names of the inode go with the first.                  *)
freeentry_Chain(ch, n) == IF ch[1].name = n THEN <<>> ELSE SelectSeq(ch, LAMBDA e : e.name # n)
freeentry(ch, n) == RemoveAt(ch, CHOOSE k \in DOMAIN ch : ch[k].name = n)

addfile(n) ==
    /\ Doing("shell") /\ h.extracts < job.extracts
    /\ LET i == job.names[n]
           entry == [name |-> n, new |-> TRUE]
       IN  chain' = IF i \notin job.dumpmap THEN chain
                    ELSE IF PlaceOf(n) # {}
                    THEN [chain EXCEPT ![i] = [k \in DOMAIN @ |-> IF k \in PlaceOf(n) THEN entry ELSE @[k]]]
                    ELSE [chain EXCEPT ![i] = addentry(@, entry)]
    /\ wanted' = wanted \cup IF job.names[n] \in job.dumpmap THEN {n} ELSE {}
    /\ UNCHANGED <<job, todo, r, c, disk, told, due, h>>

deletefile(n) ==
    /\ Doing("shell") /\ h.deletes < MaxDeletes
    /\ Marked(n)
    /\ chain' = [chain EXCEPT ![job.names[n]] = freeentry(@, n)]
    /\ wanted' = wanted \ {n}
    /\ h' = [h EXCEPT !.deletes = @ + 1]
    /\ UNCHANGED <<job, todo, r, c, disk, told, due>>

extract ==
    /\ Doing("shell") /\ h.extracts < job.extracts
    /\ todo' = <<Op("create"), Op("links"), Op("volume0"), Op("shell")>>
    /\ due' = wanted /\ wanted' = {}
    /\ h' = [h EXCEPT !.extracts = @ + 1, !.mounted = {}]
    /\ told' = {}
    /\ UNCHANGED <<job, r, c, chain, disk>>
NoVolume ==
    /\ Doing("volume0")
    /\ r' = [r EXCEPT !.volno = 0]
    /\ Then(<<>>)
    /\ UNCHANGED <<job, c, chain, disk, told, user, h>>
quit ==
    /\ Doing("shell")
    /\ todo' = <<>>
    /\ UNCHANGED <<job, r, c, chain, disk, told, user, h>>

runcmdshell == (\E n \in Names : addfile(n) \/ deletefile(n)) \/ extract \/ NoVolume \/ quit
Next == \/ setup \/ readtape \/ gethead \/ findinode \/ getfile \/ MoreOfFile \/ EndOfFile
        \/ skipmaps \/ skipdirs \/ extractdirs \/ getvol \/ Again \/ Open \/ Continue \/ Jump
        \/ createfiles \/ Bounds \/ Reject \/ Rejected \/ Choose \/ Search \/ Skip \/ Skipped
        \/ Extract \/ Extracted \/ createlinks \/ runcmdshell
Spec == Init /\ [][Next]_vars /\ WF_vars(Next)
----------------------------------------------------------------------------
Told(what) == {m.name : m \in {m \in told : m.what = what}}
DataOf(i) == job.data[i]           \* the records of a file of the dump

(* The list holds what was added, less what was deleted, whatever other    *)
(* names an inode has: addfile, deletefile and freeentry.  After an        *)
(* extraction it is empty.                                                 *)
Listed == Doing("shell") => {n \in Names : Marked(n)} = wanted

(* What was on the list at an extraction is on the disk as it was dumped,  *)
(* or there was a message about it, and restore never panics: only a       *)
(* file's own records get into it, each once and in order, over the ends   *)
(* of volumes and whatever volumes were mounted between (getvol, getfile,  *)
(* createfiles); a file is cut short only when the operator has no more    *)
(* volumes.                                                                *)
Delivered ==
    /\ ~Doing("panic")
    /\ Doing("shell") =>
           \A n \in due \ (Told("missing") \cup Told("not linked")) :
               /\ at[n] # None
               /\ LET got == data[at[n]]
                  IN  \/ got = DataOf(job.names[n])
                      \/ \E m \in Told("cut") : /\ job.names[m] = job.names[n]
                                                /\ IsPrefix(got, DataOf(job.names[n]))

(* A file reported "not found on tape" begins on none of the volumes that  *)
(* were mounted in this extraction (createfiles skips what it passes).     *)
NotMissed ==
    \A m \in told : m.what = "missing" =>
        \A v \in m.mounted : \A k \in DOMAIN job.volumes[v] :
            ~(job.volumes[v][k].t = "INODE" /\ job.volumes[v][k].ino = job.names[m.name])

(* Every extraction comes to its end, once the operator has no more        *)
(* volumes to name (createfiles, getvol, terminateinput).                  *)
Ends == <>(todo = <<>>)
=============================================================================
