----------------------------- MODULE DumpDates ------------------------------
(***************************************************************************)
(* The file dumpdates (src/dump/itime.c).  Several dumps run at the same   *)
(* time; each reads the file when it starts, to find the date since which  *)
(* files are dumped, and with -u enters itself when it is complete.        *)
(***************************************************************************)
EXTENDS Integers, Sequences, FiniteSets, FiniteSetsExt, SequencesExt

CONSTANTS
    Dumps,      \* the dumps that are run, one process each
    Filesys,    \* dump -> the file system
    Level,      \* dump -> the level it is called with
    Update,     \* dump -> is it called with -u?
    FileExists  \* may there be a dumpdates file to begin with, may there be none?

Nobody == "nobody"  \* holds the lock when no dump does

ASSUME DumpsAssumption ==
    /\ IsFiniteSet(Dumps)
    /\ Level \in [Dumps -> Nat] /\ Update \in [Dumps -> BOOLEAN]
    /\ DOMAIN Filesys = Dumps /\ FileExists \subseteq BOOLEAN
    /\ Nobody \notin Dumps

VARIABLES
    pc,      \* dump -> where it is
    date,    \* dump -> c_date, when it was started
    level,   \* dump -> the level it has in the end
    ddate,   \* dump -> c_ddate, since when files are dumped
    base,    \* dump -> lastlevel, the level of the dump of that date
    ddatev,  \* dump -> the lines it has read, or is about to write
    file,    \* the lines of dumpdates
    exists,  \* is there a file?
    lock,    \* who has the write lock
    clock,   \* seconds
    done,    \* the dumps that have entered themselves, in order
    made     \* how many had when the file was last created

mine == <<date, level, ddate, base, ddatev>>
vars == <<pc, mine, file, exists, lock, clock, done, made>>

(* A line that makedumpdate takes apart, and one that it cannot. *)
Line(p) == [ok |-> TRUE, fs |-> Filesys[p], level |-> level[p], date |-> date[p]]
Bad == [ok |-> FALSE]

Goto(p, from, to) == pc[p] = from /\ pc' = [pc EXCEPT ![p] = to]

(* readdumptimes: reading ends at the first bad line. *)
Lines(f) == LET bad == SelectInSeq(f, LAMBDA l : ~l.ok)
            IN  IF bad = 0 THEN f ELSE SubSeq(f, 1, bad - 1)

Init == /\ pc = [p \in Dumps |-> "start"]
        /\ date = [p \in Dumps |-> 0] /\ level = Level
        /\ ddate = [p \in Dumps |-> 0] /\ base = [p \in Dumps |-> -1]
        /\ ddatev = [p \in Dumps |-> << >>]
        /\ file = << >> /\ exists \in FileExists
        /\ lock = Nobody /\ clock = 1 /\ done = << >> /\ made = 0

-----------------------------------------------------------------------------
(* main and initdumptimes *)

Start(p) ==
    /\ Goto(p, "start", "open")
    /\ date' = [date EXCEPT ![p] = clock]
    /\ clock' \in {clock, clock + 1}
    /\ UNCHANGED <<level, ddate, base, ddatev, file, exists, lock, done, made>>

(* fopen(dumpdates, "r"): without a file only -u goes on to make one, and   *)
(* the dump is one of level 0.                                              *)
Open(p) ==
    /\ \/ /\ exists
          /\ Goto(p, "open", "read")
          /\ UNCHANGED level
       \/ /\ ~exists /\ Update[p]
          /\ Goto(p, "open", "create")
          /\ UNCHANGED level
       \/ /\ ~exists /\ ~Update[p]
          /\ Goto(p, "open", "dump")
          /\ level' = [level EXCEPT ![p] = 0]
    /\ UNCHANGED <<date, ddate, base, ddatev, file, exists, lock, clock, done, made>>

(* fopen(dumpdates, "w"), which truncates what is there by now. *)
Create(p) ==
    /\ Goto(p, "create", "read")
    /\ file' = << >> /\ exists' = TRUE /\ made' = Len(done)
    /\ UNCHANGED <<mine, lock, clock, done>>

(* Fault: a dump of the same level counts as a lower one. *)
Lower_OrSame(p, lines) ==
    {i \in DOMAIN lines : lines[i].fs = Filesys[p] /\ lines[i].level <= Level[p]}

(* getdumptime takes the newest of the lower levels, the first one of these. *)
Lower(p, lines) ==
    {i \in DOMAIN lines : lines[i].fs = Filesys[p] /\ lines[i].level < Level[p]}

ReadDates(p) ==
    /\ lock = Nobody
    /\ Goto(p, "read", "dump")
    /\ ddatev' = [ddatev EXCEPT ![p] = Lines(file)]
    /\ LET lines  == Lines(file)
           lower  == Lower(p, lines)
           newest == Max({0} \cup {lines[i].date : i \in lower})
       IN  IF newest = 0
           THEN /\ level' = [level EXCEPT ![p] = 0]
                /\ UNCHANGED <<ddate, base>>
           ELSE /\ ddate' = [ddate EXCEPT ![p] = newest]
                /\ base' = [base EXCEPT ![p] =
                      lines[Min({i \in lower : lines[i].date = newest})].level]
                /\ UNCHANGED level
    /\ UNCHANGED <<date, file, exists, lock, clock, done, made>>

Complete(p) ==
    /\ Goto(p, "dump", IF Update[p] THEN "put" ELSE "ended")
    /\ UNCHANGED <<mine, file, exists, lock, clock, done, made>>

-----------------------------------------------------------------------------
(* putdumptime *)

(* The line of the same file system and level is replaced, else one added. *)
Enter(lines, line) ==
    LET same == SelectInSeq(lines, LAMBDA l : l.fs = line.fs /\ l.level = line.level)
    IN  IF same = 0 THEN Append(lines, line) ELSE [lines EXCEPT ![same] = line]

(* Fault: the lines read at the start are written back. *)
PutLock_NotReread(p) ==
    /\ lock = Nobody
    /\ Goto(p, "put", "write")
    /\ lock' = p
    /\ ddatev' = [ddatev EXCEPT ![p] = Enter(@, Line(p))]
    /\ UNCHANGED <<date, level, ddate, base, file, exists, clock, done, made>>

PutLock(p) ==
    /\ lock = Nobody
    /\ Goto(p, "put", "write")
    /\ lock' = p
    /\ ddatev' = [ddatev EXCEPT ![p] = Enter(Lines(file), Line(p))]
    /\ UNCHANGED <<date, level, ddate, base, file, exists, clock, done, made>>

(* The new lines are written over the old ones, ... *)
PutWrite(p) ==
    /\ Goto(p, "write", "truncate")
    /\ file' = ddatev[p] \o SubSeq(file, Len(ddatev[p]) + 1, Len(file))
    /\ done' = Append(done, p)
    /\ UNCHANGED <<mine, exists, lock, clock, made>>

(* ... and the file is cut where they end; were it shorter, ftruncate would *)
(* fill it with zero bytes.                                                 *)
PutTruncate(p) ==
    /\ Goto(p, "truncate", "ended")
    /\ LET n == Len(ddatev[p])
       IN  file' = IF Len(file) < n THEN Append(file, Bad) ELSE SubSeq(file, 1, n)
    /\ lock' = Nobody
    /\ UNCHANGED <<mine, exists, clock, done, made>>

(* A dump is aborted, or killed inside putdumptime, which frees its lock.   *)
Fail(p) ==
    /\ pc[p] \in {"dump", "write", "truncate"}
    /\ pc' = [pc EXCEPT ![p] = "failed"]
    /\ lock' = IF lock = p THEN Nobody ELSE lock
    /\ UNCHANGED <<mine, file, exists, clock, done, made>>

AllEnded == (\A p \in Dumps : pc[p] \in {"ended", "failed"}) /\ UNCHANGED vars

Step == \/ \E p \in Dumps :
              \/ Start(p) \/ Open(p) \/ Create(p) \/ ReadDates(p) \/ Complete(p)
              \/ PutLock(p) \/ PutWrite(p) \/ PutTruncate(p) \/ Fail(p)
        \/ AllEnded

Spec == Init /\ [][Step]_vars

-----------------------------------------------------------------------------
(* Properties *)

(* p has entered itself since the file was last created, and no dump of the *)
(* same file system and level after it.                                     *)
Latest(p) == \E i \in made + 1 .. Len(done) :
    /\ done[i] = p
    /\ \A j \in i + 1 .. Len(done) :
          Filesys[done[j]] # Filesys[p] \/ level[done[j]] # level[p]

(* putdumptime leaves the lines of all other dumps alone: the file has one  *)
(* line for each file system and level, that of the latest dump, whichever  *)
(* dumps ran at the same time and wherever one of them was killed.  (A dump *)
(* that finds no file may, without a lock, wipe out one made meanwhile:     *)
(* nothing is said of the dumps before that.)                               *)
Registered ==
    LET lines == Lines(file)
    IN  /\ \A p \in Dumps : Latest(p) => \E i \in DOMAIN lines : lines[i] = Line(p)
        /\ \A i, j \in DOMAIN lines :
              i # j => lines[i].fs # lines[j].fs \/ lines[i].level # lines[j].level

(* The dumps that a restore needs exist: a dump is one of level 0 or goes   *)
(* back to the start of a complete dump of a lower level of the same file   *)
(* system, and that one in turn.                                            *)
ChainComplete ==
    \A p \in Dumps : pc[p] \in {"dump", "put", "write", "truncate", "ended"} =>
        \/ level[p] = 0 /\ ddate[p] = 0
        \/ \E q \in ToSet(done) :
              /\ Filesys[q] = Filesys[p] /\ date[q] = ddate[p]
              /\ level[q] = base[p] /\ level[q] < level[p]
=============================================================================
