------------------------------ MODULE SlaveRing ------------------------------
(***************************************************************************)
(* One volume of a dump, from enslave() to the end of trewind()            *)
(* (src/dump/tape.c).  The master cuts its output into requests 0, 1, 2,   *)
(* ... and hands them in turn to N slave processes over socket pairs.  On  *)
(* a volume that rollforward began, the first N of them are those left     *)
(* over from the volume before.                                            *)
(*                                                                         *)
(* Each slave reads its blocks from the disk, then writes them to the      *)
(* shared tape descriptor and sends the result back.  The slaves take      *)
(* turns with signals only: SIGUSR1 passes the turn to read the disk,      *)
(* SIGUSR2 the turn to write the tape, each to the next slave of the ring. *)
(*                                                                         *)
(* The signals are blocked in a slave except inside sigsuspend(), and      *)
(* sigsuspend() is called once, not in a loop: any signal wakes it.  A     *)
(* signal is not counted: one that is already pending is absorbed.         *)
(***************************************************************************)
EXTENDS Integers, Sequences

CONSTANTS
    N,            \* number of slaves, SLAVES in slave.h
    MaxReq,       \* bound: requests of one volume
    SocketHolds   \* does a socket buffer hold the data of a whole request?

ASSUME NAssumption == N \in Nat /\ N >= 2
ASSUME MaxReqAssumption == MaxReq \in Nat
ASSUME SocketAssumption == SocketHolds \in BOOLEAN

VARIABLES
    \* the master
    mpc,      \* where it is in flushtape, trewind or tperror
    slp,      \* the slot it fills next
    nsent,    \* requests sent on this volume
    replayed, \* how many of them rollforward sends: none, or the first N
    mem,      \* slot -> the last request built in its buffer (-1: none on
              \* this volume)
    given,    \* history: slot -> the last request sent to its slave, or -1
    sent,     \* slot -> a request was sent and its result not read
    idx,      \* loop index of the drain in flushtape and of trewind
    verdict,  \* why the volume ends
    skipped,  \* requests given up when the operator said "start the next tape"
    \* the socket pairs
    chan,     \* slot -> requests sent and not read by the slave
    open,     \* slot -> the master's end is open
    res,      \* slot -> results not read by the master
    \* the slaves
    pc,       \* slave -> where it is in doslave
    cur,      \* slave -> the request it works on, or the last one
    caught1, caught2,
    pend,     \* slave -> blocked signals pending, in order of arrival
    term,     \* a SIGTERM to the master is pending
    \* the disk and the tape
    nread,    \* requests whose data was read from the disk
    tape      \* what each write of the volume did, in order

master  == <<mpc, slp, nsent, replayed, mem, given, sent, idx, verdict, skipped>>
sockets == <<chan, open, res>>
signals == <<caught1, caught2, pend>>
medium  == <<nread, tape>>
vars    == <<master, sockets, pc, cur, signals, term, medium>>

Slaves == 0 .. N - 1
Next(s) == IF s + 1 >= N THEN 0 ELSE s + 1

Signals  == {"USR1", "USR2"}
Outcomes == {"ok", "eot", "err"}

MasterStates == {"fill", "data", "result", "tperror", "drain", "close",
                 "tperror_close", "wait", "ended"}
SlaveStates == {"boot", "request", "wait1", "susp1", "read", "wait2", "susp2",
                "write", "reply", "kick", "exit"}
Verdicts == {"none", "finished", "full", "rollforward", "rewrite", "abort"}

-----------------------------------------------------------------------------
(* enslave: the slave in slot slp starts with both turns. *)

Init == /\ mpc = "fill" /\ slp \in Slaves /\ nsent = 0
        /\ replayed \in {0, N}
        /\ mem = [s \in Slaves |-> -1]
        /\ given = [s \in Slaves |-> -1]
        /\ sent = [s \in Slaves |-> FALSE]
        /\ idx = 0 /\ verdict = "none" /\ skipped = {}
        /\ chan = [s \in Slaves |-> << >>]
        /\ open = [s \in Slaves |-> TRUE]
        /\ res = [s \in Slaves |-> << >>]
        /\ pc = [s \in Slaves |-> "boot"]
        /\ cur = [s \in Slaves |-> -1]
        /\ caught1 = [s \in Slaves |-> s = slp]
        /\ caught2 = [s \in Slaves |-> s = slp]
        /\ pend = [s \in Slaves |-> << >>]
        /\ term = FALSE
        /\ nread = 0 /\ tape = << >>

-----------------------------------------------------------------------------
(* Signals between slaves. *)

Pending(s, sig) == \E i \in DOMAIN pend[s] : pend[s][i] = sig

(* kill(s, sig).  Until doslave blocks the signals the inherited handlers   *)
(* proceed1 and proceed2 run at once and set caught1, caught2; from then on *)
(* the signal stays pending until the next sigsuspend.                      *)
Kill(s, sig) ==
    \/ /\ pc[s] = "exit"
       /\ UNCHANGED signals
    \/ /\ pc[s] = "boot"
       /\ caught1' = [caught1 EXCEPT ![s] = @ \/ sig = "USR1"]
       /\ caught2' = [caught2 EXCEPT ![s] = @ \/ sig = "USR2"]
       /\ UNCHANGED pend
    \/ /\ pc[s] \notin {"boot", "exit"}
       /\ pend' = [pend EXCEPT ![s] = IF Pending(s, sig) THEN @
                                      ELSE Append(@, sig)]
       /\ UNCHANGED <<caught1, caught2>>

(* Fault: proceed2 does not record the turn. *)
Wake1_ForgetsTurn(s) ==
    /\ pend[s] # << >>
    /\ caught1' = [caught1 EXCEPT ![s] = FALSE]
    /\ pend' = [pend EXCEPT ![s] = << >>]
    /\ UNCHANGED caught2

(* sigsuspend at the first lock point returns, on any signal: proceed2 sets *)
(* caught2, proceed1 jumps out, and either way the slave goes on as if its  *)
(* turn to read had come.  The frame of SIGUSR2 is stacked on that of       *)
(* SIGUSR1, so proceed2 has run before the jump; it could be cut short only *)
(* by a SIGUSR1 that comes after it, which SignalOrder rules out.           *)
Wake1(s) ==
    /\ pend[s] # << >>
    /\ caught1' = [caught1 EXCEPT ![s] = FALSE]
    /\ caught2' = [caught2 EXCEPT ![s] = @ \/ Pending(s, "USR2")]
    /\ pend' = [pend EXCEPT ![s] = << >>]

(* The same at the second lock point.  With both signals pending, proceed2  *)
(* jumps out of both frames, unless SIGUSR1 came only while proceed2 was    *)
(* entered: SIGUSR1 is lost or caught.                                      *)
Wake2(s) ==
    /\ pend[s] # << >>
    /\ caught2' = [caught2 EXCEPT ![s] = FALSE]
    /\ \/ caught1' = [caught1 EXCEPT ![s] = @ \/ Pending(s, "USR1")]
       \/ /\ Pending(s, "USR1") /\ Pending(s, "USR2")
          /\ UNCHANGED caught1
    /\ pend' = [pend EXCEPT ![s] = << >>]

-----------------------------------------------------------------------------
(* doslave *)

Goto(s, from, to) == pc[s] = from /\ pc' = [pc EXCEPT ![s] = to]

Boot(s) ==
    /\ Goto(s, "boot", "request")
    /\ UNCHANGED <<master, sockets, cur, signals, term, medium>>

(* Fault: the slave does not wait for its turn to read. *)
GetRequest_NoWait(s) ==
    /\ chan[s] # << >>
    /\ Goto(s, "request", "read")
    /\ cur' = [cur EXCEPT ![s] = Head(chan[s])]
    /\ chan' = [chan EXCEPT ![s] = Tail(@)]
    /\ UNCHANGED <<master, open, res, signals, term, medium>>

GetRequest(s) ==
    /\ chan[s] # << >>
    /\ Goto(s, "request", "wait1")
    /\ cur' = [cur EXCEPT ![s] = Head(chan[s])]
    /\ chan' = [chan EXCEPT ![s] = Tail(@)]
    /\ UNCHANGED <<master, open, res, signals, term, medium>>

EndOfRequests(s) ==
    /\ chan[s] = << >> /\ ~open[s]
    /\ Goto(s, "request", "exit")
    /\ UNCHANGED <<master, sockets, cur, signals, term, medium>>

LockPoint1(s) ==
    /\ \/ /\ ~caught1[s]
          /\ Goto(s, "wait1", "susp1")
          /\ UNCHANGED signals
       \/ /\ caught1[s]
          /\ Goto(s, "wait1", "read")
          /\ caught1' = [caught1 EXCEPT ![s] = FALSE]
          /\ UNCHANGED <<caught2, pend>>
       \/ /\ Wake1(s)
          /\ Goto(s, "susp1", "read")
    /\ UNCHANGED <<master, sockets, cur, term, medium>>

(* Fault: the wrong signal after the reads. *)
ReadBlocks_SignalsWrite(s) ==
    /\ ~(mpc = "data" /\ slp = s)
    /\ Goto(s, "read", "wait2")
    /\ nread' = nread + 1
    /\ Kill(Next(s), "USR2")
    /\ UNCHANGED <<master, sockets, cur, term, tape>>

(* The reads of the request's blocks, from the disk and, for records built  *)
(* by the master, from the socket; then the turn to read is passed on.      *)
ReadBlocks(s) ==
    /\ ~(mpc = "data" /\ slp = s)
    /\ Goto(s, "read", "wait2")
    /\ nread' = nread + 1
    /\ Kill(Next(s), "USR1")
    /\ UNCHANGED <<master, sockets, cur, term, tape>>

(* Too many read errors, or a botched protocol: dumpabort in the slave. *)
QuitSlave(s) ==
    /\ Goto(s, "read", "exit")
    /\ term' = TRUE
    /\ UNCHANGED <<master, sockets, cur, signals, medium>>

LockPoint2(s) ==
    /\ \/ /\ ~caught2[s]
          /\ Goto(s, "wait2", "susp2")
          /\ UNCHANGED signals
       \/ /\ caught2[s]
          /\ Goto(s, "wait2", "write")
          /\ caught2' = [caught2 EXCEPT ![s] = FALSE]
          /\ UNCHANGED <<caught1, pend>>
       \/ /\ Wake2(s)
          /\ Goto(s, "susp2", "write")
    /\ UNCHANGED <<master, sockets, cur, term, medium>>

(* Fault: what was written is reported although the end of tape cut it short. *)
WriteTape_Short(s) ==
    /\ Goto(s, "write", "reply")
    /\ \E out \in {"ok", "short", "err"} :
          tape' = Append(tape, [req |-> cur[s], out |-> out])
    /\ UNCHANGED <<master, sockets, cur, signals, term, nread>>

(* Fault: after the end of tape the whole block is tried again. *)
WriteTape_Twice(s) ==
    /\ Goto(s, "write", "reply")
    /\ \E out \in Outcomes :
          tape' = IF out = "eot"
                  THEN tape \o <<[req |-> cur[s], out |-> out], [req |-> cur[s], out |-> "ok"]>>
                  ELSE Append(tape, [req |-> cur[s], out |-> out])
    /\ UNCHANGED <<master, sockets, cur, signals, term, nread>>

WriteTape(s) ==
    /\ Goto(s, "write", "reply")
    /\ \E out \in Outcomes : tape' = Append(tape, [req |-> cur[s], out |-> out])
    /\ UNCHANGED <<master, sockets, cur, signals, term, nread>>

Reply(s) ==
    /\ Goto(s, "reply", "kick")
    /\ res' = [res EXCEPT ![s] = Append(@, tape[Len(tape)].out)]
    /\ UNCHANGED <<master, chan, open, cur, signals, term, medium>>

(* Fault: the wrong signal after the write. *)
Kick_SignalsRead(s) ==
    /\ Goto(s, "kick", "request")
    /\ Kill(Next(s), "USR1")
    /\ UNCHANGED <<master, sockets, cur, term, medium>>

Kick(s) ==
    /\ Goto(s, "kick", "request")
    /\ Kill(Next(s), "USR2")
    /\ UNCHANGED <<master, sockets, cur, term, medium>>

Slave(s) == \/ Boot(s) \/ GetRequest(s) \/ EndOfRequests(s)
            \/ LockPoint1(s) \/ ReadBlocks(s) \/ QuitSlave(s)
            \/ LockPoint2(s) \/ WriteTape(s) \/ Reply(s) \/ Kick(s)

-----------------------------------------------------------------------------
(* flushtape and rollforward *)

(* The request list is written to the slave's socket; its data follows.     *)
Send ==
    /\ mpc = "fill" /\ nsent < MaxReq
    /\ mpc' = "data"
    /\ given' = [given EXCEPT ![slp] = nsent]
    /\ chan' = [chan EXCEPT ![slp] = Append(@, nsent)]
    /\ nsent' = nsent + 1
    /\ UNCHANGED <<slp, replayed, sent, idx, verdict, skipped, open, res, pc,
                   cur, signals, term, medium>>

(* Fault: the request is built in the buffer of the next slot. *)
SendRequest_WrongSlot ==
    /\ nsent >= replayed /\ Send
    /\ mem' = [mem EXCEPT ![Next(slp)] = nsent]

(* flushtape sends the request built in the buffer of the slot. *)
SendRequest ==
    /\ nsent >= replayed /\ Send
    /\ mem' = [mem EXCEPT ![slp] = nsent]

(* rollforward sends the requests left over from the volume before to one   *)
(* slot after the other from the extra buffer, slaves[SLAVES]: they are not *)
(* stored in the slots.                                                     *)
Replay ==
    /\ nsent < replayed /\ Send
    /\ UNCHANGED mem

(* All replayed requests are sent, and the result that is read is that of   *)
(* the first of them: rollforward reads it, not flushtape.                  *)
First == nsent = replayed

(* Fault: the result of the next slot is not waited for. *)
FinishSend_NoResult ==
    /\ mpc = "data"
    /\ SocketHolds \/ pc[slp] = "read"
    /\ sent' = [sent EXCEPT ![slp] = TRUE]
    /\ slp' = Next(slp) /\ mpc' = "fill"
    /\ UNCHANGED <<nsent, replayed, mem, given, idx, verdict, skipped, sockets,
                   pc, cur, signals, term, medium>>

(* The rest of the write: at once when the socket buffer holds it, else     *)
(* only while the slave reads it.  Then the next slot, and its result when  *)
(* one is outstanding.                                                      *)
FinishSend ==
    /\ mpc = "data"
    /\ SocketHolds \/ pc[slp] = "read"
    /\ sent' = [sent EXCEPT ![slp] = TRUE]
    /\ slp' = Next(slp)
    /\ mpc' = IF sent'[Next(slp)] THEN "result" ELSE "fill"
    /\ UNCHANGED <<nsent, replayed, mem, given, idx, verdict, skipped, sockets,
                   pc, cur, signals, term, medium>>

(* The result of the slave whose slot is needed next.  After "ok" the size  *)
(* limit of the volume may be reached: flushtape closes it.  (rollforward   *)
(* does not look at the limit, and quits at an end of tape.)                *)
ReadResult ==
    /\ mpc = "result" /\ res[slp] # << >>
    /\ res' = [res EXCEPT ![slp] = Tail(@)]
    /\ sent' = [sent EXCEPT ![slp] = FALSE]
    /\ \/ /\ Head(res[slp]) = "ok"
          /\ mpc' = "fill" /\ UNCHANGED verdict
       \/ /\ Head(res[slp]) = "ok" /\ ~First
          /\ mpc' = "close" /\ verdict' = "full"
       \/ /\ Head(res[slp]) = "eot" /\ ~First
          /\ mpc' = "drain" /\ verdict' = "rollforward"
       \/ /\ Head(res[slp]) = "err"
          /\ mpc' = "tperror" /\ UNCHANGED verdict
    /\ idx' = 0
    /\ UNCHANGED <<slp, nsent, replayed, mem, given, skipped, chan, open, pc,
                   cur, signals, term, medium>>

(* The drain after the end of tape: the values are not looked at. *)
Drain ==
    /\ mpc = "drain"
    /\ IF idx = N
       THEN /\ mpc' = "close" /\ idx' = 0
            /\ UNCHANGED <<sent, res>>
       ELSE /\ sent[idx] => res[idx] # << >>
            /\ res' = IF sent[idx] THEN [res EXCEPT ![idx] = Tail(@)] ELSE res
            /\ sent' = [sent EXCEPT ![idx] = FALSE]
            /\ idx' = idx + 1 /\ UNCHANGED mpc
    /\ UNCHANGED <<slp, nsent, replayed, mem, given, verdict, skipped, chan,
                   open, pc, cur, signals, term, medium>>

(* main: all passes are done, the last trailer is flushed. *)
EndOfDump ==
    /\ mpc = "fill" /\ nsent >= replayed
    /\ mpc' = "close" /\ verdict' = "finished" /\ idx' = 0
    /\ UNCHANGED <<slp, nsent, replayed, mem, given, sent, skipped, sockets,
                   pc, cur, signals, term, medium>>

-----------------------------------------------------------------------------
(* trewind, tperror, dumpabort *)

(* killall, then the exit status: X_REWRITE for the checkpoint, X_ABORT. *)
Stop(v) ==
    /\ mpc' = "ended" /\ verdict' = v
    /\ pc' = [s \in Slaves |-> "exit"]
    /\ sent' = [s \in Slaves |-> FALSE]
    /\ open' = [s \in Slaves |-> FALSE]
    /\ UNCHANGED <<slp, nsent, replayed, mem, given, idx, skipped, chan, res,
                   cur, signals, term, medium>>

(* "EOT detected at start of the tape!": quit. *)
QuitAtStart ==
    /\ mpc = "result" /\ First
    /\ res[slp] # << >> /\ Head(res[slp]) = "eot"
    /\ Stop("abort")

(* One turn of trewind's loop: the outstanding result, then close. *)
CloseSlot ==
    /\ mpc = "close" /\ idx < N
    /\ \/ /\ ~sent[idx]
          /\ open' = [open EXCEPT ![idx] = FALSE]
          /\ idx' = idx + 1
          /\ UNCHANGED <<mpc, sent, res>>
       \/ /\ sent[idx] /\ res[idx] # << >> /\ Head(res[idx]) = "ok"
          /\ open' = [open EXCEPT ![idx] = FALSE]
          /\ idx' = idx + 1
          /\ sent' = [sent EXCEPT ![idx] = FALSE]
          /\ res' = [res EXCEPT ![idx] = Tail(@)]
          /\ UNCHANGED mpc
       \/ /\ sent[idx] /\ res[idx] # << >> /\ Head(res[idx]) = "err"
          /\ mpc' = "tperror_close"
          /\ sent' = [sent EXCEPT ![idx] = FALSE]
          /\ res' = [res EXCEPT ![idx] = Tail(@)]
          /\ UNCHANGED <<open, idx>>
    /\ UNCHANGED <<slp, nsent, replayed, mem, given, verdict, skipped, chan,
                   pc, cur, signals, term, medium>>

(* Fault: an end of tape seen by trewind is taken for a success. *)
QuitAtEot_GoesOn ==
    /\ mpc = "close" /\ idx < N
    /\ sent[idx] /\ res[idx] # << >> /\ Head(res[idx]) = "eot"
    /\ sent' = [sent EXCEPT ![idx] = FALSE]
    /\ open' = [open EXCEPT ![idx] = FALSE]
    /\ idx' = idx + 1
    /\ UNCHANGED <<mpc, slp, nsent, replayed, mem, given, verdict, skipped,
                   chan, res, pc, cur, signals, term, medium>>

(* "EOT detected in last 2 tape records!": quit. *)
QuitAtEot ==
    /\ mpc = "close" /\ idx < N
    /\ sent[idx] /\ res[idx] # << >> /\ Head(res[idx]) = "eot"
    /\ Stop("abort")

CloseDone ==
    /\ mpc = "close" /\ idx = N
    /\ mpc' = "wait"
    /\ UNCHANGED <<slp, nsent, replayed, mem, given, sent, idx, verdict,
                   skipped, sockets, pc, cur, signals, term, medium>>

(* while (wait(NULL) >= 0) *)
WaitForSlaves ==
    /\ mpc = "wait" /\ ~term /\ \A s \in Slaves : pc[s] = "exit"
    /\ mpc' = "ended"
    /\ UNCHANGED <<slp, nsent, replayed, mem, given, sent, idx, verdict,
                   skipped, sockets, pc, cur, signals, term, medium>>

(* The operator's answer to a write error, one of three. *)
AnswerRewrite == mpc \in {"tperror", "tperror_close"} /\ Stop("rewrite")

AnswerAbort == mpc \in {"tperror", "tperror_close"} /\ Stop("abort")

(* "Do you want to start the next tape?" yes: tperror returns.  flushtape   *)
(* then goes on as at the end of the tape; rollforward and trewind just go  *)
(* on, on the same tape, without the request that failed.                   *)
AnswerNextTape ==
    /\ \/ /\ mpc = "tperror" /\ ~First
          /\ mpc' = "drain" /\ verdict' = "rollforward"
          /\ UNCHANGED <<idx, open, skipped>>
       \/ /\ mpc = "tperror" /\ First
          /\ mpc' = "fill"
          /\ skipped' = skipped \cup {given[slp]}
          /\ UNCHANGED <<idx, open, verdict>>
       \/ /\ mpc = "tperror_close"
          /\ mpc' = "close" /\ idx' = idx + 1
          /\ open' = [open EXCEPT ![idx] = FALSE]
          /\ skipped' = skipped \cup {given[idx]}
          /\ UNCHANGED verdict
    /\ UNCHANGED <<slp, nsent, replayed, mem, given, sent, chan, res, pc, cur,
                   signals, term, medium>>

(* A slave's SIGTERM: dumpabort in the master. *)
AbortOnSignal == term /\ mpc # "ended" /\ Stop("abort")

Terminated == mpc = "ended" /\ UNCHANGED vars

Serve == \/ FinishSend \/ ReadResult \/ Drain \/ CloseSlot \/ QuitAtEot
         \/ QuitAtStart \/ CloseDone \/ WaitForSlaves \/ AnswerRewrite
         \/ AnswerAbort \/ AnswerNextTape \/ AbortOnSignal

Step == \/ SendRequest \/ Replay \/ EndOfDump \/ Serve
        \/ \E s \in Slaves : Slave(s)
        \/ Terminated

(* The kernel schedules every process and the operator answers; how soon    *)
(* the scan of the file system fills the next request is left open.         *)
Fairness == WF_vars(Serve) /\ \A s \in Slaves : WF_vars(Slave(s))

Spec == Init /\ [][Step]_vars /\ Fairness

-----------------------------------------------------------------------------
(* Properties *)

TypeOK ==
    /\ mpc \in MasterStates /\ slp \in Slaves /\ nsent \in Nat
    /\ replayed \in {0, N}
    /\ mem \in [Slaves -> Nat \cup {-1}]
    /\ given \in [Slaves -> Nat \cup {-1}]
    /\ sent \in [Slaves -> BOOLEAN]
    /\ idx \in 0 .. N
    /\ verdict \in Verdicts
    /\ skipped \subseteq Nat \cup {-1}
    /\ chan \in [Slaves -> Seq(Nat)]
    /\ open \in [Slaves -> BOOLEAN]
    /\ res \in [Slaves -> Seq(Outcomes)]
    /\ pc \in [Slaves -> SlaveStates]
    /\ cur \in [Slaves -> Nat \cup {-1}]
    /\ caught1 \in [Slaves -> BOOLEAN] /\ caught2 \in [Slaves -> BOOLEAN]
    /\ pend \in [Slaves -> Seq(Signals)]
    /\ term \in BOOLEAN
    /\ nread \in Nat
    /\ tape \in Seq([req : Nat \cup {-1}, out : Outcomes])

(* The tape descriptor is shared by the slaves, and the disk is read in the *)
(* same order (the comment before doslave): a slave that writes, or reads,  *)
(* holds the one request whose turn it is.                                  *)
WriteTurn == \A s \in Slaves : pc[s] = "write" => cur[s] = Len(tape)
ReadTurn  == \A s \in Slaves : pc[s] = "read" => cur[s] = nread

(* The master takes a result from a socket as that of the last request it   *)
(* put into the slot; nothing in the message says so.                       *)
ResultsMatch ==
    \A s \in Slaves :
        res[s] # << >> =>
            /\ given[s] + 1 \in DOMAIN tape
            /\ res[s] = <<tape[given[s] + 1].out>>

Wrote(k, out) == \E i \in DOMAIN tape : tape[i] = [req |-> k, out |-> out]
Written(k) == Wrote(k, "ok")

(* rollforward can replay only what is still in the N slot buffers.  When a *)
(* volume is given up at its end of tape, the slots hold, from slp on and   *)
(* in order, those of the last N requests that flushtape built, and every   *)
(* request that flushtape built is on the volume or in a slot.  Of the N    *)
(* requests that rollforward itself sent at the start of the volume nothing *)
(* is said: they are in no slot, and one that was not written is lost when  *)
(* the volume ends so soon.                                                 *)
ReplayWindow ==
    mpc = "ended" /\ verdict = "rollforward" =>
        /\ \A i \in 0 .. N - 1 :
              nsent - N + i >= replayed =>
                  mem[IF slp + i >= N THEN slp + i - N ELSE slp + i] = nsent - N + i
        /\ \A k \in replayed .. nsent - 1 :
              Written(k) \/ \E s \in Slaves : mem[s] = k

(* When trewind returns and the dump goes on or is complete, every request  *)
(* of the volume, replayed ones too, is on it in full.  Excepted are those  *)
(* whose write failed with an error, not the end of the tape, that trewind  *)
(* or rollforward put to the operator, who answered to start the next tape. *)
VolumeComplete ==
    mpc = "ended" /\ verdict \in {"finished", "full"} =>
        \A k \in 0 .. nsent - 1 :
            Written(k) \/ (k \in skipped /\ Wrote(k, "err"))

(* A turn to write never arrives before the turn to read that precedes it,  *)
(* and the turn to read alone never wakes a slave that waits to write.      *)
SignalOrder ==
    \A s \in Slaves :
        /\ pc[s] = "susp1" => pend[s] # <<"USR2", "USR1">>
        /\ pc[s] = "susp2" => pend[s] # <<"USR1">>

(* A request is built in a slot's buffer only when the one sent last to its *)
(* slave has been written (or was replayed and given up by the operator).   *)
SlotReuse ==
    [][\A s \in Slaves :
          mem'[s] # mem[s] =>
              \/ given[s] = -1 \/ Written(given[s])
              \/ given[s] < replayed /\ given[s] \in skipped]_vars

(* No turn is lost for good, although a signal may be: every request that   *)
(* was sent is written, unless the volume is abandoned.  With the order     *)
(* above this is what the rest of the dump relies on.                       *)
Abstract == INSTANCE VolumeWriter WITH
                submitted <- nsent,
                status <- IF mpc = "ended" THEN verdict ELSE "open"

ImplementsVolumeWriter == Abstract!Spec

(* trewind returns: the slaves see the end of their sockets, and no wait is *)
(* for something that never comes.                                          *)
VolumeEnds == mpc \in {"drain", "close", "wait"} ~> mpc = "ended"

=============================================================================
