------------------------ MODULE SlaveRingTurns_proofs ------------------------
(***************************************************************************)
(* Theorems about SlaveRing, for every number of slaves, every number of   *)
(* requests and sockets of either size: every variable keeps its type, and *)
(* the slaves read the disk and write the tape in turn.                    *)
(***************************************************************************)
EXTENDS SlaveRing, TLAPS, SequenceTheorems

-----------------------------------------------------------------------------
(* Types.  What a slave reports is the outcome of the last write, so that   *)
(* there must have been one; trewind asks about a slot of its loop.         *)

TypeInv ==
    /\ TypeOK
    /\ \A s \in Slaves : pc[s] = "reply" => tape # << >>
    /\ mpc = "tperror_close" => idx < N

LEMMA NextInSlaves == \A s \in Slaves : Next(s) \in Slaves
BY NAssumption DEF Slaves, Next

LEMMA NextOther == \A s \in Slaves : Next(s) # s
BY NAssumption DEF Slaves, Next

(* A signal keeps the types. *)
LEMMA KillType ==
    ASSUME TypeInv, NEW s \in Slaves, NEW sig \in Signals, Kill(s, sig)
    PROVE  /\ caught1' \in [Slaves -> BOOLEAN]
           /\ caught2' \in [Slaves -> BOOLEAN]
           /\ pend' \in [Slaves -> Seq(Signals)]
<1>1. CASE pc[s] = "exit"
  BY <1>1 DEF TypeInv, TypeOK, Kill, signals
<1>2. CASE pc[s] = "boot"
  BY <1>2 DEF TypeInv, TypeOK, Kill, Signals
<1>3. CASE pc[s] \notin {"boot", "exit"}
  <2>1. Append(pend[s], sig) \in Seq(Signals)
    BY AppendProperties DEF TypeInv, TypeOK
  <2>2. pend \in [Slaves -> Seq(Signals)] /\ pend[s] \in Seq(Signals)
    BY DEF TypeInv, TypeOK
  <2>3. pend' \in [Slaves -> Seq(Signals)]
    BY <1>3, <2>1, <2>2 DEF Kill
  <2> QED BY <1>3, <2>3 DEF TypeInv, TypeOK, Kill
<1> QED BY <1>1, <1>2, <1>3

(* So does a wakeup. *)
LEMMA WakeType ==
    ASSUME TypeInv, NEW s \in Slaves, Wake1(s) \/ Wake2(s)
    PROVE  /\ caught1' \in [Slaves -> BOOLEAN]
           /\ caught2' \in [Slaves -> BOOLEAN]
           /\ pend' \in [Slaves -> Seq(Signals)]
<1>1. pend' = [pend EXCEPT ![s] = << >>]
  BY DEF Wake1, Wake2
<1>2. pend' \in [Slaves -> Seq(Signals)]
  BY <1>1, EmptySeq DEF TypeInv, TypeOK
<1>3. CASE Wake1(s)
  BY <1>3, <1>2 DEF Wake1, TypeInv, TypeOK, Pending
<1>4. CASE Wake2(s)
  BY <1>4, <1>2 DEF Wake2, TypeInv, TypeOK, Pending
<1> QED BY <1>3, <1>4

LEMMA TypeInit == Init => TypeInv
<1> SUFFICES ASSUME Init PROVE TypeInv
  OBVIOUS
<1>1. /\ mpc \in MasterStates /\ slp \in Slaves
      /\ verdict \in Verdicts /\ skipped \subseteq Nat \cup {-1}
      /\ term \in BOOLEAN /\ replayed \in {0, N}
  BY DEF Init, MasterStates, Verdicts
<1>4. nsent \in Nat /\ nread \in Nat /\ idx \in 0 .. N
  BY NAssumption DEF Init
<1>2. /\ mem \in [Slaves -> Nat \cup {-1}] /\ given \in [Slaves -> Nat \cup {-1}]
      /\ sent \in [Slaves -> BOOLEAN]
      /\ open \in [Slaves -> BOOLEAN] /\ pc \in [Slaves -> SlaveStates]
      /\ cur \in [Slaves -> Nat \cup {-1}]
      /\ caught1 \in [Slaves -> BOOLEAN] /\ caught2 \in [Slaves -> BOOLEAN]
  BY DEF Init, SlaveStates
<1>3. /\ chan \in [Slaves -> Seq(Nat)] /\ res \in [Slaves -> Seq(Outcomes)]
      /\ pend \in [Slaves -> Seq(Signals)]
      /\ tape \in Seq([req : Nat \cup {-1}, out : Outcomes])
  BY EmptySeq DEF Init
<1> QED BY <1>1, <1>2, <1>3, <1>4 DEF Init, TypeInv, TypeOK

LEMMA TypeSlave ==
    ASSUME TypeInv, NEW s \in Slaves, Slave(s)
    PROVE  TypeInv'
<1>1. CASE Boot(s)
  BY <1>1 DEF Boot, Goto, TypeInv, TypeOK, SlaveStates, master, sockets, signals, medium
<1>2. CASE GetRequest(s)
  <2>1. Head(chan[s]) \in Nat /\ Tail(chan[s]) \in Seq(Nat)
    BY <1>2, HeadTailProperties DEF GetRequest, TypeInv, TypeOK
  <2> QED BY <1>2, <2>1 DEF GetRequest, Goto, TypeInv, TypeOK, SlaveStates, master, signals, medium
<1>3. CASE EndOfRequests(s)
  BY <1>3 DEF EndOfRequests, Goto, TypeInv, TypeOK, SlaveStates, master, sockets, signals, medium
<1>4. CASE LockPoint1(s)
  <2>1. /\ caught1' \in [Slaves -> BOOLEAN]
        /\ caught2' \in [Slaves -> BOOLEAN]
        /\ pend' \in [Slaves -> Seq(Signals)]
    BY <1>4, WakeType DEF LockPoint1, TypeInv, TypeOK, signals
  <2>2. pc' \in [Slaves -> SlaveStates] /\ \A u \in Slaves : pc'[u] = "reply" => pc[u] = "reply"
    BY <1>4 DEF LockPoint1, Goto, TypeInv, TypeOK, SlaveStates
  <2>3. UNCHANGED <<master, sockets, cur, term, medium>>
    BY <1>4 DEF LockPoint1
  <2> QED BY <2>1, <2>2, <2>3 DEF TypeInv, TypeOK, master, sockets, medium
<1>5. CASE ReadBlocks(s)
  <2>1. /\ caught1' \in [Slaves -> BOOLEAN]
        /\ caught2' \in [Slaves -> BOOLEAN]
        /\ pend' \in [Slaves -> Seq(Signals)]
    BY <1>5, KillType, NextInSlaves DEF ReadBlocks, Signals
  <2>2. nread' \in Nat /\ pc' \in [Slaves -> SlaveStates]
        /\ \A u \in Slaves : pc'[u] = "reply" => pc[u] = "reply"
    BY <1>5 DEF ReadBlocks, Goto, TypeInv, TypeOK, SlaveStates
  <2>3. UNCHANGED <<master, sockets, cur, term, tape>>
    BY <1>5 DEF ReadBlocks
  <2> QED BY <2>1, <2>2, <2>3 DEF TypeInv, TypeOK, master, sockets
<1>6. CASE QuitSlave(s)
  BY <1>6 DEF QuitSlave, Goto, TypeInv, TypeOK, SlaveStates, master, sockets, signals, medium
<1>7. CASE LockPoint2(s)
  <2>1. /\ caught1' \in [Slaves -> BOOLEAN]
        /\ caught2' \in [Slaves -> BOOLEAN]
        /\ pend' \in [Slaves -> Seq(Signals)]
    BY <1>7, WakeType DEF LockPoint2, TypeInv, TypeOK, signals
  <2>2. pc' \in [Slaves -> SlaveStates] /\ \A u \in Slaves : pc'[u] = "reply" => pc[u] = "reply"
    BY <1>7 DEF LockPoint2, Goto, TypeInv, TypeOK, SlaveStates
  <2>3. UNCHANGED <<master, sockets, cur, term, medium>>
    BY <1>7 DEF LockPoint2
  <2> QED BY <2>1, <2>2, <2>3 DEF TypeInv, TypeOK, master, sockets, medium
<1>8. CASE WriteTape(s)
  <2> DEFINE Writes == [req : Nat \cup {-1}, out : Outcomes]
  <2>1. PICK out \in Outcomes : tape' = Append(tape, [req |-> cur[s], out |-> out])
    BY <1>8 DEF WriteTape
  <2>2. [req |-> cur[s], out |-> out] \in Writes
    BY DEF TypeInv, TypeOK
  <2>3. tape \in Seq(Writes)
    BY DEF TypeInv, TypeOK
  <2>4. tape' \in Seq(Writes) /\ tape' # << >>
    BY <2>1, <2>2, <2>3, AppendProperties
  <2> QED BY <1>8, <2>4 DEF WriteTape, Goto, TypeInv, TypeOK, SlaveStates, master, sockets, signals
<1>9. CASE Reply(s)
  <2>1. tape # << >>
    BY <1>9 DEF Reply, Goto, TypeInv
  <2> DEFINE Writes == [req : Nat \cup {-1}, out : Outcomes]
  <2>a. tape \in Seq(Writes)
    BY DEF TypeInv, TypeOK
  <2>b. Len(tape) \in 1 .. Len(tape)
    BY <2>1, <2>a, EmptySeq
  <2>c. tape[Len(tape)] \in Writes
    BY <2>a, <2>b, ElementOfSeq
  <2>2. tape[Len(tape)].out \in Outcomes
    BY <2>c
  <2>3. Append(res[s], tape[Len(tape)].out) \in Seq(Outcomes)
    BY <2>2, AppendProperties DEF TypeInv, TypeOK
  <2> QED BY <1>9, <2>3 DEF Reply, Goto, TypeInv, TypeOK, SlaveStates, master, signals, medium
<1>10. CASE Kick(s)
  <2>1. /\ caught1' \in [Slaves -> BOOLEAN]
        /\ caught2' \in [Slaves -> BOOLEAN]
        /\ pend' \in [Slaves -> Seq(Signals)]
    BY <1>10, KillType, NextInSlaves DEF Kick, Signals
  <2> QED BY <1>10, <2>1 DEF Kick, Goto, TypeInv, TypeOK, SlaveStates, master, sockets, medium
<1> QED
  BY <1>1, <1>2, <1>3, <1>4, <1>5, <1>6, <1>7, <1>8, <1>9, <1>10 DEF Slave

(* Taking the first result off one socket leaves sequences of results on    *)
(* every socket (atomic_read of an int, src/dump/tape.c).                   *)
LEMMA TakeResult ==
    ASSUME NEW S, NEW O, NEW f \in [S -> Seq(O)], NEW i \in S, f[i] # << >>
    PROVE  [f EXCEPT ![i] = Tail(@)] \in [S -> Seq(O)]
<1>1. Tail(f[i]) \in Seq(O)
  <2>1. f[i] \in Seq(O)
    OBVIOUS
  <2> QED BY <2>1, HeadTailProperties
<1>2. [f EXCEPT ![i] = Tail(@)] = [f EXCEPT ![i] = Tail(f[i])]
  OBVIOUS
<1> QED BY <1>1, <1>2

LEMMA TypeServe ==
    ASSUME TypeInv, Serve
    PROVE  TypeInv'
<1> USE DEF MasterStates, Verdicts
<1>0. ASSUME NEW v \in Verdicts, Stop(v) PROVE TypeInv'
  BY <1>0 DEF Stop, TypeInv, TypeOK, SlaveStates, signals, medium
<1>1. CASE FinishSend
  BY <1>1, NextInSlaves DEF FinishSend, TypeInv, TypeOK, sockets, signals, medium
<1>2. CASE ReadResult
  <2>a. res[slp] # << >> /\ slp \in Slaves /\ res \in [Slaves -> Seq(Outcomes)]
    BY <1>2 DEF ReadResult, TypeInv, TypeOK
  <2>b. res[slp] \in Seq(Outcomes)
    BY <2>a
  <2>1. Tail(res[slp]) \in Seq(Outcomes)
    BY <2>a, <2>b, HeadTailProperties
  <2>2. 0 \in 0 .. N
    BY NAssumption
  <2> QED BY <1>2, <2>1, <2>2 DEF ReadResult, TypeInv, TypeOK, signals, medium
<1>3. CASE Drain
  <2>1. CASE idx = N
    BY <1>3, <2>1, NAssumption DEF Drain, TypeInv, TypeOK, signals, medium
  <2>2. CASE idx # N
    <3>1. idx \in Slaves /\ idx + 1 \in 0 .. N
      BY <2>2, NAssumption DEF TypeInv, TypeOK, Slaves
    <3>2. res' \in [Slaves -> Seq(Outcomes)]
      <4>1. res \in [Slaves -> Seq(Outcomes)]
        BY DEF TypeInv, TypeOK
      <4>2. CASE sent[idx]
        <5>1. res[idx] # << >> /\ res' = [res EXCEPT ![idx] = Tail(@)]
          BY <1>3, <2>2, <4>2 DEF Drain
        <5> QED BY <3>1, <4>1, <5>1, TakeResult
      <4>3. CASE ~sent[idx]
        <5>1. res' = res
          BY <1>3, <2>2, <4>3 DEF Drain
        <5> QED BY <4>1, <5>1
      <4> QED BY <4>2, <4>3
    <3> QED BY <1>3, <2>2, <3>1, <3>2 DEF Drain, TypeInv, TypeOK, signals, medium
  <2> QED BY <2>1, <2>2
<1>4. CASE CloseSlot
  <2>1. idx \in Slaves /\ idx + 1 \in 0 .. N
    BY <1>4, NAssumption DEF CloseSlot, TypeInv, TypeOK, Slaves
  <2>2. res' \in [Slaves -> Seq(Outcomes)]
    <3>1. res \in [Slaves -> Seq(Outcomes)]
      BY DEF TypeInv, TypeOK
    <3>2. \/ res' = res
          \/ res[idx] # << >> /\ res' = [res EXCEPT ![idx] = Tail(@)]
      BY <1>4 DEF CloseSlot
    <3>3. CASE res' = res
      BY <3>1, <3>3
    <3>4. CASE res[idx] # << >> /\ res' = [res EXCEPT ![idx] = Tail(@)]
      BY <2>1, <3>1, <3>4, TakeResult
    <3> QED BY <3>2, <3>3, <3>4
  <2>3. /\ mpc' \in MasterStates /\ open' \in [Slaves -> BOOLEAN]
        /\ idx' \in 0 .. N /\ sent' \in [Slaves -> BOOLEAN]
        /\ mpc' = "tperror_close" => idx' < N
    BY <1>4, <2>1 DEF CloseSlot, TypeInv, TypeOK
  <2> QED BY <1>4, <2>2, <2>3 DEF CloseSlot, TypeInv, TypeOK, signals, medium
<1>5. CASE QuitAtEot
  BY <1>5, <1>0 DEF QuitAtEot
<1>6. CASE CloseDone
  BY <1>6 DEF CloseDone, TypeInv, TypeOK, sockets, signals, medium
<1>7. CASE WaitForSlaves
  BY <1>7 DEF WaitForSlaves, TypeInv, TypeOK, sockets, signals, medium
<1>8. CASE AnswerRewrite
  BY <1>8, <1>0 DEF AnswerRewrite
<1>9. CASE AnswerAbort
  BY <1>9, <1>0 DEF AnswerAbort
<1>10. CASE AnswerNextTape
  <2>1. CASE mpc = "tperror"
    BY <1>10, <2>1 DEF AnswerNextTape, TypeInv, TypeOK, signals, medium
  <2>2. CASE mpc = "tperror_close"
    <3>1. idx \in Slaves /\ idx + 1 \in 0 .. N
      BY <2>2, NAssumption DEF TypeInv, TypeOK, Slaves
    <3> QED BY <1>10, <2>2, <3>1 DEF AnswerNextTape, TypeInv, TypeOK, signals, medium
  <2> QED BY <1>10, <2>1, <2>2 DEF AnswerNextTape
<1>11. CASE AbortOnSignal
  BY <1>11, <1>0 DEF AbortOnSignal
<1>12. CASE QuitAtStart
  BY <1>12, <1>0 DEF QuitAtStart
<1> QED
  BY <1>1, <1>2, <1>3, <1>4, <1>5, <1>6, <1>7, <1>8, <1>9, <1>10, <1>11, <1>12 DEF Serve

LEMMA TypeStep == TypeInv /\ [Step]_vars => TypeInv'
<1> SUFFICES ASSUME TypeInv, [Step]_vars PROVE TypeInv'
  OBVIOUS
<1> USE DEF MasterStates, Verdicts
<1>1. CASE SendRequest \/ Replay
  <2>1. Append(chan[slp], nsent) \in Seq(Nat)
    BY AppendProperties DEF TypeInv, TypeOK
  <2>2. mem' \in [Slaves -> Nat \cup {-1}]
    BY <1>1 DEF SendRequest, Replay, TypeInv, TypeOK
  <2>3. Send
    BY <1>1 DEF SendRequest, Replay
  <2> QED BY <2>1, <2>2, <2>3 DEF Send, TypeInv, TypeOK, signals, medium
<1>2. CASE EndOfDump
  BY <1>2, NAssumption DEF EndOfDump, TypeInv, TypeOK, sockets, signals, medium
<1>3. CASE Serve
  BY <1>3, TypeServe
<1>4. ASSUME NEW s \in Slaves, Slave(s) PROVE TypeInv'
  BY <1>4, TypeSlave
<1>5. CASE UNCHANGED vars
  BY <1>5 DEF vars, master, sockets, signals, medium, TypeInv, TypeOK
<1> QED BY <1>1, <1>2, <1>3, <1>4, <1>5 DEF Step, Terminated

(* Every variable keeps its type: no slave reports an outcome before there  *)
(* is one on the tape, and the loops over the slots stay within them.       *)
THEOREM TypeCorrect == Spec => []TypeOK
<1>1. TypeInv => TypeOK
  BY DEF TypeInv
<1> QED BY <1>1, TypeInit, TypeStep, PTL DEF Spec

-----------------------------------------------------------------------------
(* The turns.  Requests go round the slots, so the request that slot s gets *)
(* next, and the last one it got, follow from nsent and the distance of s   *)
(* from the slot whose turn it is.                                          *)

Ahead(a, b) == IF b >= a THEN b - a ELSE b - a + N
Turn == IF mpc = "data" THEN Next(slp) ELSE slp
Upcoming(s) == nsent + Ahead(Turn, s)
LastSent(s) == Upcoming(s) - N

Live(s) == pc[s] # "exit"
Unread  == {"boot", "request", "wait1", "susp1", "read"}
Working == {"wait1", "susp1", "read", "wait2", "susp2", "write", "reply"}
Told    == {"reply", "kick"}

(* The request that slave s works on, or waits for; the next one it reads   *)
(* from the disk, and the next one it writes to the tape.                   *)
Job(s) == IF pc[s] \in {"boot", "request"}
          THEN IF chan[s] = << >> THEN Upcoming(s) ELSE LastSent(s)
          ELSE cur[s]
ToRead(s)  == IF pc[s] \in Unread THEN Job(s) ELSE cur[s] + N
ToWrite(s) == IF pc[s] \in Told THEN cur[s] + N ELSE Job(s)

(* What a slave has in hand and in its socket. *)
JobInv ==
    \A s \in Slaves : Live(s) =>
        /\ Len(chan[s]) <= 1
        /\ chan[s] # << >> => chan[s][1] = LastSent(s)
        /\ pc[s] \in Working => chan[s] = << >> /\ cur[s] = LastSent(s)
        /\ pc[s] = "kick" =>
              cur[s] = IF chan[s] = << >> THEN LastSent(s) ELSE LastSent(s) - N

(* All slaves are within one round of the disk and of the tape. *)
RoundInv ==
    /\ Len(tape) <= nread
    /\ \A s \in Slaves : Live(s) =>
          /\ nread <= ToRead(s) /\ ToRead(s) < nread + N
          /\ Len(tape) <= ToWrite(s) /\ ToWrite(s) < Len(tape) + N

(* The turn to read: caught, pending or in use, and never twice. *)
ReadTurnOf(s) == caught1[s] \/ Pending(s, "USR1") \/ pc[s] = "read"
ReadInv ==
    \A s \in Slaves : Live(s) =>
        /\ ReadTurnOf(s) => ToRead(s) = nread
        /\ ~(caught1[s] /\ Pending(s, "USR1"))
        /\ pc[s] = "read" => ~caught1[s] /\ ~Pending(s, "USR1")
        /\ pc[s] = "susp1" => ~caught1[s]

(* The turn to write.  It is never lost: the slave that writes next has it, *)
(* or the one before it has yet to send the signal.                         *)
WriteTurnOf(s) == caught2[s] \/ Pending(s, "USR2") \/ pc[s] = "write"
WriteInv ==
    \A s \in Slaves :
        /\ Live(s) =>
              /\ WriteTurnOf(s) => ToWrite(s) = Len(tape)
              /\ ~(caught2[s] /\ Pending(s, "USR2"))
              /\ pc[s] = "write" => ~caught2[s] /\ ~Pending(s, "USR2")
              /\ pc[s] = "susp2" => ~caught2[s]
        /\ pc[s] \in Told => Len(tape) = cur[s] + 1
        /\ Live(Next(s)) =>
              /\ pc[s] \in Told => ~WriteTurnOf(Next(s))
              /\ ToWrite(Next(s)) = Len(tape) =>
                    WriteTurnOf(Next(s)) \/ pc[s] \in Told

(* SIGUSR2 is there before the SIGUSR1 of the next round, and SIGUSR1       *)
(* before the SIGUSR2 of its own.                                           *)
OrderInv ==
    \A s \in Slaves : Live(s) =>
        /\ pc[s] \in {"wait2", "susp2"} /\ Pending(s, "USR1") =>
              caught2[s] \/ Pending(s, "USR2")
        /\ pc[s] \notin {"wait2", "susp2"} => pend[s] # <<"USR2", "USR1">>

(* The results.  A slave is busy only with a request whose result the      *)
(* master waits for, and a request whose data is still being sent has not   *)
(* been read.                                                               *)
Sending(s) == mpc = "data" /\ slp = s
Busy(s) == chan[s] # << >> \/ pc[s] \in Working

BusyInv ==
    /\ \A s \in Slaves :
          /\ Live(s) /\ Busy(s) => (sent[s] \/ Sending(s)) /\ res[s] = << >>
          /\ Live(s) /\ Sending(s) => pc[s] \in Unread \cup {"kick"}
          /\ Len(res[s]) <= 1
          /\ res[s] # << >> => sent[s] \/ mpc = "ended"
    /\ mpc \in {"fill", "data", "tperror"} => ~sent[slp]

TurnInv ==
    TypeInv /\ JobInv /\ BusyInv /\ RoundInv /\ ReadInv /\ WriteInv /\ OrderInv

-----------------------------------------------------------------------------
(* The ring. *)

LEMMA AheadRange == \A a, b \in Slaves : Ahead(a, b) \in 0 .. N - 1
BY NAssumption DEF Slaves, Ahead

LEMMA AheadSelf == \A a \in Slaves : Ahead(a, a) = 0
BY NAssumption DEF Slaves, Ahead

LEMMA AheadFromNext ==
    \A a, b \in Slaves :
        Ahead(Next(a), b) = IF a = b THEN N - 1 ELSE Ahead(a, b) - 1
BY NAssumption DEF Slaves, Ahead, Next

LEMMA AheadToNext ==
    \A a, b \in Slaves :
        Ahead(a, Next(b)) = IF Ahead(a, b) = N - 1 THEN 0 ELSE Ahead(a, b) + 1
BY NAssumption DEF Slaves, Ahead, Next

LEMMA AheadInjective ==
    \A a, b, c \in Slaves : Ahead(a, b) = Ahead(a, c) => b = c
BY NAssumption DEF Slaves, Ahead

LEMMA NextInjective == \A a, b \in Slaves : Next(a) = Next(b) => a = b
BY NAssumption DEF Slaves, Next

LEMMA TurnInSlaves == TypeInv => Turn \in Slaves
BY NextInSlaves DEF TypeInv, TypeOK, Turn

LEMMA UpcomingInt ==
    ASSUME TypeInv, NEW s \in Slaves
    PROVE  Upcoming(s) \in Int /\ LastSent(s) \in Int
<1>1. Ahead(Turn, s) \in 0 .. N - 1 /\ nsent \in Nat
  BY TurnInSlaves, AheadRange DEF TypeInv, TypeOK
<1> QED BY <1>1, NAssumption DEF Upcoming, LastSent

(* What two slots get lies less than a round apart. *)
LEMMA UpcomingApart ==
    ASSUME TypeInv, NEW s \in Slaves, NEW u \in Slaves, s # u
    PROVE  /\ Upcoming(s) # Upcoming(u)
           /\ Upcoming(s) - Upcoming(u) < N /\ Upcoming(u) - Upcoming(s) < N
<1>1. /\ Ahead(Turn, s) \in 0 .. N - 1 /\ Ahead(Turn, u) \in 0 .. N - 1
      /\ nsent \in Nat
  BY TurnInSlaves, AheadRange DEF TypeInv, TypeOK
<1>2. Ahead(Turn, s) # Ahead(Turn, u)
  BY TurnInSlaves, AheadInjective
<1> QED BY <1>1, <1>2, NAssumption DEF Upcoming

LEMMA UpcomingNext ==
    ASSUME TypeInv, NEW s \in Slaves
    PROVE  Upcoming(Next(s)) = Upcoming(s) + 1 \/ Upcoming(Next(s)) = Upcoming(s) + 1 - N
<1>1. Ahead(Turn, s) \in 0 .. N - 1 /\ nsent \in Nat
  BY TurnInSlaves, AheadRange DEF TypeInv, TypeOK
<1>2. Ahead(Turn, Next(s)) = IF Ahead(Turn, s) = N - 1 THEN 0 ELSE Ahead(Turn, s) + 1
  BY TurnInSlaves, AheadToNext
<1> QED BY <1>1, <1>2, NAssumption DEF Upcoming

LEMMA UpcomingIsNext ==
    ASSUME TypeInv, NEW s \in Slaves, NEW u \in Slaves,
           Upcoming(u) = Upcoming(s) + 1 \/ Upcoming(u) = Upcoming(s) + 1 - N
    PROVE  u = Next(s)
<1> DEFINE a == Ahead(Turn, s)
           b == Ahead(Turn, u)
<1>1. a \in 0 .. N - 1 /\ b \in 0 .. N - 1 /\ nsent \in Nat
  BY TurnInSlaves, AheadRange DEF TypeInv, TypeOK
<1>2. b = a + 1 \/ b = a + 1 - N
  BY <1>1, NAssumption DEF Upcoming
<1>3. b = IF a = N - 1 THEN 0 ELSE a + 1
  BY <1>1, <1>2, NAssumption
<1>4. b = Ahead(Turn, Next(s))
  BY <1>3, TurnInSlaves, AheadToNext
<1> QED BY <1>4, TurnInSlaves, NextInSlaves, AheadInjective

-----------------------------------------------------------------------------
(* Where the slaves are. *)

LEMMA Pointers ==
    ASSUME TypeInv, JobInv, NEW s \in Slaves, Live(s)
    PROVE  /\ ToRead(s) \in {Upcoming(s), Upcoming(s) - N}
           /\ ToWrite(s) \in {Upcoming(s), Upcoming(s) - N}
<1> DEFINE up == Upcoming(s)
<1>1. up \in Int /\ N \in Nat
  BY UpcomingInt, NAssumption
<1>2. pc[s] \in SlaveStates /\ pc[s] # "exit"
  BY DEF TypeInv, TypeOK, Live
<1>3. CASE pc[s] \in {"boot", "request"}
  <2>1. Job(s) \in {up, up - N}
    BY <1>3 DEF Job, LastSent
  <2> QED BY <1>3, <2>1 DEF ToRead, ToWrite, Unread, Told
<1>4. CASE pc[s] \in Working
  <2>1. cur[s] = up - N
    BY <1>4 DEF JobInv, LastSent
  <2>2. Job(s) = cur[s]
    BY <1>4 DEF Job, Working
  <2>3. cur[s] + N = up
    BY <1>1, <2>1
  <2> QED BY <2>1, <2>2, <2>3 DEF ToRead, ToWrite
<1>5. CASE pc[s] = "kick"
  <2>1. cur[s] \in {up - N, up - N - N}
    BY <1>5 DEF JobInv, LastSent
  <2>2. CASE chan[s] = << >>
    <3>1. cur[s] = up - N
      BY <1>5, <2>2 DEF JobInv, LastSent
    <3>2. cur[s] + N = up
      BY <1>1, <3>1
    <3> QED BY <1>5, <3>2 DEF ToRead, ToWrite, Unread, Told
  <2>3. CASE chan[s] # << >>
    <3>1. cur[s] = up - N - N
      BY <1>5, <2>3 DEF JobInv, LastSent
    <3>2. cur[s] + N = up - N
      BY <1>1, <3>1
    <3> QED BY <1>5, <3>2 DEF ToRead, ToWrite, Unread, Told
  <2> QED BY <2>2, <2>3
<1> QED BY <1>2, <1>3, <1>4, <1>5 DEF SlaveStates, Working

(* No two slaves are at the same request, and the one that comes next is    *)
(* the next of the ring.                                                    *)
LEMMA Apart ==
    ASSUME TypeInv, JobInv, NEW s \in Slaves, NEW u \in Slaves,
           Live(s), Live(u), s # u
    PROVE  ToRead(s) # ToRead(u) /\ ToWrite(s) # ToWrite(u)
BY Pointers, UpcomingInt, UpcomingApart, NAssumption

LEMMA NextReads ==
    ASSUME TypeInv, JobInv, RoundInv, NEW s \in Slaves, Live(s), Live(Next(s)),
           ToRead(s) = nread
    PROVE  ToRead(Next(s)) = nread + 1
<1>1. nread <= ToRead(Next(s)) /\ ToRead(Next(s)) < nread + N /\ nread \in Nat
  BY NextInSlaves DEF RoundInv, TypeInv, TypeOK
<1>2. ToRead(Next(s)) # ToRead(s)
  BY Apart, NextInSlaves, NextOther
<1>3. ToRead(Next(s)) \in {Upcoming(Next(s)), Upcoming(Next(s)) - N}
  BY Pointers, NextInSlaves
<1>4. ToRead(s) \in {Upcoming(s), Upcoming(s) - N}
  BY Pointers
<1>5. Upcoming(s) \in Int /\ Upcoming(Next(s)) \in Int
  BY UpcomingInt, NextInSlaves
<1> QED BY <1>1, <1>2, <1>3, <1>4, <1>5, UpcomingNext, NAssumption

LEMMA NextWrites ==
    ASSUME TypeInv, JobInv, RoundInv, NEW s \in Slaves, Live(s), Live(Next(s)),
           ToWrite(s) = Len(tape)
    PROVE  ToWrite(Next(s)) = Len(tape) + 1
<1>1. Len(tape) <= ToWrite(Next(s)) /\ ToWrite(Next(s)) < Len(tape) + N /\ Len(tape) \in Nat
  BY NextInSlaves, LenProperties DEF RoundInv, TypeInv, TypeOK
<1>2. ToWrite(Next(s)) # ToWrite(s)
  BY Apart, NextInSlaves, NextOther
<1>3. ToWrite(Next(s)) \in {Upcoming(Next(s)), Upcoming(Next(s)) - N}
  BY Pointers, NextInSlaves
<1>4. ToWrite(s) \in {Upcoming(s), Upcoming(s) - N}
  BY Pointers
<1>5. Upcoming(s) \in Int /\ Upcoming(Next(s)) \in Int
  BY UpcomingInt, NextInSlaves
<1> QED BY <1>1, <1>2, <1>3, <1>4, <1>5, UpcomingNext, NAssumption

LEMMA WritesNext ==
    ASSUME TypeInv, JobInv, NEW s \in Slaves, NEW u \in Slaves, Live(s), Live(u),
           ToWrite(u) = ToWrite(s) + 1
    PROVE  u = Next(s)
<1>1. ToWrite(u) \in {Upcoming(u), Upcoming(u) - N} /\ ToWrite(s) \in {Upcoming(s), Upcoming(s) - N}
  BY Pointers
<1>2. Upcoming(s) \in Int /\ Upcoming(u) \in Int
  BY UpcomingInt
<1>3. CASE u # s
  <2>1. Upcoming(s) - Upcoming(u) < N /\ Upcoming(u) - Upcoming(s) < N
    BY <1>3, UpcomingApart
  <2>2. Upcoming(u) = Upcoming(s) + 1 \/ Upcoming(u) = Upcoming(s) + 1 - N
    BY <1>1, <1>2, <2>1, NAssumption
  <2> QED BY <2>2, UpcomingIsNext
<1>4. CASE u = s
  BY <1>1, <1>2, <1>4, NAssumption
<1> QED BY <1>3, <1>4

-----------------------------------------------------------------------------
(* Steps. *)

LEMMA Frame ==
    ASSUME UNCHANGED <<mpc, slp, nsent>>
    PROVE  \A s : Upcoming(s)' = Upcoming(s) /\ LastSent(s)' = LastSent(s)
BY DEF Upcoming, LastSent, Turn, Next, Ahead

LEMMA TurnInit == Init => TurnInv
<1> SUFFICES ASSUME Init PROVE TurnInv
  OBVIOUS
<1>1. TypeInv
  BY TypeInit
<1>2. slp \in Slaves /\ Turn = slp /\ nsent = 0 /\ Len(tape) = 0
  BY <1>1 DEF Init, Turn
<1>3. \A s \in Slaves : /\ chan[s] = << >> /\ Len(chan[s]) = 0 /\ res[s] = << >>
                        /\ Len(res[s]) = 0 /\ pc[s] = "boot" /\ ~Pending(s, "USR1")
                        /\ ~Pending(s, "USR2") /\ pend[s] # <<"USR2", "USR1">>
                        /\ ~sent[s]
  BY DEF Init, Pending
<1>4. \A s \in Slaves : ToRead(s) = Ahead(slp, s) /\ ToWrite(s) = Ahead(slp, s)
  BY <1>2, <1>3, AheadRange DEF ToRead, ToWrite, Job, Unread, Told, Upcoming
<1>5. JobInv
  BY <1>3 DEF JobInv, Working
<1>6. BusyInv
  BY <1>2, <1>3 DEF BusyInv, Busy, Sending, Working, Init
<1>7. RoundInv
  BY <1>2, <1>4, AheadRange, NAssumption DEF RoundInv, Init
<1>8. ReadInv
  BY <1>2, <1>3, <1>4, AheadSelf DEF ReadInv, ReadTurnOf, Init
<1>9. WriteInv
  <2>1. \A s \in Slaves : WriteTurnOf(s) <=> s = slp
    BY <1>2, <1>3 DEF Init, WriteTurnOf
  <2>2. \A s \in Slaves : ToWrite(s) = 0 <=> s = slp
    BY <1>2, <1>4, AheadSelf, AheadInjective
  <2> QED BY <1>2, <1>3, <2>1, <2>2, NextInSlaves DEF WriteInv, Told
<1>10. OrderInv
  BY <1>3 DEF OrderInv
<1> QED BY <1>1, <1>5, <1>6, <1>7, <1>8, <1>9, <1>10 DEF TurnInv

(* The master's steps other than Send and Stop. *)
LEMMA TurnMaster ==
    ASSUME TurnInv, TypeInv', UNCHANGED <<chan, pc, cur, signals, medium>>,
           \A s \in Slaves : Upcoming(s)' = Upcoming(s),
           BusyInv'
    PROVE  TurnInv'
<1> USE DEF TurnInv, signals, medium
<1>1. \A s \in Slaves : LastSent(s)' = LastSent(s)
  BY DEF LastSent
<1>2. \A s \in Slaves : /\ Live(s)' = Live(s)
                        /\ Pending(s, "USR1")' = Pending(s, "USR1")
                        /\ Pending(s, "USR2")' = Pending(s, "USR2")
  BY DEF Live, Pending
<1>3. \A s \in Slaves : ToRead(s)' = ToRead(s) /\ ToWrite(s)' = ToWrite(s)
  BY <1>1 DEF ToRead, ToWrite, Job
<1>4. JobInv'
  BY <1>1, <1>2 DEF JobInv
<1>5. RoundInv'
  BY <1>2, <1>3 DEF RoundInv
<1>6. ReadInv'
  BY <1>2, <1>3 DEF ReadInv, ReadTurnOf
<1>7. WriteInv'
  BY <1>2, <1>3, NextInSlaves DEF WriteInv, WriteTurnOf
<1>8. OrderInv'
  BY <1>2 DEF OrderInv
<1> QED BY <1>4, <1>5, <1>6, <1>7, <1>8

LEMMA TurnStop ==
    ASSUME TurnInv, TypeInv', NEW v, Stop(v)
    PROVE  TurnInv'
<1>1. \A s \in Slaves : ~Live(s)' /\ pc'[s] = "exit"
  BY DEF Stop, Live
<1>2. RoundInv' /\ JobInv' /\ ReadInv' /\ OrderInv'
  BY <1>1 DEF TurnInv, RoundInv, JobInv, ReadInv, OrderInv, Stop, medium
<1>3. BusyInv'
  BY <1>1 DEF TurnInv, BusyInv, Stop
<1>4. WriteInv'
  BY <1>1, NextInSlaves DEF WriteInv, Told
<1> QED BY <1>2, <1>3, <1>4 DEF TurnInv

(* The next request goes to slot slp, which has its next turn a round       *)
(* later.                                                                   *)
LEMMA SendGives ==
    ASSUME TypeInv, Send
    PROVE  /\ Upcoming(slp) = nsent
           /\ \A s \in Slaves :
                 Upcoming(s)' = IF s = slp THEN Upcoming(s) + N ELSE Upcoming(s)
<1>1. slp \in Slaves /\ nsent \in Nat /\ mpc = "fill" /\ mpc' = "data" /\ slp' = slp
  BY DEF Send, TypeInv, TypeOK
<1>2. Upcoming(slp) = nsent
  BY <1>1, AheadSelf DEF Upcoming, Turn
<1>3. \A s \in Slaves : Upcoming(s)' = IF s = slp THEN Upcoming(s) + N ELSE Upcoming(s)
  <2>1. nsent' = nsent + 1 /\ N \in Nat
    BY NAssumption DEF Send
  <2>2. Turn = slp /\ Turn' = Next(slp)
    BY <1>1 DEF Turn
  <2> SUFFICES ASSUME NEW s \in Slaves
               PROVE  Upcoming(s)' = IF s = slp THEN Upcoming(s) + N ELSE Upcoming(s)
    OBVIOUS
  <2>3. Upcoming(s) = nsent + Ahead(slp, s) /\ Upcoming(s)' = nsent + 1 + Ahead(Next(slp), s)
    BY <2>1, <2>2 DEF Upcoming, Ahead
  <2>4. Ahead(slp, s) \in Int /\ (s = slp => Ahead(slp, s) = 0)
    BY <1>1, AheadRange, AheadSelf
  <2>5. Ahead(Next(slp), s) = IF s = slp THEN N - 1 ELSE Ahead(slp, s) - 1
    BY <1>1, AheadFromNext
  <2> QED BY <1>1, <2>1, <2>3, <2>4, <2>5
<1> QED BY <1>2, <1>3

LEMMA TurnSend ==
    ASSUME TurnInv, TypeInv', Send
    PROVE  TurnInv'
<1> USE DEF TurnInv
<1>1. slp \in Slaves /\ nsent \in Nat /\ mpc = "fill" /\ mpc' = "data" /\ slp' = slp
  BY DEF Send, TypeInv, TypeOK
<1>2. \A s \in Slaves : Upcoming(s)' = IF s = slp THEN Upcoming(s) + N ELSE Upcoming(s)
  BY SendGives
<1>3. Upcoming(slp) = nsent
  BY SendGives
<1>4. /\ chan' = [chan EXCEPT ![slp] = Append(@, nsent)]
      /\ UNCHANGED <<sent, res, pc, cur, signals, medium>>
  BY DEF Send
<1>5. Live(slp) => chan[slp] = << >> /\ pc[slp] \notin Working
  BY <1>1 DEF BusyInv, Busy, Sending
<1>6. Live(slp) => chan'[slp] # << >> /\ Len(chan'[slp]) = 1 /\ chan'[slp][1] = LastSent(slp)'
  <2>1. LastSent(slp)' = nsent
    BY <1>1, <1>2, <1>3, NAssumption DEF LastSent
  <2>2. Live(slp) => chan'[slp] = Append(<< >>, nsent)
    BY <1>1, <1>4, <1>5 DEF TypeInv, TypeOK
  <2>3. << >> \in Seq(Nat) /\ Len(<< >>) = 0
    BY EmptySeq
  <2>4. Append(<< >>, nsent) # << >> /\ Len(Append(<< >>, nsent)) = 1 /\ Append(<< >>, nsent)[1] = nsent
    BY <1>1, <2>3, AppendProperties
  <2> QED BY <2>1, <2>2, <2>4
<1>7. \A s \in Slaves : s # slp => chan'[s] = chan[s] /\ LastSent(s)' = LastSent(s)
  BY <1>1, <1>2, <1>4 DEF TypeInv, TypeOK, LastSent
<1>8. \A s \in Slaves : /\ Live(s)' = Live(s)
                        /\ Pending(s, "USR1")' = Pending(s, "USR1")
                        /\ Pending(s, "USR2")' = Pending(s, "USR2")
  BY <1>4 DEF Live, Pending, signals
<1>9. Live(slp) => pc[slp] \in {"boot", "request", "kick"}
  BY <1>1, <1>5 DEF Live, Working, TypeInv, TypeOK, SlaveStates
<1>10. \A s \in Slaves : s = slp => LastSent(s)' = Upcoming(s) /\ LastSent(s) = Upcoming(s) - N
  BY <1>1, <1>2, <1>3, NAssumption DEF LastSent
<1>11. \A s \in Slaves : Live(s) => ToRead(s)' = ToRead(s) /\ ToWrite(s)' = ToWrite(s)
  <2> SUFFICES ASSUME NEW s \in Slaves, Live(s)
               PROVE  ToRead(s)' = ToRead(s) /\ ToWrite(s)' = ToWrite(s)
    OBVIOUS
  <2>1. CASE s # slp
    BY <2>1, <1>2, <1>4, <1>7 DEF ToRead, ToWrite, Job
  <2>2. CASE s = slp
    <3>1. /\ pc'[s] = pc[s] /\ cur'[s] = cur[s] /\ pc[s] \in {"boot", "request", "kick"}
          /\ chan[s] = << >> /\ chan'[s] # << >> /\ LastSent(s)' = Upcoming(s)
      BY <2>2, <1>4, <1>5, <1>6, <1>9, <1>10
    <3> QED BY <3>1 DEF ToRead, ToWrite, Job, Unread, Told
  <2> QED BY <2>1, <2>2
<1>12. JobInv'
  <2> SUFFICES ASSUME NEW s \in Slaves, Live(s)
               PROVE  /\ Len(chan'[s]) <= 1
                      /\ chan'[s] # << >> => chan'[s][1] = LastSent(s)'
                      /\ pc'[s] \in Working => chan'[s] = << >> /\ cur'[s] = LastSent(s)'
                      /\ pc'[s] = "kick" =>
                            cur'[s] = IF chan'[s] = << >> THEN LastSent(s)' ELSE LastSent(s)' - N
    BY <1>8 DEF JobInv
  <2>1. CASE s # slp
    BY <2>1, <1>4, <1>7 DEF JobInv
  <2>2. CASE s = slp
    <3>1. pc[slp] = "kick" => cur[slp] = Upcoming(slp) - N
      BY <2>2, <1>1, <1>5, <1>10 DEF JobInv
    <3>2. chan'[s] # << >> /\ Len(chan'[s]) = 1 /\ chan'[s][1] = LastSent(s)'
      BY <2>2, <1>1, <1>6
    <3>3. pc'[s] \notin Working /\ LastSent(s)' = Upcoming(s)
      BY <2>2, <1>4, <1>5, <1>10
    <3> QED BY <2>2, <3>1, <3>2, <3>3, <1>4
  <2> QED BY <2>1, <2>2
<1>13. BusyInv'
  BY <1>1, <1>4, <1>7, <1>8, <1>9 DEF BusyInv, Busy, Sending, Unread
<1>14. RoundInv'
  BY <1>4, <1>8, <1>11 DEF RoundInv, medium
<1>15. ReadInv'
  BY <1>4, <1>8, <1>11 DEF ReadInv, ReadTurnOf, signals, medium
<1>16. WriteInv'
  BY <1>4, <1>8, <1>11, NextInSlaves DEF WriteInv, WriteTurnOf, signals, medium
<1>17. OrderInv'
  BY <1>4, <1>8 DEF OrderInv, signals
<1> QED BY <1>12, <1>13, <1>14, <1>15, <1>16, <1>17

LEMMA HeadOfChan ==
    ASSUME TypeInv, JobInv, NEW s \in Slaves, Live(s), chan[s] # << >>
    PROVE  /\ Head(chan[s]) = LastSent(s)
           /\ Tail(chan[s]) = << >> /\ Len(Tail(chan[s])) = 0
<1>1. chan[s] \in Seq(Nat) /\ Len(chan[s]) <= 1 /\ chan[s][1] = LastSent(s)
  BY DEF TypeInv, TypeOK, JobInv
<1>2. Tail(chan[s]) \in Seq(Nat) /\ Len(Tail(chan[s])) = Len(chan[s]) - 1
  BY <1>1, HeadTailProperties
<1>3. \A q \in Seq(Nat) : q # << >> => Len(q) \in Nat \ {0}
  BY EmptySeq
<1>4. Len(chan[s]) = 1
  <2>1. Len(chan[s]) \in Nat \ {0}
    BY <1>1, <1>3
  <2>2. Len(chan[s]) <= 1
    BY <1>1
  <2>3. \A n \in Nat \ {0} : n <= 1 => n = 1
    OBVIOUS
  <2> QED BY <2>1, <2>2, <2>3
<1>5. Len(Tail(chan[s])) = 0 /\ Tail(chan[s]) = << >>
  <2>1. Len(Tail(chan[s])) = 0
    BY <1>2, <1>4
  <2> QED BY <1>2, <1>3, <2>1
<1>6. Head(chan[s]) = chan[s][1]
  BY <1>1
<1> QED BY <1>1, <1>5, <1>6

(* A step of slave s that leaves the master and the medium alone and moves  *)
(* no slave to another request keeps the round.                             *)
LEMMA TurnRound ==
    ASSUME TurnInv, UNCHANGED medium,
           \A u \in Slaves : Live(u)' =>
               Live(u) /\ ToRead(u)' = ToRead(u) /\ ToWrite(u)' = ToWrite(u)
    PROVE  RoundInv'
BY DEF TurnInv, RoundInv, medium

LEMMA TurnBoot ==
    ASSUME TurnInv, TypeInv', NEW s \in Slaves, Boot(s)
    PROVE  TurnInv'
<1> USE DEF TurnInv
<1>1. /\ pc[s] = "boot" /\ pc' = [pc EXCEPT ![s] = "request"] /\ pc \in [Slaves -> SlaveStates]
      /\ UNCHANGED <<master, sockets, cur, signals, term, medium>>
  BY DEF Boot, Goto, TypeInv, TypeOK
<1>2. \A u \in Slaves : Upcoming(u)' = Upcoming(u) /\ LastSent(u)' = LastSent(u)
  BY <1>1, Frame DEF master
<1>3. \A u \in Slaves : /\ Live(u)' = Live(u)
                        /\ Pending(u, "USR1")' = Pending(u, "USR1")
                        /\ Pending(u, "USR2")' = Pending(u, "USR2")
  BY <1>1 DEF Live, Pending, signals
<1>4. \A u \in Slaves : ToRead(u)' = ToRead(u) /\ ToWrite(u)' = ToWrite(u)
  BY <1>1, <1>2 DEF ToRead, ToWrite, Job, Unread, Told, sockets
<1>5. JobInv'
  BY <1>1, <1>2, <1>3 DEF JobInv, Working, sockets
<1>6. BusyInv'
  BY <1>1, <1>3 DEF BusyInv, Busy, Sending, Working, Unread, sockets, master
<1>7. RoundInv'
  BY <1>1, <1>3, <1>4, TurnRound
<1>8. ReadInv'
  BY <1>1, <1>3, <1>4 DEF ReadInv, ReadTurnOf, signals, medium
<1>9. WriteInv'
  BY <1>1, <1>3, <1>4, NextInSlaves DEF WriteInv, WriteTurnOf, Told, signals, medium
<1>10. OrderInv'
  BY <1>1, <1>3 DEF OrderInv, signals
<1> QED BY <1>5, <1>6, <1>7, <1>8, <1>9, <1>10

LEMMA TurnGetRequest ==
    ASSUME TurnInv, TypeInv', NEW s \in Slaves, GetRequest(s)
    PROVE  TurnInv'
<1> USE DEF TurnInv
<1>1. /\ pc[s] = "request" /\ pc' = [pc EXCEPT ![s] = "wait1"] /\ pc \in [Slaves -> SlaveStates]
      /\ chan[s] # << >> /\ cur' = [cur EXCEPT ![s] = Head(chan[s])]
      /\ chan' = [chan EXCEPT ![s] = Tail(@)]
      /\ cur \in [Slaves -> Nat \cup {-1}] /\ chan \in [Slaves -> Seq(Nat)]
      /\ UNCHANGED <<master, open, res, signals, term, medium>>
  BY DEF GetRequest, Goto, TypeInv, TypeOK
<1>2. \A u \in Slaves : Upcoming(u)' = Upcoming(u) /\ LastSent(u)' = LastSent(u)
  BY <1>1, Frame DEF master
<1>3. \A u \in Slaves : /\ Live(u)' = Live(u)
                        /\ Pending(u, "USR1")' = Pending(u, "USR1")
                        /\ Pending(u, "USR2")' = Pending(u, "USR2")
  BY <1>1 DEF Live, Pending, signals
<1>4. /\ cur'[s] = LastSent(s) /\ chan'[s] = << >> /\ Len(chan'[s]) = 0
      /\ \A u \in Slaves \ {s} : cur'[u] = cur[u] /\ chan'[u] = chan[u] /\ pc'[u] = pc[u]
  BY <1>1, HeadOfChan DEF Live
<1>5. \A u \in Slaves : ToRead(u)' = ToRead(u) /\ ToWrite(u)' = ToWrite(u)
  BY <1>1, <1>2, <1>4 DEF ToRead, ToWrite, Job, Unread, Told
<1>6. JobInv'
  BY <1>1, <1>2, <1>3, <1>4 DEF JobInv, Working
<1>7. BusyInv'
  BY <1>1, <1>3, <1>4 DEF BusyInv, Busy, Sending, Working, Unread, Live, master
<1>8. RoundInv'
  BY <1>1, <1>3, <1>5, TurnRound
<1>9. ReadInv'
  BY <1>1, <1>3, <1>4, <1>5 DEF ReadInv, ReadTurnOf, signals, medium
<1>10. WriteInv'
  BY <1>1, <1>3, <1>4, <1>5, NextInSlaves DEF WriteInv, WriteTurnOf, Told, signals, medium
<1>11. OrderInv'
  BY <1>1, <1>3, <1>4 DEF OrderInv, signals
<1> QED BY <1>6, <1>7, <1>8, <1>9, <1>10, <1>11

(* A slave that leaves: at the end of its socket, or by dumpabort. *)
LEMMA TurnLeave ==
    ASSUME TurnInv, TypeInv', NEW s \in Slaves, EndOfRequests(s) \/ QuitSlave(s)
    PROVE  TurnInv'
<1> USE DEF TurnInv
<1>1. /\ pc[s] \in {"request", "read"} /\ pc' = [pc EXCEPT ![s] = "exit"]
      /\ pc \in [Slaves -> SlaveStates]
      /\ UNCHANGED <<master, sockets, cur, signals, medium>>
  BY DEF EndOfRequests, QuitSlave, Goto, TypeInv, TypeOK
<1>2. \A u \in Slaves : Upcoming(u)' = Upcoming(u) /\ LastSent(u)' = LastSent(u)
  BY <1>1, Frame DEF master
<1>3. \A u \in Slaves : /\ Live(u)' => Live(u) /\ u # s /\ pc'[u] = pc[u]
                        /\ Pending(u, "USR1")' = Pending(u, "USR1")
                        /\ Pending(u, "USR2")' = Pending(u, "USR2")
  BY <1>1 DEF Live, Pending, signals
<1>4. \A u \in Slaves : Live(u)' => ToRead(u)' = ToRead(u) /\ ToWrite(u)' = ToWrite(u)
  BY <1>1, <1>2, <1>3 DEF ToRead, ToWrite, Job, sockets
<1>5. \A u \in Slaves : pc'[u] \in Told <=> pc[u] \in Told
  BY <1>1 DEF Told
<1>6. JobInv'
  BY <1>1, <1>2, <1>3 DEF JobInv, sockets
<1>7. BusyInv'
  BY <1>1, <1>3 DEF BusyInv, Busy, Sending, sockets, master
<1>8. RoundInv'
  BY <1>1, <1>3, <1>4, TurnRound
<1>9. ReadInv'
  BY <1>1, <1>3, <1>4 DEF ReadInv, ReadTurnOf, signals, medium
<1>10. WriteInv'
  BY <1>1, <1>3, <1>4, <1>5, NextInSlaves DEF WriteInv, WriteTurnOf, signals, medium
<1>11. OrderInv'
  BY <1>1, <1>3 DEF OrderInv, signals
<1> QED BY <1>6, <1>7, <1>8, <1>9, <1>10, <1>11

LEMMA TurnReply ==
    ASSUME TurnInv, TypeInv', NEW s \in Slaves, Reply(s)
    PROVE  TurnInv'
<1> USE DEF TurnInv
<1>1. /\ pc[s] = "reply" /\ pc' = [pc EXCEPT ![s] = "kick"] /\ pc \in [Slaves -> SlaveStates]
      /\ res' = [res EXCEPT ![s] = Append(@, tape[Len(tape)].out)]
      /\ res \in [Slaves -> Seq(Outcomes)] /\ res' \in [Slaves -> Seq(Outcomes)]
      /\ UNCHANGED <<master, chan, open, cur, signals, term, medium>>
  BY DEF Reply, Goto, TypeInv, TypeOK
<1>2. \A u \in Slaves : Upcoming(u)' = Upcoming(u) /\ LastSent(u)' = LastSent(u)
  BY <1>1, Frame DEF master
<1>3. \A u \in Slaves : /\ Live(u)' = Live(u)
                        /\ Pending(u, "USR1")' = Pending(u, "USR1")
                        /\ Pending(u, "USR2")' = Pending(u, "USR2")
  BY <1>1 DEF Live, Pending, signals
<1>4. \A u \in Slaves : ToRead(u)' = ToRead(u) /\ ToWrite(u)' = ToWrite(u)
  BY <1>1, <1>2 DEF ToRead, ToWrite, Job, Unread, Told
<1>5. JobInv'
  BY <1>1, <1>2, <1>3 DEF JobInv, Working
<1>6. /\ Len(res'[s]) <= 1 /\ sent[s] /\ chan[s] = << >>
      /\ \A u \in Slaves \ {s} : res'[u] = res[u] /\ pc'[u] = pc[u]
  <2>1. Live(s) /\ Busy(s) /\ chan[s] = << >>
    BY <1>1 DEF JobInv, Live, Busy, Working
  <2>2. res[s] = << >> /\ sent[s]
    BY <1>1, <2>1 DEF BusyInv, Unread
  <2>3. tape[Len(tape)].out \in Outcomes
    <3> DEFINE Writes == [req : Nat \cup {-1}, out : Outcomes]
    <3>1. tape \in Seq(Writes) /\ tape # << >>
      BY <1>1 DEF TypeInv, TypeOK
    <3>2. Len(tape) \in 1 .. Len(tape)
      BY <3>1, EmptySeq
    <3>3. tape[Len(tape)] \in Writes
      BY <3>1, <3>2, ElementOfSeq
    <3> QED BY <3>3
  <2>4. Len(res'[s]) = Len(res[s]) + 1
    BY <1>1, <2>3, AppendProperties
  <2>5. Len(res[s]) = 0
    BY <2>2, EmptySeq
  <2> QED BY <1>1, <2>1, <2>2, <2>4, <2>5
<1>7. BusyInv'
  BY <1>1, <1>3, <1>6 DEF BusyInv, Busy, Sending, Working, Unread, master
<1>8. RoundInv'
  BY <1>1, <1>3, <1>4, TurnRound
<1>9. ReadInv'
  BY <1>1, <1>3, <1>4 DEF ReadInv, ReadTurnOf, signals, medium
<1>10. WriteInv'
  BY <1>1, <1>3, <1>4, NextInSlaves DEF WriteInv, WriteTurnOf, Told, signals, medium
<1>11. OrderInv'
  BY <1>1, <1>3 DEF OrderInv, signals
<1> QED BY <1>5, <1>7, <1>8, <1>9, <1>10, <1>11

(* What a signal does to the slave it is sent to, and to the others. *)
LEMMA KillOthers ==
    ASSUME TypeInv, NEW t \in Slaves, NEW sig, Kill(t, sig)
    PROVE  \A u \in Slaves : u # t =>
               /\ caught1'[u] = caught1[u] /\ caught2'[u] = caught2[u]
               /\ pend'[u] = pend[u]
BY DEF Kill, signals, TypeInv, TypeOK

LEMMA AppendFacts ==
    ASSUME NEW q \in Seq(Signals), NEW sig \in Signals
    PROVE  /\ Len(q) \in Nat /\ DOMAIN q = 1 .. Len(q)
           /\ DOMAIN Append(q, sig) = 1 .. Len(q) + 1
           /\ Append(q, sig)[Len(q) + 1] = sig
           /\ \A i \in 1 .. Len(q) : Append(q, sig)[i] = q[i]
BY AppendProperties, LenProperties

Has(q, sig) == \E i \in DOMAIN q : q[i] = sig

LEMMA AppendHas ==
    ASSUME NEW q \in Seq(Signals), NEW sig \in Signals
    PROVE  Has(Append(q, sig), sig)
BY AppendFacts DEF Has

LEMMA AppendKeeps ==
    ASSUME NEW q \in Seq(Signals), NEW sig \in Signals, NEW x \in Signals, x # sig
    PROVE  Has(Append(q, sig), x) <=> Has(q, x)
BY AppendFacts DEF Has

LEMMA AppendOrder ==
    ASSUME NEW q \in Seq(Signals), NEW sig \in Signals,
           Append(q, sig) = <<"USR2", "USR1">>
    PROVE  sig = "USR1" /\ Has(q, "USR2")
<1>1. DOMAIN Append(q, sig) = 1 .. 2 /\ Append(q, sig)[1] = "USR2" /\ Append(q, sig)[2] = "USR1"
  OBVIOUS
<1>2. Len(q) \in Nat /\ 1 .. Len(q) + 1 = 1 .. 2
  BY <1>1, AppendFacts
<1>3. Len(q) = 1
  <2>1. \A n \in Nat : 1 .. n + 1 = 1 .. 2 => n = 1
    OBVIOUS
  <2> QED BY <1>2, <2>1
<1>4. q[1] = "USR2" /\ sig = "USR1"
  <2>1. Len(q) + 1 = 2 /\ 1 \in 1 .. Len(q)
    BY <1>3
  <2>2. Append(q, sig)[Len(q) + 1] = sig /\ Append(q, sig)[1] = q[1]
    BY <2>1, AppendFacts
  <2> QED BY <1>1, <2>1, <2>2 DEF Signals
<1> QED BY <1>3, <1>4, AppendFacts DEF Has

LEMMA KillRead ==
    ASSUME TypeInv, NEW t \in Slaves, Live(t), Kill(t, "USR1")
    PROVE  /\ caught2'[t] = caught2[t]
           /\ Pending(t, "USR2")' <=> Pending(t, "USR2")
           /\ IF pc[t] = "boot"
              THEN caught1'[t] /\ pend'[t] = pend[t]
              ELSE caught1'[t] = caught1[t] /\ Pending(t, "USR1")'
           /\ ~Pending(t, "USR2") => pend'[t] # <<"USR2", "USR1">>
<1>1. /\ caught1 \in [Slaves -> BOOLEAN] /\ caught2 \in [Slaves -> BOOLEAN]
      /\ pend \in [Slaves -> Seq(Signals)] /\ pend[t] \in Seq(Signals)
      /\ "USR1" \in Signals
  BY DEF TypeInv, TypeOK, Signals
<1>2. pend[t] = <<"USR2", "USR1">> => Pending(t, "USR2")
  <2> SUFFICES ASSUME pend[t] = <<"USR2", "USR1">> PROVE Pending(t, "USR2")
    OBVIOUS
  <2>1. Len(pend[t]) = 2 /\ pend[t][1] = "USR2"
    OBVIOUS
  <2>2. DOMAIN pend[t] = 1 .. 2
    BY <1>1, <2>1, LenProperties
  <2> QED BY <2>1, <2>2 DEF Pending
<1>3. CASE pc[t] = "boot"
  BY <1>1, <1>2, <1>3 DEF Kill, Pending
<1>4. CASE pc[t] # "boot"
  <2>1. /\ UNCHANGED <<caught1, caught2>>
        /\ pend' = [pend EXCEPT ![t] = IF Pending(t, "USR1") THEN @ ELSE Append(@, "USR1")]
    BY <1>4 DEF Kill, Live
  <2>2. CASE Pending(t, "USR1")
    <3>1. pend'[t] = pend[t]
      BY <1>1, <2>1, <2>2
    <3> QED BY <1>2, <1>4, <2>1, <2>2, <3>1 DEF Pending
  <2>3. CASE ~Pending(t, "USR1")
    <3>1. pend'[t] = Append(pend[t], "USR1")
      BY <1>1, <2>1, <2>3
    <3>4. Has(pend'[t], "USR1") /\ (Has(pend'[t], "USR2") <=> Has(pend[t], "USR2"))
      BY <1>1, <3>1, AppendHas, AppendKeeps DEF Signals
    <3>2. Pending(t, "USR1")' /\ (Pending(t, "USR2")' <=> Pending(t, "USR2"))
      BY <3>4 DEF Pending, Has
    <3>3. pend'[t] = <<"USR2", "USR1">> => Pending(t, "USR2")
      BY <1>1, <3>1, AppendOrder DEF Pending, Has
    <3> QED BY <1>4, <2>1, <3>2, <3>3
  <2> QED BY <2>2, <2>3
<1> QED BY <1>3, <1>4

LEMMA KillWrite ==
    ASSUME TypeInv, NEW t \in Slaves, Live(t), Kill(t, "USR2")
    PROVE  /\ caught1'[t] = caught1[t]
           /\ Pending(t, "USR1")' <=> Pending(t, "USR1")
           /\ IF pc[t] = "boot"
              THEN caught2'[t] /\ pend'[t] = pend[t]
              ELSE caught2'[t] = caught2[t] /\ Pending(t, "USR2")'
           /\ pend'[t] = <<"USR2", "USR1">> => pend[t] = <<"USR2", "USR1">>
<1>1. /\ caught1 \in [Slaves -> BOOLEAN] /\ caught2 \in [Slaves -> BOOLEAN]
      /\ pend \in [Slaves -> Seq(Signals)] /\ pend[t] \in Seq(Signals)
      /\ "USR2" \in Signals
  BY DEF TypeInv, TypeOK, Signals
<1>3. CASE pc[t] = "boot"
  BY <1>1, <1>3 DEF Kill, Pending
<1>4. CASE pc[t] # "boot"
  <2>1. /\ UNCHANGED <<caught1, caught2>>
        /\ pend' = [pend EXCEPT ![t] = IF Pending(t, "USR2") THEN @ ELSE Append(@, "USR2")]
    BY <1>4 DEF Kill, Live
  <2>2. CASE Pending(t, "USR2")
    <3>1. pend'[t] = pend[t]
      BY <1>1, <2>1, <2>2
    <3> QED BY <1>4, <2>1, <2>2, <3>1 DEF Pending
  <2>3. CASE ~Pending(t, "USR2")
    <3>1. pend'[t] = Append(pend[t], "USR2")
      BY <1>1, <2>1, <2>3
    <3>4. Has(pend'[t], "USR2") /\ (Has(pend'[t], "USR1") <=> Has(pend[t], "USR1"))
      BY <1>1, <3>1, AppendHas, AppendKeeps DEF Signals
    <3>2. Pending(t, "USR2")' /\ (Pending(t, "USR1")' <=> Pending(t, "USR1"))
      BY <3>4 DEF Pending, Has
    <3>3. pend'[t] # <<"USR2", "USR1">>
      BY <1>1, <3>1, AppendOrder
    <3> QED BY <1>4, <2>1, <3>2, <3>3
  <2> QED BY <2>2, <2>3
<1> QED BY <1>3, <1>4

LEMMA PendingSome ==
    ASSUME TypeInv, NEW s \in Slaves, pend[s] # << >>
    PROVE  Pending(s, "USR1") \/ Pending(s, "USR2")
<1>1. pend[s] \in Seq(Signals)
  BY DEF TypeInv, TypeOK
<1>2. \A q \in Seq(Signals) : q # << >> => Len(q) \in Nat \ {0}
  BY EmptySeq
<1>3. Len(pend[s]) \in Nat \ {0} /\ DOMAIN pend[s] = 1 .. Len(pend[s])
  BY <1>1, <1>2, LenProperties
<1>4. 1 \in 1 .. Len(pend[s])
  BY <1>3
<1>5. pend[s][1] \in Signals
  BY <1>1, <1>4, ElementOfSeq
<1> QED BY <1>3, <1>4, <1>5 DEF Pending, Signals

LEMMA PendingNone ==
    ASSUME NEW s, pend[s] = << >>
    PROVE  ~Pending(s, "USR1") /\ ~Pending(s, "USR2") /\ pend[s] # <<"USR2", "USR1">>
BY DEF Pending

LEMMA PendingBoth ==
    ASSUME NEW s, pend[s] = <<"USR2", "USR1">>
    PROVE  Pending(s, "USR1") /\ Pending(s, "USR2")
<1>1. DOMAIN pend[s] = 1 .. 2
  BY SMTT(60)
<1>2. pend[s][1] = "USR2" /\ pend[s][2] = "USR1"
  BY SMTT(60)
<1>3. 1 \in 1 .. 2 /\ 2 \in 1 .. 2
  BY SMTT(60)
<1> QED BY <1>1, <1>2, <1>3 DEF Pending

LEMMA TurnLockPoint1 ==
    ASSUME TurnInv, TypeInv', NEW s \in Slaves, LockPoint1(s)
    PROVE  TurnInv'
<1> USE DEF TurnInv
<1>a. /\ pc \in [Slaves -> SlaveStates] /\ caught1 \in [Slaves -> BOOLEAN]
      /\ caught2 \in [Slaves -> BOOLEAN] /\ pend \in [Slaves -> Seq(Signals)]
  BY DEF TypeInv, TypeOK
<1>b. /\ pc[s] \in {"wait1", "susp1"}
      /\ \E to \in {"susp1", "read"} : pc' = [pc EXCEPT ![s] = to]
      /\ UNCHANGED <<master, sockets, cur, medium>>
  BY DEF LockPoint1, Goto
<1>c. pc'[s] \in {"susp1", "read"} /\ \A u \in Slaves \ {s} : pc'[u] = pc[u]
  BY <1>a, <1>b
<1>d. \A u \in Slaves \ {s} : /\ caught1'[u] = caught1[u] /\ caught2'[u] = caught2[u]
                            /\ pend'[u] = pend[u]
  BY <1>a DEF LockPoint1, Wake1, signals
<1>1. /\ pc[s] \in {"wait1", "susp1"} /\ pc'[s] \in {"susp1", "read"}
      /\ \A u \in Slaves \ {s} : /\ pc'[u] = pc[u] /\ caught1'[u] = caught1[u]
                                 /\ caught2'[u] = caught2[u] /\ pend'[u] = pend[u]
      /\ UNCHANGED <<master, sockets, cur, medium>>
  BY <1>b, <1>c, <1>d
<1>2. \/ /\ ~caught1[s] /\ pc'[s] = "susp1"
         /\ caught1'[s] = caught1[s] /\ caught2'[s] = caught2[s] /\ pend'[s] = pend[s]
      \/ /\ caught1[s] /\ pc'[s] = "read"
         /\ ~caught1'[s] /\ caught2'[s] = caught2[s] /\ pend'[s] = pend[s]
      \/ /\ pc[s] = "susp1" /\ pend[s] # << >> /\ pc'[s] = "read"
         /\ ~caught1'[s] /\ pend'[s] = << >>
         /\ caught2'[s] <=> caught2[s] \/ Pending(s, "USR2")
  <2>1. CASE ~caught1[s] /\ Goto(s, "wait1", "susp1") /\ UNCHANGED signals
    BY <1>a, <2>1 DEF Goto, signals
  <2>2. CASE /\ caught1[s] /\ Goto(s, "wait1", "read")
             /\ caught1' = [caught1 EXCEPT ![s] = FALSE] /\ UNCHANGED <<caught2, pend>>
    BY <1>a, <2>2 DEF Goto
  <2>3. CASE Wake1(s) /\ Goto(s, "susp1", "read")
    BY <1>a, <2>3, Zenon DEF Goto, Wake1
  <2> QED BY <2>1, <2>2, <2>3 DEF LockPoint1
<1>3. \A u \in Slaves : Upcoming(u)' = Upcoming(u) /\ LastSent(u)' = LastSent(u)
  BY <1>1, Frame DEF master
<1>4. /\ \A u \in Slaves \ {s} : /\ Pending(u, "USR1")' <=> Pending(u, "USR1")
                                 /\ Pending(u, "USR2")' <=> Pending(u, "USR2")
      /\ \A u \in Slaves : Live(u)' = Live(u)
  BY <1>1 DEF Live, Pending
<1>5. \A u \in Slaves : ToRead(u)' = ToRead(u) /\ ToWrite(u)' = ToWrite(u)
  <2>1. ToRead(s)' = ToRead(s) /\ ToWrite(s)' = ToWrite(s)
    BY <1>1 DEF ToRead, ToWrite, Job, Unread, Told
  <2> QED BY <1>1, <1>3, <2>1 DEF ToRead, ToWrite, Job, sockets
<1>6. JobInv'
  BY <1>1, <1>3, <1>4 DEF JobInv, Working, sockets
<1>7. BusyInv'
  BY <1>1, <1>4 DEF BusyInv, Busy, Sending, Working, Unread, sockets, master
<1>8. RoundInv'
  BY <1>1, <1>4, <1>5, TurnRound
<1>9. /\ Live(s) /\ ToRead(s) = cur[s] /\ ToWrite(s) = cur[s]
      /\ nread \in Nat /\ Len(tape) \in Nat /\ cur[s] \in Int
      /\ nread <= cur[s] /\ Len(tape) <= nread
  <2>1. Live(s) /\ ToRead(s) = cur[s] /\ ToWrite(s) = cur[s]
    BY <1>1 DEF ToRead, ToWrite, Job, Unread, Told, Live
  <2>2. nread \in Nat /\ cur[s] \in Nat \cup {-1}
    BY DEF TypeInv, TypeOK
  <2>3. Len(tape) \in Nat
    BY LenProperties DEF TypeInv, TypeOK
  <2> QED BY <2>1, <2>2, <2>3 DEF RoundInv
<1>10. pend[s] # << >> /\ pc[s] = "susp1" => ToRead(s) = nread
  <2>1. CASE Pending(s, "USR1")
    BY <2>1, <1>9 DEF ReadInv, ReadTurnOf
  <2>2. CASE Pending(s, "USR2")
    <3>1. cur[s] = Len(tape)
      BY <2>2, <1>9 DEF WriteInv, WriteTurnOf
    <3> QED BY <3>1, <1>9
  <2> QED BY <2>1, <2>2, PendingSome
<1>11. /\ pend'[s] = << >> => ~Pending(s, "USR1")' /\ ~Pending(s, "USR2")'
                              /\ pend'[s] # <<"USR2", "USR1">>
       /\ pend'[s] = pend[s] => /\ Pending(s, "USR1")' <=> Pending(s, "USR1")
                                /\ Pending(s, "USR2")' <=> Pending(s, "USR2")
  BY DEF Pending
<1>12. ReadInv'
  <2> SUFFICES ASSUME NEW u \in Slaves, Live(u)
               PROVE  /\ ReadTurnOf(u)' => ToRead(u)' = nread'
                      /\ ~(caught1'[u] /\ Pending(u, "USR1")')
                      /\ pc'[u] = "read" => ~caught1'[u] /\ ~Pending(u, "USR1")'
                      /\ pc'[u] = "susp1" => ~caught1'[u]
    BY <1>4 DEF ReadInv
  <2>1. CASE u # s
    BY <2>1, <1>1, <1>4, <1>5 DEF ReadInv, ReadTurnOf, medium
  <2>2. CASE u = s
    BY <2>2, <1>1, <1>2, <1>5, <1>10, <1>11 DEF ReadInv, ReadTurnOf, medium
  <2> QED BY <2>1, <2>2
<1>13. \A u \in Slaves : WriteTurnOf(u)' <=> WriteTurnOf(u)
  <2>1. WriteTurnOf(s)' <=> WriteTurnOf(s)
    BY <1>1, <1>2, <1>11 DEF WriteTurnOf
  <2> QED BY <1>1, <1>4, <2>1 DEF WriteTurnOf
<1>14. \A u \in Slaves : pc'[u] \in Told <=> pc[u] \in Told
  BY <1>1 DEF Told
<1>15. WriteInv'
  <2>1. \A u \in Slaves : Live(u) => /\ ~(caught2'[u] /\ Pending(u, "USR2")')
                                     /\ pc'[u] = "write" => ~caught2'[u] /\ ~Pending(u, "USR2")'
                                     /\ pc'[u] = "susp2" => ~caught2'[u]
    <3>1. ~(caught2'[s] /\ Pending(s, "USR2")')
      BY <1>2, <1>9, <1>11 DEF WriteInv
    <3> QED BY <3>1, <1>1, <1>4 DEF WriteInv
  <2> QED BY <2>1, <1>1, <1>4, <1>5, <1>13, <1>14, NextInSlaves DEF WriteInv, medium
<1>16. OrderInv'
  BY <1>1, <1>2, <1>4, <1>11 DEF OrderInv
<1> QED BY <1>6, <1>7, <1>8, <1>12, <1>15, <1>16

LEMMA TurnLockPoint2 ==
    ASSUME TurnInv, TypeInv', NEW s \in Slaves, LockPoint2(s)
    PROVE  TurnInv'
<1> USE DEF TurnInv
<1>a. /\ pc \in [Slaves -> SlaveStates] /\ caught1 \in [Slaves -> BOOLEAN]
      /\ caught2 \in [Slaves -> BOOLEAN] /\ pend \in [Slaves -> Seq(Signals)]
  BY DEF TypeInv, TypeOK
<1>b. /\ pc[s] \in {"wait2", "susp2"}
      /\ \E to \in {"susp2", "write"} : pc' = [pc EXCEPT ![s] = to]
      /\ UNCHANGED <<master, sockets, cur, medium>>
  BY DEF LockPoint2, Goto
<1>c. pc'[s] \in {"susp2", "write"} /\ \A u \in Slaves \ {s} : pc'[u] = pc[u]
  BY <1>a, <1>b
<1>d. \A u \in Slaves \ {s} : /\ caught1'[u] = caught1[u] /\ caught2'[u] = caught2[u]
                            /\ pend'[u] = pend[u]
  BY <1>a DEF LockPoint2, Wake2, signals
<1>1. /\ pc[s] \in {"wait2", "susp2"} /\ pc'[s] \in {"susp2", "write"}
      /\ \A u \in Slaves \ {s} : /\ pc'[u] = pc[u] /\ caught1'[u] = caught1[u]
                                 /\ caught2'[u] = caught2[u] /\ pend'[u] = pend[u]
      /\ UNCHANGED <<master, sockets, cur, medium>>
  BY <1>b, <1>c, <1>d
<1>2. \/ /\ ~caught2[s] /\ pc[s] = "wait2" /\ pc'[s] = "susp2"
         /\ caught1'[s] = caught1[s] /\ caught2'[s] = caught2[s] /\ pend'[s] = pend[s]
      \/ /\ caught2[s] /\ pc'[s] = "write"
         /\ ~caught2'[s] /\ caught1'[s] = caught1[s] /\ pend'[s] = pend[s]
      \/ /\ pc[s] = "susp2" /\ pend[s] # << >> /\ pc'[s] = "write"
         /\ ~caught2'[s] /\ pend'[s] = << >>
         /\ caught1'[s] => caught1[s] \/ Pending(s, "USR1")
  <2>1. CASE ~caught2[s] /\ Goto(s, "wait2", "susp2") /\ UNCHANGED signals
    BY <1>a, <2>1 DEF Goto, signals
  <2>2. CASE /\ caught2[s] /\ Goto(s, "wait2", "write")
             /\ caught2' = [caught2 EXCEPT ![s] = FALSE] /\ UNCHANGED <<caught1, pend>>
    BY <1>a, <2>2 DEF Goto
  <2>3. CASE Wake2(s) /\ Goto(s, "susp2", "write")
    BY <1>a, <2>3, Zenon DEF Goto, Wake2
  <2> QED BY <2>1, <2>2, <2>3 DEF LockPoint2
<1>3. \A u \in Slaves : Upcoming(u)' = Upcoming(u) /\ LastSent(u)' = LastSent(u)
  BY <1>1, Frame DEF master
<1>4. /\ \A u \in Slaves \ {s} : /\ Pending(u, "USR1")' <=> Pending(u, "USR1")
                                 /\ Pending(u, "USR2")' <=> Pending(u, "USR2")
      /\ \A u \in Slaves : Live(u)' = Live(u)
      /\ Live(s)
  BY <1>1 DEF Live, Pending
<1>5. \A u \in Slaves : ToRead(u)' = ToRead(u) /\ ToWrite(u)' = ToWrite(u)
  <2>1. ToRead(s)' = ToRead(s) /\ ToWrite(s)' = ToWrite(s)
    BY <1>1 DEF ToRead, ToWrite, Job, Unread, Told
  <2> QED BY <1>1, <1>3, <2>1 DEF ToRead, ToWrite, Job, sockets
<1>6. JobInv'
  BY <1>1, <1>3, <1>4 DEF JobInv, Working, sockets
<1>7. BusyInv'
  BY <1>1, <1>4 DEF BusyInv, Busy, Sending, Working, Unread, sockets, master
<1>8. RoundInv'
  BY <1>1, <1>4, <1>5, TurnRound
<1>9. pend[s] # << >> /\ pc[s] = "susp2" => Pending(s, "USR2")
  BY <1>4, PendingSome DEF OrderInv, WriteInv
<1>10. /\ pend'[s] = << >> => ~Pending(s, "USR1")' /\ ~Pending(s, "USR2")'
                              /\ pend'[s] # <<"USR2", "USR1">>
       /\ pend'[s] = pend[s] => /\ Pending(s, "USR1")' <=> Pending(s, "USR1")
                                /\ Pending(s, "USR2")' <=> Pending(s, "USR2")
  BY DEF Pending
<1>11. ReadInv'
  <2> SUFFICES ASSUME NEW u \in Slaves, Live(u)
               PROVE  /\ ReadTurnOf(u)' => ToRead(u)' = nread'
                      /\ ~(caught1'[u] /\ Pending(u, "USR1")')
                      /\ pc'[u] = "read" => ~caught1'[u] /\ ~Pending(u, "USR1")'
                      /\ pc'[u] = "susp1" => ~caught1'[u]
    BY <1>4 DEF ReadInv
  <2>1. CASE u # s
    BY <2>1, <1>1, <1>4, <1>5 DEF ReadInv, ReadTurnOf, medium
  <2>2. CASE u = s
    BY <2>2, <1>1, <1>2, <1>5, <1>10 DEF ReadInv, ReadTurnOf, medium
  <2> QED BY <2>1, <2>2
<1>12. \A u \in Slaves : WriteTurnOf(u)' <=> WriteTurnOf(u)
  <2>1. WriteTurnOf(s)' <=> WriteTurnOf(s)
    BY <1>1, <1>2, <1>9, <1>10 DEF WriteTurnOf
  <2> QED BY <1>1, <1>4, <2>1 DEF WriteTurnOf
<1>13. \A u \in Slaves : pc'[u] \in Told <=> pc[u] \in Told
  BY <1>1 DEF Told
<1>14. WriteInv'
  <2>1. \A u \in Slaves : Live(u) => /\ ~(caught2'[u] /\ Pending(u, "USR2")')
                                     /\ pc'[u] = "write" => ~caught2'[u] /\ ~Pending(u, "USR2")'
                                     /\ pc'[u] = "susp2" => ~caught2'[u]
    <3>1. /\ ~(caught2'[s] /\ Pending(s, "USR2")')
          /\ pc'[s] = "write" => ~caught2'[s] /\ ~Pending(s, "USR2")'
          /\ pc'[s] = "susp2" => ~caught2'[s]
      BY <1>1, <1>2, <1>4, <1>10 DEF WriteInv
    <3> QED BY <3>1, <1>1, <1>4 DEF WriteInv
  <2> QED BY <2>1, <1>1, <1>4, <1>5, <1>12, <1>13, NextInSlaves DEF WriteInv, medium
<1>15. OrderInv'
  <2>1. pc'[s] = "write" => pend'[s] # <<"USR2", "USR1">>
    BY <1>2, <1>4, <1>10, PendingBoth DEF WriteInv
  <2>2. pc'[s] = "susp2" /\ Pending(s, "USR1")' => caught2'[s] \/ Pending(s, "USR2")'
    BY <1>1, <1>2, <1>4, <1>10 DEF OrderInv
  <2> QED BY <2>1, <2>2, <1>1, <1>4 DEF OrderInv
<1> QED BY <1>6, <1>7, <1>8, <1>11, <1>14, <1>15

LEMMA TurnReadBlocks ==
    ASSUME TurnInv, TypeInv', NEW s \in Slaves, ReadBlocks(s)
    PROVE  TurnInv'
<1> USE DEF TurnInv
<1> DEFINE t == Next(s)
<1>1. /\ pc[s] = "read" /\ pc'[s] = "wait2" /\ \A u \in Slaves \ {s} : pc'[u] = pc[u]
      /\ ~Sending(s) /\ nread' = nread + 1 /\ nread \in Nat /\ Len(tape) \in Nat
      /\ Kill(t, "USR1") /\ t \in Slaves /\ t # s
      /\ UNCHANGED <<master, sockets, cur, term, tape>>
  BY NextInSlaves, NextOther, LenProperties
     DEF ReadBlocks, Goto, Sending, TypeInv, TypeOK
<1>2. \A u \in Slaves : Upcoming(u)' = Upcoming(u) /\ LastSent(u)' = LastSent(u)
  BY <1>1, Frame DEF master
<1>3. /\ \A u \in Slaves \ {t} : /\ caught1'[u] = caught1[u] /\ caught2'[u] = caught2[u]
                                 /\ pend'[u] = pend[u]
                                 /\ Pending(u, "USR1")' <=> Pending(u, "USR1")
                                 /\ Pending(u, "USR2")' <=> Pending(u, "USR2")
      /\ \A u \in Slaves : Live(u)' = Live(u)
      /\ Live(s)
  BY <1>1, KillOthers DEF Live, Pending
<1>4. /\ \A u \in Slaves \ {s} : ToRead(u)' = ToRead(u)
      /\ \A u \in Slaves : ToWrite(u)' = ToWrite(u)
      /\ ToRead(s) = cur[s] /\ ToWrite(s) = cur[s] /\ ToRead(s)' = cur[s] + N
  <2>1. /\ ToRead(s) = cur[s] /\ ToWrite(s) = cur[s]
        /\ ToRead(s)' = cur'[s] + N /\ ToWrite(s)' = cur'[s] /\ cur'[s] = cur[s]
    BY <1>1 DEF ToRead, ToWrite, Job, Unread, Told
  <2> QED BY <1>1, <1>2, <2>1 DEF ToRead, ToWrite, Job, sockets
<1>5. cur[s] = nread
  BY <1>1, <1>3, <1>4 DEF ReadInv, ReadTurnOf
<1>6. Live(t) => ToRead(t) = nread + 1 /\ ~ReadTurnOf(t)
  <2>1. Live(t) => ToRead(t) = nread + 1
    BY <1>3, <1>4, <1>5, NextReads
  <2> QED BY <1>1, <2>1 DEF ReadInv
<1>7. \A u \in Slaves : Live(u) /\ u # s => ToRead(u) # nread /\ ~ReadTurnOf(u)
  BY <1>3, <1>4, <1>5, Apart DEF ReadInv
<1>8. JobInv'
  BY <1>1, <1>2, <1>3 DEF JobInv, Working, sockets
<1>9. BusyInv'
  <2>1. \A u \in Slaves : /\ Busy(u)' => Busy(u)
                          /\ Sending(u)' <=> Sending(u)
                          /\ Sending(u) => u # s
    BY <1>1 DEF Busy, Sending, Working, sockets, master
  <2> QED BY <1>1, <1>3, <2>1 DEF BusyInv, sockets, master
<1>10. RoundInv'
  <2>1. Len(tape)' <= nread'
    BY <1>1 DEF RoundInv
  <2>2. \A u \in Slaves : Live(u) => nread' <= ToRead(u)' /\ ToRead(u)' < nread' + N
    <3> SUFFICES ASSUME NEW u \in Slaves, Live(u)
                 PROVE  nread + 1 <= ToRead(u)' /\ ToRead(u)' < nread + 1 + N
      BY <1>1
    <3>1. CASE u = s
      BY <3>1, <1>1, <1>4, <1>5, NAssumption
    <3>2. CASE u # s
      <4>1. nread <= ToRead(u) /\ ToRead(u) < nread + N /\ ToRead(u) # nread
        BY <3>2, <1>7 DEF RoundInv
      <4>2. ToRead(u) \in Int
        BY Pointers, UpcomingInt, NAssumption
      <4> QED BY <4>1, <4>2, <3>2, <1>1, <1>4, NAssumption
    <3> QED BY <3>1, <3>2
  <2> QED BY <2>1, <2>2, <1>1, <1>3, <1>4 DEF RoundInv
<1>11. ReadInv'
  <2> SUFFICES ASSUME NEW u \in Slaves, Live(u)
               PROVE  /\ ReadTurnOf(u)' => ToRead(u)' = nread'
                      /\ ~(caught1'[u] /\ Pending(u, "USR1")')
                      /\ pc'[u] = "read" => ~caught1'[u] /\ ~Pending(u, "USR1")'
                      /\ pc'[u] = "susp1" => ~caught1'[u]
    BY <1>3 DEF ReadInv
  <2>1. CASE u = s
    BY <2>1, <1>1, <1>3 DEF ReadInv, ReadTurnOf
  <2>2. CASE u = t
    <3>1. ToRead(u)' = nread' /\ ~ReadTurnOf(t)
      BY <2>2, <1>1, <1>4, <1>6
    <3>2. IF pc[t] = "boot" THEN pend'[t] = pend[t]
          ELSE caught1'[t] = caught1[t]
      BY <2>2, <1>1, KillRead
    <3> QED BY <2>2, <3>1, <3>2, <1>1 DEF ReadTurnOf, Pending
  <2>3. CASE u # s /\ u # t
    BY <2>3, <1>1, <1>3, <1>7 DEF ReadInv, ReadTurnOf
  <2> QED BY <2>1, <2>2, <2>3
<1>12. \A u \in Slaves : Live(u) => /\ WriteTurnOf(u)' <=> WriteTurnOf(u)
                                    /\ caught2'[u] = caught2[u]
                                    /\ Pending(u, "USR2")' <=> Pending(u, "USR2")
  <2>1. Live(t) => /\ caught2'[t] = caught2[t]
                   /\ Pending(t, "USR2")' <=> Pending(t, "USR2")
    BY <1>1, KillRead
  <2> QED BY <1>1, <1>3, <2>1 DEF WriteTurnOf
<1>13. WriteInv'
  <2>1. \A u \in Slaves : /\ pc'[u] \in Told <=> pc[u] \in Told
                          /\ pc'[u] = "write" <=> pc[u] = "write"
                          /\ pc'[u] = "susp2" <=> pc[u] = "susp2"
    BY <1>1 DEF Told
  <2> QED BY <2>1, <1>1, <1>3, <1>4, <1>12, NextInSlaves DEF WriteInv
<1>14. OrderInv'
  <2> SUFFICES ASSUME NEW u \in Slaves, Live(u)
               PROVE  /\ pc'[u] \in {"wait2", "susp2"} /\ Pending(u, "USR1")' =>
                            caught2'[u] \/ Pending(u, "USR2")'
                      /\ pc'[u] \notin {"wait2", "susp2"} => pend'[u] # <<"USR2", "USR1">>
    BY <1>3 DEF OrderInv
  <2>1. CASE u = s
    BY <2>1, <1>1, <1>3 DEF ReadInv
  <2>2. CASE u = t
    <3>1. /\ Live(t) /\ pc'[t] = pc[t] /\ ToRead(t) = nread + 1
          /\ ToWrite(s) = nread /\ Len(tape) <= nread
      BY <2>2, <1>1, <1>4, <1>5, <1>6 DEF RoundInv
    <3>2. CASE pc[t] \in {"wait2", "susp2"}
      <4>1. ToWrite(t) = cur[t] /\ ToRead(t) = cur[t] + N
        BY <3>2 DEF ToRead, ToWrite, Job, Unread, Told
      <4>5. cur[t] \in Nat \cup {-1}
        BY <1>1 DEF TypeInv, TypeOK
      <4>2. Len(tape) <= ToWrite(t) /\ ToWrite(s) < Len(tape) + N
        BY <3>1, <1>1, <1>3 DEF RoundInv
      <4>3. ToWrite(t) = Len(tape)
        BY <4>1, <4>2, <4>5, <3>1, <1>1, NAssumption
      <4>4. WriteTurnOf(t)
        BY <4>3, <3>1, <1>1 DEF WriteInv, Told
      <4> QED BY <4>4, <3>2, <2>2, <3>1, <1>12 DEF WriteTurnOf
    <3>3. CASE pc[t] \notin {"wait2", "susp2"}
      <4>1. ~Pending(t, "USR2")
        <5> SUFFICES ASSUME Pending(t, "USR2") PROVE FALSE
          OBVIOUS
        <5>1. pc[t] # "write" /\ ToWrite(t) = Len(tape)
          BY <3>1, <1>1 DEF WriteInv, WriteTurnOf
        <5>2. pc[t] \in Unread \cup Told
          BY <3>1, <3>3, <5>1, <1>1 DEF Live, Unread, Told, TypeInv, TypeOK, SlaveStates
        <5>3. ToWrite(t) = ToRead(t)
          BY <5>2 DEF ToRead, ToWrite, Unread, Told
        <5> QED BY <5>1, <5>3, <3>1, <1>1
      <4>2. pend'[t] # <<"USR2", "USR1">>
        BY <4>1, <3>1, <1>1, KillRead
      <4> QED BY <4>2, <3>1, <3>3, <2>2
    <3> QED BY <3>2, <3>3
  <2>3. CASE u # s /\ u # t
    BY <2>3, <1>1, <1>3 DEF OrderInv
  <2> QED BY <2>1, <2>2, <2>3
<1> QED BY <1>8, <1>9, <1>10, <1>11, <1>13, <1>14

LEMMA WritesBefore ==
    ASSUME TypeInv, JobInv, NEW s \in Slaves, NEW u \in Slaves, Live(s), Live(u),
           ToWrite(u) = ToWrite(s) + N - 1
    PROVE  s = Next(u)
<1>1. ToWrite(u) \in {Upcoming(u), Upcoming(u) - N} /\ ToWrite(s) \in {Upcoming(s), Upcoming(s) - N}
  BY Pointers
<1>2. Upcoming(s) \in Int /\ Upcoming(u) \in Int
  BY UpcomingInt
<1>3. CASE u # s
  <2>1. Upcoming(s) - Upcoming(u) < N /\ Upcoming(u) - Upcoming(s) < N
    BY <1>3, UpcomingApart
  <2>2. Upcoming(s) = Upcoming(u) + 1 \/ Upcoming(s) = Upcoming(u) + 1 - N
    BY <1>1, <1>2, <2>1, NAssumption
  <2> QED BY <2>2, UpcomingIsNext
<1>4. CASE u = s
  BY <1>1, <1>2, <1>4, NAssumption
<1> QED BY <1>3, <1>4

LEMMA WritesFirst ==
    ASSUME TypeInv, JobInv, RoundInv, NEW s \in Slaves, Live(s), Live(Next(s)),
           ToWrite(s) = Len(tape) + N - 1
    PROVE  ToWrite(Next(s)) = Len(tape)
<1>1. Len(tape) <= ToWrite(Next(s)) /\ ToWrite(Next(s)) < Len(tape) + N
  BY NextInSlaves DEF RoundInv
<1>2. Len(tape) \in Nat
  BY LenProperties DEF TypeInv, TypeOK
<1>3. ToWrite(Next(s)) \in {Upcoming(Next(s)), Upcoming(Next(s)) - N}
  BY Pointers, NextInSlaves
<1>4. ToWrite(s) \in {Upcoming(s), Upcoming(s) - N}
  BY Pointers
<1>5. Upcoming(s) \in Int /\ Upcoming(Next(s)) \in Int
  BY UpcomingInt, NextInSlaves
<1> QED BY <1>1, <1>2, <1>3, <1>4, <1>5, UpcomingNext, NAssumption

LEMMA TurnWriteTape ==
    ASSUME TurnInv, TypeInv', NEW s \in Slaves, WriteTape(s)
    PROVE  TurnInv'
<1> USE DEF TurnInv
<1>1. /\ pc[s] = "write" /\ pc'[s] = "reply" /\ \A u \in Slaves \ {s} : pc'[u] = pc[u]
      /\ UNCHANGED <<master, sockets, cur, signals, term, nread>>
  BY DEF WriteTape, Goto, TypeInv, TypeOK
<1>2. Len(tape') = Len(tape) + 1 /\ Len(tape) \in Nat /\ nread \in Nat
  <2> DEFINE Writes == [req : Nat \cup {-1}, out : Outcomes]
  <2>1. PICK out \in Outcomes : tape' = Append(tape, [req |-> cur[s], out |-> out])
    BY DEF WriteTape
  <2>2. tape \in Seq(Writes) /\ [req |-> cur[s], out |-> out] \in Writes
    BY DEF TypeInv, TypeOK
  <2>3. Len(tape') = Len(tape) + 1 /\ Len(tape) \in Nat
    BY <2>1, <2>2, AppendProperties, LenProperties
  <2>4. nread \in Nat
    BY DEF TypeInv, TypeOK
  <2> QED BY <2>3, <2>4
<1>3. \A u \in Slaves : Upcoming(u)' = Upcoming(u) /\ LastSent(u)' = LastSent(u)
  BY <1>1, Frame DEF master
<1>4. /\ \A u \in Slaves : /\ Live(u)' = Live(u)
                           /\ Pending(u, "USR1")' = Pending(u, "USR1")
                           /\ Pending(u, "USR2")' = Pending(u, "USR2")
      /\ Live(s)
  BY <1>1 DEF Live, Pending, signals
<1>5. /\ \A u \in Slaves : ToRead(u)' = ToRead(u)
      /\ \A u \in Slaves \ {s} : ToWrite(u)' = ToWrite(u)
      /\ ToRead(s) = cur[s] + N /\ ToWrite(s) = cur[s] /\ ToWrite(s)' = cur[s] + N
  <2>1. /\ ToRead(s) = cur[s] + N /\ ToWrite(s) = cur[s]
        /\ ToRead(s)' = cur'[s] + N /\ ToWrite(s)' = cur'[s] + N /\ cur'[s] = cur[s]
    BY <1>1 DEF ToRead, ToWrite, Job, Unread, Told
  <2> QED BY <1>1, <1>3, <2>1 DEF ToRead, ToWrite, Job, sockets
<1>6. /\ cur[s] = Len(tape) /\ WriteTurnOf(s)
      /\ ~caught2[s] /\ ~Pending(s, "USR2")
  BY <1>1, <1>4, <1>5 DEF WriteInv, WriteTurnOf
<1>7. \A u \in Slaves \ {s} : Live(u) => ToWrite(u) # Len(tape) /\ ~WriteTurnOf(u)
  BY <1>4, <1>5, <1>6, Apart DEF WriteInv
<1>8. JobInv'
  BY <1>1, <1>3, <1>4 DEF JobInv, Working, sockets
<1>9. BusyInv'
  BY <1>1, <1>4 DEF BusyInv, Busy, Sending, Working, Unread, sockets, master
<1>10. RoundInv'
  <2>1. Len(tape)' <= nread'
    <3>1. ToRead(s) < nread + N
      BY <1>4 DEF RoundInv
    <3> QED BY <3>1, <1>1, <1>2, <1>5, <1>6, NAssumption
  <2>2. \A u \in Slaves : Live(u) => nread' <= ToRead(u)' /\ ToRead(u)' < nread' + N
    BY <1>1, <1>5 DEF RoundInv
  <2>3. \A u \in Slaves : Live(u) => Len(tape)' <= ToWrite(u)' /\ ToWrite(u)' < Len(tape)' + N
    <3> SUFFICES ASSUME NEW u \in Slaves, Live(u)
                 PROVE  Len(tape) + 1 <= ToWrite(u)' /\ ToWrite(u)' < Len(tape) + 1 + N
      BY <1>2
    <3>1. CASE u = s
      BY <3>1, <1>2, <1>5, <1>6, NAssumption
    <3>2. CASE u # s
      <4>1. Len(tape) <= ToWrite(u) /\ ToWrite(u) < Len(tape) + N /\ ToWrite(u) # Len(tape)
        BY <3>2, <1>7 DEF RoundInv
      <4>2. ToWrite(u) \in Int
        BY Pointers, UpcomingInt, NAssumption
      <4> QED BY <4>1, <4>2, <3>2, <1>2, <1>5, NAssumption
    <3> QED BY <3>1, <3>2
  <2> QED BY <2>1, <2>2, <2>3, <1>4 DEF RoundInv
<1>11. ReadInv'
  BY <1>1, <1>4, <1>5 DEF ReadInv, ReadTurnOf, signals
<1>12. \A u \in Slaves : Live(u) => ~WriteTurnOf(u)'
  <2>1. ~WriteTurnOf(s)'
    BY <1>1, <1>4, <1>6 DEF WriteTurnOf, signals
  <2>2. ASSUME NEW u \in Slaves, Live(u), u # s PROVE ~WriteTurnOf(u)'
    <3>1. WriteTurnOf(u)' => WriteTurnOf(u)
      BY <1>1, <1>4, <2>2 DEF WriteTurnOf, signals
    <3> QED BY <1>7, <2>2, <3>1
  <2> QED BY <2>1, <2>2
<1>13. WriteInv'
  <2>1. \A u \in Slaves : Live(u) => /\ ~(caught2'[u] /\ Pending(u, "USR2")')
                                     /\ pc'[u] = "write" => ~caught2'[u] /\ ~Pending(u, "USR2")'
                                     /\ pc'[u] = "susp2" => ~caught2'[u]
    BY <1>12 DEF WriteTurnOf
  <2>2. \A u \in Slaves \ {s} : pc[u] \notin Told
    <3> SUFFICES ASSUME NEW u \in Slaves, u # s, pc[u] \in Told PROVE FALSE
      OBVIOUS
    <3>1. Live(u) /\ Len(tape) = cur[u] + 1 /\ ToWrite(u) = cur[u] + N
      BY DEF WriteInv, Told, Live, ToWrite
    <3>2. cur[u] \in Nat \cup {-1}
      BY DEF TypeInv, TypeOK
    <3>3. ToWrite(u) = ToWrite(s) + N - 1
      <4>1. Len(tape) = ToWrite(s)
        BY <1>5, <1>6
      <4>2. ToWrite(u) = cur[u] + N /\ cur[u] + 1 = ToWrite(s) /\ cur[u] \in Int
        BY <3>1, <3>2, <4>1
      <4> QED BY <4>2, NAssumption
    <3>4. s = Next(u)
      BY <3>1, <3>3, <1>4, WritesBefore
    <3> QED BY <3>4, <1>4, <1>6 DEF WriteInv
  <2>3. \A u \in Slaves : pc'[u] \in Told => Len(tape)' = cur'[u] + 1
    BY <2>2, <1>1, <1>2, <1>6
  <2>4. ASSUME NEW u \in Slaves, Live(Next(u)), ToWrite(Next(u))' = Len(tape)'
        PROVE  pc'[u] \in Told
    <3>1. Next(u) # s
      BY <2>4, <1>2, <1>5, <1>6, NAssumption
    <3>2. ToWrite(Next(u)) = ToWrite(s) + 1
      BY <2>4, <3>1, <1>2, <1>5, <1>6, NextInSlaves
    <3>3. Next(u) = Next(s)
      BY <2>4, <3>2, <1>4, NextInSlaves, WritesNext
    <3> QED BY <3>3, <1>1, NextInjective DEF Told
  <2> QED BY <2>1, <2>3, <2>4, <1>4, <1>12, NextInSlaves DEF WriteInv
<1>14. OrderInv'
  BY <1>1, <1>4 DEF OrderInv, signals
<1> QED BY <1>8, <1>9, <1>10, <1>11, <1>13, <1>14

LEMMA TurnKick ==
    ASSUME TurnInv, TypeInv', NEW s \in Slaves, Kick(s)
    PROVE  TurnInv'
<1> USE DEF TurnInv
<1> DEFINE t == Next(s)
<1>1. /\ pc[s] = "kick" /\ pc'[s] = "request" /\ \A u \in Slaves \ {s} : pc'[u] = pc[u]
      /\ Kill(t, "USR2") /\ t \in Slaves /\ t # s
      /\ UNCHANGED <<master, sockets, cur, term, medium>>
  BY NextInSlaves, NextOther DEF Kick, Goto, TypeInv, TypeOK
<1>2. \A u \in Slaves : Upcoming(u)' = Upcoming(u) /\ LastSent(u)' = LastSent(u)
  BY <1>1, Frame DEF master
<1>3. /\ \A u \in Slaves \ {t} : /\ caught1'[u] = caught1[u] /\ caught2'[u] = caught2[u]
                                 /\ pend'[u] = pend[u]
                                 /\ Pending(u, "USR1")' <=> Pending(u, "USR1")
                                 /\ Pending(u, "USR2")' <=> Pending(u, "USR2")
      /\ \A u \in Slaves : Live(u)' = Live(u)
      /\ Live(s)
  BY <1>1, KillOthers DEF Live, Pending
<1>4. ToWrite(s) = cur[s] + N /\ \A u \in Slaves : ToRead(u)' = ToRead(u) /\ ToWrite(u)' = ToWrite(u)
  <2>1. /\ ToRead(s) = cur[s] + N /\ ToWrite(s) = cur[s] + N
        /\ ToRead(s)' = Job(s)' /\ ToWrite(s)' = Job(s)'
    BY <1>1 DEF ToRead, ToWrite, Unread, Told
  <2>2. Job(s)' = IF chan[s] = << >> THEN Upcoming(s) ELSE LastSent(s)
    BY <1>1, <1>2 DEF Job, sockets
  <2>3. cur[s] = IF chan[s] = << >> THEN LastSent(s) ELSE LastSent(s) - N
    BY <1>1, <1>3 DEF JobInv
  <2>4. Upcoming(s) \in Int /\ LastSent(s) = Upcoming(s) - N
    BY UpcomingInt DEF LastSent
  <2>5. Job(s)' = cur[s] + N
    BY <2>2, <2>3, <2>4, NAssumption
  <2> QED BY <1>1, <1>2, <2>1, <2>5 DEF ToRead, ToWrite, Job, sockets
<1>5. Live(t) => ToWrite(t) = Len(tape) /\ ~WriteTurnOf(t)
  <2>1. Len(tape) = cur[s] + 1 /\ cur[s] \in Nat \cup {-1}
    BY <1>1 DEF WriteInv, Told, TypeInv, TypeOK
  <2>2. ToWrite(s) = Len(tape) + N - 1
    BY <1>4, <2>1, NAssumption
  <2>3. Live(t) => ToWrite(t) = Len(tape)
    BY <1>3, <2>2, WritesFirst
  <2> QED BY <1>1, <2>3 DEF WriteInv, Told
<1>6. JobInv'
  BY <1>1, <1>2, <1>3 DEF JobInv, Working, sockets
<1>7. BusyInv'
  BY <1>1, <1>3 DEF BusyInv, Busy, Sending, Working, Unread, sockets, master
<1>8. RoundInv'
  BY <1>1, <1>3, <1>4, TurnRound
<1>9. Live(t) => /\ caught1'[t] = caught1[t]
                 /\ Pending(t, "USR1")' <=> Pending(t, "USR1")
                 /\ ~(caught2'[t] /\ Pending(t, "USR2")')
                 /\ caught2'[t] \/ Pending(t, "USR2")'
                 /\ pc[t] # "boot" => ~caught2'[t]
                 /\ pend'[t] = <<"USR2", "USR1">> => pend[t] = <<"USR2", "USR1">>
  <2> SUFFICES ASSUME Live(t)
               PROVE  /\ caught1'[t] = caught1[t]
                      /\ Pending(t, "USR1")' <=> Pending(t, "USR1")
                      /\ ~(caught2'[t] /\ Pending(t, "USR2")')
                      /\ caught2'[t] \/ Pending(t, "USR2")'
                      /\ pc[t] # "boot" => ~caught2'[t]
                      /\ pend'[t] = <<"USR2", "USR1">> => pend[t] = <<"USR2", "USR1">>
    OBVIOUS
  <2>1. /\ caught1'[t] = caught1[t]
        /\ Pending(t, "USR1")' <=> Pending(t, "USR1")
        /\ IF pc[t] = "boot"
           THEN caught2'[t] /\ pend'[t] = pend[t]
           ELSE caught2'[t] = caught2[t] /\ Pending(t, "USR2")'
        /\ pend'[t] = <<"USR2", "USR1">> => pend[t] = <<"USR2", "USR1">>
    BY <1>1, KillWrite
  <2>2. ~caught2[t] /\ ~Pending(t, "USR2")
    BY <1>5 DEF WriteTurnOf
  <2>3. pend'[t] = pend[t] => ~Pending(t, "USR2")'
    BY <2>2 DEF Pending
  <2> QED BY <2>1, <2>2, <2>3
<1>10. ReadInv'
  BY <1>1, <1>3, <1>4, <1>9 DEF ReadInv, ReadTurnOf, medium
<1>11. \A u \in Slaves \ {t} : WriteTurnOf(u)' <=> WriteTurnOf(u)
  BY <1>1, <1>3 DEF WriteTurnOf
<1>12. \A u \in Slaves : (pc'[u] \in Told <=> pc[u] \in Told /\ u # s)
  BY <1>1 DEF Told
<1>13. WriteInv'
  <2>1. ASSUME NEW u \in Slaves, Live(u)
        PROVE  /\ WriteTurnOf(u)' => ToWrite(u)' = Len(tape)'
               /\ ~(caught2'[u] /\ Pending(u, "USR2")')
               /\ pc'[u] = "write" => ~caught2'[u] /\ ~Pending(u, "USR2")'
               /\ pc'[u] = "susp2" => ~caught2'[u]
    <3>1. CASE u = t
      BY <2>1, <3>1, <1>1, <1>4, <1>5, <1>9 DEF WriteTurnOf, medium
    <3>2. CASE u # t
      BY <2>1, <3>2, <1>1, <1>3, <1>4, <1>11 DEF WriteInv, medium
    <3> QED BY <3>1, <3>2
  <2>2. ASSUME NEW u \in Slaves, Live(Next(u))
        PROVE  /\ pc'[u] \in Told => ~WriteTurnOf(Next(u))'
               /\ ToWrite(Next(u))' = Len(tape)' => WriteTurnOf(Next(u))' \/ pc'[u] \in Told
    <3>1. CASE u = s
      BY <2>2, <3>1, <1>9, <1>12 DEF WriteTurnOf
    <3>2. CASE u # s
      <4>1. Next(u) # t /\ Next(u) \in Slaves
        BY <3>2, NextInjective, NextInSlaves
      <4> QED BY <2>2, <3>2, <4>1, <1>1, <1>4, <1>11, <1>12 DEF WriteInv, medium
    <3> QED BY <3>1, <3>2
  <2>3. \A u \in Slaves : pc'[u] \in Told => Len(tape)' = cur'[u] + 1
    BY <1>1, <1>12 DEF WriteInv, medium
  <2> QED BY <2>1, <2>2, <2>3, <1>3, NextInSlaves DEF WriteInv
<1>14. OrderInv'
  <2> SUFFICES ASSUME NEW u \in Slaves, Live(u)
               PROVE  /\ pc'[u] \in {"wait2", "susp2"} /\ Pending(u, "USR1")' =>
                            caught2'[u] \/ Pending(u, "USR2")'
                      /\ pc'[u] \notin {"wait2", "susp2"} => pend'[u] # <<"USR2", "USR1">>
    BY <1>3 DEF OrderInv
  <2>1. CASE u = s
    BY <2>1, <1>1, <1>3 DEF OrderInv
  <2>2. CASE u = t
    BY <2>2, <1>1, <1>9 DEF OrderInv
  <2>3. CASE u # s /\ u # t
    BY <2>3, <1>1, <1>3 DEF OrderInv
  <2> QED BY <2>1, <2>2, <2>3
<1> QED BY <1>6, <1>7, <1>8, <1>10, <1>13, <1>14

LEMMA TurnSlave ==
    ASSUME TurnInv, TypeInv', NEW s \in Slaves, Slave(s)
    PROVE  TurnInv'
BY TurnBoot, TurnGetRequest, TurnLeave, TurnLockPoint1, TurnReadBlocks,
   TurnLockPoint2, TurnWriteTape, TurnReply, TurnKick
   DEF Slave

-----------------------------------------------------------------------------
(* The steps of the master. *)

LEMMA TurnFinishSend ==
    ASSUME TurnInv, TypeInv', FinishSend
    PROVE  TurnInv'
<1> USE DEF TurnInv
<1>1. /\ mpc = "data" /\ slp \in Slaves /\ slp' = Next(slp) /\ mpc' \in {"result", "fill"}
      /\ sent' = [sent EXCEPT ![slp] = TRUE] /\ sent \in [Slaves -> BOOLEAN]
      /\ mpc' = "fill" => ~sent'[Next(slp)]
      /\ UNCHANGED <<nsent, chan, res, pc, cur, signals, medium>>
  BY DEF FinishSend, TypeInv, TypeOK, sockets
<1>2. \A u \in Slaves : Upcoming(u)' = Upcoming(u)
  BY <1>1 DEF Upcoming, Turn
<1>3. BusyInv'
  BY <1>1 DEF BusyInv, Busy, Sending, Live
<1> QED BY <1>1, <1>2, <1>3, TurnMaster

(* A step that takes the result of slot i. *)
LEMMA TurnResult ==
    ASSUME TurnInv, TypeInv', NEW i \in Slaves, res[i] # << >>,
           mpc \notin {"data", "ended"}, mpc' # "data",
           mpc' \in {"fill", "tperror"} => slp = i,
           sent' = [sent EXCEPT ![i] = FALSE], res' = [res EXCEPT ![i] = Tail(@)],
           UNCHANGED <<slp, nsent, chan, pc, cur, signals, medium>>
    PROVE  TurnInv'
<1> USE DEF TurnInv
<1>1. \A u \in Slaves : Upcoming(u)' = Upcoming(u)
  BY DEF Upcoming, Turn
<1>2. res'[i] = << >> /\ Len(res'[i]) <= 1
  <2>1. res \in [Slaves -> Seq(Outcomes)] /\ res[i] \in Seq(Outcomes) /\ Len(res[i]) <= 1
    BY DEF TypeInv, TypeOK, BusyInv
  <2>2. Tail(res[i]) \in Seq(Outcomes) /\ Len(Tail(res[i])) = Len(res[i]) - 1
    BY <2>1, HeadTailProperties
  <2>3. \A q \in Seq(Outcomes) : (q # << >> => Len(q) \in Nat \ {0}) /\ Len(q) \in Nat
    BY EmptySeq, LenProperties
  <2>4. \A n \in Nat \ {0} : n <= 1 => n - 1 = 0
    OBVIOUS
  <2>5. Len(Tail(res[i])) = 0
    BY <2>1, <2>2, <2>3, <2>4
  <2>6. Tail(res[i]) = << >>
    BY <2>2, <2>3, <2>5
  <2> QED BY <2>1, <2>5, <2>6
<1>3. /\ ~sent'[i]
      /\ \A u \in Slaves \ {i} : sent'[u] = sent[u] /\ res'[u] = res[u]
  BY DEF TypeInv, TypeOK
<1>4. BusyInv'
  <2>1. Live(i) => ~Busy(i)
    BY DEF BusyInv
  <2>2. \A u \in Slaves : ~Sending(u) /\ ~Sending(u)' /\ Busy(u)' = Busy(u) /\ Live(u)' = Live(u)
    BY DEF Sending, Busy, Live
  <2>3. \A u \in Slaves : Live(u) /\ Busy(u) => sent'[u] /\ res'[u] = << >>
    BY <1>3, <2>1, <2>2 DEF BusyInv
  <2>4. \A u \in Slaves : Len(res'[u]) <= 1 /\ (res'[u] # << >> => sent'[u])
    BY <1>2, <1>3 DEF BusyInv
  <2>5. mpc' \in {"fill", "data", "tperror"} => ~sent'[slp']
    BY <1>3
  <2> QED BY <2>2, <2>3, <2>4, <2>5 DEF BusyInv
<1> QED BY <1>1, <1>4, TurnMaster

(* A step that takes none. *)
LEMMA TurnElsewhere ==
    ASSUME TurnInv, TypeInv', mpc \notin {"data", "ended"}, mpc' # "data",
           mpc' \in {"fill", "tperror"} => mpc = "tperror",
           UNCHANGED <<slp, nsent, sent, res, chan, pc, cur, signals, medium>>
    PROVE  TurnInv'
<1> USE DEF TurnInv
<1>1. \A u \in Slaves : Upcoming(u)' = Upcoming(u)
  BY DEF Upcoming, Turn
<1>2. BusyInv'
  BY DEF BusyInv, Busy, Sending, Live
<1> QED BY <1>1, <1>2, TurnMaster

LEMMA TurnServe ==
    ASSUME TurnInv, TypeInv', Serve
    PROVE  TurnInv'
<1>1. CASE FinishSend
  BY <1>1, TurnFinishSend
<1>2. CASE ReadResult
  <2>1. slp \in Slaves
    BY DEF TurnInv, TypeInv, TypeOK
  <2> QED BY <1>2, <2>1, TurnResult DEF ReadResult
<1>3. CASE Drain
  <2>1. CASE idx = N
    BY <1>3, <2>1, TurnElsewhere DEF Drain
  <2>2. CASE idx # N /\ sent[idx]
    <3>1. idx \in Slaves
      BY <2>2, NAssumption DEF TurnInv, TypeInv, TypeOK, Slaves
    <3> QED BY <1>3, <2>2, <3>1, TurnResult DEF Drain
  <2>3. CASE idx # N /\ ~sent[idx]
    <3>1. idx \in Slaves
      BY <2>3, NAssumption DEF TurnInv, TypeInv, TypeOK, Slaves
    <3>2. UNCHANGED <<sent, res>>
      <4>1. sent \in [Slaves -> BOOLEAN]
        BY DEF TurnInv, TypeInv, TypeOK
      <4> QED BY <1>3, <2>3, <3>1, <4>1 DEF Drain
    <3> QED BY <1>3, <2>3, <3>2, TurnElsewhere DEF Drain
  <2> QED BY <2>1, <2>2, <2>3
<1>4. CASE CloseSlot
  <2>1. idx \in Slaves
    BY <1>4, NAssumption DEF CloseSlot, TurnInv, TypeInv, TypeOK, Slaves
  <2>2. CASE ~sent[idx]
    BY <1>4, <2>2, TurnElsewhere DEF CloseSlot
  <2>3. CASE sent[idx]
    BY <1>4, <2>1, <2>3, TurnResult DEF CloseSlot
  <2> QED BY <2>2, <2>3
<1>5. CASE QuitAtEot
  BY <1>5, TurnStop DEF QuitAtEot
<1>6. CASE CloseDone
  BY <1>6, TurnElsewhere DEF CloseDone, sockets
<1>7. CASE WaitForSlaves
  BY <1>7, TurnElsewhere DEF WaitForSlaves, sockets
<1>8. CASE AnswerRewrite
  BY <1>8, TurnStop DEF AnswerRewrite
<1>9. CASE AnswerAbort
  BY <1>9, TurnStop DEF AnswerAbort
<1>10. CASE AnswerNextTape
  BY <1>10, TurnElsewhere DEF AnswerNextTape
<1>11. CASE AbortOnSignal
  BY <1>11, TurnStop DEF AbortOnSignal
<1>12. CASE QuitAtStart
  BY <1>12, TurnStop DEF QuitAtStart
<1> QED
  BY <1>1, <1>2, <1>3, <1>4, <1>5, <1>6, <1>7, <1>8, <1>9, <1>10, <1>11, <1>12 DEF Serve

LEMMA TurnStep == TurnInv /\ [Step]_vars => TurnInv'
<1> SUFFICES ASSUME TurnInv, [Step]_vars PROVE TurnInv'
  OBVIOUS
<1>0. TypeInv'
  BY TypeStep DEF TurnInv
<1>1. CASE SendRequest \/ Replay
  BY <1>0, <1>1, TurnSend DEF SendRequest, Replay
<1>2. CASE EndOfDump
  BY <1>0, <1>2, TurnElsewhere DEF EndOfDump, sockets
<1>3. CASE Serve
  BY <1>0, <1>3, TurnServe
<1>4. ASSUME NEW s \in Slaves, Slave(s) PROVE TurnInv'
  BY <1>0, <1>4, TurnSlave
<1>5. CASE UNCHANGED vars
  <2>1. \A u \in Slaves : Upcoming(u)' = Upcoming(u)
    BY <1>5 DEF Upcoming, Turn, vars, master
  <2>2. BusyInv'
    BY <1>5 DEF TurnInv, BusyInv, Busy, Sending, Live, vars, master, sockets
  <2> QED BY <1>0, <1>5, <2>1, <2>2, TurnMaster DEF vars, sockets
<1> QED BY <1>1, <1>2, <1>3, <1>4, <1>5 DEF Step, Terminated

-----------------------------------------------------------------------------
(* Theorems. *)

(* A slave that writes the tape holds the request whose turn it is: the     *)
(* signals alone keep the N writers of the shared descriptor in order.      *)
THEOREM WritesInTurn == Spec => []WriteTurn
<1>1. TurnInv => WriteTurn
  BY DEF TurnInv, WriteInv, WriteTurnOf, WriteTurn, Live, ToWrite, Job, Told
<1> QED BY <1>1, TurnInit, TurnStep, PTL DEF Spec

(* So does a slave that reads the disk. *)
THEOREM ReadsInTurn == Spec => []ReadTurn
<1>1. TurnInv => ReadTurn
  BY DEF TurnInv, ReadInv, ReadTurnOf, ReadTurn, Live, ToRead, Job, Unread
<1> QED BY <1>1, TurnInit, TurnStep, PTL DEF Spec

(* A slave may take any signal for the one it waits for: the turn to write  *)
(* never comes before the turn to read that precedes it, and the turn to    *)
(* read alone never wakes a slave that waits to write.                      *)
THEOREM SignalsInOrder == Spec => []SignalOrder
<1>1. TurnInv => SignalOrder
  <2> SUFFICES ASSUME TurnInv, NEW s \in Slaves
               PROVE  /\ pc[s] = "susp1" => pend[s] # <<"USR2", "USR1">>
                      /\ pc[s] = "susp2" => pend[s] # <<"USR1">>
    BY DEF SignalOrder
  <2>1. pc[s] = "susp1" => pend[s] # <<"USR2", "USR1">>
    BY DEF TurnInv, OrderInv, Live
  <2>2. pend[s] = <<"USR1">> => Pending(s, "USR1") /\ ~Pending(s, "USR2")
    <3> SUFFICES ASSUME pend[s] = <<"USR1">> PROVE Pending(s, "USR1") /\ ~Pending(s, "USR2")
      OBVIOUS
    <3>1. DOMAIN pend[s] = 1 .. 1 /\ pend[s][1] = "USR1"
      OBVIOUS
    <3> QED BY <3>1 DEF Pending
  <2>3. pc[s] = "susp2" => pend[s] # <<"USR1">>
    BY <2>2 DEF TurnInv, OrderInv, WriteInv, Live
  <2> QED BY <2>1, <2>3
<1> QED BY <1>1, TurnInit, TurnStep, PTL DEF Spec

=============================================================================
