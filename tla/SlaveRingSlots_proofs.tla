------------------------ MODULE SlaveRingSlots_proofs ------------------------
(***************************************************************************)
(* What the master of SlaveRing knows about its N slots: which request was *)
(* given to the slave of a slot and is in its buffer, whose result a       *)
(* socket holds, and what is on the tape when a slot is filled again and   *)
(* when the volume ends.                                                   *)
(***************************************************************************)
EXTENDS SlaveRingTurns_proofs

-----------------------------------------------------------------------------
(* The slots go round, so that the last request given to a slot follows     *)
(* from its place in the ring.  (A volume that is abandoned while a request *)
(* is sent leaves slp at its slot: from then on this says nothing.)  It is  *)
(* in the buffer of the slot, unless rollforward sent it.                   *)
Abandoned == verdict \in {"rewrite", "abort"}
GivenInv ==
    ~Abandoned => \A s \in Slaves :
        given[s] = IF LastSent(s) < 0 THEN -1 ELSE LastSent(s)
MemInv ==
    \A s \in Slaves : mem[s] = IF given[s] >= replayed THEN given[s] ELSE -1

(* The tape holds the requests in order, and only what was handed over. *)
TapeInv ==
    /\ \A i \in DOMAIN tape : tape[i].req = i - 1
    /\ Len(tape) <= nsent

(* Why the volume ends is known as soon as the master leaves flushtape, and *)
(* before that only a replayed request is given up.                         *)
Passed == {"finished", "full", "rollforward"}
VerdictInv ==
    /\ mpc \in {"fill", "data", "result", "tperror"} =>
          verdict = "none" /\ \A k \in skipped : 0 <= k /\ k < replayed
    /\ mpc = "drain" => verdict = "rollforward"
    /\ mpc \in {"close", "tperror_close", "wait"} => verdict \in Passed
    /\ mpc = "ended" => verdict \in Passed \cup {"rewrite", "abort"} /\ \A s \in Slaves : ~Live(s)

(* A result is waited for only after a request, and the first one comes     *)
(* after a whole round.                                                     *)
SentInv ==
    /\ \A s \in Slaves : sent[s] \/ Sending(s) => LastSent(s) >= 0
    /\ mpc = "result" => sent[slp]
    /\ mpc = "tperror" \/ verdict = "rollforward" => nsent >= N

(* The loops over the slots leave no result behind. *)
LoopInv ==
    /\ mpc \in {"drain", "close", "tperror_close"} =>
          \A s \in Slaves : s < idx => ~sent[s]
    /\ mpc = "tperror" => idx = 0
    /\ mpc = "tperror_close" => ~sent[idx]
    /\ mpc \in {"wait", "ended"} => \A s \in Slaves : ~sent[s]

(* The result of the request in slot s was read: it went to the tape, and   *)
(* unless the volume is given up it is there in full, or the operator gave  *)
(* it up, or is being asked.                                                *)
Settled(s) == LastSent(s) >= 0 /\ ~sent[s] /\ ~Sending(s)
Asked(s) == \/ mpc = "tperror" /\ s = slp
            \/ mpc = "tperror_close" /\ s = idx
SettledInv ==
    \A s \in Slaves : Settled(s) =>
        /\ ~Abandoned => LastSent(s) < Len(tape)
        /\ verdict \in {"none", "finished", "full"} =>
              Written(LastSent(s)) \/ LastSent(s) \in skipped \/ Asked(s)

(* The operator is asked only after a write error. *)
FailedInv ==
    /\ \A k \in skipped : Wrote(k, "err")
    /\ \A s \in Slaves : Asked(s) => Wrote(given[s], "err")

(* What is not on the tape is still some slot's last request, unless it was *)
(* replayed and given up.                                                   *)
GivenUp(k) == k < replayed /\ k \in skipped
WindowInv ==
    \A k \in 0 .. nsent - 1 :
        Written(k) \/ GivenUp(k) \/ \E s \in Slaves : given[s] = k

SlotInv ==
    /\ TurnInv /\ GivenInv /\ MemInv /\ TapeInv /\ VerdictInv /\ SentInv
    /\ LoopInv /\ ResultsMatch /\ SettledInv /\ FailedInv /\ WindowInv

-----------------------------------------------------------------------------
(* The last request of a slot is one of the last round. *)
LEMMA LastRound ==
    ASSUME TypeInv, NEW s \in Slaves
    PROVE  LastSent(s) \in Int /\ nsent - N <= LastSent(s) /\ LastSent(s) < nsent
<1>1. Ahead(Turn, s) \in 0 .. N - 1 /\ nsent \in Nat
  BY TurnInSlaves, AheadRange DEF TypeInv, TypeOK
<1> QED BY <1>1, NAssumption DEF Upcoming, LastSent

(* The slot that is filled next held the oldest request of the round, the   *)
(* one that is being sent to the newest.                                    *)
LEMMA OldestSlot ==
    ASSUME TypeInv, mpc # "data"
    PROVE  LastSent(slp) = nsent - N
<1>1. slp \in Slaves /\ nsent \in Nat /\ Turn = slp
  BY DEF TypeInv, TypeOK, Turn
<1> QED BY <1>1, AheadSelf, NAssumption DEF Upcoming, LastSent

LEMMA NewestSlot ==
    ASSUME TypeInv, nsent > 0
    PROVE  \E s \in Slaves : LastSent(s) = nsent - 1
<1>1. Turn \in Slaves /\ nsent \in Nat
  BY TurnInSlaves DEF TypeInv, TypeOK
<1>2. PICK s \in Slaves : Next(s) = Turn
  <2>1. CASE Turn = 0
    BY <2>1, NAssumption DEF Slaves, Next
  <2>2. CASE Turn # 0
    <3>1. Turn - 1 \in Slaves /\ Next(Turn - 1) = Turn
      BY <1>1, <2>2, NAssumption DEF Slaves, Next
    <3> QED BY <3>1
  <2> QED BY <2>1, <2>2
<1>3. Ahead(Turn, s) = N - 1
  BY <1>2, AheadFromNext
<1> QED BY <1>1, <1>3, NAssumption DEF Upcoming, LastSent

(* A request is sent only to a slave whose last request is on the tape, or  *)
(* was replayed and given up.                                               *)
LEMMA SlotFree ==
    ASSUME SlotInv, mpc = "fill"
    PROVE  given[slp] = -1 \/ Written(given[slp]) \/ GivenUp(given[slp])
<1>1. /\ slp \in Slaves /\ ~sent[slp] /\ verdict = "none"
      /\ \A k \in skipped : k < replayed
  BY DEF SlotInv, TurnInv, TypeInv, TypeOK, BusyInv, VerdictInv
<1>2. CASE LastSent(slp) < 0
  BY <1>1, <1>2 DEF SlotInv, GivenInv, Abandoned
<1>3. CASE ~(LastSent(slp) < 0)
  <2>1. given[slp] = LastSent(slp)
    BY <1>1, <1>3 DEF SlotInv, GivenInv, Abandoned
  <2>2. LastSent(slp) \in Int
    BY <1>1, LastRound DEF SlotInv, TurnInv
  <2>3. Settled(slp)
    BY <1>1, <1>3, <2>2 DEF Settled, Sending
  <2>4. Written(LastSent(slp)) \/ LastSent(slp) \in skipped
    BY <1>1, <2>3 DEF SlotInv, SettledInv, Asked
  <2> QED BY <1>1, <2>1, <2>4 DEF GivenUp
<1> QED BY <1>2, <1>3

LEMMA SlotInit == Init => SlotInv
<1> SUFFICES ASSUME Init PROVE SlotInv
  OBVIOUS
<1>1. TurnInv
  BY TurnInit
<1>2. /\ slp \in Slaves /\ nsent = 0 /\ mpc = "fill" /\ verdict = "none" /\ skipped = {}
      /\ replayed \in {0, N}
      /\ \A s \in Slaves : given[s] = -1 /\ mem[s] = -1 /\ ~sent[s] /\ res[s] = << >>
      /\ tape = << >> /\ DOMAIN tape = {} /\ Len(tape) = 0
  BY DEF Init
<1>3. \A s \in Slaves : LastSent(s) < 0 /\ LastSent(s) \in Int
  BY <1>1, <1>2, LastRound, NAssumption DEF TurnInv
<1>4. GivenInv /\ TapeInv /\ VerdictInv /\ LoopInv /\ ResultsMatch
  BY <1>2, <1>3 DEF GivenInv, TapeInv, VerdictInv, LoopInv, ResultsMatch
<1>8. MemInv
  BY <1>2, NAssumption DEF MemInv
<1>9. FailedInv
  BY <1>2 DEF FailedInv, Asked
<1>5. SentInv
  BY <1>2, <1>3 DEF SentInv, Sending
<1>6. SettledInv
  BY <1>3 DEF SettledInv, Settled
<1>7. WindowInv
  BY <1>2 DEF WindowInv
<1> QED BY <1>1, <1>4, <1>5, <1>6, <1>7, <1>8, <1>9 DEF SlotInv

-----------------------------------------------------------------------------
(* The steps of the slaves. *)

LEMMA SlotFrame ==
    ASSUME SlotInv, TurnInv', UNCHANGED <<master, tape>>, ResultsMatch',
           \A s \in Slaves : Live(s)' => Live(s)
    PROVE  SlotInv'
<1>1. \A s \in Slaves : LastSent(s)' = LastSent(s) /\ Sending(s)' = Sending(s)
  BY Frame DEF master, Sending
<1>2. \A k : Written(k)' = Written(k) /\ Wrote(k, "err")' = Wrote(k, "err")
  BY DEF Written, Wrote
<1>3. GivenInv' /\ MemInv' /\ TapeInv' /\ VerdictInv' /\ LoopInv'
  BY <1>1 DEF SlotInv, GivenInv, MemInv, TapeInv, VerdictInv, LoopInv, Abandoned, master
<1>4. SentInv'
  BY <1>1 DEF SlotInv, SentInv, master
<1>5. SettledInv'
  BY <1>1, <1>2 DEF SlotInv, SettledInv, Settled, Asked, Abandoned, master
<1>6. WindowInv' /\ FailedInv'
  BY <1>2 DEF SlotInv, WindowInv, GivenUp, FailedInv, Asked, master
<1> QED BY <1>3, <1>4, <1>5, <1>6 DEF SlotInv

(* The result that a slave sends is that of the request in its slot: the    *)
(* last write of the tape was its own.                                      *)
LEMMA SlotReply ==
    ASSUME SlotInv, TurnInv', NEW s \in Slaves, Reply(s)
    PROVE  SlotInv'
<1>1. /\ pc[s] = "reply" /\ pc' = [pc EXCEPT ![s] = "kick"] /\ pc \in [Slaves -> SlaveStates]
      /\ res' = [res EXCEPT ![s] = Append(@, tape[Len(tape)].out)]
      /\ res \in [Slaves -> Seq(Outcomes)]
      /\ UNCHANGED <<master, chan, open, cur, signals, term, medium>>
  BY DEF Reply, Goto, SlotInv, TurnInv, TypeInv, TypeOK
<1>2. Live(s) /\ Busy(s) /\ cur[s] = LastSent(s) /\ Len(tape) = cur[s] + 1
  BY <1>1 DEF SlotInv, TurnInv, JobInv, WriteInv, Live, Busy, Working, Told
<1>3. res[s] = << >> /\ mpc # "ended" /\ ~Abandoned
  BY <1>2 DEF SlotInv, TurnInv, BusyInv, VerdictInv, Abandoned, Passed, TypeInv, TypeOK,
              MasterStates
<1>4. Len(tape) \in Nat \ {0} /\ DOMAIN tape = 1 .. Len(tape)
  <2>1. tape # << >> /\ tape \in Seq([req : Nat \cup {-1}, out : Outcomes])
    BY <1>1 DEF SlotInv, TurnInv, TypeInv, TypeOK
  <2> QED BY <2>1, EmptySeq, LenProperties
<1>5. given[s] = Len(tape) - 1
  <2>1. cur[s] \in Int
    BY DEF SlotInv, TurnInv, TypeInv, TypeOK
  <2>2. LastSent(s) = Len(tape) - 1 /\ ~(LastSent(s) < 0)
    BY <1>2, <1>4, <2>1
  <2> QED BY <1>3, <2>2 DEF SlotInv, GivenInv
<1>6. given[s] + 1 = Len(tape) /\ given[s] + 1 \in DOMAIN tape
  BY <1>4, <1>5
<1>7. res'[s] = <<tape[given[s] + 1].out>>
  BY <1>1, <1>3, <1>6
<1>8. ResultsMatch'
  <2>1. \A u \in Slaves \ {s} : res'[u] = res[u]
    BY <1>1
  <2> QED BY <1>1, <1>6, <1>7, <2>1 DEF SlotInv, ResultsMatch, master, medium
<1>9. \A u \in Slaves : Live(u)' => Live(u)
  BY <1>1 DEF Live
<1> QED BY <1>1, <1>8, <1>9, SlotFrame DEF medium

(* A write adds the next request to the tape and keeps all that is there.   *)
LEMMA TapeGrows ==
    ASSUME SlotInv, NEW s \in Slaves, WriteTape(s)
    PROVE  /\ Len(tape) \in Nat /\ Len(tape') = Len(tape) + 1 /\ Len(tape) < nsent
           /\ DOMAIN tape = 1 .. Len(tape) /\ DOMAIN tape' = 1 .. Len(tape) + 1
           /\ \A i \in DOMAIN tape : tape'[i] = tape[i]
           /\ \E out \in Outcomes : tape' = Append(tape, [req |-> Len(tape), out |-> out])
           /\ tape'[Len(tape) + 1].req = Len(tape)
<1> DEFINE Writes == [req : Nat \cup {-1}, out : Outcomes]
<1>1. PICK out \in Outcomes : tape' = Append(tape, [req |-> cur[s], out |-> out])
  BY DEF WriteTape
<1>2. /\ tape \in Seq(Writes) /\ [req |-> cur[s], out |-> out] \in Writes
      /\ pc[s] = "write" /\ nsent \in Nat /\ cur[s] \in Int
  BY DEF WriteTape, Goto, SlotInv, TurnInv, TypeInv, TypeOK
<1>3. cur[s] = LastSent(s) /\ cur[s] = Len(tape)
  BY <1>2 DEF SlotInv, TurnInv, JobInv, WriteInv, WriteTurnOf, ToWrite, Job, Live, Working, Told
<1>4. LastSent(s) < nsent
  BY LastRound DEF SlotInv, TurnInv
<1>5. /\ tape' \in Seq(Writes) /\ Len(tape') = Len(tape) + 1
      /\ \A i \in 1 .. Len(tape) : tape'[i] = tape[i]
      /\ tape'[Len(tape) + 1] = [req |-> cur[s], out |-> out]
  BY <1>1, <1>2, AppendProperties
<1>6. Len(tape) \in Nat /\ DOMAIN tape = 1 .. Len(tape) /\ DOMAIN tape' = 1 .. Len(tape')
  BY <1>2, <1>5, LenProperties
<1> QED BY <1>1, <1>3, <1>4, <1>5, <1>6

LEMMA SlotWrite ==
    ASSUME SlotInv, TurnInv', NEW s \in Slaves, WriteTape(s)
    PROVE  SlotInv'
<1>1. /\ UNCHANGED <<master, res>> /\ pc \in [Slaves -> SlaveStates]
      /\ pc' = [pc EXCEPT ![s] = "reply"] /\ pc[s] = "write" /\ nsent \in Nat
  BY DEF WriteTape, Goto, SlotInv, TurnInv, TypeInv, TypeOK, sockets
<1>2. \A u \in Slaves : LastSent(u)' = LastSent(u) /\ Sending(u)' = Sending(u)
  BY <1>1, Frame DEF master, Sending
<1>3. \A u \in Slaves : Live(u)' => Live(u)
  BY <1>1 DEF Live
<1>4. \A k, out : Wrote(k, out) => Wrote(k, out)'
  BY TapeGrows DEF Wrote
<1>5. GivenInv' /\ MemInv' /\ VerdictInv' /\ LoopInv'
  BY <1>1, <1>2, <1>3 DEF SlotInv, GivenInv, MemInv, VerdictInv, LoopInv, Abandoned, master
<1>6. TapeInv'
  <2>1. \A i \in 1 .. Len(tape) + 1 : tape'[i].req = i - 1
    BY TapeGrows DEF SlotInv, TapeInv
  <2> QED BY <1>1, <2>1, TapeGrows DEF SlotInv, TapeInv, master
<1>7. SentInv'
  BY <1>1, <1>2 DEF SlotInv, SentInv, master
<1>8. ResultsMatch'
  BY <1>1, TapeGrows DEF SlotInv, ResultsMatch, master
<1>9. SettledInv'
  <2>1. \A u \in Slaves : LastSent(u) < Len(tape) => LastSent(u) < Len(tape')
    BY TapeGrows, LastRound DEF SlotInv, TurnInv
  <2>2. \A k : Written(k) => Written(k)'
    BY <1>4 DEF Written
  <2> QED BY <1>1, <1>2, <2>1, <2>2 DEF SlotInv, SettledInv, Settled, Asked, Abandoned, master
<1>10. WindowInv' /\ FailedInv'
  BY <1>1, <1>4 DEF SlotInv, WindowInv, GivenUp, FailedInv, Asked, Written, master
<1> QED BY <1>5, <1>6, <1>7, <1>8, <1>9, <1>10 DEF SlotInv

LEMMA SlotSlave ==
    ASSUME SlotInv, TurnInv', NEW s \in Slaves, Slave(s)
    PROVE  SlotInv'
<1>1. CASE WriteTape(s)
  BY <1>1, SlotWrite
<1>2. CASE Reply(s)
  BY <1>2, SlotReply
<1>3. CASE ~WriteTape(s) /\ ~Reply(s)
  <2>1. /\ UNCHANGED <<master, res, tape>>
        /\ \E from, to \in SlaveStates : Goto(s, from, to) /\ from # "exit"
    BY <1>3 DEF Slave, Boot, GetRequest, EndOfRequests, LockPoint1, ReadBlocks, QuitSlave,
                LockPoint2, Kick, sockets, medium, SlaveStates
  <2>2. \A u \in Slaves : Live(u)' => Live(u)
    BY <2>1 DEF Goto, Live, SlotInv, TurnInv, TypeInv, TypeOK
  <2>3. ResultsMatch'
    BY <2>1 DEF SlotInv, ResultsMatch, master
  <2> QED BY <2>1, <2>2, <2>3, SlotFrame
<1> QED BY <1>1, <1>2, <1>3

-----------------------------------------------------------------------------
(* The steps of the master. *)

(* The next request goes to the slave that was given one longest ago; that  *)
(* request is on the tape and its result was read.                          *)
LEMMA SlotSend ==
    ASSUME SlotInv, TurnInv', SendRequest \/ Replay
    PROVE  SlotInv'
<1>a. Send
  BY DEF SendRequest, Replay
<1>1. /\ mpc = "fill" /\ mpc' = "data" /\ slp \in Slaves /\ nsent \in Nat /\ nsent' = nsent + 1
      /\ given \in [Slaves -> Nat \cup {-1}] /\ given' = [given EXCEPT ![slp] = nsent]
      /\ UNCHANGED <<slp, replayed, sent, idx, verdict, skipped, res, pc, tape>>
  BY <1>a DEF Send, SlotInv, TurnInv, TypeInv, TypeOK, medium
<1>2. /\ ~sent[slp] /\ verdict = "none" /\ ~Abandoned
      /\ \A s \in Slaves : ~Sending(s) /\ (Sending(s)' <=> s = slp)
  BY <1>1 DEF SlotInv, TurnInv, BusyInv, VerdictInv, Abandoned, Sending
<1>3. /\ LastSent(slp)' = nsent
      /\ \A s \in Slaves \ {slp} : LastSent(s)' = LastSent(s)
  <2>1. \A s \in Slaves : Upcoming(s) \in Int
    BY UpcomingInt DEF SlotInv, TurnInv
  <2> QED BY <1>a, <1>1, <2>1, SendGives, NAssumption DEF LastSent, SlotInv, TurnInv
<1>4. \A k : Written(k)' = Written(k) /\ Wrote(k, "err")' = Wrote(k, "err")
  BY <1>1 DEF Written, Wrote
<1>5. GivenInv'
  BY <1>1, <1>2, <1>3 DEF SlotInv, GivenInv
<1>12. MemInv'
  <2>1. mem \in [Slaves -> Nat \cup {-1}] /\ replayed \in Nat
    BY NAssumption DEF SlotInv, TurnInv, TypeInv, TypeOK
  <2>2. CASE SendRequest
    BY <1>1, <2>1, <2>2 DEF SendRequest, SlotInv, MemInv
  <2>3. CASE Replay
    <3>1. nsent < replayed /\ mem' = mem
      BY <2>3 DEF Replay
    <3>2. given[slp] < replayed
      <4>1. given[slp] = IF LastSent(slp) < 0 THEN -1 ELSE LastSent(slp)
        BY <1>1, <1>2 DEF SlotInv, GivenInv
      <4>2. LastSent(slp) \in Int /\ LastSent(slp) < nsent
        BY <1>1, LastRound DEF SlotInv, TurnInv
      <4> QED BY <1>1, <2>1, <3>1, <4>1, <4>2
    <3>3. mem[slp] = -1
      BY <1>1, <2>1, <3>2 DEF SlotInv, MemInv
    <3> QED BY <1>1, <2>1, <3>1, <3>3 DEF SlotInv, MemInv
  <2> QED BY <2>2, <2>3
<1>13. FailedInv'
  BY <1>1, <1>4 DEF SlotInv, FailedInv, Asked
<1>6. TapeInv'
  <2>1. Len(tape) \in Nat
    BY LenProperties DEF SlotInv, TurnInv, TypeInv, TypeOK
  <2> QED BY <1>1, <2>1 DEF SlotInv, TapeInv
<1>7. VerdictInv' /\ LoopInv'
  BY <1>1, <1>2 DEF SlotInv, VerdictInv, LoopInv
<1>8. SentInv'
  BY <1>1, <1>2, <1>3 DEF SlotInv, SentInv
<1>9. ResultsMatch'
  <2>1. res[slp] = << >>
    BY <1>1, <1>2 DEF SlotInv, TurnInv, BusyInv
  <2> QED BY <1>1, <2>1 DEF SlotInv, ResultsMatch
<1>10. SettledInv'
  BY <1>1, <1>2, <1>3, <1>4 DEF SlotInv, SettledInv, Settled, Asked, Abandoned
<1>11. WindowInv'
  <2> SUFFICES ASSUME NEW k \in 0 .. nsent
               PROVE  Written(k) \/ GivenUp(k) \/ \E s \in Slaves : given'[s] = k
    BY <1>1, <1>4 DEF WindowInv, GivenUp
  <2>1. CASE k = nsent
    BY <1>1, <2>1
  <2>2. CASE k # nsent
    <3>1. k \in 0 .. nsent - 1
      BY <1>1, <2>2
    <3>2. CASE given[slp] = k
      BY <1>1, <3>1, <3>2, SlotFree
    <3>3. CASE given[slp] # k
      BY <1>1, <3>1, <3>3 DEF SlotInv, WindowInv
    <3> QED BY <3>2, <3>3
  <2> QED BY <2>1, <2>2
<1> QED BY <1>5, <1>6, <1>7, <1>8, <1>9, <1>10, <1>11, <1>12, <1>13 DEF SlotInv

(* A step of the master that neither fills a slot nor stops the slaves.     *)
LEMMA SlotMaster ==
    ASSUME SlotInv, TurnInv', mpc # "ended",
           UNCHANGED <<nsent, replayed, mem, given, tape>>,
           skipped \subseteq skipped',
           \A s \in Slaves : LastSent(s)' = LastSent(s),
           VerdictInv', SentInv', LoopInv', ResultsMatch', SettledInv', FailedInv'
    PROVE  SlotInv'
<1>1. ~Abandoned
  BY DEF SlotInv, VerdictInv, Abandoned, Passed, TurnInv, TypeInv, TypeOK, MasterStates
<1>2. GivenInv'
  BY <1>1 DEF SlotInv, GivenInv
<1>3. TapeInv' /\ WindowInv' /\ MemInv'
  BY DEF SlotInv, TapeInv, WindowInv, GivenUp, Written, Wrote, MemInv
<1> QED BY <1>2, <1>3 DEF SlotInv

(* The result of slot i is taken: its request went to the tape, with just   *)
(* this result.                                                             *)
LEMMA ResultTaken ==
    ASSUME SlotInv, NEW i \in Slaves, res[i] # << >>, mpc # "ended",
           res' = [res EXCEPT ![i] = Tail(@)], UNCHANGED <<given, tape>>
    PROVE  /\ ResultsMatch'
           /\ sent[i] /\ LastSent(i) >= 0 /\ given[i] = LastSent(i) /\ LastSent(i) < Len(tape)
           /\ Wrote(LastSent(i), Head(res[i]))
<1>1. given[i] + 1 \in DOMAIN tape /\ res[i] = <<tape[given[i] + 1].out>>
  BY DEF SlotInv, ResultsMatch
<1>2. /\ tape \in Seq([req : Nat \cup {-1}, out : Outcomes])
      /\ res \in [Slaves -> Seq(Outcomes)] /\ given[i] \in Nat \cup {-1}
  BY DEF SlotInv, TurnInv, TypeInv, TypeOK
<1>3. given[i] + 1 \in 1 .. Len(tape) /\ Len(tape) \in Nat
  BY <1>1, <1>2, LenProperties
<1>4. sent[i] /\ LastSent(i) >= 0 /\ LastSent(i) \in Int
  BY LastRound DEF SlotInv, TurnInv, BusyInv, SentInv
<1>5. given[i] = LastSent(i)
  <2>1. ~Abandoned
    BY DEF SlotInv, VerdictInv, Abandoned, Passed, TurnInv, TypeInv, TypeOK, MasterStates
  <2> QED BY <1>4, <2>1 DEF SlotInv, GivenInv
<1>6. Head(res[i]) = tape[given[i] + 1].out /\ Tail(res[i]) = << >>
  BY <1>1
<1>7. ResultsMatch'
  BY <1>2, <1>6 DEF SlotInv, ResultsMatch
<1>8. Wrote(LastSent(i), Head(res[i]))
  <2>1. tape[given[i] + 1] \in [req : Nat \cup {-1}, out : Outcomes]
    BY <1>2, <1>3, ElementOfSeq
  <2>2. tape[given[i] + 1].req = given[i] /\ tape[given[i] + 1].out = Head(res[i])
    BY <1>1, <1>2, <1>6 DEF SlotInv, TapeInv
  <2>3. tape[given[i] + 1] = [req |-> given[i], out |-> Head(res[i])]
    BY <2>1, <2>2
  <2> QED BY <1>1, <1>5, <2>3 DEF Wrote
<1> QED BY <1>3, <1>4, <1>5, <1>7, <1>8

LEMMA SlotFinishSend ==
    ASSUME SlotInv, TurnInv', FinishSend
    PROVE  SlotInv'
<1>1. /\ mpc = "data" /\ slp \in Slaves /\ slp' = Next(slp) /\ mpc' \in {"result", "fill"}
      /\ sent' = [sent EXCEPT ![slp] = TRUE] /\ sent \in [Slaves -> BOOLEAN]
      /\ mpc' = "result" => sent'[slp']
      /\ UNCHANGED <<nsent, replayed, mem, given, idx, verdict, skipped, res, pc, tape>>
  BY DEF FinishSend, SlotInv, TurnInv, TypeInv, TypeOK, sockets, medium
<1>2. \A s \in Slaves : LastSent(s)' = LastSent(s)
  BY <1>1 DEF Upcoming, LastSent, Turn
<1>3. \A s \in Slaves : sent'[s] <=> sent[s] \/ Sending(s)
  BY <1>1 DEF Sending
<1>4. \A s \in Slaves : ~Sending(s)'
  BY <1>1 DEF Sending
<1>5. VerdictInv' /\ LoopInv'
  BY <1>1, <1>3 DEF SlotInv, VerdictInv, LoopInv, Sending
<1>6. SentInv'
  BY <1>1, <1>2, <1>3, <1>4 DEF SlotInv, SentInv
<1>7. ResultsMatch' /\ FailedInv'
  BY <1>1 DEF SlotInv, ResultsMatch, FailedInv, Asked, Wrote
<1>9. \A k : Written(k)' = Written(k)
  BY <1>1 DEF Written, Wrote
<1>8. SettledInv'
  BY <1>1, <1>2, <1>3, <1>4, <1>9 DEF SlotInv, SettledInv, Settled, Asked, Abandoned
<1> QED BY <1>1, <1>2, <1>5, <1>6, <1>7, <1>8, SlotMaster

(* flushtape reads the result of the slot it is about to fill. *)
LEMMA SlotReadResult ==
    ASSUME SlotInv, TurnInv', ReadResult
    PROVE  SlotInv'
<1>1. /\ mpc = "result" /\ slp \in Slaves /\ res[slp] # << >> /\ sent \in [Slaves -> BOOLEAN]
      /\ res' = [res EXCEPT ![slp] = Tail(@)] /\ sent' = [sent EXCEPT ![slp] = FALSE]
      /\ \/ mpc' = "fill" /\ verdict' = verdict /\ Head(res[slp]) = "ok"
         \/ mpc' = "close" /\ verdict' = "full" /\ Head(res[slp]) = "ok"
         \/ mpc' = "drain" /\ verdict' = "rollforward"
         \/ mpc' = "tperror" /\ verdict' = verdict /\ Head(res[slp]) = "err"
      /\ idx' = 0 /\ UNCHANGED <<slp, nsent, replayed, mem, given, skipped, pc, tape>>
  BY DEF ReadResult, SlotInv, TurnInv, TypeInv, TypeOK, medium
<1>2. \A s \in Slaves : /\ LastSent(s)' = LastSent(s) /\ ~Sending(s) /\ ~Sending(s)'
                        /\ sent'[s] <=> sent[s] /\ s # slp
  BY <1>1 DEF Upcoming, LastSent, Turn, Sending
<1>3. /\ ResultsMatch' /\ LastSent(slp) >= 0 /\ LastSent(slp) < Len(tape)
      /\ given[slp] = LastSent(slp)
      /\ Head(res[slp]) = "ok" => Written(LastSent(slp))
      /\ Head(res[slp]) = "err" => Wrote(LastSent(slp), "err")
  BY <1>1, ResultTaken DEF Written
<1>4. verdict = "none"
  BY <1>1 DEF SlotInv, VerdictInv
<1>5. VerdictInv'
  BY <1>1, <1>4 DEF SlotInv, VerdictInv, Passed
<1>9. FailedInv'
  BY <1>1, <1>3 DEF SlotInv, FailedInv, Asked, Wrote
<1>6. LoopInv'
  BY <1>1, <1>2 DEF LoopInv, Slaves
<1>7. SentInv'
  <2>1. nsent >= N
    BY <1>1, <1>3, OldestSlot, NAssumption DEF SlotInv, TurnInv, TypeInv, TypeOK
  <2> QED BY <1>1, <1>2, <2>1 DEF SlotInv, SentInv
<1>8. SettledInv'
  <2> SUFFICES ASSUME NEW s \in Slaves, Settled(s)'
               PROVE  /\ LastSent(s) < Len(tape)
                      /\ verdict' # "rollforward" =>
                            Written(LastSent(s)) \/ LastSent(s) \in skipped \/ Asked(s)'
    BY <1>1, <1>2, <1>4 DEF SettledInv, Written, Wrote
  <2>1. CASE s = slp
    BY <1>1, <1>3, <2>1 DEF Asked
  <2>2. CASE s # slp
    <3>1. Settled(s) /\ ~Asked(s) /\ ~Abandoned
      BY <1>1, <1>2, <1>4, <2>2 DEF Settled, Asked, Abandoned
    <3> QED BY <1>4, <3>1 DEF SlotInv, SettledInv
  <2> QED BY <2>1, <2>2
<1> QED BY <1>1, <1>2, <1>3, <1>5, <1>6, <1>7, <1>8, <1>9, SlotMaster

(* One turn of the drain: the value is not looked at, for the volume is     *)
(* given up at its end of tape.                                             *)
LEMMA SlotDrain ==
    ASSUME SlotInv, TurnInv', Drain
    PROVE  SlotInv'
<1>1. /\ mpc = "drain" /\ mpc' \in {"drain", "close"} /\ idx \in 0 .. N
      /\ sent \in [Slaves -> BOOLEAN]
      /\ UNCHANGED <<slp, nsent, replayed, mem, given, verdict, skipped, pc, tape>>
  BY DEF Drain, SlotInv, TurnInv, TypeInv, TypeOK, medium
<1>2. \A s \in Slaves : LastSent(s)' = LastSent(s) /\ ~Sending(s) /\ ~Sending(s)'
  BY <1>1 DEF Upcoming, LastSent, Turn, Sending
<1>3. verdict = "rollforward" /\ nsent >= N
  BY <1>1 DEF SlotInv, VerdictInv, SentInv
<1>4. VerdictInv' /\ FailedInv'
  BY <1>1, <1>3 DEF SlotInv, VerdictInv, Passed, FailedInv, Asked, Wrote
<1>5. CASE idx = N
  <2>1. UNCHANGED <<sent, res>> /\ mpc' = "close" /\ idx' = 0
    BY <1>5 DEF Drain
  <2>2. LoopInv' /\ ResultsMatch'
    BY <1>1, <2>1 DEF SlotInv, LoopInv, ResultsMatch, Slaves
  <2>3. SentInv'
    BY <1>1, <1>2, <2>1 DEF SlotInv, SentInv
  <2>4. SettledInv'
    BY <1>1, <1>2, <1>3, <2>1 DEF SlotInv, SettledInv, Settled, Abandoned
  <2> QED BY <1>1, <1>2, <1>4, <2>2, <2>3, <2>4, SlotMaster
<1>6. CASE idx # N
  <2>1. /\ idx \in Slaves /\ mpc' = "drain" /\ idx' = idx + 1
        /\ sent' = [sent EXCEPT ![idx] = FALSE]
        /\ IF sent[idx] THEN res[idx] # << >> /\ res' = [res EXCEPT ![idx] = Tail(@)]
                        ELSE res' = res
    BY <1>1, <1>6, NAssumption DEF Drain, Slaves
  <2>2. ResultsMatch'
    BY <1>1, <2>1, ResultTaken DEF SlotInv, ResultsMatch
  <2>3. \A s \in Slaves : sent'[s] <=> sent[s] /\ s # idx
    BY <1>1, <2>1
  <2>4. LoopInv'
    BY <1>1, <2>1, <2>3 DEF SlotInv, LoopInv, Slaves
  <2>5. SentInv'
    BY <1>1, <1>2, <2>1, <2>3 DEF SlotInv, SentInv
  <2>6. sent[idx] => LastSent(idx) < Len(tape)
    BY <1>1, <2>1, ResultTaken
  <2>7. SettledInv'
    BY <1>1, <1>2, <1>3, <2>3, <2>6 DEF SlotInv, SettledInv, Settled, Abandoned
  <2> QED BY <1>1, <1>2, <1>4, <2>2, <2>4, <2>5, <2>7, SlotMaster
<1> QED BY <1>5, <1>6

(* One turn of the loop of trewind. *)
LEMMA SlotCloseSlot ==
    ASSUME SlotInv, TurnInv', CloseSlot
    PROVE  SlotInv'
<1>a. /\ mpc = "close" /\ idx \in 0 .. N /\ idx < N /\ sent \in [Slaves -> BOOLEAN]
  BY DEF CloseSlot, SlotInv, TurnInv, TypeInv, TypeOK
<1>b. idx \in Slaves /\ sent[idx] \in BOOLEAN
  BY <1>a, NAssumption DEF Slaves
<1>1. /\ mpc = "close" /\ idx \in Slaves /\ sent \in [Slaves -> BOOLEAN]
      /\ UNCHANGED <<slp, nsent, replayed, mem, given, verdict, skipped, pc, tape>>
      /\ \/ mpc' = "close" /\ idx' = idx + 1
         \/ mpc' = "tperror_close" /\ idx' = idx
      /\ IF sent[idx]
         THEN /\ res[idx] # << >> /\ res' = [res EXCEPT ![idx] = Tail(@)]
              /\ sent' = [sent EXCEPT ![idx] = FALSE]
              /\ Head(res[idx]) = IF mpc' = "close" THEN "ok" ELSE "err"
         ELSE UNCHANGED <<sent, res>> /\ mpc' = "close"
  BY <1>a, <1>b DEF CloseSlot, medium
<1>2. \A s \in Slaves : /\ LastSent(s)' = LastSent(s) /\ ~Sending(s) /\ ~Sending(s)'
                        /\ sent'[s] <=> sent[s] /\ s # idx
  BY <1>1 DEF Upcoming, LastSent, Turn, Sending
<1>3. ResultsMatch'
  BY <1>1, ResultTaken DEF SlotInv, ResultsMatch
<1>4. VerdictInv'
  BY <1>1 DEF SlotInv, VerdictInv
<1>5. LoopInv'
  BY <1>1, <1>2 DEF SlotInv, LoopInv, Slaves
<1>6. SentInv'
  BY <1>1, <1>2 DEF SlotInv, SentInv
<1>7. sent[idx] => /\ LastSent(idx) < Len(tape) /\ given[idx] = LastSent(idx)
                   /\ mpc' = "close" => Written(LastSent(idx))
                   /\ mpc' # "close" => Wrote(LastSent(idx), "err")
  BY <1>1, ResultTaken DEF Written
<1>9. FailedInv'
  BY <1>1, <1>7 DEF SlotInv, FailedInv, Asked, Wrote
<1>8. SettledInv'
  <2> SUFFICES ASSUME NEW s \in Slaves, Settled(s)'
               PROVE  /\ ~Abandoned => LastSent(s) < Len(tape)
                      /\ verdict \in {"none", "finished", "full"} =>
                            Written(LastSent(s)) \/ LastSent(s) \in skipped \/ Asked(s)'
    BY <1>1, <1>2 DEF SettledInv, Written, Wrote, Abandoned
  <2>1. CASE s = idx /\ sent[s]
    BY <1>1, <1>7, <2>1 DEF Asked
  <2>2. CASE ~(s = idx /\ sent[s])
    <3>1. Settled(s) /\ ~Asked(s)
      BY <1>1, <1>2, <2>2 DEF Settled, Asked
    <3> QED BY <3>1 DEF SlotInv, SettledInv
  <2> QED BY <2>1, <2>2
<1> QED BY <1>1, <1>2, <1>3, <1>4, <1>5, <1>6, <1>8, <1>9, SlotMaster

(* The operator starts the next tape after a write error.                   *)
LEMMA SlotNextTape ==
    ASSUME SlotInv, TurnInv', AnswerNextTape
    PROVE  SlotInv'
<1>1. /\ mpc \in {"tperror", "tperror_close"} /\ mpc' \in {"drain", "fill", "close"}
      /\ UNCHANGED <<slp, nsent, replayed, mem, given, sent, res, pc, tape>>
  BY DEF AnswerNextTape, medium
<1>2. \A s \in Slaves : LastSent(s)' = LastSent(s) /\ ~Sending(s) /\ ~Sending(s)'
  BY <1>1 DEF Upcoming, LastSent, Turn, Sending
<1>3. ResultsMatch'
  BY <1>1 DEF SlotInv, ResultsMatch
<1>6. \A k : Written(k)' = Written(k) /\ Wrote(k, "err")' = Wrote(k, "err")
  BY <1>1 DEF Written, Wrote
<1>4. CASE mpc = "tperror" /\ ~First
  <2>1. /\ mpc' = "drain" /\ verdict' = "rollforward" /\ UNCHANGED <<idx, skipped>>
        /\ verdict = "none" /\ nsent >= N
    BY <1>4 DEF AnswerNextTape, SlotInv, VerdictInv, SentInv
  <2>2. idx = 0
    BY <1>4 DEF SlotInv, LoopInv
  <2>3. VerdictInv' /\ LoopInv' /\ FailedInv'
    BY <1>1, <1>6, <2>1, <2>2
       DEF SlotInv, VerdictInv, LoopInv, Passed, Slaves, FailedInv, Asked
  <2>4. SentInv'
    BY <1>1, <1>2, <2>1 DEF SlotInv, SentInv
  <2>5. SettledInv'
    BY <1>1, <1>2, <2>1 DEF SlotInv, SettledInv, Settled, Abandoned
  <2> QED BY <1>1, <1>2, <1>3, <2>1, <2>3, <2>4, <2>5, SlotMaster
<1>7. CASE mpc = "tperror" /\ First
  <2>1. /\ mpc' = "fill" /\ UNCHANGED <<idx, verdict>> /\ verdict = "none"
        /\ skipped' = skipped \cup {given[slp]} /\ slp \in Slaves /\ ~sent[slp]
    BY <1>7 DEF AnswerNextTape, SlotInv, VerdictInv, TurnInv, BusyInv, TypeInv, TypeOK
  <2>2. Asked(slp) /\ Wrote(given[slp], "err")
    BY <1>7, <2>1 DEF SlotInv, FailedInv, Asked
  <2>3. given[slp] = 0 /\ LastSent(slp) = 0 /\ 0 < replayed
    <3>1. nsent = replayed /\ replayed = N
      BY <1>7, NAssumption DEF First, SlotInv, SentInv, TurnInv, TypeInv, TypeOK
    <3>2. LastSent(slp) = 0
      BY <1>7, <3>1, OldestSlot, NAssumption DEF SlotInv, TurnInv
    <3> QED BY <2>1, <3>1, <3>2, NAssumption DEF SlotInv, GivenInv, Abandoned
  <2>4. VerdictInv' /\ LoopInv'
    BY <1>1, <1>7, <2>1, <2>3 DEF SlotInv, VerdictInv, LoopInv
  <2>5. SentInv'
    BY <1>1, <1>2, <2>1 DEF SlotInv, SentInv
  <2>6. FailedInv'
    BY <1>6, <2>1, <2>2 DEF SlotInv, FailedInv, Asked
  <2>7. SettledInv'
    <3> SUFFICES ASSUME NEW s \in Slaves, Settled(s)'
                 PROVE  /\ LastSent(s) < Len(tape)
                        /\ Written(LastSent(s)) \/ LastSent(s) \in skipped'
      BY <1>1, <1>2, <1>6, <2>1 DEF SettledInv
    <3>1. Settled(s) /\ ~Abandoned
      BY <1>1, <1>2, <2>1 DEF Settled, Abandoned
    <3>2. CASE s = slp
      BY <2>1, <2>3, <3>1, <3>2 DEF SlotInv, SettledInv
    <3>3. CASE s # slp
      BY <1>7, <2>1, <3>1, <3>3 DEF SlotInv, SettledInv, Asked
    <3> QED BY <3>2, <3>3
  <2> QED BY <1>1, <1>2, <1>3, <1>7, <2>1, <2>4, <2>5, <2>6, <2>7, SlotMaster
<1>5. CASE mpc = "tperror_close"
  <2>1. /\ mpc' = "close" /\ verdict' = verdict /\ idx' = idx + 1
        /\ skipped' = skipped \cup {given[idx]} /\ idx \in Slaves
    BY <1>5, NAssumption DEF AnswerNextTape, SlotInv, TurnInv, TypeInv, TypeOK, Slaves
  <2>2. VerdictInv' /\ LoopInv'
    BY <1>1, <1>5, <2>1 DEF SlotInv, VerdictInv, LoopInv, Slaves
  <2>3. SentInv'
    BY <1>1, <1>2, <1>5, <2>1 DEF SlotInv, SentInv
  <2>5. FailedInv'
    BY <1>5, <1>6, <2>1 DEF SlotInv, FailedInv, Asked
  <2>4. SettledInv'
    <3> SUFFICES ASSUME NEW s \in Slaves, Settled(s)
                 PROVE  /\ ~Abandoned => LastSent(s) < Len(tape)
                        /\ verdict \in {"none", "finished", "full"} =>
                              Written(LastSent(s)) \/ LastSent(s) \in skipped'
      BY <1>1, <1>2, <1>6, <2>1 DEF SettledInv, Settled, Abandoned
    <3>1. CASE s = idx
      <4>1. ~(LastSent(s) < 0)
        BY LastRound DEF Settled, SlotInv, TurnInv
      <4>2. verdict \in Passed
        BY <1>5 DEF SlotInv, VerdictInv
      <4>3. given[idx] = LastSent(s)
        BY <3>1, <4>1, <4>2 DEF SlotInv, GivenInv, Abandoned, Passed
      <4> QED BY <2>1, <3>1, <4>3 DEF SlotInv, SettledInv
    <3>2. CASE s # idx
      BY <1>5, <2>1, <3>2 DEF SlotInv, SettledInv, Asked
    <3> QED BY <3>1, <3>2
  <2> QED BY <1>1, <1>2, <1>3, <1>5, <2>1, <2>2, <2>3, <2>4, <2>5, SlotMaster
<1> QED BY <1>1, <1>4, <1>5, <1>7

(* The steps that only go on: main ends the dump, trewind has closed all    *)
(* the slots, and waits for the slaves.                                     *)
LEMMA SlotGoesOn ==
    ASSUME SlotInv, TurnInv', EndOfDump \/ CloseDone \/ WaitForSlaves
    PROVE  SlotInv'
<1>1. /\ mpc \in {"fill", "close", "wait"} /\ mpc' \in {"close", "wait", "ended"}
      /\ UNCHANGED <<slp, nsent, replayed, mem, given, sent, skipped, res, pc, tape>>
      /\ \/ verdict' = verdict
         \/ verdict' = "finished" /\ verdict = "none"
      /\ verdict' \in Passed
  BY DEF EndOfDump, CloseDone, WaitForSlaves, sockets, medium, SlotInv, VerdictInv, Passed
<1>2. \A s \in Slaves : LastSent(s)' = LastSent(s) /\ ~Sending(s) /\ ~Sending(s)'
  BY <1>1 DEF Upcoming, LastSent, Turn, Sending
<1>3. ResultsMatch'
  BY <1>1 DEF SlotInv, ResultsMatch
<1>4. VerdictInv'
  <2>1. mpc' = "ended" => \A s \in Slaves : ~Live(s)'
    BY DEF EndOfDump, CloseDone, WaitForSlaves, Live
  <2> QED BY <1>1, <2>1 DEF VerdictInv
<1>5. LoopInv'
  <2>1. CASE EndOfDump
    BY <2>1 DEF EndOfDump, LoopInv, Slaves
  <2>2. CASE CloseDone
    BY <2>2, NAssumption DEF CloseDone, SlotInv, LoopInv, Slaves
  <2>3. CASE WaitForSlaves
    BY <2>3 DEF WaitForSlaves, SlotInv, LoopInv
  <2> QED BY <2>1, <2>2, <2>3
<1>6. SentInv'
  BY <1>1, <1>2 DEF SlotInv, SentInv
<1>7. SettledInv'
  BY <1>1, <1>2 DEF SlotInv, SettledInv, Settled, Asked, Abandoned, Passed, Written, Wrote
<1>8. FailedInv'
  BY <1>1 DEF SlotInv, FailedInv, Asked, Wrote
<1> QED BY <1>1, <1>2, <1>3, <1>4, <1>5, <1>6, <1>7, <1>8, SlotMaster

(* The checkpoint, or dumpabort: nothing is claimed of what is on the tape, *)
(* but what is not there can still be replayed.                             *)
LEMMA SlotStop ==
    ASSUME SlotInv, TurnInv', NEW v \in {"rewrite", "abort"}, Stop(v)
    PROVE  SlotInv'
<1>1. /\ mpc' = "ended" /\ verdict' = v /\ Abandoned'
      /\ \A s \in Slaves : ~sent'[s] /\ ~Live(s)' /\ ~Sending(s)'
      /\ UNCHANGED <<nsent, replayed, mem, given, skipped, res, tape>>
  BY DEF Stop, Live, Sending, Abandoned, medium
<1>2. GivenInv' /\ MemInv' /\ TapeInv' /\ VerdictInv' /\ LoopInv'
  BY <1>1 DEF SlotInv, GivenInv, MemInv, TapeInv, VerdictInv, LoopInv
<1>3. SentInv'
  BY <1>1 DEF SentInv
<1>4. ResultsMatch' /\ WindowInv' /\ FailedInv'
  BY <1>1 DEF SlotInv, ResultsMatch, WindowInv, GivenUp, FailedInv, Asked, Written, Wrote
<1>5. SettledInv'
  BY <1>1 DEF SettledInv
<1> QED BY <1>2, <1>3, <1>4, <1>5 DEF SlotInv

LEMMA SlotServe ==
    ASSUME SlotInv, TurnInv', Serve
    PROVE  SlotInv'
BY SlotFinishSend, SlotReadResult, SlotDrain, SlotCloseSlot, SlotNextTape, SlotGoesOn, SlotStop
   DEF Serve, QuitAtEot, QuitAtStart, AnswerRewrite, AnswerAbort, AbortOnSignal

LEMMA SlotStep == SlotInv /\ [Step]_vars => SlotInv'
<1> SUFFICES ASSUME SlotInv, [Step]_vars PROVE SlotInv'
  OBVIOUS
<1>0. TurnInv'
  BY TurnStep DEF SlotInv
<1>1. CASE SendRequest \/ Replay
  BY <1>0, <1>1, SlotSend
<1>2. CASE EndOfDump
  BY <1>0, <1>2, SlotGoesOn
<1>3. CASE Serve
  BY <1>0, <1>3, SlotServe
<1>4. ASSUME NEW s \in Slaves, Slave(s) PROVE SlotInv'
  BY <1>0, <1>4, SlotSlave
<1>5. CASE UNCHANGED vars
  <2>1. ResultsMatch' /\ \A s \in Slaves : Live(s)' => Live(s)
    BY <1>5 DEF SlotInv, ResultsMatch, Live, vars, master, sockets, medium
  <2> QED BY <1>0, <1>5, <2>1, SlotFrame DEF vars, medium
<1> QED BY <1>1, <1>2, <1>3, <1>4, <1>5 DEF Step, Terminated

-----------------------------------------------------------------------------
(* Theorems. *)

(* The master takes what it reads from a socket as the result of the last   *)
(* request in the slot, although the message does not say which request it  *)
(* is about: there is never more than that one result, and it is the        *)
(* outcome of that request on the tape.                                     *)
THEOREM ResultsBelong == Spec => []ResultsMatch
<1>1. SlotInv => ResultsMatch
  BY DEF SlotInv
<1> QED BY <1>1, SlotInit, SlotStep, PTL DEF Spec

(* flushtape builds a request in the buffer of a slot only when the request *)
(* its slave was given before is on the tape in full, so that a replay      *)
(* never needs what it overwrites; excepted is a replayed request that the  *)
(* operator gave up.                                                        *)
THEOREM SlotsReusedLate == Spec => SlotReuse
<1> DEFINE Reuse == \A s \in Slaves :
                       mem'[s] # mem[s] =>
                           \/ given[s] = -1 \/ Written(given[s])
                           \/ given[s] < replayed /\ given[s] \in skipped
<1>1. SlotInv /\ [Step]_vars => Reuse
  <2> SUFFICES ASSUME SlotInv, [Step]_vars, NEW s \in Slaves, mem'[s] # mem[s]
               PROVE  given[s] = -1 \/ Written(given[s]) \/ GivenUp(given[s])
    BY DEF GivenUp
  <2>1. SendRequest
    BY DEF Step, Replay, EndOfDump, Serve, FinishSend, ReadResult, Drain, CloseSlot, QuitAtEot,
           QuitAtStart, Stop, CloseDone, WaitForSlaves, AnswerRewrite, AnswerAbort,
           AnswerNextTape, AbortOnSignal, Slave, Boot, GetRequest, EndOfRequests, LockPoint1, ReadBlocks, QuitSlave, LockPoint2,
           WriteTape, Reply, Kick, Terminated, vars, master
  <2>2. s = slp /\ mpc = "fill"
    BY <2>1 DEF SendRequest, Send, SlotInv, TurnInv, TypeInv, TypeOK
  <2> QED BY <2>2, SlotFree
<1>2. SlotInv /\ [Step]_vars => [Reuse]_vars
  BY <1>1
<1> QED BY <1>2, SlotInit, SlotStep, PTL DEF Spec, SlotReuse

(* When trewind returns to a dump that goes on, every request handed to the *)
(* slaves of this volume is on the tape in full, except those whose write   *)
(* the tape answered with an error and the operator with "start the next    *)
(* tape": these are lost (src/dump/tape.c:522).                             *)
THEOREM VolumesComplete == Spec => []VolumeComplete
<1>1. SlotInv => VolumeComplete
  <2> SUFFICES ASSUME SlotInv, mpc = "ended", verdict \in {"finished", "full"},
                      NEW k \in 0 .. nsent - 1
               PROVE  Written(k) \/ k \in skipped
    BY DEF VolumeComplete, SlotInv, FailedInv
  <2>1. CASE Written(k) \/ GivenUp(k)
    BY <2>1 DEF GivenUp
  <2>2. CASE \E s \in Slaves : given[s] = k
    <3>1. PICK s \in Slaves : given[s] = k
      BY <2>2
    <3>2. ~Abandoned /\ nsent \in Nat
      BY DEF Abandoned, SlotInv, TurnInv, TypeInv, TypeOK
    <3>3. LastSent(s) = k
      BY <3>1, <3>2 DEF SlotInv, GivenInv
    <3>4. ~sent[s] /\ ~Sending(s) /\ ~Asked(s)
      BY DEF SlotInv, LoopInv, Sending, Asked
    <3>5. Settled(s)
      BY <3>2, <3>3, <3>4 DEF Settled
    <3> QED BY <3>3, <3>4, <3>5 DEF SlotInv, SettledInv
  <2> QED BY <2>1, <2>2 DEF SlotInv, WindowInv
<1> QED BY <1>1, SlotInit, SlotStep, PTL DEF Spec

(* At an end of tape, rollforward finds in the slots, in order from slp on, *)
(* those of the last N requests that flushtape built on this volume, and    *)
(* every request that flushtape built and that is not on it.  The requests  *)
(* that an earlier rollforward sent are in no slot (src/dump/tape.c:640).   *)
THEOREM ReplayPossible == Spec => []ReplayWindow
<1>1. SlotInv => ReplayWindow
  <2> SUFFICES ASSUME SlotInv, mpc = "ended", verdict = "rollforward"
               PROVE  /\ \A i \in 0 .. N - 1 :
                            nsent - N + i >= replayed =>
                                mem[IF slp + i >= N THEN slp + i - N ELSE slp + i]
                                  = nsent - N + i
                      /\ \A k \in replayed .. nsent - 1 :
                            Written(k) \/ \E s \in Slaves : mem[s] = k
    BY DEF ReplayWindow
  <2>0. replayed \in Nat /\ nsent \in Nat
    BY NAssumption DEF SlotInv, TurnInv, TypeInv, TypeOK
  <2>1. ASSUME NEW i \in 0 .. N - 1, nsent - N + i >= replayed
        PROVE  mem[IF slp + i >= N THEN slp + i - N ELSE slp + i] = nsent - N + i
    <3> DEFINE s == IF slp + i >= N THEN slp + i - N ELSE slp + i
    <3>1. slp \in Slaves /\ nsent \in Nat /\ nsent >= N /\ Turn = slp /\ ~Abandoned
      BY DEF SlotInv, TurnInv, TypeInv, TypeOK, SentInv, Turn, Abandoned
    <3>2. s \in Slaves /\ Ahead(slp, s) = i
      BY <3>1, NAssumption DEF Slaves, Ahead
    <3>3. LastSent(s) = nsent - N + i /\ ~(LastSent(s) < 0)
      BY <3>1, <3>2, NAssumption DEF LastSent, Upcoming
    <3>4. given[s] = nsent - N + i
      BY <3>1, <3>2, <3>3 DEF SlotInv, GivenInv
    <3> QED BY <2>1, <3>2, <3>4 DEF SlotInv, MemInv
  <2>2. ASSUME NEW k \in replayed .. nsent - 1
        PROVE  Written(k) \/ \E s \in Slaves : mem[s] = k
    <3>1. k \in 0 .. nsent - 1 /\ k >= replayed /\ ~(k < replayed)
      BY <2>0
    <3>2. Written(k) \/ \E s \in Slaves : given[s] = k
      BY <3>1 DEF SlotInv, WindowInv, GivenUp
    <3> QED BY <3>1, <3>2 DEF SlotInv, MemInv
  <2> QED BY <2>1, <2>2
<1> QED BY <1>1, SlotInit, SlotStep, PTL DEF Spec

-----------------------------------------------------------------------------
(* The abstract writer: SendRequest and Replay hand a request over, the     *)
(* write of a slave is the write, and the volume closes when the master has *)
(* waited for the slaves.  All other steps leave the volume as it is.       *)

(* At most N requests are handed over and not written: the slot that is     *)
(* filled held the oldest of them, and it is on the tape.                   *)
LEMMA WindowOpen ==
    ASSUME SlotInv, mpc = "fill"
    PROVE  nsent - Len(tape) < N
<1>1. /\ slp \in Slaves /\ nsent \in Nat /\ Len(tape) \in Nat
      /\ ~sent[slp] /\ ~Sending(slp) /\ ~Abandoned
  BY LenProperties DEF SlotInv, TurnInv, TypeInv, TypeOK, BusyInv, VerdictInv, Sending, Abandoned
<1>2. LastSent(slp) = nsent - N
  BY OldestSlot DEF SlotInv, TurnInv
<1>3. CASE nsent >= N
  <2>1. Settled(slp)
    BY <1>1, <1>2, <1>3, NAssumption DEF Settled
  <2>2. nsent - N < Len(tape)
    BY <1>1, <1>2, <2>1 DEF SlotInv, SettledInv
  <2> QED BY <1>1, <2>2, NAssumption
<1>4. CASE nsent < N
  BY <1>1, <1>4, NAssumption
<1> QED BY <1>1, <1>3, <1>4, NAssumption

(* When all results are read, all requests are on the tape. *)
LEMMA AllWritten ==
    ASSUME SlotInv, mpc = "wait"
    PROVE  Len(tape) = nsent
<1>1. /\ nsent \in Nat /\ Len(tape) \in Nat /\ Len(tape) <= nsent /\ ~Abandoned
      /\ \A s \in Slaves : ~sent[s] /\ ~Sending(s)
  BY LenProperties
     DEF SlotInv, TurnInv, TypeInv, TypeOK, TapeInv, VerdictInv, LoopInv, Sending, Abandoned, Passed
<1>2. CASE nsent > 0
  <2>1. PICK s \in Slaves : LastSent(s) = nsent - 1
    BY <1>2, NewestSlot DEF SlotInv, TurnInv
  <2>2. Settled(s)
    BY <1>1, <1>2, <2>1 DEF Settled
  <2>3. nsent - 1 < Len(tape)
    BY <1>1, <2>1, <2>2 DEF SlotInv, SettledInv
  <2> QED BY <1>1, <2>3
<1>3. CASE ~(nsent > 0)
  BY <1>1, <1>3
<1> QED BY <1>2, <1>3

LEMMA AbstractInit == Init => Abstract!Init
BY DEF Init, Abstract!Init

LEMMA AbstractStep == SlotInv /\ [Step]_vars => [Abstract!Step]_(Abstract!vars)
<1> SUFFICES ASSUME SlotInv, [Step]_vars PROVE [Abstract!Step]_(Abstract!vars)
  OBVIOUS
<1> DEFINE status == IF mpc = "ended" THEN verdict ELSE "open"
<1>0. UNCHANGED <<nsent, tape, status>> => UNCHANGED Abstract!vars
  BY DEF Abstract!vars
<1>1. CASE SendRequest \/ Replay
  <2>1. mpc = "fill" /\ mpc' = "data" /\ nsent < MaxReq /\ nsent' = nsent + 1 /\ tape' = tape
    BY <1>1 DEF SendRequest, Replay, Send, medium
  <2>2. nsent - Len(tape) < N
    BY <2>1, WindowOpen
  <2>3. Abstract!Submit
    BY <2>1, <2>2 DEF Abstract!Submit
  <2> QED BY <2>3 DEF Abstract!Step
<1>2. ASSUME NEW s \in Slaves, WriteTape(s) PROVE Abstract!Step
  <2>1. mpc # "ended" /\ mpc' = mpc /\ nsent' = nsent
    BY <1>2 DEF WriteTape, Goto, SlotInv, VerdictInv, Live, master
  <2>2. \E out \in Outcomes : tape' = Append(tape, [req |-> Len(tape), out |-> out])
    BY <1>2, TapeGrows
  <2>3. Len(tape) < nsent
    BY <1>2, TapeGrows
  <2>4. Abstract!Write
    BY <2>1, <2>2, <2>3 DEF Abstract!Write, Abstract!Outcomes, Outcomes
  <2> QED BY <2>4 DEF Abstract!Step
<1>3. CASE WaitForSlaves
  <2>1. /\ mpc = "wait" /\ mpc' = "ended" /\ verdict' = verdict
        /\ UNCHANGED <<nsent, tape>>
    BY <1>3 DEF WaitForSlaves, medium
  <2>2. Len(tape) = nsent /\ verdict \in Passed
    BY <2>1, AllWritten DEF SlotInv, VerdictInv
  <2>3. Abstract!Close
    BY <2>1, <2>2 DEF Abstract!Close, Passed
  <2> QED BY <2>3 DEF Abstract!Step
<1>4. ASSUME NEW v \in {"rewrite", "abort"}, Stop(v), mpc # "ended" PROVE Abstract!Step
  <2>1. mpc' = "ended" /\ verdict' = v /\ UNCHANGED <<nsent, tape>>
    BY <1>4 DEF Stop, medium
  <2>2. Abstract!Abandon
    BY <1>4, <2>1 DEF Abstract!Abandon
  <2> QED BY <2>2 DEF Abstract!Step
<1>5. CASE QuitAtEot \/ QuitAtStart \/ AnswerRewrite \/ AnswerAbort \/ AbortOnSignal
  BY <1>4, <1>5 DEF QuitAtEot, QuitAtStart, AnswerRewrite, AnswerAbort, AbortOnSignal
<1>6. CASE \/ EndOfDump \/ FinishSend \/ ReadResult \/ Drain
           \/ CloseSlot \/ CloseDone \/ AnswerNextTape
  <2>1. mpc # "ended" /\ mpc' # "ended" /\ UNCHANGED <<nsent, tape>>
    BY <1>6 DEF EndOfDump, FinishSend, ReadResult, Drain, CloseSlot, CloseDone, AnswerNextTape,
                medium
  <2> QED BY <1>0, <2>1
<1>7. ASSUME NEW s \in Slaves, Slave(s), ~WriteTape(s) PROVE UNCHANGED <<nsent, tape, status>>
  BY <1>7 DEF Slave, Boot, GetRequest, EndOfRequests, LockPoint1, ReadBlocks, QuitSlave,
              LockPoint2, Reply, Kick, master, medium
<1>8. CASE UNCHANGED vars
  BY <1>0, <1>8 DEF vars, master, medium
<1> QED BY <1>0, <1>1, <1>2, <1>3, <1>5, <1>6, <1>7, <1>8 DEF Step, Serve, Terminated

(* To the rest of dump the ring of processes, sockets and signals is a      *)
(* writer that puts the requests on the tape in order, each once, never     *)
(* more than N behind, and ends a volume that goes on only when all are     *)
(* there.  (That every request is written in the end is liveness: TLC.)     *)
THEOREM RingIsVolumeWriter == Spec => Abstract!Safety
BY AbstractInit, AbstractStep, SlotInit, SlotStep, PTL DEF Spec, Abstract!Safety

=============================================================================
