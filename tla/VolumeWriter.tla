---------------------------- MODULE VolumeWriter ----------------------------
(***************************************************************************)
(* What the master of a dump relies on while it fills one volume           *)
(* (src/dump/tape.c): requests go to the tape in the order in which they   *)
(* are handed over, each is written once, and at most N of them are        *)
(* handed over and not yet written - the N the master can still replay.    *)
(* The processes, sockets and signals that bring this about are in         *)
(* SlaveRing; DumpVolumes builds on what is promised here.                 *)
(***************************************************************************)
EXTENDS Integers, Sequences

CONSTANTS N,        \* slots, SLAVES in slave.h
          MaxReq    \* bound: requests of one volume

VARIABLES submitted,  \* requests handed over
          tape,       \* what each write did, in order
          status      \* "open", or how the volume ended

vars == <<submitted, tape, status>>

Outcomes == {"ok", "eot", "err"}

Init == submitted = 0 /\ tape = << >> /\ status = "open"

Submit == /\ status = "open"
          /\ submitted < MaxReq
          /\ submitted - Len(tape) < N
          /\ submitted' = submitted + 1
          /\ UNCHANGED <<tape, status>>

Write == /\ status = "open"
         /\ Len(tape) < submitted
         /\ \E out \in Outcomes :
               tape' = Append(tape, [req |-> Len(tape), out |-> out])
         /\ UNCHANGED <<submitted, status>>

(* The volume is complete, or left for the next one, only when everything   *)
(* that was handed over went to the tape.  It is rewritten or the dump is   *)
(* aborted at any time.                                                     *)
Close == /\ status = "open"
         /\ Len(tape) = submitted
         /\ status' \in {"finished", "full", "rollforward"}
         /\ UNCHANGED <<submitted, tape>>

Abandon == /\ status = "open"
           /\ status' \in {"rewrite", "abort"}
           /\ UNCHANGED <<submitted, tape>>

Step == Submit \/ Write \/ Close \/ Abandon

Safety == Init /\ [][Step]_vars

Spec == Safety /\ WF_vars(Write)
=============================================================================
