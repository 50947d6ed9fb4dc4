------------------------- MODULE FlashLockout_proofs -------------------------
(***************************************************************************)
(* The lockout handshake of the bare-metal multicore build, for any set of *)
(* callers of the flash driver.                                            *)
(***************************************************************************)
EXTENDS FlashLockout, TLAPS

(* The callers run one after the other, and the wait loops last longer     *)
(* than the poll of core 1.                                                *)
Sequential == Preemptive = FALSE /\ SlowPoll = FALSE

(* At most one writer is in the driver.                                    *)
OneWriter == \A v, w \in Writers : pc[v] # "idle" /\ pc[w] # "idle" => v = w

Some(stages) == \E w \in Writers : pc[w] \in stages

(* What the stages of core 1 and the flags say about the writer.           *)
Handshake ==
  /\ ack <=> core1 \in {"parked", "leaving"}
  /\ request => Some({"wait", "write", "end"})
  /\ core1 = "acking" => request /\ Some({"wait"})
  /\ core1 = "parked" => IF request THEN Some({"wait", "write", "end"})
                                    ELSE Some({"drain"})
  /\ core1 = "leaving" => ~request /\ Some({"drain"})
  /\ \A w \in Writers : pc[w] = "write" => request /\ core1 = "parked"
  /\ \A w \in Writers : pc[w] = "end" /\ request => core1 = "parked"

LockoutInv == TypeOK /\ OneWriter /\ Handshake
-----------------------------------------------------------------------------
LEMMA InitLockout == Init => LockoutInv
BY LockoutAssumption DEF Init, LockoutInv, TypeOK, OneWriter, Handshake, Some,
   Core1Stages, Stages

(* The steps of core 1.                                                    *)
LEMMA Core1Lockout ==
  ASSUME LockoutInv, Poll \/ Arm \/ Interrupt
  PROVE  LockoutInv'
<1> USE DEF LockoutInv, TypeOK, OneWriter, Handshake, Some, Core1Stages, Stages,
        flags, c1
<1>1. CASE PollEnter
  BY <1>1 DEF PollEnter
<1>2. CASE PollRequest
  <2>1. ASSUME NEW w \in Writers, pc[w] \in {"wait", "write", "end"}, request
        PROVE  pc[w] = "wait"
    BY <1>2, <2>1 DEF PollRequest
  <2> QED
    BY <1>2, <2>1 DEF PollRequest
<1>3. CASE PollAck
  BY <1>3 DEF PollAck
<1>4. CASE PollReleased
  BY <1>4 DEF PollReleased
<1>5. CASE PollLeave
  BY <1>5 DEF PollLeave
<1>6. CASE Arm
  BY <1>6 DEF Arm
<1>7. CASE Interrupt
  BY <1>7 DEF Interrupt
<1> QED
  BY <1>1, <1>2, <1>3, <1>4, <1>5, <1>6, <1>7 DEF Poll

(* The steps of a writer.                                                  *)
LEMMA WriterLockout ==
  ASSUME Sequential, LockoutInv, NEW w \in Writers, Call(w) \/ Proceed(w)
  PROVE  LockoutInv'
<1> USE DEF LockoutInv, TypeOK, OneWriter, Handshake, Some, Core1Stages, Stages,
        flags, c1, At, Go, Return, Scheduled, Writing, Sequential
<1>0. /\ \A v \in Writers \ {w} : pc[v] = "idle" /\ pc'[v] = "idle"
      /\ pc'[w] \in Stages /\ pc' = [pc EXCEPT ![w] = pc'[w]]
      /\ flash' \in Writers \cup {NoOne}
  BY DEF Call, Proceed, BeginWrite, Acknowledged, GiveUp, Written, EndWrite, Drained
<1>1. CASE Call(w)
  BY <1>0, <1>1 DEF Call
<1>2. CASE BeginWrite(w)
  BY <1>0, <1>2 DEF BeginWrite
<1>3. CASE Acknowledged(w)
  BY <1>0, <1>3 DEF Acknowledged
<1>4. CASE GiveUp(w)
  BY <1>0, <1>4 DEF GiveUp
<1>5. CASE Written(w)
  BY <1>0, <1>5 DEF Written
<1>6. CASE EndWrite(w)
  BY <1>0, <1>6 DEF EndWrite
<1>7. CASE Drained(w)
  BY <1>0, <1>7 DEF Drained
<1> QED
  BY <1>1, <1>2, <1>3, <1>4, <1>5, <1>6, <1>7 DEF Proceed

(* The handshake as an invariant of the specification.                     *)
THEOREM LockoutInvariant == ASSUME Sequential PROVE Spec => [](LockoutInv /\ TypeOK)
<1>1. LockoutInv /\ [Next]_vars => LockoutInv'
  <2>1. CASE UNCHANGED vars
    BY <2>1 DEF LockoutInv, TypeOK, OneWriter, Handshake, Some, vars
  <2> QED
    BY <2>1, Core1Lockout, WriterLockout DEF Next
<1>2. LockoutInv => TypeOK
  BY DEF LockoutInv
<1> QED
  BY InitLockout, <1>1, <1>2, PTL DEF Spec

(* In the bare-metal build core 1 is parked while core 0 writes flash.     *)
THEOREM LockoutParks == ASSUME Sequential PROVE Spec => []ParkedWhileWriting
<1>1. LockoutInv => ParkedWhileWriting
  BY DEF LockoutInv, Handshake, ParkedWhileWriting
<1> QED
  BY LockoutInvariant, <1>1, PTL
=============================================================================
