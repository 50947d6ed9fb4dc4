----------------------------- MODULE FlashLockout -----------------------------
(***************************************************************************)
(* The multicore build: core 1 executes its service loop from flash, and   *)
(* core 0 must not erase or program flash meanwhile.  drv_flash.c parks    *)
(* core 1 in a RAM-resident loop with three flags: online, request, ack.   *)
(*                                                                         *)
(* A writer is one of the places in core 0 that call drv_flash_erase or    *)
(* drv_flash_program: the OTA session, which takes FLASH from the resource *)
(* arbiter first, and the commit, the USB mode setting and the metadata    *)
(* store behind it, which do not.  In the bare-metal build the writers run *)
(* one after the other in one loop; under FreeRTOS they are tasks that     *)
(* preempt each other, except while interrupts are off.                    *)
(***************************************************************************)
EXTENDS Naturals

CONSTANTS Writers,      \* callers of the flash driver on core 0
          Arbitrated,   \* those that acquire FLASH from the arbiter first
          NoOne,        \* FLASH is free
          Preemptive,   \* are the writers FreeRTOS tasks?
          SlowPoll      \* may a wait loop run out within the poll of core 1?

ASSUME LockoutAssumption ==
  /\ Arbitrated \subseteq Writers
  /\ NoOne \notin Writers
  /\ Preemptive \in BOOLEAN
  /\ SlowPoll \in BOOLEAN

VARIABLES online, request, ack,   \* s_core1_lockout_*
          core1,    \* where core 1 is; "run" is code in flash
          isr,      \* is core 1 in the DMA interrupt handler, in flash?
          armed,    \* has core 1 enabled that interrupt (SEQ or ENC armed)?
          pc,       \* where each writer is in the driver
          flash     \* who holds the FLASH resource

flags == <<online, request, ack>>
c1 == <<core1, isr, armed>>
vars == <<online, request, ack, core1, isr, armed, pc, flash>>

Core1Stages == {"run", "poll", "acking", "parked", "leaving"}
Stages == {"idle", "begin", "wait", "write", "bare", "end", "drain"}

(* flash_range_erase and flash_range_program run with interrupts off.      *)
Writing(w) == pc[w] \in {"write", "bare"}
-----------------------------------------------------------------------------
(* drv_flash_core1_lockout_poll, one action per access to a flag.          *)
PollEnter ==
  /\ core1 = "run" /\ ~isr
  /\ online' = TRUE
  /\ core1' = "poll"
  /\ UNCHANGED <<request, ack, isr, armed, pc, flash>>

PollRequest ==
  /\ core1 = "poll" /\ ~isr
  /\ core1' = IF request THEN "acking" ELSE "run"
  /\ UNCHANGED <<flags, isr, armed, pc, flash>>

PollAck ==
  /\ core1 = "acking" /\ ~isr
  /\ ack' = TRUE
  /\ core1' = "parked"
  /\ UNCHANGED <<online, request, isr, armed, pc, flash>>

PollReleased ==
  /\ core1 = "parked" /\ ~isr
  /\ ~request
  /\ core1' = "leaving"
  /\ UNCHANGED <<flags, isr, armed, pc, flash>>

(* A mutant: the acknowledgement stays.                                    *)
PollLeaveAcked ==
  /\ core1 = "leaving" /\ ~isr
  /\ core1' = "run"
  /\ UNCHANGED <<flags, isr, armed, pc, flash>>

PollLeave ==
  /\ core1 = "leaving" /\ ~isr
  /\ ack' = FALSE
  /\ core1' = "run"
  /\ UNCHANGED <<online, request, isr, armed, pc, flash>>

(* The trigger service on core 1 arms or disarms a mode, which enables or  *)
(* disables the DMA interrupt on the core that runs it.                    *)
Arm ==
  /\ core1 = "run" /\ ~isr
  /\ armed' = ~armed
  /\ UNCHANGED <<flags, core1, isr, pc, flash>>

(* sync_io_core_dma_irq_handler on core 1.                                 *)
Interrupt ==
  /\ online
  /\ isr \/ armed
  /\ isr' = ~isr
  /\ UNCHANGED <<flags, core1, armed, pc, flash>>
-----------------------------------------------------------------------------
(* May core 0 run writer w?                                                *)
Scheduled(w) ==
  /\ \A v \in Writers \ {w} : ~Writing(v)
  /\ Preemptive \/ \A v \in Writers \ {w} : pc[v] = "idle"

At(w, stage) == pc[w] = stage /\ Scheduled(w)
Go(w, stage) == pc' = [pc EXCEPT ![w] = stage]
Return(w) ==
  /\ Go(w, "idle")
  /\ flash' = IF w \in Arbitrated THEN NoOne ELSE flash

(* A caller acquires FLASH, if it is one that does, and enters the driver. *)
Call(w) ==
  /\ At(w, "idle")
  /\ IF w \in Arbitrated
     THEN flash = NoOne /\ flash' = w
     ELSE UNCHANGED flash
  /\ Go(w, "begin")
  /\ UNCHANGED <<flags, c1>>

(* drv_flash_begin_write.                                                  *)
BeginWrite(w) ==
  /\ At(w, "begin")
  /\ IF online
     THEN request' = TRUE /\ Go(w, "wait")
     ELSE UNCHANGED request /\ Go(w, "bare")
  /\ UNCHANGED <<online, ack, c1, flash>>

Acknowledged(w) ==
  /\ At(w, "wait")
  /\ ack
  /\ Go(w, "write")
  /\ UNCHANGED <<flags, c1, flash>>

(* The wait loop ran out.  It is far longer than the poll and an interrupt *)
(* handler, so core 1 is in its service, unless SlowPoll.                  *)
GiveUp(w) ==
  /\ At(w, "wait")
  /\ ~ack
  /\ core1 = "run" \/ SlowPoll
  /\ request' = FALSE
  /\ Return(w)
  /\ UNCHANGED <<online, ack, c1>>

(* The flash operation ends and interrupts come back.                      *)
Written(w) ==
  /\ Writing(w) /\ Scheduled(w)
  /\ Go(w, "end")
  /\ UNCHANGED <<flags, c1, flash>>

(* A mutant: the request stays.                                            *)
EndWriteRequested(w) ==
  /\ At(w, "end")
  /\ Go(w, "drain")
  /\ UNCHANGED <<flags, c1, flash>>

(* drv_flash_end_write.                                                    *)
EndWrite(w) ==
  /\ At(w, "end")
  /\ request' = FALSE
  /\ Go(w, "drain")
  /\ UNCHANGED <<online, ack, c1, flash>>

(* A mutant: end_write does not wait.                                      *)
DrainedNoWait(w) ==
  /\ At(w, "drain")
  /\ Return(w)
  /\ UNCHANGED <<flags, c1>>

(* The second wait loop; its budget too is longer than the poll.           *)
Drained(w) ==
  /\ At(w, "drain")
  /\ ~ack \/ SlowPoll
  /\ Return(w)
  /\ UNCHANGED <<flags, c1>>
-----------------------------------------------------------------------------
Init ==
  /\ online = FALSE /\ request = FALSE /\ ack = FALSE
  /\ core1 = "run" /\ isr = FALSE /\ armed = FALSE
  /\ pc = [w \in Writers |-> "idle"]
  /\ flash = NoOne

Poll == PollEnter \/ PollRequest \/ PollAck \/ PollReleased \/ PollLeave

Proceed(w) ==
  \/ BeginWrite(w) \/ Acknowledged(w) \/ GiveUp(w) \/ Written(w)
  \/ EndWrite(w) \/ Drained(w)

Next == Poll \/ Arm \/ Interrupt \/ \E w \in Writers : Call(w) \/ Proceed(w)

(* Core 1 loops without waiting and its handler returns, however often it  *)
(* interrupts; a writer inside the driver goes on.                         *)
Spec ==
  /\ Init /\ [][Next]_vars
  /\ SF_vars(Poll) /\ WF_vars(isr /\ Interrupt)
  /\ \A w \in Writers : WF_vars(Proceed(w))
-----------------------------------------------------------------------------
(* The types of the state.                                                 *)
TypeOK ==
  /\ online \in BOOLEAN /\ request \in BOOLEAN /\ ack \in BOOLEAN
  /\ core1 \in Core1Stages /\ isr \in BOOLEAN /\ armed \in BOOLEAN
  /\ pc \in [Writers -> Stages]
  /\ flash \in Writers \cup {NoOne}

(* While core 0 erases or programs flash, the loop of core 1 is parked in  *)
(* RAM, if it had ever polled when the write began: a stale                *)
(* acknowledgement of the write before never lets the next one through.    *)
(* The interrupt handler is another matter: parking does not stop it.      *)
ParkedWhileWriting == \A w \in Writers : pc[w] = "write" => core1 = "parked"

(* Core 1 always gets back to its service, whatever core 0 writes.         *)
Core1Resumes == []<>(core1 = "run")

(* Every call of the driver returns.                                       *)
WriteEnds == \A w \in Writers : pc[w] = "begin" ~> pc[w] = "idle"
=============================================================================
