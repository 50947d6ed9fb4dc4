----------------------------- MODULE OtaMetadata -----------------------------
(***************************************************************************)
(* The metadata value of the OTA system and its mutators                   *)
(* (third_party/portable_ota/pota_metadata.c).  The sequence number and    *)
(* the CRCs belong to the store (MetadataStore); a slot's recorded size    *)
(* and CRC are abstracted to the image they describe.  Fields that are     *)
(* only reported (rollback_count, boot_generation, boot_capabilities,      *)
(* last_boot_source_slot, sizes and CRCs of the last boot, copy_written,   *)
(* copy_attempts) are left out.                                            *)
(***************************************************************************)
EXTENDS Naturals

CONSTANTS Images,    \* the firmware images
          NoImage    \* a slot whose size was never recorded

ASSUME NoImageAssumption == NoImage \notin Images

Slots == {"A", "B"}
Modes == {"COPY_TO_ACTIVE", "DIRECT_AB"}
Results == {"NONE", "APPLIED", "NO_PENDING", "STAGE_VALIDATE_FAILED",
            "ACTIVE_VALIDATE_FAILED", "COPY_FAILED", "MAX_ATTEMPTS"}
TxnStates == {"NONE", "STARTED", "ERASED_ACTIVE", "PROGRAMMING", "VERIFYING",
              "DONE", "FAILED"}

(* A mutant: one attempt too few.                                          *)
MaxBootAttemptsTwo == 2

MaxBootAttempts == 3

Meta == [mode      : Modes,
         active    : Slots,
         pending   : Slots \cup {"NONE"},
         confirmed : Slots,
         previous  : Slots \cup {"NONE"},
         attempts  : 0..MaxBootAttempts,
         result    : Results,
         image     : [Slots -> Images \cup {NoImage}],
         txn       : TxnStates,
         txnImage  : Images \cup {NoImage}]

Other(s) == IF s = "A" THEN "B" ELSE "A"

(* pota_metadata_set_default, with the boot mode the build starts in.      *)
DefaultMeta(mode) ==
  [mode |-> mode, active |-> "A", pending |-> "NONE", confirmed |-> "A",
   previous |-> "NONE", attempts |-> 0, result |-> "NONE",
   image |-> [s \in Slots |-> NoImage], txn |-> "NONE", txnImage |-> NoImage]

(* A mutant: the upload goes to the active slot.                           *)
TargetSlotActive(m) == m.active

(* A mutant: the upload goes to slot B, as it does without A/B slots.      *)
TargetSlotB(m) == "B"

(* The slot the next upload goes to (pota_select_target_slot).             *)
TargetSlot(m) == IF m.mode = "DIRECT_AB" THEN Other(m.active) ELSE "B"
-----------------------------------------------------------------------------
MarkPending(m, s, i) ==
  [m EXCEPT !.pending = s, !.attempts = 0, !.result = "NONE", !.image[s] = i]

CanConfirm(m) == m.pending = "NONE" /\ m.result = "APPLIED"

ConfirmActive(m) ==
  [m EXCEPT !.confirmed = m.active, !.pending = "NONE", !.attempts = 0,
            !.result = "APPLIED"]

RecordResult(m, result, clear) ==
  [m EXCEPT !.result = result,
            !.pending = IF clear THEN "NONE" ELSE @,
            !.attempts = IF clear THEN 0 ELSE @]

IncrementAttempts(m) == [m EXCEPT !.attempts = @ + 1]

(* The comparison every boot path makes with the attempt limit.            *)
TriesLeft(m) == m.attempts < MaxBootAttempts
-----------------------------------------------------------------------------
(* A mutant: applying an image confirms it.                                *)
ApplyDirectConfirms(m) ==
  [m EXCEPT !.previous = m.active, !.active = m.pending,
            !.confirmed = m.pending, !.pending = "NONE",
            !.attempts = @ + 1, !.result = "APPLIED"]

(* Direct A/B.                                                             *)
ApplyDirect(m) ==
  [m EXCEPT !.previous = m.active, !.active = m.pending, !.pending = "NONE",
            !.attempts = @ + 1, !.result = "APPLIED"]

RollbackDirect(m, reason, slot) ==
  [m EXCEPT !.active = slot, !.previous = m.active, !.pending = "NONE",
            !.attempts = 0, !.result = reason]
-----------------------------------------------------------------------------
(* The copy transaction, always from slot B to slot A.                     *)
BeginCopy(m) == [m EXCEPT !.txn = "STARTED", !.txnImage = m.image["B"]]

UpdateCopy(m, state) == [m EXCEPT !.txn = state]

ApplyCopyDone(m) ==
  [m EXCEPT !.active = "A", !.confirmed = "A", !.pending = "NONE",
            !.attempts = 0, !.result = "APPLIED", !.image["A"] = m.image["B"],
            !.txn = "NONE", !.txnImage = NoImage]
=============================================================================
