------------------------------ MODULE OtaDevice ------------------------------
(***************************************************************************)
(* One device through its firmware updates: the two application slots in   *)
(* flash, the metadata store, the bootloader (bootloader_main.c) and the   *)
(* OTA service of the application (ota_fb.c over pota_core.c), with power  *)
(* loss between any two flash operations.                                  *)
(*                                                                         *)
(* pc names the point the running program has reached.  Every point of     *)
(* the bootloader between two flash operations is a stage of its own;      *)
(* while a store is under way (wr # "idle") pc names the stage that        *)
(* started it, and AfterStore gives the stage that follows its success or  *)
(* failure.  A slot is Erased, Partial (its vector table is plausible but  *)
(* it is no complete image: cut short or corrupted) or a complete image.   *)
(***************************************************************************)
EXTENDS OtaMetadata

CONSTANTS Factory,        \* the image programmed into slot A at production
          Linked,         \* the slot each image is linked for
          Erased, Partial,
          DefaultMode,    \* boot mode of a blank metadata area (build option)
          DefaultSeq,     \* its sequence number
          Torn,
          BootFaults,     \* may flash operations fail in the bootloader?
          LossLimit,      \* power is steady once a copy was tried this often
          MaxSeq          \* bound on the metadata history

DefaultRec == [seq |-> DefaultSeq, val |-> DefaultMeta(DefaultMode), ext |-> TRUE]

ASSUME DeviceAssumption ==
  /\ Factory \in Images
  /\ Linked \in [Images -> Slots]
  /\ Erased \notin Images /\ Partial \notin Images /\ Erased # Partial
  /\ DefaultMode \in Modes
  /\ DefaultSeq \in Nat
  /\ Torn \notin [seq : Nat, val : Meta, ext : BOOLEAN]
  /\ BootFaults \in BOOLEAN
  /\ LossLimit \in Nat
  /\ MaxSeq \in Nat

VARIABLES copies, ram, wr,   \* the metadata store
          flash,      \* contents of the two slots
          pc,         \* the stage the running program has reached
          reason,     \* the failure a copy transaction is about to record
          running,    \* the slot jumped to
          ses,        \* the upload session (pota_context_t)
          vec,        \* the state the OTA service shows (ota_vector_t.state)
          trusted,    \* history: images a host has confirmed while they ran
          rule        \* history: do hosts confirm before they upload again?

storeVars == <<copies, ram, wr>>
appVars == <<ses, vec>>
vars == <<copies, ram, wr, flash, pc, reason, running, ses, vec, trusted, rule>>

AppStages == {"app", "mark", "confirm"}

Owner == IF pc = "off" THEN "off" ELSE IF pc \in AppStages THEN "app" ELSE "boot"

Store == INSTANCE MetadataStore WITH
  Payload <- Meta,
  Upgraded <- [m \in Meta |-> m],
  Legacy <- {},
  owner <- Owner

meta == ram.val                          \* what the bootloader decides on
loaded == Store!Load(copies)             \* what the application loads
Room == loaded.seq < MaxSeq
-----------------------------------------------------------------------------
(* Mutants: a check without the CRC, and checks against a fixed base.      *)
CrcValidNoCrc(s, i, run) == i # NoImage /\ Linked[i] = run
CrcValidBaseA(s, i, run) == i # NoImage /\ flash[s] = i /\ Linked[i] = "A"
CrcValidBaseSlot(s, i, run) == i # NoImage /\ flash[s] = i /\ Linked[i] = s

(* The two image checks of the bootloader.                                 *)
CrcValid(s, i, run) == i # NoImage /\ flash[s] = i /\ Linked[i] = run
VectorValid(s) == flash[s] # Erased

(* bootloader_direct_slot_is_bootable                                      *)
Bootable(m, s) ==
  IF m.image[s] # NoImage THEN CrcValid(s, m.image[s], s) ELSE VectorValid(s)

(* bootloader_select_direct_rollback_slot                                  *)
RollbackSlot(m) ==
  IF Bootable(m, m.confirmed) THEN m.confirmed
  ELSE IF m.previous # "NONE" /\ Bootable(m, m.previous) THEN m.previous
  ELSE "NONE"

(* bootloader_active_app_is_valid                                          *)
FallbackValid(m) ==
  IF m.active = "A" /\ m.image["A"] # NoImage
  THEN CrcValid("A", m.image["A"], "A")
  ELSE VectorValid("A")
-----------------------------------------------------------------------------
(* Where the bootloader goes on once the store of a stage has ended.       *)
Branch(ok, fail) == [ok |-> ok, fail |-> fail]

AfterStore ==
  [direct_reject     |-> Branch("direct_prepare", "direct_prepare"),
   direct_apply      |-> Branch("direct_boot", "direct_prepare"),
   direct_rollback   |-> Branch("direct_boot", "fallback"),
   direct_count      |-> Branch("direct_boot", "fallback"),
   copy_reject       |-> Branch("fallback", "fallback"),
   copy_start        |-> Branch("copy_count", "fallback"),
   copy_count        |-> Branch("copy_validate", "copy_validate"),
   copy_erased       |-> Branch("copy_programming", "copy_failed"),
   copy_programming  |-> Branch("copy_program", "copy_failed"),
   copy_progress     |-> Branch("copy_program", "copy_failed"),
   copy_copied       |-> Branch("copy_verifying", "copy_failed"),
   copy_verifying    |-> Branch("copy_verify", "fallback"),
   copy_done         |-> Branch("copy_apply", "fallback"),
   copy_apply        |-> Branch("fallback", "fallback"),
   copy_fail         |-> Branch("copy_fail_result", "copy_fail_result"),
   copy_fail_result  |-> Branch("fallback", "fallback")]

StoreStages == DOMAIN AfterStore

Stages == {"off", "hang", "direct_pending", "direct_prepare", "direct_boot",
           "fallback", "copy_pending", "copy_validate", "copy_erase",
           "copy_program", "copy_verify", "copy_failed"}
          \cup StoreStages \cup AppStages

(* A bootloader stage stores a mutation of the image in RAM.               *)
BootStore(stage, m) ==
  /\ Store!StartStore(Store!Mutate(ram, m))
  /\ pc' = stage

Goto(stage) == pc' = stage /\ UNCHANGED storeVars

(* The bootloader computes between flash operations.                       *)
Deciding(stage) == pc = stage /\ wr = "idle"

(* A decision touches neither the slots nor anything of the application.   *)
BootOnly == UNCHANGED <<flash, running, ses, vec, trusted, rule>>
-----------------------------------------------------------------------------
(* main: load the metadata and branch on the boot mode.                    *)
BootLoad ==
  /\ pc = "off"
  /\ ram' = loaded
  /\ pc' = IF loaded.val.mode = "DIRECT_AB" THEN "direct_pending"
                                            ELSE "copy_pending"
  /\ UNCHANGED <<copies, wr, reason>> /\ BootOnly

(* bootloader_apply_direct_ab_pending                                      *)
DirectPending ==
  /\ Deciding("direct_pending")
  /\ IF meta.pending = "NONE"
     THEN Goto("direct_prepare")
     ELSE IF ~TriesLeft(meta)
     THEN BootStore("direct_reject", RecordResult(meta, "MAX_ATTEMPTS", TRUE))
     ELSE IF ~CrcValid(meta.pending, meta.image[meta.pending], meta.pending)
     THEN BootStore("direct_reject",
                    RecordResult(meta, "STAGE_VALIDATE_FAILED", TRUE))
     ELSE BootStore("direct_apply", ApplyDirect(meta))
  /\ UNCHANGED reason /\ BootOnly

(* bootloader_direct_rollback                                              *)
Rollback(why) ==
  IF RollbackSlot(meta) = "NONE"
  THEN Goto("fallback")
  ELSE BootStore("direct_rollback", RollbackDirect(meta, why, RollbackSlot(meta)))

(* A mutant: an active image that checks out is booted without counting.   *)
DirectPrepareUncounted ==
  /\ Deciding("direct_prepare")
  /\ IF \/ meta.active = meta.confirmed
        \/ CrcValid(meta.active, meta.image[meta.active], meta.active)
     THEN Goto("direct_boot")
     ELSE Rollback("ACTIVE_VALIDATE_FAILED")
  /\ UNCHANGED reason /\ BootOnly

(* bootloader_prepare_direct_active_boot                                   *)
DirectPrepare ==
  /\ Deciding("direct_prepare")
  /\ IF meta.active = meta.confirmed
     THEN Goto("direct_boot")
     ELSE IF ~TriesLeft(meta)
     THEN Rollback("MAX_ATTEMPTS")
     ELSE IF ~CrcValid(meta.active, meta.image[meta.active], meta.active)
     THEN Rollback("ACTIVE_VALIDATE_FAILED")
     ELSE BootStore("direct_count", IncrementAttempts(meta))
  /\ UNCHANGED reason /\ BootOnly

Jump(s) ==
  /\ pc' = "app"
  /\ running' = s
  /\ UNCHANGED <<copies, ram, wr, flash, reason, ses, vec, trusted, rule>>

DirectBoot ==
  /\ Deciding("direct_boot")
  /\ IF Bootable(meta, meta.active)
     THEN Jump(meta.active)
     ELSE Goto("fallback") /\ UNCHANGED reason /\ BootOnly

Fallback ==
  /\ Deciding("fallback")
  /\ IF FallbackValid(meta)
     THEN Jump("A")
     ELSE Goto("hang") /\ UNCHANGED reason /\ BootOnly
-----------------------------------------------------------------------------
(* bootloader_apply_pending_image: the copy transaction.                   *)
CopyPending ==
  /\ Deciding("copy_pending")
  /\ IF meta.pending = "NONE"
     THEN Goto("fallback") /\ UNCHANGED reason
     ELSE IF meta.pending # "B"
     THEN /\ BootStore("copy_reject", RecordResult(meta, "NO_PENDING", TRUE))
          /\ UNCHANGED reason
     ELSE IF /\ meta.txn = "DONE"
             /\ meta.txnImage = meta.image["B"]
             /\ CrcValid("A", meta.image["B"], "A")
     THEN BootStore("copy_apply", ApplyCopyDone(meta)) /\ UNCHANGED reason
     ELSE IF meta.image["B"] = NoImage \/ ~TriesLeft(meta)
     THEN Goto("copy_failed") /\ reason' = "MAX_ATTEMPTS"
     ELSE BootStore("copy_start", BeginCopy(meta)) /\ UNCHANGED reason
  /\ BootOnly

CopyCount ==
  /\ Deciding("copy_count")
  /\ BootStore("copy_count", IncrementAttempts(meta))
  /\ UNCHANGED reason /\ BootOnly

CopyValidate ==
  /\ Deciding("copy_validate")
  /\ IF CrcValid("B", meta.image["B"], "A")
     THEN Goto("copy_erase") /\ UNCHANGED reason
     ELSE Goto("copy_failed") /\ reason' = "STAGE_VALIDATE_FAILED"
  /\ BootOnly

(* Erase or program slot A: the contents it leaves and the stage that      *)
(* follows; a failed operation ends the copy.                              *)
BootOutcomes == IF BootFaults THEN BOOLEAN ELSE {TRUE}

CopyFlash(contents, next) ==
  /\ \E ok \in BootOutcomes :
       /\ flash' = [flash EXCEPT !["A"] = IF ok THEN contents
                                          ELSE IF contents = Erased THEN Erased
                                          ELSE Partial]
       /\ pc' = IF ok THEN next ELSE "copy_failed"
       /\ reason' = IF ok THEN reason ELSE "COPY_FAILED"
  /\ UNCHANGED <<copies, ram, wr, running, ses, vec, trusted, rule>>

CopyErase == Deciding("copy_erase") /\ CopyFlash(Erased, "copy_erased")

(* The programming loop: a part that may be followed by a store of the     *)
(* progress, then the rest.                                                *)
CopyProgramPart ==
  /\ Deciding("copy_program")
  /\ flash["A"] = Erased
  /\ \E next \in {"copy_program", "copy_progress"} : CopyFlash(Partial, next)

CopyProgramRest == Deciding("copy_program") /\ CopyFlash(flash["B"], "copy_copied")

CopyVerify ==
  /\ Deciding("copy_verify")
  /\ IF CrcValid("A", meta.image["B"], "A")
     THEN Goto("copy_done") /\ UNCHANGED reason
     ELSE Goto("copy_failed") /\ reason' = "ACTIVE_VALIDATE_FAILED"
  /\ BootOnly

(* The stages that do nothing but store the state of the transaction.      *)
CopyNote(stage, m) ==
  /\ Deciding(stage)
  /\ BootStore(stage, m)
  /\ UNCHANGED reason /\ BootOnly

CopyNotes ==
  \/ CopyNote("copy_erased", UpdateCopy(meta, "ERASED_ACTIVE"))
  \/ CopyNote("copy_programming", UpdateCopy(meta, "PROGRAMMING"))
  \/ CopyNote("copy_progress", UpdateCopy(meta, "PROGRAMMING"))
  \/ CopyNote("copy_copied", UpdateCopy(meta, "PROGRAMMING"))
  \/ CopyNote("copy_verifying", UpdateCopy(meta, "VERIFYING"))
  \/ CopyNote("copy_done", UpdateCopy(meta, "DONE"))
  \/ CopyNote("copy_apply", ApplyCopyDone(meta))

(* bootloader_store_copy_failure: the transaction, if there is one, then   *)
(* the boot result; the pending flag stays.                                *)
CopyFailed ==
  /\ Deciding("copy_failed")
  /\ IF meta.txn # "NONE"
     THEN BootStore("copy_fail", UpdateCopy(meta, "FAILED"))
     ELSE Goto("copy_fail_result")
  /\ UNCHANGED reason /\ BootOnly

CopyFailResult ==
  /\ Deciding("copy_fail_result")
  /\ BootStore("copy_fail_result", RecordResult(meta, reason, FALSE))
  /\ reason' = "NONE"
  /\ BootOnly
-----------------------------------------------------------------------------
(* The session before any upload.  The data of a session that is not open  *)
(* for an upload are never read again, so they are cleared with it.        *)
Closed(st) == [st |-> st, hdr |-> "raw", tgt |-> "B", run |-> "B",
               img |-> NoImage, got |-> "nothing"]

Accepting == {"IDLE", "ABORTED", "FAILED", "COMMITTED"}

(* The OTA service handles one event at a time, in an application that is  *)
(* complete: what a cut-off image does is not modelled.                    *)
Serving == pc = "app" /\ wr = "idle" /\ flash[running] \in Images

(* Every call into the session copies its state to the vector.             *)
Session(s) == ses' = s /\ vec' = s.st
NoStore == UNCHANGED <<copies, ram, wr, pc, reason, running, trusted>>
AppOnly == NoStore /\ UNCHANGED rule

(* ota_fb_handle_begin, pota_core_begin_action: permitted is the answer of *)
(* the arbiter and of the size checks.  Nothing in the code keeps a host   *)
(* from uploading over the confirmed image while another one is on trial:  *)
(* that breaks the rule.                                                   *)
Begin ==
  /\ Serving
  /\ \E i \in Images, package \in BOOLEAN, permitted \in BOOLEAN :
       LET m == loaded.val
           t == TargetSlot(m) IN
       IF vec \in Accepting /\ permitted
       THEN Session([st  |-> IF package THEN "RECEIVING" ELSE "CHECK_PERMISSION",
                     hdr |-> IF package THEN "awaited" ELSE "raw",
                     tgt |-> t,
                     run |-> IF m.mode = "DIRECT_AB" THEN t ELSE "A",
                     img |-> i, got |-> "nothing"])
       ELSE vec' = "FAILED" /\ UNCHANGED ses
  /\ rule' = IF vec' # "FAILED" /\ loaded.val.active # loaded.val.confirmed
             THEN "broken" ELSE rule
  /\ UNCHANGED flash /\ NoStore

(* ota_fb_handle_tick, pota_core_service_action, pota_erase_one_step.      *)
Tick ==
  /\ Serving
  /\ vec \in {"CHECK_PERMISSION", "ERASE_SLOT"}
  /\ IF ses.st = "CHECK_PERMISSION"
     THEN Session([ses EXCEPT !.st = "ERASE_SLOT"]) /\ UNCHANGED flash
     ELSE \/ /\ \E st \in {"ERASE_SLOT", "RECEIVING"} :
                  Session([ses EXCEPT !.st = st])
             /\ flash' = [flash EXCEPT ![ses.tgt] = Erased]
          \/ /\ Session(Closed("FAILED"))
             /\ \E c \in {flash[ses.tgt], Erased} :
                  flash' = [flash EXCEPT ![ses.tgt] = c]
  /\ AppOnly

(* pota_core_write_action, the header block of a package.                  *)
WriteHeader ==
  /\ Serving
  /\ ses.st = "RECEIVING" /\ ses.hdr = "awaited"
  /\ \E valid \in BOOLEAN :
       IF valid /\ Linked[ses.img] = ses.run
       THEN Session([ses EXCEPT !.st = "CHECK_PERMISSION", !.hdr = "parsed"])
       ELSE Session(Closed("FAILED"))
  /\ UNCHANGED flash /\ AppOnly

(* pota_core_write_action, a block of data: it programs a part of the      *)
(* image, the end of the image with more of the package to come, the end   *)
(* of the transfer, or the end of a transfer damaged on the way.           *)
WriteData ==
  /\ Serving
  /\ ses.st = "RECEIVING" /\ ses.hdr # "awaited"
  /\ ses.got \in {"nothing", "part"}
  /\ \E got \in {"part", "all", "damaged"},
        c \in {flash[ses.tgt], Partial, ses.img} :
       /\ got = "all" => c = ses.img
       /\ got = "damaged" => c = Partial
       /\ got = "part" /\ c = ses.img => ses.hdr = "parsed"
       /\ got = "part" /\ c # ses.img => c = Partial
       /\ flash[ses.tgt] = ses.img => c = ses.img
       /\ Session([ses EXCEPT !.got = got])
       /\ flash' = [flash EXCEPT ![ses.tgt] = c]
  /\ AppOnly

(* ota_fb_handle_data on an empty or oversized block: the session does not *)
(* hear of it.                                                             *)
DataRefused ==
  /\ Serving
  /\ vec' = "FAILED"
  /\ UNCHANGED <<ses, flash>> /\ AppOnly

(* A block that fails in the session: wrong state, more than was announced,*)
(* or the flash operation failed (or the arbiter did not grant it).        *)
WriteFails ==
  /\ Serving
  /\ Session(Closed("FAILED"))
  /\ \E c \in {flash[ses.tgt], Partial} :
       /\ c = Partial => ses.st = "RECEIVING" /\ flash[ses.tgt] \notin Images
       /\ flash' = [flash EXCEPT ![ses.tgt] = c]
  /\ AppOnly

(* pota_core_end_action up to mark_pending.                                *)
End ==
  /\ Serving
  /\ \E granted \in BOOLEAN :
       IF /\ ses.st = "RECEIVING" /\ ses.got = "all"
          /\ Linked[ses.img] = ses.run
          /\ granted
       THEN /\ Room
            /\ Store!StartStore(Store!Mutate(loaded,
                 MarkPending(loaded.val, ses.tgt, ses.img)))
            /\ pc' = "mark"
            /\ UNCHANGED appVars
       ELSE Session(Closed("FAILED")) /\ UNCHANGED <<copies, ram, wr, pc>>
  /\ UNCHANGED <<flash, reason, running, trusted, rule>>

(* ota_fb_handle_abort: whatever the session does.                         *)
Abort ==
  /\ Serving
  /\ Session(Closed("ABORTED"))
  /\ UNCHANGED flash /\ AppOnly

(* ota_fb_handle_commit up to the store.                                   *)
Commit ==
  /\ Serving
  /\ IF CanConfirm(loaded.val)
     THEN /\ Room
          /\ Store!StartStore(Store!Mutate(loaded, ConfirmActive(loaded.val)))
          /\ pc' = "confirm"
          /\ UNCHANGED vec
     ELSE vec' = "FAILED" /\ UNCHANGED <<copies, ram, wr, pc>>
  /\ UNCHANGED <<flash, reason, running, ses, trusted, rule>>
-----------------------------------------------------------------------------
(* What follows the flash operation that ends a store.  A confirmation of  *)
(* the active image by itself restores the rule.                           *)
Continue(ok) ==
  /\ pc' = IF pc \in StoreStages
           THEN IF ok THEN AfterStore[pc].ok ELSE AfterStore[pc].fail
           ELSE "app"
  /\ reason' = IF pc' = "copy_failed" THEN "COPY_FAILED" ELSE reason
  /\ CASE pc = "mark" /\ ok  -> Session(Closed("READY_TO_REBOOT"))
       [] pc = "mark" /\ ~ok -> Session(Closed("FAILED"))
       [] pc = "confirm" -> /\ vec' = IF ok THEN "COMMITTED" ELSE "FAILED"
                            /\ UNCHANGED ses
       [] OTHER -> UNCHANGED appVars
  /\ trusted' = IF pc = "confirm" /\ ok THEN trusted \cup {flash[running]}
                ELSE trusted
  /\ rule' = IF pc = "confirm" /\ ok /\ running = ram.val.active THEN "kept"
             ELSE rule

(* The flash operations of the store under way.                            *)
FlashStep ==
  /\ \/ Store!EraseCopy /\ UNCHANGED <<pc, reason, ses, vec, trusted, rule>>
     \/ Store!ProgramCopy /\ Continue(TRUE)
     \/ Store!FailStore /\ (Owner = "app" \/ BootFaults) /\ Continue(FALSE)
  /\ UNCHANGED <<flash, running>>

Off ==
  /\ pc' = "off"
  /\ wr' = "idle"
  /\ ram' = DefaultRec
  /\ reason' = "NONE"
  /\ running' = "NONE"
  /\ Session(Closed("IDLE"))
  /\ UNCHANGED <<copies, flash, trusted, rule>>

(* ota_fb_handle_boot: refused unless an image was staged, else a reset by *)
(* the watchdog.                                                           *)
Boot ==
  /\ Serving
  /\ IF vec = "READY_TO_REBOOT"
     THEN Off
     ELSE vec' = "FAILED" /\ UNCHANGED <<ses, flash>> /\ AppOnly

(* Power may fail at any time, except as LossLimit says.                   *)
PowerLoss ==
  /\ pc # "off"
  /\ Room
  /\ Owner = "boot" /\ meta.mode = "COPY_TO_ACTIVE" /\ meta.pending # "NONE"
       => meta.attempts < LossLimit
  /\ Off
-----------------------------------------------------------------------------
Init ==
  /\ copies = [i \in 0..1 |-> Torn]
  /\ flash = [s \in Slots |-> IF s = "A" THEN Factory ELSE Erased]
  /\ pc = "off" /\ wr = "idle" /\ ram = DefaultRec
  /\ reason = "NONE" /\ running = "NONE"
  /\ ses = Closed("IDLE") /\ vec = "IDLE"
  /\ trusted = {Factory} /\ rule = "kept"

Bootloader ==
  \/ BootLoad
  \/ DirectPending \/ DirectPrepare \/ DirectBoot \/ Fallback
  \/ CopyPending \/ CopyCount \/ CopyValidate \/ CopyErase
  \/ CopyProgramPart \/ CopyProgramRest \/ CopyVerify
  \/ CopyNotes \/ CopyFailed \/ CopyFailResult

Application ==
  \/ Begin \/ Tick \/ WriteHeader \/ WriteData \/ DataRefused \/ WriteFails
  \/ End \/ Abort \/ Commit \/ Boot

Next == Bootloader \/ Application \/ FlashStep \/ PowerLoss

(* The bootloader is one loop without waits, and a flash operation ends.   *)
Spec == Init /\ [][Next]_vars /\ WF_vars(Bootloader) /\ WF_vars(FlashStep)
-----------------------------------------------------------------------------
(* The types of the device's state.                                        *)
TypeOK ==
  /\ Store!TypeOK
  /\ flash \in [Slots -> Images \cup {Erased, Partial}]
  /\ pc \in Stages
  /\ reason \in Results
  /\ running \in Slots \cup {"NONE"}
  /\ ses.st \in {"IDLE", "CHECK_PERMISSION", "ERASE_SLOT", "RECEIVING",
                 "READY_TO_REBOOT", "ABORTED", "FAILED"}
  /\ ses.tgt \in Slots /\ ses.run \in Slots
  /\ ses.img \in Images \cup {NoImage}
  /\ vec \in {"IDLE", "CHECK_PERMISSION", "ERASE_SLOT", "RECEIVING",
              "READY_TO_REBOOT", "COMMITTED", "ABORTED", "FAILED"}
  /\ trusted \subseteq Images
  /\ rule \in {"kept", "broken"}

(* The application runs a complete image, from the jump to the next reset: *)
(* no boot path jumps to a cut-off image and no upload erases the slot the *)
(* application executes from.  While an upload that broke the rule is not  *)
(* made up for by a confirmation, the last resort of the bootloader may be *)
(* what is left of it.                                                     *)
RunsWholeImage ==
  rule = "kept" /\ pc \in AppStages => flash[running] \in Images

(* Under direct A/B the confirmed slot holds an image some host confirmed  *)
(* while it ran (or the factory image): an upload does not erase the image *)
(* a rollback returns to, and no unconfirmed image becomes the confirmed   *)
(* one - unless a host began an upload from an image still on trial, and   *)
(* then until the image that runs from the active slot is confirmed.       *)
ConfirmedIsTrusted ==
  rule = "kept" /\ loaded.val.mode = "DIRECT_AB" =>
    flash[loaded.val.confirmed] \in trusted

(* The metadata says APPLIED only while the active slot holds, complete,   *)
(* the image it records; a last resort that runs another slot than the     *)
(* active one, which takes a broken rule, may have it overwritten.         *)
AppliedIsTrue ==
  rule = "kept" /\ loaded.val.result = "APPLIED" =>
    flash[loaded.val.active] = loaded.val.image[loaded.val.active]

(* Once resets stop, and the rule is kept, an application runs.            *)
EndsUpRunning ==
  <>[](pc # "off" /\ rule = "kept") => <>[](pc \in AppStages)

(* A boot that finds a complete staged image, and attempts left, ends up   *)
(* running it, unless power fails again.                                   *)
StagedImageRuns ==
  \A s \in Slots :
    (/\ pc \in {"direct_pending", "copy_pending"}
     /\ meta.pending = s /\ flash[s] = meta.image[s]
     /\ meta.attempts < MaxBootAttempts)
    ~> (pc = "off" \/ (pc = "app" /\ flash[running] = loaded.val.image[s]))

(* An image that nobody confirms is rolled back: a device that is reset    *)
(* again and again, without a new upload and without a confirmation, does  *)
(* not keep running an untrusted image, if the rule is kept.               *)
UnconfirmedRollsBack ==
  /\ []<>(pc = "off") /\ []<>(pc \in AppStages)
  /\ <>[](ses.st = "IDLE") /\ <>[](pc # "confirm") /\ <>[](rule = "kept")
  => []<>(pc \in AppStages /\ flash[running] \in trusted)
=============================================================================
