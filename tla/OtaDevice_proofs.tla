-------------------------- MODULE OtaDevice_proofs --------------------------
(***************************************************************************)
(* Proofs about OtaDevice under direct A/B: for every set of images, every *)
(* linking of them and every length of history, with power loss between    *)
(* any two flash operations and failing flash operations in the            *)
(* application, the application runs a complete image, the confirmed slot  *)
(* holds an image some host confirmed, and APPLIED tells the truth -       *)
(* outside the time from an upload that a host begins in an image still on *)
(* trial to the confirmation of the image that runs from the active slot.  *)
(*                                                                         *)
(* The store's own invariant and lemmas are those of MetadataStore_proofs, *)
(* reused through SP with the device's Owner as the program that runs.     *)
(***************************************************************************)
EXTENDS OtaDevice, TLAPS

(* The store proved in MetadataStore_proofs, as the device uses it.        *)
SP == INSTANCE MetadataStore_proofs WITH
  Payload <- Meta,
  Upgraded <- [m \in Meta |-> m],
  Legacy <- {},
  owner <- Owner

(* The metadata the newest record in flash holds.                          *)
stored == SP!Newest(copies).val

(* The types of the upload session and of the service's vector.            *)
Sessions == [st  : {"IDLE", "CHECK_PERMISSION", "ERASE_SLOT", "RECEIVING",
                    "READY_TO_REBOOT", "ABORTED", "FAILED"},
             hdr : {"raw", "awaited", "parsed"},
             tgt : Slots, run : Slots, img : Images \cup {NoImage},
             got : {"nothing", "part", "all", "damaged"}]

Vectors == {"IDLE", "CHECK_PERMISSION", "ERASE_SLOT", "RECEIVING",
            "READY_TO_REBOOT", "COMMITTED", "ABORTED", "FAILED"}

(* The stages direct A/B passes through; DirectStores are those with a     *)
(* store of the metadata under way.                                        *)
DirectStores == {"direct_reject", "direct_apply", "direct_rollback",
                 "direct_count", "mark", "confirm"}
LastResort == {"fallback", "hang"}
DirectStages == {"off", "direct_pending", "direct_prepare", "direct_boot", "app"}
                \cup LastResort \cup DirectStores

(* The types of what the store does not keep.                              *)
Types ==
  /\ flash \in [Slots -> Images \cup {Erased, Partial}]
  /\ reason \in Results
  /\ running \in Slots \cup {"NONE"}
  /\ ses \in Sessions
  /\ vec \in Vectors
  /\ trusted \subseteq Images
  /\ rule \in {"kept", "broken"}

(* Slot s of the flash f holds the image the metadata m records for it,    *)
(* linked for it, if m records any.                                        *)
Matches(m, f, s) ==
  m.image[s] # NoImage => f[s] = m.image[s] /\ Linked[f[s]] = s

(* It holds a complete image.                                              *)
Holds(m, f, s) == f[s] \in Images /\ Matches(m, f, s)

(* Metadata that can be stored at any time: APPLIED is only said of a slot *)
(* whose image is recorded.                                                *)
Sane(m) ==
  /\ m.mode = "DIRECT_AB"
  /\ m.result = "APPLIED" => m.image[m.active] # NoImage

(* Metadata m a boot may rely on: the confirmed slot holds a trusted image *)
(* and the active slot a complete one.                                     *)
Good(m, f, T) ==
  /\ f[m.confirmed] \in T
  /\ Holds(m, f, m.active) /\ Holds(m, f, m.confirmed)

(* The images trusted once the store under way has ended.                  *)
Vouched == IF pc = "confirm" THEN trusted \cup {flash[running]} ELSE trusted

(* Will the rule be kept once the store under way has ended?               *)
WillKeep == rule = "kept" \/ (pc = "confirm" /\ running = ram.val.active)

(* While the rule is kept the stored metadata are good, and so are those a *)
(* store is about to replace them with: power may fail on either side of   *)
(* the program that ends it.                                               *)
TrustInv ==
  /\ Sane(stored)
  /\ rule = "kept" => Good(stored, flash, trusted)
  /\ wr # "idle" => Sane(ram.val)
  /\ wr # "idle" /\ WillKeep => Good(ram.val, flash, Vouched)

(* A store is under way in exactly the stages that start one.  The         *)
(* application runs the active slot unless the rule was broken, and what   *)
(* it stores does not move it.                                             *)
StageInv ==
  /\ pc \in DirectStages
  /\ wr # "idle" <=> pc \in DirectStores
  /\ pc \in LastResort => rule = "broken"
  /\ pc \in AppStages /\ rule = "kept" => running = stored.active
  /\ pc \in {"mark", "confirm"} =>
       /\ ram.val.active = stored.active
       /\ ram.val.image[stored.active] = stored.image[stored.active]
  /\ pc = "confirm" => /\ ram.val.confirmed = stored.active
                       /\ flash[running] \in Images

(* The application that runs the active slot runs the image recorded for   *)
(* it, whatever became of the rule.                                        *)
RunInv ==
  pc \in AppStages /\ running = stored.active => Matches(stored, flash, running)

(* An upload is only open in an application, and it goes to the slot that  *)
(* is not active; while the rule is kept, that slot is not the confirmed   *)
(* one.                                                                    *)
UploadInv ==
  /\ ses.st \in {"CHECK_PERMISSION", "ERASE_SLOT", "RECEIVING"} =>
       /\ pc \in AppStages
       /\ rule = "kept" => stored.active = stored.confirmed
       /\ ses.tgt = Other(stored.active)
       /\ ses.img \in Images
  /\ vec \in {"CHECK_PERMISSION", "ERASE_SLOT"} => ses.st = vec

(* The inductive invariant.                                                *)
IInv == SP!StoreInv /\ Types /\ TrustInv /\ StageInv /\ RunInv /\ UploadInv
-----------------------------------------------------------------------------
(* The build the theorems are about: direct A/B from the first boot, and   *)
(* flash operations that do not fail in the bootloader (the store's RAM    *)
(* image would then run ahead of the flash).                               *)
Direct == DefaultMode = "DIRECT_AB" /\ BootFaults = FALSE

(* The factory metadata are metadata.                                      *)
LEMMA DefaultMetaType == ASSUME NEW m \in Modes PROVE DefaultMeta(m) \in Meta
BY DEF DefaultMeta, Meta, Slots, Results, TxnStates, MaxBootAttempts

(* The assumptions of the store and of its proofs hold here.               *)
LEMMA StoreAssumption == SP!RecAssumption /\ (Direct => SP!Sound)
BY DeviceAssumption, DefaultMetaType
DEF SP!RecAssumption, SP!Rec, DefaultRec, Direct, SP!Sound

(* Store and SP are the same store: their operators agree.                 *)
LEMMA SameStore ==
  ASSUME NEW c, NEW r, NEW v
  PROVE  /\ Store!Newest(c) = SP!Newest(c)
         /\ Store!Load(c) = SP!Load(c)
         /\ Store!Mutate(r, v) = SP!Mutate(r, v)
         /\ Store!CopyIndex(r) = SP!CopyIndex(r)
BY DEF Store!Newest, SP!Newest, Store!Load, SP!Load, Store!Upgrade, SP!Upgrade,
       Store!Mutate, SP!Mutate, Store!CopyIndex, SP!CopyIndex

(* Their flash steps agree.                                                *)
LEMMA SameSteps ==
  /\ Store!EraseCopy <=> SP!EraseCopy
  /\ Store!ProgramCopy <=> SP!ProgramCopy
  /\ Store!FailStore <=> SP!FailStore
  /\ \A r : Store!StartStore(r) <=> SP!StartStore(r)
  /\ Store!TypeOK <=> SP!TypeOK
BY SameStore
DEF Store!EraseCopy, Store!ProgramCopy, Store!FailStore, Store!StartStore,
    SP!EraseCopy, SP!ProgramCopy, SP!FailStore, SP!StartStore,
    Store!TypeOK, SP!TypeOK, Store!Rec, SP!Rec

(* What the newest record is, and that a load returns it unchanged.        *)
LEMMA StoredType ==
  ASSUME SP!StoreInv
  PROVE  /\ copies \in SP!Sectors /\ SP!InPlace(copies)
         /\ SP!Newest(copies) \in SP!Rec /\ stored \in Meta
         /\ SP!Load(copies) = SP!Newest(copies)
         /\ loaded = SP!Newest(copies)
         /\ ram \in SP!Rec /\ ram.val \in Meta
<1>1. copies \in SP!Sectors /\ SP!InPlace(copies) /\ ram \in SP!Rec
  BY DEF SP!StoreInv, SP!TypeOK, SP!Sectors, SP!Rec
<1>2. SP!Newest(copies) \in SP!Rec
  BY <1>1, SP!NewestType, StoreAssumption DEF SP!Rec
<1>3. SP!Newest(copies).ext = TRUE
  BY <1>1, SP!NewestIsOurs, StoreAssumption
<1>4. SP!Load(copies) = SP!Newest(copies)
  BY <1>1, <1>3, SP!LoadIsNewest, StoreAssumption
<1>5. loaded = SP!Newest(copies)
  BY <1>4, SameStore DEF loaded
<1> QED
  BY <1>1, <1>2, <1>4, <1>5 DEF SP!Rec, stored

(* The steps of the device, as steps of the store: none of its business.   *)
LEMMA StoreUnchanged ==
  ASSUME Direct, SP!StoreInv, UNCHANGED storeVars, UNCHANGED Owner
  PROVE  SP!StoreInv' /\ stored' = stored
<1>1. SP!StoreInv'
  BY SP!NextInv, StoreAssumption DEF SP!vars, storeVars
<1> QED
  BY <1>1 DEF stored, SP!Newest, storeVars

(* The bootloader loads.                                                   *)
LEMMA StoreLoad ==
  ASSUME Direct, SP!StoreInv, Owner = "off", Owner' = "boot",
         ram' = loaded, UNCHANGED <<copies, wr>>
  PROVE  SP!StoreInv' /\ stored' = stored /\ ram'.val = stored
<1>1. SP!BootLoad
  BY SameStore DEF SP!BootLoad, loaded
<1>2. SP!StoreInv'
  BY <1>1, SP!NextInv, StoreAssumption DEF SP!Next
<1> QED
  BY <1>2, StoredType DEF stored, SP!Newest

(* The bootloader jumps to the application.                                *)
LEMMA StoreHandOver ==
  ASSUME Direct, SP!StoreInv, Owner = "boot", Owner' = "app", wr = "idle",
         UNCHANGED storeVars
  PROVE  SP!StoreInv' /\ stored' = stored
<1>1. SP!HandOver
  BY DEF SP!HandOver, storeVars
<1>2. SP!StoreInv'
  BY <1>1, SP!NextInv, StoreAssumption DEF SP!Next
<1> QED
  BY <1>2 DEF stored, SP!Newest, storeVars

(* A store begins: nothing stored changes yet.                             *)
LEMMA StoreStart ==
  ASSUME Direct, SP!StoreInv, Owner # "off", UNCHANGED Owner, NEW v \in Meta,
         Store!StartStore(Store!Mutate(SP!Newest(copies), v))
  PROVE  /\ SP!StoreInv' /\ stored' = stored
         /\ wr = "idle" /\ wr' = "erase" /\ ram'.val = v
<1>1. SP!StartStore(SP!Mutate(SP!Newest(copies), v))
  BY SameStore, SameSteps
<1>2. SP!StoreInv' /\ copies' = copies
  BY <1>1, StoredType, SP!StartStoreInv, StoreAssumption
<1>3. wr = "idle" /\ wr' = "erase" /\ ram'.val = v
  BY <1>1 DEF SP!StartStore, SP!Mutate
<1> QED
  BY <1>2, <1>3 DEF stored, SP!Newest

(* The erase of the older sector.                                          *)
LEMMA StoreErase ==
  ASSUME Direct, SP!StoreInv, UNCHANGED Owner, Store!EraseCopy
  PROVE  /\ SP!StoreInv' /\ stored' = stored
         /\ wr = "erase" /\ wr' = "program" /\ ram' = ram
<1>1. SP!EraseCopy
  BY SameSteps
<1>2. SP!StoreInv'
  BY <1>1, SP!NextInv, StoreAssumption DEF SP!Next, SP!FlashStep
<1>3. wr = "erase" /\ wr' = "program" /\ ram' = ram
  BY <1>1 DEF SP!EraseCopy
<1>4. SP!Newest(copies') = SP!Newest(copies)
  BY <1>1, <1>3, StoredType, StoreAssumption, SP!EraseKeepsNewest
  DEF SP!EraseCopy, SP!StoreInv, SP!InFlight
<1> QED
  BY <1>2, <1>3, <1>4 DEF stored

(* The program that ends a store: the record in RAM is the stored one.     *)
LEMMA StoreProgram ==
  ASSUME Direct, SP!StoreInv, UNCHANGED Owner, Store!ProgramCopy
  PROVE  /\ SP!StoreInv' /\ stored' = ram.val
         /\ wr = "program" /\ wr' = "idle" /\ ram' = ram
<1>1. SP!ProgramCopy
  BY SameSteps
<1>2. SP!StoreInv'
  BY <1>1, SP!NextInv, StoreAssumption DEF SP!Next, SP!FlashStep
<1>3. wr = "program" /\ wr' = "idle" /\ ram' = ram
  BY <1>1 DEF SP!ProgramCopy
<1>4. SP!Newest(copies') = ram
  BY <1>1, <1>3, StoredType, StoreAssumption, SP!ProgramMakesNewest
  DEF SP!ProgramCopy, SP!StoreInv, SP!InFlight
<1> QED
  BY <1>2, <1>3, <1>4 DEF stored

(* A flash operation that fails leaves the stored record.                  *)
LEMMA StoreFail ==
  ASSUME Direct, SP!StoreInv, UNCHANGED Owner, Owner = "app", Store!FailStore
  PROVE  /\ SP!StoreInv' /\ stored' = stored
         /\ wr # "idle" /\ wr' = "idle" /\ ram' = ram
<1>1. SP!FailStore
  BY SameSteps
<1>2. SP!StoreInv'
  BY <1>1, SP!NextInv, StoreAssumption DEF SP!Next, SP!FlashStep
<1>3. wr # "idle" /\ wr' = "idle" /\ ram' = ram
  BY <1>1 DEF SP!FailStore
<1>4. SP!Newest(copies') = SP!Newest(copies)
  <2>1. CASE copies' = copies
    BY <2>1 DEF SP!Newest
  <2>2. CASE /\ copies' = [copies EXCEPT ![SP!CopyIndex(ram)] = Torn]
             /\ wr = "erase"
    BY <2>2, StoredType, StoreAssumption, SP!EraseKeepsNewest
    DEF SP!StoreInv, SP!InFlight
  <2>3. CASE /\ copies' = [copies EXCEPT ![SP!CopyIndex(ram)] = Torn]
             /\ wr = "program"
    <3>1. copies[SP!CopyIndex(ram)] = Torn
      BY <2>3 DEF SP!StoreInv, SP!InFlight
    <3>2. copies' = copies
      BY <2>3, <3>1, StoredType DEF SP!Sectors
    <3> QED
      BY <2>1, <3>2
  <2> QED
    BY <1>1, <2>1, <2>2, <2>3 DEF SP!FailStore
<1> QED
  BY <1>2, <1>3, <1>4 DEF stored

(* Power loss leaves the stored record.                                    *)
LEMMA StoreOff ==
  ASSUME Direct, SP!StoreInv, Owner # "off", Owner' = "off", wr' = "idle",
         ram' = DefaultRec, UNCHANGED copies
  PROVE  SP!StoreInv' /\ stored' = stored
<1>1. SP!PowerLoss
  BY DEF SP!PowerLoss
<1>2. SP!StoreInv'
  BY <1>1, SP!NextInv, StoreAssumption DEF SP!Next
<1> QED
  BY <1>2 DEF stored, SP!Newest
-----------------------------------------------------------------------------
(* The types of the fields of the metadata.                                *)
LEMMA MetaType ==
  ASSUME NEW m \in Meta
  PROVE  /\ m.active \in Slots /\ m.confirmed \in Slots
         /\ m.pending \in Slots \cup {"NONE"}
         /\ m.attempts \in 0..MaxBootAttempts
         /\ m.result \in Results
         /\ m.image \in [Slots -> Images \cup {NoImage}]
BY DEF Meta

(* A fresh attempt count and the two results of success are in range.      *)
LEMMA NoAttempts ==
  0 \in 0..MaxBootAttempts /\ {"NONE", "APPLIED"} \subseteq Results
BY DEF MaxBootAttempts, Results

(* Recording the failure of a staged image keeps the metadata good.        *)
LEMMA RecordResultGood ==
  ASSUME NEW m \in Meta, NEW r \in Results \ {"APPLIED"}, NEW f, NEW T,
         Sane(m)
  PROVE  /\ RecordResult(m, r, TRUE) \in Meta
         /\ Sane(RecordResult(m, r, TRUE))
         /\ Good(m, f, T) => Good(RecordResult(m, r, TRUE), f, T)
<1>1. RecordResult(m, r, TRUE) =
        [m EXCEPT !.result = r, !.pending = "NONE", !.attempts = 0]
  BY DEF RecordResult
<1>2. RecordResult(m, r, TRUE) \in Meta
  BY <1>1, NoAttempts DEF Meta
<1> QED
  BY <1>1, <1>2 DEF Sane, Good, Holds, Matches, Meta

(* So does counting a boot attempt, while attempts are left.               *)
LEMMA CountGood ==
  ASSUME NEW m \in Meta, NEW f, NEW T, Sane(m), TriesLeft(m)
  PROVE  /\ IncrementAttempts(m) \in Meta
         /\ Sane(IncrementAttempts(m))
         /\ Good(m, f, T) => Good(IncrementAttempts(m), f, T)
<1>1. m.attempts + 1 \in 0..MaxBootAttempts
  BY MetaType DEF TriesLeft, MaxBootAttempts
<1>2. IncrementAttempts(m) = [m EXCEPT !.attempts = m.attempts + 1]
  BY DEF IncrementAttempts
<1>3. IncrementAttempts(m) \in Meta
  BY <1>1, <1>2 DEF Meta
<1> QED
  BY <1>2, <1>3 DEF Sane, Good, Holds, Matches, Meta

(* So does applying a staged image that checks out.                        *)
LEMMA ApplyGood ==
  ASSUME NEW m \in Meta, NEW T, Sane(m), TriesLeft(m),
         m.pending \in Slots,
         CrcValid(m.pending, m.image[m.pending], m.pending)
  PROVE  /\ ApplyDirect(m) \in Meta
         /\ Sane(ApplyDirect(m))
         /\ Good(m, flash, T) => Good(ApplyDirect(m), flash, T)
<1>1. m.attempts + 1 \in 0..MaxBootAttempts
  BY MetaType DEF TriesLeft, MaxBootAttempts
<1>2. ApplyDirect(m) =
        [m EXCEPT !.previous = m.active, !.active = m.pending,
                  !.pending = "NONE", !.attempts = m.attempts + 1,
                  !.result = "APPLIED"]
  BY DEF ApplyDirect
<1>3. ApplyDirect(m) \in Meta
  BY <1>1, <1>2 DEF Meta, Results
<1>4. Holds(m, flash, m.pending) /\ m.image[m.pending] # NoImage
  BY MetaType DEF CrcValid, Holds, Matches
<1>5. /\ ApplyDirect(m).mode = m.mode /\ ApplyDirect(m).image = m.image
      /\ ApplyDirect(m).confirmed = m.confirmed
      /\ ApplyDirect(m).active = m.pending
  BY <1>2 DEF Meta
<1> QED
  BY <1>3, <1>4, <1>5 DEF Sane, Good, Holds, Matches

(* A rollback leaves sane metadata, and good ones if it goes to the        *)
(* confirmed slot.                                                         *)
LEMMA RollbackGood ==
  ASSUME NEW m \in Meta, NEW f, NEW T, Sane(m),
         NEW r \in Results \ {"APPLIED"}, NEW s \in Slots
  PROVE  /\ RollbackDirect(m, r, s) \in Meta
         /\ Sane(RollbackDirect(m, r, s))
         /\ Good(m, f, T) /\ s = m.confirmed => Good(RollbackDirect(m, r, s), f, T)
<1>1. RollbackDirect(m, r, s) =
        [m EXCEPT !.active = s, !.previous = m.active,
                  !.pending = "NONE", !.attempts = 0, !.result = r]
  BY DEF RollbackDirect
<1>2. RollbackDirect(m, r, s) \in Meta
  BY <1>1, NoAttempts DEF Meta
<1> QED
  BY <1>1, <1>2 DEF Sane, Good, Holds, Matches, Meta

(* Staging an image in a slot that is not active leaves sane metadata, and *)
(* good ones if the slot is not the confirmed one either.                  *)
LEMMA StageGood ==
  ASSUME NEW m \in Meta, NEW f, NEW T, Sane(m),
         NEW s \in Slots, s # m.active, NEW i \in Images
  PROVE  /\ MarkPending(m, s, i) \in Meta
         /\ Sane(MarkPending(m, s, i))
         /\ Good(m, f, T) /\ s # m.confirmed => Good(MarkPending(m, s, i), f, T)
         /\ MarkPending(m, s, i).active = m.active
         /\ MarkPending(m, s, i).image[m.active] = m.image[m.active]
<1>1. MarkPending(m, s, i) =
        [m EXCEPT !.pending = s, !.attempts = 0, !.result = "NONE",
                  !.image = [m.image EXCEPT ![s] = i]]
  BY DEF MarkPending
<1>2. [m.image EXCEPT ![s] = i] \in [Slots -> Images \cup {NoImage}]
  BY MetaType
<1>3. MarkPending(m, s, i) \in Meta
  BY <1>1, <1>2, NoAttempts DEF Meta
<1>4. /\ MarkPending(m, s, i).mode = m.mode
      /\ MarkPending(m, s, i).confirmed = m.confirmed
      /\ MarkPending(m, s, i).active = m.active
      /\ MarkPending(m, s, i).result = "NONE"
      /\ MarkPending(m, s, i).image = [m.image EXCEPT ![s] = i]
  BY <1>1 DEF Meta
<1>5. /\ [m.image EXCEPT ![s] = i][m.active] = m.image[m.active]
      /\ s # m.confirmed =>
           [m.image EXCEPT ![s] = i][m.confirmed] = m.image[m.confirmed]
  BY MetaType
<1> QED
  BY <1>3, <1>4, <1>5 DEF Sane, Good, Holds, Matches

(* Confirming the active slot leaves good metadata whatever they were, if  *)
(* the slot holds the complete image recorded for it.                      *)
LEMMA ConfirmGood ==
  ASSUME NEW m \in Meta, NEW f, NEW T, Sane(m), CanConfirm(m)
  PROVE  /\ ConfirmActive(m) \in Meta
         /\ Sane(ConfirmActive(m))
         /\ Holds(m, f, m.active) =>
              Good(ConfirmActive(m), f, T \cup {f[m.active]})
         /\ ConfirmActive(m).active = m.active
         /\ ConfirmActive(m).confirmed = m.active
         /\ ConfirmActive(m).image = m.image
<1>1. ConfirmActive(m) =
        [m EXCEPT !.confirmed = m.active, !.pending = "NONE",
                  !.attempts = 0, !.result = "APPLIED"]
  BY DEF ConfirmActive
<1>2. ConfirmActive(m) \in Meta
  BY <1>1, NoAttempts DEF Meta
<1>3. /\ ConfirmActive(m).mode = m.mode
      /\ ConfirmActive(m).active = m.active
      /\ ConfirmActive(m).confirmed = m.active
      /\ ConfirmActive(m).image = m.image
      /\ m.result = "APPLIED"
  BY <1>1 DEF Meta, CanConfirm
<1> QED
  BY <1>2, <1>3 DEF Sane, Good, Holds, Matches

(* A slot that holds a complete image passes the bootloader's checks, and  *)
(* a slot that passes them holds the image recorded for it.                *)
LEMMA HeldIsBootable ==
  ASSUME NEW m \in Meta, NEW s \in Slots
  PROVE  /\ Holds(m, flash, s) => Bootable(m, s)
         /\ Bootable(m, s) => Matches(m, flash, s)
BY DeviceAssumption DEF Holds, Matches, Bootable, CrcValid, VectorValid

(* The last resort, too, runs the image recorded for slot A if A is        *)
(* active.                                                                 *)
LEMMA LastResortMatches ==
  ASSUME NEW m \in Meta, m.active = "A", FallbackValid(m)
  PROVE  Matches(m, flash, "A")
BY DEF FallbackValid, Matches, CrcValid

(* Only the active and the confirmed slot matter.                          *)
LEMMA GoodFrame ==
  ASSUME NEW m, NEW f, NEW g, NEW T, Good(m, f, T),
         g[m.active] = f[m.active], g[m.confirmed] = f[m.confirmed]
  PROVE  Good(m, g, T)
BY DEF Good, Holds, Matches
-----------------------------------------------------------------------------
(* Which program runs at which stage, and what the bootloader's image in   *)
(* RAM is between stores.                                                  *)
LEMMA OwnerOf ==
  ASSUME IInv
  PROVE  /\ Owner = "boot" <=> pc \notin {"off", "app", "mark", "confirm"}
         /\ Owner = "off" <=> pc = "off"
         /\ Owner = "app" <=> pc \in AppStages
         /\ Owner = "boot" /\ wr = "idle" =>
              ram = SP!Newest(copies) /\ meta = stored
BY StoredType DEF Owner, AppStages, IInv, SP!StoreInv, SP!InStep, meta, stored

(* A decision of the bootloader keeps the invariant if what it stores is   *)
(* sane, and good while the rule is kept.                                  *)
LEMMA BootOnlyInv ==
  ASSUME Direct, IInv, SP!StoreInv', stored' = stored, reason' \in Results,
         pc \notin AppStages, BootOnly,
         pc' \in DirectStages \ AppStages,
         pc' \in LastResort => rule = "broken",
         wr' # "idle" <=> pc' \in DirectStores,
         wr' # "idle" => Sane(ram'.val),
         wr' # "idle" /\ rule = "kept" => Good(ram'.val, flash, trusted)
  PROVE  IInv'
<1> USE DEF BootOnly
<1>1. Types'
  BY DEF IInv, Types
<1>2. TrustInv'
  BY DEF IInv, TrustInv, Vouched, WillKeep, AppStages
<1>3. StageInv' /\ RunInv'
  BY DEF IInv, StageInv, RunInv, AppStages
<1>4. UploadInv'
  BY DEF IInv, UploadInv
<1> QED
  BY <1>1, <1>2, <1>3, <1>4 DEF IInv

(* A decision that starts a store.                                         *)
LEMMA BootStoreInv ==
  ASSUME Direct, IInv, Owner = "boot", wr = "idle", NEW v \in Meta,
         NEW stage \in DirectStores \ AppStages,
         BootStore(stage, v), Sane(v),
         rule = "kept" => Good(v, flash, trusted),
         UNCHANGED reason, BootOnly
  PROVE  IInv'
<1>1. ram = SP!Newest(copies) /\ pc \notin AppStages
  BY OwnerOf DEF AppStages
<1>2. Owner' = "boot" /\ pc' = stage
  BY DEF BootStore, Owner, DirectStores, AppStages
<1>3. Store!StartStore(Store!Mutate(SP!Newest(copies), v))
  BY <1>1 DEF BootStore
<1>4. /\ SP!StoreInv' /\ stored' = stored
      /\ wr' = "erase" /\ ram'.val = v
  BY <1>2, <1>3, StoreStart DEF IInv
<1>5. reason' \in Results
  BY DEF IInv, Types
<1>6. pc' \in DirectStages \ AppStages /\ pc' \notin LastResort
  BY <1>2 DEF DirectStages, DirectStores, LastResort
<1> QED
  BY <1>1, <1>2, <1>4, <1>5, <1>6, BootOnlyInv

(* A decision that starts none.                                            *)
LEMMA GotoInv ==
  ASSUME Direct, IInv, Owner = "boot", wr = "idle",
         NEW stage \in {"direct_prepare", "direct_boot"} \cup LastResort,
         stage \in LastResort => rule = "broken",
         Goto(stage), UNCHANGED reason, BootOnly
  PROVE  IInv'
<1>1. pc \notin AppStages
  BY OwnerOf
<1>2. Owner' = "boot" /\ pc' = stage /\ UNCHANGED storeVars
  BY DEF Goto, Owner, LastResort, AppStages
<1>3. SP!StoreInv' /\ stored' = stored
  BY <1>2, StoreUnchanged DEF IInv
<1>4. reason' \in Results /\ wr' = "idle"
  BY <1>2 DEF IInv, Types, storeVars
<1>5. pc' \in DirectStages \ AppStages /\ pc' \notin DirectStores
  BY <1>2 DEF DirectStages, DirectStores, LastResort, AppStages
<1> QED
  BY <1>1, <1>2, <1>3, <1>4, <1>5, BootOnlyInv

(* The jump to a slot: the image recorded for it if it is the active one,  *)
(* which it is while the rule is kept.                                     *)
LEMMA JumpInv ==
  ASSUME Direct, IInv, Owner = "boot", wr = "idle", NEW s \in Slots, Jump(s),
         rule = "kept" => s = stored.active,
         s = stored.active => Matches(stored, flash, s)
  PROVE  IInv'
<1> USE DEF Jump
<1>1. Owner' = "app" /\ pc' = "app" /\ UNCHANGED storeVars
  BY DEF Owner, AppStages, storeVars
<1>2. SP!StoreInv' /\ stored' = stored
  BY <1>1, StoreHandOver DEF IInv
<1>3. Types'
  BY DEF IInv, Types
<1>4. TrustInv'
  BY <1>2 DEF IInv, TrustInv
<1>5. StageInv'
  BY <1>2 DEF IInv, StageInv, AppStages, DirectStages, DirectStores, LastResort
<1>6. RunInv'
  BY <1>2 DEF RunInv, Matches
<1>7. UploadInv'
  BY <1>2 DEF IInv, UploadInv, AppStages
<1> QED
  BY <1>2, <1>3, <1>4, <1>5, <1>6, <1>7 DEF IInv

(* What the bootloader decides on.                                         *)
LEMMA DecidingFacts ==
  ASSUME IInv, NEW stage, Deciding(stage),
         stage \notin {"off", "app", "mark", "confirm"}
  PROVE  /\ Owner = "boot" /\ wr = "idle" /\ meta = stored
         /\ meta \in Meta /\ Sane(meta)
         /\ rule = "kept" => Good(meta, flash, trusted)
BY OwnerOf, StoredType DEF Deciding, IInv, TrustInv

(* The bootloader's load: direct A/B is what it finds.                     *)
LEMMA BootLoadInv == ASSUME Direct, IInv, BootLoad PROVE IInv'
<1>1. Owner = "off" /\ pc \notin AppStages /\ wr = "idle"
  BY DEF BootLoad, Owner, AppStages, IInv, StageInv, DirectStores
<1>2. loaded.val = stored
  BY StoredType DEF IInv, stored
<1>3. pc' = "direct_pending" /\ ram' = loaded /\ UNCHANGED <<copies, wr, reason>>
  BY <1>2 DEF BootLoad, IInv, TrustInv, Sane
<1>4. Owner' = "boot"
  BY <1>3 DEF Owner, AppStages
<1>5. SP!StoreInv' /\ stored' = stored
  BY <1>1, <1>3, <1>4, StoreLoad DEF IInv
<1>6. BootOnly /\ reason' \in Results
  BY <1>3 DEF BootLoad, IInv, Types
<1>7. /\ pc' \in DirectStages \ AppStages
      /\ pc' \notin DirectStores /\ pc' \notin LastResort
  BY <1>3 DEF DirectStages, DirectStores, AppStages, LastResort
<1> QED
  BY <1>1, <1>3, <1>5, <1>6, <1>7, BootOnlyInv

(* Applying or rejecting a staged image.                                   *)
LEMMA DirectPendingInv == ASSUME Direct, IInv, DirectPending PROVE IInv'
<1>1. /\ Owner = "boot" /\ wr = "idle" /\ meta = stored
      /\ meta \in Meta /\ Sane(meta)
      /\ rule = "kept" => Good(meta, flash, trusted)
      /\ UNCHANGED reason /\ BootOnly
  BY DecidingFacts DEF DirectPending
<1>2. CASE Goto("direct_prepare")
  BY <1>1, <1>2, GotoInv DEF LastResort
<1>3. ASSUME NEW why \in Results \ {"APPLIED"},
             BootStore("direct_reject", RecordResult(meta, why, TRUE))
      PROVE IInv'
  <2>1. /\ RecordResult(meta, why, TRUE) \in Meta
        /\ Sane(RecordResult(meta, why, TRUE))
        /\ rule = "kept" => Good(RecordResult(meta, why, TRUE), flash, trusted)
    BY <1>1, RecordResultGood
  <2>2. "direct_reject" \in DirectStores \ AppStages
    BY DEF DirectStores, AppStages
  <2> QED
    BY <1>1, <1>3, <2>1, <2>2, BootStoreInv
<1>4. CASE /\ BootStore("direct_apply", ApplyDirect(meta))
           /\ meta.pending # "NONE" /\ TriesLeft(meta)
           /\ CrcValid(meta.pending, meta.image[meta.pending], meta.pending)
  <2>1. meta.pending \in Slots
    BY <1>1, <1>4, MetaType
  <2>2. /\ ApplyDirect(meta) \in Meta /\ Sane(ApplyDirect(meta))
        /\ rule = "kept" => Good(ApplyDirect(meta), flash, trusted)
    BY <1>1, <1>4, <2>1, ApplyGood
  <2>3. "direct_apply" \in DirectStores \ AppStages
    BY DEF DirectStores, AppStages
  <2> QED
    BY <1>1, <1>4, <2>2, <2>3, BootStoreInv
<1>5. {"MAX_ATTEMPTS", "STAGE_VALIDATE_FAILED"} \subseteq Results \ {"APPLIED"}
  BY DEF Results
<1> QED
  BY <1>2, <1>3, <1>4, <1>5 DEF DirectPending

(* Counting a boot of an unconfirmed slot, or rolling back: the confirmed  *)
(* slot is bootable while the rule is kept, so a rollback goes there.      *)
LEMMA DirectPrepareInv == ASSUME Direct, IInv, DirectPrepare PROVE IInv'
<1>1. /\ Owner = "boot" /\ wr = "idle" /\ meta = stored
      /\ meta \in Meta /\ Sane(meta)
      /\ rule = "kept" => Good(meta, flash, trusted)
      /\ UNCHANGED reason /\ BootOnly
  BY DecidingFacts DEF DirectPrepare
<1>2. CASE Goto("direct_boot")
  BY <1>1, <1>2, GotoInv DEF LastResort
<1>3. ASSUME NEW why \in Results \ {"APPLIED"}, Rollback(why) PROVE IInv'
  <2>1. rule = "kept" =>
          RollbackSlot(meta) = meta.confirmed /\ meta.confirmed # "NONE"
    BY <1>1, HeldIsBootable, MetaType DEF RollbackSlot, Good, Slots
  <2>2. CASE RollbackSlot(meta) = "NONE"
    <3>1. Goto("fallback") /\ rule = "broken"
      BY <1>3, <2>1, <2>2 DEF Rollback, IInv, Types
    <3> QED
      BY <1>1, <3>1, GotoInv DEF LastResort
  <2>3. CASE RollbackSlot(meta) # "NONE"
    <3>1. RollbackSlot(meta) \in Slots
      BY <1>1, <2>3 DEF RollbackSlot, Meta
    <3>2. BootStore("direct_rollback",
                    RollbackDirect(meta, why, RollbackSlot(meta)))
      BY <1>3, <2>3 DEF Rollback
    <3>3. /\ RollbackDirect(meta, why, RollbackSlot(meta)) \in Meta
          /\ Sane(RollbackDirect(meta, why, RollbackSlot(meta)))
          /\ rule = "kept" =>
               Good(RollbackDirect(meta, why, RollbackSlot(meta)), flash, trusted)
      BY <1>1, <1>3, <2>1, <3>1, RollbackGood
    <3>4. "direct_rollback" \in DirectStores \ AppStages
      BY DEF DirectStores, AppStages
    <3> QED
      BY <1>1, <3>2, <3>3, <3>4, BootStoreInv
  <2> QED
    BY <2>2, <2>3
<1>4. CASE BootStore("direct_count", IncrementAttempts(meta)) /\ TriesLeft(meta)
  <2>1. /\ IncrementAttempts(meta) \in Meta /\ Sane(IncrementAttempts(meta))
        /\ rule = "kept" => Good(IncrementAttempts(meta), flash, trusted)
    BY <1>1, <1>4, CountGood
  <2>2. "direct_count" \in DirectStores \ AppStages
    BY DEF DirectStores, AppStages
  <2> QED
    BY <1>1, <1>4, <2>1, <2>2, BootStoreInv
<1>5. {"MAX_ATTEMPTS", "ACTIVE_VALIDATE_FAILED"} \subseteq Results \ {"APPLIED"}
  BY DEF Results
<1> QED
  BY <1>2, <1>3, <1>4, <1>5 DEF DirectPrepare

(* The boot: the active slot holds a complete image while the rule is      *)
(* kept, so it is taken.                                                   *)
LEMMA DirectBootInv == ASSUME Direct, IInv, DirectBoot PROVE IInv'
<1>1. /\ Owner = "boot" /\ wr = "idle" /\ meta = stored
      /\ meta \in Meta /\ Sane(meta)
      /\ rule = "kept" => Good(meta, flash, trusted)
  BY DecidingFacts DEF DirectBoot
<1>2. meta.active \in Slots
  BY <1>1, MetaType
<1>3. CASE Bootable(meta, meta.active)
  <2>1. Jump(stored.active) /\ Matches(stored, flash, stored.active)
    BY <1>1, <1>2, <1>3, HeldIsBootable DEF DirectBoot
  <2> QED
    BY <1>1, <1>2, <2>1, JumpInv
<1>4. CASE ~Bootable(meta, meta.active)
  <2>1. Goto("fallback") /\ UNCHANGED reason /\ BootOnly
    BY <1>4 DEF DirectBoot
  <2>2. rule = "broken"
    BY <1>1, <1>2, <1>4, HeldIsBootable DEF Good, IInv, Types
  <2> QED
    BY <1>1, <2>1, <2>2, GotoInv DEF LastResort
<1> QED
  BY <1>3, <1>4

(* The last resort, which is only reached when the rule was broken.        *)
LEMMA FallbackInv == ASSUME Direct, IInv, Fallback PROVE IInv'
<1>1. /\ Owner = "boot" /\ wr = "idle" /\ meta = stored /\ meta \in Meta
  BY DecidingFacts DEF Fallback
<1>2. rule = "broken"
  BY DEF Fallback, Deciding, IInv, StageInv, LastResort
<1>3. CASE FallbackValid(meta)
  <2>1. Jump("A") /\ "A" \in Slots
    BY <1>3 DEF Fallback, Slots
  <2>2. stored.active = "A" => Matches(stored, flash, "A")
    BY <1>1, <1>3, LastResortMatches
  <2> QED
    BY <1>1, <1>2, <2>1, <2>2, JumpInv
<1>4. CASE ~FallbackValid(meta)
  BY <1>1, <1>2, <1>4, GotoInv DEF Fallback, LastResort
<1> QED
  BY <1>3, <1>4
-----------------------------------------------------------------------------
(* The session states of an upload that has not ended.                     *)
Open == {"CHECK_PERMISSION", "ERASE_SLOT", "RECEIVING"}

(* What the application may rely on while it serves an event.              *)
LEMMA ServingFacts ==
  ASSUME IInv, Serving
  PROVE  /\ pc = "app" /\ wr = "idle" /\ flash[running] \in Images
         /\ rule = "kept" => running = stored.active
         /\ Owner = "app"
         /\ stored \in Meta /\ loaded = SP!Newest(copies) /\ loaded.val = stored
         /\ stored.active \in Slots /\ stored.confirmed \in Slots
         /\ Sane(stored)
         /\ rule = "kept" => Good(stored, flash, trusted)
<1>1. pc = "app" /\ wr = "idle" /\ flash[running] \in Images
  BY DEF Serving
<1>2. /\ rule = "kept" => running = stored.active
      /\ Owner = "app" /\ Sane(stored)
      /\ rule = "kept" => Good(stored, flash, trusted)
  BY <1>1 DEF IInv, StageInv, TrustInv, AppStages, Owner
<1>3. stored \in Meta /\ loaded = SP!Newest(copies)
  BY StoredType DEF IInv
<1> QED
  BY <1>1, <1>2, <1>3, MetaType DEF stored

(* An event of the application that stores nothing keeps the invariant if  *)
(* it spares the active slot and, while the rule is kept, the confirmed    *)
(* one.                                                                    *)
LEMMA AppOnlyInv ==
  ASSUME Direct, IInv, Serving, NoStore, rule' \in {rule, "broken"},
         flash' \in [Slots -> Images \cup {Erased, Partial}],
         ses' \in Sessions, vec' \in Vectors,
         flash'[stored.active] = flash[stored.active],
         rule' = "kept" => flash'[stored.confirmed] = flash[stored.confirmed],
         ses'.st \in Open =>
           /\ rule' = "kept" => stored.active = stored.confirmed
           /\ ses'.tgt = Other(stored.active)
           /\ ses'.img \in Images,
         vec' \in {"CHECK_PERMISSION", "ERASE_SLOT"} => ses'.st = vec'
  PROVE  IInv'
<1> USE ServingFacts DEF NoStore
<1>1. SP!StoreInv' /\ stored' = stored
  BY StoreUnchanged DEF IInv, storeVars, Owner
<1>2. Types'
  BY DEF IInv, Types
<1>3. rule' = "kept" => rule = "kept" /\ Good(stored, flash', trusted)
  BY GoodFrame
<1>4. TrustInv'
  BY <1>1, <1>3 DEF TrustInv
<1>5. StageInv'
  BY <1>1, <1>3 DEF IInv, StageInv, LastResort
<1>6. RunInv'
  BY <1>1 DEF IInv, RunInv, Matches
<1>7. UploadInv'
  BY <1>1 DEF UploadInv, Open, AppStages
<1> QED
  BY <1>1, <1>2, <1>4, <1>5, <1>6, <1>7 DEF IInv

(* The session and the slots, in the invariant.                            *)
LEMMA SessionFacts ==
  ASSUME IInv
  PROVE  /\ ses \in Sessions /\ vec \in Vectors
         /\ flash \in [Slots -> Images \cup {Erased, Partial}]
         /\ ses.st \in Open =>
              /\ rule = "kept" => stored.active = stored.confirmed
              /\ ses.tgt = Other(stored.active)
              /\ ses.img \in Images
         /\ vec \in {"CHECK_PERMISSION", "ERASE_SLOT"} => ses.st = vec
BY DEF IInv, Types, UploadInv, Open

(* A closed session.                                                       *)
LEMMA ClosedType ==
  ASSUME NEW st \in {"IDLE", "READY_TO_REBOOT", "ABORTED", "FAILED"}
  PROVE  Closed(st) \in Sessions /\ Closed(st).st = st /\ st \in Vectors
BY DEF Closed, Sessions, Vectors, Slots

(* The other slot is another slot.                                         *)
LEMMA OtherSlot ==
  ASSUME NEW s \in Slots PROVE Other(s) \in Slots /\ Other(s) # s
BY DEF Other, Slots

(* Closing the session keeps the invariant.                                *)
LEMMA CloseInv ==
  ASSUME Direct, IInv, Serving, AppOnly, UNCHANGED flash,
         NEW st \in {"IDLE", "READY_TO_REBOOT", "ABORTED", "FAILED"},
         Session(Closed(st))
  PROVE  IInv'
<1>1. ses' = Closed(st) /\ vec' = st /\ ses'.st \notin Open
  BY ClosedType DEF Session, Open
<1>2. ses' \in Sessions /\ vec' \in Vectors /\ vec' \notin Open
  BY <1>1, ClosedType DEF Open
<1> QED
  BY <1>1, <1>2, SessionFacts, AppOnlyInv DEF Open, AppOnly

(* So does an event that only the vector hears of.                         *)
LEMMA VectorFailsInv ==
  ASSUME Direct, IInv, Serving, AppOnly, vec' = "FAILED", UNCHANGED <<ses, flash>>
  PROVE  IInv'
<1>1. vec' \in Vectors
  BY DEF Vectors
<1> QED
  BY <1>1, SessionFacts, AppOnlyInv DEF AppOnly

(* Opening an upload: the target is the slot that is not active, and the   *)
(* rule is only kept if that is not the confirmed one.                     *)
LEMMA BeginInv == ASSUME Direct, IInv, Begin PROVE IInv'
<1>1. /\ Serving /\ NoStore /\ UNCHANGED flash
      /\ stored.active \in Slots /\ loaded.val = stored
  BY ServingFacts DEF Begin
<1>2. rule' = IF vec' # "FAILED" /\ stored.active # stored.confirmed
              THEN "broken" ELSE rule
  BY <1>1 DEF Begin
<1>3. TargetSlot(stored) = Other(stored.active) /\ stored.mode = "DIRECT_AB"
  BY <1>1, ServingFacts DEF TargetSlot, Sane
<1>4. CASE vec' = "FAILED" /\ UNCHANGED ses
  BY <1>1, <1>2, <1>4, VectorFailsInv DEF AppOnly
<1>5. ASSUME NEW i \in Images, NEW package \in BOOLEAN,
             Session([st  |-> IF package THEN "RECEIVING" ELSE "CHECK_PERMISSION",
                      hdr |-> IF package THEN "awaited" ELSE "raw",
                      tgt |-> Other(stored.active),
                      run |-> Other(stored.active),
                      img |-> i, got |-> "nothing"])
      PROVE IInv'
  <2>1. ses' \in Sessions
    BY <1>1, <1>5, OtherSlot DEF Session, Sessions
  <2>2. /\ ses'.tgt = Other(stored.active) /\ ses'.img \in Images
        /\ vec' = ses'.st /\ vec' \in Open /\ vec' # "FAILED"
        /\ vec' \in Vectors
    BY <1>5 DEF Session, Open, Vectors
  <2>3. /\ rule' \in {rule, "broken"}
        /\ rule' = "kept" => stored.active = stored.confirmed
    BY <1>2, <2>2
  <2> QED
    BY <1>1, <2>1, <2>2, <2>3, SessionFacts, AppOnlyInv
<1> QED
  BY <1>1, <1>3, <1>4, <1>5, ServingFacts DEF Begin

(* Writing the target of an upload spares the active slot and, while the   *)
(* rule is kept, the confirmed one.                                        *)
LEMMA UploadFlash ==
  ASSUME IInv, Serving, ses.st \in Open, NEW c \in Images \cup {Erased, Partial}
  PROVE  /\ [flash EXCEPT ![ses.tgt] = c]
              \in [Slots -> Images \cup {Erased, Partial}]
         /\ [flash EXCEPT ![ses.tgt] = c][stored.active]
              = flash[stored.active]
         /\ rule = "kept" => [flash EXCEPT ![ses.tgt] = c][stored.confirmed]
                              = flash[stored.confirmed]
         /\ flash[ses.tgt] \in Images \cup {Erased, Partial}
<1>1. /\ rule = "kept" => stored.active = stored.confirmed
      /\ stored.active \in Slots
      /\ ses.tgt \in Slots /\ ses.tgt # stored.active
      /\ flash \in [Slots -> Images \cup {Erased, Partial}]
  BY SessionFacts, ServingFacts, OtherSlot
<1> QED
  BY <1>1

(* An upload goes on, and may write its target.                            *)
LEMMA ProgressInv ==
  ASSUME Direct, IInv, Serving, AppOnly, ses.st \in Open,
         NEW s \in Sessions, Session(s), s.st \in Open,
         s.tgt = ses.tgt, s.img = ses.img,
         NEW c \in Images \cup {Erased, Partial},
         flash' = [flash EXCEPT ![ses.tgt] = c]
  PROVE  IInv'
<1>1. ses' = s /\ vec' = s.st /\ vec' \in Vectors
  BY DEF Session, Open, Vectors
<1> QED
  BY <1>1, UploadFlash, SessionFacts, AppOnlyInv DEF AppOnly

(* An upload fails, and may have written its target.                       *)
LEMMA SpoilInv ==
  ASSUME Direct, IInv, Serving, AppOnly, ses.st \in Open,
         Session(Closed("FAILED")),
         NEW c \in Images \cup {Erased, Partial},
         flash' = [flash EXCEPT ![ses.tgt] = c]
  PROVE  IInv'
<1>1. ses' = Closed("FAILED") /\ vec' = "FAILED" /\ ses'.st \notin Open
  BY ClosedType DEF Session, Open
<1>2. ses' \in Sessions /\ vec' \in Vectors
  BY <1>1, ClosedType
<1> QED
  BY <1>1, <1>2, UploadFlash, AppOnlyInv DEF AppOnly

(* The changes of a session that goes on: its state, and what it has got.  *)
LEMMA SessionStep ==
  ASSUME NEW s \in Sessions, NEW st \in Open,
         NEW hdr \in {"raw", "awaited", "parsed"}
  PROVE  /\ [s EXCEPT !.st = st, !.hdr = hdr] \in Sessions
         /\ [s EXCEPT !.st = st, !.hdr = hdr].st = st
         /\ [s EXCEPT !.st = st, !.hdr = hdr].tgt = s.tgt
         /\ [s EXCEPT !.st = st, !.hdr = hdr].img = s.img
BY DEF Sessions, Open

LEMMA GotStep ==
  ASSUME NEW s \in Sessions, NEW got \in {"nothing", "part", "all", "damaged"}
  PROVE  /\ [s EXCEPT !.got = got] \in Sessions
         /\ [s EXCEPT !.got = got].st = s.st
         /\ [s EXCEPT !.got = got].tgt = s.tgt
         /\ [s EXCEPT !.got = got].img = s.img
BY DEF Sessions

(* One erase step.                                                         *)
LEMMA TickInv == ASSUME Direct, IInv, Tick PROVE IInv'
<1>1. Serving /\ AppOnly /\ ses.st \in Open /\ ses \in Sessions
  BY SessionFacts DEF Tick, Open
<1>2. flash = [flash EXCEPT ![ses.tgt] = flash[ses.tgt]]
  BY SessionFacts
<1>3. flash[ses.tgt] \in Images \cup {Erased, Partial}
  BY <1>1, UploadFlash
<1>4. CASE Session([ses EXCEPT !.st = "ERASE_SLOT"]) /\ UNCHANGED flash
  <2>1. /\ [ses EXCEPT !.st = "ERASE_SLOT"] \in Sessions
        /\ [ses EXCEPT !.st = "ERASE_SLOT"].st \in Open
        /\ [ses EXCEPT !.st = "ERASE_SLOT"].tgt = ses.tgt
        /\ [ses EXCEPT !.st = "ERASE_SLOT"].img = ses.img
    BY <1>1 DEF Sessions, Open
  <2> QED
    BY <1>1, <1>2, <1>3, <1>4, <2>1, ProgressInv
<1>5. ASSUME NEW st \in {"ERASE_SLOT", "RECEIVING"},
             Session([ses EXCEPT !.st = st]),
             flash' = [flash EXCEPT ![ses.tgt] = Erased]
      PROVE IInv'
  <2>1. /\ [ses EXCEPT !.st = st] \in Sessions
        /\ [ses EXCEPT !.st = st].st \in Open
        /\ [ses EXCEPT !.st = st].tgt = ses.tgt
        /\ [ses EXCEPT !.st = st].img = ses.img
    BY <1>1 DEF Sessions, Open
  <2> QED
    BY <1>1, <1>5, <2>1, ProgressInv
<1>6. ASSUME Session(Closed("FAILED")), NEW c \in {flash[ses.tgt], Erased},
             flash' = [flash EXCEPT ![ses.tgt] = c]
      PROVE IInv'
  BY <1>1, <1>3, <1>6, SpoilInv
<1> QED
  BY <1>4, <1>5, <1>6 DEF Tick

(* The header of a package.                                                *)
LEMMA WriteHeaderInv == ASSUME Direct, IInv, WriteHeader PROVE IInv'
<1>1. /\ Serving /\ AppOnly /\ UNCHANGED flash
      /\ ses.st \in Open /\ ses \in Sessions
  BY SessionFacts DEF WriteHeader, Open
<1>2. flash = [flash EXCEPT ![ses.tgt] = flash[ses.tgt]]
  BY SessionFacts
<1>3. flash[ses.tgt] \in Images \cup {Erased, Partial}
  BY <1>1, UploadFlash
<1>4. CASE Session([ses EXCEPT !.st = "CHECK_PERMISSION", !.hdr = "parsed"])
  BY <1>1, <1>2, <1>3, <1>4, SessionStep, ProgressInv DEF Open
<1>5. CASE Session(Closed("FAILED"))
  BY <1>1, <1>5, CloseInv
<1> QED
  BY <1>4, <1>5 DEF WriteHeader

(* A block of data.                                                        *)
LEMMA WriteDataInv == ASSUME Direct, IInv, WriteData PROVE IInv'
<1>1. Serving /\ AppOnly /\ ses.st \in Open /\ ses \in Sessions
  BY SessionFacts DEF WriteData, Open
<1>2. flash[ses.tgt] \in Images \cup {Erased, Partial} /\ ses.img \in Images
  BY <1>1, UploadFlash, SessionFacts
<1>3. PICK got \in {"part", "all", "damaged"},
           c \in {flash[ses.tgt], Partial, ses.img} :
        /\ Session([ses EXCEPT !.got = got])
        /\ flash' = [flash EXCEPT ![ses.tgt] = c]
  BY DEF WriteData
<1> DEFINE s == [ses EXCEPT !.got = got]
<1>4. /\ s \in Sessions /\ s.st = ses.st
      /\ s.tgt = ses.tgt /\ s.img = ses.img
  <2>1. got \in {"nothing", "part", "all", "damaged"}
    OBVIOUS
  <2> QED
    BY <1>1, <2>1, GotStep
<1>5. Session(s) /\ c \in Images \cup {Erased, Partial}
  BY <1>2, <1>3
<1> HIDE DEF s
<1> QED
  BY <1>1, <1>3, <1>4, <1>5, ProgressInv

(* A block that fails.                                                     *)
LEMMA WriteFailsInv == ASSUME Direct, IInv, WriteFails PROVE IInv'
<1>1. Serving /\ AppOnly /\ Session(Closed("FAILED"))
  BY DEF WriteFails
<1>2. PICK c \in {flash[ses.tgt], Partial} :
        /\ c = Partial => ses.st = "RECEIVING" /\ flash[ses.tgt] \notin Images
        /\ flash' = [flash EXCEPT ![ses.tgt] = c]
  BY DEF WriteFails
<1>3. CASE c = flash[ses.tgt]
  <2>1. UNCHANGED flash
    BY <1>2, <1>3, SessionFacts
  <2> QED
    BY <1>1, <2>1, CloseInv
<1>4. CASE c = Partial
  BY <1>1, <1>2, <1>4, SpoilInv DEF Open
<1> QED
  BY <1>2, <1>3, <1>4

(* The end of an upload: a refusal, or the store of the staged slot.       *)
LEMMA EndInv == ASSUME Direct, IInv, End PROVE IInv'
<1>1. Serving /\ UNCHANGED <<flash, reason, running, trusted, rule>>
  BY DEF End
<1>2. CASE Session(Closed("FAILED")) /\ UNCHANGED <<copies, ram, wr, pc>>
  BY <1>1, <1>2, CloseInv DEF AppOnly, NoStore
<1>3. CASE /\ ses.st = "RECEIVING"
           /\ Store!StartStore(Store!Mutate(loaded,
                MarkPending(loaded.val, ses.tgt, ses.img)))
           /\ pc' = "mark"
           /\ UNCHANGED appVars
  <2>1. /\ stored \in Meta /\ Sane(stored)
        /\ rule = "kept" => Good(stored, flash, trusted)
        /\ ses.tgt \in Slots /\ ses.img \in Images
        /\ ses.tgt # stored.active
        /\ rule = "kept" => ses.tgt # stored.confirmed
    BY <1>1, <1>3, ServingFacts, SessionFacts, OtherSlot DEF Open
  <2> DEFINE m == MarkPending(stored, ses.tgt, ses.img)
  <2>2. /\ m \in Meta /\ Sane(m) /\ m.active = stored.active
        /\ m.image[stored.active] = stored.image[stored.active]
        /\ rule = "kept" => Good(m, flash, trusted)
    BY <2>1, StageGood
  <2>3. Store!StartStore(Store!Mutate(SP!Newest(copies), m))
    BY <1>1, <1>3, ServingFacts
  <2>4. Owner = "app" /\ UNCHANGED Owner
    BY <1>1, <1>3, ServingFacts DEF Owner, AppStages
  <2> HIDE DEF m
  <2>5. /\ SP!StoreInv' /\ stored' = stored
        /\ wr' = "erase" /\ ram'.val = m
    BY <2>2, <2>3, <2>4, StoreStart DEF IInv
  <2>6. Types'
    BY <1>1, <1>3 DEF IInv, Types, appVars
  <2>7. TrustInv'
    BY <1>1, <1>3, <2>1, <2>2, <2>5, ServingFacts DEF TrustInv, Vouched, WillKeep
  <2>8. StageInv'
    BY <1>1, <1>3, <2>2, <2>5, ServingFacts
    DEF StageInv, AppStages, DirectStages, DirectStores, LastResort
  <2>9. RunInv' /\ UploadInv'
    BY <1>1, <1>3, <2>5, ServingFacts
    DEF IInv, RunInv, UploadInv, appVars, AppStages
  <2> QED
    BY <2>5, <2>6, <2>7, <2>8, <2>9 DEF IInv
<1> QED
  BY <1>2, <1>3 DEF End

(* A confirmation: a refusal, or the store that confirms the active slot.  *)
LEMMA CommitInv == ASSUME Direct, IInv, Commit PROVE IInv'
<1>1. Serving /\ UNCHANGED <<flash, reason, running, ses, trusted, rule>>
  BY DEF Commit
<1>2. CASE vec' = "FAILED" /\ UNCHANGED <<copies, ram, wr, pc>>
  BY <1>1, <1>2, VectorFailsInv DEF AppOnly, NoStore
<1>3. CASE /\ CanConfirm(stored)
           /\ Store!StartStore(Store!Mutate(loaded, ConfirmActive(loaded.val)))
           /\ pc' = "confirm"
           /\ UNCHANGED vec
  <2> DEFINE m == ConfirmActive(stored)
             T == trusted \cup {flash[running]}
  <2>1. /\ m \in Meta /\ Sane(m)
        /\ Holds(stored, flash, stored.active) =>
             Good(m, flash, trusted \cup {flash[stored.active]})
        /\ m.active = stored.active /\ m.confirmed = stored.active
        /\ m.image = stored.image
    BY <1>1, <1>3, ServingFacts, ConfirmGood
  <2>2. Store!StartStore(Store!Mutate(SP!Newest(copies), m))
    BY <1>1, <1>3, ServingFacts
  <2>3. Owner = "app" /\ UNCHANGED Owner
    BY <1>1, <1>3, ServingFacts DEF Owner, AppStages
  <2>4. running = stored.active => Holds(stored, flash, stored.active)
    BY <1>1, ServingFacts DEF IInv, RunInv, Holds, AppStages
  <2>5. running = stored.active => Good(m, flash, T)
    BY <2>1, <2>4
  <2> HIDE DEF m
  <2>6. /\ SP!StoreInv' /\ stored' = stored
        /\ wr' = "erase" /\ ram'.val = m
    BY <2>1, <2>2, <2>3, StoreStart DEF IInv
  <2>7. Types'
    BY <1>1, <1>3 DEF IInv, Types
  <2>8. TrustInv'
    BY <1>1, <1>3, <2>1, <2>5, <2>6, ServingFacts DEF TrustInv, Vouched, WillKeep
  <2>9. StageInv'
    BY <1>1, <1>3, <2>1, <2>6, ServingFacts
    DEF StageInv, AppStages, DirectStages, DirectStores, LastResort
  <2>10. RunInv' /\ UploadInv'
    BY <1>1, <1>3, <2>6, ServingFacts DEF IInv, RunInv, UploadInv, AppStages
  <2> QED
    BY <2>6, <2>7, <2>8, <2>9, <2>10 DEF IInv
<1> QED
  BY <1>1, <1>2, <1>3, ServingFacts DEF Commit
-----------------------------------------------------------------------------
(* A reset or a power loss, at any stage and between any two flash         *)
(* operations of a store.                                                  *)
LEMMA OffInv == ASSUME Direct, IInv, pc # "off", Off PROVE IInv'
<1> USE DEF Off
<1>1. Owner # "off" /\ Owner' = "off"
  BY OwnerOf DEF Owner
<1>2. SP!StoreInv' /\ stored' = stored
  BY <1>1, StoreOff DEF IInv
<1>3. ses' = Closed("IDLE") /\ vec' = "IDLE" /\ ses'.st = "IDLE"
  BY ClosedType DEF Session
<1>4. Types'
  BY <1>3, ClosedType DEF IInv, Types, Results
<1>5. TrustInv'
  BY <1>2 DEF IInv, TrustInv
<1>6. StageInv' /\ RunInv'
  BY DEF StageInv, RunInv, AppStages, DirectStages, DirectStores, LastResort
<1>7. UploadInv'
  BY <1>3 DEF UploadInv
<1> QED
  BY <1>2, <1>4, <1>5, <1>6, <1>7 DEF IInv

(* The erase of a store.                                                   *)
LEMMA EraseInv ==
  ASSUME Direct, IInv, Store!EraseCopy,
         UNCHANGED <<pc, reason, ses, vec, trusted, rule, flash, running>>
  PROVE  IInv'
<1>1. /\ SP!StoreInv' /\ stored' = stored
      /\ wr = "erase" /\ wr' = "program" /\ ram' = ram
  BY StoreErase DEF IInv, Owner
<1>2. Types'
  BY DEF IInv, Types
<1>3. TrustInv'
  BY <1>1 DEF IInv, TrustInv, Vouched, WillKeep
<1>4. StageInv' /\ RunInv' /\ UploadInv'
  BY <1>1 DEF IInv, StageInv, RunInv, Matches, UploadInv
<1> QED
  BY <1>1, <1>2, <1>3, <1>4 DEF IInv

(* Where the bootloader goes on after the stores of direct A/B.            *)
LEMMA AfterStages ==
  /\ {"direct_reject", "direct_apply", "direct_rollback", "direct_count"}
       \subseteq StoreStages
  /\ "mark" \notin StoreStages /\ "confirm" \notin StoreStages
  /\ AfterStore["direct_reject"].ok = "direct_prepare"
  /\ AfterStore["direct_apply"].ok = "direct_boot"
  /\ AfterStore["direct_rollback"].ok = "direct_boot"
  /\ AfterStore["direct_count"].ok = "direct_boot"
BY DEF StoreStages, AfterStore, Branch

(* The program that ends a store: the prepared metadata become the stored  *)
(* ones.                                                                   *)
LEMMA ProgramInv ==
  ASSUME Direct, IInv, Store!ProgramCopy, Continue(TRUE),
         UNCHANGED <<flash, running>>
  PROVE  IInv'
<1>1. wr = "program"
  BY SameSteps DEF SP!ProgramCopy
<1>2. /\ pc \in DirectStores /\ Sane(ram.val)
      /\ WillKeep => Good(ram.val, flash, Vouched)
  BY <1>1 DEF IInv, StageInv, TrustInv
<1>3. CASE pc \in {"mark", "confirm"}
  <2>1. pc' = "app" /\ UNCHANGED Owner /\ reason' = reason
    BY <1>3, AfterStages DEF Continue, Owner, AppStages
  <2>2. /\ SP!StoreInv' /\ stored' = ram.val /\ wr' = "idle" /\ ram' = ram
    BY <2>1, StoreProgram DEF IInv
  <2>3. /\ trusted' = Vouched /\ trusted' \subseteq Images
        /\ rule' \in {"kept", "broken"}
        /\ rule' = "kept" => WillKeep
    BY <1>3 DEF Continue, Vouched, WillKeep, IInv, Types, StageInv
  <2>4. TrustInv'
    BY <1>2, <2>1, <2>2, <2>3 DEF TrustInv
  <2>5. /\ ram.val.active = stored.active
        /\ ram.val.image[stored.active] = stored.image[stored.active]
        /\ rule = "kept" => running = stored.active
    BY <1>3 DEF IInv, StageInv, AppStages
  <2>6. StageInv'
    BY <2>1, <2>2, <2>3, <2>5
    DEF StageInv, WillKeep, DirectStages, DirectStores, LastResort
  <2>7. RunInv'
    BY <1>3, <2>2, <2>5 DEF IInv, RunInv, Matches, AppStages
  <2>8. CASE pc = "mark"
    <3>1. ses' = Closed("READY_TO_REBOOT") /\ vec' = "READY_TO_REBOOT"
          /\ ses'.st = "READY_TO_REBOOT" /\ ses' \in Sessions /\ vec' \in Vectors
      BY <2>8, ClosedType DEF Continue, Session
    <3>2. Types'
      BY <2>1, <2>3, <3>1 DEF IInv, Types
    <3>3. UploadInv'
      BY <3>1 DEF UploadInv
    <3> QED
      BY <2>2, <2>4, <2>6, <2>7, <3>2, <3>3 DEF IInv
  <2>9. CASE pc = "confirm"
    <3>1. UNCHANGED ses /\ vec' = "COMMITTED" /\ vec' \in Vectors
      BY <2>9 DEF Continue, Vectors
    <3>2. Types'
      BY <2>1, <2>3, <3>1 DEF IInv, Types
    <3>3. ram.val.active = stored.active /\ ram.val.confirmed = stored.active
      BY <2>9 DEF IInv, StageInv
    <3>4. UploadInv'
      BY <2>1, <2>2, <3>1, <3>3 DEF IInv, UploadInv, AppStages
    <3> QED
      BY <2>2, <2>4, <2>6, <2>7, <3>2, <3>4 DEF IInv
  <2> QED
    BY <1>3, <2>8, <2>9
<1>4. CASE pc \in DirectStores \ {"mark", "confirm"}
  <2>1. pc' \in {"direct_prepare", "direct_boot"} /\ reason' = reason
    BY <1>4, AfterStages DEF Continue, DirectStores
  <2>2. UNCHANGED Owner
    BY <1>4, <2>1 DEF Owner, AppStages, DirectStores
  <2>3. /\ SP!StoreInv' /\ stored' = ram.val /\ wr' = "idle" /\ ram' = ram
    BY <2>2, StoreProgram DEF IInv
  <2>4. UNCHANGED <<ses, vec, trusted, rule>> /\ Vouched = trusted
    BY <1>4 DEF Continue, appVars, Vouched
  <2>5. Types'
    BY <2>1, <2>4 DEF IInv, Types
  <2>6. TrustInv'
    BY <1>2, <2>3, <2>4 DEF TrustInv, WillKeep
  <2>7. StageInv' /\ RunInv'
    BY <2>1, <2>3
    DEF StageInv, RunInv, AppStages, DirectStages, DirectStores, LastResort
  <2>8. UploadInv'
    BY <1>4, <2>4 DEF IInv, UploadInv, AppStages, DirectStores
  <2> QED
    BY <2>3, <2>5, <2>6, <2>7, <2>8 DEF IInv
<1> QED
  BY <1>2, <1>3, <1>4

(* A store that fails, which only happens in the application.              *)
LEMMA FailInv ==
  ASSUME Direct, IInv, Store!FailStore, Owner = "app" \/ BootFaults,
         Continue(FALSE), UNCHANGED <<flash, running>>
  PROVE  IInv'
<1>1. wr # "idle" /\ Owner = "app"
  BY SameSteps DEF SP!FailStore, Direct
<1>2. pc \in {"mark", "confirm"}
  BY <1>1, OwnerOf DEF IInv, StageInv, AppStages, DirectStores
<1>3. pc' = "app" /\ UNCHANGED Owner /\ UNCHANGED <<reason, trusted, rule>>
  BY <1>2, AfterStages DEF Continue, Owner, AppStages
<1>4. SP!StoreInv' /\ stored' = stored /\ wr' = "idle" /\ ram' = ram
  BY <1>1, <1>3, StoreFail DEF IInv
<1>5. TrustInv'
  BY <1>3, <1>4 DEF IInv, TrustInv
<1>6. StageInv' /\ RunInv'
  BY <1>2, <1>3, <1>4
  DEF IInv, StageInv, RunInv, Matches, AppStages, DirectStages, DirectStores,
      LastResort
<1>7. /\ ses' \in Sessions /\ vec' = "FAILED" /\ vec' \in Vectors
      /\ ses'.st \notin Open \/ ses' = ses
  BY <1>2, ClosedType, SessionFacts DEF Continue, Session, Vectors, Open
<1>8. Types'
  BY <1>3, <1>7 DEF IInv, Types
<1>9. UploadInv'
  BY <1>2, <1>3, <1>4, <1>7 DEF IInv, UploadInv, AppStages, Open
<1> QED
  BY <1>4, <1>5, <1>6, <1>8, <1>9 DEF IInv
-----------------------------------------------------------------------------
(* The factory state satisfies the invariant.                              *)
LEMMA DeviceInit == ASSUME Direct, Init PROVE IInv
<1>1. copies = [i \in 0..1 |-> Torn] /\ Owner = "off"
  BY DEF Init, Owner
<1>2. SP!Init
  BY <1>1 DEF Init, SP!Init
<1>3. SP!StoreInv
  BY <1>2, SP!InitInv, StoreAssumption
<1>4. stored = DefaultMeta("DIRECT_AB")
  BY <1>1 DEF stored, SP!Newest, DefaultRec, Direct
<1>5. flash = [s \in Slots |-> IF s = "A" THEN Factory ELSE Erased]
  BY DEF Init
<1>6. Types
  BY <1>5, ClosedType, DeviceAssumption DEF Init, Types, Results, Vectors
<1>7. Sane(stored) /\ Good(stored, flash, trusted)
  BY <1>4, <1>5, DeviceAssumption
  DEF Init, Sane, Good, Holds, Matches, DefaultMeta, Slots
<1>8. TrustInv
  BY <1>7 DEF Init, TrustInv
<1>9. StageInv /\ RunInv
  BY DEF Init, StageInv, RunInv, AppStages, DirectStages, DirectStores, LastResort
<1>10. UploadInv
  BY ClosedType DEF Init, UploadInv
<1> QED
  BY <1>3, <1>6, <1>8, <1>9, <1>10 DEF IInv

(* Every step keeps it. The copy transaction is never reached.             *)
LEMMA DeviceNext == ASSUME Direct, IInv, [Next]_vars PROVE IInv'
<1>1. CASE UNCHANGED vars
  <2> USE <1>1 DEF vars
  <2>1. SP!StoreInv' /\ stored' = stored
    BY StoreUnchanged DEF IInv, storeVars, Owner
  <2>2. Types'
    BY DEF IInv, Types
  <2>3. TrustInv'
    BY <2>1 DEF IInv, TrustInv, Vouched, WillKeep
  <2>4. StageInv' /\ RunInv' /\ UploadInv'
    BY <2>1 DEF IInv, StageInv, RunInv, Matches, UploadInv
  <2> QED
    BY <2>1, <2>2, <2>3, <2>4 DEF IInv
<1>2. CASE Bootloader
  <2>1. CASE BootLoad \/ DirectPending \/ DirectPrepare \/ DirectBoot \/ Fallback
    BY <2>1, BootLoadInv, DirectPendingInv, DirectPrepareInv, DirectBootInv,
       FallbackInv
  <2>2. pc \in DirectStages /\ (wr = "idle" => pc \notin DirectStores)
    BY DEF IInv, StageInv
  <2>3. CASE \/ CopyPending \/ CopyCount \/ CopyValidate \/ CopyErase
             \/ CopyProgramPart \/ CopyProgramRest \/ CopyVerify
             \/ CopyNotes \/ CopyFailed \/ CopyFailResult
    BY <2>2, <2>3
    DEF CopyPending, CopyCount, CopyValidate, CopyErase,
        CopyProgramPart, CopyProgramRest, CopyVerify, CopyNotes, CopyNote,
        CopyFailed, CopyFailResult, Deciding, DirectStages, DirectStores,
        LastResort
  <2> QED
    BY <1>2, <2>1, <2>3 DEF Bootloader
<1>3. CASE Application
  <2>1. CASE DataRefused
    BY <2>1, VectorFailsInv DEF DataRefused
  <2>2. CASE Abort
    BY <2>2, CloseInv DEF Abort
  <2>3. CASE Boot
    <3>1. CASE Off
      BY <2>3, <3>1, OffInv DEF Boot, Serving
    <3>2. CASE vec' = "FAILED" /\ UNCHANGED <<ses, flash>> /\ AppOnly
      BY <2>3, <3>2, VectorFailsInv DEF Boot
    <3> QED
      BY <2>3, <3>1, <3>2 DEF Boot
  <2> QED
    BY <1>3, <2>1, <2>2, <2>3, BeginInv, TickInv, WriteHeaderInv, WriteDataInv,
       WriteFailsInv, EndInv, CommitInv DEF Application
<1>4. CASE FlashStep
  BY <1>4, EraseInv, ProgramInv, FailInv DEF FlashStep
<1>5. CASE PowerLoss
  BY <1>5, OffInv DEF PowerLoss
<1> QED
  BY <1>1, <1>2, <1>3, <1>4, <1>5 DEF Next

(* The invariant implies the types and the three safety properties.        *)
LEMMA DeviceSafe ==
  ASSUME IInv
  PROVE  TypeOK /\ RunsWholeImage /\ ConfirmedIsTrusted /\ AppliedIsTrue
<1>1. /\ stored \in Meta /\ loaded.val = stored /\ Sane(stored)
      /\ rule = "kept" => Good(stored, flash, trusted)
  BY StoredType DEF IInv, TrustInv, stored
<1>2. TypeOK
  <2>1. Store!TypeOK
    BY SameSteps DEF IInv, SP!StoreInv
  <2>2. pc \in Stages
    BY AfterStages
    DEF IInv, StageInv, DirectStages, DirectStores, LastResort, Stages, AppStages
  <2> QED
    BY <2>1, <2>2 DEF IInv, Types, TypeOK, Sessions, Vectors
<1>3. RunsWholeImage
  BY <1>1 DEF RunsWholeImage, IInv, StageInv, Good, Holds
<1>4. ConfirmedIsTrusted
  BY <1>1 DEF ConfirmedIsTrusted, Good
<1>5. AppliedIsTrue
  BY <1>1 DEF AppliedIsTrue, Sane, Good, Holds, Matches
<1> QED
  BY <1>2, <1>3, <1>4, <1>5

(* The invariant holds in every reachable state; in particular the types   *)
(* are right.                                                              *)
THEOREM DeviceInvariant ==
  ASSUME Direct
  PROVE  Spec => [](IInv /\ TypeOK)
<1>1. Init => IInv
  BY DeviceInit
<1>2. IInv /\ [Next]_vars => IInv'
  BY DeviceNext
<1>3. IInv => TypeOK
  BY DeviceSafe
<1> QED
  BY <1>1, <1>2, <1>3, PTL DEF Spec

(* The application runs a complete image from the jump to the next reset:  *)
(* no boot path jumps to a cut-off image, and no upload erases the slot    *)
(* the application executes from - except while an upload begun in an      *)
(* image on trial, which goes to the confirmed slot, is not made up for by *)
(* a confirmation.                                                         *)
THEOREM DeviceRunsWholeImage == ASSUME Direct PROVE Spec => []RunsWholeImage
<1>1. IInv => RunsWholeImage
  BY DeviceSafe
<1> QED
  BY <1>1, DeviceInvariant, PTL

(* The confirmed slot holds the factory image or an image some host        *)
(* confirmed while it ran, whatever the order of uploads, confirmations,   *)
(* rollbacks and power losses.  The exception is the hazard itself: from   *)
(* the moment a host begins an upload in an image still on trial, which    *)
(* erases the confirmed slot, to the confirmation of the image that runs   *)
(* from the active slot; that confirmation makes everything true again.    *)
THEOREM DeviceConfirmedIsTrusted ==
  ASSUME Direct
  PROVE  Spec => []ConfirmedIsTrusted
<1>1. IInv => ConfirmedIsTrusted
  BY DeviceSafe
<1> QED
  BY <1>1, DeviceInvariant, PTL

(* The metadata say APPLIED only while the active slot holds, complete,    *)
(* the image they record for it, with the same exception.                  *)
THEOREM DeviceAppliedIsTrue == ASSUME Direct PROVE Spec => []AppliedIsTrue
<1>1. IInv => AppliedIsTrue
  BY DeviceSafe
<1> QED
  BY <1>1, DeviceInvariant, PTL

(* Only a flash step changes what is stored, by nothing or by one record.  *)
LEMMA DeviceStores ==
  ASSUME Direct, IInv, [Next]_vars
  PROVE  SP!Newest(copies') = SP!Newest(copies) \/ SP!Register!Next
<1>1. CASE UNCHANGED copies
  BY <1>1
<1>2. CASE FlashStep
  <2>1. UNCHANGED Owner
    <3>1. CASE Store!EraseCopy /\ UNCHANGED pc
      BY <3>1 DEF Owner
    <3>2. CASE \/ Store!ProgramCopy /\ Continue(TRUE)
               \/ /\ Store!FailStore /\ Continue(FALSE)
                  /\ Owner = "app" \/ BootFaults
      <4>1. wr # "idle"
        BY <3>2, SameSteps DEF SP!ProgramCopy, SP!FailStore
      <4>2. pc \in DirectStores
        BY <4>1 DEF IInv, StageInv
      <4>3. CASE pc \in {"mark", "confirm"}
        BY <3>2, <4>3, AfterStages DEF Continue, Owner, AppStages
      <4>4. CASE pc \notin {"mark", "confirm"} /\ Continue(TRUE)
        BY <4>2, <4>4, AfterStages DEF Continue, Owner, AppStages, DirectStores
      <4> QED
        BY <3>2, <4>2, <4>3, <4>4 DEF Owner, AppStages, Direct, DirectStores
    <3> QED
      BY <1>2, <3>1, <3>2 DEF FlashStep
  <2>2. SP!FlashStep
    BY <1>2, <2>1, SameSteps DEF FlashStep, SP!FlashStep, Direct
  <2> QED
    BY <2>2, SP!NextInv, StoreAssumption DEF SP!Next, IInv
<1>3. CASE Bootloader
  BY <1>3, <1>1
  DEF Bootloader, BootLoad, DirectPending, DirectPrepare, Rollback,
      DirectBoot, Fallback, Jump,
      CopyPending, CopyCount, CopyValidate, CopyErase, CopyFlash,
      CopyProgramPart, CopyProgramRest, CopyVerify, CopyNotes, CopyNote,
      CopyFailed, CopyFailResult, BootStore, Goto, storeVars, Store!StartStore
<1>4. CASE Application \/ PowerLoss
  BY <1>4, <1>1
  DEF Application, Begin, Tick, WriteHeader, WriteData, DataRefused, WriteFails,
      End, Abort, Commit, Boot, AppOnly, NoStore, Off, PowerLoss,
      Store!StartStore
<1> QED
  BY <1>1, <1>2, <1>3, <1>4 DEF Next, vars

(* Bootloader and application together, resets and power losses included,  *)
(* use the two sectors as the register of MetadataRegister: whatever       *)
(* either of them loads is the last record one of them completed.          *)
THEOREM DeviceStoresAreRegister == ASSUME Direct PROVE Spec => SP!RegisterSpec
<1>1. Init => SP!Register!Init
  BY DEF Init, SP!Register!Init, SP!Newest
<1>2. IInv /\ [Next]_vars => [SP!Register!Next]_(SP!Newest(copies))
  BY DeviceStores
<1>3. Init => IInv
  BY DeviceInit
<1>4. IInv /\ [Next]_vars => IInv'
  BY DeviceNext
<1> QED
  BY <1>1, <1>2, <1>3, <1>4, PTL DEF Spec, SP!RegisterSpec, SP!Register!Spec
=============================================================================
