---------------------------- MODULE MetadataStore ----------------------------
(***************************************************************************)
(* The double-copy metadata store of components/ota_manager/ota_metadata.c *)
(* on top of the sector operations of drv_flash.c, used by two programs in *)
(* turn: the bootloader, which loads once and then mutates and stores its  *)
(* RAM image several times, and the application, which loads the metadata  *)
(* again before every mutation.  Power may fail between any two flash      *)
(* operations.                                                             *)
(*                                                                         *)
(* A record is a sequence number, a payload and the flag ext: whether the  *)
(* extension CRCs are present.  Records written by firmware older than the *)
(* A/B extension have ext = FALSE and are upgraded, in RAM, by the load.   *)
(***************************************************************************)
EXTENDS Naturals

CONSTANTS Payload,      \* the metadata values (every field but the sequence)
          DefaultRec,   \* what ota_metadata_load returns for two bad copies
          Upgraded,     \* what the upgrade makes of a legacy payload
          Torn,         \* a copy whose CRC does not hold: erased, half written
          BootFaults,   \* may a flash operation fail in the bootloader?
          Legacy,       \* records an older firmware may have left behind
          MaxSeq        \* bound on the sequence numbers the history reaches

Rec == [seq : Nat, val : Payload, ext : BOOLEAN]

ASSUME RecAssumption ==
  /\ DefaultRec \in Rec
  /\ DefaultRec.ext
  /\ Torn \notin Rec
  /\ Upgraded \in [Payload -> Payload]
  /\ BootFaults \in BOOLEAN
  /\ Legacy \subseteq {r \in Rec : ~r.ext}
  /\ MaxSeq \in Nat

VARIABLES copies,   \* the two flash sectors
          ram,      \* the metadata image the running program works on
          wr,       \* the flash step ota_metadata_store has to do next
          owner     \* which program runs: none yet, bootloader, application

vars == <<copies, ram, wr, owner>>
-----------------------------------------------------------------------------
(* pota_metadata_select_newest: the valid copy with the highest sequence,  *)
(* the first one on a tie; a default record when neither is valid.         *)
Newest(c) ==
  IF c[0] # Torn /\ (c[1] = Torn \/ c[1].seq <= c[0].seq) THEN c[0]
  ELSE IF c[1] # Torn THEN c[1]
  ELSE DefaultRec

(* pota_metadata_upgrade_if_needed: a legacy record gains the extension    *)
(* and one sequence number, in RAM only.                                   *)
Upgrade(r) ==
  IF r.ext THEN r
  ELSE [seq |-> r.seq + 1, val |-> Upgraded[r.val], ext |-> TRUE]

Load(c) == Upgrade(Newest(c))

(* Every mutator of pota_metadata.c ends in sequence++ and update_crc.     *)
Mutate(r, v) == [seq |-> r.seq + 1, val |-> v, ext |-> TRUE]

(* A mutant: every record goes to the first sector.                        *)
CopyIndexFixed(r) == 0

(* The sector a record goes to.                                            *)
CopyIndex(r) == r.seq % 2
-----------------------------------------------------------------------------
(* ota_metadata_store, one action per flash operation.                     *)
StartStore(r) ==
  /\ wr = "idle"
  /\ wr' = "erase"
  /\ ram' = r
  /\ UNCHANGED copies

EraseCopy ==
  /\ wr = "erase"
  /\ wr' = "program"
  /\ copies' = [copies EXCEPT ![CopyIndex(ram)] = Torn]
  /\ UNCHANGED ram

ProgramCopy ==
  /\ wr = "program"
  /\ wr' = "idle"
  /\ copies' = [copies EXCEPT ![CopyIndex(ram)] = ram]
  /\ UNCHANGED ram

(* An erase or program that reports failure; the sector is unchanged (the  *)
(* operation was refused) or no longer readable.                           *)
FailStore ==
  /\ wr \in {"erase", "program"}
  /\ wr' = "idle"
  /\ \/ wr = "erase" /\ UNCHANGED copies
     \/ copies' = [copies EXCEPT ![CopyIndex(ram)] = Torn]
  /\ UNCHANGED ram
-----------------------------------------------------------------------------
Init ==
  /\ copies \in [0..1 -> Legacy \cup {Torn}]
  /\ \A i \in 0..1 : copies[i] # Torn => CopyIndex(copies[i]) = i
  /\ ram = DefaultRec
  /\ wr = "idle"
  /\ owner = "off"

(* bootloader main: load the metadata once.                                *)
BootLoad ==
  /\ owner = "off"
  /\ owner' = "boot"
  /\ ram' = Load(copies)
  /\ UNCHANGED <<copies, wr>>

(* The bootloader mutates the image it has in RAM and stores it.           *)
BootStore ==
  /\ owner = "boot"
  /\ ram.seq < MaxSeq
  /\ \E v \in Payload : StartStore(Mutate(ram, v))
  /\ UNCHANGED owner

HandOver ==
  /\ owner = "boot"
  /\ wr = "idle"
  /\ owner' = "app"
  /\ UNCHANGED <<copies, ram, wr>>

(* The application loads, mutates and stores: ota_metadata_mark_pending,   *)
(* ota_metadata_confirm_active.                                            *)
AppStore ==
  /\ owner = "app"
  /\ Load(copies).seq < MaxSeq
  /\ \E v \in Payload : StartStore(Mutate(Load(copies), v))
  /\ UNCHANGED owner

FlashStep ==
  /\ \/ EraseCopy
     \/ ProgramCopy
     \/ FailStore /\ (owner = "app" \/ BootFaults)
  /\ UNCHANGED owner

PowerLoss ==
  /\ owner # "off"
  /\ owner' = "off"
  /\ wr' = "idle"
  /\ ram' = DefaultRec
  /\ UNCHANGED copies

Next == BootLoad \/ BootStore \/ HandOver \/ AppStore \/ FlashStep \/ PowerLoss

Spec == Init /\ [][Next]_vars
-----------------------------------------------------------------------------
(* The types of the store's state.                                         *)
TypeOK ==
  /\ copies \in [0..1 -> Rec \cup {Torn}]
  /\ ram \in Rec
  /\ wr \in {"idle", "erase", "program"}
  /\ owner \in {"off", "boot", "app"}

(* The store is the register it promises to be: every flash step and every *)
(* power loss leaves what a load returns alone, except the program that    *)
(* completes a store, which replaces it by the stored record.  The code    *)
(* behaviour at stake is that seq % 2 never selects the newest copy: it    *)
(* does after the upgrade of an old record, which raises the sequence      *)
(* number in RAM only, and then the only copy may be lost - but never      *)
(* again once a record of this firmware is complete.                       *)
Register == INSTANCE MetadataRegister WITH reg <- Newest(copies)

RegisterSpec == Register!Spec
=============================================================================
