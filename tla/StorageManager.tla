---------------------------- MODULE StorageManager ----------------------------
(***************************************************************************)
(* storage_manager.c: one job slot, the boot snapshot, and the file        *)
(* operations both are made of, on an SD card that shares SPI0 with the    *)
(* display.  Three actors: the storage service, the SCPI front end that    *)
(* posts jobs and probes the card for status queries, and the renderer of  *)
(* the user interface.                                                     *)
(*                                                                         *)
(* Every access to the card may fail.  A file is written to a temporary    *)
(* name and renamed, and f_rename refuses a name that exists; a write      *)
(* reported as failed may still have left the complete file.  Left out:    *)
(* contents of files, a change of cards.                                   *)
(***************************************************************************)
EXTENDS Naturals, FiniteSets, ResourceArbiter

CONSTANTS
  PackSize,     \* files of the system pack other than the manifest
  MaxSequence,  \* highest sequence number of a file name, 999999 in the code
  Preemptive,   \* FreeRTOS tasks; otherwise calls of one loop
  Events        \* how many SCPI commands and power losses there are

ASSUME StorageAssumption ==
  /\ PackSize \in Nat \ {0} /\ MaxSequence \in Nat \ {0}
  /\ Preemptive \in BOOLEAN /\ Events \in Nat

VARIABLES
  files,     \* complete files of the volume: <<kind, number>>
  volume,    \* the card holds a volume that can be mounted
  mounted,   \* s_mounted of the FatFs port
  cites,     \* what each fault report says: its snapshot and its trace
  ready,     \* s_storage_vector is CARD_READY, of a card that is present
  busy,      \* s_storage_vector.storage_error is RESOURCE_BUSY
  manifest,  \* s_storage_vector.manifest_status
  last,      \* last_snapshot, last_trace_id, last_fault_report_id
  job,       \* s_storage_job
  boot,      \* s_boot_snapshot_*
  svc,       \* the call of storage_manager_service under way
  scpi,      \* the SCPI front end: "idle", "waiting", or what it does
  ui,        \* the renderer: "idle", "drawing"
  denied,    \* the service has just found the bus taken by the renderer
  held,      \* the bits of the resource arbiter
  sent       \* SCPI commands sent so far

vector == <<ready, busy, manifest, last>>
medium == <<files, cites>>
card == <<volume, mounted>>
others == <<scpi, ui, denied, sent>>
vars == <<medium, card, vector, job, boot, svc, others, held>>

Kinds == {"boot", "arm", "fault"}
Numbered == Kinds \cup {"bin", "idx", "report"}
Pack == {<<"pack", i>> : i \in 1..PackSize}
Manifest == <<"manifest", 0>>
CardBus == {"SPI0", "SD"}
DisplayBus == {"SPI0", "LCD"}
NoJob == [type |-> "NONE", kind |-> "boot", state |-> "IDLE", step |-> 0,
          ok0 |-> FALSE, ok1 |-> FALSE, result |-> 0, erased |-> FALSE]
AtRest == [pc |-> "rest", by |-> "job", op |-> "none", kind |-> "boot",
           at |-> 0, ok |-> FALSE]

(* storage_job_is_active.                                                  *)
Active == job.state \in {"QUEUED", "RUNNING"}
EvidenceActive == job.type = "FAULT_EVIDENCE" /\ Active
BootFirst == boot.pending /\ boot.due

(* The storage service has something to do.                                *)
Working == svc.pc # "rest" \/ Active \/ BootFirst

(* Without preemption an actor steps only when no other is in a call; SCPI *)
(* calls the storage service itself while it waits.                        *)
StorageTurn == Preemptive \/ (scpi \in {"idle", "waiting"} /\ ui # "drawing")
ScpiTurn == Preemptive \/ (svc.pc = "rest" /\ ui # "drawing")
UiTurn == Preemptive \/ (svc.pc = "rest" /\ scpi = "idle")

-----------------------------------------------------------------------------
(* What the operations have in common.                                     *)

Start(by, op, kind) ==
  /\ svc' = [AtRest EXCEPT !.pc = IF op = "none" THEN "judge" ELSE "probe",
                           !.by = by, !.op = op, !.kind = kind]
  /\ manifest' = IF op = "scan" THEN "OTHER" ELSE manifest

(* The operation returns ok.  A snapshot, a trace and a report publish     *)
(* their number, or 0.                                                     *)
Return(ok, number) ==
  /\ svc' = [svc EXCEPT !.pc = "judge", !.ok = ok]
  /\ last' = CASE svc.op = "snapshot" ->
                    [last EXCEPT !.kind = svc.kind, !.snapshot = number]
               [] svc.op = "trace" -> [last EXCEPT !.trace = number]
               [] svc.op = "report" -> [last EXCEPT !.report = number]
               [] OTHER -> last

Fail(resource) ==
  /\ Return(FALSE, 0)
  /\ busy' = resource
  /\ manifest' = IF svc.op = "scan" THEN "OTHER" ELSE manifest

Succeed(number) ==
  /\ Return(TRUE, number)
  /\ ready' = TRUE /\ busy' = FALSE

GrabCard == MayAcquire(held, CardBus) /\ held' = Acquired(held, CardBus, Anonymous)
LeaveCard == held' = Released(held, CardBus, Anonymous)

(* storage_manager_probe on the bus: fatfs_port_mount does nothing when    *)
(* there is a mounted volume, whatever is on the card.                     *)
ProbeCard ==
  \E answers \in BOOLEAN :
    /\ mounted' = (mounted \/ (answers /\ volume))
    /\ ready' = (answers /\ mounted')

(* fatfs_port_write_*_file_atomic of a file.                               *)
RenamedOver(file) == files' = files \cup {file}  \* a mutant: it may exist

Renamed(file) == file \notin files /\ files' = files \cup {file}
NotRenamed(file) == files' = files \/ Renamed(file)

(* fatfs_port_find_max_sequence: the directory is read to its end or to    *)
(* the first entry that cannot be read.                                    *)
SeenMax(kind) == {0} \cup {n \in 1..MaxSequence : <<kind, n>> \in files}

(***************************************************************************)
(* storage_manager_service: a step of the boot snapshot, or a step of the  *)
(* job.                                                                    *)
(***************************************************************************)
StartBoot ==
  /\ svc.pc = "rest" /\ StorageTurn /\ BootFirst
  /\ \/ /\ boot.step = 0 /\ manifest = "OK"
        /\ boot' = [boot EXCEPT !.step = 3]
        /\ UNCHANGED <<svc, manifest>>
     \/ boot.step = 0 /\ manifest # "OK" /\ Start("boot", "scan", "boot") /\ UNCHANGED boot
     \/ boot.step = 1 /\ Start("boot", "init", "boot") /\ UNCHANGED boot
     \/ boot.step = 2 /\ Start("boot", "scan", "boot") /\ UNCHANGED boot
     \/ /\ boot.step = 3
        /\ boot' = [boot EXCEPT !.pending = FALSE]
        /\ Start("boot", "snapshot", "boot")
  /\ UNCHANGED <<medium, card, ready, busy, last, job, others, held>>

(* The operation the next step of the job calls; a scan that follows a     *)
(* failed initialisation is not called.                                    *)
StepOf(j) ==
  CASE j.type = "QUERY" -> "query"
    [] j.type = "SNAPSHOT_WRITE" -> "snapshot"
    [] j.type = "MANIFEST_SCAN" ->
         <<"scan", "init", IF j.ok0 THEN "scan" ELSE "none">>[j.step + 1]
    [] j.type = "SYSTEM_INIT" ->
         <<"init", IF j.ok0 THEN "scan" ELSE "none">>[j.step + 1]
    [] j.type = "FAULT_EVIDENCE" -> <<"snapshot", "trace", "report">>[j.step + 1]

(* A mutant: only a queued job is taken up.                                *)
ServedQueued(j) == j.state = "QUEUED"

Served(j) == j.state \in {"QUEUED", "RUNNING"}

StartJob ==
  /\ svc.pc = "rest" /\ StorageTurn /\ ~BootFirst /\ Served(job)
  /\ job' = [job EXCEPT !.state = "RUNNING"]
  /\ Start("job", StepOf(job), job.kind)
  /\ UNCHANGED <<medium, card, ready, busy, last, boot, others, held>>

(* An operation finds the bus taken.                                       *)
Denied == /\ ~MayAcquire(held, CardBus) /\ Fail(TRUE)
          /\ denied' = (held["LCD"] # Nobody)
          /\ UNCHANGED held

Probe ==
  /\ svc.pc = "probe" /\ StorageTurn
  /\ \/ /\ ready
        /\ busy' = FALSE
        /\ svc' = [svc EXCEPT !.pc = "claim"]
        /\ UNCHANGED <<last, held, manifest, denied>>
     \/ /\ ~ready /\ GrabCard
        /\ svc' = [svc EXCEPT !.pc = "probing"]
        /\ UNCHANGED <<last, busy, manifest, denied>>
     \/ ~ready /\ Denied
  /\ UNCHANGED <<medium, card, ready, job, boot, scpi, ui, sent>>

Probed ==
  /\ svc.pc = "probing" /\ StorageTurn
  /\ ProbeCard /\ busy' = FALSE /\ LeaveCard
  /\ IF ready'
     THEN svc' = [svc EXCEPT !.pc = "claim"] /\ UNCHANGED <<last, manifest>>
     ELSE /\ Return(FALSE, 0)
          /\ manifest' = IF svc.op = "scan" THEN "OTHER" ELSE manifest
  /\ denied' = (denied /\ ready')
  /\ UNCHANGED <<medium, volume, job, boot, scpi, ui, sent>>

(* The first call of the FatFs port mounts the volume.                     *)
Claim ==
  /\ svc.pc = "claim" /\ StorageTurn
  /\ \/ /\ GrabCard /\ denied' = FALSE
        /\ svc' = [svc EXCEPT !.pc = "files"]
        /\ mounted' = (mounted \/ volume)
        /\ UNCHANGED <<last, busy, manifest>>
     \/ Denied /\ UNCHANGED mounted
  /\ UNCHANGED <<medium, volume, ready, job, boot, scpi, ui, sent>>

(* file_info, read_file_range and catalog_page.                            *)
Query ==
  /\ svc.pc = "files" /\ svc.op = "query"
  /\ \/ Succeed(0) /\ UNCHANGED manifest
     \/ Fail(FALSE) /\ ready' = FALSE
  /\ LeaveCard
  /\ UNCHANGED medium

(* scan_manifest: each file is there or not, or cannot be looked up.       *)
Scan ==
  /\ svc.pc = "files" /\ svc.op = "scan"
  /\ \/ Manifest \in files /\ Pack \subseteq files /\ manifest' = "OK" /\ Return(TRUE, 0)
     \/ manifest' \in {"NOT_FOUND", "OTHER"} /\ Return(FALSE, 0)
  /\ LeaveCard
  /\ UNCHANGED <<medium, ready, busy>>

(* initialize_system_pack: nothing to do, or it is not known whether there *)
(* is a manifest.                                                          *)
InitNothing ==
  /\ svc.pc = "files" /\ svc.op = "init" /\ svc.at = 0
  /\ \/ Manifest \in files /\ Return(TRUE, 0) /\ UNCHANGED <<busy, manifest>>
     \/ Fail(FALSE)
  /\ LeaveCard
  /\ UNCHANGED <<medium, ready>>

(* f_stat reports any failure as a missing file.                           *)
InitBegin ==
  /\ svc.pc = "files" /\ svc.op = "init" /\ svc.at = 0
  /\ svc' = [svc EXCEPT !.at = 1]
  /\ UNCHANGED <<medium, vector, held>>

(* A mutant: the manifest comes first.                                     *)
PackFileManifestFirst(i) == IF i = 1 THEN Manifest ELSE <<"pack", i - 1>>

PackFile(i) == IF i <= PackSize THEN <<"pack", i>> ELSE Manifest

(* storage_write_text_if_missing of one file, storage_write_text_checked   *)
(* of the manifest.                                                        *)
InitFile ==
  /\ svc.pc = "files" /\ svc.op = "init" /\ svc.at > 0
  /\ LET file == PackFile(svc.at)
         skipped == file # Manifest /\ file \in files /\ UNCHANGED files
     IN \/ /\ skipped \/ Renamed(file)
           /\ IF svc.at > PackSize
              THEN Succeed(0) /\ manifest' = "OTHER" /\ LeaveCard
              ELSE /\ svc' = [svc EXCEPT !.at = svc.at + 1]
                   /\ UNCHANGED <<vector, held>>
        \/ NotRenamed(file) /\ Fail(FALSE) /\ LeaveCard /\ UNCHANGED ready
  /\ UNCHANGED cites

(* The name the operation looks for.                                       *)
NumberedKind == CASE svc.op = "snapshot" -> svc.kind
                  [] svc.op = "trace" -> "bin"
                  [] svc.op = "report" -> "report"

MayNumber(max) == max < MaxSequence

(* The directories are made and the next number is found, or not.          *)
Number ==
  /\ svc.pc = "files" /\ svc.op \in {"snapshot", "trace", "report"} /\ svc.at = 0
  /\ \/ \E max \in SeenMax(NumberedKind) :
          /\ MayNumber(max)
          /\ svc' = [svc EXCEPT !.at = max + 1]
          /\ UNCHANGED <<vector, held>>
     \/ Fail(FALSE) /\ LeaveCard /\ UNCHANGED ready
  /\ UNCHANGED medium

(* The file is written.  A trace has an index file after it; a report says *)
(* which snapshot and which trace it belongs to.                           *)
WriteNumbered ==
  /\ svc.pc = "files" /\ svc.at > 0 /\ svc.op \in {"snapshot", "trace", "report"}
  /\ LET file == <<NumberedKind, svc.at>>
         told == [kind |-> last.kind, snapshot |-> last.snapshot, trace |-> last.trace]
         Tell(written) == cites' = IF svc.op = "report" /\ written
                                   THEN [cites EXCEPT ![svc.at] = told] ELSE cites
     IN \/ /\ Renamed(file) /\ Tell(TRUE)
           /\ IF svc.op = "trace"
              THEN svc' = [svc EXCEPT !.pc = "index"] /\ UNCHANGED <<vector, held>>
              ELSE Succeed(svc.at) /\ LeaveCard /\ UNCHANGED manifest
        \/ /\ NotRenamed(file) /\ Tell(file \in files' \ files)
           /\ Fail(FALSE) /\ LeaveCard /\ UNCHANGED ready

WriteIndex ==
  /\ svc.pc = "index"
  /\ \/ Renamed(<<"idx", svc.at>>) /\ Succeed(svc.at) /\ UNCHANGED manifest
     \/ NotRenamed(<<"idx", svc.at>>) /\ Fail(FALSE) /\ UNCHANGED ready
  /\ LeaveCard
  /\ UNCHANGED cites

(* Without a mounted volume every operation fails.                         *)
FileStep ==
  /\ StorageTurn
  /\ Query \/ Scan \/ InitNothing \/ InitBegin \/ InitFile \/ Number \/ WriteNumbered \/ WriteIndex
  /\ mounted \/ (svc'.pc = "judge" /\ ~svc'.ok)
  /\ UNCHANGED <<card, job, boot, others>>

-----------------------------------------------------------------------------
(* The operation has returned to storage_manager_service.                  *)

JudgeBoot ==
  /\ svc.pc = "judge" /\ svc.by = "boot" /\ StorageTurn
  /\ boot' = [boot EXCEPT !.step =
       CASE boot.step = 0 -> IF ~svc.ok /\ manifest = "NOT_FOUND" THEN 1 ELSE 3
         [] boot.step = 1 -> 2
         [] OTHER -> 3]
  /\ svc' = AtRest
  /\ UNCHANGED <<medium, card, vector, job, others, held>>

Ended(ok, result) ==
  [NoJob EXCEPT !.type = job.type, !.result = result, !.erased = job.erased,
                !.state = IF ok THEN "DONE" ELSE "FAILED"]

(* A mutant: a report is enough.                                           *)
EvidenceReported(ok) == ok

(* storage_job_complete_fault_evidence.                                    *)
EvidenceComplete(ok) == job.ok0 /\ job.ok1 /\ ok

(* storage_manager_service_job after the call.                             *)
Judged(ok) ==
  CASE job.type = "QUERY" -> Ended(ok, 0)
    [] job.type = "SNAPSHOT_WRITE" -> Ended(ok, 0)
    [] job.type = "MANIFEST_SCAN" /\ job.step = 0 ->
         IF ok \/ manifest # "NOT_FOUND" THEN Ended(ok, 0) ELSE [job EXCEPT !.step = 1]
    [] job.type = "MANIFEST_SCAN" /\ job.step = 1 -> [job EXCEPT !.step = 2, !.ok0 = ok]
    [] job.type = "SYSTEM_INIT" /\ job.step = 0 -> [job EXCEPT !.step = 1, !.ok0 = ok]
    [] job.type = "FAULT_EVIDENCE" /\ job.step = 0 -> [job EXCEPT !.step = 1, !.ok0 = ok]
    [] job.type = "FAULT_EVIDENCE" /\ job.step = 1 -> [job EXCEPT !.step = 2, !.ok1 = ok]
    [] job.type = "FAULT_EVIDENCE" /\ job.step = 2 ->
         Ended(EvidenceComplete(ok), last.report)
    [] OTHER -> Ended(ok, 0)

(* A busy resource means that the step is tried again.                     *)
JudgeJob ==
  /\ svc.pc = "judge" /\ svc.by = "job" /\ StorageTurn
  /\ job' = IF ~svc.ok /\ busy THEN job ELSE Judged(svc.ok)
  /\ svc' = AtRest
  /\ UNCHANGED <<medium, card, vector, boot, scpi, ui, denied, sent, held>>

StorageStep ==
  \/ StartBoot \/ StartJob \/ Probe \/ Probed \/ Claim \/ FileStep
  \/ JudgeBoot \/ JudgeJob

(***************************************************************************)
(* The SCPI front end.                                                     *)
(***************************************************************************)
Send == scpi = "idle" /\ ScpiTurn /\ sent < Events /\ sent' = sent + 1

(* storage_manager_post_*_job.                                             *)
Post(type, kind) ==
  IF Active
  THEN busy' = TRUE /\ UNCHANGED job
  ELSE /\ job' = [NoJob EXCEPT !.type = type, !.kind = kind, !.state = "QUEUED"]
       /\ UNCHANGED busy

(* A command that posts a job and waits for it.                            *)
Request(type) ==
  /\ Send /\ Post(type, "boot")
  /\ scpi' = IF Active THEN "idle" ELSE "waiting"
  /\ UNCHANGED <<medium, card, ready, manifest, last, boot, svc, ui, denied, held>>

MmemQuery == Request("QUERY")
ManifestQuery == Request("MANIFEST_SCAN")
StorageInit == Request("SYSTEM_INIT")
SnapshotWrite == Request("SNAPSHOT_WRITE")

(* A path outside the allowed roots, or a length of 0: the job has failed  *)
(* before it was queued, and only the path leaves its mark on the state.   *)
RequestDenied ==
  /\ Send
  /\ IF Active
     THEN busy' = TRUE /\ UNCHANGED <<job, ready>>
     ELSE /\ job' = [NoJob EXCEPT !.type = "QUERY", !.state = "FAILED"]
          /\ ready' \in {FALSE, ready} /\ busy' = FALSE
  /\ UNCHANGED <<medium, card, manifest, last, boot, svc, scpi, ui, denied, held>>

(* JOB:INFO, and the posts whose outcome TRIG:ARM and TRIG:FAULT ignore.   *)
Leave(type, kind) ==
  /\ Send /\ Post(type, kind)
  /\ UNCHANGED <<medium, card, ready, manifest, last, boot, svc, scpi, ui, denied, held>>

JobInfo == Leave("QUERY", "boot")
TrigArm == Leave("SNAPSHOT_WRITE", "arm")
TrigFault == Leave("FAULT_EVIDENCE", "fault")

(* scpi_storage_wait_job: the job has ended, or 200 polls have passed.  In *)
(* one loop a poll is a whole call of the storage service.                 *)
WaitOver ==
  /\ scpi = "waiting" /\ ScpiTurn /\ (Active => Preemptive)
  /\ scpi' = "idle"
  /\ UNCHANGED <<medium, card, vector, job, boot, svc, ui, denied, held, sent>>

(* The status queries probe the card in the task of SCPI.                  *)
StatusProbe ==
  /\ Send
  /\ \/ ready /\ busy' = FALSE /\ UNCHANGED <<scpi, held>>
     \/ ~ready /\ GrabCard /\ scpi' = "probing" /\ UNCHANGED busy
     \/ /\ ~ready /\ ~MayAcquire(held, CardBus)
        /\ busy' = TRUE /\ UNCHANGED <<scpi, held>>
  /\ UNCHANGED <<medium, card, ready, manifest, last, job, boot, svc, ui, denied>>

StatusProbed ==
  /\ scpi = "probing" /\ ScpiTurn
  /\ ProbeCard /\ busy' = FALSE /\ LeaveCard /\ scpi' = "idle"
  /\ UNCHANGED <<medium, volume, manifest, last, job, boot, svc, ui, denied, sent>>

(* The commands that go to the card themselves, whatever job there is.     *)
RawCommand(doing) ==
  /\ Send
  /\ \/ GrabCard /\ scpi' = doing /\ UNCHANGED busy
     \/ ~MayAcquire(held, CardBus) /\ busy' = TRUE /\ UNCHANGED <<scpi, held>>
  /\ UNCHANGED <<medium, card, ready, manifest, last, job, boot, svc, ui, denied>>

RawRead == RawCommand("reading")
RawClear ==
  \/ RawCommand("clearing")
  \/ /\ Send /\ busy' = FALSE  \* no sectors, or too many
     /\ UNCHANGED <<medium, card, ready, manifest, last, job, boot, svc, scpi, ui, denied, held>>
MkFs == RawCommand("formatting")

RawDone(doing) ==
  /\ scpi = doing /\ ScpiTurn
  /\ busy' = FALSE /\ LeaveCard /\ scpi' = "idle"
  /\ UNCHANGED <<cites, last, boot, svc, ui, denied, sent>>

(* Whether a card answers is noted, and not the state: a card that is back *)
(* may be ready again.                                                     *)
RawReadDone ==
  /\ RawDone("reading")
  /\ ready' \in {FALSE, ready, mounted}
  /\ UNCHANGED <<files, card, manifest, job>>

Erased == job' = [job EXCEPT !.erased = TRUE]

(* storage_manager_raw_clear_prefix: the sectors at the beginning are      *)
(* zeroed, as far as the card answers, with directories or without.  The   *)
(* FatFs port is not told.                                                 *)
RawClearDone ==
  /\ RawDone("clearing")
  /\ ready' = FALSE /\ manifest' = "OTHER"
  /\ \/ UNCHANGED <<files, volume, job>>
     \/ Erased /\ volume' = FALSE /\ files' \in {files, {}}
  /\ UNCHANGED mounted

(* storage_manager_format_volume.                                          *)
MkFsDone ==
  /\ RawDone("formatting")
  /\ manifest' = "OTHER"
  /\ \/ ready' = FALSE /\ UNCHANGED <<files, card, job>>
     \/ /\ mounted' \in BOOLEAN /\ ready' = mounted'
        /\ Erased /\ volume' = TRUE /\ files' = {}
     \/ /\ mounted' = FALSE /\ ready' = FALSE
        /\ \/ UNCHANGED <<files, volume, job>>
           \/ Erased /\ volume' = FALSE /\ files' = {}

-----------------------------------------------------------------------------
(* sync_config_ui_render skips the frame when the bus is taken.  The task  *)
(* of the renderer sleeps 5 ms after a frame and the storage task 1 ms     *)
(* before it repeats a call, and the repeated call claims the bus first    *)
(* thing: the renderer does not deny it to two calls in succession.        *)
Draw ==
  /\ ui = "idle" /\ UiTurn /\ (denied => ~Working)
  /\ MayAcquire(held, DisplayBus)
  /\ held' = Acquired(held, DisplayBus, Anonymous)
  /\ ui' = "drawing" /\ denied' = FALSE
  /\ UNCHANGED <<medium, card, vector, job, boot, svc, scpi, sent>>

Drawn ==
  /\ ui = "drawing"
  /\ held' = Released(held, DisplayBus, Anonymous)
  /\ ui' = "idle"
  /\ UNCHANGED <<medium, card, vector, job, boot, svc, scpi, denied, sent>>

BootDue ==
  /\ boot.pending /\ ~boot.due
  /\ boot' = [boot EXCEPT !.due = TRUE]
  /\ UNCHANGED <<medium, card, vector, job, svc, others, held>>

(* storage_manager_init.                                                   *)
NothingYet == [kind |-> "boot", snapshot |-> 0, trace |-> 0, report |-> 0]
BootLater == [pending |-> TRUE, due |-> FALSE, step |-> 0]
AllFree == [r \in CardBus \cup DisplayBus |-> Nobody]

Init ==
  /\ volume \in BOOLEAN /\ mounted = FALSE
  /\ ready = FALSE /\ busy = FALSE /\ manifest = "OTHER"
  /\ last = NothingYet /\ job = NoJob /\ boot = BootLater
  /\ svc = AtRest /\ scpi = "idle" /\ ui = "idle" /\ denied = FALSE /\ held = AllFree
  /\ files = {} /\ sent = 0
  /\ cites = [n \in 1..MaxSequence |-> [kind |-> "boot", snapshot |-> 0, trace |-> 0]]

(* An erasure may have begun; what was written to a volume that cannot be  *)
(* mounted is lost.                                                        *)
PowerLoss ==
  /\ sent < Events /\ sent' = sent + 1
  /\ volume' \in IF scpi \in {"clearing", "formatting"} THEN {FALSE, volume} ELSE {volume}
  /\ mounted' = FALSE /\ files' = IF volume' THEN files ELSE {}
  /\ ready' = FALSE /\ busy' = FALSE /\ manifest' = "OTHER"
  /\ last' = NothingYet /\ job' = NoJob /\ boot' = BootLater
  /\ svc' = AtRest /\ scpi' = "idle" /\ ui' = "idle" /\ denied' = FALSE /\ held' = AllFree
  /\ UNCHANGED cites

Next ==
  \/ StorageStep
  \/ MmemQuery \/ ManifestQuery \/ StorageInit \/ SnapshotWrite \/ RequestDenied
  \/ JobInfo \/ TrigArm \/ TrigFault \/ WaitOver
  \/ StatusProbe \/ StatusProbed
  \/ RawRead \/ RawClear \/ MkFs \/ RawReadDone \/ RawClearDone \/ MkFsDone
  \/ Draw \/ Drawn \/ BootDue \/ PowerLoss

ScpiStep == StatusProbed \/ RawReadDone \/ RawClearDone \/ MkFsDone
Fairness == WF_vars(StorageStep) /\ WF_vars(ScpiStep) /\ WF_vars(Drawn)

Spec == Init /\ [][Next]_vars
FairSpec == Spec /\ Fairness

-----------------------------------------------------------------------------
JobTypes == {"NONE", "QUERY", "SNAPSHOT_WRITE", "MANIFEST_SCAN", "SYSTEM_INIT",
             "FAULT_EVIDENCE"}
Operations == {"none", "query", "scan", "init", "snapshot", "trace", "report"}
Counts == 0..MaxSequence

Files == Pack \cup {Manifest} \cup (Numbered \X (1..MaxSequence))
Cites == [1..MaxSequence -> [kind : Kinds, snapshot : Counts, trace : Counts]]
Lasts == [kind : Kinds, snapshot : Counts, trace : Counts, report : Counts]
Jobs == [type : JobTypes, kind : Kinds,
         state : {"IDLE", "QUEUED", "RUNNING", "DONE", "FAILED"}, step : 0..2,
         ok0 : BOOLEAN, ok1 : BOOLEAN, result : Counts, erased : BOOLEAN]
Boots == [pending : BOOLEAN, due : BOOLEAN, step : 0..3]
Calls == [pc : {"rest", "probe", "probing", "claim", "files", "index", "judge"},
          by : {"job", "boot"}, op : Operations, kind : Kinds, at : Nat, ok : BOOLEAN]
Held == [CardBus \cup DisplayBus -> {Nobody, Anonymous}]

(* Values; the numbers of files stay below the six digits of their names.  *)
TypeOK ==
  /\ files \in SUBSET Files /\ cites \in Cites
  /\ volume \in BOOLEAN /\ mounted \in BOOLEAN
  /\ ready \in BOOLEAN /\ busy \in BOOLEAN /\ manifest \in {"OK", "NOT_FOUND", "OTHER"}
  /\ last \in Lasts /\ job \in Jobs /\ boot \in Boots /\ svc \in Calls /\ held \in Held
  /\ scpi \in {"idle", "waiting", "probing", "reading", "clearing", "formatting"}
  /\ ui \in {"idle", "drawing"} /\ denied \in BOOLEAN /\ sent \in 0..Events

(* Storage, status queries and display share SPI0 and hold it without a    *)
(* name: at most one of them is on the bus, and it is taken exactly then.  *)
BusExclusive ==
  LET users == {u \in {"storage", "scpi", "ui"} :
                  \/ u = "storage" /\ svc.pc \in {"probing", "files", "index"}
                  \/ u = "scpi" /\ scpi \notin {"idle", "waiting"}
                  \/ u = "ui" /\ ui = "drawing"}
  IN Cardinality(users) <= 1 /\ (held["SPI0"] # Nobody <=> users # {})

(* A card with a manifest has every file it requires, whatever failed or   *)
(* was cut short while the pack was written.                               *)
PackComplete == Manifest \in files => Pack \subseteq files

(* No file of evidence is overwritten: every file that appears is new, and *)
(* none goes away or changes what it says, unless the host has the card    *)
(* erased.                                                                 *)
EvidenceKept ==
  [][volume /\ volume' /\ scpi # "formatting" =>
       /\ files \subseteq files'
       /\ \A n \in 1..MaxSequence : <<"report", n>> \in files => cites'[n] = cites[n]]_vars

(* A job of fault evidence that reports DONE has left its report on the    *)
(* card, with a trace and its index, and with a snapshot, of a fault or,   *)
(* when the boot snapshot came between two of its steps, that one, unless  *)
(* the host has had the card erased since it was posted.                   *)
EvidenceDone ==
  job.type = "FAULT_EVIDENCE" /\ job.state = "DONE" /\ ~job.erased =>
    LET n == job.result IN
    /\ <<"report", n>> \in files
    /\ {<<"bin", cites[n].trace>>, <<"idx", cites[n].trace>>} \subseteq files
    /\ <<cites[n].kind, cites[n].snapshot>> \in files \/ cites[n].kind = "boot"
    /\ \E k \in 1..MaxSequence : <<"fault", k>> \in files

(* Evidence that is being written is written or given up, however often    *)
(* the display has the bus.                                                *)
EvidenceEnds == EvidenceActive ~> ~EvidenceActive

=============================================================================
