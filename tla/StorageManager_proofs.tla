------------------------- MODULE StorageManager_proofs -------------------------
(***************************************************************************)
(* The safety of the storage manager for every number of files, commands   *)
(* and power losses: one user of SPI0 at a time, a manifest only with its  *)
(* files, no evidence overwritten, and all of it there when a job is done. *)
(* That the files of the pack stay while it is written rests on the bus:   *)
(* an erasure needs it too.                                                *)
(***************************************************************************)
EXTENDS StorageManager, FiniteSetTheorems, TLAPS

(* Who is on the bus.                                                      *)
OnBus == svc.pc \in {"probing", "files", "index"}
ScpiOnBus == scpi \notin {"idle", "waiting"}
Drawing == ui = "drawing"

BusInv ==
  /\ ~(OnBus /\ ScpiOnBus) /\ ~(OnBus /\ Drawing) /\ ~(ScpiOnBus /\ Drawing)
  /\ held["SPI0"] = Nobody <=> ~(OnBus \/ ScpiOnBus \/ Drawing)
  /\ held["SD"] = Nobody <=> ~(OnBus \/ ScpiOnBus)
  /\ held["LCD"] = Nobody <=> ~Drawing

(* The operation under way is one its job or the boot snapshot calls, and  *)
(* its file has a number there is.                                         *)
Fits ==
  /\ Active => job.type # "NONE"
  /\ job.type = "SYSTEM_INIT" => job.step \in 0..1
  /\ svc.pc \in {"probe", "probing", "claim", "files", "index"} => svc.op # "none"
  /\ svc.pc \in {"probe", "probing", "claim"} => svc.at = 0
  /\ svc.pc = "files" /\ svc.op = "init" => svc.at \in 0..(PackSize + 1)
  /\ svc.pc = "files" /\ svc.op \in {"snapshot", "trace", "report"} =>
       svc.at \in 0..MaxSequence
  /\ svc.pc = "index" => svc.op = "trace" /\ svc.at \in 1..MaxSequence

(* The files of the pack are written one after the other.                  *)
PackInv ==
  svc.pc = "files" /\ svc.op = "init" =>
    \A i \in 1..PackSize : i < svc.at => <<"pack", i>> \in files

IInv == TypeOK /\ Fits /\ BusInv /\ PackInv /\ PackComplete

-----------------------------------------------------------------------------
(* What the arbiter does with the buses.                                   *)
LEMMA Grabbed ==
  ASSUME TypeOK, BusInv, GrabCard
  PROVE  /\ ~OnBus /\ ~ScpiOnBus /\ ~Drawing
         /\ held' \in Held
         /\ held'["SPI0"] # Nobody /\ held'["SD"] # Nobody /\ held'["LCD"] = Nobody
  BY DEF TypeOK, BusInv, GrabCard, MayAcquire, Acquired, CardBus, DisplayBus, Held,
         Nobody, Anonymous

LEMMA Left ==
  ASSUME TypeOK, LeaveCard
  PROVE  /\ held' \in Held
         /\ held'["SPI0"] = Nobody /\ held'["SD"] = Nobody /\ held'["LCD"] = held["LCD"]
  BY DEF TypeOK, LeaveCard, Released, OwnerMatches, CardBus, DisplayBus, Held,
         Nobody, Anonymous

LEMMA DisplayGrabbed ==
  ASSUME TypeOK, MayAcquire(held, DisplayBus), held' = Acquired(held, DisplayBus, Anonymous)
  PROVE  /\ held' \in Held /\ held["SPI0"] = Nobody
         /\ held'["SPI0"] # Nobody /\ held'["SD"] = held["SD"] /\ held'["LCD"] # Nobody
  BY DEF TypeOK, MayAcquire, Acquired, CardBus, DisplayBus, Held, Nobody, Anonymous

LEMMA DisplayLeft ==
  ASSUME TypeOK, held' = Released(held, DisplayBus, Anonymous)
  PROVE  /\ held' \in Held
         /\ held'["SPI0"] = Nobody /\ held'["SD"] = held["SD"] /\ held'["LCD"] = Nobody
  BY DEF TypeOK, Released, OwnerMatches, CardBus, DisplayBus, Held, Nobody, Anonymous

-----------------------------------------------------------------------------
(* Types.                                                                  *)
LEMMA RestTypes ==
  /\ AtRest \in Calls /\ NoJob \in Jobs /\ BootLater \in Boots /\ NothingYet \in Lasts
  /\ AllFree \in Held
  /\ [n \in 1..MaxSequence |-> [kind |-> "boot", snapshot |-> 0, trace |-> 0]] \in Cites
  <1>1. 0 \in Counts /\ 0 \in Nat /\ 0 \in 0..2 /\ 0 \in 0..3
    BY StorageAssumption DEF Counts
  <1>2. "boot" \in Kinds
    BY DEF Kinds
  <1>3. AtRest \in Calls
    BY <1>1, <1>2 DEF AtRest, Calls, Operations
  <1>4. NoJob \in Jobs
    BY <1>1, <1>2 DEF NoJob, Jobs, JobTypes
  <1>5. BootLater \in Boots /\ NothingYet \in Lasts
    BY <1>1, <1>2 DEF BootLater, Boots, NothingYet, Lasts
  <1>6. AllFree \in Held
    BY DEF AllFree, Held
  <1>7. [n \in 1..MaxSequence |-> [kind |-> "boot", snapshot |-> 0, trace |-> 0]] \in Cites
    BY <1>1, <1>2 DEF Cites
  <1> QED
    BY <1>3, <1>4, <1>5, <1>6, <1>7

LEMMA ReturnTypes ==
  ASSUME TypeOK, NEW b \in BOOLEAN, NEW n \in Counts, Return(b, n)
  PROVE  svc' \in Calls /\ last' \in Lasts /\ svc' = [svc EXCEPT !.pc = "judge", !.ok = b]
  <1>1. svc \in Calls /\ last \in Lasts
    BY DEF TypeOK
  <1>2. svc' \in Calls
    BY <1>1 DEF Return, Calls
  <1>3. /\ [last EXCEPT !.kind = svc.kind, !.snapshot = n] \in Lasts
        /\ [last EXCEPT !.trace = n] \in Lasts
        /\ [last EXCEPT !.report = n] \in Lasts
    BY <1>1 DEF Lasts, Calls
  <1> QED
    BY <1>1, <1>2, <1>3 DEF Return

LEMMA EndedTypes ==
  ASSUME TypeOK, NEW b \in BOOLEAN, NEW n \in Counts
  PROVE  Ended(b, n) \in Jobs
  <1>1. NoJob \in Jobs /\ job.type \in JobTypes /\ job.erased \in BOOLEAN
    BY RestTypes DEF TypeOK, Jobs
  <1> QED
    BY <1>1 DEF Ended, Jobs

LEMMA JudgedTypes ==
  ASSUME TypeOK, NEW b \in BOOLEAN
  PROVE  Judged(b) \in Jobs
  <1>0. job \in Jobs /\ 1 \in 0..2 /\ 2 \in 0..2
    BY DEF TypeOK
  <1>1. /\ [job EXCEPT !.step = 1] \in Jobs
        /\ [job EXCEPT !.step = 2, !.ok0 = b] \in Jobs
        /\ [job EXCEPT !.step = 1, !.ok0 = b] \in Jobs
        /\ [job EXCEPT !.step = 2, !.ok1 = b] \in Jobs
    BY <1>0 DEF Jobs
  <1>2. job.ok0 \in BOOLEAN /\ job.ok1 \in BOOLEAN
    BY <1>0 DEF Jobs
  <1>3. last.report \in Counts /\ 0 \in Counts
    BY StorageAssumption DEF TypeOK, Lasts, Counts
  <1>4. EvidenceComplete(b) \in BOOLEAN
    BY <1>2 DEF EvidenceComplete
  <1> QED
    BY <1>1, <1>3, <1>4, EndedTypes DEF Judged

LEMMA SentTypes ==
  ASSUME TypeOK, sent < Events, sent' = sent + 1
  PROVE  sent' \in 0..Events
  BY StorageAssumption DEF TypeOK

-----------------------------------------------------------------------------
(* The display, the timer of the boot snapshot, and a loss of power.       *)
LEMMA DrawKeeps ==
  ASSUME IInv, Draw \/ Drawn
  PROVE  IInv'
  <1> USE DEF IInv, medium, card, vector
  <1>0. /\ held' \in Held
        /\ ui' \in {"idle", "drawing"} /\ denied' \in BOOLEAN
        /\ UNCHANGED <<files, cites, volume, mounted, ready, busy, manifest, last,
                       job, boot, svc, scpi, sent>>
    BY DisplayGrabbed, DisplayLeft DEF TypeOK, Draw, Drawn
  <1>1. TypeOK'
    BY <1>0 DEF TypeOK
  <1>2. BusInv'
    BY DisplayGrabbed, DisplayLeft DEF TypeOK, BusInv, OnBus, ScpiOnBus, Drawing, Draw, Drawn
  <1>3. Fits' /\ PackInv' /\ PackComplete'
    BY DEF Fits, Active, PackInv, PackComplete, Draw, Drawn
  <1> QED
    BY <1>1, <1>2, <1>3

LEMMA BootDueKeeps ==
  ASSUME IInv, BootDue
  PROVE  IInv'
  <1> USE DEF IInv, medium, card, vector, others, BootDue
  <1>1. boot' \in Boots
    BY DEF TypeOK, Boots
  <1>2. TypeOK'
    BY <1>1 DEF TypeOK
  <1>3. BusInv' /\ Fits' /\ PackInv' /\ PackComplete'
    BY DEF BusInv, OnBus, ScpiOnBus, Drawing, Fits, Active, PackInv, PackComplete
  <1> QED
    BY <1>2, <1>3

LEMMA PowerLossKeeps ==
  ASSUME IInv, PowerLoss
  PROVE  IInv'
  <1>0. TypeOK /\ files \in SUBSET Files
    BY DEF IInv, TypeOK
  <1>1. files' = files \/ files' = {}
    BY DEF PowerLoss
  <1>2. TypeOK'
    <2>1. sent' \in 0..Events
      BY <1>0, SentTypes DEF PowerLoss
    <2>2. volume' \in BOOLEAN
      BY <1>0 DEF TypeOK, PowerLoss
    <2>3. files' \in SUBSET Files
      BY <1>0, <1>1
    <2> QED
      BY <1>0, <2>1, <2>2, <2>3, RestTypes DEF TypeOK, PowerLoss
  <1>3. BusInv'
    BY DEF BusInv, OnBus, ScpiOnBus, Drawing, PowerLoss, AtRest, AllFree, CardBus, DisplayBus
  <1>4. Fits' /\ PackInv'
    BY DEF Fits, Active, PackInv, PowerLoss, AtRest, NoJob
  <1>5. PackComplete'
    BY <1>1 DEF IInv, PackComplete
  <1> QED
    BY <1>2, <1>3, <1>4, <1>5 DEF IInv

-----------------------------------------------------------------------------
(* The SCPI front end.  Its commands leave the call of the service alone.  *)
LEMMA PostTypes ==
  ASSUME TypeOK, Fits, NEW type \in JobTypes \ {"NONE"}, NEW kind \in Kinds, Post(type, kind)
  PROVE  /\ job' \in Jobs /\ busy' \in BOOLEAN
         /\ Active' => job'.type # "NONE"
         /\ job'.type = "SYSTEM_INIT" => job'.step \in 0..1
  <1>1. NoJob \in Jobs /\ job \in Jobs /\ busy \in BOOLEAN
    BY RestTypes DEF TypeOK
  <1>2. CASE Active
    BY <1>1, <1>2 DEF Post, Fits, Active
  <1>3. CASE ~Active
    <2>1. job' = [NoJob EXCEPT !.type = type, !.kind = kind, !.state = "QUEUED"]
      BY <1>3 DEF Post
    <2>2. job' \in Jobs
      BY <1>1, <2>1 DEF Jobs
    <2>3. job'.type = type /\ job'.step = 0
      BY <2>1 DEF NoJob
    <2> QED
      BY <1>1, <1>3, <2>2, <2>3 DEF Post
  <1> QED
    BY <1>2, <1>3

LEMMA RequestKeeps ==
  ASSUME IInv, NEW type \in JobTypes \ {"NONE"}, Request(type)
  PROVE  IInv'
  <1> USE DEF IInv, medium, card, Request, Send
  <1>1. "boot" \in Kinds
    BY DEF Kinds
  <1>2. sent' \in 0..Events
    BY SentTypes
  <1>3. TypeOK'
    BY <1>1, <1>2, PostTypes DEF TypeOK
  <1>4. Fits'
    BY <1>1, PostTypes DEF Fits
  <1>5. BusInv' /\ PackInv' /\ PackComplete'
    BY DEF BusInv, OnBus, ScpiOnBus, Drawing, PackInv, PackComplete
  <1> QED
    BY <1>3, <1>4, <1>5

LEMMA LeaveKeeps ==
  ASSUME IInv, NEW type \in JobTypes \ {"NONE"}, NEW kind \in Kinds, Leave(type, kind)
  PROVE  IInv'
  <1> USE DEF IInv, medium, card, Leave, Send
  <1>2. sent' \in 0..Events
    BY SentTypes
  <1>3. TypeOK'
    BY <1>2, PostTypes DEF TypeOK
  <1>4. Fits'
    BY PostTypes DEF Fits
  <1>5. BusInv' /\ PackInv' /\ PackComplete'
    BY DEF BusInv, OnBus, ScpiOnBus, Drawing, PackInv, PackComplete
  <1> QED
    BY <1>3, <1>4, <1>5

LEMMA DeniedKeeps ==
  ASSUME IInv, RequestDenied
  PROVE  IInv'
  <1> USE DEF IInv, medium, card, RequestDenied, Send
  <1>1. /\ job' \in Jobs
        /\ Active' => job'.type # "NONE"
        /\ job'.type = "SYSTEM_INIT" => job'.step \in 0..1
    <2>1. CASE Active
      BY <2>1 DEF TypeOK, Fits, Active
    <2>2. CASE ~Active
      <3>1. job' = [NoJob EXCEPT !.type = "QUERY", !.state = "FAILED"]
        BY <2>2
      <3>2. job' \in Jobs
        BY <3>1, RestTypes DEF Jobs, JobTypes
      <3>3. job'.type = "QUERY" /\ job'.state = "FAILED"
        BY <3>1 DEF NoJob
      <3> QED
        BY <3>2, <3>3 DEF Active
    <2> QED
      BY <2>1, <2>2
  <1>2. sent' \in 0..Events
    BY SentTypes
  <1>3. ready' \in BOOLEAN /\ busy' \in BOOLEAN
    BY DEF TypeOK
  <1>4. TypeOK'
    BY <1>1, <1>2, <1>3 DEF TypeOK
  <1>5. Fits'
    BY <1>1 DEF Fits
  <1>6. BusInv' /\ PackInv' /\ PackComplete'
    BY DEF BusInv, OnBus, ScpiOnBus, Drawing, PackInv, PackComplete
  <1> QED
    BY <1>4, <1>5, <1>6

LEMMA WaitOverKeeps ==
  ASSUME IInv, WaitOver
  PROVE  IInv'
  <1> USE DEF IInv, medium, card, vector, WaitOver
  <1>1. TypeOK'
    BY DEF TypeOK
  <1>2. BusInv' /\ Fits' /\ PackInv' /\ PackComplete'
    BY DEF BusInv, OnBus, ScpiOnBus, Drawing, Fits, Active, PackInv, PackComplete
  <1> QED
    BY <1>1, <1>2

(* Commands that go to the card themselves.                                *)
LEMMA ScpiGrabs ==
  ASSUME IInv, GrabCard, scpi' \in {"probing", "reading", "clearing", "formatting"},
         UNCHANGED <<svc, ui>>
  PROVE  BusInv'
  BY Grabbed DEF IInv, BusInv, OnBus, ScpiOnBus, Drawing

LEMMA ScpiLeaves ==
  ASSUME IInv, ScpiOnBus, LeaveCard, scpi' = "idle", UNCHANGED <<svc, ui>>
  PROVE  BusInv' /\ ~OnBus /\ ~OnBus'
  BY Left DEF IInv, BusInv, OnBus, ScpiOnBus, Drawing

LEMMA StatusProbeKeeps ==
  ASSUME IInv, StatusProbe
  PROVE  IInv'
  <1> USE DEF IInv, medium, card, StatusProbe, Send
  <1>1. sent' \in 0..Events
    BY SentTypes
  <1>2. BusInv'
    <2>1. CASE GrabCard /\ scpi' = "probing"
      BY <2>1, ScpiGrabs
    <2>2. CASE UNCHANGED <<scpi, held>>
      BY <2>2 DEF BusInv, OnBus, ScpiOnBus, Drawing
    <2> QED
      BY <2>1, <2>2
  <1>3. held' \in Held
    BY Grabbed DEF TypeOK
  <1>4. TypeOK'
    BY <1>1, <1>3 DEF TypeOK
  <1>5. Fits' /\ PackInv' /\ PackComplete'
    BY DEF Fits, Active, PackInv, PackComplete
  <1> QED
    BY <1>2, <1>4, <1>5

LEMMA RawCommandKeeps ==
  ASSUME IInv, NEW doing \in {"reading", "clearing", "formatting"}, RawCommand(doing)
  PROVE  IInv'
  <1> USE DEF IInv, medium, card, RawCommand, Send
  <1>1. sent' \in 0..Events
    BY SentTypes
  <1>2. BusInv'
    <2>1. CASE GrabCard /\ scpi' = doing
      BY <2>1, ScpiGrabs
    <2>2. CASE UNCHANGED <<scpi, held>>
      BY <2>2 DEF BusInv, OnBus, ScpiOnBus, Drawing
    <2> QED
      BY <2>1, <2>2
  <1>3. held' \in Held
    BY Grabbed DEF TypeOK
  <1>4. TypeOK'
    BY <1>1, <1>3 DEF TypeOK
  <1>5. Fits' /\ PackInv' /\ PackComplete'
    BY DEF Fits, Active, PackInv, PackComplete
  <1> QED
    BY <1>2, <1>4, <1>5

LEMMA RawClearKeeps ==
  ASSUME IInv, RawClear
  PROVE  IInv'
  <1>1. CASE RawCommand("clearing")
    BY <1>1, RawCommandKeeps
  <1>2. CASE ~RawCommand("clearing")
    <2>1. sent' \in 0..Events
      BY <1>2, SentTypes DEF IInv, RawClear, Send
    <2>2. TypeOK'
      BY <1>2, <2>1 DEF IInv, TypeOK, RawClear, medium, card
    <2>3. BusInv' /\ Fits' /\ PackInv' /\ PackComplete'
      BY <1>2 DEF IInv, RawClear, medium, card, BusInv, OnBus, ScpiOnBus, Drawing, Fits,
         Active, PackInv, PackComplete
    <2> QED
      BY <2>2, <2>3 DEF IInv
  <1> QED
    BY <1>1, <1>2

LEMMA StatusProbedKeeps ==
  ASSUME IInv, StatusProbed
  PROVE  IInv'
  <1> USE DEF IInv, medium, StatusProbed
  <1>1. BusInv'
    BY ScpiLeaves DEF ScpiOnBus
  <1>2. held' \in Held
    BY Left
  <1>3. mounted' \in BOOLEAN /\ ready' \in BOOLEAN
    BY DEF ProbeCard, TypeOK
  <1>4. TypeOK'
    BY <1>2, <1>3 DEF TypeOK
  <1>5. Fits' /\ PackInv' /\ PackComplete'
    BY DEF Fits, Active, PackInv, PackComplete
  <1> QED
    BY <1>1, <1>4, <1>5

LEMMA ErasedTypes ==
  ASSUME IInv, Erased
  PROVE  /\ job' \in Jobs
         /\ Active' => job'.type # "NONE"
         /\ job'.type = "SYSTEM_INIT" => job'.step \in 0..1
  <1>1. job \in Jobs /\ job' = [job EXCEPT !.erased = TRUE]
    BY DEF IInv, TypeOK, Erased
  <1>2. job' \in Jobs
    BY <1>1 DEF Jobs
  <1>3. job'.type = job.type /\ job'.step = job.step /\ job'.state = job.state
    BY <1>1 DEF Jobs
  <1> QED
    BY <1>2, <1>3 DEF IInv, Fits, Active

(* An erasure that is over: the service was not on the bus, so it has no   *)
(* operation under way that counts on files it has written.                *)
LEMMA RawDoneKeeps ==
  ASSUME IInv, NEW doing \in {"reading", "clearing", "formatting"}, RawDone(doing),
         files' \in {files, {}}, volume' \in BOOLEAN, mounted' \in BOOLEAN, ready' \in BOOLEAN,
         manifest' \in {manifest, "OTHER"}, Erased \/ UNCHANGED job
  PROVE  IInv'
  <1>1. ScpiOnBus /\ LeaveCard /\ scpi' = "idle" /\ UNCHANGED <<svc, ui>>
    BY DEF RawDone, ScpiOnBus
  <1>2. BusInv' /\ ~OnBus /\ ~OnBus'
    BY <1>1, ScpiLeaves
  <1>3. held' \in Held
    BY <1>1, Left DEF IInv
  <1>4. job' \in Jobs
    BY ErasedTypes DEF IInv, TypeOK
  <1>5. files' \in SUBSET Files
    BY DEF IInv, TypeOK
  <1>6. TypeOK'
    BY <1>3, <1>4, <1>5 DEF IInv, TypeOK, RawDone
  <1>7. Fits'
    BY <1>1, ErasedTypes DEF IInv, Fits, Active
  <1>8. PackInv' /\ PackComplete'
    BY <1>2 DEF IInv, PackInv, PackComplete, OnBus
  <1> QED
    BY <1>2, <1>6, <1>7, <1>8 DEF IInv

LEMMA RawDonesKeep ==
  ASSUME IInv, RawReadDone \/ RawClearDone \/ MkFsDone
  PROVE  IInv'
  <1>0. /\ ready \in BOOLEAN /\ mounted \in BOOLEAN /\ volume \in BOOLEAN
        /\ FALSE \in BOOLEAN /\ TRUE \in BOOLEAN
    BY DEF IInv, TypeOK
  <1>1. CASE RawReadDone
    <2>1. /\ RawDone("reading") /\ ready' \in BOOLEAN
          /\ UNCHANGED <<files, volume, mounted, manifest, job>>
      BY <1>0, <1>1 DEF RawReadDone, card
    <2> QED
      BY <1>0, <2>1, RawDoneKeeps
  <1>2. CASE RawClearDone
    <2>1. /\ RawDone("clearing") /\ ready' = FALSE /\ manifest' = "OTHER"
          /\ mounted' = mounted /\ files' \in {files, {}} /\ volume' \in BOOLEAN
          /\ Erased \/ UNCHANGED job
      BY <1>0, <1>2 DEF RawClearDone
    <2> QED
      BY <1>0, <2>1, RawDoneKeeps
  <1>3. CASE MkFsDone
    <2>1. /\ RawDone("formatting") /\ manifest' = "OTHER"
          /\ ready' \in BOOLEAN /\ mounted' \in BOOLEAN
          /\ files' \in {files, {}} /\ volume' \in BOOLEAN
          /\ Erased \/ UNCHANGED job
      BY <1>0, <1>3 DEF MkFsDone, card
    <2> QED
      BY <2>1, RawDoneKeeps
  <1> QED
    BY <1>1, <1>2, <1>3

-----------------------------------------------------------------------------
(* The storage service between its calls.                                  *)
LEMMA StartTypes ==
  ASSUME NEW by \in {"job", "boot"}, NEW op \in Operations, NEW kind \in Kinds,
         TypeOK, Start(by, op, kind)
  PROVE  /\ svc' \in Calls /\ manifest' \in {manifest, "OTHER"}
         /\ svc'.pc = IF op = "none" THEN "judge" ELSE "probe"
         /\ svc'.op = op /\ svc'.at = 0
  <1>1. AtRest \in Calls
    BY RestTypes
  <1>2. svc' = [AtRest EXCEPT !.pc = IF op = "none" THEN "judge" ELSE "probe",
                              !.by = by, !.op = op, !.kind = kind]
    BY DEF Start
  <1>3. svc' \in Calls
    BY <1>1, <1>2 DEF Calls
  <1>4. /\ svc'.pc = IF op = "none" THEN "judge" ELSE "probe"
        /\ svc'.op = op /\ svc'.at = 0
    BY <1>2 DEF AtRest
  <1> QED
    BY <1>3, <1>4 DEF Start

(* The service is off the bus and in no step of an operation.              *)
LEMMA OffBus ==
  ASSUME IInv, ~OnBus, svc' \in Calls, svc'.pc \in {"rest", "probe", "claim", "judge"},
         UNCHANGED <<held, scpi, ui>>
  PROVE  BusInv' /\ PackInv'
  BY DEF IInv, BusInv, OnBus, ScpiOnBus, Drawing, PackInv

(* A step that starts an operation, or none.                               *)
LEMMA StartKeeps ==
  ASSUME IInv, svc.pc = "rest", NEW by \in {"job", "boot"}, NEW op \in Operations,
         NEW kind \in Kinds, Start(by, op, kind), job' \in Jobs, boot' \in Boots,
         Active' => job'.type # "NONE",
         job'.type = "SYSTEM_INIT" => job'.step \in 0..1,
         UNCHANGED <<medium, card, ready, busy, last, others, held>>
  PROVE  IInv'
  <1> USE DEF IInv, medium, card, others
  <1>1. /\ svc' \in Calls /\ manifest' \in {manifest, "OTHER"}
        /\ svc'.pc = IF op = "none" THEN "judge" ELSE "probe"
        /\ svc'.op = op /\ svc'.at = 0
    BY StartTypes
  <1>2. TypeOK'
    BY <1>1 DEF TypeOK
  <1>3. BusInv' /\ PackInv'
    BY <1>1, OffBus DEF OnBus
  <1>4. Fits'
    BY <1>1 DEF Fits
  <1>5. PackComplete'
    BY DEF PackComplete
  <1> QED
    BY <1>2, <1>3, <1>4, <1>5

LEMMA StartBootKeeps ==
  ASSUME IInv, StartBoot
  PROVE  IInv'
  <1>0. /\ boot \in Boots /\ job \in Jobs /\ job' = job /\ 3 \in 0..3
        /\ "boot" \in Kinds /\ "scan" \in Operations /\ "init" \in Operations
        /\ "snapshot" \in Operations
    BY DEF IInv, TypeOK, Kinds, Operations, StartBoot
  <1>1. [boot EXCEPT !.step = 3] \in Boots /\ [boot EXCEPT !.pending = FALSE] \in Boots
    BY <1>0 DEF Boots
  <1>2. /\ Active' => job'.type # "NONE"
        /\ job'.type = "SYSTEM_INIT" => job'.step \in 0..1
    BY <1>0 DEF IInv, Fits, Active
  <1>3. /\ svc.pc = "rest" /\ UNCHANGED <<medium, card, ready, busy, last, others, held>>
        /\ boot' \in Boots
    BY <1>0, <1>1 DEF StartBoot
  <1>4. \/ Start("boot", "scan", "boot") \/ Start("boot", "init", "boot")
        \/ Start("boot", "snapshot", "boot") \/ UNCHANGED <<svc, manifest>>
    BY DEF StartBoot
  <1>5. CASE UNCHANGED <<svc, manifest>>
    <2>1. TypeOK'
      BY <1>0, <1>3, <1>5 DEF IInv, TypeOK, medium, card, others
    <2>2. BusInv' /\ Fits' /\ PackInv' /\ PackComplete'
      BY <1>0, <1>2, <1>3, <1>5 DEF IInv, BusInv, OnBus, ScpiOnBus, Drawing, Fits, Active, PackInv,
         PackComplete, medium, card, others
    <2> QED
      BY <2>1, <2>2 DEF IInv
  <1>6. CASE ~UNCHANGED <<svc, manifest>>
    BY <1>0, <1>2, <1>3, <1>4, <1>6, StartKeeps
  <1> QED
    BY <1>5, <1>6

LEMMA StepOfTypes ==
  ASSUME IInv, Served(job)
  PROVE  StepOf(job) \in Operations
  <1>1. /\ job.type \in JobTypes \ {"NONE"} /\ job.step \in 0..2
        /\ job.type = "SYSTEM_INIT" => job.step \in 0..1
    BY DEF IInv, TypeOK, Jobs, Fits, Served, Active
  <1>2. CASE job.type = "QUERY"
    BY <1>2 DEF StepOf, Operations
  <1>3. CASE job.type = "SNAPSHOT_WRITE"
    BY <1>3 DEF StepOf, Operations
  <1>4. CASE job.type = "MANIFEST_SCAN"
    <2>1. StepOf(job) = <<"scan", "init", IF job.ok0 THEN "scan" ELSE "none">>[job.step + 1]
      BY <1>4 DEF StepOf
    <2>2. job.step + 1 \in {1, 2, 3}
      BY <1>1
    <2> QED
      BY <2>1, <2>2 DEF Operations
  <1>5. CASE job.type = "SYSTEM_INIT"
    <2>1. StepOf(job) = <<"init", IF job.ok0 THEN "scan" ELSE "none">>[job.step + 1]
      BY <1>5 DEF StepOf
    <2>2. job.step + 1 \in {1, 2}
      BY <1>1, <1>5
    <2> QED
      BY <2>1, <2>2 DEF Operations
  <1>6. CASE job.type = "FAULT_EVIDENCE"
    <2>1. StepOf(job) = <<"snapshot", "trace", "report">>[job.step + 1]
      BY <1>6 DEF StepOf
    <2>2. job.step + 1 \in {1, 2, 3}
      BY <1>1
    <2> QED
      BY <2>1, <2>2 DEF Operations
  <1> QED
    BY <1>1, <1>2, <1>3, <1>4, <1>5, <1>6 DEF JobTypes

LEMMA StartJobKeeps ==
  ASSUME IInv, StartJob
  PROVE  IInv'
  <1>1. job \in Jobs /\ job' = [job EXCEPT !.state = "RUNNING"]
    BY DEF IInv, TypeOK, StartJob
  <1>2. job' \in Jobs /\ job'.type = job.type /\ job'.step = job.step
    BY <1>1 DEF Jobs
  <1>3. Active /\ job.kind \in Kinds
    BY <1>1 DEF Active, StartJob, Served, Jobs
  <1>4. /\ Active' => job'.type # "NONE"
        /\ job'.type = "SYSTEM_INIT" => job'.step \in 0..1
    BY <1>2, <1>3 DEF IInv, Fits
  <1>5. StepOf(job) \in Operations
    BY StepOfTypes DEF StartJob
  <1>6. /\ svc.pc = "rest" /\ UNCHANGED <<medium, card, ready, busy, last, others, held>>
        /\ boot' \in Boots /\ Start("job", StepOf(job), job.kind)
    BY DEF IInv, TypeOK, StartJob
  <1> QED
    BY <1>2, <1>3, <1>4, <1>5, <1>6, StartKeeps

-----------------------------------------------------------------------------
(* What a step of an operation does to the call.                           *)
LEMMA GoesTo ==
  ASSUME TypeOK, NEW pc \in {"probing", "claim", "files", "index"}, svc' = [svc EXCEPT !.pc = pc]
  PROVE  svc' \in Calls /\ svc'.pc = pc /\ svc'.op = svc.op /\ svc'.at = svc.at
  BY DEF TypeOK, Calls

LEMMA NextFile ==
  ASSUME TypeOK, NEW n \in Nat, svc' = [svc EXCEPT !.at = n]
  PROVE  svc' \in Calls /\ svc'.pc = svc.pc /\ svc'.op = svc.op /\ svc'.at = n
  BY DEF TypeOK, Calls

LEMMA FailTypes ==
  ASSUME TypeOK, NEW b \in BOOLEAN, Fail(b)
  PROVE  /\ svc' \in Calls /\ svc'.pc = "judge" /\ last' \in Lasts /\ busy' \in BOOLEAN
         /\ manifest' \in {manifest, "OTHER"}
  <1>1. 0 \in Counts /\ FALSE \in BOOLEAN /\ svc \in Calls
    BY StorageAssumption DEF Counts, TypeOK
  <1>2. svc' \in Calls /\ last' \in Lasts /\ svc' = [svc EXCEPT !.pc = "judge", !.ok = FALSE]
    BY <1>1, ReturnTypes DEF Fail
  <1>3. svc'.pc = "judge"
    BY <1>1, <1>2 DEF Calls
  <1> QED
    BY <1>2, <1>3 DEF Fail

LEMMA ReturnsTo ==
  ASSUME TypeOK, NEW b \in BOOLEAN, NEW n \in Counts, Return(b, n)
  PROVE  svc' \in Calls /\ svc'.pc = "judge" /\ last' \in Lasts
  <1>1. svc \in Calls
    BY DEF TypeOK
  <1>2. svc' \in Calls /\ last' \in Lasts /\ svc' = [svc EXCEPT !.pc = "judge", !.ok = b]
    BY ReturnTypes
  <1> QED
    BY <1>1, <1>2 DEF Calls

LEMMA StorageGrabs ==
  ASSUME IInv, GrabCard, svc'.pc \in {"probing", "files"}, UNCHANGED <<scpi, ui>>
  PROVE  BusInv' /\ held' \in Held
  BY Grabbed DEF IInv, BusInv, OnBus, ScpiOnBus, Drawing

LEMMA StorageLeaves ==
  ASSUME IInv, OnBus, LeaveCard, svc'.pc \in {"claim", "judge"}, UNCHANGED <<scpi, ui>>
  PROVE  BusInv' /\ held' \in Held
  BY Left DEF IInv, BusInv, OnBus, ScpiOnBus, Drawing

LEMMA StaysOffBus ==
  ASSUME IInv, ~OnBus, svc'.pc \in {"rest", "claim", "judge"}, UNCHANGED <<held, scpi, ui>>
  PROVE  BusInv' /\ held' \in Held
  BY DEF IInv, TypeOK, BusInv, OnBus, ScpiOnBus, Drawing

(* The operation has returned, or has not got to its files.                *)
LEMMA NoFile ==
  ASSUME IInv, UNCHANGED <<job, files>>,
         svc'.pc = "judge" \/ (svc'.pc \in {"probing", "claim"} /\ svc'.at = 0 /\ svc'.op # "none")
  PROVE  Fits' /\ PackInv' /\ PackComplete'
  BY DEF IInv, Fits, Active, PackInv, PackComplete

LEMMA ProbeKeeps ==
  ASSUME IInv, Probe
  PROVE  IInv'
  <1> USE DEF IInv
  <1>0. svc.pc = "probe" /\ svc.at = 0 /\ svc.op # "none" /\ ~OnBus /\ TRUE \in BOOLEAN
    BY DEF Probe, Fits, OnBus
  <1>1. /\ UNCHANGED <<files, cites, volume, mounted, ready, job, boot, scpi, ui, sent>>
    BY DEF Probe, medium, card
  <1>2. CASE svc' = [svc EXCEPT !.pc = "claim"] /\ busy' = FALSE /\ UNCHANGED <<last, held, manifest, denied>>
    <2>1. svc' \in Calls /\ svc'.pc = "claim" /\ svc'.op = svc.op /\ svc'.at = svc.at
      BY <1>2, GoesTo
    <2>2. BusInv' /\ held' \in Held
      BY <1>0, <1>1, <1>2, <2>1, StaysOffBus
    <2>3. TypeOK'
      BY <1>1, <1>2, <2>1, <2>2 DEF TypeOK
    <2> QED
      BY <1>0, <1>1, <2>1, <2>2, <2>3, NoFile
  <1>3. CASE GrabCard /\ svc' = [svc EXCEPT !.pc = "probing"] /\ UNCHANGED <<last, busy, manifest, denied>>
    <2>1. svc' \in Calls /\ svc'.pc = "probing" /\ svc'.op = svc.op /\ svc'.at = svc.at
      BY <1>3, GoesTo
    <2>2. BusInv' /\ held' \in Held
      BY <1>1, <1>3, <2>1, StorageGrabs
    <2>3. TypeOK'
      BY <1>1, <1>3, <2>1, <2>2 DEF TypeOK
    <2> QED
      BY <1>0, <1>1, <2>1, <2>2, <2>3, NoFile
  <1>4. CASE Denied
    <2>1. /\ svc' \in Calls /\ svc'.pc = "judge" /\ last' \in Lasts /\ busy' \in BOOLEAN
          /\ manifest' \in {manifest, "OTHER"}
      BY <1>0, <1>4, FailTypes DEF Denied
    <2>2. BusInv' /\ held' \in Held
      BY <1>0, <1>1, <1>4, <2>1, StaysOffBus DEF Denied
    <2>3. denied' \in BOOLEAN
      BY <1>4 DEF Denied
    <2>4. TypeOK'
      BY <1>1, <2>1, <2>2, <2>3 DEF TypeOK
    <2> QED
      BY <1>1, <2>1, <2>2, <2>4, NoFile
  <1> QED
    BY <1>2, <1>3, <1>4 DEF Probe

LEMMA ProbedKeeps ==
  ASSUME IInv, Probed
  PROVE  IInv'
  <1> USE DEF IInv
  <1>0. /\ svc.pc = "probing" /\ svc.at = 0 /\ svc.op # "none" /\ OnBus
        /\ FALSE \in BOOLEAN /\ 0 \in Counts /\ LeaveCard
    BY StorageAssumption DEF Probed, Fits, OnBus, Counts
  <1>1. UNCHANGED <<files, cites, volume, job, boot, scpi, ui, sent>>
    BY DEF Probed, medium
  <1>2. mounted' \in BOOLEAN /\ ready' \in BOOLEAN /\ busy' \in BOOLEAN /\ denied' \in BOOLEAN
    BY DEF Probed, ProbeCard, TypeOK
  <1>3. /\ svc' \in Calls /\ last' \in Lasts /\ manifest' \in {manifest, "OTHER"}
        /\ \/ svc'.pc = "judge"
           \/ svc'.pc = "claim" /\ svc'.op = svc.op /\ svc'.at = svc.at
    <2>1. CASE svc' = [svc EXCEPT !.pc = "claim"] /\ UNCHANGED <<last, manifest>>
      BY <2>1, GoesTo DEF TypeOK
    <2>2. CASE Return(FALSE, 0) /\ manifest' \in {manifest, "OTHER"}
      BY <1>0, <2>2, ReturnsTo
    <2> QED
      BY <2>1, <2>2 DEF Probed
  <1>4. BusInv' /\ held' \in Held
    BY <1>0, <1>1, <1>3, StorageLeaves
  <1>5. TypeOK'
    BY <1>1, <1>2, <1>3, <1>4 DEF TypeOK
  <1> QED
    BY <1>0, <1>1, <1>3, <1>4, <1>5, NoFile

LEMMA ClaimKeeps ==
  ASSUME IInv, Claim
  PROVE  IInv'
  <1> USE DEF IInv
  <1>0. svc.pc = "claim" /\ svc.at = 0 /\ svc.op # "none" /\ ~OnBus /\ TRUE \in BOOLEAN
    BY DEF Claim, Fits, OnBus
  <1>1. UNCHANGED <<files, cites, volume, ready, job, boot, scpi, ui, sent>>
    BY DEF Claim, medium
  <1>2. mounted' \in BOOLEAN
    BY DEF Claim, TypeOK
  <1>3. CASE GrabCard /\ svc' = [svc EXCEPT !.pc = "files"] /\ denied' = FALSE /\ UNCHANGED <<last, busy, manifest>>
    <2>1. svc' \in Calls /\ svc'.pc = "files" /\ svc'.op = svc.op /\ svc'.at = 0
      BY <1>0, <1>3, GoesTo
    <2>2. BusInv' /\ held' \in Held
      BY <1>1, <1>3, <2>1, StorageGrabs
    <2>3. TypeOK'
      BY <1>1, <1>2, <1>3, <2>1, <2>2 DEF TypeOK
    <2>4. Fits'
      BY <1>0, <1>1, <2>1, StorageAssumption DEF Fits, Active
    <2>5. PackInv' /\ PackComplete'
      BY <1>1, <2>1 DEF PackInv, PackComplete
    <2> QED
      BY <2>2, <2>3, <2>4, <2>5
  <1>4. CASE Denied
    <2>1. /\ svc' \in Calls /\ svc'.pc = "judge" /\ last' \in Lasts /\ busy' \in BOOLEAN
          /\ manifest' \in {manifest, "OTHER"}
      BY <1>0, <1>4, FailTypes DEF Denied
    <2>2. BusInv' /\ held' \in Held
      BY <1>0, <1>1, <1>4, <2>1, StaysOffBus DEF Denied
    <2>3. denied' \in BOOLEAN
      BY <1>4 DEF Denied
    <2>4. TypeOK'
      BY <1>1, <1>2, <2>1, <2>2, <2>3 DEF TypeOK
    <2> QED
      BY <1>1, <2>1, <2>2, <2>4, NoFile
  <1> QED
    BY <1>3, <1>4 DEF Claim

-----------------------------------------------------------------------------
(* The operations on files.                                                *)
Elsewhere == UNCHANGED <<card, job, boot, others>>

LEMMA FileReturns ==
  ASSUME IInv, OnBus, LeaveCard, Elsewhere, svc' \in Calls, svc'.pc = "judge", last' \in Lasts,
         ready' \in BOOLEAN, busy' \in BOOLEAN, manifest' \in {"OK", "NOT_FOUND", "OTHER"},
         files' \in SUBSET Files, cites' \in Cites, PackComplete'
  PROVE  IInv'
  <1> USE DEF IInv, Elsewhere, card, others
  <1>1. BusInv' /\ held' \in Held
    BY StorageLeaves
  <1>2. TypeOK'
    BY <1>1 DEF TypeOK
  <1>3. Fits' /\ PackInv'
    BY DEF Fits, Active, PackInv
  <1> QED
    BY <1>1, <1>2, <1>3

LEMMA FileGoesOn ==
  ASSUME IInv, OnBus, Elsewhere, UNCHANGED <<vector, held>>, svc' \in Calls,
         svc'.pc \in {"files", "index"}, svc'.op = svc.op, svc.op # "none",
         files' \in SUBSET Files, cites' \in Cites, PackComplete', PackInv',
         svc'.pc = "files" /\ svc'.op = "init" => svc'.at \in 0..(PackSize + 1),
         svc'.pc = "files" /\ svc'.op \in {"snapshot", "trace", "report"} =>
           svc'.at \in 0..MaxSequence,
         svc'.pc = "index" => svc'.op = "trace" /\ svc'.at \in 1..MaxSequence
  PROVE  IInv'
  <1> USE DEF IInv, Elsewhere, card, others, vector
  <1>1. BusInv'
    BY DEF BusInv, OnBus, ScpiOnBus, Drawing
  <1>2. TypeOK'
    BY DEF TypeOK
  <1>3. Fits'
    BY DEF Fits, Active
  <1> QED
    BY <1>1, <1>2, <1>3

LEMMA QueryKeeps ==
  ASSUME IInv, Query, Elsewhere
  PROVE  IInv'
  <1>0. /\ TypeOK /\ OnBus /\ LeaveCard /\ 0 \in Counts
        /\ FALSE \in BOOLEAN /\ TRUE \in BOOLEAN
    BY StorageAssumption DEF IInv, OnBus, Query, Counts
  <1>1. files' = files /\ cites' = cites
    BY DEF Query, medium
  <1>2. /\ svc' \in Calls /\ svc'.pc = "judge" /\ last' \in Lasts /\ ready' \in BOOLEAN
        /\ busy' \in BOOLEAN /\ manifest' \in {manifest, "OTHER"}
    <2>1. CASE Succeed(0) /\ UNCHANGED manifest
      BY <1>0, <2>1, ReturnsTo DEF Succeed
    <2>2. CASE Fail(FALSE) /\ ready' = FALSE
      BY <1>0, <2>2, FailTypes
    <2> QED
      BY <2>1, <2>2 DEF Query
  <1>3. PackComplete'
    BY <1>1 DEF IInv, PackComplete
  <1> QED
    BY <1>0, <1>1, <1>2, <1>3, FileReturns DEF TypeOK

LEMMA ScanKeeps ==
  ASSUME IInv, Scan, Elsewhere
  PROVE  IInv'
  <1>0. /\ TypeOK /\ OnBus /\ LeaveCard /\ 0 \in Counts
        /\ FALSE \in BOOLEAN /\ TRUE \in BOOLEAN
    BY StorageAssumption DEF IInv, OnBus, Scan, Counts
  <1>1. files' = files /\ cites' = cites /\ ready' = ready /\ busy' = busy
    BY DEF Scan, medium
  <1>2. /\ svc' \in Calls /\ svc'.pc = "judge" /\ last' \in Lasts
        /\ manifest' \in {"OK", "NOT_FOUND", "OTHER"}
    BY <1>0, ReturnsTo DEF Scan
  <1>3. PackComplete'
    BY <1>1 DEF IInv, PackComplete
  <1> QED
    BY <1>0, <1>1, <1>2, <1>3, FileReturns DEF TypeOK

LEMMA InitNothingKeeps ==
  ASSUME IInv, InitNothing, Elsewhere
  PROVE  IInv'
  <1>0. /\ TypeOK /\ OnBus /\ LeaveCard /\ 0 \in Counts
        /\ FALSE \in BOOLEAN /\ TRUE \in BOOLEAN
    BY StorageAssumption DEF IInv, OnBus, InitNothing, Counts
  <1>1. files' = files /\ cites' = cites /\ ready' = ready
    BY DEF InitNothing, medium
  <1>2. /\ svc' \in Calls /\ svc'.pc = "judge" /\ last' \in Lasts /\ busy' \in BOOLEAN
        /\ manifest' \in {manifest, "OTHER"}
    BY <1>0, ReturnsTo, FailTypes DEF InitNothing, TypeOK
  <1>3. PackComplete'
    BY <1>1 DEF IInv, PackComplete
  <1> QED
    BY <1>0, <1>1, <1>2, <1>3, FileReturns DEF TypeOK

LEMMA InitBeginKeeps ==
  ASSUME IInv, InitBegin, Elsewhere
  PROVE  IInv'
  <1>0. /\ TypeOK /\ OnBus /\ svc.pc = "files" /\ svc.op = "init" /\ 1 \in Nat
        /\ svc' = [svc EXCEPT !.at = 1] /\ UNCHANGED <<vector, held>>
    BY DEF IInv, OnBus, InitBegin
  <1>1. files' = files /\ cites' = cites
    BY DEF InitBegin, medium
  <1>2. svc' \in Calls /\ svc'.pc = "files" /\ svc'.op = "init" /\ svc'.at = 1
    BY <1>0, NextFile
  <1>3. PackInv'
    BY <1>2 DEF PackInv
  <1>4. PackComplete'
    BY <1>1 DEF IInv, PackComplete
  <1>5. 1 \in 0..(PackSize + 1)
    BY StorageAssumption
  <1> QED
    BY <1>0, <1>1, <1>2, <1>3, <1>4, <1>5, FileGoesOn DEF TypeOK

(* A file of the pack, and the manifest last.                              *)
LEMMA PackFiles ==
  ASSUME IInv, svc.pc = "files", svc.op = "init", svc.at > 0
  PROVE  /\ svc.at \in 1..(PackSize + 1) /\ PackFile(svc.at) \in Files
         /\ svc.at <= PackSize => PackFile(svc.at) = <<"pack", svc.at>>
         /\ PackFile(svc.at) = Manifest => Pack \subseteq files
         /\ \A i \in 1..PackSize : i < svc.at => <<"pack", i>> \in files
  <1>1. svc.at \in 1..(PackSize + 1)
    BY StorageAssumption DEF IInv, Fits
  <1>2. \A i \in 1..PackSize : i < svc.at => <<"pack", i>> \in files
    BY DEF IInv, PackInv
  <1>3. CASE svc.at <= PackSize
    <2>1. PackFile(svc.at) = <<"pack", svc.at>> /\ svc.at \in 1..PackSize
      BY <1>1, <1>3, StorageAssumption DEF PackFile
    <2>2. PackFile(svc.at) # Manifest
      BY <2>1 DEF Manifest
    <2>3. PackFile(svc.at) \in Files
      BY <2>1 DEF Files, Pack
    <2> QED
      BY <1>1, <1>2, <2>1, <2>2, <2>3
  <1>4. CASE ~(svc.at <= PackSize)
    <2>1. PackFile(svc.at) = Manifest
      BY <1>4 DEF PackFile
    <2>2. \A i \in 1..PackSize : i < svc.at
      BY <1>1, <1>4, StorageAssumption
    <2>3. Pack \subseteq files
      BY <1>2, <2>2 DEF Pack
    <2>4. PackFile(svc.at) \in Files
      BY <2>1 DEF Files
    <2> QED
      BY <1>1, <1>2, <1>4, <2>1, <2>3, <2>4
  <1> QED
    BY <1>3, <1>4

LEMMA InitFileKeeps ==
  ASSUME IInv, InitFile, Elsewhere
  PROVE  IInv'
  <1> DEFINE file == PackFile(svc.at)
  <1>0. /\ TypeOK /\ OnBus /\ svc.pc = "files" /\ svc.op = "init" /\ svc.at > 0
        /\ cites' = cites /\ 0 \in Counts /\ FALSE \in BOOLEAN /\ TRUE \in BOOLEAN
    BY StorageAssumption DEF IInv, OnBus, InitFile, Counts
  <1>1. /\ svc.at \in 1..(PackSize + 1) /\ file \in Files
        /\ svc.at <= PackSize => file = <<"pack", svc.at>>
        /\ file = Manifest => Pack \subseteq files
        /\ \A i \in 1..PackSize : i < svc.at => <<"pack", i>> \in files
    BY <1>0, PackFiles
  <1>2. files' \in {files, files \cup {file}}
    BY DEF InitFile, Renamed, NotRenamed
  <1>3. files' \in SUBSET Files
    BY <1>0, <1>1, <1>2 DEF TypeOK
  <1>4. PackComplete'
    BY <1>1, <1>2 DEF IInv, PackComplete
  <1>5. \/ LeaveCard /\ Fail(FALSE) /\ UNCHANGED ready
        \/ LeaveCard /\ Succeed(0) /\ manifest' = "OTHER"
        \/ /\ svc.at <= PackSize /\ file \in files'
           /\ svc' = [svc EXCEPT !.at = svc.at + 1] /\ UNCHANGED <<vector, held>>
    <2>1. svc.at > PackSize \/ svc.at <= PackSize
      BY <1>1, StorageAssumption
    <2>2. \/ NotRenamed(file) /\ Fail(FALSE) /\ LeaveCard /\ UNCHANGED ready
          \/ /\ (file \in files /\ UNCHANGED files) \/ Renamed(file)
             /\ IF svc.at > PackSize
                THEN Succeed(0) /\ manifest' = "OTHER" /\ LeaveCard
                ELSE svc' = [svc EXCEPT !.at = svc.at + 1] /\ UNCHANGED <<vector, held>>
      BY DEF InitFile
    <2>3. (file \in files /\ UNCHANGED files) \/ Renamed(file) => file \in files'
      BY DEF Renamed
    <2> QED
      BY <2>1, <2>2, <2>3
  <1>6. CASE LeaveCard /\ Fail(FALSE) /\ UNCHANGED ready
    <2>1. /\ svc' \in Calls /\ svc'.pc = "judge" /\ last' \in Lasts /\ busy' \in BOOLEAN
          /\ manifest' \in {manifest, "OTHER"}
      BY <1>0, <1>6, FailTypes
    <2> QED
      BY <1>0, <1>3, <1>4, <1>6, <2>1, FileReturns DEF TypeOK
  <1>7. CASE LeaveCard /\ Succeed(0) /\ manifest' = "OTHER"
    <2>1. svc' \in Calls /\ svc'.pc = "judge" /\ last' \in Lasts
      BY <1>0, <1>7, ReturnsTo DEF Succeed
    <2> QED
      BY <1>0, <1>3, <1>4, <1>7, <2>1, FileReturns DEF TypeOK, Succeed
  <1>8. CASE /\ svc.at <= PackSize /\ file \in files'
             /\ svc' = [svc EXCEPT !.at = svc.at + 1] /\ UNCHANGED <<vector, held>>
    <2>1. svc.at + 1 \in Nat /\ svc.at + 1 \in 0..(PackSize + 1)
      BY <1>1, <1>8, StorageAssumption
    <2>2. svc' \in Calls /\ svc'.pc = "files" /\ svc'.op = "init" /\ svc'.at = svc.at + 1
      BY <1>0, <1>8, <2>1, NextFile
    <2>3. PackInv'
      <3>1. \A i \in 1..PackSize : i < svc.at + 1 => i < svc.at \/ i = svc.at
        BY <1>1
      <3>2. \A i \in 1..PackSize : i < svc.at + 1 => <<"pack", i>> \in files'
        BY <1>1, <1>2, <1>8, <3>1
      <3> QED
        BY <2>2, <3>2 DEF PackInv
    <2> QED
      BY <1>0, <1>3, <1>4, <1>8, <2>1, <2>2, <2>3, FileGoesOn DEF TypeOK
  <1> QED
    BY <1>5, <1>6, <1>7, <1>8

(* Snapshots, traces and reports are none of the pack.                     *)
LEMMA NumberedFiles ==
  ASSUME IInv, NEW kind \in Numbered, NEW n \in 1..MaxSequence,
         files' \in {files, files \cup {<<kind, n>>}}
  PROVE  files' \in SUBSET Files /\ PackComplete'
  <1>1. <<kind, n>> \in Files
    BY DEF Files
  <1>2. <<kind, n>> # Manifest
    BY DEF Manifest, Numbered, Kinds
  <1> QED
    BY <1>1, <1>2 DEF IInv, TypeOK, PackComplete

LEMMA NumberKeeps ==
  ASSUME IInv, Number, Elsewhere
  PROVE  IInv'
  <1>0. /\ TypeOK /\ OnBus /\ svc.pc = "files" /\ svc.op \in {"snapshot", "trace", "report"}
        /\ FALSE \in BOOLEAN
    BY DEF IInv, OnBus, Number
  <1>1. files' = files /\ cites' = cites
    BY DEF Number, medium
  <1>2. PackComplete'
    BY <1>1 DEF IInv, PackComplete
  <1>3. CASE Fail(FALSE) /\ LeaveCard /\ UNCHANGED ready
    <2>1. /\ svc' \in Calls /\ svc'.pc = "judge" /\ last' \in Lasts /\ busy' \in BOOLEAN
          /\ manifest' \in {manifest, "OTHER"}
      BY <1>0, <1>3, FailTypes
    <2> QED
      BY <1>0, <1>1, <1>2, <1>3, <2>1, FileReturns DEF TypeOK
  <1>4. CASE \E max \in SeenMax(NumberedKind) :
               /\ MayNumber(max)
               /\ svc' = [svc EXCEPT !.at = max + 1]
               /\ UNCHANGED <<vector, held>>
    <2>1. PICK max \in SeenMax(NumberedKind) :
            /\ MayNumber(max)
            /\ svc' = [svc EXCEPT !.at = max + 1]
            /\ UNCHANGED <<vector, held>>
      BY <1>4
    <2>2. max \in Nat
      BY <2>1 DEF SeenMax
    <2>3. max + 1 \in Nat /\ max + 1 \in 0..MaxSequence
      BY <2>1, <2>2, StorageAssumption DEF MayNumber
    <2>4. svc' \in Calls /\ svc'.pc = "files" /\ svc'.op = svc.op /\ svc'.at = max + 1
      BY <1>0, <2>1, <2>3, NextFile
    <2>5. PackInv'
      BY <1>0, <2>4 DEF PackInv
    <2> QED
      BY <1>0, <1>1, <1>2, <2>1, <2>3, <2>4, <2>5, FileGoesOn DEF TypeOK
  <1> QED
    BY <1>3, <1>4 DEF Number

LEMMA WriteNumberedKeeps ==
  ASSUME IInv, WriteNumbered, Elsewhere
  PROVE  IInv'
  <1> DEFINE told == [kind |-> last.kind, snapshot |-> last.snapshot, trace |-> last.trace]
             file == <<NumberedKind, svc.at>>
  <1>0. /\ TypeOK /\ OnBus /\ svc.pc = "files" /\ svc.op \in {"snapshot", "trace", "report"}
        /\ svc.at > 0 /\ FALSE \in BOOLEAN /\ TRUE \in BOOLEAN
    BY DEF IInv, OnBus, WriteNumbered
  <1>1. svc.at \in 1..MaxSequence /\ svc.at \in Counts
    BY <1>0, StorageAssumption DEF IInv, Fits, Counts
  <1>2. NumberedKind \in Numbered
    BY <1>0 DEF NumberedKind, Numbered, Kinds, TypeOK, Calls
  <1>3. files' \in {files, files \cup {file}}
    BY DEF WriteNumbered, Renamed, NotRenamed
  <1>4. files' \in SUBSET Files /\ PackComplete'
    BY <1>1, <1>2, <1>3, NumberedFiles
  <1>5. cites' \in Cites
    <2>1. cites' \in {cites, [cites EXCEPT ![svc.at] = told]}
      BY DEF WriteNumbered
    <2>2. told \in [kind : Kinds, snapshot : Counts, trace : Counts]
      BY <1>0 DEF TypeOK, Lasts
    <2>3. cites \in Cites
      BY <1>0 DEF TypeOK
    <2>4. [cites EXCEPT ![svc.at] = told] \in Cites
      BY <1>1, <2>2, <2>3 DEF Cites
    <2> QED
      BY <2>1, <2>3, <2>4
  <1>6. \/ LeaveCard /\ Fail(FALSE) /\ UNCHANGED ready
        \/ LeaveCard /\ Succeed(svc.at) /\ UNCHANGED manifest
        \/ /\ svc.op = "trace" /\ svc' = [svc EXCEPT !.pc = "index"] /\ UNCHANGED <<vector, held>>
    BY DEF WriteNumbered
  <1>7. CASE LeaveCard /\ Fail(FALSE) /\ UNCHANGED ready
    <2>1. /\ svc' \in Calls /\ svc'.pc = "judge" /\ last' \in Lasts /\ busy' \in BOOLEAN
          /\ manifest' \in {manifest, "OTHER"}
      BY <1>0, <1>7, FailTypes
    <2> QED
      BY <1>0, <1>4, <1>5, <1>7, <2>1, FileReturns DEF TypeOK
  <1>8. CASE LeaveCard /\ Succeed(svc.at) /\ UNCHANGED manifest
    <2>1. svc' \in Calls /\ svc'.pc = "judge" /\ last' \in Lasts
      BY <1>0, <1>1, <1>8, ReturnsTo DEF Succeed
    <2> QED
      BY <1>0, <1>4, <1>5, <1>8, <2>1, FileReturns DEF TypeOK, Succeed
  <1>9. CASE svc.op = "trace" /\ svc' = [svc EXCEPT !.pc = "index"] /\ UNCHANGED <<vector, held>>
    <2>1. svc' \in Calls /\ svc'.pc = "index" /\ svc'.op = svc.op /\ svc'.at = svc.at
      BY <1>0, <1>9, GoesTo
    <2>2. PackInv'
      BY <2>1 DEF PackInv
    <2> QED
      BY <1>0, <1>1, <1>4, <1>5, <1>9, <2>1, <2>2, FileGoesOn
  <1> QED
    BY <1>6, <1>7, <1>8, <1>9

LEMMA WriteIndexKeeps ==
  ASSUME IInv, WriteIndex, Elsewhere
  PROVE  IInv'
  <1>0. /\ TypeOK /\ OnBus /\ LeaveCard /\ cites' = cites
        /\ FALSE \in BOOLEAN /\ TRUE \in BOOLEAN
    BY DEF IInv, OnBus, WriteIndex
  <1>1. svc.at \in 1..MaxSequence /\ svc.at \in Counts /\ "idx" \in Numbered
    BY StorageAssumption DEF IInv, Fits, Counts, WriteIndex, Numbered
  <1>2. files' \in {files, files \cup {<<"idx", svc.at>>}}
    BY DEF WriteIndex, Renamed, NotRenamed
  <1>3. files' \in SUBSET Files /\ PackComplete'
    BY <1>1, <1>2, NumberedFiles
  <1>4. /\ svc' \in Calls /\ svc'.pc = "judge" /\ last' \in Lasts /\ ready' \in BOOLEAN
        /\ busy' \in BOOLEAN /\ manifest' \in {manifest, "OTHER"}
    <2>1. CASE Succeed(svc.at) /\ UNCHANGED manifest
      BY <1>0, <1>1, <2>1, ReturnsTo DEF Succeed
    <2>2. CASE Fail(FALSE) /\ UNCHANGED ready
      BY <1>0, <2>2, FailTypes DEF TypeOK
    <2> QED
      BY <2>1, <2>2 DEF WriteIndex
  <1> QED
    BY <1>0, <1>3, <1>4, FileReturns DEF TypeOK

LEMMA FileStepKeeps ==
  ASSUME IInv, FileStep
  PROVE  IInv'
  <1>1. Elsewhere
    BY DEF FileStep, Elsewhere
  <1> QED
    BY <1>1, QueryKeeps, ScanKeeps, InitNothingKeeps, InitBeginKeeps, InitFileKeeps, NumberKeeps,
       WriteNumberedKeeps, WriteIndexKeeps DEF FileStep

-----------------------------------------------------------------------------
(* The operation has returned to the service.                              *)
LEMMA JudgeBootKeeps ==
  ASSUME IInv, JudgeBoot
  PROVE  IInv'
  <1> USE DEF IInv, medium, card, vector, others
  <1>0. /\ svc.pc = "judge" /\ ~OnBus /\ svc' = AtRest /\ svc'.pc = "rest"
        /\ UNCHANGED <<held, scpi, ui>>
    BY DEF JudgeBoot, OnBus, AtRest
  <1>1. boot' \in Boots
    <2>1. boot \in Boots /\ 1 \in 0..3 /\ 2 \in 0..3 /\ 3 \in 0..3
      BY DEF TypeOK
    <2>2. [boot EXCEPT !.step = 1] \in Boots /\ [boot EXCEPT !.step = 2] \in Boots
          /\ [boot EXCEPT !.step = 3] \in Boots
      BY <2>1 DEF Boots
    <2> QED
      BY <2>2 DEF JudgeBoot
  <1>2. svc' \in Calls
    BY <1>0, RestTypes
  <1>3. BusInv' /\ PackInv'
    BY <1>0, <1>2, OffBus
  <1>4. TypeOK'
    BY <1>1, <1>2 DEF TypeOK, JudgeBoot
  <1>5. Fits' /\ PackComplete'
    BY <1>0 DEF Fits, Active, PackComplete, JudgeBoot
  <1> QED
    BY <1>3, <1>4, <1>5

(* A job that goes on is of the same type, and a job that ends is not      *)
(* active.                                                                 *)
LEMMA JudgedFits ==
  ASSUME IInv, NEW b \in BOOLEAN, job' = Judged(b)
  PROVE  /\ Active' => job'.type # "NONE"
         /\ job'.type = "SYSTEM_INIT" => job'.step \in 0..1
  <1>0. job \in Jobs /\ 1 \in 0..1
    BY DEF IInv, TypeOK
  <1>1. CASE \E ok, result : job' = Ended(ok, result)
    <2>1. PICK ok, result : job' = Ended(ok, result)
      BY <1>1
    <2>2. job'.step = 0 /\ job'.state \in {"DONE", "FAILED"}
      BY <2>1 DEF Ended, NoJob
    <2> QED
      BY <2>2 DEF Active
  <1>2. CASE /\ job.type \in {"MANIFEST_SCAN", "FAULT_EVIDENCE"}
             /\ \/ job' = [job EXCEPT !.step = 1]
                \/ job' = [job EXCEPT !.step = 2, !.ok0 = b]
                \/ job' = [job EXCEPT !.step = 1, !.ok0 = b]
                \/ job' = [job EXCEPT !.step = 2, !.ok1 = b]
    <2>1. job'.type = job.type
      BY <1>0, <1>2 DEF Jobs
    <2> QED
      BY <1>2, <2>1
  <1>3. CASE job.type = "SYSTEM_INIT" /\ job' = [job EXCEPT !.step = 1, !.ok0 = b]
    <2>1. job'.type = job.type /\ job'.step = 1
      BY <1>0, <1>3 DEF Jobs
    <2> QED
      BY <1>0, <1>3, <2>1
  <1> QED
    BY <1>1, <1>2, <1>3 DEF Judged

LEMMA JudgeJobKeeps ==
  ASSUME IInv, JudgeJob
  PROVE  IInv'
  <1> USE DEF IInv, medium, card, vector
  <1>0. /\ svc.pc = "judge" /\ ~OnBus /\ svc' = AtRest /\ svc'.pc = "rest" /\ svc.ok \in BOOLEAN
        /\ UNCHANGED <<held, scpi, ui>>
    BY DEF JudgeJob, OnBus, AtRest, TypeOK, Calls
  <1>1. /\ job' \in Jobs
        /\ Active' => job'.type # "NONE"
        /\ job'.type = "SYSTEM_INIT" => job'.step \in 0..1
    <2>1. CASE job' = job
      BY <2>1 DEF TypeOK, Fits, Active
    <2>2. CASE job' = Judged(svc.ok)
      BY <1>0, <2>2, JudgedTypes, JudgedFits
    <2> QED
      BY <2>1, <2>2 DEF JudgeJob
  <1>2. svc' \in Calls
    BY <1>0, RestTypes
  <1>3. BusInv' /\ PackInv'
    BY <1>0, <1>2, OffBus
  <1>4. TypeOK'
    BY <1>1, <1>2 DEF TypeOK, JudgeJob
  <1>5. Fits' /\ PackComplete'
    BY <1>0, <1>1 DEF Fits, PackComplete, JudgeJob
  <1> QED
    BY <1>3, <1>4, <1>5

-----------------------------------------------------------------------------
LEMMA InitInv == Init => IInv
  <1> SUFFICES ASSUME Init PROVE IInv
    OBVIOUS
  <1>1. sent \in 0..Events
    BY StorageAssumption DEF Init
  <1>2. TypeOK
    BY <1>1, RestTypes DEF TypeOK, Init
  <1>3. BusInv
    BY DEF BusInv, OnBus, ScpiOnBus, Drawing, Init, AtRest, AllFree, CardBus, DisplayBus
  <1>4. Fits /\ PackInv /\ PackComplete
    BY DEF Fits, Active, PackInv, PackComplete, Init, AtRest, NoJob
  <1> QED
    BY <1>2, <1>3, <1>4 DEF IInv

LEMMA StutterInv == IInv /\ UNCHANGED vars => IInv'
  BY DEF IInv, TypeOK, BusInv, OnBus, ScpiOnBus, Drawing, Fits, Active, PackInv, PackComplete,
     vars, medium, card, vector, others

LEMMA NextInv == IInv /\ Next => IInv'
  <1> SUFFICES ASSUME IInv, Next PROVE IInv'
    OBVIOUS
  <1>1. CASE StorageStep
    BY <1>1, StartBootKeeps, StartJobKeeps, ProbeKeeps, ProbedKeeps, ClaimKeeps, FileStepKeeps,
       JudgeBootKeeps, JudgeJobKeeps DEF StorageStep
  <1>2. CASE MmemQuery \/ ManifestQuery \/ StorageInit \/ SnapshotWrite
    BY <1>2, RequestKeeps DEF MmemQuery, ManifestQuery, StorageInit, SnapshotWrite, JobTypes
  <1>3. CASE JobInfo \/ TrigArm \/ TrigFault
    BY <1>3, LeaveKeeps DEF JobInfo, TrigArm, TrigFault, JobTypes, Kinds
  <1>4. CASE RequestDenied \/ WaitOver
    BY <1>4, DeniedKeeps, WaitOverKeeps
  <1>5. CASE StatusProbe \/ StatusProbed
    BY <1>5, StatusProbeKeeps, StatusProbedKeeps
  <1>6. CASE RawRead \/ RawClear \/ MkFs
    BY <1>6, RawCommandKeeps, RawClearKeeps DEF RawRead, MkFs
  <1>7. CASE RawReadDone \/ RawClearDone \/ MkFsDone
    BY <1>7, RawDonesKeep
  <1>8. CASE Draw \/ Drawn \/ BootDue \/ PowerLoss
    BY <1>8, DrawKeeps, BootDueKeeps, PowerLossKeeps
  <1> QED
    BY <1>1, <1>2, <1>3, <1>4, <1>5, <1>6, <1>7, <1>8 DEF Next

(* The inductive invariant: every step of the service, of SCPI and of the  *)
(* renderer, and a loss of power, keeps it.                                *)
THEOREM StorageInvariant == Spec => []IInv
  <1>1. IInv /\ [Next]_vars => IInv'
    BY NextInv, StutterInv
  <1> QED
    BY <1>1, InitInv, PTL DEF Spec

(* The values of the storage manager, whatever fails and whenever power is *)
(* lost: file numbers stay below the last number a name has room for.      *)
THEOREM StorageTypes == Spec => []TypeOK
  <1>1. IInv => TypeOK
    BY DEF IInv
  <1> QED
    BY <1>1, StorageInvariant, PTL

(* A card with a manifest has every file of the pack, for every size of    *)
(* the pack and every place where its writing is cut short.                *)
THEOREM PacksAreComplete == Spec => []PackComplete
  <1>1. IInv => PackComplete
    BY DEF IInv
  <1> QED
    BY <1>1, StorageInvariant, PTL

(* Of three users of which no two are there, at most one is.               *)
LEMMA BusInvMeans ==
  ASSUME BusInv
  PROVE  BusExclusive
  <1> DEFINE users == {u \in {"storage", "scpi", "ui"} :
                         \/ u = "storage" /\ svc.pc \in {"probing", "files", "index"}
                         \/ u = "scpi" /\ scpi \notin {"idle", "waiting"}
                         \/ u = "ui" /\ ui = "drawing"}
  <1>1. users = {} \/ \E u : users = {u}
    BY DEF BusInv, OnBus, ScpiOnBus, Drawing
  <1>2. Cardinality(users) <= 1
    <2> HIDE DEF users
    <2>1. CASE users = {}
      <3>1. Cardinality({}) = 0
        BY FS_EmptySet, Zenon
      <3> QED
        BY <2>1, <3>1
    <2>2. CASE \E u : users = {u}
      <3>1. PICK u : users = {u}
        BY <2>2
      <3>2. Cardinality({u}) = 1
        BY FS_Singleton, Zenon
      <3> QED
        BY <3>1, <3>2
    <2> QED
      BY <1>1, <2>1, <2>2
  <1>3. held["SPI0"] # Nobody <=> users # {}
    BY DEF BusInv, OnBus, ScpiOnBus, Drawing
  <1> QED
    BY <1>2, <1>3 DEF BusExclusive

(* The storage service, the SCPI front end and the renderer are never on   *)
(* SPI0 together.                                                          *)
THEOREM OneOnTheBus == Spec => []BusExclusive
  <1>1. IInv => BusExclusive
    BY BusInvMeans DEF IInv
  <1> QED
    BY <1>1, StorageInvariant, PTL

-----------------------------------------------------------------------------
(* What a step leaves on the card.                                         *)
Kept ==
  volume /\ volume' /\ scpi # "formatting" =>
    /\ files \subseteq files'
    /\ \A n \in 1..MaxSequence : <<"report", n>> \in files => cites'[n] = cites[n]

LEMMA FileStepKept ==
  ASSUME IInv, FileStep
  PROVE  Kept
  <1>1. CASE Query \/ Scan \/ InitNothing \/ InitBegin \/ Number
    BY <1>1 DEF Kept, Query, Scan, InitNothing, InitBegin, Number, medium
  <1>2. CASE InitFile \/ WriteIndex
    BY <1>2 DEF Kept, InitFile, WriteIndex, Renamed, NotRenamed
  <1>3. CASE WriteNumbered
    <2>1. /\ svc.at > 0 /\ svc.pc = "files" /\ svc.op \in {"snapshot", "trace", "report"}
          /\ svc.at \in 1..MaxSequence
      BY <1>3, StorageAssumption DEF WriteNumbered, IInv, Fits
    <2>2. files \subseteq files'
      BY <1>3 DEF WriteNumbered, Renamed, NotRenamed
    <2>3. CASE cites' = cites
      BY <2>2, <2>3 DEF Kept
    <2>4. CASE cites' # cites
      <3>1. svc.op = "report" /\ <<NumberedKind, svc.at>> \notin files
        BY <1>3, <2>4 DEF WriteNumbered, Renamed, NotRenamed
      <3>2. <<"report", svc.at>> \notin files
        BY <3>1 DEF NumberedKind
      <3>3. \E told : cites' = [cites EXCEPT ![svc.at] = told]
        BY <1>3, <2>4 DEF WriteNumbered
      <3>4. \A n \in 1..MaxSequence : n # svc.at => cites'[n] = cites[n]
        BY <2>1, <3>3 DEF IInv, TypeOK, Cites
      <3> QED
        BY <2>2, <3>2, <3>4 DEF Kept
    <2> QED
      BY <2>3, <2>4
  <1> QED
    BY <1>1, <1>2, <1>3 DEF FileStep

LEMMA NextKept == IInv /\ Next => Kept
  <1> SUFFICES ASSUME IInv, Next PROVE Kept
    OBVIOUS
  <1>1. CASE StorageStep
    <2>1. CASE UNCHANGED medium
      BY <2>1 DEF Kept, medium
    <2>2. CASE FileStep
      BY <2>2, FileStepKept
    <2> QED
      BY <1>1, <2>1, <2>2 DEF StorageStep, StartBoot, StartJob, Probe, Probed, Claim, JudgeBoot, JudgeJob
  <1>2. CASE MmemQuery \/ ManifestQuery \/ StorageInit \/ SnapshotWrite
    BY <1>2 DEF MmemQuery, ManifestQuery, StorageInit, SnapshotWrite, Request, Kept, medium
  <1>3. CASE JobInfo \/ TrigArm \/ TrigFault
    BY <1>3 DEF JobInfo, TrigArm, TrigFault, Leave, Kept, medium
  <1>4. CASE RequestDenied \/ WaitOver
    BY <1>4 DEF RequestDenied, WaitOver, Kept, medium
  <1>5. CASE StatusProbe \/ StatusProbed
    BY <1>5 DEF StatusProbe, StatusProbed, Kept, medium
  <1>6. CASE RawRead \/ RawClear \/ MkFs
    BY <1>6 DEF RawRead, RawClear, MkFs, RawCommand, Kept, medium
  <1>7. CASE RawReadDone \/ RawClearDone \/ MkFsDone
    BY <1>7 DEF RawReadDone, RawClearDone, MkFsDone, RawDone, Kept
  <1>8. CASE Draw \/ Drawn \/ BootDue
    BY <1>8 DEF Draw, Drawn, BootDue, Kept, medium
  <1>9. CASE PowerLoss
    BY <1>9 DEF PowerLoss, Kept
  <1> QED
    BY <1>1, <1>2, <1>3, <1>4, <1>5, <1>6, <1>7, <1>8, <1>9 DEF Next

(* No file of evidence is overwritten or changed by any step, however many *)
(* files there are, unless the host has the card erased.                   *)
THEOREM EvidenceStays == Spec => EvidenceKept
  <1>1. IInv /\ [Next]_vars => [Kept]_vars
    BY NextKept
  <1>2. Spec => [][Kept]_vars
    BY <1>1, StorageInvariant, PTL DEF Spec
  <1> QED
    BY <1>2 DEF EvidenceKept, Kept

-----------------------------------------------------------------------------
(* What a job of fault evidence has written so far.                        *)
HasFault == \E k \in 1..MaxSequence : <<"fault", k>> \in files
HasSnapshot == <<last.kind, last.snapshot>> \in files \/ last.kind = "boot"
HasTrace == {<<"bin", last.trace>>, <<"idx", last.trace>>} \subseteq files
Reported ==
  /\ <<"report", last.report>> \in files
  /\ cites[last.report] =
       [kind |-> last.kind, snapshot |-> last.snapshot, trace |-> last.trace]

(* The call under way is the next step of the job, or one of the boot      *)
(* snapshot's; the file of a trace is there before its index.              *)
Calling ==
  /\ svc.by = "job" /\ svc.pc # "rest" =>
       job.state = "RUNNING" /\ svc.op = StepOf(job) /\ svc.kind = job.kind
  /\ svc.by = "boot" /\ svc.pc # "rest" =>
       svc.op \in {"scan", "init", "snapshot"} /\ svc.kind = "boot"
  /\ svc.pc = "index" => <<"bin", svc.at>> \in files

(* What the marks of the job stand for, and the answer of its last call.   *)
Marks ==
  /\ job.ok0 => HasFault /\ HasSnapshot
  /\ job.ok1 => HasTrace

Answer ==
  svc.by = "job" /\ svc.pc = "judge" /\ svc.ok =>
    /\ job.step = 0 => HasFault /\ HasSnapshot
    /\ job.step = 1 => HasTrace
    /\ job.step = 2 => Reported

Evidence ==
  EvidenceActive =>
    /\ job.kind = "fault"
    /\ job.step = 0 => ~job.ok0
    /\ job.step # 2 => ~job.ok1
    /\ ~job.erased => Marks /\ Answer

EvidenceInv == Calling /\ Evidence /\ EvidenceDone

(* Reports that are there say what they said.                              *)
CitesKept == \A n \in 1..MaxSequence : <<"report", n>> \in files => cites'[n] = cites[n]

(* A step that touches neither card nor job nor call.                      *)
LEMMA QuietEvidence ==
  ASSUME EvidenceInv, UNCHANGED <<files, cites, last, job, svc>>
  PROVE  EvidenceInv'
  BY DEF EvidenceInv, Calling, Evidence, EvidenceDone, EvidenceActive, Active, Marks, Answer,
     HasFault, HasSnapshot, HasTrace, Reported, StepOf

(* A job that is posted has done nothing yet.                              *)
LEMMA PostedEvidence ==
  ASSUME EvidenceInv, UNCHANGED <<files, cites, last, svc>>, ~Active,
         NEW type, NEW kind, type = "FAULT_EVIDENCE" => kind = "fault",
         \/ job' = [NoJob EXCEPT !.type = type, !.kind = kind, !.state = "QUEUED"]
         \/ job' = [NoJob EXCEPT !.type = "QUERY", !.state = "FAILED"]
  PROVE  EvidenceInv'
  <1>1. ~(svc.by = "job" /\ svc.pc # "rest")
    BY DEF EvidenceInv, Calling, Active
  <1>2. Calling'
    BY <1>1 DEF EvidenceInv, Calling
  <1>3. /\ job'.state \in {"QUEUED", "FAILED"} /\ job'.ok0 = FALSE /\ job'.ok1 = FALSE
        /\ job'.type = "FAULT_EVIDENCE" => job'.kind = "fault"
    BY DEF NoJob
  <1>4. Evidence'
    BY <1>1, <1>3 DEF Evidence, EvidenceActive, Active, Marks, Answer
  <1>5. EvidenceDone'
    BY <1>3 DEF EvidenceDone
  <1> QED
    BY <1>2, <1>4, <1>5 DEF EvidenceInv

LEMMA PostEvidence ==
  ASSUME EvidenceInv, UNCHANGED <<files, cites, last, svc>>,
         NEW type, NEW kind, type = "FAULT_EVIDENCE" => kind = "fault", Post(type, kind)
  PROVE  EvidenceInv'
  <1>1. CASE Active
    BY <1>1, QuietEvidence DEF Post
  <1>2. CASE ~Active
    BY <1>2, PostedEvidence DEF Post
  <1> QED
    BY <1>1, <1>2

(* After an erasure nothing is said of the files of the job.               *)
LEMMA ErasedEvidence ==
  ASSUME IInv, EvidenceInv, UNCHANGED <<last, svc>>, Erased, ~OnBus
  PROVE  EvidenceInv'
  <1>1. job \in Jobs
    BY DEF IInv, TypeOK
  <1>2. /\ job'.type = job.type /\ job'.kind = job.kind /\ job'.state = job.state
        /\ job'.step = job.step /\ job'.ok0 = job.ok0 /\ job'.ok1 = job.ok1
        /\ job'.erased = TRUE
    BY <1>1 DEF Erased, Jobs
  <1>3. StepOf(job') = StepOf(job)
    BY <1>2 DEF StepOf
  <1>4. Calling'
    BY <1>2, <1>3 DEF EvidenceInv, Calling, OnBus, StepOf
  <1>5. Evidence'
    BY <1>2 DEF EvidenceInv, Evidence, EvidenceActive, Active
  <1>6. EvidenceDone'
    BY <1>2 DEF EvidenceDone
  <1> QED
    BY <1>4, <1>5, <1>6 DEF EvidenceInv

LEMMA PowerLossEvidence ==
  ASSUME PowerLoss
  PROVE  EvidenceInv'
  BY DEF PowerLoss, EvidenceInv, Calling, Evidence, EvidenceDone, EvidenceActive, Active,
     AtRest, NoJob

-----------------------------------------------------------------------------
(* The steps of the storage service.                                       *)
LEMMA EvidenceStep ==
  ASSUME TypeOK, job.type = "FAULT_EVIDENCE"
  PROVE  /\ job.step \in 0..2
         /\ job.step = 0 => StepOf(job) = "snapshot"
         /\ job.step = 1 => StepOf(job) = "trace"
         /\ job.step = 2 => StepOf(job) = "report"
  <1>1. job.step \in 0..2
    BY DEF TypeOK, Jobs
  <1>2. StepOf(job) = <<"snapshot", "trace", "report">>[job.step + 1]
    BY DEF StepOf
  <1> QED
    BY <1>1, <1>2

LEMMA ReportNumber ==
  ASSUME TypeOK, NEW n, <<"report", n>> \in files
  PROVE  n \in 1..MaxSequence
  <1>1. <<"report", n>> \in Files
    BY DEF TypeOK
  <1>2. <<"report", n>> \notin Pack /\ <<"report", n>> # Manifest
    BY DEF Pack, Manifest
  <1> QED
    BY <1>1, <1>2 DEF Files

(* The evidence of a job that is done stays.                               *)
LEMMA DoneStays ==
  ASSUME TypeOK, EvidenceDone, UNCHANGED job, files \subseteq files', CitesKept
  PROVE  EvidenceDone'
  <1> SUFFICES ASSUME job.type = "FAULT_EVIDENCE", job.state = "DONE", ~job.erased
               PROVE  EvidenceDone'
    BY DEF EvidenceDone
  <1> DEFINE n == job.result
  <1>1. /\ <<"report", n>> \in files
        /\ {<<"bin", cites[n].trace>>, <<"idx", cites[n].trace>>} \subseteq files
        /\ <<cites[n].kind, cites[n].snapshot>> \in files \/ cites[n].kind = "boot"
        /\ \E k \in 1..MaxSequence : <<"fault", k>> \in files
    BY DEF EvidenceDone
  <1>2. cites'[n] = cites[n]
    BY <1>1, ReportNumber DEF CitesKept
  <1> QED
    BY <1>1, <1>2 DEF EvidenceDone

LEMMA StartsEvidence ==
  ASSUME TypeOK, EvidenceInv, UNCHANGED <<files, cites, last>>, svc.pc = "rest",
         NEW by \in {"boot", "job"}, NEW op \in Operations, NEW kind, Start(by, op, kind),
         \/ by = "boot" /\ op \in {"scan", "init", "snapshot"} /\ kind = "boot"
            /\ UNCHANGED job
         \/ by = "job" /\ op = StepOf(job) /\ kind = job.kind
            /\ Active /\ job' = [job EXCEPT !.state = "RUNNING"]
  PROVE  EvidenceInv'
  <1>1. job \in Jobs
    BY DEF TypeOK
  <1>2. /\ svc'.by = by /\ svc'.op = op /\ svc'.kind = kind /\ svc'.ok = FALSE
        /\ svc'.pc \in {"probe", "judge"}
    BY DEF Start, AtRest
  <1>3. /\ job'.type = job.type /\ job'.kind = job.kind /\ job'.step = job.step
        /\ job'.ok0 = job.ok0 /\ job'.ok1 = job.ok1 /\ job'.erased = job.erased
        /\ by = "job" => Active /\ job'.state = "RUNNING"
        /\ by = "boot" => job' = job
    BY <1>1 DEF Jobs
  <1>4. StepOf(job') = StepOf(job)
    BY <1>3 DEF StepOf
  <1>5. Calling'
    <2>1. StepOf(job)' = StepOf(job')
      BY DEF StepOf
    <2> HIDE DEF StepOf
    <2> QED
      BY <1>2, <1>3, <1>4, <2>1 DEF Calling
  <1>6. Evidence'
    BY <1>2, <1>3
    DEF EvidenceInv, Evidence, EvidenceActive, Active, Marks, Answer, HasFault, HasSnapshot, HasTrace
  <1>7. EvidenceDone'
    BY <1>3 DEF EvidenceInv, EvidenceDone
  <1> QED
    BY <1>5, <1>6, <1>7 DEF EvidenceInv

LEMMA StartBootEvidence ==
  ASSUME IInv, EvidenceInv, StartBoot
  PROVE  EvidenceInv'
  <1>1. TypeOK /\ svc.pc = "rest" /\ UNCHANGED <<files, cites, last, job>>
    BY DEF IInv, StartBoot, medium
  <1>2. CASE UNCHANGED svc
    BY <1>1, <1>2, QuietEvidence
  <1>3. ASSUME NEW op \in {"scan", "init", "snapshot"}, Start("boot", op, "boot")
        PROVE  EvidenceInv'
    BY <1>1, <1>3, StartsEvidence DEF Operations
  <1> QED
    BY <1>2, <1>3 DEF StartBoot

LEMMA StartJobEvidence ==
  ASSUME IInv, EvidenceInv, StartJob
  PROVE  EvidenceInv'
  <1>1. TypeOK /\ svc.pc = "rest" /\ UNCHANGED <<files, cites, last>>
    BY DEF IInv, StartJob, medium
  <1>2. StepOf(job) \in Operations /\ Active
    BY StepOfTypes DEF StartJob, Served, Active
  <1> QED
    BY <1>1, <1>2, StartsEvidence DEF StartJob

(* The call goes on.                                                       *)
LEMMA GoesOn ==
  ASSUME IInv, EvidenceInv, UNCHANGED <<job, last>>, files \subseteq files', CitesKept,
         svc.pc # "rest", svc'.pc \notin {"rest", "judge"},
         svc'.by = svc.by, svc'.op = svc.op, svc'.kind = svc.kind,
         svc'.pc = "index" => <<"bin", svc'.at>> \in files'
  PROVE  EvidenceInv'
  <1>1. Calling'
    BY DEF EvidenceInv, Calling, StepOf
  <1>2. Evidence'
    BY DEF EvidenceInv, Evidence, EvidenceActive, Active, Marks, Answer, HasFault, HasSnapshot, HasTrace
  <1>3. EvidenceDone'
    BY DoneStays DEF IInv, EvidenceInv
  <1> QED
    BY <1>1, <1>2, <1>3 DEF EvidenceInv

(* The call returns: what it answers is what it has left on the card.      *)
LEMMA Returns ==
  ASSUME IInv, EvidenceInv, UNCHANGED job, files \subseteq files', CitesKept,
         svc.pc \notin {"rest", "judge"}, NEW b \in BOOLEAN, NEW n \in Counts, Return(b, n),
         b /\ svc.op = "snapshot" => n \in 1..MaxSequence /\ <<svc.kind, n>> \in files',
         b /\ svc.op = "trace" => <<"bin", n>> \in files' /\ <<"idx", n>> \in files',
         b /\ svc.op = "report" =>
           /\ <<"report", n>> \in files'
           /\ cites'[n] =
                [kind |-> last.kind, snapshot |-> last.snapshot, trace |-> last.trace]
  PROVE  EvidenceInv'
  <1>1. /\ TypeOK /\ svc \in Calls /\ last \in Lasts
        /\ Calling /\ Evidence /\ EvidenceDone
    BY DEF IInv, TypeOK, EvidenceInv
  <1>2. /\ svc'.pc = "judge" /\ svc'.ok = b
        /\ svc'.by = svc.by /\ svc'.op = svc.op /\ svc'.kind = svc.kind
    BY <1>1 DEF Return, Calls
  <1>3. /\ svc.op = "snapshot" => /\ last'.kind = svc.kind /\ last'.snapshot = n
                                  /\ last'.trace = last.trace
        /\ svc.op = "trace" => /\ last'.kind = last.kind /\ last'.snapshot = last.snapshot
                               /\ last'.trace = n
        /\ svc.op = "report" => /\ last'.kind = last.kind /\ last'.snapshot = last.snapshot
                                /\ last'.trace = last.trace /\ last'.report = n
        /\ svc.op \notin {"snapshot", "trace", "report"} => last' = last
    BY <1>1 DEF Return, Lasts
  <1>4. Calling'
    BY <1>1, <1>2 DEF Calling, StepOf
  <1>5. EvidenceDone'
    BY <1>1, DoneStays
  <1>6. Evidence'
    <2> SUFFICES ASSUME EvidenceActive, ~job.erased
                 PROVE  Marks' /\ Answer'
      BY <1>1 DEF Evidence, EvidenceActive, Active
    <2>1. /\ job.type = "FAULT_EVIDENCE" /\ job.kind = "fault" /\ Marks
          /\ job.step = 0 => ~job.ok0
          /\ job.step # 2 => ~job.ok1
      BY <1>1 DEF Evidence, EvidenceActive
    <2>2. /\ job.step \in 0..2
          /\ job.step = 0 => StepOf(job) = "snapshot"
          /\ job.step = 1 => StepOf(job) = "trace"
          /\ job.step = 2 => StepOf(job) = "report"
      BY <1>1, <2>1, EvidenceStep
    <2>3. CASE svc.by = "boot"
      <3>1. svc.op \in {"scan", "init", "snapshot"} /\ svc.kind = "boot"
        BY <1>1, <2>3 DEF Calling
      <3>2. HasFault => HasFault'
        BY DEF HasFault
      <3>3. HasSnapshot => HasSnapshot'
        BY <1>3, <3>1 DEF HasSnapshot
      <3>4. HasTrace => HasTrace'
        BY <1>3, <3>1 DEF HasTrace
      <3>5. Marks'
        BY <2>1, <3>2, <3>3, <3>4 DEF Marks
      <3>6. Answer'
        BY <1>2, <2>3 DEF Answer
      <3> QED
        BY <3>5, <3>6
    <2>4. CASE svc.by = "job"
      <3>1. svc.op = StepOf(job) /\ svc.kind = "fault"
        BY <1>1, <2>1, <2>4 DEF Calling
      <3>2. CASE job.step = 0
        <4>1. svc.op = "snapshot"
          BY <2>2, <3>1, <3>2
        <4>2. Marks'
          BY <2>1, <3>2 DEF Marks
        <4>3. b => HasFault' /\ HasSnapshot'
          BY <1>3, <3>1, <4>1 DEF HasFault, HasSnapshot
        <4> QED
          BY <1>2, <3>2, <4>2, <4>3 DEF Answer
      <3>3. CASE job.step = 1
        <4>1. svc.op = "trace"
          BY <2>2, <3>1, <3>3
        <4>2. HasFault => HasFault'
          BY DEF HasFault
        <4>3. HasSnapshot => HasSnapshot'
          BY <1>3, <4>1 DEF HasSnapshot
        <4>4. Marks'
          BY <2>1, <3>3, <4>2, <4>3 DEF Marks
        <4>5. b => HasTrace'
          BY <1>3, <4>1 DEF HasTrace
        <4> QED
          BY <1>2, <3>3, <4>4, <4>5 DEF Answer
      <3>4. CASE job.step = 2
        <4>1. svc.op = "report"
          BY <2>2, <3>1, <3>4
        <4>2. HasFault => HasFault'
          BY DEF HasFault
        <4>3. (HasSnapshot => HasSnapshot') /\ (HasTrace => HasTrace')
          BY <1>3, <4>1 DEF HasSnapshot, HasTrace
        <4>4. Marks'
          BY <2>1, <4>2, <4>3 DEF Marks
        <4>5. b => Reported'
          BY <1>3, <4>1 DEF Reported
        <4> QED
          BY <1>2, <3>4, <4>4, <4>5 DEF Answer
      <3> QED
        BY <2>2, <3>2, <3>3, <3>4
    <2> QED
      BY <1>1, <2>3, <2>4 DEF Calls
  <1> QED
    BY <1>4, <1>5, <1>6 DEF EvidenceInv

LEMMA FailEvidence ==
  ASSUME IInv, EvidenceInv, UNCHANGED job, files \subseteq files', CitesKept,
         svc.pc \notin {"rest", "judge"}, Return(FALSE, 0)
  PROVE  EvidenceInv'
  <1>1. 0 \in Counts /\ FALSE \in BOOLEAN
    BY StorageAssumption DEF Counts
  <1> QED
    BY <1>1, Returns

LEMMA SameCard ==
  ASSUME UNCHANGED <<files, cites>>
  PROVE  files \subseteq files' /\ CitesKept
  BY DEF CitesKept

LEMMA ProbesEvidence ==
  ASSUME IInv, EvidenceInv, Probe \/ Probed \/ Claim
  PROVE  EvidenceInv'
  <1>1. /\ UNCHANGED <<files, cites, job>> /\ svc.pc \in {"probe", "probing", "claim"}
        /\ svc \in Calls
    BY DEF Probe, Probed, Claim, medium, IInv, TypeOK
  <1>2. files \subseteq files' /\ CitesKept
    BY <1>1, SameCard
  <1>3. CASE Return(FALSE, 0)
    BY <1>1, <1>2, <1>3, FailEvidence
  <1>4. ASSUME NEW pc \in {"probing", "claim", "files"}, svc' = [svc EXCEPT !.pc = pc],
               UNCHANGED last
        PROVE  EvidenceInv'
    <2>1. /\ svc'.pc = pc /\ svc'.by = svc.by /\ svc'.op = svc.op /\ svc'.kind = svc.kind
      BY <1>1, <1>4 DEF Calls
    <2> QED
      BY <1>1, <1>2, <1>4, <2>1, GoesOn
  <1> QED
    BY <1>3, <1>4 DEF Probe, Probed, Claim, Denied, Fail

(* The file under way is new.                                              *)
LEMMA NewFile ==
  ASSUME NEW file, Renamed(file) \/ NotRenamed(file)
  PROVE  files \subseteq files' /\ (Renamed(file) => file \in files')
  BY DEF Renamed, NotRenamed

LEMMA PackEvidence ==
  ASSUME IInv, EvidenceInv, UNCHANGED job,
         Query \/ Scan \/ InitNothing \/ InitBegin \/ InitFile
  PROVE  EvidenceInv'
  <1>0. svc \in Calls /\ 0 \in Counts
    BY StorageAssumption DEF IInv, TypeOK, Counts
  <1>1. /\ svc.pc = "files" /\ svc.op \in {"query", "scan", "init"} /\ svc \in Calls
        /\ 0 \in Counts /\ UNCHANGED cites
    <2>1. svc.pc = "files" /\ svc.op \in {"query", "scan", "init"}
      BY DEF Query, Scan, InitNothing, InitBegin, InitFile
    <2>2. UNCHANGED cites
      BY DEF Query, Scan, InitNothing, InitBegin, InitFile, medium
    <2> QED
      BY <1>0, <2>1, <2>2
  <1>2. files \subseteq files' /\ CitesKept
    BY <1>1
    DEF CitesKept, Query, Scan, InitNothing, InitBegin, InitFile, medium, Renamed, NotRenamed
  <1>3. ASSUME NEW b \in BOOLEAN, Return(b, 0)
        PROVE  EvidenceInv'
    BY <1>1, <1>2, <1>3, Returns
  <1>4. ASSUME NEW n, svc' = [svc EXCEPT !.at = n], UNCHANGED last
        PROVE  EvidenceInv'
    <2>1. /\ svc'.pc = svc.pc /\ svc'.by = svc.by /\ svc'.op = svc.op /\ svc'.kind = svc.kind
      BY <1>1, <1>4 DEF Calls
    <2> QED
      BY <1>1, <1>2, <1>4, <2>1, GoesOn
  <1>5. CASE Query \/ Scan \/ InitNothing
    BY <1>3, <1>5 DEF Query, Scan, InitNothing, Succeed, Fail
  <1>6. CASE InitBegin
    BY <1>4, <1>6 DEF InitBegin, vector
  <1>7. CASE InitFile
    BY <1>3, <1>4, <1>7 DEF InitFile, vector, Succeed, Fail
  <1> QED
    BY <1>5, <1>6, <1>7

LEMMA NumberEvidence ==
  ASSUME IInv, EvidenceInv, UNCHANGED job, Number
  PROVE  EvidenceInv'
  <1>1. /\ svc.pc = "files" /\ svc \in Calls /\ UNCHANGED <<files, cites>>
    BY DEF Number, medium, IInv, TypeOK
  <1>2. files \subseteq files' /\ CitesKept
    BY <1>1, SameCard
  <1>3. CASE Fail(FALSE)
    BY <1>1, <1>2, <1>3, FailEvidence DEF Fail
  <1>4. ASSUME NEW n, svc' = [svc EXCEPT !.at = n], UNCHANGED last
        PROVE  EvidenceInv'
    <2>1. /\ svc'.pc = svc.pc /\ svc'.by = svc.by /\ svc'.op = svc.op /\ svc'.kind = svc.kind
      BY <1>1, <1>4 DEF Calls
    <2> QED
      BY <1>1, <1>2, <1>4, <2>1, GoesOn
  <1> QED
    BY <1>3, <1>4 DEF Number, vector

LEMMA WriteEvidence ==
  ASSUME IInv, EvidenceInv, UNCHANGED job, WriteNumbered
  PROVE  EvidenceInv'
  <1> DEFINE told == [kind |-> last.kind, snapshot |-> last.snapshot, trace |-> last.trace]
             file == <<NumberedKind, svc.at>>
  <1>1. /\ svc.pc = "files" /\ svc.op \in {"snapshot", "trace", "report"} /\ svc \in Calls
        /\ svc.at \in 1..MaxSequence /\ svc.at \in Counts
        /\ cites \in Cites
    BY StorageAssumption DEF WriteNumbered, IInv, TypeOK, Fits, Counts
  <1>2. NumberedKind = CASE svc.op = "snapshot" -> svc.kind
                         [] svc.op = "trace" -> "bin"
                         [] svc.op = "report" -> "report"
    BY DEF NumberedKind
  <1>3. files \subseteq files' /\ (Renamed(file) => file \in files')
    BY NewFile DEF WriteNumbered
  <1>4. CitesKept
    <2>1. CASE cites' = cites
      BY <2>1 DEF CitesKept
    <2>2. CASE cites' # cites
      <3>1. svc.op = "report" /\ file \notin files
        BY <2>2 DEF WriteNumbered, Renamed, NotRenamed
      <3>2. <<"report", svc.at>> \notin files
        BY <1>2, <3>1
      <3>3. cites' = [cites EXCEPT ![svc.at] = told]
        BY <2>2 DEF WriteNumbered
      <3>4. \A n \in 1..MaxSequence : n # svc.at => cites'[n] = cites[n]
        BY <1>1, <3>3 DEF Cites
      <3> QED
        BY <3>2, <3>4 DEF CitesKept
    <2> QED
      BY <2>1, <2>2
  <1>5. CASE Fail(FALSE)
    BY <1>1, <1>3, <1>4, <1>5, FailEvidence DEF Fail
  <1>6. CASE svc.op = "trace" /\ Renamed(file) /\ svc' = [svc EXCEPT !.pc = "index"]
             /\ UNCHANGED last
    <2>1. /\ svc'.pc = "index" /\ svc'.by = svc.by /\ svc'.op = svc.op /\ svc'.kind = svc.kind
          /\ svc'.at = svc.at
      BY <1>1, <1>6 DEF Calls
    <2>2. <<"bin", svc.at>> \in files'
      BY <1>2, <1>3, <1>6
    <2> QED
      BY <1>1, <1>3, <1>4, <1>6, <2>1, <2>2, GoesOn
  <1>7. CASE svc.op # "trace" /\ Renamed(file) /\ Return(TRUE, svc.at)
             /\ (svc.op = "report" => cites' = [cites EXCEPT ![svc.at] = told])
    <2>1. svc.op = "snapshot" => <<svc.kind, svc.at>> \in files'
      BY <1>2, <1>3, <1>7
    <2>2. svc.op = "report" => <<"report", svc.at>> \in files' /\ cites'[svc.at] = told
      BY <1>1, <1>2, <1>3, <1>7 DEF Cites
    <2>3. svc.at \in Counts /\ TRUE \in BOOLEAN
      BY <1>1
    <2> QED
      BY <1>1, <1>3, <1>4, <1>7, <2>1, <2>2, <2>3, Returns
  <1> QED
    BY <1>5, <1>6, <1>7 DEF WriteNumbered, Succeed, vector

LEMMA IndexEvidence ==
  ASSUME IInv, EvidenceInv, UNCHANGED job, WriteIndex
  PROVE  EvidenceInv'
  <1>1. /\ svc.pc = "index" /\ svc.op = "trace" /\ svc.at \in Counts
        /\ <<"bin", svc.at>> \in files
    BY StorageAssumption DEF WriteIndex, IInv, Fits, Counts, EvidenceInv, Calling
  <1>2. /\ files \subseteq files' /\ CitesKept
        /\ Renamed(<<"idx", svc.at>>) => <<"idx", svc.at>> \in files'
    BY NewFile DEF WriteIndex, CitesKept
  <1>3. CASE Fail(FALSE)
    BY <1>1, <1>2, <1>3, FailEvidence DEF Fail
  <1>4. CASE Renamed(<<"idx", svc.at>>) /\ Return(TRUE, svc.at)
    <2>1. <<"bin", svc.at>> \in files' /\ <<"idx", svc.at>> \in files' /\ TRUE \in BOOLEAN
      BY <1>1, <1>2, <1>4
    <2> QED
      BY <1>1, <1>2, <1>4, <2>1, Returns
  <1> QED
    BY <1>3, <1>4 DEF WriteIndex, Succeed

(* The job is done only when every one of its three calls has answered.    *)
LEMMA JudgeEvidence ==
  ASSUME IInv, EvidenceInv, JudgeBoot \/ JudgeJob
  PROVE  EvidenceInv'
  <1>1. /\ TypeOK /\ job \in Jobs /\ svc.pc = "judge" /\ svc'.pc = "rest"
        /\ UNCHANGED <<files, cites, last>> /\ svc.ok \in BOOLEAN
        /\ Calling /\ Evidence /\ EvidenceDone
    BY DEF IInv, TypeOK, JudgeBoot, JudgeJob, AtRest, medium, vector, Calls, EvidenceInv
  <1>2. Calling'
    BY <1>1 DEF Calling
  <1>3. CASE UNCHANGED job
    <2>1. Evidence'
      BY <1>1, <1>3
      DEF Evidence, EvidenceActive, Active, Marks, Answer, HasFault, HasSnapshot, HasTrace
    <2>2. EvidenceDone'
      BY <1>1, <1>3, DoneStays, SameCard
    <2> QED
      BY <1>2, <2>1, <2>2 DEF EvidenceInv
  <1>4. CASE svc.by = "job" /\ job' = Judged(svc.ok)
    <2>1. job.state = "RUNNING"
      BY <1>1, <1>4 DEF Calling
    <2>2. ASSUME NEW ok, NEW result, job' = Ended(ok, result), job.type # "FAULT_EVIDENCE"
          PROVE  EvidenceInv'
      <3>1. job'.type = job.type
        BY <2>2 DEF Ended, NoJob
      <3> QED
        BY <1>2, <2>2, <3>1 DEF EvidenceInv, Evidence, EvidenceActive, EvidenceDone
    <2>3. ASSUME job'.type = job.type, job.type # "FAULT_EVIDENCE"
          PROVE  EvidenceInv'
      BY <1>2, <2>3 DEF EvidenceInv, Evidence, EvidenceActive, EvidenceDone
    <2>4. CASE job.type # "FAULT_EVIDENCE"
      <3>1. \/ \E ok, result : job' = Ended(ok, result)
            \/ job' = [job EXCEPT !.step = 1]
            \/ job' = [job EXCEPT !.step = 2, !.ok0 = svc.ok]
            \/ job' = [job EXCEPT !.step = 1, !.ok0 = svc.ok]
        BY <1>4, <2>4 DEF Judged
      <3> QED
        BY <1>1, <2>2, <2>3, <2>4, <3>1 DEF Jobs
    <2>5. CASE job.type = "FAULT_EVIDENCE"
      <3>1. /\ job.kind = "fault" /\ (job.step = 0 => ~job.ok0) /\ (job.step # 2 => ~job.ok1)
            /\ ~job.erased => Marks /\ Answer
        BY <1>1, <2>1, <2>5 DEF Evidence, EvidenceActive, Active
      <3>2. job.step \in 0..2
        BY <1>1 DEF Jobs
      <3>4. (HasFault <=> HasFault') /\ (HasSnapshot <=> HasSnapshot') /\ (HasTrace <=> HasTrace')
        BY <1>1 DEF HasFault, HasSnapshot, HasTrace
      <3>5. Answer'
        BY <1>1 DEF Answer
      <3>6. CASE job.step = 0
        <4>1. job' = [job EXCEPT !.step = 1, !.ok0 = svc.ok]
          BY <1>4, <2>5, <3>6 DEF Judged
        <4>2. /\ job'.type = job.type /\ job'.kind = job.kind /\ job'.state = "RUNNING"
              /\ job'.step = 1 /\ job'.ok0 = svc.ok /\ job'.ok1 = job.ok1
              /\ job'.erased = job.erased
          BY <1>1, <2>1, <4>1 DEF Jobs
        <4>3. ~job.erased => Marks'
          BY <1>1, <1>4, <3>1, <3>4, <3>6, <4>2 DEF Marks, Answer
        <4>4. Evidence'
          BY <3>1, <3>5, <3>6, <4>2, <4>3 DEF Evidence
        <4>5. EvidenceDone'
          BY <4>2 DEF EvidenceDone
        <4> QED
          BY <1>2, <4>4, <4>5 DEF EvidenceInv
      <3>7. CASE job.step = 1
        <4>1. job' = [job EXCEPT !.step = 2, !.ok1 = svc.ok]
          BY <1>4, <2>5, <3>7 DEF Judged
        <4>2. /\ job'.type = job.type /\ job'.kind = job.kind /\ job'.state = "RUNNING"
              /\ job'.step = 2 /\ job'.ok0 = job.ok0 /\ job'.ok1 = svc.ok
              /\ job'.erased = job.erased
          BY <1>1, <2>1, <4>1 DEF Jobs
        <4>3. ~job.erased => Marks'
          BY <1>1, <1>4, <3>1, <3>4, <3>7, <4>2 DEF Marks, Answer
        <4>4. Evidence'
          BY <3>1, <3>5, <3>7, <4>2, <4>3 DEF Evidence
        <4>5. EvidenceDone'
          BY <4>2 DEF EvidenceDone
        <4> QED
          BY <1>2, <4>4, <4>5 DEF EvidenceInv
      <3>8. CASE job.step = 2
        <4>1. job' = Ended(EvidenceComplete(svc.ok), last.report)
          BY <1>4, <2>5, <3>8 DEF Judged
        <4>2. /\ job'.type = job.type /\ job'.erased = job.erased /\ job'.result = last.report
              /\ job'.state = IF EvidenceComplete(svc.ok) THEN "DONE" ELSE "FAILED"
          BY <4>1 DEF Ended, NoJob
        <4>3. Evidence'
          BY <4>2 DEF Evidence, EvidenceActive, Active
        <4>4. ASSUME job'.state = "DONE", ~job.erased
              PROVE  /\ Reported /\ HasFault /\ HasSnapshot /\ HasTrace
          <5>1. job.ok0 /\ job.ok1 /\ svc.ok
            BY <4>2, <4>4 DEF EvidenceComplete
          <5> QED
            BY <1>1, <1>4, <3>1, <3>8, <4>4, <5>1 DEF Marks, Answer
        <4>5. EvidenceDone'
          BY <1>1, <4>2, <4>4
          DEF EvidenceDone, Reported, HasFault, HasSnapshot, HasTrace
        <4> QED
          BY <1>2, <4>3, <4>5 DEF EvidenceInv
      <3> QED
        BY <3>2, <3>6, <3>7, <3>8
    <2> QED
      BY <2>4, <2>5
  <1> QED
    BY <1>3, <1>4 DEF JudgeBoot, JudgeJob

LEMMA EraseEvidence ==
  ASSUME IInv, EvidenceInv, RawClearDone \/ MkFsDone
  PROVE  EvidenceInv'
  <1>1. UNCHANGED <<cites, last, svc>> /\ ~OnBus
    BY DEF RawClearDone, MkFsDone, RawDone, IInv, BusInv, ScpiOnBus
  <1>2. CASE UNCHANGED <<files, job>>
    BY <1>1, <1>2, QuietEvidence
  <1>3. CASE Erased
    BY <1>1, <1>3, ErasedEvidence
  <1> QED
    BY <1>2, <1>3 DEF RawClearDone, MkFsDone

LEMMA NextEvidence == IInv /\ EvidenceInv /\ [Next]_vars => EvidenceInv'
  <1> SUFFICES ASSUME IInv, EvidenceInv, [Next]_vars PROVE EvidenceInv'
    OBVIOUS
  <1>1. CASE StorageStep
    <2>1. CASE FileStep
      <3>1. UNCHANGED job
        BY <2>1 DEF FileStep
      <3> QED
        BY <2>1, <3>1, PackEvidence, NumberEvidence, WriteEvidence, IndexEvidence DEF FileStep
    <2> QED
      BY <1>1, <2>1, StartBootEvidence, StartJobEvidence, ProbesEvidence, JudgeEvidence
      DEF StorageStep
  <1>2. CASE MmemQuery \/ ManifestQuery \/ StorageInit \/ SnapshotWrite
    BY <1>2, PostEvidence
    DEF MmemQuery, ManifestQuery, StorageInit, SnapshotWrite, Request, medium
  <1>3. CASE JobInfo \/ TrigArm \/ TrigFault
    BY <1>3, PostEvidence DEF JobInfo, TrigArm, TrigFault, Leave, medium
  <1>4. CASE RequestDenied
    <2>1. CASE UNCHANGED job
      BY <1>4, <2>1, QuietEvidence DEF RequestDenied, medium
    <2>2. CASE ~Active /\ job' = [NoJob EXCEPT !.type = "QUERY", !.state = "FAILED"]
      BY <1>4, <2>2, PostedEvidence DEF RequestDenied, medium
    <2> QED
      BY <1>4, <2>1, <2>2 DEF RequestDenied
  <1>5. CASE \/ WaitOver \/ StatusProbe \/ StatusProbed
             \/ RawRead \/ RawClear \/ MkFs \/ RawReadDone
             \/ Draw \/ Drawn \/ BootDue \/ UNCHANGED vars
    BY <1>5, QuietEvidence
    DEF WaitOver, StatusProbe, StatusProbed, RawRead, RawClear, MkFs, RawCommand,
        RawReadDone, RawDone, Draw, Drawn, BootDue, vars, medium, vector
  <1>6. CASE RawClearDone \/ MkFsDone
    BY <1>6, EraseEvidence
  <1>7. CASE PowerLoss
    BY <1>7, PowerLossEvidence
  <1> QED
    BY <1>1, <1>2, <1>3, <1>4, <1>5, <1>6, <1>7 DEF Next

(* A job of fault evidence that reports DONE has left a report that cites  *)
(* its trace, its index and a snapshot, and a snapshot of the fault, all   *)
(* of them on the card (storage_job_complete_fault_evidence): for any      *)
(* range of file numbers, any failures and retries of its steps and        *)
(* whatever the boot snapshot writes between two of them.                  *)
THEOREM EvidenceIsThere == Spec => []EvidenceDone
  <1>1. Init => EvidenceInv
    BY DEF Init, EvidenceInv, Calling, Evidence, EvidenceDone, EvidenceActive, Active,
       AtRest, NoJob
  <1>2. Spec => []EvidenceInv
    BY <1>1, NextEvidence, StorageInvariant, PTL DEF Spec
  <1>3. EvidenceInv => EvidenceDone
    BY DEF EvidenceInv
  <1> QED
    BY <1>2, <1>3, PTL

=============================================================================
