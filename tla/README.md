# A TLA+ model of the HDRT100 trigger firmware

This directory holds the specifications of the RP2350 trigger board firmware:
modules that model its components, the TLC configurations that check them on
small instances, and proofs that TLAPS checks for every value of the constants.
Paths such as `components/...` are relative to the root of the sources;
`PROJECT.json` gives, for every definition, the lines it models.

Contents: [1 The system](#1-the-system) ·
[2 Modules and code](#2-modules-and-code) ·
[3 Runs](#3-runs) · [4 Proofs](#4-proofs) ·
[5 Where code and documents disagree](#5-where-code-and-documents-disagree) ·
[6 What is not modelled](#6-what-is-not-modelled) · [7 Plan](#7-plan) ·
[8 Running it](#8-running-it)

## 1 The system

The firmware drives trigger pulses, a synchronisation clock and BiSS encoder
taps with the PIO blocks of an RP2350, is controlled by SCPI over USB, stores
evidence on an SD card and updates itself over the same link. A bootloader
starts one of two application slots. There are three builds that matter here:
one loop on one core (the default), one loop with the trigger service on core 1
(`PROJECT_USE_MULTICORE`), and FreeRTOS tasks (`PROJECT_USE_FREERTOS`), with or
without core 1.

### Components

| component | state | operations | hard behaviour | what makes it correct |
|---|---|---|---|---|
| OTA metadata store (`ota_metadata.c`, `pota_metadata.c`) | two flash sectors with sequence number and CRC | load the newer valid copy, mutate, erase and program the other | power loss between erase and program; failing flash; old record formats | a load returns the old or the new record, never neither |
| Bootloader (`bootloader_main.c`) | metadata in RAM, the two slots | direct A/B selection and rollback; copy transaction B to A; fallback | reset at every flash step, attempt limit, half-copied slot | only complete images run, an unconfirmed image is rolled back, nothing hangs |
| OTA service (`ota_fb.c`, `pota_core.c`) | session, vector, target slot | begin, header, data, end, abort, commit, boot | session and vector are two copies of the same state; events in any order | the running and the confirmed slot are never erased |
| Flash driver (`drv_flash.c`) | three lockout flags shared by two cores | park core 1, erase or program, release | bounded waits that run out, a stale acknowledgement, several callers | core 1 is parked during every write and always resumes |
| Resource arbiter | owner of each resource | acquire and release, with or without an owner's name | anonymous users, partial acquisition | held exactly by those who use |
| Trigger service and function block (`sync_trigger.c`, `trigger_fb.c`) | event queue of 16, state, vector of parameters | configure, set, arm, disarm, fault, reset, sample, clock | full queue, event in a state it is not meant for, hardware that refuses | state, hardware and arbiter agree; DISARM stops |
| Sync IO and its modes | PIO, DMA, pins | arm and disarm SEQ, ENC, BiSS; clock; capture | shared AUX pins, shared DMA interrupt | as above |
| BiSS node (`biss_node_io.c`, `biss_tap_rx.pio`) | PIO program and FIFO, word assembler, timeout, scan | poll, frames, silence, sample scan | three things that count bits independently; a poll of 1 ms against a FIFO of two frames | whole frames, one pulse per passing, the scan goes on |
| BiSS settings and protocol (`scpi_communication_biss_commands.c`, `biss_protocol.c`) | thirty settings, the profile of a run | set one, configure, arm, decode a frame, compute its CRC | settings change one at a time, before and after they are checked; fields anywhere in the frame | what is decoded lies in the frame and is what was reported; the CRC is the CRC |
| Trigger measurement (`trigger_measure.c`) | gate and counts | start, service, read | unlocked double read against an interrupt | the count is that of the gate |
| Storage manager | one job slot, boot snapshot, result vector | scan, initialise, write snapshot, trace, report, query; raw read, raw clear and format beside the jobs | jobs in steps, retries when the bus is busy, failing card, power loss, an erasure under a job | one user of SPI0, no evidence lost or overwritten |
| FatFs port and SD card | mounted volume | write to a temporary name and rename, list, read | every access may fail half way | a name appears with its whole file |
| Display | frame | render | takes the bus without waiting | gives it back |
| USBTMC and CDC link | request flags, response buffer, status byte | USB callbacks, SCPI input | host reads in pieces, sends without reading, clears and aborts at any moment | every reply arrives, whole and once, and MAV is true |
| SCPI front end | parser, buffers | commands as events and jobs | several posts per command, buffers reused while queued | a run runs what was set, and is not changed under way |
| Event bus | ring of eight events | post, receive by pointer | full ring, slot reused while read | order, no loss of accepted events |
| Product configuration | one flash sector | load, set the USB mode | power loss, failed erase or program | the mode answered is the one of the next start |
| Logging | character ring | write, drain | several writers | bounded, whole entries |
| Distributed reference memory and configuration | one table; constant tables | read and write under one lock | none yet: a single node | as its tests say |

### How they interact

- SCPI commands become events of the trigger queue and of the OTA ring, jobs of
  the storage manager, and direct calls (status queries, measurement, product
  configuration).
- The services are polled: from one loop (`app_run_once`), from tasks, and on
  core 1 for the trigger service. An event or a job waits until its service is
  called.
- The trigger service, the OTA service, the storage manager and the display
  meet in the resource arbiter: AUX pins, DMA, FLASH, SPI0.
- All flash writes meet in `drv_flash.c`, which stops core 1; not all of them
  ask the arbiter first.
- The bootloader and the application meet only in flash: slots and metadata.

## 2 Modules and code

| module | models | kind |
|---|---|---|
| `MetadataRegister` | what the metadata store promises: one atomic register | abstract |
| `MetadataStore` | the two sectors, every flash operation a step | detailed, implements `MetadataRegister` |
| `OtaMetadata` | the record and the mutators of `pota_metadata.c` | operators |
| `OtaDevice` | bootloader, OTA service and slots over `MetadataStore` | composition |
| `FlashLockout` | the handshake of `drv_flash.c` with core 1 | component |
| `ResourceArbiter` | acquire, release, owner rule | operators |
| `TriggerFB` | trigger queue, function block, mode hardware, clock, arbiter | composition |
| `TriggerCommands` | the SCPI commands over `TriggerFB`, with the sequence table | composition |
| `EventQueue` | what the OTA event bus promises: a queue of events with their data | abstract |
| `EventBus` | the ring of slots, posts, reception by pointer | detailed, implements `EventQueue` |
| `BissNode` | encoder, PIO program, FIFO, runtime sample | component |
| `BissConfig` | BiSS settings, commands, profile, fields and CRC of a frame | component |
| `UsbLink` | USBTMC, CDC, product configuration, host, power | composition |
| `StorageManager` | storage service, SCPI, display, card, SPI0 | composition |
| `MetadataStore_proofs`, `OtaDevice_proofs`, `FlashLockout_proofs`, `StorageManager_proofs`, `UsbLink_proofs`, `EventBus_proofs` | theorems of the module of that name | proofs |
| `Trigger_proofs` | theorems of `TriggerFB` and `TriggerCommands` | proofs |
| `Biss_proofs` | theorems of `BissConfig` and `BissNode` | proofs |
| `MC*` | the sets the configurations use | model checking |

Definitions whose comment says "a mutant" are broken variants of the definition
below them: exchanging one for the other makes the property named for it in
`PROJECT.json` fail, which shows that the property can.

**MetadataStore.** A copy is a record or `Torn`; a record is sequence number,
payload and whether it has the A/B extension. `ota_metadata_store` is three
steps (`StartStore`, `EraseCopy`, `ProgramCopy`), each of which power loss or a
failing operation may cut short. The sector is chosen by the parity of the new
sequence number, as in the code, and not by which copy is older: that these
agree is what has to be shown. A record of a firmware older than the A/B
extension (`ext = FALSE`) is upgraded in RAM by the load, which raises its
sequence number: `MetadataRegister` allows the loss of such a record (`Lose`),
and of no other.

**OtaDevice.** `pc` is the stage of the program that runs. Each point of the
bootloader between two flash operations is a stage; `AfterStore` says where it
goes on after a store that succeeded or failed. The stages of the copy
transaction are those of `bootloader_copy_*`. The session (`ses`) and the vector
(`vec`) are two variables, because the code keeps two and updates them at
different points. An image is a value together with the slot it is linked for;
a slot is erased, partial (its vector table passes the check, its CRC does not)
or complete. Two history variables: `trusted`, the images some host confirmed,
and `rule`, which a host breaks when it begins an upload from an image on trial,
over the confirmed slot, and keeps again from the next confirmation of the active
image. Nothing in the code stops such a host, so the model does not either; the
properties say what holds while the rule is kept, and with that that one
confirmation repairs everything.

**FlashLockout.** One action per access to a flag, on both sides. A wait loop
that runs out is an action (`GiveUp`), allowed when core 1 is in its service:
the budget of the loop is far longer than the poll itself. `SlowPoll` drops that
assumption. The DMA interrupt can run on core 1 at any stage, also while it is
parked: it delays the loop.

**TriggerFB.** The function block is a table of (state, event, handler); the
model has `Accepts`, the states in which an event is in the table, and one
action per handler. Parameters are reduced to what guards read: is the
configuration of a mode valid, is the clock frequency other than 0. Arming may
always be refused by the hardware (instruction memory). `Sample` is the runtime
sample with its two fault branches, a mode that has stopped and a scan that
could not arm again; both are unreachable, which follows from
`RunningAsArmed` and, for the second, from the configuration being valid while
armed. `CONFIGURE_ENC` and `CLEAR_FAULT` are in the table though no command
posts them; they are posted here. An invalid SEQ configuration is never posted
by SCPI, which checks it first; it is posted here too.

**BissNode.** A bit is the mark of its frame and its place there, so joining the
words of two frames is visible. The encoder and the time are external: a bit may
go by at any moment, whatever the poll does. `overdue` says that the timeout has
elapsed since the last frame. The position in a frame and the outcome of CRC,
anchor and status bits are choices made when a frame is taken. The history
variables `pending` and `got` relate the frame taken to the frame sent, and
`missed` says whether something was lost since the tap was armed: a bit that
went by a program waiting for room, words dropped by the poll or by a timeout,
the first part of a frame the tap was armed in.

**BissConfig.** A frame is a sequence of bits. `Set` is one command with one
value in its range (`Accepted`, the ranges of all the commands); `Configure` and
`Arm` check the settings as `fb_valid_biss_config` and `biss_profile_validate`
do, in the widths of the code (`Width`, `CrcWidth`, `ByteWidth`: settings wrap,
and the CRC constants are cut when the profile is made). `Verdict` is what
`biss_protocol.c` makes of a frame: anchor, CRC by a shift register
(`Registers`, one for each bit of the cover), error and warning bit, gates.
`Division` is the textbook's long division the properties compare it with. `tap`
is what the PIO program was patched with: the delay is cut to `MaxDelay`, 31
cycles in `biss_tap_rx_program_patch`, while `active` is what the queries report.

**TriggerCommands.** It extends `TriggerFB`: a command is a sequence of steps of
the SCPI task, and the service may take an event between any two. `SEQ:DATA`
copies its block word by word into the buffer that a queued `CONFIGURE_SEQ`
points to; `ARM` looks at what was set, posts `CONFIGURE_SEQ`, then `ARM`, and
either post may find the queue full. `RunAllowed` and `Rejected` are the table
of commands a run forbids. `pledge` and `due` are history variables: the table that
was set when `ARM` found an idle service, and whether that `ARM` has still to
take effect.

**EventBus, EventQueue.** A slot has an event and room for data; an event points
to its slot, to the SCPI input buffer or nowhere, and what it carries is what is
found there when it is executed. `EventQueue` is the FIFO; its only weakness,
that the data of the event in execution may be replaced once the queue is full
again, is stated there and is what the ring implements.

**UsbLink.** One action per callback of the USB stack, and one per thing a host
does. A message has a size in packets, a reply in bytes and perhaps an effect
(the mode, a restart), `mav` is the MAV bit of the status byte, `bus` what the
stack waits for. The stack is external; what is assumed of it is that it reads a
request header only when a read is pending, that a request with nothing to
transmit stays until an abort or a clear, and that a callback that answers false
stops further reads until one of these. On CDC the host opens and closes the
port (DTR) when it likes: a line is taken all the same, but a reply that meets a
closed port is discarded by `usb_cdc_scpi_write`, and one that waits for room
when the port is closed goes on into a FIFO that overwrites itself. `owed`, `got`
and `waived` are history.
The record in flash is erased, then programmed; either may fail or be cut.

**StorageManager.** Three actors: the storage service, SCPI, the renderer. A job
step is: probe the card if it is not ready, claim the bus, file operations,
judge the outcome, with every point at which another task can come in between.
Every access can fail; a failing write may have left a complete file. Raw read,
raw clear and format are steps of SCPI beside whatever job there is: `volume`
says that the card holds a volume, `mounted` that the FatFs port takes it for
mounted, and a raw clear changes only the first. The contents of files are left
out (section 6).

## 3 Runs

| run | instance | states | shows |
|---|---|---|---|
| `metadata_store` | 2 payloads, old records, history to 7 | 601 | the sectors implement the register; only an old record can be lost, and only before the first store is complete |
| `ota_direct` | factory image, one update per slot, history to 11 | 675,089 | direct A/B with any host: while it keeps the rule only complete images run, the confirmed slot is trusted, APPLIED is true, an application ends up running and an unconfirmed one is rolled back; a staged image runs |
| `ota_copy` | copy-to-active, one update, history to 13 | 203,021 | the same for the copy transaction, interrupted less often than its attempt limit |
| `flash_lockout` | two callers, one loop, core 1 | 120 | core 1 is parked during every write, resumes, and every write ends |
| `trigger_fb` | all events, queue of 2 | 197,128 | state, hardware, clock and arbiter agree; DISARM and RESET take effect |
| `trigger_commands` | one table of two words, queue of 2 | 1,759,306 | nothing of a run changes while it is armed; it runs the table and the length that were set when an idle service was armed; an ARM answered OK by a service idle in mode 1 takes effect or one of its events leaves an error |
| `event_bus` | ring of 3, two types, two blocks | 187,182 | the ring implements the queue: order, data, and every accepted event is executed |
| `storage_jobs` | FreeRTOS, 1 pack file, numbers to 2, 2 events | 2,148,629 | SPI0 is exclusive, the pack complete, evidence kept, complete when DONE, and ended |
| `biss_node` | frames of 3 bits in words of 2, FIFO of 3, up to 3 frames ahead | 958,320 | whole frames until the first of four losses, a pulse exactly on passing, silence noticed, scan goes on |
| `biss_config` | frames of 6 bits, settings of 4 bits, 2 changes | 51,838 | fields lie in the frame, the run is what is reported, the CRC is the remainder of the polynomial division, and a flipped bit never fires |
| `usb_link` | 7 kinds of message, 3 messages, buffers of 3 and 2 | 45,030 | replies whole, in order and announced; they arrive; a stuck link recovers; MODE? tells the next start |
| `ota_copy_losses` | `ota_copy` with as many losses as attempts | 39,150 | the disagreement of section 5: the property fails |

The type invariants are in no run: they are proved (section 4), in
`OtaDevice` for direct A/B. A theorem and a run that name the same property
complete each other: the run has the fairness, the mutants that break the
property and, where the theorem has a hypothesis, the cases it leaves out.

### Bounds, and why they are enough

- *History* (`MaxSeq`): sequence numbers only matter by order and parity, so a
  history in which each sector is rewritten three times has every case; the OTA
  runs need 11 and 13 for an upload, a boot with its attempts, a rollback or a
  copy, and a second upload. `Room` stops uploads, confirmations and power loss
  near the bound and never the bootloader, so that liveness is not cut off.
- *Images*: one update per slot and the factory image; both slots hold
  different images, and an image may be uploaded to the slot it is not linked
  for.
- *Power losses* (`LossLimit`): in the copy transaction fewer than the attempt
  limit of 3; beyond it the property fails (section 5). Elsewhere any number.
- *Trigger queue*: 2 of 16 entries. Handlers read one event at a time; two
  entries give an event behind another and a full queue. The proofs hold for
  every length.
- *Storage*: one pack file and the manifest give a half-written pack; numbers up
  to 2 give a second file and the end of the range (999999 in the code); two
  commands or power losses give a job that meets a status query, a refused post,
  a restart. The run has `Preemptive = TRUE`: the single loop only has fewer
  interleavings, so the safety properties hold there as well.
- *Commands*: one table over a buffer of zeros, with lengths 1 and 2, shows a
  part of a table, the end of an old one, and a copy under way. Of the settings
  those that spoil a configuration are enough (`Spoiling`). Two tables and an
  event that repairs a configuration were checked to more than four million
  states without a violation; the run with them takes too long to keep.
- *Event bus*: three slots and two blocks let an event in execution see its slot
  filled again by another block, and the indices wrap.
- *USB*: replies of 0 to 3 bytes against a buffer of 2, messages of up to 3
  packets, a transmit FIFO of one byte, and three messages, so that each meets
  one left unread and one given up.
- *BiSS settings*: each of a setting's values is in the range or one beyond, or
  spoils a relation of two (a field that leaves the frame, a scan whose end is
  before its start, a step that overflows); two changes from a valid start reach
  every pair. The values of settings have four bits, the CRC constants three in
  a command and two in a profile, so both cuts happen.
- *BiSS*: a full and a partial word per frame; a FIFO of one and a half frames
  against up to three frames that nobody has taken fills with and without a loss,
  at a frame's end and in its middle. Two marks tell one frame from the next.
  Modulo 3 with target 1 has ways that end
  at, begin at, pass, wrap around and miss the target; the value 3 stands for all
  positions outside the modulo. First delay 1, scan 2 to 6 by 3: the first
  delay lies outside the range, and the range does not divide by the step.

### Fairness

- `OtaDevice`: weak fairness of the bootloader, a loop without waits, and of a
  flash operation, which ends. Nothing is assumed of host, application or power;
  the premises of the liveness properties say when resets stop or go on.
- `FlashLockout`: core 1 loops and its handler returns; interrupts may come
  again and again but the loop runs between them, hence strong fairness of the
  poll. A caller inside the driver goes on (a bounded wait or a flash operation).
- `TriggerFB`: the service is called for ever. `RUNTIME_SAMPLE` is only taken
  from an empty queue and gets no fairness.
- `BissNode`: the runtime sample is called for ever and time passes. Nothing is
  assumed of the encoder.
- `StorageManager`: the storage service, a status query and a frame under way go
  on. When the boot snapshot is due needs no fairness. The renderer sleeps 5 ms
  after a frame and the storage task retries after 1 ms, so the renderer does not
  deny the bus to two attempts in succession (`denied`); without that,
  evidence could wait for ever.
- `TriggerCommands`: as `TriggerFB`; a command under way goes on.
- `EventBus`: the OTA service is called for ever. Posts need no fairness.
- `UsbLink`: the device and the stack go on, and so does a message once begun;
  the host reads what is there and gives up on a link that waits. Whether it
  sends anything, and when power fails, is left open.

## 4 Proofs

| theorems | say | assume |
|---|---|---|
| `StoreInvariant`, `StoreImplementsRegister` | the sectors implement the register, for any payloads, any old records and any history | `Sound`: flash does not fail in the bootloader |
| `DeviceInvariant`, `DeviceRunsWholeImage`, `DeviceConfirmedIsTrusted`, `DeviceAppliedIsTrue`, `DeviceStoresAreRegister` | under direct A/B, while the rule is kept, the application runs a complete image, the confirmed slot holds one a host confirmed and APPLIED is true, and always the stores of the device are those of the register; for any host, any images, any history, any number of power losses | `Direct`: direct A/B from the first boot, flash does not fail in the bootloader |
| `LockoutInvariant`, `LockoutParks` | core 1 is parked during every locked-out write, for any callers | `Sequential`: one loop on core 0, a poll shorter than the wait loops |
| `TriggerTypes`, `TriggerRunsAsArmed`, `TriggerHoldsWhatItUses`, `TriggerReportsClock` | the four invariants of the trigger service, for any set of events and any queue length | |
| `CommandsInvariant`, `CommandsRunWhatWasSet`, `CommandsRunFrozen` | a run has the table and the length that were set when ARM found the service idle in mode 1, unless that ARM found a configuration queued or new data overtook its own, and nothing of a run changes while it is armed; for any tables and any queue length | |
| `StorageInvariant`, `StorageTypes`, `OneOnTheBus`, `PacksAreComplete`, `EvidenceStays`, `EvidenceIsThere` | one user of SPI0, a manifest only with its files, no evidence overwritten, and all of it there when its job is DONE; for any pack, any range of file numbers and any history of commands and power losses, preemptive or not | |
| `UsbInvariant`, `UsbTypes`, `UsbToldTheTruth`, `UsbNextStart` | over USBTMC the status byte and the bytes the host reads are those of the reply it is owed; over CDC it reads the replies in order, none twice, and misses bytes only of one that met a closed port; the mode answered is that of the next start unless a write of the record failed; for any messages and any sizes of the buffers | |
| `BissInvariant`, `BissDecodable`, `BissRunsAsReported` | an armed tap decodes only bits of its frame, samples within the bit and was given what the queries report, a delay beyond what the PIO program can wait being cut to that; for any width of the settings and any frame length | |
| `BissCrcIsRemainder`, `BissFlipsAreCaught` | with the CRC gate on, a frame that fires carries the remainder of the polynomial division, and no flipped bit of its cover leaves one that fires; for any frame, polynomial, width and cover | |
| `NodeTypesHold`, `NodeFiresOnPassing` | a pulse comes exactly when the target lies on the way, for any modulo and target | |
| `NodeWholeFrames` | until the receiver misses something, in one of four ways, every frame is taken whole and in order, for any lengths of frame and word, any FIFO and any pace of line and poll | |
| `BusInvariant`, `BusIsQueue` | the ring implements the queue, for any length and any events, but for what needs fairness | |

Besides the hypotheses listed, a theorem rests on the assumption on constants
that its module declares and TLC evaluates in every run.

*MetadataStore.* `RegisterSpec` is not inductive: that a store spares the newest
copy follows from the parity of sequence numbers. The invariant `StoreInv` adds
that each copy lies in the sector of its parity (`InPlace`), that either this
firmware has not completed a record yet (`Early`) or the newest is one of its own
(`Late`), that the record under way succeeds the one a load returns (`InFlight`),
and that the bootloader's RAM image is that load between its stores (`InStep`).
`Sound` is needed: after a failed store the bootloader goes on with its RAM
image, which breaks `InStep`. The refinement maps the register to the newest
copy; every step is a stutter but the program that completes a store and, while
`Early`, the erasure that loses an old record.

*OtaDevice.* The store is not proved again: `SP` instantiates
`MetadataStore_proofs` with the device's metadata as payload, and
`DeviceStoresAreRegister` says that every step of the device is a step of the
register or a stutter. The rest can then speak of one value, `stored`, the
metadata of the newest record, and no more of sectors. `TrustInv` says that while
the rule is kept these metadata are good (the confirmed slot holds a trusted
image, the active slot a complete one), and so are those a store is about to put
in their place, since power may fail on either side of the program that ends it;
for a confirmation that is to restore the rule this has to be known before it
ends (`WillKeep`, `Vouched`). That no upload spoils them is `UploadInv`: an open
session writes to the slot that is not active, which while the rule is kept is
not the confirmed one either. `StageInv` says which stages have a store under
way, and that the last resort is reached only with the rule broken; `RunInv` what
the application that confirms is running, whatever became of the rule. Both parts
of `Direct` are needed: a failed store in the bootloader breaks the store's own
invariant, and the copy transaction needs a bound on power losses, which is a
matter of counting attempts and is left to TLC.

*FlashLockout.* `LockoutInv` relates flags, the place of core 1 and the place of
the one caller inside the driver: an acknowledgement is only up while core 1 is
parked or about to leave, and no request is made before the acknowledgement of
the last one is gone. The two sides are separate lemmas (`Core1Lockout`,
`WriterLockout`).

*Trigger.* For the service `IInv` is the conjunction of `TypeOK`,
`RunningAsArmed`, `HeldAsUsed`, `ClockAsReported` and `TapValid`. None of the
three relations is inductive alone: that arming takes only what is free needs
`HeldAsUsed`, that nothing else runs needs `RunningAsArmed`, that the clock may
be stopped by a reset needs `ClockAsReported`. `TapValid` is what keeps a sample
from taking a scan for lost. There is one lemma per handler, and lemmas on what
the arbiter's functions leave alone. The commands keep `IInv`, because what they
do to the service is to post. `CommandsInv` adds where the promise of an ARM is
at each moment: still among the posts of the command, in the queue, or taken
(`PledgePosted`, `PledgeQueued`, `PledgeTaken`), with the buffer, the length and
the table of the promise agreeing as far as that place requires, and that one
command at a time is under way (`OneAtATime`). New data give up the promise only
while a configuration is queued: once it was taken, the buffer and what runs have
parted, and the promise stands beside whatever the host sends.

*StorageManager.* `IInv` is the conjunction of `TypeOK`, `Fits`, `BusInv`,
`PackInv` and `PackComplete`. `BusInv` says of each of the three resources who
holds it, since the arbiter keeps no names: that one user releases nothing of
another follows only when every user is known to hold what it gives back.
`PackInv` says that the files before the one under way are written, and it
survives an erasure only because the erasure needs the bus too, so the two
invariants need each other. `Fits` bounds the number of the file under way by
what a name has room for. `EvidenceKept` is a fact about single steps from there:
a rename refuses a name that exists, and only a report that is new says
something. `EvidenceDone` is about the end of a job of several calls, and needs
`EvidenceInv`: the marks the job keeps of what succeeded stand for files that are
there (`Marks`), and so does the answer of a call that has ended and is not yet
judged (`Answer`), unless the card was erased meanwhile. `Calling` says whose
call is under way. One lemma per operation, with lemmas on what the arbiter does
to the bus (`Grabbed`, `Left`) and on what a call that returns leaves behind.

*UsbLink.* `ReadInv` is the heart: what the host has read is the beginning of
the reply it is owed, as many bytes of it as `s_response_offset` says, and MAV is
set exactly while there is a reply to send. `LineInv` says for CDC that the bytes
read, in the FIFO and still to be written are bytes of the replies, in order, none
twice, and that only a reply that met a closed port (`waived`) misses any.
`BusInv` ties what the stack waits for to what the device does, without which a
callback out of its turn would spoil `ReadInv`; `OffInv` says that a transport not in use has
nothing under way; `RecordInv` follows the record of the mode through the erase
and the program, and gives `NextStartAsAnswered`.

*Biss.* For the settings `Running` keeps, with the profile of an armed tap, what
was checked of the settings it was made from: no command changes them while it is
armed, and the scan moves only the delay, within its range; each step of the scan
patches the program again, so `tap` follows, up to the cut at `MaxDelay`. The
prover knows nothing of powers, so that those of two are positive is part of the assumption of
the module. `Judged` says that the frame judged last was judged by the profile of
the run. For the CRC the lemmas follow the two recursive functions step by step:
`Computed` and `Climb` (from the least number theorem of the library, since the
induction theorems are out of reach) say that such a function is what its steps
make it. `RegisterIsDivided` is the invariant that ties register and long
division: after each place, the part of the dividend under the register is the
register added to the message, and beyond it the message alone. A flipped bit
makes two registers differ by the polynomial (`FedUnlike`); from there on they
differ somewhere, and nowhere past the last one of the polynomial (`Apart`),
whether both take the polynomial (`FedAlike`) or one does, which renews that
last place. For the receiver `CrossedIsArc` shows that the case distinction of
`biss_crossed_position` is the way around the circle. Whole frames follow from
`StreamInv`: until something is missed, counted from the head of the assembler,
the words drained and those in the FIFO are the words of the frames under way, in
their order (`Ordered`), and either everything sent has been pushed (`Between`)
or the chunk and the bits still to come are the rest of the frame sent last
(`Sampling`). A program that
waits for room makes no difference: the stream is that of the program as it will
be when its chunk has found room (`Ready`), and a bit that goes by meanwhile is a
loss. There are lemmas for what a frame begun, a bit and a word read do to such a
stream, free of the state, for the FIFO (`BitTaken`, `WordLeaves`), and the
arithmetic of words in a frame (`RoomInFrame`, `LastWord`, `ChunkIsWord`). The
invariant asks nothing of the pace: whatever is not one of the four losses keeps
it, also a full FIFO.

*EventBus.* Pending events lie in the slots from `head` on, each with its data in
its own slot (`PendingFiled`), and the event in execution points to the slot
before `head`, the last a post can reach (`InExecution`). The refinement maps the
queue to those slots in their order; a post appends, a reception takes the head,
and the data of the event in execution change only when the ring is full.

Only model-checked:

- all liveness, the fairness of `QueueSpec` included: out of the prover's reach;
- `RunsWholeImage` of the copy transaction, with fewer power losses than the
  attempt limit.

`FlashLockout` under FreeRTOS, where `ParkedWhileWriting` does not hold
(section 5), is in no run and in no theorem.

## 5 Where code and documents disagree

One has a run whose property fails; `PROJECT.json` quotes the document.

- `ota_copy_losses`: a copy interrupted as often as the attempt limit leaves a
  half-copied slot A that the fallback jumps to.

Five more are behaviours of the modules of this directory; the properties are
stated around them, and no run is kept for them.

- The upgrade of a record without the A/B extension raises the sequence number
  in RAM only, so the next store goes to the sector of the only valid copy
  (`ota_metadata.c`; `docs/ota/OTA_SYSTEM_DESIGN.md:697` and
  `docs/ota/OTA_PORTABLE_ARCHITECTURE.md:202` say that the last valid copy is
  never overwritten or erased first). `Lose` in `MetadataRegister` is this case.
- An upload started from an image that is not confirmed erases the confirmed
  slot (`pota_core.c`). In `OtaDevice` such an upload sets `rule`.
- Under FreeRTOS two callers of the flash driver share the lockout flags, and
  the setting of the USB mode does not ask the arbiter
  (`product_config.c:117`; `docs/ota/README.md:26` says every flash action
  does). `FlashLockout` with `Preemptive = TRUE`.
- The PIO program counts bits and the BiSS timeout does not reset it, so once
  out of step (armed in the middle of a frame, or bits lost on a full FIFO) it
  stays so until it is armed again between two frames, or the scan does that
  (`docs/communication/BISSC_TAP_BRIDGE_DESIGN.md:204`). In `BissNode` these
  set `missed`.
- The PIO program waits at most 31 cycles before it samples
  (`biss_tap_rx.pio:50`), while settings, scan and queries go up to a bit less
  one, 49 cycles at 5 MHz, as
  `docs/communication/BISSC_TAP_BRIDGE_DESIGN.md:219` promises: a delay above 31
  is reported, and 31 is used. `RunsAsReported` of `BissConfig` states the cut.

Seen while modelling, without a run:

- `TRIG:FAULT` ignores that the job of fault evidence is refused while another
  job is active (`scpi_realtime_sequence_commands.c:199`,
  `docs/storage/SD_TODO.md:839`).
- The DMA interrupt of an armed sequence runs from flash on the parked core 1
  (`sync_io_mode_seq_step.c:186`, `docs/arch/ARCH_PRODUCT_ARCHITECTURE.md:176`).
- A storage job other than fault evidence may repeat its second step for ever
  when that step makes no call and the busy mark of someone else stays up; a
  status query ends it.
- `biss_last_position` survives from one arming to the next, so the first frame
  may fire; a small backward motion counts as a way round forward.
- The gate of the measurement reads the lap counter twice around the transfer
  count; with the interrupt on the other core both reads may miss a lap. Only
  MEAS:FREQ? measures: `trigger_measure_start` has no caller, and the other
  measurement queries always answer NO_REPORT.
- *Trigger commands.* When ARM's second post is refused, or the hardware refuses
  to arm, the service is left in SEQ_CONFIGURED, where a new SEQ:DATA and ARM
  answer OK and arm the old table. ARM in IDLE (with another product mode) or in
  FAULT answers OK and does nothing. SEQ:DATA while a CONFIGURE_SEQ is queued
  rewrites the table that gets armed, which may be half of the one and half of
  the other, and two pairs of SEQ:DATA and ARM before the service runs arm the
  first length with the second contents. A DISARM or RESET that finds the queue
  full is refused with an error, and the mode runs on.
  SET_ENC_TARGET and PCNT_CLEAR are handled while armed though SCPI refuses them.
  The PCNT commands ignore a refused post. SET_PULSE_WIDTH and its like are
  traced as ignored though handled. TRIG:START, STOP, PAUSE, CONTinue and ABORt
  answer 1 and do nothing; TRIG:STATe? answers constants. No command posts
  CONFIGURE_ENC or CLEAR_FAULT.
- *Event bus.* A refusal for whatever reason is reported as QUEUE_FULL. A block
  being programmed lies in a slot that is free again: posts that come all the way
  round the ring overwrite it.
- *Flash.* A write before core 1 has polled for the first time does not park it
  (`drv_flash.c:64`).
- *USB.* A host that sends lines without raising DTR has them executed and gets
  no reply: `usb_cdc_scpi_write` reports a discarded one as written
  (`usbtmc_scpi_port.c:48`). MODE? answers the stored mode, that of the next start, which
  `docs/interface/SCPI_USB_INTERFACE_DESIGN.md` calls the current one. After a
  failed program the mode in RAM and the record in flash differ. A reply of more
  than 2048 bytes is lost and the link waits for a clear. A Bulk-IN request that
  comes before its response is kept in a flag nobody reads. With both a UART
  console and USBTMC two transports fill one SCPI input buffer.
- *BiSS settings.* `timeout_ms` wraps to 1 for the last 999 values of
  `timeout_us`. An anchor mask wider than the anchor is accepted, and with value
  bits there no frame matches. A CRC inside its own cover is accepted. CRC
  constants are taken up to 0xFFFF and answered so, but the profile keeps a
  byte of each (`docs/communication/BISSC_TAP_BRIDGE_DESIGN.md:309`): a 16-bit
  CRC runs with the low byte of its polynomial.
- *Storage.* After a raw clear the FatFs port still takes the volume for mounted:
  a probe reports the card ready, jobs report DONE, and what they write is lost
  with the power. That is why `EvidenceKept` speaks of a card that holds a
  volume, and `EvidenceDone` of a job whose card was not erased meanwhile.

## 6 What is not modelled

- *By choice, data*: CRC and header arithmetic, formatting and parsing, manifest
  texts and paths, the layout of the display, log texts, counters that are only
  reported.
- *Hardware*: the setting of PIO, DMA, SPI and I2C registers, the SD command
  protocol, FatFs itself (an access succeeds or fails), FreeRTOS.
- *Storage*: a change of cards, the trace ring, contents of files except what a
  report cites; the end of a job is one step.
- *Trigger*: parameters no guard reads, counters, tracing, the measurement.
- *USB*: descriptors, the stack itself, a console on the UART, a CDC host that
  holds the port open and never reads (the write of the device then waits with
  it). How the transmit FIFO overwrites itself under a closed port is the
  stack's.
- *BiSS*: counters, a pulse refused by the hardware.
- *Validation-only OTA commands* (fault injection, corrupting metadata).
- *Constant or single-step components*: distributed configuration but for its
  run policy, distributed reference memory, diagnostics, the character ring of
  the log, whose operations are critical sections.

## 7 Plan

The order is by what goes worst when it is wrong. Done: metadata and OTA device,
flash lockout, trigger service with its commands, storage with raw access, BiSS
node and settings, USB link with the product configuration, event bus.

Every safety property of a run is proved, but for those section 4 lists as only
model-checked. What is left: `OtaDevice` in copy mode, with the copy transaction as a relation
between the slots, the attempts counted and the power losses so far.

Abstract specifications worth stating, besides the register and the event
queue: an append-only set of evidence (storage), a sampler of whole frames
(BiSS).

## 8 Running it

```
tlc -workers 2 -config MCTriggerFB.cfg MCTriggerFB.tla
tlapm Trigger_proofs.tla
```

Most runs of section 3 take seconds; `biss_node` takes one to two minutes,
`ota_direct`, `ota_copy`, `trigger_commands` and `storage_jobs` up to three each,
much of it for liveness. Deadlock is checked in every run but `ota_direct`: after
an upload over the confirmed slot that is cut short the bootloader may have
nothing left to run, and its last resort is an endless loop (`hang`). The proofs
take between seconds and, for `StorageManager_proofs`, `Trigger_proofs`,
`OtaDevice_proofs` and `Biss_proofs`, a few minutes.
