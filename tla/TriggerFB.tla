------------------------------- MODULE TriggerFB -------------------------------
(***************************************************************************)
(* The trigger service: commands of core 0 post events to a bounded queue; *)
(* sync_trigger_service takes them one by one and runs the handler that    *)
(* the table of trigger_fb.c has for the state and the event.  With two    *)
(* cores the handler runs on core 1 inside a critical section, otherwise   *)
(* in the one task that serves the queue: an event is one step.            *)
(*                                                                         *)
(* Left out: the counters, the error code (see TriggerCommands) and what   *)
(* the pulse and counter commands set, which no guard reads.  Whether the  *)
(* parameters of a mode would pass its validation is one bit per mode,     *)
(* changed by the SET events.                                              *)
(***************************************************************************)
EXTENDS Naturals, Sequences, ResourceArbiter

CONSTANTS Posted,       \* the events the commands post
          QueueLength   \* SYNC_TRIGGER_QUEUE_LENGTH

VARIABLES state,         \* vector.state
          ok,            \* would the parameters of this mode pass validation?
          clockEnabled,  \* vector.sync_clock_enabled
          hz,            \* is vector.sync_clock_hz other than 0?
          running,       \* is the mode running in the hardware?
          clock,         \* is the sync clock running?
          capture,       \* is the input capture running?
          held,          \* the resource arbiter
          queue

vector == <<state, ok, clockEnabled, hz>>
io == <<running, clock, capture, held>>
vars == <<vector, io, queue>>

Modes == {"SEQ", "ENC", "BISS"}
Resources == {"PIO1", "PIO2", "DMA", "AUX"}
ClockNeeds == {"PIO2", "AUX"}
Needs(m) == IF m = "BISS" THEN {"PIO2", "AUX"} ELSE {"PIO1", "DMA"}

(* An event is a type and whether its value is good (nonzero, valid, on).  *)
EventTypes ==
  {"CONFIGURE_SEQ", "CONFIGURE_ENC", "CONFIGURE_BISS",
   "SET_SEQ", "SET_ENC", "SET_BISS", "ARM", "DISARM", "FAULT",
   "CLEAR_FAULT", "RESET", "SAMPLE_STATE", "CLOCK_FREQ", "CLOCK_STATE",
   "PULSE", "PCNT", "PCNT_CLEAR"}
Events == EventTypes \X BOOLEAN

ASSUME TriggerAssumption == Posted \subseteq Events /\ QueueLength \in Nat

Configured == [m \in Modes |-> <<m, "configured">>]
Armed == [m \in Modes |-> <<m, "armed">>]
Idle == <<"none", "idle">>
Fault == <<"none", "fault">>
States == {Idle, Fault} \cup {Configured[m] : m \in Modes}
                        \cup {Armed[m] : m \in Modes}
IsArmed == \E m \in Modes : state = Armed[m]

(* A mutant: the tap can be given parameters while it is armed.            *)
AcceptsTapArmed == [type \in EventTypes |->
  CASE type \in {"CONFIGURE_SEQ", "SET_SEQ", "SAMPLE_STATE", "CLOCK_FREQ",
                 "CLOCK_STATE", "PULSE"} -> {Idle, Configured["SEQ"]}
    [] type = "SET_BISS" -> {Idle, Configured["BISS"], Armed["BISS"]}
    [] type = "CONFIGURE_BISS" -> {Idle, Configured["BISS"]}
    [] type = "ARM" -> {Configured[m] : m \in Modes}
    [] type = "DISARM" -> States \ {Idle}
    [] OTHER -> States]

(* The states in which the table has a handler for the event.  In the      *)
(* other states it has none, or fb_seq_armed_reject.                       *)
Accepts == [type \in EventTypes |->
  CASE type \in {"CONFIGURE_SEQ", "SET_SEQ", "SAMPLE_STATE", "CLOCK_FREQ",
                 "CLOCK_STATE", "PULSE"} -> {Idle, Configured["SEQ"]}
    [] type = "PCNT_CLEAR" -> {Idle, Armed["ENC"]}
    [] type \in {"CONFIGURE_ENC", "PCNT"} -> {Idle, Configured["ENC"]}
    [] type = "SET_ENC" -> {Idle, Configured["ENC"], Armed["ENC"]}
    [] type \in {"CONFIGURE_BISS", "SET_BISS"} -> {Idle, Configured["BISS"]}
    [] type = "ARM" -> {Configured[m] : m \in Modes}
    [] type = "DISARM" -> States \ {Idle}
    [] type = "FAULT" -> States \ {Fault}
    [] type = "CLEAR_FAULT" -> {Fault}
    [] type = "RESET" -> States]

(* A mutant: while a mode is armed the service only samples it.            *)
TakeQuiet(type) ==
  /\ queue # <<>> /\ Head(queue)[1] = type
  /\ ~IsArmed
  /\ queue' = Tail(queue)

(* sync_trigger_service takes the next event, if it is one of this type.   *)
Take(type) ==
  /\ queue # <<>> /\ Head(queue)[1] = type
  /\ queue' = Tail(queue)
Good == Head(queue)[2]
Handling(type) == Take(type) /\ state \in Accepts[type]
-----------------------------------------------------------------------------
(* sync_trigger_post; when the queue is full the event is dropped.         *)
Post(e) ==
  /\ Len(queue) < QueueLength
  /\ queue' = Append(queue, e)
  /\ UNCHANGED <<vector, io>>

Ignore ==
  /\ \E type \in EventTypes : Take(type) /\ state \notin Accepts[type]
  /\ UNCHANGED <<vector, io>>

(* fb_idle_configure_seq, also by way of fb_seq_configured_reconfigure,    *)
(* which gives the configuration up first.                                 *)
ConfigureSeq ==
  /\ Handling("CONFIGURE_SEQ")
  /\ state' = IF Good THEN Configured["SEQ"] ELSE Idle
  /\ UNCHANGED <<ok, clockEnabled, hz, io>>

(* fb_idle_configure_enc and fb_idle_configure_biss.                       *)
ConfigureMode(type, m) ==
  /\ Handling(type)
  /\ state' = IF ok[m] THEN Configured[m] ELSE state
  /\ UNCHANGED <<ok, clockEnabled, hz, io>>

(* fb_instant_cmd for the parameters of a mode.                            *)
SetParameter(type, m) ==
  /\ Handling(type)
  /\ ok' = [ok EXCEPT ![m] = Good]
  /\ UNCHANGED <<state, clockEnabled, hz, io>>

(* fb_instant_cmd for the rest: a pulse is fired, its width or a parameter *)
(* of the counter is set, the count is cleared.                            *)
Instant ==
  /\ \E type \in {"PULSE", "PCNT", "PCNT_CLEAR"} : Handling(type)
  /\ UNCHANGED <<vector, io>>

(* The arm handlers.  The hardware takes valid parameters, or is out of    *)
(* instruction memory; the resources are given back when it refuses.       *)
Arm ==
  /\ Handling("ARM")
  /\ \E m \in Modes :
       /\ state = Configured[m]
       /\ \/ /\ ok[m] /\ MayAcquire(held, Needs(m))
             /\ held' = Acquired(held, Needs(m), m)
             /\ running' = [running EXCEPT ![m] = TRUE]
             /\ state' = Armed[m]
          \/ UNCHANGED <<held, running, state>>
  /\ UNCHANGED <<ok, clockEnabled, hz, clock, capture>>

(* The disarm handlers.                                                    *)
Disarm ==
  /\ Handling("DISARM")
  /\ \E m \in Modes :
       /\ state \in {Configured[m], Armed[m]}
       /\ running' = [running EXCEPT ![m] = FALSE]
       /\ held' = Released(held, Needs(m), m)
  /\ state' = Idle
  /\ UNCHANGED <<ok, clockEnabled, hz, clock, capture>>

(* A mutant: the tap is not disarmed.                                      *)
ReleaseRunningWave(h) ==
  /\ running' = [m \in Modes |-> m = "BISS" /\ running[m]]
  /\ held' = Released(Released(h, Needs("SEQ"), "SEQ"), Needs("ENC"), "ENC")

(* fb_release_running_io, from arbiter state h.                            *)
ReleaseRunning(h) ==
  /\ running' = [m \in Modes |-> FALSE]
  /\ held' = Released(Released(Released(h, Needs("SEQ"), "SEQ"),
                               Needs("ENC"), "ENC"), Needs("BISS"), "BISS")

ForceFault ==
  /\ Handling("FAULT")
  /\ ReleaseRunning(held)
  /\ state' = Fault
  /\ UNCHANGED <<ok, clockEnabled, hz, clock, capture>>

ClearFault ==
  /\ Handling("CLEAR_FAULT") \/ (Handling("DISARM") /\ state = Fault)
  /\ ReleaseRunning(held)
  /\ state' = Idle
  /\ UNCHANGED <<ok, clockEnabled, hz, clock, capture>>

(* sync_io_stop_clock.                                                     *)
ClockStopped(h) == IF clock THEN Released(h, ClockNeeds, "clock") ELSE h

(* A mutant: the capture runs on.                                          *)
ResetCapturing ==
  /\ Handling("RESET")
  /\ ReleaseRunning(ClockStopped(held))
  /\ clock' = FALSE /\ clockEnabled' = FALSE
  /\ state' = Idle
  /\ UNCHANGED <<ok, hz, capture>>

(* fb_reset_all.                                                           *)
Reset ==
  /\ Handling("RESET")
  /\ ReleaseRunning(ClockStopped(held))
  /\ clock' = FALSE /\ clockEnabled' = FALSE
  /\ capture' = FALSE
  /\ state' = Idle
  /\ UNCHANGED <<ok, hz>>

SampleState ==
  /\ Handling("SAMPLE_STATE")
  /\ capture' = Good
  /\ UNCHANGED <<vector, running, clock, held>>

(* fb_start_sync_clock at a frequency that is 0 or not.  A refusal reads   *)
(* back what the hardware runs at, or the frequency before a change.       *)
StartClock(nonzero, before) ==
  IF nonzero /\ (clock \/ MayAcquire(held, ClockNeeds))
  THEN /\ clock' = TRUE /\ clockEnabled' = TRUE /\ hz' = nonzero
       /\ held' = IF clock THEN held ELSE Acquired(held, ClockNeeds, "clock")
  ELSE /\ clockEnabled' = clock
       /\ hz' = IF clock THEN before ELSE TRUE
       /\ UNCHANGED <<clock, held>>

ClockFreq ==
  /\ Handling("CLOCK_FREQ")
  /\ IF clockEnabled
     THEN StartClock(Good, hz)
     ELSE hz' = Good /\ UNCHANGED <<clockEnabled, clock, held>>
  /\ UNCHANGED <<state, ok, running, capture>>

ClockOn ==
  /\ Handling("CLOCK_STATE") /\ Good
  /\ StartClock(hz, TRUE)
  /\ UNCHANGED <<state, ok, running, capture>>

(* A mutant: the vector is not told.                                       *)
ClockOffUntold ==
  /\ Handling("CLOCK_STATE") /\ ~Good
  /\ clock' = FALSE
  /\ held' = ClockStopped(held)
  /\ UNCHANGED <<state, ok, hz, clockEnabled, running, capture>>

ClockOff ==
  /\ Handling("CLOCK_STATE") /\ ~Good
  /\ clock' = FALSE /\ clockEnabled' = FALSE
  /\ held' = ClockStopped(held)
  /\ UNCHANGED <<state, ok, hz, running, capture>>

(* RUNTIME_SAMPLE: nothing is queued, a mode is armed.  A mode that stopped *)
(* is a fault, and so is a tap that the scan could not arm again.          *)
Sample ==
  /\ queue = <<>>
  /\ \E m \in Modes :
       /\ state = Armed[m]
       /\ state' = IF running[m] /\ (m = "BISS" => ok[m]) THEN state ELSE Fault
  /\ UNCHANGED <<ok, clockEnabled, hz, io, queue>>
-----------------------------------------------------------------------------
Init ==
  /\ state = Idle
  /\ ok = [m \in Modes |-> m # "ENC"]   \* enc_target is 0
  /\ clockEnabled = FALSE /\ hz = TRUE
  /\ running = [m \in Modes |-> FALSE]
  /\ clock = FALSE /\ capture = FALSE
  /\ held = [r \in Resources |-> Nobody]
  /\ queue = <<>>

Execute ==
  \/ Ignore
  \/ ConfigureSeq
  \/ ConfigureMode("CONFIGURE_ENC", "ENC")
  \/ ConfigureMode("CONFIGURE_BISS", "BISS")
  \/ SetParameter("SET_SEQ", "SEQ")
  \/ SetParameter("SET_ENC", "ENC")
  \/ SetParameter("SET_BISS", "BISS")
  \/ Instant
  \/ Arm \/ Disarm \/ ForceFault \/ ClearFault \/ Reset
  \/ SampleState \/ ClockFreq \/ ClockOn \/ ClockOff

Next == Execute \/ Sample \/ \E e \in Posted : Post(e)

(* The service is called over and over.                                    *)
Spec == Init /\ [][Next]_vars /\ WF_vars(Execute)
-----------------------------------------------------------------------------
(* The types of the state; the queue never holds more than it can.         *)
TypeOK ==
  /\ state \in States /\ ok \in [Modes -> BOOLEAN]
  /\ clockEnabled \in BOOLEAN /\ hz \in BOOLEAN
  /\ running \in [Modes -> BOOLEAN]
  /\ clock \in BOOLEAN /\ capture \in BOOLEAN
  /\ held \in [Resources -> Modes \cup {"clock", Nobody}]
  /\ queue \in Seq(Events) /\ Len(queue) <= QueueLength

(* A mode runs in the hardware exactly when the state says it is armed; so *)
(* a latched fault has everything stopped, SEQ and ENC never share the DMA *)
(* interrupt (the assertion of its handler), and no input is ever lost.    *)
RunningAsArmed == \A m \in Modes : running[m] <=> state = Armed[m]

(* The arbiter records exactly the users there are: nothing is leaked, and *)
(* nothing is used without being held; in particular the clock and the tap *)
(* never drive the AUX pins at once.                                       *)
HeldAsUsed ==
  \A r \in Resources :
    /\ \A m \in Modes : held[r] = m <=> running[m] /\ r \in Needs(m)
    /\ held[r] = "clock" <=> clock /\ r \in ClockNeeds

(* What the vector reports of the clock is what the hardware does.         *)
ClockAsReported == clockEnabled = clock /\ (clock => hz)

Queued(type) == \E i \in DOMAIN queue : queue[i][1] = type

(* An accepted DISARM stops whatever is armed, however many events are     *)
(* queued before it.                                                       *)
DisarmStops == Queued("DISARM") ~> ~IsArmed

(* An accepted RESET comes to a state where nothing runs or is held.       *)
ResetFreesAll ==
  Queued("RESET") ~> /\ state = Idle /\ ~clock /\ ~capture
                     /\ \A r \in Resources : held[r] = Nobody
=============================================================================
