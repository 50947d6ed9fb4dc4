---------------------------- MODULE Trigger_proofs ----------------------------
(***************************************************************************)
(* The safety of the trigger service, for every set of posted events and   *)
(* every length of the queue, and of its commands, for all tables.         *)
(*                                                                         *)
(* The service: the three relations between the state, the hardware and    *)
(* the arbiter hold each other up.  A mode may be armed only because what  *)
(* it needs is free, and that is free because nothing runs.                *)
(*                                                                         *)
(* The commands: ARM posts two events, and the configuration reads the     *)
(* buffer when it is taken, not when it is posted.  What makes that safe   *)
(* is followed from the post to the run: Pledged.                          *)
(***************************************************************************)
EXTENDS TriggerCommands, SequenceTheorems, TLAPS

(* The tap is armed with valid parameters, and no event changes them then. *)
TapValid == state = Armed["BISS"] => ok["BISS"]

IInv == TypeOK /\ RunningAsArmed /\ HeldAsUsed /\ ClockAsReported /\ TapValid

(* The names of the holders differ, and so do the states.                  *)
LEMMA Distinct ==
  /\ Nobody \notin Modes /\ "clock" \notin Modes /\ "clock" # Nobody
  /\ Modes = {"SEQ", "ENC", "BISS"}
  /\ \A m \in Modes : Armed[m] = <<m, "armed">> /\ Armed[m] # Idle
                      /\ Armed[m] # Fault /\ Armed[m] \in States
  /\ \A m \in Modes : Configured[m] \in States
  /\ \A m, n \in Modes : /\ Armed[m] # Configured[n]
                         /\ Armed[m] = Armed[n] => m = n
  /\ Idle \in States /\ Fault \in States
  BY DEF Nobody, Modes, Armed, Configured, Idle, Fault, States

(* While no mode is armed nothing holds the resources of a mode, but for   *)
(* the clock.                                                              *)
LEMMA Unarmed ==
  ASSUME RunningAsArmed, HeldAsUsed, \A m \in Modes : state # Armed[m],
         held \in [Resources -> Modes \cup {"clock", Nobody}]
  PROVE  /\ \A m \in Modes : ~running[m]
         /\ \A r \in Resources :
              held[r] = IF clock /\ r \in ClockNeeds THEN "clock" ELSE Nobody
  <1>1. \A m \in Modes : ~running[m]
    BY DEF RunningAsArmed
  <1>2. ASSUME NEW r \in Resources
        PROVE  held[r] = IF clock /\ r \in ClockNeeds THEN "clock" ELSE Nobody
    <2>1. held[r] \notin Modes
      BY <1>1 DEF HeldAsUsed
    <2>2. held[r] \in {"clock", Nobody}
      BY <2>1
    <2>3. held[r] = "clock" <=> clock /\ r \in ClockNeeds
      BY DEF HeldAsUsed
    <2> QED
      BY <2>2, <2>3
  <1> QED
    BY <1>1, <1>2

(* Releasing a mode, if only it and the clock hold what they use, leaves   *)
(* the clock alone.                                                        *)
LEMMA ReleasedTypes ==
  ASSUME NEW h \in [Resources -> Modes \cup {"clock", Nobody}], NEW R,
         NEW o \in Modes \cup {"clock"}
  PROVE  /\ Released(h, R, o) \in [Resources -> Modes \cup {"clock", Nobody}]
         /\ \A r \in Resources :
              Released(h, R, o)[r] = IF r \in R /\ h[r] = o THEN Nobody ELSE h[r]
  BY DEF Released, OwnerMatches, Anonymous, Modes, Nobody

LEMMA AcquiredTypes ==
  ASSUME NEW h \in [Resources -> Modes \cup {"clock", Nobody}], NEW R,
         NEW o \in Modes \cup {"clock"}
  PROVE  /\ Acquired(h, R, o) \in [Resources -> Modes \cup {"clock", Nobody}]
         /\ \A r \in Resources :
              Acquired(h, R, o)[r] = IF r \in R THEN o ELSE h[r]
  BY DEF Acquired

(* fb_release_running_io frees whatever a mode holds and nothing else.     *)
LEMMA ModesReleased ==
  ASSUME NEW h \in [Resources -> Modes \cup {"clock", Nobody}],
         ReleaseRunning(h),
         \A r \in Resources : \A m \in Modes : h[r] = m => r \in Needs(m)
  PROVE  /\ running' = [m \in Modes |-> FALSE]
         /\ held' \in [Resources -> Modes \cup {"clock", Nobody}]
         /\ \A r \in Resources :
              held'[r] = IF h[r] \in Modes THEN Nobody ELSE h[r]
  <1> DEFINE h1 == Released(h, Needs("SEQ"), "SEQ")
             h2 == Released(h1, Needs("ENC"), "ENC")
             h3 == Released(h2, Needs("BISS"), "BISS")
  <1>m. "SEQ" \in Modes /\ "ENC" \in Modes /\ "BISS" \in Modes
    BY DEF Modes
  <1>1. /\ h1 \in [Resources -> Modes \cup {"clock", Nobody}]
        /\ \A r \in Resources : h1[r] = IF r \in Needs("SEQ") /\ h[r] = "SEQ"
                                        THEN Nobody ELSE h[r]
    BY <1>m, ReleasedTypes
  <1>2. /\ h2 \in [Resources -> Modes \cup {"clock", Nobody}]
        /\ \A r \in Resources : h2[r] = IF r \in Needs("ENC") /\ h1[r] = "ENC"
                                        THEN Nobody ELSE h1[r]
    <2> HIDE DEF h1
    <2> QED BY <1>m, <1>1, ReleasedTypes
  <1>3. /\ h3 \in [Resources -> Modes \cup {"clock", Nobody}]
        /\ \A r \in Resources : h3[r] = IF r \in Needs("BISS") /\ h2[r] = "BISS"
                                        THEN Nobody ELSE h2[r]
    <2> HIDE DEF h2
    <2> QED BY <1>m, <1>2, ReleasedTypes
  <1>4. held' = h3 /\ running' = [m \in Modes |-> FALSE]
    BY DEF ReleaseRunning
  <1>5. \A r \in Resources : h3[r] = IF h[r] \in Modes THEN Nobody ELSE h[r]
    <2> HIDE DEF h1, h2, h3
    <2> SUFFICES ASSUME NEW r \in Resources
                 PROVE  h3[r] = IF h[r] \in Modes THEN Nobody ELSE h[r]
      OBVIOUS
    <2>1. h[r] \in {"SEQ", "ENC", "BISS", "clock", Nobody}
      BY DEF Modes
    <2> QED
      BY <2>1, <1>1, <1>2, <1>3, <1>m, Distinct DEF Nobody
  <1> HIDE DEF h1, h2, h3
  <1> QED
    BY <1>3, <1>4, <1>5

-----------------------------------------------------------------------------
LEMMA TakeTypes ==
  ASSUME TypeOK, NEW type, Take(type)
  PROVE  /\ queue' \in Seq(Events) /\ Len(queue') <= QueueLength
         /\ Good \in BOOLEAN
  <1>1. Head(queue) \in Events /\ queue' \in Seq(Events)
        /\ Len(queue') = Len(queue) - 1 /\ Len(queue) \in Nat
    BY DEF TypeOK, Take
  <1>2. Len(queue') <= QueueLength
    BY <1>1, TriggerAssumption DEF TypeOK
  <1> QED
    BY <1>1, <1>2 DEF Good, Events

(* What the relations read is untouched by posting, configuring and        *)
(* sampling, unless a mode becomes armed or stops being armed.             *)
LEMMA Untouched ==
  ASSUME RunningAsArmed, HeldAsUsed, ClockAsReported,
         UNCHANGED <<running, clock, held, clockEnabled, hz>>,
         \A m \in Modes : state' = Armed[m] <=> state = Armed[m]
  PROVE  RunningAsArmed' /\ HeldAsUsed' /\ ClockAsReported'
  BY DEF RunningAsArmed, HeldAsUsed, ClockAsReported

(* The state after every mode was released, the clock as it then is.       *)
LEMMA AllReleased ==
  ASSUME IInv, NEW h \in [Resources -> Modes \cup {"clock", Nobody}],
         ReleaseRunning(h), state' \in {Idle, Fault},
         \A r \in Resources : h[r] = IF clock' THEN held[r]
                                     ELSE IF held[r] = "clock" THEN Nobody
                                     ELSE held[r],
         clock' => clock
  PROVE  /\ RunningAsArmed' /\ HeldAsUsed'
         /\ running' \in [Modes -> BOOLEAN]
         /\ held' \in [Resources -> Modes \cup {"clock", Nobody}]
  <1>1. \A r \in Resources : \A m \in Modes : h[r] = m => r \in Needs(m)
    <2> SUFFICES ASSUME NEW r \in Resources, NEW m \in Modes, h[r] = m
                 PROVE  r \in Needs(m)
      OBVIOUS
    <2>1. held[r] = m
      BY Distinct
    <2> QED
      BY <2>1 DEF IInv, HeldAsUsed
  <1>2. /\ running' = [m \in Modes |-> FALSE]
        /\ held' \in [Resources -> Modes \cup {"clock", Nobody}]
        /\ \A r \in Resources : held'[r] = IF h[r] \in Modes THEN Nobody ELSE h[r]
    BY <1>1, ModesReleased
  <1>3. RunningAsArmed'
    BY <1>2, Distinct DEF RunningAsArmed
  <1>4. ASSUME NEW r \in Resources
        PROVE  /\ held'[r] \notin Modes
               /\ held'[r] = "clock" <=> clock' /\ r \in ClockNeeds
    <2>1. held'[r] = IF h[r] \in Modes THEN Nobody ELSE h[r]
      BY <1>2
    <2>2. held[r] = "clock" <=> clock /\ r \in ClockNeeds
      BY DEF IInv, HeldAsUsed
    <2>3. clock \in BOOLEAN /\ clock' => clock
      BY DEF IInv, TypeOK
    <2> QED
      BY <2>1, <2>2, <2>3, Distinct
  <1>5. HeldAsUsed'
    BY <1>2, <1>4 DEF HeldAsUsed
  <1> QED
    BY <1>2, <1>3, <1>5

(* StartClock is taken only where no mode is armed.                        *)
LEMMA ClockStarted ==
  ASSUME IInv, NEW nonzero \in BOOLEAN, NEW before \in BOOLEAN,
         StartClock(nonzero, before), clock => before,
         \A m \in Modes : state # Armed[m],
         UNCHANGED <<state, running>>
  PROVE  /\ HeldAsUsed' /\ ClockAsReported' /\ RunningAsArmed'
         /\ clock' \in BOOLEAN /\ clockEnabled' \in BOOLEAN /\ hz' \in BOOLEAN
         /\ held' \in [Resources -> Modes \cup {"clock", Nobody}]
  <1>0. /\ clock \in BOOLEAN /\ clockEnabled = clock
        /\ held \in [Resources -> Modes \cup {"clock", Nobody}]
    BY DEF IInv, TypeOK, ClockAsReported
  <1>1. /\ \A m \in Modes : ~running[m]
        /\ \A r \in Resources :
             held[r] = IF clock /\ r \in ClockNeeds THEN "clock" ELSE Nobody
    BY <1>0, Unarmed DEF IInv
  <1>2. RunningAsArmed'
    BY DEF IInv, RunningAsArmed
  <1>3. CASE nonzero /\ (clock \/ MayAcquire(held, ClockNeeds))
    <2>1. clock' = TRUE /\ clockEnabled' = TRUE /\ hz' = TRUE
          /\ held' = IF clock THEN held ELSE Acquired(held, ClockNeeds, "clock")
      BY <1>3 DEF StartClock
    <2>2. held' \in [Resources -> Modes \cup {"clock", Nobody}]
      BY <1>0, <2>1, AcquiredTypes
    <2>3. \A r \in Resources :
            held'[r] = IF r \in ClockNeeds THEN "clock" ELSE Nobody
      <3>1. CASE clock
        BY <3>1, <2>1, <1>1
      <3>2. CASE ~clock
        <4>1. \A r \in Resources :
                held'[r] = IF r \in ClockNeeds THEN "clock" ELSE held[r]
          BY <3>2, <2>1, <1>0, AcquiredTypes
        <4> QED
          BY <4>1, <3>2, <1>1
      <3> QED
        BY <3>1, <3>2
    <2>4. HeldAsUsed'
      BY <2>1, <2>3, <1>1, Distinct DEF HeldAsUsed
    <2> QED
      BY <1>2, <2>1, <2>2, <2>4 DEF ClockAsReported
  <1>4. CASE ~(nonzero /\ (clock \/ MayAcquire(held, ClockNeeds)))
    <2>1. /\ clockEnabled' = clock /\ hz' = IF clock THEN before ELSE TRUE
          /\ UNCHANGED <<clock, held>>
      BY <1>4 DEF StartClock
    <2>2. HeldAsUsed'
      BY <2>1 DEF IInv, HeldAsUsed
    <2> QED
      BY <1>0, <1>2, <2>1, <2>2 DEF ClockAsReported
  <1> QED
    BY <1>3, <1>4
-----------------------------------------------------------------------------
(* Where the table accepts an event that is not a matter of every state.   *)
LEMMA AcceptedUnarmed ==
  ASSUME NEW type \in {"CONFIGURE_SEQ", "CONFIGURE_ENC", "CONFIGURE_BISS",
                       "SET_SEQ", "SET_BISS", "ARM", "SAMPLE_STATE",
                       "CLOCK_FREQ", "CLOCK_STATE"},
         state \in Accepts[type]
  PROVE  \A m \in Modes : state # Armed[m]
  BY Distinct DEF Accepts, EventTypes

LEMMA PostStep ==
  ASSUME IInv, NEW e \in Events, Post(e)
  PROVE  IInv'
  <1>1. queue' \in Seq(Events) /\ Len(queue') <= QueueLength
    <2>1. queue \in Seq(Events) /\ QueueLength \in Nat
      BY TriggerAssumption DEF IInv, TypeOK
    <2>2. Len(queue') = Len(queue) + 1 /\ Len(queue) \in Nat
      BY <2>1 DEF Post
    <2> QED
      BY <2>1, <2>2 DEF Post
  <1>2. UNCHANGED <<state, ok, clockEnabled, hz, running, clock, capture, held>>
    BY DEF Post, vector, io
  <1> QED
    BY <1>1, <1>2, Untouched DEF IInv, TypeOK, TapValid

(* Configuring, setting parameters and sampling an input leave the modes,  *)
(* the clock and the arbiter alone.                                        *)
LEMMA QuietStep ==
  ASSUME IInv, NEW type, Take(type),
         UNCHANGED <<running, clock, held, clockEnabled, hz>>,
         state' \in States, ok' \in [Modes -> BOOLEAN], capture' \in BOOLEAN,
         \A m \in Modes : state' = Armed[m] <=> state = Armed[m],
         state = Armed["BISS"] => ok'["BISS"] = ok["BISS"]
  PROVE  IInv'
  <1>1. queue' \in Seq(Events) /\ Len(queue') <= QueueLength
    BY TakeTypes DEF IInv
  <1>2. RunningAsArmed' /\ HeldAsUsed' /\ ClockAsReported'
    BY Untouched DEF IInv
  <1>3. TypeOK'
    BY <1>1 DEF IInv, TypeOK
  <1>4. TapValid'
    BY DEF IInv, TapValid, Modes
  <1> QED
    BY <1>2, <1>3, <1>4 DEF IInv

LEMMA IgnoreStep ==
  ASSUME IInv, Ignore
  PROVE  IInv'
  <1>1. PICK type \in EventTypes : Take(type)
    BY DEF Ignore
  <1>2. UNCHANGED <<state, ok, clockEnabled, hz, running, clock, capture, held>>
    BY DEF Ignore, vector, io
  <1> QED
    BY <1>1, <1>2, QuietStep DEF IInv, TypeOK

LEMMA ConfigureSeqStep ==
  ASSUME IInv, ConfigureSeq
  PROVE  IInv'
  <1>1. Take("CONFIGURE_SEQ") /\ state \in Accepts["CONFIGURE_SEQ"]
    BY DEF ConfigureSeq, Handling
  <1>2. \A m \in Modes : state # Armed[m]
    BY <1>1, AcceptedUnarmed
  <1>3. state' \in {Configured["SEQ"], Idle}
    BY DEF ConfigureSeq
  <1>4. state' \in States /\ \A m \in Modes : state' # Armed[m]
    BY <1>3, Distinct
  <1>5. UNCHANGED <<ok, clockEnabled, hz, running, clock, capture, held>>
    BY DEF ConfigureSeq, io
  <1> QED
    BY <1>1, <1>2, <1>4, <1>5, QuietStep DEF IInv, TypeOK

LEMMA ConfigureModeStep ==
  ASSUME IInv, NEW m \in Modes,
         NEW type \in {"CONFIGURE_ENC", "CONFIGURE_BISS"}, ConfigureMode(type, m)
  PROVE  IInv'
  <1>1. Take(type) /\ state \in Accepts[type]
    BY DEF ConfigureMode, Handling
  <1>2. \A n \in Modes : state # Armed[n]
    BY <1>1, AcceptedUnarmed
  <1>3. state' \in {Configured[m], state}
    BY DEF ConfigureMode
  <1>4. state' \in States /\ \A n \in Modes : state' # Armed[n]
    BY <1>2, <1>3, Distinct DEF IInv, TypeOK
  <1>5. UNCHANGED <<ok, clockEnabled, hz, running, clock, capture, held>>
    BY DEF ConfigureMode, io
  <1> QED
    BY <1>1, <1>2, <1>4, <1>5, QuietStep DEF IInv, TypeOK

LEMMA SetParameterStep ==
  ASSUME IInv, NEW m \in Modes,
         NEW type \in {"SET_SEQ", "SET_ENC", "SET_BISS"}, SetParameter(type, m),
         m = "BISS" => type = "SET_BISS"
  PROVE  IInv'
  <1>1. Take(type) /\ state \in Accepts[type]
    BY DEF SetParameter, Handling
  <1>2. ok' = [ok EXCEPT ![m] = Good] /\ Good \in BOOLEAN
    BY <1>1, TakeTypes DEF SetParameter, IInv
  <1>3. UNCHANGED <<state, clockEnabled, hz, running, clock, capture, held>>
    BY DEF SetParameter, io
  <1>4. state = Armed["BISS"] => ok'["BISS"] = ok["BISS"]
    <2>1. CASE m = "BISS"
      BY <2>1, <1>1, AcceptedUnarmed
    <2>2. CASE m # "BISS"
      BY <2>2, <1>2 DEF IInv, TypeOK, Modes
    <2> QED
      BY <2>1, <2>2
  <1>5. ok' \in [Modes -> BOOLEAN]
    BY <1>2 DEF IInv, TypeOK
  <1> QED
    BY <1>1, <1>3, <1>4, <1>5, QuietStep DEF IInv, TypeOK

LEMMA InstantStep ==
  ASSUME IInv, Instant
  PROVE  IInv'
  <1>1. PICK type \in {"PULSE", "PCNT", "PCNT_CLEAR"} : Take(type)
    BY DEF Instant, Handling
  <1>2. UNCHANGED <<state, ok, clockEnabled, hz, running, clock, capture, held>>
    BY DEF Instant, vector, io
  <1> QED
    BY <1>1, <1>2, QuietStep DEF IInv, TypeOK

LEMMA SampleStateStep ==
  ASSUME IInv, SampleState
  PROVE  IInv'
  <1>1. Take("SAMPLE_STATE") /\ Good \in BOOLEAN
    BY TakeTypes DEF SampleState, Handling, IInv
  <1>2. UNCHANGED <<state, ok, clockEnabled, hz, running, clock, held>>
        /\ capture' = Good
    BY DEF SampleState, vector
  <1> QED
    BY <1>1, <1>2, QuietStep DEF IInv, TypeOK

-----------------------------------------------------------------------------
(* A mode armed from its configuration is the only one, and what it needs  *)
(* was free.                                                               *)
LEMMA ArmStep ==
  ASSUME IInv, Arm
  PROVE  IInv'
  <1>1. Take("ARM") /\ state \in Accepts["ARM"]
    BY DEF Arm, Handling
  <1>2. \A m \in Modes : state # Armed[m]
    BY <1>1, AcceptedUnarmed
  <1>3. /\ UNCHANGED <<ok, clockEnabled, hz, clock, capture>>
        /\ held \in [Resources -> Modes \cup {"clock", Nobody}]
        /\ running \in [Modes -> BOOLEAN] /\ clock \in BOOLEAN
    BY DEF Arm, IInv, TypeOK
  <1>4. CASE UNCHANGED <<held, running, state>>
    BY <1>1, <1>2, <1>3, <1>4, QuietStep DEF IInv, TypeOK
  <1>5. ASSUME NEW m \in Modes, ok[m], MayAcquire(held, Needs(m)),
               held' = Acquired(held, Needs(m), m),
               running' = [running EXCEPT ![m] = TRUE],
               state' = Armed[m]
        PROVE  IInv'
    <2>1. queue' \in Seq(Events) /\ Len(queue') <= QueueLength
      BY <1>1, TakeTypes DEF IInv
    <2>2. /\ held' \in [Resources -> Modes \cup {"clock", Nobody}]
          /\ \A r \in Resources : held'[r] = IF r \in Needs(m) THEN m ELSE held[r]
      BY <1>3, <1>5, AcquiredTypes
    <2>3. state' \in States /\ running' \in [Modes -> BOOLEAN]
      BY <1>3, <1>5, Distinct
    <2>4. TypeOK'
      BY <1>3, <2>1, <2>2, <2>3 DEF IInv, TypeOK
    <2>5. /\ \A n \in Modes : ~running[n]
          /\ \A r \in Resources :
               held[r] = IF clock /\ r \in ClockNeeds THEN "clock" ELSE Nobody
      BY <1>2, <1>3, Unarmed DEF IInv
    <2>6. \A n \in Modes : running'[n] = (n = m)
      BY <1>3, <1>5, <2>5
    <2>7. RunningAsArmed'
      BY <1>5, <2>6, Distinct DEF RunningAsArmed
    <2>8. ASSUME NEW r \in Resources
          PROVE  /\ \A n \in Modes : held'[r] = n <=> running'[n] /\ r \in Needs(n)
                 /\ held'[r] = "clock" <=> clock' /\ r \in ClockNeeds
      <3>1. CASE r \in Needs(m)
        <4>1. held'[r] = m /\ held[r] = Nobody
          BY <3>1, <2>2, <1>5 DEF MayAcquire
        <4>2. ~(clock /\ r \in ClockNeeds)
          BY <4>1, <2>5, Distinct
        <4> QED
          BY <3>1, <4>1, <4>2, <2>6, <1>3, Distinct
      <3>2. CASE r \notin Needs(m)
        <4>1. held'[r] = held[r]
          BY <3>2, <2>2
        <4> QED
          BY <3>2, <4>1, <2>5, <2>6, <1>3, Distinct
      <3> QED
        BY <3>1, <3>2
    <2>9. HeldAsUsed'
      BY <2>8 DEF HeldAsUsed
    <2>10. ClockAsReported' /\ TapValid'
      BY <1>3, <1>5, Distinct DEF IInv, ClockAsReported, TapValid, Modes
    <2> QED
      BY <2>4, <2>7, <2>9, <2>10 DEF IInv
  <1> QED
    BY <1>4, <1>5 DEF Arm

LEMMA DisarmStep ==
  ASSUME IInv, Disarm
  PROVE  IInv'
  <1>1. PICK m \in Modes :
          /\ state \in {Configured[m], Armed[m]}
          /\ running' = [running EXCEPT ![m] = FALSE]
          /\ held' = Released(held, Needs(m), m)
    BY DEF Disarm
  <1>2. /\ state' = Idle
        /\ UNCHANGED <<ok, clockEnabled, hz, clock, capture>>
        /\ held \in [Resources -> Modes \cup {"clock", Nobody}]
        /\ running \in [Modes -> BOOLEAN]
    BY DEF Disarm, IInv, TypeOK
  <1>3. queue' \in Seq(Events) /\ Len(queue') <= QueueLength
    BY TakeTypes DEF IInv, Disarm, Handling
  <1>4. /\ held' \in [Resources -> Modes \cup {"clock", Nobody}]
        /\ \A r \in Resources :
             held'[r] = IF r \in Needs(m) /\ held[r] = m THEN Nobody ELSE held[r]
    BY <1>1, <1>2, ReleasedTypes
  <1>5. TypeOK'
    BY <1>1, <1>2, <1>3, <1>4, Distinct DEF IInv, TypeOK
  <1>6. \A n \in Modes : n # m => ~running[n]
    <2>1. \A n \in Modes : n # m => state # Armed[n]
      BY <1>1, Distinct
    <2> QED
      BY <2>1 DEF IInv, RunningAsArmed
  <1>7. \A n \in Modes : ~running'[n]
    BY <1>1, <1>2, <1>6
  <1>8. RunningAsArmed'
    BY <1>2, <1>7, Distinct DEF RunningAsArmed
  <1>9. ASSUME NEW r \in Resources
        PROVE  /\ held'[r] \notin Modes
               /\ held'[r] = "clock" <=> clock' /\ r \in ClockNeeds
    <2>1. \A n \in Modes : held[r] = n <=> running[n] /\ r \in Needs(n)
      BY DEF IInv, HeldAsUsed
    <2>2. held[r] = "clock" <=> clock /\ r \in ClockNeeds
      BY DEF IInv, HeldAsUsed
    <2>3. CASE held[r] = m
      <3>1. held'[r] = Nobody
        BY <2>1, <2>3, <1>4
      <3> QED
        BY <3>1, <2>2, <2>3, <1>2, Distinct
    <2>4. CASE held[r] # m
      <3>1. held'[r] = held[r]
        BY <2>4, <1>4
      <3> QED
        BY <3>1, <2>1, <2>2, <2>4, <1>2, <1>6
    <2> QED
      BY <2>3, <2>4
  <1>10. HeldAsUsed'
    BY <1>7, <1>9 DEF HeldAsUsed
  <1>11. ClockAsReported' /\ TapValid'
    BY <1>2, Distinct DEF IInv, ClockAsReported, TapValid, Modes
  <1> QED
    BY <1>5, <1>8, <1>10, <1>11 DEF IInv

(* A fault, its clearing and a reset, by what is left of the clock.        *)
LEMMA ReleasingStep ==
  ASSUME IInv, NEW type, Take(type),
         NEW h \in [Resources -> Modes \cup {"clock", Nobody}],
         ReleaseRunning(h), state' \in {Idle, Fault},
         \A r \in Resources : h[r] = IF clock' THEN held[r]
                                     ELSE IF held[r] = "clock" THEN Nobody
                                     ELSE held[r],
         clock' \in BOOLEAN, clock' => clock, clockEnabled' = clock',
         UNCHANGED <<ok, hz>>, capture' \in BOOLEAN
  PROVE  IInv'
  <1>1. queue' \in Seq(Events) /\ Len(queue') <= QueueLength
    BY TakeTypes DEF IInv
  <1>2. /\ RunningAsArmed' /\ HeldAsUsed'
        /\ running' \in [Modes -> BOOLEAN]
        /\ held' \in [Resources -> Modes \cup {"clock", Nobody}]
    BY AllReleased
  <1>3. TypeOK'
    BY <1>1, <1>2, Distinct DEF IInv, TypeOK
  <1>4. ClockAsReported' /\ TapValid'
    BY Distinct DEF IInv, ClockAsReported, TapValid, Modes
  <1> QED
    BY <1>2, <1>3, <1>4 DEF IInv

(* With the clock left as it is.                                           *)
LEMMA HeldByClock ==
  ASSUME IInv
  PROVE  /\ held \in [Resources -> Modes \cup {"clock", Nobody}]
         /\ clock \in BOOLEAN /\ clockEnabled = clock
         /\ \A r \in Resources : held[r] = IF clock THEN held[r]
                                            ELSE IF held[r] = "clock" THEN Nobody
                                            ELSE held[r]
  BY DEF IInv, TypeOK, HeldAsUsed, ClockAsReported

LEMMA ForceFaultStep ==
  ASSUME IInv, ForceFault
  PROVE  IInv'
  <1>1. Take("FAULT") /\ ReleaseRunning(held) /\ state' = Fault
        /\ UNCHANGED <<ok, clockEnabled, hz, clock, capture>>
    BY DEF ForceFault, Handling
  <1> QED
    BY <1>1, HeldByClock, ReleasingStep DEF IInv, TypeOK

LEMMA ClearFaultStep ==
  ASSUME IInv, ClearFault
  PROVE  IInv'
  <1>1. PICK type : Take(type)
    BY DEF ClearFault, Handling
  <1>2. ReleaseRunning(held) /\ state' = Idle
        /\ UNCHANGED <<ok, clockEnabled, hz, clock, capture>>
    BY DEF ClearFault
  <1> QED
    BY <1>1, <1>2, HeldByClock, ReleasingStep DEF IInv, TypeOK

(* Stopping the clock frees exactly what the clock held.                   *)
LEMMA ClockReleased ==
  ASSUME IInv
  PROVE  /\ ClockStopped(held) \in [Resources -> Modes \cup {"clock", Nobody}]
         /\ \A r \in Resources :
              ClockStopped(held)[r] = IF held[r] = "clock" THEN Nobody ELSE held[r]
  <1>1. \A r \in Resources : held[r] = "clock" <=> clock /\ r \in ClockNeeds
    BY DEF IInv, HeldAsUsed
  <1>2. CASE clock
    <2>1. ClockStopped(held) = Released(held, ClockNeeds, "clock")
      BY <1>2 DEF ClockStopped
    <2>2. held \in [Resources -> Modes \cup {"clock", Nobody}]
      BY DEF IInv, TypeOK
    <2> QED
      BY <1>1, <2>1, <2>2, ReleasedTypes
  <1>3. CASE ~clock
    BY <1>1, <1>3 DEF ClockStopped, IInv, TypeOK
  <1> QED
    BY <1>2, <1>3 DEF IInv, TypeOK

LEMMA ResetStep ==
  ASSUME IInv, Reset
  PROVE  IInv'
  <1>1. /\ Take("RESET") /\ ReleaseRunning(ClockStopped(held)) /\ state' = Idle
        /\ clock' = FALSE /\ clockEnabled' = FALSE /\ capture' = FALSE
        /\ UNCHANGED <<ok, hz>>
    BY DEF Reset, Handling
  <1> QED
    BY <1>1, ClockReleased, ReleasingStep

(* The clock steps are accepted only where no mode is armed.               *)
LEMMA ClockStep ==
  ASSUME IInv, NEW type \in {"CLOCK_FREQ", "CLOCK_STATE"}, Take(type),
         NEW nonzero \in BOOLEAN, NEW before \in BOOLEAN,
         StartClock(nonzero, before), clock => before,
         state \in Accepts[type],
         UNCHANGED <<state, ok, running, capture>>
  PROVE  IInv'
  <1>1. queue' \in Seq(Events) /\ Len(queue') <= QueueLength
    BY TakeTypes DEF IInv
  <1>2. \A m \in Modes : state # Armed[m]
    BY AcceptedUnarmed
  <1>3. /\ HeldAsUsed' /\ ClockAsReported' /\ RunningAsArmed'
        /\ clock' \in BOOLEAN /\ clockEnabled' \in BOOLEAN /\ hz' \in BOOLEAN
        /\ held' \in [Resources -> Modes \cup {"clock", Nobody}]
    BY <1>2, ClockStarted
  <1>4. TypeOK'
    BY <1>1, <1>3 DEF IInv, TypeOK
  <1> QED
    BY <1>3, <1>4 DEF IInv, TapValid

LEMMA ClockFreqStep ==
  ASSUME IInv, ClockFreq
  PROVE  IInv'
  <1>1. /\ Take("CLOCK_FREQ") /\ state \in Accepts["CLOCK_FREQ"]
        /\ UNCHANGED <<state, ok, running, capture>>
    BY DEF ClockFreq, Handling
  <1>2. Good \in BOOLEAN
    BY <1>1, TakeTypes DEF IInv
  <1>3. clockEnabled = clock /\ hz \in BOOLEAN /\ (clock => hz)
    BY DEF IInv, TypeOK, ClockAsReported
  <1>4. CASE clockEnabled
    <2>1. StartClock(Good, hz)
      BY <1>4 DEF ClockFreq
    <2> QED
      BY <1>1, <1>2, <1>3, <2>1, ClockStep
  <1>5. CASE ~clockEnabled
    <2>1. hz' = Good /\ UNCHANGED <<clockEnabled, clock, held>>
      BY <1>5 DEF ClockFreq
    <2>2. queue' \in Seq(Events) /\ Len(queue') <= QueueLength
      BY <1>1, TakeTypes DEF IInv
    <2>3. TypeOK'
      BY <1>1, <1>2, <2>1, <2>2 DEF IInv, TypeOK
    <2>4. RunningAsArmed' /\ HeldAsUsed' /\ TapValid'
      BY <1>1, <2>1 DEF IInv, RunningAsArmed, HeldAsUsed, TapValid
    <2>5. ClockAsReported'
      BY <1>3, <1>5, <2>1 DEF ClockAsReported
    <2> QED
      BY <2>3, <2>4, <2>5 DEF IInv
  <1> QED
    BY <1>4, <1>5

LEMMA ClockOnStep ==
  ASSUME IInv, ClockOn
  PROVE  IInv'
  <1>1. /\ Take("CLOCK_STATE") /\ state \in Accepts["CLOCK_STATE"]
        /\ StartClock(hz, TRUE)
        /\ UNCHANGED <<state, ok, running, capture>>
    BY DEF ClockOn, Handling
  <1> QED
    BY <1>1, ClockStep DEF IInv, TypeOK

LEMMA ClockOffStep ==
  ASSUME IInv, ClockOff
  PROVE  IInv'
  <1>1. /\ Take("CLOCK_STATE") /\ clock' = FALSE /\ clockEnabled' = FALSE
        /\ held' = ClockStopped(held)
        /\ UNCHANGED <<state, ok, hz, running, capture>>
    BY DEF ClockOff, Handling
  <1>2. queue' \in Seq(Events) /\ Len(queue') <= QueueLength
    BY <1>1, TakeTypes DEF IInv
  <1>3. /\ held' \in [Resources -> Modes \cup {"clock", Nobody}]
        /\ \A r \in Resources : held'[r] = IF held[r] = "clock" THEN Nobody
                                            ELSE held[r]
    BY <1>1, ClockReleased
  <1>4. TypeOK'
    BY <1>1, <1>2, <1>3 DEF IInv, TypeOK
  <1>5. HeldAsUsed'
    BY <1>1, <1>3, Distinct DEF IInv, HeldAsUsed
  <1>6. RunningAsArmed' /\ ClockAsReported' /\ TapValid'
    BY <1>1 DEF IInv, RunningAsArmed, ClockAsReported, TapValid
  <1> QED
    BY <1>4, <1>5, <1>6 DEF IInv

(* The mode that is sampled runs, with valid parameters if it is the tap.  *)
LEMMA SampleStep ==
  ASSUME IInv, Sample
  PROVE  IInv'
  <1>1. PICK m \in Modes :
          /\ state = Armed[m]
          /\ state' = IF running[m] /\ (m = "BISS" => ok[m]) THEN state ELSE Fault
    BY DEF Sample
  <1>2. running[m] /\ (m = "BISS" => ok[m])
    BY <1>1 DEF IInv, RunningAsArmed, TapValid
  <1>3. UNCHANGED <<state, ok, clockEnabled, hz, running, clock, capture, held, queue>>
    BY <1>1, <1>2 DEF Sample, io
  <1> QED
    BY <1>3 DEF IInv, TypeOK, RunningAsArmed, HeldAsUsed, ClockAsReported, TapValid
-----------------------------------------------------------------------------
LEMMA Initial ==
  ASSUME Init
  PROVE  IInv
  <1>1. TypeOK
    <2>1. queue \in Seq(Events) /\ Len(queue) <= QueueLength
      BY TriggerAssumption DEF Init
    <2>2. ok \in [Modes -> BOOLEAN] /\ running \in [Modes -> BOOLEAN]
      BY Zenon DEF Init
    <2>3. held \in [Resources -> Modes \cup {"clock", Nobody}]
      BY DEF Init
    <2>4. state \in States
      BY Distinct DEF Init
    <2> QED
      BY <2>1, <2>2, <2>3, <2>4 DEF Init, TypeOK
  <1>2. RunningAsArmed /\ TapValid
    BY Distinct DEF Init, RunningAsArmed, TapValid, Modes
  <1>3. HeldAsUsed
    BY Distinct DEF Init, HeldAsUsed
  <1>4. ClockAsReported
    BY DEF Init, ClockAsReported
  <1> QED
    BY <1>1, <1>2, <1>3, <1>4 DEF IInv

LEMMA ExecuteStep ==
  ASSUME IInv, Execute
  PROVE  IInv'
  <1>m. "SEQ" \in Modes /\ "ENC" \in Modes /\ "BISS" \in Modes
    BY DEF Modes
  <1>1. CASE Ignore
    BY <1>1, IgnoreStep
  <1>2. CASE ConfigureSeq
    BY <1>2, ConfigureSeqStep
  <1>3. CASE ConfigureMode("CONFIGURE_ENC", "ENC")
    BY <1>3, <1>m, ConfigureModeStep
  <1>4. CASE ConfigureMode("CONFIGURE_BISS", "BISS")
    BY <1>4, <1>m, ConfigureModeStep
  <1>5. CASE SetParameter("SET_SEQ", "SEQ")
    BY <1>5, <1>m, SetParameterStep
  <1>6. CASE SetParameter("SET_ENC", "ENC")
    BY <1>6, <1>m, SetParameterStep
  <1>7. CASE SetParameter("SET_BISS", "BISS")
    BY <1>7, <1>m, SetParameterStep
  <1>8. CASE Arm
    BY <1>8, ArmStep
  <1>9. CASE Disarm
    BY <1>9, DisarmStep
  <1>10. CASE ForceFault
    BY <1>10, ForceFaultStep
  <1>11. CASE ClearFault
    BY <1>11, ClearFaultStep
  <1>12. CASE Reset
    BY <1>12, ResetStep
  <1>13. CASE SampleState
    BY <1>13, SampleStateStep
  <1>14. CASE ClockFreq
    BY <1>14, ClockFreqStep
  <1>15. CASE ClockOn
    BY <1>15, ClockOnStep
  <1>16. CASE ClockOff
    BY <1>16, ClockOffStep
  <1>17. CASE Instant
    BY <1>17, InstantStep
  <1> QED
    BY <1>1, <1>2, <1>3, <1>4, <1>5, <1>6, <1>7, <1>8, <1>9, <1>10, <1>11,
       <1>12, <1>13, <1>14, <1>15, <1>16, <1>17 DEF Execute

LEMMA Step ==
  ASSUME IInv, [Next]_vars
  PROVE  IInv'
  <1>1. CASE Execute
    BY <1>1, ExecuteStep
  <1>2. CASE Sample
    BY <1>2, SampleStep
  <1>3. CASE \E e \in Posted : Post(e)
    BY <1>3, PostStep, TriggerAssumption
  <1>4. CASE UNCHANGED vars
    BY <1>4 DEF IInv, TypeOK, RunningAsArmed, HeldAsUsed, ClockAsReported,
                TapValid, vars, vector, io
  <1> QED
    BY <1>1, <1>2, <1>3, <1>4 DEF Next

(* The inductive invariant of the trigger service.                         *)
THEOREM TriggerInvariant == Spec => []IInv
  <1>1. Init => IInv
    BY Initial
  <1>2. IInv /\ [Next]_vars => IInv'
    BY Step
  <1> QED
    BY <1>1, <1>2, PTL DEF Spec

(* The state is of its type; the queue is never longer than it can be.     *)
THEOREM TriggerTypes == Spec => []TypeOK
  <1>1. IInv => TypeOK
    BY DEF IInv
  <1> QED
    BY <1>1, TriggerInvariant, PTL

(* The hardware runs a mode exactly while the function block says armed.   *)
THEOREM TriggerRunsAsArmed == Spec => []RunningAsArmed
  <1>1. IInv => RunningAsArmed
    BY DEF IInv
  <1> QED
    BY <1>1, TriggerInvariant, PTL

(* The arbiter never leaks a resource and never misses a user.             *)
THEOREM TriggerHoldsWhatItUses == Spec => []HeldAsUsed
  <1>1. IInv => HeldAsUsed
    BY DEF IInv
  <1> QED
    BY <1>1, TriggerInvariant, PTL

(* The clock is reported as it runs.                                       *)
THEOREM TriggerReportsClock == Spec => []ClockAsReported
  <1>1. IInv => ClockAsReported
    BY DEF IInv
  <1> QED
    BY <1>1, TriggerInvariant, PTL
-----------------------------------------------------------------------------
(* What a command posts.                                                   *)
PostRec == [event : Events, length : Nat]

(* The types of what the commands keep; every queued event has its length. *)
CommandTypes ==
  /\ buffer \in Seq(Nat) /\ Len(buffer) = TableMax
  /\ setLen \in 0..TableMax
  /\ copying \in Tables \cup {<<>>}
  /\ copied \in 0..Len(copying)
  /\ reading \in BOOLEAN
  /\ posts \in Seq(PostRec)
  /\ lengths \in Seq(Nat) /\ Len(lengths) = Len(queue)

(* A command runs alone, and data that overtake a queued configuration     *)
(* revoke the pledge.                                                      *)
OneAtATime ==
  /\ copying # <<>> => posts = <<>> /\ ~reading /\ (pledge = None \/ ~Configuring)
  /\ reading => posts = <<>>

(* The host's table is what the buffer holds up to the length, and the     *)
(* part of it that is being copied is right.                               *)
AsSet ==
  /\ copying = <<>> => asked = SubSeq(buffer, 1, LengthOrDefault)
  /\ setLen = 0 => asked = <<0>>
  /\ \A i \in 1..copied : buffer[i] = copying[i]

ToConfigure == <<"CONFIGURE_SEQ", TRUE>>

(* An event that does not configure the sequence.                          *)
Harmless(e) == e[1] # "CONFIGURE_SEQ"

PostsHarmless == \A i \in 1..Len(posts) : Harmless(posts[i].event)

(* The service keeps a table for the sequence.                             *)
InSequence == state \in {Configured["SEQ"], Armed["SEQ"]}

(* ARM has still to post both events.                                      *)
PledgePosted ==
  /\ \E n \in Nat :
       /\ posts = <<[event |-> ToConfigure, length |-> n], Of("ARM")>>
       /\ SubSeq(buffer, 1, n) = pledge
  /\ ~Configuring /\ ~InSequence

(* The configuration waits in the queue, alone of its kind, and the buffer *)
(* still holds what it will read.                                          *)
PledgeQueued ==
  /\ \E k \in 1..Len(queue) :
       /\ queue[k] = ToConfigure
       /\ SubSeq(buffer, 1, lengths[k]) = pledge
       /\ \A i \in 1..Len(queue) : i # k => Harmless(queue[i])
  /\ PostsHarmless /\ ~InSequence

(* The configuration was taken, or is gone: a table that may run is the    *)
(* one pledged.                                                            *)
PledgeTaken ==
  /\ InSequence => table = pledge
  /\ ~Configuring
  /\ PostsHarmless

(* A pledge that binds is in one of the three.                             *)
Pledged == pledge # None => PledgePosted \/ PledgeQueued \/ PledgeTaken

(* The inductive invariant of the service with its commands.               *)
CommandsInv == IInv /\ CommandTypes /\ OneAtATime /\ AsSet /\ Pledged

(* A sequence that begins with s.                                          *)
LEMMA Prefix ==
  ASSUME NEW b \in Seq(Nat), NEW s \in Seq(Nat), Len(s) <= Len(b),
         \A i \in 1..Len(s) : b[i] = s[i]
  PROVE  SubSeq(b, 1, Len(s)) = s
  <1>1. \A i \in 1..Len(s) : b[i] \in Nat
    OBVIOUS
  <1>2. Len(s) \in Int /\ Len(s) \in Nat
    OBVIOUS
  <1> DEFINE p == SubSeq(b, 1, Len(s))
  <1>3. /\ p \in Seq(Nat)
        /\ Len(p) = IF 1 <= Len(s) THEN Len(s) - 1 + 1 ELSE 0
        /\ \A i \in 1..(Len(s) - 1 + 1) : p[i] = b[1 + i - 1]
    BY <1>1, <1>2, SubSeqProperties
  <1> HIDE DEF p
  <1>4. Len(p) = Len(s) /\ \A i \in 1..Len(p) : p[i] = s[i]
    BY <1>2, <1>3
  <1>5. p = s
    BY <1>3, <1>4, SeqEqual
  <1> QED
    BY <1>5 DEF p

(* One word of the buffer is written.                                      *)
LEMMA BufferWord ==
  ASSUME NEW b \in Seq(Nat), NEW k \in 1..Len(b), NEW w \in Nat
  PROVE  /\ [b EXCEPT ![k] = w] \in Seq(Nat)
         /\ Len([b EXCEPT ![k] = w]) = Len(b)
         /\ \A i \in 1..Len(b) : [b EXCEPT ![k] = w][i] = IF i = k THEN w ELSE b[i]
  BY ExceptSeq

(* The tables the host sends.                                              *)
LEMMA TableType ==
  ASSUME NEW t \in Tables
  PROVE  t \in Seq(Nat) /\ Len(t) \in 1..TableMax /\ t # <<>>
  BY CommandAssumption

(* The parameter commands post harmless events.                            *)
LEMMA ParametersHarmless ==
  \A e \in Guarded \cap Parameters : e \in Events /\ Harmless(e)
  <1> SUFFICES ASSUME NEW e \in Guarded \cap Parameters PROVE Harmless(e)
    BY CommandAssumption
  <1>1. \A A, B : e \in A \X B => e[1] \in A
    OBVIOUS
  <1>2. \A a, b : e = <<a, b>> => e[1] = a
    OBVIOUS
  <1>3. ASSUME e \in PulseCommands \cup SampleCommands \cup ClockCommands
        PROVE  e[1] \in {"PULSE", "SAMPLE_STATE", "CLOCK_FREQ", "CLOCK_STATE"}
    BY <1>1, <1>2, <1>3, Zenon DEF PulseCommands, SampleCommands, ClockCommands
  <1>4. ASSUME e \in SequenceCommands \cup EncoderCommands \cup CounterCommands
        PROVE  e[1] \in {"SET_SEQ", "SET_ENC", "PCNT", "PCNT_CLEAR"}
    BY <1>1, <1>2, <1>4, Zenon
    DEF SequenceCommands, EncoderCommands, CounterCommands
  <1>5. ASSUME e \in BissCommands
        PROVE  e[1] \in {"SET_BISS", "CONFIGURE_BISS"}
    BY <1>1, <1>2, <1>5, Zenon DEF BissCommands
  <1> QED
    BY <1>3, <1>4, <1>5 DEF Parameters, Harmless

(* The posts without a length.                                             *)
LEMMA OfType ==
  ASSUME NEW type \in EventTypes
  PROVE  /\ Of(type) \in PostRec /\ Of(type).event[1] = type
         /\ <<Of(type)>> \in Seq(PostRec) /\ Len(<<Of(type)>>) = 1
         /\ <<Of(type)>>[1] = Of(type)
  <1> DEFINE e == <<type, TRUE>>
  <1>1. e \in Events /\ e[1] = type
    BY DEF Events
  <1>2. Of(type) = [event |-> e, length |-> 0]
    BY DEF Of
  <1> HIDE DEF e
  <1> QED
    BY <1>1, <1>2 DEF PostRec

(* A step of a command that the service does not see.                      *)
LEMMA ServiceUnchanged == ASSUME IInv, UNCHANGED vars PROVE IInv'
  BY DEF IInv, TypeOK, RunningAsArmed, HeldAsUsed, ClockAsReported, TapValid,
         vars, vector, io

(* A command that leaves the buffer alone and posts only what is harmless  *)
(* keeps a pledge.                                                         *)
LEMMA PledgeKept ==
  ASSUME Pledged, UNCHANGED <<queue, state, lengths, table>>,
         pledge' # None =>
           /\ pledge' = pledge /\ buffer' = buffer
           /\ posts' = posts \/ (posts = <<>> /\ PostsHarmless')
  PROVE  Pledged'
  <1> SUFFICES ASSUME pledge' # None
               PROVE  PledgePosted' \/ PledgeQueued' \/ PledgeTaken'
    BY DEF Pledged
  <1>1. CASE PledgePosted
    BY <1>1 DEF PledgePosted, PostsHarmless, Configuring, InSequence
  <1>2. CASE PledgeQueued
    BY <1>2 DEF PledgeQueued, PostsHarmless, InSequence
  <1>3. CASE PledgeTaken
    BY <1>3 DEF PledgeTaken, PostsHarmless, Configuring, InSequence
  <1> QED
    BY <1>1, <1>2, <1>3 DEF Pledged

(* A command that posts one event.                                         *)
LEMMA OnePost ==
  ASSUME NEW e \in Events, NEW n \in Nat
  PROVE  /\ <<[event |-> e, length |-> n]>> \in Seq(PostRec)
         /\ Len(<<[event |-> e, length |-> n]>>) = 1
         /\ <<[event |-> e, length |-> n]>>[1].event = e
         /\ <<[event |-> e, length |-> n]>> # <<>>
  BY DEF PostRec

(* Nothing to post.                                                        *)
LEMMA NoPosts0 == <<>> \in Seq(PostRec) /\ Len(<<>>) = 0
  OBVIOUS

(* A command that issues its posts, or begins to read the vector.          *)
LEMMA IssueStep ==
  ASSUME CommandsInv, posts = <<>>, copying = <<>>,
         UNCHANGED <<vars, buffer, setLen, copying, copied, lengths, table, asked>>,
         posts' \in Seq(PostRec), reading' \in BOOLEAN,
         reading' => posts' = <<>>,
         pledge' = None \/ (pledge' = pledge /\ PostsHarmless')
  PROVE  CommandsInv'
  <1>1. IInv' /\ UNCHANGED <<state, queue>>
    BY ServiceUnchanged DEF CommandsInv, vars, vector
  <1>2. CommandTypes'
    BY <1>1 DEF CommandsInv, CommandTypes
  <1>3. OneAtATime'
    BY DEF CommandsInv, OneAtATime
  <1>4. AsSet'
    BY DEF CommandsInv, AsSet, LengthOrDefault
  <1>5. Pledged'
    BY <1>1, PledgeKept DEF CommandsInv
  <1> QED
    BY <1>1, <1>2, <1>3, <1>4, <1>5 DEF CommandsInv

(* Between commands nothing is under way.                                  *)
LEMMA FreeFacts == ASSUME Free PROVE posts = <<>> /\ copying = <<>> /\ ~reading
  BY DEF Free

(* The commands, one by one.                                               *)
LEMMA CommandStep ==
  ASSUME CommandsInv, NEW e \in Guarded \cap Parameters, Command(e)
  PROVE  CommandsInv'
  <1>1. e \in Events /\ Harmless(e)
    BY ParametersHarmless
  <1>2. posts' \in Seq(PostRec) /\ PostsHarmless'
    BY <1>1, OnePost DEF Command, PostsHarmless
  <1> QED
    BY <1>2, IssueStep, FreeFacts DEF Command, command, ghosts, CommandsInv, CommandTypes

LEMMA StoppingStep ==
  ASSUME CommandsInv, NEW type \in {"DISARM", "FAULT", "RESET"}, Stopping(type)
  PROVE  CommandsInv'
  <1>1. posts' \in Seq(PostRec)
    BY OnePost DEF Stopping, Of, Events, EventTypes
  <1> QED
    BY <1>1, IssueStep, FreeFacts DEF Stopping, command, CommandsInv, CommandTypes

LEMMA ModeStep ==
  ASSUME CommandsInv, NEW n \in 0..2, Mode(n)
  PROVE  CommandsInv'
  <1>1. <<Of("RESET")>> \in Seq(PostRec)
    BY OnePost DEF Of, Events, EventTypes
  <1>2. posts = <<>> /\ posts' \in Seq(PostRec)
    BY <1>1, FreeFacts DEF Mode, CommandsInv, CommandTypes
  <1>3. pledge' = None \/ (pledge' = pledge /\ PostsHarmless')
    BY <1>2 DEF Mode, PostsHarmless
  <1> QED
    BY <1>2, <1>3, IssueStep, FreeFacts DEF Mode, CommandsInv, CommandTypes

LEMMA SeqLengthStep ==
  ASSUME CommandsInv, NEW n \in 1..TableMax, SeqLength(n)
  PROVE  CommandsInv'
  <1> USE DEF SeqLength
  <1>1. IInv' /\ UNCHANGED <<state, queue>>
    BY ServiceUnchanged DEF CommandsInv, vars, vector
  <1>2. CommandTypes'
    BY <1>1 DEF CommandsInv, CommandTypes
  <1>3. OneAtATime'
    BY <1>1 DEF CommandsInv, OneAtATime, Configuring
  <1>4. AsSet'
    BY CommandAssumption DEF CommandsInv, AsSet, LengthOrDefault
  <1>5. Pledged'
    BY <1>1, PledgeKept DEF CommandsInv
  <1> QED
    BY <1>1, <1>2, <1>3, <1>4, <1>5 DEF CommandsInv

LEMMA SeqDataStep ==
  ASSUME CommandsInv, NEW t \in Tables, SeqData(t)
  PROVE  CommandsInv'
  <1> USE DEF SeqData
  <1>1. IInv' /\ UNCHANGED <<state, queue>>
    BY ServiceUnchanged DEF CommandsInv, vars, vector
  <1>2. CommandTypes'
    BY <1>1, TableType DEF CommandsInv, CommandTypes
  <1>3. OneAtATime'
    BY <1>1, FreeFacts DEF CommandsInv, OneAtATime, Configuring
  <1>4. AsSet'
    BY TableType DEF CommandsInv, AsSet, LengthOrDefault
  <1>5. Pledged'
    BY <1>1, PledgeKept DEF CommandsInv
  <1> QED
    BY <1>1, <1>2, <1>3, <1>4, <1>5 DEF CommandsInv

(* One more word of the block is in the buffer.                            *)
LEMMA CopyWordStep ==
  ASSUME CommandsInv, CopyWord
  PROVE  CommandsInv'
  <1> USE DEF CopyWord
  <1>1. IInv' /\ UNCHANGED <<state, queue>>
    BY ServiceUnchanged DEF CommandsInv, vars, vector
  <1>2. copying # <<>> /\ copying \in Seq(Nat) /\ Len(copying) \in 1..TableMax
    BY TableType DEF CommandsInv, CommandTypes
  <1>3. copied + 1 \in 1..Len(buffer) /\ copying[copied + 1] \in Nat
        /\ copied + 1 \in 0..Len(copying)
    BY <1>2 DEF CommandsInv, CommandTypes
  <1>4. /\ buffer' \in Seq(Nat) /\ Len(buffer') = Len(buffer)
        /\ \A i \in 1..Len(buffer) :
             buffer'[i] = IF i = copied + 1 THEN copying[copied + 1] ELSE buffer[i]
    BY <1>3, BufferWord DEF CommandsInv, CommandTypes
  <1>5. CommandTypes'
    BY <1>1, <1>3, <1>4 DEF CommandsInv, CommandTypes
  <1>6. OneAtATime'
    BY <1>1 DEF CommandsInv, OneAtATime, Configuring, ghosts
  <1>7. AsSet'
    <2>1. \A i \in 1..copied' : buffer'[i] = copying[i]
      <3>1. copied \in Nat /\ copied' = copied + 1 /\ Len(buffer) \in Nat
        BY <1>2 DEF CommandsInv, CommandTypes
      <3>2. \A i \in 1..copied : buffer[i] = copying[i]
        BY DEF CommandsInv, AsSet
      <3> QED
        BY <1>3, <1>4, <3>1, <3>2
    <2> QED
      BY <1>2, <2>1 DEF CommandsInv, AsSet, LengthOrDefault, ghosts
  <1>8. Pledged'
    <2>1. posts = <<>> /\ (pledge = None \/ ~Configuring)
      BY <1>2 DEF CommandsInv, OneAtATime
    <2>2. pledge # None => PledgeTaken
      <3>1. ~PledgePosted
        BY <2>1 DEF PledgePosted
      <3>2. ToConfigure[1] = "CONFIGURE_SEQ"
        BY DEF ToConfigure
      <3>3. PledgeQueued => Configuring
        BY <3>2 DEF PledgeQueued, Configuring
      <3> QED
        BY <2>1, <3>1, <3>3 DEF CommandsInv, Pledged
    <2> QED
      BY <1>1, <2>2
      DEF Pledged, PledgeTaken, PostsHarmless, Configuring, InSequence, ghosts
  <1> QED
    BY <1>1, <1>5, <1>6, <1>7, <1>8 DEF CommandsInv

(* The whole block is: the table is what the host sent.                    *)
LEMMA DataDoneStep ==
  ASSUME CommandsInv, DataDone
  PROVE  CommandsInv'
  <1> USE DEF DataDone
  <1>1. IInv' /\ UNCHANGED <<state, queue>>
    BY ServiceUnchanged DEF CommandsInv, vars, vector
  <1>2. copying \in Seq(Nat) /\ Len(copying) \in 1..TableMax
    BY TableType DEF CommandsInv, CommandTypes
  <1>3. CommandTypes'
    BY <1>1, <1>2 DEF CommandsInv, CommandTypes
  <1>4. OneAtATime'
    BY DEF CommandsInv, OneAtATime
  <1>5. AsSet'
    <2>1. SubSeq(buffer, 1, Len(copying)) = copying
      BY <1>2, Prefix, CommandAssumption DEF CommandsInv, AsSet, CommandTypes
    <2> QED
      BY <1>2, <2>1 DEF AsSet, LengthOrDefault
  <1>6. Pledged'
    BY <1>1, PledgeKept DEF CommandsInv
  <1> QED
    BY <1>1, <1>3, <1>4, <1>5, <1>6 DEF CommandsInv

LEMMA ArmBeginStep ==
  ASSUME CommandsInv, ArmBegin
  PROVE  CommandsInv'
  <1>1. posts' = <<>> /\ PostsHarmless'
    BY FreeFacts DEF ArmBegin, PostsHarmless
  <1> QED
    BY <1>1, IssueStep, FreeFacts, NoPosts0 DEF ArmBegin, ghosts
-----------------------------------------------------------------------------
(* The length ARM posts.                                                   *)
LEMMA DefaultLength ==
  ASSUME CommandTypes
  PROVE  LengthOrDefault \in 1..TableMax /\ LengthOrDefault \in Nat
  BY CommandAssumption DEF CommandTypes, LengthOrDefault

(* ARM finds the service idle, with no configuration queued, and pledges   *)
(* the table; or it pledges nothing.                                       *)
LEMMA ArmReadStep ==
  ASSUME CommandsInv, ArmRead
  PROVE  CommandsInv'
  <1>1. /\ reading /\ reading' = FALSE /\ posts = <<>> /\ copying = <<>>
        /\ UNCHANGED <<vars, setLen, product, copying, copied, lengths, table,
                       error, asked>>
    BY DEF ArmRead, CommandsInv, OneAtATime
  <1>2. CASE UNCHANGED <<buffer, posts, pledge>>
    <2>1. posts' \in Seq(PostRec) /\ PostsHarmless'
      BY <1>1, <1>2 DEF PostsHarmless, CommandsInv, CommandTypes
    <2> QED
      BY <1>1, <1>2, <2>1, IssueStep
  <1>3. CASE posts' = <<Of("ARM")>> /\ UNCHANGED <<buffer, pledge>>
    <2>1. "ARM" \in EventTypes
      BY DEF EventTypes
    <2>2. posts' \in Seq(PostRec) /\ PostsHarmless'
      BY <1>3, <2>1, OfType DEF PostsHarmless, Harmless
    <2> QED
      BY <1>1, <1>3, <2>2, IssueStep
  <1>4. CASE /\ state = Idle
             /\ buffer' = IF setLen = 0 THEN [buffer EXCEPT ![1] = 0] ELSE buffer
             /\ posts' = ArmPosts
             /\ pledge' = IF Configuring THEN None ELSE asked
    <2>1. IInv' /\ UNCHANGED <<state, queue>>
      BY <1>1, ServiceUnchanged DEF CommandsInv, vars, vector
    <2>2. /\ buffer \in Seq(Nat) /\ Len(buffer) = TableMax
          /\ 1 \in 1..Len(buffer)
      BY CommandAssumption DEF CommandsInv, CommandTypes
    <2>3. /\ buffer' \in Seq(Nat) /\ Len(buffer') = TableMax
          /\ setLen = 0 => buffer'[1] = 0
      BY <1>4, <2>2, BufferWord
    <2>4. asked = SubSeq(buffer', 1, LengthOrDefault)
      <3>1. CASE setLen = 0
        <4>1. LengthOrDefault = 1 /\ asked = <<0>>
          BY <3>1 DEF LengthOrDefault, CommandsInv, AsSet
        <4>2. /\ <<0>> \in Seq(Nat) /\ Len(<<0>>) = 1
              /\ \A i \in 1..Len(<<0>>) : buffer'[i] = <<0>>[i]
          BY <2>3, <3>1
        <4>3. Len(<<0>>) <= Len(buffer')
          BY <2>3, <4>2, CommandAssumption
        <4>4. SubSeq(buffer', 1, Len(<<0>>)) = <<0>>
          BY <2>3, <4>2, <4>3, Prefix
        <4> QED
          BY <4>1, <4>2, <4>4
      <3>2. CASE setLen # 0
        BY <1>1, <1>4, <3>2 DEF CommandsInv, AsSet
      <3> QED
        BY <3>1, <3>2
    <2>5. LengthOrDefault \in Nat
      BY DefaultLength DEF CommandsInv
    <2>6. ToConfigure \in Events /\ <<"ARM", TRUE>> \in Events
      BY DEF ToConfigure, Events, EventTypes
    <2>7. posts' = <<[event |-> ToConfigure, length |-> LengthOrDefault], Of("ARM")>>
      BY <1>4 DEF ArmPosts, ToConfigure
    <2>8. posts' \in Seq(PostRec)
      BY <2>5, <2>6, <2>7 DEF PostRec, Of
    <2>9. CommandTypes'
      BY <1>1, <2>1, <2>3, <2>8 DEF CommandsInv, CommandTypes
    <2>10. OneAtATime'
      BY <1>1 DEF OneAtATime
    <2>11. AsSet'
      <3>1. asked' = SubSeq(buffer', 1, LengthOrDefault')
        BY <1>1, <2>4 DEF LengthOrDefault
      <3>2. copied' = 0
        BY <1>1 DEF CommandsInv, CommandTypes
      <3> QED
        BY <1>1, <3>1, <3>2 DEF CommandsInv, AsSet
    <2>12. Pledged'
      <3>1. CASE ~Configuring
        <4>1. ~InSequence'
          BY <1>4, <2>1, Distinct DEF InSequence, Idle, Configured, Modes
        <4>2. ~Configuring'
          BY <2>1, <3>1 DEF Configuring
        <4> QED
          BY <1>4, <2>4, <2>5, <2>7, <3>1, <4>1, <4>2 DEF Pledged, PledgePosted
      <3>2. CASE Configuring
        BY <1>4, <3>2 DEF Pledged
      <3> QED
        BY <3>1, <3>2
    <2> QED
      BY <2>1, <2>9, <2>10, <2>11, <2>12 DEF CommandsInv
  <1> QED
    BY <1>2, <1>3, <1>4 DEF ArmRead

(* The head and the tail of a queue.                                       *)
LEMMA TailOfQueue ==
  ASSUME NEW S, NEW q \in Seq(S), q # <<>>
  PROVE  /\ Head(q) = q[1] /\ Tail(q) \in Seq(S) /\ Len(q) \in Nat /\ Len(q) >= 1
         /\ Len(Tail(q)) = Len(q) - 1
         /\ \A i \in 1..Len(Tail(q)) : Tail(q)[i] = q[i + 1] /\ i + 1 \in 2..Len(q)
  BY HeadTailProperties

(* The next post.                                                          *)
LEMMA HeadPost ==
  ASSUME CommandsInv, posts # <<>>
  PROVE  /\ Head(posts) = posts[1] /\ posts[1].event \in Events
         /\ posts[1].length \in Nat /\ Len(posts) \in Nat /\ Len(posts) >= 1
         /\ Tail(posts) \in Seq(PostRec) /\ Len(Tail(posts)) = Len(posts) - 1
         /\ \A i \in 1..Len(Tail(posts)) : Tail(posts)[i] = posts[i + 1]
  <1>1. posts \in Seq(PostRec) /\ posts[1] \in PostRec
    BY TailOfQueue DEF CommandsInv, CommandTypes
  <1> QED
    BY <1>1, TailOfQueue DEF PostRec

(* A post reaches the queue, or is refused and ends the command.           *)
LEMMA PostNextStep ==
  ASSUME CommandsInv, PostNext
  PROVE  CommandsInv'
  <1>1. posts # <<>> /\ UNCHANGED <<command, table, error, asked>>
    BY DEF PostNext
  <1>2. CASE /\ Post(posts[1].event)
             /\ lengths' = Append(lengths, posts[1].length)
             /\ posts' = Tail(posts)
             /\ UNCHANGED pledge
    <2> DEFINE e == posts[1].event
               n == posts[1].length
    <2>1. /\ queue' = Append(queue, e) /\ UNCHANGED state
          /\ queue \in Seq(Events) /\ Len(queue) \in Nat
      BY <1>2 DEF Post, vector, CommandsInv, IInv, TypeOK
    <2>2. /\ e \in Events /\ n \in Nat
          /\ lengths \in Seq(Nat) /\ Len(lengths) = Len(queue)
      BY <1>1, HeadPost DEF CommandsInv, CommandTypes
    <2> HIDE DEF e, n
    <2>3. IInv'
      BY <1>2, <2>2, PostStep DEF CommandsInv, e
    <2>4. /\ queue' \in Seq(Events) /\ Len(queue') = Len(queue) + 1
          /\ \A i \in 1..Len(queue) : queue'[i] = queue[i]
          /\ queue'[Len(queue) + 1] = e
          /\ queue' # <<>>
      BY <2>1, <2>2, AppendProperties
    <2>5. /\ lengths' \in Seq(Nat) /\ Len(lengths') = Len(queue')
          /\ \A i \in 1..Len(queue) : lengths'[i] = lengths[i]
          /\ lengths'[Len(queue) + 1] = n
      BY <1>2, <2>2, <2>4, AppendProperties DEF n
    <2>6. CommandTypes'
      BY <1>1, <1>2, <2>5, HeadPost DEF CommandsInv, CommandTypes, command
    <2>7. OneAtATime'
      <3>1. copying' = <<>> /\ ~reading'
        BY <1>1 DEF CommandsInv, OneAtATime, command
      <3> QED
        BY <3>1 DEF OneAtATime
    <2>8. AsSet'
      BY <1>1 DEF CommandsInv, AsSet, LengthOrDefault, command
    <2>9. Pledged'
      <3>1. CASE PledgePosted
        <4>1. PICK k \in Nat :
                /\ posts = <<[event |-> ToConfigure, length |-> k], Of("ARM")>>
                /\ SubSeq(buffer, 1, k) = pledge
          BY <3>1 DEF PledgePosted
        <4>2. /\ e = ToConfigure /\ n = k
              /\ Len(posts) = 2 /\ posts[2].event = <<"ARM", TRUE>>
          BY <4>1 DEF e, n, Of
        <4>3. /\ Len(queue) + 1 \in 1..Len(queue')
              /\ queue'[Len(queue) + 1] = ToConfigure
              /\ lengths'[Len(queue) + 1] = k
          BY <2>1, <2>4, <2>5, <4>2
        <4>4. \A i \in 1..Len(queue') : i # Len(queue) + 1 => Harmless(queue'[i])
          <5> SUFFICES ASSUME NEW i \in 1..Len(queue'), i # Len(queue) + 1
                       PROVE  Harmless(queue'[i])
            OBVIOUS
          <5>1. i \in 1..Len(queue) /\ queue'[i] = queue[i]
            BY <2>1, <2>4
          <5> QED
            BY <3>1, <5>1 DEF PledgePosted, Configuring, Harmless
        <4>5. PostsHarmless'
          BY <1>1, <1>2, <4>2, HeadPost DEF PostsHarmless, Harmless
        <4>6. ~InSequence' /\ SubSeq(buffer', 1, k) = pledge'
          BY <1>1, <1>2, <2>1, <3>1, <4>1 DEF PledgePosted, InSequence, command
        <4>7. PledgeQueued'
          BY <4>3, <4>4, <4>5, <4>6 DEF PledgeQueued
        <4> QED
          BY <4>7 DEF Pledged
      <3>2. CASE PostsHarmless
        <4>1. Harmless(e)
          BY <1>1, <3>2, HeadPost DEF PostsHarmless, e
        <4>2. PostsHarmless'
          BY <1>1, <1>2, <3>2, HeadPost DEF PostsHarmless
        <4>3. CASE PledgeQueued
          <5>1. PICK k \in 1..Len(queue) :
                  /\ queue[k] = ToConfigure
                  /\ SubSeq(buffer, 1, lengths[k]) = pledge
                  /\ \A i \in 1..Len(queue) : i # k => Harmless(queue[i])
            BY <4>3 DEF PledgeQueued
          <5>2. /\ k \in 1..Len(queue') /\ queue'[k] = ToConfigure
                /\ lengths'[k] = lengths[k]
            BY <2>1, <2>4, <2>5, <5>1
          <5>3. \A i \in 1..Len(queue') : i # k => Harmless(queue'[i])
            BY <2>1, <2>4, <4>1, <5>1
          <5>4. ~InSequence' /\ SubSeq(buffer', 1, lengths'[k]) = pledge'
            BY <1>1, <1>2, <2>1, <4>3, <5>1, <5>2
            DEF PledgeQueued, InSequence, command
          <5>5. PledgeQueued'
            BY <4>2, <5>2, <5>3, <5>4 DEF PledgeQueued
          <5> QED
            BY <5>5 DEF Pledged
        <4>4. CASE PledgeTaken
          <5>1. ~Configuring'
            BY <2>1, <2>4, <4>1, <4>4 DEF PledgeTaken, Configuring, Harmless
          <5>2. PledgeTaken'
            BY <1>1, <1>2, <2>1, <4>2, <4>4, <5>1 DEF PledgeTaken, InSequence
          <5> QED
            BY <5>2 DEF Pledged
        <4>5. CASE pledge = None
          BY <1>2, <4>5 DEF Pledged
        <4> QED
          BY <3>1, <4>3, <4>4, <4>5 DEF CommandsInv, Pledged
      <3>3. CASE pledge = None
        BY <1>2, <3>3 DEF Pledged
      <3> QED
        BY <3>1, <3>2, <3>3 DEF CommandsInv, Pledged, PledgeQueued, PledgeTaken
    <2> QED
      BY <2>3, <2>6, <2>7, <2>8, <2>9 DEF CommandsInv
  <1>3. CASE posts' = <<>> /\ UNCHANGED <<vars, lengths, pledge>>
    <2>1. IInv' /\ UNCHANGED <<state, queue>>
      BY <1>3, ServiceUnchanged DEF CommandsInv, vars, vector
    <2>2. CommandTypes'
      BY <1>1, <1>3, <2>1 DEF CommandsInv, CommandTypes, command
    <2>3. OneAtATime' /\ AsSet'
      BY <1>1, <1>3, <2>1
      DEF CommandsInv, OneAtATime, AsSet, LengthOrDefault, Configuring, command
    <2>4. Pledged'
      <3>1. PostsHarmless'
        BY <1>3 DEF PostsHarmless
      <3>2. CASE PledgePosted
        BY <1>1, <1>3, <2>1, <3>1, <3>2
        DEF Pledged, PledgePosted, PledgeTaken, Configuring, InSequence
      <3>3. CASE PledgeQueued
        BY <1>1, <1>3, <2>1, <3>1, <3>3
        DEF Pledged, PledgeQueued, InSequence, command
      <3>4. CASE PledgeTaken
        BY <1>1, <1>3, <2>1, <3>1, <3>4
        DEF Pledged, PledgeTaken, Configuring, InSequence
      <3> QED
        BY <1>3, <3>2, <3>3, <3>4 DEF CommandsInv, Pledged
    <2> QED
      BY <2>1, <2>2, <2>3, <2>4 DEF CommandsInv
  <1> QED
    BY <1>1, <1>2, <1>3, HeadPost DEF PostNext
-----------------------------------------------------------------------------
(* The configuration that ARM posts.                                       *)
LEMMA ConfigureEvent ==
  ASSUME Head(queue) = ToConfigure
  PROVE  /\ Head(queue)[1] = "CONFIGURE_SEQ" /\ Good
         /\ Idle \in Accepts["CONFIGURE_SEQ"]
  <1>1. Head(queue)[1] = "CONFIGURE_SEQ" /\ Head(queue)[2] = TRUE
    <2>1. \A q, a, b : q = <<a, b>> => q[1] = a /\ q[2] = b
      OBVIOUS
    <2> QED
      BY <2>1, Zenon DEF ToConfigure
  <1>2. Idle \in Accepts["CONFIGURE_SEQ"]
    BY DEF Accepts, EventTypes
  <1> QED
    BY <1>1, <1>2 DEF Good

(* An idle service takes it.                                               *)
LEMMA ServeConfigure ==
  ASSUME Execute, Head(queue) = ToConfigure, state = Idle
  PROVE  state' = Configured["SEQ"] /\ queue' = Tail(queue)
  <1>1. Head(queue)[1] = "CONFIGURE_SEQ" /\ Good /\ Idle \in Accepts["CONFIGURE_SEQ"]
    BY ConfigureEvent
  <1>2. ConfigureSeq
    BY <1>1
    DEF Execute, Ignore, ConfigureMode, SetParameter, Instant, Arm, Disarm,
        ForceFault, ClearFault, Reset, SampleState, ClockFreq, ClockOn,
        ClockOff, Handling, Take
  <1> QED
    BY <1>1, <1>2 DEF ConfigureSeq, Handling, Take

(* Another state ignores it or refuses it; no table runs either way.       *)
LEMMA ServeIgnored ==
  ASSUME Execute, Head(queue) = ToConfigure, state # Idle, ~InSequence
  PROVE  state' = state
  <1>1. Head(queue)[1] = "CONFIGURE_SEQ" /\ Good
    BY ConfigureEvent
  <1>2. state \notin Accepts["CONFIGURE_SEQ"]
    BY DEF Accepts, EventTypes, InSequence
  <1> QED
    BY <1>1, <1>2
    DEF Execute, Ignore, ConfigureSeq, ConfigureMode, SetParameter, Instant, Arm,
        Disarm, ForceFault, ClearFault, Reset, SampleState, ClockFreq, ClockOn,
        ClockOff, Handling, Take, vector

(* No other event leads to a state in which a table may run.               *)
LEMMA ServeHarmless ==
  ASSUME Execute, Harmless(Head(queue))
  PROVE  InSequence' => InSequence
  <1>1. CASE UNCHANGED state
    BY <1>1 DEF InSequence
  <1>2. CASE Ignore \/ Instant \/ SampleState \/ ClockFreq \/ ClockOn \/ ClockOff
    BY <1>1, <1>2
    DEF Ignore, Instant, SampleState, ClockFreq, ClockOn, ClockOff, vector
  <1>3. CASE ConfigureSeq
    BY <1>3 DEF ConfigureSeq, Handling, Take, Harmless
  <1>4. CASE Disarm \/ ClearFault \/ Reset \/ ForceFault
    <2>1. state' \in {Idle, Fault}
      BY <1>4 DEF Disarm, ClearFault, Reset, ForceFault
    <2> QED
      BY <2>1, Distinct DEF InSequence, Idle, Fault, Configured, Modes
  <1>5. CASE ConfigureMode("CONFIGURE_ENC", "ENC")
    BY <1>1, <1>5 DEF ConfigureMode, InSequence, Configured, Armed, Modes
  <1>6. CASE ConfigureMode("CONFIGURE_BISS", "BISS")
    BY <1>1, <1>6 DEF ConfigureMode, InSequence, Configured, Armed, Modes
  <1>7. CASE \/ SetParameter("SET_SEQ", "SEQ") \/ SetParameter("SET_ENC", "ENC")
             \/ SetParameter("SET_BISS", "BISS")
    BY <1>1, <1>7 DEF SetParameter
  <1>8. CASE Arm
    <2>1. PICK m \in Modes : state = Configured[m] /\ state' \in {Armed[m], state}
      BY <1>8 DEF Arm
    <2>2. InSequence' => m = "SEQ"
      BY <2>1, Distinct DEF InSequence, Configured, Armed, Modes
    <2> QED
      BY <2>1, <2>2 DEF InSequence
  <1> QED
    BY <1>2, <1>3, <1>4, <1>5, <1>6, <1>7, <1>8 DEF Execute

(* The service takes an event: the configuration keeps the pledge.         *)
LEMMA ServeStep ==
  ASSUME CommandsInv, Serve
  PROVE  CommandsInv'
  <1>1. /\ Execute /\ lengths' = Tail(lengths)
        /\ UNCHANGED <<command, posts, asked, pledge>>
    BY DEF Serve
  <1>2. IInv'
    BY <1>1, ExecuteStep DEF CommandsInv
  <1>3. queue # <<>> /\ queue' = Tail(queue)
    BY <1>1
    DEF Execute, Ignore, ConfigureSeq, ConfigureMode, SetParameter, Instant,
        Arm, Disarm, ForceFault, ClearFault, Reset, SampleState, ClockFreq,
        ClockOn, ClockOff, Handling, Take
  <1>4. /\ queue \in Seq(Events) /\ lengths \in Seq(Nat)
        /\ Len(lengths) = Len(queue)
    BY DEF CommandsInv, IInv, TypeOK, CommandTypes
  <1>5. /\ Head(queue) = queue[1] /\ Len(queue) \in Nat
        /\ Len(queue') = Len(queue) - 1
        /\ \A i \in 1..Len(queue') : queue'[i] = queue[i + 1] /\ i + 1 \in 2..Len(queue)
    BY <1>3, <1>4, TailOfQueue
  <1>6. lengths # <<>>
    BY <1>3, <1>4
  <1>7. /\ Head(lengths) = lengths[1] /\ lengths' \in Seq(Nat)
        /\ Len(lengths') = Len(queue')
    BY <1>1, <1>4, <1>5, <1>6, TailOfQueue
  <1>8. CommandTypes'
    BY <1>1, <1>7 DEF CommandsInv, CommandTypes, command
  <1>9. OneAtATime' /\ AsSet'
    <2>1. Configuring' => Configuring
      BY <1>5 DEF Configuring
    <2> QED
      BY <1>1, <2>1 DEF CommandsInv, OneAtATime, AsSet, LengthOrDefault, command
  <1>10. Pledged'
    <2>1. CASE pledge = None
      BY <1>1, <2>1 DEF Pledged
    <2>2. CASE PledgePosted
      <3>1. Harmless(Head(queue)) /\ ~Configuring'
        BY <1>3, <1>4, <1>5, <2>2 DEF PledgePosted, Configuring, Harmless
      <3>2. ~InSequence'
        BY <1>1, <2>2, <3>1, ServeHarmless DEF PledgePosted
      <3> QED
        BY <1>1, <2>2, <3>1, <3>2 DEF Pledged, PledgePosted, command
    <2>3. CASE PledgeQueued
      <3>1. PICK k \in 1..Len(queue) :
              /\ queue[k] = ToConfigure
              /\ SubSeq(buffer, 1, lengths[k]) = pledge
              /\ \A i \in 1..Len(queue) : i # k => Harmless(queue[i])
        BY <2>3 DEF PledgeQueued
      <3>2. PostsHarmless' /\ ~InSequence
        BY <1>1, <2>3 DEF PledgeQueued, PostsHarmless
      <3>3. CASE k = 1
        <4>1. Head(queue) = ToConfigure /\ ~Configuring'
          BY <1>5, <3>1, <3>3 DEF Configuring, Harmless
        <4>2. InSequence' => table' = pledge'
          <5>1. CASE state = Idle
            <6>1. Head(queue)[1] = "CONFIGURE_SEQ" /\ Good
                  /\ Idle \in Accepts["CONFIGURE_SEQ"]
              BY <4>1, ConfigureEvent
            <6> QED
              BY <1>1, <1>7, <3>1, <3>3, <5>1, <6>1 DEF Serve
          <5>2. CASE state # Idle
            BY <1>1, <3>2, <4>1, <5>2, ServeIgnored DEF InSequence
          <5> QED
            BY <5>1, <5>2
        <4> QED
          BY <3>2, <4>1, <4>2 DEF Pledged, PledgeTaken
      <3>4. CASE k # 1
        <4>1. /\ k - 1 \in 1..Len(queue') /\ queue'[k - 1] = ToConfigure
              /\ lengths'[k - 1] = lengths[k]
          <5>1. k - 1 \in 1..Len(queue') /\ (k - 1) + 1 = k
            BY <1>5, <3>1, <3>4
          <5>2. \A i \in 1..Len(lengths') : lengths'[i] = lengths[i + 1]
            BY <1>1, <1>4, <1>6, TailOfQueue
          <5> QED
            BY <1>5, <1>7, <3>1, <5>1, <5>2
        <4>2. \A i \in 1..Len(queue') : i # k - 1 => Harmless(queue'[i])
          <5> SUFFICES ASSUME NEW i \in 1..Len(queue'), i # k - 1
                       PROVE  Harmless(queue'[i])
            OBVIOUS
          <5>1. i + 1 \in 1..Len(queue) /\ i + 1 # k /\ queue'[i] = queue[i + 1]
            BY <1>5, <3>1
          <5> QED
            BY <3>1, <5>1
        <4>3. Harmless(Head(queue))
          <5>1. 1 \in 1..Len(queue)
            BY <1>3, <1>4
          <5> QED
            BY <1>5, <3>1, <3>4, <5>1
        <4>4. ~InSequence'
          BY <1>1, <3>2, <4>3, ServeHarmless
        <4>5. SubSeq(buffer', 1, lengths'[k - 1]) = pledge'
          BY <1>1, <3>1, <4>1 DEF command
        <4>6. PledgeQueued'
          BY <3>2, <4>1, <4>2, <4>4, <4>5 DEF PledgeQueued
        <4> QED
          BY <4>6 DEF Pledged
      <3> QED
        BY <3>3, <3>4
    <2>4. CASE PledgeTaken
      <3>1. 1 \in 1..Len(queue)
        BY <1>3, <1>4
      <3>2. Harmless(Head(queue)) /\ ~Configuring'
        <4>1. Configuring' => Configuring
          BY <1>5 DEF Configuring
        <4>2. Harmless(queue[1])
          BY <2>4, <3>1 DEF PledgeTaken, Configuring, Harmless
        <4> QED
          BY <1>5, <2>4, <4>1, <4>2 DEF PledgeTaken
      <3>3. InSequence' => InSequence
        BY <1>1, <3>2, ServeHarmless
      <3>4. table' = table
        BY <3>2, Zenon DEF Serve, Harmless
      <3>5. PostsHarmless'
        BY <1>1, <2>4 DEF PledgeTaken, PostsHarmless
      <3> QED
        BY <1>1, <2>4, <3>2, <3>3, <3>4, <3>5 DEF Pledged, PledgeTaken
    <2> QED
      BY <2>1, <2>2, <2>3, <2>4 DEF CommandsInv, Pledged
  <1> QED
    BY <1>2, <1>8, <1>9, <1>10 DEF CommandsInv

(* What is armed runs, so a sample finds nothing.                          *)
LEMMA SampleKeeps ==
  ASSUME IInv, Sample
  PROVE  UNCHANGED <<state, ok, queue>>
  <1>1. PICK m \in Modes :
          /\ state = Armed[m]
          /\ state' = IF running[m] /\ (m = "BISS" => ok[m]) THEN state ELSE Fault
    BY DEF Sample
  <1>2. running[m] /\ (m = "BISS" => ok[m])
    BY <1>1 DEF IInv, RunningAsArmed, TapValid
  <1> QED
    BY <1>1, <1>2 DEF Sample

(* A sample.                                                               *)
LEMMA ServeSampleStep ==
  ASSUME CommandsInv, ServeSample
  PROVE  CommandsInv'
  <1>1. Sample /\ UNCHANGED <<command, posts, lengths, table, ghosts>>
    BY DEF ServeSample
  <1>2. IInv' /\ UNCHANGED <<state, queue>>
    BY <1>1, SampleStep, SampleKeeps DEF CommandsInv
  <1>3. CommandTypes'
    BY <1>1, <1>2 DEF CommandsInv, CommandTypes, command
  <1>4. OneAtATime' /\ AsSet'
    BY <1>1, <1>2
    DEF CommandsInv, OneAtATime, AsSet, LengthOrDefault, Configuring, command,
        ghosts
  <1>5. Pledged'
    BY <1>1, <1>2, PledgeKept DEF CommandsInv, command, ghosts
  <1> QED
    BY <1>2, <1>3, <1>4, <1>5 DEF CommandsInv
-----------------------------------------------------------------------------
(* The initial states satisfy the invariant.                               *)
LEMMA CommandsInitial == ASSUME CommandsInit PROVE CommandsInv
  <1>1. IInv
    BY Initial DEF CommandsInit
  <1>2. buffer \in Seq(Nat) /\ Len(buffer) = TableMax /\ buffer[1] = 0
    BY CommandAssumption DEF CommandsInit
  <1>3. CommandTypes
    <2>1. /\ setLen = 0 /\ copying = <<>> /\ copied = 0 /\ reading = FALSE
          /\ posts = <<>> /\ lengths = <<>> /\ queue = <<>>
      BY DEF CommandsInit, Init
    <2> QED
      <3>1. setLen \in 0..TableMax
        BY <2>1, CommandAssumption
      <3>2. copied \in 0..Len(copying)
        BY <2>1, NoPosts0
      <3>3. posts \in Seq(PostRec) /\ lengths \in Seq(Nat) /\ Len(lengths) = Len(queue)
        BY <2>1
      <3> QED
        BY <1>2, <2>1, <3>1, <3>2, <3>3 DEF CommandTypes
  <1>4. OneAtATime /\ Pledged
    BY DEF CommandsInit, OneAtATime, Pledged
  <1>5. AsSet
    <2>1. /\ <<0>> \in Seq(Nat) /\ Len(<<0>>) = 1
          /\ \A i \in 1..Len(<<0>>) : buffer[i] = <<0>>[i]
      BY <1>2
    <2>2. SubSeq(buffer, 1, 1) = <<0>>
      <3>1. Len(<<0>>) <= Len(buffer)
        BY <1>2, <2>1, CommandAssumption
      <3>2. SubSeq(buffer, 1, Len(<<0>>)) = <<0>>
        BY <1>2, <2>1, <3>1, Prefix
      <3> QED
        BY <2>1, <3>2
    <2>3. setLen = 0 /\ asked = <<0>> /\ copied = 0 /\ LengthOrDefault = 1
      BY DEF CommandsInit, LengthOrDefault
    <2> QED
      <3>1. asked = SubSeq(buffer, 1, LengthOrDefault)
        BY <2>2, <2>3
      <3>2. \A i \in 1..copied : buffer[i] = copying[i]
        BY <2>3
      <3> QED
        BY <2>3, <3>1, <3>2 DEF AsSet
  <1> QED
    BY <1>1, <1>3, <1>4, <1>5 DEF CommandsInv

(* Every step keeps it.                                                    *)
LEMMA CommandsStep == ASSUME CommandsInv, [CommandsNext]_allVars PROVE CommandsInv'
  <1>1. CASE UNCHANGED allVars
    <2>1. /\ UNCHANGED <<vars, buffer, setLen, copying, copied, reading, posts>>
          /\ UNCHANGED <<lengths, table, asked, pledge>>
      BY <1>1 DEF allVars, command, ghosts
    <2>2. IInv' /\ UNCHANGED <<state, queue>>
      BY <2>1, ServiceUnchanged DEF CommandsInv, vars, vector
    <2>3. CommandTypes'
      BY <2>1, <2>2 DEF CommandsInv, CommandTypes
    <2>4. OneAtATime' /\ AsSet'
      BY <2>1, <2>2
      DEF CommandsInv, OneAtATime, AsSet, LengthOrDefault, Configuring
    <2>5. Pledged'
      BY <2>1, <2>2, PledgeKept DEF CommandsInv
    <2> QED
      BY <2>2, <2>3, <2>4, <2>5 DEF CommandsInv
  <1> QED
    BY <1>1, CommandStep, StoppingStep, ModeStep, SeqLengthStep, SeqDataStep,
       CopyWordStep, DataDoneStep, ArmBeginStep, ArmReadStep, PostNextStep,
       ServeStep, ServeSampleStep DEF CommandsNext

(* The service and its commands satisfy the inductive invariant.           *)
THEOREM CommandsInvariant == CommandsSpec => []CommandsInv
  <1>1. CommandsInit => CommandsInv
    BY CommandsInitial
  <1>2. CommandsInv /\ [CommandsNext]_allVars => CommandsInv'
    BY CommandsStep
  <1> QED
    BY <1>1, <1>2, PTL DEF CommandsSpec

(* The sequence that runs is the one the host had set when it last sent    *)
(* ARM to an idle service in mode 1, although the event carries no more    *)
(* than a length and the buffer is read later: unless that ARM found an    *)
(* earlier configuration queued, or the host sent new data before the      *)
(* service took the configuration.                                         *)
THEOREM CommandsRunWhatWasSet == CommandsSpec => []RunsWhatWasSet
  <1>1. CommandsInv => RunsWhatWasSet
    BY DEF CommandsInv, Pledged, PledgePosted, PledgeQueued, PledgeTaken,
           InSequence, RunsWhatWasSet
  <1> QED
    BY <1>1, CommandsInvariant, PTL

(* No event but a stop changes the state or a validated parameter of an    *)
(* armed mode.                                                             *)
LEMMA ArmedServe ==
  ASSUME IInv, IsArmed, Execute,
         Head(queue)[1] \notin {"DISARM", "FAULT", "RESET"}
  PROVE  /\ UNCHANGED state
         /\ ok'["SEQ"] = ok["SEQ"] /\ ok'["BISS"] = ok["BISS"]
  <1>1. PICK n \in Modes : state = Armed[n]
    BY DEF IsArmed
  <1>2. \A type \in {"CONFIGURE_SEQ", "CONFIGURE_ENC", "CONFIGURE_BISS",
                     "SET_SEQ", "SET_BISS", "ARM", "SAMPLE_STATE",
                     "CLOCK_FREQ", "CLOCK_STATE"} : state \notin Accepts[type]
    BY <1>1, AcceptedUnarmed
  <1>3. CASE Ignore \/ Instant
    BY <1>3 DEF Ignore, Instant, vector
  <1>4. CASE \/ ConfigureSeq
             \/ ConfigureMode("CONFIGURE_ENC", "ENC")
             \/ ConfigureMode("CONFIGURE_BISS", "BISS")
             \/ SetParameter("SET_SEQ", "SEQ") \/ SetParameter("SET_BISS", "BISS")
             \/ Arm \/ SampleState \/ ClockFreq \/ ClockOn \/ ClockOff
    BY <1>2, <1>4
    DEF ConfigureSeq, ConfigureMode, SetParameter, Arm, SampleState, ClockFreq,
        ClockOn, ClockOff, Handling
  <1>5. CASE SetParameter("SET_ENC", "ENC")
    BY <1>5 DEF SetParameter, IInv, TypeOK, Modes
  <1>6. CASE Disarm \/ ForceFault \/ Reset \/ ClearFault
    <2>1. Accepts["CLEAR_FAULT"] = {Fault}
      BY DEF Accepts, EventTypes
    <2>2. state # Fault
      BY <1>1, Distinct
    <2> QED
      BY <1>6, <2>1, <2>2
      DEF Disarm, ForceFault, Reset, ClearFault, Handling, Take
  <1> QED
    BY <1>3, <1>4, <1>5, <1>6 DEF Execute

(* While a mode is armed nothing but a stop changes the state, the table   *)
(* or a parameter that the run was validated with, whatever was posted     *)
(* before it became armed.                                                 *)
THEOREM CommandsRunFrozen == CommandsSpec => RunsFrozen
  <1> DEFINE Kept == \/ UNCHANGED <<state, table>> /\ ok'["SEQ"] = ok["SEQ"]
                                                   /\ ok'["BISS"] = ok["BISS"]
                     \/ Head(queue)[1] \in {"DISARM", "FAULT", "RESET"}
  <1>1. CommandsInv /\ [CommandsNext]_allVars => [IsArmed => Kept]_allVars
    <2> SUFFICES ASSUME CommandsInv, CommandsNext, IsArmed
                 PROVE  Kept
      BY DEF allVars
    <2>1. CASE UNCHANGED <<vars, table>>
      BY <2>1 DEF vars, vector
    <2>2. CASE PostNext
      BY <2>2 DEF PostNext, Post, vars, vector
    <2>3. CASE Serve
      <3>1. state \notin Accepts["CONFIGURE_SEQ"]
        BY AcceptedUnarmed DEF IsArmed
      <3>2. table' = table
        BY <2>3, <3>1 DEF Serve
      <3> QED
        BY <2>3, <3>2, ArmedServe DEF Serve, CommandsInv
    <2>4. CASE ServeSample
      BY <2>4, SampleKeeps DEF ServeSample, CommandsInv
    <2> QED
      BY <2>1, <2>2, <2>3, <2>4
      DEF CommandsNext, Command, Stopping, Mode, SeqLength, SeqData, CopyWord,
          DataDone, ArmBegin, ArmRead
  <1>2. CommandsSpec => [][IsArmed => Kept]_allVars
    BY <1>1, CommandsInvariant, PTL DEF CommandsSpec
  <1> QED
    BY <1>2 DEF RunsFrozen
=============================================================================
