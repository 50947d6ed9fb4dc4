---------------------------- MODULE TriggerCommands ----------------------------
(***************************************************************************)
(* The SCPI commands that drive the trigger service.  A command runs in    *)
(* the SCPI task, the service in a task of higher priority or on core 1:   *)
(* it may take an event between any two steps of a command.  The loop of   *)
(* the build without FreeRTOS has a part of these behaviours.  Commands    *)
(* come one after the other.                                               *)
(*                                                                         *)
(* TriggerFB has the service; this module adds the sequence table and its  *)
(* buffer, the error code, and what a command checks before it posts.      *)
(***************************************************************************)
EXTENDS TriggerFB

CONSTANTS Tables,    \* the tables that TRIG:SEQ:DATA brings
          TableMax,  \* TRIG_SEQ_TABLE_MAX
          Guarded    \* the events of the commands refused while armed

ASSUME CommandAssumption ==
  /\ TableMax \in Nat \ {0}
  /\ Tables \subseteq Seq(Nat) /\ \A t \in Tables : Len(t) \in 1..TableMax
  /\ Guarded \subseteq Events

VARIABLES buffer,   \* s_seq_table_buf
          setLen,   \* s_seq_table_len
          product,  \* is s_product_trigger_mode 1, TRIG?
          copying,  \* the block that SEQ:DATA is copying, or none
          copied,   \* how many of its words
          reading,  \* is ARM past its first check?
          posts,    \* what the command has still to post: events with a length
          lengths,  \* the seq_length of each event in the queue
          table,    \* vector.seq_table up to vector.seq_length
          error,    \* is vector.error_code set?
          asked,    \* the table as the host has set it
          pledge,   \* the table ARM found set in an idle service, or None
          due       \* must that ARM still take effect?

command == <<buffer, setLen, product, copying, copied, reading>>
ghosts == <<asked, pledge, due>>
allVars == <<vars, command, posts, lengths, table, error, ghosts>>

None == <<>>
Of(type) == [event |-> <<type, TRUE>>, length |-> 0]

(* The run policy by class of command.  A query is always allowed.         *)
RunAllowed == [class \in {"STATUS_QUERY", "TRIGGER_STOP", "FAULT_CLEAR",
                          "TRIGGER_CONFIG", "IO_CONFIG", "STORAGE_MAINT",
                          "OTA_MAINT"} |->
                 class \in {"STATUS_QUERY", "TRIGGER_STOP", "FAULT_CLEAR"}]

(* scpi_port_reject_if_run_forbidden.                                      *)
Rejected(class) == IsArmed /\ ~RunAllowed[class]
Forbidden == Rejected("TRIGGER_CONFIG")

Free == copying = <<>> /\ posts = <<>> /\ ~reading

(* A configuration is queued, and the service has yet to read the buffer.  *)
Configuring == \E i \in 1..Len(queue) : queue[i][1] = "CONFIGURE_SEQ"
-----------------------------------------------------------------------------
(* The commands that set a parameter or fire a pulse, by group.  A value   *)
(* out of range is refused before anything is posted.                      *)
PulseCommands == {"PULSE"} \X {TRUE}
SampleCommands == {"SAMPLE_STATE"} \X BOOLEAN
ClockCommands == {<<"CLOCK_FREQ", TRUE>>} \cup ({"CLOCK_STATE"} \X BOOLEAN)
SequenceCommands == {"SET_SEQ"} \X BOOLEAN
EncoderCommands == {<<"SET_ENC", TRUE>>}
CounterCommands == {"PCNT", "PCNT_CLEAR"} \X {TRUE}
BissCommands == ({"SET_BISS"} \X BOOLEAN) \cup {<<"CONFIGURE_BISS", TRUE>>}
Parameters == PulseCommands \cup SampleCommands \cup ClockCommands
              \cup SequenceCommands \cup EncoderCommands
              \cup CounterCommands \cup BissCommands

Command(e) ==
  /\ Free /\ ~Forbidden
  /\ posts' = <<[event |-> e, length |-> 0]>>
  /\ UNCHANGED <<vars, command, lengths, table, error, ghosts>>

(* TRIG:DISARM, TRIG:FAULT and *RST, which are never refused.              *)
Stopping(type) ==
  /\ Free
  /\ posts' = <<Of(type)>>
  /\ due' = FALSE
  /\ pledge' = None
  /\ UNCHANGED <<vars, command, lengths, table, error, asked>>

(* TRIG:MODE, neither is it; mode 0 resets.                                *)
Mode(n) ==
  /\ Free
  /\ product' = (n = 1)
  /\ IF n = 0 THEN posts' = <<Of("RESET")>> /\ due' = FALSE /\ pledge' = None
              ELSE UNCHANGED <<posts, due, pledge>>
  /\ UNCHANGED <<vars, buffer, setLen, copying, copied, reading, lengths,
                 table, error, asked>>

(* TRIG:SEQ:LENGTH.                                                        *)
SeqLength(n) ==
  /\ Free /\ ~Forbidden
  /\ setLen' = n
  /\ asked' = SubSeq(buffer, 1, n)
  /\ UNCHANGED <<vars, buffer, product, copying, copied, reading, posts,
                 lengths, table, error, pledge, due>>

(* TRIG:SEQ:DATA copies word by word and then sets the length.  It writes  *)
(* the buffer a queued configuration points to: nothing is promised then.  *)
SeqData(t) ==
  /\ Free /\ ~Forbidden
  /\ copying' = t /\ copied' = 0
  /\ pledge' = IF Configuring THEN None ELSE pledge
  /\ UNCHANGED <<vars, buffer, setLen, product, reading, posts, lengths,
                 table, error, asked, due>>

CopyWord ==
  /\ copied < Len(copying)
  /\ copied' = copied + 1
  /\ buffer' = [buffer EXCEPT ![copied + 1] = copying[copied + 1]]
  /\ UNCHANGED <<vars, setLen, product, copying, reading, posts, lengths,
                 table, error, ghosts>>

(* A mutant: the length is left as it was.                                 *)
DataDoneShort ==
  /\ copying # <<>> /\ copied = Len(copying)
  /\ asked' = copying
  /\ copying' = <<>> /\ copied' = 0
  /\ UNCHANGED <<vars, buffer, setLen, product, reading, posts, lengths,
                 table, error, pledge, due>>

DataDone ==
  /\ copying # <<>> /\ copied = Len(copying)
  /\ setLen' = Len(copying)
  /\ asked' = copying
  /\ copying' = <<>> /\ copied' = 0
  /\ UNCHANGED <<vars, buffer, product, reading, posts, lengths, table,
                 error, pledge, due>>

(* TRIG:ARM checks, takes a copy of the vector, and then posts: first the  *)
(* configuration, if it found the service idle in mode TRIG.               *)
ArmBegin ==
  /\ Free /\ ~Forbidden
  /\ reading' = TRUE
  /\ UNCHANGED <<vars, buffer, setLen, product, copying, copied, posts,
                 lengths, table, error, ghosts>>

LengthOrDefault == IF setLen > 0 THEN setLen ELSE 1

(* A mutant: the mode is armed before it is configured.                    *)
ArmPostsSwapped ==
  <<Of("ARM"), [event |-> <<"CONFIGURE_SEQ", TRUE>>, length |-> LengthOrDefault]>>

ArmPosts ==
  <<[event |-> <<"CONFIGURE_SEQ", TRUE>>, length |-> LengthOrDefault], Of("ARM")>>

(* The role of the BiSS node may be one that is not supported.             *)
ArmRead ==
  /\ reading /\ reading' = FALSE
  /\ \/ /\ state = Configured["BISS"] /\ ~ok["BISS"]
        /\ UNCHANGED <<buffer, posts, pledge, due>>
     \/ /\ state = Idle /\ product
        /\ buffer' = IF setLen = 0 THEN [buffer EXCEPT ![1] = 0] ELSE buffer
        /\ posts' = ArmPosts
        /\ pledge' = IF Configuring THEN None ELSE asked
        /\ due' = ~Configuring
     \/ /\ ~(state = Idle /\ product)
        /\ posts' = <<Of("ARM")>>
        /\ UNCHANGED <<buffer, pledge, due>>
  /\ UNCHANGED <<vars, setLen, product, copying, copied, lengths, table,
                 error, asked>>

(* sync_trigger_post; when the queue is full the command answers an error  *)
(* and posts no more.  The commands of the counter ignore the refusal.     *)
PostNext ==
  /\ posts # <<>>
  /\ \/ /\ Post(Head(posts).event)
        /\ lengths' = Append(lengths, Head(posts).length)
        /\ posts' = Tail(posts)
        /\ UNCHANGED due
     \/ /\ Len(queue) = QueueLength
        /\ posts' = <<>> /\ due' = FALSE
        /\ UNCHANGED <<vars, lengths>>
  /\ UNCHANGED <<command, table, error, asked, pledge>>
-----------------------------------------------------------------------------
Refused(type) ==
  CASE type = "CONFIGURE_SEQ" -> ~Good
    [] type = "CONFIGURE_ENC" -> ~ok["ENC"]
    [] type = "CONFIGURE_BISS" -> ~ok["BISS"]
    [] type = "ARM" -> ~\E m \in Modes : state' = Armed[m]
    [] type = "CLOCK_FREQ" -> ~Good
    [] type = "CLOCK_STATE" -> Good /\ ~clock'
    [] OTHER -> FALSE

(* The error code after an event that has a handler.                       *)
ErrorAfter(type) ==
  CASE type = "FAULT" -> TRUE
    [] type \in {"SET_SEQ", "SET_ENC", "SET_BISS", "SAMPLE_STATE", "PULSE",
                 "PCNT", "PCNT_CLEAR"} -> error
    [] type = "CLOCK_FREQ" /\ ~clockEnabled -> error
    [] OTHER -> Refused(type)

(* History: what ARM promised has come about, or was refused.              *)
Effect(type, handled) ==
  \/ IsArmed' \/ state' = Fault
  \/ type \in {"CONFIGURE_SEQ", "ARM"} /\ handled /\ error'

(* The service takes one event; CONFIGURE_SEQ copies the buffer as it then *)
(* is.                                                                     *)
Serve ==
  /\ Execute
  /\ lengths' = Tail(lengths)
  /\ LET type == Head(queue)[1]
         handled == state \in Accepts[type]
     IN /\ error' = IF handled THEN ErrorAfter(type) ELSE error
        /\ table' = IF handled /\ type = "CONFIGURE_SEQ" /\ Good
                    THEN SubSeq(buffer, 1, Head(lengths)) ELSE table
        /\ due' = (due /\ ~Effect(type, handled))
  /\ UNCHANGED <<command, posts, asked, pledge>>

ServeSample ==
  /\ Sample
  /\ error' = (error \/ state' = Fault)
  /\ UNCHANGED <<command, posts, lengths, table, ghosts>>
-----------------------------------------------------------------------------
CommandsInit ==
  /\ Init
  /\ buffer = [i \in 1..TableMax |-> 0] /\ setLen = 0
  /\ product = FALSE
  /\ copying = <<>> /\ copied = 0 /\ reading = FALSE
  /\ posts = <<>> /\ lengths = <<>>
  /\ table = <<>> /\ error = FALSE
  /\ asked = <<0>> /\ pledge = None /\ due = FALSE

CommandsNext ==
  \/ \E e \in Guarded \cap Parameters : Command(e)
  \/ \E type \in {"DISARM", "FAULT", "RESET"} : Stopping(type)
  \/ \E n \in 0..2 : Mode(n)
  \/ \E n \in 1..TableMax : SeqLength(n)
  \/ \E t \in Tables : SeqData(t)
  \/ CopyWord \/ DataDone
  \/ ArmBegin \/ ArmRead
  \/ PostNext
  \/ Serve \/ ServeSample

(* The service is called over and over.                                    *)
CommandsSpec == CommandsInit /\ [][CommandsNext]_allVars /\ WF_allVars(Serve)
-----------------------------------------------------------------------------
(* While a mode is armed nothing but a stop changes the state, the table   *)
(* or a parameter that the run was validated with, whatever commands were  *)
(* posted before it became armed.                                          *)
RunsFrozen ==
  [][IsArmed =>
       \/ UNCHANGED <<state, table>> /\ ok'["SEQ"] = ok["SEQ"]
                                     /\ ok'["BISS"] = ok["BISS"]
       \/ Head(queue)[1] \in {"DISARM", "FAULT", "RESET"}]_allVars

(* The sequence that runs is the one the host had set when it last sent    *)
(* ARM to an idle service in mode 1, although the event carries a pointer  *)
(* to the buffer.  Once the service has taken the configuration new data   *)
(* do not disturb it, and a second ARM, after the hardware refused the     *)
(* first, runs that table still.  Two cases promise nothing (pledge =      *)
(* None) and may run a torn table: the ARM found an earlier configuration  *)
(* queued, or the host sent new data before the service took this one.     *)
RunsWhatWasSet == state = Armed["SEQ"] /\ pledge # None => table = pledge

(* An ARM that finds the service idle in mode 1, with no configuration     *)
(* queued, and is answered OK - both its events were posted - takes        *)
(* effect: a mode is armed, or one of the two events is refused with an    *)
(* error code, or an earlier event left the service in FAULT; unless the   *)
(* host itself stops or resets.  The error of another event does not count.*)
ArmTakesEffect == (due /\ posts = <<>>) ~> ~due
=============================================================================
