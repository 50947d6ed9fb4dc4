-------------------------------- MODULE EventBus --------------------------------
(***************************************************************************)
(* The queue between the SCPI commands of an upload and the OTA service: a *)
(* ring of slots, each with an event and room for its data.  A post and a  *)
(* reception are critical sections.  The service executes an event outside *)
(* of one, and the event it received still points into its slot, which is  *)
(* free again: under FreeRTOS commands may be posted meanwhile.  In the    *)
(* single loop none is, which is a part of these behaviours.               *)
(*                                                                         *)
(* What an event does to the upload is in OtaDevice.                       *)
(***************************************************************************)
EXTENDS Naturals, Sequences

CONSTANTS Types,        \* the events without data: BEGIN, END, ABORT, ...
          Blocks,       \* the data blocks of a length that fits
          QueueLength   \* EVENT_BUS_OTA_QUEUE_LENGTH

ASSUME BusAssumption ==
  /\ QueueLength \in Nat \ {0} /\ 0 \notin Blocks
  /\ "DATA_BLOCK" \notin Types /\ "none" \notin Types

VARIABLES slots,     \* s_ota_queue: in each slot an event and its data
          head, tail, count,
          input,     \* the data in the SCPI input buffer, 0 if there is none
          event,     \* the event the service has received
          armed,     \* is a trigger mode armed?
          promised,  \* the event received, with the data it was posted with
          executed   \* the last event executed, with the data found then

ring == <<slots, head, tail, count>>
vars == <<ring, input, event, armed, promised, executed>>

Slots == 0..(QueueLength - 1)
After(i) == (i + 1) % QueueLength

(* A data pointer is a slot, the SCPI input buffer, or NULL.               *)
Null == QueueLength
Input == QueueLength + 1
Target(p) == CASE p = Null -> 0 [] p = Input -> input [] OTHER -> slots[p].data

NoEvent == [type |-> "none", data |-> Null]
WithData(e) == [type |-> e.type, data |-> Target(e.data)]
Nothing == [type |-> "none", data |-> 0]

(* A mutant: the slot keeps the pointer of the caller.                     *)
FilledByReference(type) ==
  [event |-> [type |-> type, data |-> IF type = "DATA_BLOCK" THEN Input ELSE Null],
   data |-> slots[tail].data]

(* The slot at the tail, when an event is copied to it.                    *)
Filled(type) ==
  IF type = "DATA_BLOCK"
  THEN [event |-> [type |-> type, data |-> tail], data |-> input']
  ELSE [event |-> [type |-> type, data |-> Null], data |-> slots[tail].data]

(* A post to a full queue is refused.                                      *)
Post(type) ==
  IF count = QueueLength THEN UNCHANGED ring
  ELSE /\ slots' = [slots EXCEPT ![tail] = Filled(type)]
       /\ tail' = After(tail) /\ count' = count + 1
       /\ UNCHANGED head

(* An upload command.  Whatever becomes of it, it has overwritten the      *)
(* input buffer.  It is refused while a mode is armed; a block of length 0 *)
(* or longer than a slot, here 0, is refused too.                          *)
Command(type, block) ==
  /\ input' = block
  /\ IF armed \/ (type = "DATA_BLOCK" /\ block = 0)
     THEN UNCHANGED ring ELSE Post(type)
  /\ UNCHANGED <<event, armed, promised, executed>>

Receive ==
  /\ event = NoEvent /\ count > 0
  /\ event' = slots[head].event
  /\ promised' = WithData(event')
  /\ head' = After(head) /\ count' = count - 1
  /\ UNCHANGED <<slots, tail, input, armed, executed>>

(* ota_fb_execute reads the data where the event points.                   *)
Execute ==
  /\ event # NoEvent
  /\ executed' = WithData(event)
  /\ event' = NoEvent /\ promised' = Nothing
  /\ UNCHANGED <<ring, input, armed>>

(* The trigger service arms and disarms at any time.                       *)
Arming ==
  /\ armed' = ~armed
  /\ UNCHANGED <<ring, input, event, promised, executed>>
-----------------------------------------------------------------------------
Init ==
  /\ slots = [i \in Slots |-> [event |-> NoEvent, data |-> 0]]
  /\ head = 0 /\ tail = 0 /\ count = 0
  /\ input = 0 /\ event = NoEvent /\ armed = FALSE
  /\ promised = Nothing /\ executed = Nothing

Next ==
  \/ \E type \in Types : Command(type, 0)
  \/ \E block \in Blocks \cup {0} : Command("DATA_BLOCK", block)
  \/ Receive \/ Execute \/ Arming

(* The OTA service is called over and over.                                *)
Spec == Init /\ [][Next]_vars /\ WF_vars(Receive) /\ WF_vars(Execute)
-----------------------------------------------------------------------------
Pending == [k \in 1..count |-> WithData(slots[(head + k - 1) % QueueLength].event)]

Queue == INSTANCE EventQueue WITH pending <- Pending, current <- promised

(* The ring keeps the order and the data of the events through every wrap, *)
(* every accepted event is executed, and the data of the one in execution  *)
(* can only be lost to as many posts as fill the queue again.              *)
QueueSpec == Queue!Spec
=============================================================================
