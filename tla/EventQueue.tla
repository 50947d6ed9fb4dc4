------------------------------- MODULE EventQueue -------------------------------
(***************************************************************************)
(* What the OTA event bus promises: the events that were accepted are      *)
(* executed one by one in the order they came, each with the data it was   *)
(* posted with.  There is one exception: the bus holds the data of the     *)
(* event that is being executed only until the queue is full again.        *)
(***************************************************************************)
EXTENDS Naturals, Sequences

CONSTANTS Types,        \* the events without data
          Blocks,       \* the data blocks that can be posted
          QueueLength

VARIABLES pending,   \* accepted, not yet received
          current,   \* received, not yet executed; Nothing if there is none
          executed   \* what was executed last

Nothing == [type |-> "none", data |-> 0]
Messages == [type : Types, data : {0}] \cup [type : {"DATA_BLOCK"}, data : Blocks]

Init == pending = <<>> /\ current = Nothing /\ executed = Nothing

Accept(m) ==
  /\ Len(pending) < QueueLength
  /\ pending' = Append(pending, m)
  /\ UNCHANGED <<current, executed>>

Receive ==
  /\ current = Nothing /\ pending # <<>>
  /\ current' = Head(pending) /\ pending' = Tail(pending)
  /\ UNCHANGED executed

Execute ==
  /\ current # Nothing /\ current' = Nothing
  /\ \/ executed' = current
     \/ /\ current.type = "DATA_BLOCK" /\ Len(pending) = QueueLength
        /\ executed' \in [type : {"DATA_BLOCK"}, data : Blocks]
  /\ UNCHANGED pending

Next == (\E m \in Messages : Accept(m)) \/ Receive \/ Execute

(* An accepted event is executed in the end.                               *)
Spec == /\ Init /\ [][Next]_<<pending, current, executed>>
        /\ WF_<<pending, current, executed>>(Receive)
        /\ WF_<<pending, current, executed>>(Execute)
=============================================================================
