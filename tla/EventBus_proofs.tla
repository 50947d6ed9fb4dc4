---------------------------- MODULE EventBus_proofs ----------------------------
(***************************************************************************)
(* The ring of the event bus implements the queue of EventQueue, for every *)
(* length of the ring and every set of events, but for what needs the      *)
(* fairness of the service.                                                *)
(*                                                                         *)
(* The events that are pending lie in the slots from head on.  The one in  *)
(* execution points into the slot before head, which is the last one a     *)
(* post can reach: it takes a full queue to overwrite it.                  *)
(***************************************************************************)
EXTENDS EventBus, SequenceTheorems, TLAPS

Place(k) == (head + k - 1) % QueueLength

Records == [type : Types \cup {"DATA_BLOCK", "none"}, data : 0 .. QueueLength]
Blank == Blocks \cup {0}

RingTypes ==
  /\ slots \in [Slots -> [event : Records, data : Blank]]
  /\ head \in Slots /\ tail \in Slots /\ count \in 0 .. QueueLength
  /\ tail = (head + count) % QueueLength
  /\ input \in Blank /\ event \in Records

(* A pending event has its data, if it has any, in its own slot.           *)
Filed(i) ==
  \/ slots[i].event.type \in Types /\ slots[i].event.data = Null
  \/ /\ slots[i].event.type = "DATA_BLOCK" /\ slots[i].event.data = i
     /\ slots[i].data \in Blocks

PendingFiled == \A k \in 1 .. count : Filed(Place(k))

(* The event in execution points to the slot before head, and while the    *)
(* queue is not full it finds there what was posted.                       *)
InExecution ==
  \/ event = NoEvent /\ promised = Nothing
  \/ /\ event.type \in Types /\ event.data = Null
     /\ promised = [type |-> event.type, data |-> 0]
  \/ /\ event.type = "DATA_BLOCK" /\ event.data \in Slots
     /\ After(event.data) = head
     /\ slots[event.data].data \in Blocks
     /\ promised \in [type : {"DATA_BLOCK"}, data : Blocks]
     /\ count < QueueLength => promised.data = slots[event.data].data

IInv == RingTypes /\ PendingFiled /\ InExecution

-----------------------------------------------------------------------------
(* Counting around the ring.                                               *)
LEMMA Around ==
  ASSUME NEW i \in 0 .. 2 * QueueLength - 1
  PROVE  /\ i % QueueLength \in Slots
         /\ i % QueueLength = IF i < QueueLength THEN i ELSE i - QueueLength
  <1>1. QueueLength \in Nat \ {0}
    BY BusAssumption
  <1>2. CASE i < QueueLength
    BY <1>1, <1>2 DEF Slots
  <1>3. CASE i >= QueueLength
    <2>1. i = QueueLength * 1 + (i - QueueLength)
          /\ i - QueueLength \in 0 .. QueueLength - 1
      BY <1>1, <1>3
    <2>2. i % QueueLength = i - QueueLength
      BY <1>1, <2>1
    <2> QED
      BY <1>1, <1>3, <2>1, <2>2 DEF Slots
  <1> QED
    BY <1>1, <1>2, <1>3

LEMMA Lengths ==
  /\ QueueLength \in Nat \ {0} /\ Null \notin Slots /\ Input \notin Slots
  /\ Null # Input /\ Slots \subseteq 0 .. QueueLength /\ Null \in 0 .. QueueLength
  BY BusAssumption DEF Null, Input, Slots

(* The slots before head, at head and at tail, and those in between.       *)
LEMMA Places ==
  ASSUME RingTypes
  PROVE  /\ \A k \in 1 .. QueueLength :
              /\ Place(k) \in Slots
              /\ Place(k) = IF head + k - 1 < QueueLength THEN head + k - 1
                            ELSE head + k - 1 - QueueLength
         /\ \A i \in Slots :
              /\ After(i) \in Slots
              /\ After(i) = IF i + 1 < QueueLength THEN i + 1 ELSE 0
         /\ tail = IF head + count < QueueLength THEN head + count
                   ELSE head + count - QueueLength
         /\ Place(1) = head
         /\ count < QueueLength => Place(count + 1) = tail
  <1>1. /\ QueueLength \in Nat \ {0} /\ head \in 0 .. QueueLength - 1
        /\ count \in 0 .. QueueLength /\ tail = (head + count) % QueueLength
    BY BusAssumption DEF RingTypes, Slots
  <1>2. ASSUME NEW k \in 1 .. QueueLength
        PROVE  /\ Place(k) \in Slots
               /\ Place(k) = IF head + k - 1 < QueueLength THEN head + k - 1
                             ELSE head + k - 1 - QueueLength
    <2>1. head + k - 1 \in 0 .. 2 * QueueLength - 1
      BY <1>1
    <2>2. PICK i \in 0 .. 2 * QueueLength - 1 : i = head + k - 1
      BY <2>1
    <2>3. Place(k) = i % QueueLength
      BY <2>2 DEF Place
    <2>4. /\ i % QueueLength \in Slots
          /\ i % QueueLength = IF i < QueueLength THEN i ELSE i - QueueLength
      BY Around
    <2> QED
      BY <1>1, <2>2, <2>3, <2>4
  <1>3. ASSUME NEW i \in Slots
        PROVE  /\ After(i) \in Slots
               /\ After(i) = IF i + 1 < QueueLength THEN i + 1 ELSE 0
    <2>1. i + 1 \in 0 .. 2 * QueueLength - 1
      BY <1>1 DEF Slots
    <2> QED
      BY <1>1, <2>1, Around DEF After, Slots
  <1>4. tail = IF head + count < QueueLength THEN head + count
               ELSE head + count - QueueLength
    <2>1. head + count \in 0 .. 2 * QueueLength - 1
      BY <1>1
    <2> QED
      BY <1>1, <2>1, Around
  <1>5. Place(1) = head
    BY <1>1, <1>2
  <1>6. count < QueueLength => Place(count + 1) = tail
    BY <1>1 DEF Place
  <1> QED
    BY <1>2, <1>3, <1>4, <1>5, <1>6

(* What an event that is filed, and one in execution, is with its data.    *)
LEMMA DataOf ==
  ASSUME NEW e
  PROVE  /\ e.data = Null => WithData(e) = [type |-> e.type, data |-> 0]
         /\ e.data \in Slots =>
              WithData(e) = [type |-> e.type, data |-> slots[e.data].data]
  <1>1. e.data = Null => Target(e.data) = 0
    BY Lengths DEF Target
  <1>2. e.data \in Slots => Target(e.data) = slots[e.data].data
    BY Lengths DEF Target
  <1> QED
    BY <1>1, <1>2 DEF WithData

LEMMA FiledIsMessage ==
  ASSUME NEW i \in Slots, Filed(i)
  PROVE  /\ WithData(slots[i].event) \in Queue!Messages
         /\ slots[i].event.data = Null =>
              WithData(slots[i].event) = [type |-> slots[i].event.type, data |-> 0]
         /\ slots[i].event.data # Null =>
              WithData(slots[i].event)
                = [type |-> slots[i].event.type, data |-> slots[i].data]
  <1> DEFINE e == slots[i].event
             d == slots[i].data
  <1>1. CASE e.type \in Types /\ e.data = Null
    <2>1. WithData(e) = [type |-> e.type, data |-> 0]
      BY <1>1, DataOf
    <2> HIDE DEF e
    <2> QED
      BY <1>1, <2>1 DEF Queue!Messages, e
  <1>2. CASE e.type = "DATA_BLOCK" /\ e.data = i /\ d \in Blocks
    <2>1. WithData(e) = [type |-> e.type, data |-> d]
      BY <1>2, DataOf
    <2>2. e.data # Null
      BY <1>2, Lengths
    <2> HIDE DEF e, d
    <2> QED
      BY <1>2, <2>1, <2>2 DEF Queue!Messages, e, d
  <1> QED
    BY <1>1, <1>2 DEF Filed

(* The message in a slot, read from the slot alone.                        *)
Msg(i) ==
  [type |-> slots[i].event.type,
   data |-> IF slots[i].event.data = Null THEN 0 ELSE slots[i].data]

LEMMA PendingIs ==
  IInv => /\ Pending = [k \in 1 .. count |-> Msg(Place(k))]
          /\ Pending \in Seq(Queue!Messages) /\ Len(Pending) = count
          /\ \A k \in 1 .. count : Place(k) \in Slots /\ Filed(Place(k))
  <1> SUFFICES ASSUME IInv
               PROVE  /\ Pending = [k \in 1 .. count |-> Msg(Place(k))]
                      /\ Pending \in Seq(Queue!Messages) /\ Len(Pending) = count
                      /\ \A k \in 1 .. count : /\ Place(k) \in Slots
                                               /\ Filed(Place(k))
    OBVIOUS
  <1>1. count \in 0 .. QueueLength /\ count \in Nat
    BY Lengths DEF IInv, RingTypes
  <1>2. \A k \in 1 .. count : Place(k) \in Slots /\ Filed(Place(k))
    <2>1. RingTypes /\ PendingFiled
      BY DEF IInv
    <2>2. \A k \in 1 .. QueueLength : Place(k) \in Slots
      BY <2>1, Places
    <2>3. \A k \in 1 .. count : k \in 1 .. QueueLength
      BY <1>1, Lengths
    <2> QED
      BY <2>1, <2>2, <2>3 DEF PendingFiled
  <1>3. \A k \in 1 .. count :
          /\ WithData(slots[Place(k)].event) \in Queue!Messages
          /\ WithData(slots[Place(k)].event) = Msg(Place(k))
    BY <1>2, FiledIsMessage DEF Msg
  <1>4. Pending = [k \in 1 .. count |-> Msg(Place(k))]
    BY <1>3 DEF Pending, Place
  <1>5. Pending \in Seq(Queue!Messages)
    BY <1>1, <1>3, <1>4, IsASeq
  <1> QED
    BY <1>1, <1>2, <1>4, <1>5, LenProperties

LEMMA PendingNext ==
  IInv' => /\ Pending' = [k \in 1 .. count' |-> Msg(Place(k))']
           /\ Pending' \in Seq(Queue!Messages) /\ Len(Pending') = count'
  <1>1. (IInv => /\ Pending = [k \in 1 .. count |-> Msg(Place(k))]
                 /\ Pending \in Seq(Queue!Messages) /\ Len(Pending) = count)'
    <2>1. IInv => /\ Pending = [k \in 1 .. count |-> Msg(Place(k))]
                  /\ Pending \in Seq(Queue!Messages) /\ Len(Pending) = count
      BY PendingIs
    <2> QED
      BY <2>1, PTL
  <1> QED
    BY <1>1

-----------------------------------------------------------------------------
LEMMA InitKeeps == Init => IInv /\ Queue!Init
  <1> SUFFICES ASSUME Init PROVE IInv /\ Queue!Init
    OBVIOUS
  <1>1. /\ slots = [i \in Slots |-> [event |-> NoEvent, data |-> 0]]
        /\ head = 0 /\ tail = 0 /\ count = 0 /\ input = 0 /\ event = NoEvent
        /\ promised = Nothing /\ executed = Nothing
    BY DEF Init
  <1>2. 0 \in Slots /\ 0 \in 0 .. QueueLength /\ 0 % QueueLength = 0
    BY Lengths DEF Slots
  <1>3. NoEvent \in Records
    BY Lengths DEF NoEvent, Records, Null
  <1>4. 0 \in Blank
    BY DEF Blank
  <1> DEFINE s == [event |-> NoEvent, data |-> 0]
  <1>5. s \in [event : Records, data : Blank]
    BY <1>3, <1>4
  <1>6. slots \in [Slots -> [event : Records, data : Blank]]
    BY <1>1, <1>5
  <1>7. RingTypes
    BY <1>1, <1>2, <1>3, <1>4, <1>6 DEF RingTypes
  <1>8. PendingFiled /\ InExecution
    BY <1>1 DEF PendingFiled, InExecution
  <1>9. Pending = <<>>
    BY <1>1, <1>7, <1>8, PendingIs, EmptySeq DEF IInv
  <1>10. Queue!Nothing = Nothing
    BY DEF Queue!Nothing, Nothing
  <1> QED
    BY <1>1, <1>7, <1>8, <1>9, <1>10 DEF IInv, Queue!Init

(* A command that posts nothing, and the trigger service, touch nothing.   *)
LEMMA Quiet ==
  ASSUME IInv, UNCHANGED <<ring, event, promised, executed>>, input' \in Blank
  PROVE  IInv' /\ UNCHANGED <<Pending, promised, executed>>
  <1>1. UNCHANGED <<slots, head, tail, count, event, promised, executed>>
    BY DEF ring
  <1>2. RingTypes'
    BY <1>1 DEF IInv, RingTypes
  <1>3. PendingFiled'
    BY <1>1 DEF IInv, PendingFiled, Filed, Place
  <1>4. InExecution'
    BY <1>1 DEF IInv, InExecution
  <1>5. IInv'
    BY <1>2, <1>3, <1>4 DEF IInv
  <1>6. Pending' = [k \in 1 .. count |-> Msg(Place(k))]
    <2>1. Pending' = [k \in 1 .. count' |-> Msg(Place(k))']
      BY <1>5, PendingNext
    <2> QED
      BY <1>1, <2>1 DEF Msg, Place
  <1> QED
    BY <1>1, <1>5, <1>6, PendingIs

(* What a post leaves in the slot at the tail.                             *)
LEMMA FilledTypes ==
  ASSUME RingTypes, NEW type,
         type \in Types \/ (type = "DATA_BLOCK" /\ input' \in Blocks)
  PROVE  /\ Filled(type) \in [event : Records, data : Blank]
         /\ Filled(type).event.type = type
         /\ type \in Types => /\ Filled(type).event.data = Null
                              /\ Filled(type).data = slots[tail].data
         /\ type = "DATA_BLOCK" => /\ Filled(type).event.data = tail
                                   /\ Filled(type).data = input'
  <1>1. CASE type \in Types
    <2> DEFINE e == [type |-> type, data |-> Null]
    <2>1. Filled(type) = [event |-> e, data |-> slots[tail].data]
      BY <1>1, BusAssumption DEF Filled
    <2>2. e \in Records /\ e.type = type /\ e.data = Null
      BY <1>1, Lengths DEF Records
    <2>3. slots[tail].data \in Blank
      BY DEF RingTypes
    <2> HIDE DEF e
    <2> QED
      BY <1>1, <2>1, <2>2, <2>3, BusAssumption
  <1>2. CASE type = "DATA_BLOCK" /\ input' \in Blocks
    <2> DEFINE e == [type |-> type, data |-> tail]
    <2>1. Filled(type) = [event |-> e, data |-> input']
      BY <1>2 DEF Filled
    <2>2. e \in Records /\ e.type = type /\ e.data = tail
      BY <1>2, Lengths DEF Records, RingTypes
    <2>3. input' \in Blank
      BY <1>2 DEF Blank
    <2> HIDE DEF e
    <2> QED
      BY <1>2, <2>1, <2>2, <2>3, BusAssumption
  <1> QED
    BY <1>1, <1>2

(* A post writes behind the pending events, and on the slot of the event   *)
(* in execution only when it takes the last free one.                      *)
LEMMA PostKeeps ==
  ASSUME IInv, NEW type,
         type \in Types \/ (type = "DATA_BLOCK" /\ input' \in Blocks),
         input' \in Blank, count # QueueLength, Post(type),
         UNCHANGED <<event, promised, executed>>
  PROVE  IInv' /\ \E m \in Queue!Messages : Queue!Accept(m)
  <1> DEFINE new == Filled(type)
  <1>1. /\ slots' = [slots EXCEPT ![tail] = new]
        /\ tail' = After(tail) /\ count' = count + 1 /\ head' = head
    BY DEF Post
  <1>2. RingTypes /\ PendingFiled /\ InExecution
    BY DEF IInv
  <1>3. /\ new \in [event : Records, data : Blank] /\ new.event.type = type
        /\ type \in Types => /\ new.event.data = Null
                             /\ new.data = slots[tail].data
        /\ type = "DATA_BLOCK" => new.event.data = tail /\ new.data = input'
    BY <1>2, FilledTypes
  <1> HIDE DEF new
  <1>4. /\ QueueLength \in Nat \ {0} /\ head \in 0 .. QueueLength - 1
        /\ tail \in 0 .. QueueLength - 1 /\ count \in 0 .. QueueLength - 1
        /\ tail \in Slots /\ slots \in [Slots -> [event : Records, data : Blank]]
    BY <1>2, Lengths DEF RingTypes, Slots
  <1>5. /\ slots'[tail] = new
        /\ \A i \in Slots \ {tail} : slots'[i] = slots[i]
        /\ slots' \in [Slots -> [event : Records, data : Blank]]
    BY <1>1, <1>3, <1>4
  <1>6. tail = IF head + count < QueueLength THEN head + count
               ELSE head + count - QueueLength
    BY <1>2, Places
  <1>7. After(tail) \in Slots
        /\ After(tail) = IF tail + 1 < QueueLength THEN tail + 1 ELSE 0
    BY <1>2, <1>4, Places
  <1>8. RingTypes'
    <2>1. tail' \in Slots /\ count' \in 0 .. QueueLength /\ event \in Records
      BY <1>1, <1>2, <1>4, <1>7 DEF RingTypes
    <2>2. tail' = (head' + count') % QueueLength
      <3>1. PICK i \in 0 .. 2 * QueueLength - 1 : i = head + count + 1
        BY <1>4
      <3>2. i % QueueLength = IF i < QueueLength THEN i ELSE i - QueueLength
        BY Around
      <3>3. i % QueueLength = After(tail)
        BY <1>4, <1>6, <1>7, <3>1, <3>2
      <3>4. head' + count' = i
        BY <1>1, <1>4, <3>1
      <3> QED
        BY <1>1, <3>3, <3>4
    <2> QED
      BY <1>1, <1>2, <1>4, <1>5, <2>1, <2>2 DEF RingTypes
  <1>9. \A k \in 1 .. count : Place(k) \in Slots /\ Place(k) # tail
    <2>1. \A k \in 1 .. QueueLength :
            /\ Place(k) \in Slots
            /\ Place(k) = IF head + k - 1 < QueueLength THEN head + k - 1
                          ELSE head + k - 1 - QueueLength
      BY <1>2, Places
    <2> QED
      BY <1>4, <1>6, <2>1
  <1>10. Place(count + 1) = tail
    BY <1>2, <1>4, Places
  <1>11. \A k \in 1 .. count' : k \in 1 .. count \/ k = count + 1
    BY <1>1, <1>4
  <1>12. \A k : Place(k)' = Place(k)
    BY <1>1 DEF Place
  <1>13. PendingFiled'
    <2>1. ASSUME NEW k \in 1 .. count PROVE Filed(Place(k))'
      BY <1>2, <1>5, <1>9, <1>12, <2>1 DEF PendingFiled, Filed
    <2>3. ASSUME NEW k, k = count + 1 PROVE Filed(Place(k))'
      <3>1. Place(k)' = tail
        BY <1>10, <1>12, <2>3
      <3>2. /\ slots'[tail].event.type = type
            /\ type \in Types => slots'[tail].event.data = Null
            /\ type = "DATA_BLOCK" => /\ slots'[tail].event.data = tail
                                      /\ slots'[tail].data = input'
        BY <1>3, <1>5
      <3> QED
        BY <3>1, <3>2 DEF Filed
    <2> QED
      BY <1>11, <2>1, <2>3 DEF PendingFiled
  <1>14. InExecution'
    <2>1. CASE event = NoEvent /\ promised = Nothing
      BY <2>1 DEF InExecution
    <2>2. CASE /\ event.type \in Types /\ event.data = Null
               /\ promised = [type |-> event.type, data |-> 0]
      BY <2>2 DEF InExecution
    <2>3. CASE /\ event.type = "DATA_BLOCK" /\ event.data \in Slots
               /\ After(event.data) = head
               /\ slots[event.data].data \in Blocks
               /\ promised \in [type : {"DATA_BLOCK"}, data : Blocks]
               /\ count < QueueLength => promised.data = slots[event.data].data
      <3>1. CASE event.data = tail
        <4>1. count' = QueueLength
          <5>1. After(tail) = head
            BY <2>3, <3>1
          <5> QED
            BY <1>1, <1>4, <1>6, <1>7, <5>1
        <4>2. slots'[tail].data \in Blocks
          BY <1>3, <1>5, <2>3, <3>1
        <4>3. ~(count' < QueueLength)
          BY <1>4, <4>1
        <4>4. slots'[event.data].data \in Blocks /\ head' = head
          BY <1>1, <3>1, <4>2
        <4>5. event' = event /\ promised' = promised
          OBVIOUS
        <4>6. /\ event'.type = "DATA_BLOCK" /\ event'.data \in Slots
              /\ After(event'.data) = head'
              /\ slots'[event'.data].data \in Blocks
              /\ promised' \in [type : {"DATA_BLOCK"}, data : Blocks]
          BY <2>3, <4>4, <4>5
        <4> QED
          BY <4>3, <4>6 DEF InExecution, After
      <3>2. CASE event.data # tail
        <4>1. event.data \in Slots \ {tail}
          BY <2>3, <3>2
        <4>2. slots'[event.data] = slots[event.data]
          BY <1>5, <4>1
        <4>3. count < QueueLength
          BY <1>4
        <4> QED
          BY <1>1, <2>3, <4>2, <4>3 DEF InExecution, After
      <3> QED
        BY <3>1, <3>2
    <2> QED
      BY <1>2, <2>1, <2>2, <2>3 DEF InExecution
  <1>15. IInv'
    BY <1>8, <1>13, <1>14 DEF IInv
  <1> DEFINE m == [type |-> slots'[tail].event.type,
                   data |-> IF slots'[tail].event.data = Null THEN 0
                            ELSE slots'[tail].data]
  <1>16. /\ Pending' = [k \in 1 .. count' |-> Msg(Place(k))']
         /\ Pending' \in Seq(Queue!Messages) /\ Len(Pending') = count'
    BY <1>15, PendingNext
  <1>17. /\ Pending = [k \in 1 .. count |-> Msg(Place(k))]
         /\ Pending \in Seq(Queue!Messages) /\ Len(Pending) = count
    BY PendingIs
  <1>18. count + 1 \in 1 .. count' /\ \A k \in 1 .. count : k \in 1 .. count'
    BY <1>1, <1>4
  <1>19. Pending'[count + 1] = m
    BY <1>10, <1>12, <1>16, <1>18 DEF Msg
  <1>20. \A k \in 1 .. count : Pending'[k] = Pending[k]
    <2> SUFFICES ASSUME NEW k \in 1 .. count PROVE Pending'[k] = Pending[k]
      OBVIOUS
    <2>1. Pending'[k] = Msg(Place(k))'
      BY <1>16, <1>18
    <2>2. Msg(Place(k))' = Msg(Place(k))
      BY <1>5, <1>9, <1>12 DEF Msg
    <2> QED
      BY <1>17, <2>1, <2>2
  <1> HIDE DEF m
  <1>21. m \in Queue!Messages
    BY <1>16, <1>18, <1>19, ElementOfSeq
  <1>22. Pending' = Append(Pending, m)
    <2>1. /\ Append(Pending, m) \in Seq(Queue!Messages)
          /\ Len(Append(Pending, m)) = Len(Pending) + 1
          /\ \A i \in 1 .. Len(Pending) : Append(Pending, m)[i] = Pending[i]
          /\ Append(Pending, m)[Len(Pending) + 1] = m
      <3>1. Pending \in Seq(Queue!Messages)
        BY <1>17
      <3>2. \A p \in Seq(Queue!Messages) :
              /\ Append(p, m) \in Seq(Queue!Messages)
              /\ Len(Append(p, m)) = Len(p) + 1
              /\ \A i \in 1 .. Len(p) : Append(p, m)[i] = p[i]
              /\ Append(p, m)[Len(p) + 1] = m
        BY <1>21, AppendProperties
      <3> QED
        BY <3>1, <3>2
    <2>2. \A i \in 1 .. count' : Pending'[i] = Append(Pending, m)[i]
      BY <1>11, <1>17, <1>19, <1>20, <2>1
    <2>3. Len(Pending') = Len(Append(Pending, m))
      BY <1>1, <1>16, <1>17, <2>1
    <2> QED
      BY <1>16, <2>1, <2>2, <2>3, SeqEqual
  <1>23. Len(Pending) < QueueLength
    BY <1>4, <1>17
  <1>24. Queue!Accept(m)
    BY <1>22, <1>23 DEF Queue!Accept
  <1> QED
    BY <1>15, <1>21, <1>24

LEMMA CommandKeeps ==
  ASSUME IInv, NEW type, NEW block, Command(type, block),
         \/ type \in Types /\ block = 0
         \/ type = "DATA_BLOCK" /\ block \in Blocks \cup {0}
  PROVE  /\ IInv'
         /\ \/ \E m \in Queue!Messages : Queue!Accept(m)
            \/ UNCHANGED <<Pending, promised, executed>>
  <1>1. /\ input' = block
        /\ IF armed \/ (type = "DATA_BLOCK" /\ block = 0)
           THEN UNCHANGED ring ELSE Post(type)
        /\ UNCHANGED <<event, armed, promised, executed>>
    BY DEF Command
  <1>2. input' \in Blank
    BY <1>1 DEF Blank
  <1>3. CASE UNCHANGED ring
    BY <1>1, <1>2, <1>3, Quiet
  <1>4. CASE Post(type) /\ ~(type = "DATA_BLOCK" /\ block = 0)
    <2>1. CASE count = QueueLength
      <3>1. UNCHANGED ring
        BY <1>4, <2>1 DEF Post
      <3> QED
        BY <1>1, <1>2, <3>1, Quiet
    <2>2. CASE count # QueueLength
      <3>1. type \in Types \/ (type = "DATA_BLOCK" /\ input' \in Blocks)
        BY <1>1, <1>4
      <3>2. Post(type) /\ UNCHANGED <<event, promised, executed>>
        BY <1>1, <1>4
      <3> QED
        BY <1>2, <2>2, <3>1, <3>2, PostKeeps
    <2> QED
      BY <2>1, <2>2
  <1> QED
    BY <1>1, <1>3, <1>4

(* While nothing is in execution nothing is promised, and conversely.      *)
LEMMA Busy ==
  ASSUME InExecution
  PROVE  /\ event = NoEvent <=> promised = Nothing
         /\ Queue!Nothing = Nothing
  <1>1. NoEvent.type \notin Types /\ NoEvent.type # "DATA_BLOCK"
    BY BusAssumption DEF NoEvent
  <1>2. Nothing.type \notin Types /\ Nothing.type # "DATA_BLOCK"
    BY BusAssumption DEF Nothing
  <1>3. event = NoEvent => promised = Nothing
    BY <1>1 DEF InExecution
  <1>4. promised = Nothing => event = NoEvent
    BY <1>2 DEF InExecution
  <1>5. Queue!Nothing = Nothing
    BY DEF Queue!Nothing, Nothing
  <1> QED
    BY <1>3, <1>4, <1>5

LEMMA ReceiveKeeps ==
  ASSUME IInv, Receive
  PROVE  IInv' /\ Queue!Receive
  <1>1. /\ event = NoEvent /\ count > 0
        /\ event' = slots[head].event /\ promised' = WithData(event')
        /\ head' = After(head) /\ count' = count - 1
        /\ UNCHANGED <<slots, tail, input, armed, executed>>
    BY DEF Receive
  <1>2. RingTypes /\ PendingFiled /\ InExecution
    BY DEF IInv
  <1>3. /\ QueueLength \in Nat \ {0} /\ head \in 0 .. QueueLength - 1
        /\ count \in 1 .. QueueLength /\ head \in Slots
        /\ slots \in [Slots -> [event : Records, data : Blank]]
    BY <1>1, <1>2, Lengths DEF RingTypes, Slots
  <1>4. After(head) \in Slots
        /\ After(head) = IF head + 1 < QueueLength THEN head + 1 ELSE 0
    BY <1>2, <1>3, Places
  <1>5. Place(1) = head /\ 1 \in 1 .. count
    BY <1>2, <1>3, Places
  <1>6. Filed(head)
    BY <1>2, <1>5 DEF PendingFiled
  <1>7. \A k \in 1 .. count' : k + 1 \in 1 .. count /\ Place(k)' = Place(k + 1)
    <2> SUFFICES ASSUME NEW k \in 1 .. count'
                 PROVE  k + 1 \in 1 .. count /\ Place(k)' = Place(k + 1)
      OBVIOUS
    <2>1. k \in 1 .. QueueLength - 1 /\ k + 1 \in 1 .. count
      BY <1>1, <1>3
    <2>2. PICK i \in 0 .. 2 * QueueLength - 1 : i = After(head) + k - 1
      BY <1>3, <1>4, <2>1
    <2>3. PICK j \in 0 .. 2 * QueueLength - 1 : j = head + k
      BY <1>3, <2>1
    <2>4. /\ i % QueueLength = IF i < QueueLength THEN i ELSE i - QueueLength
          /\ j % QueueLength = IF j < QueueLength THEN j ELSE j - QueueLength
      BY Around
    <2>5. i % QueueLength = j % QueueLength
      BY <1>3, <1>4, <2>1, <2>2, <2>3, <2>4
    <2>6. Place(k)' = i % QueueLength
      BY <1>1, <2>2 DEF Place
    <2>7. Place(k + 1) = j % QueueLength
      <3>1. head + (k + 1) - 1 = j
        BY <1>3, <2>1, <2>3
      <3> QED
        BY <3>1 DEF Place
    <2> QED
      BY <2>1, <2>5, <2>6, <2>7
  <1>8. RingTypes'
    <2>1. tail = IF head + count < QueueLength THEN head + count
                 ELSE head + count - QueueLength
      BY <1>2, Places
    <2>2. PICK i \in 0 .. 2 * QueueLength - 1 : i = After(head) + count - 1
      BY <1>3, <1>4
    <2>3. i % QueueLength = IF i < QueueLength THEN i ELSE i - QueueLength
      BY Around
    <2>4. i % QueueLength = tail
      BY <1>3, <1>4, <2>1, <2>2, <2>3
    <2>5. head' + count' = i
      BY <1>1, <1>3, <1>4, <2>2
    <2>6. tail' = (head' + count') % QueueLength
      BY <1>1, <2>4, <2>5
    <2>7. event' \in Records
      BY <1>1, <1>3
    <2>8. count' \in 0 .. QueueLength
      BY <1>1, <1>3
    <2> QED
      BY <1>1, <1>2, <1>4, <2>6, <2>7, <2>8 DEF RingTypes
  <1>9. PendingFiled'
    BY <1>1, <1>2, <1>7 DEF PendingFiled, Filed
  <1>10. InExecution'
    <2>1. CASE event'.type \in Types /\ event'.data = Null
      <3>1. promised' = [type |-> event'.type, data |-> 0]
        BY <1>1, <2>1, DataOf
      <3> QED
        BY <2>1, <3>1 DEF InExecution
    <2>2. CASE /\ event'.type = "DATA_BLOCK" /\ event'.data = head
               /\ slots[head].data \in Blocks
      <3>1. promised' = [type |-> event'.type, data |-> slots[head].data]
        BY <1>1, <1>3, <2>2, DataOf
      <3>2. /\ promised' \in [type : {"DATA_BLOCK"}, data : Blocks]
            /\ promised'.data = slots'[event'.data].data
            /\ slots'[event'.data].data \in Blocks
        BY <1>1, <2>2, <3>1
      <3> QED
        BY <1>1, <1>3, <2>2, <3>2 DEF InExecution, After
    <2> QED
      BY <1>1, <1>6, <2>1, <2>2 DEF Filed
  <1>11. IInv'
    BY <1>8, <1>9, <1>10 DEF IInv
  <1>12. /\ Pending = [k \in 1 .. count |-> Msg(Place(k))]
         /\ Pending \in Seq(Queue!Messages) /\ Len(Pending) = count
    BY PendingIs
  <1>13. /\ Pending' = [k \in 1 .. count' |-> Msg(Place(k))']
         /\ Pending' \in Seq(Queue!Messages) /\ Len(Pending') = count'
    BY <1>11, PendingNext
  <1>14. Pending # <<>>
    BY <1>3, <1>12, EmptySeq
  <1>15. promised' = Head(Pending)
    <2>1. Head(Pending) = Pending[1]
      OBVIOUS
    <2>2. Pending[1] = WithData(slots[head].event)
      BY <1>5 DEF Pending, Place
    <2> QED
      BY <1>1, <2>1, <2>2
  <1>16. Pending' = Tail(Pending)
    <2>1. /\ Tail(Pending) \in Seq(Queue!Messages)
          /\ Len(Tail(Pending)) = Len(Pending) - 1
          /\ \A i \in 1 .. Len(Tail(Pending)) : Tail(Pending)[i] = Pending[i + 1]
      <3>1. \A p \in Seq(Queue!Messages) : p # <<>> =>
              /\ Tail(p) \in Seq(Queue!Messages) /\ Len(Tail(p)) = Len(p) - 1
              /\ \A i \in 1 .. Len(Tail(p)) : Tail(p)[i] = p[i + 1]
        BY HeadTailProperties
      <3>2. Pending \in Seq(Queue!Messages)
        BY <1>12
      <3> QED
        BY <1>14, <3>1, <3>2
    <2>2. Len(Tail(Pending)) = count'
      BY <1>1, <1>12, <2>1
    <2>3. \A i \in 1 .. count' : Pending'[i] = Tail(Pending)[i]
      <3> SUFFICES ASSUME NEW i \in 1 .. count'
                   PROVE  Pending'[i] = Tail(Pending)[i]
        OBVIOUS
      <3>1. Pending'[i] = Msg(Place(i))'
        BY <1>13
      <3>2. Msg(Place(i))' = Msg(Place(i + 1))
        BY <1>1, <1>7 DEF Msg
      <3>3. Pending[i + 1] = Msg(Place(i + 1))
        BY <1>7, <1>12
      <3>4. Tail(Pending)[i] = Pending[i + 1]
        BY <2>1, <2>2
      <3> QED
        BY <3>1, <3>2, <3>3, <3>4
    <2> QED
      BY <1>13, <2>1, <2>2, <2>3, SeqEqual
  <1>17. promised = Queue!Nothing
    BY <1>1, <1>2, Busy
  <1>18. Queue!Receive
    BY <1>1, <1>14, <1>15, <1>16, <1>17 DEF Queue!Receive
  <1> QED
    BY <1>11, <1>18

LEMMA ExecuteKeeps ==
  ASSUME IInv, Execute
  PROVE  IInv' /\ Queue!Execute
  <1>1. /\ event # NoEvent /\ executed' = WithData(event)
        /\ event' = NoEvent /\ promised' = Nothing
        /\ UNCHANGED <<slots, head, tail, count, input, armed>>
    BY DEF Execute, ring
  <1>2. RingTypes /\ PendingFiled /\ InExecution
    BY DEF IInv
  <1>3. NoEvent \in Records
    BY Lengths DEF NoEvent, Records, Null
  <1>4. RingTypes'
    BY <1>1, <1>2, <1>3 DEF RingTypes
  <1>5. PendingFiled'
    BY <1>1, <1>2 DEF PendingFiled, Filed, Place
  <1>6. InExecution'
    BY <1>1 DEF InExecution
  <1>7. IInv'
    BY <1>4, <1>5, <1>6 DEF IInv
  <1>8. /\ Pending = [k \in 1 .. count |-> Msg(Place(k))]
        /\ Pending \in Seq(Queue!Messages) /\ Len(Pending) = count
    BY PendingIs
  <1>9. Pending' = Pending
    <2>1. Pending' = [k \in 1 .. count' |-> Msg(Place(k))']
      BY <1>7, PendingNext
    <2> QED
      BY <1>1, <1>8, <2>1 DEF Msg, Place
  <1>10. promised # Queue!Nothing /\ promised' = Queue!Nothing
    BY <1>1, <1>2, Busy
  <1>11. \/ executed' = promised
         \/ /\ promised.type = "DATA_BLOCK" /\ Len(Pending) = QueueLength
            /\ executed' \in [type : {"DATA_BLOCK"}, data : Blocks]
    <2>1. CASE /\ event.type \in Types /\ event.data = Null
               /\ promised = [type |-> event.type, data |-> 0]
      BY <1>1, <2>1, DataOf
    <2>2. CASE /\ event.type = "DATA_BLOCK" /\ event.data \in Slots
               /\ slots[event.data].data \in Blocks
               /\ promised \in [type : {"DATA_BLOCK"}, data : Blocks]
               /\ count < QueueLength => promised.data = slots[event.data].data
      <3>1. executed' = [type |-> "DATA_BLOCK", data |-> slots[event.data].data]
        BY <1>1, <2>2, DataOf
      <3>2. executed' \in [type : {"DATA_BLOCK"}, data : Blocks]
        BY <2>2, <3>1
      <3>3. CASE count < QueueLength
        <4>1. promised = [type |-> "DATA_BLOCK", data |-> promised.data]
          BY <2>2
        <4> QED
          BY <2>2, <3>1, <3>3, <4>1
      <3>4. CASE ~(count < QueueLength)
        <4>1. count = QueueLength
          BY <1>2, <3>4, Lengths DEF RingTypes
        <4> QED
          BY <1>8, <2>2, <3>2, <4>1
      <3> QED
        BY <3>3, <3>4
    <2> QED
      BY <1>1, <1>2, <2>1, <2>2 DEF InExecution
  <1> QED
    BY <1>7, <1>9, <1>10, <1>11 DEF Queue!Execute

-----------------------------------------------------------------------------
(* Every step of the ring is a step of the queue, or none.                 *)
LEMMA NextKeeps ==
  IInv /\ [Next]_vars =>
    IInv' /\ [Queue!Next]_<<Pending, promised, executed>>
  <1> SUFFICES ASSUME IInv, [Next]_vars
               PROVE  IInv' /\ [Queue!Next]_<<Pending, promised, executed>>
    OBVIOUS
  <1>1. CASE \/ \E type \in Types : Command(type, 0)
             \/ \E block \in Blocks \cup {0} : Command("DATA_BLOCK", block)
    <2>1. /\ IInv'
          /\ \/ \E m \in Queue!Messages : Queue!Accept(m)
             \/ UNCHANGED <<Pending, promised, executed>>
      BY <1>1, CommandKeeps
    <2> QED
      BY <2>1 DEF Queue!Next
  <1>2. CASE Receive
    BY <1>2, ReceiveKeeps DEF Queue!Next
  <1>3. CASE Execute
    BY <1>3, ExecuteKeeps DEF Queue!Next
  <1>4. CASE Arming \/ UNCHANGED vars
    <2>1. UNCHANGED <<ring, event, promised, executed, input>>
      BY <1>4 DEF Arming, vars, ring
    <2>2. input' \in Blank
      BY <2>1 DEF IInv, RingTypes
    <2> QED
      BY <2>1, <2>2, Quiet
  <1> QED
    BY <1>1, <1>2, <1>3, <1>4 DEF Next

(* The inductive invariant: where the pending events lie, and what the one *)
(* in execution finds in its slot.                                         *)
THEOREM BusInvariant == Spec => []IInv
  <1>1. Init => IInv
    BY InitKeeps
  <1>2. IInv /\ [Next]_vars => IInv'
    BY NextKeeps
  <1> QED
    BY <1>1, <1>2, PTL DEF Spec

(* The ring of event_bus.c implements the queue of EventQueue, fairness    *)
(* aside: order, data and number of the accepted events survive every wrap *)
(* of the ring, and the data of the event in execution can change only     *)
(* while the queue is full.                                                *)
THEOREM BusIsQueue ==
  Spec => Queue!Init /\ [][Queue!Next]_<<Pending, promised, executed>>
  <1>1. Init => Queue!Init
    BY InitKeeps
  <1>2. IInv /\ [Next]_vars => [Queue!Next]_<<Pending, promised, executed>>
    BY NextKeeps
  <1> QED
    BY <1>1, <1>2, BusInvariant, PTL DEF Spec
=============================================================================
