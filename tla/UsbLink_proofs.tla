----------------------------- MODULE UsbLink_proofs -----------------------------
(***************************************************************************)
(* The safety of the link to the host, for every set of messages, every    *)
(* size of the buffers and every size of the host's requests.              *)
(*                                                                         *)
(* What the host has read is a prefix of the reply it is owed, and the     *)
(* length of that prefix is s_response_offset while there is a reply to    *)
(* send: a request continues where the last one ended.  ReadInv says so of *)
(* USBTMC, LineInv of the bytes between the parser and the CDC host.       *)
(***************************************************************************)
EXTENDS UsbLink, SequenceTheorems, TLAPS

(* A byte of a reply: the message it answers and its place in the reply.   *)
Byte == Nat \X Nat

(* The reply in s_response_buffer.                                         *)
ReplyType == [to : Nat, len : 0 .. ReplyCapacity, offset : 0 .. ReplyCapacity,
              ready : BOOLEAN]

ViewTypes ==
  /\ owed \in Seq(Byte) /\ got \in Seq(Byte)
  /\ tx \in Seq(Byte) /\ writing \in Seq(Byte)

(* A command in several steps is one that sets the mode; the sector is     *)
(* blank between its steps and holds the copy in RAM otherwise.            *)
RecordInv ==
  /\ mode = Off => exec = "idle"
  /\ exec # "idle" => Number > 0 /\ Message(Number).effect \in Modes
  /\ exec = "erased" => flash = Blank
  /\ mode # Off /\ exec # "erased" /\ ~torn => ModeAtStart(flash) = config

(* What the stack waits for, by what the device is doing.                  *)
BusInv ==
  /\ mode # "usbtmc" => bus \in {"none", "read"}
  /\ exec # "idle" => bus = "read" /\ packets = 0
  /\ bus = "sending" => packets = 0
  /\ packets > 0 => Number > 0
  /\ mode = Off => packets = 0

(* A transport that is not in use has nothing under way.                   *)
OffInv ==
  /\ mode # "cdc" => tx = <<>> /\ writing = <<>>
  /\ mode = Off => owed = <<>> /\ got = <<>> /\ ~whole
  /\ mode = Off => ~reply.ready /\ ~mav

(* USBTMC: the host has read the first offset bytes of the reply.          *)
ReadInv ==
  mode = "usbtmc" =>
    /\ Len(got) <= Len(owed) /\ got = SubSeq(owed, 1, Len(got))
    /\ whole <=> (got # <<>> /\ got = owed)
    /\ mav = reply.ready
    /\ reply.ready =>
         /\ exec = "idle"
         /\ owed = Bytes(reply.to, reply.len)
         /\ reply.len > 0 /\ reply.offset <= reply.len
         /\ Len(got) = reply.offset
         /\ bus # "sending" => reply.offset < reply.len
    /\ ~reply.ready /\ exec = "idle" =>
         Len(owed) \notin 1 .. ReplyCapacity \/ whole

(* CDC: what was read, what is in the FIFO and what is to be written are   *)
(* bytes of the replies, in order; a line under way has none among them.   *)
LineInv ==
  mode = "cdc" =>
    /\ InOrder(Heard)
    /\ Range(Heard) \subseteq Range(owed)
    /\ \A b \in Range(owed) : b[1] \in waived \/ b \in Range(Heard)
    /\ \A b \in Range(owed) : b[1] \in 1 .. Number
    /\ packets > 0 \/ exec # "idle" => \A b \in Range(owed) : b[1] < Number

IInv ==
  /\ TypeOK /\ ViewTypes /\ RecordInv /\ BusInv /\ OffInv /\ ReadInv /\ LineInv

-----------------------------------------------------------------------------
(* The names: a mode is none of the other things its variables hold.       *)
LEMMA Names ==
  /\ Modes = {"cdc", "usbtmc"} /\ Off \notin Modes /\ Blank \notin Modes
  /\ "none" \notin Modes /\ "boot" \notin Modes /\ "cdc" # "usbtmc"
  BY DEF Modes, Off, Blank

(* The parts of a message.                                                 *)
LEMMA MessageTypes ==
  ASSUME NEW m \in Messages
  PROVE  m.size \in Nat \ {0} /\ m.reply \in Nat /\ m.effect \in Effects
  BY UsbLinkAssumption

LEMMA Capacities ==
  ReplyCapacity \in Nat \ {0} /\ TxDepth \in Nat \ {0} /\ DefaultMode \in Modes
  BY UsbLinkAssumption

(* The messages sent are messages, the last one among them.                *)
LEMMA SentTypes ==
  ASSUME TypeOK
  PROVE  Number \in Nat /\ (Number > 0 => Message(Number) \in Messages)
  <1>1. sent \in Seq(Messages)
    BY DEF TypeOK
  <1> QED
    BY <1>1, LenProperties, ElementOfSeq DEF Number, Message

(* No reply: nothing of it is ready.                                       *)
LEMMA NoReplyTypes ==
  NoReply \in ReplyType /\ ~NoReply.ready
  <1>1. 0 \in 0 .. ReplyCapacity
    BY Capacities
  <1> QED
    BY <1>1 DEF NoReply, ReplyType

LEMMA BytesTypes ==
  ASSUME NEW k \in Nat, NEW n \in Nat
  PROVE  /\ Bytes(k, n) \in Seq(Byte)
         /\ Len(Bytes(k, n)) = n
         /\ n = 0 => Bytes(k, n) = <<>>
  <1>1. \A i \in 1 .. n : <<k, i>> \in Byte
    BY DEF Byte
  <1>2. Bytes(k, n) \in Seq(Byte)
    BY <1>1, IsASeq DEF Bytes
  <1>3. DOMAIN Bytes(k, n) = 1 .. n
    BY DEF Bytes
  <1>4. Len(Bytes(k, n)) = n
    BY <1>2, <1>3, LenProperties
  <1> QED
    BY <1>2, <1>4, EmptySeq

(* A reply that was captured is ready if it fits and is not empty.         *)
LEMMA CapturedTypes ==
  ASSUME NEW n \in Nat, Number \in Nat
  PROVE  /\ Captured(n) \in ReplyType
         /\ Captured(n).ready <=> n \in 1 .. ReplyCapacity
         /\ Captured(n).to = Number /\ Captured(n).offset = 0
         /\ n <= ReplyCapacity => Captured(n).len = n
  <1> DEFINE l == IF n > ReplyCapacity THEN ReplyCapacity ELSE n
             r == n \in 1 .. ReplyCapacity
  <1>1. l \in 0 .. ReplyCapacity /\ 0 \in 0 .. ReplyCapacity
    BY Capacities
  <1>2. r \in BOOLEAN
    OBVIOUS
  <1>3. Captured(n) = [to |-> Number, len |-> l, offset |-> 0, ready |-> r]
    BY DEF Captured
  <1>4. n <= ReplyCapacity => l = n
    BY Capacities
  <1>5. r <=> n \in 1 .. ReplyCapacity
    OBVIOUS
  <1> HIDE DEF l, r
  <1> QED
    BY <1>1, <1>2, <1>3, <1>4, <1>5 DEF ReplyType

-----------------------------------------------------------------------------
(* The bytes of two sequences one after the other.                         *)
LEMMA RangeConcat ==
  ASSUME NEW s \in Seq(Byte), NEW t \in Seq(Byte)
  PROVE  s \o t \in Seq(Byte) /\ Range(s \o t) = Range(s) \cup Range(t)
  <1>1. /\ s \o t \in Seq(Byte) /\ Len(s \o t) = Len(s) + Len(t)
        /\ \A i \in 1 .. Len(s) + Len(t) :
             (s \o t)[i] = IF i <= Len(s) THEN s[i] ELSE t[i - Len(s)]
    BY ConcatProperties
  <1>2. /\ Len(s) \in Nat /\ DOMAIN s = 1 .. Len(s)
        /\ Len(t) \in Nat /\ DOMAIN t = 1 .. Len(t)
        /\ DOMAIN (s \o t) = 1 .. Len(s) + Len(t)
    BY <1>1, LenProperties
  <1>3. ASSUME NEW i \in DOMAIN (s \o t)
        PROVE  (s \o t)[i] \in Range(s) \cup Range(t)
    BY <1>1, <1>2 DEF Range
  <1>4. ASSUME NEW i \in DOMAIN s PROVE s[i] \in Range(s \o t)
    <2>1. i \in DOMAIN (s \o t) /\ (s \o t)[i] = s[i]
      BY <1>1, <1>2
    <2> QED
      BY <2>1 DEF Range
  <1>5. ASSUME NEW i \in DOMAIN t PROVE t[i] \in Range(s \o t)
    <2>1. Len(s) + i \in DOMAIN (s \o t) /\ (s \o t)[Len(s) + i] = t[i]
      BY <1>1, <1>2
    <2> QED
      BY <2>1 DEF Range
  <1>6. Range(s \o t) \subseteq Range(s) \cup Range(t)
    BY <1>3 DEF Range
  <1>7. Range(s) \subseteq Range(s \o t)
    BY <1>4 DEF Range
  <1>8. Range(t) \subseteq Range(s \o t)
    BY <1>5 DEF Range
  <1> QED
    BY <1>1, <1>6, <1>7, <1>8

(* Two ordered sequences, all of the first before all of the second.       *)
LEMMA OrderConcat ==
  ASSUME NEW s \in Seq(Byte), NEW t \in Seq(Byte), InOrder(s), InOrder(t),
         \A a \in Range(s), b \in Range(t) : Before(a, b)
  PROVE  InOrder(s \o t)
  <1>1. \A i \in 1 .. Len(s) + Len(t) :
          (s \o t)[i] = IF i <= Len(s) THEN s[i] ELSE t[i - Len(s)]
    BY ConcatProperties
  <1>2. /\ Len(s) \in Nat /\ DOMAIN s = 1 .. Len(s)
        /\ Len(t) \in Nat /\ DOMAIN t = 1 .. Len(t)
        /\ DOMAIN (s \o t) = 1 .. Len(s) + Len(t)
    BY ConcatProperties, LenProperties
  <1>3. SUFFICES ASSUME NEW i \in DOMAIN (s \o t), NEW j \in DOMAIN (s \o t), i < j
                 PROVE  Before((s \o t)[i], (s \o t)[j])
    BY DEF InOrder
  <1>4. CASE j <= Len(s)
    <2>1. /\ i \in DOMAIN s /\ j \in DOMAIN s
          /\ (s \o t)[i] = s[i] /\ (s \o t)[j] = s[j]
      BY <1>1, <1>2, <1>3, <1>4
    <2> QED
      BY <1>3, <2>1 DEF InOrder
  <1>5. CASE i > Len(s)
    <2>1. /\ i - Len(s) \in DOMAIN t /\ j - Len(s) \in DOMAIN t
          /\ i - Len(s) < j - Len(s)
          /\ (s \o t)[i] = t[i - Len(s)] /\ (s \o t)[j] = t[j - Len(s)]
      BY <1>1, <1>2, <1>3, <1>5
    <2> QED
      BY <2>1 DEF InOrder
  <1>6. CASE i <= Len(s) /\ j > Len(s)
    <2>1. /\ i \in DOMAIN s /\ j - Len(s) \in DOMAIN t
          /\ (s \o t)[i] = s[i] /\ (s \o t)[j] = t[j - Len(s)]
      BY <1>1, <1>2, <1>3, <1>6
    <2>2. s[i] \in Range(s) /\ t[j - Len(s)] \in Range(t)
      BY <2>1 DEF Range
    <2> QED
      BY <2>1, <2>2
  <1> QED
    BY <1>2, <1>4, <1>5, <1>6

(* A part of the second sequence left out: the rest keeps its order.       *)
LEMMA OrderPart ==
  ASSUME NEW s \in Seq(Byte), NEW t \in Seq(Byte), InOrder(s \o t),
         NEW lo \in 1 .. Len(t) + 1, NEW hi \in lo - 1 .. Len(t)
  PROVE  /\ SubSeq(t, lo, hi) \in Seq(Byte)
         /\ Range(SubSeq(t, lo, hi)) \subseteq Range(t)
         /\ InOrder(s \o SubSeq(t, lo, hi))
  <1> DEFINE u == SubSeq(t, lo, hi)
  <1>1. /\ Len(s) \in Nat /\ Len(t) \in Nat /\ DOMAIN t = 1 .. Len(t)
        /\ DOMAIN s = 1 .. Len(s)
    BY LenProperties
  <1>2. \A i \in lo .. hi : t[i] \in Byte
    BY <1>1, ElementOfSeq
  <1>3. /\ u \in Seq(Byte) /\ Len(u) = hi - lo + 1
        /\ \A i \in 1 .. hi - lo + 1 : u[i] = t[lo + i - 1]
    BY <1>1, <1>2, SubSeqProperties
  <1> HIDE DEF u
  <1>4. DOMAIN u = 1 .. hi - lo + 1 /\ Len(u) \in Nat
    BY <1>3, LenProperties
  <1>5. ASSUME NEW i \in DOMAIN u PROVE u[i] \in Range(t)
    <2>1. lo + i - 1 \in DOMAIN t /\ u[i] = t[lo + i - 1]
      BY <1>1, <1>3, <1>4
    <2> QED
      BY <2>1 DEF Range
  <1>6. Range(u) \subseteq Range(t)
    BY <1>5 DEF Range
  <1>7. /\ DOMAIN (s \o t) = 1 .. Len(s) + Len(t)
        /\ \A i \in 1 .. Len(s) + Len(t) :
             (s \o t)[i] = IF i <= Len(s) THEN s[i] ELSE t[i - Len(s)]
    BY ConcatProperties, LenProperties
  <1>8. /\ DOMAIN (s \o u) = 1 .. Len(s) + Len(u)
        /\ \A i \in 1 .. Len(s) + Len(u) :
             (s \o u)[i] = IF i <= Len(s) THEN s[i] ELSE u[i - Len(s)]
    <2>1. /\ s \o u \in Seq(Byte) /\ Len(s \o u) = Len(s) + Len(u)
          /\ \A i \in 1 .. Len(s) + Len(u) :
               (s \o u)[i] = IF i <= Len(s) THEN s[i] ELSE u[i - Len(s)]
      BY <1>3, ConcatProperties
    <2>2. DOMAIN (s \o u) = 1 .. Len(s \o u)
      BY <2>1, LenProperties
    <2> QED
      BY <2>1, <2>2
  <1> DEFINE Place(i) == IF i <= Len(s) THEN i ELSE i + lo - 1
  <1>9. ASSUME NEW i \in DOMAIN (s \o u)
        PROVE  Place(i) \in DOMAIN (s \o t) /\ (s \o u)[i] = (s \o t)[Place(i)]
    <2>1. CASE i <= Len(s)
      BY <1>1, <1>3, <1>7, <1>8, <2>1
    <2>2. CASE i > Len(s)
      <3>1. /\ i - Len(s) \in 1 .. hi - lo + 1
            /\ (s \o u)[i] = u[i - Len(s)]
        BY <1>1, <1>3, <1>8, <2>2
      <3>2. u[i - Len(s)] = t[lo + (i - Len(s)) - 1]
        BY <1>3, <3>1
      <3>3. /\ Place(i) = i + lo - 1 /\ Place(i) > Len(s)
            /\ Place(i) \in 1 .. Len(s) + Len(t)
            /\ Place(i) - Len(s) = lo + (i - Len(s)) - 1
        BY <1>1, <2>2, <3>1
      <3>0. \A k \in 1 .. Len(s) + Len(t) :
              k > Len(s) => (s \o t)[k] = t[k - Len(s)]
        <4> SUFFICES ASSUME NEW k \in 1 .. Len(s) + Len(t), k > Len(s)
                     PROVE  (s \o t)[k] = t[k - Len(s)]
          OBVIOUS
        <4>1. (s \o t)[k] = IF k <= Len(s) THEN s[k] ELSE t[k - Len(s)]
          BY ONLY <1>7
        <4>2. ~ (k <= Len(s))
          BY <1>1
        <4> QED
          BY ONLY <4>1, <4>2
      <3>4. (s \o t)[Place(i)] = t[Place(i) - Len(s)]
        BY ONLY <3>0, <3>3
      <3> QED
        BY <1>7, <3>1, <3>2, <3>3, <3>4
    <2> QED
      BY <1>1, <1>8, <2>1, <2>2
  <1>10. ASSUME NEW i \in DOMAIN (s \o u), NEW j \in DOMAIN (s \o u), i < j
         PROVE  Place(i) < Place(j)
    BY <1>1, <1>4, <1>8, <1>10
  <1> HIDE DEF Place
  <1>11. InOrder(s \o u)
    BY <1>9, <1>10 DEF InOrder
  <1> QED
    BY <1>3, <1>6, <1>11 DEF u

(* A reply is in order, and every byte of it says whose it is.             *)
LEMMA BytesInOrder ==
  ASSUME NEW k \in Nat, NEW n \in Nat
  PROVE  /\ InOrder(Bytes(k, n))
         /\ \A b \in Range(Bytes(k, n)) : b[1] = k
  <1>1. /\ DOMAIN Bytes(k, n) = 1 .. n
        /\ \A i \in 1 .. n : Bytes(k, n)[i] = <<k, i>>
    BY DEF Bytes
  <1>2. \A i \in 1 .. n : Bytes(k, n)[i][1] = k /\ Bytes(k, n)[i][2] = i
    BY <1>1
  <1>3. InOrder(Bytes(k, n))
    BY <1>1, <1>2 DEF InOrder, Before
  <1>4. \A b \in Range(Bytes(k, n)) : b[1] = k
    BY <1>1, <1>2 DEF Range
  <1> QED
    BY <1>3, <1>4

(* A byte has two numbers for its parts.                                   *)
LEMMA RangeTypes ==
  ASSUME NEW s \in Seq(Byte)
  PROVE  \A b \in Range(s) : b[1] \in Nat /\ b[2] \in Nat
  <1>1. \A i \in DOMAIN s : s[i] \in Byte
    BY ElementOfSeq, LenProperties
  <1> QED
    BY <1>1 DEF Range, Byte

-----------------------------------------------------------------------------
(* What a command leaves to send, USBTMC: the whole of it is owed, none of *)
(* it read.                                                                *)
LEMMA AnswersUsbtmc ==
  ASSUME TypeOK, ViewTypes, OffInv, mode = "usbtmc", NEW n \in Nat, Answer(n),
         exec' = "idle", UNCHANGED <<mode, tx>>
  PROVE  /\ ViewTypes' /\ ReadInv' /\ LineInv'
         /\ reply' \in ReplyType /\ mav' \in BOOLEAN /\ whole' \in BOOLEAN
         /\ bus' \in {"nak", "read"}
         /\ tx' = <<>> /\ writing' = <<>> /\ waived' = waived
  <1>m. mode # "cdc" /\ mode' = "usbtmc" /\ mode' # "cdc" /\ mode # Off
    BY Names DEF Off
  <1>1. AnswerUsbtmc(n)
    BY <1>m DEF Answer
  <1>2. /\ reply' = Captured(n) /\ mav' = reply'.ready
        /\ owed' = Bytes(Number, n) /\ got' = <<>> /\ whole' = FALSE
        /\ bus' \in {"nak", "read"} /\ writing' = writing
        /\ waived' = waived
    BY <1>1 DEF AnswerUsbtmc
  <1>3. Number \in Nat
    BY SentTypes
  <1>4. owed' \in Seq(Byte) /\ Len(owed') = n
    BY <1>2, <1>3, BytesTypes
  <1>5. /\ reply' \in ReplyType
        /\ reply'.ready <=> n \in 1 .. ReplyCapacity
        /\ reply'.to = Number /\ reply'.offset = 0
        /\ n <= ReplyCapacity => reply'.len = n
    BY <1>2, <1>3, CapturedTypes
  <1>6. got' \in Seq(Byte) /\ Len(got') = 0
    BY <1>2, EmptySeq
  <1>7. tx' = <<>> /\ writing' = <<>> /\ tx' \in Seq(Byte) /\ writing' \in Seq(Byte)
    BY <1>m, <1>2, EmptySeq DEF OffInv
  <1>8. mav' \in BOOLEAN /\ whole' \in BOOLEAN
    BY <1>2, <1>5 DEF ReplyType
  <1>9. got' = SubSeq(owed', 1, Len(got'))
    BY <1>2, <1>6, SubSeqEmpty
  <1>10. reply'.ready => /\ n > 0 /\ n <= ReplyCapacity
                         /\ reply'.len = n /\ owed' = Bytes(reply'.to, reply'.len)
    BY <1>2, <1>5, Capacities
  <1>11. ReadInv'
    <2>1. Len(got') <= Len(owed')
      BY <1>4, <1>6
    <2>2. whole' <=> (got' # <<>> /\ got' = owed')
      BY <1>2
    <2>3. reply'.ready =>
         /\ exec' = "idle"
         /\ owed' = Bytes(reply'.to, reply'.len)
         /\ reply'.len > 0 /\ reply'.offset <= reply'.len
         /\ Len(got') = reply'.offset
         /\ bus' # "sending" => reply'.offset < reply'.len
      BY <1>5, <1>6, <1>10
    <2>4. ~reply'.ready => Len(owed') \notin 1 .. ReplyCapacity
      BY <1>4, <1>5
    <2> QED
      BY <1>2, <1>9, <2>1, <2>2, <2>3, <2>4 DEF ReadInv
  <1>12. LineInv'
    BY <1>m DEF LineInv
  <1> QED
    BY <1>2, <1>4, <1>5, <1>6, <1>7, <1>8, <1>11, <1>12 DEF ViewTypes

(* CDC: with the port open it comes after all that was owed before; else   *)
(* it is owed, and given up.                                               *)
LEMMA AnswersCdc ==
  ASSUME TypeOK, ViewTypes, LineInv, mode = "cdc", NEW n \in Nat, Answer(n),
         packets > 0 \/ exec # "idle", Number > 0,
         packets' = 0, exec' = "idle", UNCHANGED <<mode, sent, tx>>
  PROVE  /\ ViewTypes' /\ ReadInv' /\ LineInv'
         /\ waived' \in {waived, waived \cup {Number}}
         /\ UNCHANGED <<bus, reply, mav, got, whole>>
  <1>1. AnswerCdc(n)
    BY DEF Answer
  <1> DEFINE b == Bytes(Number, n)
  <1>2. /\ owed' = owed \o b
        /\ \/ dtr /\ writing' = writing \o b /\ waived' = waived
           \/ ~dtr /\ waived' = waived \cup {Number} /\ writing' = writing
        /\ UNCHANGED <<bus, reply, mav, got, whole>>
    BY <1>1 DEF AnswerCdc
  <1>3. Number \in Nat /\ Number' = Number
    BY SentTypes DEF Number
  <1>4. /\ b \in Seq(Byte) /\ InOrder(b)
        /\ \A c \in Range(b) : c[1] = Number
    BY <1>3, BytesTypes, BytesInOrder
  <1> HIDE DEF b
  <1>5. /\ got \in Seq(Byte) /\ tx \in Seq(Byte) /\ writing \in Seq(Byte)
        /\ owed \in Seq(Byte)
    BY DEF ViewTypes
  <1>6. /\ Line \in Seq(Byte) /\ Heard \in Seq(Byte)
        /\ owed \o b \in Seq(Byte) /\ writing \o b \in Seq(Byte)
    BY <1>4, <1>5, ConcatProperties DEF Line, Heard
  <1>7. Range(owed') = Range(owed) \cup Range(b)
    BY <1>2, <1>4, <1>5, RangeConcat
  <1>8. /\ InOrder(Heard) /\ Range(Heard) \subseteq Range(owed)
        /\ \A c \in Range(owed) : c[1] \in waived \/ c \in Range(Heard)
        /\ \A c \in Range(owed) : c[1] \in 1 .. Number
        /\ \A c \in Range(owed) : c[1] < Number
    BY DEF LineInv
  <1>9. \A c \in Range(owed') : c[1] \in 1 .. Number'
    BY <1>3, <1>4, <1>7, <1>8
  <1>10. CASE dtr /\ writing' = writing \o b /\ waived' = waived
    <2>1. Heard' = Heard \o b
      <3>0. \A x, y, z \in Seq(Byte) : (x \o y) \o z = x \o (y \o z)
        BY ConcatAssociative
      <3>1. tx \o (writing \o b) = Line \o b
        BY <1>4, <1>5, <3>0, Zenon DEF Line
      <3>2. \A y, z \in Seq(Byte) : (got \o y) \o z = got \o (y \o z)
        BY <1>5, <3>0
      <3>3. (got \o Line) \o b = got \o (Line \o b)
        BY ONLY <1>4, <1>6, <3>2
      <3>4. Heard' = got \o (tx \o (writing \o b))
        BY <1>2, <1>10 DEF Heard, Line
      <3> QED
        BY <3>1, <3>3, <3>4 DEF Heard
    <2>2. \A x \in Range(Heard), y \in Range(b) : Before(x, y)
      BY <1>4, <1>8 DEF Before
    <2>3. InOrder(Heard')
      BY <1>4, <1>6, <1>8, <2>1, <2>2, OrderConcat
    <2>4. Range(Heard') = Range(Heard) \cup Range(b)
      BY <1>4, <1>6, <2>1, RangeConcat
    <2>5. \A c \in Range(owed') : c[1] \in waived' \/ c \in Range(Heard')
      BY <1>7, <1>8, <1>10, <2>4
    <2>6. LineInv'
      BY <1>7, <1>8, <1>9, <2>3, <2>4, <2>5 DEF LineInv
    <2>7. ViewTypes'
      BY <1>2, <1>5, <1>6, <1>10 DEF ViewTypes
    <2> QED
      BY <1>2, <1>10, <2>6, <2>7 DEF ReadInv
  <1>11. CASE ~dtr /\ waived' = waived \cup {Number} /\ writing' = writing
    <2>1. Heard' = Heard
      BY <1>2, <1>11 DEF Heard, Line
    <2>2. \A c \in Range(owed') : c[1] \in waived' \/ c \in Range(Heard')
      BY <1>4, <1>7, <1>8, <1>11, <2>1
    <2>3. LineInv'
      BY <1>7, <1>8, <1>9, <2>1, <2>2 DEF LineInv
    <2>4. ViewTypes'
      BY <1>2, <1>5, <1>6, <1>11 DEF ViewTypes
    <2> QED
      BY <1>2, <1>11, <2>3, <2>4 DEF ReadInv
  <1> QED
    BY <1>2, <1>10, <1>11

(* Both, as the steps of a command use them.                               *)
LEMMA Answers ==
  ASSUME TypeOK, ViewTypes, OffInv, LineInv, mode # Off, bus = "read",
         NEW n \in Nat, Answer(n), packets > 0 \/ exec # "idle", Number > 0,
         packets' = 0, exec' = "idle", UNCHANGED <<mode, sent, tx>>
  PROVE  /\ ViewTypes' /\ BusInv' /\ OffInv' /\ ReadInv' /\ LineInv'
         /\ reply' \in ReplyType /\ mav' \in BOOLEAN /\ whole' \in BOOLEAN
         /\ bus' \in {"nak", "read"}
         /\ waived' \subseteq 1 .. Number'
  <1>m. mode' # Off /\ mode' = mode
    OBVIOUS
  <1>1. CASE mode = "usbtmc"
    <2>1. /\ ViewTypes' /\ ReadInv' /\ LineInv'
          /\ reply' \in ReplyType /\ mav' \in BOOLEAN /\ whole' \in BOOLEAN
          /\ bus' \in {"nak", "read"}
          /\ tx' = <<>> /\ writing' = <<>> /\ waived' = waived
      BY <1>1, AnswersUsbtmc
    <2>2. BusInv'
      BY <1>1, <1>m, <2>1 DEF BusInv, Number
    <2>3. OffInv'
      BY <1>1, <1>m, <2>1 DEF OffInv
    <2>4. waived' \subseteq 1 .. Number'
      BY <2>1 DEF TypeOK, Number
    <2> QED
      BY <2>1, <2>2, <2>3, <2>4
  <1>2. CASE mode = "cdc"
    <2>1. /\ ViewTypes' /\ ReadInv' /\ LineInv'
          /\ waived' \in {waived, waived \cup {Number}}
          /\ UNCHANGED <<bus, reply, mav, got, whole>>
      BY <1>2, AnswersCdc
    <2>2. BusInv'
      BY <1>2, <1>m, <2>1 DEF BusInv, Number
    <2>3. OffInv'
      BY <1>2, <1>m, <2>1 DEF OffInv
    <2>4. reply \in ReplyType /\ mav \in BOOLEAN /\ whole \in BOOLEAN
      BY DEF TypeOK, ReplyType
    <2>5. waived \subseteq 1 .. Number /\ Number' = Number /\ Number \in Nat
      BY SentTypes DEF TypeOK, Number
    <2>6. waived' \subseteq 1 .. Number'
      BY <2>1, <2>5
    <2> QED
      BY <2>1, <2>2, <2>3, <2>4, <2>6
  <1> QED
    BY <1>1, <1>2, Names DEF TypeOK

-----------------------------------------------------------------------------
(* A step that leaves the reply and what the host knows of it alone.       *)
LEMMA ReadKept ==
  ASSUME ReadInv, UNCHANGED <<mode, owed, got, whole, reply, mav>>,
         exec' = "idle" <=> exec = "idle", bus = "sending" => bus' = "sending"
  PROVE  ReadInv'
  BY DEF ReadInv

LEMMA LineKept ==
  ASSUME LineInv, UNCHANGED <<mode, sent, owed, got, tx, writing, waived>>,
         packets' > 0 \/ exec' # "idle" => packets > 0 \/ exec # "idle"
  PROVE  LineInv'
  BY DEF LineInv, Heard, Line, Number

LEMMA NotCdc ==
  ASSUME mode' # "cdc"
  PROVE  LineInv'
  BY DEF LineInv

LEMMA ViewKept ==
  ASSUME ViewTypes, UNCHANGED <<owed, got, tx, writing>>
  PROVE  ViewTypes'
  BY DEF ViewTypes

(* Messages given up are messages that were sent.                          *)
LEMMA WaivedTypes ==
  ASSUME TypeOK, sent' \in Seq(Messages), Len(sent') >= Len(sent),
         waived' \in {waived, waived \cup 1 .. Number}
  PROVE  waived' \subseteq 1 .. Number'
  <1>1. Number \in Nat /\ Number' \in Nat /\ Number <= Number'
    BY SentTypes, LenProperties DEF Number
  <1>2. waived \subseteq 1 .. Number
    BY DEF TypeOK
  <1> QED
    BY <1>1, <1>2

LEMMA Initial == Init => IInv
  <1> SUFFICES ASSUME Init PROVE IInv
    OBVIOUS
  <1>1. /\ mode = Off /\ bus = "none" /\ packets = 0 /\ sent = <<>>
        /\ exec = "idle" /\ rebooting = FALSE
        /\ reply = NoReply /\ mav = FALSE /\ writing = <<>> /\ tx = <<>>
        /\ owed = <<>> /\ got = <<>> /\ whole = FALSE /\ waived = {}
        /\ torn = FALSE /\ dtr = FALSE /\ config = DefaultMode /\ flash \in Modes \cup {Blank}
    BY DEF Init
  <1>2. <<>> \in Seq(Byte) /\ <<>> \in Seq(Messages)
    BY EmptySeq
  <1>3. reply \in ReplyType /\ ~reply.ready
    BY <1>1, NoReplyTypes
  <1>4. TypeOK
    BY <1>1, <1>2, <1>3, Capacities DEF TypeOK, ReplyType
  <1>5. ViewTypes
    BY <1>1, <1>2 DEF ViewTypes
  <1>6. mode # "usbtmc" /\ mode # "cdc" /\ mode = Off
    BY <1>1, Names DEF Off
  <1>7. RecordInv
    BY <1>1 DEF RecordInv
  <1>8. BusInv
    BY <1>1 DEF BusInv
  <1>9. OffInv
    BY <1>1, <1>3 DEF OffInv
  <1>10. ReadInv /\ LineInv
    BY <1>6 DEF ReadInv, LineInv
  <1> QED
    BY <1>4, <1>5, <1>7, <1>8, <1>9, <1>10 DEF IInv

LEMMA StartKeeps == IInv /\ Start => IInv'
  <1> SUFFICES ASSUME IInv, Start PROVE IInv'
    OBVIOUS
  <1>1. /\ mode = Off /\ config' = ModeAtStart(flash) /\ mode' = config'
        /\ bus' = "read"
        /\ UNCHANGED <<flash, torn, dtr, packets, sent, exec, rebooting, reply, mav,
                       writing, tx, owed, got, whole, waived>>
    BY DEF Start, response, view
  <1>2. TypeOK /\ ViewTypes /\ RecordInv /\ BusInv /\ OffInv /\ ReadInv /\ LineInv
    BY DEF IInv
  <1>3. config' \in Modes
    BY <1>1, <1>2, Capacities DEF ModeAtStart, TypeOK
  <1>4. TypeOK'
    BY <1>1, <1>2, <1>3, Names DEF TypeOK, Number
  <1>5. ViewTypes'
    BY <1>1, <1>2, ViewKept
  <1>6. RecordInv'
    BY <1>1, <1>2, <1>3, Names DEF RecordInv, Number, Message
  <1>7. mode # "cdc" /\ mode # "usbtmc" /\ mode' # Off
    BY <1>1, <1>3, Names DEF Off
  <1>8. BusInv'
    BY <1>1, <1>2, <1>7 DEF BusInv
  <1>9. /\ owed = <<>> /\ got = <<>> /\ ~whole /\ ~reply.ready /\ ~mav
        /\ tx = <<>> /\ writing = <<>>
    BY <1>1, <1>2, <1>7 DEF OffInv
  <1>10. OffInv'
    BY <1>1, <1>7, <1>9 DEF OffInv
  <1>11. Len(<<>>) = 0 /\ <<>> \in Seq(Byte)
    BY EmptySeq
  <1>12. SubSeq(owed, 1, 0) = <<>>
    BY SubSeqEmpty
  <1>13. ReadInv'
    <2>1. mav \in BOOLEAN /\ reply.ready \in BOOLEAN
      BY <1>2 DEF TypeOK
    <2>2. mav = reply.ready
      BY <2>1, <1>9
    <2>3. /\ Len(got) <= Len(owed) /\ got = SubSeq(owed, 1, Len(got))
          /\ whole <=> (got # <<>> /\ got = owed)
          /\ Len(owed) \notin 1 .. ReplyCapacity
      BY <1>9, <1>11, <1>12
    <2> QED
      BY <1>1, <1>9, <2>2, <2>3 DEF ReadInv
  <1>14. Range(<<>>) = {} /\ DOMAIN <<>> = {}
    BY <1>11 DEF Range
  <1>15. LineInv'
    <2>1. <<>> \o (<<>> \o <<>>) = <<>>
      BY <1>11, ConcatEmptySeq
    <2>2. Heard' = <<>> /\ owed' = <<>>
      BY <1>1, <1>9, <2>1 DEF Heard, Line
    <2>3. InOrder(Heard')
      BY <1>14, <2>2 DEF InOrder
    <2>4. Range(Heard') = {} /\ Range(owed') = {}
      BY <1>14, <2>2
    <2> QED
      BY <2>3, <2>4 DEF LineInv
  <1> QED
    BY <1>4, <1>5, <1>6, <1>8, <1>10, <1>13, <1>15 DEF IInv

LEMMA CutKeeps == IInv /\ Cut => IInv'
  <1> SUFFICES ASSUME IInv, Cut PROVE IInv'
    OBVIOUS
  <1>1. /\ mode' = Off /\ dtr' = FALSE /\ bus' = "none" /\ packets' = 0
        /\ exec' = "idle" /\ rebooting' = FALSE
        /\ reply' = NoReply /\ mav' = FALSE /\ writing' = <<>> /\ tx' = <<>>
        /\ owed' = <<>> /\ got' = <<>> /\ whole' = FALSE
        /\ waived' = waived \cup 1 .. Number
        /\ torn' = (torn \/ exec = "erased")
        /\ UNCHANGED <<flash, config, sent>>
    BY DEF Cut
  <1>2. TypeOK
    BY DEF IInv
  <1>3. <<>> \in Seq(Byte)
    BY EmptySeq
  <1>4. reply' \in ReplyType /\ ~reply'.ready
    BY <1>1, NoReplyTypes
  <1>5. sent' \in Seq(Messages) /\ Len(sent') >= Len(sent)
    BY <1>1, <1>2, SentTypes DEF TypeOK, Number
  <1>6. waived' \subseteq 1 .. Number'
    BY <1>1, <1>2, <1>5, WaivedTypes
  <1>7. TypeOK'
    BY <1>1, <1>2, <1>4, <1>5, <1>6 DEF TypeOK, ReplyType
  <1>8. ViewTypes'
    BY <1>1, <1>3 DEF ViewTypes
  <1>9. mode' # "usbtmc" /\ mode' # "cdc" /\ mode' = Off
    BY <1>1, Names DEF Off
  <1>10. RecordInv'
    BY <1>1 DEF RecordInv
  <1>11. BusInv'
    BY <1>1 DEF BusInv
  <1>12. OffInv'
    BY <1>1, <1>4 DEF OffInv
  <1>13. ReadInv' /\ LineInv'
    BY <1>9, NotCdc DEF ReadInv
  <1> QED
    BY <1>7, <1>8, <1>10, <1>11, <1>12, <1>13 DEF IInv

-----------------------------------------------------------------------------
(* The last piece of a message but one, and the message itself.            *)
LEMMA TakeKeeps == IInv /\ Take => IInv'
  <1> SUFFICES ASSUME IInv, Take PROVE IInv'
    OBVIOUS
  <1>1. /\ packets > 0 /\ bus = "read" /\ packets' = packets - 1
        /\ IF packets = 1 THEN Execute
           ELSE UNCHANGED <<bus, exec, rebooting, reply, mav, writing, owed,
                            got, whole, waived>>
        /\ UNCHANGED <<flash, config, torn, mode, dtr, sent, tx>>
    BY DEF Take, store, port, response, view
  <1>2. TypeOK /\ ViewTypes /\ RecordInv /\ BusInv /\ OffInv /\ ReadInv /\ LineInv
    BY DEF IInv
  <1>3. packets \in Nat /\ packets' \in Nat
    BY <1>1, <1>2 DEF TypeOK
  <1>4. Number > 0 /\ Number' = Number /\ mode # Off /\ exec = "idle"
    BY <1>1, <1>2, <1>3 DEF BusInv, Number
  <1>5. waived' = waived => waived' \subseteq 1 .. Number'
    BY <1>2, <1>4 DEF TypeOK
  <1>6. CASE packets # 1
    <2>1. UNCHANGED <<bus, exec, rebooting, reply, mav, writing, owed, got,
                      whole, waived>>
      BY <1>1, <1>6
    <2>2. TypeOK'
      BY <1>1, <1>2, <1>3, <1>5, <2>1 DEF TypeOK
    <2>3. ViewTypes' /\ LineInv'
      BY <1>1, <1>2, <1>4, <2>1, ViewKept, LineKept
    <2>4. RecordInv'
      BY <1>1, <1>2, <2>1 DEF RecordInv, Number, Message
    <2>5. BusInv'
      BY <1>1, <1>2, <1>4, <2>1 DEF BusInv
    <2>6. OffInv'
      BY <1>1, <1>2, <2>1 DEF OffInv
    <2>7. ReadInv'
      BY <1>1, <1>2, <2>1, ReadKept
    <2> QED
      BY <2>2, <2>3, <2>4, <2>5, <2>6, <2>7 DEF IInv
  <1>7. CASE packets = 1 /\ Message(Number).effect \in Modes
    <2>1. /\ exec' = "begun" /\ reply' = NoReply /\ mav' = FALSE
          /\ UNCHANGED <<bus, writing, owed, got, whole, waived, rebooting>>
      BY <1>1, <1>7 DEF Execute, view
    <2>2. reply' \in ReplyType /\ ~reply'.ready
      BY <2>1, NoReplyTypes
    <2>3. TypeOK'
      BY <1>1, <1>2, <1>3, <1>5, <2>1, <2>2 DEF TypeOK, ReplyType
    <2>4. ViewTypes' /\ LineInv'
      BY <1>1, <1>2, <2>1, ViewKept, LineKept
    <2>5. RecordInv'
      BY <1>1, <1>2, <1>4, <1>7, <2>1 DEF RecordInv, Number, Message
    <2>6. BusInv'
      BY <1>1, <1>2, <1>3, <1>4, <1>7, <2>1 DEF BusInv
    <2>7. OffInv'
      BY <1>1, <1>2, <1>4, <2>1 DEF OffInv
    <2>8. mav' = reply'.ready
      BY <2>1, <2>2 DEF ReplyType
    <2>9. ReadInv'
      BY <1>1, <1>2, <2>1, <2>2, <2>8 DEF ReadInv
    <2> QED
      BY <2>3, <2>4, <2>5, <2>6, <2>7, <2>9 DEF IInv
  <1>8. CASE packets = 1 /\ Message(Number).effect \notin Modes
    <2>1. /\ Answer(Message(Number).reply)
          /\ rebooting' = (rebooting \/ Message(Number).effect = "boot")
          /\ UNCHANGED exec
      BY <1>1, <1>8 DEF Execute
    <2>2. Message(Number).reply \in Nat
      BY <1>2, <1>4, SentTypes, MessageTypes
    <2>3. Len(sent') > 0 /\ exec' = "idle"
      BY <1>4, <2>1 DEF Number
    <2>4. /\ ViewTypes' /\ BusInv' /\ OffInv' /\ ReadInv' /\ LineInv'
          /\ reply' \in ReplyType /\ mav' \in BOOLEAN /\ whole' \in BOOLEAN
          /\ bus' \in {"nak", "read"}
          /\ waived' \subseteq 1 .. Number'
      BY <1>1, <1>2, <1>3, <1>4, <1>8, <2>1, <2>2, <2>3, Answers
    <2>5. TypeOK'
      BY <1>1, <1>2, <1>3, <2>1, <2>4 DEF TypeOK, ReplyType
    <2>6. RecordInv'
      BY <1>1, <1>2, <1>4, <2>3 DEF RecordInv
    <2> QED
      BY <2>4, <2>5, <2>6 DEF IInv
  <1> QED
    BY <1>6, <1>7, <1>8

(* A command that ends: what it answers, and the record it leaves.         *)
LEMMA CommandEnds ==
  ASSUME IInv, exec # "idle", exec' = "idle", NEW n \in Nat, Answer(n),
         config' \in Modes, flash' \in Modes \cup {Blank}, torn' \in BOOLEAN,
         ~torn' => ModeAtStart(flash') = config',
         UNCHANGED <<mode, dtr, packets, sent, rebooting, tx>>
  PROVE  IInv'
  <1>2. TypeOK /\ ViewTypes /\ RecordInv /\ BusInv /\ OffInv /\ LineInv
    BY DEF IInv
  <1>3. Number > 0 /\ mode # Off /\ bus = "read" /\ packets' = 0
    BY <1>2 DEF RecordInv, BusInv, TypeOK, Number
  <1>4. /\ ViewTypes' /\ BusInv' /\ OffInv' /\ ReadInv' /\ LineInv'
        /\ reply' \in ReplyType /\ mav' \in BOOLEAN /\ whole' \in BOOLEAN
        /\ bus' \in {"nak", "read"}
        /\ waived' \subseteq 1 .. Number'
    BY <1>2, <1>3, Answers
  <1>5. TypeOK'
    BY <1>2, <1>3, <1>4 DEF TypeOK, ReplyType
  <1>6. RecordInv'
    BY DEF RecordInv
  <1> QED
    BY <1>4, <1>5, <1>6 DEF IInv

LEMMA EraseKeeps == IInv /\ Erase => IInv'
  <1> SUFFICES ASSUME IInv, Erase PROVE IInv'
    OBVIOUS
  <1>1. /\ exec = "begun"
        /\ \/ /\ exec' = "erased" /\ flash' = Blank
              /\ UNCHANGED <<bus, reply, mav, writing, owed, got, whole, waived>>
           \/ exec' = "idle" /\ Answer(0) /\ UNCHANGED flash
        /\ UNCHANGED <<config, torn, mode, dtr, packets, sent, rebooting, tx>>
    BY DEF Erase, port, response, view
  <1>2. TypeOK /\ ViewTypes /\ RecordInv /\ BusInv /\ OffInv /\ ReadInv /\ LineInv
    BY DEF IInv
  <1>3. CASE /\ exec' = "erased" /\ flash' = Blank
             /\ UNCHANGED <<bus, reply, mav, writing, owed, got, whole, waived>>
    <2>1. TypeOK'
      BY <1>1, <1>2, <1>3 DEF TypeOK, Number
    <2>2. ViewTypes' /\ LineInv'
      BY <1>1, <1>2, <1>3, ViewKept, LineKept
    <2>3. RecordInv'
      BY <1>1, <1>2, <1>3 DEF RecordInv, Number, Message
    <2>4. BusInv'
      BY <1>1, <1>2, <1>3 DEF BusInv, Number
    <2>5. OffInv'
      BY <1>1, <1>2, <1>3 DEF OffInv
    <2>6. ReadInv'
      BY <1>1, <1>2, <1>3, ReadKept
    <2> QED
      BY <2>1, <2>2, <2>3, <2>4, <2>5, <2>6 DEF IInv
  <1>4. CASE exec' = "idle" /\ Answer(0) /\ UNCHANGED flash
    <2>1. config' \in Modes /\ flash' \in Modes \cup {Blank} /\ torn' \in BOOLEAN
      BY <1>1, <1>2, <1>4 DEF TypeOK
    <2>2. ~torn' => ModeAtStart(flash') = config'
      BY <1>1, <1>2, <1>4 DEF RecordInv
    <2> QED
      BY <1>1, <1>4, <2>1, <2>2, CommandEnds
  <1> QED
    BY <1>1, <1>3, <1>4

LEMMA ProgramKeeps == IInv /\ Program => IInv'
  <1> SUFFICES ASSUME IInv, Program PROVE IInv'
    OBVIOUS
  <1> DEFINE chosen == Message(Number).effect
  <1>1. /\ exec = "erased" /\ exec' = "idle"
        /\ \/ /\ flash' = IF flash = Blank THEN chosen ELSE Blank
              /\ IF flash' = chosen
                 THEN config' = chosen /\ Answer(Message(Number).reply)
                 ELSE Answer(0) /\ UNCHANGED config
              /\ UNCHANGED torn
           \/ Answer(0) /\ torn' = TRUE /\ UNCHANGED <<flash, config>>
        /\ UNCHANGED <<mode, dtr, packets, sent, rebooting, tx>>
    BY DEF Program, port
  <1>2. TypeOK /\ RecordInv
    BY DEF IInv
  <1>3. chosen \in Modes /\ flash = Blank /\ Number > 0 /\ chosen # Blank
    BY <1>1, <1>2, Names DEF RecordInv
  <1>4. Message(Number).reply \in Nat
    BY <1>2, <1>3, SentTypes, MessageTypes
  <1> HIDE DEF chosen
  <1>5. CASE /\ flash' = chosen /\ config' = chosen
             /\ Answer(Message(Number).reply) /\ UNCHANGED torn
    <2>1. ModeAtStart(flash') = config'
      BY <1>3, <1>5 DEF ModeAtStart
    <2>2. torn' \in BOOLEAN
      BY <1>2, <1>5 DEF TypeOK
    <2> QED
      BY <1>1, <1>3, <1>4, <1>5, <2>1, <2>2, CommandEnds
  <1>6. CASE Answer(0) /\ torn' = TRUE /\ UNCHANGED <<flash, config>>
    <2>1. config' \in Modes /\ flash' \in Modes \cup {Blank}
      BY <1>2, <1>6 DEF TypeOK
    <2> QED
      BY <1>1, <1>6, <2>1, CommandEnds
  <1> QED
    BY <1>1, <1>3, <1>5, <1>6

-----------------------------------------------------------------------------
(* USBTMC.                                                                 *)
LEMMA SendMessageKeeps ==
  ASSUME IInv, NEW m \in Messages, SendMessage(m)
  PROVE  IInv'
  <1>1. /\ mode = "usbtmc" /\ bus = "read" /\ packets = 0 /\ exec = "idle"
        /\ sent' = Append(sent, m)
        /\ waived' = waived \cup 1 .. Number
        /\ \/ bus' = "refused" /\ UNCHANGED packets
           \/ packets' = m.size /\ UNCHANGED bus
        /\ UNCHANGED <<flash, config, torn, mode, dtr, exec, rebooting, reply, mav,
                       writing, tx, owed, got, whole>>
    BY DEF SendMessage, store, port, response, view
  <1>2. TypeOK /\ ViewTypes /\ RecordInv /\ BusInv /\ OffInv /\ ReadInv /\ LineInv
    BY DEF IInv
  <1>3. sent' \in Seq(Messages) /\ Len(sent') = Len(sent) + 1 /\ Len(sent) \in Nat
    BY <1>1, <1>2, AppendProperties, LenProperties DEF TypeOK
  <1>4. Number' > 0
    BY <1>3 DEF Number
  <1>5. waived' \subseteq 1 .. Number'
    BY <1>1, <1>2, <1>3, WaivedTypes
  <1>6. packets' \in Nat
    BY <1>1, MessageTypes
  <1>7. TypeOK'
    BY <1>1, <1>2, <1>3, <1>5, <1>6 DEF TypeOK
  <1>9. mode # Off /\ mode' # "cdc"
    BY <1>1, Names DEF Off
  <1>8. ViewTypes' /\ LineInv'
    BY <1>1, <1>2, <1>9, ViewKept, NotCdc
  <1>10. RecordInv'
    BY <1>1, <1>2, <1>9 DEF RecordInv
  <1>11. BusInv'
    BY <1>1, <1>4, <1>9 DEF BusInv
  <1>12. OffInv'
    BY <1>1, <1>2 DEF OffInv
  <1>13. ReadInv'
    BY <1>1, <1>2, ReadKept
  <1> QED
    BY <1>7, <1>8, <1>10, <1>11, <1>12, <1>13 DEF IInv

(* A request continues where the last one ended.                           *)
LEMMA RequestKeeps ==
  ASSUME IInv, NEW size \in 1 .. ReplyCapacity, Request(size)
  PROVE  IInv'
  <1> DEFINE left == reply.len - reply.offset
             n == IF left < size THEN left ELSE size
  <1>1. /\ mode = "usbtmc" /\ bus = "read" /\ packets = 0 /\ exec = "idle"
        /\ IF reply.ready /\ left > 0
           THEN /\ bus' = "sending"
                /\ got' = got \o SubSeq(Bytes(reply.to, reply.len),
                                        reply.offset + 1, reply.offset + n)
                /\ whole' = (n = left)
                /\ reply' = [reply EXCEPT !.offset = @ + n]
           ELSE bus' = "requested" /\ UNCHANGED <<got, whole, reply>>
        /\ UNCHANGED <<flash, config, torn, mode, dtr, packets, sent, exec,
                       rebooting, mav, writing, tx, owed, waived>>
    BY DEF Request, store, port
  <1>2. TypeOK /\ ViewTypes /\ RecordInv /\ BusInv /\ OffInv /\ ReadInv /\ LineInv
    BY DEF IInv
  <1>3. mode # "cdc" /\ mode # Off /\ mode' = mode
    BY <1>1, Names DEF Off
  <1>4. RecordInv'
    BY <1>1, <1>2 DEF RecordInv, Number, Message
  <1>5. LineInv'
    BY <1>3, NotCdc
  <1>6. OffInv'
    BY <1>1, <1>2, <1>3 DEF OffInv
  <1>7. waived' \subseteq 1 .. Number' /\ Number' = Number
    BY <1>1, <1>2 DEF TypeOK, Number
  <1>8. CASE ~(reply.ready /\ left > 0)
    <2>1. bus' = "requested" /\ UNCHANGED <<got, whole, reply>>
      BY <1>1, <1>8
    <2>2. TypeOK'
      BY <1>1, <1>2, <1>7, <2>1 DEF TypeOK
    <2>3. ViewTypes'
      BY <1>1, <1>2, <2>1, ViewKept
    <2>4. BusInv'
      BY <1>1, <2>1, <1>3 DEF BusInv
    <2>5. ReadInv'
      BY <1>1, <1>2, <2>1, ReadKept
    <2> QED
      BY <1>4, <1>5, <1>6, <2>2, <2>3, <2>4, <2>5 DEF IInv
  <1>9. CASE reply.ready /\ left > 0
    <2>1. /\ bus' = "sending" /\ whole' = (n = left)
          /\ got' = got \o SubSeq(Bytes(reply.to, reply.len),
                                  reply.offset + 1, reply.offset + n)
          /\ reply' = [reply EXCEPT !.offset = @ + n]
      BY <1>1, <1>9
    <2>2. /\ owed = Bytes(reply.to, reply.len) /\ Len(got) = reply.offset
          /\ got = SubSeq(owed, 1, Len(got)) /\ mav = reply.ready
      BY <1>1, <1>2, <1>9 DEF ReadInv
    <2>3. /\ reply \in ReplyType /\ reply.len \in 0 .. ReplyCapacity
          /\ reply.offset \in 0 .. ReplyCapacity /\ reply.to \in Nat
      BY <1>2 DEF TypeOK, ReplyType
    <2>4. /\ n \in Nat /\ n > 0 /\ n <= left
          /\ reply.offset + n \in 0 .. ReplyCapacity
          /\ reply.offset + n <= reply.len
          /\ reply.offset + n = reply.len <=> n = left
      BY <1>9, <2>3, Capacities
    <2> DEFINE o == reply.offset + n
    <2>5. /\ reply' \in ReplyType /\ reply'.offset = o
          /\ reply'.len = reply.len /\ reply'.to = reply.to
          /\ reply'.ready = reply.ready
      BY <2>1, <2>3, <2>4 DEF ReplyType
    <2>6. owed \in Seq(Byte) /\ Len(owed) = reply.len
      <3>1. reply.len \in Nat
        BY <2>3
      <3>2. Len(Bytes(reply.to, reply.len)) = reply.len
        BY <2>3, <3>1, BytesTypes
      <3> QED
        BY <1>2, <2>2, <3>2 DEF ViewTypes
    <2>7. got' = SubSeq(owed, 1, o)
      <3>1. /\ 1 \in 1 .. Len(owed) + 1 /\ reply.offset \in 1 - 1 .. Len(owed)
            /\ o \in reply.offset .. Len(owed)
        BY <2>3, <2>4, <2>6
      <3>2. SubSeq(owed, 1, reply.offset) \o SubSeq(owed, reply.offset + 1, o)
              = SubSeq(owed, 1, o)
        BY <2>6, <3>1, ConcatAdjacentSubSeq
      <3> QED
        BY <2>1, <2>2, <3>2
    <2>8. got' \in Seq(Byte) /\ Len(got') = o
      <3>1. \A i \in 1 .. o : owed[i] \in Byte
        BY <2>3, <2>4, <2>6, ElementOfSeq
      <3>2. /\ SubSeq(owed, 1, o) \in Seq(Byte)
            /\ Len(SubSeq(owed, 1, o)) = IF 1 <= o THEN o - 1 + 1 ELSE 0
        BY <2>3, <2>4, <3>1, SubSeqProperties
      <3> QED
        BY <2>3, <2>4, <2>7, <3>2
    <2>9. got' = owed <=> o = reply.len
      BY <2>6, <2>7, <2>8, SubSeqFull
    <2>10. got' # <<>>
      BY <2>3, <2>4, <2>8, EmptySeq
    <2>11. whole' <=> got' = owed
      BY <2>1, <2>4, <2>9
    <2>12. whole' \in BOOLEAN
      BY <2>1
    <2>13. /\ reply'.ready /\ exec' = "idle" /\ owed' = owed /\ mav' = reply'.ready
           /\ bus' = "sending" /\ packets' = 0
      BY <1>1, <1>9, <2>1, <2>2, <2>5
    <2> HIDE DEF n, left, o
    <2>14. TypeOK'
      BY <1>1, <1>2, <1>7, <2>1, <2>5, <2>12 DEF TypeOK, ReplyType
    <2>15. ViewTypes'
      BY <1>1, <1>2, <2>8 DEF ViewTypes
    <2>16. BusInv'
      BY <1>1, <1>3, <2>13 DEF BusInv
    <2>17. ReadInv'
      <3>1. o <= reply.len /\ o \in Nat
        BY <2>3, <2>4 DEF o
      <3>2. Len(got') <= Len(owed') /\ got' = SubSeq(owed', 1, Len(got'))
        BY <2>6, <2>7, <2>8, <2>13, <3>1
      <3>3. whole' <=> (got' # <<>> /\ got' = owed')
        BY <2>10, <2>11, <2>13
      <3>4. /\ owed' = Bytes(reply'.to, reply'.len)
            /\ reply'.len > 0 /\ reply'.offset <= reply'.len
            /\ Len(got') = reply'.offset
        BY <1>9, <2>2, <2>3, <2>5, <2>8, <2>13, <3>1 DEF left
      <3> QED
        BY <2>13, <3>2, <3>3, <3>4 DEF ReadInv
    <2> QED
      BY <1>4, <1>5, <1>6, <2>14, <2>15, <2>16, <2>17 DEF IInv
  <1> QED
    BY <1>8, <1>9

(* A reply is dropped when its last byte is sent, not before.              *)
LEMMA SentKeeps == IInv /\ Sent => IInv'
  <1> SUFFICES ASSUME IInv, Sent PROVE IInv'
    OBVIOUS
  <1>1. /\ bus = "sending" /\ bus' = "read"
        /\ IF reply.offset >= reply.len
           THEN reply' = NoReply /\ mav' = FALSE
           ELSE UNCHANGED <<reply, mav>>
        /\ UNCHANGED <<flash, config, torn, mode, dtr, packets, sent, exec,
                       rebooting, writing, tx, owed, got, whole, waived>>
    BY DEF Sent, store, port, view
  <1>2. TypeOK /\ ViewTypes /\ RecordInv /\ BusInv /\ OffInv /\ ReadInv /\ LineInv
    BY DEF IInv
  <1>3. mode = "usbtmc" /\ packets = 0 /\ exec = "idle"
    BY <1>1, <1>2 DEF BusInv
  <1>4. mode # "cdc" /\ mode # Off
    BY <1>3, Names DEF Off
  <1>5. /\ mav = reply.ready
        /\ Len(got) <= Len(owed) /\ got = SubSeq(owed, 1, Len(got))
        /\ whole <=> (got # <<>> /\ got = owed)
        /\ reply.ready =>
             /\ owed = Bytes(reply.to, reply.len) /\ Len(got) = reply.offset
             /\ reply.len > 0 /\ reply.offset <= reply.len
        /\ ~reply.ready => Len(owed) \notin 1 .. ReplyCapacity \/ whole
    BY <1>2, <1>3 DEF ReadInv
  <1>6. /\ reply.len \in 0 .. ReplyCapacity /\ reply.to \in Nat
        /\ reply.offset \in 0 .. ReplyCapacity
    BY <1>2 DEF TypeOK
  <1>7. owed \in Seq(Byte) /\ (reply.ready => Len(owed) = reply.len)
    <2>1. reply.len \in Nat
      BY <1>6
    <2>2. Len(Bytes(reply.to, reply.len)) = reply.len
      BY <1>6, <2>1, BytesTypes
    <2> QED
      BY <1>2, <1>5, <2>2 DEF ViewTypes
  <1>8. reply.ready /\ reply.offset >= reply.len => whole
    <2> SUFFICES ASSUME reply.ready PROVE reply.offset >= reply.len => whole
      OBVIOUS
    <2>1. reply.offset >= reply.len => reply.offset = reply.len
      BY <1>5, <1>6
    <2>2. reply.offset = reply.len => got = owed
      BY <1>5, <1>7, SubSeqFull
    <2>3. Len(owed) > 0
      BY <1>5, <1>7
    <2>4. owed # <<>>
      BY <2>3, EmptySeq
    <2> QED
      BY <1>5, <2>1, <2>2, <2>4
  <1>9. /\ reply' \in ReplyType /\ mav' \in BOOLEAN /\ mav' = reply'.ready
        /\ ~reply'.ready => Len(owed) \notin 1 .. ReplyCapacity \/ whole
        /\ reply'.ready => UNCHANGED reply /\ reply.ready /\ reply.offset < reply.len
    <2>1. CASE reply.offset >= reply.len
      <3>1. reply' = NoReply /\ mav' = FALSE
        BY <1>1, <2>1
      <3>2. reply' \in ReplyType /\ ~reply'.ready
        BY <3>1, NoReplyTypes
      <3>3. reply'.ready = FALSE
        BY <3>2 DEF ReplyType
      <3> QED
        BY <1>5, <1>8, <2>1, <3>1, <3>2, <3>3
    <2>2. CASE ~(reply.offset >= reply.len)
      <3>1. UNCHANGED <<reply, mav>>
        BY <1>1, <2>2
      <3>2. reply \in ReplyType /\ mav \in BOOLEAN
        BY <1>2 DEF TypeOK, ReplyType
      <3>3. reply.offset < reply.len
        BY <1>6, <2>2
      <3> QED
        BY <1>5, <3>1, <3>2, <3>3
    <2> QED
      BY <2>1, <2>2
  <1>10. TypeOK'
    BY <1>1, <1>2, <1>9 DEF TypeOK, ReplyType, Number
  <1>11. ViewTypes' /\ LineInv'
    BY <1>1, <1>2, <1>4, ViewKept, NotCdc
  <1>12. RecordInv'
    BY <1>1, <1>2 DEF RecordInv, Number, Message
  <1>13. BusInv'
    BY <1>1, <1>3, <1>4 DEF BusInv
  <1>14. OffInv'
    BY <1>1, <1>2, <1>4 DEF OffInv
  <1>15. ReadInv'
    BY <1>1, <1>3, <1>5, <1>9 DEF ReadInv
  <1> QED
    BY <1>10, <1>11, <1>12, <1>13, <1>14, <1>15 DEF IInv

(* A clear, an abort of a reply, a clear of the endpoint it is sent on:    *)
(* nothing is owed any more.                                               *)
LEMMA DroppedKeeps ==
  ASSUME IInv, mode = "usbtmc", exec = "idle", Dropped,
         \/ bus' = "clearing" /\ packets' \in {0, packets}
         \/ UNCHANGED <<bus, packets>>
  PROVE  IInv'
  <1>1. /\ reply' = NoReply /\ mav' = FALSE
        /\ owed' = <<>> /\ got' = <<>> /\ whole' = FALSE
        /\ waived' = waived \cup 1 .. Number
        /\ UNCHANGED <<flash, config, torn, mode, dtr, sent, exec, rebooting,
                       writing, tx>>
    BY DEF Dropped, store, port
  <1>2. TypeOK /\ ViewTypes /\ RecordInv /\ BusInv /\ OffInv
    BY DEF IInv
  <1>3. mode' = "usbtmc" /\ mode' # "cdc" /\ mode' # Off /\ exec' = "idle"
    BY <1>1, Names DEF Off
  <1>4. reply' \in ReplyType /\ ~reply'.ready
    BY <1>1, NoReplyTypes
  <1>5. sent' \in Seq(Messages) /\ Len(sent') >= Len(sent)
    BY <1>1, <1>2, SentTypes DEF TypeOK, Number
  <1>6. waived' \subseteq 1 .. Number'
    BY <1>1, <1>2, <1>5, WaivedTypes
  <1>b. /\ bus' \in {bus, "clearing"} /\ packets' \in {0, packets}
        /\ packets' \in Nat
    BY <1>2 DEF TypeOK
  <1>7. TypeOK'
    BY <1>1, <1>2, <1>4, <1>5, <1>6, <1>b DEF TypeOK, ReplyType
  <1>8. <<>> \in Seq(Byte) /\ Len(<<>>) = 0
    BY EmptySeq
  <1>9. ViewTypes'
    BY <1>1, <1>2, <1>8 DEF ViewTypes
  <1>10. RecordInv'
    BY <1>1, <1>2, <1>3 DEF RecordInv
  <1>11. BusInv'
    BY <1>1, <1>2, <1>3 DEF BusInv, TypeOK, Number
  <1>12. OffInv'
    BY <1>1, <1>2, <1>3 DEF OffInv
  <1>13. ReadInv'
    <2>1. SubSeq(owed', 1, 0) = <<>>
      BY SubSeqEmpty
    <2>2. /\ Len(got') <= Len(owed') /\ got' = SubSeq(owed', 1, Len(got'))
          /\ whole' <=> (got' # <<>> /\ got' = owed')
          /\ Len(owed') \notin 1 .. ReplyCapacity
      BY <1>1, <1>8, <2>1
    <2>3. mav' = reply'.ready
      BY <1>1, <1>4 DEF ReplyType
    <2> QED
      BY <1>4, <2>2, <2>3 DEF ReadInv
  <1>14. LineInv'
    BY <1>3, NotCdc
  <1> QED
    BY <1>7, <1>9, <1>10, <1>11, <1>12, <1>13, <1>14 DEF IInv

LEMMA DropKeeps == IInv /\ (Clear \/ AbortIn \/ ClearFeatureIn) => IInv'
  <1>1. ASSUME IInv, Clear PROVE IInv'
    BY <1>1, DroppedKeeps DEF Clear, IInv, BusInv
  <1>2. ASSUME IInv, AbortIn PROVE IInv'
    <2>1. mode = "usbtmc" /\ exec = "idle"
      BY <1>2 DEF AbortIn, IInv, BusInv
    <2> QED
      BY <1>2, <2>1, DroppedKeeps DEF AbortIn
  <1>3. ASSUME IInv, ClearFeatureIn PROVE IInv'
    BY <1>3, DroppedKeeps DEF ClearFeatureIn
  <1> QED
    BY <1>1, <1>2, <1>3

LEMMA MessageDropKeeps == IInv /\ (AbortOut \/ ClearFeatureOut) => IInv'
  <1> SUFFICES ASSUME IInv, AbortOut \/ ClearFeatureOut PROVE IInv'
    OBVIOUS
  <1>1. /\ mode = "usbtmc" /\ (bus \in {"refused", "nak"} \/ packets > 0)
        /\ bus' \in {"clearing", "read"} /\ packets' = 0
        /\ waived' = waived \cup 1 .. Number
        /\ UNCHANGED <<flash, config, torn, mode, dtr, sent, exec, rebooting,
                       reply, mav, writing, tx, owed, got, whole>>
    BY DEF AbortOut, ClearFeatureOut, MessageDropped, store, port, response, view
  <1>2. TypeOK /\ ViewTypes /\ RecordInv /\ BusInv /\ OffInv /\ ReadInv /\ LineInv
    BY DEF IInv
  <1>3. exec = "idle" /\ bus # "sending" /\ mode' # "cdc"
    BY <1>1, <1>2 DEF BusInv, TypeOK
  <1>4. sent' \in Seq(Messages) /\ Len(sent') >= Len(sent)
    BY <1>1, <1>2, SentTypes DEF TypeOK, Number
  <1>5. waived' \subseteq 1 .. Number'
    BY <1>1, <1>2, <1>4, WaivedTypes
  <1>6. TypeOK'
    BY <1>1, <1>2, <1>4, <1>5 DEF TypeOK
  <1>7. ViewTypes' /\ LineInv'
    BY <1>1, <1>2, <1>3, ViewKept, NotCdc
  <1>8. RecordInv'
    BY <1>1, <1>2, <1>3 DEF RecordInv
  <1>9. BusInv'
    BY <1>1, <1>3, Names DEF BusInv, Off
  <1>10. OffInv'
    BY <1>1, <1>2 DEF OffInv
  <1>11. ReadInv'
    BY <1>1, <1>2, <1>3, ReadKept
  <1> QED
    BY <1>6, <1>7, <1>8, <1>9, <1>10, <1>11 DEF IInv

LEMMA CheckClearKeeps == IInv /\ CheckClear => IInv'
  <1> SUFFICES ASSUME IInv, CheckClear PROVE IInv'
    OBVIOUS
  <1>1. /\ bus = "clearing" /\ bus' = "read"
        /\ UNCHANGED <<flash, config, torn, mode, dtr, packets, sent, exec,
                       rebooting, reply, mav, writing, tx, owed, got, whole,
                       waived>>
    BY DEF CheckClear, store, port, response, view
  <1>2. TypeOK /\ ViewTypes /\ RecordInv /\ BusInv /\ OffInv /\ ReadInv /\ LineInv
    BY DEF IInv
  <1>3. TypeOK'
    BY <1>1, <1>2 DEF TypeOK, Number
  <1>4. ViewTypes' /\ LineInv'
    BY <1>1, <1>2, ViewKept, LineKept DEF BusInv
  <1>5. RecordInv'
    BY <1>1, <1>2 DEF RecordInv, Number, Message
  <1>6. BusInv'
    BY <1>1, <1>2 DEF BusInv, Number
  <1>7. OffInv'
    BY <1>1, <1>2 DEF OffInv
  <1>8. ReadInv'
    BY <1>1, <1>2, ReadKept
  <1> QED
    BY <1>3, <1>4, <1>5, <1>6, <1>7, <1>8 DEF IInv

-----------------------------------------------------------------------------
(* CDC.                                                                    *)
LEMMA TypeLineKeeps ==
  ASSUME IInv, NEW m \in Messages, TypeLine(m)
  PROVE  IInv'
  <1>1. /\ mode = "cdc" /\ packets = 0 /\ exec = "idle"
        /\ sent' = Append(sent, m) /\ packets' = m.size
        /\ UNCHANGED <<flash, config, torn, mode, dtr, bus, exec, rebooting, reply,
                       mav, writing, tx, owed, got, whole, waived>>
    BY DEF TypeLine, store, port, response, view
  <1>2. TypeOK /\ ViewTypes /\ RecordInv /\ BusInv /\ OffInv /\ ReadInv /\ LineInv
    BY DEF IInv
  <1>3. sent' \in Seq(Messages) /\ Len(sent') = Len(sent) + 1 /\ Len(sent) \in Nat
    BY <1>1, <1>2, AppendProperties, LenProperties DEF TypeOK
  <1>4. Number' > 0
    BY <1>3 DEF Number
  <1>5. waived' \subseteq 1 .. Number'
    BY <1>1, <1>2, <1>3, WaivedTypes
  <1>6. packets' \in Nat
    BY <1>1, MessageTypes
  <1>7. TypeOK'
    BY <1>1, <1>2, <1>3, <1>5, <1>6 DEF TypeOK
  <1>8. ViewTypes'
    BY <1>1, <1>2, ViewKept
  <1>9. mode # Off /\ mode # "usbtmc"
    BY <1>1, Names DEF Off
  <1>10. RecordInv'
    BY <1>1, <1>2, <1>9 DEF RecordInv
  <1>11. BusInv'
    BY <1>1, <1>2, <1>4, <1>9 DEF BusInv
  <1>12. OffInv'
    BY <1>1, <1>2 DEF OffInv
  <1>13. ReadInv'
    BY <1>1, <1>9 DEF ReadInv
  <1>14. LineInv'
    <2>1. Number' = Number + 1 /\ Number \in Nat
      BY <1>3 DEF Number
    <2>2. Heard' = Heard /\ owed' = owed /\ waived' = waived
      BY <1>1 DEF Heard, Line
    <2>3. \A b \in Range(owed) : b[1] \in 1 .. Number' /\ b[1] < Number'
      BY <1>1, <1>2, <2>1 DEF LineInv
    <2> QED
      BY <1>1, <1>2, <2>2, <2>3 DEF LineInv
  <1> QED
    BY <1>7, <1>8, <1>10, <1>11, <1>12, <1>13, <1>14 DEF IInv

(* A byte that moves on keeps its place.                                   *)
LEMMA ByteMoves ==
  ASSUME NEW s \in Seq(Byte), NEW t \in Seq(Byte), t # <<>>
  PROVE  /\ Append(s, Head(t)) \o Tail(t) = s \o t
         /\ Append(s, Head(t)) \in Seq(Byte) /\ Tail(t) \in Seq(Byte)
  <1> DEFINE h == Head(t)
             r == Tail(t)
             a == Append(s, h)
  <1>1. /\ h \in Byte /\ r \in Seq(Byte)
        /\ Len(r) = Len(t) - 1 /\ \A i \in 1 .. Len(r) : r[i] = t[i + 1]
    BY HeadTailProperties
  <1>2. h = t[1]
    OBVIOUS
  <1> HIDE DEF h, r
  <1>3. /\ a \in Seq(Byte) /\ Len(a) = Len(s) + 1
        /\ \A i \in 1 .. Len(s) : a[i] = s[i] /\ a[Len(s) + 1] = h
    BY <1>1, AppendProperties
  <1>h. a[Len(s) + 1] = h
    BY <1>1, AppendProperties
  <1> HIDE DEF a
  <1>4. Len(s) \in Nat /\ Len(t) \in Nat /\ Len(r) \in Nat
    BY <1>1, LenProperties
  <1>5. /\ a \o r \in Seq(Byte) /\ Len(a \o r) = Len(a) + Len(r)
        /\ \A i \in 1 .. Len(a) + Len(r) :
             (a \o r)[i] = IF i <= Len(a) THEN a[i] ELSE r[i - Len(a)]
    BY <1>1, <1>3, ConcatProperties
  <1>6. /\ s \o t \in Seq(Byte) /\ Len(s \o t) = Len(s) + Len(t)
        /\ \A i \in 1 .. Len(s) + Len(t) :
             (s \o t)[i] = IF i <= Len(s) THEN s[i] ELSE t[i - Len(s)]
    BY ConcatProperties
  <1>7. ASSUME NEW i \in 1 .. Len(a \o r) PROVE (a \o r)[i] = (s \o t)[i]
    <2>1. i \in 1 .. Len(a) + Len(r) /\ i \in 1 .. Len(s) + Len(t)
      BY <1>1, <1>3, <1>4, <1>5
    <2>2. CASE i <= Len(s)
      <3>1. (s \o t)[i] = s[i]
        BY <1>6, <2>1, <2>2
      <3>2. (a \o r)[i] = a[i]
        BY <1>3, <1>4, <1>5, <2>1, <2>2
      <3> QED
        BY <1>3, <2>1, <2>2, <3>1, <3>2
    <2>3. CASE i = Len(s) + 1
      <3>1. (s \o t)[i] = t[1]
        BY <1>4, <1>6, <2>1, <2>3
      <3>2. (a \o r)[i] = a[i]
        BY <1>3, <1>4, <1>5, <2>1, <2>3
      <3> QED
        BY <1>2, <1>h, <2>3, <3>1, <3>2
    <2>4. CASE i > Len(s) + 1
      <3>1. (s \o t)[i] = t[i - Len(s)]
        BY <1>4, <1>6, <2>1, <2>4
      <3>2. (a \o r)[i] = r[i - Len(s) - 1]
        BY <1>3, <1>4, <1>5, <2>1, <2>4
      <3>3. i - Len(s) - 1 \in 1 .. Len(r)
        BY <1>1, <1>4, <2>1, <2>4
      <3>4. r[i - Len(s) - 1] = t[i - Len(s) - 1 + 1]
        BY <1>1, <3>3
      <3> QED
        BY <1>4, <3>1, <3>2, <3>4
    <2> QED
      BY <1>4, <2>1, <2>2, <2>3, <2>4
  <1>8. Len(a \o r) = Len(s \o t)
    BY <1>1, <1>3, <1>4, <1>5, <1>6
  <1>9. a \o r = s \o t
    BY <1>5, <1>6, <1>7, <1>8, SeqEqual
  <1> QED
    BY <1>1, <1>3, <1>9 DEF a, h, r

LEMMA WriteKeeps == IInv /\ Write => IInv'
  <1> SUFFICES ASSUME IInv, Write PROVE IInv'
    OBVIOUS
  <1>1. /\ writing # <<>>
        /\ tx' = Append(tx, Head(writing)) /\ writing' = Tail(writing)
        /\ UNCHANGED <<flash, config, torn, mode, dtr, bus, packets, sent, exec,
                       rebooting, reply, mav, owed, got, whole, waived>>
    BY DEF Write, store, port, usb, view
  <1>2. TypeOK /\ ViewTypes /\ RecordInv /\ BusInv /\ OffInv /\ ReadInv /\ LineInv
    BY DEF IInv
  <1>3. mode = "cdc" /\ mode # Off /\ mode # "usbtmc"
    BY <1>1, <1>2, Names DEF OffInv, Off
  <1>4. /\ got \in Seq(Byte) /\ tx \in Seq(Byte) /\ writing \in Seq(Byte)
        /\ owed \in Seq(Byte)
    BY <1>2 DEF ViewTypes
  <1>5. /\ tx' \o writing' = tx \o writing
        /\ tx' \in Seq(Byte) /\ writing' \in Seq(Byte)
    BY <1>1, <1>4, ByteMoves
  <1>6. TypeOK'
    BY <1>1, <1>2 DEF TypeOK, Number
  <1>7. ViewTypes'
    BY <1>1, <1>4, <1>5 DEF ViewTypes
  <1>8. RecordInv'
    BY <1>1, <1>2 DEF RecordInv, Number, Message
  <1>9. BusInv'
    BY <1>1, <1>2 DEF BusInv, Number
  <1>10. OffInv'
    BY <1>1, <1>3 DEF OffInv
  <1>11. ReadInv'
    BY <1>1, <1>3 DEF ReadInv
  <1>12. LineInv'
    <2>1. Heard' = Heard
      BY <1>1, <1>5 DEF Heard, Line
    <2> QED
      BY <1>1, <1>2, <2>1 DEF LineInv, Number
  <1> QED
    BY <1>6, <1>7, <1>8, <1>9, <1>10, <1>11, <1>12 DEF IInv

(* The port opens or closes: nothing moves.                                *)
LEMMA DtrChangesKeeps == IInv /\ DtrChanges => IInv'
  <1> SUFFICES ASSUME IInv, DtrChanges PROVE IInv'
    OBVIOUS
  <1>1. /\ dtr' = ~dtr
        /\ UNCHANGED <<flash, config, torn, mode, bus, packets, sent, exec,
                       rebooting, reply, mav, writing, tx, owed, got, whole,
                       waived>>
    BY DEF DtrChanges, store, response, view
  <1>2. TypeOK /\ ViewTypes /\ RecordInv /\ BusInv /\ OffInv /\ ReadInv /\ LineInv
    BY DEF IInv
  <1>3. dtr' \in BOOLEAN
    BY <1>1
  <1>4. TypeOK'
    BY <1>1, <1>2, <1>3 DEF TypeOK, Number
  <1>5. ViewTypes' /\ LineInv' /\ ReadInv'
    BY <1>1, <1>2, ViewKept, LineKept, ReadKept
  <1>6. RecordInv' /\ BusInv' /\ OffInv'
    BY <1>1, <1>2 DEF RecordInv, BusInv, OffInv, Number, Message
  <1> QED
    BY <1>4, <1>5, <1>6 DEF IInv

(* A reply cut off by a closed port: the bytes that are left keep their    *)
(* order, and what is lost is given up.                                    *)
LEMMA LapseKeeps == IInv /\ Lapse => IInv'
  <1> SUFFICES ASSUME IInv, Lapse PROVE IInv'
    OBVIOUS
  <1>1. /\ writing # <<>> /\ writing' = <<>>
        /\ \E last \in Len(tx) .. Len(Line) :
             tx' = SubSeq(Line, IF last > TxDepth THEN last - TxDepth + 1 ELSE 1,
                          last)
        /\ waived' = waived \cup {b[1] : b \in Range(Line)}
        /\ UNCHANGED <<flash, config, torn, mode, dtr, bus, packets, sent, exec,
                       rebooting, reply, mav, owed, got, whole>>
    BY DEF Lapse, store, usb, port, view, Line
  <1>2. TypeOK /\ ViewTypes /\ RecordInv /\ BusInv /\ OffInv /\ ReadInv /\ LineInv
    BY DEF IInv
  <1>3. mode = "cdc" /\ mode # Off /\ mode # "usbtmc"
    BY <1>1, <1>2, Names DEF OffInv, Off
  <1>4. /\ got \in Seq(Byte) /\ tx \in Seq(Byte) /\ writing \in Seq(Byte)
        /\ owed \in Seq(Byte) /\ <<>> \in Seq(Byte)
    BY <1>2, EmptySeq DEF ViewTypes
  <1>5. /\ Line \in Seq(Byte) /\ Len(Line) \in Nat /\ Len(tx) \in Nat
        /\ Range(Heard) = Range(got) \cup Range(Line)
    BY <1>4, RangeConcat, LenProperties DEF Line, Heard
  <1>6. /\ InOrder(got \o Line) /\ Range(Heard) \subseteq Range(owed)
        /\ \A b \in Range(owed) : b[1] \in waived \/ b \in Range(Heard)
        /\ \A b \in Range(owed) : b[1] \in 1 .. Number
        /\ packets > 0 \/ exec # "idle" => \A b \in Range(owed) : b[1] < Number
    BY <1>2, <1>3 DEF LineInv, Heard
  <1>7. PICK last \in Len(tx) .. Len(Line) :
          tx' = SubSeq(Line, IF last > TxDepth THEN last - TxDepth + 1 ELSE 1, last)
    BY <1>1
  <1> DEFINE first == IF last > TxDepth THEN last - TxDepth + 1 ELSE 1
  <1>8. first \in 1 .. Len(Line) + 1 /\ last \in first - 1 .. Len(Line)
    BY <1>5, <1>7, Capacities
  <1> HIDE DEF first
  <1>9. tx' = SubSeq(Line, first, last)
    BY <1>7 DEF first
  <1>10. /\ tx' \in Seq(Byte) /\ Range(tx') \subseteq Range(Line)
         /\ InOrder(got \o tx')
    BY <1>4, <1>5, <1>6, <1>8, <1>9, OrderPart
  <1>11. Heard' = got \o tx'
    <2>1. tx' \o <<>> = tx'
      BY <1>10, ConcatEmptySeq
    <2> QED
      BY <1>1, <2>1 DEF Heard, Line
  <1>12. Range(Heard') = Range(got) \cup Range(tx')
    BY <1>4, <1>10, <1>11, RangeConcat
  <1>13. waived' \subseteq 1 .. Number' /\ Number' = Number
    BY <1>1, <1>2, <1>5, <1>6 DEF TypeOK, Number
  <1>14. LineInv'
    <2>1. InOrder(Heard') /\ Range(Heard') \subseteq Range(owed')
      BY <1>1, <1>5, <1>6, <1>10, <1>11, <1>12
    <2>2. \A b \in Range(owed') : b[1] \in waived' \/ b \in Range(Heard')
      BY <1>1, <1>5, <1>6, <1>12
    <2> QED
      BY <1>1, <1>6, <1>13, <2>1, <2>2 DEF LineInv
  <1>15. TypeOK'
    BY <1>1, <1>2, <1>13 DEF TypeOK
  <1>16. ViewTypes'
    BY <1>1, <1>4, <1>10 DEF ViewTypes
  <1>17. RecordInv' /\ BusInv'
    BY <1>1, <1>2 DEF RecordInv, BusInv, Number, Message
  <1>18. OffInv' /\ ReadInv'
    BY <1>1, <1>3 DEF OffInv, ReadInv
  <1> QED
    BY <1>14, <1>15, <1>16, <1>17, <1>18 DEF IInv

LEMMA HostTakesKeeps == IInv /\ HostTakes => IInv'
  <1> SUFFICES ASSUME IInv, HostTakes PROVE IInv'
    OBVIOUS
  <1>1. /\ tx # <<>>
        /\ tx' = Tail(tx) /\ got' = Append(got, Head(tx))
        /\ UNCHANGED <<flash, config, torn, mode, dtr, bus, packets, sent, exec,
                       rebooting, reply, mav, writing, owed, whole, waived>>
    BY DEF HostTakes, store, port, usb, response
  <1>2. TypeOK /\ ViewTypes /\ RecordInv /\ BusInv /\ OffInv /\ ReadInv /\ LineInv
    BY DEF IInv
  <1>3. mode = "cdc" /\ mode # Off /\ mode # "usbtmc"
    BY <1>1, <1>2, Names DEF OffInv, Off
  <1>4. got \in Seq(Byte) /\ tx \in Seq(Byte) /\ writing \in Seq(Byte)
    BY <1>2 DEF ViewTypes
  <1>5. got' \o tx' = got \o tx /\ got' \in Seq(Byte) /\ tx' \in Seq(Byte)
    BY <1>1, <1>4, ByteMoves
  <1>6. TypeOK'
    BY <1>1, <1>2 DEF TypeOK, Number
  <1>7. ViewTypes'
    BY <1>1, <1>2, <1>5 DEF ViewTypes
  <1>8. RecordInv'
    BY <1>1, <1>2 DEF RecordInv, Number, Message
  <1>9. BusInv'
    BY <1>1, <1>2 DEF BusInv, Number
  <1>10. OffInv'
    BY <1>1, <1>3 DEF OffInv
  <1>11. ReadInv'
    BY <1>1, <1>3 DEF ReadInv
  <1>12. LineInv'
    <2>1. (got' \o tx') \o writing' = (got \o tx) \o writing
      BY <1>1, <1>5
    <2>2. \A a, b, c \in Seq(Byte) : (a \o b) \o c = a \o (b \o c)
      BY ConcatAssociative
    <2>3. /\ (got \o tx) \o writing = Heard
          /\ (got' \o tx') \o writing' = Heard'
      <3>1. writing' \in Seq(Byte)
        BY <1>1, <1>4
      <3>2. (got \o tx) \o writing = got \o (tx \o writing)
        BY <1>4, <2>2, Zenon
      <3>3. (got' \o tx') \o writing' = got' \o (tx' \o writing')
        BY <1>5, <2>2, <3>1, Zenon
      <3> QED
        BY <3>2, <3>3, Zenon DEF Heard, Line
    <2> QED
      BY <1>1, <1>2, <2>1, <2>3 DEF LineInv, Number
  <1> QED
    BY <1>6, <1>7, <1>8, <1>9, <1>10, <1>11, <1>12 DEF IInv

-----------------------------------------------------------------------------
LEMMA StutterKeeps == IInv /\ UNCHANGED vars => IInv'
  BY DEF IInv, vars, TypeOK, ViewTypes, RecordInv, BusInv, OffInv, ReadInv,
         LineInv, Heard, Line, Number, Message

LEMMA StepKeeps == IInv /\ [Next]_vars => IInv'
  <1> SUFFICES ASSUME IInv, [Next]_vars PROVE IInv'
    OBVIOUS
  <1>1. CASE Start
    BY <1>1, StartKeeps
  <1>2. CASE PowerFail \/ Reboot
    BY <1>2, CutKeeps DEF PowerFail, Reboot
  <1>3. CASE Erase
    BY <1>3, EraseKeeps
  <1>4. CASE Program
    BY <1>4, ProgramKeeps
  <1>5. CASE \E m \in Messages : SendMessage(m) \/ TypeLine(m)
    BY <1>5, SendMessageKeeps, TypeLineKeeps
  <1>6. CASE Take
    BY <1>6, TakeKeeps
  <1>7. CASE Sent
    BY <1>7, SentKeeps
  <1>8. CASE Clear \/ AbortIn \/ ClearFeatureIn
    BY <1>8, DropKeeps
  <1>9. CASE AbortOut \/ ClearFeatureOut
    BY <1>9, MessageDropKeeps
  <1>10. CASE CheckClear
    BY <1>10, CheckClearKeeps
  <1>11. CASE \E size \in 1 .. ReplyCapacity : Request(size)
    BY <1>11, RequestKeeps
  <1>12. CASE Write
    BY <1>12, WriteKeeps
  <1>13. CASE HostTakes
    BY <1>13, HostTakesKeeps
  <1>14. CASE UNCHANGED vars
    BY <1>14, StutterKeeps
  <1>15. CASE DtrChanges
    BY <1>15, DtrChangesKeeps
  <1>16. CASE Lapse
    BY <1>16, LapseKeeps
  <1> QED
    BY <1>1, <1>2, <1>3, <1>4, <1>5, <1>6, <1>7, <1>8, <1>9, <1>10, <1>11,
       <1>12, <1>13, <1>14, <1>15, <1>16 DEF Next

(* The inductive invariant: what has been read, what is captured and what  *)
(* the stack waits for agree, whatever the host does and wherever power    *)
(* fails.                                                                  *)
THEOREM UsbInvariant == Spec => []IInv
  <1>1. Init => IInv
    BY Initial
  <1>2. IInv /\ [Next]_vars => IInv'
    BY StepKeeps
  <1> QED
    BY <1>1, <1>2, PTL DEF Spec

(* Every variable keeps its type; in particular the offset of a reply      *)
(* stays within s_response_buffer whatever sizes the host asks for.        *)
THEOREM UsbTypes == Spec => []TypeOK
  <1>1. IInv => TypeOK
    BY DEF IInv
  <1> QED
    BY <1>1, UsbInvariant, PTL

(* What the host reads of a reply (usbtmc_scpi_port.c) is its bytes from   *)
(* the first one on, with the end where it ends, and MAV is set exactly    *)
(* while there is more of it: for every request size and every history of  *)
(* aborts, clears and unread replies.  Over CDC it reads the bytes of the  *)
(* replies in order, none twice, and misses one only of a reply that met   *)
(* a closed port: for every order of openings and closings.                *)
THEOREM UsbToldTheTruth == Spec => []HostIsToldTheTruth
  <1>1. IInv => HostIsToldTheTruth
    <2> SUFFICES ASSUME IInv PROVE RepliesInOrder /\ MavIsTrue
      BY DEF HostIsToldTheTruth
    <2>1. TypeOK /\ ViewTypes /\ ReadInv /\ LineInv
      BY DEF IInv
    <2>2. RepliesInOrder
      BY <2>1 DEF RepliesInOrder, ReadInv, LineInv
    <2>3. MavIsTrue
      <3> SUFFICES ASSUME mode = "usbtmc", bus = "read", exec = "idle"
                   PROVE  mav <=> Len(owed) \in 1 .. ReplyCapacity /\ ~whole
        BY DEF MavIsTrue
      <3>1. /\ mav = reply.ready
            /\ whole <=> (got # <<>> /\ got = owed)
            /\ reply.ready =>
                 /\ owed = Bytes(reply.to, reply.len)
                 /\ Len(got) = reply.offset
                 /\ reply.len > 0 /\ reply.offset < reply.len
            /\ ~reply.ready => Len(owed) \notin 1 .. ReplyCapacity \/ whole
        BY <2>1 DEF ReadInv
      <3>2. /\ reply.len \in 0 .. ReplyCapacity /\ reply.to \in Nat
            /\ reply.offset \in 0 .. ReplyCapacity
        BY <2>1 DEF TypeOK
      <3>3. CASE reply.ready
        <4>1. Len(owed) = reply.len
          BY <3>1, <3>2, <3>3, BytesTypes
        <4>2. Len(got) # Len(owed)
          BY <3>1, <3>2, <3>3, <4>1
        <4>3. ~whole
          BY <3>1, <4>2
        <4>4. Len(owed) \in 1 .. ReplyCapacity
          BY <3>1, <3>2, <3>3, <4>1, Capacities
        <4> QED
          BY <3>1, <3>3, <4>3, <4>4
      <3>4. CASE ~reply.ready
        <4>1. ~mav
          BY <3>1, <3>4
        <4> QED
          BY <3>1, <3>4, <4>1
      <3> QED
        BY <3>3, <3>4
    <2> QED
      BY <2>2, <2>3
  <1> QED
    BY <1>1, UsbInvariant, PTL

(* The mode MODE? answers is the one the next start uses, unless a write   *)
(* of the record failed or was cut (product_config_set_usb_mode): the copy *)
(* in RAM follows the sector only once it reads back.                      *)
THEOREM UsbNextStart == Spec => []NextStartAsAnswered
  <1>1. IInv => NextStartAsAnswered
    BY DEF IInv, RecordInv, NextStartAsAnswered
  <1> QED
    BY <1>1, UsbInvariant, PTL
=============================================================================
