-------------------------------- MODULE UsbLink --------------------------------
(***************************************************************************)
(* The link to the host: the transport the product configuration chooses   *)
(* at start (product_config.c, scpi_usb_control.c), and the two            *)
(* transports, USBTMC and CDC (usbtmc_scpi_port.c), that feed one SCPI     *)
(* parser and carry its replies (scpi_port.c).  A host sends messages,     *)
(* reads replies in pieces of its own size, sends again without reading,   *)
(* gives up, aborts, clears, and power fails at any step.                  *)
(*                                                                         *)
(* The callbacks of the USB stack run one after the other; the stack       *)
(* itself is external: what it does is taken from the callbacks it makes.  *)
(* A message has a size in packets, a reply in bytes and perhaps an        *)
(* effect; byte i of the reply to message k is <<k, i>>.                   *)
(***************************************************************************)
EXTENDS Naturals, Sequences, FiniteSets, Functions

CONSTANTS Messages,         \* records [size, reply, effect]
          CommandCapacity,  \* packets of s_command_buffer
          ReplyCapacity,    \* bytes of s_response_buffer
          TxDepth,          \* bytes of the CDC transmit FIFO
          DefaultMode,      \* PROJECT_USB_DEFAULT_MODE_USBTMC
          MaxMessages       \* bound on the messages sent

Modes == {"cdc", "usbtmc"}
Effects == Modes \cup {"none", "boot"}

ASSUME UsbLinkAssumption ==
  /\ Messages \subseteq [size : Nat \ {0}, reply : Nat, effect : Effects]
  /\ {CommandCapacity, ReplyCapacity, TxDepth, MaxMessages} \subseteq Nat \ {0}
  /\ DefaultMode \in Modes

VARIABLES flash,    \* the record in flash: a mode, or Blank
          config,   \* s_product_config
          mode,     \* s_usb_mode; Off without power
          dtr,      \* CDC: does the host hold the port open (tud_cdc_connected)?
          bus,      \* what the USB stack waits for
          packets,  \* packets of the message still to come
          sent,     \* the messages sent, in order
          exec,     \* the step of the command under way
          rebooting,\* the watchdog has been told to bite
          reply,    \* s_response_len, _offset, _ready, and whose it is
          mav,      \* IEEE4882_STB_MAV of s_status_byte
          writing,  \* CDC: bytes usb_cdc_scpi_write still has to hand over
          tx,       \* CDC: the transmit FIFO
          owed,     \* history: the reply to the last message; CDC: to all
          got,      \* history: the bytes of it the host has read
          whole,    \* USBTMC: did the last of them end the message?
          waived,   \* history: messages whose reply is given up
          torn      \* has a write of the record been cut or failed?

store == <<flash, config, torn>>
port == <<mode, dtr>>
usb == <<port, bus, packets>>
response == <<reply, mav, writing>>
view == <<owed, got, whole>>
vars == <<flash, config, torn, mode, dtr, bus, packets, sent, exec, rebooting,
          reply, mav, writing, tx, owed, got, whole, waived>>

Blank == "blank"
Off == "off"
Number == Len(sent)             \* of the last message
Message(k) == sent[k]
Bytes(k, n) == [i \in 1 .. n |-> <<k, i>>]

NoReply == [to |-> 0, len |-> 0, offset |-> 0, ready |-> FALSE]
Idle == exec = "idle"
-----------------------------------------------------------------------------
(* product_config_init: a record that does not check is the default.       *)
ModeAtStart(record) == IF record = Blank THEN DefaultMode ELSE record

(* usbtmc_scpi_port_init.                                                  *)
Start ==
  /\ mode = Off
  /\ config' = ModeAtStart(flash)
  /\ mode' = config'
  /\ bus' = "read"
  /\ UNCHANGED <<flash, torn, dtr, packets, sent, exec, rebooting, response, tx,
                 view, waived>>

(* A reset: power, or the watchdog after SYST:USB:BOOT.                    *)
Cut ==
  /\ mode # Off
  /\ mode' = Off /\ dtr' = FALSE /\ bus' = "none" /\ packets' = 0
  /\ exec' = "idle" /\ rebooting' = FALSE
  /\ reply' = NoReply /\ mav' = FALSE /\ writing' = <<>> /\ tx' = <<>>
  /\ owed' = <<>> /\ got' = <<>> /\ whole' = FALSE
  /\ waived' = waived \cup 1 .. Number
  /\ torn' = (torn \/ exec = "erased")
  /\ UNCHANGED <<flash, config, sent>>

PowerFail == Cut
Reboot == rebooting /\ Cut
-----------------------------------------------------------------------------
(* What a command leaves to send.  In CDC mode it goes straight to the     *)
(* FIFO.  In USBTMC mode it was captured in s_response_buffer              *)
(* (scpi_port_write), and one that did not fit makes the data callback     *)
(* fail: it is not ready, and the stack is not told to read.               *)
Captured(n) ==
  [to |-> Number, len |-> IF n > ReplyCapacity THEN ReplyCapacity ELSE n,
   offset |-> 0, ready |-> n \in 1 .. ReplyCapacity]

(* A mutant: a command without a reply leaves the reply before it.         *)
AnswerIfAny(n) ==
  /\ IF n > 0 THEN reply' = Captured(n) /\ mav' = reply'.ready
     ELSE UNCHANGED <<reply, mav>>
  /\ bus' = IF n > ReplyCapacity THEN "nak" ELSE "read"
  /\ owed' = Bytes(Number, n) /\ got' = <<>> /\ whole' = FALSE
  /\ UNCHANGED <<writing, waived>>

AnswerUsbtmc(n) ==
  /\ reply' = Captured(n) /\ mav' = reply'.ready
  /\ bus' = IF n > ReplyCapacity THEN "nak" ELSE "read"
  /\ owed' = Bytes(Number, n) /\ got' = <<>> /\ whole' = FALSE
  /\ UNCHANGED <<writing, waived>>

(* usb_cdc_scpi_write claims to have written what it drops without DTR.    *)
AnswerCdc(n) ==
  /\ owed' = owed \o Bytes(Number, n)
  /\ IF dtr THEN writing' = writing \o Bytes(Number, n) /\ UNCHANGED waived
     ELSE waived' = waived \cup {Number} /\ UNCHANGED writing
  /\ UNCHANGED <<bus, reply, mav, got, whole>>

Answer(n) == IF mode = "cdc" THEN AnswerCdc(n) ELSE AnswerUsbtmc(n)

(* A message is complete.  Setting the mode takes further steps; BOOT      *)
(* answers, and the watchdog bites 50 ms later (scpi_usb_control.c).       *)
Execute ==
  LET m == Message(Number)
  IN  IF m.effect \in Modes
      THEN /\ exec' = "begun" /\ reply' = NoReply /\ mav' = FALSE
           /\ UNCHANGED <<bus, writing, view, waived, rebooting>>
      ELSE /\ Answer(m.reply)
           /\ rebooting' = (rebooting \/ m.effect = "boot")
           /\ UNCHANGED exec

(* A mutant: the sector is programmed without having been erased.          *)
EraseForgotten ==
  /\ exec = "begun" /\ exec' = "erased"
  /\ UNCHANGED <<store, usb, sent, rebooting, response, tx, view, waived>>

(* product_config_set_usb_mode: erase the sector, program the record and   *)
(* read it back; the copy in RAM follows only then.  The flash may refuse  *)
(* either, and the command then has no reply but an error.                 *)
Erase ==
  /\ exec = "begun"
  /\ \/ /\ exec' = "erased" /\ flash' = Blank
        /\ UNCHANGED <<bus, response, view, waived>>
     \/ exec' = "idle" /\ Answer(0) /\ UNCHANGED flash
  /\ UNCHANGED <<config, torn, port, packets, sent, rebooting, tx>>

Program ==
  LET chosen == Message(Number).effect
  IN  /\ exec = "erased"
      /\ exec' = "idle"
      /\ \/ /\ flash' = IF flash = Blank THEN chosen ELSE Blank
            /\ IF flash' = chosen
               THEN config' = chosen /\ Answer(Message(Number).reply)
               ELSE Answer(0) /\ UNCHANGED config
            /\ UNCHANGED torn
         \/ Answer(0) /\ torn' = TRUE /\ UNCHANGED <<flash, config>>
      /\ UNCHANGED <<port, packets, sent, rebooting, tx>>
-----------------------------------------------------------------------------
(* USBTMC.  A host that starts a message gives up the reply before it.     *)
(* tud_usbtmc_msgBulkOut_start_cb refuses one that fills the buffer, and   *)
(* the stack then waits for the host to clear or abort.                    *)
SendMessage(m) ==
  /\ mode = "usbtmc" /\ bus = "read" /\ packets = 0 /\ exec = "idle"
  /\ Number < MaxMessages
  /\ sent' = Append(sent, m)
  /\ waived' = waived \cup 1 .. Number
  /\ IF m.size >= CommandCapacity
     THEN bus' = "refused" /\ UNCHANGED packets
     ELSE packets' = m.size /\ UNCHANGED bus
  /\ UNCHANGED <<store, port, exec, rebooting, response, tx, view>>

(* tud_usbtmc_msg_data_cb, and a chunk of usb_cdc_scpi_service: both serve *)
(* nothing else until what the message does is done and, in CDC, written.  *)
Take ==
  /\ packets > 0 /\ bus = "read" /\ writing = <<>>
  /\ packets' = packets - 1
  /\ IF packets = 1 THEN Execute
     ELSE UNCHANGED <<bus, exec, rebooting, response, view, waived>>
  /\ UNCHANGED <<store, port, sent, tx>>

(* tud_usbtmc_msgBulkIn_request_cb.  With nothing ready, nothing is sent:  *)
(* the stack keeps the request, and the flag set for it has no reader.     *)
Request(size) ==
  /\ mode = "usbtmc" /\ bus = "read" /\ packets = 0 /\ exec = "idle"
  /\ LET left == reply.len - reply.offset
         n == IF left < size THEN left ELSE size
     IN  IF reply.ready /\ left > 0
         THEN /\ bus' = "sending"
              /\ got' = got \o SubSeq(Bytes(reply.to, reply.len),
                                      reply.offset + 1, reply.offset + n)
              /\ whole' = (n = left)
              /\ reply' = [reply EXCEPT !.offset = @ + n]
         ELSE bus' = "requested" /\ UNCHANGED <<got, whole, reply>>
  /\ UNCHANGED <<store, port, packets, sent, exec, rebooting, mav, writing, tx,
                 owed, waived>>

(* tud_usbtmc_msgBulkIn_complete_cb.                                       *)
Sent ==
  /\ bus = "sending" /\ bus' = "read"
  /\ IF reply.offset >= reply.len
     THEN reply' = NoReply /\ mav' = FALSE
     ELSE UNCHANGED <<reply, mav>>
  /\ UNCHANGED <<store, port, packets, sent, exec, rebooting, writing, tx,
                 view, waived>>

(* What the reply was is lost, and the host asked for that.                *)
Dropped ==
  /\ reply' = NoReply /\ mav' = FALSE
  /\ owed' = <<>> /\ got' = <<>> /\ whole' = FALSE
  /\ waived' = waived \cup 1 .. Number
  /\ UNCHANGED <<store, port, sent, exec, rebooting, writing, tx>>

(* tud_usbtmc_initiate_clear_cb, any time; initiate_abort_bulk_in_cb, for  *)
(* a request under way.  The stack asks to check before it reads again.    *)
Clear ==
  /\ mode = "usbtmc" /\ bus # "clearing" /\ exec = "idle"
  /\ bus' = "clearing" /\ packets' = 0
  /\ Dropped

AbortIn ==
  /\ bus \in {"requested", "sending"}
  /\ bus' = "clearing"
  /\ Dropped /\ UNCHANGED packets

(* tud_usbtmc_bulkIn_clearFeature_cb: the reply goes, the bus stays.       *)
ClearFeatureIn ==
  /\ mode = "usbtmc" /\ exec = "idle"
  /\ Dropped /\ UNCHANGED <<bus, packets>>

(* tud_usbtmc_initiate_abort_bulk_out_cb and bulkOut_clearFeature_cb drop  *)
(* the message under way; only the second has the stack read at once.      *)
MessageDropped ==
  /\ mode = "usbtmc" /\ packets' = 0
  /\ waived' = waived \cup 1 .. Number
  /\ UNCHANGED <<store, port, sent, exec, rebooting, response, tx, view>>

AbortOut ==
  /\ bus = "refused" \/ packets > 0
  /\ bus' = "clearing" /\ MessageDropped

ClearFeatureOut ==
  /\ bus \in {"refused", "nak"} \/ packets > 0
  /\ bus' = "read" /\ MessageDropped

(* A mutant: the end of a clear does not have the stack read again.        *)
CheckClearAlone ==
  /\ bus = "clearing" /\ bus' = "nak"
  /\ UNCHANGED <<store, port, packets, sent, exec, rebooting, response, tx,
                 view, waived>>

(* The check_clear and check_abort callbacks.                              *)
CheckClear ==
  /\ bus = "clearing" /\ bus' = "read"
  /\ UNCHANGED <<store, port, packets, sent, exec, rebooting, response, tx,
                 view, waived>>
-----------------------------------------------------------------------------
(* CDC.  The host opens and closes the port; the stack learns of it in     *)
(* tud_task, between two lines or while a write waits for room.            *)
DtrChanges ==
  /\ mode = "cdc" /\ (writing = <<>> \/ Len(tx) = TxDepth) /\ exec = "idle"
  /\ dtr' = ~dtr
  /\ UNCHANGED <<store, mode, bus, packets, sent, exec, rebooting, response,
                 tx, view, waived>>

(* The host types a line, open or not; Take feeds it to the parser.        *)
TypeLine(m) ==
  /\ mode = "cdc" /\ packets = 0 /\ exec = "idle"
  /\ Number < MaxMessages
  /\ sent' = Append(sent, m)
  /\ packets' = m.size
  /\ UNCHANGED <<store, port, bus, exec, rebooting, response, tx, view, waived>>

(* A mutant: a full FIFO ends the loop, and the rest is not written.       *)
WriteIfRoom ==
  /\ writing # <<>>
  /\ IF Len(tx) < TxDepth
     THEN tx' = Append(tx, Head(writing)) /\ writing' = Tail(writing)
     ELSE writing' = <<>> /\ UNCHANGED tx
  /\ UNCHANGED <<store, usb, sent, exec, rebooting, reply, mav, view, waived>>

(* One turn of the loop in usb_cdc_scpi_write: with the FIFO full it spins *)
(* until the host reads, and the other services wait.                      *)
Write ==
  /\ writing # <<>>
  /\ Len(tx) < TxDepth
  /\ tx' = Append(tx, Head(writing)) /\ writing' = Tail(writing)
  /\ UNCHANGED <<store, usb, sent, exec, rebooting, reply, mav, view, waived>>

(* The port was closed under a reply: the piece being written goes into    *)
(* the FIFO, which overwrites its oldest bytes then (external), and the    *)
(* pieces after it are dropped like any reply without DTR.                 *)
Lapse ==
  /\ ~dtr /\ writing # <<>>
  /\ LET line == tx \o writing
     IN  /\ \E last \in Len(tx) .. Len(line) :
              tx' = SubSeq(line, IF last > TxDepth THEN last - TxDepth + 1 ELSE 1,
                           last)
         /\ waived' = waived \cup {b[1] : b \in Range(line)}
  /\ writing' = <<>>
  /\ UNCHANGED <<store, usb, sent, exec, rebooting, reply, mav, view>>

HostTakes ==
  /\ tx # <<>>
  /\ tx' = Tail(tx) /\ got' = Append(got, Head(tx))
  /\ UNCHANGED <<store, usb, sent, exec, rebooting, response, owed, whole,
                 waived>>
-----------------------------------------------------------------------------
Init ==
  /\ flash \in Modes \cup {Blank}
  /\ config = DefaultMode /\ mode = Off /\ dtr = FALSE /\ bus = "none"
  /\ packets = 0 /\ sent = <<>> /\ exec = "idle" /\ rebooting = FALSE
  /\ reply = NoReply /\ mav = FALSE /\ writing = <<>> /\ tx = <<>>
  /\ owed = <<>> /\ got = <<>> /\ whole = FALSE /\ waived = {}
  /\ torn = FALSE

(* What a host does with a link that does not go on.                       *)
GiveUp == bus \in {"refused", "requested", "nak"} /\ Clear
ReadOn == mav /\ \E size \in 1 .. ReplyCapacity : Request(size)

Next ==
  \/ Start \/ PowerFail \/ Reboot
  \/ Erase \/ Program
  \/ \E m \in Messages : SendMessage(m) \/ TypeLine(m)
  \/ Take \/ Sent
  \/ Clear \/ AbortIn \/ ClearFeatureIn \/ AbortOut \/ ClearFeatureOut
  \/ CheckClear
  \/ \E size \in 1 .. ReplyCapacity : Request(size)
  \/ DtrChanges \/ Write \/ Lapse \/ HostTakes

(* The device and the stack go on, and so does a message once begun.  The  *)
(* host reads what there is to read, and gives up on a link that waits.    *)
Fairness ==
  /\ WF_vars(Start) /\ WF_vars(Reboot) /\ WF_vars(Erase \/ Program)
  /\ WF_vars(Take) /\ WF_vars(Sent) /\ WF_vars(CheckClear)
  /\ WF_vars(Write \/ Lapse)
  /\ WF_vars(HostTakes) /\ WF_vars(ReadOn) /\ WF_vars(GiveUp)

Spec == Init /\ [][Next]_vars /\ Fairness
-----------------------------------------------------------------------------
(* Type invariant.                                                         *)
TypeOK ==
  /\ flash \in Modes \cup {Blank} /\ config \in Modes
  /\ mode \in Modes \cup {Off} /\ dtr \in BOOLEAN
  /\ bus \in {"none", "read", "refused", "requested", "sending", "clearing",
              "nak"}
  /\ packets \in Nat /\ sent \in Seq(Messages) /\ waived \subseteq 1 .. Number
  /\ exec \in {"idle", "begun", "erased"} /\ rebooting \in BOOLEAN
  /\ reply \in [to : Nat, len : 0 .. ReplyCapacity,
                offset : 0 .. ReplyCapacity, ready : BOOLEAN]
  /\ mav \in BOOLEAN /\ whole \in BOOLEAN /\ torn \in BOOLEAN

(* The bytes the CDC host has, will have, or is being given; a byte comes  *)
(* before those of later replies and the later ones of its own.            *)
Line == tx \o writing
Heard == got \o Line
Before(a, b) == a[1] < b[1] \/ (a[1] = b[1] /\ a[2] < b[2])
InOrder(s) == \A i, j \in DOMAIN s : i < j => Before(s[i], s[j])

(* Whatever the size of the requests, and whatever was sent, aborted or    *)
(* left unread before, the host reads the reply to its last message from   *)
(* the first byte on, none twice, none left out, and is told the end of it *)
(* at its end.  Over CDC it reads bytes of the replies to its lines, in    *)
(* their order and none twice; one is missing only of a reply that met a   *)
(* closed port, however often the port closes and opens again.             *)
RepliesInOrder ==
  /\ mode = "usbtmc" =>
       /\ Len(got) <= Len(owed) /\ got = SubSeq(owed, 1, Len(got))
       /\ whole <=> (got # <<>> /\ got = owed)
  /\ mode = "cdc" =>
       /\ InOrder(Heard)
       /\ Range(Heard) \subseteq Range(owed)
       /\ \A b \in Range(owed) : b[1] \in waived \/ b \in Range(Heard)

(* Between callbacks the status byte tells a host that polls it the truth: *)
(* MAV is set exactly while a reply that fits is not read to its end       *)
(* (tud_usbtmc_get_stb_cb).                                                *)
MavIsTrue ==
  mode = "usbtmc" /\ bus = "read" /\ exec = "idle" =>
    (mav <=> Len(owed) \in 1 .. ReplyCapacity /\ ~whole)

(* What the bytes and the status byte tell a host of its last message is   *)
(* true, at every step of the callbacks of usbtmc_scpi_port.c.             *)
HostIsToldTheTruth == RepliesInOrder /\ MavIsTrue

(* Unless a write of the record failed or was cut, the mode MODE? answers  *)
(* is the one the next start uses.                                         *)
NextStartAsAnswered ==
  mode # Off /\ exec = "idle" /\ ~torn => ModeAtStart(flash) = config

(* A reply that fits gets to a host that reads, unless the host sends      *)
(* again, aborts or clears, or the device restarts; over CDC, unless the   *)
(* host has not opened the port or closes it before the reply is written.  *)
ReplyArrives ==
  \A k \in 1 .. MaxMessages, n \in 1 .. ReplyCapacity :
    (owed # <<>> /\ owed[Len(owed)] = <<k, n>>) ~>
      (k \in waived \/ \E i \in DOMAIN got : got[i] = <<k, n>>)

(* However the link came to wait - a message too long, a reply too long, a *)
(* request with nothing to answer it - the host gets it going again.       *)
LinkRecovers ==
  (bus \in {"refused", "requested", "nak"}) ~> (bus \in {"read", "none"})
=============================================================================
