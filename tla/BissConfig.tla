------------------------------ MODULE BissConfig ------------------------------
(***************************************************************************)
(* What the BiSS tap is told and what it makes of it: the settings the     *)
(* SCPI commands write (scpi_communication_biss_commands.c), the checks    *)
(* when the tap is configured and armed (trigger_fb.c), the profile copied *)
(* at arming (biss_node_io.c), what the PIO program is patched with        *)
(* (biss_tap_rx.pio), and the arithmetic of biss_protocol.c that judges a  *)
(* frame by the profile.  How frames come in is BissNode's.                *)
(*                                                                         *)
(* A frame is its sequence of bits, the first on the line first, as the    *)
(* offsets of the profile count them.  The queue between a command and its *)
(* event is TriggerFB's; here a command that arrives while the tap is      *)
(* armed, or its event, is no step.                                        *)
(***************************************************************************)
EXTENDS Naturals, Sequences

CONSTANTS Width,      \* bits of a setting (uint32_t)
          CrcWidth,   \* bits of a CRC constant a command takes (0 .. 0xFFFF)
          ByteWidth,  \* bits of a CRC constant in the profile (uint8_t)
          MaxFrame, MaxPosition, MaxCrc,  \* BISS_PROFILE_MAX_*
          CycleRate,  \* PIO cycles in a second
          MaxDelay,   \* cycles one PIO instruction can be delayed by (31)
          Initial,    \* the settings of trigger_fb_init
          Inputs,     \* the <<setting, value>> pairs hosts send
          MaxChanges  \* bound on the settings changed

Numbers == 0 .. 2 ^ Width - 1
Disabled == 2 ^ Width - 1

VARIABLES settings,  \* the biss_* members of the trigger vector
          state,     \* "idle", "configured", "armed", "fault"
          active,    \* biss_active_sample_edge and _delay_cycles
          run,       \* the profile of s_biss_node_io; NotRunning
          tap,       \* what the PIO program was last patched with; NotRunning
          taken,     \* the frame judged last and the verdict; NoFrame
          changes    \* settings changed so far

vars == <<settings, state, active, run, tap, taken, changes>>

NotRunning == <<>>
NoFrame == <<>>
-----------------------------------------------------------------------------
(* The ranges of the commands, in the order of the file.  A command out of *)
(* its range is an error and posts nothing.                                *)
LinkCommand(n, v) ==
  \/ n = "role" /\ v \in 0 .. 3
  \/ n = "device"
  \/ n = "clock" /\ v >= 1
  \/ n = "frame" /\ v \in 1 .. MaxFrame

PositionCommand(n, v) ==
  \/ n = "posOffset" /\ v \in 0 .. MaxFrame - 1
  \/ n = "posBits" /\ v \in 1 .. MaxPosition
  \/ n = "modulo" /\ v >= 1

SampleCommand(n, v) ==
  \/ n \in {"edge", "scan"} /\ v \in 0 .. 1
  \/ n \in {"delay", "scanStart", "scanEnd"}
  \/ n \in {"scanStep", "timeout"} /\ v >= 1

AnchorCommand(n, v) ==
  \/ n = "anchorOffset" /\ v \in 0 .. MaxFrame - 1
  \/ n = "anchorBits" /\ v \in 0 .. MaxFrame
  \/ n \in {"anchorMask", "anchorValue"}

StatusCommand(n, v) ==
  \/ n \in {"errorBit", "warningBit"}
  \/ n = "statusGate" /\ v \in 0 .. 2

CrcFieldCommand(n, v) ==
  \/ n \in {"crcOffset", "coverOffset"} /\ v \in 0 .. MaxFrame - 1
  \/ n = "crcBits" /\ v \in 0 .. MaxCrc
  \/ n = "coverBits" /\ v \in 0 .. MaxFrame

CrcRuleCommand(n, v) ==
  \/ n \in {"poly", "init", "xor"} /\ v \in 0 .. 2 ^ CrcWidth - 1
  \/ n \in {"invert", "crcGate"} /\ v \in 0 .. 1

OutputCommand(n, v) == n \in {"latency", "target"}

Accepted(n, v) ==
  \/ LinkCommand(n, v)  \/ PositionCommand(n, v) \/ SampleCommand(n, v)
  \/ AnchorCommand(n, v) \/ StatusCommand(n, v)  \/ CrcFieldCommand(n, v)
  \/ CrcRuleCommand(n, v) \/ OutputCommand(n, v)

Names == {"role", "device", "clock", "frame", "posOffset", "posBits",
  "modulo", "edge", "delay", "scan", "scanStart", "scanEnd", "scanStep",
  "timeout", "anchorOffset", "anchorBits", "anchorMask", "anchorValue",
  "errorBit", "warningBit", "statusGate", "crcOffset", "crcBits",
  "coverOffset", "coverBits", "poly", "init", "xor", "invert", "crcGate",
  "latency", "target"}

ASSUME BissConfigAssumption ==
  /\ {Width, CrcWidth, ByteWidth, MaxDelay, MaxChanges} \subseteq Nat
  /\ {MaxFrame, MaxPosition, MaxCrc, CycleRate} \subseteq Nat \ {0}
  /\ {2 ^ k : k \in {Width, ByteWidth} \cup 0 .. MaxCrc} \subseteq Nat \ {0}
  /\ MaxFrame < Disabled
  /\ Initial \in [Names -> Numbers]
  /\ \A n \in Names : Accepted(n, Initial[n])
  /\ Inputs \subseteq Names \X Numbers
-----------------------------------------------------------------------------
(* The profile: the settings, but its CRC constants are bytes.  Members    *)
(* the profile does not have are never read from it.                       *)
Byte(x) == x % 2 ^ ByteWidth
MakeProfile(s) ==
  [s EXCEPT !["poly"] = Byte(@), !["init"] = Byte(@), !["xor"] = Byte(@)]

CyclesPerBit(s) == CycleRate \div s["clock"]

(* range_fits.                                                             *)
Fits(offset, bits, frame) ==
  bits # 0 /\ offset < frame /\ bits <= frame - offset

OptionalBitFits(offset, frame) == offset = Disabled \/ offset < frame

(* biss_profile_validate.                                                  *)
ValidProfile(s) ==
  LET frame == s["frame"]
  IN  /\ frame \in 1 .. MaxFrame
      /\ s["posBits"] \in 1 .. MaxPosition
      /\ Fits(s["posOffset"], s["posBits"], frame)
      /\ s["modulo"] # 0
      /\ s["anchorBits"] > 0 => Fits(s["anchorOffset"], s["anchorBits"], frame)
      /\ OptionalBitFits(s["errorBit"], frame)
      /\ OptionalBitFits(s["warningBit"], frame)
      /\ s["crcBits"] <= MaxCrc
      /\ s["crcBits"] = 0 => s["coverBits"] = 0
      /\ s["crcBits"] > 0 => Fits(s["crcOffset"], s["crcBits"], frame)
      /\ s["coverBits"] > 0 => Fits(s["coverOffset"], s["coverBits"], frame)
      /\ s["edge"] \in {0, 1}
      /\ s["delay"] < CyclesPerBit(s)
      /\ s["timeout"] # 0
      /\ s["statusGate"] <= 2 /\ s["crcGate"] <= 1

(* fb_valid_biss_config: of the roles, only the tap (0) is there.          *)
ValidConfig(s) ==
  /\ s["role"] = 0 /\ s["clock"] # 0
  /\ ValidProfile(MakeProfile(s))
  /\ s["scan"] # 0 => /\ s["scanStart"] <= s["scanEnd"]
                      /\ s["scanStep"] # 0
                      /\ s["scanEnd"] < CyclesPerBit(s)
-----------------------------------------------------------------------------
(* biss_extract_bits_msb, and a number's lowest n bits.                    *)
Extract(frame, offset, bits) == SubSeq(frame, offset + 1, offset + bits)
BitsOf(x, n) == [i \in 1 .. n |-> (x \div 2 ^ (n - i)) % 2]
Plus(a, b) == [i \in DOMAIN a |-> (a[i] + b[i]) % 2]  \* exclusive or

(* The mask may be wider than the anchor: the bits beyond read as zero.    *)
AnchorMatches(pr, frame) ==
  LET n == pr["anchorBits"]
      actual == Extract(frame, pr["anchorOffset"], n)
  IN  n > 0 => \A i \in 0 .. Width - 1 :
        (pr["anchorMask"] \div 2 ^ i) % 2 = 1 =>
          (pr["anchorValue"] \div 2 ^ i) % 2
            = IF i < n THEN actual[n - i] ELSE 0

(* Error and warning are active low.                                       *)
StatusActive(pr, frame) ==
  \E n \in {"errorBit", "warningBit"} :
    pr[n] # Disabled /\ frame[pr[n] + 1] = 0

(* A mutant: the register takes the polynomial before it shifts.           *)
CrcStepEarly(pr, crc, bit) ==
  LET fed == IF bit # Head(crc) THEN Plus(crc, BitsOf(pr["poly"], Len(crc)))
                                ELSE crc
  IN  Append(Tail(fed), 0)

CrcStep(pr, crc, bit) ==
  LET shifted == Append(Tail(crc), 0)
  IN  IF bit # Head(crc) THEN Plus(shifted, BitsOf(pr["poly"], Len(crc)))
                         ELSE shifted

(* A mutant: the loop stops one bit early.                                 *)
CoveredButLast(pr, frame) ==
  Extract(frame, pr["coverOffset"], pr["coverBits"] - 1)

Covered(pr, frame) == Extract(frame, pr["coverOffset"], pr["coverBits"])

(* biss_crc_compute_bits: the register before the first bit of the message *)
(* and after each one.                                                     *)
Registers(pr, message) ==
  LET Register[i \in 0 .. Len(message)] ==
        IF i = 0 THEN BitsOf(pr["init"], pr["crcBits"])
                 ELSE CrcStep(pr, Register[i - 1], message[i])
  IN  Register

(* biss_crc_compute_frame.                                                 *)
Crc(pr, frame) ==
  LET n == pr["crcBits"]
      message == Covered(pr, frame)
      rest == Registers(pr, message)[Len(message)]
      invert == [i \in 1 .. n |-> pr["invert"]]
  IN  IF pr["coverBits"] = 0 THEN BitsOf(0, n)
      ELSE Plus(Plus(rest, BitsOf(pr["xor"], n)), invert)

CrcMatches(pr, frame) ==
  pr["crcBits"] > 0 =>
    Crc(pr, frame) = Extract(frame, pr["crcOffset"], pr["crcBits"])

(* biss_node_io_process_frame: "drop" it, "record" its position as the     *)
(* last one, or "commit" it, when it may fire.                             *)
Verdict(pr, frame) ==
  IF ~AnchorMatches(pr, frame) \/ (pr["crcGate"] = 1 /\ ~CrcMatches(pr, frame))
    THEN "drop"
  ELSE IF pr["statusGate"] = 2 /\ StatusActive(pr, frame) THEN "record"
  ELSE "commit"
-----------------------------------------------------------------------------
Init ==
  /\ settings = Initial
  /\ state = "idle"
  /\ active = [edge |-> Initial["edge"], delay |-> Initial["delay"]]
  /\ run = NotRunning /\ tap = NotRunning
  /\ taken = NoFrame
  /\ changes = 0

(* A command and its event (fb_instant_cmd).                               *)
Set(n, v) ==
  /\ state \in {"idle", "configured"}
  /\ changes < MaxChanges
  /\ Accepted(n, v)
  /\ settings' = [settings EXCEPT ![n] = v]
  /\ changes' = changes + 1
  /\ taken' = NoFrame
  /\ UNCHANGED <<state, active, run, tap>>

(* fb_idle_configure_biss; a refusal leaves the state as it is.            *)
Configure ==
  /\ state \in {"idle", "configured"}
  /\ ValidConfig(settings)
  /\ state' = "configured"
  /\ UNCHANGED <<settings, active, run, tap, taken, changes>>

Started == [MakeProfile(settings) EXCEPT !["delay"] = active'.delay,
                                         !["edge"] = active'.edge]

(* biss_tap_rx_program_init: a longer delay is cut to what an instruction  *)
(* can take.                                                               *)
Patched(pr) ==
  [edge |-> pr["edge"], frame |-> pr["frame"],
   delay |-> IF pr["delay"] > MaxDelay THEN MaxDelay ELSE pr["delay"]]

(* A mutant: the configuration, once checked, is not checked again: only   *)
(* the profile is, which knows nothing of the scan.                        *)
ArmAsConfigured ==
  /\ state = "configured"
  /\ active' = [edge |-> settings["edge"], delay |-> settings["delay"]]
  /\ ValidProfile(MakeProfile(settings))
  /\ state' = "armed"
  /\ run' = Started /\ tap' = Patched(run')
  /\ UNCHANGED <<settings, taken, changes>>

(* fb_biss_configured_arm and biss_node_io_arm.  When the resources or the *)
(* tap are refused the tap stays configured; with the tap refused, the     *)
(* active members have been set already.                                   *)
Arm ==
  /\ state = "configured"
  /\ ValidConfig(settings)
  /\ active' = [edge |-> settings["edge"], delay |-> settings["delay"]]
  /\ \/ state' = "armed" /\ run' = Started /\ tap' = Patched(run')
     \/ UNCHANGED <<state, run, tap>>
  /\ UNCHANGED <<settings, taken, changes>>

Receive(frame) ==
  /\ state = "armed"
  /\ Len(frame) = run["frame"]
  /\ taken' = [frame |-> frame, verdict |-> Verdict(run, frame)]
  /\ UNCHANGED <<settings, state, active, run, tap, changes>>

(* The next delay of the scan, in unsigned arithmetic.                     *)
NextDelay(s, delay) ==
  LET next == (delay + s["scanStep"]) % 2 ^ Width
  IN  IF next > s["scanEnd"] \/ next < s["scanStart"] THEN s["scanStart"]
      ELSE next

(* biss_node_io_check_timeout: the delay is reported and noted.            *)
DelayNoted ==
  LET next == NextDelay(settings, active.delay)
  IN  /\ active' = [active EXCEPT !.delay = next]
      /\ run' = [run EXCEPT !["delay"] = next]

(* A mutant: the delay is noted, and the tap is not armed again.           *)
ScanNoted ==
  /\ state = "armed" /\ settings["scan"] # 0
  /\ DelayNoted
  /\ taken' = NoFrame
  /\ UNCHANGED <<settings, state, tap, changes>>

(* A silence with the scan on: the tap is armed again with the next delay  *)
(* (fb_biss_apply_sample_scan_step), or refuses.                           *)
ScanStep ==
  /\ state = "armed" /\ settings["scan"] # 0
  /\ DelayNoted
  /\ \/ tap' = Patched(run') /\ UNCHANGED state
     \/ state' = "fault" /\ UNCHANGED tap
  /\ taken' = NoFrame
  /\ UNCHANGED <<settings, changes>>

(* The program is gone, or FAULT arrives: biss_node_io is let go only by   *)
(* the latter.                                                             *)
Fault ==
  /\ \/ state # "fault" /\ run' = NotRunning /\ tap' = NotRunning
     \/ state = "armed" /\ UNCHANGED <<run, tap>>
  /\ state' = "fault"
  /\ taken' = NoFrame
  /\ UNCHANGED <<settings, active, changes>>

(* RESET, and in their states DISARM and CLEAR_FAULT.                      *)
Release ==
  /\ state' = "idle"
  /\ run' = NotRunning /\ tap' = NotRunning
  /\ taken' = NoFrame
  /\ UNCHANGED <<settings, active, changes>>

Next ==
  \/ \E input \in Inputs : Set(input[1], input[2])
  \/ Configure \/ Arm \/ ScanStep \/ Fault \/ Release
  \/ \E n \in 1 .. MaxFrame : \E frame \in [1 .. n -> {0, 1}] : Receive(frame)

Spec == Init /\ [][Next]_vars
-----------------------------------------------------------------------------
(* Type invariant.                                                         *)
TypeOK ==
  /\ settings \in [Names -> Numbers]
  /\ state \in {"idle", "configured", "armed", "fault"}
  /\ active \in [edge : Numbers, delay : Numbers]
  /\ run \in [Names -> Numbers] \cup {NotRunning}
  /\ tap \in [edge : Numbers, frame : Numbers, delay : Numbers]
             \cup {NotRunning}
  /\ changes \in 0 .. MaxChanges

(* The bits of a field, counted as the line counts them.                   *)
Field(offset, bits) == {offset + i : i \in 0 .. bits - 1}

(* While the tap is armed, whatever was set, configured, refused or        *)
(* scanned before, every bit the decoder reads lies within the frame, and  *)
(* every delay it samples with lies within the bit (biss_profile_validate, *)
(* fb_valid_biss_config, biss_node_io_check_timeout).                      *)
ProfileDecodable ==
  state = "armed" =>
    /\ UNION {Field(run["posOffset"], run["posBits"]),
              Field(run["anchorOffset"], run["anchorBits"]),
              Field(run["crcOffset"], run["crcBits"]),
              Field(run["coverOffset"], run["coverBits"]),
              {run["errorBit"], run["warningBit"]} \ {Disabled}}
         \subseteq 0 .. run["frame"] - 1
    /\ Field(run["posOffset"], run["posBits"]) # {}
    /\ run["delay"] * run["clock"] < CycleRate

(* While the tap is armed, what the queries report of it is what its       *)
(* frames are judged by, but for the CRC constants, and what its PIO       *)
(* program samples with: nothing set since it was armed shows, and every   *)
(* delay of the scan reaches the program, up to the longest it can wait;   *)
(* a longer one is reported and sampled as the longest (scpi_cmd_biss_*_q  *)
(* against s_biss_node_io and biss_tap_rx_program_patch).                  *)
RunsAsReported ==
  state = "armed" =>
    /\ \A n \in Names \ {"edge", "delay", "poly", "init", "xor"} :
         run[n] = settings[n]
    /\ run["edge"] = active.edge /\ run["delay"] = active.delay
    /\ tap.edge = active.edge /\ tap.frame = settings["frame"]
    /\ IF active.delay <= MaxDelay THEN tap.delay = active.delay
       ELSE tap.delay = MaxDelay

(* Long division of a message, as a polynomial over the bits, by x^n plus  *)
(* the polynomial: the dividend, and what is left of it after each place   *)
(* of the message.  The initial value is added to the first n bits.        *)
Dividend(pr, message) ==
  LET n == pr["crcBits"]
      m == Len(message)
  IN  [i \in 1 .. m + n |->
        ((IF i <= m THEN message[i] ELSE 0)
          + (IF i <= n THEN BitsOf(pr["init"], n)[i] ELSE 0)) % 2]

Divided(pr, d, i) ==
  LET n == pr["crcBits"]
      divisor == <<1>> \o BitsOf(pr["poly"], n)
  IN  [k \in DOMAIN d |->
        IF d[i] = 1 /\ k \in i .. i + n THEN (d[k] + divisor[k - i + 1]) % 2
                                      ELSE d[k]]

Division(pr, message) ==
  LET Left[i \in 0 .. Len(message)] ==
        IF i = 0 THEN Dividend(pr, message) ELSE Divided(pr, Left[i - 1], i)
  IN  Left

Remainder(pr, message) ==
  LET m == Len(message)
  IN  SubSeq(Division(pr, message)[m], m + 1, m + pr["crcBits"])

(* A frame that may fire with the CRC gate on carries the CRC of the       *)
(* textbook: the remainder of the polynomial division, exclusive-ored and  *)
(* inverted (biss_crc_compute_bits, which shifts a register).              *)
CrcIsRemainder ==
  taken # NoFrame /\ run["crcBits"] > 0 /\ run["coverBits"] > 0
    /\ run["crcGate"] = 1 /\ taken.verdict = "commit" =>
    LET n == run["crcBits"]
        sent == Extract(taken.frame, run["crcOffset"], n)
    IN  Remainder(run, Covered(run, taken.frame))
          = [i \in 1 .. n |->
              (sent[i] + BitsOf(run["xor"], n)[i] + run["invert"]) % 2]

Flipped(frame, i) == [frame EXCEPT ![i + 1] = 1 - @]

(* With the CRC gate on, no frame that may fire comes from another one by  *)
(* a single bit of the covered part going wrong, unless the polynomial     *)
(* itself is zero or the CRC lies in its own cover.                        *)
FlipsAreCaught ==
  taken # NoFrame /\ run["crcGate"] = 1 /\ taken.verdict = "commit"
    /\ BitsOf(run["poly"], run["crcBits"]) # BitsOf(0, run["crcBits"]) =>
    \A i \in Field(run["coverOffset"], run["coverBits"])
               \ Field(run["crcOffset"], run["crcBits"]) :
      Verdict(run, Flipped(taken.frame, i)) # "commit"
=============================================================================
