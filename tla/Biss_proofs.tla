------------------------------ MODULE Biss_proofs ------------------------------
(***************************************************************************)
(* The safety of the BiSS tap: of its configuration, for every set of      *)
(* settings hosts send, every frame length and every width of the settings,*)
(* and of the receiver, for every modulo and target, every frame and word  *)
(* length and every depth of the FIFO.                                     *)
(*                                                                         *)
(* What arming checks must still hold of the profile the tap runs with,    *)
(* after every step of the scan, however the settings were reached: while  *)
(* the tap is armed no command changes them, so what was checked of them   *)
(* is kept with the profile that was made from them: Running.              *)
(*                                                                         *)
(* What the CRC register holds after each bit of the covered part is, by   *)
(* induction on the bits, the part of the dividend under it                *)
(* (RegisterIsDivided); and two registers that one bit set apart stay      *)
(* apart, because their difference never reaches past the last one of the  *)
(* polynomial (Apart).                                                     *)
(*                                                                         *)
(* The receiver takes whole frames because the words drained and those in  *)
(* the FIFO are always the words of the frames under way, in their order,  *)
(* and the chunk and the bits to come the rest of the last of them:        *)
(* StreamInv.                                                              *)
(***************************************************************************)
EXTENDS BissConfig, BissNode, WellFoundedInduction, TLAPS

(* The profile of an armed tap: that of the settings, which are valid, but *)
(* for the delay and the edge the trigger keeps.                           *)
RunsProfile ==
  /\ run \in [Names -> Numbers]
  /\ \A n \in Names \ {"delay", "edge"} : run[n] = MakeProfile(settings)[n]
  /\ run["delay"] = active.delay /\ run["edge"] = active.edge

Running ==
  state = "armed" =>
    /\ RunsProfile
    /\ ValidConfig(settings)
    /\ active.delay < CyclesPerBit(settings)
    /\ tap = Patched(run)

IInv == TypeOK /\ Running

-----------------------------------------------------------------------------
(* The settings the proofs speak of are settings.                          *)
LEMMA NamesOf ==
  {"role", "clock", "frame", "posOffset", "posBits", "modulo", "edge", "delay",
   "scan", "scanStart", "scanEnd", "scanStep", "timeout", "anchorOffset",
   "anchorBits", "errorBit", "warningBit", "crcOffset", "crcBits",
   "coverOffset", "coverBits", "poly", "init", "xor"} \subseteq Names
  BY DEF Names

LEMMA NumbersAre ==
  /\ 2 ^ Width \in Nat \ {0} /\ 2 ^ ByteWidth \in Nat \ {0}
  /\ Numbers = 0 .. 2 ^ Width - 1 /\ Numbers \subseteq Nat
  BY BissConfigAssumption DEF Numbers

(* Arithmetic: a remainder, and the quotient that bounds a delay.          *)
LEMMA Remainders ==
  ASSUME NEW x \in Nat, NEW m \in Nat \ {0}
  PROVE  x % m \in 0 .. m - 1
  OBVIOUS

LEMMA RemainderIsLess ==
  ASSUME NEW x \in Nat, NEW m \in Nat \ {0}
  PROVE  x % m <= x
  OBVIOUS

LEMMA Quotient ==
  ASSUME NEW a \in Nat, NEW b \in Nat \ {0}, NEW x \in Nat, x < a \div b
  PROVE  x * b < a
  OBVIOUS

LEMMA NextNumber ==
  ASSUME NEW x \in Numbers, NEW y \in Numbers
  PROVE  (x + y) % 2 ^ Width \in Numbers
  <1>1. x + y \in Nat
    BY NumbersAre
  <1> QED
    BY <1>1, NumbersAre, Remainders

LEMMA ByteTypes ==
  ASSUME NEW x \in Numbers
  PROVE  Byte(x) \in Numbers
  <1>1. x \in Nat /\ x <= 2 ^ Width - 1
    BY NumbersAre
  <1>2. Byte(x) \in 0 .. 2 ^ ByteWidth - 1 /\ Byte(x) <= x
    BY <1>1, NumbersAre, Remainders, RemainderIsLess DEF Byte
  <1>3. Byte(x) \in Nat
    BY <1>2, NumbersAre
  <1> QED
    BY <1>1, <1>2, <1>3, NumbersAre

(* A profile has the settings but for the bytes of its CRC constants.      *)
LEMMA ProfileTypes ==
  ASSUME NEW s \in [Names -> Numbers]
  PROVE  /\ MakeProfile(s) \in [Names -> Numbers]
         /\ \A n \in Names \ {"poly", "init", "xor"} : MakeProfile(s)[n] = s[n]
  <1> DEFINE p == Byte(s["poly"])
             i == Byte(s["init"])
             x == Byte(s["xor"])
             s1 == [s EXCEPT !["poly"] = p]
             s2 == [s1 EXCEPT !["init"] = i]
             s3 == [s2 EXCEPT !["xor"] = x]
  <1>1. p \in Numbers /\ i \in Numbers /\ x \in Numbers
    BY NamesOf, ByteTypes
  <1>2. s1["init"] = s["init"] /\ s2["xor"] = s["xor"]
    BY NamesOf
  <1>3. MakeProfile(s) = s3
    BY <1>2, NamesOf DEF MakeProfile
  <1> HIDE DEF p, i, x
  <1>4. /\ s3 \in [Names -> Numbers]
        /\ \A n \in Names \ {"poly", "init", "xor"} : s3[n] = s[n]
    BY <1>1, NamesOf
  <1> QED
    BY <1>3, <1>4

(* What arming and configuring check bounds the delays: the one set, and   *)
(* those of the scan.                                                      *)
LEMMA ValidDelays ==
  ASSUME NEW s \in [Names -> Numbers], ValidConfig(s)
  PROVE  /\ s["delay"] < CyclesPerBit(s)
         /\ s["scan"] # 0 => s["scanStart"] <= s["scanEnd"]
                             /\ s["scanEnd"] < CyclesPerBit(s)
         /\ s["clock"] \in Nat \ {0}
  <1>1. /\ MakeProfile(s)["delay"] = s["delay"]
        /\ MakeProfile(s)["clock"] = s["clock"]
    BY ProfileTypes, NamesOf
  <1>2. MakeProfile(s)["delay"] < CyclesPerBit(MakeProfile(s))
    BY DEF ValidConfig, ValidProfile
  <1>3. CyclesPerBit(MakeProfile(s)) = CyclesPerBit(s)
    BY <1>1 DEF CyclesPerBit
  <1>4. s["clock"] \in Nat \ {0}
    BY NumbersAre, NamesOf DEF ValidConfig
  <1> QED
    BY <1>1, <1>2, <1>3, <1>4 DEF ValidConfig

(* The next delay of a scan lies between its ends.                         *)
LEMMA NextDelayTypes ==
  ASSUME NEW s \in [Names -> Numbers], NEW d \in Numbers,
         s["scanStart"] <= s["scanEnd"]
  PROVE  /\ NextDelay(s, d) \in Numbers
         /\ NextDelay(s, d) <= s["scanEnd"]
  <1> DEFINE next == (d + s["scanStep"]) % 2 ^ Width
  <1>1. /\ s["scanStep"] \in Numbers /\ s["scanStart"] \in Numbers
        /\ s["scanEnd"] \in Numbers
    BY NamesOf
  <1>2. next \in Numbers
    BY <1>1, NextNumber
  <1>3. NextDelay(s, d) =
          IF next > s["scanEnd"] \/ next < s["scanStart"] THEN s["scanStart"]
          ELSE next
    BY DEF NextDelay
  <1> HIDE DEF next
  <1>4. /\ next \in Nat /\ s["scanStart"] \in Nat /\ s["scanEnd"] \in Nat
    BY <1>1, <1>2, NumbersAre
  <1> QED
    BY <1>1, <1>2, <1>3, <1>4

-----------------------------------------------------------------------------
LEMMA InitKeeps == Init => IInv
  <1> SUFFICES ASSUME Init PROVE IInv
    OBVIOUS
  <1>1. /\ settings = Initial /\ state = "idle" /\ changes = 0
        /\ run = NotRunning /\ tap = NotRunning
        /\ active = [edge |-> Initial["edge"], delay |-> Initial["delay"]]
    BY DEF Init
  <1>2. Initial \in [Names -> Numbers] /\ 0 \in 0 .. MaxChanges
    BY BissConfigAssumption
  <1>3. Initial["edge"] \in Numbers /\ Initial["delay"] \in Numbers
    BY <1>2, NamesOf
  <1>4. TypeOK
    BY <1>1, <1>2, <1>3 DEF TypeOK
  <1> QED
    BY <1>1, <1>4 DEF IInv, Running

LEMMA SetKeeps ==
  ASSUME IInv, NEW input \in Inputs, Set(input[1], input[2])
  PROVE  IInv'
  <1>1. /\ state \in {"idle", "configured"} /\ changes < MaxChanges
        /\ settings' = [settings EXCEPT ![input[1]] = input[2]]
        /\ changes' = changes + 1 /\ UNCHANGED <<state, active, run, tap>>
    BY DEF Set
  <1>2. input[1] \in Names /\ input[2] \in Numbers
    BY BissConfigAssumption
  <1>3. TypeOK /\ MaxChanges \in Nat
    BY BissConfigAssumption DEF IInv
  <1>4. settings' \in [Names -> Numbers] /\ changes' \in 0 .. MaxChanges
    BY <1>1, <1>2, <1>3 DEF TypeOK
  <1> QED
    BY <1>1, <1>3, <1>4 DEF IInv, TypeOK, Running

(* What the program is patched with are numbers of the settings' width.    *)
LEMMA PatchedTypes ==
  ASSUME NEW pr \in [Names -> Numbers]
  PROVE  Patched(pr) \in [edge : Numbers, frame : Numbers, delay : Numbers]
  <1> DEFINE d == IF pr["delay"] > MaxDelay THEN MaxDelay ELSE pr["delay"]
  <1>1. /\ pr["edge"] \in Numbers /\ pr["frame"] \in Numbers
        /\ pr["delay"] \in Numbers
    BY NamesOf
  <1>2. d \in Numbers
    <2>1. MaxDelay \in Nat
      BY BissConfigAssumption
    <2>2. \A n \in Nat : 2 ^ Width = n =>
            \A x \in 0 .. n - 1, m \in Nat :
              (IF x > m THEN m ELSE x) \in 0 .. n - 1
      OBVIOUS
    <2>3. \A x \in Numbers, m \in Nat : (IF x > m THEN m ELSE x) \in Numbers
      BY <2>2, NumbersAre, Zenon
    <2> QED
      BY <1>1, <2>1, <2>3
  <1>3. Patched(pr) = [edge |-> pr["edge"], frame |-> pr["frame"], delay |-> d]
    BY DEF Patched
  <1> HIDE DEF d
  <1> QED
    BY <1>1, <1>2, <1>3

LEMMA ArmKeeps == IInv /\ Arm => IInv'
  <1> SUFFICES ASSUME IInv, Arm PROVE IInv'
    OBVIOUS
  <1>1. /\ state = "configured" /\ ValidConfig(settings)
        /\ active' = [edge |-> settings["edge"], delay |-> settings["delay"]]
        /\ \/ state' = "armed" /\ run' = Started /\ tap' = Patched(run')
           \/ UNCHANGED <<state, run, tap>>
        /\ UNCHANGED <<settings, taken, changes>>
    BY DEF Arm
  <1>2. TypeOK /\ settings \in [Names -> Numbers]
    BY DEF IInv, TypeOK
  <1>3. settings["edge"] \in Numbers /\ settings["delay"] \in Numbers
    BY <1>2, NamesOf
  <1>4. /\ active' \in [edge : Numbers, delay : Numbers]
        /\ active'.edge = settings["edge"] /\ active'.delay = settings["delay"]
    BY <1>1, <1>3
  <1>5. CASE state' = "armed" /\ run' = Started /\ tap' = Patched(run')
    <2> DEFINE pr == MakeProfile(settings)
               e == active'.edge
               d == active'.delay
    <2>1. pr \in [Names -> Numbers]
      BY <1>2, ProfileTypes
    <2>2. e \in Numbers /\ d \in Numbers
      BY <1>3, <1>4
    <2>3. run' = [pr EXCEPT !["delay"] = d, !["edge"] = e]
      BY <1>5 DEF Started
    <2> HIDE DEF pr, e, d
    <2>4. /\ run' \in [Names -> Numbers] /\ run'["delay"] = d /\ run'["edge"] = e
          /\ \A n \in Names \ {"delay", "edge"} : run'[n] = pr[n]
      BY <2>1, <2>2, <2>3, NamesOf
    <2>5. RunsProfile'
      BY <1>1, <2>4 DEF RunsProfile, pr, e, d
    <2>6. active'.delay < CyclesPerBit(settings)
      BY <1>1, <1>2, <1>4, ValidDelays
    <2>7. Running'
      BY <1>1, <1>5, <2>5, <2>6 DEF Running
    <2>8. tap' \in [edge : Numbers, frame : Numbers, delay : Numbers]
      BY <1>5, <2>4, PatchedTypes
    <2> QED
      BY <1>1, <1>2, <1>4, <1>5, <2>4, <2>7, <2>8 DEF IInv, TypeOK
  <1>6. CASE UNCHANGED <<state, run, tap>>
    BY <1>1, <1>2, <1>4, <1>6 DEF IInv, TypeOK, Running
  <1> QED
    BY <1>1, <1>5, <1>6

LEMMA ScanKeeps == IInv /\ ScanStep => IInv'
  <1> SUFFICES ASSUME IInv, ScanStep PROVE IInv'
    OBVIOUS
  <1> DEFINE next == NextDelay(settings, active.delay)
  <1>1. /\ state = "armed" /\ settings["scan"] # 0
        /\ active' = [active EXCEPT !.delay = next]
        /\ run' = [run EXCEPT !["delay"] = next]
        /\ \/ state' = "armed" /\ tap' = Patched(run')
           \/ state' = "fault" /\ tap' = tap
        /\ UNCHANGED <<settings, changes>>
    BY DEF ScanStep, DelayNoted
  <1>2. TypeOK /\ RunsProfile /\ ValidConfig(settings)
    BY <1>1 DEF IInv, Running
  <1>3. /\ settings \in [Names -> Numbers] /\ active.delay \in Numbers
        /\ active \in [edge : Numbers, delay : Numbers]
    BY <1>2 DEF TypeOK
  <1>4. /\ settings["scanStart"] <= settings["scanEnd"]
        /\ settings["scanEnd"] < CyclesPerBit(settings)
    BY <1>1, <1>2, <1>3, ValidDelays
  <1>5. next \in Numbers /\ next <= settings["scanEnd"]
    BY <1>3, <1>4, NextDelayTypes
  <1>6. next < CyclesPerBit(settings)
    <2>1. settings["scanEnd"] \in Nat /\ next \in Nat
      BY <1>3, <1>5, NumbersAre, NamesOf
    <2>2. settings["clock"] \in Nat \ {0} /\ CycleRate \in Nat
      BY <1>2, <1>3, ValidDelays, BissConfigAssumption
    <2>3. CyclesPerBit(settings) \in Nat
      BY <2>2 DEF CyclesPerBit
    <2> QED
      BY <1>4, <1>5, <2>1, <2>3
  <1> HIDE DEF next
  <1>7. /\ active' \in [edge : Numbers, delay : Numbers]
        /\ active'.delay = next /\ active'.edge = active.edge
    BY <1>1, <1>3, <1>5
  <1>8. /\ run' \in [Names -> Numbers] /\ run'["delay"] = next
        /\ \A n \in Names \ {"delay"} : run'[n] = run[n]
    BY <1>1, <1>2, <1>5, NamesOf DEF RunsProfile
  <1>9. RunsProfile'
    BY <1>1, <1>2, <1>7, <1>8, NamesOf DEF RunsProfile
  <1>10. Running'
    BY <1>1, <1>2, <1>6, <1>7, <1>9 DEF Running
  <1>11. tap' \in [edge : Numbers, frame : Numbers, delay : Numbers]
                    \cup {NotRunning}
    BY <1>1, <1>2, <1>8, PatchedTypes DEF TypeOK
  <1> QED
    BY <1>1, <1>2, <1>7, <1>8, <1>10, <1>11 DEF IInv, TypeOK

(* A fault and a release leave the tap unarmed; a frame changes nothing.   *)
LEMMA OthersKeep ==
  ASSUME IInv,
         \/ Configure \/ Fault \/ Release \/ UNCHANGED vars
         \/ \E frame : Receive(frame)
  PROVE  IInv'
  <1>1. TypeOK /\ Running
    BY DEF IInv
  <1>2. CASE Configure
    BY <1>1, <1>2 DEF Configure, IInv, TypeOK, Running
  <1>3. CASE Fault
    BY <1>1, <1>3 DEF Fault, IInv, TypeOK, Running
  <1>4. CASE Release
    BY <1>1, <1>4 DEF Release, IInv, TypeOK, Running
  <1>5. CASE UNCHANGED vars \/ \E frame : Receive(frame)
    <2>1. UNCHANGED <<settings, state, active, run, tap, changes>>
      BY <1>5 DEF vars, Receive
    <2> QED
      BY <1>1, <2>1 DEF IInv, TypeOK, Running, RunsProfile
  <1> QED
    BY <1>2, <1>3, <1>4, <1>5

LEMMA NextKeeps == IInv /\ [Next]_vars => IInv'
  <1> SUFFICES ASSUME IInv, [Next]_vars PROVE IInv'
    OBVIOUS
  <1>1. CASE \E input \in Inputs : Set(input[1], input[2])
    BY <1>1, SetKeeps
  <1>2. CASE Arm
    BY <1>2, ArmKeeps
  <1>3. CASE ScanStep
    BY <1>3, ScanKeeps
  <1>4. CASE \/ Configure \/ Fault \/ Release \/ UNCHANGED vars
             \/ \E n \in 1 .. MaxFrame :
                  \E frame \in [1 .. n -> {0, 1}] : Receive(frame)
    BY <1>4, OthersKeep
  <1> QED
    BY <1>1, <1>2, <1>3, <1>4 DEF Next

(* The inductive invariant: an armed tap runs the profile of valid         *)
(* settings, and the delay of its scan stays within the bit.               *)
THEOREM BissInvariant == Spec => []IInv
  <1>1. Init => IInv
    BY InitKeeps
  <1>2. IInv /\ [Next]_vars => IInv'
    BY NextKeeps
  <1> QED
    BY <1>1, <1>2, PTL DEF Spec

(* The bits of a field that fits lie within the frame.                     *)
LEMMA FieldWithin ==
  ASSUME NEW offset \in Nat, NEW bits \in Nat, NEW frame \in Nat,
         bits > 0 => Fits(offset, bits, frame)
  PROVE  Field(offset, bits) \subseteq 0 .. frame - 1
  BY DEF Field, Fits

(* Every bit the decoder reads lies within the frame, and every delay it   *)
(* samples with within the bit, while the tap is armed                     *)
(* (biss_profile_validate, fb_valid_biss_config): after any settings, any  *)
(* refusal and any number of steps of the scan.                            *)
THEOREM BissDecodable == Spec => []ProfileDecodable
  <1>1. IInv => ProfileDecodable
    <2> SUFFICES ASSUME IInv, state = "armed"
                 PROVE  /\ UNION {Field(run["posOffset"], run["posBits"]),
                             Field(run["anchorOffset"], run["anchorBits"]),
                             Field(run["crcOffset"], run["crcBits"]),
                             Field(run["coverOffset"], run["coverBits"]),
                             {run["errorBit"], run["warningBit"]} \ {Disabled}}
                             \subseteq 0 .. run["frame"] - 1
                        /\ Field(run["posOffset"], run["posBits"]) # {}
                        /\ run["delay"] * run["clock"] < CycleRate
      BY DEF ProfileDecodable
    <2> DEFINE pr == MakeProfile(settings)
               frame == run["frame"]
    <2>1. /\ TypeOK /\ RunsProfile /\ ValidConfig(settings)
          /\ active.delay < CyclesPerBit(settings)
      BY DEF IInv, Running
    <2>2. settings \in [Names -> Numbers]
      BY <2>1 DEF TypeOK
    <2>3. ValidProfile(pr)
      BY <2>1 DEF ValidConfig
    <2>4. \A n \in Names \ {"delay", "edge"} : run[n] = pr[n]
      BY <2>1 DEF RunsProfile
    <2>5. \A n \in Names : run[n] \in Nat
      BY <2>1, NumbersAre DEF RunsProfile
    <2> HIDE DEF pr
    <2>6. /\ pr["frame"] = frame
          /\ pr["posOffset"] = run["posOffset"] /\ pr["posBits"] = run["posBits"]
          /\ pr["anchorOffset"] = run["anchorOffset"]
          /\ pr["anchorBits"] = run["anchorBits"]
          /\ pr["crcOffset"] = run["crcOffset"] /\ pr["crcBits"] = run["crcBits"]
          /\ pr["coverOffset"] = run["coverOffset"]
          /\ pr["coverBits"] = run["coverBits"]
          /\ pr["errorBit"] = run["errorBit"]
          /\ pr["warningBit"] = run["warningBit"]
      BY <2>4, NamesOf
    <2>7. /\ Fits(run["posOffset"], run["posBits"], frame)
          /\ run["anchorBits"] > 0 =>
               Fits(run["anchorOffset"], run["anchorBits"], frame)
          /\ run["crcBits"] > 0 => Fits(run["crcOffset"], run["crcBits"], frame)
          /\ run["coverBits"] > 0 =>
               Fits(run["coverOffset"], run["coverBits"], frame)
          /\ run["errorBit"] = Disabled \/ run["errorBit"] < frame
          /\ run["warningBit"] = Disabled \/ run["warningBit"] < frame
      BY <2>3, <2>6 DEF ValidProfile, OptionalBitFits
    <2>8. /\ run["posOffset"] \in Nat /\ run["posBits"] \in Nat
          /\ run["anchorOffset"] \in Nat /\ run["anchorBits"] \in Nat
          /\ run["crcOffset"] \in Nat /\ run["crcBits"] \in Nat
          /\ run["coverOffset"] \in Nat /\ run["coverBits"] \in Nat
          /\ run["errorBit"] \in Nat /\ run["warningBit"] \in Nat
          /\ frame \in Nat
      BY <2>5, NamesOf
    <2> HIDE DEF frame
    <2>9. /\ Field(run["posOffset"], run["posBits"]) \subseteq 0 .. frame - 1
          /\ Field(run["anchorOffset"], run["anchorBits"]) \subseteq 0 .. frame - 1
          /\ Field(run["crcOffset"], run["crcBits"]) \subseteq 0 .. frame - 1
          /\ Field(run["coverOffset"], run["coverBits"]) \subseteq 0 .. frame - 1
      BY <2>7, <2>8, FieldWithin
    <2>10. {run["errorBit"], run["warningBit"]} \ {Disabled} \subseteq 0 .. frame - 1
      BY <2>7, <2>8
    <2>11. Field(run["posOffset"], run["posBits"]) # {}
      <3>1. run["posBits"] > 0
        BY <2>7, <2>8 DEF Fits
      <3>2. run["posOffset"] + 0 \in Field(run["posOffset"], run["posBits"])
        BY <2>8, <3>1 DEF Field
      <3> QED
        BY <3>2
    <2>12. run["delay"] * run["clock"] < CycleRate
      <3>1. run["clock"] = settings["clock"] /\ run["delay"] = active.delay
        <4>1. pr["clock"] = settings["clock"]
          BY <2>2, ProfileTypes, NamesOf DEF pr
        <4> QED
          BY <2>1, <2>4, <4>1, NamesOf DEF RunsProfile
      <3>2. /\ settings["clock"] \in Nat \ {0} /\ CycleRate \in Nat
            /\ active.delay \in Nat
        BY <2>1, <2>2, ValidDelays, NumbersAre, BissConfigAssumption DEF TypeOK
      <3> QED
        BY <2>1, <3>1, <3>2, Quotient DEF CyclesPerBit
    <2> QED
      BY <2>9, <2>10, <2>11, <2>12 DEF frame
  <1> QED
    BY <1>1, BissInvariant, PTL

(* What the queries report of an armed tap is what biss_node_io judges by, *)
(* but for the constants the profile keeps as bytes, and what the PIO      *)
(* program was patched with (biss_tap_rx_program_patch), but for a delay   *)
(* longer than it can wait: after any settings, refusals and scan steps.   *)
THEOREM BissRunsAsReported == Spec => []RunsAsReported
  <1>1. IInv => RunsAsReported
    <2> SUFFICES ASSUME IInv, state = "armed"
                 PROVE  /\ \A n \in Names \ {"edge", "delay", "poly", "init",
                                             "xor"} : run[n] = settings[n]
                        /\ run["edge"] = active.edge
                        /\ run["delay"] = active.delay
                        /\ tap.edge = active.edge
                        /\ tap.frame = settings["frame"]
                        /\ IF active.delay <= MaxDelay
                           THEN tap.delay = active.delay
                           ELSE tap.delay = MaxDelay
      BY DEF RunsAsReported
    <2>1. RunsProfile /\ settings \in [Names -> Numbers] /\ tap = Patched(run)
      BY DEF IInv, Running, TypeOK
    <2>2. \A n \in Names \ {"poly", "init", "xor"} :
            MakeProfile(settings)[n] = settings[n]
      BY <2>1, ProfileTypes
    <2>3. /\ \A n \in Names \ {"edge", "delay", "poly", "init", "xor"} :
               run[n] = settings[n]
          /\ run["edge"] = active.edge /\ run["delay"] = active.delay
      BY <2>1, <2>2 DEF RunsProfile
    <2>4. run["frame"] = settings["frame"]
      BY <2>3, NamesOf
    <2>5. /\ tap.edge = run["edge"] /\ tap.frame = run["frame"]
          /\ tap.delay = IF run["delay"] > MaxDelay THEN MaxDelay
                         ELSE run["delay"]
      BY <2>1 DEF Patched
    <2>6. active.delay \in Nat /\ MaxDelay \in Nat
      BY NumbersAre, BissConfigAssumption DEF IInv, TypeOK
    <2> QED
      BY <2>3, <2>4, <2>5, <2>6
  <1> QED
    BY <1>1, BissInvariant, PTL

-----------------------------------------------------------------------------
(* Climbing from 0 to m, and what is computed on the way.                  *)
LEMMA Least ==
  ASSUME NEW T, T \subseteq Nat, T # {}
  PROVE  \E x \in T : \A y \in T : x <= y
  <1> DEFINE R == OpToRel(<, Nat)
  <1>1. IsWellFoundedOn(R, Nat)
    BY NatLessThanWellFounded
  <1>2. PICK x \in T : \A y \in T : ~(<<y, x>> \in R)
    <2> HIDE DEF R
    <2> QED
      BY <1>1, WFMin
  <1>3. \A y \in T : ~(y < x)
    BY <1>2 DEF OpToRel
  <1> QED
    BY <1>3

LEMMA Climb ==
  ASSUME NEW m \in Nat, NEW T, 0 \in T, \A i \in 0 .. m - 1 : i \in T => i + 1 \in T
  PROVE  0 .. m \subseteq T
  <1>1. SUFFICES ASSUME (0 .. m) \ T # {} PROVE FALSE
    OBVIOUS
  <1>2. PICK x \in (0 .. m) \ T : \A y \in (0 .. m) \ T : x <= y
    <2>1. (0 .. m) \ T \subseteq Nat
      OBVIOUS
    <2> QED
      BY <1>1, <2>1, Least
  <1>3. x # 0
    BY <1>2
  <1>4. x - 1 \in 0 .. m - 1
    BY <1>2, <1>3
  <1>5. x - 1 \in T
    BY <1>2, <1>4
  <1>6. (x - 1) + 1 \in T
    BY <1>4, <1>5
  <1> QED
    BY <1>2, <1>6

(* What is computed from each place to the next is a function.             *)
Rules(Values, m) == [Values \X (1 .. m) -> Values]

LEMMA Computed ==
  ASSUME NEW m \in Nat, NEW Values, NEW first \in Values,
         NEW next \in Rules(Values, m)
  PROVE  \E g \in [0 .. m -> Values] :
           g[0] = first /\ \A i \in 1 .. m : g[i] = next[<<g[i - 1], i>>]
  <1> DEFINE IsRun(g, k) ==
               /\ g \in [0 .. k -> Values] /\ g[0] = first
               /\ \A i \in 1 .. k : g[i] = next[<<g[i - 1], i>>]
             T == {k \in 0 .. m : \E g : IsRun(g, k)}
  <1>1. 0 \in T
    <2> DEFINE g == [i \in 0 .. 0 |-> first]
    <2>1. IsRun(g, 0)
      OBVIOUS
    <2>2. 0 \in 0 .. m
      OBVIOUS
    <2> HIDE DEF IsRun, g
    <2> QED
      BY <2>1, <2>2
  <1>2. ASSUME NEW k \in 0 .. m - 1, k \in T
        PROVE  k + 1 \in T
    <2>1. PICK g : IsRun(g, k)
      BY <1>2
    <2> DEFINE h == [i \in 0 .. k + 1 |-> IF i = k + 1 THEN next[<<g[k], k + 1>>] ELSE g[i]]
    <2>2. g[k] \in Values /\ <<g[k], k + 1>> \in Values \X (1 .. m)
      BY <2>1
    <2>21. next[<<g[k], k + 1>>] \in Values
      BY <2>2 DEF Rules
    <2>3. h \in [0 .. k + 1 -> Values] /\ h[0] = first
      BY <2>1, <2>2, <2>21
    <2>4. ASSUME NEW i \in 1 .. k + 1
          PROVE  h[i] = next[<<h[i - 1], i>>]
      <3>1. CASE i = k + 1
        <4>1. i - 1 = k /\ k \in 0 .. k + 1 /\ k # k + 1 /\ i \in 0 .. k + 1
          BY <3>1
        <4>2. h[i] = next[<<g[k], k + 1>>]
          BY <3>1, <4>1
        <4>3. h[k] = g[k]
          BY <4>1
        <4> HIDE DEF h
        <4> QED
          BY <3>1, <4>1, <4>2, <4>3
      <3>2. CASE i \in 1 .. k
        <4>1. h[i] = g[i] /\ h[i - 1] = g[i - 1]
          BY <3>2
        <4> QED
          BY <2>1, <3>2, <4>1
      <3> QED
        BY <3>1, <3>2
    <2>5. k + 1 \in 0 .. m
      OBVIOUS
    <2> HIDE DEF h
    <2>6. IsRun(h, k + 1)
      BY <2>3, <2>4
    <2> HIDE DEF IsRun
    <2> QED
      BY <2>5, <2>6
  <1>3. m \in T
    <2> HIDE DEF T
    <2>1. \A k \in 0 .. m - 1 : k \in T => k + 1 \in T
      BY <1>2
    <2>2. 0 .. m \subseteq T
      BY <1>1, <2>1, Climb
    <2> QED
      BY <2>2
  <1>4. PICK g : IsRun(g, m)
    BY <1>3
  <1> QED
    BY <1>4

-----------------------------------------------------------------------------
(* Bits, registers and messages.                                           *)
Bit == {0, 1}
Register(n) == [1 .. n -> Bit]

LEMMA Mod2 == \A x \in Nat : x % 2 \in Bit
  BY DEF Bit

LEMMA PowersAre == \A k \in 0 .. MaxCrc : 2 ^ k \in Nat \ {0}
  BY BissConfigAssumption

LEMMA BitsOfTypes ==
  ASSUME NEW x \in Nat, NEW n \in 0 .. MaxCrc
  PROVE  BitsOf(x, n) \in Register(n)
  <1>1. ASSUME NEW i \in 1 .. n
        PROVE  (x \div 2 ^ (n - i)) % 2 \in Bit
    <2>1. n - i \in 0 .. MaxCrc
      BY BissConfigAssumption
    <2>2. PICK d \in Nat \ {0} : d = 2 ^ (n - i)
      BY <2>1, PowersAre
    <2>3. x \div d \in Nat
      OBVIOUS
    <2>4. (x \div d) % 2 \in Bit
      BY <2>3, Mod2
    <2> QED
      BY <2>2, <2>4
  <1> QED
    BY <1>1 DEF BitsOf, Register

LEMMA PlusTypes ==
  ASSUME NEW n \in Nat, NEW a \in Register(n), NEW b \in Register(n)
  PROVE  /\ Plus(a, b) \in Register(n)
         /\ \A i \in 1 .. n : Plus(a, b)[i] = (a[i] + b[i]) % 2
  <1>1. DOMAIN a = 1 .. n
    BY DEF Register
  <1>2. ASSUME NEW i \in 1 .. n
        PROVE  (a[i] + b[i]) % 2 \in Bit
    BY Mod2 DEF Register, Bit
  <1> QED
    BY <1>1, <1>2 DEF Plus, Register

(* One bit of the register: a shift, and the polynomial if it is fed.      *)
LEMMA Stepped ==
  ASSUME NEW pr, NEW n \in 1 .. MaxCrc, pr["poly"] \in Nat,
         NEW c \in Register(n), NEW bit \in Bit
  PROVE  /\ CrcStep(pr, c, bit) \in Register(n)
         /\ \A k \in 1 .. n : CrcStep(pr, c, bit)[k] =
              ((IF k < n THEN c[k + 1] ELSE 0)
                + (IF bit # c[1] THEN BitsOf(pr["poly"], n)[k] ELSE 0)) % 2
  <1> DEFINE shifted == Append(Tail(c), 0)
             p == BitsOf(pr["poly"], n)
  <1>0. n \in Nat \ {0} /\ n \in 0 .. MaxCrc
    BY BissConfigAssumption
  <1>1. c \in Seq(Bit) /\ Len(c) = n /\ c # <<>> /\ Head(c) = c[1]
    BY <1>0 DEF Register
  <1>2. /\ Tail(c) \in Seq(Bit) /\ Len(Tail(c)) = n - 1
        /\ \A k \in 1 .. n - 1 : Tail(c)[k] = c[k + 1]
    BY <1>0, <1>1
  <1>3. 0 \in Bit
    BY DEF Bit
  <1>4. /\ shifted \in Seq(Bit) /\ Len(shifted) = n /\ shifted[n] = 0
        /\ \A k \in 1 .. n - 1 : shifted[k] = c[k + 1]
    BY <1>0, <1>2, <1>3
  <1> HIDE DEF shifted
  <1>5. shifted \in Register(n)
    BY <1>4 DEF Register
  <1>6. \A k \in 1 .. n : shifted[k] = IF k < n THEN c[k + 1] ELSE 0
    BY <1>0, <1>4
  <1>7. p \in Register(n)
    BY <1>0, BitsOfTypes
  <1>8. CrcStep(pr, c, bit) = IF bit # c[1] THEN Plus(shifted, p) ELSE shifted
    BY <1>1 DEF CrcStep, shifted
  <1> HIDE DEF p
  <1>9. CASE bit # c[1]
    <2>1. CrcStep(pr, c, bit) = Plus(shifted, p)
      BY <1>8, <1>9
    <2> QED
      BY <1>0, <1>5, <1>6, <1>7, <1>9, <2>1, PlusTypes DEF p
  <1>10. CASE ~(bit # c[1])
    <2>1. CrcStep(pr, c, bit) = shifted
      BY <1>8, <1>10
    <2>2. \A k \in 1 .. n : shifted[k] \in Bit
      BY <1>5 DEF Register
    <2>3. \A x \in Bit : (x + 0) % 2 = x
      BY DEF Bit
    <2> QED
      BY <1>5, <1>6, <1>10, <2>1, <2>2, <2>3
  <1> QED
    BY <1>9, <1>10

(* The registers of a message, each of them from the one before.           *)
LEMMA RegistersSteps ==
  ASSUME NEW pr, NEW n \in 1 .. MaxCrc, pr["crcBits"] = n,
         pr["poly"] \in Nat, pr["init"] \in Nat,
         NEW message \in Seq(Bit)
  PROVE  LET g == Registers(pr, message)
         IN  /\ g \in [0 .. Len(message) -> Register(n)]
             /\ g[0] = BitsOf(pr["init"], n)
             /\ \A i \in 1 .. Len(message) : g[i] = CrcStep(pr, g[i - 1], message[i])
  <1> DEFINE m == Len(message)
             first == BitsOf(pr["init"], n)
             next == [vi \in Register(n) \X (1 .. m) |-> CrcStep(pr, vi[1], message[vi[2]])]
             Steps(g) == g = [i \in 0 .. m |->
               IF i = 0 THEN first ELSE CrcStep(pr, g[i - 1], message[i])]
             g == CHOOSE g : Steps(g)
  <1>1. m \in Nat /\ \A i \in 1 .. m : message[i] \in Bit
    OBVIOUS
  <1>2. first \in Register(n)
    BY BitsOfTypes, BissConfigAssumption
  <1>20. \A v \in Register(n), bit \in Bit : CrcStep(pr, v, bit) \in Register(n)
    BY Stepped
  <1>3. next \in Rules(Register(n), m)
    BY <1>1, <1>20 DEF Rules
  <1>4. \A v \in Register(n), i \in 1 .. m : next[<<v, i>>] = CrcStep(pr, v, message[i])
    OBVIOUS
  <1> HIDE DEF next, first, m
  <1>5. PICK c \in [0 .. m -> Register(n)] :
          c[0] = first /\ \A i \in 1 .. m : c[i] = next[<<c[i - 1], i>>]
    BY <1>1, <1>2, <1>3, Computed, SMTT(30)
  <1>6. \A i \in 1 .. m : c[i] = CrcStep(pr, c[i - 1], message[i])
    <2> TAKE i \in 1 .. m
    <2>1. i - 1 \in 0 .. m
      BY <1>1
    <2>2. c[i - 1] \in Register(n)
      BY <2>1
    <2> QED
      BY <1>4, <1>5, <2>2
  <1>7. Steps(c)
    <2>1. \A i \in 0 .. m : c[i] = IF i = 0 THEN first ELSE CrcStep(pr, c[i - 1], message[i])
      BY <1>1, <1>5, <1>6
    <2> QED
      BY <2>1
  <1>8. Steps(g)
    <2> HIDE DEF Steps
    <2> QED
      BY <1>7
  <1>9. Registers(pr, message) = g
    BY DEF Registers, m, first
  <1> HIDE DEF g
  <1>10. g[0] = first /\ \A i \in 1 .. m : g[i] = CrcStep(pr, g[i - 1], message[i])
    <2>1. \A i \in 0 .. m : g[i] = IF i = 0 THEN first ELSE CrcStep(pr, g[i - 1], message[i])
      BY <1>8
    <2> QED
      BY <1>1, <2>1
  <1>11. \A i \in 0 .. m : g[i] \in Register(n)
    <2> DEFINE T == {i \in 0 .. m : g[i] \in Register(n)}
    <2>1. 0 \in T
      BY <1>1, <1>2, <1>10
    <2>2. ASSUME NEW i \in 0 .. m - 1, i \in T
          PROVE  i + 1 \in T
      <3>1. i + 1 \in 1 .. m /\ (i + 1) - 1 = i
        BY <1>1
      <3>2. g[i + 1] = CrcStep(pr, g[i], message[i + 1])
        BY <1>10, <3>1
      <3>3. g[i] \in Register(n) /\ message[i + 1] \in Bit
        BY <1>1, <2>2, <3>1
      <3> QED
        BY <1>20, <3>1, <3>2, <3>3
    <2>3. 0 .. m \subseteq T
      <3> HIDE DEF T
      <3>1. \A i \in 0 .. m - 1 : i \in T => i + 1 \in T
        BY <2>2
      <3> QED
        BY <1>1, <2>1, <3>1, Climb
    <2> QED
      BY <2>3
  <1>12. g = [i \in 0 .. m |-> g[i]]
    BY <1>8
  <1>13. g \in [0 .. m -> Register(n)]
    BY <1>11, <1>12
  <1> QED
    BY <1>9, <1>10, <1>13 DEF m, first

-----------------------------------------------------------------------------
(* The division, place by place.                                           *)
LEMMA DividendIs ==
  ASSUME NEW pr, NEW n \in 1 .. MaxCrc, pr["crcBits"] = n,
         pr["init"] \in Nat, NEW message \in Seq(Bit)
  PROVE  LET m == Len(message)
             d == Dividend(pr, message)
         IN  /\ d \in Register(m + n)
             /\ \A k \in 1 .. m + n : d[k] =
                  ((IF k <= m THEN message[k] ELSE 0)
                    + (IF k <= n THEN BitsOf(pr["init"], n)[k] ELSE 0)) % 2
  <1> DEFINE m == Len(message)
             first == BitsOf(pr["init"], n)
             at(k) == (IF k <= m THEN message[k] ELSE 0) + (IF k <= n THEN first[k] ELSE 0)
  <1>1. m \in Nat /\ n \in Nat
    BY BissConfigAssumption
  <1>2. first \in Register(n)
    BY BitsOfTypes, BissConfigAssumption
  <1>3. ASSUME NEW k \in 1 .. m + n
        PROVE  at(k) \in Nat
    <2>1. k <= m => message[k] \in Nat
      <3>1. k <= m => message[k] \in Bit
        BY <1>1
      <3> QED
        BY <3>1 DEF Bit
    <2>2. k <= n => first[k] \in Nat
      BY <1>1, <1>2 DEF Register, Bit
    <2> HIDE DEF first, m
    <2> QED
      BY <2>1, <2>2
  <1>4. Dividend(pr, message) = [k \in 1 .. m + n |-> at(k) % 2]
    BY DEF Dividend
  <1> HIDE DEF at
  <1>5. \A k \in 1 .. m + n : at(k) % 2 \in Bit
    BY <1>3, Mod2
  <1> QED
    BY <1>4, <1>5 DEF Register, at

LEMMA DividedIs ==
  ASSUME NEW pr, NEW n \in 1 .. MaxCrc, pr["crcBits"] = n, pr["poly"] \in Nat,
         NEW m \in Nat, NEW d \in Register(m + n), NEW i \in 1 .. m
  PROVE  /\ Divided(pr, d, i) \in Register(m + n)
         /\ \A k \in 1 .. m + n : Divided(pr, d, i)[k] =
              IF d[i] = 1 /\ k \in i .. i + n
              THEN (d[k] + (IF k = i THEN 1 ELSE BitsOf(pr["poly"], n)[k - i])) % 2
              ELSE d[k]
  <1> DEFINE p == BitsOf(pr["poly"], n)
             divisor == <<1>> \o p
             new(k) == IF d[i] = 1 /\ k \in i .. i + n
                       THEN (d[k] + divisor[k - i + 1]) % 2 ELSE d[k]
  <1>1. n \in Nat \ {0} /\ n \in 0 .. MaxCrc
    BY BissConfigAssumption
  <1>2. p \in Register(n)
    BY <1>1, BitsOfTypes
  <1> HIDE DEF p
  <1>3. p \in Seq(Bit) /\ Len(p) = n
    BY <1>1, <1>2 DEF Register
  <1>4. <<1>> \in Seq(Bit) /\ Len(<<1>>) = 1
    BY DEF Bit
  <1>5. \A j \in 1 .. n + 1 : divisor[j] = IF j = 1 THEN 1 ELSE p[j - 1]
    BY <1>1, <1>3, <1>4
  <1>6. \A j \in 1 .. n + 1 : divisor[j] \in Bit
    BY <1>1, <1>2, <1>5 DEF Register, Bit
  <1> HIDE DEF divisor
  <1>7. DOMAIN d = 1 .. m + n /\ \A k \in 1 .. m + n : d[k] \in Bit
    BY DEF Register
  <1>8. Divided(pr, d, i) = [k \in 1 .. m + n |-> new(k)]
    BY <1>7 DEF Divided, divisor, p
  <1>9. ASSUME NEW k \in 1 .. m + n
        PROVE  /\ new(k) \in Bit
               /\ new(k) = IF d[i] = 1 /\ k \in i .. i + n
                           THEN (d[k] + (IF k = i THEN 1 ELSE p[k - i])) % 2 ELSE d[k]
    <2>1. CASE d[i] = 1 /\ k \in i .. i + n
      <3>1. k - i + 1 \in 1 .. n + 1 /\ (k - i + 1) - 1 = k - i /\ (k - i + 1 = 1 <=> k = i)
        BY <1>1, <2>1
      <3>2. divisor[k - i + 1] = IF k = i THEN 1 ELSE p[k - i]
        BY <1>5, <3>1
      <3>3. d[k] + divisor[k - i + 1] \in Nat
        BY <1>6, <1>7, <3>1 DEF Bit
      <3>4. new(k) = (d[k] + divisor[k - i + 1]) % 2
        BY <2>1
      <3> QED
        BY <2>1, <3>2, <3>3, <3>4, Mod2
    <2>2. CASE ~(d[i] = 1 /\ k \in i .. i + n)
      BY <1>7, <2>2
    <2> QED
      BY <2>1, <2>2
  <1> HIDE DEF new
  <1> QED
    BY <1>8, <1>9 DEF Register, p

LEMMA DivisionSteps ==
  ASSUME NEW pr, NEW n \in 1 .. MaxCrc, pr["crcBits"] = n,
         pr["poly"] \in Nat, pr["init"] \in Nat,
         NEW message \in Seq(Bit)
  PROVE  LET l == Division(pr, message)
             m == Len(message)
         IN  /\ l \in [0 .. m -> Register(m + n)]
             /\ l[0] = Dividend(pr, message)
             /\ \A i \in 1 .. m : l[i] = Divided(pr, l[i - 1], i)
  <1> DEFINE m == Len(message)
             first == Dividend(pr, message)
             next == [vi \in Register(m + n) \X (1 .. m) |-> Divided(pr, vi[1], vi[2])]
             Steps(l) == l = [i \in 0 .. m |->
               IF i = 0 THEN first ELSE Divided(pr, l[i - 1], i)]
             l == CHOOSE l : Steps(l)
  <1>1. m \in Nat
    OBVIOUS
  <1>2. first \in Register(m + n)
    BY DividendIs
  <1> HIDE DEF m
  <1>20. \A v \in Register(m + n), i \in 1 .. m : Divided(pr, v, i) \in Register(m + n)
    BY <1>1, DividedIs
  <1>3. next \in Rules(Register(m + n), m)
    BY <1>20 DEF Rules
  <1>4. \A v \in Register(m + n), i \in 1 .. m : next[<<v, i>>] = Divided(pr, v, i)
    OBVIOUS
  <1> HIDE DEF next, first
  <1>5. PICK c \in [0 .. m -> Register(m + n)] :
          c[0] = first /\ \A i \in 1 .. m : c[i] = next[<<c[i - 1], i>>]
    <2> DEFINE V == Register(m + n)
    <2>1. first \in V /\ next \in Rules(V, m)
      BY <1>2, <1>3
    <2> HIDE DEF V
    <2>2. \E c \in [0 .. m -> V] :
            c[0] = first /\ \A i \in 1 .. m : c[i] = next[<<c[i - 1], i>>]
      BY ONLY <1>1, <2>1, Computed, SMTT(30)
    <2> QED
      BY <2>2 DEF V
  <1>6. \A i \in 1 .. m : c[i] = Divided(pr, c[i - 1], i)
    <2> TAKE i \in 1 .. m
    <2>1. i - 1 \in 0 .. m
      BY <1>1
    <2>2. c[i - 1] \in Register(m + n)
      BY <2>1
    <2> QED
      BY <1>4, <1>5, <2>2
  <1>7. Steps(c)
    <2>1. \A i \in 0 .. m : c[i] = IF i = 0 THEN first ELSE Divided(pr, c[i - 1], i)
      BY <1>1, <1>5, <1>6
    <2> QED
      BY <2>1
  <1>8. Steps(l)
    <2> HIDE DEF Steps
    <2> QED
      BY <1>7
  <1>9. Division(pr, message) = l
    BY DEF Division, m, first
  <1> HIDE DEF l
  <1>10. l[0] = first /\ \A i \in 1 .. m : l[i] = Divided(pr, l[i - 1], i)
    <2>1. \A i \in 0 .. m : l[i] = IF i = 0 THEN first ELSE Divided(pr, l[i - 1], i)
      BY <1>8
    <2> QED
      BY <1>1, <2>1
  <1>11. \A i \in 0 .. m : l[i] \in Register(m + n)
    <2> DEFINE T == {i \in 0 .. m : l[i] \in Register(m + n)}
    <2>1. 0 \in T
      BY <1>1, <1>2, <1>10
    <2>2. ASSUME NEW i \in 0 .. m - 1, i \in T
          PROVE  i + 1 \in T
      <3>1. i + 1 \in 1 .. m /\ (i + 1) - 1 = i
        BY <1>1
      <3>2. l[i + 1] = Divided(pr, l[i], i + 1)
        BY <1>10, <3>1
      <3>3. l[i] \in Register(m + n)
        BY <2>2
      <3> QED
        BY <1>20, <3>1, <3>2, <3>3
    <2>3. 0 .. m \subseteq T
      <3> HIDE DEF T
      <3>1. \A i \in 0 .. m - 1 : i \in T => i + 1 \in T
        BY <2>2
      <3> QED
        BY <1>1, <2>1, <3>1, Climb
    <2> QED
      BY <2>3
  <1>12. l = [i \in 0 .. m |-> l[i]]
    BY <1>8
  <1>13. l \in [0 .. m -> Register(m + n)]
    BY <1>11, <1>12
  <1> QED
    BY <1>9, <1>10, <1>13 DEF m, first

(* The part of the dividend under the register, after i places: the         *)
(* register added to the message, and beyond it the message alone.         *)
At(message, k) == IF k <= Len(message) THEN message[k] ELSE 0

LEMMA RegisterIsDivided ==
  ASSUME NEW pr, NEW n \in 1 .. MaxCrc, pr["crcBits"] = n,
         pr["poly"] \in Nat, pr["init"] \in Nat,
         NEW message \in Seq(Bit)
  PROVE  \A i \in 0 .. Len(message) : \A k \in i + 1 .. Len(message) + n :
           Division(pr, message)[i][k] =
             IF k <= i + n
             THEN (Registers(pr, message)[i][k - i] + At(message, k)) % 2
             ELSE At(message, k)
  <1> DEFINE m == Len(message)
             g == Registers(pr, message)
             l == Division(pr, message)
             p == BitsOf(pr["poly"], n)
             M(k) == At(message, k)
             Same(i) == \A k \in i + 1 .. m + n :
               l[i][k] = IF k <= i + n THEN (g[i][k - i] + M(k)) % 2 ELSE M(k)
             T == {i \in 0 .. m : Same(i)}
  <1>1. m \in Nat /\ n \in Nat \ {0} /\ n \in 0 .. MaxCrc
    BY BissConfigAssumption
  <1>2. /\ g \in [0 .. m -> Register(n)]
        /\ g[0] = BitsOf(pr["init"], n)
        /\ \A i \in 1 .. m : g[i] = CrcStep(pr, g[i - 1], message[i])
    BY RegistersSteps
  <1>3. /\ l \in [0 .. m -> Register(m + n)]
        /\ l[0] = Dividend(pr, message)
        /\ \A i \in 1 .. m : l[i] = Divided(pr, l[i - 1], i)
    BY DivisionSteps
  <1>4. \A k \in 1 .. m + n : M(k) \in Bit
    <2>1. \A k \in 1 .. m : message[k] \in Bit
      OBVIOUS
    <2> QED
      BY <1>1, <2>1 DEF At, Bit
  <1>5. p \in Register(n)
    BY <1>1, BitsOfTypes
  <1>6. \A k \in 1 .. m + n : l[0][k] =
          (M(k) + (IF k <= n THEN g[0][k] ELSE 0)) % 2
    BY <1>2, <1>3, DividendIs DEF At
  <1>7. \A i \in 1 .. m : message[i] \in Bit /\ M(i) = message[i]
    BY <1>1 DEF At
  <1>8. \A i \in 0 .. m : g[i] \in Register(n) /\ l[i] \in Register(m + n)
    BY <1>2, <1>3
  <1>9. \A d \in Register(m + n), i \in 1 .. m, k \in 1 .. m + n : Divided(pr, d, i)[k] =
              IF d[i] = 1 /\ k \in i .. i + n
              THEN (d[k] + (IF k = i THEN 1 ELSE p[k - i])) % 2
              ELSE d[k]
    BY <1>1, DividedIs
  <1>10. \A c \in Register(n), bit \in Bit, k \in 1 .. n : CrcStep(pr, c, bit)[k] =
              ((IF k < n THEN c[k + 1] ELSE 0)
                + (IF bit # c[1] THEN p[k] ELSE 0)) % 2
    BY <1>1, Stepped
  <1> HIDE DEF m, g, l, p, M
  <1>11. \A i \in 0 .. m : \A k \in 1 .. n : g[i][k] \in Bit
    BY <1>8 DEF Register
  <1>12. \A i \in 0 .. m : \A k \in 1 .. m + n : l[i][k] \in Bit
    BY <1>8 DEF Register
  <1>13. \A k \in 1 .. n : p[k] \in Bit
    BY <1>5 DEF Register
  <1>14. 0 \in T
    <2>1. ASSUME NEW k \in 1 .. m + n
          PROVE  l[0][k] = IF k <= 0 + n THEN (g[0][k - 0] + M(k)) % 2 ELSE M(k)
      <3>1. CASE k <= n
        <4>1. g[0][k] \in Bit /\ M(k) \in Bit
          BY <1>1, <1>4, <1>11, <3>1
        <4>2. k - 0 = k /\ 0 + n = n
          BY <1>1
        <4> QED
          BY <1>6, <3>1, <4>1, <4>2 DEF Bit
      <3>2. CASE ~(k <= n)
        <4>1. M(k) \in Bit /\ (M(k) + 0) % 2 = M(k)
          BY <1>4 DEF Bit
        <4> QED
          BY <1>1, <1>6, <3>2, <4>1
      <3> QED
        BY <3>1, <3>2
    <2>2. 0 \in 0 .. m /\ 0 + 1 = 1
      BY <1>1
    <2> QED
      BY <2>1, <2>2
  <1>15. ASSUME NEW i \in 0 .. m - 1, i \in T
         PROVE  i + 1 \in T
    <2>1. i + 1 \in 1 .. m /\ (i + 1) - 1 = i /\ i \in 0 .. m /\ i + 1 \in 0 .. m
      BY <1>1
    <2>2. Same(i)
      BY <1>15
    <2> DEFINE fed == message[i + 1] # g[i][1]
    <2>3. message[i + 1] \in Bit /\ M(i + 1) = message[i + 1] /\ g[i][1] \in Bit
      BY <1>1, <1>7, <1>11, <2>1
    <2>4. l[i][i + 1] = (g[i][1] + message[i + 1]) % 2
      <3>1. i + 1 \in i + 1 .. m + n /\ i + 1 <= i + n /\ (i + 1) - i = 1
        BY <1>1
      <3> QED
        BY <2>2, <2>3, <3>1
    <2>5. l[i][i + 1] = 1 <=> fed
      BY <2>3, <2>4 DEF Bit
    <2>6. \A k \in 1 .. m + n : l[i + 1][k] =
            IF fed /\ k \in i + 1 .. i + 1 + n
            THEN (l[i][k] + (IF k = i + 1 THEN 1 ELSE p[k - (i + 1)])) % 2
            ELSE l[i][k]
      <3>1. l[i + 1] = Divided(pr, l[i], i + 1)
        BY <1>3, <2>1
      <3> HIDE DEF fed
      <3> QED
        <4>1. \A k \in 1 .. m + n : Divided(pr, l[i], i + 1)[k] =
              IF l[i][i + 1] = 1 /\ k \in i + 1 .. i + 1 + n
              THEN (l[i][k] + (IF k = i + 1 THEN 1 ELSE p[k - (i + 1)])) % 2
              ELSE l[i][k]
          BY <1>8, <1>9, <2>1
        <4> QED
          BY <2>5, <3>1, <4>1
    <2>7. \A k \in 1 .. n : g[i + 1][k] =
            ((IF k < n THEN g[i][k + 1] ELSE 0) + (IF fed THEN p[k] ELSE 0)) % 2
      <3>1. g[i + 1] = CrcStep(pr, g[i], message[i + 1])
        BY <1>2, <2>1
      <3> QED
        <4>1. \A k \in 1 .. n : CrcStep(pr, g[i], message[i + 1])[k] =
            ((IF k < n THEN g[i][k + 1] ELSE 0) + (IF message[i + 1] # g[i][1] THEN p[k] ELSE 0)) % 2
          BY <1>8, <1>10, <2>1, <2>3
        <4> QED
          BY <3>1, <4>1
    <2> HIDE DEF fed
    <2>8. ASSUME NEW k \in i + 1 + 1 .. m + n
          PROVE  l[i + 1][k] = IF k <= i + 1 + n THEN (g[i + 1][k - (i + 1)] + M(k)) % 2 ELSE M(k)
      <3>1. k \in 1 .. m + n /\ k \in i + 1 .. m + n /\ k # i + 1 /\ M(k) \in Bit
        BY <1>1, <1>4
      <3>2. CASE k <= i + n
        <4>1. k - (i + 1) \in 1 .. n /\ k - (i + 1) < n /\ (k - (i + 1)) + 1 = k - i
              /\ k - i \in 1 .. n /\ k \in i + 1 .. i + 1 + n /\ k <= i + 1 + n
          BY <1>1, <3>2
        <4>2. l[i][k] = (g[i][k - i] + M(k)) % 2
          BY <2>2, <3>1, <3>2
        <4>3. g[i + 1][k - (i + 1)] = (g[i][k - i] + (IF fed THEN p[k - (i + 1)] ELSE 0)) % 2
          BY <2>7, <4>1
        <4>4. l[i + 1][k] = IF fed THEN (l[i][k] + p[k - (i + 1)]) % 2 ELSE l[i][k]
          BY <2>6, <3>1, <4>1
        <4>5. g[i][k - i] \in Bit /\ p[k - (i + 1)] \in Bit
          BY <1>11, <1>13, <2>1, <4>1
        <4>6. \A a \in Bit, b \in Bit, c \in Bit :
                /\ (((a + b) % 2) + c) % 2 = (((a + c) % 2) + b) % 2
                /\ (((a + 0) % 2) + b) % 2 = (a + b) % 2
          BY DEF Bit
        <4>7. CASE fed
          BY <3>1, <4>1, <4>2, <4>3, <4>4, <4>5, <4>6, <4>7
        <4>8. CASE ~fed
          BY <3>1, <4>1, <4>2, <4>3, <4>4, <4>5, <4>6, <4>8
        <4> QED
          BY <4>7, <4>8
      <3>3. CASE k = i + 1 + n
        <4>1. k - (i + 1) = n /\ n \in 1 .. n /\ k \in i + 1 .. i + 1 + n /\ k <= i + 1 + n
              /\ ~(k <= i + n)
          BY <1>1, <3>3
        <4>2. l[i][k] = M(k)
          BY <2>2, <3>1, <4>1
        <4>3. g[i + 1][n] = (0 + (IF fed THEN p[n] ELSE 0)) % 2
          <5>1. ~(n < n)
            BY <1>1
          <5> QED
            BY <2>7, <4>1, <5>1
        <4>4. l[i + 1][k] = IF fed THEN (l[i][k] + p[n]) % 2 ELSE l[i][k]
          BY <2>6, <3>1, <4>1
        <4>5. p[n] \in Bit
          BY <1>13, <4>1
        <4>6. \A a \in Bit, b \in Bit :
                /\ (a + b) % 2 = (((0 + b) % 2) + a) % 2
                /\ (((0 + 0) % 2) + a) % 2 = a
          BY DEF Bit
        <4>7. CASE fed
          BY <3>1, <4>1, <4>2, <4>3, <4>4, <4>5, <4>6, <4>7
        <4>8. CASE ~fed
          BY <3>1, <4>1, <4>2, <4>3, <4>4, <4>5, <4>6, <4>8
        <4> QED
          BY <4>7, <4>8
      <3>4. CASE k > i + 1 + n
        <4>1. ~(k <= i + n) /\ ~(k \in i + 1 .. i + 1 + n) /\ ~(k <= i + 1 + n)
          BY <1>1, <3>4
        <4>2. l[i][k] = M(k)
          BY <2>2, <3>1, <4>1
        <4>3. l[i + 1][k] = l[i][k]
          BY <2>6, <3>1, <4>1
        <4> QED
          BY <4>1, <4>2, <4>3
      <3> QED
        BY <1>1, <3>2, <3>3, <3>4
    <2> QED
      BY <2>1, <2>8
  <1>16. 0 .. m \subseteq T
    <2> HIDE DEF T
    <2>1. \A i \in 0 .. m - 1 : i \in T => i + 1 \in T
      BY <1>15
    <2> QED
      BY <1>1, <1>14, <2>1, Climb
  <1>17. \A i \in 0 .. m : Same(i)
    BY <1>16
  <1> QED
    BY <1>17 DEF m, g, l, M

(* What the register holds at the end is what the division leaves.         *)
LEMMA RemainderIsRegister ==
  ASSUME NEW pr, NEW n \in 1 .. MaxCrc, pr["crcBits"] = n,
         pr["poly"] \in Nat, pr["init"] \in Nat,
         NEW message \in Seq(Bit)
  PROVE  /\ Remainder(pr, message) = Registers(pr, message)[Len(message)]
         /\ Registers(pr, message)[Len(message)] \in Register(n)
  <1> DEFINE m == Len(message)
             rest == Registers(pr, message)[m]
             left == Division(pr, message)[m]
  <1>1. m \in Nat /\ n \in Nat
    BY BissConfigAssumption
  <1>2. rest \in Register(n)
    BY <1>1, RegistersSteps
  <1>3. left \in Register(m + n)
    BY <1>1, DivisionSteps
  <1>4. \A k \in m + 1 .. m + n : left[k] = (rest[k - m] + 0) % 2
    <2> TAKE k \in m + 1 .. m + n
    <2>1. m \in 0 .. Len(message) /\ k \in m + 1 .. Len(message) + n /\ k <= m + n /\ ~(k <= m)
      BY <1>1
    <2>2. left[k] = (rest[k - m] + At(message, k)) % 2
      BY <2>1, RegisterIsDivided
    <2> QED
      BY <2>1, <2>2 DEF At
  <1>5. Remainder(pr, message) = SubSeq(left, m + 1, m + n)
    BY DEF Remainder
  <1> HIDE DEF left, rest, m
  <1>6. left \in Seq(Bit) /\ Len(left) = m + n
    BY <1>1, <1>3 DEF Register
  <1>7. /\ SubSeq(left, m + 1, m + n) = [k \in 1 .. n |-> left[m + k]]
    BY <1>1, <1>6
  <1>8. ASSUME NEW k \in 1 .. n
        PROVE  left[m + k] = rest[k]
    <2>1. m + k \in m + 1 .. m + n /\ (m + k) - m = k
      BY <1>1
    <2>2. left[m + k] = (rest[k] + 0) % 2
      BY <1>4, <2>1
    <2>3. rest[k] \in Bit
      BY <1>2 DEF Register
    <2> QED
      BY <2>2, <2>3 DEF Bit
  <1>9. rest = [k \in 1 .. n |-> rest[k]]
    BY <1>2 DEF Register
  <1>10. [k \in 1 .. n |-> left[m + k]] = [k \in 1 .. n |-> rest[k]]
    BY <1>8
  <1> QED
    BY <1>2, <1>5, <1>7, <1>9, <1>10 DEF m, rest

-----------------------------------------------------------------------------
(* The frame judged last: of the length of the profile, and judged by it.  *)
Judged ==
  /\ state # "armed" => taken = NoFrame
  /\ taken # NoFrame =>
       /\ taken.frame \in Register(run["frame"])
       /\ taken.verdict = Verdict(run, taken.frame)

LEMMA JudgedNext == Judged /\ [Next]_vars => Judged'
  <1> SUFFICES ASSUME Judged, [Next]_vars PROVE Judged'
    OBVIOUS
  <1>1. CASE taken' = NoFrame
    BY <1>1 DEF Judged
  <1>2. CASE state # "armed" /\ UNCHANGED taken
    <2>1. taken' = NoFrame
      BY <1>2 DEF Judged
    <2> QED
      BY <2>1 DEF Judged
  <1>3. CASE UNCHANGED vars
    BY <1>3 DEF Judged, vars
  <1>4. CASE \E n \in 1 .. MaxFrame : \E frame \in [1 .. n -> {0, 1}] : Receive(frame)
    <2>1. PICK n \in 1 .. MaxFrame : \E frame \in [1 .. n -> {0, 1}] : Receive(frame)
      BY <1>4
    <2>2. PICK frame \in [1 .. n -> {0, 1}] : Receive(frame)
      BY <2>1
    <2>3. n \in Nat
      BY BissConfigAssumption
    <2>4. Len(frame) = n
      <3>1. frame \in Seq({0, 1}) /\ DOMAIN frame = 1 .. n
        BY <2>3
      <3> QED
        BY <2>3, <3>1
    <2>5. /\ state' = state /\ state = "armed" /\ run' = run /\ n = run["frame"]
          /\ taken' = [frame |-> frame, verdict |-> Verdict(run, frame)]
      BY <2>2, <2>4 DEF Receive
    <2>6. frame \in Register(run["frame"])
      BY <2>5 DEF Bit, Register
    <2>7. taken'.frame = frame /\ taken'.verdict = Verdict(run, frame)
      BY <2>5
    <2>8. Verdict(run, taken.frame)' = Verdict(run, frame)
      BY <2>5, <2>7
    <2> QED
      BY <2>5, <2>6, <2>7, <2>8 DEF Judged
  <1>5. CASE \E input \in Inputs : Set(input[1], input[2])
    BY <1>1, <1>5 DEF Set
  <1>6. CASE Configure \/ Arm
    BY <1>2, <1>6 DEF Configure, Arm
  <1>7. CASE ScanStep \/ Fault \/ Release
    BY <1>1, <1>7 DEF ScanStep, Fault, Release
  <1> QED
    BY <1>3, <1>4, <1>5, <1>6, <1>7 DEF Next

LEMMA BissJudges == Spec => []Judged
  <1>1. Init => Judged
    BY DEF Init, Judged
  <1> QED
    BY <1>1, JudgedNext, PTL DEF Spec

(* What the CRC of a judged frame is made of.                              *)
LEMMA ExtractIs ==
  ASSUME NEW f \in Nat, NEW frame \in Register(f),
         NEW o \in Nat, NEW b \in Nat, o + b <= f
  PROVE  /\ Extract(frame, o, b) \in Seq(Bit) /\ Len(Extract(frame, o, b)) = b
         /\ Extract(frame, o, b) \in Register(b)
         /\ \A k \in 1 .. b : Extract(frame, o, b)[k] = frame[o + k]
  <1>1. frame \in [1 .. f -> Bit] /\ frame \in Seq(Bit) /\ Len(frame) = f
    BY DEF Register
  <1>2. Extract(frame, o, b) = SubSeq(frame, o + 1, o + b)
    BY DEF Extract
  <1>3. SubSeq(frame, o + 1, o + b) = [k \in 1 .. b |-> frame[o + k]]
    BY <1>1
  <1>4. \A k \in 1 .. b : o + k \in 1 .. f
    OBVIOUS
  <1> DEFINE field == [k \in 1 .. b |-> frame[o + k]]
  <1>5. field \in [1 .. b -> Bit] /\ \A k \in 1 .. b : field[k] = frame[o + k]
    BY <1>1, <1>4
  <1>6. Extract(frame, o, b) = field
    BY <1>2, <1>3
  <1> HIDE DEF field
  <1>7. field \in Seq(Bit) /\ Len(field) = b
    BY <1>5
  <1> QED
    BY <1>5, <1>6, <1>7 DEF Register

LEMMA ArmedCrc ==
  ASSUME IInv, state = "armed"
  PROVE  /\ run["frame"] \in Nat /\ run["crcOffset"] \in Nat /\ run["crcBits"] \in Nat
         /\ run["coverOffset"] \in Nat /\ run["coverBits"] \in Nat
         /\ run["poly"] \in Nat /\ run["init"] \in Nat /\ run["xor"] \in Nat
         /\ run["invert"] \in Nat
         /\ run["crcBits"] <= MaxCrc /\ MaxCrc \in Nat
         /\ run["crcBits"] = 0 => run["coverBits"] = 0
         /\ run["crcBits"] > 0 => run["crcOffset"] + run["crcBits"] <= run["frame"]
         /\ run["coverBits"] > 0 => run["coverOffset"] + run["coverBits"] <= run["frame"]
  <1>1. RunsProfile /\ ValidConfig(settings)
    BY DEF IInv, Running
  <1>2. ValidProfile(MakeProfile(settings))
    BY <1>1 DEF ValidConfig
  <1>3. /\ MakeProfile(settings)["frame"] = run["frame"]
        /\ MakeProfile(settings)["crcOffset"] = run["crcOffset"]
        /\ MakeProfile(settings)["crcBits"] = run["crcBits"]
        /\ MakeProfile(settings)["coverOffset"] = run["coverOffset"]
        /\ MakeProfile(settings)["coverBits"] = run["coverBits"]
    BY <1>1, NamesOf DEF RunsProfile
  <1>4. /\ run["frame"] \in Nat /\ run["crcOffset"] \in Nat /\ run["crcBits"] \in Nat
        /\ run["coverOffset"] \in Nat /\ run["coverBits"] \in Nat
        /\ run["poly"] \in Nat /\ run["init"] \in Nat /\ run["xor"] \in Nat
        /\ run["invert"] \in Nat
    <2>1. "invert" \in Names
      BY DEF Names
    <2> QED
      BY <1>1, <2>1, NumbersAre, NamesOf DEF RunsProfile
  <1>5. /\ run["crcBits"] <= MaxCrc
        /\ run["crcBits"] = 0 => run["coverBits"] = 0
        /\ run["crcBits"] > 0 => Fits(run["crcOffset"], run["crcBits"], run["frame"])
        /\ run["coverBits"] > 0 => Fits(run["coverOffset"], run["coverBits"], run["frame"])
    BY <1>2, <1>3 DEF ValidProfile
  <1>6. MaxCrc \in Nat
    BY BissConfigAssumption
  <1> QED
    BY <1>4, <1>5, <1>6 DEF Fits

(* A frame that matches carries the register at the end, exclusive-ored    *)
(* and inverted.                                                           *)
LEMMA Undone ==
  \A r \in Bit, x \in Bit, v \in Nat :
    (((((r + x) % 2) + v) % 2) + x + v) % 2 = r
  BY DEF Bit

LEMMA MatchedCrc ==
  ASSUME IInv, state = "armed", run["crcBits"] > 0, run["coverBits"] > 0,
         NEW frame \in Register(run["frame"]), CrcMatches(run, frame)
  PROVE  LET n == run["crcBits"]
             message == Covered(run, frame)
             sent == Extract(frame, run["crcOffset"], n)
             rest == Registers(run, message)[Len(message)]
         IN  /\ message \in Seq(Bit) /\ Len(message) = run["coverBits"]
             /\ \A k \in 1 .. run["coverBits"] :
                  message[k] = frame[run["coverOffset"] + k]
             /\ sent \in Register(n) /\ rest \in Register(n)
             /\ rest = [i \in 1 .. n |->
                         (sent[i] + BitsOf(run["xor"], n)[i] + run["invert"]) % 2]
  <1> DEFINE n == run["crcBits"]
             message == Covered(run, frame)
             sent == Extract(frame, run["crcOffset"], n)
             rest == Registers(run, message)[Len(message)]
             x == BitsOf(run["xor"], n)
             v == run["invert"]
             once == Plus(rest, x)
             inverts == [i \in 1 .. n |-> v]
  <1>1. /\ n \in Nat \ {0} /\ n \in 1 .. MaxCrc /\ n \in 0 .. MaxCrc
        /\ run["poly"] \in Nat /\ run["init"] \in Nat /\ run["xor"] \in Nat /\ v \in Nat
        /\ run["coverBits"] \in Nat /\ run["coverBits"] # 0
    BY ArmedCrc
  <1>2. /\ message \in Seq(Bit) /\ Len(message) = run["coverBits"]
        /\ \A k \in 1 .. run["coverBits"] : message[k] = frame[run["coverOffset"] + k]
    <2>1. /\ run["frame"] \in Nat /\ run["coverOffset"] \in Nat
          /\ run["coverBits"] \in Nat
          /\ run["coverOffset"] + run["coverBits"] <= run["frame"]
      BY ArmedCrc
    <2> DEFINE o == run["coverOffset"]
               b == run["coverBits"]
               f == run["frame"]
               field == Extract(frame, o, b)
    <2>20. f \in Nat /\ frame \in Register(f) /\ o \in Nat /\ b \in Nat /\ o + b <= f
      BY <2>1
    <2> HIDE DEF o, b, f
    <2>2. /\ field \in Seq(Bit) /\ Len(field) = b
          /\ \A k \in 1 .. b : field[k] = frame[o + k]
      BY ONLY <2>20, ExtractIs
    <2>3. message = field
      BY DEF Covered, o, b
    <2> HIDE DEF message, field
    <2> QED
      BY <2>2, <2>3 DEF o, b
  <1>3. sent \in Register(n)
    BY ArmedCrc, ExtractIs
  <1>4. rest \in Register(n)
    BY <1>1, <1>2, RemainderIsRegister
  <1>5. x \in Register(n)
    BY <1>1, BitsOfTypes
  <1>6. Crc(run, frame) = Plus(once, inverts)
    BY <1>1 DEF Crc
  <1>7. Crc(run, frame) = sent
    BY DEF CrcMatches
  <1> HIDE DEF message, sent, rest, x, n, v
  <1>8. once \in Register(n) /\ \A i \in 1 .. n : once[i] = (rest[i] + x[i]) % 2
    BY <1>1, <1>4, <1>5, PlusTypes
  <1>9. ASSUME NEW i \in 1 .. n
        PROVE  rest[i] = (sent[i] + x[i] + v) % 2
    <2>1. rest[i] \in Bit /\ x[i] \in Bit
      BY <1>4, <1>5 DEF Register
    <2>2. Plus(once, inverts)[i] = (once[i] + v) % 2
      BY <1>8 DEF Plus, Register
    <2>3. sent[i] = (((rest[i] + x[i]) % 2) + v) % 2
      BY <1>6, <1>7, <1>8, <2>2
    <2> QED
      BY <1>1, <2>1, <2>3, Undone
  <1>10. rest = [i \in 1 .. n |-> rest[i]]
    BY <1>4 DEF Register
  <1>11. rest = [i \in 1 .. n |-> (sent[i] + x[i] + v) % 2]
    BY <1>9, <1>10
  <1> QED
    BY <1>2, <1>3, <1>4, <1>11 DEF message, sent, rest, x, n, v

LEMMA CommittedMatches ==
  ASSUME NEW pr, NEW frame, Verdict(pr, frame) = "commit", pr["crcGate"] = 1
  PROVE  CrcMatches(pr, frame)
  BY DEF Verdict

(* A frame that may fire with the CRC gate on carries the CRC of the       *)
(* textbook (biss_crc_compute_bits, biss_crc_matches): for every frame,    *)
(* every polynomial and every field the profile may name, what the shift   *)
(* register computes is the remainder of the polynomial division.          *)
THEOREM BissCrcIsRemainder == Spec => []CrcIsRemainder
  <1>1. IInv /\ Judged => CrcIsRemainder
    <2> SUFFICES ASSUME IInv, Judged,
                        taken # NoFrame, run["crcBits"] > 0, run["coverBits"] > 0,
                        run["crcGate"] = 1, taken.verdict = "commit"
                 PROVE  Remainder(run, Covered(run, taken.frame))
                          = [i \in 1 .. run["crcBits"] |->
                              (Extract(taken.frame, run["crcOffset"], run["crcBits"])[i]
                                + BitsOf(run["xor"], run["crcBits"])[i]
                                + run["invert"]) % 2]
      BY DEF CrcIsRemainder
    <2>1. /\ state = "armed" /\ taken.frame \in Register(run["frame"])
          /\ Verdict(run, taken.frame) = "commit"
      BY DEF Judged
    <2>2. CrcMatches(run, taken.frame)
      BY <2>1, CommittedMatches
    <2>3. /\ run["crcBits"] \in 1 .. MaxCrc
          /\ run["poly"] \in Nat /\ run["init"] \in Nat
      BY <2>1, ArmedCrc
    <2>4. Covered(run, taken.frame) \in Seq(Bit)
      BY <2>1, <2>2, MatchedCrc
    <2>5. Remainder(run, Covered(run, taken.frame))
            = Registers(run, Covered(run, taken.frame))[Len(Covered(run, taken.frame))]
      BY <2>3, <2>4, RemainderIsRegister
    <2> QED
      BY <2>1, <2>2, <2>5, MatchedCrc
  <1> QED
    BY <1>1, BissInvariant, BissJudges, PTL

-----------------------------------------------------------------------------
LEMMA SameRegister ==
  ASSUME NEW n \in Nat, NEW u \in Register(n), NEW w \in Register(n),
         \A k \in 1 .. n : u[k] = w[k]
  PROVE  u = w
  <1>1. u \in [1 .. n -> Bit] /\ w \in [1 .. n -> Bit]
    BY DEF Register
  <1>2. u = [k \in 1 .. n |-> u[k]] /\ w = [k \in 1 .. n |-> w[k]]
    BY <1>1
  <1>3. [k \in 1 .. n |-> u[k]] = [k \in 1 .. n |-> w[k]]
    OBVIOUS
  <1> QED
    BY <1>2, <1>3

(* Two registers apart: somewhere, and at no place after the last one of   *)
(* the polynomial.                                                         *)
Apart(a, b, n, j) ==
  /\ \E k \in 1 .. n : a[k] # b[k]
  /\ \A k \in 1 .. n : k > j => a[k] = b[k]

LastOne(p, n, j) ==
  /\ j \in 1 .. n /\ p[j] = 1
  /\ \A k \in 1 .. n : k > j => p[k] = 0

LEMMA HasLastOne ==
  ASSUME NEW n \in Nat, NEW p \in Register(n), \E k \in 1 .. n : p[k] # 0
  PROVE  \E j \in 1 .. n : LastOne(p, n, j)
  <1> DEFINE T == {x \in 0 .. n - 1 : p[n - x] = 1}
  <1>1. PICK k \in 1 .. n : p[k] # 0
    OBVIOUS
  <1>2. n - k \in T
    <2>1. n - k \in 0 .. n - 1 /\ n - (n - k) = k
      BY <1>1
    <2>2. p[k] = 1
      BY <1>1 DEF Register, Bit
    <2> QED
      BY <2>1, <2>2
  <1>3. PICK x \in T : \A y \in T : x <= y
    <2>1. T \subseteq Nat
      OBVIOUS
    <2> HIDE DEF T
    <2> QED
      BY <1>2, <2>1, Least
  <1>4. n - x \in 1 .. n /\ p[n - x] = 1
    BY <1>3
  <1>5. ASSUME NEW i \in 1 .. n, i > n - x
        PROVE  p[i] = 0
    <2>1. n - i \in 0 .. n - 1 /\ n - (n - i) = i /\ ~(x <= n - i)
      BY <1>3, <1>5
    <2>2. ~(n - i \in T)
      BY <1>3, <2>1
    <2>3. p[i] # 1
      BY <2>1, <2>2
    <2> QED
      BY <2>3 DEF Register, Bit
  <1> QED
    BY <1>4, <1>5 DEF LastOne

(* The polynomial fed to one of two registers, and to both or neither.     *)
LEMMA FedOnce ==
  ASSUME NEW n \in Nat, NEW j, NEW p \in Register(n), LastOne(p, n, j),
         NEW s \in [1 .. n -> Bit], NEW t \in [1 .. n -> Bit],
         \A k \in 1 .. n : k >= j => s[k] = t[k],
         NEW a, NEW b,
         \A k \in 1 .. n : a[k] = (s[k] + p[k]) % 2,
         \A k \in 1 .. n : b[k] = (t[k] + 0) % 2
  PROVE  Apart(a, b, n, j) /\ Apart(b, a, n, j)
  <1>1. j \in 1 .. n /\ p[j] = 1 /\ j \in Nat
    BY DEF LastOne
  <1>2. a[j] # b[j]
    <2>1. s[j] = t[j] /\ s[j] \in Bit
      BY <1>1
    <2>2. a[j] = (s[j] + 1) % 2 /\ b[j] = (s[j] + 0) % 2
      BY <1>1, <2>1
    <2> QED
      BY <2>1, <2>2 DEF Bit
  <1>3. ASSUME NEW k \in 1 .. n, k > j
        PROVE  a[k] = b[k]
    <2>1. p[k] = 0 /\ s[k] = t[k]
      BY <1>1, <1>3 DEF LastOne
    <2> QED
      BY <2>1
  <1> QED
    BY <1>1, <1>2, <1>3 DEF Apart

LEMMA FedAlike ==
  ASSUME NEW pr, NEW n \in 1 .. MaxCrc, pr["poly"] \in Nat,
         NEW j, LastOne(BitsOf(pr["poly"], n), n, j),
         NEW c \in Register(n), NEW d \in Register(n), NEW bit \in Bit,
         c[1] = d[1], Apart(c, d, n, j)
  PROVE  Apart(CrcStep(pr, c, bit), CrcStep(pr, d, bit), n, j)
  <1> DEFINE p == BitsOf(pr["poly"], n)
             c1 == CrcStep(pr, c, bit)
             d1 == CrcStep(pr, d, bit)
             fed == bit # c[1]
  <1>1. n \in Nat \ {0} /\ n \in 0 .. MaxCrc
    BY BissConfigAssumption
  <1>2. p \in Register(n)
    BY <1>1, BitsOfTypes
  <1>3. \A k \in 1 .. n : c1[k] =
          ((IF k < n THEN c[k + 1] ELSE 0) + (IF fed THEN p[k] ELSE 0)) % 2
    BY Stepped
  <1>4. \A k \in 1 .. n : d1[k] =
          ((IF k < n THEN d[k + 1] ELSE 0) + (IF bit # d[1] THEN p[k] ELSE 0)) % 2
    BY Stepped
  <1>5. \A k \in 1 .. n : d1[k] =
          ((IF k < n THEN d[k + 1] ELSE 0) + (IF fed THEN p[k] ELSE 0)) % 2
    BY <1>4
  <1>6. \A k \in 1 .. n : c[k] \in Bit /\ d[k] \in Bit /\ p[k] \in Bit
    BY <1>2 DEF Register
  <1>7. j \in 1 .. n /\ j \in Nat
    BY DEF LastOne
  <1> HIDE DEF p, c1, d1, fed
  <1>8. PICK k \in 1 .. n : c[k] # d[k]
    BY DEF Apart
  <1>9. k - 1 \in 1 .. n /\ k - 1 < n /\ (k - 1) + 1 = k
    BY <1>1, <1>8
  <1>10. c1[k - 1] # d1[k - 1]
    <2>1. /\ c1[k - 1] = (c[k] + (IF fed THEN p[k - 1] ELSE 0)) % 2
          /\ d1[k - 1] = (d[k] + (IF fed THEN p[k - 1] ELSE 0)) % 2
      BY <1>3, <1>5, <1>9
    <2>2. c[k] \in Bit /\ d[k] \in Bit /\ p[k - 1] \in Bit
      BY <1>6, <1>8, <1>9
    <2>3. \A x \in Bit, y \in Bit, z \in Bit : (x + z) % 2 = (y + z) % 2 => x = y
      BY DEF Bit
    <2>4. (IF fed THEN p[k - 1] ELSE 0) \in Bit
      BY <2>2 DEF Bit
    <2> QED
      BY <1>8, <2>1, <2>2, <2>3, <2>4
  <1>11. ASSUME NEW i \in 1 .. n, i > j
         PROVE  c1[i] = d1[i]
    <2>1. i < n => c[i + 1] = d[i + 1]
      BY <1>1, <1>7, <1>11 DEF Apart
    <2> QED
      BY <1>3, <1>5, <2>1
  <1> QED
    BY <1>9, <1>10, <1>11 DEF Apart, c1, d1

(* Registers fed unlike each other, at places that differ by no more than  *)
(* what lies before the last one of the polynomial.                        *)
LEMMA FedUnlike ==
  ASSUME NEW pr, NEW n \in 1 .. MaxCrc, pr["poly"] \in Nat,
         NEW j, LastOne(BitsOf(pr["poly"], n), n, j),
         NEW c \in Register(n), NEW d \in Register(n),
         \A k \in 1 .. n : k > j => c[k] = d[k],
         NEW bit \in Bit, NEW other \in Bit, bit # c[1] <=> other = d[1]
  PROVE  Apart(CrcStep(pr, c, bit), CrcStep(pr, d, other), n, j)
  <1> DEFINE p == BitsOf(pr["poly"], n)
             c1 == CrcStep(pr, c, bit)
             d1 == CrcStep(pr, d, other)
             s == [k \in 1 .. n |-> IF k < n THEN c[k + 1] ELSE 0]
             t == [k \in 1 .. n |-> IF k < n THEN d[k + 1] ELSE 0]
  <1>1. n \in Nat \ {0} /\ n \in 0 .. MaxCrc
    BY BissConfigAssumption
  <1>2. p \in Register(n)
    BY <1>1, BitsOfTypes
  <1>3. \A k \in 1 .. n : c1[k] =
          ((IF k < n THEN c[k + 1] ELSE 0) + (IF bit # c[1] THEN p[k] ELSE 0)) % 2
    BY Stepped
  <1>4. \A k \in 1 .. n : d1[k] =
          ((IF k < n THEN d[k + 1] ELSE 0) + (IF other # d[1] THEN p[k] ELSE 0)) % 2
    BY Stepped
  <1>5. LastOne(p, n, j)
    OBVIOUS
  <1> HIDE DEF p, c1, d1
  <1>6. \A k \in 1 .. n : c[k] \in Bit /\ d[k] \in Bit
    BY DEF Register
  <1>7. s \in [1 .. n -> Bit] /\ t \in [1 .. n -> Bit]
    BY <1>1, <1>6 DEF Bit
  <1>8. \A k \in 1 .. n : k >= j => s[k] = t[k]
    BY <1>1, <1>5 DEF LastOne
  <1>9. \A k \in 1 .. n : c1[k] = (s[k] + (IF bit # c[1] THEN p[k] ELSE 0)) % 2
    BY <1>3
  <1>10. \A k \in 1 .. n : d1[k] = (t[k] + (IF other # d[1] THEN p[k] ELSE 0)) % 2
    BY <1>4
  <1> HIDE DEF s, t
  <1>11. CASE bit # c[1]
    <2>1. ~(other # d[1])
      BY <1>11
    <2>2. \A k \in 1 .. n : c1[k] = (s[k] + p[k]) % 2
      BY <1>9, <1>11
    <2>3. \A k \in 1 .. n : d1[k] = (t[k] + 0) % 2
      BY <1>10, <2>1
    <2> QED
      BY <1>1, <1>2, <1>5, <1>7, <1>8, <2>2, <2>3, FedOnce DEF c1, d1
  <1>12. CASE ~(bit # c[1])
    <2>1. other # d[1]
      BY <1>12
    <2>2. \A k \in 1 .. n : d1[k] = (t[k] + p[k]) % 2
      BY <1>10, <2>1
    <2>3. \A k \in 1 .. n : c1[k] = (s[k] + 0) % 2
      BY <1>9, <1>12
    <2>4. \A k \in 1 .. n : k >= j => t[k] = s[k]
      BY <1>8
    <2> QED
      BY <1>1, <1>2, <1>5, <1>7, <2>2, <2>3, <2>4, FedOnce DEF c1, d1
  <1> QED
    BY <1>11, <1>12

(* Two messages with one bit between them leave different registers.       *)
LEMMA FlipShows ==
  ASSUME NEW pr, NEW n \in 1 .. MaxCrc, pr["crcBits"] = n,
         pr["poly"] \in Nat, pr["init"] \in Nat,
         \E k \in 1 .. n : BitsOf(pr["poly"], n)[k] # 0,
         NEW message \in Seq(Bit), NEW flipped \in Seq(Bit),
         Len(flipped) = Len(message),
         NEW at \in 1 .. Len(message), flipped[at] # message[at],
         \A i \in 1 .. Len(message) : i # at => flipped[i] = message[i]
  PROVE  Registers(pr, message)[Len(message)] # Registers(pr, flipped)[Len(flipped)]
  <1> DEFINE m == Len(message)
             g == Registers(pr, message)
             h == Registers(pr, flipped)
             p == BitsOf(pr["poly"], n)
  <1>1. n \in Nat \ {0} /\ n \in 0 .. MaxCrc /\ m \in Nat
    BY BissConfigAssumption
  <1>2. p \in Register(n)
    BY <1>1, BitsOfTypes
  <1>3. PICK j \in 1 .. n : LastOne(p, n, j)
    BY <1>1, <1>2, HasLastOne
  <1>4. /\ g \in [0 .. m -> Register(n)]
        /\ \A i \in 1 .. m : g[i] = CrcStep(pr, g[i - 1], message[i])
        /\ g[0] = BitsOf(pr["init"], n)
    BY RegistersSteps
  <1>5. /\ h \in [0 .. m -> Register(n)]
        /\ \A i \in 1 .. m : h[i] = CrcStep(pr, h[i - 1], flipped[i])
        /\ h[0] = BitsOf(pr["init"], n)
    BY RegistersSteps
  <1>6. \A i \in 1 .. m : message[i] \in Bit /\ flipped[i] \in Bit
    OBVIOUS
  <1> DEFINE Right(i) == IF i < at THEN g[i] = h[i] ELSE Apart(g[i], h[i], n, j)
             T == {i \in 0 .. m : Right(i)}
  <1> HIDE DEF m, g, h
  <1>7. at \in 1 .. m /\ at \in Nat
    BY <1>1 DEF m
  <1>8. \A i \in 1 .. m : i # at => flipped[i] = message[i]
    BY DEF m
  <1>9. \A i \in 0 .. m : g[i] \in Register(n) /\ h[i] \in Register(n)
    BY <1>4, <1>5
  <1>10. \A c \in Register(n), d \in Register(n), bit \in Bit :
           c[1] = d[1] /\ Apart(c, d, n, j) =>
             Apart(CrcStep(pr, c, bit), CrcStep(pr, d, bit), n, j)
    BY <1>3, FedAlike
  <1>11. \A c \in Register(n), d \in Register(n), bit \in Bit, other \in Bit :
           (\A k \in 1 .. n : k > j => c[k] = d[k]) /\ (bit # c[1] <=> other = d[1]) =>
             Apart(CrcStep(pr, c, bit), CrcStep(pr, d, other), n, j)
    BY <1>3, FedUnlike
  <1> HIDE DEF p
  <1>12. 0 \in T
    BY <1>1, <1>4, <1>5, <1>7
  <1>13. ASSUME NEW i \in 0 .. m - 1, i \in T
         PROVE  i + 1 \in T
    <2>1. i + 1 \in 1 .. m /\ (i + 1) - 1 = i /\ i \in 0 .. m /\ i + 1 \in 0 .. m
      BY <1>1
    <2>2. Right(i)
      BY <1>13
    <2> DEFINE c == g[i]
               d == h[i]
               bit == message[i + 1]
               other == flipped[i + 1]
    <2>3. g[i + 1] = CrcStep(pr, c, bit) /\ h[i + 1] = CrcStep(pr, d, other)
      BY <1>4, <1>5, <2>1
    <2>4. c \in Register(n) /\ d \in Register(n) /\ bit \in Bit /\ other \in Bit
      <3>1. c \in Register(n) /\ d \in Register(n)
        BY <1>9, <2>1
      <3>2. bit \in Bit /\ other \in Bit
        BY <1>6, <2>1
      <3> QED
        BY <3>1, <3>2
    <2>5. c[1] \in Bit /\ d[1] \in Bit
      <3> HIDE DEF c, d
      <3>1. 1 \in 1 .. n
        BY <1>1
      <3> QED
        BY <2>4, <3>1 DEF Register
    <2>6. CASE i + 1 < at
      <3>1. c = d
        BY <1>7, <2>2, <2>6
      <3>2. bit = other
        BY <1>7, <1>8, <2>1, <2>6
      <3> QED
        BY <2>1, <2>3, <2>6, <3>1, <3>2
    <2>7. CASE i + 1 = at
      <3>1. c = d
        BY <1>7, <2>2, <2>7
      <3>2. bit # other
        BY <2>7
      <3>3. bit # c[1] <=> other = d[1]
        BY <2>4, <2>5, <3>1, <3>2 DEF Bit
      <3> HIDE DEF c, d, bit, other
      <3>4. Apart(CrcStep(pr, c, bit), CrcStep(pr, d, other), n, j)
        BY <1>11, <2>4, <3>1, <3>3
      <3>5. ~(i + 1 < at)
        BY <1>7, <2>7
      <3> QED
        BY <2>1, <2>3, <3>4, <3>5
    <2>8. CASE i + 1 > at
      <3>1. Apart(c, d, n, j)
        BY <1>7, <2>2, <2>8
      <3>2. bit = other
        BY <1>7, <1>8, <2>1, <2>8
      <3> HIDE DEF c, d, bit, other
      <3>5. Apart(CrcStep(pr, c, bit), CrcStep(pr, d, other), n, j)
        <4>1. CASE c[1] = d[1]
          BY <1>10, <2>4, <3>1, <3>2, <4>1
        <4>2. CASE c[1] # d[1]
          <5>1. bit # c[1] <=> other = d[1]
            BY <2>4, <2>5, <3>2, <4>2 DEF Bit
          <5>2. \A k \in 1 .. n : k > j => c[k] = d[k]
            BY <3>1 DEF Apart
          <5> QED
            BY <1>11, <2>4, <5>1, <5>2
        <4> QED
          BY <4>1, <4>2
      <3>6. ~(i + 1 < at)
        BY <1>7, <2>8
      <3> QED
        BY <2>1, <2>3, <3>5, <3>6
    <2> QED
      BY <1>7, <2>6, <2>7, <2>8
  <1>14. 0 .. m \subseteq T
    <2> HIDE DEF T
    <2>1. \A i \in 0 .. m - 1 : i \in T => i + 1 \in T
      BY <1>13
    <2> QED
      BY <1>1, <1>12, <2>1, Climb
  <1>15. m \in T
    BY <1>1, <1>14
  <1>16. Apart(g[m], h[m], n, j)
    BY <1>1, <1>7, <1>15
  <1> QED
    BY <1>16 DEF Apart, g, h, m

(* With the CRC gate on, no frame that may fire comes from another one by  *)
(* a single bit of the covered part going wrong (biss_crc_compute_bits,    *)
(* biss_node_io_process_frame): for every frame, every polynomial but zero *)
(* and every cover the CRC does not lie in.                                *)
THEOREM BissFlipsAreCaught == Spec => []FlipsAreCaught
  <1>1. IInv /\ Judged => FlipsAreCaught
    <2> DEFINE frame == taken.frame
               n == run["crcBits"]
               o == run["coverOffset"]
               b == run["coverBits"]
    <2> SUFFICES ASSUME IInv, Judged,
                        taken # NoFrame, run["crcGate"] = 1, taken.verdict = "commit",
                        BitsOf(run["poly"], n) # BitsOf(0, n),
                        NEW i \in Field(o, b) \ Field(run["crcOffset"], n),
                        Verdict(run, Flipped(frame, i)) = "commit"
                 PROVE  FALSE
      BY DEF FlipsAreCaught
    <2> DEFINE flipped == Flipped(frame, i)
               f == run["frame"]
               message == Covered(run, frame)
               other == Covered(run, flipped)
    <2>1. /\ state = "armed" /\ frame \in Register(f)
          /\ Verdict(run, frame) = "commit"
      BY DEF Judged
    <2>2. CrcMatches(run, frame) /\ CrcMatches(run, flipped)
      BY <2>1, CommittedMatches
    <2>3. /\ n \in Nat /\ o \in Nat /\ b \in Nat /\ f \in Nat /\ run["crcOffset"] \in Nat
          /\ run["poly"] \in Nat /\ run["init"] \in Nat
          /\ n <= MaxCrc /\ MaxCrc \in Nat
          /\ n = 0 => b = 0
          /\ n > 0 => run["crcOffset"] + n <= f
          /\ b > 0 => o + b <= f
      BY <2>1, ArmedCrc
    <2>4. PICK j \in 0 .. b - 1 : i = o + j
      BY DEF Field
    <2>5. b > 0 /\ n > 0 /\ n \in 1 .. MaxCrc /\ i \in 0 .. f - 1 /\ i + 1 \in 1 .. f
      BY <2>3, <2>4
    <2>6. /\ flipped \in Register(f)
          /\ flipped[i + 1] # frame[i + 1]
          /\ \A k \in 1 .. f : k # i + 1 => flipped[k] = frame[k]
      <3>1. flipped = [frame EXCEPT ![i + 1] = 1 - frame[i + 1]]
        BY DEF Flipped
      <3>2. frame[i + 1] \in Bit
        BY <2>1, <2>5 DEF Register
      <3>3. 1 - frame[i + 1] \in Bit /\ 1 - frame[i + 1] # frame[i + 1]
        BY <3>2 DEF Bit
      <3> HIDE DEF frame, flipped, f
      <3> QED
        BY <2>1, <2>5, <3>1, <3>3 DEF Register
    <2> HIDE DEF frame, flipped
    <2>7. /\ message \in Seq(Bit) /\ Len(message) = b
          /\ \A k \in 1 .. b : message[k] = frame[o + k]
          /\ Registers(run, message)[Len(message)] =
               [k \in 1 .. n |-> (Extract(frame, run["crcOffset"], n)[k]
                                   + BitsOf(run["xor"], n)[k] + run["invert"]) % 2]
      BY <2>1, <2>2, <2>5, MatchedCrc
    <2>8. /\ other \in Seq(Bit) /\ Len(other) = b
          /\ \A k \in 1 .. b : other[k] = flipped[o + k]
          /\ Registers(run, other)[Len(other)] =
               [k \in 1 .. n |-> (Extract(flipped, run["crcOffset"], n)[k]
                                   + BitsOf(run["xor"], n)[k] + run["invert"]) % 2]
      BY <2>1, <2>2, <2>5, <2>6, MatchedCrc
    <2>9. Extract(flipped, run["crcOffset"], n) = Extract(frame, run["crcOffset"], n)
      <3> DEFINE at == run["crcOffset"]
      <3>1. ASSUME NEW k \in 1 .. n
            PROVE  /\ at + k \in 1 .. f
                   /\ flipped[at + k] = frame[at + k]
        <4>1. at + (k - 1) \in Field(at, n)
          BY <2>3 DEF Field
        <4>2. at + (k - 1) # i
          BY <4>1
        <4>3. at + k # i + 1 /\ at + k \in 1 .. f
          BY <2>3, <2>4, <2>5, <4>2
        <4> QED
          BY <2>6, <4>3
      <3> DEFINE u == Extract(flipped, at, n)
                 w == Extract(frame, at, n)
      <3>2. at \in Nat /\ n \in Nat /\ f \in Nat /\ at + n <= f
        BY <2>3, <2>5
      <3>3. flipped \in Register(f) /\ frame \in Register(f)
        BY <2>1, <2>6
      <3> HIDE DEF at, n, f
      <3>4. u \in Register(n) /\ \A k \in 1 .. n : u[k] = flipped[at + k]
        BY ONLY <3>2, <3>3, ExtractIs
      <3>5. w \in Register(n) /\ \A k \in 1 .. n : w[k] = frame[at + k]
        BY ONLY <3>2, <3>3, ExtractIs
      <3> HIDE DEF u, w
      <3>6. \A k \in 1 .. n : u[k] = w[k]
        BY <3>1, <3>4, <3>5
      <3>7. u = w
        BY <3>2, <3>4, <3>5, <3>6, SameRegister
      <3> QED
        BY <3>7 DEF u, w, at
    <2>10. Registers(run, message)[Len(message)] = Registers(run, other)[Len(other)]
      BY <2>7, <2>8, <2>9
    <2>11. \E k \in 1 .. n : BitsOf(run["poly"], n)[k] # 0
      <3> DEFINE p == BitsOf(run["poly"], n)
                 z == BitsOf(0, n)
      <3>1. p \in Register(n) /\ z \in Register(n)
        <4>1. n \in 0 .. MaxCrc /\ run["poly"] \in Nat /\ 0 \in Nat
          BY <2>3
        <4> QED
          BY <4>1, BitsOfTypes
      <3>2. \A k \in 1 .. n : z[k] = 0
        <4> TAKE k \in 1 .. n
        <4>1. n - k \in 0 .. MaxCrc
          BY <2>3
        <4>2. PICK d \in Nat \ {0} : d = 2 ^ (n - k)
          BY <4>1, PowersAre
        <4>3. (0 \div d) % 2 = 0
          <5>1. 0 \div d = 0
            OBVIOUS
          <5> QED
            BY <5>1
        <4> QED
          BY <4>2, <4>3 DEF BitsOf
      <3>3. p # z
        OBVIOUS
      <3> HIDE DEF p, z
      <3>4. \E k \in 1 .. n : p[k] # z[k]
        BY <2>3, <3>1, <3>3, SameRegister
      <3> QED
        BY <3>2, <3>4 DEF p
    <2>12. /\ j + 1 \in 1 .. Len(message) /\ other[j + 1] # message[j + 1]
           /\ \A k \in 1 .. Len(message) : k # j + 1 => other[k] = message[k]
      <3> HIDE DEF message, other
      <3>1. j + 1 \in 1 .. b /\ o + (j + 1) = i + 1
        BY <2>3, <2>4
      <3>2. other[j + 1] # message[j + 1]
        BY <2>6, <2>7, <2>8, <3>1
      <3>3. ASSUME NEW k \in 1 .. b, k # j + 1
            PROVE  other[k] = message[k]
        <4>1. o + k # i + 1 /\ o + k \in 1 .. f
          BY <2>3, <2>4, <2>5, <3>3
        <4> QED
          BY <2>6, <2>7, <2>8, <4>1
      <3> QED
        BY <2>7, <3>1, <3>2, <3>3
    <2>13. Registers(run, message)[Len(message)] # Registers(run, other)[Len(other)]
      <3>1. /\ n \in 1 .. MaxCrc /\ run["crcBits"] = n
            /\ run["poly"] \in Nat /\ run["init"] \in Nat
            /\ message \in Seq(Bit) /\ other \in Seq(Bit) /\ Len(other) = Len(message)
        BY <2>3, <2>5, <2>7, <2>8
      <3>2. PICK at : at = j + 1
        OBVIOUS
      <3>3. /\ at \in 1 .. Len(message) /\ other[at] # message[at]
            /\ \A k \in 1 .. Len(message) : k # at => other[k] = message[k]
        BY <2>12, <3>2
      <3> HIDE DEF message, other, n
      <3> QED
        BY ONLY <2>11, <3>1, <3>3, FlipShows
    <2> QED
      BY <2>10, <2>13
  <1> QED
    BY <1>1, BissInvariant, BissJudges, PTL

-----------------------------------------------------------------------------
(* A position and the next one are on a circle.                            *)
LEMMA Around ==
  ASSUME NEW m \in Nat \ {0}, NEW x \in Nat, x < 2 * m
  PROVE  x % m = IF x < m THEN x ELSE x - m
  <1>1. PICK i \in 0 .. 2 * m - 1 : i = x
    OBVIOUS
  <1>2. CASE x < m
    BY <1>2
  <1>3. CASE ~(x < m)
    <2>1. x - m \in 0 .. m - 1
      BY <1>3
    <2>2. x = m * 1 + (x - m)
      BY <1>3
    <2> QED
      BY <1>3, <2>1, <2>2
  <1> QED
    BY <1>2, <1>3

(* biss_crossed_position, by cases, is the way from one position to the    *)
(* other.                                                                  *)
LEMMA CrossedIsArc ==
  ASSUME NEW from \in Positions, NEW to \in Positions
  PROVE  Crossed(from, to) <=> from < Modulo /\ to < Modulo /\ Target \in Arc(from, to)
  <1> DEFINE ahead == (to + Modulo - from) % Modulo
  <1>1. /\ Modulo \in Nat \ {0} /\ Target \in Nat /\ 1 <= Target /\ Target < Modulo
        /\ from \in Nat /\ to \in Nat
    BY BissAssumption DEF Positions
  <1>2. SUFFICES ASSUME from < Modulo, to < Modulo
                 PROVE  Crossed(from, to) <=> Target \in Arc(from, to)
    BY <1>1 DEF Crossed
  <1>3. to + Modulo - from \in Nat /\ to + Modulo - from < 2 * Modulo
    BY <1>1, <1>2
  <1>4. ahead = IF to < from THEN to + Modulo - from ELSE to - from
    <2>1. PICK x \in Nat : x = to + Modulo - from
      BY <1>3
    <2>2. x % Modulo = IF x < Modulo THEN x ELSE x - Modulo
      BY <1>1, <1>3, <2>1, Around
    <2>3. ahead = x % Modulo
      BY <2>1
    <2> HIDE DEF ahead
    <2> QED
      BY <1>1, <2>1, <2>2, <2>3
  <1>5. ahead \in 0 .. Modulo - 1
    BY <1>1, <1>2, <1>4
  <1>6. Arc(from, to) = {(from + k) % Modulo : k \in 1 .. ahead}
    BY DEF Arc
  <1> HIDE DEF ahead
  <1>7. ASSUME NEW k \in 1 .. ahead
        PROVE  (from + k) % Modulo =
                 IF from + k < Modulo THEN from + k ELSE from + k - Modulo
    <2>1. from + k \in Nat /\ from + k < 2 * Modulo
      BY <1>1, <1>2, <1>5
    <2>2. PICK x \in Nat : x = from + k
      BY <2>1
    <2>3. x % Modulo = IF x < Modulo THEN x ELSE x - Modulo
      BY <1>1, <2>1, <2>2, Around
    <2> QED
      BY <1>1, <2>1, <2>2, <2>3
  <1>8. ASSUME NEW k \in 1 .. ahead, Target = (from + k) % Modulo
        PROVE  Crossed(from, to)
    <2>1. Target = IF from + k < Modulo THEN from + k ELSE from + k - Modulo
      BY <1>7, <1>8
    <2> QED
      BY <1>1, <1>2, <1>4, <1>5, <2>1 DEF Crossed
  <1>9. ASSUME Crossed(from, to)
        PROVE  \E k \in 1 .. ahead : Target = (from + k) % Modulo
    <2>1. /\ from # to
          /\ IF from < to THEN from < Target /\ Target <= to
                          ELSE Target > from \/ Target <= to
      BY <1>9 DEF Crossed
    <2>2. CASE Target > from
      <3>1. Target - from \in 1 .. ahead
        BY <1>1, <1>2, <1>4, <2>1, <2>2
      <3>2. (from + (Target - from)) % Modulo = Target
        BY <1>1, <1>7, <3>1
      <3> QED
        BY <3>1, <3>2
    <2>3. CASE ~(Target > from)
      <3>1. Target + Modulo - from \in 1 .. ahead
        BY <1>1, <1>2, <1>4, <2>1, <2>3
      <3>2. (from + (Target + Modulo - from)) % Modulo = Target
        BY <1>1, <1>7, <3>1
      <3> QED
        BY <3>1, <3>2
    <2> QED
      BY <2>2, <2>3
  <1> QED
    BY <1>6, <1>8, <1>9

(* What a step may do with a frame: nothing, or judge one of a position.   *)
LastIsPosition == last \in Positions

PassesRight ==
  /\ out'.outcome = "good" =>
       (out'.fired <=> /\ last < Modulo /\ last' < Modulo
                       /\ Target \in Arc(last, last'))
  /\ out'.outcome # "good" => ~out'.fired

LEMMA QuietPasses ==
  ASSUME Quiet
  PROVE  PassesRight
  BY DEF Quiet, Nothing, PassesRight

LEMMA JudgedPasses ==
  ASSUME LastIsPosition, NEW p \in Positions, Commit(p) \/ ProcessFrame(p)
  PROVE  PassesRight /\ LastIsPosition'
  <1>1. CASE Commit(p)
    <2>1. out'.outcome = "good" /\ (out'.fired <=> Crossed(last, p)) /\ last' = p
      BY <1>1 DEF Commit
    <2> QED
      BY <2>1, CrossedIsArc DEF PassesRight, LastIsPosition
  <1>2. CASE last' \in {p, last} /\ out'.outcome \in {"gated", "bad"} /\ ~out'.fired
    BY <1>2 DEF PassesRight, LastIsPosition
  <1> QED
    BY <1>1, <1>2 DEF ProcessFrame

LEMMA IngestPasses ==
  ASSUME LastIsPosition, NEW word, Ingest(word)
  PROVE  PassesRight /\ LastIsPosition'
  <1>1. CASE Quiet /\ UNCHANGED last
    BY <1>1, QuietPasses DEF LastIsPosition
  <1>2. CASE \E p \in Positions : ProcessFrame(p)
    <2>1. PICK p \in Positions : ProcessFrame(p)
      BY <1>2
    <2> QED
      BY <2>1, JudgedPasses
  <1> QED
    BY <1>1, <1>2 DEF Ingest

LEMMA NodePasses ==
  ASSUME LastIsPosition, NodeNext
  PROVE  PassesRight /\ LastIsPosition'
  <1>1. CASE Drain
    BY <1>1, IngestPasses DEF Drain
  <1>2. CASE FrameRx
    BY <1>2, JudgedPasses DEF FrameRx
  <1>3. CASE PulseIn
    BY <1>3, QuietPasses DEF PulseIn, LastIsPosition
  <1>4. CASE Quiet /\ UNCHANGED last
    BY <1>4, QuietPasses DEF LastIsPosition
  <1> QED
    BY <1>1, <1>2, <1>3, <1>4
    DEF NodeNext, Poll, Encoder, Command, PollBegin, Drained, CheckPassed, CheckSilence,
        CheckScan, StartFrame, SendBit, ArmNode, Disarm, Expire

(* A good frame fires exactly when the target lies on the way from the     *)
(* position before to its own, for every modulo and every target           *)
(* (biss_crossed_position, biss_node_io_commit_position).                  *)
THEOREM NodeFiresOnPassing == NodeSpec => PulseOnPassing
  <1>1. NodeInit => LastIsPosition
    BY BissAssumption DEF NodeInit, LastIsPosition, Positions
  <1>2. LastIsPosition /\ [NodeNext]_nodeVars => LastIsPosition'
    BY NodePasses DEF LastIsPosition, nodeVars
  <1>3. LastIsPosition /\ [NodeNext]_nodeVars => [PassesRight]_nodeVars
    BY NodePasses
  <1>4. NodeSpec => [][PassesRight]_nodeVars
    BY <1>1, <1>2, <1>3, PTL DEF NodeSpec
  <1> QED
    BY <1>4 DEF PulseOnPassing, PassesRight

-----------------------------------------------------------------------------
(* The values of the node.                                                 *)
Line == Seq(Marks \X (1 .. FrameBits))
Programs == [chunk : Line, left : 0 .. FrameBits, fifo : Seq(Line)]

(* Between two words the counter of the frame has been reloaded.           *)
Program(s) ==
  /\ s \in Programs
  /\ Len(s.fifo) <= FifoDepth /\ Len(s.chunk) <= WordBits
  /\ s.chunk = <<>> => s.left > 0

NodeTyped ==
  /\ line \in Line /\ Len(line) <= FrameBits
  /\ Program(sm)
  /\ words \in Seq(Line) /\ Len(words) < WordsExpected
  /\ pending \in Seq(Marks)
  /\ stage \in {"rest", "drain", "check"}
  /\ armed \in BOOLEAN /\ overdue \in BOOLEAN /\ latched \in BOOLEAN
  /\ scan \in BOOLEAN /\ delay \in Delays
  /\ last \in Positions

LEMMA Sizes ==
  /\ FrameBits \in Nat \ {0} /\ WordBits \in Nat \ {0} /\ FifoDepth \in Nat \ {0}
  /\ WordsExpected \in Nat \ {0}
  /\ (WordsExpected - 1) * WordBits < FrameBits
  /\ FrameBits <= WordsExpected * WordBits
  <1>1. /\ FrameBits \in Nat \ {0} /\ WordBits \in Nat \ {0} /\ FifoDepth \in Nat \ {0}
    BY BissAssumption
  <1>2. \A n \in Nat, d \in Nat \ {0} :
          /\ n \div d \in Nat
          /\ (n \div d) * d <= n
          /\ n < (n \div d) * d + d
    OBVIOUS
  <1>3. FrameBits + WordBits - 1 \in Nat
    BY <1>1
  <1>4. PICK n \in Nat : n = FrameBits + WordBits - 1
    BY <1>3
  <1>5. /\ n \div WordBits \in Nat /\ (n \div WordBits) * WordBits <= n
        /\ n < (n \div WordBits) * WordBits + WordBits
    BY <1>1, <1>2
  <1>6. WordsExpected = n \div WordBits
    BY <1>4 DEF WordsExpected
  <1> HIDE DEF WordsExpected
  <1>7. /\ WordsExpected \in Nat /\ WordsExpected * WordBits <= FrameBits + WordBits - 1
        /\ FrameBits + WordBits - 1 < WordsExpected * WordBits + WordBits
    BY <1>4, <1>5, <1>6
  <1>8. WordsExpected # 0
    <2>1. 0 * WordBits = 0
      BY <1>1
    <2> QED
      BY <1>1, <1>7, <2>1
  <1>9. (WordsExpected - 1) * WordBits = WordsExpected * WordBits - WordBits
    BY <1>1, <1>7
  <1>10. WordsExpected * WordBits \in Nat
    BY <1>1, <1>7
  <1> QED
    BY <1>1, <1>7, <1>8, <1>9, <1>10

LEMMA EmptyLine ==
  /\ <<>> \in Line /\ Len(<<>>) = 0 /\ <<>> \in Seq(Line) /\ <<>> \in Seq(Marks)
  BY DEF Line

LEMMA FrameOfBits ==
  ASSUME NEW p \in Marks
  PROVE  Bits(p) \in Line /\ Len(Bits(p)) = FrameBits
         /\ \A i \in 1 .. FrameBits : Bits(p)[i] = <<p, i>>
  <1>1. Bits(p) \in [1 .. FrameBits -> Marks \X (1 .. FrameBits)]
    BY DEF Bits
  <1> QED
    BY <1>1, Sizes DEF Bits, Line

LEMMA RestartedProgram == Program(Restarted)
  BY EmptyLine, Sizes DEF Program, Programs, Restarted

LEMMA PushedProgram ==
  ASSUME NEW s, s \in Programs, Len(s.fifo) <= FifoDepth, Len(s.chunk) <= WordBits,
         s.chunk = <<>> => s.left > 0
  PROVE  Program(Pushed(s))
  <1>1. s.chunk \in Line /\ s.left \in 0 .. FrameBits /\ s.fifo \in Seq(Line)
    BY DEF Programs
  <1>2. CASE Complete(s) /\ Len(s.fifo) < FifoDepth
    <2> DEFINE left == IF s.left = 0 THEN FrameBits ELSE s.left
               fifo == Append(s.fifo, s.chunk)
    <2>1. left \in 0 .. FrameBits /\ left > 0
      BY <1>1, Sizes
    <2>2. fifo \in Seq(Line) /\ Len(fifo) = Len(s.fifo) + 1
      BY <1>1
    <2>3. Len(fifo) <= FifoDepth
      BY <1>1, <1>2, <2>2, Sizes
    <2>4. Pushed(s) = [chunk |-> <<>>, left |-> left, fifo |-> fifo]
      BY <1>2 DEF Pushed
    <2> HIDE DEF left, fifo
    <2>5. 0 <= WordBits
      BY Sizes
    <2> QED
      BY <2>1, <2>2, <2>3, <2>4, <2>5, EmptyLine DEF Program, Programs
  <1>3. CASE ~(Complete(s) /\ Len(s.fifo) < FifoDepth)
    <2>1. Pushed(s) = s
      BY <1>3 DEF Pushed
    <2> QED
      BY <2>1 DEF Program
  <1> QED
    BY <1>2, <1>3

LEMMA Extended ==
  ASSUME NEW l \in Line, NEW bit \in Marks \X (1 .. FrameBits)
  PROVE  /\ Append(l, bit) \in Line /\ Len(l) \in Nat
         /\ Len(Append(l, bit)) = Len(l) + 1 /\ Append(l, bit) # <<>>
  <1> DEFINE D == Marks \X (1 .. FrameBits)
  <1>1. l \in Seq(D) /\ bit \in D
    BY DEF Line
  <1> HIDE DEF D
  <1>2. /\ Append(l, bit) \in Seq(D) /\ Len(l) \in Nat
        /\ Len(Append(l, bit)) = Len(l) + 1
    BY <1>1
  <1>3. Append(l, bit) # <<>>
    <2>1. Len(<<>>) = 0
      OBVIOUS
    <2>2. Len(Append(l, bit)) # 0
      BY <1>2
    <2> QED
      BY <2>1, <2>2, Zenon
  <1> QED
    BY <1>2, <1>3 DEF Line, D

LEMMA SampledProgram ==
  ASSUME NEW s, Program(s), NEW bit \in Marks \X (1 .. FrameBits)
  PROVE  Program(Sampled(s, bit))
  <1>1. /\ s.chunk \in Line /\ s.left \in 0 .. FrameBits /\ s.fifo \in Seq(Line)
        /\ s \in Programs
    BY DEF Program, Programs
  <1>2. CASE Complete(s)
    BY <1>2 DEF Sampled
  <1>3. CASE ~Complete(s)
    <2> DEFINE chunk == Append(s.chunk, bit)
               t == [s EXCEPT !.chunk = Append(@, bit), !.left = @ - 1]
    <2>1. s.left > 0
      BY <1>1, <1>3 DEF Complete, Program
    <2>2. Len(s.chunk) < WordBits
      <3>1. CASE s.chunk = <<>>
        BY <3>1, EmptyLine, Sizes
      <3>2. CASE s.chunk # <<>>
        <4>1. Len(s.chunk) # WordBits /\ Len(s.chunk) <= WordBits
          BY <1>3, <3>2 DEF Complete, Program
        <4>2. Len(s.chunk) \in Nat
          BY <1>1 DEF Line
        <4> QED
          BY <4>1, <4>2, Sizes
      <3> QED
        BY <3>1, <3>2
    <2>3. chunk \in Line /\ Len(chunk) = Len(s.chunk) + 1 /\ chunk # <<>>
      BY <1>1, Extended
    <2>4. /\ t.chunk = chunk /\ t.left = s.left - 1 /\ t.fifo = s.fifo
          /\ t \in [chunk : Line, left : 0 .. FrameBits, fifo : Seq(Line)]
      <3>1. s \in [chunk : Line, left : 0 .. FrameBits, fifo : Seq(Line)]
        BY <1>1 DEF Programs
      <3>2. s.left - 1 \in 0 .. FrameBits
        BY <1>1, <2>1, Sizes
      <3>3. t = [s EXCEPT !.chunk = chunk, !.left = s.left - 1]
        OBVIOUS
      <3>4. chunk \in Line
        BY <2>3
      <3> HIDE DEF chunk, t
      <3> QED
        BY <3>1, <3>2, <3>3, <3>4
    <2>5. Len(t.chunk) <= WordBits
      <3>1. Len(s.chunk) \in Nat
        BY <1>1 DEF Line
      <3> QED
        BY <2>2, <2>3, <2>4, <3>1, Sizes
    <2>6. Sampled(s, bit) = Pushed(t)
      BY <1>3 DEF Sampled
    <2>7. Len(t.fifo) <= FifoDepth /\ t.chunk # <<>>
      BY <2>3, <2>4 DEF Program
    <2> HIDE DEF t
    <2> QED
      BY <2>4, <2>5, <2>6, <2>7, PushedProgram DEF Programs
  <1> QED
    BY <1>2, <1>3

LEMMA ReadProgram ==
  ASSUME NEW s, Program(s), s.fifo # <<>>
  PROVE  Program(WordRead(s)) /\ Head(s.fifo) \in Line
  <1>1. /\ s.chunk \in Line /\ s.left \in 0 .. FrameBits /\ s.fifo \in Seq(Line)
        /\ s \in Programs
    BY DEF Program, Programs
  <1> DEFINE t == [s EXCEPT !.fifo = Tail(@)]
  <1>2. /\ Tail(s.fifo) \in Seq(Line) /\ Len(Tail(s.fifo)) = Len(s.fifo) - 1
        /\ Head(s.fifo) \in Line
    BY <1>1
  <1>3. t \in Programs /\ t.chunk = s.chunk /\ t.left = s.left /\ t.fifo = Tail(s.fifo)
    BY <1>1, <1>2 DEF Programs
  <1>4. Len(t.fifo) <= FifoDepth
    <2>1. Len(s.fifo) <= FifoDepth /\ Len(s.fifo) \in Nat
      BY <1>1 DEF Program
    <2> QED
      BY <1>2, <1>3, <2>1, Sizes
  <1>5. WordRead(s) = Pushed(t)
    BY DEF WordRead
  <1> HIDE DEF t
  <1> QED
    BY <1>2, <1>3, <1>4, <1>5, PushedProgram DEF Program

LEMMA SentFrame ==
  ASSUME NEW l \in Line, l # <<>>
  PROVE  /\ Tail(l) \in Line /\ Len(Tail(l)) = Len(l) - 1 /\ Len(l) \in Nat \ {0}
         /\ Head(l) \in Marks \X (1 .. FrameBits) /\ Head(l) = l[1]
         /\ \A i \in 1 .. Len(l) - 1 : Tail(l)[i] = l[i + 1]
  <1> DEFINE D == Marks \X (1 .. FrameBits)
  <1>1. l \in Seq(D)
    BY DEF Line
  <1> HIDE DEF D
  <1>2. /\ Tail(l) \in Seq(D) /\ Len(Tail(l)) = Len(l) - 1 /\ Len(l) \in Nat \ {0}
        /\ Head(l) \in D /\ Head(l) = l[1]
        /\ \A i \in 1 .. Len(l) - 1 : Tail(l)[i] = l[i + 1]
    BY <1>1
  <1> QED
    BY <1>2 DEF Line, D

LEMMA Delayed ==
  /\ First \in Delays
  /\ \A d \in Delays : NextSampleDelay(d) \in Delays
  BY BissAssumption DEF Delays, NextSampleDelay

(* The word read: what the assembler holds after it.                       *)
LEMMA TakenFrame ==
  ASSUME NEW ws \in Seq(Line), Len(ws) < WordsExpected, NEW w \in Line
  PROVE  /\ Append(ws, w) \in Seq(Line) /\ Len(ws) \in Nat
         /\ Len(Append(ws, w)) = Len(ws) + 1
         /\ Len(Append(ws, w)) <= WordsExpected
         /\ Append(ws, w)[Len(ws) + 1] = w
         /\ \A i \in 1 .. Len(ws) : Append(ws, w)[i] = ws[i]
  <1>1. /\ Append(ws, w) \in Seq(Line) /\ Len(ws) \in Nat
        /\ Len(Append(ws, w)) = Len(ws) + 1
        /\ Append(ws, w)[Len(ws) + 1] = w
        /\ \A i \in 1 .. Len(ws) : Append(ws, w)[i] = ws[i]
    OBVIOUS
  <1> QED
    BY <1>1, Sizes

LEMMA NodeTypedInit == NodeInit => NodeTyped
  <1>1. 0 \in Positions
    BY BissAssumption DEF Positions
  <1>2. 0 <= FrameBits /\ 0 < WordsExpected
    BY Sizes
  <1>3. /\ line = <<>> => line \in Line /\ Len(line) <= FrameBits
        /\ words = <<>> => words \in Seq(Line) /\ Len(words) < WordsExpected
        /\ pending = <<>> => pending \in Seq(Marks)
    BY <1>2, EmptyLine
  <1>4. sm = Restarted => Program(sm)
    BY RestartedProgram
  <1> QED
    BY <1>1, <1>3, <1>4, Delayed DEF NodeInit, NodeTyped

LEMMA MarksTold == Told \subseteq Marks
  BY BissAssumption DEF Told

LEMMA StartFrameTyped ==
  ASSUME NodeTyped, StartFrame
  PROVE  NodeTyped'
  <1>1. PICK p \in Marks :
          /\ line' = Bits(p)
          /\ pending' = IF armed /\ ~missed THEN Append(pending, p) ELSE pending
    BY MarksTold DEF StartFrame
  <1>2. line' \in Line /\ Len(line') <= FrameBits
    BY <1>1, FrameOfBits, Sizes
  <1>3. pending' \in Seq(Marks)
    BY <1>1 DEF NodeTyped
  <1> QED
    BY <1>2, <1>3 DEF StartFrame, NodeTyped, node

(* What is lost leaves the types as they are.                              *)
LEMMA LosingTyped ==
  ASSUME pending \in Seq(Marks), NEW b, Losing(b)
  PROVE  pending' \in Seq(Marks)
  BY EmptyLine DEF Losing

LEMMA SendBitTyped ==
  ASSUME NodeTyped, SendBit
  PROVE  NodeTyped'
  <1>1. line \in Line /\ line # <<>> /\ Len(line) <= FrameBits
    BY DEF NodeTyped, SendBit
  <1>2. /\ line' \in Line /\ Len(line') <= FrameBits
        /\ Head(line) \in Marks \X (1 .. FrameBits)
    BY <1>1, SentFrame, Sizes DEF SendBit
  <1>3. Program(sm')
    BY <1>2, SampledProgram DEF NodeTyped, SendBit
  <1>4. pending' \in Seq(Marks)
    BY LosingTyped DEF SendBit, NodeTyped
  <1> QED
    BY <1>2, <1>3, <1>4 DEF SendBit, NodeTyped, node

LEMMA DrainTyped ==
  ASSUME NodeTyped, Drain
  PROVE  NodeTyped'
  <1> DEFINE word == Head(sm.fifo)
             frame == Append(words, word)
  <1>1. Program(sm') /\ word \in Line
    BY ReadProgram DEF Drain, NodeTyped
  <1>2. frame \in Seq(Line) /\ Len(frame) \in Nat /\ Len(frame) <= WordsExpected
    BY <1>1, TakenFrame DEF NodeTyped
  <1>3. Ingest(word)
    BY DEF Drain
  <1>4. CASE Len(frame) < WordsExpected
    <2>1. words' = frame /\ UNCHANGED <<overdue, latched, last, pending>>
      BY <1>3, <1>4 DEF Ingest
    <2> HIDE DEF frame, word
    <2> QED
      BY <1>1, <1>2, <1>4, <2>1 DEF Drain, NodeTyped
  <1>5. CASE ~(Len(frame) < WordsExpected)
    <2>1. /\ words' = <<>> /\ overdue' = FALSE /\ latched' = FALSE
          /\ \E p \in Positions : ProcessFrame(p)
          /\ pending' = IF pending = <<>> THEN <<>> ELSE Tail(pending)
      BY <1>3, <1>5 DEF Ingest
    <2>2. last' \in Positions
      <3>1. PICK p \in Positions : ProcessFrame(p)
        BY <2>1
      <3> QED
        BY <3>1 DEF ProcessFrame, Commit, NodeTyped
    <2>3. pending' \in Seq(Marks)
      BY <2>1, EmptyLine DEF NodeTyped
    <2>4. words' \in Seq(Line) /\ Len(words') < WordsExpected
      BY <2>1, EmptyLine, Sizes
    <2> HIDE DEF frame, word
    <2> QED
      BY <1>1, <2>1, <2>2, <2>3, <2>4 DEF Drain, NodeTyped
  <1> QED
    BY <1>4, <1>5

LEMMA NodeTypedNext ==
  ASSUME NodeTyped, [NodeNext]_nodeVars
  PROVE  NodeTyped'
  <1>0. words' = <<>> => words' \in Seq(Line) /\ Len(words') < WordsExpected
    BY EmptyLine, Sizes
  <1>1. CASE PollBegin
    BY <1>0, <1>1, LosingTyped DEF PollBegin, NodeTyped
  <1>2. CASE Drain
    BY <1>2, DrainTyped
  <1>3. CASE Drained
    BY <1>3 DEF Drained, NodeTyped, lineVars, node
  <1>4. CASE CheckPassed
    BY <1>4 DEF CheckPassed, NodeTyped, lineVars, node
  <1>5. CASE CheckSilence
    BY <1>0, <1>5, LosingTyped DEF CheckSilence, NodeTyped
  <1>6. CASE CheckScan
    BY <1>0, <1>6, EmptyLine, Delayed, RestartedProgram DEF CheckScan, NodeTyped, Fresh
  <1>7. CASE StartFrame
    BY <1>7, StartFrameTyped
  <1>8. CASE SendBit
    BY <1>8, SendBitTyped
  <1>9. CASE ArmNode
    BY <1>0, <1>9, EmptyLine, Delayed, RestartedProgram DEF ArmNode, NodeTyped, Fresh
  <1>10. CASE Disarm
    BY <1>0, <1>10, EmptyLine, RestartedProgram DEF Disarm, NodeTyped, Fresh
  <1>11. CASE FrameRx
    BY <1>11 DEF FrameRx, NodeTyped, lineVars, node, Commit
  <1>12. CASE PulseIn
    BY <1>12 DEF PulseIn, NodeTyped, lineVars, node
  <1>13. CASE Expire
    BY <1>13 DEF Expire, NodeTyped, lineVars
  <1>14. CASE UNCHANGED nodeVars
    BY <1>14 DEF NodeTyped, nodeVars
  <1> QED
    BY <1>1, <1>2, <1>3, <1>4, <1>5, <1>6, <1>7, <1>8, <1>9, <1>10, <1>11,
       <1>12, <1>13, <1>14
    DEF NodeNext, Poll, Encoder, Command

LEMMA NodeKeepsTypes == NodeSpec => []NodeTyped
  BY NodeTypedInit, NodeTypedNext, PTL DEF NodeSpec

(* The values of the node: the FIFO and the assembler never hold more than *)
(* they have room for, and the delay stays in the range of the scan.       *)
THEOREM NodeTypesHold == NodeSpec => []NodeTypes
  <1>1. NodeTyped => NodeTypes
    BY DEF NodeTyped, NodeTypes, Program, Programs, Line
  <1> QED
    BY <1>1, NodeKeepsTypes, PTL

-----------------------------------------------------------------------------
(* The stream of words.  Counted from the head of the assembler, the words *)
(* drained and those in the FIFO are the words of the frames under way, in *)
(* their order; the chunk and the bits still to be sent are the rest of    *)
(* the frame sent last.                                                    *)
Nth(ws, f, k) == IF k <= Len(ws) THEN ws[k] ELSE f[k - Len(ws)]
Before(n) == n * WordsExpected

Ordered(ws, f, ps) ==
  \A k \in 1 .. Len(ws) + Len(f) :
    \E i \in 1 .. Len(ps), w \in 1 .. WordsExpected :
      k = Before(i - 1) + w /\ Nth(ws, f, k) = Word(ps[i], w)

(* Between two frames everything sent has been pushed.                     *)
Between(s, ws, ps) ==
  /\ s.chunk = <<>> /\ s.left = FrameBits
  /\ Len(ws) + Len(s.fifo) = Before(Len(ps))

(* In a frame, r words of it have been pushed and b of its bits sampled.   *)
Sampling(l, s, ws, ps, r, b) ==
  /\ Len(ps) > 0 /\ Len(ws) + Len(s.fifo) = Before(Len(ps) - 1) + r
  /\ Len(s.chunk) < WordBits
  /\ b = r * WordBits + Len(s.chunk)
  /\ b + Len(l) = FrameBits /\ s.left = Len(l)
  /\ \A i \in 1 .. Len(s.chunk) : s.chunk[i] = <<ps[Len(ps)], r * WordBits + i>>
  /\ \A i \in 1 .. Len(l) : l[i] = <<ps[Len(ps)], b + i>>

Stream(l, s, ws, ps) ==
  /\ Ordered(ws, s.fifo, ps)
  /\ IF l = <<>> THEN Between(s, ws, ps)
     ELSE \E r \in Nat, b \in Nat : Sampling(l, s, ws, ps, r, b)

(* The program as it is when its full chunk has found room.                *)
Ready(s) ==
  IF Complete(s)
  THEN [chunk |-> <<>>,
        left |-> IF s.left = 0 THEN FrameBits ELSE s.left,
        fifo |-> Append(s.fifo, s.chunk)]
  ELSE s

(* The program with one more bit.                                          *)
Grown(s, bit) == [s EXCEPT !.chunk = Append(@, bit), !.left = @ - 1]

(* Until something is missed everything sent is still there, in order.     *)
StreamInv ==
  /\ armed /\ ~missed => Stream(line, Ready(sm), words, pending)
  /\ ~armed => sm = Restarted

-----------------------------------------------------------------------------
LEMMA TimesGrow ==
  ASSUME NEW a \in Nat, NEW b \in Nat, NEW c \in Nat, a <= b
  PROVE  a * c \in Nat /\ b * c \in Nat /\ a * c <= b * c
  <1>1. PICK d \in Nat : b = a + d
    <2>1. b - a \in Nat /\ b = a + (b - a)
      OBVIOUS
    <2> QED
      BY <2>1
  <1>2. b * c = a * c + d * c
    BY <1>1
  <1>3. a * c \in Nat /\ b * c \in Nat /\ d * c \in Nat
    OBVIOUS
  <1> QED
    BY <1>2, <1>3

LEMMA Counted ==
  /\ Before(0) = 0
  /\ \A n \in Nat : Before(n) \in Nat /\ Before(n + 1) = Before(n) + WordsExpected
  /\ \A n \in Nat : n >= 1 => Before(n) >= WordsExpected
  <1>1. WordsExpected \in Nat
    BY Sizes
  <1> HIDE DEF WordsExpected
  <1>2. Before(0) = 0
    BY <1>1 DEF Before
  <1>3. ASSUME NEW n \in Nat
        PROVE  Before(n) \in Nat /\ Before(n + 1) = Before(n) + WordsExpected
    BY <1>1 DEF Before
  <1>4. ASSUME NEW n \in Nat, n >= 1
        PROVE  Before(n) >= WordsExpected
    <2>1. 1 * WordsExpected <= n * WordsExpected
      BY <1>1, <1>4, TimesGrow
    <2> QED
      BY <1>1, <2>1 DEF Before
  <1> QED
    BY <1>2, <1>3, <1>4

(* A frame has room for another word as long as bits of it are missing.    *)
LEMMA RoomInFrame ==
  ASSUME NEW r \in Nat, NEW c \in Nat, r * WordBits + c < FrameBits
  PROVE  r < WordsExpected
  <1>1. /\ WordsExpected \in Nat /\ WordBits \in Nat
        /\ FrameBits \in Nat /\ FrameBits <= WordsExpected * WordBits
    BY Sizes
  <1> HIDE DEF WordsExpected
  <1>2. SUFFICES ASSUME WordsExpected <= r PROVE FALSE
    BY <1>1
  <1>3. WordsExpected * WordBits <= r * WordBits
    BY <1>1, <1>2, TimesGrow
  <1>4. WordsExpected * WordBits \in Nat /\ r * WordBits \in Nat
    BY <1>1
  <1> QED
    BY <1>1, <1>3, <1>4

(* The word that ends with the last bit of a frame is its last one.        *)
LEMMA LastWord ==
  ASSUME NEW r \in Nat, NEW c \in Nat, c < WordBits, r * WordBits + c + 1 = FrameBits
  PROVE  r + 1 = WordsExpected
  <1>1. /\ WordsExpected \in Nat \ {0} /\ WordBits \in Nat \ {0} /\ FrameBits \in Nat
        /\ (WordsExpected - 1) * WordBits < FrameBits
    BY Sizes
  <1>2. r * WordBits \in Nat
    BY <1>1
  <1>3. r < WordsExpected
    BY <1>1, <1>2, RoomInFrame
  <1> HIDE DEF WordsExpected
  <1>4. SUFFICES ASSUME r + 1 <= WordsExpected - 1 PROVE FALSE
    BY <1>1, <1>3
  <1>5. /\ WordsExpected - 1 \in Nat /\ r + 1 \in Nat
    BY <1>1
  <1>6. (r + 1) * WordBits <= (WordsExpected - 1) * WordBits
        /\ (r + 1) * WordBits \in Nat /\ (WordsExpected - 1) * WordBits \in Nat
    BY <1>1, <1>4, <1>5, TimesGrow
  <1>7. (r + 1) * WordBits = r * WordBits + WordBits
    BY <1>1
  <1> QED
    BY <1>1, <1>2, <1>6, <1>7

(* The chunk pushed is a word of the frame.                                *)
LEMMA ChunkIsWord ==
  ASSUME NEW p \in Marks, NEW r \in Nat, NEW c \in Line, Len(c) > 0,
         \A i \in 1 .. Len(c) : c[i] = <<p, r * WordBits + i>>,
         Len(c) <= WordBits, r * WordBits + Len(c) <= FrameBits,
         r * WordBits + Len(c) = FrameBits \/ Len(c) = WordBits
  PROVE  r + 1 \in 1 .. WordsExpected /\ c = Word(p, r + 1)
  <1>1. /\ WordsExpected \in Nat \ {0} /\ WordBits \in Nat \ {0} /\ FrameBits \in Nat \ {0}
        /\ FrameBits <= WordsExpected * WordBits /\ r * WordBits \in Nat
    BY Sizes
  <1>2. Len(c) \in Nat /\ c \in Seq(Marks \X (1 .. FrameBits))
    BY DEF Line
  <1>3. r + 1 \in 1 .. WordsExpected
    <2>1. r * WordBits + (Len(c) - 1) < FrameBits /\ Len(c) - 1 \in Nat
      BY <1>1, <1>2
    <2>2. r < WordsExpected
      BY <2>1, RoomInFrame
    <2> QED
      BY <1>1, <2>2
  <1> DEFINE end == IF r + 1 = WordsExpected THEN FrameBits ELSE (r + 1) * WordBits
  <1>4. (r + 1) * WordBits = r * WordBits + WordBits
    BY <1>1
  <1>5. end = r * WordBits + Len(c)
    <2>1. CASE r * WordBits + Len(c) = FrameBits
      <3>1. r * WordBits + (Len(c) - 1) + 1 = FrameBits /\ Len(c) - 1 \in Nat
            /\ Len(c) - 1 < WordBits
        BY <1>1, <1>2, <2>1
      <3>2. r + 1 = WordsExpected
        BY <3>1, LastWord
      <3> QED
        BY <2>1, <3>2
    <2>2. CASE r * WordBits + Len(c) # FrameBits
      <3>1. Len(c) = WordBits /\ r * WordBits + Len(c) < FrameBits
        BY <1>1, <1>2, <2>2
      <3>2. (r + 1) * WordBits + 0 < FrameBits /\ r + 1 \in Nat
        BY <1>1, <1>2, <1>4, <3>1
      <3>3. r + 1 # WordsExpected
        BY <1>1, <3>2, RoomInFrame
      <3> QED
        BY <1>4, <3>1, <3>3
    <2> QED
      BY <2>1, <2>2
  <1>6. (r + 1 - 1) * WordBits + 1 = r * WordBits + 1
    <2>1. r + 1 - 1 = r
      OBVIOUS
    <2> QED
      BY <2>1
  <1>7. Word(p, r + 1) = SubSeq(Bits(p), r * WordBits + 1, end)
    <2> DEFINE start == (r + 1 - 1) * WordBits + 1
    <2>1. Word(p, r + 1) = SubSeq(Bits(p), start, end)
      <3> DEFINE v == r + 1
      <3>1. CASE v = WordsExpected
        <4>1. end = FrameBits
          BY <3>1
        <4> HIDE DEF v, end
        <4>2. Word(p, v) = SubSeq(Bits(p), (v - 1) * WordBits + 1, FrameBits)
          BY <3>1 DEF Word
        <4> QED
          BY <4>1, <4>2 DEF v
      <3>2. CASE v # WordsExpected
        <4>1. end = v * WordBits
          BY <3>2
        <4> HIDE DEF v, end
        <4>2. Word(p, v) = SubSeq(Bits(p), (v - 1) * WordBits + 1, v * WordBits)
          BY <3>2 DEF Word
        <4> QED
          BY <4>1, <4>2 DEF v
      <3> QED
        BY <3>1, <3>2
    <2>2. start = r * WordBits + 1
      BY <1>6
    <2> HIDE DEF start, end
    <2> QED
      BY <2>1, <2>2
  <1> HIDE DEF end
  <1>8. PICK a \in Nat : a = r * WordBits
    BY <1>1
  <1> DEFINE q == SubSeq(Bits(p), a + 1, a + Len(c))
  <1>9. Word(p, r + 1) = q
    BY <1>5, <1>7, <1>8
  <1>10. /\ Bits(p) \in Seq(Marks \X (1 .. FrameBits)) /\ Len(Bits(p)) = FrameBits
         /\ \A i \in 1 .. FrameBits : Bits(p)[i] = <<p, i>>
    BY FrameOfBits DEF Line
  <1>11. a + Len(c) <= FrameBits
    BY <1>8
  <1>12. /\ q \in Seq(Marks \X (1 .. FrameBits)) /\ Len(q) = Len(c)
         /\ \A i \in 1 .. Len(c) : q[i] = Bits(p)[a + i]
    <2> DEFINE D == Marks \X (1 .. FrameBits)
               s == Bits(p)
    <2>1. s \in Seq(D) /\ Len(s) = FrameBits
      BY <1>10
    <2> HIDE DEF D, s
    <2>2. /\ SubSeq(s, a + 1, a + Len(c)) \in Seq(D)
          /\ Len(SubSeq(s, a + 1, a + Len(c))) = Len(c)
          /\ \A i \in 1 .. Len(c) : SubSeq(s, a + 1, a + Len(c))[i] = s[a + i]
      BY <1>1, <1>2, <1>11, <2>1
    <2> QED
      BY <2>2 DEF D, s
  <1> HIDE DEF q
  <1>13. ASSUME NEW i \in 1 .. Len(c)
         PROVE  q[i] = c[i]
    <2>1. a + i \in 1 .. FrameBits
      BY <1>1, <1>2, <1>11
    <2> QED
      BY <1>8, <1>10, <1>12, <2>1
  <1>14. q = c
    <2> DEFINE D == Marks \X (1 .. FrameBits)
    <2>1. c \in Seq(D) /\ q \in Seq(D)
      BY <1>2, <1>12
    <2> HIDE DEF D
    <2> QED
      BY <1>12, <1>13, <2>1, SMTT(30)
  <1> QED
    BY <1>3, <1>9, <1>14

LEMMA OrderedFrame ==
  ASSUME NEW ws \in Seq(Line), NEW f \in Seq(Line), NEW ps \in Seq(Marks),
         Ordered(ws, f, ps), NEW p \in Marks
  PROVE  Ordered(ws, f, Append(ps, p))
  <1>1. /\ Len(Append(ps, p)) = Len(ps) + 1 /\ Len(ps) \in Nat
        /\ \A i \in 1 .. Len(ps) : Append(ps, p)[i] = ps[i]
    OBVIOUS
  <1>2. ASSUME NEW k \in 1 .. Len(ws) + Len(f)
        PROVE  \E i \in 1 .. Len(Append(ps, p)), w \in 1 .. WordsExpected :
                 k = Before(i - 1) + w /\ Nth(ws, f, k) = Word(Append(ps, p)[i], w)
    <2>1. PICK i \in 1 .. Len(ps), w \in 1 .. WordsExpected :
            k = Before(i - 1) + w /\ Nth(ws, f, k) = Word(ps[i], w)
      BY DEF Ordered
    <2>2. i \in 1 .. Len(Append(ps, p)) /\ Append(ps, p)[i] = ps[i]
      BY <1>1
    <2> QED
      BY <2>1, <2>2
  <1> QED
    BY <1>2 DEF Ordered

LEMMA OrderedPush ==
  ASSUME NEW ws \in Seq(Line), NEW f \in Seq(Line), NEW ps \in Seq(Marks),
         Ordered(ws, f, ps), Len(ps) > 0, NEW r \in Nat,
         Len(ws) + Len(f) = Before(Len(ps) - 1) + r,
         r + 1 \in 1 .. WordsExpected,
         NEW c \in Line, c = Word(ps[Len(ps)], r + 1)
  PROVE  Ordered(ws, Append(f, c), ps)
  <1>1. /\ Len(ws) \in Nat /\ Len(f) \in Nat /\ Len(Append(f, c)) = Len(f) + 1
        /\ \A i \in 1 .. Len(f) : Append(f, c)[i] = f[i]
        /\ Append(f, c)[Len(f) + 1] = c
        /\ Len(ps) \in Nat
    OBVIOUS
  <1>2. ASSUME NEW k \in 1 .. Len(ws) + Len(Append(f, c))
        PROVE  \E i \in 1 .. Len(ps), w \in 1 .. WordsExpected :
                 k = Before(i - 1) + w /\ Nth(ws, Append(f, c), k) = Word(ps[i], w)
    <2>1. CASE k <= Len(ws) + Len(f)
      <3>1. k \in 1 .. Len(ws) + Len(f)
        BY <1>1, <2>1
      <3>2. PICK i \in 1 .. Len(ps), w \in 1 .. WordsExpected :
              k = Before(i - 1) + w /\ Nth(ws, f, k) = Word(ps[i], w)
        BY <3>1 DEF Ordered
      <3>3. Nth(ws, Append(f, c), k) = Nth(ws, f, k)
        <4>1. CASE k <= Len(ws)
          BY <4>1 DEF Nth
        <4>2. CASE ~(k <= Len(ws))
          <5>1. k - Len(ws) \in 1 .. Len(f)
            BY <1>1, <3>1, <4>2
          <5> QED
            BY <1>1, <4>2, <5>1 DEF Nth
        <4> QED
          BY <4>1, <4>2
      <3> QED
        BY <3>2, <3>3
    <2>2. CASE ~(k <= Len(ws) + Len(f))
      <3>1. k = Len(ws) + Len(f) + 1 /\ k - Len(ws) = Len(f) + 1 /\ ~(k <= Len(ws))
        <4>1. Len(ws) \in Nat /\ Len(f) \in Nat /\ Len(Append(f, c)) = Len(f) + 1
          BY <1>1
        <4>2. k \in Nat /\ k <= Len(ws) + (Len(f) + 1)
          BY <4>1
        <4> QED
          BY <2>2, <4>1, <4>2
      <3>2. Nth(ws, Append(f, c), k) = c
        BY <1>1, <3>1 DEF Nth
      <3>3. Before(Len(ps) - 1) \in Nat
        BY <1>1, Counted
      <3>4. k = Before(Len(ps) - 1) + (r + 1)
        BY <3>1, <3>3, SMTT(30)
      <3>5. Len(ps) \in 1 .. Len(ps)
        BY <1>1
      <3> QED
        BY <3>2, <3>4, <3>5
    <2> QED
      BY <2>1, <2>2
  <1> QED
    BY <1>2 DEF Ordered

LEMMA ReadWords ==
  ASSUME NEW f \in Seq(Line), f # <<>>
  PROVE  /\ Len(f) \in Nat \ {0} /\ Tail(f) \in Seq(Line) /\ Len(Tail(f)) = Len(f) - 1
         /\ \A i \in 1 .. Len(f) - 1 : Tail(f)[i] = f[i + 1]
         /\ Head(f) \in Line /\ Head(f) = f[1]
  OBVIOUS

LEMMA OrderedRead ==
  ASSUME NEW ws \in Seq(Line), NEW f \in Seq(Line), NEW ps \in Seq(Marks),
         Ordered(ws, f, ps), f # <<>>
  PROVE  /\ Ordered(Append(ws, Head(f)), Tail(f), ps)
         /\ Len(Append(ws, Head(f))) + Len(Tail(f)) = Len(ws) + Len(f)
  <1> DEFINE ws2 == Append(ws, Head(f))
             f2 == Tail(f)
  <1>1. /\ Len(f) \in Nat \ {0} /\ Len(f2) = Len(f) - 1
        /\ \A i \in 1 .. Len(f) - 1 : f2[i] = f[i + 1]
        /\ Head(f) \in Line /\ Head(f) = f[1]
    BY ReadWords
  <1>2. /\ Len(ws) \in Nat /\ Len(ws2) = Len(ws) + 1
        /\ \A i \in 1 .. Len(ws) : ws2[i] = ws[i]
        /\ ws2[Len(ws) + 1] = Head(f)
    BY <1>1
  <1> HIDE DEF ws2, f2
  <1>3. Len(ws2) + Len(f2) = Len(ws) + Len(f)
    BY <1>1, <1>2
  <1>4. ASSUME NEW k \in 1 .. Len(ws) + Len(f)
        PROVE  Nth(ws2, f2, k) = Nth(ws, f, k)
    <2>1. CASE k <= Len(ws)
      <3>1. k \in 1 .. Len(ws) /\ k <= Len(ws2)
        BY <1>2, <2>1
      <3> QED
        BY <1>2, <2>1, <3>1 DEF Nth
    <2>2. CASE k = Len(ws) + 1
      <3>1. k <= Len(ws2) /\ ~(k <= Len(ws)) /\ k - Len(ws) = 1
        BY <1>2, <2>2
      <3> QED
        BY <1>1, <1>2, <2>2, <3>1 DEF Nth
    <2>3. CASE k > Len(ws) + 1
      <3>1. /\ ~(k <= Len(ws2)) /\ ~(k <= Len(ws))
            /\ k - Len(ws2) \in 1 .. Len(f) - 1 /\ k - Len(ws2) + 1 = k - Len(ws)
        BY <1>1, <1>2, <2>3
      <3> QED
        BY <1>1, <3>1 DEF Nth
    <2> QED
      BY <1>2, <2>1, <2>2, <2>3
  <1>5. Ordered(ws2, f2, ps)
    BY <1>3, <1>4 DEF Ordered
  <1> QED
    BY <1>3, <1>5 DEF ws2, f2

(* The assembler is full: what it holds is the first frame under way.      *)
LEMMA OrderedTaken ==
  ASSUME NEW ws \in Seq(Line), NEW f \in Seq(Line), NEW ps \in Seq(Marks),
         Ordered(ws, f, ps), f # <<>>, Len(ws) + 1 = WordsExpected, Len(ps) > 0
  PROVE  /\ Append(ws, Head(f)) = Frame(Head(ps))
         /\ Ordered(<<>>, Tail(f), Tail(ps))
  <1>0. WordsExpected \in Nat \ {0} /\ Len(ps) \in Nat /\ Len(ws) \in Nat
    BY Sizes
  <1> DEFINE ws2 == Append(ws, Head(f))
             f2 == Tail(f)
             qs == Tail(ps)
  <1>1. /\ Len(f) \in Nat \ {0} /\ f2 \in Seq(Line) /\ Len(f2) = Len(f) - 1
        /\ Head(f) \in Line
    BY ReadWords
  <1>2. /\ ws2 \in Seq(Line) /\ Len(ws2) = WordsExpected
    BY <1>0, <1>1
  <1>3. Ordered(ws2, f2, ps) /\ Len(ws2) + Len(f2) = Len(ws) + Len(f)
    BY OrderedRead
  <1>4. /\ Head(ps) = ps[1] /\ Len(qs) = Len(ps) - 1
        /\ \A i \in 1 .. Len(ps) - 1 : qs[i] = ps[i + 1]
    <2>1. ps # <<>>
      BY EmptyLine
    <2> QED
      BY <2>1
  <1> HIDE DEF ws2, f2, qs
  <1>5. ASSUME NEW k \in 1 .. WordsExpected
        PROVE  ws2[k] = Word(ps[1], k)
    <2>1. k \in 1 .. Len(ws2) + Len(f2) /\ k <= Len(ws2)
      BY <1>0, <1>1, <1>2
    <2>2. PICK i \in 1 .. Len(ps), w \in 1 .. WordsExpected :
            k = Before(i - 1) + w /\ Nth(ws2, f2, k) = Word(ps[i], w)
      BY <1>3, <2>1 DEF Ordered
    <2>3. i - 1 \in Nat /\ Before(i - 1) \in Nat
          /\ (i - 1 >= 1 => Before(i - 1) >= WordsExpected)
      <3>1. i - 1 \in Nat
        BY <1>0
      <3> QED
        BY <3>1, Counted
    <2>4. i - 1 = 0
      BY <1>0, <2>2, <2>3
    <2>5. i = 1 /\ k = w
      <3>1. Before(i - 1) = 0
        BY <2>4, Counted
      <3> QED
        BY <1>0, <2>2, <2>4, <3>1
    <2> QED
      BY <2>1, <2>2, <2>5 DEF Nth
  <1>6. ws2 = Frame(Head(ps))
    <2> DEFINE fr == Frame(ps[1])
    <2>1. fr = [w \in 1 .. WordsExpected |-> Word(ps[1], w)]
      BY DEF Frame
    <2>2. ws2 = [k \in 1 .. WordsExpected |-> ws2[k]]
      BY <1>2
    <2> HIDE DEF fr
    <2>3. fr = ws2
      BY <1>5, <2>1, <2>2
    <2> QED
      BY <1>4, <2>3 DEF fr
  <1>7. ASSUME NEW k \in 1 .. Len(f2)
        PROVE  \E i \in 1 .. Len(qs), w \in 1 .. WordsExpected :
                 k = Before(i - 1) + w /\ f2[k] = Word(qs[i], w)
    <2>0. Len(f2) \in Nat
      BY <1>1
    <2>1. /\ k + WordsExpected \in 1 .. Len(ws2) + Len(f2)
          /\ ~(k + WordsExpected <= Len(ws2)) /\ k + WordsExpected - Len(ws2) = k
      BY <1>0, <1>2, <2>0
    <2>2. PICK i \in 1 .. Len(ps), w \in 1 .. WordsExpected :
            /\ k + WordsExpected = Before(i - 1) + w
            /\ Nth(ws2, f2, k + WordsExpected) = Word(ps[i], w)
      BY <1>3, <2>1 DEF Ordered
    <2>3. i # 1
      <3>1. i = 1 => Before(i - 1) = 0
        BY Counted
      <3> QED
        BY <1>0, <2>0, <2>2, <3>1
    <2>4. i - 1 \in 1 .. Len(qs) /\ i - 2 \in Nat /\ (i - 2) + 1 = i - 1
          /\ i - 1 - 1 = i - 2
      BY <1>0, <1>4, <2>3
    <2>5. Before(i - 1) = Before(i - 2) + WordsExpected /\ Before(i - 2) \in Nat
      BY <2>4, Counted
    <2>6. k = Before(i - 2) + w
      <3>1. PICK a \in Nat : a = Before(i - 2)
        BY <2>5
      <3>2. k + WordsExpected = (a + WordsExpected) + w
        BY <2>2, <2>5, <3>1
      <3>3. k = a + w
        BY <1>0, <2>0, <3>2
      <3> QED
        BY <3>1, <3>3
    <2>7. qs[i - 1] = ps[i]
      <3>1. i - 1 \in 1 .. Len(ps) - 1 /\ (i - 1) + 1 = i
        BY <1>4, <2>4
      <3> QED
        BY <1>4, <3>1
    <2>8. Nth(ws2, f2, k + WordsExpected) = f2[k]
      <3> DEFINE m == k + WordsExpected
      <3>1. ~(m <= Len(ws2)) /\ m - Len(ws2) = k
        BY <2>1
      <3> HIDE DEF m
      <3>2. Nth(ws2, f2, m) = f2[k]
        BY <3>1 DEF Nth
      <3> QED
        BY <3>2 DEF m
    <2> DEFINE j == i - 1
    <2>9. j \in 1 .. Len(qs) /\ k = Before(j - 1) + w /\ f2[k] = Word(qs[j], w)
      BY <2>2, <2>4, <2>6, <2>7, <2>8
    <2> HIDE DEF j
    <2> QED
      BY <2>9
  <1>8. Ordered(<<>>, f2, qs)
    <2>1. Len(<<>>) = 0 /\ Len(f2) \in Nat
      BY <1>1, EmptyLine
    <2>2. ASSUME NEW k \in 1 .. Len(<<>>) + Len(f2)
          PROVE  k \in 1 .. Len(f2) /\ Nth(<<>>, f2, k) = f2[k]
      <3>1. k \in 1 .. Len(f2) /\ ~(k <= Len(<<>>)) /\ k - Len(<<>>) = k
        BY <2>1
      <3> QED
        BY <3>1 DEF Nth
    <2>3. ASSUME NEW k \in 1 .. Len(<<>>) + Len(f2)
          PROVE  \E i \in 1 .. Len(qs), w \in 1 .. WordsExpected :
                   k = Before(i - 1) + w /\ Nth(<<>>, f2, k) = Word(qs[i], w)
      <3>1. k \in 1 .. Len(f2) /\ Nth(<<>>, f2, k) = f2[k]
        BY <2>2
      <3>2. PICK i \in 1 .. Len(qs), w \in 1 .. WordsExpected :
              k = Before(i - 1) + w /\ f2[k] = Word(qs[i], w)
        BY <1>7, <3>1
      <3> QED
        BY <3>1, <3>2
    <2> QED
      BY <2>3, Zenon DEF Ordered
  <1> QED
    BY <1>6, <1>8 DEF ws2, f2, qs

-----------------------------------------------------------------------------
(* What the steps of the line and of the receiver do to the stream.        *)
LEMMA StreamBound ==
  ASSUME NEW l \in Line, NEW s \in Programs, NEW ws \in Seq(Line),
         NEW ps \in Seq(Marks), Stream(l, s, ws, ps)
  PROVE  /\ Len(ws) + Len(s.fifo) <= Before(Len(ps))
         /\ l # <<>> => Len(ws) + Len(s.fifo) < Before(Len(ps))
         /\ Len(s.chunk) < WordBits /\ s.left > 0
  <1>1. Len(ps) \in Nat /\ Len(l) \in Nat /\ FrameBits \in Nat \ {0} /\ WordBits \in Nat \ {0}
        /\ WordsExpected \in Nat /\ s.left \in Nat /\ Before(Len(ps)) \in Nat
        /\ Len(s.chunk) \in Nat /\ Len(ws) \in Nat /\ Len(s.fifo) \in Nat
    <2>1. Len(ps) \in Nat /\ s.left \in Nat /\ Len(ws) \in Nat /\ Len(s.fifo) \in Nat
      BY Sizes DEF Program, Programs
    <2>2. Len(l) \in Nat /\ Len(s.chunk) \in Nat
      BY DEF Line, Program, Programs
    <2> QED
      BY <2>1, <2>2, Sizes, Counted
  <1>2. CASE l = <<>>
    <2>1. Between(s, ws, ps)
      BY <1>2 DEF Stream
    <2>2. Len(s.chunk) = 0
      BY <2>1, EmptyLine DEF Between
    <2> QED
      BY <1>1, <1>2, <2>1, <2>2 DEF Between
  <1>3. CASE l # <<>>
    <2>1. PICK r \in Nat, b \in Nat : Sampling(l, s, ws, ps, r, b)
      BY <1>3 DEF Stream
    <2>2. Len(l) > 0
      BY <1>3, SentFrame
    <2>3. r * WordBits + Len(s.chunk) < FrameBits
      <3>1. PICK a \in Nat : a = r * WordBits
        BY <1>1
      <3>2. b = a + Len(s.chunk) /\ b + Len(l) = FrameBits
        BY <2>1, <3>1 DEF Sampling
      <3>3. a + Len(s.chunk) < FrameBits
        BY <1>1, <2>2, <3>2
      <3> QED
        BY <3>1, <3>3
    <2>4. r < WordsExpected
      BY <1>1, <2>3, RoomInFrame
    <2>5. Len(ps) - 1 \in Nat /\ (Len(ps) - 1) + 1 = Len(ps)
      BY <1>1, <2>1 DEF Sampling
    <2>6. Before(Len(ps)) = Before(Len(ps) - 1) + WordsExpected /\ Before(Len(ps) - 1) \in Nat
      BY <2>5, Counted
    <2>7. Len(ws) + Len(s.fifo) = Before(Len(ps) - 1) + r
      BY <2>1 DEF Sampling
    <2>8. Len(s.chunk) < WordBits /\ s.left > 0
      BY <2>1, <2>2 DEF Sampling
    <2> QED
      BY <1>1, <2>4, <2>6, <2>7, <2>8
  <1> QED
    BY <1>2, <1>3

LEMMA StreamFrame ==
  ASSUME NEW s \in Programs, NEW ws \in Seq(Line),
         NEW ps \in Seq(Marks), NEW p \in Marks, Stream(<<>>, s, ws, ps)
  PROVE  Stream(Bits(p), s, ws, Append(ps, p))
  <1> DEFINE qs == Append(ps, p)
  <1>1. /\ Len(qs) = Len(ps) + 1 /\ Len(ps) \in Nat /\ qs[Len(ps) + 1] = p
    OBVIOUS
  <1>2. Between(s, ws, ps) /\ Ordered(ws, s.fifo, ps)
    BY DEF Stream
  <1>3. s.fifo \in Seq(Line)
    BY DEF Program, Programs
  <1>4. Ordered(ws, s.fifo, qs)
    BY <1>2, <1>3, OrderedFrame
  <1>5. /\ Len(Bits(p)) = FrameBits /\ Bits(p) # <<>>
        /\ \A i \in 1 .. FrameBits : Bits(p)[i] = <<p, i>>
    BY FrameOfBits, EmptyLine, Sizes
  <1> HIDE DEF qs
  <1>6. /\ Len(s.chunk) = 0 /\ s.left = FrameBits
        /\ Len(ws) + Len(s.fifo) = Before(Len(ps))
    BY <1>2, EmptyLine DEF Between
  <1>7. 0 * WordBits = 0 /\ WordBits > 0 /\ FrameBits \in Nat /\ Before(Len(ps)) \in Nat
    BY <1>1, Sizes, Counted
  <1>8. Sampling(Bits(p), s, ws, qs, 0, 0)
    <2>1. Len(qs) > 0 /\ Len(qs) - 1 = Len(ps) /\ qs[Len(qs)] = p
      BY <1>1
    <2>2. Len(ws) + Len(s.fifo) = Before(Len(qs) - 1) + 0
      BY <1>6, <1>7, <2>1
    <2>3. \A i \in 1 .. Len(s.chunk) : s.chunk[i] = <<qs[Len(qs)], 0 * WordBits + i>>
      BY <1>6
    <2>4. \A i \in 1 .. Len(Bits(p)) : Bits(p)[i] = <<qs[Len(qs)], 0 + i>>
      BY <1>5, <1>7, <2>1
    <2>5. 0 = 0 * WordBits + Len(s.chunk) /\ 0 + Len(Bits(p)) = FrameBits
          /\ s.left = Len(Bits(p)) /\ Len(s.chunk) < WordBits
      BY <1>5, <1>6, <1>7
    <2> QED
      BY <2>1, <2>2, <2>3, <2>4, <2>5 DEF Sampling
  <1>9. \E r \in Nat, b \in Nat : Sampling(Bits(p), s, ws, qs, r, b)
    BY <1>8
  <1> QED
    BY <1>4, <1>5, <1>9 DEF Stream, qs

(* A bit of the frame under way: the chunk grows, or it is pushed.         *)
LEMMA StreamBit ==
  ASSUME NEW l \in Line, NEW s \in Programs, NEW ws \in Seq(Line),
         NEW ps \in Seq(Marks), Stream(l, s, ws, ps), l # <<>>
  PROVE  Stream(Tail(l), Ready(Grown(s, Head(l))), ws, ps)
  <1> DEFINE n == Len(ps)
             p == ps[n]
             bit == Head(l)
             c == Append(s.chunk, bit)
             m == Tail(l)
             t == Grown(s, bit)
  <1>1. PICK r \in Nat, b \in Nat : Sampling(l, s, ws, ps, r, b)
    BY DEF Stream
  <1>2. /\ n \in Nat /\ n > 0 /\ Len(ws) + Len(s.fifo) = Before(n - 1) + r
        /\ Len(s.chunk) < WordBits /\ b = r * WordBits + Len(s.chunk)
        /\ b + Len(l) = FrameBits /\ s.left = Len(l)
        /\ \A i \in 1 .. Len(s.chunk) : s.chunk[i] = <<p, r * WordBits + i>>
        /\ \A i \in 1 .. Len(l) : l[i] = <<p, b + i>>
    BY <1>1, SMTT(30) DEF Sampling
  <1>3. /\ s.chunk \in Line /\ s.left \in Nat /\ s.fifo \in Seq(Line) /\ s \in Programs
        /\ Len(s.fifo) \in Nat /\ Len(ws) \in Nat
    BY Sizes DEF Program, Programs
  <1>4. /\ m \in Line /\ Len(m) = Len(l) - 1 /\ Len(l) \in Nat \ {0}
        /\ bit \in Marks \X (1 .. FrameBits) /\ bit = l[1]
        /\ \A i \in 1 .. Len(l) - 1 : m[i] = l[i + 1]
    BY SentFrame
  <1>5. /\ c \in Line /\ Len(s.chunk) \in Nat /\ Len(c) = Len(s.chunk) + 1 /\ c # <<>>
    BY <1>3, <1>4, Extended
  <1>6. /\ \A i \in 1 .. Len(s.chunk) : c[i] = s.chunk[i]
        /\ c[Len(s.chunk) + 1] = bit
    <2> DEFINE D == Marks \X (1 .. FrameBits)
    <2>1. s.chunk \in Seq(D) /\ bit \in D
      BY <1>3, <1>4 DEF Line
    <2> HIDE DEF D, bit
    <2> QED
      BY <2>1
  <1>7. p \in Marks /\ r * WordBits \in Nat /\ WordBits \in Nat \ {0}
        /\ FrameBits \in Nat \ {0}
    <2>1. n \in 1 .. Len(ps)
      BY <1>2
    <2>2. p \in Marks
      BY <2>1
    <2> QED
      BY <2>2, Sizes
  <1>13. /\ t.chunk = c /\ t.left = s.left - 1 /\ t.fifo = s.fifo
    BY <1>3 DEF Programs, Grown
  <1> HIDE DEF t
  <1>14. Ordered(ws, s.fifo, ps)
    BY DEF Stream
  <1> HIDE DEF n, p, bit, c, m
  <1>15. PICK a \in Nat : a = r * WordBits
    BY <1>7
  <1>16. /\ b = a + Len(s.chunk) /\ b + Len(l) = FrameBits /\ s.left = Len(l)
         /\ Len(s.chunk) < WordBits
    BY <1>2, <1>15
  <1>17. \A i \in 1 .. Len(c) : c[i] = <<p, r * WordBits + i>>
    <2> TAKE i \in 1 .. Len(c)
    <2>1. CASE i \in 1 .. Len(s.chunk)
      BY <1>2, <1>6, <2>1
    <2>2. CASE i \notin 1 .. Len(s.chunk)
      <3>1. i = Len(s.chunk) + 1
        BY <1>5, <2>2
      <3>2. c[i] = l[1] /\ l[1] = <<p, b + 1>>
        BY <1>2, <1>4, <1>6, <3>1, SMTT(30)
      <3>3. b + 1 = r * WordBits + i
        <4>1. b + 1 = a + i
          BY <1>5, <1>16, <3>1
        <4> QED
          BY <1>15, <4>1
      <3> QED
        BY <3>2, <3>3
    <2> QED
      BY <2>1, <2>2
  <1>18. \A i \in 1 .. Len(m) : m[i] = <<p, (b + 1) + i>>
    <2> TAKE i \in 1 .. Len(m)
    <2>1. i + 1 \in 1 .. Len(l) /\ b + (i + 1) = (b + 1) + i /\ i \in 1 .. Len(l) - 1
      BY <1>4
    <2>2. m[i] = l[i + 1] /\ l[i + 1] = <<p, b + (i + 1)>>
      BY <1>2, <1>4, <2>1
    <2> QED
      BY <2>1, <2>2
  <1>19. /\ t.left = Len(m) /\ (b + 1) + Len(m) = FrameBits
         /\ r * WordBits + Len(c) = b + 1 /\ Len(m) \in Nat /\ Len(c) \in Nat
    <2>1. /\ t.left = Len(m) /\ (b + 1) + Len(m) = FrameBits
          /\ a + Len(c) = b + 1 /\ Len(m) \in Nat /\ Len(c) \in Nat
      <3>1. /\ Len(m) = Len(l) - 1 /\ Len(l) \in Nat \ {0}
            /\ Len(c) = Len(s.chunk) + 1 /\ Len(s.chunk) \in Nat
        BY <1>4, <1>5
      <3> QED
        BY <1>13, <1>16, <3>1
    <2> QED
      BY <1>15, <2>1
  <1>20. CASE Complete(t)
    <2>1. Len(m) = 0 \/ Len(c) = WordBits
      BY <1>13, <1>19, <1>20 DEF Complete
    <2>2. r * WordBits + Len(c) = FrameBits \/ Len(c) = WordBits
      BY <1>7, <1>19, <2>1
    <2>3. Len(c) <= WordBits /\ r * WordBits + Len(c) <= FrameBits /\ Len(c) > 0
      <3>1. a + Len(c) = b + 1 /\ (b + 1) + Len(m) = FrameBits
            /\ Len(m) \in Nat /\ Len(c) \in Nat
        BY <1>19, <1>15
      <3>2. Len(c) <= WordBits /\ a + Len(c) <= FrameBits /\ Len(c) > 0
        BY <1>5, <1>7, <1>16, <3>1, SMTT(30)
      <3> QED
        BY <1>15, <3>2
    <2>4. r + 1 \in 1 .. WordsExpected /\ c = Word(p, r + 1)
      BY <1>5, <1>7, <1>17, <2>2, <2>3, ChunkIsWord
    <2>5. Ordered(ws, Append(s.fifo, c), ps)
      <3>1. Len(ps) > 0 /\ Len(ws) + Len(s.fifo) = Before(Len(ps) - 1) + r
            /\ c = Word(ps[Len(ps)], r + 1)
        BY <1>2, <2>4 DEF n, p
      <3> QED
        BY <1>3, <1>5, <1>14, <2>4, <3>1, OrderedPush
    <2> DEFINE u == Ready(t)
    <2>6. /\ u.chunk = <<>> /\ u.left = (IF Len(m) = 0 THEN FrameBits ELSE Len(m))
          /\ u.fifo = Append(s.fifo, c)
      BY <1>13, <1>19, <1>20 DEF Ready
    <2> HIDE DEF u
    <2>7. Len(u.fifo) = Len(s.fifo) + 1 /\ Len(u.chunk) = 0
      BY <1>3, <1>5, <2>6, EmptyLine
    <2>8. Before(n - 1) \in Nat /\ Before(n) = Before(n - 1) + WordsExpected
          /\ WordsExpected \in Nat
      <3>1. n - 1 \in Nat /\ (n - 1) + 1 = n
        BY <1>2
      <3>2. Before(n - 1) \in Nat /\ Before((n - 1) + 1) = Before(n - 1) + WordsExpected
        BY <3>1, Counted
      <3> QED
        BY <3>1, <3>2, Sizes
    <2>9. Len(ws) + Len(u.fifo) = Before(n - 1) + (r + 1)
      <3>1. PICK e \in Nat : e = Before(n - 1)
        BY <2>8
      <3>2. Len(ws) + Len(s.fifo) = e + r
        BY <1>2, <3>1
      <3>3. Len(ws) + Len(u.fifo) = e + (r + 1)
        BY <1>3, <2>7, <3>2
      <3> QED
        BY <3>1, <3>3
    <2>10. CASE Len(m) = 0
      <3>1. m = <<>>
        BY <1>4, <2>10, SentFrame
      <3>2. r * WordBits + Len(s.chunk) + 1 = FrameBits
        <4>1. a + Len(s.chunk) + 1 = FrameBits
          BY <1>5, <1>7, <1>19, <1>16, <2>10
        <4> QED
          BY <1>15, <4>1
      <3>3. r + 1 = WordsExpected
        BY <1>2, <1>5, <3>2, LastWord
      <3>4. Len(ws) + Len(u.fifo) = Before(n)
        BY <2>8, <2>9, <3>3
      <3>5. Between(u, ws, ps)
        BY <2>6, <2>10, <3>4 DEF Between, n
      <3>6. Stream(m, u, ws, ps)
        BY <2>5, <2>6, <3>1, <3>5 DEF Stream
      <3> QED
        BY <3>6 DEF u, t, m, bit
    <2>11. CASE Len(m) # 0
      <3>1. m # <<>>
        BY <2>11, EmptyLine
      <3>2. Len(c) = WordBits
        BY <2>1, <2>11
      <3>3. (r + 1) * WordBits = b + 1
        <4>1. (r + 1) * WordBits = r * WordBits + WordBits
          BY <1>7
        <4> QED
          BY <1>19, <3>2, <4>1
      <3>4. Sampling(m, u, ws, ps, r + 1, b + 1)
        <4>1. b + 1 = (r + 1) * WordBits + Len(u.chunk)
          BY <2>7, <3>3
        <4>2. u.left = Len(m)
          BY <2>6, <2>11
        <4>3. \A i \in 1 .. Len(u.chunk) : u.chunk[i] = <<ps[Len(ps)], (r + 1) * WordBits + i>>
          BY <2>7
        <4>4. \A i \in 1 .. Len(m) : m[i] = <<ps[Len(ps)], (b + 1) + i>>
          BY <1>18 DEF n, p
        <4>5. Len(u.chunk) < WordBits
          BY <1>7, <2>7
        <4>6. Len(ps) > 0 /\ Len(ws) + Len(u.fifo) = Before(Len(ps) - 1) + (r + 1)
          BY <1>2, <2>9 DEF n
        <4> QED
          BY <1>19, <4>1, <4>2, <4>3, <4>4, <4>5, <4>6 DEF Sampling
      <3>5. \E x \in Nat, y \in Nat : Sampling(m, u, ws, ps, x, y)
        <4>1. r + 1 \in Nat /\ b + 1 \in Nat
          OBVIOUS
        <4> QED
          BY <3>4, <4>1
      <3>6. Stream(m, u, ws, ps)
        BY <2>5, <2>6, <3>1, <3>5 DEF Stream
      <3> QED
        BY <3>6 DEF u, t, m, bit
    <2> QED
      BY <2>10, <2>11
  <1>21. CASE ~Complete(t)
    <2>1. Ready(t) = t
      BY <1>21 DEF Ready
    <2>2. Len(m) # 0 /\ Len(c) # WordBits
      BY <1>5, <1>13, <1>19, <1>21 DEF Complete
    <2>3. m # <<>>
      BY <2>2, EmptyLine
    <2>4. Sampling(m, t, ws, ps, r, b + 1)
      <3>1. b + 1 = r * WordBits + Len(t.chunk) /\ Len(t.chunk) < WordBits
        <4>1. b + 1 = a + Len(c) /\ Len(c) < WordBits
          BY <1>5, <1>7, <1>16, <2>2
        <4> QED
          BY <1>13, <1>15, <4>1
      <3>2. \A i \in 1 .. Len(t.chunk) : t.chunk[i] = <<ps[Len(ps)], r * WordBits + i>>
        BY <1>13, <1>17 DEF n, p
      <3>3. \A i \in 1 .. Len(m) : m[i] = <<ps[Len(ps)], (b + 1) + i>>
        BY <1>18 DEF n, p
      <3>4. Len(ps) > 0 /\ Len(ws) + Len(t.fifo) = Before(Len(ps) - 1) + r
        BY <1>2, <1>13 DEF n
      <3> QED
        BY <1>19, <3>1, <3>2, <3>3, <3>4 DEF Sampling
    <2>5. \E x \in Nat, y \in Nat : Sampling(m, t, ws, ps, x, y)
      <3>1. b + 1 \in Nat
        OBVIOUS
      <3> QED
        BY <2>4, <3>1
    <2>6. Stream(m, t, ws, ps)
      BY <1>13, <1>14, <2>3, <2>5 DEF Stream
    <2> QED
      BY <2>1, <2>6 DEF t, m, bit
  <1> QED
    BY <1>20, <1>21

(* A word is appended behind the first.                                    *)
LEMMA LaterWords ==
  ASSUME NEW f \in Seq(Line), f # <<>>, NEW w \in Line
  PROVE  /\ Append(Tail(f), w) = Tail(Append(f, w))
         /\ Append(f, w) # <<>> /\ Head(Append(f, w)) = Head(f)
  OBVIOUS

(* A chunk that finds room is a word like any other.                       *)
LEMMA ReadyPushed == ASSUME NEW s PROVE Ready(Pushed(s)) = Ready(s)
  <1>1. CASE Complete(s) /\ Len(s.fifo) < FifoDepth
    <2> DEFINE u == [chunk |-> <<>>,
                     left |-> IF s.left = 0 THEN FrameBits ELSE s.left,
                     fifo |-> Append(s.fifo, s.chunk)]
    <2>1. Pushed(s) = u /\ Ready(s) = u
      BY <1>1 DEF Pushed, Ready
    <2>2. u.chunk = <<>>
      OBVIOUS
    <2> HIDE DEF u
    <2>3. Ready(u) = u
      BY <2>2 DEF Ready, Complete
    <2> QED
      BY <2>1, <2>3
  <1>2. CASE ~(Complete(s) /\ Len(s.fifo) < FifoDepth)
    <2>1. Pushed(s) = s
      BY <1>2 DEF Pushed
    <2> QED
      BY <2>1
  <1> QED
    BY <1>1, <1>2

LEMMA ReadyTypes ==
  ASSUME NEW s, Program(s)
  PROVE  Ready(s) \in Programs
  <1>1. s \in Programs /\ s.chunk \in Line /\ s.left \in 0 .. FrameBits
        /\ s.fifo \in Seq(Line)
    BY DEF Program, Programs
  <1>2. CASE Complete(s)
    <2> DEFINE left == IF s.left = 0 THEN FrameBits ELSE s.left
               fifo == Append(s.fifo, s.chunk)
    <2>1. left \in 0 .. FrameBits /\ fifo \in Seq(Line)
      BY <1>1, Sizes
    <2>2. Ready(s) = [chunk |-> <<>>, left |-> left, fifo |-> fifo]
      BY <1>2 DEF Ready
    <2> HIDE DEF left, fifo
    <2> QED
      BY <2>1, <2>2, EmptyLine DEF Programs
  <1>3. CASE ~Complete(s)
    BY <1>1, <1>3 DEF Ready
  <1> QED
    BY <1>2, <1>3

(* A bit that does not go by.                                              *)
LEMMA BitTaken ==
  ASSUME NEW s, ~Complete(s), NEW bit
  PROVE  Ready(s) = s /\ Ready(Sampled(s, bit)) = Ready(Grown(s, bit))
  <1>1. Sampled(s, bit) = Pushed(Grown(s, bit))
    BY DEF Sampled, Grown
  <1> QED
    BY <1>1, ReadyPushed DEF Ready

(* A word is read, and a chunk that waits takes the room.                  *)
LEMMA WordLeaves ==
  ASSUME NEW s, Program(s), s.fifo # <<>>
  PROVE  /\ Ready(WordRead(s)).chunk = Ready(s).chunk
         /\ Ready(WordRead(s)).left = Ready(s).left
         /\ Ready(WordRead(s)).fifo = Tail(Ready(s).fifo)
         /\ Ready(s).fifo # <<>> /\ Head(Ready(s).fifo) = Head(s.fifo)
  <1> DEFINE t == [s EXCEPT !.fifo = Tail(@)]
  <1>1. /\ t.chunk = s.chunk /\ t.left = s.left /\ t.fifo = Tail(s.fifo)
    BY DEF Program, Programs
  <1>2. WordRead(s) = Pushed(t)
    BY DEF WordRead
  <1> HIDE DEF t
  <1>3. Ready(WordRead(s)) = Ready(t)
    BY <1>2, ReadyPushed
  <1>4. Complete(t) <=> Complete(s)
    BY <1>1 DEF Complete
  <1>5. CASE Complete(s)
    <2>1. /\ Ready(t).chunk = <<>> /\ Ready(s).chunk = <<>>
          /\ Ready(t).left = Ready(s).left
          /\ Ready(t).fifo = Append(Tail(s.fifo), s.chunk)
          /\ Ready(s).fifo = Append(s.fifo, s.chunk)
      BY <1>1, <1>4, <1>5 DEF Ready
    <2>2. s.fifo \in Seq(Line) /\ s.chunk \in Line
      BY DEF Program, Programs
    <2>3. /\ Append(Tail(s.fifo), s.chunk) = Tail(Append(s.fifo, s.chunk))
          /\ Append(s.fifo, s.chunk) # <<>>
          /\ Head(Append(s.fifo, s.chunk)) = Head(s.fifo)
      BY <2>2, LaterWords
    <2> QED
      BY <1>3, <2>1, <2>3
  <1>6. CASE ~Complete(s)
    BY <1>1, <1>3, <1>4, <1>6 DEF Ready
  <1> QED
    BY <1>5, <1>6

LEMMA StreamRead ==
  ASSUME NEW l \in Line, NEW s \in Programs, NEW ws \in Seq(Line),
         NEW ps \in Seq(Marks), Stream(l, s, ws, ps), s.fifo # <<>>,
         NEW t, t.chunk = s.chunk, t.left = s.left, t.fifo = Tail(s.fifo)
  PROVE  Stream(l, t, Append(ws, Head(s.fifo)), ps)
  <1> DEFINE ws2 == Append(ws, Head(s.fifo))
  <1>1. t.chunk = s.chunk /\ t.left = s.left /\ t.fifo = Tail(s.fifo)
    OBVIOUS
  <1>2. Ordered(ws2, t.fifo, ps) /\ Len(ws2) + Len(t.fifo) = Len(ws) + Len(s.fifo)
    <2>1. s.fifo \in Seq(Line) /\ Ordered(ws, s.fifo, ps)
      BY DEF Program, Programs, Stream
    <2> QED
      BY <1>1, <2>1, OrderedRead
  <1> HIDE DEF ws2
  <1>3. ASSUME l = <<>> PROVE Between(t, ws2, ps)
    BY <1>1, <1>2, <1>3 DEF Stream, Between
  <1>4. ASSUME l # <<>> PROVE \E r \in Nat, b \in Nat : Sampling(l, t, ws2, ps, r, b)
    <2>1. PICK r \in Nat, b \in Nat : Sampling(l, s, ws, ps, r, b)
      BY <1>4 DEF Stream
    <2>2. Sampling(l, t, ws2, ps, r, b)
      BY <1>1, <1>2, <2>1 DEF Sampling
    <2> QED
      BY <2>2
  <1>5. Stream(l, t, ws2, ps)
    BY <1>2, <1>3, <1>4 DEF Stream
  <1> QED
    BY <1>5 DEF ws2

(* The last word of a frame: it is the first frame under way.              *)
LEMMA StreamTaken ==
  ASSUME NEW l \in Line, NEW s \in Programs, NEW ws \in Seq(Line),
         NEW ps \in Seq(Marks), Stream(l, s, ws, ps), s.fifo # <<>>,
         Len(ws) + 1 = WordsExpected,
         NEW t, t.chunk = s.chunk, t.left = s.left, t.fifo = Tail(s.fifo)
  PROVE  /\ ps # <<>>
         /\ Append(ws, Head(s.fifo)) = Frame(Head(ps))
         /\ Stream(l, t, <<>>, Tail(ps))
  <1> DEFINE qs == Tail(ps)
             n == Len(ps)
  <1>1. t.chunk = s.chunk /\ t.left = s.left /\ t.fifo = Tail(s.fifo)
    OBVIOUS
  <1>2. s.fifo \in Seq(Line) /\ Ordered(ws, s.fifo, ps) /\ Len(ws) \in Nat
    BY DEF Program, Programs, Stream
  <1>3. Len(s.fifo) \in Nat \ {0} /\ Len(t.fifo) = Len(s.fifo) - 1
    BY <1>1, <1>2, ReadWords
  <1>4. /\ Len(ws) + Len(s.fifo) <= Before(n)
        /\ l # <<>> => Len(ws) + Len(s.fifo) < Before(n)
    BY StreamBound
  <1>5. n \in Nat /\ Before(n) \in Nat /\ WordsExpected \in Nat \ {0}
    BY Sizes, Counted
  <1>6. n > 0
    <2>1. n = 0 => Before(n) = 0
      BY Counted
    <2> QED
      BY <1>2, <1>3, <1>4, <1>5, <2>1
  <1>7. ps # <<>>
    BY <1>6, EmptyLine
  <1>8. /\ Append(ws, Head(s.fifo)) = Frame(Head(ps))
        /\ Ordered(<<>>, Tail(s.fifo), qs)
    BY <1>2, <1>6, OrderedTaken
  <1>9. /\ qs \in Seq(Marks) /\ Len(qs) = n - 1
        /\ \A i \in 1 .. n - 1 : qs[i] = ps[i + 1]
    BY <1>7
  <1>10. Before(n) = Before(n - 1) + WordsExpected /\ Before(n - 1) \in Nat
    <2>1. n - 1 \in Nat /\ (n - 1) + 1 = n
      BY <1>5, <1>6
    <2> QED
      BY <2>1, Counted
  <1> HIDE DEF qs, n
  <1>11. ASSUME l = <<>> PROVE Between(t, <<>>, qs)
    <2>1. /\ s.chunk = <<>> /\ s.left = FrameBits
          /\ Len(ws) + Len(s.fifo) = Before(n)
      BY <1>11 DEF Stream, Between, n
    <2>2. Len(t.fifo) = Before(n - 1)
      BY <1>2, <1>3, <1>5, <1>10, <2>1
    <2>3. Len(<<>>) + Len(t.fifo) = Before(Len(qs))
      BY <1>9, <1>10, <2>2, EmptyLine
    <2> QED
      BY <1>1, <2>1, <2>3 DEF Between
  <1>12. ASSUME l # <<>> PROVE \E r \in Nat, b \in Nat : Sampling(l, t, <<>>, qs, r, b)
    <2>1. PICK r \in Nat, b \in Nat : Sampling(l, s, ws, ps, r, b)
      BY <1>12 DEF Stream
    <2>2. /\ Len(ws) + Len(s.fifo) = Before(n - 1) + r
          /\ Len(s.chunk) < WordBits
          /\ b = r * WordBits + Len(s.chunk)
          /\ b + Len(l) = FrameBits /\ s.left = Len(l)
          /\ \A i \in 1 .. Len(s.chunk) : s.chunk[i] = <<ps[n], r * WordBits + i>>
          /\ \A i \in 1 .. Len(l) : l[i] = <<ps[n], b + i>>
      BY <2>1 DEF Sampling, n
    <2>3. r < WordsExpected
      <3>1. PICK a \in Nat : a = r * WordBits
        BY Sizes
      <3>2. b = a + Len(s.chunk) /\ b + Len(l) = FrameBits
        BY <2>2, <3>1
      <3>3. Len(l) \in Nat \ {0} /\ Len(s.chunk) \in Nat
        <4>1. Len(l) \in Nat \ {0}
          BY <1>12, SentFrame
        <4>2. Len(s.chunk) \in Nat
          BY DEF Program, Programs, Line
        <4> QED
          BY <4>1, <4>2
      <3>4. a + Len(s.chunk) < FrameBits
        BY <3>2, <3>3
      <3> QED
        BY <3>1, <3>3, <3>4, RoomInFrame
    <2>4. n - 1 > 0
      <3>1. n = 1 => Before(n - 1) = 0
        BY Counted
      <3>2. Len(ws) + Len(s.fifo) >= WordsExpected
        BY <1>2, <1>3, <1>5
      <3> QED
        BY <1>5, <1>6, <2>2, <2>3, <3>1, <3>2
    <2>5. n - 2 \in Nat /\ (n - 2) + 1 = n - 1 /\ (n - 1) - 1 = n - 2
      BY <1>5, <2>4
    <2>6. Before(n - 1) = Before(n - 2) + WordsExpected /\ Before(n - 2) \in Nat
      BY <2>5, Counted
    <2>7. Len(t.fifo) = Before(n - 2) + r
      <3>1. PICK e \in Nat : e = Before(n - 2)
        BY <2>6
      <3>2. Len(ws) + Len(s.fifo) = e + WordsExpected + r
        BY <2>2, <2>6, <3>1
      <3>3. Len(ws) \in Nat /\ Len(s.fifo) \in Nat /\ Len(t.fifo) \in Nat
        BY <1>2, <1>3
      <3>4. Len(t.fifo) = e + r
        <4>1. Len(ws) + Len(s.fifo) = e + (Len(ws) + 1) + r
          BY <3>2
        <4>2. Len(s.fifo) = e + 1 + r
          BY ONLY <3>3, <4>1, e \in Nat, r \in Nat
        <4> QED
          BY ONLY <1>3, <3>3, <4>2, e \in Nat, r \in Nat
      <3> QED
        BY <3>1, <3>4
    <2>8. Len(qs) > 0 /\ Len(<<>>) + Len(t.fifo) = Before(Len(qs) - 1) + r
      <3>1. Len(qs) - 1 = n - 2 /\ Len(qs) > 0
        BY <1>5, <1>9, <2>4
      <3>2. Len(<<>>) + Len(t.fifo) = Len(t.fifo)
        BY <1>3, EmptyLine
      <3> QED
        BY <2>7, <3>1, <3>2
    <2>9. qs[Len(qs)] = ps[n]
      <3>1. Len(qs) \in 1 .. n - 1 /\ Len(qs) + 1 = n
        BY <1>5, <1>9, <2>4
      <3> QED
        BY <1>9, <3>1
    <2>10. Sampling(l, t, <<>>, qs, r, b)
      BY <1>1, <2>2, <2>8, <2>9 DEF Sampling
    <2> QED
      BY <2>10
  <1>13. Stream(l, t, <<>>, qs)
    BY <1>1, <1>8, <1>11, <1>12 DEF Stream
  <1> QED
    BY <1>7, <1>8, <1>13 DEF qs

LEMMA StreamEmpty == Stream(<<>>, Ready(Restarted), <<>>, <<>>)
  <1>1. Len(<<>>) = 0 /\ Before(0) = 0
    BY EmptyLine, Counted
  <1>2. /\ Restarted.chunk = <<>> /\ Restarted.left = FrameBits
        /\ Restarted.fifo = <<>>
    BY DEF Restarted
  <1>3. Ordered(<<>>, <<>>, <<>>)
    BY <1>1 DEF Ordered
  <1>4. Between(Restarted, <<>>, <<>>)
    BY <1>1, <1>2 DEF Between
  <1>5. Ready(Restarted) = Restarted
    BY <1>2 DEF Ready, Complete
  <1> QED
    BY <1>2, <1>3, <1>4, <1>5 DEF Stream

-----------------------------------------------------------------------------
LEMMA StreamInit == NodeInit => StreamInv /\ WholeFrames
  BY DEF NodeInit, StreamInv, WholeFrames, NotTaken

(* A step that takes no frame.                                             *)
LEMMA NoneTaken == ASSUME got' = NotTaken PROVE WholeFrames'
  BY DEF NotTaken, WholeFrames

(* Nothing was lost, so nothing changed for what is under way.             *)
LEMMA NothingLost ==
  ASSUME NEW b \in BOOLEAN, Losing(b), ~missed'
  PROVE  ~missed /\ ~b /\ pending' = pending
  BY DEF Losing

LEMMA StreamNext ==
  ASSUME NodeTyped, StreamInv, WholeFrames, [NodeNext]_nodeVars
  PROVE  StreamInv' /\ WholeFrames'
  <1>1. /\ armed /\ ~missed => Stream(line, Ready(sm), words, pending)
        /\ ~armed => sm = Restarted
    BY DEF StreamInv
  <1>2. /\ line \in Line /\ Program(sm) /\ words \in Seq(Line)
        /\ pending \in Seq(Marks) /\ Len(words) \in Nat /\ Len(words) < WordsExpected
        /\ armed \in BOOLEAN
    BY DEF NodeTyped
  <1>3. Ready(sm) \in Programs
    BY <1>2, ReadyTypes
  <1>4. ASSUME UNCHANGED <<line, sm, words, armed>>, got' = NotTaken,
               ~missed' => ~missed /\ pending' = pending
        PROVE  StreamInv' /\ WholeFrames'
    BY <1>1, <1>4, NoneTaken DEF StreamInv
  <1>5. ASSUME StartFrame
        PROVE  StreamInv' /\ WholeFrames'
    <2>1. PICK p \in Marks :
            /\ line' = Bits(p)
            /\ pending' = IF armed /\ ~missed THEN Append(pending, p) ELSE pending
      BY <1>5, MarksTold DEF StartFrame
    <2>2. /\ line = <<>> /\ got' = NotTaken
          /\ UNCHANGED <<sm, armed, words, missed>>
      BY <1>5 DEF StartFrame, node, Quiet
    <2>3. ASSUME armed', ~missed'
          PROVE  Stream(line', Ready(sm'), words', pending')
      <3>1. Stream(<<>>, Ready(sm), words, pending)
        BY <1>1, <2>2, <2>3
      <3>2. Stream(Bits(p), Ready(sm), words, Append(pending, p))
        BY <1>2, <1>3, <3>1, StreamFrame
      <3> QED
        BY <2>1, <2>2, <2>3, <3>2
    <2> QED
      BY <1>1, <2>2, <2>3, NoneTaken DEF StreamInv
  <1>6. ASSUME SendBit
        PROVE  StreamInv' /\ WholeFrames'
    <2>1. /\ line # <<>> /\ line' = Tail(line)
          /\ sm' = (IF armed THEN Sampled(sm, Head(line)) ELSE sm)
          /\ Losing(armed /\ Complete(sm)) /\ got' = NotTaken
          /\ UNCHANGED <<armed, words>>
      BY <1>6 DEF SendBit, node, Quiet
    <2>2. ASSUME armed', ~missed'
          PROVE  Stream(line', Ready(sm'), words', pending')
      <3>1. armed /\ ~missed /\ ~Complete(sm) /\ pending' = pending
        BY <2>1, <2>2 DEF Losing
      <3>2. Stream(line, Ready(sm), words, pending)
        BY <1>1, <3>1
      <3>3. Ready(sm) = sm /\ Ready(Sampled(sm, Head(line))) = Ready(Grown(sm, Head(line)))
        BY <3>1, BitTaken
      <3>4. Stream(Tail(line), Ready(Grown(sm, Head(line))), words, pending)
        BY <1>2, <1>3, <2>1, <3>2, <3>3, StreamBit
      <3> QED
        BY <2>1, <3>1, <3>3, <3>4
    <2> QED
      BY <1>1, <2>1, <2>2, NoneTaken DEF StreamInv
  <1>7. ASSUME Drain
        PROVE  StreamInv' /\ WholeFrames'
    <2> DEFINE word == Head(sm.fifo)
               frame == Append(words, word)
               v == Ready(sm)
               t == Ready(WordRead(sm))
    <2>1. /\ sm.fifo # <<>> /\ sm' = WordRead(sm) /\ Ingest(word)
          /\ line' = line /\ armed' = armed
      BY <1>7 DEF Drain
    <2>2. armed
      BY <1>1, <2>1 DEF Restarted
    <2>3. missed' = missed
      BY <2>1 DEF Ingest
    <2>4. sm.fifo \in Seq(Line)
      BY <1>2 DEF Program, Programs
    <2>5. word \in Line
      BY <2>1, <2>4, ReadWords
    <2>6. Len(frame) = Len(words) + 1
      BY <1>2, <2>5, TakenFrame
    <2>7. /\ t.chunk = v.chunk /\ t.left = v.left /\ t.fifo = Tail(v.fifo)
          /\ v.fifo # <<>> /\ Head(v.fifo) = word /\ v \in Programs
      BY <1>2, <1>3, <2>1, WordLeaves
    <2>8. ~missed => Stream(line, v, words, pending)
      BY <1>1, <2>2
    <2>9. CASE Len(frame) < WordsExpected
      <3>1. words' = frame /\ UNCHANGED pending /\ got' = NotTaken
        BY <2>1, <2>9 DEF Ingest, Quiet
      <3>2. ASSUME ~missed
            PROVE  Stream(line, t, frame, pending)
        <4> HIDE DEF t, v, word
        <4>1. Stream(line, t, Append(words, Head(v.fifo)), pending)
          BY <1>2, <2>7, <2>8, <3>2, StreamRead
        <4> QED
          BY <2>7, <4>1
      <3> HIDE DEF frame, word
      <3> QED
        BY <2>1, <2>2, <2>3, <3>1, <3>2, NoneTaken DEF StreamInv
    <2>10. CASE ~(Len(frame) < WordsExpected)
      <3>1. Len(words) + 1 = WordsExpected
        BY <1>2, <2>6, <2>10, Sizes
      <3>2. /\ words' = <<>>
            /\ got' = [taken |-> frame,
                       sent |-> IF pending = <<>> THEN <<>> ELSE Frame(Head(pending))]
            /\ pending' = IF pending = <<>> THEN <<>> ELSE Tail(pending)
        BY <2>1, <2>10 DEF Ingest
      <3>3. ASSUME ~missed
            PROVE  /\ pending # <<>> /\ frame = Frame(Head(pending))
                   /\ Stream(line, t, <<>>, Tail(pending))
        <4> HIDE DEF t, v, word
        <4>1. /\ pending # <<>> /\ Append(words, Head(v.fifo)) = Frame(Head(pending))
              /\ Stream(line, t, <<>>, Tail(pending))
          BY <1>2, <2>7, <2>8, <3>1, <3>3, StreamTaken
        <4> QED
          BY <2>7, <4>1
      <3>4. WholeFrames'
        BY <2>3, <3>2, <3>3 DEF WholeFrames
      <3>5. ~missed => Stream(line', Ready(sm'), words', pending')
        BY <2>1, <3>2, <3>3
      <3> HIDE DEF frame, word
      <3> QED
        BY <2>1, <2>2, <2>3, <3>4, <3>5 DEF StreamInv
    <2> QED
      BY <2>9, <2>10
  <1>8. ASSUME PollBegin
        PROVE  StreamInv' /\ WholeFrames'
    <2>1. /\ Losing(words' # words) /\ got' = NotTaken
          /\ UNCHANGED <<line, sm, armed>>
      BY <1>8 DEF PollBegin, Quiet
    <2>2. ~missed' => ~missed /\ words' = words /\ pending' = pending
      BY <2>1, NothingLost
    <2> QED
      BY <1>1, <2>1, <2>2, NoneTaken DEF StreamInv
  <1>9. ASSUME CheckSilence
        PROVE  StreamInv' /\ WholeFrames'
    <2>1. /\ Losing(words' # words) /\ got' = NotTaken
          /\ UNCHANGED <<line, sm, armed>>
      BY <1>9 DEF CheckSilence, Quiet
    <2>2. ~missed' => ~missed /\ words' = words /\ pending' = pending
      BY <2>1, NothingLost
    <2> QED
      BY <1>1, <2>1, <2>2, NoneTaken DEF StreamInv
  <1>10. ASSUME sm' = Restarted, words' = <<>>, Fresh, line' = line, got' = NotTaken
         PROVE  StreamInv' /\ WholeFrames'
    <2>1. ~missed' => line' = <<>> /\ pending' = <<>>
      BY <1>10 DEF Fresh
    <2> QED
      BY <1>10, <2>1, StreamEmpty, NoneTaken DEF StreamInv
  <1>11. ASSUME CheckScan \/ ArmNode \/ Disarm
         PROVE  StreamInv' /\ WholeFrames'
    BY <1>10, <1>11 DEF CheckScan, ArmNode, Disarm, Quiet
  <1>12. ASSUME Drained \/ CheckPassed \/ FrameRx \/ PulseIn \/ Expire
         PROVE  StreamInv' /\ WholeFrames'
    BY <1>4, <1>12
    DEF Drained, CheckPassed, FrameRx, PulseIn, Expire, lineVars, node, Quiet
  <1>13. ASSUME UNCHANGED nodeVars
         PROVE  StreamInv' /\ WholeFrames'
    BY <1>1, <1>13 DEF nodeVars, StreamInv, WholeFrames
  <1> QED
    BY <1>5, <1>6, <1>7, <1>8, <1>9, <1>11, <1>12, <1>13
    DEF NodeNext, Poll, Encoder, Command

(* For every length of frames and words, every depth of the FIFO and every *)
(* pace of the line and the poll: as long as no bit has gone by a program  *)
(* that waits for room, no poll or timeout has dropped words and the tap   *)
(* was armed between two frames, the receiver takes every frame whole and  *)
(* in the order sent (biss_tap_rx.pio, biss_node_io_poll_runtime).         *)
THEOREM NodeWholeFrames == NodeSpec => []WholeFrames
  <1>1. NodeTyped /\ StreamInv /\ WholeFrames /\ [NodeNext]_nodeVars
          => StreamInv' /\ WholeFrames'
    BY StreamNext
  <1>2. NodeInit => StreamInv /\ WholeFrames
    BY StreamInit
  <1>3. NodeSpec => []NodeTyped
    BY NodeKeepsTypes
  <1> QED
    BY <1>1, <1>2, <1>3, PTL DEF NodeSpec
===============================================================================
