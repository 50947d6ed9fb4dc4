------------------------------- MODULE BissNode -------------------------------
(***************************************************************************)
(* The BiSS tap: an encoder sends frames of bits, a PIO program samples    *)
(* them and pushes words into a FIFO (biss_tap_rx.pio), and the runtime    *)
(* sample of the trigger service polls the FIFO, joins words into frames,  *)
(* watches for silence and fires a pulse when the position passes the      *)
(* target (biss_node_io.c).                                                *)
(*                                                                         *)
(* A bit is the mark of its frame and its place there.  The position in a  *)
(* frame is a choice when it is taken, and so is the outcome of anchor,    *)
(* CRC and status gate.  Time is one bit: has the timeout elapsed since    *)
(* the last frame?  The pulse output and the counters are left out.        *)
(***************************************************************************)
EXTENDS Naturals, Sequences

CONSTANTS Modulo, Target,       \* biss_position_modulo, biss_target
          Marks,                \* what tells the frames sent apart
          FrameBits, WordBits,  \* bits of a frame, of a FIFO word
          FifoDepth,
          First, Start, End, Step,  \* sample delay, and the range of its scan
          InFlight    \* bound on the frames sent and not yet taken

(* A position of Modulo or more does not count: one such value stands for  *)
(* them all.                                                               *)
Positions == 0 .. Modulo
WordsExpected == (FrameBits + WordBits - 1) \div WordBits
Delays == {First} \cup Start .. End

ASSUME BissAssumption ==
  /\ Modulo \in Nat \ {0} /\ Target \in 1 .. Modulo - 1
  /\ Marks # {}
  /\ FrameBits \in Nat \ {0} /\ WordBits \in Nat \ {0}
  /\ FifoDepth \in Nat \ {0} /\ InFlight \in Nat \ {0}
  /\ First \in Nat /\ Start \in Nat /\ End \in Nat /\ Start <= End
  /\ Step \in Nat \ {0}

VARIABLES line,      \* the bits of the frame under way still to be sent
          sm,        \* the PIO program: chunk, bits left, and its FIFO
          armed,     \* state BISS_ARMED
          stage,     \* of the poll: "rest", "drain", "check"
          words,     \* the frame assembler
          overdue,   \* has the timeout elapsed since last_frame_ms?
          latched,   \* timeout_latched
          scan,      \* biss_sample_scan_enabled
          delay,     \* biss_active_sample_delay_cycles
          last,      \* biss_last_position
          out,       \* what the last step did with a frame
          pending,   \* history: frames sent since arming, not yet taken
          missed,    \* history: did the receiver miss anything since arming?
          got        \* history: the frame the last step took, and the one sent

lineVars == <<line, pending, missed>>
node == <<words, overdue, latched, delay>>
nodeVars == <<line, sm, armed, stage, words, overdue, latched, scan, delay,
          last, out, pending, missed, got>>

Bits(m) == [i \in 1 .. FrameBits |-> <<m, i>>]
Word(m, w) == SubSeq(Bits(m), (w - 1) * WordBits + 1,
                     IF w = WordsExpected THEN FrameBits ELSE w * WordBits)
Frame(m) == [w \in 1 .. WordsExpected |-> Word(m, w)]

Nothing == [outcome |-> "none", fired |-> FALSE]
NotTaken == [taken |-> <<>>, sent |-> <<>>]
Quiet == out' = Nothing /\ got' = NotTaken

(* History: if something is lost here, it is no more told what comes next. *)
Losing(something) ==
  /\ missed' = (missed \/ something)
  /\ pending' = IF missed' THEN <<>> ELSE pending

(* History: the receiver starts again, in the middle of a frame or not.    *)
Fresh == missed' = (line # <<>>) /\ pending' = <<>>
-----------------------------------------------------------------------------
(* biss_tap_rx.pio.  A full chunk is pushed; "push block" waits for room   *)
(* in the FIFO, and bits go by meanwhile.                                  *)
Restarted == [chunk |-> <<>>, left |-> FrameBits, fifo |-> <<>>]

Complete(s) == s.chunk # <<>> /\ (s.left = 0 \/ Len(s.chunk) = WordBits)

Pushed(s) ==
  IF Complete(s) /\ Len(s.fifo) < FifoDepth
  THEN [chunk |-> <<>>,
        left |-> IF s.left = 0 THEN FrameBits ELSE s.left,
        fifo |-> Append(s.fifo, s.chunk)]
  ELSE s

(* A mutant: the frame counter is not reloaded at the end of a frame.      *)
SampledOn(s, bit) ==
  IF Complete(s) THEN s
  ELSE Pushed([s EXCEPT !.chunk = Append(@, bit),
                        !.left = IF @ = 1 THEN WordBits ELSE @ - 1])

Sampled(s, bit) ==
  IF Complete(s) THEN s
  ELSE Pushed([s EXCEPT !.chunk = Append(@, bit), !.left = @ - 1])

(* sync_io_biss_tap_read_frame_word.                                       *)
WordRead(s) == Pushed([s EXCEPT !.fifo = Tail(@)])

(* The encoder sends a frame whenever it likes.  Once something was missed *)
(* the marks tell nothing any more.                                        *)
Told == IF missed THEN {CHOOSE m \in Marks : TRUE} ELSE Marks

StartFrame ==
  /\ line = <<>>
  /\ Len(pending) < InFlight
  /\ \E m \in Told :
       /\ line' = Bits(m)
       /\ pending' = IF armed /\ ~missed THEN Append(pending, m) ELSE pending
  /\ Quiet
  /\ UNCHANGED <<sm, armed, stage, node, scan, last, missed>>

(* A bit goes by the program that waits for room.                          *)
SendBit ==
  /\ line # <<>>
  /\ line' = Tail(line)
  /\ sm' = IF armed THEN Sampled(sm, Head(line)) ELSE sm
  /\ Losing(armed /\ Complete(sm))
  /\ Quiet
  /\ UNCHANGED <<armed, stage, node, scan, last>>
-----------------------------------------------------------------------------
(* Mutants: the arc without its end, and with its beginning.               *)
CrossedBefore(from, to) ==
  /\ from < Modulo /\ to < Modulo /\ from # to
  /\ IF from < to THEN from < Target /\ Target < to
                  ELSE Target > from \/ Target < to

(* biss_crossed_position.                                                  *)
Crossed(from, to) ==
  /\ from < Modulo /\ to < Modulo /\ from # to
  /\ IF from < to THEN from < Target /\ Target <= to
                  ELSE Target > from \/ Target <= to

(* biss_node_io_commit_position.                                           *)
Commit(p) ==
  /\ last' = p
  /\ out' = [outcome |-> "good", fired |-> Crossed(last, p)]

(* biss_node_io_process_frame: an anchor or CRC error drops the frame, a   *)
(* status bit may keep it from firing.                                     *)
ProcessFrame(p) ==
  \/ Commit(p)
  \/ last' = p /\ out' = [outcome |-> "gated", fired |-> FALSE]
  \/ last' = last /\ out' = [outcome |-> "bad", fired |-> FALSE]

(* biss_node_io_ingest_word.                                               *)
Ingest(word) ==
  LET frame == Append(words, word) IN
  IF Len(frame) < WordsExpected
  THEN words' = frame /\ Quiet /\ UNCHANGED <<overdue, latched, last, pending, missed>>
  ELSE /\ words' = <<>>
       /\ overdue' = FALSE /\ latched' = FALSE
       /\ \E p \in Positions : ProcessFrame(p)
       /\ got' = [taken |-> frame,
                  sent |-> IF pending = <<>> THEN <<>> ELSE Frame(Head(pending))]
       /\ pending' = IF pending = <<>> THEN <<>> ELSE Tail(pending)
       /\ UNCHANGED missed
-----------------------------------------------------------------------------
(* biss_node_io_poll_runtime: the FIFO was full, so words may be missing.  *)
PollBegin ==
  /\ armed /\ stage = "rest"
  /\ stage' = "drain"
  /\ words' = IF Len(sm.fifo) = FifoDepth THEN <<>> ELSE words
  /\ Losing(words' # words)
  /\ Quiet
  /\ UNCHANGED <<line, sm, armed, overdue, latched, scan, delay, last>>

Drain ==
  /\ stage = "drain" /\ sm.fifo # <<>>
  /\ sm' = WordRead(sm)
  /\ Ingest(Head(sm.fifo))
  /\ UNCHANGED <<line, armed, stage, scan, delay>>

Drained ==
  /\ stage = "drain" /\ sm.fifo = <<>>
  /\ stage' = "check"
  /\ Quiet
  /\ UNCHANGED <<lineVars, sm, armed, node, scan, last>>

(* A mutant: the scan ends at its end.                                     *)
NextSampleDelayLast(d) == IF d + Step > End THEN End ELSE d + Step

NextSampleDelay(d) == IF d + Step > End \/ d + Step < Start THEN Start ELSE d + Step

(* A mutant: only a frame under way can time out.                          *)
TimedOutInFrame == overdue /\ ~latched /\ words # <<>>

TimedOut == overdue /\ ~latched

(* biss_node_io_check_timeout without a timeout.                           *)
CheckPassed ==
  /\ stage = "check" /\ ~TimedOut
  /\ stage' = "rest"
  /\ Quiet
  /\ UNCHANGED <<lineVars, sm, armed, node, scan, last>>

(* A timeout is counted once and the frame assembler starts again.         *)
CheckSilence ==
  /\ stage = "check" /\ TimedOut /\ ~scan
  /\ stage' = "rest"
  /\ words' = <<>>
  /\ latched' = TRUE /\ overdue' = FALSE
  /\ Losing(words' # words)
  /\ Quiet
  /\ UNCHANGED <<line, sm, armed, scan, delay, last>>

(* With the scan on, fb_biss_apply_sample_scan_step arms the tap again     *)
(* with the next delay.                                                    *)
CheckScan ==
  /\ stage = "check" /\ TimedOut /\ scan
  /\ stage' = "rest"
  /\ words' = <<>>
  /\ delay' = NextSampleDelay(delay)
  /\ latched' = FALSE /\ overdue' = FALSE
  /\ sm' = Restarted
  /\ Fresh
  /\ Quiet
  /\ UNCHANGED <<line, armed, scan, last>>

(* Time passes without a frame.                                            *)
Expire ==
  /\ armed /\ ~overdue
  /\ overdue' = TRUE
  /\ Quiet
  /\ UNCHANGED <<lineVars, sm, armed, stage, words, latched, scan, delay, last>>
-----------------------------------------------------------------------------
(* biss_node_io_arm: everything starts again, but not the last position.   *)
ArmNode ==
  /\ ~armed
  /\ armed' = TRUE
  /\ scan' \in BOOLEAN
  /\ sm' = Restarted
  /\ words' = <<>> /\ overdue' = FALSE /\ latched' = FALSE
  /\ delay' = First
  /\ Fresh
  /\ Quiet
  /\ UNCHANGED <<line, stage, last>>

Disarm ==
  /\ armed /\ stage = "rest"
  /\ armed' = FALSE
  /\ sm' = Restarted
  /\ words' = <<>> /\ overdue' = FALSE /\ latched' = FALSE
  /\ Fresh
  /\ Quiet
  /\ UNCHANGED <<line, stage, scan, delay, last>>

(* The software frame of a command: fb_biss_armed_frame_rx.                *)
FrameRx ==
  /\ armed /\ stage = "rest"
  /\ \E p \in Positions : Commit(p)
  /\ got' = NotTaken
  /\ UNCHANGED <<lineVars, sm, armed, stage, node, scan>>

(* fb_biss_armed_pulse_in sets the last position to the pulse count.       *)
PulseIn ==
  /\ armed /\ stage = "rest"
  /\ last' \in Positions
  /\ Quiet
  /\ UNCHANGED <<lineVars, sm, armed, stage, node, scan>>
-----------------------------------------------------------------------------
NodeInit ==
  /\ line = <<>> /\ sm = Restarted
  /\ armed = FALSE /\ stage = "rest"
  /\ words = <<>> /\ overdue = FALSE /\ latched = FALSE
  /\ scan = FALSE /\ delay = First
  /\ last = 0 /\ out = Nothing
  /\ pending = <<>> /\ missed = FALSE /\ got = NotTaken

Poll == PollBegin \/ Drain \/ Drained \/ CheckPassed \/ CheckSilence \/ CheckScan
Encoder == StartFrame \/ SendBit
Command == ArmNode \/ Disarm \/ FrameRx \/ PulseIn

NodeNext == Poll \/ Encoder \/ Command \/ Expire

(* The trigger service is called over and over, and time passes.           *)
NodeSpec == NodeInit /\ [][NodeNext]_nodeVars /\ WF_nodeVars(Poll) /\ WF_nodeVars(Expire)
-----------------------------------------------------------------------------
NodeTypes ==
  /\ line \in Seq(Marks \X (1 .. FrameBits)) /\ Len(line) <= FrameBits
  /\ Len(sm.fifo) <= FifoDepth /\ Len(sm.chunk) <= WordBits
  /\ sm.left \in 0 .. FrameBits
  /\ stage \in {"rest", "drain", "check"}
  /\ Len(words) < WordsExpected
  /\ armed \in BOOLEAN /\ overdue \in BOOLEAN /\ latched \in BOOLEAN
  /\ scan \in BOOLEAN /\ delay \in Delays
  /\ last \in Positions

(* Every frame the node takes is the next frame sent: the assembler never  *)
(* joins words of two frames, drops one or takes one twice, until it has   *)
(* missed something, and that happens in four ways only: a bit goes by the *)
(* program while it waits for room, a poll that finds the FIFO full drops  *)
(* the words it holds, a timeout drops them, or the tap is armed again in  *)
(* the middle of a frame.                                                  *)
WholeFrames == ~missed => got.taken = got.sent

(* The positions the encoder passes from one position to the next, going   *)
(* forward and around.                                                     *)
Arc(from, to) ==
  {(from + k) % Modulo : k \in 1 .. (to + Modulo - from) % Modulo}

(* A good frame fires exactly when the target lies on the way from the     *)
(* position before; no other step fires.  Ways that follow each other do   *)
(* not overlap, so that a target passed fires once.                        *)
PulseOnPassing ==
  [][/\ out'.outcome = "good" =>
          (out'.fired <=> /\ last < Modulo /\ last' < Modulo
                          /\ Target \in Arc(last, last'))
     /\ out'.outcome # "good" => ~out'.fired]_nodeVars

ForeverSilent == <>[](armed /\ line = <<>>)

(* Without the scan a silence is noticed and stays noticed.                *)
SilenceNoticed == ForeverSilent /\ <>[]~scan => <>[]latched

(* With the scan on, every delay of the range is tried again and again     *)
(* as long as no frame comes.                                              *)
ScanTriesAll ==
  ForeverSilent /\ <>[]scan =>
    \A k \in 0 .. (End - Start) \div Step : []<>(delay = Start + k * Step)
=============================================================================
