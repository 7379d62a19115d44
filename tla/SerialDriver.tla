---------------------------- MODULE SerialDriver ----------------------------
(***************************************************************************)
(* The serial driver of kernel/serial.c, character by character: what      *)
(* Kernel.tla sees as a started transfer and its interrupts.  sys_call is  *)
(* reduced to what the driver sees of it: it ends an event, and it starts  *)
(* a transfer when none is pending (no request is ever queued: theorem     *)
(* NoQueuedRequest of Kernel_proofs).  The echo of serial_poll is left out.*)
(***************************************************************************)
EXTENDS Integers, Sequences, FiniteSets

CONSTANTS
  RingSize,     \* 20: the ring buffer, and the two limits of the input interrupt
  MaxLine,      \* max_length_buffer, the initial inputsize
  Letters,      \* characters that are stored as they are
  Erase,        \* a backspace or a delete
  Enter,        \* a carriage return or a newline
  Zero,         \* the character 0
  TypedAhead,   \* the characters that arrive while no line is polled
  WriteSizes,   \* the lengths of the texts written
  ReadSizes,    \* the lengths asked for by a read
  Slack,        \* bound: how far behind a text of one character a 0 is found
  MaxTransfers  \* bound: the transfers of a run

ASSUME SerialAssumption ==
  /\ RingSize \in Nat \ {0} /\ MaxLine \in Nat /\ Slack \in Nat \ {0}
  /\ WriteSizes \subseteq Nat \ {0} /\ ReadSizes \subseteq Nat \ {0}
  /\ TypedAhead \subseteq Letters \union {Erase, Enter}
  /\ MaxTransfers \in Nat

VARIABLES
  event_flag, status, inputsize, outputsize, buff_index,   \* fields of device1
  ring,         \* the ring buffer: its slots and its input, output and start index
  thre,         \* whether the interrupt of an empty transmitter is enabled
  started,      \* the number of transfers started
  wire,         \* what was sent: for each character its transfer, its index and
                \* the length of the text it was taken from
  asleep        \* history: the process of the last transfer still waits for it

dcb_vars == <<event_flag, status, inputsize, outputsize, buff_index, ring, thre>>
serial_vars == <<dcb_vars, started, wire, asleep>>

Send(transfer, index, size) ==
  wire' = Append(wire, [transfer |-> transfer, index |-> index, size |-> size])

\* create_dcb, in a block of fresh memory, and serial_open, which enables only
\* the interrupt of the receiver.
SerialInit ==
  /\ event_flag = 0 /\ status = "IDLE"
  /\ inputsize = MaxLine /\ outputsize = 0 /\ buff_index = 0
  /\ ring = [slots |-> [i \in 0..(RingSize - 1) |-> Zero],
             input |-> 0, output |-> RingSize - 1, start |-> 0]
  /\ thre = FALSE
  /\ started = 0 /\ wire = <<>> /\ asleep = FALSE

-----------------------------------------------------------------------------
\* sys_call, at an event: the transfer is over, whatever is left of it.
EndEvent ==
  /\ event_flag = 1
  /\ event_flag' = 0 /\ status' = "IDLE" /\ asleep' = FALSE
  /\ UNCHANGED <<inputsize, outputsize, buff_index, ring, thre, started, wire>>

\* io_scheduler, on an idle device: whatever it starts, it sets the event flag.
Start ==
  /\ event_flag = 0 /\ status = "IDLE" /\ started < MaxTransfers
  /\ started' = started + 1
  /\ asleep' = TRUE
  /\ event_flag' = 1

SerialWriteStaleIndex(len) ==   \* mutant: buff_index is not reset
  /\ Start
  /\ status' = "WRITE" /\ outputsize' = len /\ thre' = TRUE
  /\ Send(started', 0, len)
  /\ UNCHANGED <<inputsize, ring, buff_index>>

\* serial_write sends the first character and enables the interrupt.
SerialWrite(len) ==
  /\ Start
  /\ status' = "WRITE" /\ outputsize' = len /\ buff_index' = 1 /\ thre' = TRUE
  /\ Send(started', 0, len)
  /\ UNCHANGED <<inputsize, ring>>

(***************************************************************************)
(* read_from_ring copies from the INPUT index on, until the count is       *)
(* exhausted, the next slot ends a line or the start is met: the number of *)
(* slots it copies.                                                        *)
(***************************************************************************)
Copied(len) ==
  LET at(n) == (ring.input + n) % RingSize
      ends == {n \in 0..len : \/ n = len \/ ring.slots[at(n)] = Enter
                             \/ (n > 0 /\ at(n) = ring.start)}
  IN  CHOOSE n \in ends : \A k \in ends : n <= k

\* serial_read.  The line serial_poll waits for goes to the reader's buffer, and
\* read_from_ring then copies over it; neither is a state of the driver.
SerialRead(len) ==
  /\ Start
  /\ status' = "READ" /\ inputsize' = len
  /\ ring' = [ring EXCEPT !.input = (@ + Copied(len)) % RingSize]
  /\ UNCHANGED <<outputsize, buff_index, thre, wire>>

-----------------------------------------------------------------------------
EraseFromRing == [ring EXCEPT !.input = IF @ # ring.output THEN @ - 1 ELSE @]

AddLetterUnwrapped(c) ==   \* mutant: the input index is not taken modulo the size
  [ring EXCEPT !.slots[ring.input] = c, !.input = @ + 1]

\* add_byte_to_ring: the oldest character makes room for the newest.
AddLetter(c) ==
  LET next == (ring.input + 1) % RingSize
      wrap(i) == IF next = ring.start THEN (i + 1) % RingSize ELSE i
  IN  [ring EXCEPT !.slots[ring.input] = c, !.input = next,
                   !.start = wrap(@), !.output = wrap(@)]

\* serial_input_interrupt.  A character that arrives during a read is lost, and
\* may end the read; a line longer than the ring keeps everything out of it.
SerialInputInterrupt(c) ==
  \/ /\ status # "READ" /\ inputsize < RingSize
     /\ ring' = IF c = Erase THEN EraseFromRing ELSE AddLetter(c)
     /\ UNCHANGED <<event_flag, status, inputsize, outputsize, buff_index, thre>>
     /\ UNCHANGED <<started, wire, asleep>>
  \/ /\ status = "READ" /\ buff_index > RingSize
     /\ status' = "IO_IDLE" /\ event_flag' = 1
     /\ Send(started, 0, 1)   \* a newline, a text of its own
     /\ UNCHANGED <<inputsize, outputsize, buff_index, ring, thre, started, asleep>>

TextEndsPastCount(index) ==   \* mutant: one character more than the count
  IF index = outputsize + 1 \/ index = outputsize + Slack THEN {TRUE} ELSE BOOLEAN

\* Whether a text ends before this index: at its count, or at a 0.  A text of one
\* character is past its count at its first interrupt, and only a 0 ends it.
TextEnds(index) ==
  IF index = outputsize \/ index = outputsize + Slack THEN {TRUE} ELSE BOOLEAN

SerialOutputInterruptAnyStatus ==   \* mutant: the status is not looked at
  /\ thre
  /\ Send(started, buff_index, outputsize)
  /\ buff_index' = buff_index + 1
  /\ \E ends \in TextEnds(buff_index') :
       /\ event_flag' = IF ends THEN 1 ELSE event_flag
       /\ thre' = ~ends
  /\ UNCHANGED <<status, inputsize, outputsize, ring, started, asleep>>

\* serial_output_interrupt.
SerialOutputInterrupt ==
  /\ thre /\ status = "WRITE"
  /\ Send(started, buff_index, outputsize)
  /\ buff_index' = buff_index + 1
  /\ \E ends \in TextEnds(buff_index') :
       /\ event_flag' = IF ends THEN 1 ELSE event_flag
       /\ thre' = ~ends
  /\ UNCHANGED <<status, inputsize, outputsize, ring, started, asleep>>

SerialNext ==
  \/ EndEvent
  \/ \E len \in WriteSizes : SerialWrite(len)
  \/ \E len \in ReadSizes : SerialRead(len)
  \/ \E c \in TypedAhead : SerialInputInterrupt(c)
  \/ SerialOutputInterrupt

SerialSpec == SerialInit /\ [][SerialNext]_serial_vars

-----------------------------------------------------------------------------
\* The state of the device has its type.  The transmitter is never enabled
\* with an index that is 0, whose character serial_write has sent.
SerialTypeOK ==
  /\ event_flag \in {0, 1} /\ status \in {"IDLE", "READ", "WRITE", "IO_IDLE"}
  /\ inputsize \in ReadSizes \union {MaxLine} /\ outputsize \in WriteSizes \union {0}
  /\ buff_index \in Nat /\ (thre => buff_index > 0)
  /\ ring.slots \in [0..(RingSize - 1) -> Letters \union {Enter, Zero}]
  /\ thre \in BOOLEAN /\ asleep \in BOOLEAN

\* Every index of the ring lies in the ring, whatever arrives while nobody
\* reads: the code behind add_byte_to_ring's "If index is outside of size of
\* ring".
RingIndicesInRange ==
  {ring.input, ring.output, ring.start} \subseteq 0..(RingSize - 1)

\* What was sent of a transfer is a prefix of its text, each character once, in
\* order and none behind its count, however the interrupts and the ends of events
\* interleave (serial_write and serial_output_interrupt share buff_index).  A text
\* of one character is excepted from the last: serial_output_interrupt compares
\* with the count only what it has incremented, and sends on behind it.
SentPrefix ==
  \A k \in 1..Len(wire) :
    /\ wire[k].index = Cardinality({j \in 1..(k - 1) : wire[j].transfer = wire[k].transfer})
    /\ wire[k].size # 1 => wire[k].index < wire[k].size

\* Nothing is sent of a text once its writer has been woken, and may have
\* reused the buffer: a step that sends has a process that waits for it.
SentForSleeper == [][asleep']_wire
=============================================================================
