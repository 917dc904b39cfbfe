------------------------------ MODULE OneWireBus ------------------------------
(***************************************************************************)
(* onewire/bus.cpp: calls that are made of time slots, slots of steps on   *)
(* one GPIO, every step of which may fail and end the call.  The device at *)
(* the other end tells a one from a zero by the time the line is held low, *)
(* and holds the line itself for the time of a zero it sends.  A byte is   *)
(* its Width bits, from the least significant one on; Algorithms has the   *)
(* conversions of the bytes that are numbers.                              *)
(***************************************************************************)
EXTENDS Naturals, Sequences, SequencesExt

CONSTANTS
  Width,     \* bits_in_byte_
  RomCodes,  \* bound: the codes of the devices that are addressed
  Command    \* the codes of RomCode::Command and Scratchpad::Command

Bits == 0 .. Width - 1
Values == [Bits -> {0, 1}]
Commands == {"MatchRom", "ReadRom", "WriteScratchpad", "ReadScratchpad"}

OneWireBusAssumption ==
  /\ Width \in Nat \ {0} /\ RomCodes \subseteq Values
  /\ Command \in [Commands -> Values]

VARIABLES
  guarded,    \* the call is made under an OperationGuard
  ops,        \* the operations the call has still to make
  n, pos,     \* the bit of the byte, and the step of its slot
  stretched,  \* a delay of this slot lasted too long
  byte,       \* the byte that read_byte() puts together
  result,     \* "none" before a call, "busy", "OK" or "Error"
  host,       \* the bytes the call has written and read so far (history)
  device,     \* the bytes the device has received and sent (history)
  word        \* the byte the device receives or sends

vars == <<guarded, ops, n, pos, stretched, byte, result, host, device, word>>

Operations == [kind : {"reset", "write", "read"}, byte : Values]

TypeOK ==
  /\ guarded \in BOOLEAN /\ stretched \in BOOLEAN
  /\ ops \in Seq(Operations) /\ n \in Bits /\ pos \in 1 .. 9
  /\ byte \in Values /\ word \in Values
  /\ result \in {"none", "busy", "OK", "Error"}
  /\ host \in Seq(Operations) /\ device \in Seq(Operations)

Zero == [i \in Bits |-> 0]

Op(kind, value) == [kind |-> kind, byte |-> value]
Reset == Op("reset", Zero)
Read == Op("read", Zero)
Write(value) == Op("write", value)

\* RomCode::match() and RomCode::read(), Scratchpad::write() and read(), with
\* one byte for each run of bytes.
Match(rom_code) == <<Reset, Write(Command["MatchRom"]), Write(rom_code)>>
ReadRom == <<Reset, Write(Command["ReadRom"]), Read>>
WriteScratchpad(rom_code, v) ==
  Match(rom_code) \o <<Write(Command["WriteScratchpad"]), Write(v)>>
ReadScratchpad(rom_code) ==
  Match(rom_code) \o <<Write(Command["ReadScratchpad"]), Read, Read>>

\* The steps of the slots.
ResetSlot == <<"output", "hold", "delay", "release", "delay", "input", "presence", "delay">>
WriteBitOne == <<"output", "hold", "delay short", "release", "delay", "delay">>
WriteBitZero == <<"output", "hold", "delay", "release", "delay">>
ReadBit == <<"output", "hold", "delay short", "release", "delay short", "input",
             "sample", "delay", "delay">>

Init ==
  /\ guarded = FALSE /\ ops = <<>> /\ n = 0 /\ pos = 1 /\ stretched = FALSE
  /\ byte = Zero /\ result = "none" /\ host = <<>> /\ device = <<>> /\ word = Zero

\* A call; one that failed is not gone on with, the next one begins anew.
Call(calls) ==
  /\ result # "busy"
  /\ ops' \in calls /\ result' = "busy" /\ guarded' \in BOOLEAN
  /\ n' = 0 /\ pos' = 1 /\ byte' = Zero /\ word' = Zero
  /\ stretched' = FALSE /\ host' = <<>> /\ device' = <<>>

\* Mutant of Bit: the most significant bit goes first.
BitReversed(value, i) == value[Width - 1 - i]

\* write_byte() and the device send the least significant bit first.
Bit(value, i) == value[i]

\* The value with its bit i set to b, as read_byte() does with its masks.
With(value, i, b) == [value EXCEPT ![i] = b]

Slot ==
  CASE Head(ops).kind = "reset" -> ResetSlot
    [] Head(ops).kind = "read" -> ReadBit
    [] OTHER -> IF Bit(Head(ops).byte, n) = 1 THEN WriteBitOne ELSE WriteBitZero

\* The line is released: a device that is written to takes the bit for a one
\* if it was held for a short time.
Release ==
  IF Head(ops).kind = "write"
  THEN word' = With(word, n, IF Slot = WriteBitOne /\ ~stretched THEN 1 ELSE 0)
  ELSE UNCHANGED word

\* gpio_.get() in read_bit(): a zero is seen for as long as the device holds
\* the line.
Sample == byte' = With(byte, n, IF stretched THEN 1 ELSE Bit(word, n))

\* The last step of a slot: the next bit, the next byte, or the end.
EndSlot ==
  /\ pos' = 1 /\ stretched' = FALSE
  /\ IF Head(ops).kind # "reset" /\ n < Width - 1
     THEN n' = n + 1 /\ UNCHANGED <<ops, host, device, word, byte, result>>
     ELSE /\ n' = 0 /\ ops' = Tail(ops) /\ byte' = Zero
          /\ word' \in IF Len(ops) > 1 /\ ops[2].kind = "read" THEN Values ELSE {Zero}
          /\ result' = IF Len(ops) = 1 THEN "OK" ELSE "busy"
          /\ IF Head(ops).kind = "reset" THEN UNCHANGED <<host, device>>
             ELSE /\ host' = Append(host,
                       IF Head(ops).kind = "read" THEN Op("read", byte) ELSE Head(ops))
                  /\ device' = Append(device, Op(Head(ops).kind, word))

\* A delay lasts at least as long as asked for; without the guard the task may
\* be interrupted, and a short one lasts longer than the device allows.
Delay(name) ==
  stretched' \in IF name = "delay short" /\ ~guarded THEN {stretched, TRUE} ELSE {stretched}

Step ==
  /\ result = "busy"
  /\ LET name == Slot[pos] IN
     IF pos = Len(Slot) THEN EndSlot
     ELSE /\ pos' = pos + 1 /\ Delay(name)
          /\ IF name = "release" THEN Release ELSE UNCHANGED word
          /\ IF name = "sample" THEN Sample ELSE UNCHANGED byte
          /\ UNCHANGED <<ops, n, host, device, result>>
  /\ UNCHANGED guarded

\* The GPIO or the delayer answers Error, or no device answers the reset: the
\* call ends at once, with the line as it is.
StepFails ==
  /\ result = "busy" /\ Slot[pos] # "sample"
  /\ result' = "Error"
  /\ UNCHANGED <<guarded, ops, n, pos, stretched, byte, host, device, word>>

Next ==
  \/ Call({ReadRom} \cup {ReadScratchpad(r) : r \in RomCodes}
          \cup {WriteScratchpad(r, v) : r \in RomCodes, v \in Values})
  \/ Step \/ StepFails

Spec == Init /\ [][Next]_vars

(***************************************************************************)
(* Properties                                                              *)
(***************************************************************************)

\* Under the guard, a call that did not fail has told the device and heard
\* from it, bit for bit and in order, what it says.  (Without the guard a
\* stretched delay turns a one into a zero on the way out and a zero into a
\* one on the way in, and the call answers OK: the checksums are what is left.)
BytesCarried == guarded /\ result # "Error" => host = device
=============================================================================
