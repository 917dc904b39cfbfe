----------------------------- MODULE OneWireSearch -----------------------------
(***************************************************************************)
(* onewire/rom_code_scanner.cpp: the search for the ROM codes of the       *)
(* devices on a bus, called until it answers NoData, with a RomCode of its *)
(* own for each call (scan_rom_codes() and find_rom_code() of              *)
(* ds18b20_handler.cpp, and the tools).  A ROM code is its bits; the       *)
(* devices that are left are those that match the bits written so far.     *)
(***************************************************************************)
EXTENDS Naturals, Integers, Sequences, FiniteSets, FiniteSetsExt

CONSTANTS
  Width,        \* the bits of a ROM code
  MaxDevices    \* the most devices on the bus

OneWireAssumption == Width \in Nat \ {0} /\ MaxDevices \in Nat

Bits == 0 .. Width - 1
Codes == [Bits -> {0, 1}]

VARIABLES
  devices,            \* the ROM codes on the bus
  scan,               \* the call: "none" before any, "bits" in it, then "OK",
                      \* "NoData" or "Error"; "assert": it has stopped the
                      \* device
  left,               \* the devices that still answer
  position,           \* the bit the call is at
  rom_code,           \* the caller's RomCode
  finished_, prev_discrepancy_, curr_discrepancy_, conflict_count_,
  found               \* the ROM codes returned, oldest first (history)

scanner == <<finished_, prev_discrepancy_, curr_discrepancy_, conflict_count_>>
vars == <<devices, scan, left, position, rom_code, scanner, found>>

TypeOK ==
  /\ devices \subseteq Codes /\ left \subseteq devices
  /\ scan \in {"none", "bits", "OK", "NoData", "Error", "assert"}
  /\ position \in 0 .. Width /\ rom_code \in Codes
  /\ finished_ \in BOOLEAN
  /\ prev_discrepancy_ \in -1 .. Width - 1 /\ curr_discrepancy_ \in -1 .. Width - 1
  /\ conflict_count_ \in Nat /\ found \in Seq(Codes)

Zero == [i \in Bits |-> 0]

Init ==
  /\ devices = {} /\ scan = "none" /\ left = {} /\ position = 0 /\ rom_code = Zero
  /\ finished_ = FALSE /\ prev_discrepancy_ = -1 /\ curr_discrepancy_ = -1
  /\ conflict_count_ = 0 /\ found = <<>>

\* The application builds a scanner for the devices it finds connected, and
\* makes its first call; a bus without a device does not answer the reset.
Connect(D) ==
  /\ scan = "none" /\ devices = {}
  /\ devices' = D /\ left' = D
  /\ scan' = IF D = {} THEN "Error" ELSE "bits"
  /\ UNCHANGED <<position, rom_code, scanner, found>>

\* scan(), until it answers anything but OK.
Scan ==
  /\ scan = "OK"
  /\ IF finished_ THEN scan' = "NoData" /\ UNCHANGED <<left, position, rom_code>>
     ELSE /\ scan' = "bits" /\ left' = devices /\ position' = 0
          /\ rom_code' = Zero
  /\ UNCHANGED <<devices, scanner, found>>

\* A call to the bus fails, or the checksum does not match: the caller gives
\* up.
ScanFails ==
  /\ scan = "bits" /\ scan' = "Error"
  /\ UNCHANGED <<devices, left, position, rom_code, scanner, found>>

\* The bit is written, the devices that do not have it drop out, and the
\* last bit ends the call.
Write(bit) ==
  /\ rom_code' = [rom_code EXCEPT ![position] = bit]
  /\ left' = {d \in left : d[position] = bit}
  /\ position' = position + 1
  /\ UNCHANGED <<devices, finished_, found, scan>>

Answers(bit) == \E d \in left : d[position] = bit

Reading == scan = "bits" /\ position < Width

\* All the devices that are left have the same bit.
Agreed(bit) ==
  /\ Reading /\ Answers(bit) /\ ~Answers(1 - bit)
  /\ Write(bit)
  /\ UNCHANGED <<prev_discrepancy_, curr_discrepancy_, conflict_count_>>

Discrepancy == Reading /\ Answers(0) /\ Answers(1)

\* handle_discrepancy_(), its three cases.
TakeOne ==
  /\ Discrepancy /\ curr_discrepancy_ = position
  /\ IF position = 0
       THEN prev_discrepancy_' = 0 /\ curr_discrepancy_' = -1 /\ conflict_count_' = 0
       ELSE /\ conflict_count_ > 0
            /\ conflict_count_' = conflict_count_ - 1
            /\ curr_discrepancy_' = prev_discrepancy_
            /\ UNCHANGED prev_discrepancy_
  /\ Write(1)

\* Mutant of TakeZero: the discrepancy is not counted.
TakeZeroUncounted ==
  /\ Discrepancy /\ position > curr_discrepancy_
  /\ prev_discrepancy_' = IF prev_discrepancy_ < 0 THEN position ELSE curr_discrepancy_
  /\ curr_discrepancy_' = position
  /\ Write(0)
  /\ UNCHANGED conflict_count_

TakeZero ==
  /\ Discrepancy /\ position > curr_discrepancy_
  /\ prev_discrepancy_' = IF prev_discrepancy_ < 0 THEN position ELSE curr_discrepancy_
  /\ curr_discrepancy_' = position
  /\ conflict_count_' = conflict_count_ + 1
  /\ Write(0)

FollowPath ==
  /\ Discrepancy /\ position < curr_discrepancy_ /\ prev_discrepancy_ >= 0
  /\ prev_discrepancy_' = position
  /\ UNCHANGED <<curr_discrepancy_, conflict_count_>>
  /\ Write(rom_code[prev_discrepancy_])

\* The two assertions of handle_discrepancy_().
AssertionFails ==
  /\ Discrepancy
  /\ \/ curr_discrepancy_ = position /\ position # 0 /\ conflict_count_ = 0
     \/ position < curr_discrepancy_ /\ prev_discrepancy_ < 0
  /\ scan' = "assert"
  /\ UNCHANGED <<devices, left, position, rom_code, scanner, found>>

ScanOK ==
  /\ scan = "bits" /\ position = Width
  /\ scan' = "OK"
  /\ finished_' = (conflict_count_ = 0)
  /\ found' = Append(found, rom_code)
  /\ UNCHANGED <<devices, left, position, rom_code,
                 prev_discrepancy_, curr_discrepancy_, conflict_count_>>

\* The bound of a search: its calls that answered OK.
SearchBound == Len(found) <= MaxDevices

Step ==
  \/ Scan \/ ScanFails \/ ScanOK
  \/ \E bit \in {0, 1} : Agreed(bit)
  \/ TakeOne \/ TakeZero \/ FollowPath

Next ==
  \/ \E D \in UNION {kSubset(k, Codes) : k \in 0 .. MaxDevices} : Connect(D)
  \/ SearchBound /\ (Step \/ AssertionFails)

Spec == Init /\ [][Next]_vars

(***************************************************************************)
(* Properties                                                              *)
(***************************************************************************)

\* On a bus with at most two devices, a search returns every device once: none
\* twice, none that is not there, and all of them when it answers NoData, on
\* whichever bits the two differ.  (With more devices it does not.)
EachDeviceOnce == Cardinality(devices) <= 2 =>
  /\ scan # "assert"
  /\ \A i, j \in DOMAIN found : i # j => found[i] # found[j]
  /\ \A i \in DOMAIN found : found[i] \in devices
  /\ scan = "NoData" => Len(found) = Cardinality(devices)

\* The assertions of handle_discrepancy_() hold.
NoAssertionFails == scan # "assert"
=============================================================================
