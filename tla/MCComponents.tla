---------------------------- MODULE MCComponents ----------------------------
(***************************************************************************)
(* Components with a state of two handlers, one of one, and one of none,   *)
(* and the bytes that two bits make; and beside it the inputs of the pure  *)
(* functions: bytes with each bit set and clear, and temperatures around 0 *)
(* degrees, of which the highest sets a bit of either byte.  The functions *)
(* are recursive and work on words, which the modules that Components is   *)
(* made of do not.                                                         *)
(***************************************************************************)
EXTENDS Components

CONSTANTS TimeModulus, NumberMax, MaxLength, Bytes, Temperatures  \* Algorithms

VARIABLE input

ALG == INSTANCE Algorithms WITH Raws <- Temperatures

ASSUME MCAssumption == ALG!AlgorithmsAssumption

MCInit == Init /\ ALG!Init

MCNext ==
  \/ Next /\ UNCHANGED input
  \/ which = "algorithms" /\ ALG!Next /\ UNCHANGED vars

\* FairSpec, with an input to the functions when they are the part at work.
MCSpec == MCInit /\ [][MCNext]_<<vars, input>> /\ Fairness

\* The functions compute what they should, on every input: the interval, the
\* order of versions, the fields, the serial numbers, the pairs of a query,
\* the checksums, the temperatures from 0 degrees on, and the sizes read.
AlgorithmsAgree == ALG!AlgorithmsAgree

MCHandlerCount == <<2, 1, 0>>

MCByte(low, high) == [i \in 0 .. 1 |-> IF i = 0 THEN low ELSE high]
MCRomCodes == {MCByte(1, 0)}
MCCommand == [MatchRom |-> MCByte(1, 0), ReadRom |-> MCByte(0, 1),
              WriteScratchpad |-> MCByte(1, 1), ReadScratchpad |-> MCByte(0, 1)]

MCBytes == {0, 1, 128, 165, 255}
MCTemperatures == -24 .. 24 \cup {271, 2000}
=============================================================================
