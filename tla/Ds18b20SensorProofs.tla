-------------------------- MODULE Ds18b20SensorProofs --------------------------
(***************************************************************************)
(* Proofs, for any sensors, devices and resolutions: what the client was   *)
(* told is kept, and a device has the resolution of the sensor that        *)
(* configured it last.  If a commit does not fail, a sensor on the bus has *)
(* the configuration that is stored, and an erased sensor is off the bus.  *)
(***************************************************************************)
EXTENDS Ds18b20Sensor, TLAPS

(* What the function in hand has established before its next step: at boot *)
(* it writes what is stored; later the client has no answer yet; from the  *)
(* verification on the device is right, at the end the storage as well.    *)
JobInv ==
  /\ step \notin {"idle", "erase"} => want \in Configurations
  /\ step # "idle" /\ Booting =>
       /\ step \notin {"find", "store", "erase"}
       /\ want = stored[sensor]
  /\ step # "idle" /\ ~ Booting => answered[sensor] = Nothing
  /\ step \in {"read", "store", "assign"} =>
       scratchpad[want.rom_code] = want.resolution
  /\ step = "assign" => stored[sensor] = want

-------------------------------------------------------------------------------
(* A configuration names a device and a resolution. *)
LEMMA Fields ==
  ASSUME NEW c \in Configurations
  PROVE  c.rom_code \in RomCodes /\ c.resolution \in Resolutions
BY DEF Configurations

(* No configuration is taken for the lack of one. *)
LEMMA Distinct ==
  /\ Nothing \notin Sensors
  /\ Nothing \notin Configurations
  /\ Erased \notin Configurations
  /\ Nothing # Erased
BY NamesAssumption, AnswersAssumption

-------------------------------------------------------------------------------
(* The types are kept by every step. *)
LEMMA NextTypeOK == TypeOK /\ JobInv /\ [Next]_vars => TypeOK'
<1> SUFFICES ASSUME TypeOK, JobInv, [Next]_vars
             PROVE  TypeOK'
  OBVIOUS
<1> USE Distinct, Fields
<1>1. ASSUME NEW s \in Sensors, Add(s)
      PROVE  TypeOK'
  BY <1>1 DEF Add, TypeOK
<1>2. ASSUME NEW s \in Sensors, BeginErase(s)
      PROVE  TypeOK'
  BY <1>2 DEF BeginErase, Begin, TypeOK
<1>3. ASSUME NEW s \in Sensors, NEW c \in Configurations, BeginWrite(s, c)
      PROVE  TypeOK'
  BY <1>3 DEF BeginWrite, Begin, TypeOK
<1>4. CASE FindRomCode
  BY <1>4 DEF FindRomCode, Continue, Fail, End, TypeOK
<1>5. CASE WriteScratchpad
  BY <1>5 DEF WriteScratchpad, Continue, Fail, End, TypeOK, JobInv
<1>6. CASE VerifyScratchpad
  BY <1>6 DEF VerifyScratchpad, Continue, Fail, End, TypeOK
<1>7. CASE ReadStored
  BY <1>7 DEF ReadStored, Continue, Fail, End, TypeOK
<1>8. CASE WriteStored
  BY <1>8 DEF WriteStored, Continue, Fail, End, TypeOK, JobInv
<1>9. CASE Assign
  BY <1>9 DEF Assign, End, TypeOK, JobInv
<1>10. CASE Erase
  BY <1>10 DEF Erase, End, TypeOK
<1>11. CASE Restart
  BY <1>11 DEF Restart, Reset, TypeOK
<1>12. CASE PowerCycle
  BY <1>12 DEF PowerCycle, Reset, TypeOK
<1>13. CASE UNCHANGED vars
  BY <1>13 DEF vars, jobVars, TypeOK
<1>14. QED
  BY <1>1, <1>2, <1>3, <1>4, <1>5, <1>6, <1>7, <1>8, <1>9, <1>10, <1>11, <1>12, <1>13
  DEF Next

(* Every step of a function establishes what its next step relies on. *)
LEMMA NextJobInv == TypeOK /\ JobInv /\ [Next]_vars => JobInv'
<1> SUFFICES ASSUME TypeOK, JobInv, [Next]_vars
             PROVE  JobInv'
  OBVIOUS
<1> USE Distinct, Fields DEF Booting
<1>1. ASSUME NEW s \in Sensors, Add(s)
      PROVE  JobInv'
  BY <1>1 DEF Add, TypeOK, JobInv
<1>2. ASSUME NEW s \in Sensors, BeginErase(s)
      PROVE  JobInv'
  BY <1>2 DEF BeginErase, Begin, TypeOK, JobInv
<1>3. ASSUME NEW s \in Sensors, NEW c \in Configurations, BeginWrite(s, c)
      PROVE  JobInv'
  BY <1>3 DEF BeginWrite, Begin, TypeOK, JobInv
<1>4. CASE FindRomCode
  BY <1>4 DEF FindRomCode, Continue, Fail, End, TypeOK, JobInv
<1>5. CASE WriteScratchpad
  BY <1>5 DEF WriteScratchpad, Continue, Fail, End, TypeOK, JobInv
<1>6. CASE VerifyScratchpad
  BY <1>6 DEF VerifyScratchpad, Continue, Fail, End, TypeOK, JobInv
<1>7. CASE ReadStored
  BY <1>7 DEF ReadStored, Continue, Fail, End, TypeOK, JobInv
<1>8. CASE WriteStored
  BY <1>8 DEF WriteStored, Continue, Fail, End, TypeOK, JobInv
<1>9. CASE Assign
  BY <1>9 DEF Assign, End, JobInv
<1>10. CASE Erase
  BY <1>10 DEF Erase, End, JobInv
<1>11. CASE Restart
  BY <1>11 DEF Restart, Reset, JobInv
<1>12. CASE PowerCycle
  BY <1>12 DEF PowerCycle, Reset, JobInv
<1>13. CASE UNCHANGED vars
  BY <1>13 DEF vars, jobVars, JobInv
<1>14. QED
  BY <1>1, <1>2, <1>3, <1>4, <1>5, <1>6, <1>7, <1>8, <1>9, <1>10, <1>11, <1>12, <1>13
  DEF Next

(* The first state has types and no function in hand. *)
LEMMA InitInv == Init => TypeOK /\ JobInv
BY DEF Init, TypeOK, JobInv

(* The state of the function in hand is as JobInv says. *)
LEMMA JobTyping == Spec => [](TypeOK /\ JobInv)
<1>1. TypeOK /\ JobInv /\ [Next]_vars => (TypeOK /\ JobInv)'
  BY NextTypeOK, NextJobInv
<1>2. QED
  BY InitInv, <1>1, PTL DEF Spec

(* THEOREM for TypeOK: every variable stays in its type, and a function in *)
(* hand has its sensor. *)
THEOREM Typing == Spec => []TypeOK
BY JobTyping, PTL

-------------------------------------------------------------------------------
(* THEOREM for AnsweredIsKept: whatever fails, the client's last           *)
(* successful write is stored, and the sensor has it or is off the bus.    *)
THEOREM Kept == Spec => []AnsweredIsKept
<1>1. Init => AnsweredIsKept
  BY Distinct DEF Init, AnsweredIsKept
<1>2. TypeOK /\ JobInv /\ AnsweredIsKept /\ [Next]_vars => AnsweredIsKept'
  <2> SUFFICES ASSUME TypeOK, JobInv, AnsweredIsKept, [Next]_vars
               PROVE  AnsweredIsKept'
    OBVIOUS
  <2> USE Distinct DEF Booting
  <2>1. CASE UNCHANGED <<configuration, stored, answered>>
    BY <2>1 DEF AnsweredIsKept
  <2>2. ASSUME NEW s \in Sensors, NEW first, NEW c, Begin(s, first, c)
        PROVE  AnsweredIsKept'
    BY <2>2 DEF Begin, TypeOK, AnsweredIsKept
  <2>3. CASE WriteStored
    BY <2>3 DEF WriteStored, Continue, Fail, End, TypeOK, JobInv, AnsweredIsKept
  <2>4. CASE Assign
    BY <2>4 DEF Assign, End, TypeOK, JobInv, AnsweredIsKept
  <2>5. CASE Erase
    BY <2>5 DEF Erase, End, TypeOK, JobInv, AnsweredIsKept
  <2>6. CASE Reset
    BY <2>6 DEF Reset, AnsweredIsKept
  <2>7. CASE FindRomCode \/ WriteScratchpad \/ VerifyScratchpad \/ ReadStored
    BY <2>1, <2>7
    DEF FindRomCode, WriteScratchpad, VerifyScratchpad, ReadStored, Continue, Fail, End
  <2>8. ASSUME NEW s \in Sensors, Add(s)
        PROVE  AnsweredIsKept'
    BY <2>1, <2>8 DEF Add
  <2>9. QED
    BY <2>1, <2>2, <2>3, <2>4, <2>5, <2>6, <2>7, <2>8
    DEF Next, BeginWrite, BeginErase, Restart, PowerCycle, vars, jobVars
<1>3. QED
  BY <1>1, <1>2, JobTyping, PTL DEF Spec

(* THEOREM for ResolutionApplied: the device has the resolution of the     *)
(* sensor that configured it last, also when two sensors share it.         *)
THEOREM Applied == Spec => []ResolutionApplied
<1>1. Init => ResolutionApplied
  BY DEF Init, ResolutionApplied
<1>2. TypeOK /\ JobInv /\ ResolutionApplied /\ [Next]_vars => ResolutionApplied'
  <2> SUFFICES ASSUME TypeOK, JobInv, ResolutionApplied, [Next]_vars
               PROVE  ResolutionApplied'
    OBVIOUS
  <2> USE Distinct, Fields
  <2>1. CASE UNCHANGED <<configuration, scratchpad, applied>>
    BY <2>1 DEF ResolutionApplied
  <2>2. CASE WriteScratchpad
    BY <2>2 DEF WriteScratchpad, TypeOK, JobInv, ResolutionApplied
  <2>3. CASE Assign
    BY <2>3 DEF Assign, TypeOK, JobInv, ResolutionApplied
  <2>4. CASE Erase
    BY <2>4 DEF Erase, TypeOK, ResolutionApplied
  <2>5. CASE Restart \/ PowerCycle
    BY <2>5 DEF Restart, PowerCycle, Reset, TypeOK, ResolutionApplied
  <2>6. CASE FindRomCode \/ VerifyScratchpad \/ ReadStored \/ WriteStored
    BY <2>1, <2>6 DEF FindRomCode, VerifyScratchpad, ReadStored, WriteStored
  <2>7. ASSUME NEW s \in Sensors,
               Add(s) \/ BeginErase(s) \/ \E c \in Configurations : BeginWrite(s, c)
        PROVE  ResolutionApplied'
    BY <2>1, <2>7 DEF Add, BeginErase, BeginWrite, Begin
  <2>8. QED
    BY <2>1, <2>2, <2>3, <2>4, <2>5, <2>6, <2>7 DEF Next, vars, jobVars
<1>3. QED
  BY <1>1, <1>2, JobTyping, PTL DEF Spec

-------------------------------------------------------------------------------
(* ConfiguredIsStored and ErasedIsDeassigned are inductive together, if an *)
(* error of the storage means that nothing was changed.                    *)
LEMMA AgreementOfBoth ==
  ASSUME CommitFails = FALSE
  PROVE  Spec => [](ConfiguredIsStored /\ ErasedIsDeassigned)
<1> DEFINE Inv == ConfiguredIsStored /\ ErasedIsDeassigned
<1>1. Init => Inv
  BY Distinct DEF Init, ConfiguredIsStored, ErasedIsDeassigned
<1>2. TypeOK /\ JobInv /\ Inv /\ [Next]_vars => Inv'
  <2> SUFFICES ASSUME TypeOK, JobInv, Inv, [Next]_vars
               PROVE  Inv'
    OBVIOUS
  <2> USE Distinct DEF ConfiguredIsStored, ErasedIsDeassigned
  <2>1. ASSUME NEW s \in Sensors, Add(s)
        PROVE  Inv'
    BY <2>1 DEF Add
  <2>2. ASSUME NEW s \in Sensors, NEW first, NEW c, first # "assign", Begin(s, first, c)
        PROVE  Inv'
    BY <2>2 DEF Begin, TypeOK
  <2>3. CASE FindRomCode \/ WriteScratchpad \/ VerifyScratchpad
    BY <2>3 DEF FindRomCode, WriteScratchpad, VerifyScratchpad, Continue, Fail, End
  <2>4. CASE ReadStored
    BY <2>4 DEF ReadStored, Continue, Fail, End, TypeOK
  <2>5. CASE WriteStored
    <3>1. PICK outcome \in {"OK", "Error"} :
            /\ stored' = IF outcome = "Error" THEN stored
                         ELSE [stored EXCEPT ![sensor] = want]
            /\ IF outcome = "OK" THEN Continue("assign") ELSE Fail
      BY <2>5, CommitFails = FALSE DEF WriteStored, Outcomes
    <3>2. step = "store" /\ UNCHANGED <<configuration, scratchpad, applied>>
      BY <2>5 DEF WriteStored
    <3>3. QED
      BY <3>1, <3>2 DEF Continue, Fail, End, TypeOK, JobInv, Booting
  <2>6. CASE Assign
    BY <2>6 DEF Assign, End, TypeOK, JobInv
  <2>7. CASE Erase
    <3>1. PICK outcome \in {"OK", "Error"} :
            /\ stored' = IF outcome = "Error" THEN stored
                         ELSE [stored EXCEPT ![sensor] = Nothing]
            /\ configuration' = IF outcome = "OK" /\ stored[sensor] # Nothing
                                THEN [configuration EXCEPT ![sensor] = Nothing]
                                ELSE configuration
            /\ answered' = IF outcome = "OK"
                           THEN [answered EXCEPT ![sensor] = Erased] ELSE answered
      BY <2>7, CommitFails = FALSE DEF Erase, Outcomes
    <3>2. step = "erase" /\ End
      BY <2>7 DEF Erase
    <3>3. QED
      BY <3>1, <3>2 DEF End, TypeOK
  <2>8. CASE Reset
    BY <2>8 DEF Reset
  <2>9. CASE UNCHANGED vars
    BY <2>9 DEF vars, jobVars
  <2>10. QED
    BY <2>1, <2>2, <2>3, <2>4, <2>5, <2>6, <2>7, <2>8, <2>9
    DEF Next, BeginWrite, BeginErase, Restart, PowerCycle
<1>3. QED
  BY <1>1, <1>2, JobTyping, PTL DEF Spec

(* If an error of the storage means that nothing was changed, a sensor on  *)
(* the bus has the configuration of the storage.                           *)
THEOREM Agreement ==
  ASSUME CommitFails = FALSE
  PROVE  Spec => []ConfiguredIsStored
BY AgreementOfBoth, CommitFails = FALSE, PTL

(* Under the same condition, a client that was told "erased" finds the     *)
(* configuration neither in the storage nor in the sensor.                 *)
THEOREM Erasure ==
  ASSUME CommitFails = FALSE
  PROVE  Spec => []ErasedIsDeassigned
BY AgreementOfBoth, CommitFails = FALSE, PTL
=============================================================================
