----------------------- MODULE PersistentCountersProofs -----------------------
(***************************************************************************)
(* Proofs, for every resolution, save interval and length of the run: the  *)
(* lifetime is never ahead of the time with power on, it is behind by no   *)
(* more than the cuts and failures account for, and the uptime does not    *)
(* reach back over a loss of power in service.                             *)
(***************************************************************************)
EXTENDS PersistentCounters, TLAPS

Booting == phase \in {"read_uptime", "erase_uptime", "read_lifetime"}

(* What the next boot will read as the lifetime. *)
Kept == IF stored["lifetime"] = NoData THEN 0 ELSE stored["lifetime"]

(* The clock of a boot, and the period of the save task. *)
ClockInv ==
  /\ Booting => now = 0
  /\ now <= total
  /\ save_ts # NoData => save_ts <= now /\ now - save_ts <= SaveInterval
  /\ save_ts = NoData => now = 0

AheadInv ==
  /\ value["lifetime"] * Resolution <= total - now
  /\ stored["lifetime"] * Resolution <= total

(* The intervals without a good save, and the one that is running. *)
Unsaved ==
  misses * SaveInterval + Resolution - 1
    + (IF save_ts = NoData THEN 0 ELSE now - save_ts)

LossInv ==
  /\ Booting => total - Kept * Resolution <= excused
  /\ InService =>
       /\ total - now - value["lifetime"] * Resolution <= excused
       /\ total - Kept * Resolution <= excused + now
       /\ total - Kept * Resolution <= excused + Unsaved
  /\ phase = "restart" =>
       /\ total - Kept * Resolution <= excused + now
       /\ total - Kept * Resolution <= excused + misses * SaveInterval + Resolution - 1
  /\ phase = "off" => total - Kept * Resolution <= excused

(* The uptime is in the storage only from the reboot handler until the     *)
(* next boot has read it, so a cut in service finds nothing to keep.       *)
UptimeInv ==
  /\ served_cut <= total
  /\ stored["uptime"] * Resolution <= total - served_cut
  /\ phase # "off" => value["uptime"] * Resolution <= total - now - served_cut
  /\ phase \in {"read_lifetime", "run", "save_uptime"} => stored["uptime"] = NoData

-------------------------------------------------------------------------------
(* Division rounds down by less than a unit. *)
LEMMA Rounding ==
  ASSUME NEW n \in Nat
  PROVE  /\ n \div Resolution \in Nat
         /\ (n \div Resolution) * Resolution <= n
         /\ n < (n \div Resolution) * Resolution + Resolution
BY ResolutionAssumption

(* Units and intervals add up. *)
LEMMA Distributes ==
  ASSUME NEW a \in Int, NEW b \in Int, NEW d \in Int
  PROVE  (a + b) * d = a * d + b * d
OBVIOUS

(* The counter is what was restored and what was counted since boot, with  *)
(* the running unit left out.                                              *)
LEMMA GetBounds ==
  ASSUME TypeOK, NEW k \in Counters
  PROVE  /\ Get(k) \in Nat
         /\ value[k] * Resolution <= Get(k) * Resolution
         /\ Get(k) * Resolution <= value[k] * Resolution + now
         /\ value[k] * Resolution + now < Get(k) * Resolution + Resolution
<1>1. now \in Nat /\ value[k] \in Nat
  BY DEF TypeOK
<1>2. /\ now \div Resolution \in Nat
      /\ (now \div Resolution) * Resolution <= now
      /\ now < (now \div Resolution) * Resolution + Resolution
  BY <1>1, Rounding
<1>3. Get(k) * Resolution = value[k] * Resolution + (now \div Resolution) * Resolution
  <2>1. \A v, d \in Nat : (v + d) * Resolution = v * Resolution + d * Resolution
    BY Distributes, ResolutionAssumption
  <2>2. (value[k] + now \div Resolution) * Resolution
          = value[k] * Resolution + (now \div Resolution) * Resolution
    BY <1>1, <1>2, <2>1, Zenon
  <2>3. QED
    BY <2>2, Zenon DEF Get
<1>4. value[k] * Resolution \in Int /\ (now \div Resolution) * Resolution \in Int
  BY <1>1, <1>2, ResolutionAssumption
<1>5. (now \div Resolution) * Resolution >= 0
  BY <1>2, ResolutionAssumption
<1>6. QED
  BY <1>1, <1>2, <1>3, <1>4, <1>5, ResolutionAssumption DEF Get

(* The assumptions on the constants. *)
LEMMA ConstantsType ==
  /\ Resolution \in Nat \ {0}
  /\ SaveInterval \in Nat \ {0}
  /\ ErasesFail \in BOOLEAN
  /\ MaxTime \in Nat
BY ResolutionAssumption, SaveIntervalAssumption, ErasesFailAssumption, MaxTimeAssumption

-------------------------------------------------------------------------------
(* The clocks and counters have their types. *)
LEMMA NextTypeOK == TypeOK /\ [Next]_vars => TypeOK'
<1> SUFFICES ASSUME TypeOK, [Next]_vars
             PROVE  TypeOK'
  OBVIOUS
<1> USE ConstantsType
<1>1. \A k \in Counters : Get(k) \in Nat
  BY GetBounds
<1>2. ASSUME NEW intervals \in Nat, Excuse(intervals)
      PROVE  excused' \in Nat
  BY <1>2 DEF Excuse, TypeOK
<1>3. CASE BootUptime
  BY <1>3 DEF BootUptime, ReadStored, ReadFails, TypeOK, Phases, Counters
<1>4. CASE BootErase
  BY <1>4 DEF BootErase, historyVars, TypeOK, Phases, Counters
<1>5. CASE BootLifetime
  BY <1>5 DEF BootLifetime, ReadStored, ReadFails, TypeOK, Phases, Counters
<1>6. CASE Run
  BY <1>1, <1>6 DEF Run, SaveCounter, TypeOK, Counters
<1>7. CASE Reboot
  BY <1>7 DEF Reboot, historyVars, TypeOK, Phases
<1>8. CASE HandleRebootUptime
  BY <1>1, <1>8 DEF HandleRebootUptime, SaveCounter, TypeOK, Phases, Counters
<1>9. CASE HandleRebootLifetime
  BY <1>1, <1>9 DEF HandleRebootLifetime, SaveCounter, TypeOK, Phases, Counters
<1>10. CASE Tick
  BY <1>10 DEF Tick, TypeOK
<1>11. CASE PowerLoss
  BY <1>2, <1>11 DEF PowerLoss, TypeOK, Phases
<1>12. CASE Boot
  BY <1>2, <1>12 DEF Boot, TypeOK, Phases
<1>13. CASE UNCHANGED vars
  BY <1>13 DEF vars, historyVars, TypeOK
<1>14. QED
  BY <1>3, <1>4, <1>5, <1>6, <1>7, <1>8, <1>9, <1>10, <1>11, <1>12, <1>13 DEF Next

(* THEOREM for TypeOK: every variable stays in its type. *)
THEOREM Typing == Spec => []TypeOK
<1>1. Init => TypeOK
  BY DEF Init, TypeOK, Phases, Counters, NoData
<1>2. QED
  BY <1>1, NextTypeOK, PTL DEF Spec

-------------------------------------------------------------------------------
(* A boot starts its clock at zero in the constructors, and a due save is  *)
(* not put off. *)
LEMMA NextClockInv == TypeOK /\ ClockInv /\ [Next]_vars => ClockInv'
<1> SUFFICES ASSUME TypeOK, ClockInv, [Next]_vars
             PROVE  ClockInv'
  OBVIOUS
<1> USE ConstantsType DEF TypeOK, ClockInv, Booting, NoData
<1>1. CASE BootUptime \/ BootErase \/ BootLifetime
  BY <1>1 DEF BootUptime, BootErase, BootLifetime, historyVars
<1>2. CASE Run
  BY <1>2 DEF Run
<1>3. CASE Reboot \/ HandleRebootUptime
  BY <1>3 DEF Reboot, HandleRebootUptime, SaveCounter, historyVars
<1>4. CASE HandleRebootLifetime
  BY <1>4 DEF HandleRebootLifetime
<1>5. CASE Tick
  BY <1>5 DEF Tick, InService, SaveDue
<1>6. CASE PowerLoss \/ Boot
  BY <1>6 DEF PowerLoss, Boot
<1>7. CASE UNCHANGED vars
  BY <1>7 DEF vars, historyVars
<1>8. QED
  BY <1>1, <1>2, <1>3, <1>4, <1>5, <1>6, <1>7 DEF Next

-------------------------------------------------------------------------------
(* What is stored or restored was counted before: a save stores at most    *)
(* the restored value and the time of this boot. *)
LEMMA NextAheadInv ==
  TypeOK /\ ClockInv /\ AheadInv /\ [Next]_vars => AheadInv'
<1> SUFFICES ASSUME TypeOK, ClockInv, AheadInv, [Next]_vars
             PROVE  AheadInv'
  OBVIOUS
<1> USE ConstantsType DEF AheadInv, NoData
<1>1. /\ Get("lifetime") \in Nat
      /\ Get("lifetime") * Resolution <= value["lifetime"] * Resolution + now
  BY GetBounds DEF Counters
<1>2. now \in Nat /\ total \in Nat /\ now <= total
  BY DEF TypeOK, ClockInv
<1>3. value["lifetime"] * Resolution \in Int /\ Get("lifetime") * Resolution \in Int
  BY <1>1 DEF TypeOK, Counters
<1>4. ASSUME NEW k \in Counters, SaveCounter(k)
      PROVE  stored'["lifetime"] * Resolution <= total
  <2>1. CASE stored'["lifetime"] = Get("lifetime")
    BY <1>1, <1>2, <1>3, <2>1
  <2>2. CASE stored'["lifetime"] = stored["lifetime"]
    BY <2>2
  <2>3. QED
    BY <1>4, <2>1, <2>2 DEF SaveCounter, TypeOK, Counters
<1>5. CASE BootUptime
  BY <1>5 DEF BootUptime, ReadStored, ReadFails, TypeOK, Counters
<1>6. CASE BootErase
  BY <1>6 DEF BootErase, historyVars, TypeOK, Counters
<1>7. CASE BootLifetime
  BY <1>2, <1>7 DEF BootLifetime, ReadStored, ReadFails, TypeOK, ClockInv, Booting,
      Counters
<1>8. CASE Run \/ HandleRebootUptime \/ HandleRebootLifetime
  BY <1>4, <1>8 DEF Run, HandleRebootUptime, HandleRebootLifetime, Counters
<1>9. CASE Reboot
  BY <1>9 DEF Reboot, historyVars
<1>10. CASE Tick
  BY <1>2, <1>3, <1>10 DEF Tick, TypeOK, Counters
<1>11. CASE PowerLoss
  BY <1>11 DEF PowerLoss
<1>12. CASE Boot
  BY <1>12 DEF Boot, TypeOK, Counters
<1>13. CASE UNCHANGED vars
  BY <1>13 DEF vars, historyVars
<1>14. QED
  BY <1>5, <1>6, <1>7, <1>8, <1>9, <1>10, <1>11, <1>12, <1>13 DEF Next

(* THEOREM for LifetimeNeverAhead: neither the lifetime shown nor the one  *)
(* stored exceeds the time with power on.                                  *)
THEOREM NeverAhead == Spec => []LifetimeNeverAhead
<1>1. Init => TypeOK /\ ClockInv /\ AheadInv
  BY ConstantsType
  DEF Init, TypeOK, Phases, ClockInv, Booting, AheadInv, Counters, NoData
<1>2. TypeOK /\ ClockInv /\ AheadInv /\ [Next]_vars => (TypeOK /\ ClockInv /\ AheadInv)'
  BY NextTypeOK, NextClockInv, NextAheadInv
<1>3. TypeOK /\ ClockInv /\ AheadInv => LifetimeNeverAhead
  <2> SUFFICES ASSUME TypeOK, ClockInv, AheadInv
               PROVE  LifetimeNeverAhead
    OBVIOUS
  <2>1. /\ Get("lifetime") \in Nat
        /\ Get("lifetime") * Resolution <= value["lifetime"] * Resolution + now
    BY GetBounds DEF Counters
  <2>2. value["lifetime"] * Resolution \in Int /\ Get("lifetime") * Resolution \in Int
    BY <2>1, ConstantsType DEF TypeOK, Counters
  <2>3. QED
    BY <2>1, <2>2 DEF LifetimeNeverAhead, AheadInv, TypeOK
<1>4. QED
  BY <1>1, <1>2, <1>3, PTL DEF Spec

-------------------------------------------------------------------------------
(* While erasing works, the stored uptime was counted after the last cut   *)
(* in service: that cut found nothing stored.                              *)
LEMMA NextUptimeInv ==
  ASSUME ErasesFail = FALSE
  PROVE  TypeOK /\ ClockInv /\ UptimeInv /\ [Next]_vars => UptimeInv'
<1> SUFFICES ASSUME TypeOK, ClockInv, UptimeInv, [Next]_vars
             PROVE  UptimeInv'
  OBVIOUS
<1> USE ConstantsType DEF UptimeInv, NoData
<1>1. /\ Get("uptime") \in Nat
      /\ Get("uptime") * Resolution <= value["uptime"] * Resolution + now
  BY GetBounds DEF Counters
<1>2. now \in Nat /\ total \in Nat /\ served_cut \in Nat /\ now <= total
  BY DEF TypeOK, ClockInv
<1>3. value["uptime"] * Resolution \in Int /\ Get("uptime") * Resolution \in Int
  BY <1>1 DEF TypeOK, Counters
<1>4. CASE BootUptime
  BY <1>2, <1>4 DEF BootUptime, ReadStored, ReadFails, TypeOK, ClockInv, Booting, Counters
<1>5. CASE BootErase
  <2>1. stored' = [stored EXCEPT !["uptime"] = NoData]
    BY <1>5 DEF BootErase
  <2>2. stored'["uptime"] = NoData
    BY <2>1 DEF TypeOK, Counters
  <2>3. QED
    BY <1>2, <1>5, <2>2, ResolutionAssumption DEF BootErase, historyVars
<1>6. CASE BootLifetime
  BY <1>6 DEF BootLifetime, ReadStored, ReadFails, TypeOK, Counters
<1>7. CASE Run \/ HandleRebootLifetime
  BY <1>7 DEF Run, HandleRebootLifetime, SaveCounter, TypeOK, Counters
<1>8. CASE HandleRebootUptime
  <2>1. CASE stored'["uptime"] = Get("uptime")
    BY <1>1, <1>2, <1>3, <1>8, <2>1 DEF HandleRebootUptime
  <2>2. CASE stored'["uptime"] = stored["uptime"]
    BY <1>8, <2>2 DEF HandleRebootUptime
  <2>3. QED
    BY <1>8, <2>1, <2>2 DEF HandleRebootUptime, SaveCounter, TypeOK, Counters
<1>9. CASE Reboot
  BY <1>9 DEF Reboot, historyVars
<1>10. CASE Tick
  BY <1>2, <1>3, <1>10 DEF Tick, InService, TypeOK, Counters
<1>11. CASE PowerLoss
  BY <1>2, <1>11 DEF PowerLoss
<1>12. CASE Boot
  BY <1>2, <1>12 DEF Boot, TypeOK, Counters
<1>13. CASE UNCHANGED vars
  BY <1>13 DEF vars, historyVars
<1>14. QED
  BY <1>4, <1>5, <1>6, <1>7, <1>8, <1>9, <1>10, <1>11, <1>12, <1>13 DEF Next

(* THEOREM for UptimeSinceServedCut: if the storage can always erase, the  *)
(* uptime does not reach back over a loss of power in service.             *)
THEOREM UptimeBounded ==
  ASSUME ErasesFail = FALSE
  PROVE  Spec => []UptimeSinceServedCut
<1>1. Init => TypeOK /\ ClockInv /\ UptimeInv
  BY ConstantsType
  DEF Init, TypeOK, Phases, ClockInv, Booting, UptimeInv, Counters, NoData
<1>2. TypeOK /\ ClockInv /\ UptimeInv /\ [Next]_vars => (TypeOK /\ ClockInv /\ UptimeInv)'
  BY NextTypeOK, NextClockInv, NextUptimeInv
<1>3. TypeOK /\ ClockInv /\ UptimeInv => UptimeSinceServedCut
  <2> SUFFICES ASSUME TypeOK, ClockInv, UptimeInv, InService
               PROVE  Get("uptime") * Resolution <= total - served_cut
    BY DEF UptimeSinceServedCut
  <2>1. /\ Get("uptime") \in Nat
        /\ Get("uptime") * Resolution <= value["uptime"] * Resolution + now
    BY GetBounds DEF Counters
  <2>2. value["uptime"] * Resolution \in Int /\ Get("uptime") * Resolution \in Int
    BY <2>1, ConstantsType DEF TypeOK, Counters
  <2>3. QED
    BY <2>1, <2>2 DEF UptimeInv, InService, TypeOK
<1>4. QED
  BY <1>1, <1>2, <1>3, PTL DEF Spec

-------------------------------------------------------------------------------
(* What is lost grows only by what PowerLoss and a restart excuse.         *)
LEMMA NextLossInv ==
  TypeOK /\ ClockInv /\ AheadInv /\ LossInv /\ [Next]_vars => LossInv'
<1> SUFFICES ASSUME TypeOK, ClockInv, AheadInv, LossInv, [Next]_vars
             PROVE  LossInv'
  OBVIOUS
<1> USE ConstantsType DEF NoData
<1> DEFINE value_ticks == value["lifetime"] * Resolution
           get_ticks == Get("lifetime") * Resolution
           kept_ticks == Kept * Resolution
           missed_ticks == misses * SaveInterval
<1>1. /\ value_ticks <= get_ticks
      /\ get_ticks <= value_ticks + now
      /\ value_ticks + now < get_ticks + Resolution
  BY GetBounds DEF Counters
<1>2. /\ value_ticks \in Int /\ get_ticks \in Int /\ kept_ticks \in Nat
      /\ missed_ticks \in Nat
  BY GetBounds DEF TypeOK, Counters, Kept
<1>3. (misses + 1) * SaveInterval = missed_ticks + SaveInterval
  BY Distributes DEF TypeOK
<1>4. /\ now \in Nat /\ total \in Nat /\ excused \in Nat /\ misses \in Nat
      /\ save_ts # NoData => save_ts \in Nat /\ save_ts <= now
                                           /\ now - save_ts <= SaveInterval
      /\ save_ts = NoData => now = 0
      /\ now <= total
      /\ kept_ticks <= total
  BY DEF TypeOK, ClockInv, AheadInv, Kept, Counters
<1>5. CASE BootUptime \/ BootErase
  <2>1. /\ phase' \in {"erase_uptime", "read_lifetime"}
        /\ Booting
        /\ UNCHANGED <<total, excused>> /\ stored'["lifetime"] = stored["lifetime"]
    BY <1>5
    DEF BootUptime, BootErase, ReadStored, ReadFails, historyVars, Booting, TypeOK, Counters
  <2>2. Kept' = Kept
    BY <2>1 DEF Kept
  <2>3. QED
    BY <2>1, <2>2 DEF LossInv, Booting, InService
<1>6. CASE BootLifetime
  <2>1. /\ Booting /\ now = 0 /\ phase' = "run" /\ Kept' = Kept
        /\ UNCHANGED <<total, now, save_ts, misses>>
    BY <1>6 DEF BootLifetime, Booting, ClockInv, Kept
  <2>2. /\ total - kept_ticks <= excused'
        /\ excused' \in Nat
    <3>1. total - kept_ticks <= excused
      BY <2>1 DEF LossInv
    <3>2. excused' = excused \/ excused' = total
      BY <1>6 DEF BootLifetime, ReadStored, ReadFails
    <3>3. QED
      BY <1>2, <1>4, <3>1, <3>2
  <2>3. total - value'["lifetime"] * Resolution <= excused'
    <3>1. CASE ReadStored("lifetime")
      BY <2>2, <3>1 DEF ReadStored, Kept, TypeOK, Counters
    <3>2. CASE ReadFails("lifetime") /\ stored["lifetime"] # NoData
      <4>1. excused' = total /\ value' = value
        BY <3>2 DEF ReadFails
      <4>2. value_ticks >= 0
        BY DEF TypeOK, Counters
      <4>3. QED
        BY <1>2, <1>4, <4>1, <4>2
    <3>3. CASE ReadFails("lifetime") /\ stored["lifetime"] = NoData
      <4>1. value' = value /\ kept_ticks = 0
        BY <3>3 DEF ReadFails, Kept
      <4>2. value_ticks >= 0
        BY DEF TypeOK, Counters
      <4>3. QED
        BY <1>2, <1>4, <2>2, <4>1, <4>2
    <3>4. QED
      BY <1>6, <3>1, <3>2, <3>3 DEF BootLifetime
  <2>4. Unsaved' = missed_ticks + Resolution - 1
                     + (IF save_ts = NoData THEN 0 ELSE now - save_ts)
    BY <2>1 DEF Unsaved
  <2>5. Unsaved' >= 0
    BY <1>2, <1>4, <2>4
  <2>6. Kept' * Resolution = kept_ticks
    BY <2>1
  <2>7. value'["lifetime"] * Resolution \in Int /\ Unsaved' \in Int
    BY <1>2, <1>4, <2>4, NextTypeOK DEF TypeOK, Counters
  <2> HIDE DEF kept_ticks
  <2>8. /\ total' - now' - value'["lifetime"] * Resolution <= excused'
        /\ total' - Kept' * Resolution <= excused' + now'
        /\ total' - Kept' * Resolution <= excused' + Unsaved'
    BY <1>2, <1>4, <2>1, <2>2, <2>3, <2>5, <2>6, <2>7
  <2>9. QED
    BY <2>1, <2>8 DEF LossInv, Booting, InService
<1>7. ASSUME InService, SaveCounter("lifetime"), UNCHANGED <<value, now, total, excused>>
      PROVE  /\ total' - Kept' * Resolution <= excused' + now'
             /\ total' - Kept' * Resolution
                  <= excused' + misses' * SaveInterval + Resolution - 1
  <2>1. CASE stored'["lifetime"] = Get("lifetime") /\ misses' = 0
    <3>1. Kept' * Resolution = get_ticks
      BY <2>1, GetBounds DEF Kept, Counters
    <3>2. misses' * SaveInterval = 0
      BY <2>1
    <3>3. total - now - value_ticks <= excused
      BY <1>7 DEF LossInv
    <3> HIDE DEF get_ticks, value_ticks
    <3>4. total - get_ticks <= excused + now /\ total - get_ticks < excused + Resolution
      BY <1>1, <1>2, <1>4, <3>3
    <3>5. QED
      BY <1>2, <1>4, <1>7, <3>1, <3>2, <3>4
  <2>2. CASE UNCHANGED stored /\ misses' = misses + 1
    <3>1. /\ Kept' * Resolution = kept_ticks
          /\ misses' * SaveInterval = missed_ticks + SaveInterval
      BY <1>3, <2>2 DEF Kept
    <3>2. /\ total - kept_ticks <= excused + now
          /\ total - kept_ticks <= excused + Unsaved
      BY <1>7 DEF LossInv
    <3>3. Unsaved <= missed_ticks + Resolution - 1 + SaveInterval
      BY <1>2, <1>4 DEF Unsaved
    <3>4. Unsaved \in Int
      BY <1>2, <1>4 DEF Unsaved
    <3>5. QED
      BY <1>2, <1>4, <1>7, <3>1, <3>2, <3>3, <3>4
  <2>3. QED
    BY <1>7, <2>1, <2>2 DEF SaveCounter, TypeOK, Counters
<1>8. CASE Run
  <2>1. /\ InService /\ phase' = "run" /\ SaveCounter("lifetime")
        /\ UNCHANGED <<value, now, total, excused>> /\ save_ts' = now
    BY <1>8 DEF Run, InService
  <2>2. Unsaved' = misses' * SaveInterval + Resolution - 1
    BY <1>4, <2>1, NextTypeOK DEF Unsaved, TypeOK
  <2>3. total' - now' - value'["lifetime"] * Resolution <= excused'
    BY <2>1 DEF LossInv
  <2>4. misses' * SaveInterval \in Int
    BY NextTypeOK DEF TypeOK
  <2>5. QED
    BY <1>2, <1>4, <1>7, <2>1, <2>2, <2>3, <2>4 DEF LossInv, Booting, InService
<1>9. CASE HandleRebootLifetime
  <2>1. /\ InService /\ phase' = "restart" /\ SaveCounter("lifetime")
        /\ UNCHANGED <<value, now, total, excused>>
    BY <1>9 DEF HandleRebootLifetime, InService
  <2>2. QED
    BY <1>7, <2>1 DEF LossInv, Booting, InService
<1>10. CASE Reboot \/ HandleRebootUptime
  <2>1. /\ InService /\ phase' \in {"save_uptime", "save_lifetime"}
        /\ UNCHANGED <<value, now, save_ts, total, excused, misses>>
        /\ stored'["lifetime"] = stored["lifetime"]
    BY <1>10
    DEF Reboot, HandleRebootUptime, SaveCounter, historyVars, InService, TypeOK, Counters
  <2>2. Kept' = Kept /\ Unsaved' = Unsaved
    BY <2>1 DEF Kept, Unsaved
  <2>3. QED
    BY <2>1, <2>2 DEF LossInv, Booting, InService
<1>11. CASE Tick
  <2>1. /\ InService /\ UNCHANGED <<value, save_ts, phase, misses, excused, stored>>
        /\ save_ts # NoData /\ now' = now + 1 /\ total' = total + 1
    BY <1>11 DEF Tick, SaveDue
  <2>2. Kept' * Resolution = kept_ticks /\ Unsaved' = Unsaved + 1 /\ Unsaved \in Int
    BY <1>2, <1>4, <2>1 DEF Kept, Unsaved
  <2>3. value'["lifetime"] * Resolution = value_ticks
    BY <2>1
  <2>4. InService' /\ ~ Booting' /\ phase' # "restart" /\ phase' # "off"
    BY <2>1 DEF InService, Booting
  <2>5. QED
    BY <1>2, <1>4, <2>1, <2>2, <2>3, <2>4 DEF LossInv
<1>12. CASE PowerLoss
  <2>1. /\ phase' = "off" /\ UNCHANGED <<stored, total>> /\ Excuse(misses + 1)
        /\ Booting \/ InService
    BY <1>12 DEF PowerLoss, Booting, InService, TypeOK, Phases
  <2>2. Kept' * Resolution = kept_ticks
    BY <2>1 DEF Kept
  <2>3. \/ excused' = excused + now
        \/ excused' = excused + missed_ticks + SaveInterval + Resolution - 1
    BY <1>2, <1>3, <1>4, <2>1 DEF Excuse
  <2>4. total - kept_ticks <= excused'
    <3>1. CASE Booting
      BY <1>2, <1>4, <2>3, <3>1 DEF LossInv
    <3>2. CASE InService
      <4>1. /\ total - kept_ticks <= excused + now
            /\ total - kept_ticks <= excused + Unsaved
        BY <3>2 DEF LossInv
      <4>2. Unsaved \in Int /\ Unsaved <= missed_ticks + Resolution - 1 + SaveInterval
        BY <1>2, <1>4 DEF Unsaved
      <4>3. QED
        BY <1>2, <1>4, <2>3, <4>1, <4>2
    <3>3. QED
      BY <2>1, <3>1, <3>2
  <2>5. QED
    BY <2>1, <2>2, <2>4 DEF LossInv, Booting, InService
<1>13. CASE Boot
  <2>1. /\ phase \in {"restart", "off"} /\ phase' = "read_uptime"
        /\ UNCHANGED <<stored, total>>
        /\ phase = "restart" => Excuse(misses)
        /\ phase = "off" => UNCHANGED excused
    BY <1>13 DEF Boot
  <2>2. Kept' * Resolution = kept_ticks
    BY <2>1 DEF Kept
  <2>3. phase = "restart" =>
          \/ excused' = excused + now
          \/ excused' = excused + missed_ticks + Resolution - 1
    BY <1>2, <1>4, <2>1 DEF Excuse
  <2>4. total - kept_ticks <= excused'
    BY <1>2, <1>4, <2>1, <2>3 DEF LossInv
  <2>5. QED
    BY <2>1, <2>2, <2>4 DEF LossInv, Booting, InService
<1>14. CASE UNCHANGED vars
  BY <1>14 DEF vars, historyVars, LossInv, Booting, InService, Kept, Unsaved
<1>15. QED
  BY <1>5, <1>6, <1>8, <1>9, <1>10, <1>11, <1>12, <1>13, <1>14 DEF Next

(* THEOREM for LifetimeLossBounded: cuts, failed writes and restarts       *)
(* account for all that the lifetime is behind.                            *)
THEOREM LossBounded == Spec => []LifetimeLossBounded
<1>1. Init => TypeOK /\ ClockInv /\ AheadInv /\ LossInv
  BY ConstantsType
  DEF Init, TypeOK, Phases, ClockInv, Booting, AheadInv, LossInv, Kept, InService, Counters,
      NoData
<1>2. TypeOK /\ ClockInv /\ AheadInv /\ LossInv /\ [Next]_vars
        => (TypeOK /\ ClockInv /\ AheadInv /\ LossInv)'
  BY NextTypeOK, NextClockInv, NextAheadInv, NextLossInv
<1>3. TypeOK /\ ClockInv /\ AheadInv /\ LossInv => LifetimeLossBounded
  <2> SUFFICES ASSUME TypeOK, LossInv, InService
               PROVE  total - Get("lifetime") * Resolution < excused + Resolution
    BY DEF LifetimeLossBounded
  <2>1. /\ Get("lifetime") \in Nat
        /\ value["lifetime"] * Resolution + now
             < Get("lifetime") * Resolution + Resolution
    BY GetBounds DEF Counters
  <2>2. value["lifetime"] * Resolution \in Int /\ Get("lifetime") * Resolution \in Int
    BY <2>1, ConstantsType DEF TypeOK, Counters
  <2>3. total - now - value["lifetime"] * Resolution <= excused
    BY DEF LossInv
  <2>4. QED
    BY <2>1, <2>2, <2>3, ConstantsType DEF TypeOK
<1>4. QED
  BY <1>1, <1>2, <1>3, PTL DEF Spec
===============================================================================
