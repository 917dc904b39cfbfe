---------------------------- MODULE FsmBlockProofs ----------------------------
(***************************************************************************)
(* Proofs, for any number of states, resolution and length of the run, and *)
(* with reads that fail or not, of what FsmBlock keeps over failing        *)
(* writes, reboots and losses of power.                                    *)
(***************************************************************************)
EXTENDS FsmBlock, TLAPS

Writing == phase \in {"save", "reboot"}

(* What can be read back as a state is a state, or nothing. *)
FlashInv == {flash["prev_state"], flash["curr_state"]} \subseteq States \cup {Absent}

(* A write_() has written its first keys with what is in memory, and the   *)
(* others are of earlier writes; one that was complete has written all.    *)
WriteInv ==
  /\ Writing =>
       /\ written < Len(KeyOrder)
       /\ \A i \in 1..5 :
            /\ i <= written => age[KeyOrder[i]] = writes
                               /\ flash[KeyOrder[i]] = mem[KeyOrder[i]]
            /\ i > written => age[KeyOrder[i]] < writes
  /\ ~Writing => written = 0
  /\ phase = "restart" /\ age["curr_state_dur"] = writes =>
       \A i \in 1..5 : flash[KeyOrder[i]] = mem[KeyOrder[i]]

(* The time counted since start_ts_ comes on top of the restored one. *)
TimeInv == saved_ts * Resolution + (now - start_ts) <= total

(* The state in the storage is the current one, or the one before it while *)
(* one transition is not stored.                                           *)
MissInv ==
  /\ missed = 0 => flash["curr_state"] \in {Absent, mem["curr_state"]}
  /\ missed = 1 =>
       flash["curr_state"] \in {Absent, mem["curr_state"], mem["prev_state"]}

IInv ==
  /\ TypeOK /\ FlashInv
  /\ WriteInv /\ KeyAgesOrdered
  /\ TimeInv /\ DurationWithinLifetime
  /\ MissInv

-------------------------------------------------------------------------------
LEMMA KeyFacts ==
  /\ Len(KeyOrder) = 5 /\ DOMAIN KeyOrder = 1..5
  /\ KeyOrder[1] = "write_count" /\ KeyOrder[2] = "prev_state"
  /\ KeyOrder[3] = "prev_state_dur" /\ KeyOrder[4] = "curr_state"
  /\ KeyOrder[5] = "curr_state_dur"
  /\ Keys = {"write_count", "prev_state", "prev_state_dur", "curr_state",
             "curr_state_dur"}
  /\ \A i \in 1..5 : KeyOrder[i] \in Keys
  /\ \A i, j \in 1..5 : KeyOrder[i] = KeyOrder[j] => i = j
<1>1. Len(KeyOrder) = 5 /\ DOMAIN KeyOrder = 1..5
  BY DEF KeyOrder
<1>2. /\ KeyOrder[1] = "write_count" /\ KeyOrder[2] = "prev_state"
      /\ KeyOrder[3] = "prev_state_dur" /\ KeyOrder[4] = "curr_state"
      /\ KeyOrder[5] = "curr_state_dur"
  BY DEF KeyOrder
<1>3. Keys = {KeyOrder[1], KeyOrder[2], KeyOrder[3], KeyOrder[4], KeyOrder[5]}
  BY <1>1 DEF Keys
<1>4. \A i \in 1..5 : i = 1 \/ i = 2 \/ i = 3 \/ i = 4 \/ i = 5
  OBVIOUS
<1>5. QED
  BY <1>1, <1>2, <1>3, <1>4

(* What each key is of, wherever a write has come to. *)
LEMMA KeyCases ==
  \A i \in 1..5 : /\ KeyOrder[i] = "prev_state" <=> i = 2
                  /\ KeyOrder[i] = "prev_state_dur" <=> i = 3
                  /\ KeyOrder[i] = "curr_state" <=> i = 4
                  /\ KeyOrder[i] = "curr_state_dur" <=> i = 5
BY KeyFacts

LEMMA Rounding ==
  ASSUME NEW n \in Nat
  PROVE  n \div Resolution \in Nat /\ (n \div Resolution) * Resolution <= n
BY ResolutionAssumption

LEMMA Distributes ==
  ASSUME NEW a \in Int, NEW b \in Int, NEW d \in Int
  PROVE  (a + b) * d = a * d + b * d
OBVIOUS

(* The duration that update() computes does not exceed the time with power. *)
LEMMA UpdatedBound ==
  ASSUME TypeOK, TimeInv
  PROVE  UpdatedDuration \in Nat /\ UpdatedDuration * Resolution <= total
<1>1. saved_ts \in Nat /\ now - start_ts \in Nat /\ total \in Nat /\ Resolution \in Int
  BY ResolutionAssumption, BoundsAssumption DEF TypeOK
<1> DEFINE d == (now - start_ts) \div Resolution
<1>2. d \in Nat /\ d * Resolution <= now - start_ts
  BY <1>1, Rounding
<1> HIDE DEF d
<1>3. (saved_ts + d) * Resolution = saved_ts * Resolution + d * Resolution
  BY <1>1, <1>2, Distributes
<1>4. saved_ts * Resolution \in Int /\ d * Resolution \in Int
  BY <1>1, <1>2
<1>5. (saved_ts + d) * Resolution <= total
  <2> DEFINE a == saved_ts * Resolution
             b == d * Resolution
  <2>1. a \in Int /\ b \in Int /\ b <= now - start_ts /\ a + (now - start_ts) <= total
    BY <1>2, <1>4 DEF TimeInv
  <2> HIDE DEF a, b
  <2>2. a + b <= total
    BY <2>1, <1>1
  <2>3. QED
    BY <2>2, <1>3 DEF a, b
<1>6. UpdatedDuration = saved_ts + d
  BY DEF UpdatedDuration, d
<1>7. QED
  BY <1>1, <1>2, <1>5, <1>6

-------------------------------------------------------------------------------
LEMMA InitIInv == Init => IInv
<1> SUFFICES ASSUME Init PROVE IInv
  OBVIOUS
<1>1. TypeOK /\ FlashInv
  BY KeyFacts, BoundsAssumption, LastStatusAssumption
  DEF Init, TypeOK, FlashInv, States, Absent
<1>2. WriteInv /\ KeyAgesOrdered /\ MissInv
  BY KeyFacts DEF Init, WriteInv, Writing, KeyAgesOrdered, MissInv, Absent
<1>3. TimeInv /\ DurationWithinLifetime
  BY KeyFacts, ResolutionAssumption
  DEF Init, TimeInv, DurationWithinLifetime, Absent
<1>4. QED
  BY <1>1, <1>2, <1>3 DEF IInv

-------------------------------------------------------------------------------
LEMMA TypeStep ==
  ASSUME IInv, [Next]_vars
  PROVE  TypeOK' /\ FlashInv'
<1> USE DEF IInv, TypeOK, FlashInv, States
<1>k. /\ Keys = {"write_count", "prev_state", "prev_state_dur", "curr_state",
                 "curr_state_dur"}
      /\ Len(KeyOrder) = 5
  BY KeyFacts
<1>u. UpdatedDuration \in Nat
  BY UpdatedBound
<1>1. CASE Stay
  BY <1>1, <1>k, <1>u DEF Stay, historyVars
<1>2. CASE \E status \in 1..LastStatus : Transit(status)
  BY <1>2, <1>k, <1>u, LastStatusAssumption, BoundsAssumption
  DEF Transit, BeginWrite
<1>3. CASE Save
  BY <1>3, <1>k, BoundsAssumption DEF Save, BeginWrite
<1>4. CASE HandleReboot
  BY <1>4, <1>k, <1>u, BoundsAssumption DEF HandleReboot, BeginWrite
<1>5. CASE WriteKey
  <2> DEFINE key == KeyOrder[written + 1]
  <2>1. written + 1 \in 1..5 /\ key \in Keys
    BY <1>5, <1>k, KeyFacts DEF WriteKey, WriteInv, Writing
  <2>2. key = "prev_state" \/ key = "curr_state"
          => mem[key] \in States
    OBVIOUS
  <2>3. flash' = [flash EXCEPT ![key] = mem[key]] /\ age' = [age EXCEPT ![key] = writes]
    BY <1>5 DEF WriteKey
  <2> HIDE DEF key
  <2>4. FlashInv' /\ flash' \in [Keys -> Nat \cup {Absent}] /\ age' \in [Keys -> 0..writes]
    BY <2>1, <2>2, <2>3, <1>k
  <2>5. QED
    BY <1>5, <1>k, <2>1, <2>4 DEF WriteKey, EndWrite, memVars
<1>6. CASE WriteFails
  BY <1>6, <1>k DEF WriteFails, EndWrite, memVars, historyVars
<1>7. CASE Tick
  BY <1>7, <1>k, BoundsAssumption DEF Tick, memVars
<1>8. CASE PowerLoss
  BY <1>8, <1>k DEF PowerLoss, memVars, historyVars
<1>9. CASE \E n \in 0..Len(KeyOrder) : Boot(n)
  <2> PICK n \in 0..5 : Boot(n)
    BY <1>9, <1>k
  <2>1. \A k \in Keys : (\E i \in 1..n : KeyOrder[i] = k) => flash[k] # Absent
    BY DEF Boot
  <2>2. mem' = [k \in Keys |-> IF \E i \in 1..n : KeyOrder[i] = k THEN flash[k] ELSE 0]
    BY DEF Boot
  <2>3. mem' \in [Keys -> Nat] /\ {mem'["prev_state"], mem'["curr_state"]} \subseteq States
    BY <2>1, <2>2, <1>k, LastStatusAssumption
  <2>4. saved_ts' \in Nat
    <3>1. n = 5 => flash["curr_state_dur"] # Absent
      BY KeyFacts DEF Boot
    <3>2. QED
      BY <3>1, <1>k DEF Boot
  <2>5. QED
    BY <2>3, <2>4, <1>k, LastStatusAssumption DEF Boot
<1>10. CASE UNCHANGED vars
  BY <1>10, <1>k DEF vars, memVars, historyVars
<1>11. QED
  BY <1>1, <1>2, <1>3, <1>4, <1>5, <1>6, <1>7, <1>8, <1>9, <1>10 DEF Next

(* Every write_() is later than all before it, and goes by the order of    *)
(* the keys.                                                               *)
LEMMA WriteStep ==
  ASSUME IInv, [Next]_vars
  PROVE  WriteInv' /\ KeyAgesOrdered'
<1> USE DEF IInv, WriteInv, Writing, KeyAgesOrdered
<1>k. Len(KeyOrder) = 5 /\ DOMAIN KeyOrder = 1..5
  BY KeyFacts
<1>t. /\ \A i \in 1..5 : age[KeyOrder[i]] \in 0..writes
      /\ writes \in Nat
  BY KeyFacts, BoundsAssumption DEF TypeOK
<1>b. ASSUME NEW fields, NEW what \in {"save", "reboot"}, BeginWrite(fields, what),
             phase = "run", UNCHANGED <<flash, age>>
      PROVE  WriteInv' /\ KeyAgesOrdered'
  BY <1>b, <1>k, <1>t DEF BeginWrite
<1>1. CASE Stay
  BY <1>1, <1>k, <1>t DEF Stay, historyVars
<1>2. CASE \E status \in 1..LastStatus : Transit(status)
  BY <1>2, <1>b DEF Transit
<1>3. CASE Save
  BY <1>3, <1>b DEF Save
<1>4. CASE HandleReboot
  BY <1>4, <1>b DEF HandleReboot
<1>5. CASE WriteKey
  <2> DEFINE w == written + 1
             key == KeyOrder[w]
  <2>1. w \in 1..5 /\ key \in Keys /\ written \in 0..4
    BY <1>5, <1>k, KeyFacts DEF WriteKey, TypeOK
  <2>2. /\ flash' = [flash EXCEPT ![key] = mem[key]]
        /\ age' = [age EXCEPT ![key] = writes]
        /\ UNCHANGED <<mem, writes>>
    BY <1>5 DEF WriteKey, memVars
  <2>3. \A i \in 1..5 :
          /\ i = w => age'[KeyOrder[i]] = writes /\ flash'[KeyOrder[i]] = mem[key]
          /\ i # w => age'[KeyOrder[i]] = age[KeyOrder[i]]
                      /\ flash'[KeyOrder[i]] = flash[KeyOrder[i]]
    BY <2>1, <2>2, KeyFacts DEF TypeOK
  <2>4. \A i \in 1..5 : /\ i <= w => age'[KeyOrder[i]] = writes
                                     /\ flash'[KeyOrder[i]] = mem[KeyOrder[i]]
                        /\ i > w => age'[KeyOrder[i]] < writes
    <3> TAKE i \in 1..5
    <3>1. CASE i = w
      BY <3>1, <2>1, <2>3
    <3>2. CASE i # w
      BY <3>2, <2>1, <2>3, <1>5 DEF WriteKey
    <3>3. QED
      BY <3>1, <3>2
  <2>5. KeyAgesOrdered'
    <3> SUFFICES ASSUME NEW i \in 1..5, NEW j \in 1..5, i <= j
                 PROVE  age'[KeyOrder[i]] >= age'[KeyOrder[j]]
      BY <1>k
    <3>1. CASE j = w
      <4>1. i <= w /\ j <= w
        BY <3>1
      <4>2. age'[KeyOrder[i]] = writes /\ age'[KeyOrder[j]] = writes
        BY <4>1, <2>4
      <4>3. QED
        BY <4>2, <1>t
    <3>2. CASE j # w /\ i = w
      <4>1. i <= w /\ j > w
        BY <2>1, <3>2
      <4>2. age'[KeyOrder[i]] = writes /\ age'[KeyOrder[j]] < writes
        BY <4>1, <2>4
      <4>3. age'[KeyOrder[j]] = age[KeyOrder[j]]
        BY <2>3, <3>2
      <4>4. age[KeyOrder[j]] \in Nat /\ writes \in Nat
        BY <1>t, <1>k
      <4>5. QED
        BY <4>2, <4>3, <4>4
    <3>3. CASE j # w /\ i # w
      BY <3>3, <2>3, <1>k
    <3>4. QED
      BY <3>1, <3>2, <3>3
  <2>6. CASE w = 5
    BY <2>6, <2>1, <2>2, <2>4, <2>5, <1>5, <1>k DEF WriteKey, EndWrite
  <2>7. CASE w # 5
    <3>1. /\ written' = w /\ phase' = phase /\ phase' \in {"save", "reboot"}
          /\ mem' = mem /\ writes' = writes
      BY <2>2, <2>7, <1>5, <1>k DEF WriteKey
    <3> HIDE DEF w, KeyAgesOrdered
    <3>2. Writing' /\ phase' # "restart" /\ written' < Len(KeyOrder)
      BY <2>1, <2>7, <3>1, <1>k
    <3>3. \A i \in 1..5 : /\ i <= written' => /\ age'[KeyOrder[i]] = writes'
                                             /\ flash'[KeyOrder[i]] = mem'[KeyOrder[i]]
                          /\ i > written' => age'[KeyOrder[i]] < writes'
      BY <2>4, <3>1
    <3>4. QED
      BY <2>5, <3>2, <3>3
  <2>8. QED
    BY <2>6, <2>7
<1>6. CASE WriteFails
  <2>1. 5 > written /\ age[KeyOrder[5]] < writes
    BY <1>6, <1>k DEF WriteFails, TypeOK
  <2>2. QED
    BY <1>6, <1>k, <1>t, <2>1, KeyFacts DEF WriteFails, EndWrite, memVars, historyVars
<1>7. CASE Tick
  BY <1>7, <1>k DEF Tick, memVars
<1>8. CASE PowerLoss
  BY <1>8, <1>k DEF PowerLoss, memVars, historyVars
<1>9. CASE \E n \in 0..Len(KeyOrder) : Boot(n)
  BY <1>9, <1>k DEF Boot
<1>10. CASE UNCHANGED vars
  BY <1>10, <1>k DEF vars, memVars, historyVars
<1>11. QED
  BY <1>1, <1>2, <1>3, <1>4, <1>5, <1>6, <1>7, <1>8, <1>9, <1>10 DEF Next

(* No action makes up time: only the clock moves start_ts_ and total apart, *)
(* and what is stored was in memory.                                       *)
LEMMA TimeStep ==
  ASSUME IInv, [Next]_vars
  PROVE  TimeInv' /\ DurationWithinLifetime'
<1> USE DEF IInv, TimeInv
<1> DEFINE Held(value) == value * Resolution <= total
<1>k. /\ Keys = {"write_count", "prev_state", "prev_state_dur", "curr_state",
                 "curr_state_dur"}
      /\ Len(KeyOrder) = 5
  BY KeyFacts
<1>t. /\ total \in Nat /\ now \in Nat /\ start_ts \in Nat /\ saved_ts \in Nat
      /\ mem \in [Keys -> Nat] /\ flash \in [Keys -> Nat \cup {Absent}]
      /\ Resolution \in Nat /\ start_ts <= now
  BY BoundsAssumption, ResolutionAssumption DEF TypeOK
<1>h. /\ Held(mem["prev_state_dur"]) /\ Held(mem["curr_state_dur"])
      /\ Held(flash["prev_state_dur"]) /\ Held(flash["curr_state_dur"])
      /\ Held(UpdatedDuration) /\ Held(0)
  BY UpdatedBound, <1>t DEF DurationWithinLifetime
<1>d. ASSUME total' = total,
             Held(mem'["prev_state_dur"]), Held(mem'["curr_state_dur"]),
             Held(flash'["prev_state_dur"]), Held(flash'["curr_state_dur"])
      PROVE  DurationWithinLifetime'
  BY <1>d DEF DurationWithinLifetime
<1> HIDE DEF Held
<1>1. CASE Stay
  <2>1. /\ mem'["curr_state_dur"] = UpdatedDuration
        /\ mem'["prev_state_dur"] = mem["prev_state_dur"]
    BY <1>1, <1>k, <1>t DEF Stay
  <2>2. UNCHANGED <<flash, total, now, start_ts, saved_ts>>
    BY <1>1 DEF Stay, historyVars
  <2>3. QED
    BY <2>1, <2>2, <1>h, <1>d
<1>2. CASE \E status \in 1..LastStatus : Transit(status)
  <2>1. /\ mem'["curr_state_dur"] = 0 /\ mem'["prev_state_dur"] = UpdatedDuration
        /\ UNCHANGED <<flash, total, now>> /\ saved_ts' = 0 /\ start_ts' = now
    BY <1>2, <1>k, <1>t DEF Transit, BeginWrite
  <2>2. TimeInv'
    BY <2>1, <1>t
  <2>3. QED
    BY <2>1, <2>2, <1>h, <1>d
<1>3. CASE Save
  <2>1. /\ mem'["curr_state_dur"] = mem["curr_state_dur"]
        /\ mem'["prev_state_dur"] = mem["prev_state_dur"]
        /\ UNCHANGED <<flash, total, now, start_ts, saved_ts>>
    BY <1>3, <1>k, <1>t DEF Save, BeginWrite
  <2>2. QED
    BY <2>1, <1>h, <1>d
<1>4. CASE HandleReboot
  <2>1. /\ mem'["curr_state_dur"] = UpdatedDuration
        /\ mem'["prev_state_dur"] = mem["prev_state_dur"]
        /\ UNCHANGED <<flash, total, now, start_ts, saved_ts>>
    BY <1>4, <1>k, <1>t DEF HandleReboot, BeginWrite
  <2>2. QED
    BY <2>1, <1>h, <1>d
<1>5. CASE WriteKey
  <2> DEFINE key == KeyOrder[written + 1]
  <2>1. /\ flash' = [flash EXCEPT ![key] = mem[key]]
        /\ UNCHANGED <<mem, total, now, start_ts, saved_ts>>
    BY <1>5 DEF WriteKey, memVars
  <2> HIDE DEF key
  <2>2. \A k \in Keys : flash'[k] = flash[k] \/ flash'[k] = mem[k]
    BY <2>1, <1>t
  <2>3. QED
    BY <2>1, <2>2, <1>h, <1>d, <1>k
<1>6. CASE WriteFails
  BY <1>6, <1>h, <1>d DEF WriteFails, memVars, historyVars
<1>7. CASE Tick
  <2>1. /\ total' = total + 1 /\ now' = now + 1
        /\ UNCHANGED <<mem, flash, start_ts, saved_ts>>
    BY <1>7 DEF Tick, memVars
  <2>2. TimeInv'
    <3> DEFINE a == saved_ts * Resolution
               b == saved_ts' * Resolution
    <3>1. a \in Int /\ a + (now - start_ts) <= total
      BY <1>t
    <3>2. b = a
      BY <2>1
    <3> HIDE DEF a, b
    <3>3. b + (now' - start_ts') <= total'
      BY <3>1, <3>2, <2>1, <1>t
    <3>4. QED
      BY <3>3 DEF b
  <2>3. DurationWithinLifetime'
    <3>1. \A k \in {"prev_state_dur", "curr_state_dur"} :
            mem[k] * Resolution \in Int /\ flash[k] * Resolution \in Int
      BY <1>t, <1>k DEF Absent
    <3>2. QED
      BY <2>1, <3>1, <1>t DEF DurationWithinLifetime
  <2>4. QED
    BY <2>2, <2>3
<1>8. CASE PowerLoss
  BY <1>8, <1>h, <1>d DEF PowerLoss, memVars, historyVars
<1>9. CASE \E n \in 0..Len(KeyOrder) : Boot(n)
  <2> PICK n \in 0..5 : Boot(n)
    BY <1>9, <1>k
  <2>1. UNCHANGED <<flash, total>> /\ now' = 0 /\ start_ts' = 0
    BY DEF Boot
  <2>2. \A k \in Keys : mem'[k] = flash[k] \/ mem'[k] = 0
    BY <1>k DEF Boot
  <2>3. Held(saved_ts')
    BY <1>h, <1>k DEF Boot
  <2>4. TimeInv'
    BY <2>1, <2>3, <1>t DEF Held, Boot
  <2>5. QED
    BY <2>1, <2>2, <2>4, <1>h, <1>d, <1>k
<1>10. CASE UNCHANGED vars
  BY <1>10, <1>h, <1>d DEF vars, memVars, historyVars
<1>11. QED
  BY <1>1, <1>2, <1>3, <1>4, <1>5, <1>6, <1>7, <1>8, <1>9, <1>10 DEF Next

(* A transition that is stored, or one that is not, and no more.           *)
LEMMA MissStep ==
  ASSUME IInv, [Next]_vars
  PROVE  MissInv'
<1> USE DEF IInv, MissInv
<1>k. /\ Keys = {"write_count", "prev_state", "prev_state_dur", "curr_state",
                 "curr_state_dur"}
      /\ Len(KeyOrder) = 5
  BY KeyFacts
<1>t. /\ mem \in [Keys -> Nat] /\ flash \in [Keys -> Nat \cup {Absent}]
      /\ missed \in 0..2
  BY DEF TypeOK
<1>1. CASE Stay
  BY <1>1, <1>k, <1>t DEF Stay, historyVars
<1>2. CASE \E status \in 1..LastStatus : Transit(status)
  BY <1>2, <1>k, <1>t DEF Transit, BeginWrite
<1>3. CASE Save
  BY <1>3, <1>k, <1>t DEF Save, BeginWrite
<1>4. CASE HandleReboot
  BY <1>4, <1>k, <1>t DEF HandleReboot, BeginWrite
<1>5. CASE WriteKey
  <2> DEFINE w == written + 1
  <2>1. /\ flash' = [flash EXCEPT ![KeyOrder[w]] = mem[KeyOrder[w]]]
        /\ UNCHANGED <<mem, writes>>
        /\ w \in 1..5
        /\ written \in Nat
        /\ written = 4 => flash["curr_state"] = mem["curr_state"]
    BY <1>5, <1>k, KeyFacts DEF WriteKey, memVars, WriteInv, Writing, TypeOK
  <2>2. flash'["curr_state"] \in {flash["curr_state"], mem["curr_state"]}
    BY <2>1, <1>t, KeyFacts
  <2>3. CASE w = 5
    <3>0. written = 4
      BY <2>3, <2>1
    <3>1. flash'["curr_state"] = mem["curr_state"]
      BY <3>0, <2>1, <2>2
    <3>2. QED
      BY <3>1, <2>1, <2>3, <1>5, <1>k DEF WriteKey
  <2>4. CASE w # 5
    BY <2>1, <2>2, <2>4, <1>5, <1>k DEF WriteKey
  <2>5. QED
    BY <2>3, <2>4
<1>6. CASE WriteFails
  BY <1>6 DEF WriteFails, memVars, historyVars
<1>7. CASE Tick
  BY <1>7 DEF Tick, memVars
<1>8. CASE PowerLoss
  BY <1>8 DEF PowerLoss, memVars, historyVars
<1>9. CASE \E n \in 0..Len(KeyOrder) : Boot(n)
  BY <1>9, <1>k, KeyFacts DEF Boot
<1>10. CASE UNCHANGED vars
  BY <1>10 DEF vars, memVars, historyVars
<1>11. QED
  BY <1>1, <1>2, <1>3, <1>4, <1>5, <1>6, <1>7, <1>8, <1>9, <1>10 DEF Next

LEMMA Invariant == Spec => []IInv
<1>1. IInv /\ [Next]_vars => IInv'
  BY TypeStep, WriteStep, TimeStep, MissStep DEF IInv
<1>2. QED
  BY <1>1, InitIInv, PTL DEF Spec

-------------------------------------------------------------------------------
(* The types of the fields, the storage and the clock, whatever could not  *)
(* be read at a boot (fsm_block.h).                                        *)
THEOREM Typing == Spec => []TypeOK
<1>1. IInv => TypeOK
  BY DEF IInv
<1>2. QED
  BY <1>1, Invariant, PTL

(* No key in the storage is of a later write than a key before it, though  *)
(* write_() is five writes and may end after any of them.                  *)
THEOREM AgesOrdered == Spec => []KeyAgesOrdered
<1>1. IInv => KeyAgesOrdered
  BY DEF IInv
<1>2. QED
  BY <1>1, Invariant, PTL

(* No duration, in memory or in the storage, exceeds the time with power:  *)
(* the time counted on from a restored duration is never counted twice.    *)
THEOREM DurationBounded == Spec => []DurationWithinLifetime
<1>1. IInv => DurationWithinLifetime
  BY DEF IInv
<1>2. QED
  BY <1>1, Invariant, PTL

(* After a reboot whose write_() was complete, the constructor finds the   *)
(* block as handle_reboot() left it, and update() counts on from there.    *)
THEOREM CleanReboot == Spec => CleanRebootLosesNothing
<1>1. ASSUME IInv, phase = "restart", Boot(Len(KeyOrder)), age["curr_state_dur"] = writes
      PROVE  mem' = mem /\ UpdatedDuration' = mem["curr_state_dur"]
  <2>1. \A k \in Keys : flash[k] = mem[k]
    BY <1>1, KeyFacts DEF IInv, WriteInv
  <2>2. \A k \in Keys : \E i \in 1..Len(KeyOrder) : KeyOrder[i] = k
    BY KeyFacts
  <2>3. mem' = [k \in Keys |-> mem[k]]
    BY <1>1, <2>1, <2>2 DEF Boot
  <2>4. mem \in [Keys -> Nat]
    BY <1>1 DEF IInv, TypeOK
  <2>5. saved_ts' = mem["curr_state_dur"] /\ now' = 0 /\ start_ts' = 0
    BY <1>1, <2>1, KeyFacts DEF Boot
  <2>6. mem["curr_state_dur"] \in Nat /\ (0 - 0) \div Resolution = 0
    BY <2>4, KeyFacts, ResolutionAssumption
  <2>7. QED
    BY <2>3, <2>4, <2>5, <2>6 DEF UpdatedDuration
<1>2. IInv => [phase = "restart" /\ missed = 0 /\ Boot(Len(KeyOrder))
                 /\ age["curr_state_dur"] = writes
               => mem' = mem /\ UpdatedDuration' = mem["curr_state_dur"]]_vars
  BY <1>1
<1>3. QED
  BY <1>2, Invariant, PTL DEF CleanRebootLosesNothing

(* While at most one transition is not stored, the constructor brings back *)
(* the state before or after it.                                           *)
THEOREM OneTransitionLost == Spec => RestartLosesAtMostOneTransition
<1>1. ASSUME IInv, missed < 2, Boot(Len(KeyOrder))
      PROVE  mem'["curr_state"] \in {mem["curr_state"], mem["prev_state"]}
  <2>1. mem'["curr_state"] = flash["curr_state"] /\ flash["curr_state"] # Absent
    BY <1>1, KeyFacts DEF Boot
  <2>2. missed = 0 \/ missed = 1
    BY <1>1 DEF IInv, TypeOK
  <2>3. QED
    BY <1>1, <2>1, <2>2 DEF IInv, MissInv
<1>2. IInv => [missed < 2 /\ Boot(Len(KeyOrder))
               => mem'["curr_state"] \in {mem["curr_state"], mem["prev_state"]}]_vars
  BY <1>1
<1>3. QED
  BY <1>2, Invariant, PTL DEF RestartLosesAtMostOneTransition
===============================================================================
