---------------------------- MODULE SchedulingProofs ----------------------------
(***************************************************************************)
(* Proofs about the parts that decide when something runs: the schedulers  *)
(* of timed and periodic tasks, the delayers, the store that runs the      *)
(* handlers of a state, and the assembly of a firmware, which says what    *)
(* the scheduler gets.  They are for any number of tasks, intervals, run   *)
(* times, states and handlers, and any identifiers and channels.           *)
(***************************************************************************)
EXTENDS Components, FiniteSetTheorems, TLAPS

(* A step of Components is a step of the part, or leaves it as it is. *)
LEMMA SchedulingStep ==
  ASSUME [Next]_vars
  PROVE  /\ [AT!Next]_(AT!vars)
         /\ [PT!Next]_(PT!vars)
         /\ [DL!Next]_(DL!vars)
         /\ [FS!Next]_(FS!vars)
         /\ [FW!Next]_(FW!vars)
<1>1. [AT!Next]_(AT!vars)
  <2>1. CASE UNCHANGED AT_vars
    BY <2>1 DEF AT_vars, AT!vars
  <2>2. CASE OnlyAT /\ AT!Next
    BY <2>2
  <2>3. QED
    BY <2>1, <2>2 DEF Next, vars,
       OnlyAP, OnlySTA, OnlyPT, OnlyDL, OnlySU, OnlyCR, OnlyAS, OnlyFS,
       OnlyBME, OnlySHT, OnlyOWS, OnlyOWB, OnlyFW
<1>2. [PT!Next]_(PT!vars)
  <2>1. CASE UNCHANGED PT_vars
    BY <2>1 DEF PT_vars, PT!vars
  <2>2. CASE OnlyPT /\ PT!Next
    BY <2>2
  <2>3. QED
    BY <2>1, <2>2 DEF Next, vars,
       OnlyAP, OnlySTA, OnlyAT, OnlyDL, OnlySU, OnlyCR, OnlyAS, OnlyFS,
       OnlyBME, OnlySHT, OnlyOWS, OnlyOWB, OnlyFW
<1>3. [DL!Next]_(DL!vars)
  <2>1. CASE UNCHANGED DL_vars
    BY <2>1 DEF DL_vars, DL!vars
  <2>2. CASE OnlyDL /\ DL!Next
    BY <2>2
  <2>3. QED
    BY <2>1, <2>2 DEF Next, vars,
       OnlyAP, OnlySTA, OnlyAT, OnlyPT, OnlySU, OnlyCR, OnlyAS, OnlyFS,
       OnlyBME, OnlySHT, OnlyOWS, OnlyOWB, OnlyFW
<1>4. [FS!Next]_(FS!vars)
  <2>1. CASE UNCHANGED FS_vars
    BY <2>1 DEF FS_vars, FS!vars
  <2>2. CASE OnlyFS /\ FS!Next
    BY <2>2
  <2>3. QED
    BY <2>1, <2>2 DEF Next, vars,
       OnlyAP, OnlySTA, OnlyAT, OnlyPT, OnlyDL, OnlySU, OnlyCR, OnlyAS,
       OnlyBME, OnlySHT, OnlyOWS, OnlyOWB, OnlyFW
<1>5. [FW!Next]_(FW!vars)
  <2>1. CASE UNCHANGED FW_vars
    BY <2>1 DEF FW_vars, FW!vars, FW!added
  <2>2. CASE OnlyFW /\ FW!Next
    BY <2>2
  <2>3. QED
    BY <2>1, <2>2 DEF Next, vars,
       OnlyAP, OnlySTA, OnlyAT, OnlyPT, OnlyDL, OnlySU, OnlyCR, OnlyAS, OnlyFS,
       OnlyBME, OnlySHT, OnlyOWS, OnlyOWB
<1>6. QED
  BY <1>1, <1>2, <1>3, <1>4, <1>5

(* In Components, each of the parts behaves as its module says, so that    *)
(* what follows is about the modules as well.                              *)
THEOREM SchedulingSpecs ==
  Spec => AT!Spec /\ PT!Spec /\ DL!Spec /\ FS!Spec /\ FW!Spec
<1>1. Init => AT!Init /\ PT!Init /\ DL!Init /\ FS!Init /\ FW!Init
  BY DEF Init
<1>2. [Next]_vars =>
        /\ [AT!Next]_(AT!vars)
        /\ [PT!Next]_(PT!vars)
        /\ [DL!Next]_(DL!vars)
        /\ [FS!Next]_(FS!vars)
        /\ [FW!Next]_(FW!vars)
  BY SchedulingStep
<1>3. QED
  BY <1>1, <1>2, PTL DEF Spec, AT!Spec, PT!Spec, DL!Spec, FS!Spec, FW!Spec

(***************************************************************************)
(* The scheduler of timed tasks                                            *)
(***************************************************************************)

AtIInv == AT!TypeOK /\ AT!NoLostTick

\* The strengthened invariant of the scheduler of async tasks holds at first.
LEMMA AtInitIInv ==
  ASSUME AT!MaxCountIsPositive
  PROVE  AT!Init => AtIInv
BY DEF AT!MaxCountIsPositive, AT!Init, AtIInv, AT!TypeOK, AT!NoLostTick

\* Timers, callbacks and rounds keep the types of the async tasks.
LEMMA AtTypeStep ==
  ASSUME AT!MaxCountIsPositive, AT!TypeOK, [AT!Next]_(AT!vars)
  PROVE  AT!TypeOK'
<1> USE DEF AT!MaxCountIsPositive, AT!TypeOK, AT!Nodes
<1>d. DOMAIN nodes \subseteq AT!Nodes
  BY DEF AT!MaxCountIsPositive
<1>1. ASSUME NEW id \in TaskIds, AT!Add(id)
      PROVE  AT!TypeOK'
  BY <1>1 DEF AT!Add
<1>2. CASE AT!Start
  BY <1>2, <1>d DEF AT!Start
<1>3. CASE AT!StartNode
  BY <1>3, <1>d DEF AT!StartNode, AT!AfterStart
<1>4. CASE AT!StartTimer
  BY <1>4, <1>d DEF AT!StartTimer, AT!AfterStart
<1>5. CASE AT!Stop
  BY <1>5 DEF AT!Stop
<1>6. ASSUME NEW i \in AT!Nodes, AT!Expire(i) \/ AT!SetBits(i)
      PROVE  AT!TypeOK'
  BY <1>6 DEF AT!Expire, AT!SetBits
<1>7. CASE AT!WaitBits
  BY <1>7 DEF AT!WaitBits
<1>8. CASE AT!RunNode
  BY <1>8 DEF AT!RunNode
<1>9. CASE UNCHANGED AT!vars
  BY <1>9 DEF AT!vars
<1>10. QED
  BY <1>1, <1>2, <1>3, <1>4, <1>5, <1>6, <1>7, <1>8, <1>9 DEF AT!Next

(* A callback that falls between the wait, which takes and clears the bits *)
(* in one call, and the end of the round leaves its bit to the next round. *)
LEMMA AtTickStep ==
  ASSUME AT!NoLostTick, [AT!Next]_(AT!vars)
  PROVE  AT!NoLostTick'
<1> USE DEF AT!NoLostTick
<1>1. CASE (\E id \in TaskIds : AT!Add(id)) \/ AT!Start \/ AT!Stop
  BY <1>1 DEF AT!Add, AT!Start, AT!Stop
<1>2. CASE AT!StartNode
  BY <1>2 DEF AT!StartNode, AT!AfterStart
<1>3. CASE AT!StartTimer
  BY <1>3 DEF AT!StartTimer, AT!AfterStart
<1>4. CASE \E i \in AT!Nodes : AT!Expire(i)
  BY <1>4 DEF AT!Expire
<1>5. CASE \E i \in AT!Nodes : AT!SetBits(i)
  BY <1>5 DEF AT!SetBits
<1>6. CASE AT!WaitBits
  BY <1>6 DEF AT!WaitBits
<1>7. CASE AT!RunNode
  BY <1>7 DEF AT!RunNode
<1>8. CASE UNCHANGED AT!vars
  BY <1>8 DEF AT!vars
<1>9. QED
  BY <1>1, <1>2, <1>3, <1>4, <1>5, <1>6, <1>7, <1>8 DEF AT!Next

(* No tick is lost: until its task has run, its callback is to come, its   *)
(* event bit is set, or the round under way (async_task_scheduler.cpp) has *)
(* still to come to it.                                                    *)
THEOREM TickKept == Spec => [](AT!TypeOK /\ AT!NoLostTick)
<1>1. AtIInv /\ [AT!Next]_(AT!vars) => AtIInv'
  BY AtTypeStep, AtTickStep, ComponentsAssumption DEF AtIInv
<1>2. AT!Init => AtIInv
  BY AtInitIInv, ComponentsAssumption
<1>3. QED
  BY <1>1, <1>2, SchedulingSpecs, PTL DEF AT!Spec, AtIInv

(***************************************************************************)
(* The loop of periodic tasks                                              *)
(***************************************************************************)

(* How late task i may be when the round has come to pos: the run time of  *)
(* the tasks from i up to there, over the end of the round and its delay   *)
(* unless the round is past i.                                             *)
Allowance(pos, len, i) ==
  IF pos > i THEN (pos - i) * MaxRunTime
  ELSE IF pos = 0 THEN (len - i + 1) * MaxRunTime + RoundDelay
  ELSE (len - i + pos) * MaxRunTime + RoundDelay

AfterTask(pos, len) == IF pos = len THEN 0 ELSE pos + 1
DelayAfter(pos, len) == IF pos = len THEN RoundDelay ELSE 0

PtTypes ==
  /\ now \in Nat /\ now > 0 /\ task_pos \in 0 .. Len(periodic_tasks)
  /\ periodic_tasks \in Seq([interval : Intervals, last : Nat])

Late(i) ==
  now - periodic_tasks[i].last
    <= periodic_tasks[i].interval + Allowance(task_pos, Len(periodic_tasks), i)

PtInv == PtTypes /\ \A i \in 1 .. Len(periodic_tasks) : Late(i)

\* What ASSUME Components says of the periodic scheduler.
LEMMA PtConstants ==
  MaxRunTime \in Nat /\ RoundDelay \in Nat /\ Intervals \subseteq Nat \ {0}
BY ComponentsAssumption DEF PT!PeriodicAssumption

\* Products of a number of tasks and a duration, kept from the solver's arithmetic.
LEMMA Times ==
  ASSUME NEW k \in Nat, NEW l \in Nat, NEW m \in Nat, k <= l
  PROVE  /\ k * m \in Nat /\ k * m <= l * m
         /\ (k + 1) * m = k * m + m /\ 1 * m = m
OBVIOUS

\* No task is allowed to wait for more than a round of all tasks and a delay.
LEMMA AllowanceBound ==
  ASSUME NEW len \in Nat, NEW pos \in 0 .. len, NEW i \in 1 .. len
  PROVE  /\ Allowance(pos, len, i) \in Nat
         /\ Allowance(pos, len, i) <= len * MaxRunTime + RoundDelay
<1>1. \A k \in 0 .. len : k * MaxRunTime \in Nat /\ k * MaxRunTime <= len * MaxRunTime
  BY PtConstants, Times
<1>2. len * MaxRunTime \in Nat
  BY PtConstants, Times
<1>3. CASE pos > i
  <2>1. pos - i \in 0 .. len /\ Allowance(pos, len, i) = (pos - i) * MaxRunTime
    BY <1>3 DEF Allowance
  <2>2. QED
    BY <1>1, <1>2, <2>1, PtConstants
<1>4. CASE pos = 0
  <2>1. /\ len - i + 1 \in 0 .. len
        /\ Allowance(pos, len, i) = (len - i + 1) * MaxRunTime + RoundDelay
    BY <1>4 DEF Allowance
  <2>2. QED
    BY <1>1, <1>2, <2>1, PtConstants
<1>5. CASE pos # 0 /\ ~(pos > i)
  <2>1. /\ len - i + pos \in 0 .. len
        /\ Allowance(pos, len, i) = (len - i + pos) * MaxRunTime + RoundDelay
    BY <1>5 DEF Allowance
  <2>2. QED
    BY <1>1, <1>2, <2>1, PtConstants
<1>6. QED
  BY <1>3, <1>4, <1>5

(* Each task adds its run time, and the last of a round the delay; the     *)
(* task that has run starts anew.                                          *)
LEMMA AllowanceStep ==
  ASSUME NEW len \in Nat, NEW pos \in 1 .. len, NEW i \in 1 .. len
  PROVE  /\ i # pos => Allowance(AfterTask(pos, len), len, i)
                         = Allowance(pos, len, i) + MaxRunTime + DelayAfter(pos, len)
         /\ i = pos => Allowance(AfterTask(pos, len), len, i)
                         = MaxRunTime + DelayAfter(pos, len)
<1>1. \A k \in Nat : k * MaxRunTime \in Nat
                       /\ (k + 1) * MaxRunTime = k * MaxRunTime + MaxRunTime
  BY PtConstants, Times
<1>2. 1 * MaxRunTime = MaxRunTime
  BY PtConstants, Times
<1>3. CASE pos > i /\ pos = len
  <2>1. /\ pos - i \in Nat /\ len - i + 1 = (pos - i) + 1
    BY <1>3
  <2>2. /\ Allowance(pos, len, i) = (pos - i) * MaxRunTime
        /\ AfterTask(pos, len) = 0 /\ DelayAfter(pos, len) = RoundDelay
        /\ Allowance(0, len, i) = ((pos - i) + 1) * MaxRunTime + RoundDelay
    BY <1>3, <2>1 DEF Allowance, AfterTask, DelayAfter
  <2>3. QED
    BY <1>1, <1>3, <2>1, <2>2, PtConstants
<1>4. CASE pos > i /\ pos < len
  <2>1. /\ pos - i \in Nat /\ (pos + 1) - i = (pos - i) + 1
    BY <1>4
  <2>2. /\ Allowance(pos, len, i) = (pos - i) * MaxRunTime
        /\ AfterTask(pos, len) = pos + 1 /\ DelayAfter(pos, len) = 0
        /\ Allowance(pos + 1, len, i) = ((pos - i) + 1) * MaxRunTime
    BY <1>4, <2>1 DEF Allowance, AfterTask, DelayAfter
  <2>3. QED
    BY <1>1, <1>4, <2>1, <2>2, PtConstants
<1>5. CASE pos < i
  <2>1. /\ len - i + pos \in Nat /\ len - i + (pos + 1) = (len - i + pos) + 1
    BY <1>5
  <2>2. /\ Allowance(pos, len, i) = (len - i + pos) * MaxRunTime + RoundDelay
        /\ AfterTask(pos, len) = pos + 1 /\ DelayAfter(pos, len) = 0
        /\ Allowance(pos + 1, len, i) = ((len - i + pos) + 1) * MaxRunTime + RoundDelay
    BY <1>5, <2>1 DEF Allowance, AfterTask, DelayAfter
  <2>3. QED
    BY <1>1, <1>5, <2>1, <2>2, PtConstants
<1>6. CASE pos = i /\ pos = len
  <2>1. len - i + 1 = 1
    BY <1>6
  <2>2. /\ AfterTask(pos, len) = 0 /\ DelayAfter(pos, len) = RoundDelay
        /\ Allowance(0, len, i) = 1 * MaxRunTime + RoundDelay
    BY <1>6, <2>1 DEF Allowance, AfterTask, DelayAfter
  <2>3. QED
    BY <1>2, <1>6, <2>2, PtConstants
<1>7. CASE pos = i /\ pos < len
  <2>1. (pos + 1) - i = 1
    BY <1>7
  <2>2. /\ AfterTask(pos, len) = pos + 1 /\ DelayAfter(pos, len) = 0
        /\ Allowance(pos + 1, len, i) = 1 * MaxRunTime
    BY <1>7, <2>1 DEF Allowance, AfterTask, DelayAfter
  <2>3. QED
    BY <1>2, <1>7, <2>2, PtConstants
<1>8. QED
  BY <1>3, <1>4, <1>5, <1>6, <1>7

\* An element of a sequence is one of its set.
LEMMA ElementOf ==
  ASSUME NEW T, NEW s \in Seq(T), NEW i \in 1 .. Len(s)
  PROVE  s[i] \in T
OBVIOUS

\* The fields of a node of the periodic scheduler.
LEMMA TaskFields ==
  ASSUME NEW s \in Seq([interval : Intervals, last : Nat]), NEW i \in 1 .. Len(s)
  PROVE  s[i].last \in Nat /\ s[i].interval \in Nat \ {0}
<1>1. s[i] \in [interval : Intervals, last : Nat]
  BY ElementOf
<1>2. s[i].last \in Nat /\ s[i].interval \in Intervals
  BY <1>1
<1>3. QED
  BY <1>2, PtConstants

\* Each step of the loop keeps the types of the nodes and of the clock.
LEMMA PtTypeStep ==
  ASSUME PtTypes, [PT!Next]_(PT!vars)
  PROVE  PtTypes'
<1> DEFINE T == [interval : Intervals, last : Nat]
<1>1. ASSUME NEW v \in Intervals, PT!Add(v)
      PROVE  PtTypes'
  <2>1. [interval |-> v, last |-> 0] \in T
    OBVIOUS
  <2>2. periodic_tasks' = Append(periodic_tasks, [interval |-> v, last |-> 0])
    BY <1>1 DEF PT!Add
  <2> HIDE DEF T
  <2>3. periodic_tasks' \in Seq(T) /\ Len(periodic_tasks') = Len(periodic_tasks) + 1
    BY <2>1, <2>2 DEF PtTypes, T
  <2>4. QED
    BY <1>1, <2>3 DEF PtTypes, PT!Add, T
<1>2. CASE PT!BeginRound
  <2>1. Len(periodic_tasks) \in Nat \ {0}
    BY <1>2 DEF PT!BeginRound, PtTypes
  <2>2. QED
    BY <1>2, <2>1 DEF PT!BeginRound, PtTypes
<1>3. ASSUME task_pos # 0, NEW d \in 0 .. MaxRunTime, PT!Advance(d)
      PROVE  task_pos' \in 0 .. Len(periodic_tasks) /\ now' \in Nat /\ now' > 0
  BY <1>3, PtConstants DEF PtTypes, PT!Advance
<1>4. CASE PT!RunTask
  <2>1. PICK d \in 0 .. MaxRunTime : PT!Advance(d)
    BY <1>4 DEF PT!RunTask
  <2>2. /\ task_pos \in 1 .. Len(periodic_tasks) /\ now \in Nat
        /\ periodic_tasks \in Seq(T)
        /\ periodic_tasks' = [periodic_tasks EXCEPT ![task_pos].last = now]
    BY <1>4 DEF PT!RunTask, PtTypes
  <2>3. [periodic_tasks[task_pos] EXCEPT !.last = now] \in T
    <3>1. periodic_tasks[task_pos] \in T
      BY <2>2, ElementOf
    <3>2. QED
      BY <2>2, <3>1
  <2> HIDE DEF T
  <2>4. periodic_tasks' \in Seq(T) /\ Len(periodic_tasks') = Len(periodic_tasks)
    BY <2>2, <2>3
  <2>5. QED
    BY <1>3, <1>4, <2>1, <2>4 DEF PT!RunTask, PtTypes, T
<1>5. CASE PT!SkipTask
  <2>1. 0 \in 0 .. MaxRunTime
    BY PtConstants
  <2>2. QED
    BY <1>3, <1>5, <2>1 DEF PT!SkipTask, PtTypes
<1>6. CASE UNCHANGED PT!vars
  BY <1>6 DEF PT!vars, PtTypes
<1>7. QED
  BY <1>1, <1>2, <1>4, <1>5, <1>6 DEF PT!Next

\* Each step of the loop keeps every task within its allowance.
LEMMA PtStep ==
  ASSUME PtInv, [PT!Next]_(PT!vars)
  PROVE  PtInv'
<1>t. PtTypes /\ PtTypes'
  BY PtTypeStep DEF PtInv
<1> DEFINE len == Len(periodic_tasks)
<1>n. /\ now \in Nat /\ len \in Nat /\ task_pos \in 0 .. len
      /\ now' \in Nat /\ Len(periodic_tasks') \in Nat
      /\ task_pos' \in 0 .. Len(periodic_tasks')
      /\ periodic_tasks \in Seq([interval : Intervals, last : Nat])
      /\ periodic_tasks' \in Seq([interval : Intervals, last : Nat])
  BY <1>t DEF PtTypes
<1>1. ASSUME NEW v \in Intervals, PT!Add(v), NEW i \in 1 .. Len(periodic_tasks')
      PROVE  Late(i)'
  <2> DEFINE last == periodic_tasks'[i].last
             interval == periodic_tasks'[i].interval
             allowance == Allowance(task_pos', Len(periodic_tasks'), i)
  <2>1. last \in Nat /\ interval \in Nat \ {0} /\ allowance \in Nat
    BY <1>n, <1>1, TaskFields, AllowanceBound
  <2>2. now' = 1
    BY <1>1 DEF PT!Add
  <2> HIDE DEF last, interval, allowance
  <2>3. now' - last <= interval + allowance
    BY <2>1, <2>2
  <2>4. QED
    BY <2>3 DEF Late, last, interval, allowance
<1>2. ASSUME PT!BeginRound, NEW i \in 1 .. Len(periodic_tasks')
      PROVE  Late(i)'
  <2>1. /\ task_pos = 0 /\ task_pos' = 1 /\ now' = now /\ periodic_tasks' = periodic_tasks
    BY <1>2 DEF PT!BeginRound
  <2>2. Allowance(1, len, i) = Allowance(0, len, i)
    BY <1>n, <1>2, <2>1 DEF Allowance
  <2>3. Late(i)
    BY <1>2, <2>1 DEF PtInv
  <2>4. QED
    BY <2>1, <2>2, <2>3 DEF Late
(* A task the round comes to, whether it runs or not, ages the others by   *)
(* its run time.                                                           *)
<1>3. ASSUME NEW d \in 0 .. MaxRunTime, task_pos # 0, PT!Advance(d),
             Len(periodic_tasks') = len
      PROVE  /\ task_pos \in 1 .. len
             /\ task_pos' = AfterTask(task_pos, len)
             /\ now' = now + d + DelayAfter(task_pos, len)
             /\ DelayAfter(task_pos, len) \in Nat
  <2>1. task_pos \in 1 .. len
    BY <1>n, <1>3
  <2>2. /\ task_pos' = IF task_pos = len THEN 0 ELSE task_pos + 1
        /\ now' = now + d + (IF task_pos' = 0 THEN RoundDelay ELSE 0)
    BY <1>3 DEF PT!Advance
  <2>3. CASE task_pos = len
    BY <2>1, <2>2, <2>3, PtConstants DEF AfterTask, DelayAfter
  <2>4. CASE task_pos # len
    <3>1. task_pos' = task_pos + 1 /\ task_pos' # 0
      BY <2>1, <2>2, <2>4
    <3> HIDE DEF len
    <3>2. now' = now + d + 0
      BY <2>2, <3>1
    <3>3. QED
      BY <2>1, <2>4, <3>1, <3>2, PtConstants DEF AfterTask, DelayAfter
  <2>5. QED
    BY <2>3, <2>4
<1>4. ASSUME NEW d \in 0 .. MaxRunTime, task_pos # 0, PT!Advance(d),
             Len(periodic_tasks') = len,
             NEW i \in 1 .. len, i # task_pos, periodic_tasks'[i] = periodic_tasks[i]
      PROVE  Late(i)'
  <2> DEFINE last == periodic_tasks[i].last
             interval == periodic_tasks[i].interval
             allowance == Allowance(task_pos, len, i)
             delay == DelayAfter(task_pos, len)
  <2>1. last \in Nat /\ interval \in Nat \ {0} /\ allowance \in Nat
    BY <1>n, TaskFields, AllowanceBound
  <2>2. Allowance(task_pos', Len(periodic_tasks'), i) = allowance + MaxRunTime + delay
    BY <1>n, <1>3, <1>4, AllowanceStep
  <2>3. now' = now + d + delay /\ delay \in Nat
    BY <1>3, <1>4
  <2>4. now - last <= interval + allowance
    BY DEF PtInv, Late
  <2> HIDE DEF last, interval, allowance, delay
  <2>5. now' - last <= interval + (allowance + MaxRunTime + delay)
    BY <1>n, <2>1, <2>3, <2>4, PtConstants
  <2>6. QED
    BY <1>4, <2>2, <2>5 DEF Late, last, interval
(* The task itself is late by what it takes, or not yet due.               *)
<1>5. CASE PT!RunTask
  <2>1. PICK d \in 0 .. MaxRunTime : PT!Advance(d)
    BY <1>5 DEF PT!RunTask
  <2>2. /\ task_pos # 0
        /\ periodic_tasks' = [periodic_tasks EXCEPT ![task_pos].last = now]
    BY <1>5 DEF PT!RunTask
  <2>3. /\ Len(periodic_tasks') = len
        /\ \A i \in 1 .. len : i # task_pos => periodic_tasks'[i] = periodic_tasks[i]
    BY <1>n, <2>2
  <2>4. ASSUME NEW i \in 1 .. len, i = task_pos
        PROVE  Late(i)'
    <3> DEFINE interval == periodic_tasks'[i].interval
               delay == DelayAfter(task_pos, len)
    <3>1. periodic_tasks'[i].last = now
      BY <1>n, <2>2, <2>4
    <3>2. interval \in Nat
      BY <1>n, <2>3, TaskFields
    <3>3. now' = now + d + delay /\ delay \in Nat
      BY <1>3, <2>1, <2>2, <2>3
    <3> HIDE DEF interval
    <3>4. Allowance(task_pos', Len(periodic_tasks'), i) = MaxRunTime + delay
      <4>1. task_pos' = AfterTask(task_pos, len)
        BY <1>3, <2>1, <2>2, <2>3
      <4>2. len \in Nat /\ task_pos \in 1 .. len
        BY <1>n, <2>4
      <4>3. Allowance(AfterTask(task_pos, len), len, task_pos) = MaxRunTime + delay
        BY <4>2, AllowanceStep
      <4>4. QED
        BY <2>3, <2>4, <4>1, <4>3
    <3> HIDE DEF delay
    <3>5. now' - now <= interval + (MaxRunTime + delay)
      BY <1>n, <3>2, <3>3, PtConstants
    <3>6. QED
      BY <3>1, <3>4, <3>5 DEF Late, interval
  <2>5. QED
    BY <1>t, <1>4, <2>1, <2>2, <2>3, <2>4 DEF PtInv
<1>6. CASE PT!SkipTask
  <2>1. /\ 0 \in 0 .. MaxRunTime /\ PT!Advance(0) /\ task_pos # 0
        /\ periodic_tasks' = periodic_tasks
        /\ ~PT!Allowed(periodic_tasks[task_pos])
    BY <1>6, PtConstants DEF PT!SkipTask
  <2>2. ASSUME NEW i \in 1 .. len, i = task_pos
        PROVE  Late(i)'
    <3> DEFINE last == periodic_tasks[i].last
               interval == periodic_tasks[i].interval
               delay == DelayAfter(task_pos, len)
    <3>1. last \in Nat /\ interval \in Nat \ {0}
      BY <1>n, TaskFields
    <3>2. now' = now + 0 + delay /\ delay \in Nat
      BY <1>3, <2>1
    <3>3. Allowance(task_pos', Len(periodic_tasks'), i) = MaxRunTime + delay
      BY <1>n, <1>3, <2>1, <2>2, AllowanceStep
    <3>4. ~(now >= last + interval)
      BY <2>1, <2>2 DEF PT!Allowed
    <3> HIDE DEF last, interval, delay
    <3>5. now' - last <= interval + (MaxRunTime + delay)
      BY <1>n, <3>1, <3>2, <3>4, PtConstants
    <3>6. QED
      BY <2>1, <3>3, <3>5 DEF Late, last, interval
  <2>3. QED
    BY <1>t, <1>4, <2>1, <2>2 DEF PtInv
<1>7. CASE UNCHANGED PT!vars
  BY <1>7, <1>t DEF PT!vars, PtInv, Late
<1>8. QED
  BY <1>t, <1>1, <1>2, <1>5, <1>6, <1>7 DEF PT!Next, PtInv

(* Whatever the tasks take and whether they fail, no task of the loop of   *)
(* the main task (periodic_task_scheduler.cpp) waits for longer than its   *)
(* interval and one round of all tasks.                                    *)
THEOREM NoStarving == Spec => []NoTaskStarves
<1>1. PT!Init => PtInv
  BY DEF PT!Init, PtInv, PtTypes
<1>2. PtInv /\ [PT!Next]_(PT!vars) => PtInv'
  BY PtStep
<1>3. ASSUME PtInv, NEW i \in 1 .. Len(periodic_tasks)
      PROVE  now - periodic_tasks[i].last
               <= periodic_tasks[i].interval
                    + Len(periodic_tasks) * MaxRunTime + RoundDelay
  <2> DEFINE len == Len(periodic_tasks)
             round == len * MaxRunTime
             last == periodic_tasks[i].last
             interval == periodic_tasks[i].interval
             allowance == Allowance(task_pos, len, i)
  <2>1. /\ now \in Nat /\ len \in Nat /\ task_pos \in 0 .. len
        /\ periodic_tasks \in Seq([interval : Intervals, last : Nat])
    BY <1>3 DEF PtInv, PtTypes
  <2>2. now - last <= interval + allowance
    BY <1>3 DEF PtInv, Late
  <2>3. allowance \in Nat /\ allowance <= round + RoundDelay /\ round \in Nat
    BY <2>1, AllowanceBound, Times, PtConstants
  <2>4. last \in Nat /\ interval \in Nat \ {0}
    BY <2>1, TaskFields
  <2> HIDE DEF round, last, interval, allowance
  <2>5. now - last <= interval + round + RoundDelay
    BY <2>1, <2>2, <2>3, <2>4, PtConstants
  <2>6. QED
    BY <2>5 DEF round, last, interval
<1>4. PtInv => NoTaskStarves
  <2>1. PtInv => DOMAIN periodic_tasks = 1 .. Len(periodic_tasks)
    BY DEF PtInv, PtTypes
  <2>2. QED
    BY <1>3, <2>1 DEF NoTaskStarves, PT!NoTaskStarves
<1>5. QED
  BY <1>1, <1>2, <1>4, SchedulingSpecs, PTL DEF PT!Spec

(***************************************************************************)
(* The delayers                                                            *)
(***************************************************************************)

(* A delay whose alarm has found the handle leaves the notification to its *)
(* task.  As long as nobody else notifies the task, the handle is stored   *)
(* only while delay() waits, and the notification is the alarm's.          *)
DlInv ==
  /\ notifications \in Nat /\ strays \in Nat
  /\ delay_pc \in {"start", "wait", "take"} /\ alarm = "passed" =>
       missed \/ notifications > 0
  /\ strays = 0 =>
       /\ ~early
       /\ task_to_notify_ => delay_pc = "take" /\ notifications = 0
       /\ notifications > 0 => delay_pc = "take" /\ alarm = "passed"

\* Each step of delay(), the alarm and the strays keeps the invariant.
LEMMA DlStep ==
  ASSUME DlInv, [DL!Next]_(DL!vars)
  PROVE  DlInv'
<1> USE DEF DlInv
<1>1. CASE \E s \in {"BusyLoop", "LowPower"} : DL!MakeDelayer(s)
  BY <1>1 DEF DL!MakeDelayer
<1>2. CASE DL!Configure
  BY <1>2 DEF DL!Configure
<1>3. CASE DL!StartTimer
  BY <1>3 DEF DL!StartTimer
<1>4. CASE DL!CallFails \/ DL!Poll \/ DL!StopTimer
  BY <1>4 DEF DL!CallFails, DL!Poll, DL!StopTimer
<1>5. CASE DL!StoreTask
  BY <1>5 DEF DL!StoreTask
<1>6. CASE DL!Take
  <2>1. strays = 0 => ~early /\ alarm = "passed"
    BY <1>6 DEF DL!Take
  <2>2. strays = 0 => ~early'
    BY <1>6, <2>1, Zenon DEF DL!Take
  <2>3. QED
    BY <1>6, <2>2 DEF DL!Take
<1>7. CASE DL!Alarm
  <2>1. CASE task_to_notify_
    BY <1>7, <2>1 DEF DL!Alarm, DL!Signal
  <2>2. CASE ~task_to_notify_
    <3>1. missed'
      BY <1>7, <2>2, Zenon DEF DL!Alarm
    <3>2. QED
      BY <1>7, <2>2, <3>1 DEF DL!Alarm, DL!Signal
  <2>3. QED
    BY <2>1, <2>2
<1>8. CASE DL!Stray
  <2>1. strays' \in Nat \ {0} /\ notifications' \in Nat \ {0}
    BY <1>8 DEF DL!Stray
  <2>2. QED
    BY <1>8, <2>1 DEF DL!Stray
<1>9. CASE UNCHANGED DL!vars
  BY <1>9 DEF DL!vars
<1>10. QED
  BY <1>1, <1>2, <1>3, <1>4, <1>5, <1>6, <1>7, <1>8, <1>9 DEF DL!Next

(* LowPowerDelayer::delay waits for good only when its alarm came before   *)
(* BasicAsyncFlag::wait stored the handle, and ends before its alarm only  *)
(* when the task was notified by somebody else.                            *)
THEOREM DelayKept == Spec => []DelayAccounted
<1>1. DL!Init => DlInv
  BY DEF DL!Init, DlInv
<1>2. DlInv /\ [DL!Next]_(DL!vars) => DlInv'
  BY DlStep
<1>3. DlInv => DelayAccounted
  BY DEF DlInv, DelayAccounted, DL!DelayAccounted
<1>4. QED
  BY <1>1, <1>2, <1>3, SchedulingSpecs, PTL DEF DL!Spec

(***************************************************************************)
(* The store of handlers of states                                         *)
(***************************************************************************)

(* The handlers of the state before pos were told, in their order. *)
FsToldInv ==
  /\ fsm_pc = "transit" =>
       /\ FS!Handled(curr_state_)
       /\ fsm_pos \in 1 .. HandlerCount[curr_state_] + 1
       /\ Len(told) = fsm_pos - 1
       /\ \A i \in 1 .. fsm_pos - 1 : told[i] = i
  /\ fsm_pc # "transit" => told = <<>>

FsIInv == FS!TypeOK /\ FsToldInv

\* The strengthened invariant of the FSM store holds at first.
LEMMA FsInitIInv ==
  ASSUME FS!StatesAssumption
  PROVE  FS!Init => FsIInv
<1>1. FS!Init => is_transit_begin_ \in BOOLEAN
  BY DEF FS!Init
<1>2. QED
  BY <1>1, SMT DEF FS!Init, FsIInv, FS!TypeOK, FsToldInv

(* A sequence of the numbers up to its length is what it seems. *)
LEMMA FsCounted ==
  ASSUME NEW s \in Seq(Nat), NEW k \in Nat, Len(s) = k,
         \A i \in 1 .. k : s[i] = i
  PROVE  s = [i \in 1 .. k |-> i]
<1>1. DOMAIN s = 1 .. k /\ s = [i \in 1 .. k |-> s[i]]
  OBVIOUS
<1>2. QED
  BY <1>1

\* A run of the store keeps the handlers told a prefix of all, in order.
LEMMA FsStep ==
  ASSUME FS!StatesAssumption, FsIInv, [FS!Next]_(FS!vars)
  PROVE  FsIInv'
<1> USE DEF FS!StatesAssumption, FsIInv, FS!TypeOK, FsToldInv, FS!Handled
<1>1. CASE \E s \in States : FS!Restore(s)
  BY <1>1 DEF FS!Restore
<1>2. CASE FS!Run
  BY <1>2 DEF FS!Run, FS!Enter
<1>3. CASE FS!TransitHandler
  <2>1. /\ fsm_pc = "transit" /\ fsm_pc' = "transit" /\ curr_state_' = curr_state_
        /\ is_transit_begin_' = is_transit_begin_
        /\ fsm_pos <= HandlerCount[curr_state_] /\ fsm_pos' = fsm_pos + 1
        /\ told' = Append(told, fsm_pos)
        /\ next_state_' \in States \cup {0}
    BY <1>3 DEF FS!TransitHandler, FS!AskNext
  <2>2. told' \in Seq(Nat) /\ Len(told') = fsm_pos
    BY <2>1
  <2>3. \A i \in 1 .. fsm_pos : told'[i] = i
    BY <2>1
  <2>4. QED
    BY <2>1, <2>2, <2>3
<1>4. CASE FS!TransitEnd
  <2>1. is_transit_begin_' \in BOOLEAN
    BY <1>4, Zenon DEF FS!TransitEnd
  <2>2. /\ curr_state_' = next_state_ /\ next_state_' = 0 /\ told' = <<>>
        /\ fsm_pc' \in {"state", "aborted"} /\ fsm_pos' \in {0, 1}
    BY <1>4 DEF FS!TransitEnd, FS!Enter
  <2>3. FsToldInv'
    BY <2>2
  <2>4. curr_state_' \in States \cup {0} /\ next_state_' \in States \cup {0}
    BY <2>2
  <2>5. fsm_pos' \in Nat /\ told' \in Seq(Nat)
    BY <2>2
  <2>6. QED
    BY <2>1, <2>2, <2>3, <2>4, <2>5
<1>5. CASE FS!StateHandler
  BY <1>5 DEF FS!StateHandler, FS!AskNext
<1>6. CASE FS!EndRun
  BY <1>6 DEF FS!EndRun
<1>7. CASE UNCHANGED FS!vars
  BY <1>7 DEF FS!vars
<1>8. QED
  BY <1>1, <1>2, <1>3, <1>4, <1>5, <1>6, <1>7 DEF FS!Next

(* FsmStore::run leaves a state only after every handler of it was told of *)
(* the end of the transition, once and in the order they were added.       *)
THEOREM EveryHandlerTold == Spec => TransitionIsTold
<1>1. ASSUME FsIInv, [FS!Next]_(FS!vars), curr_state_ # 0, curr_state_' # curr_state_
      PROVE  told = [i \in 1 .. HandlerCount[curr_state_] |-> i]
  <2>1. FS!TransitEnd
    BY <1>1 DEF FS!Next, FS!Restore, FS!Run, FS!TransitHandler, FS!StateHandler,
         FS!EndRun, FS!vars
  <2>2. Len(told) = HandlerCount[curr_state_] /\ HandlerCount[curr_state_] \in Nat
    BY <1>1, <2>1, ComponentsAssumption
    DEF FS!TransitEnd, FsIInv, FS!TypeOK, FsToldInv, FS!Handled, FS!StatesAssumption
  <2>3. told \in Seq(Nat) /\ \A i \in 1 .. HandlerCount[curr_state_] : told[i] = i
    BY <1>1, <2>1, <2>2 DEF FS!TransitEnd, FsIInv, FS!TypeOK, FsToldInv
  <2>4. QED
    BY <2>2, <2>3, FsCounted
<1>2. FsIInv /\ [FS!Next]_(FS!vars) =>
        [curr_state_ # 0 /\ curr_state_' # curr_state_ =>
           told = [i \in 1 .. HandlerCount[curr_state_] |-> i]]_(FS!vars)
  BY <1>1
<1>3. FsIInv /\ [FS!Next]_(FS!vars) => FsIInv'
  BY FsStep, ComponentsAssumption
<1>4. FS!Init => FsIInv
  BY FsInitIInv, ComponentsAssumption
<1>5. QED
  BY <1>2, <1>3, <1>4, SchedulingSpecs, PTL DEF FS!Spec, TransitionIsTold,
     FS!TransitionIsTold

(***************************************************************************)
(* The assembly of a firmware                                              *)
(***************************************************************************)

\* The kinds of pipelines with neither identifier nor channel, and those with
\* a channel of the ADC.
FwPlain == {"data", "console", "network", "http", "time", "web",
            "ds18b20 handler", "sht41 handler", "sht41", "bme280"}
FwAnalog == {"soil", "relay", "ldr"}

(* The kinds of pipelines; an analog one has a channel of the ADC. *)
LEMMA FwKinds ==
  ASSUME NEW p \in FW!Pipelines
  PROVE  /\ p.kind \in FwPlain \cup FwAnalog \cup {"ds18b20"}
         /\ p.kind \in FwPlain => p.id = "" /\ p.channel = 0
         /\ p.kind \in FwAnalog => p.id \in Ids /\ p.channel \in Channels
         /\ p.kind = "ds18b20" => p.id \in Ids
BY DEF FW!Pipelines, FwPlain, FwAnalog

(* What a pipeline adds, by the list of its kind. *)
LEMMA FwStoragesOf ==
  ASSUME NEW p \in FW!Pipelines
  PROVE  FW!Adds(p).storages =
           IF p.kind = "data" THEN {"system_counter"}
           ELSE IF p.kind = "network" THEN {"net_local_wifi"}
           ELSE IF p.kind \in {"soil", "relay"} THEN {"soil_fsm"}
           ELSE IF p.kind = "sht41" THEN {"sensor_sht41"} ELSE {}
BY FwKinds DEF FW!Adds, FwPlain, FwAnalog, FW!Nothing, FW!DataPipeline,
   FW!ConsolePipeline, FW!LocalNetworkPipeline, FW!HttpPipeline, FW!TimePipeline,
   FW!WebGuiPipeline, FW!DS18B20Handler, FW!SHT41Handler, FW!SoilPipeline,
   FW!RelayPipeline, FW!FsmBlockPipeline, FW!LdrPipeline, FW!Sht41Pipeline,
   FW!Bme280Pipeline, FW!Ds18b20Pipeline

\* The channels, suspend handlers, tasks, reboot handlers and endpoints that each
\* kind of pipeline adds: the cases of Adds, one field at a time.
LEMMA FwChannelsOf ==
  ASSUME NEW p \in FW!Pipelines
  PROVE  FW!Adds(p).channels = IF p.kind \in FwAnalog THEN {p.channel} ELSE {}
BY FwKinds DEF FW!Adds, FwPlain, FwAnalog, FW!Nothing, FW!DataPipeline,
   FW!ConsolePipeline, FW!LocalNetworkPipeline, FW!HttpPipeline, FW!TimePipeline,
   FW!WebGuiPipeline, FW!DS18B20Handler, FW!SHT41Handler, FW!SoilPipeline,
   FW!RelayPipeline, FW!FsmBlockPipeline, FW!LdrPipeline, FW!Sht41Pipeline,
   FW!Bme280Pipeline, FW!Ds18b20Pipeline

LEMMA FwHandlersOf ==
  ASSUME NEW p \in FW!Pipelines
  PROVE  FW!Adds(p).handlers = IF p.kind = "http" THEN {"http_pipeline"} ELSE {}
BY FwKinds DEF FW!Adds, FwPlain, FwAnalog, FW!Nothing, FW!DataPipeline,
   FW!ConsolePipeline, FW!LocalNetworkPipeline, FW!HttpPipeline, FW!TimePipeline,
   FW!WebGuiPipeline, FW!DS18B20Handler, FW!SHT41Handler, FW!SoilPipeline,
   FW!RelayPipeline, FW!FsmBlockPipeline, FW!LdrPipeline, FW!Sht41Pipeline,
   FW!Bme280Pipeline, FW!Ds18b20Pipeline

LEMMA FwTasksOf ==
  ASSUME NEW p \in FW!Pipelines
  PROVE  FW!Adds(p).tasks =
           IF p.kind = "data" THEN {<<"lifetime_counter_task">>}
           ELSE IF p.kind = "console"
                THEN {<<"console_telemetry">>, <<"console_registration">>}
           ELSE IF p.kind \in {"soil", "relay"} THEN {<<"soil_fsm">>, <<p.id, "task">>}
           ELSE IF p.kind \in {"ldr", "ds18b20"} THEN {<<p.id, "task">>}
           ELSE IF p.kind = "sht41" THEN {<<"sht41_task">>}
           ELSE IF p.kind = "bme280" THEN {<<"bme280_task">>} ELSE {}
BY FwKinds DEF FW!Adds, FwPlain, FwAnalog, FW!Nothing, FW!DataPipeline,
   FW!ConsolePipeline, FW!LocalNetworkPipeline, FW!HttpPipeline, FW!TimePipeline,
   FW!WebGuiPipeline, FW!DS18B20Handler, FW!SHT41Handler, FW!SoilPipeline,
   FW!RelayPipeline, FW!FsmBlockPipeline, FW!LdrPipeline, FW!Sht41Pipeline,
   FW!Bme280Pipeline, FW!Ds18b20Pipeline

LEMMA FwRebootOf ==
  ASSUME NEW p \in FW!Pipelines
  PROVE  /\ p.kind = "data" => <<"lifetime_counter_task">> \in FW!Adds(p).reboot
         /\ p.kind \in {"soil", "relay"} => <<"soil_fsm">> \in FW!Adds(p).reboot
BY DEF FW!Adds, FW!Nothing, FW!DataPipeline, FW!SoilPipeline,
   FW!RelayPipeline, FW!FsmBlockPipeline

LEMMA FwPathsOf ==
  ASSUME NEW p \in FW!Pipelines
  PROVE  FW!Adds(p).paths =
           IF p.kind = "http" THEN {"telemetry", "registration", "reboot", "report"}
           ELSE IF p.kind = "time" THEN {"time"}
           ELSE IF p.kind = "web" THEN {"/", "/dashboard", "/assets/*"}
           ELSE IF p.kind = "ds18b20 handler"
                THEN {"scan", "read_configuration", "write_configuration",
                      "erase_configuration"}
           ELSE IF p.kind = "sht41 handler" THEN {"sht41/reset", "sht41/heat"} ELSE {}
BY FwKinds DEF FW!Adds, FwPlain, FwAnalog, FW!Nothing, FW!DataPipeline,
   FW!ConsolePipeline, FW!LocalNetworkPipeline, FW!HttpPipeline, FW!TimePipeline,
   FW!WebGuiPipeline, FW!DS18B20Handler, FW!SHT41Handler, FW!SoilPipeline,
   FW!RelayPipeline, FW!FsmBlockPipeline, FW!LdrPipeline, FW!Sht41Pipeline,
   FW!Bme280Pipeline, FW!Ds18b20Pipeline

(* Two additions that cannot both be made, and the pipelines of which the  *)
(* additions are such.                                                     *)
FwClash(a, b) ==
  \/ a.tasks \cap b.tasks # {}
  \/ a.storages \cap b.storages # {}
  \/ a.channels \cap b.channels # {}
  \/ a.handlers \cap b.handlers # {}

FwPair(p, q) ==
  \/ /\ p.kind \in {"data", "console", "network", "http", "sht41", "bme280"}
     /\ q.kind = p.kind
  \/ p.kind \in {"soil", "relay"} /\ q.kind \in {"soil", "relay"}
  \/ /\ p.kind \in {"soil", "relay", "ldr", "ds18b20"}
     /\ q.kind \in {"soil", "relay", "ldr", "ds18b20"}
     /\ p.id = q.id
  \/ p.kind \in FwAnalog /\ q.kind \in FwAnalog /\ p.channel = q.channel

\* Identifiers of tasks of one and of two parts are different.
LEMMA FwTuples ==
  /\ \A a, b : <<a>> = <<b>> <=> a = b
  /\ \A a, b, c : <<a>> # <<b, c>>
  /\ \A a, b, c : <<a, c>> = <<b, c>> <=> a = b
OBVIOUS

(* The tasks with a name of their own. *)
FwNames(k) ==
  IF k = "data" THEN {"lifetime_counter_task"}
  ELSE IF k = "console" THEN {"console_telemetry", "console_registration"}
  ELSE IF k \in {"soil", "relay"} THEN {"soil_fsm"}
  ELSE IF k = "sht41" THEN {"sht41_task"}
  ELSE IF k = "bme280" THEN {"bme280_task"} ELSE {}

FwSensor(k) == k \in {"soil", "relay", "ldr", "ds18b20"}

(* A task has a name of its own or that of the sensor. *)
LEMMA FwTaskIs ==
  ASSUME NEW p \in FW!Pipelines, NEW t
  PROVE  t \in FW!Adds(p).tasks <=>
           \/ \E m \in FwNames(p.kind) : t = <<m>>
           \/ FwSensor(p.kind) /\ t = <<p.id, "task">>
<1>1. CASE p.kind \in {"soil", "relay"}
  <2>1. FW!Adds(p).tasks = {<<"soil_fsm">>, <<p.id, "task">>}
    BY <1>1, FwTasksOf
  <2>2. FwNames(p.kind) = {"soil_fsm"} /\ FwSensor(p.kind)
    BY <1>1 DEF FwNames, FwSensor
  <2>3. QED
    BY <2>1, <2>2
<1>2. CASE p.kind \in {"ldr", "ds18b20"}
  <2>1. FW!Adds(p).tasks = {<<p.id, "task">>}
    BY <1>2, FwTasksOf
  <2>2. FwNames(p.kind) = {} /\ FwSensor(p.kind)
    BY <1>2 DEF FwNames, FwSensor
  <2>3. QED
    BY <2>1, <2>2
<1>3. CASE ~FwSensor(p.kind)
  <2>1. FW!Adds(p).tasks = {<<m>> : m \in FwNames(p.kind)}
    BY <1>3, FwTasksOf DEF FwNames, FwSensor
  <2>2. QED
    BY <1>3, <2>1
<1>4. QED
  BY <1>1, <1>2, <1>3 DEF FwSensor

\* Two pipelines have a task of one name in the cases of Conflict and no others.
LEMMA FwTasksMeet ==
  ASSUME NEW p \in FW!Pipelines, NEW q \in FW!Pipelines
  PROVE  FW!Adds(p).tasks \cap FW!Adds(q).tasks # {} <=>
           \/ /\ p.kind \in {"data", "console", "sht41", "bme280"}
              /\ q.kind = p.kind
           \/ p.kind \in {"soil", "relay"} /\ q.kind \in {"soil", "relay"}
           \/ /\ p.kind \in {"soil", "relay", "ldr", "ds18b20"}
              /\ q.kind \in {"soil", "relay", "ldr", "ds18b20"}
              /\ p.id = q.id
<1>1. ASSUME NEW r \in FW!Pipelines, NEW t
      PROVE  t \in FW!Adds(r).tasks <=>
               (\E m \in FwNames(r.kind) : t = <<m>>) \/ (FwSensor(r.kind) /\ t = <<r.id, "task">>)
  BY FwTaskIs
<1>2. ASSUME NEW k, NEW l
      PROVE  FwNames(k) \cap FwNames(l) # {} <=>
               \/ k \in {"data", "console", "sht41", "bme280"} /\ l = k
               \/ k \in {"soil", "relay"} /\ l \in {"soil", "relay"}
  BY DEF FwNames
<1>3. FW!Adds(p).tasks \cap FW!Adds(q).tasks # {} <=>
        \E t : /\ (\E m \in FwNames(p.kind) : t = <<m>>) \/ (FwSensor(p.kind) /\ t = <<p.id, "task">>)
               /\ (\E m \in FwNames(q.kind) : t = <<m>>) \/ (FwSensor(q.kind) /\ t = <<q.id, "task">>)
  BY <1>1
<1>4. ASSUME NEW t,
             (\E m \in FwNames(p.kind) : t = <<m>>) \/ (FwSensor(p.kind) /\ t = <<p.id, "task">>),
             (\E m \in FwNames(q.kind) : t = <<m>>) \/ (FwSensor(q.kind) /\ t = <<q.id, "task">>)
      PROVE  FwNames(p.kind) \cap FwNames(q.kind) # {} \/ (FwSensor(p.kind) /\ FwSensor(q.kind) /\ p.id = q.id)
  BY <1>4, FwTuples
<1>5. ASSUME FwNames(p.kind) \cap FwNames(q.kind) # {} \/ (FwSensor(p.kind) /\ FwSensor(q.kind) /\ p.id = q.id)
      PROVE  \E t : /\ (\E m \in FwNames(p.kind) : t = <<m>>) \/ (FwSensor(p.kind) /\ t = <<p.id, "task">>)
                    /\ (\E m \in FwNames(q.kind) : t = <<m>>) \/ (FwSensor(q.kind) /\ t = <<q.id, "task">>)
  <2>1. CASE FwNames(p.kind) \cap FwNames(q.kind) # {}
    <3>1. PICK m : m \in FwNames(p.kind) /\ m \in FwNames(q.kind)
      BY <2>1
    <3>2. WITNESS <<m>>
    <3>3. QED
      BY <3>1
  <2>2. CASE FwSensor(p.kind) /\ FwSensor(q.kind) /\ p.id = q.id
    <3>1. WITNESS <<p.id, "task">>
    <3>2. QED
      BY <2>2
  <2>3. QED
    BY <1>5, <2>1, <2>2
<1>6. FW!Adds(p).tasks \cap FW!Adds(q).tasks # {} <=>
        FwNames(p.kind) \cap FwNames(q.kind) # {} \/ (FwSensor(p.kind) /\ FwSensor(q.kind) /\ p.id = q.id)
  BY <1>3, <1>4, <1>5
<1>7. QED
  BY <1>2, <1>6 DEF FwSensor

\* Two pipelines ask for one thing exactly if their kinds and parameters say so.
LEMMA FwClashIs ==
  ASSUME NEW p \in FW!Pipelines, NEW q \in FW!Pipelines
  PROVE  FwClash(FW!Adds(p), FW!Adds(q)) <=> FwPair(p, q)
<1>1. FW!Adds(p).storages \cap FW!Adds(q).storages # {} <=>
        \/ p.kind \in {"data", "network", "sht41"} /\ q.kind = p.kind
        \/ p.kind \in {"soil", "relay"} /\ q.kind \in {"soil", "relay"}
  BY FwStoragesOf
<1>2. FW!Adds(p).channels \cap FW!Adds(q).channels # {} <=>
        p.kind \in FwAnalog /\ q.kind \in FwAnalog /\ p.channel = q.channel
  BY FwChannelsOf
<1>3. FW!Adds(p).handlers \cap FW!Adds(q).handlers # {} <=>
        p.kind = "http" /\ q.kind = "http"
  BY FwHandlersOf
<1>4. QED
  BY <1>1, <1>2, <1>3, FwTasksMeet DEF FwClash, FwPair

(* Conflict, of a set of copies. *)
FwClashIn(C) == \E c, d \in C : c # d /\ FwClash(FW!Adds(c[1]), FW!Adds(d[1]))

FwTwice(C, S) == \E c, d \in C : c # d /\ c[1] \in S /\ d[1] \in S
FwConflict(C) ==
  \/ \E k \in {"data", "console", "network", "http", "sht41", "bme280"} :
       FwTwice(C, FW!OfKinds({k}))
  \/ FwTwice(C, FW!OfKinds({"soil", "relay"}))
  \/ \E i \in Ids :
       FwTwice(C, {p \in FW!OfKinds({"soil", "relay", "ldr", "ds18b20"}) : p.id = i})
  \/ \E c \in Channels :
       FwTwice(C, {p \in FW!OfKinds({"soil", "relay", "ldr"}) : p.channel = c})

\* Something is asked for twice exactly if two pipelines are in conflict.
LEMMA FwConflictIs ==
  ASSUME NEW C, \A c \in C : c[1] \in FW!Pipelines
  PROVE  FwClashIn(C) <=> FwConflict(C)
<1>1. FwClashIn(C) <=> \E c, d \in C : c # d /\ FwPair(c[1], d[1])
  BY FwClashIs DEF FwClashIn
<1>2. ASSUME NEW c \in C, NEW d \in C, c # d, FwPair(c[1], d[1])
      PROVE  FwConflict(C)
  <2>0. c[1] \in FW!Pipelines /\ d[1] \in FW!Pipelines
    OBVIOUS
  <2>1. CASE /\ c[1].kind \in {"data", "console", "network", "http", "sht41", "bme280"}
             /\ d[1].kind = c[1].kind
    <3>1. FwTwice(C, FW!OfKinds({c[1].kind}))
      BY <1>2, <2>0, <2>1 DEF FwTwice, FW!OfKinds
    <3>2. QED
      BY <2>1, <3>1 DEF FwConflict
  <2>2. CASE c[1].kind \in {"soil", "relay"} /\ d[1].kind \in {"soil", "relay"}
    BY <1>2, <2>0, <2>2 DEF FwTwice, FW!OfKinds, FwConflict
  <2>3. CASE /\ c[1].kind \in {"soil", "relay", "ldr", "ds18b20"}
             /\ d[1].kind \in {"soil", "relay", "ldr", "ds18b20"}
             /\ c[1].id = d[1].id
    <3>1. c[1].id \in Ids
      BY <2>0, <2>3, FwKinds DEF FwAnalog
    <3>2. FwTwice(C, {p \in FW!OfKinds({"soil", "relay", "ldr", "ds18b20"}) :
                        p.id = c[1].id})
      BY <1>2, <2>0, <2>3 DEF FwTwice, FW!OfKinds
    <3>3. QED
      BY <3>1, <3>2 DEF FwConflict
  <2>4. CASE c[1].kind \in FwAnalog /\ d[1].kind \in FwAnalog /\ c[1].channel = d[1].channel
    <3>1. c[1].channel \in Channels
      BY <2>0, <2>4, FwKinds
    <3>2. FwTwice(C, {p \in FW!OfKinds({"soil", "relay", "ldr"}) :
                        p.channel = c[1].channel})
      BY <1>2, <2>0, <2>4 DEF FwTwice, FW!OfKinds, FwAnalog
    <3>3. QED
      BY <3>1, <3>2 DEF FwConflict
  <2>5. QED
    BY <1>2, <2>1, <2>2, <2>3, <2>4 DEF FwPair
<1>3. ASSUME FwConflict(C)
      PROVE  \E c, d \in C : c # d /\ FwPair(c[1], d[1])
  BY <1>3 DEF FwConflict, FwTwice, FW!OfKinds, FwPair, FwAnalog
<1>4. QED
  BY <1>1, <1>2, <1>3

(* The tasks of a set of copies. *)
FwSlots(C) == UNION {{c} \X (1 .. FW!TasksOf(c[1])) : c \in C}

\* The cardinality of the instance is that of FiniteSets.
LEMMA FwCardinality == \A S : FW!Cardinality(S) = Cardinality(S)
BY DEF FW!Cardinality, Cardinality

(* TasksOf counts what Adds lists. *)
LEMMA FwTaskCount ==
  ASSUME NEW p \in FW!Pipelines
  PROVE  /\ IsFiniteSet(FW!Adds(p).tasks)
         /\ Cardinality(FW!Adds(p).tasks) = FW!TasksOf(p)
         /\ FW!TasksOf(p) \in Nat
<1>1. ASSUME NEW a, NEW b, a # b
      PROVE  IsFiniteSet({a, b}) /\ Cardinality({a, b}) = 2
  <2>1. IsFiniteSet({a}) /\ Cardinality({a}) = 1
    BY FS_Singleton
  <2>2. {a, b} = {a} \cup {b} /\ b \notin {a}
    BY <1>1
  <2>3. QED
    BY <2>1, <2>2, FS_AddElement
<1>2. CASE p.kind \in {"soil", "relay"}
  <2>1. FW!Adds(p).tasks = {<<"soil_fsm">>, <<p.id, "task">>}
    BY <1>2, FwTasksOf
  <2>2. <<"soil_fsm">> # <<p.id, "task">>
    BY FwTuples
  <2>3. FW!TasksOf(p) = 2
    BY <1>2 DEF FW!TasksOf
  <2>4. /\ IsFiniteSet({<<"soil_fsm">>, <<p.id, "task">>})
        /\ Cardinality({<<"soil_fsm">>, <<p.id, "task">>}) = 2
    BY <1>1, <2>2
  <2>5. QED
    BY <2>1, <2>3, <2>4
<1>3. CASE p.kind = "console"
  <2>1. FW!Adds(p).tasks = {<<"console_telemetry">>, <<"console_registration">>}
    BY <1>3, FwTasksOf
  <2>2. <<"console_telemetry">> # <<"console_registration">>
    BY FwTuples
  <2>3. FW!TasksOf(p) = 2
    BY <1>3 DEF FW!TasksOf
  <2>4. /\ IsFiniteSet({<<"console_telemetry">>, <<"console_registration">>})
        /\ Cardinality({<<"console_telemetry">>, <<"console_registration">>}) = 2
    BY <1>1, <2>2
  <2>5. QED
    BY <2>1, <2>3, <2>4
<1>4. CASE p.kind \in {"data", "ldr", "sht41", "bme280", "ds18b20"}
  <2>1. \E t : FW!Adds(p).tasks = {t}
    BY <1>4, FwTasksOf
  <2>2. FW!TasksOf(p) = 1
    BY <1>4 DEF FW!TasksOf
  <2>3. PICK t : FW!Adds(p).tasks = {t}
    BY <2>1
  <2>4. IsFiniteSet({t}) /\ Cardinality({t}) = 1
    BY FS_Singleton
  <2>5. QED
    BY <2>2, <2>3, <2>4
<1>5. CASE p.kind \notin {"soil", "relay", "console", "data", "ldr", "sht41", "bme280",
                          "ds18b20"}
  <2>1. FW!Adds(p).tasks = {}
    BY <1>5, FwTasksOf
  <2>2. FW!TasksOf(p) = 0
    BY <1>5 DEF FW!TasksOf
  <2>3. QED
    BY <2>1, <2>2, FS_EmptySet
<1>6. QED
  BY <1>2, <1>3, <1>4, <1>5

(* One more copy asks for the tasks of its pipeline. *)
LEMMA FwSlotsGrow ==
  ASSUME NEW C, NEW n, n \notin C, n[1] \in FW!Pipelines, IsFiniteSet(FwSlots(C))
  PROVE  /\ IsFiniteSet(FwSlots(C \cup {n}))
         /\ Cardinality(FwSlots(C \cup {n}))
              = Cardinality(FwSlots(C)) + FW!TasksOf(n[1])
<1> DEFINE k == FW!TasksOf(n[1])
           S == {n} \X (1 .. k)
<1>0. k \in Nat
  BY FwTaskCount
<1>1. IsFiniteSet(S) /\ Cardinality(S) = k
  <2>1. IsFiniteSet(1 .. k) /\ Cardinality(1 .. k) = k
    BY <1>0, FS_Interval
  <2>2. IsFiniteSet({n}) /\ Cardinality({n}) = 1
    BY FS_Singleton
  <2>3. IsFiniteSet(S) /\ Cardinality(S) = Cardinality({n}) * Cardinality(1 .. k)
    BY <2>1, <2>2, FS_Product
  <2>4. QED
    BY <1>0, <2>1, <2>2, <2>3
<1>2. FwSlots(C \cup {n}) = FwSlots(C) \cup S
  BY DEF FwSlots
<1>3. FwSlots(C) \cap S = {}
  BY DEF FwSlots
<1>4. Cardinality(FwSlots(C)) \in Nat
  BY FS_CardinalityType
<1> HIDE DEF k, S
<1>5. /\ IsFiniteSet(FwSlots(C) \cup S)
      /\ Cardinality(FwSlots(C) \cup S)
           = Cardinality(FwSlots(C)) + Cardinality(S) - Cardinality(FwSlots(C) \cap S)
  BY <1>1, FS_Union
<1>6. Cardinality({}) = 0
  BY FS_EmptySet
<1>7. Cardinality(FwSlots(C) \cup S) = Cardinality(FwSlots(C)) + k
  <2>1. Cardinality(FwSlots(C) \cap S) = 0
    BY <1>3, <1>6
  <2>2. Cardinality(S) = k
    BY <1>1
  <2>3. QED
    BY <1>0, <1>4, <1>5, <2>1, <2>2
<1>8. QED
  BY <1>2, <1>5, <1>7 DEF k

(* What a set of copies adds. *)
FwTasks(C) == UNION {FW!Adds(c[1]).tasks : c \in C}
FwStorages(C) == UNION {FW!Adds(c[1]).storages : c \in C}
FwChannels(C) == UNION {FW!Adds(c[1]).channels : c \in C}
FwHandlers(C) == UNION {FW!Adds(c[1]).handlers : c \in C}

\* What is there after one more pipeline.
LEMMA FwOneMore ==
  ASSUME NEW C, NEW n
  PROVE  /\ FwTasks(C \cup {n}) = FwTasks(C) \cup FW!Adds(n[1]).tasks
         /\ FwStorages(C \cup {n}) = FwStorages(C) \cup FW!Adds(n[1]).storages
         /\ FwChannels(C \cup {n}) = FwChannels(C) \cup FW!Adds(n[1]).channels
         /\ FwHandlers(C \cup {n}) = FwHandlers(C) \cup FW!Adds(n[1]).handlers
<1>1. FwTasks(C \cup {n}) = FwTasks(C) \cup FW!Adds(n[1]).tasks
  BY DEF FwTasks
<1>2. FwStorages(C \cup {n}) = FwStorages(C) \cup FW!Adds(n[1]).storages
  BY DEF FwStorages
<1>3. FwChannels(C \cup {n}) = FwChannels(C) \cup FW!Adds(n[1]).channels
  BY DEF FwChannels
<1>4. FwHandlers(C \cup {n}) = FwHandlers(C) \cup FW!Adds(n[1]).handlers
  BY DEF FwHandlers
<1>5. QED
  BY <1>1, <1>2, <1>3, <1>4

(* What is true of a firmware under construction or at run: it is what its *)
(* pipelines add, each once.                                               *)
FwTypes ==
  /\ asked \in [FW!Pipelines -> Nat]
  /\ state \in {"build", "run", "stopped"}
  /\ failed \in BOOLEAN
  /\ paths \in [FW!Paths -> Nat]

FwShares ==
  /\ firmware_tasks = FW!SystemPipeline.tasks \cup FwTasks(FW!Copies)
  /\ storages = FwStorages(FW!Copies)
  /\ channels = FwChannels(FW!Copies)
  /\ handlers = FwHandlers(FW!Copies)
  /\ ~FwClashIn(FW!Copies)

FwCounts ==
  /\ IsFiniteSet(firmware_tasks)
  /\ IsFiniteSet(FwSlots(FW!Copies))
  /\ Cardinality(firmware_tasks) = 1 + Cardinality(FwSlots(FW!Copies))
  /\ Cardinality(firmware_tasks) <= MaxCount

FwSaves == firmware_tasks \cap {<<"soil_fsm">>, <<"lifetime_counter_task">>} \subseteq reboot

FwPaths == \A p \in FW!Pipelines : \A path \in FW!Adds(p).paths : paths[path] <= asked[p]

FwReason == failed \/ FW!Conflict \/ FW!TooManyTasks \/ FW!EndpointTwice

FwInv ==
  /\ FwTypes
  /\ state # "stopped" => FwShares /\ FwCounts /\ FwSaves /\ FwPaths
  /\ state = "stopped" => FwReason

(* Conflict and TooManyTasks are about the copies alone. *)
LEMMA FwCopies ==
  ASSUME NEW c \in FW!Copies
  PROVE  c[1] \in FW!Pipelines
BY DEF FW!Copies

\* The inductive invariant implies the property.
LEMMA FwInvIs == FwInv => FW!AssemblyAccounted
<1> SUFFICES ASSUME FwInv
             PROVE  FW!AssemblyAccounted
  OBVIOUS
<1>1. FW!Conflict <=> FwConflict(FW!Copies)
  BY DEF FW!Conflict, FwConflict, FW!Twice, FwTwice
<1>2. FW!TasksAskedFor = FwSlots(FW!Copies)
  BY DEF FW!TasksAskedFor, FwSlots
<1>3. FW!TooManyTasks <=> 1 + Cardinality(FwSlots(FW!Copies)) > MaxCount
  BY <1>2, FwCardinality DEF FW!TooManyTasks
<1>4. FwClashIn(FW!Copies) <=> FwConflict(FW!Copies)
  BY FwConflictIs, FwCopies
<1>5. CASE state = "stopped"
  BY <1>5 DEF FwInv, FwReason, FW!AssemblyAccounted
<1>6. CASE state # "stopped"
  <2>1. FwShares /\ FwCounts /\ FwSaves
    BY <1>6 DEF FwInv
  <2>2. ~FW!Conflict
    BY <1>1, <1>4, <2>1 DEF FwShares
  <2>3. ~FW!TooManyTasks
    <3>1. Cardinality(FwSlots(FW!Copies)) \in Nat /\ MaxCount \in Nat
      BY <2>1, FS_CardinalityType, ComponentsAssumption DEF FwCounts, FW!FirmwareAssumption
    <3>2. QED
      BY <1>3, <2>1, <3>1 DEF FwCounts
  <2>4. QED
    BY <1>6, <2>1, <2>2, <2>3 DEF FW!AssemblyAccounted, FwSaves
<1>7. QED
  BY <1>5, <1>6

(* At first there are no pipelines, and the system pipeline has a task.    *)
LEMMA FwInit == FW!Init => FwInv
<1> SUFFICES ASSUME FW!Init
             PROVE  FwInv
  OBVIOUS
<1>1. FW!Copies = {}
  BY DEF FW!Init, FW!Copies
<1>2. FwTypes /\ state # "stopped" /\ FwPaths
  <2>1. FwTypes /\ state # "stopped"
    BY DEF FW!Init, FwTypes
  <2>2. ASSUME NEW p \in FW!Pipelines, NEW path \in FW!Adds(p).paths
        PROVE  paths[path] <= asked[p]
    <3>1. path \in FW!Paths
      BY DEF FW!Paths
    <3>2. paths[path] = 0 /\ asked[p] = 0
      BY <3>1 DEF FW!Init
    <3>3. QED
      BY <3>2
  <2>3. QED
    BY <2>1, <2>2 DEF FwPaths
<1>3. FwShares
  BY <1>1 DEF FwShares, FwClashIn, FW!Init, FwTasks, FwStorages, FwChannels, FwHandlers
<1>4. FwCounts
  <2>1. FwSlots(FW!Copies) = {}
    BY <1>1 DEF FwSlots
  <2>2. FW!SystemPipeline.tasks = {<<"system_async_func_scheduler">>}
    BY DEF FW!SystemPipeline, FW!Nothing
  <2>3. IsFiniteSet(firmware_tasks) /\ Cardinality(firmware_tasks) = 1
    BY <2>2, FS_Singleton DEF FW!Init
  <2>4. IsFiniteSet(FwSlots(FW!Copies)) /\ Cardinality(FwSlots(FW!Copies)) = 0
    BY <2>1, FS_EmptySet
  <2>5. QED
    BY <2>3, <2>4, ComponentsAssumption DEF FwCounts, FW!FirmwareAssumption
<1>5. FwSaves
  BY FwTuples DEF FwSaves, FW!Init, FW!SystemPipeline, FW!Nothing
<1>6. QED
  BY <1>2, <1>3, <1>4, <1>5 DEF FwInv

(* Each pipeline asked for is a copy more.                                 *)
LEMMA FwCopiesGrow ==
  ASSUME FwTypes, NEW p \in FW!Pipelines, asked' = [asked EXCEPT ![p] = @ + 1]
  PROVE  /\ FW!Copies' = FW!Copies \cup {<<p, asked[p] + 1>>}
         /\ <<p, asked[p] + 1>> \notin FW!Copies
<1>0. asked[p] \in Nat
  BY DEF FwTypes
<1>1. \A c : c \in FW!Copies <=>
        \E q \in FW!Pipelines : \E i \in 1 .. asked[q] : c = <<q, i>>
  BY DEF FW!Copies
<1>2. \A c : c \in FW!Copies' <=>
        \E q \in FW!Pipelines : \E i \in 1 .. asked'[q] : c = <<q, i>>
  BY DEF FW!Copies
<1>3. \A q \in FW!Pipelines : asked'[q] = IF q = p THEN asked[q] + 1 ELSE asked[q]
  BY DEF FwTypes
<1>4. <<p, asked[p] + 1>> \notin FW!Copies
  BY <1>0, <1>1
<1>5. ASSUME NEW c \in FW!Copies'
      PROVE  c \in FW!Copies \cup {<<p, asked[p] + 1>>}
  <2>1. PICK q \in FW!Pipelines : \E i \in 1 .. asked'[q] : c = <<q, i>>
    BY <1>2, <1>5
  <2>2. PICK i \in 1 .. asked'[q] : c = <<q, i>>
    BY <2>1
  <2>3. CASE q = p /\ i = asked[p] + 1
    BY <2>2, <2>3
  <2>4. CASE ~(q = p /\ i = asked[p] + 1)
    <3>1. i \in 1 .. asked[q]
      BY <1>0, <1>3, <2>4
    <3>2. QED
      BY <1>1, <2>2, <3>1
  <2>5. QED
    BY <2>3, <2>4
<1>6. ASSUME NEW c \in FW!Copies
      PROVE  c \in FW!Copies'
  <2>1. PICK q \in FW!Pipelines : \E i \in 1 .. asked[q] : c = <<q, i>>
    BY <1>1, <1>6
  <2>2. PICK i \in 1 .. asked[q] : c = <<q, i>>
    BY <2>1
  <2>3. i \in 1 .. asked'[q]
    BY <1>3, asked[q] \in Nat DEF FwTypes
  <2>4. QED
    BY <1>2, <2>2, <2>3
<1>7. <<p, asked[p] + 1>> \in FW!Copies'
  <2>1. asked[p] + 1 \in 1 .. asked'[p]
    BY <1>0, <1>3
  <2>2. QED
    BY <1>2, <2>1
<1>8. QED
  BY <1>4, <1>5, <1>6, <1>7

(* A pipeline that is refused is in conflict with another one, or there    *)
(* are too many tasks.                                                     *)
LEMMA FwRefused ==
  ASSUME FwInv, state = "build", NEW p \in FW!Pipelines,
         asked' = [asked EXCEPT ![p] = @ + 1], ~FW!Accepted(FW!Adds(p))
  PROVE  FW!Conflict' \/ FW!TooManyTasks'
<1> DEFINE n == <<p, asked[p] + 1>>
<1>0. FwTypes /\ FwShares /\ FwCounts
  BY DEF FwInv
<1>1. FW!Copies' = FW!Copies \cup {n} /\ n \notin FW!Copies /\ n[1] = p
  BY <1>0, FwCopiesGrow
<1>2. FW!Conflict' <=> FwConflict(FW!Copies')
  BY DEF FW!Conflict, FwConflict, FW!Twice, FwTwice
<1>3. \A c \in FW!Copies' : c[1] \in FW!Pipelines
  BY DEF FW!Copies
<1>4. FwClashIn(FW!Copies') <=> FwConflict(FW!Copies')
  BY <1>3, FwConflictIs
<1>5. ASSUME NEW c \in FW!Copies, FwClash(FW!Adds(c[1]), FW!Adds(p))
      PROVE  FW!Conflict'
  <2>1. c \in FW!Copies' /\ n \in FW!Copies' /\ c # n
    BY <1>1
  <2>2. FwClashIn(FW!Copies')
    BY <1>1, <1>5, <2>1 DEF FwClashIn
  <2>3. QED
    BY <1>2, <1>4, <2>2
<1> HIDE DEF n
<1>6. CASE FW!Adds(p).tasks \cap firmware_tasks # {}
  <2>1. PICK t : t \in FW!Adds(p).tasks /\ t \in firmware_tasks
    BY <1>6
  <2>2. t \notin FW!SystemPipeline.tasks
    <3>1. FW!SystemPipeline.tasks = {<<"system_async_func_scheduler">>}
      BY DEF FW!SystemPipeline, FW!Nothing
    <3>2. <<"system_async_func_scheduler">> \notin FW!Adds(p).tasks
      <4>1. ASSUME NEW m, <<"system_async_func_scheduler">> = <<m>>
            PROVE  m \notin FwNames(p.kind)
        BY <4>1 DEF FwNames
      <4>2. QED
        BY <4>1, FwTaskIs, FwTuples
    <3>3. QED
      BY <2>1, <3>1, <3>2
  <2>3. PICK c \in FW!Copies : t \in FW!Adds(c[1]).tasks
    BY <1>0, <2>1, <2>2 DEF FwShares, FwTasks
  <2>4. FwClash(FW!Adds(c[1]), FW!Adds(p))
    BY <2>1, <2>3 DEF FwClash
  <2>5. QED
    BY <1>5, <2>4
<1>7. CASE FW!Adds(p).storages \cap storages # {}
  <2>1. PICK t : t \in FW!Adds(p).storages /\ t \in storages
    BY <1>7
  <2>2. PICK c \in FW!Copies : t \in FW!Adds(c[1]).storages
    BY <1>0, <2>1 DEF FwShares, FwStorages
  <2>3. QED
    BY <1>5, <2>1, <2>2 DEF FwClash
<1>8. CASE FW!Adds(p).channels \cap channels # {}
  <2>1. PICK t : t \in FW!Adds(p).channels /\ t \in channels
    BY <1>8
  <2>2. PICK c \in FW!Copies : t \in FW!Adds(c[1]).channels
    BY <1>0, <2>1 DEF FwShares, FwChannels
  <2>3. QED
    BY <1>5, <2>1, <2>2 DEF FwClash
<1>9. CASE FW!Adds(p).handlers \cap handlers # {}
  <2>1. PICK t : t \in FW!Adds(p).handlers /\ t \in handlers
    BY <1>9
  <2>2. PICK c \in FW!Copies : t \in FW!Adds(c[1]).handlers
    BY <1>0, <2>1 DEF FwShares, FwHandlers
  <2>3. QED
    BY <1>5, <2>1, <2>2 DEF FwClash
<1>10. CASE ~(Cardinality(firmware_tasks) + Cardinality(FW!Adds(p).tasks) <= MaxCount)
  <2>1. Cardinality(FwSlots(FW!Copies')) = Cardinality(FwSlots(FW!Copies)) + FW!TasksOf(p)
    BY <1>0, <1>1, FwSlotsGrow DEF FwCounts
  <2>2. Cardinality(FwSlots(FW!Copies)) \in Nat
    BY <1>0, FS_CardinalityType DEF FwCounts
  <2>3. MaxCount \in Nat
    BY ComponentsAssumption DEF FW!FirmwareAssumption
  <2>4. Cardinality(firmware_tasks) = 1 + Cardinality(FwSlots(FW!Copies))
    BY <1>0 DEF FwCounts
  <2>5. 1 + Cardinality(FwSlots(FW!Copies')) > MaxCount
    BY <1>10, <2>1, <2>2, <2>3, <2>4, FwTaskCount
  <2>6. FW!TasksAskedFor' = FwSlots(FW!Copies')
    BY DEF FW!TasksAskedFor, FwSlots
  <2>7. QED
    BY <2>5, <2>6, FwCardinality DEF FW!TooManyTasks
<1>11. QED
  BY <1>6, <1>7, <1>8, <1>9, <1>10, FwCardinality
  DEF FW!Accepted, FW!SchedulerAdd, FW!StorageBuilderMake, FW!AdcStoreAdd, FW!SuspenderAdd

(* No endpoint belongs to two kinds of pipelines. *)
LEMMA FwPathOnce ==
  ASSUME NEW p \in FW!Pipelines, NEW q \in FW!Pipelines,
         NEW path \in FW!Adds(p).paths, path \in FW!Adds(q).paths
  PROVE  p = q /\ p.kind \in {"http", "time", "web", "ds18b20 handler", "sht41 handler"}
<1>1. /\ p.kind = q.kind
      /\ p.kind \in {"http", "time", "web", "ds18b20 handler", "sht41 handler"}
  BY FwPathsOf
<1>2. p.id = q.id /\ p.channel = q.channel
  BY <1>1, FwKinds DEF FwPlain
<1>3. p = q
  <2>1. ASSUME NEW r \in FW!Pipelines
        PROVE  r = [kind |-> r.kind, id |-> r.id, channel |-> r.channel]
    BY DEF FW!Pipelines
  <2>2. QED
    BY <1>1, <1>2, <2>1
<1>4. QED
  BY <1>1, <1>3

(* A pipeline that is accepted adds what nobody has added.                 *)
LEMMA FwAccepted ==
  ASSUME FwInv, state = "build", NEW p \in FW!Pipelines, FW!Construct(p),
         FW!Accepted(FW!Adds(p))
  PROVE  FwInv'
<1> DEFINE n == <<p, asked[p] + 1>>
           a == FW!Adds(p)
<1>0. FwTypes /\ FwShares /\ FwCounts /\ FwSaves /\ FwPaths
  BY DEF FwInv
<1>a. /\ asked' = [asked EXCEPT ![p] = @ + 1]
      /\ firmware_tasks' = firmware_tasks \cup a.tasks
      /\ storages' = storages \cup a.storages
      /\ channels' = channels \cup a.channels
      /\ handlers' = handlers \cup a.handlers
      /\ reboot' = reboot \cup a.reboot
      /\ paths' = [path \in FW!Paths |->
                    IF path \in a.paths THEN paths[path] + 1 ELSE paths[path]]
      /\ state' = state /\ failed' = failed
  BY DEF FW!Construct
<1>b. /\ a.tasks \cap firmware_tasks = {}
      /\ a.storages \cap storages = {}
      /\ a.channels \cap channels = {}
      /\ a.handlers \cap handlers = {}
      /\ Cardinality(firmware_tasks) + Cardinality(a.tasks) <= MaxCount
  BY FwCardinality DEF FW!Accepted, FW!SchedulerAdd, FW!StorageBuilderMake,
     FW!AdcStoreAdd, FW!SuspenderAdd
<1>c. FW!Copies' = FW!Copies \cup {n} /\ n \notin FW!Copies /\ n[1] = p
  BY <1>0, <1>a, FwCopiesGrow
<1>d. FW!Adds(n[1]) = a
  BY <1>c
<1> HIDE DEF n, a
<1>1. FwTypes'
  BY <1>0, <1>a DEF FwTypes
<1>2. FwShares'
  <2>1. /\ FwTasks(FW!Copies') = FwTasks(FW!Copies) \cup a.tasks
        /\ FwStorages(FW!Copies') = FwStorages(FW!Copies) \cup a.storages
        /\ FwChannels(FW!Copies') = FwChannels(FW!Copies) \cup a.channels
        /\ FwHandlers(FW!Copies') = FwHandlers(FW!Copies) \cup a.handlers
    BY <1>c, <1>d, FwOneMore
  <2>2. ASSUME NEW c \in FW!Copies
        PROVE  ~FwClash(FW!Adds(c[1]), a) /\ ~FwClash(a, FW!Adds(c[1]))
    <3>1. /\ FW!Adds(c[1]).tasks \subseteq firmware_tasks
          /\ FW!Adds(c[1]).storages \subseteq storages
          /\ FW!Adds(c[1]).channels \subseteq channels
          /\ FW!Adds(c[1]).handlers \subseteq handlers
      BY <1>0, <2>2 DEF FwShares, FwTasks, FwStorages, FwChannels, FwHandlers
    <3>2. QED
      BY <1>b, <3>1 DEF FwClash
  <2>3. ~FwClashIn(FW!Copies')
    BY <1>0, <1>c, <1>d, <2>2 DEF FwShares, FwClashIn
  <2>4. QED
    BY <1>0, <1>a, <2>1, <2>3 DEF FwShares
<1>3. FwCounts'
  <2>1. /\ IsFiniteSet(FwSlots(FW!Copies'))
        /\ Cardinality(FwSlots(FW!Copies')) = Cardinality(FwSlots(FW!Copies)) + FW!TasksOf(p)
    BY <1>0, <1>c, FwSlotsGrow DEF FwCounts
  <2>2. IsFiniteSet(a.tasks) /\ Cardinality(a.tasks) = FW!TasksOf(p) /\ FW!TasksOf(p) \in Nat
    BY FwTaskCount DEF a
  <2>3. /\ IsFiniteSet(firmware_tasks \cup a.tasks)
        /\ Cardinality(firmware_tasks \cup a.tasks)
             = Cardinality(firmware_tasks) + Cardinality(a.tasks)
                 - Cardinality(firmware_tasks \cap a.tasks)
    BY <1>0, <2>2, FS_Union DEF FwCounts
  <2>4. Cardinality(firmware_tasks \cap a.tasks) = 0
    <3>1. firmware_tasks \cap a.tasks = {}
      BY <1>b
    <3>2. QED
      BY <3>1, FS_EmptySet
  <2>5. /\ Cardinality(firmware_tasks) \in Nat
        /\ Cardinality(FwSlots(FW!Copies)) \in Nat
        /\ Cardinality(firmware_tasks) = 1 + Cardinality(FwSlots(FW!Copies))
    BY <1>0, FS_CardinalityType DEF FwCounts
  <2>6. Cardinality(firmware_tasks') = Cardinality(firmware_tasks) + FW!TasksOf(p)
    BY <1>a, <2>2, <2>3, <2>4, <2>5
  <2>7. IsFiniteSet(firmware_tasks')
    BY <1>a, <2>3
  <2>8. Cardinality(firmware_tasks') = 1 + Cardinality(FwSlots(FW!Copies'))
    BY <2>1, <2>2, <2>5, <2>6
  <2>9. Cardinality(firmware_tasks') <= MaxCount
    BY <1>b, <2>2, <2>6
  <2>10. QED
    BY <2>1, <2>7, <2>8, <2>9 DEF FwCounts
<1>4. FwSaves'
  <2>1. a.tasks \cap {<<"soil_fsm">>, <<"lifetime_counter_task">>} \subseteq a.reboot
    <3>1. ASSUME <<"soil_fsm">> \in a.tasks
          PROVE  <<"soil_fsm">> \in a.reboot
      <4>1. p.kind \in {"soil", "relay"}
        <5>1. ASSUME NEW m, <<"soil_fsm">> = <<m>>, m \in FwNames(p.kind)
              PROVE  p.kind \in {"soil", "relay"}
          BY <5>1 DEF FwNames
        <5>2. QED
          BY <3>1, <5>1, FwTaskIs, FwTuples DEF a
      <4>2. QED
        BY <4>1, FwRebootOf DEF a
    <3>2. ASSUME <<"lifetime_counter_task">> \in a.tasks
          PROVE  <<"lifetime_counter_task">> \in a.reboot
      <4>1. p.kind = "data"
        <5>1. ASSUME NEW m, <<"lifetime_counter_task">> = <<m>>, m \in FwNames(p.kind)
              PROVE  p.kind = "data"
          BY <5>1 DEF FwNames
        <5>2. QED
          BY <3>2, <5>1, FwTaskIs, FwTuples DEF a
      <4>2. QED
        BY <4>1, FwRebootOf DEF a
    <3>3. QED
      BY <3>1, <3>2
  <2>2. QED
    BY <1>0, <1>a, <2>1 DEF FwSaves
<1>5. FwPaths'
  <2>1. ASSUME NEW q \in FW!Pipelines, NEW path \in FW!Adds(q).paths
        PROVE  paths'[path] <= asked'[q]
    <3>1. /\ path \in FW!Paths
          /\ paths[path] \in Nat /\ asked[q] \in Nat
          /\ paths[path] <= asked[q]
      BY <1>0 DEF FW!Paths, FwTypes, FwPaths
    <3>2. asked'[q] = IF q = p THEN asked[q] + 1 ELSE asked[q]
      BY <1>0, <1>a DEF FwTypes
    <3>3. path \in a.paths => q = p
      BY FwPathOnce DEF a
    <3>4. paths'[path] = IF path \in a.paths THEN paths[path] + 1 ELSE paths[path]
      BY <1>a, <3>1
    <3>5. QED
      BY <3>1, <3>2, <3>3, <3>4
  <2>2. QED
    BY <2>1 DEF FwPaths
<1>6. QED
  BY <1>1, <1>2, <1>3, <1>4, <1>5, <1>a DEF FwInv

(* An endpoint that is there twice was added by two pipelines of one kind. *)
LEMMA FwServed ==
  ASSUME FwInv, state = "run", NEW path \in FW!Paths, paths[path] > 1
  PROVE  FW!EndpointTwice \/ FW!Conflict
<1>0. FwTypes /\ FwPaths
  BY DEF FwInv
<1>1. PICK p \in FW!Pipelines : path \in FW!Adds(p).paths
  BY DEF FW!Paths
<1>2. asked[p] \in Nat /\ asked[p] > 1
  BY <1>0, <1>1 DEF FwPaths, FwTypes
<1>3. p.kind \in {"http", "time", "web", "ds18b20 handler", "sht41 handler"}
  BY <1>1, FwPathOnce
<1>4. <<p, 1>> \in FW!Copies /\ <<p, 2>> \in FW!Copies
  BY <1>2 DEF FW!Copies
<1>5. FW!Twice(FW!OfKinds({p.kind}))
  <2>1. <<p, 1>> # <<p, 2>> /\ <<p, 1>>[1] = p /\ <<p, 2>>[1] = p
    OBVIOUS
  <2>2. p \in FW!OfKinds({p.kind})
    BY DEF FW!OfKinds
  <2>3. QED
    BY <1>4, <2>1, <2>2 DEF FW!Twice
<1>6. QED
  BY <1>3, <1>5 DEF FW!EndpointTwice, FW!Conflict

\* Constructors, failing drivers and the two starts keep the invariant.
LEMMA FwNext == FwInv /\ [FW!Next]_(FW!vars) => FwInv'
<1> SUFFICES ASSUME FwInv, [FW!Next]_(FW!vars)
             PROVE  FwInv'
  OBVIOUS
<1>1. ASSUME NEW p \in FW!Pipelines, FW!Construct(p)
      PROVE  FwInv'
  <2>1. state = "build"
    BY <1>1 DEF FW!Construct
  <2>2. CASE FW!Accepted(FW!Adds(p))
    BY <1>1, <2>1, <2>2, FwAccepted
  <2>3. CASE ~FW!Accepted(FW!Adds(p))
    <3>1. asked' = [asked EXCEPT ![p] = @ + 1] /\ state' = "stopped"
          /\ failed' = failed /\ paths' = paths
      BY <1>1, <2>3 DEF FW!Construct, FW!added
    <3>2. FW!Conflict' \/ FW!TooManyTasks'
      BY <2>1, <2>3, <3>1, FwRefused
    <3>3. FwTypes'
      BY <3>1 DEF FwInv, FwTypes
    <3>4. QED
      BY <3>1, <3>2, <3>3 DEF FwInv, FwReason
  <2>4. QED
    BY <2>2, <2>3
<1>2. CASE FW!DriverFails
  BY <1>2 DEF FW!DriverFails, FwInv, FwTypes, FwReason, FW!added
<1>3. ASSUME UNCHANGED <<asked, failed, FW!added>>, state # "stopped",
             state' \in {"build", "run"}
      PROVE  FwInv'
  <2>1. FW!Copies' = FW!Copies
    BY <1>3 DEF FW!Copies
  <2>2. FwTypes /\ FwShares /\ FwCounts /\ FwSaves /\ FwPaths
    BY <1>3 DEF FwInv
  <2>3. FwTypes' /\ FwSaves' /\ FwPaths'
    BY <1>3, <2>2 DEF FwTypes, FwSaves, FwPaths, FW!added
  <2>4. FwShares' /\ FwCounts'
    BY <1>3, <2>1, <2>2 DEF FwShares, FwCounts, FW!added
  <2>5. QED
    BY <1>3, <2>3, <2>4 DEF FwInv
<1>4. CASE FW!Start
  BY <1>3, <1>4 DEF FW!Start
<1>5. CASE FW!StartServer
  <2>1. CASE \E path \in FW!Paths : paths[path] > 1
    <3>1. /\ state = "run" /\ state' = "stopped"
          /\ UNCHANGED <<asked, failed, FW!added>>
      BY <1>5, <2>1 DEF FW!StartServer
    <3>2. FW!EndpointTwice \/ FW!Conflict
      BY <2>1, <3>1, FwServed
    <3>3. FW!Copies' = FW!Copies
      BY <3>1 DEF FW!Copies
    <3>4. (FW!EndpointTwice \/ FW!Conflict)'
      BY <3>2, <3>3 DEF FW!EndpointTwice, FW!Conflict, FW!Twice
    <3>5. FwTypes'
      BY <3>1 DEF FwInv, FwTypes, FW!added
    <3>6. QED
      BY <3>1, <3>4, <3>5 DEF FwInv, FwReason
  <2>2. CASE ~\E path \in FW!Paths : paths[path] > 1
    BY <1>3, <1>5, <2>2 DEF FW!StartServer
  <2>3. QED
    BY <2>1, <2>2
<1>6. CASE UNCHANGED FW!vars
  <2>1. UNCHANGED <<asked, state, failed, FW!added>>
    BY <1>6 DEF FW!vars
  <2>2. CASE state = "stopped"
    <3>1. FW!Copies' = FW!Copies
      BY <2>1 DEF FW!Copies
    <3>2. FW!TasksAskedFor' = FW!TasksAskedFor
      BY <3>1 DEF FW!TasksAskedFor
    <3>3. FwReason
      BY <2>2 DEF FwInv
    <3>4. FwReason'
      BY <2>1, <3>1, <3>2, <3>3
      DEF FwReason, FW!EndpointTwice, FW!Conflict, FW!Twice, FW!TooManyTasks
    <3>5. FwTypes'
      BY <2>1 DEF FwInv, FwTypes, FW!added
    <3>6. QED
      BY <2>1, <2>2, <3>4, <3>5 DEF FwInv
  <2>3. CASE state # "stopped"
    BY <1>3, <2>1, <2>3 DEF FwInv, FwTypes
  <2>4. QED
    BY <2>2, <2>3
<1>7. QED
  BY <1>1, <1>2, <1>4, <1>5, <1>6 DEF FW!Next

(* Whether pipelines make a firmware does not depend on the order of their *)
(* constructors (ocs_pipeline): for any identifiers, channels and limit of *)
(* tasks the device stops for a conflict, for too many tasks, an endpoint  *)
(* that is there twice or a driver, and for nothing else.                  *)
THEOREM Assembly == Spec => []AssemblyAccounted
<1>1. FW!Init => FwInv
  BY FwInit
<1>2. FwInv /\ [FW!Next]_(FW!vars) => FwInv'
  BY FwNext
<1>3. FwInv => AssemblyAccounted
  BY FwInvIs DEF AssemblyAccounted
<1>4. QED
  BY <1>1, <1>2, <1>3, SchedulingSpecs, PTL DEF FW!Spec
=============================================================================
