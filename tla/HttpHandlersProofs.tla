-------------------------- MODULE HttpHandlersProofs --------------------------
(***************************************************************************)
(* Proofs about HttpHandlers: a function uses the variables of a handler   *)
(* only while that handler waits for it, what the client got fits what     *)
(* the handler has come to, and a document arrives with every field, once, *)
(* for every set of counters, sensors, tasks and files.  The handlers are  *)
(* concatenations of the formatters of any number of sensors, so the       *)
(* lemmas start with induction over sequences.                             *)
(***************************************************************************)
EXTENDS HttpHandlers, FiniteSetTheorems, SequenceTheorems, TLAPS

-----------------------------------------------------------------------------
(* The inductive invariant. *)

Listed(s) == s \in Seq(ToSet(s))

(* The calls of a handler that has neither failed nor sent anything: it    *)
(* sends at its end only, and waits for what it has handed over at once.   *)
Ordered(c) ==
  /\ Listed(c) /\ c # <<>>
  /\ \A i \in DOMAIN c :
       /\ "OK" \notin c[i].errors
       /\ c[i].do \in IF i = Len(c) THEN {"send", "open"}
                                    ELSE {"try", "add", "schedule", "wait"}
       /\ c[i].do = "send" => c[i].arg[1] \in {"body", "redirect"}
       /\ c[i].do = "schedule" => c[i].arg[1] \in Schedulers /\ c[i + 1].do = "wait"

(* The chunks sent so far are the first pos bytes of the file. *)
SentUpTo(chunks, pos) ==
  /\ \A i \in DOMAIN chunks :
       chunks[i].from = IF i = 1 THEN 0 ELSE chunks[i - 1].from + chunks[i - 1].size
  /\ pos = IF chunks = <<>> THEN 0
                            ELSE chunks[Len(chunks)].from + chunks[Len(chunks)].size

Answered(items) ==
  \/ Len(items) = 1 /\ items[1].is \in {"body", "redirect"}
  \/ WholeFile(items)

FileInv ==
  /\ file = [open |-> file.open, size |-> file.size, pos |-> file.pos, eof |-> file.eof]
  /\ file.size \in Nat /\ file.pos \in 0..file.size
  /\ file.eof \in BOOLEAN /\ (file.eof => file.pos = file.size)

Pending ==
  /\ request # NoRequest /\ code = "OK" /\ wire = <<>>
  /\ CASE request = "unknown" -> calls = Handlers["unknown"]
       [] request = "reboot" -> calls \in {Handlers["reboot"], Tail(Handlers["reboot"])}
       [] OTHER -> Ordered(calls)

(* The handler of the reboot answers first. *)
Rebooting ==
  /\ request # NoRequest /\ code = "OK"
  /\ calls \in {Execute("system", "reboot"), Tail(Execute("system", "reboot"))}
  /\ connected => Answered(wire)

Copying ==
  /\ request # NoRequest /\ code = "OK" /\ Listed(calls)
  /\ Len(calls) = 1 /\ calls[1].do = "copy"
  /\ SentUpTo(wire, file.pos)

Ending ==
  /\ request # NoRequest /\ Listed(calls)
  /\ Len(calls) = 1 /\ calls[1].do = "end"
  /\ code = "OK" => file.eof /\ SentUpTo(wire, file.pos)

Returned ==
  /\ request # NoRequest /\ calls = <<>>
  /\ code = "OK" /\ connected => Answered(wire)

Idle == request = NoRequest /\ calls = <<>> /\ AnswerFitsOutcome

AnswerInv ==
  /\ Listed(wire) /\ FileInv
  /\ Pending \/ Rebooting \/ Copying \/ Ending \/ Returned \/ Idle

Function(f) == f = [function |-> f.function, calls |-> f.calls, frame |-> f.frame]

Functions ==
  /\ queue = [s \in Schedulers |-> queue[s]]
  /\ \A s \in Schedulers :
       Listed(queue[s]) /\ \A i \in DOMAIN queue[s] : Function(queue[s][i])
  /\ Listed(running) /\ Len(running) <= 1
  /\ \A i \in DOMAIN running : Function(running[i])

(* At most one function may use the variables of a handler, the one whose  *)
(* future is waited for.                                                   *)
OneAlive ==
  /\ \A s, t \in Schedulers : \A i \in DOMAIN queue[s], j \in DOMAIN queue[t] :
       queue[s][i].frame = "alive" /\ queue[t][j].frame = "alive" => s = t /\ i = j
  /\ \A s \in Schedulers : \A i \in DOMAIN queue[s], j \in DOMAIN running :
       ~(queue[s][i].frame = "alive" /\ running[j].frame = "alive")

AliveAwaited ==
  /\ \A s \in Schedulers : \A i \in DOMAIN queue[s] :
       queue[s][i].frame = "alive" => Next1("wait") /\ future = "Last"
  /\ \A i \in DOMAIN running :
       running[i].frame = "alive" => Next1("wait") /\ future = "Last"

IInv == AnswerInv /\ Functions /\ OneAlive /\ AliveAwaited

-----------------------------------------------------------------------------
(* Sequences. *)

(* A set of naturals with zero and the successor of each member has all of *)
(* them: the successors of its members below a missing m would be fewer.   *)
LEMMA Induction ==
  ASSUME NEW S, 0 \in S, \A n \in Nat : n \in S => n + 1 \in S
  PROVE  Nat \subseteq S
<1> SUFFICES ASSUME NEW m \in Nat, m \notin S PROVE FALSE
  OBVIOUS
<1> DEFINE T == (0 .. m) \cap S
           f == [n \in T |-> n + 1]
<1>1. IsFiniteSet(T)
  <2>1. IsFiniteSet(0 .. m)
    BY FS_Interval
  <2>2. QED
    BY <2>1, FS_Subset
<1>2. 0 \in T
  OBVIOUS
<1>3. IsFiniteSet(T \ {0}) /\ Cardinality(T \ {0}) = Cardinality(T) - 1
  BY <1>1, <1>2, FS_RemoveElement
<1>4. Cardinality(T) \in Nat
  BY <1>1, FS_CardinalityType
<1>5. f \in [T -> T \ {0}]
  OBVIOUS
<1>6. PICK x \in T, y \in T : x # y /\ f[x] = f[y]
  <2> HIDE DEF T, f
  <2>1. QED
    BY <1>1, <1>3, <1>4, <1>5, FS_PigeonHole
<1>7. QED
  BY <1>6

\* Sequences are functions on 1 .. n, and so are what is built from them.
LEMMA ListedSeq ==
  ASSUME NEW S, NEW s \in Seq(S)
  PROVE  Listed(s)
BY DEF Listed, ToSet

LEMMA ListedLen ==
  ASSUME NEW s, Listed(s)
  PROVE  /\ Len(s) \in Nat /\ DOMAIN s = 1 .. Len(s)
         /\ s = <<>> <=> Len(s) = 0
         /\ s # <<>> => Head(s) = s[1]
BY DEF Listed

LEMMA ListedTail ==
  ASSUME NEW s, Listed(s), s # <<>>
  PROVE  /\ Listed(Tail(s)) /\ Len(Tail(s)) = Len(s) - 1
         /\ \A i \in 1 .. Len(s) - 1 : Tail(s)[i] = s[i + 1]
<1>1. s \in Seq(ToSet(s))
  BY DEF Listed
<1>2. Tail(s) \in Seq(ToSet(s))
  BY <1>1
<1>3. Listed(Tail(s))
  BY <1>2, ListedSeq
<1>4. QED
  BY <1>1, <1>3

LEMMA ListedAppend ==
  ASSUME NEW s, Listed(s), NEW e
  PROVE  /\ Listed(Append(s, e)) /\ Len(Append(s, e)) = Len(s) + 1
         /\ \A i \in 1 .. Len(s) : Append(s, e)[i] = s[i]
         /\ Append(s, e)[Len(s) + 1] = e
<1> DEFINE S == ToSet(s) \cup {e}
<1>1. s \in Seq(S)
  BY DEF Listed
<1>2. Append(s, e) \in Seq(S)
  BY <1>1
<1>3. Listed(Append(s, e))
  BY <1>2, ListedSeq
<1> HIDE DEF S
<1>4. e \in S
  BY DEF S
<1>5. QED
  BY <1>1, <1>3, <1>4

LEMMA ListedConcat ==
  ASSUME NEW s, NEW t, Listed(s), Listed(t)
  PROVE  /\ Listed(s \o t) /\ Len(s \o t) = Len(s) + Len(t)
         /\ \A i \in 1 .. Len(s) : (s \o t)[i] = s[i]
         /\ \A i \in 1 .. Len(t) : (s \o t)[Len(s) + i] = t[i]
<1> DEFINE S == ToSet(s) \cup ToSet(t)
<1>1. s \in Seq(S) /\ t \in Seq(S)
  BY DEF Listed
<1>2. s \o t \in Seq(S)
  BY <1>1
<1>3. Listed(s \o t)
  BY <1>2, ListedSeq
<1> HIDE DEF S
<1>4. QED
  BY <1>1, <1>3

(* An element of a concatenation is one of the parts. *)
LEMMA ConcatElement ==
  ASSUME NEW s, NEW t, Listed(s), Listed(t), NEW i \in DOMAIN (s \o t)
  PROVE  \/ i \in DOMAIN s /\ (s \o t)[i] = s[i]
         \/ \E j \in DOMAIN t : i = Len(s) + j /\ (s \o t)[i] = t[j]
<1>1. /\ Listed(s \o t) /\ Len(s \o t) = Len(s) + Len(t)
      /\ \A k \in 1 .. Len(s) : (s \o t)[k] = s[k]
      /\ \A k \in 1 .. Len(t) : (s \o t)[Len(s) + k] = t[k]
  BY ListedConcat
<1>2. /\ Len(s) \in Nat /\ DOMAIN s = 1 .. Len(s)
      /\ Len(t) \in Nat /\ DOMAIN t = 1 .. Len(t)
      /\ DOMAIN (s \o t) = 1 .. Len(s \o t)
  BY <1>1, ListedLen
<1>3. CASE i <= Len(s)
  BY <1>1, <1>2, <1>3
<1>4. CASE i > Len(s)
  <2>1. i - Len(s) \in 1 .. Len(t) /\ i = Len(s) + (i - Len(s))
    BY <1>1, <1>2, <1>4
  <2>2. QED
    BY <1>1, <1>2, <2>1
<1>5. QED
  BY <1>1, <1>2, <1>3, <1>4

-----------------------------------------------------------------------------
(* The calls of a formatter: it tries and adds, and fails with an error.   *)

Calmly(call) ==
  /\ call = [do |-> call.do, arg |-> call.arg, errors |-> call.errors]
  /\ call.do \in {"try", "add"} /\ "OK" \notin call.errors

Calm(c) == Listed(c) /\ \A i \in DOMAIN c : Calmly(c[i])

\* A sequence of calls without responses stays one when joined, flattened or made
\* from calls that are no responses.
LEMMA CalmConcat ==
  ASSUME NEW s, NEW t, Calm(s), Calm(t)
  PROVE  Calm(s \o t)
<1>1. Listed(s) /\ Listed(t)
  BY DEF Calm
<1>2. Listed(s \o t)
  BY <1>1, ListedConcat
<1>3. \A i \in DOMAIN (s \o t) : Calmly((s \o t)[i])
  BY <1>1, ConcatElement DEF Calm
<1>4. QED
  BY <1>2, <1>3 DEF Calm

(* The recursive function of FlattenSeq exists: one for a longer prefix    *)
(* extends one for a shorter.                                              *)
LEMMA FlattenExists ==
  ASSUME NEW seqs, NEW n \in Nat
  PROVE  \E g : g = [i \in 1 .. n |-> IF i = 1 THEN seqs[i] ELSE g[i - 1] \o seqs[i]]
<1> DEFINE Unrolls(g, m) ==
             g = [i \in 1 .. m |-> IF i = 1 THEN seqs[i] ELSE g[i - 1] \o seqs[i]]
           S == {m \in Nat : \E g : Unrolls(g, m)}
<1>1. 0 \in S
  <2>1. Unrolls(<<>>, 0)
    OBVIOUS
  <2>2. QED
    BY <2>1
<1>2. ASSUME NEW m \in Nat, m \in S
      PROVE  m + 1 \in S
  <2>1. PICK g : Unrolls(g, m)
    BY <1>2
  <2> DEFINE h == [i \in 1 .. m + 1 |-> IF i <= m THEN g[i]
                                        ELSE IF i = 1 THEN seqs[i]
                                        ELSE g[i - 1] \o seqs[i]]
  <2>2. ASSUME NEW i \in 1 .. m + 1
        PROVE  h[i] = IF i = 1 THEN seqs[i] ELSE h[i - 1] \o seqs[i]
    <3>1. \A j \in 1 .. m : g[j] = IF j = 1 THEN seqs[j] ELSE g[j - 1] \o seqs[j]
      BY <2>1
    <3>2. i # 1 => i - 1 \in 1 .. m
      OBVIOUS
    <3>3. QED
      BY <3>1, <3>2
  <2>3. Unrolls(h, m + 1)
    <3> HIDE DEF Unrolls
    <3>1. h = [i \in 1 .. m + 1 |-> h[i]]
      OBVIOUS
    <3> HIDE DEF h
    <3>2. h = [i \in 1 .. m + 1 |-> IF i = 1 THEN seqs[i] ELSE h[i - 1] \o seqs[i]]
      BY <2>2, <3>1
    <3>3. QED
      BY <3>2 DEF Unrolls
  <2>4. \E x : Unrolls(x, m + 1)
    <3> HIDE DEF Unrolls, h
    <3>1. QED
      BY <2>3
  <2>5. QED
    <3> HIDE DEF Unrolls
    <3>1. QED
      BY <2>4
<1> HIDE DEF S
<1>3. Nat \subseteq S
  BY <1>1, <1>2, Induction
<1>4. QED
  BY <1>3 DEF S

LEMMA CalmFlatten ==
  ASSUME NEW seqs, Listed(seqs), \A i \in DOMAIN seqs : Calm(seqs[i])
  PROVE  Calm(FlattenSeq(seqs))
<1>0. CASE seqs = <<>>
  <2>1. FlattenSeq(seqs) = <<>>
    BY <1>0 DEF FlattenSeq
  <2>2. Calm(<<>>)
    BY DEF Calm, Listed
  <2>3. QED
    BY <2>1, <2>2
<1> SUFFICES ASSUME seqs # <<>> PROVE Calm(FlattenSeq(seqs))
  BY <1>0
<1> DEFINE g == CHOOSE g : g = [i \in 1 .. Len(seqs) |->
                                  IF i = 1 THEN seqs[i] ELSE g[i - 1] \o seqs[i]]
           S == {m \in Nat : m + 1 \in 1 .. Len(seqs) => Calm(g[m + 1])}
<1>1. Len(seqs) \in Nat /\ DOMAIN seqs = 1 .. Len(seqs) /\ Len(seqs) # 0
  BY ListedLen
<1>2. FlattenSeq(seqs) = g[Len(seqs)]
  BY <1>1 DEF FlattenSeq
<1>3. g = [i \in 1 .. Len(seqs) |-> IF i = 1 THEN seqs[i] ELSE g[i - 1] \o seqs[i]]
  BY <1>1, FlattenExists
<1> HIDE DEF g
<1>4. \A i \in 1 .. Len(seqs) : g[i] = IF i = 1 THEN seqs[i] ELSE g[i - 1] \o seqs[i]
  BY <1>3
<1>5. 0 \in S
  BY <1>1, <1>4
<1>6. ASSUME NEW m \in Nat, m \in S
      PROVE  m + 1 \in S
  <2>1. SUFFICES ASSUME (m + 1) + 1 \in 1 .. Len(seqs)
                 PROVE  Calm(g[(m + 1) + 1])
    OBVIOUS
  <2>2. m + 1 \in 1 .. Len(seqs)
    BY <1>1, <2>1
  <2>3. Calm(g[m + 1]) /\ Calm(seqs[(m + 1) + 1])
    BY <1>1, <1>6, <2>1, <2>2
  <2>4. g[(m + 1) + 1] = g[m + 1] \o seqs[(m + 1) + 1]
    <3>1. (m + 1) + 1 # 1 /\ ((m + 1) + 1) - 1 = m + 1
      OBVIOUS
    <3>2. QED
      BY <1>4, <2>1, <3>1
  <2>5. QED
    BY <2>3, <2>4, CalmConcat
<1>7. Nat \subseteq S
  <2> HIDE DEF S
  <2>1. QED
    BY <1>5, <1>6, Induction
<1>8. Len(seqs) - 1 \in Nat /\ (Len(seqs) - 1) + 1 = Len(seqs)
  BY <1>1
<1>9. Calm(g[(Len(seqs) - 1) + 1])
  BY <1>1, <1>7, <1>8
<1>10. QED
  BY <1>2, <1>8, <1>9

LEMMA CalmOne ==
  ASSUME NEW x, Calmly(x)
  PROVE  Calm(<<x>>)
<1>1. <<x>> \in Seq({x})
  OBVIOUS
<1>2. Listed(<<x>>)
  BY <1>1, ListedSeq
<1>3. QED
  BY <1>2 DEF Calm

LEMMA CalmTwo ==
  ASSUME NEW x, NEW y, Calmly(x), Calmly(y)
  PROVE  Calm(<<x, y>>)
<1>1. <<x, y>> \in Seq({x, y})
  OBVIOUS
<1>2. Listed(<<x, y>>)
  BY <1>1, ListedSeq
<1>3. DOMAIN <<x, y>> = {1, 2} /\ <<x, y>>[1] = x /\ <<x, y>>[2] = y
  OBVIOUS
<1>4. QED
  BY <1>2, <1>3 DEF Calm

LEMMA CalmCalls ==
  /\ \A what, errors : "OK" \notin errors => Calmly(Try(what, errors))
  /\ \A key : Calmly(Add(key)) /\ Calmly(AppendItem(key))
BY DEF Calmly, Try, Add, AppendItem, Call

\* A function on the domain of a sequence is a sequence.
LEMMA ListedMap ==
  ASSUME NEW s, Listed(s), NEW f, f = [i \in DOMAIN s |-> f[i]]
  PROVE  Listed(f) /\ DOMAIN f = DOMAIN s
<1>1. Len(s) \in Nat /\ DOMAIN s = 1 .. Len(s)
  BY ListedLen
<1>2. f \in [1 .. Len(s) -> ToSet(f)]
  BY <1>1 DEF ToSet
<1>3. f \in Seq(ToSet(f))
  BY <1>1, <1>2
<1>4. QED
  BY <1>3 DEF Listed

\* The formatters of JsonDocuments only add to the document, bottom up.
LEMMA CalmFields ==
  ASSUME NEW prefix, NEW names, Listed(names)
  PROVE  Calm(Fields(prefix, names))
<1> DEFINE f == Fields(prefix, names)
<1>1. f = [i \in DOMAIN names |-> f[i]]
  BY DEF Fields
<1>2. \A i \in DOMAIN names : f[i] = Add(prefix \o <<names[i]>>)
  BY DEF Fields
<1> HIDE DEF f
<1>3. Listed(f) /\ DOMAIN f = DOMAIN names
  BY <1>1, ListedMap
<1>4. Calm(f)
  BY <1>2, <1>3, CalmCalls DEF Calm
<1>5. QED
  BY <1>4 DEF f

LEMMA CalmFieldFormatter ==
  ASSUME NEW key, NEW formatter, Calm(formatter)
  PROVE  Calm(FieldFormatter(key, formatter))
<1> DEFINE f == [i \in DOMAIN formatter |->
                   [formatter[i] EXCEPT !.arg = <<key>> \o formatter[i].arg]]
<1>1. f = [i \in DOMAIN formatter |-> f[i]]
  OBVIOUS
<1>2. ASSUME NEW i \in DOMAIN formatter
      PROVE  Calmly(f[i])
  <2>1. Calmly(formatter[i])
    BY DEF Calm
  <2>2. f[i] = [do |-> formatter[i].do, arg |-> <<key>> \o formatter[i].arg,
                errors |-> formatter[i].errors]
    BY <2>1 DEF Calmly
  <2>3. QED
    BY <2>1, <2>2 DEF Calmly
<1> HIDE DEF f
<1>3. Calm(f)
  BY <1>1, <1>2, ListedMap DEF Calm
<1>4. Calm(<<Try("make_field", {"NoMem"})>>) /\ Calm(<<Add(<<key>>)>>)
  BY CalmCalls, CalmOne
<1>5. Calm((<<Try("make_field", {"NoMem"})>> \o f) \o <<Add(<<key>>)>>)
  BY <1>3, <1>4, CalmConcat
<1>6. QED
  BY <1>5 DEF f, FieldFormatter

LEMMA CalmStringFormatter ==
  ASSUME NEW names, Listed(names)
  PROVE  Calm(StringFormatter(names))
<1> DEFINE S == {names[i] : i \in DOMAIN names}
           n == Cardinality(S)
<1>1. Len(names) \in Nat /\ DOMAIN names = 1 .. Len(names)
  BY ListedLen
<1>2. IsFiniteSet(S)
  <2>1. names \in Surjection(1 .. Len(names), S)
    BY <1>1 DEF Listed, ToSet, Surjection
  <2>2. QED
    BY <1>1, <2>1, FS_NatSurjection DEF ExistsSurjection
<1>3. n \in Nat /\ ExistsBijection(1 .. n, S)
  BY <1>2, FS_CardinalityType
<1> HIDE DEF S, n
<1>4. \E f \in [1 .. n -> S] : IsInjective(f)
  BY <1>3 DEF ExistsBijection, Bijection, Injection, IsInjective
<1>5. SetToSeq(S) \in [1 .. n -> S]
  BY <1>4 DEF SetToSeq, n
<1>6. Listed(SetToSeq(S))
  <2>1. SetToSeq(S) \in Seq(S)
    BY <1>3, <1>5
  <2>2. QED
    BY <2>1, ListedSeq
<1>7. Calm(Fields(<<>>, SetToSeq(S)))
  BY <1>6, CalmFields
<1>8. QED
  BY <1>7 DEF StringFormatter, S

-----------------------------------------------------------------------------
(* The formatters of the documents. *)

\* Sequences of names, and tuples of the lengths the documents have.
LEMMA ListedNames ==
  ASSUME NEW s \in Seq(STRING)
  PROVE  Listed(s)
BY ListedSeq

LEMMA ListedTuple ==
  /\ \A a, b, c : Listed(<<a, b, c>>)
  /\ \A a, b, c, d : Listed(<<a, b, c, d>>)
  /\ \A a, b, c, d, e, f, g, h : Listed(<<a, b, c, d, e, f, g, h>>)
  /\ \A a, b, c, d, e, f, g, h, i, j : Listed(<<a, b, c, d, e, f, g, h, i, j>>)
<1>1. \A a, b, c : Listed(<<a, b, c>>)
  <2>1. \A a, b, c : <<a, b, c>> \in Seq({a, b, c})
    OBVIOUS
  <2>2. QED
    BY <2>1, ListedSeq
<1>2. \A a, b, c, d : Listed(<<a, b, c, d>>)
  <2>1. \A a, b, c, d : <<a, b, c, d>> \in Seq({a, b, c, d})
    OBVIOUS
  <2>2. QED
    BY <2>1, ListedSeq
<1>3. \A a, b, c, d, e, f, g, h : Listed(<<a, b, c, d, e, f, g, h>>)
  <2>1. \A a, b, c, d, e, f, g, h :
          <<a, b, c, d, e, f, g, h>> \in Seq({a, b, c, d, e, f, g, h})
    OBVIOUS
  <2>2. QED
    BY <2>1, ListedSeq
<1>4. \A a, b, c, d, e, f, g, h, i, j : Listed(<<a, b, c, d, e, f, g, h, i, j>>)
  <2>1. \A a, b, c, d, e, f, g, h, i, j :
          <<a, b, c, d, e, f, g, h, i, j>> \in Seq({a, b, c, d, e, f, g, h, i, j})
    OBVIOUS
  <2>2. QED
    BY <2>1, ListedSeq
<1>5. QED
  BY <1>1, <1>2, <1>3, <1>4

\* The formatters of the sensors and of the documents only add.
LEMMA CalmSensor ==
  ASSUME NEW key, NEW formatter, Calm(formatter)
  PROVE  Calm(Sensor(key, formatter))
BY CalmFieldFormatter DEF Sensor

LEMMA CalmSensorFormatters ==
  /\ Calm(Sht41SensorFormatter) /\ Calm(Bme280SensorFormatter)
  /\ Calm(LdrSensorFormatter) /\ Calm(SoilAnalogSensorFormatter)
  /\ \A id : Calm(Ds18b20SensorFormatter(id))
<1>1. Calm(Sht41SensorFormatter)
  BY ListedTuple, CalmFields DEF Sht41SensorFormatter
<1>2. Calm(Bme280SensorFormatter)
  BY ListedTuple, CalmFields DEF Bme280SensorFormatter
<1>3. Calm(LdrSensorFormatter)
  BY ListedTuple, CalmFields DEF LdrSensorFormatter
<1>4. Calm(SoilAnalogSensorFormatter)
  BY ListedTuple, CalmFields DEF SoilAnalogSensorFormatter
<1>5. ASSUME NEW id
      PROVE  Calm(Ds18b20SensorFormatter(id))
  <2>1. <<id>> \in Seq({id})
    OBVIOUS
  <2>2. QED
    BY <2>1, ListedSeq, CalmFields DEF Ds18b20SensorFormatter
<1>6. QED
  BY <1>1, <1>2, <1>3, <1>4, <1>5

LEMMA CalmDocumentFormatters ==
  /\ Calm(SystemFormatter) /\ Calm(CounterFormatter) /\ Calm(TimeFormatter)
  /\ Calm(RegistrationFormatter) /\ Calm(ApNetworkFormatter) /\ Calm(StaNetworkFormatter)
<1>1. Calm(SystemFormatter)
  BY ListedTuple, CalmFields DEF SystemFormatter
<1>2. Calm(CounterFormatter)
  BY IdsAssumption, ListedNames, CalmFields DEF CounterFormatter
<1>3. Calm(TimeFormatter)
  BY CalmCalls, CalmTwo DEF TimeFormatter
<1>4. Calm(RegistrationFormatter)
  <2>1. Listed(VersionFormatter)
    <3>1. <<"version_esp_idf">> \in Seq({"version_esp_idf"})
      OBVIOUS
    <3>2. QED
      BY <3>1, ListedSeq DEF VersionFormatter
  <2>2. Listed(VersionFormatter
                 \o <<"fw_version", "fw_name", "fw_description", "device_id">>)
    BY <2>1, ListedTuple, ListedConcat
  <2>3. QED
    BY <2>2, CalmStringFormatter DEF RegistrationFormatter
<1>5. Calm(ApNetworkFormatter)
  BY ListedTuple, CalmFields DEF ApNetworkFormatter
<1>6. Calm(StaNetworkFormatter)
  BY ListedTuple, CalmFields DEF StaNetworkFormatter
<1>7. QED
  BY <1>1, <1>2, <1>3, <1>4, <1>5, <1>6

LEMMA CalmTelemetry == Calm(TelemetryFormatter)
<1> DEFINE first == <<SystemFormatter, CounterFormatter, TimeFormatter,
                      Sensor("sht41", Sht41SensorFormatter),
                      Sensor("bme280", Bme280SensorFormatter),
                      Sensor("ldr", LdrSensorFormatter),
                      Sensor("soil", SoilAnalogSensorFormatter)>>
           rest == [i \in DOMAIN Ds18b20Ids |-> Ds18b20SensorFormatter(Ds18b20Ids[i])]
<1>1. /\ Calm(Sensor("sht41", Sht41SensorFormatter))
      /\ Calm(Sensor("bme280", Bme280SensorFormatter))
      /\ Calm(Sensor("ldr", LdrSensorFormatter))
      /\ Calm(Sensor("soil", SoilAnalogSensorFormatter))
  BY CalmSensor, CalmSensorFormatters
<1>2. Listed(first) /\ \A i \in DOMAIN first : Calm(first[i])
  <2>1. \A a, b, c, d, e, f, g :
          <<a, b, c, d, e, f, g>> \in Seq({a, b, c, d, e, f, g})
    OBVIOUS
  <2>2. Listed(first)
    BY <2>1, ListedSeq
  <2>3. \A i \in DOMAIN first : first[i] \in
          {SystemFormatter, CounterFormatter, TimeFormatter,
           Sensor("sht41", Sht41SensorFormatter), Sensor("bme280", Bme280SensorFormatter),
           Sensor("ldr", LdrSensorFormatter), Sensor("soil", SoilAnalogSensorFormatter)}
    OBVIOUS
  <2>4. QED
    BY <1>1, <2>2, <2>3, CalmDocumentFormatters
<1>3. Listed(rest) /\ DOMAIN rest = DOMAIN Ds18b20Ids
  <2>1. Listed(Ds18b20Ids)
    BY IdsAssumption, ListedNames
  <2>2. rest = [i \in DOMAIN Ds18b20Ids |-> rest[i]]
    OBVIOUS
  <2>3. QED
    BY <2>1, <2>2, ListedMap
<1>4. \A i \in DOMAIN rest : Calm(rest[i])
  BY <1>3, CalmSensorFormatters
<1> HIDE DEF first, rest
<1>5. Listed(first \o rest)
  BY <1>2, <1>3, ListedConcat
<1>6. \A i \in DOMAIN (first \o rest) : Calm((first \o rest)[i])
  BY <1>2, <1>3, <1>4, ConcatElement
<1>7. Calm(FlattenSeq(first \o rest))
  BY <1>5, <1>6, CalmFlatten
<1>8. QED
  BY <1>7 DEF TelemetryFormatter, FanoutFormatter, first, rest

LEMMA CalmRegistration == Calm(RegistrationDocument)
<1> DEFINE s == <<RegistrationFormatter, TimeFormatter, ApNetworkFormatter,
                  StaNetworkFormatter>>
<1>1. \A a, b, c, d : <<a, b, c, d>> \in Seq({a, b, c, d})
  OBVIOUS
<1>2. Listed(s)
  BY <1>1, ListedSeq
<1>3. \A i \in DOMAIN s : s[i] \in {RegistrationFormatter, TimeFormatter,
                                    ApNetworkFormatter, StaNetworkFormatter}
  OBVIOUS
<1>4. \A i \in DOMAIN s : Calm(s[i])
  BY <1>3, CalmDocumentFormatters
<1> HIDE DEF s
<1>5. Calm(FlattenSeq(s))
  BY <1>2, <1>4, CalmFlatten
<1>6. QED
  BY <1>5 DEF RegistrationDocument, FanoutFormatter, s

LEMMA CalmSystemState == Calm(SystemStateFormatter)
<1> DEFINE s == [i \in DOMAIN Tasks |-> TaskState(Tasks[i])]
<1>1. ASSUME NEW task
      PROVE  Calm(TaskState(task))
  <2> DEFINE names == <<"name", "state", "number", "priority", "stack_free",
                        "core_id", "runtime_abs", "runtime_rel">>
  <2>1. Listed(names)
    BY ListedTuple
  <2> HIDE DEF names
  <2>2. Calm(Fields(<<"tasks", task>>, names))
    BY <2>1, CalmFields
  <2>3. Calm(<<Try("make_object", {"NoMem"})>>) /\ Calm(<<AppendItem(<<"tasks", task>>)>>)
    BY CalmCalls, CalmOne
  <2>4. Calm((<<Try("make_object", {"NoMem"})>> \o Fields(<<"tasks", task>>, names))
               \o <<AppendItem(<<"tasks", task>>)>>)
    BY <2>2, <2>3, CalmConcat
  <2>5. QED
    BY <2>4 DEF TaskState, names
<1>2. Listed(Tasks)
  BY IdsAssumption, ListedNames
<1>3. Listed(s) /\ DOMAIN s = DOMAIN Tasks
  <2>1. s = [i \in DOMAIN Tasks |-> s[i]]
    OBVIOUS
  <2>2. QED
    BY <1>2, <2>1, ListedMap
<1>4. \A i \in DOMAIN s : Calm(s[i])
  BY <1>1, <1>3
<1> HIDE DEF s
<1>5. Calm(FlattenSeq(s))
  BY <1>3, <1>4, CalmFlatten
<1>6. Calm(<<Add(<<"tasks">>)>>)
  BY CalmCalls, CalmOne
<1>7. Calm(<<Add(<<"tasks">>)>> \o FlattenSeq(s))
  BY <1>5, <1>6, CalmConcat
<1>8. QED
  BY <1>7 DEF SystemStateFormatter, s

-----------------------------------------------------------------------------
(* The handlers: what they do before they send is in order. *)

Partial(c) ==
  /\ Listed(c)
  /\ \A i \in DOMAIN c :
       /\ "OK" \notin c[i].errors /\ c[i].do \in {"try", "add", "schedule", "wait"}
       /\ c[i].do = "schedule" =>
            i + 1 \in DOMAIN c /\ c[i].arg[1] \in Schedulers /\ c[i + 1].do = "wait"

\* A part of a handler's calls that neither responds nor ends with a function not
\* waited for; what follows it makes a handler's whole sequence.
LEMMA CalmPartial ==
  ASSUME NEW c, Calm(c)
  PROVE  Partial(c)
BY DEF Calm, Calmly, Partial

LEMMA PartialConcat ==
  ASSUME NEW s, NEW t, Partial(s), Partial(t)
  PROVE  Partial(s \o t)
<1> DEFINE c == s \o t
<1>1. Listed(s) /\ Listed(t)
  BY DEF Partial
<1>2. /\ Listed(c) /\ Len(c) = Len(s) + Len(t)
      /\ \A i \in 1 .. Len(s) : c[i] = s[i]
      /\ \A i \in 1 .. Len(t) : c[Len(s) + i] = t[i]
  BY <1>1, ListedConcat
<1>3. /\ Len(s) \in Nat /\ DOMAIN s = 1 .. Len(s)
      /\ Len(t) \in Nat /\ DOMAIN t = 1 .. Len(t)
      /\ DOMAIN c = 1 .. Len(c)
  BY <1>1, <1>2, ListedLen
<1>4. \A i \in DOMAIN c : \/ i \in DOMAIN s /\ c[i] = s[i]
                          \/ \E j \in DOMAIN t : i = Len(s) + j /\ c[i] = t[j]
  BY <1>1, ConcatElement
<1> HIDE DEF c
<1>5. ASSUME NEW i \in DOMAIN c
      PROVE  /\ "OK" \notin c[i].errors /\ c[i].do \in {"try", "add", "schedule", "wait"}
             /\ c[i].do = "schedule" =>
                  i + 1 \in DOMAIN c /\ c[i].arg[1] \in Schedulers /\ c[i + 1].do = "wait"
  <2>1. CASE i \in DOMAIN s /\ c[i] = s[i]
    BY <1>2, <1>3, <2>1 DEF Partial
  <2>2. ASSUME NEW j \in DOMAIN t, i = Len(s) + j, c[i] = t[j]
        PROVE  /\ "OK" \notin c[i].errors
               /\ c[i].do \in {"try", "add", "schedule", "wait"}
               /\ c[i].do = "schedule" =>
                    i + 1 \in DOMAIN c /\ c[i].arg[1] \in Schedulers
                      /\ c[i + 1].do = "wait"
    <3>1. j + 1 \in DOMAIN t => i + 1 \in DOMAIN c /\ c[i + 1] = t[j + 1]
      <4>1. i + 1 = Len(s) + (j + 1)
        BY <1>3, <2>2
      <4>2. QED
        BY <1>2, <1>3, <4>1
    <3>2. QED
      BY <2>2, <3>1 DEF Partial
  <2>3. QED
    BY <1>4, <2>1, <2>2
<1>6. Partial(c)
  BY <1>2, <1>5 DEF Partial
<1>7. QED
  BY <1>6 DEF c

LEMMA PartialOrdered ==
  ASSUME NEW s, NEW t, Partial(s), Ordered(t)
  PROVE  Ordered(s \o t)
<1> DEFINE c == s \o t
<1>1. Listed(s) /\ Listed(t) /\ t # <<>>
  BY DEF Partial, Ordered
<1>2. /\ Listed(c) /\ Len(c) = Len(s) + Len(t)
      /\ \A i \in 1 .. Len(s) : c[i] = s[i]
      /\ \A i \in 1 .. Len(t) : c[Len(s) + i] = t[i]
  BY <1>1, ListedConcat
<1>3. /\ Len(s) \in Nat /\ DOMAIN s = 1 .. Len(s)
      /\ Len(t) \in Nat /\ DOMAIN t = 1 .. Len(t) /\ Len(t) # 0
      /\ DOMAIN c = 1 .. Len(c) /\ (c = <<>> <=> Len(c) = 0)
  BY <1>1, <1>2, ListedLen
<1>4. \A i \in DOMAIN c : \/ i \in DOMAIN s /\ c[i] = s[i]
                          \/ \E j \in DOMAIN t : i = Len(s) + j /\ c[i] = t[j]
  BY <1>1, ConcatElement
<1> HIDE DEF c
<1>5. ASSUME NEW i \in DOMAIN c
      PROVE  /\ "OK" \notin c[i].errors
             /\ c[i].do \in IF i = Len(c) THEN {"send", "open"}
                                          ELSE {"try", "add", "schedule", "wait"}
             /\ c[i].do = "send" => c[i].arg[1] \in {"body", "redirect"}
             /\ c[i].do = "schedule" =>
                  c[i].arg[1] \in Schedulers /\ c[i + 1].do = "wait"
  <2>1. CASE i \in DOMAIN s /\ c[i] = s[i]
    <3>1. i # Len(c)
      BY <1>2, <1>3, <2>1
    <3>2. i + 1 \in DOMAIN s => c[i + 1] = s[i + 1]
      BY <1>2, <1>3
    <3>3. QED
      BY <2>1, <3>1, <3>2 DEF Partial
  <2>2. ASSUME NEW j \in DOMAIN t, i = Len(s) + j, c[i] = t[j]
        PROVE  /\ "OK" \notin c[i].errors
               /\ c[i].do \in IF i = Len(c) THEN {"send", "open"}
                                            ELSE {"try", "add", "schedule", "wait"}
               /\ c[i].do = "send" => c[i].arg[1] \in {"body", "redirect"}
               /\ c[i].do = "schedule" =>
                    c[i].arg[1] \in Schedulers /\ c[i + 1].do = "wait"
    <3>1. (i = Len(c)) <=> (j = Len(t))
      BY <1>2, <1>3, <2>2
    <3>2. j # Len(t) => c[i + 1] = t[j + 1]
      <4>1. i + 1 = Len(s) + (j + 1)
        BY <1>3, <2>2
      <4>2. j # Len(t) => j + 1 \in 1 .. Len(t)
        BY <1>3
      <4>3. QED
        BY <1>2, <4>1, <4>2
    <3>3. QED
      BY <2>2, <3>1, <3>2 DEF Ordered
  <2>3. QED
    BY <1>4, <2>1, <2>2
<1>6. Ordered(c)
  BY <1>2, <1>3, <1>5 DEF Ordered
<1>7. QED
  BY <1>6 DEF c

LEMMA PartialExecute ==
  ASSUME NEW s \in Schedulers, NEW f
  PROVE  Partial(Execute(s, f))
<1> DEFINE c == Execute(s, f)
<1>1. \A x, y : <<x, y>> \in Seq({x, y}) /\ DOMAIN <<x, y>> = {1, 2}
                  /\ <<x, y>>[1] = x /\ <<x, y>>[2] = y
  OBVIOUS
<1>2. Listed(c)
  <2>1. \A x, y : Listed(<<x, y>>)
    BY <1>1, ListedSeq
  <2>2. QED
    BY <2>1 DEF Execute
<1>3. /\ DOMAIN c = {1, 2}
      /\ c[1] = Call("schedule", <<s, f>>, {}) /\ c[2] = Call("wait", <<f>>, {})
  BY <1>1 DEF Execute
<1> HIDE DEF c
<1>4. /\ c[1].do = "schedule" /\ c[1].errors = {} /\ c[1].arg[1] = s
      /\ c[2].do = "wait" /\ c[2].errors = {}
  BY <1>3 DEF Call
<1>5. Partial(c)
  BY <1>2, <1>3, <1>4 DEF Partial
<1>6. QED
  BY <1>5 DEF c

(* What a handler may end with. *)
Answers(call) ==
  /\ "OK" \notin call.errors /\ call.do \in {"send", "open"}
  /\ call.do = "send" => call.arg[1] \in {"body", "redirect"}

\* The calls that respond.
LEMMA AnswersCalls ==
  /\ Answers(Send("body")) /\ Answers(Send("redirect"))
  /\ Answers(Call("open", <<>>, {"Error"}))
BY DEF Answers, Send, Call

(* A few tries of the handler itself and the end. *)
LEMMA OrderedTries ==
  ASSUME NEW x, NEW y, NEW z, NEW e, Answers(e)
  PROVE  /\ Calmly(x) => Ordered(<<x, e>>)
         /\ Calmly(x) /\ Calmly(y) => Ordered(<<x, y, e>>)
         /\ Calmly(x) /\ Calmly(y) /\ Calmly(z) => Ordered(<<x, y, z, e>>)
<1>1. ASSUME Calmly(x)
      PROVE  Ordered(<<x, e>>)
  <2>1. /\ DOMAIN <<x, e>> = {1, 2} /\ Len(<<x, e>>) = 2
        /\ <<x, e>>[1] = x /\ <<x, e>>[2] = e /\ <<x, e>> \in Seq({x, e})
    OBVIOUS
  <2>2. Listed(<<x, e>>)
    BY <2>1, ListedSeq
  <2>3. QED
    BY <1>1, <2>1, <2>2 DEF Ordered, Calmly, Answers
<1>2. ASSUME Calmly(x), Calmly(y)
      PROVE  Ordered(<<x, y, e>>)
  <2>1. /\ DOMAIN <<x, y, e>> = {1, 2, 3} /\ Len(<<x, y, e>>) = 3
        /\ <<x, y, e>>[1] = x /\ <<x, y, e>>[2] = y /\ <<x, y, e>>[3] = e
    OBVIOUS
  <2>2. QED
    BY <1>2, <2>1, ListedTuple DEF Ordered, Calmly, Answers
<1>3. ASSUME Calmly(x), Calmly(y), Calmly(z)
      PROVE  Ordered(<<x, y, z, e>>)
  <2>1. /\ DOMAIN <<x, y, z, e>> = {1, 2, 3, 4} /\ Len(<<x, y, z, e>>) = 4
        /\ <<x, y, z, e>>[1] = x /\ <<x, y, z, e>>[2] = y
        /\ <<x, y, z, e>>[3] = z /\ <<x, y, z, e>>[4] = e
    OBVIOUS
  <2>2. QED
    BY <1>3, <2>1, ListedTuple DEF Ordered, Calmly, Answers
<1>4. QED
  BY <1>1, <1>2, <1>3

\* The ends of the handlers.
LEMMA OrderedEnds ==
  Ordered(SendText) /\ Ordered(SendDocument) /\ Ordered(HandleRoot) /\ Ordered(HandleFile)
<1>1. Calmly(SetType) /\ \A name : Calmly(SetHeader(name))
  BY CalmCalls DEF SetType, SetHeader
<1>2. Calmly(PrintJson) /\ Calmly(Mounted)
  BY CalmCalls DEF PrintJson, Mounted
<1>3. QED
  BY <1>1, <1>2, AnswersCalls, OrderedTries DEF SendText, SendDocument, HandleRoot,
     HandleFile

(* Every handler but that of the reboot, which answers first, and that of  *)
(* an unknown path, which does not answer.                                 *)
LEMMA OrderedHandlers ==
  ASSUME NEW path \in DOMAIN Handlers, path \notin {"reboot", "unknown"}
  PROVE  Ordered(Handlers[path])
<1>1. Calm(<<MakeObject>>) /\ Calm(<<PrintJson>>)
  BY CalmCalls, CalmOne DEF MakeObject, PrintJson
<1>2. Calm(Gpio) /\ Calm(SensorId) /\ Calm(<<TimeOps>>)
      /\ Calm(<<Try("get_time", {"Error"})>>)
  BY CalmCalls, CalmOne DEF Gpio, SensorId, TimeOps
<1>3. ASSUME NEW formatter, Calm(formatter)
      PROVE  Ordered(DataHandler(formatter))
  <2>1. Listed(<<formatter, <<PrintJson>> >>)
        /\ \A i \in DOMAIN <<formatter, <<PrintJson>> >> :
             Calm(<<formatter, <<PrintJson>> >>[i])
    <3>1. \A x, y : <<x, y>> \in Seq({x, y}) /\ DOMAIN <<x, y>> = {1, 2}
                      /\ <<x, y>>[1] = x /\ <<x, y>>[2] = y
      OBVIOUS
    <3>2. \A x, y : Listed(<<x, y>>)
      BY <3>1, ListedSeq
    <3>3. QED
      BY <1>1, <1>3, <3>1, <3>2
  <2>2. Calm(FanoutFormatter(<<formatter, <<PrintJson>> >>))
    BY <2>1, CalmFlatten DEF FanoutFormatter
  <2>3. Calm(<<MakeObject>> \o FanoutFormatter(<<formatter, <<PrintJson>> >>))
    BY <1>1, <2>2, CalmConcat
  <2>4. QED
    BY <2>3, CalmPartial, OrderedEnds, PartialOrdered DEF DataHandler
<1>4. Ordered(SystemStateHandler)
  <2>1. Calm(<<MakeObject>> \o SystemStateFormatter)
    BY <1>1, CalmSystemState, CalmConcat
  <2>2. QED
    BY <2>1, CalmPartial, OrderedEnds, PartialOrdered DEF SystemStateHandler
<1>5. Ordered(GetTime) /\ Ordered(SetTime)
  BY <1>2, CalmPartial, OrderedEnds, PartialOrdered DEF GetTime, SetTime
<1>6. \A f : Ordered(Sht41Handler(f))
  BY PartialExecute, OrderedEnds, PartialOrdered DEF Sht41Handler, Schedulers
<1>7. \A f : Partial(Execute("bus", f))
  BY PartialExecute DEF Schedulers
<1>8. Ordered(HandleScan)
  <2>1. Partial(Gpio \o <<MakeObject>> \o Execute("bus", "scan"))
    BY <1>1, <1>2, <1>7, CalmPartial, PartialConcat
  <2>2. QED
    BY <2>1, OrderedEnds, PartialOrdered DEF HandleScan
<1>9. ASSUME NEW f
      PROVE  Ordered(HandleConfiguration(f))
  <2>1. Partial(Gpio \o SensorId \o <<MakeObject>> \o Execute("bus", f))
    BY <1>1, <1>2, <1>7, CalmPartial, PartialConcat
  <2>2. QED
    BY <2>1, OrderedEnds, PartialOrdered DEF HandleConfiguration
<1>10. Ordered(HandleWriteConfiguration)
  <2> DEFINE parse == <<Try("serial_number", {"InvalidArg"}),
                        Try("resolution", {"InvalidArg"}), MakeObject>>
  <2>1. Calm(parse)
    <3>1. \A x, y, z : DOMAIN <<x, y, z>> = {1, 2, 3} /\ <<x, y, z>>[1] = x
                         /\ <<x, y, z>>[2] = y /\ <<x, y, z>>[3] = z
      OBVIOUS
    <3>2. QED
      BY <3>1, ListedTuple, CalmCalls DEF Calm, MakeObject
  <2> HIDE DEF parse
  <2>2. Partial(Gpio \o SensorId \o parse \o Execute("bus", "write"))
    BY <1>2, <1>7, <2>1, CalmPartial, PartialConcat
  <2>3. QED
    BY <2>2, OrderedEnds, PartialOrdered DEF HandleWriteConfiguration, parse
<1>11. CASE path \in {"telemetry", "registration", "report", "get_time", "set_time"}
  BY <1>3, <1>4, <1>5, <1>11, CalmTelemetry, CalmRegistration DEF Handlers
<1>12. CASE path \in {"sht41_reset", "sht41_heat", "scan", "read_configuration",
                      "write_configuration", "erase_configuration"}
  BY <1>6, <1>8, <1>9, <1>10, <1>12 DEF Handlers
<1>13. CASE path \in {"root", "assets"}
  BY <1>13, OrderedEnds DEF Handlers
<1>14. QED
  BY <1>11, <1>12, <1>13 DEF Handlers

-----------------------------------------------------------------------------
(* The next call of a handler. *)

\* The first call of an ordered sequence, and what is left after it.
LEMMA OrderedHead ==
  ASSUME NEW c, Ordered(c)
  PROVE  /\ Head(c) = c[1] /\ "OK" \notin Head(c).errors
         /\ Head(c).do \in {"send", "open", "try", "add", "schedule", "wait"}
         /\ Head(c).do \in {"send", "open"} => Tail(c) = <<>>
         /\ Head(c).do = "send" => Head(c).arg[1] \in {"body", "redirect"}
         /\ Head(c).do \notin {"send", "open"} => Ordered(Tail(c))
         /\ Head(c).do = "schedule" =>
              Head(c).arg[1] \in Schedulers /\ Head(Tail(c)).do = "wait"
<1>1. /\ Listed(c) /\ c # <<>> /\ Len(c) \in Nat /\ Len(c) # 0
      /\ DOMAIN c = 1 .. Len(c) /\ Head(c) = c[1] /\ 1 \in DOMAIN c
  <2>1. Listed(c) /\ c # <<>>
    BY DEF Ordered
  <2>2. QED
    BY <2>1, ListedLen
<1>2. /\ Listed(Tail(c)) /\ Len(Tail(c)) = Len(c) - 1
      /\ \A i \in 1 .. Len(c) - 1 : Tail(c)[i] = c[i + 1]
  BY <1>1, ListedTail
<1>3. /\ DOMAIN Tail(c) = 1 .. Len(Tail(c)) /\ (Tail(c) = <<>> <=> Len(Tail(c)) = 0)
      /\ Tail(c) # <<>> => Head(Tail(c)) = Tail(c)[1]
  BY <1>2, ListedLen
<1>4. /\ "OK" \notin c[1].errors
      /\ c[1].do \in IF 1 = Len(c) THEN {"send", "open"}
                                   ELSE {"try", "add", "schedule", "wait"}
      /\ c[1].do = "send" => c[1].arg[1] \in {"body", "redirect"}
      /\ c[1].do = "schedule" => c[1].arg[1] \in Schedulers /\ c[2].do = "wait"
  BY <1>1 DEF Ordered
<1>5. ASSUME Len(c) # 1
      PROVE  Ordered(Tail(c)) /\ Head(Tail(c)) = c[2]
  <2> DEFINE t == Tail(c)
  <2>1. Len(t) \in Nat /\ Len(t) # 0 /\ t # <<>> /\ t[1] = c[2]
    BY <1>1, <1>2, <1>3, <1>5
  <2>2. \A i \in DOMAIN t : /\ i \in Nat /\ i + 1 \in DOMAIN c /\ t[i] = c[i + 1]
                            /\ (i = Len(t)) <=> (i + 1 = Len(c))
                            /\ i # Len(t) => t[i + 1] = c[(i + 1) + 1]
    BY <1>1, <1>2, <1>3
  <2>3. Listed(t) /\ Head(t) = t[1]
    BY <1>2, <1>3, <2>1
  <2> HIDE DEF t
  <2>4. \A j \in DOMAIN c :
          /\ "OK" \notin c[j].errors
          /\ c[j].do \in IF j = Len(c) THEN {"send", "open"}
                                       ELSE {"try", "add", "schedule", "wait"}
          /\ c[j].do = "send" => c[j].arg[1] \in {"body", "redirect"}
          /\ c[j].do = "schedule" =>
               c[j].arg[1] \in Schedulers /\ c[j + 1].do = "wait"
    BY DEF Ordered
  <2>5. ASSUME NEW i \in DOMAIN t
        PROVE  /\ "OK" \notin t[i].errors
               /\ t[i].do \in IF i = Len(t) THEN {"send", "open"}
                                            ELSE {"try", "add", "schedule", "wait"}
               /\ t[i].do = "send" => t[i].arg[1] \in {"body", "redirect"}
               /\ t[i].do = "schedule" =>
                    t[i].arg[1] \in Schedulers /\ t[i + 1].do = "wait"
    <3> DEFINE j == i + 1
    <3>1. /\ j \in DOMAIN c /\ t[i] = c[j] /\ (i = Len(t) <=> j = Len(c))
          /\ i # Len(t) => t[i + 1] = c[j + 1]
      BY <2>2
    <3> HIDE DEF j
    <3>2. QED
      BY <2>4, <3>1
  <2>6. Ordered(t)
    BY <2>1, <2>3, <2>5 DEF Ordered
  <2>7. QED
    BY <2>1, <2>3, <2>6 DEF t
<1>6. QED
  BY <1>1, <1>2, <1>3, <1>4, <1>5

\* The reboot handler's calls, one by one: it responds before its function.
LEMMA FourCalls ==
  ASSUME NEW t, Listed(t), Len(t) = 4
  PROVE  /\ t # <<>> /\ Head(t) = t[1] /\ Tail(t) # <<>> /\ Head(Tail(t)) = t[2]
         /\ Tail(Tail(t)) = <<t[3], t[4]>>
<1>1. t # <<>> /\ Head(t) = t[1]
  BY ListedLen
<1> DEFINE u == Tail(t)
<1>2. Listed(u) /\ Len(u) = 4 - 1 /\ \A i \in 1 .. 4 - 1 : u[i] = t[i + 1]
  BY <1>1, ListedTail
<1> HIDE DEF u
<1>3. Len(u) = 3 /\ u[1] = t[2] /\ u[2] = t[3] /\ u[3] = t[4]
  BY <1>2
<1>4. u # <<>> /\ Head(u) = t[2]
  BY <1>2, <1>3, ListedLen
<1> DEFINE v == Tail(u)
<1>5. Listed(v) /\ Len(v) = 3 - 1 /\ \A i \in 1 .. 3 - 1 : v[i] = u[i + 1]
  BY <1>2, <1>3, <1>4, ListedTail
<1> HIDE DEF v
<1>6. v[1] = t[3] /\ v[2] = t[4] /\ DOMAIN v = 1 .. 2
  BY <1>3, <1>5, ListedLen
<1>7. v = <<t[3], t[4]>>
  <2>1. v = [i \in 1 .. 2 |-> v[i]]
    BY <1>5, <1>6 DEF Listed
  <2>2. v = [i \in 1 .. 2 |-> IF i = 1 THEN t[3] ELSE t[4]]
    BY <1>6, <2>1
  <2>3. <<t[3], t[4]>> = [i \in 1 .. 2 |-> IF i = 1 THEN t[3] ELSE t[4]]
    OBVIOUS
  <2>4. QED
    BY <2>2, <2>3
<1>8. QED
  BY <1>1, <1>4, <1>7 DEF u, v

LEMMA RebootCalls ==
  /\ Handlers["reboot"] # <<>> /\ Head(Handlers["reboot"]).do = "try"
  /\ Tail(Handlers["reboot"]) # <<>> /\ Head(Handlers["reboot"]).errors = {"Error"}
  /\ Head(Tail(Handlers["reboot"])) = Send("body")
  /\ Tail(Tail(Handlers["reboot"])) = Execute("system", "reboot")
<1>1. Handlers["reboot"] = SystemHandler
  BY DEF Handlers
<1>2. ASSUME NEW a, NEW b, NEW c, NEW d, NEW t, t = <<a, b>> \o <<c, d>>
      PROVE  /\ t # <<>> /\ Head(t) = a /\ Tail(t) # <<>> /\ Head(Tail(t)) = b
             /\ Tail(Tail(t)) = <<c, d>>
  <2> DEFINE S == {a, b, c, d}
  <2>1. /\ <<a, b>> \in Seq(S) /\ <<c, d>> \in Seq(S)
        /\ Len(<<a, b>>) = 2 /\ Len(<<c, d>>) = 2
        /\ <<a, b>>[1] = a /\ <<a, b>>[2] = b /\ <<c, d>>[1] = c /\ <<c, d>>[2] = d
    OBVIOUS
  <2>2. t \in Seq(S) /\ Len(t) = 4 /\ t[1] = a /\ t[2] = b /\ t[3] = c /\ t[4] = d
    BY <1>2, <2>1
  <2>3. Listed(t)
    BY <2>2, ListedSeq
  <2>4. QED
    BY <2>2, <2>3, FourCalls
<1>3. SetType.do = "try" /\ SetType.errors = {"Error"}
  BY DEF SetType, SetHeader, Try, Call
<1>4. Handlers["reboot"] =
        <<SetType, Send("body")>> \o <<Call("schedule", <<"system", "reboot">>, {}),
                                       Call("wait", <<"reboot">>, {})>>
  BY <1>1 DEF SystemHandler, SendText, Execute
<1>5. Execute("system", "reboot") = <<Call("schedule", <<"system", "reboot">>, {}),
                                      Call("wait", <<"reboot">>, {})>>
  BY DEF Execute
<1>6. QED
  BY <1>2, <1>3, <1>4, <1>5

LEMMA ExecuteCalls ==
  /\ Execute("system", "reboot") # <<>> /\ Tail(Execute("system", "reboot")) # <<>>
  /\ Head(Execute("system", "reboot")).do = "schedule"
  /\ Head(Execute("system", "reboot")).arg[1] = "system"
  /\ Head(Tail(Execute("system", "reboot"))).do = "wait"
  /\ Tail(Tail(Execute("system", "reboot"))) = <<>>
<1>1. \A a, b : /\ <<a, b>> # <<>> /\ Head(<<a, b>>) = a /\ Tail(<<a, b>>) = <<b>>
                /\ <<b>> # <<>> /\ Head(<<b>>) = b /\ Tail(<<b>>) = <<>>
  OBVIOUS
<1>2. QED
  BY <1>1 DEF Execute, Call

(* What the next call says of where the handler is. *)
LEMMA Phase ==
  ASSUME AnswerInv, NEW do, Next1(do)
  PROVE  /\ do \in {"try", "add", "open", "send"} => Pending
         /\ do = "copy" => Copying
         /\ do = "end" => Ending
         /\ do \in {"schedule", "wait"} => Pending \/ Rebooting
         /\ request # NoRequest
         /\ code = "OK" \/ do = "end"
<1>1. calls # <<>> /\ Head(calls).do = do
  BY DEF Next1
<1>2. CASE Pending
  <2>1. request # NoRequest /\ code = "OK" /\ calls # <<>>
        /\ Head(calls).do \in {"send", "open", "try", "add", "schedule", "wait"}
    <3>1. CASE request = "unknown"
      <4>1. calls = <<Try("find_if", {"InvalidArg"})>>
        BY <1>2, <3>1 DEF Pending, Handlers
      <4>2. Head(calls).do = "try"
        BY <4>1 DEF Try, Call
      <4>3. QED
        BY <1>1, <1>2, <4>2 DEF Pending
    <3>2. CASE request = "reboot"
      <4>1. calls = Handlers["reboot"] \/ calls = Tail(Handlers["reboot"])
        BY <1>2, <3>2 DEF Pending
      <4>2. Send("body").do = "send"
        BY DEF Send, Call
      <4>3. Head(calls).do \in {"try", "send"}
        BY <4>1, <4>2, RebootCalls
      <4>4. QED
        BY <1>1, <1>2, <4>3 DEF Pending
    <3>3. CASE request \notin {"unknown", "reboot"}
      BY <1>1, <1>2, <3>3, OrderedHead DEF Pending
    <3>4. QED
      BY <3>1, <3>2, <3>3
  <2>2. QED
    BY <1>1, <1>2, <2>1
<1>3. CASE Rebooting
  BY <1>1, <1>3, ExecuteCalls DEF Rebooting
<1>4. CASE Copying \/ Ending
  <2>1. Head(calls) = calls[1]
    BY <1>1, <1>4, ListedLen DEF Copying, Ending
  <2>2. QED
    BY <1>1, <1>4, <2>1 DEF Copying, Ending
<1>5. ~Returned /\ ~Idle
  BY <1>1 DEF Returned, Idle
<1>6. QED
  BY <1>2, <1>3, <1>4, <1>5 DEF AnswerInv

-----------------------------------------------------------------------------
(* What the client got. *)

\* AnswerInv under each action of the HTTP task, and under those it does not see.
LEMMA AnswerStutters ==
  ASSUME AnswerInv, UNCHANGED <<request, calls, code, wire, connected, file>>
  PROVE  AnswerInv'
BY DEF AnswerInv, FileInv, Pending, Rebooting, Copying, Ending, Returned, Idle,
   AnswerFitsOutcome, Answered, WholeFile, SentUpTo

(* A handler that has failed, and one that is done with its answer. *)
LEMMA AnswerReturns ==
  ASSUME AnswerInv, request # NoRequest, request' = request, calls' = <<>>, code' # "OK",
         Listed(wire)', UNCHANGED file
  PROVE  AnswerInv'
<1>1. Returned'
  BY DEF Returned
<1>2. FileInv'
  BY DEF AnswerInv, FileInv
<1>3. QED
  BY <1>1, <1>2 DEF AnswerInv

LEMMA AnswerReceive ==
  ASSUME AnswerInv, NEW path \in DOMAIN Handlers, Receive(path)
  PROVE  AnswerInv'
<1>1. /\ request' = path /\ request' # NoRequest /\ code' = "OK" /\ wire' = <<>>
      /\ calls' = Handlers[path] /\ file' = Closed
  BY NoRequestAssumption DEF Receive
<1>2. Pending'
  BY <1>1, OrderedHandlers DEF Pending
<1>3. FileInv'
  BY <1>1 DEF FileInv, Closed
<1>4. Listed(wire)'
  BY <1>1 DEF Listed
<1>5. QED
  BY <1>2, <1>3, <1>4 DEF AnswerInv

(* A call of a handler that goes well. *)
LEMMA AnswerDone ==
  ASSUME AnswerInv, Pending, Next1("try") \/ Next1("add"), request # "unknown", Done,
         UNCHANGED <<wire, file>>
  PROVE  AnswerInv'
<1>1. /\ calls' = Tail(calls) /\ request' = request /\ code' = "OK" /\ wire' = <<>>
      /\ request # NoRequest /\ calls # <<>> /\ Head(calls).do \in {"try", "add"}
  BY DEF Done, Next1, Pending
<1>2. Pending'
  <2>1. CASE request = "reboot"
    <3>1. Send("body").do = "send"
      BY DEF Send, Call
    <3>2. calls = Handlers["reboot"]
      <4>1. calls = Handlers["reboot"] \/ calls = Tail(Handlers["reboot"])
        BY <2>1 DEF Pending
      <4>2. QED
        BY <1>1, <3>1, <4>1, RebootCalls
    <3>3. QED
      BY <1>1, <2>1, <3>2 DEF Pending
  <2>2. CASE request # "reboot"
    <3>1. Ordered(calls)
      BY <2>2 DEF Pending
    <3>2. Ordered(calls')
      BY <1>1, <3>1, OrderedHead
    <3>3. QED
      BY <1>1, <2>2, <3>2 DEF Pending
  <2>3. QED
    BY <2>1, <2>2
<1>3. FileInv' /\ Listed(wire)'
  BY DEF AnswerInv, FileInv
<1>4. QED
  BY <1>2, <1>3 DEF AnswerInv

LEMMA AnswerFail ==
  ASSUME AnswerInv, Fail
  PROVE  AnswerInv'
<1>1. PICK status \in Head(calls).errors : ReturnCode(status)
  BY DEF Fail
<1>2. Pending /\ Head(calls).do \in {"try", "add"}
  BY Phase DEF Fail, Next1
<1>3. "OK" \notin Head(calls).errors
  <2>1. CASE request = "unknown"
    <3>1. calls = <<Try("find_if", {"InvalidArg"})>>
      BY <1>2, <2>1 DEF Pending, Handlers
    <3>2. QED
      BY <3>1 DEF Try, Call
  <2>2. CASE request = "reboot"
    <3>1. calls = Handlers["reboot"] \/ calls = Tail(Handlers["reboot"])
      BY <1>2, <2>2 DEF Pending
    <3>2. Send("body").do = "send"
      BY DEF Send, Call
    <3>3. CASE calls = Handlers["reboot"]
      <4>1. Head(calls).errors = {"Error"}
        BY <3>3, RebootCalls
      <4>2. QED
        BY <4>1
    <3>4. CASE calls = Tail(Handlers["reboot"])
      <4>1. Head(calls).do = "send"
        BY <3>2, <3>4, RebootCalls
      <4>2. QED
        BY <1>2, <4>1
    <3>5. QED
      BY <3>1, <3>3, <3>4
  <2>3. CASE request \notin {"unknown", "reboot"}
    BY <1>2, <2>3, OrderedHead DEF Pending
  <2>4. QED
    BY <2>1, <2>2, <2>3
<1>4. /\ request # NoRequest /\ request' = request /\ calls' = <<>> /\ code' # "OK"
      /\ Listed(wire)' /\ UNCHANGED file
  BY <1>1, <1>2, <1>3 DEF Fail, ReturnCode, client, AnswerInv, Pending
<1>5. QED
  BY <1>4, AnswerReturns

LEMMA AnswerSend ==
  ASSUME AnswerInv, SendResponse
  PROVE  AnswerInv'
<1>1. Pending /\ Next1("send") /\ file' = file /\ Listed(wire)
  BY Phase DEF SendResponse, AnswerInv
<1>2. /\ request # NoRequest /\ code = "OK" /\ wire = <<>>
      /\ calls # <<>> /\ Head(calls).do = "send"
  BY <1>1 DEF Pending, Next1
<1>3. CASE ReturnCode("Error") /\ TransmitFails
  BY <1>1, <1>2, <1>3, AnswerReturns DEF ReturnCode, TransmitFails
<1>4. CASE Done /\ Transmit([is |-> Head(calls).arg[1], keys |-> document])
  <2> DEFINE item == [is |-> Head(calls).arg[1], keys |-> document]
  <2>1. /\ calls' = Tail(calls) /\ request' = request /\ code' = "OK"
        /\ wire' = Append(wire, item)
    BY <1>2, <1>4 DEF Done, Transmit
  <2>2. Listed(wire') /\ Len(wire') = 1 /\ wire'[1] = item
    <3> HIDE DEF item
    <3>1. Len(wire) = 0
      BY <1>2
    <3>2. Listed(Append(wire, item)) /\ Len(Append(wire, item)) = 0 + 1
            /\ Append(wire, item)[0 + 1] = item
      BY <1>1, <3>1, ListedAppend
    <3>3. QED
      BY <2>1, <3>2
  <2>3. request # "unknown"
    <3>1. Try("find_if", {"InvalidArg"}).do = "try"
      BY DEF Try, Call
    <3>2. request = "unknown" => calls = <<Try("find_if", {"InvalidArg"})>>
      BY <1>1 DEF Pending, Handlers
    <3>3. QED
      BY <1>2, <3>1, <3>2
  <2>4. request = "reboot" =>
          calls = Tail(Handlers["reboot"]) /\ Head(calls) = Send("body")
    <3>1. request = "reboot" =>
            calls = Handlers["reboot"] \/ calls = Tail(Handlers["reboot"])
      BY <1>1 DEF Pending
    <3>2. QED
      BY <1>2, <3>1, RebootCalls
  <2>5. request # "reboot" => Ordered(calls)
    BY <1>1, <2>3 DEF Pending
  <2>6. item.is \in {"body", "redirect"}
    <3>1. Send("body").arg[1] = "body"
      BY DEF Send, Call
    <3>2. Head(calls).arg[1] \in {"body", "redirect"}
      BY <1>2, <2>4, <2>5, <3>1, OrderedHead
    <3>3. QED
      BY <3>2
  <2>7. Answered(wire)'
    <3> HIDE DEF item
    <3>1. QED
      BY <2>2, <2>6 DEF Answered
  <2>8. Rebooting' \/ Returned'
    <3>1. CASE request = "reboot"
      BY <1>2, <2>1, <2>4, <2>7, <3>1, RebootCalls DEF Rebooting
    <3>2. CASE request # "reboot"
      <4>1. calls' = <<>>
        BY <1>2, <2>1, <2>5, <3>2, OrderedHead
      <4>2. QED
        BY <1>2, <2>1, <2>7, <4>1 DEF Returned
    <3>3. QED
      BY <3>1, <3>2
  <2>9. FileInv'
    BY <1>1 DEF AnswerInv, FileInv
  <2>10. QED
    BY <2>2, <2>8, <2>9 DEF AnswerInv
<1>5. QED
  BY <1>3, <1>4 DEF SendResponse

\* A sequence of one call.
LEMMA ListedCall ==
  ASSUME NEW x
  PROVE  Listed(<<x>>) /\ Len(<<x>>) = 1 /\ <<x>>[1] = x /\ <<x>> # <<>>
<1>1. <<x>> \in Seq({x})
  OBVIOUS
<1>2. QED
  BY <1>1, ListedSeq

\* AnswerInv when the file of an asset is opened, or is not there.
LEMMA AnswerOpen ==
  ASSUME AnswerInv, OpenFile
  PROVE  AnswerInv'
<1>1. /\ Pending /\ Next1("open") /\ Listed(wire) /\ FileInv
  BY Phase DEF OpenFile, AnswerInv
<1>2. /\ request # NoRequest /\ code = "OK" /\ wire = <<>>
      /\ request' = request /\ wire' = <<>>
  BY <1>1 DEF Pending, OpenFile, client
<1>3. CASE /\ \E size \in FileSizes : file' = [Closed EXCEPT !.open = TRUE, !.size = size]
           /\ calls' = <<Call("copy", <<>>, {"Error"})>> /\ UNCHANGED code
  <2>1. PICK size \in FileSizes : file' = [open |-> TRUE, size |-> size, pos |-> 0,
                                           eof |-> FALSE]
    BY <1>3 DEF Closed
  <2>2. size \in Nat
    BY FileAssumption
  <2>3. FileInv'
    BY <2>1, <2>2 DEF FileInv
  <2>4. SentUpTo(wire, file.pos)'
    BY <1>2, <2>1 DEF SentUpTo
  <2>5. Copying'
    BY <1>2, <1>3, <2>4, ListedCall DEF Copying, Call
  <2>6. QED
    BY <1>1, <1>2, <2>3, <2>5 DEF AnswerInv
<1>4. CASE calls' = <<Call("end", <<>>, {})>> /\ code' = "Error" /\ UNCHANGED file
  <2>1. Ending'
    BY <1>2, <1>4, ListedCall DEF Ending, Call
  <2>2. FileInv'
    BY <1>1, <1>4 DEF FileInv
  <2>3. QED
    BY <1>1, <1>2, <2>1, <2>2 DEF AnswerInv
<1>5. QED
  BY <1>3, <1>4 DEF OpenFile

(* A chunk sent from the position of the file on. *)
LEMMA SentAppend ==
  ASSUME NEW s, Listed(s), NEW e, NEW pos \in Nat, SentUpTo(s, pos),
         NEW n \in Nat, e.from = pos, e.size = n
  PROVE  SentUpTo(Append(s, e), pos + n)
<1> DEFINE t == Append(s, e)
<1>1. /\ Listed(t) /\ Len(t) = Len(s) + 1
      /\ \A i \in 1 .. Len(s) : t[i] = s[i]
      /\ t[Len(s) + 1] = e
  BY ListedAppend
<1>2. /\ Len(s) \in Nat /\ DOMAIN s = 1 .. Len(s) /\ (s = <<>> <=> Len(s) = 0)
      /\ DOMAIN t = 1 .. Len(t) /\ (t = <<>> <=> Len(t) = 0)
  BY <1>1, ListedLen
<1> HIDE DEF t
<1>3. pos = IF s = <<>> THEN 0 ELSE s[Len(s)].from + s[Len(s)].size
  BY DEF SentUpTo
<1>4. ASSUME NEW i \in DOMAIN t
      PROVE  t[i].from = IF i = 1 THEN 0 ELSE t[i - 1].from + t[i - 1].size
  <2>1. CASE i \in DOMAIN s
    <3>1. i # 1 => i - 1 \in 1 .. Len(s)
      BY <1>2, <2>1
    <3>2. s[i].from = IF i = 1 THEN 0 ELSE s[i - 1].from + s[i - 1].size
      BY <2>1 DEF SentUpTo
    <3>3. QED
      BY <1>1, <1>2, <2>1, <3>1, <3>2
  <2>2. CASE i = Len(s) + 1
    <3>1. i # 1 => Len(s) \in 1 .. Len(s) /\ i - 1 = Len(s)
      BY <1>2, <2>2
    <3>2. i = 1 <=> s = <<>>
      BY <1>2, <2>2
    <3>3. QED
      BY <1>1, <1>3, <2>2, <3>1, <3>2
  <2>3. QED
    BY <1>1, <1>2, <2>1, <2>2
<1>5. t # <<>> /\ t[Len(t)] = e
  BY <1>1, <1>2
<1>6. SentUpTo(t, pos + n)
  BY <1>4, <1>5 DEF SentUpTo
<1>7. QED
  BY <1>6 DEF t

\* A read takes up where the last one ended, and meets the end of the file.
LEMMA ReadsOn ==
  ASSUME FileInv
  PROVE  /\ ReadFile.n \in Nat /\ ReadFile.file.pos = file.pos + ReadFile.n
         /\ ReadFile.file = [open |-> file.open, size |-> file.size,
                             pos |-> file.pos + ReadFile.n,
                             eof |-> ReadFile.n < BufferSize]
         /\ file.pos + ReadFile.n \in 0 .. file.size
         /\ ReadFile.n < BufferSize => file.pos + ReadFile.n = file.size
<1> DEFINE left == file.size - file.pos
           n == IF left < BufferSize THEN left ELSE BufferSize
<1>1. ReadFile = [n |-> n, file |-> [file EXCEPT !.pos = @ + n, !.eof = n < BufferSize]]
  BY DEF ReadFile
<1>2. ReadFile.n = n
        /\ ReadFile.file = [file EXCEPT !.pos = @ + n, !.eof = n < BufferSize]
  <2> HIDE DEF n
  <2>1. QED
    BY <1>1
<1>3. n \in Nat /\ file.pos + n \in 0 .. file.size
        /\ (n < BufferSize => file.pos + n = file.size)
  BY FileAssumption DEF FileInv
<1> HIDE DEF n
<1>4. [file EXCEPT !.pos = @ + n, !.eof = n < BufferSize]
        = [open |-> file.open, size |-> file.size, pos |-> file.pos + n,
           eof |-> n < BufferSize]
  <2> DEFINE p == file.pos + n
             e == n < BufferSize
             S == {"open", "size", "pos", "eof"}
             g == [file EXCEPT !.pos = p, !.eof = e]
             h == [open |-> file.open, size |-> file.size, pos |-> p, eof |-> e]
  <2>1. file = [open |-> file.open, size |-> file.size, pos |-> file.pos,
                eof |-> file.eof]
    BY DEF FileInv
  <2> HIDE DEF p, e
  <2>2. g = [x \in S |-> g[x]] /\ h = [x \in S |-> h[x]]
    BY <2>1
  <2>3. /\ g["open"] = h["open"] /\ g["size"] = h["size"]
        /\ g["pos"] = h["pos"] /\ g["eof"] = h["eof"]
    BY <2>1
  <2> HIDE DEF g, h
  <2>4. g = h
    BY <2>2, <2>3
  <2>5. QED
    BY <2>4 DEF g, h, p, e
<1>5. QED
  BY <1>2, <1>3, <1>4

LEMMA FileReadsOn ==
  ASSUME FileInv, file' = ReadFile.file
  PROVE  FileInv'
<1>1. /\ file' = [open |-> file.open, size |-> file.size, pos |-> file.pos + ReadFile.n,
                  eof |-> ReadFile.n < BufferSize]
      /\ file.pos + ReadFile.n \in 0 .. file.size /\ file.size \in Nat
      /\ ReadFile.n < BufferSize => file.pos + ReadFile.n = file.size
  BY ReadsOn DEF FileInv
<1> DEFINE n == ReadFile.n
           e == n < BufferSize
<1> HIDE DEF n
<1>2. /\ file'.open = file.open /\ file'.size = file.size /\ file'.pos = file.pos + n
      /\ file' = [open |-> file'.open, size |-> file'.size, pos |-> file'.pos,
                  eof |-> file'.eof]
  BY <1>1 DEF n
<1>3. file'.eof = e /\ e \in BOOLEAN
  BY <1>1 DEF n
<1>4. e => file.pos + n = file.size
  BY <1>1 DEF n
<1>5. file'.pos \in 0 .. file'.size /\ file'.size \in Nat
  BY <1>1, <1>2 DEF n
<1>6. file'.eof => file'.pos = file'.size
  <2> HIDE DEF e
  <2>1. QED
    BY <1>2, <1>3, <1>4
<1>7. file'.eof \in BOOLEAN
  BY <1>3, Zenon
<1>8. QED
  BY <1>2, <1>5, <1>6, <1>7 DEF FileInv

\* AnswerInv when the copying ends, goes on, and when the streams are closed.
LEMMA EndsCopy ==
  ASSUME request # NoRequest, request' = request, NEW status, EndCopy(status),
         status # "OK", Listed(wire)', FileInv'
  PROVE  AnswerInv'
<1>1. Ending'
  BY ListedCall DEF Ending, EndCopy, Call
<1>2. QED
  BY <1>1 DEF AnswerInv

LEMMA AnswerCopy ==
  ASSUME AnswerInv, CopyChunk
  PROVE  AnswerInv'
<1>1. Copying /\ FileInv /\ Listed(wire) /\ request' = request
  BY Phase DEF CopyChunk, AnswerInv
<1>2. request # NoRequest /\ code = "OK" /\ SentUpTo(wire, file.pos)
  BY <1>1 DEF Copying
<1>3. CASE file.eof /\ EndCopy("OK") /\ UNCHANGED <<file, client>>
  <2>1. Ending'
    BY <1>1, <1>2, <1>3, ListedCall DEF Ending, EndCopy, Call, client, SentUpTo
  <2>2. FileInv' /\ Listed(wire)'
    BY <1>1, <1>3 DEF FileInv, client
  <2>3. QED
    BY <2>1, <2>2 DEF AnswerInv
<1>4. CASE EndCopy("Error") /\ UNCHANGED <<file, client>>
  <2>1. FileInv' /\ Listed(wire)'
    BY <1>1, <1>4 DEF FileInv, client
  <2>2. QED
    BY <1>1, <1>2, <1>4, <2>1, EndsCopy
<1>5. CASE file' = ReadFile.file /\ Transmit(Chunk(ReadFile.n)) /\ UNCHANGED <<calls, code>>
  <2> DEFINE n == ReadFile.n
             item == Chunk(n)
  <2>1. n \in Nat /\ file'.pos = file.pos + n /\ file.pos \in Nat
    BY <1>1, <1>5, ReadsOn DEF FileInv
  <2>2. item.from = file.pos /\ item.size = n
    BY DEF Chunk
  <2>3. wire' = Append(wire, item)
    BY <1>5 DEF Transmit
  <2> HIDE DEF n, item
  <2>4. SentUpTo(Append(wire, item), file.pos + n)
    BY <1>1, <1>2, <2>1, <2>2, SentAppend
  <2>5. SentUpTo(wire, file.pos)'
    <3>1. SentUpTo(wire', file.pos + n)
      BY <2>3, <2>4
    <3>2. SentUpTo(wire', file'.pos)
      BY <2>1, <3>1
    <3>3. QED
      BY <3>2 DEF SentUpTo
  <2>6. Listed(wire)'
    BY <1>1, <2>3, ListedAppend
  <2>7. Copying'
    BY <1>1, <1>2, <1>5, <2>5 DEF Copying
  <2>8. FileInv'
    BY <1>1, <1>5, FileReadsOn
  <2>9. QED
    BY <2>6, <2>7, <2>8 DEF AnswerInv
<1>6. CASE file' = ReadFile.file /\ TransmitFails /\ EndCopy("Error")
  <2>1. Listed(wire)'
    BY <1>1, <1>6 DEF TransmitFails
  <2>2. FileInv'
    BY <1>1, <1>6, FileReadsOn
  <2>3. QED
    BY <1>1, <1>2, <1>6, <2>1, <2>2, EndsCopy
<1>7. QED
  BY <1>3, <1>4, <1>5, <1>6 DEF CopyChunk

LEMMA AnswerEnd ==
  ASSUME AnswerInv, EndStreams
  PROVE  AnswerInv'
<1>1. Ending /\ FileInv /\ Listed(wire)
  BY Phase DEF EndStreams, AnswerInv
<1>2. /\ request # NoRequest /\ request' = request /\ code' = code
      /\ file' = [file EXCEPT !.open = FALSE]
      /\ Transmit(Chunk(0)) \/ TransmitFails
  BY <1>1 DEF Ending, EndStreams, Done, CloseFile
<1>3. calls' = <<>>
  <2>1. Listed(calls) /\ Len(calls) = 1 /\ calls # <<>> /\ calls' = Tail(calls)
    BY <1>1, ListedLen DEF Ending, EndStreams, Done
  <2>2. Listed(Tail(calls)) /\ Len(Tail(calls)) = 1 - 1
    BY <2>1, ListedTail
  <2>3. Len(Tail(calls)) = 0
    BY <2>2
  <2>4. Tail(calls) = <<>>
    BY <2>2, <2>3, ListedLen
  <2>5. QED
    BY <2>1, <2>4
<1>4. /\ file' = [open |-> FALSE, size |-> file.size, pos |-> file.pos,
                  eof |-> file.eof]
  BY <1>1, <1>2 DEF FileInv
<1>5. FileInv'
  <2>1. /\ file'.open = FALSE /\ file'.size = file.size /\ file'.pos = file.pos
        /\ file'.eof = file.eof
        /\ file' = [open |-> file'.open, size |-> file'.size, pos |-> file'.pos,
                    eof |-> file'.eof]
    BY <1>4
  <2>2. QED
    BY <1>1, <2>1 DEF FileInv
<1>6. CASE Transmit(Chunk(0))
  <2> DEFINE item == Chunk(0)
  <2>1. item.from = file.pos /\ item.size = 0 /\ item.is = "end"
    BY DEF Chunk
  <2>2. wire' = Append(wire, item)
    BY <1>6 DEF Transmit
  <2> HIDE DEF item
  <2>3. Listed(wire') /\ Len(wire') = Len(wire) + 1 /\ wire'[Len(wire) + 1] = item
    BY <1>1, <2>2, ListedAppend
  <2>4. ASSUME code = "OK"
        PROVE  WholeFile(wire)'
    <3>1. SentUpTo(wire, file.pos) /\ file.pos = file.size /\ file.pos \in Nat
      BY <1>1, <2>4 DEF Ending, FileInv
    <3>2. SentUpTo(wire', file.pos + 0)
      BY <1>1, <2>1, <2>2, <3>1, SentAppend
    <3>3. Last(wire') = item
      BY <2>3 DEF Last
    <3>4. file'.size = file.size
      BY <1>4
    <3>5. \A i \in DOMAIN wire' :
            wire'[i].from = IF i = 1 THEN 0 ELSE wire'[i - 1].from + wire'[i - 1].size
      BY <3>2 DEF SentUpTo
    <3>6. QED
      BY <2>1, <3>1, <3>3, <3>4, <3>5 DEF WholeFile
  <2>5. Returned'
    BY <1>2, <1>3, <2>4 DEF Returned, Answered
  <2>6. QED
    BY <1>5, <2>3, <2>5 DEF AnswerInv
<1>7. CASE TransmitFails
  <2>1. Returned' /\ Listed(wire)'
    BY <1>1, <1>2, <1>3, <1>7 DEF Returned, TransmitFails
  <2>2. QED
    BY <1>5, <2>1 DEF AnswerInv
<1>8. QED
  BY <1>2, <1>6, <1>7

(* The call that hands a function over, and the one that waits for it. *)
LEMMA AnswerGoesOn ==
  ASSUME AnswerInv, Next1("schedule") \/ Next1("wait"), Done, UNCHANGED <<file, client>>
  PROVE  AnswerInv'
<1>1. Pending \/ Rebooting
  BY Phase
<1>2. /\ calls' = Tail(calls) /\ request' = request /\ code' = code
      /\ wire' = wire /\ connected' = connected /\ file' = file
      /\ Head(calls).do \in {"schedule", "wait"}
  BY DEF Done, client, Next1
<1>3. FileInv' /\ Listed(wire)'
  BY <1>2 DEF AnswerInv, FileInv
<1>4. CASE Pending
  <2>1. request \notin {"unknown", "reboot"}
    <3>1. Send("body").do = "send" /\ Try("find_if", {"InvalidArg"}).do = "try"
      BY DEF Send, Try, Call
    <3>2. request = "unknown" => calls = <<Try("find_if", {"InvalidArg"})>>
      BY <1>4 DEF Pending, Handlers
    <3>3. request = "reboot" =>
            calls = Handlers["reboot"] \/ calls = Tail(Handlers["reboot"])
      BY <1>4 DEF Pending
    <3>4. request # "unknown"
      BY <1>2, <3>1, <3>2
    <3>5. request # "reboot"
      BY <1>2, <3>1, <3>3, RebootCalls
    <3>6. QED
      BY <3>4, <3>5
  <2>2. Ordered(calls)
    BY <1>4, <2>1 DEF Pending
  <2>3. Ordered(calls')
    BY <1>2, <2>2, OrderedHead
  <2>4. Pending'
    BY <1>2, <1>4, <2>1, <2>3 DEF Pending
  <2>5. QED
    BY <1>3, <2>4 DEF AnswerInv
<1>5. CASE Rebooting
  <2>1. Rebooting' \/ Returned'
    BY <1>2, <1>5, ExecuteCalls DEF Rebooting, Returned, Answered, WholeFile
  <2>2. QED
    BY <1>3, <2>1 DEF AnswerInv
<1>6. QED
  BY <1>1, <1>4, <1>5

\* AnswerInv when a function is queued and awaited, and when the handler returns.
LEMMA AnswerSchedule ==
  ASSUME AnswerInv, Schedule
  PROVE  AnswerInv'
<1>1. Next1("schedule") /\ UNCHANGED <<file, client>>
      /\ (Done \/ ReturnCode("InvalidState"))
  BY DEF Schedule
<1>2. CASE Done
  BY <1>1, <1>2, AnswerGoesOn
<1>3. CASE ReturnCode("InvalidState")
  <2>1. request # NoRequest
    BY <1>1, Phase
  <2>2. Listed(wire)'
    BY <1>1 DEF client, AnswerInv
  <2>3. QED
    BY <1>1, <1>3, <2>1, <2>2, AnswerReturns DEF ReturnCode
<1>4. QED
  BY <1>1, <1>2, <1>3

LEMMA AnswerAwait ==
  ASSUME AnswerInv, Await \/ GiveUp
  PROVE  AnswerInv'
<1>1. /\ Next1("wait") /\ UNCHANGED <<file, client>>
      /\ Done \/ \E status : status # "OK" /\ ReturnCode(status)
  BY DEF Await, GiveUp
<1>2. CASE Done
  BY <1>1, <1>2, AnswerGoesOn
<1>3. ASSUME NEW status, status # "OK", ReturnCode(status)
      PROVE  AnswerInv'
  <2>1. request # NoRequest
    BY <1>1, Phase
  <2>2. Listed(wire)'
    BY <1>1 DEF client, AnswerInv
  <2>3. QED
    BY <1>1, <1>3, <2>1, <2>2, AnswerReturns DEF ReturnCode
<1>4. QED
  BY <1>1, <1>2, <1>3

(* Only a handler that has returned has no call left. *)
LEMMA NoCalls ==
  ASSUME AnswerInv, calls = <<>>
  PROVE  Returned \/ Idle
<1>1. ~Pending
  <2>1. Handlers["unknown"] # <<>>
    BY ListedCall DEF Handlers
  <2>2. \A c : Ordered(c) => c # <<>>
    BY DEF Ordered
  <2>3. QED
    BY <2>1, <2>2, RebootCalls DEF Pending
<1>2. ~Rebooting
  BY ExecuteCalls DEF Rebooting
<1>3. ~Copying /\ ~Ending
  BY ListedLen DEF Copying, Ending
<1>4. QED
  BY <1>1, <1>2, <1>3 DEF AnswerInv

LEMMA AnswerRespond ==
  ASSUME AnswerInv, Respond
  PROVE  AnswerInv'
<1>1. /\ calls = <<>> /\ calls' = <<>> /\ request # NoRequest /\ request' = NoRequest
      /\ code' = code /\ file' = file /\ Listed(wire) /\ FileInv
  BY DEF Respond, AnswerInv
<1>2. Returned
  BY <1>1, NoCalls DEF Idle
<1>3. FileInv'
  BY <1>1 DEF FileInv
<1>4. CASE code = "OK" /\ UNCHANGED client
  <2>1. wire' = wire /\ connected' = connected
    BY <1>4 DEF client
  <2>2. code = "OK" /\ connected => Answered(wire)
    BY <1>2 DEF Returned
  <2>3. AnswerFitsOutcome'
    BY <1>1, <1>4, <2>1, <2>2 DEF AnswerFitsOutcome, Answered, WholeFile
  <2>4. QED
    BY <1>1, <1>3, <2>1, <2>3 DEF AnswerInv, Idle
<1>5. CASE code # "OK" /\ Transmit([is |-> "error", http |-> HttpCode(code)])
  <2> DEFINE item == [is |-> "error", http |-> HttpCode(code)]
  <2>1. item.is = "error" /\ wire' = Append(wire, item)
    BY <1>5 DEF Transmit
  <2> HIDE DEF item
  <2>2. Listed(wire') /\ Len(wire') = Len(wire) + 1 /\ wire'[Len(wire) + 1] = item
    BY <1>1, <2>1, ListedAppend
  <2>3. Last(wire').is = "error"
    BY <2>1, <2>2 DEF Last
  <2>4. AnswerFitsOutcome'
    BY <1>1, <1>5, <2>3 DEF AnswerFitsOutcome
  <2>5. QED
    BY <1>1, <1>3, <2>2, <2>4 DEF AnswerInv, Idle
<1>6. CASE code # "OK" /\ TransmitFails
  <2>1. wire' = wire /\ ~connected'
    BY <1>6 DEF TransmitFails
  <2>2. QED
    BY <1>1, <1>3, <2>1 DEF AnswerInv, Idle, AnswerFitsOutcome
<1>7. QED
  BY <1>4, <1>5, <1>6 DEF Respond

LEMMA AnswerRestart ==
  ASSUME AnswerInv, Restart
  PROVE  AnswerInv'
<1>1. FileInv'
  BY DEF Restart, FileInv, Closed
<1>2. Idle' /\ Listed(wire)'
  BY DEF Restart, Idle, AnswerFitsOutcome, AnswerInv
<1>3. QED
  BY <1>1, <1>2 DEF AnswerInv

\* AnswerInv under every action.
LEMMA AnswerStep ==
  ASSUME AnswerInv, Next
  PROVE  AnswerInv'
<1>1. CASE \E path \in DOMAIN Handlers : Receive(path)
  BY <1>1, AnswerReceive
<1>2. CASE Succeed
  <2>1. Pending
    BY <1>2, Phase DEF Succeed
  <2>2. QED
    BY <1>2, <2>1, AnswerDone DEF Succeed, client
<1>3. CASE AddItem
  <2>1. Pending
    BY <1>3, Phase DEF AddItem
  <2>2. request # "unknown"
    <3>1. Try("find_if", {"InvalidArg"}).do = "try"
      BY DEF Try, Call
    <3>2. request = "unknown" => calls = <<Try("find_if", {"InvalidArg"})>>
      BY <2>1 DEF Pending, Handlers
    <3>3. Head(calls).do = "add"
      BY <1>3 DEF AddItem, Next1
    <3>4. QED
      BY <3>1, <3>2, <3>3
  <2>3. QED
    BY <1>3, <2>1, <2>2, AnswerDone DEF AddItem, client
<1>4. CASE Fail \/ SendResponse \/ OpenFile \/ CopyChunk \/ EndStreams
  BY <1>4, AnswerFail, AnswerSend, AnswerOpen, AnswerCopy, AnswerEnd
<1>5. CASE Schedule \/ Await \/ GiveUp \/ Respond
  BY <1>5, AnswerSchedule, AnswerAwait, AnswerRespond
<1>6. CASE FuncReboots \/ FuncStrays
  <2>1. Restart \/ UNCHANGED <<request, calls, code, wire, connected, file>>
    BY <1>6 DEF FuncReboots, FuncStrays, httpTask, client
  <2>2. QED
    BY <2>1, AnswerRestart, AnswerStutters
<1>7. CASE (\E s \in Schedulers : Take(s)) \/ FuncSucceeds \/ FuncAdds \/ FuncFails
             \/ FuncReturns
  <2>1. UNCHANGED <<request, calls, code, wire, connected, file>>
    BY <1>7 DEF Take, FuncSucceeds, FuncAdds, FuncFails, FuncReturns, httpTask, client
  <2>2. QED
    BY <2>1, AnswerStutters
<1>8. QED
  BY <1>1, <1>2, <1>3, <1>4, <1>5, <1>6, <1>7 DEF Next, HttpTask, MainTask

-----------------------------------------------------------------------------
(* The functions. *)

FuncInv == Functions /\ OneAlive /\ AliveAwaited

(* Nothing may use the variables of a handler. *)
NoneAlive ==
  /\ \A s \in Schedulers : \A i \in DOMAIN queue[s] : queue[s][i].frame # "alive"
  /\ \A i \in DOMAIN running : running[i].frame # "alive"

\* Nobody's frame is alive unless the handler waits for the function queued last.
LEMMA NotAwaited ==
  ASSUME FuncInv, ~Next1("wait") \/ future # "Last"
  PROVE  NoneAlive
BY DEF FuncInv, AliveAwaited, NoneAlive

\* FuncInv where no frame is alive.
LEMMA NoneStaysAlive ==
  ASSUME Functions', NoneAlive'
  PROVE  FuncInv'
BY DEF FuncInv, OneAlive, AliveAwaited, NoneAlive

\* FuncInv where no function is queued or executed.
LEMMA FuncStutters ==
  ASSUME FuncInv, NoneAlive, UNCHANGED <<queue, running>>
  PROVE  FuncInv'
<1>1. Functions' /\ NoneAlive'
  BY DEF FuncInv, Functions, NoneAlive
<1>2. QED
  BY <1>1, NoneStaysAlive

\* A function that goes on, or whose handler gives up.
LEMMA FunctionContinues ==
  ASSUME NEW f, NEW g, Function(f), g = [f EXCEPT !.calls = Tail(@)] \/ g = Abandon(f)
  PROVE  /\ Function(g)
         /\ g = [f EXCEPT !.calls = Tail(@)] => g.frame = f.frame
         /\ g = Abandon(f) => g.frame # "alive"
BY DEF Function, Abandon

\* FuncInv when the handler gives up, the device restarts and a function is taken.
LEMMA FuncGiveUp ==
  ASSUME FuncInv, GiveUp
  PROVE  FuncInv'
<1>1. /\ queue' = [s \in Schedulers |-> [i \in DOMAIN queue[s] |-> Abandon(queue[s][i])]]
      /\ running' = [i \in DOMAIN running |-> Abandon(running[i])]
  BY DEF GiveUp
<1>2. Functions
  BY DEF FuncInv
<1>3. ASSUME NEW s \in Schedulers
      PROVE  /\ Listed(queue'[s]) /\ DOMAIN queue'[s] = DOMAIN queue[s]
             /\ \A i \in DOMAIN queue[s] :
                  Function(queue'[s][i]) /\ queue'[s][i].frame # "alive"
  <2> DEFINE q == queue'[s]
  <2>1. q = [i \in DOMAIN queue[s] |-> Abandon(queue[s][i])]
    BY <1>1
  <2> HIDE DEF q
  <2>2. Listed(q) /\ DOMAIN q = DOMAIN queue[s]
    <3>1. q = [i \in DOMAIN queue[s] |-> q[i]]
      BY <2>1
    <3>2. Listed(queue[s])
      BY <1>2 DEF Functions
    <3>3. QED
      BY <3>1, <3>2, ListedMap
  <2>3. \A i \in DOMAIN queue[s] :
          q[i] = Abandon(queue[s][i]) /\ Function(queue[s][i])
    BY <1>2, <2>1 DEF Functions
  <2>4. QED
    BY <2>2, <2>3, FunctionContinues DEF q
<1>4. /\ Listed(running') /\ DOMAIN running' = DOMAIN running /\ Len(running') <= 1
      /\ \A i \in DOMAIN running :
           Function(running'[i]) /\ running'[i].frame # "alive"
  <2>1. running' = [i \in DOMAIN running |-> running'[i]]
    BY <1>1
  <2>2. Listed(running) /\ Len(running) <= 1
    BY <1>2 DEF Functions
  <2>3. Listed(running') /\ DOMAIN running' = DOMAIN running
    BY <2>1, <2>2, ListedMap
  <2>4. Len(running') <= 1
    <3>1. /\ Len(running) \in Nat /\ DOMAIN running = 1 .. Len(running)
          /\ Len(running') \in Nat /\ DOMAIN running' = 1 .. Len(running')
      BY <2>2, <2>3, ListedLen
    <3>2. QED
      BY <2>2, <2>3, <3>1
  <2>5. \A i \in DOMAIN running :
          running'[i] = Abandon(running[i]) /\ Function(running[i])
    BY <1>1, <1>2 DEF Functions
  <2>6. QED
    BY <2>3, <2>4, <2>5, FunctionContinues
<1>5. queue' = [s \in Schedulers |-> queue'[s]]
  BY <1>1
<1>6. Functions' /\ NoneAlive'
  BY <1>3, <1>4, <1>5 DEF Functions, NoneAlive
<1>7. QED
  BY <1>6, NoneStaysAlive

LEMMA FuncRestart ==
  ASSUME Restart
  PROVE  FuncInv'
<1>1. queue' = [s \in Schedulers |-> <<>>] /\ running' = <<>>
  BY DEF Restart
<1>2. Listed(<<>>) /\ Len(<<>>) = 0 /\ DOMAIN <<>> = {}
  BY DEF Listed
<1>3. /\ queue' = [s \in Schedulers |-> queue'[s]]
      /\ \A s \in Schedulers : queue'[s] = <<>>
  BY <1>1
<1>4. Functions' /\ NoneAlive'
  BY <1>1, <1>2, <1>3 DEF Functions, NoneAlive
<1>5. QED
  BY <1>4, NoneStaysAlive

(* A handler hands a function over and waits for it. *)
LEMMA FuncSchedule ==
  ASSUME AnswerInv, FuncInv, Schedule
  PROVE  FuncInv'
<1>1. /\ Next1("schedule") /\ running' = running
      /\ calls # <<>> /\ Head(calls).do = "schedule"
  BY DEF Schedule, Next1
<1>2. NoneAlive
  <2>1. ~Next1("wait")
    BY <1>1 DEF Next1
  <2>2. QED
    BY <2>1, NotAwaited
<1>3. CASE UNCHANGED <<queue, future>>
  BY <1>1, <1>2, <1>3, FuncStutters
<1> DEFINE s == Head(calls).arg[1]
           f == Head(calls).arg[2]
<1>4. ASSUME NEW n,
             queue' = [queue EXCEPT ![s] = Append(@, [function |-> f, calls |-> Body(f, n),
                                                      frame |-> "alive"])],
             future' = "Last", Done
      PROVE  FuncInv'
  <2> DEFINE new == [function |-> f, calls |-> Body(f, n), frame |-> "alive"]
  <2>1. s \in Schedulers /\ Next1("wait")'
    <3>1. s \in Schedulers /\ Tail(calls) # <<>> /\ Head(Tail(calls)).do = "wait"
      <4>1. CASE Rebooting
        BY <1>1, <4>1, ExecuteCalls DEF Rebooting, Schedulers
      <4>2. CASE Pending
        <5>1. Send("body").do = "send" /\ Try("find_if", {"InvalidArg"}).do = "try"
          BY DEF Send, Try, Call
        <5>2. request = "unknown" => Head(calls).do = "try"
          <6>1. request = "unknown" => calls = <<Try("find_if", {"InvalidArg"})>>
            BY <4>2 DEF Pending, Handlers
          <6>2. QED
            BY <5>1, <6>1
        <5>3. request = "reboot" => Head(calls).do \in {"try", "send"}
          <6>1. request = "reboot" =>
                  calls = Handlers["reboot"] \/ calls = Tail(Handlers["reboot"])
            BY <4>2 DEF Pending
          <6>2. QED
            BY <5>1, <6>1, RebootCalls
        <5>4. Ordered(calls)
          BY <1>1, <4>2, <5>2, <5>3 DEF Pending
        <5>5. Ordered(Tail(calls))
          BY <1>1, <5>4, OrderedHead
        <5>6. QED
          BY <1>1, <5>4, <5>5, OrderedHead DEF Ordered
      <4>3. QED
        BY <1>1, <4>1, <4>2, Phase
    <3>2. calls' = Tail(calls)
      BY <1>4 DEF Done
    <3>3. QED
      BY <3>1, <3>2 DEF Next1
  <2>2. new.frame = "alive" /\ Function(new)
    BY DEF Function
  <2>3. Functions
    BY DEF FuncInv
  <2>4. /\ queue' = [t \in Schedulers |-> queue'[t]]
        /\ queue'[s] = Append(queue[s], new)
        /\ \A t \in Schedulers : t # s => queue'[t] = queue[t]
    BY <1>4, <2>1, <2>3 DEF Functions
  <2> HIDE DEF s, f, new
  <2>5. /\ Listed(queue[s]) /\ Len(queue[s]) \in Nat
        /\ DOMAIN queue[s] = 1 .. Len(queue[s])
    BY <2>1, <2>3, ListedLen DEF Functions
  <2>6. /\ Listed(queue'[s]) /\ Len(queue'[s]) = Len(queue[s]) + 1
        /\ \A i \in 1 .. Len(queue[s]) : queue'[s][i] = queue[s][i]
        /\ queue'[s][Len(queue[s]) + 1] = new
    BY <2>4, <2>5, ListedAppend
  <2>7. DOMAIN queue'[s] = 1 .. Len(queue[s]) + 1
    BY <2>6, ListedLen
  <2>8. \A i \in DOMAIN queue'[s] : \/ i \in DOMAIN queue[s] /\ queue'[s][i] = queue[s][i]
                                    \/ i = Len(queue[s]) + 1 /\ queue'[s][i] = new
    BY <2>5, <2>6, <2>7
  <2>9. Functions'
    <3>1. \A t \in Schedulers : Listed(queue'[t])
            /\ \A i \in DOMAIN queue'[t] : Function(queue'[t][i])
      BY <2>2, <2>3, <2>4, <2>6, <2>8 DEF Functions
    <3>2. QED
      BY <1>1, <2>3, <2>4, <3>1 DEF Functions
  <2>10. \A t \in Schedulers : \A i \in DOMAIN queue'[t] :
           queue'[t][i].frame = "alive" => t = s /\ i = Len(queue[s]) + 1
    BY <1>2, <2>4, <2>8 DEF NoneAlive
  <2>11. \A i \in DOMAIN running' : running'[i].frame # "alive"
    BY <1>1, <1>2 DEF NoneAlive
  <2>12. OneAlive'
    BY <2>10, <2>11 DEF OneAlive
  <2>13. AliveAwaited'
    BY <1>4, <2>1, <2>11 DEF AliveAwaited
  <2>14. QED
    BY <2>9, <2>12, <2>13 DEF FuncInv
<1>5. QED
  BY <1>3, <1>4 DEF Schedule

LEMMA FuncTake ==
  ASSUME FuncInv, NEW s \in Schedulers, Take(s)
  PROVE  FuncInv'
<1>1. /\ running = <<>> /\ queue[s] # <<>> /\ running' = <<Head(queue[s])>>
      /\ queue' = [queue EXCEPT ![s] = Tail(@)] /\ calls' = calls /\ future' = future
  BY DEF Take, httpTask
<1>2. Functions /\ OneAlive /\ AliveAwaited
  BY DEF FuncInv
<1>3. /\ Listed(queue[s]) /\ Len(queue[s]) \in Nat /\ Len(queue[s]) # 0
      /\ DOMAIN queue[s] = 1 .. Len(queue[s]) /\ Head(queue[s]) = queue[s][1]
      /\ 1 \in DOMAIN queue[s]
  <2>1. Listed(queue[s])
    BY <1>2 DEF Functions
  <2>2. QED
    BY <1>1, <2>1, ListedLen
<1>4. /\ queue' = [t \in Schedulers |-> queue'[t]]
      /\ queue'[s] = Tail(queue[s])
      /\ \A t \in Schedulers : t # s => queue'[t] = queue[t]
  BY <1>1, <1>2 DEF Functions
<1>5. /\ Listed(queue'[s]) /\ Len(queue'[s]) = Len(queue[s]) - 1
      /\ \A i \in 1 .. Len(queue[s]) - 1 : queue'[s][i] = queue[s][i + 1]
  BY <1>1, <1>3, <1>4, ListedTail
<1>6. DOMAIN queue'[s] = 1 .. Len(queue[s]) - 1
  BY <1>5, ListedLen
<1>7. \A i \in DOMAIN queue'[s] : i \in Nat /\ i + 1 \in DOMAIN queue[s] /\ i + 1 # 1
                                    /\ queue'[s][i] = queue[s][i + 1]
  BY <1>3, <1>5, <1>6
<1>8. /\ Listed(running') /\ Len(running') = 1 /\ running'[1] = queue[s][1]
      /\ DOMAIN running' = {1}
  <2>1. /\ Listed(running') /\ Len(running') = 1 /\ running'[1] = queue[s][1]
    BY <1>1, <1>3, ListedCall
  <2>2. DOMAIN running' = 1 .. 1
    BY <2>1, ListedLen
  <2>3. QED
    BY <2>1, <2>2
<1>9. Functions'
  <2>1. ASSUME NEW t \in Schedulers
        PROVE  Listed(queue'[t]) /\ \A i \in DOMAIN queue'[t] : Function(queue'[t][i])
    <3>1. CASE t = s
      <4>1. \A i \in DOMAIN queue[s] : Function(queue[s][i])
        BY <1>2 DEF Functions
      <4>2. ASSUME NEW i \in DOMAIN queue'[s]
            PROVE  Function(queue'[s][i])
        <5>1. Function(queue[s][i + 1]) /\ queue'[s][i] = queue[s][i + 1]
          BY <1>7, <4>1
        <5>2. QED
          BY <5>1
      <4>3. QED
        BY <1>5, <3>1, <4>2
    <3>2. CASE t # s
      <4>1. queue'[t] = queue[t]
        BY <1>4, <3>2
      <4>2. Listed(queue[t]) /\ \A i \in DOMAIN queue[t] : Function(queue[t][i])
        BY <1>2 DEF Functions
      <4>3. QED
        BY <4>1, <4>2
    <3>3. QED
      BY <3>1, <3>2
  <2>2. \A i \in DOMAIN running' : Function(running'[i])
    BY <1>2, <1>3, <1>8 DEF Functions
  <2>3. QED
    BY <1>4, <1>8, <2>1, <2>2 DEF Functions
<1>10. \A t, u \in Schedulers : \A i \in DOMAIN queue'[t], j \in DOMAIN queue'[u] :
         queue'[t][i].frame = "alive" /\ queue'[u][j].frame = "alive" => t = u /\ i = j
  <2> TAKE t, u \in Schedulers
  <2> TAKE i \in DOMAIN queue'[t], j \in DOMAIN queue'[u]
  <2> HAVE queue'[t][i].frame = "alive" /\ queue'[u][j].frame = "alive"
  <2> DEFINE at(x, k) == IF x = s THEN k + 1 ELSE k
  <2>1. /\ at(t, i) \in DOMAIN queue[t] /\ queue[t][at(t, i)].frame = "alive"
        /\ at(u, j) \in DOMAIN queue[u] /\ queue[u][at(u, j)].frame = "alive"
    BY <1>4, <1>7
  <2>2. t = u /\ at(t, i) = at(u, j)
    <3> HIDE DEF at
    <3>1. QED
      BY <1>2, <2>1 DEF OneAlive
  <2>3. CASE t = s
    <3>1. i \in Nat /\ j \in Nat /\ i + 1 = j + 1
      BY <1>7, <2>2, <2>3
    <3>2. QED
      BY <2>2, <3>1
  <2>4. CASE t # s
    BY <2>2, <2>4
  <2>5. QED
    BY <2>3, <2>4
<1>11. \A t \in Schedulers : \A i \in DOMAIN queue'[t] :
         ~(queue'[t][i].frame = "alive" /\ queue[s][1].frame = "alive")
  <2> TAKE t \in Schedulers
  <2> TAKE i \in DOMAIN queue'[t]
  <2>1. CASE t = s
    BY <1>2, <1>3, <1>7, <2>1 DEF OneAlive
  <2>2. CASE t # s
    BY <1>2, <1>3, <1>4, <2>2 DEF OneAlive
  <2>3. QED
    BY <2>1, <2>2
<1>12. OneAlive'
  BY <1>8, <1>10, <1>11 DEF OneAlive
<1>13. AliveAwaited'
  <2>1. Next1("wait")' <=> Next1("wait")
    BY <1>1 DEF Next1
  <2>2. \A t \in Schedulers : \A i \in DOMAIN queue'[t] :
          queue'[t][i].frame = "alive" => Next1("wait") /\ future = "Last"
    <3> TAKE t \in Schedulers
    <3> TAKE i \in DOMAIN queue'[t]
    <3>1. CASE t = s
      BY <1>2, <1>7, <3>1 DEF AliveAwaited
    <3>2. CASE t # s
      BY <1>2, <1>4, <3>2 DEF AliveAwaited
    <3>3. QED
      BY <3>1, <3>2
  <2>3. queue[s][1].frame = "alive" => Next1("wait") /\ future = "Last"
    BY <1>2, <1>3 DEF AliveAwaited
  <2>4. QED
    BY <1>1, <1>8, <2>1, <2>2, <2>3 DEF AliveAwaited
<1>14. QED
  BY <1>9, <1>12, <1>13 DEF FuncInv

(* The main task goes on with its function. *)
LEMMA FuncContinues ==
  ASSUME FuncInv, running # <<>>, Continue, UNCHANGED <<queue, calls, future>>
  PROVE  FuncInv'
<1>1. Functions /\ OneAlive /\ AliveAwaited
  BY DEF FuncInv
<1>2. Listed(running) /\ Len(running) = 1 /\ DOMAIN running = {1}
  <2>1. Listed(running) /\ Len(running) <= 1
    BY <1>1 DEF Functions
  <2>2. Len(running) \in Nat /\ Len(running) # 0 /\ DOMAIN running = 1 .. Len(running)
    BY <2>1, ListedLen
  <2>3. QED
    BY <2>1, <2>2
<1>3. running' = <<[running[1] EXCEPT !.calls = Tail(@)]>>
  BY DEF Continue
<1>4. /\ Listed(running') /\ Len(running') = 1 /\ DOMAIN running' = {1}
      /\ running'[1] = [running[1] EXCEPT !.calls = Tail(@)]
  <2>1. /\ Listed(running') /\ Len(running') = 1
        /\ running'[1] = [running[1] EXCEPT !.calls = Tail(@)]
    BY <1>3, ListedCall
  <2>2. DOMAIN running' = 1 .. 1
    BY <2>1, ListedLen
  <2>3. QED
    BY <2>1, <2>2
<1>5. Function(running'[1]) /\ running'[1].frame = running[1].frame
  <2>1. Function(running[1])
    BY <1>1, <1>2 DEF Functions
  <2>2. QED
    BY <1>4, <2>1, FunctionContinues
<1> DEFINE next == running'
<1>6. Functions'
  <2>0. Listed(next) /\ Len(next) = 1 /\ DOMAIN next = {1} /\ Function(next[1])
    BY <1>4, <1>5
  <2> HIDE DEF next
  <2>1. /\ Listed(next) /\ Len(next) <= 1
        /\ \A i \in DOMAIN next : Function(next[i])
    BY <2>0
  <2>2. /\ queue' = [s \in Schedulers |-> queue'[s]]
        /\ \A s \in Schedulers :
             Listed(queue'[s]) /\ \A i \in DOMAIN queue'[s] : Function(queue'[s][i])
    BY <1>1 DEF Functions
  <2>3. QED
    BY <2>1, <2>2 DEF Functions, next
<1>7. OneAlive'
  <2>1. DOMAIN next = {1} /\ next[1].frame = running[1].frame
    BY <1>4, <1>5
  <2> HIDE DEF next
  <2>2. \A s \in Schedulers : \A i \in DOMAIN queue'[s], j \in DOMAIN next :
          ~(queue'[s][i].frame = "alive" /\ next[j].frame = "alive")
    BY <1>1, <1>2, <2>1 DEF OneAlive
  <2>3. \A s, t \in Schedulers : \A i \in DOMAIN queue'[s], j \in DOMAIN queue'[t] :
          queue'[s][i].frame = "alive" /\ queue'[t][j].frame = "alive" => s = t /\ i = j
    BY <1>1 DEF OneAlive
  <2>4. QED
    BY <2>2, <2>3 DEF OneAlive, next
<1>8. AliveAwaited'
  <2>1. Next1("wait")' <=> Next1("wait")
    BY DEF Next1
  <2>2. QED
    BY <1>1, <1>2, <1>4, <1>5, <2>1 DEF AliveAwaited
<1>9. QED
  BY <1>6, <1>7, <1>8 DEF FuncInv

(* It ends its function.  One that may use the variables of its handler is *)
(* the only one, so that nothing uses them when the handler goes on.       *)
LEMMA FuncFinishes ==
  ASSUME FuncInv, running # <<>>, NEW status, Finish(status), UNCHANGED <<queue, calls>>
  PROVE  FuncInv'
<1>1. Functions /\ OneAlive /\ AliveAwaited
  BY DEF FuncInv
<1>2. DOMAIN running = {1}
  <2>1. Listed(running) /\ Len(running) <= 1
    BY <1>1 DEF Functions
  <2>2. Len(running) \in Nat /\ Len(running) # 0 /\ DOMAIN running = 1 .. Len(running)
    BY <2>1, ListedLen
  <2>3. QED
    BY <2>1, <2>2
<1>3. running' = <<>> /\ queue' = queue
  BY DEF Finish
<1>4. Listed(<<>>) /\ Len(<<>>) = 0 /\ DOMAIN <<>> = {}
  BY DEF Listed
<1>5. Functions'
  BY <1>1, <1>3, <1>4 DEF Functions
<1>6. OneAlive'
  BY <1>1, <1>3, <1>4 DEF OneAlive
<1>7. AliveAwaited'
  <2>1. CASE Alive
    BY <1>1, <1>2, <1>3, <1>4, <2>1 DEF OneAlive, AliveAwaited, Alive
  <2>2. CASE ~Alive
    <3>1. future' = future
      BY <2>2 DEF Finish
    <3>2. Next1("wait")' <=> Next1("wait")
      BY DEF Next1
    <3>3. QED
      BY <1>1, <1>3, <1>4, <3>1, <3>2 DEF AliveAwaited
  <2>3. QED
    BY <2>1, <2>2
<1>8. QED
  BY <1>5, <1>6, <1>7 DEF FuncInv

\* FuncInv under every action.
LEMMA FuncStep ==
  ASSUME AnswerInv, FuncInv, Next
  PROVE  FuncInv'
<1>1. ASSUME NEW do, Next1(do), do # "wait"
      PROVE  NoneAlive
  BY <1>1, NotAwaited DEF Next1
<1>2. ASSUME calls = <<>>
      PROVE  NoneAlive
  BY <1>2, NotAwaited DEF Next1
<1>3. CASE \E path \in DOMAIN Handlers : Receive(path)
  <2>1. request = NoRequest /\ UNCHANGED <<queue, running>>
    BY <1>3 DEF Receive, mainTask
  <2>2. calls = <<>>
    BY <2>1 DEF AnswerInv, Pending, Rebooting, Copying, Ending, Returned, Idle
  <2>3. QED
    BY <1>2, <2>1, <2>2, FuncStutters
<1>4. CASE Succeed \/ AddItem \/ Fail \/ SendResponse \/ OpenFile \/ CopyChunk
             \/ EndStreams
  <2>1. NoneAlive
    BY <1>1, <1>4 DEF Succeed, AddItem, Fail, SendResponse, OpenFile, CopyChunk,
        EndStreams
  <2>2. UNCHANGED <<queue, running>>
    BY <1>4 DEF Succeed, AddItem, Fail, SendResponse, OpenFile, CopyChunk, EndStreams,
       mainTask
  <2>3. QED
    BY <2>1, <2>2, FuncStutters
<1>5. CASE Respond
  <2>1. calls = <<>> /\ UNCHANGED <<queue, running>>
    BY <1>5 DEF Respond, mainTask
  <2>2. QED
    BY <1>2, <2>1, FuncStutters
<1>6. CASE Await
  <2>1. future # "Last" /\ UNCHANGED <<queue, running>>
    BY <1>6 DEF Await, mainTask
  <2>2. QED
    BY <2>1, NotAwaited, FuncStutters
<1>7. CASE Schedule \/ GiveUp \/ \E s \in Schedulers : Take(s)
  BY <1>7, FuncSchedule, FuncGiveUp, FuncTake
<1>8. CASE FuncSucceeds \/ FuncAdds
  <2>1. running # <<>> /\ Continue /\ UNCHANGED <<queue, calls, future>>
    BY <1>8 DEF FuncSucceeds, FuncAdds, Step, httpTask
  <2>2. QED
    BY <2>1, FuncContinues
<1>9. CASE FuncFails \/ FuncReturns
  <2>1. /\ running # <<>> /\ UNCHANGED <<queue, calls>>
        /\ \E status : Finish(status)
    BY <1>9 DEF FuncFails, FuncReturns, Step, httpTask
  <2>2. QED
    BY <2>1, FuncFinishes
<1>10. CASE FuncReboots \/ FuncStrays
  <2>1. \/ Restart
        \/ running # <<>> /\ Continue /\ UNCHANGED <<queue, calls, future>>
    BY <1>10 DEF FuncReboots, FuncStrays, Step, httpTask
  <2>2. QED
    BY <2>1, FuncRestart, FuncContinues
<1>11. QED
  BY <1>3, <1>4, <1>5, <1>6, <1>7, <1>8, <1>9, <1>10 DEF Next, HttpTask, MainTask

-----------------------------------------------------------------------------
(* Sequences joined and flattened. *)

AllListed(seqs) == Listed(seqs) /\ \A i \in DOMAIN seqs : Listed(seqs[i])

\* Sequences are equal when they have the same elements.
LEMMA ListedEqual ==
  ASSUME NEW s, NEW t, Listed(s), Listed(t), Len(s) = Len(t),
         \A i \in 1 .. Len(s) : s[i] = t[i]
  PROVE  s = t
<1>1. s \in Seq(ToSet(s) \cup ToSet(t)) /\ t \in Seq(ToSet(s) \cup ToSet(t))
  BY DEF Listed
<1>2. QED
  BY <1>1, SeqEqual

\* What joining does to the order, the elements and the first of them.
LEMMA ConcatLaws ==
  ASSUME NEW a, NEW b, Listed(a), Listed(b)
  PROVE  /\ a \o <<>> = a /\ <<>> \o a = a
         /\ \A c : Listed(c) => (a \o b) \o c = a \o (b \o c)
         /\ ToSet(a \o b) = ToSet(a) \cup ToSet(b)
<1> DEFINE S == ToSet(a) \cup ToSet(b)
<1>1. a \in Seq(S) /\ b \in Seq(S)
  BY DEF Listed
<1>2. a \o <<>> = a /\ <<>> \o a = a
  BY <1>1, ConcatEmptySeq
<1>3. ASSUME NEW c, Listed(c)
      PROVE  (a \o b) \o c = a \o (b \o c)
  <2>1. c \in Seq(S \cup ToSet(c)) /\ a \in Seq(S \cup ToSet(c)) /\ b \in Seq(S \cup ToSet(c))
    BY <1>3 DEF Listed
  <2>2. QED
    BY <2>1, ConcatAssociative
<1>4. ToSet(a \o b) = ToSet(a) \cup ToSet(b)
  <2>1. /\ Listed(a \o b) /\ Len(a \o b) = Len(a) + Len(b)
        /\ \A k \in 1 .. Len(a) : (a \o b)[k] = a[k]
        /\ \A k \in 1 .. Len(b) : (a \o b)[Len(a) + k] = b[k]
    BY ListedConcat
  <2>2. /\ Len(a) \in Nat /\ DOMAIN a = 1 .. Len(a)
        /\ Len(b) \in Nat /\ DOMAIN b = 1 .. Len(b)
        /\ DOMAIN (a \o b) = 1 .. Len(a \o b)
    BY <2>1, ListedLen
  <2>3. \A k \in DOMAIN a : k \in DOMAIN (a \o b)
    BY <2>1, <2>2
  <2>4. \A k \in DOMAIN b : Len(a) + k \in DOMAIN (a \o b)
    BY <2>1, <2>2
  <2>5. \A k \in DOMAIN (a \o b) : (a \o b)[k] \in ToSet(a) \cup ToSet(b)
    BY ConcatElement DEF ToSet
  <2>6. \A k \in DOMAIN a : a[k] \in ToSet(a \o b)
    BY <2>1, <2>2, <2>3 DEF ToSet
  <2>7. \A k \in DOMAIN b : b[k] \in ToSet(a \o b)
    BY <2>1, <2>2, <2>4 DEF ToSet
  <2>8. QED
    BY <2>5, <2>6, <2>7 DEF ToSet
<1>5. QED
  BY <1>2, <1>3, <1>4

LEMMA ConcatHead ==
  ASSUME NEW a, NEW b, Listed(a), Listed(b), a # <<>>
  PROVE  a \o b # <<>> /\ Head(a \o b) = Head(a) /\ Tail(a \o b) = Tail(a) \o b
<1> DEFINE c == a \o b
<1>1. /\ Listed(c) /\ Len(c) = Len(a) + Len(b)
      /\ \A k \in 1 .. Len(a) : c[k] = a[k]
      /\ \A k \in 1 .. Len(b) : c[Len(a) + k] = b[k]
  BY ListedConcat
<1> HIDE DEF c
<1>2. Len(a) \in Nat /\ Len(a) # 0 /\ Head(a) = a[1] /\ Len(b) \in Nat
  BY ListedLen
<1>3. c # <<>> /\ Head(c) = c[1]
  BY <1>1, <1>2, ListedLen
<1>4. /\ Listed(Tail(a)) /\ Len(Tail(a)) = Len(a) - 1
      /\ \A i \in 1 .. Len(a) - 1 : Tail(a)[i] = a[i + 1]
      /\ Listed(Tail(c)) /\ Len(Tail(c)) = Len(c) - 1
      /\ \A i \in 1 .. Len(c) - 1 : Tail(c)[i] = c[i + 1]
  BY <1>1, <1>3, ListedTail
<1> DEFINE u == Tail(a)
           d == u \o b
<1>5. /\ Listed(d) /\ Len(d) = Len(u) + Len(b)
      /\ \A k \in 1 .. Len(u) : d[k] = u[k]
      /\ \A k \in 1 .. Len(b) : d[Len(u) + k] = b[k]
  BY <1>4, ListedConcat
<1>6. Len(u) = Len(a) - 1 /\ \A i \in 1 .. Len(a) - 1 : u[i] = a[i + 1]
  BY <1>4
<1> HIDE DEF u, d
<1>7. Len(d) = Len(Tail(c))
  BY <1>1, <1>2, <1>4, <1>5, <1>6
<1>8. ASSUME NEW i \in 1 .. Len(d)
      PROVE  d[i] = Tail(c)[i]
  <2>1. Len(d) = Len(a) - 1 + Len(b) /\ i \in 1 .. Len(c) - 1
    BY <1>1, <1>2, <1>5, <1>6
  <2>2. Tail(c)[i] = c[i + 1]
    BY <1>4, <2>1
  <2>3. CASE i <= Len(a) - 1
    <3>1. i \in 1 .. Len(u) /\ i \in 1 .. Len(a) - 1 /\ i + 1 \in 1 .. Len(a)
      BY <1>2, <1>6, <2>3
    <3>2. QED
      BY <1>1, <1>5, <1>6, <2>2, <3>1
  <2>4. CASE i > Len(a) - 1
    <3> DEFINE k == i - (Len(a) - 1)
    <3>1. k \in 1 .. Len(b) /\ i = Len(u) + k /\ i + 1 = Len(a) + k
      BY <1>2, <1>6, <2>1, <2>4
    <3> HIDE DEF k
    <3>2. d[i] = b[k] /\ c[i + 1] = b[k]
      BY <1>1, <1>5, <3>1
    <3>3. QED
      BY <2>2, <3>2
  <2>5. i \in Nat /\ (i <= Len(a) - 1 \/ i > Len(a) - 1)
    BY <1>2, <2>1
  <2>6. QED
    BY <2>3, <2>4, <2>5
<1>9. Tail(c) = d
  BY <1>4, <1>5, <1>7, <1>8, ListedEqual
<1>10. QED
  BY <1>1, <1>2, <1>3, <1>9 DEF c, d, u

\* A sequence is its first element and the others, or its last and those before.
LEMMA SplitFirst ==
  ASSUME NEW s, Listed(s), s # <<>>
  PROVE  s = <<Head(s)>> \o Tail(s) /\ Listed(<<Head(s)>>) /\ Listed(Tail(s))
<1> DEFINE t == Tail(s)
           h == <<Head(s)>>
           c == h \o t
<1>1. /\ Listed(t) /\ Len(t) = Len(s) - 1 /\ \A i \in 1 .. Len(s) - 1 : t[i] = s[i + 1]
      /\ Len(s) \in Nat /\ Len(s) # 0 /\ Head(s) = s[1]
  BY ListedTail, ListedLen
<1>2. Listed(h) /\ Len(h) = 1 /\ h[1] = s[1]
  <2>1. <<Head(s)>> \in Seq({Head(s)})
    OBVIOUS
  <2>2. QED
    BY <1>1, <2>1, ListedSeq
<1> HIDE DEF t, h
<1>3. /\ Listed(c) /\ Len(c) = 1 + Len(t) /\ c[1] = h[1]
      /\ \A k \in 1 .. Len(t) : c[1 + k] = t[k]
  <2>1. /\ Listed(c) /\ Len(c) = Len(h) + Len(t)
        /\ \A k \in 1 .. Len(h) : c[k] = h[k]
        /\ \A k \in 1 .. Len(t) : c[Len(h) + k] = t[k]
    <3>1. Listed(h) /\ Listed(t)
      BY <1>1, <1>2
    <3>2. QED
      BY <3>1, ListedConcat
  <2> HIDE DEF c
  <2>2. 1 \in 1 .. Len(h)
    BY <1>2
  <2>3. QED
    BY <1>2, <2>1, <2>2
<1> HIDE DEF c
<1>4. Len(c) = Len(s)
  BY <1>1, <1>3
<1>5. ASSUME NEW i \in 1 .. Len(c)
      PROVE  c[i] = s[i]
  <2>1. CASE i = 1
    BY <1>2, <1>3, <2>1
  <2>2. CASE i # 1
    <3>1. i - 1 \in 1 .. Len(t) /\ i - 1 \in 1 .. Len(s) - 1
          /\ 1 + (i - 1) = i /\ (i - 1) + 1 = i
      BY <1>1, <1>4, <2>2
    <3>2. c[i] = t[i - 1] /\ t[i - 1] = s[i]
      BY <1>1, <1>3, <3>1
    <3>3. QED
      BY <3>2
  <2>3. QED
    BY <2>1, <2>2
<1>6. c = s
  BY <1>3, <1>4, <1>5, ListedEqual
<1>7. QED
  BY <1>1, <1>2, <1>6 DEF c, h, t

LEMMA SplitLast ==
  ASSUME NEW s, Listed(s), s # <<>>
  PROVE  \E u, e : /\ Listed(u) /\ s = Append(u, e) /\ Len(s) = Len(u) + 1
                   /\ \A i \in 1 .. Len(u) : s[i] = u[i]
                   /\ s[Len(s)] = e
<1>1. PICK u \in Seq(ToSet(s)), e \in ToSet(s) : s = Append(u, e)
  BY SequenceEmptyOrAppend DEF Listed
<1>2. /\ Listed(u) /\ Len(s) = Len(u) + 1 /\ s[Len(u) + 1] = e
      /\ \A i \in 1 .. Len(u) : s[i] = u[i]
  BY <1>1, ListedSeq, ListedAppend
<1>3. QED
  BY <1>1, <1>2

\* Appending is joining one element.
LEMMA AppendOne ==
  ASSUME NEW s, Listed(s), NEW e
  PROVE  Append(s, e) = s \o <<e>>
<1>1. s \in Seq(ToSet(s) \cup {e}) /\ e \in ToSet(s) \cup {e}
  BY DEF Listed
<1>2. QED
  BY <1>1, AppendIsConcat

LEMMA ConcatAppend ==
  ASSUME NEW s, NEW t, Listed(s), Listed(t), NEW e
  PROVE  s \o Append(t, e) = Append(s \o t, e)
<1>1. <<e>> \in Seq({e})
  OBVIOUS
<1>2. Listed(<<e>>) /\ Listed(s \o t)
  BY <1>1, ListedSeq, ListedConcat
<1>3. QED
  BY <1>2, AppendOne, ConcatLaws

\* A sequence of sequences is flattened from the left.
LEMMA FlattenUnrolled ==
  ASSUME NEW seqs, Listed(seqs), seqs # <<>>
  PROVE  \E g : /\ FlattenSeq(seqs) = g[Len(seqs)] /\ g[1] = seqs[1]
                /\ \A i \in 1 .. Len(seqs) - 1 : g[i + 1] = g[i] \o seqs[i + 1]
<1> DEFINE n == Len(seqs)
           g == CHOOSE g : g = [i \in 1 .. n |-> IF i = 1 THEN seqs[i]
                                                 ELSE g[i - 1] \o seqs[i]]
<1>1. n \in Nat /\ n # 0
  BY ListedLen
<1>2. FlattenSeq(seqs) = g[n]
  BY <1>1 DEF FlattenSeq
<1>3. g = [i \in 1 .. n |-> IF i = 1 THEN seqs[i] ELSE g[i - 1] \o seqs[i]]
  BY <1>1, FlattenExists
<1> HIDE DEF g, n
<1>4. \A i \in 1 .. n : g[i] = IF i = 1 THEN seqs[i] ELSE g[i - 1] \o seqs[i]
  BY <1>3
<1>5. g[1] = seqs[1]
  BY <1>1, <1>4
<1>6. ASSUME NEW i \in 1 .. n - 1
      PROVE  g[i + 1] = g[i] \o seqs[i + 1]
  <2>1. i + 1 \in 1 .. n /\ i + 1 # 1 /\ (i + 1) - 1 = i
    BY <1>1
  <2>2. QED
    BY <1>4, <2>1
<1>7. QED
  BY <1>2, <1>5, <1>6 DEF n

\* What is flattened of two sequences joined, the second of one element.
LEMMA FlattenAppend ==
  ASSUME NEW s, AllListed(s), NEW e, Listed(e)
  PROVE  FlattenSeq(Append(s, e)) = FlattenSeq(s) \o e
<1> DEFINE c == Append(s, e)
           n == Len(s)
<1>1. Listed(s) /\ n \in Nat /\ DOMAIN s = 1 .. n /\ (s = <<>> <=> n = 0)
  BY ListedLen DEF AllListed
<1>2. /\ Listed(c) /\ Len(c) = n + 1 /\ \A i \in 1 .. n : c[i] = s[i]
      /\ c[n + 1] = e
  BY <1>1, ListedAppend
<1> HIDE DEF c, n
<1>3. c # <<>>
  BY <1>1, <1>2, ListedLen
<1>4. PICK h : /\ FlattenSeq(c) = h[n + 1] /\ h[1] = c[1]
               /\ \A i \in 1 .. n : h[i + 1] = h[i] \o c[i + 1]
  <2>1. PICK h : /\ FlattenSeq(c) = h[Len(c)] /\ h[1] = c[1]
                 /\ \A i \in 1 .. Len(c) - 1 : h[i + 1] = h[i] \o c[i + 1]
    BY <1>2, <1>3, FlattenUnrolled
  <2>2. Len(c) = n + 1 /\ Len(c) - 1 = n
    BY <1>1, <1>2
  <2>3. QED
    BY <2>1, <2>2
<1>5. CASE s = <<>>
  <2>1. FlattenSeq(c) = e
    BY <1>1, <1>2, <1>4, <1>5
  <2>2. FlattenSeq(s) = <<>>
    BY <1>5 DEF FlattenSeq
  <2>3. QED
    BY <2>1, <2>2, ConcatLaws DEF c
<1>6. CASE s # <<>>
  <2>1. PICK g : /\ FlattenSeq(s) = g[n] /\ g[1] = s[1]
                 /\ \A i \in 1 .. n - 1 : g[i + 1] = g[i] \o s[i + 1]
    BY <1>1, <1>6, FlattenUnrolled DEF n
  <2> DEFINE S == {i \in Nat : i + 1 \in 1 .. n => h[i + 1] = g[i + 1]}
  <2>2. 0 \in S
    <3>1. 1 \in 1 .. n => c[1] = s[1]
      BY <1>2
    <3>2. 0 + 1 \in 1 .. n => h[0 + 1] = g[0 + 1]
      BY <1>4, <2>1, <3>1
    <3>3. QED
      BY <3>2
  <2>3. ASSUME NEW i \in Nat, i \in S
        PROVE  i + 1 \in S
    <3> DEFINE j == i + 1
    <3> SUFFICES ASSUME j + 1 \in 1 .. n
                 PROVE  h[j + 1] = g[j + 1]
      OBVIOUS
    <3>1. j \in 1 .. n /\ j \in 1 .. n - 1
      BY <1>1
    <3>2. h[j] = g[j]
      BY <2>3, <3>1
    <3> HIDE DEF j
    <3>3. /\ h[j + 1] = h[j] \o c[j + 1] /\ g[j + 1] = g[j] \o s[j + 1]
          /\ c[j + 1] = s[j + 1]
      BY <1>2, <1>4, <2>1, <3>1
    <3>4. QED
      BY <3>2, <3>3
  <2> HIDE DEF S
  <2>4. n - 1 \in S
    <3>1. Nat \subseteq S
      BY <2>2, <2>3, Induction
    <3>2. QED
      BY <1>1, <1>6, <3>1
  <2>5. h[n] = g[n]
    <3>1. (n - 1) + 1 = n /\ n \in 1 .. n
      BY <1>1, <1>6
    <3>2. QED
      BY <2>4, <3>1 DEF S
  <2>6. n \in 1 .. n
    BY <1>1, <1>6
  <2>7. h[n + 1] = h[n] \o c[n + 1]
    BY <1>4, <2>6
  <2>8. QED
    BY <1>2, <1>4, <2>1, <2>5, <2>7 DEF c
<1>7. QED
  BY <1>5, <1>6 DEF c

\* A sequence of sequences, flattened, is a sequence; and it may be cut anywhere.
LEMMA FlattenEmpty == FlattenSeq(<<>>) = <<>> /\ Listed(<<>>) /\ Len(<<>>) = 0
BY DEF FlattenSeq, Listed

LEMMA AllListedAppend ==
  ASSUME NEW u, NEW e, Listed(u), AllListed(Append(u, e))
  PROVE  AllListed(u) /\ Listed(e)
<1>1. /\ Len(u) \in Nat /\ DOMAIN u = 1 .. Len(u)
      /\ DOMAIN Append(u, e) = 1 .. Len(u) + 1
      /\ \A i \in 1 .. Len(u) : Append(u, e)[i] = u[i]
      /\ Append(u, e)[Len(u) + 1] = e
  BY ListedAppend, ListedLen
<1>2. /\ \A i \in 1 .. Len(u) : i \in 1 .. Len(u) + 1
      /\ Len(u) + 1 \in 1 .. Len(u) + 1
  BY <1>1
<1>3. QED
  BY <1>1, <1>2 DEF AllListed

LEMMA ListedFlatten ==
  ASSUME NEW seqs, AllListed(seqs)
  PROVE  Listed(FlattenSeq(seqs))
<1> DEFINE S == {n \in Nat : \A s : AllListed(s) /\ Len(s) = n => Listed(FlattenSeq(s))}
<1>1. 0 \in S
  <2>1. \A s : AllListed(s) /\ Len(s) = 0 => s = <<>>
    BY ListedLen DEF AllListed
  <2>2. QED
    BY <2>1, FlattenEmpty
<1>2. ASSUME NEW n \in Nat, n \in S
      PROVE  n + 1 \in S
  <2> SUFFICES ASSUME NEW s, AllListed(s), Len(s) = n + 1
               PROVE  Listed(FlattenSeq(s))
    OBVIOUS
  <2>1. s # <<>> /\ Listed(s)
    BY FlattenEmpty DEF AllListed
  <2>2. PICK u, e : Listed(u) /\ s = Append(u, e) /\ Len(s) = Len(u) + 1
    BY <2>1, SplitLast
  <2>3. AllListed(u) /\ Listed(e)
    BY <2>2, AllListedAppend
  <2>4. Len(u) = n
    <3>1. Len(u) \in Nat
      BY <2>2, ListedLen
    <3>2. QED
      BY <2>2, <3>1
  <2>5. Listed(FlattenSeq(u))
    BY <1>2, <2>3, <2>4
  <2>6. QED
    BY <2>2, <2>3, <2>5, FlattenAppend, ListedConcat
<1> HIDE DEF S
<1>3. Nat \subseteq S
  BY <1>1, <1>2, Induction
<1>4. Len(seqs) \in S
  BY <1>3, ListedLen DEF AllListed
<1>5. QED
  BY <1>4 DEF S

-----------------------------------------------------------------------------
(* What calls add. *)

\* The keys of calls one after the other.
LEMMA KeyListed ==
  ASSUME NEW call
  PROVE  Listed(Key(call)) /\ (call.do # "add" => Key(call) = <<>>)
<1>1. <<call.arg>> \in Seq({call.arg})
  OBVIOUS
<1>2. QED
  BY <1>1, ListedSeq, FlattenEmpty DEF Key

LEMMA KeysListed ==
  ASSUME NEW c, Listed(c)
  PROVE  Listed(Keys(c)) /\ AllListed([i \in DOMAIN c |-> Key(c[i])])
<1> DEFINE k == [i \in DOMAIN c |-> Key(c[i])]
<1>1. k = [i \in DOMAIN c |-> k[i]] /\ \A i \in DOMAIN c : k[i] = Key(c[i])
  OBVIOUS
<1>2. Keys(c) = FlattenSeq(k)
  BY DEF Keys
<1> HIDE DEF k
<1>3. Listed(k) /\ DOMAIN k = DOMAIN c
  BY <1>1, ListedMap
<1>4. AllListed(k)
  BY <1>1, <1>3, KeyListed DEF AllListed
<1>5. QED
  BY <1>2, <1>4, ListedFlatten DEF k

LEMMA KeysAppend ==
  ASSUME NEW c, Listed(c), NEW x
  PROVE  Keys(Append(c, x)) = Keys(c) \o Key(x)
<1> DEFINE k == [i \in DOMAIN c |-> Key(c[i])]
           d == Append(c, x)
           l == [i \in DOMAIN d |-> Key(d[i])]
<1>1. /\ Listed(d) /\ Len(d) = Len(c) + 1 /\ \A i \in 1 .. Len(c) : d[i] = c[i]
      /\ d[Len(c) + 1] = x /\ Len(c) \in Nat /\ DOMAIN c = 1 .. Len(c)
      /\ DOMAIN d = 1 .. Len(d)
  BY ListedAppend, ListedLen
<1>2. Keys(c) = FlattenSeq(k) /\ Keys(d) = FlattenSeq(l)
  BY DEF Keys
<1> HIDE DEF d
<1>3. /\ k = [i \in DOMAIN c |-> k[i]] /\ \A i \in DOMAIN c : k[i] = Key(c[i])
      /\ l = [i \in DOMAIN d |-> l[i]] /\ \A i \in DOMAIN d : l[i] = Key(d[i])
  OBVIOUS
<1>4. AllListed(k)
  BY KeysListed
<1> HIDE DEF k, l
<1>5. Listed(k) /\ DOMAIN k = DOMAIN c /\ Listed(l) /\ DOMAIN l = DOMAIN d
  BY <1>1, <1>3, ListedMap
<1>6. Len(k) = Len(c) /\ Len(l) = Len(c) + 1
  <2>1. Len(k) \in Nat /\ DOMAIN k = 1 .. Len(k) /\ Len(l) \in Nat /\ DOMAIN l = 1 .. Len(l)
    BY <1>5, ListedLen
  <2>2. 1 .. Len(k) = 1 .. Len(c) /\ 1 .. Len(l) = 1 .. Len(c) + 1
    BY <1>1, <1>5, <2>1
  <2>3. \A m, n \in Nat : 1 .. m = 1 .. n => m = n
    OBVIOUS
  <2>4. Len(c) + 1 \in Nat
    BY <1>1
  <2>5. QED
    BY <1>1, <2>1, <2>2, <2>3, <2>4
<1> DEFINE m == Append(k, Key(x))
<1>7. /\ Listed(m) /\ Len(m) = Len(c) + 1 /\ \A i \in 1 .. Len(c) : m[i] = k[i]
      /\ m[Len(c) + 1] = Key(x)
  BY <1>5, <1>6, ListedAppend
<1> HIDE DEF m
<1>8. ASSUME NEW i \in 1 .. Len(l)
      PROVE  l[i] = m[i]
  <2>1. i \in DOMAIN d /\ (i \in 1 .. Len(c) \/ i = Len(c) + 1)
    BY <1>1, <1>6
  <2>2. CASE i \in 1 .. Len(c)
    BY <1>1, <1>3, <1>7, <2>1, <2>2
  <2>3. CASE i = Len(c) + 1
    BY <1>1, <1>3, <1>7, <2>1, <2>3
  <2>4. QED
    BY <2>1, <2>2, <2>3
<1>9. l = m
  BY <1>5, <1>6, <1>7, <1>8, ListedEqual
<1>10. FlattenSeq(m) = FlattenSeq(k) \o Key(x)
  BY <1>4, KeyListed, FlattenAppend DEF m
<1>11. QED
  BY <1>2, <1>9, <1>10 DEF d

LEMMA KeysEmpty == Keys(<<>>) = <<>>
<1>1. [i \in DOMAIN <<>> |-> Key(<<>>[i])] = <<>>
  OBVIOUS
<1>2. QED
  BY <1>1, FlattenEmpty DEF Keys

LEMMA KeysConcat ==
  ASSUME NEW s, NEW t, Listed(s), Listed(t)
  PROVE  Keys(s \o t) = Keys(s) \o Keys(t)
<1> DEFINE S == {n \in Nat : \A u : Listed(u) /\ Len(u) = n =>
                                      Keys(s \o u) = Keys(s) \o Keys(u)}
<1>1. 0 \in S
  <2>1. \A u : Listed(u) /\ Len(u) = 0 => u = <<>>
    BY ListedLen
  <2>2. Keys(s \o <<>>) = Keys(s) \o Keys(<<>>)
    BY KeysEmpty, KeysListed, FlattenEmpty, ConcatLaws
  <2>3. QED
    BY <2>1, <2>2
<1>2. ASSUME NEW n \in Nat, n \in S
      PROVE  n + 1 \in S
  <2> SUFFICES ASSUME NEW u, Listed(u), Len(u) = n + 1
               PROVE  Keys(s \o u) = Keys(s) \o Keys(u)
    OBVIOUS
  <2>1. u # <<>>
    BY FlattenEmpty
  <2>2. PICK v, e : Listed(v) /\ u = Append(v, e) /\ Len(u) = Len(v) + 1
    BY <2>1, SplitLast
  <2>3. Len(v) = n
    <3>1. Len(v) \in Nat
      BY <2>2, ListedLen
    <3>2. QED
      BY <2>2, <3>1
  <2>4. Keys(s \o v) = Keys(s) \o Keys(v)
    BY <1>2, <2>2, <2>3
  <2>5. s \o u = Append(s \o v, e)
    BY <2>2, ConcatAppend
  <2>6. Keys(s \o u) = (Keys(s) \o Keys(v)) \o Key(e)
    BY <2>2, <2>4, <2>5, ListedConcat, KeysAppend
  <2>7. Keys(u) = Keys(v) \o Key(e)
    BY <2>2, KeysAppend
  <2>8. Listed(Keys(s)) /\ Listed(Keys(v)) /\ Listed(Key(e))
    BY <2>2, KeysListed, KeyListed
  <2>9. QED
    BY <2>6, <2>7, <2>8, ConcatLaws
<1> HIDE DEF S
<1>3. Nat \subseteq S
  BY <1>1, <1>2, Induction
<1>4. Len(t) \in S
  BY <1>3, ListedLen
<1>5. QED
  BY <1>4 DEF S

LEMMA KeysOne ==
  ASSUME NEW x
  PROVE  Keys(<<x>>) = Key(x) /\ Listed(<<x>>)
<1>1. <<x>> = Append(<<>>, x)
  OBVIOUS
<1>2. Keys(<<x>>) = Keys(<<>>) \o Key(x)
  BY <1>1, FlattenEmpty, KeysAppend
<1>3. <<x>> \in Seq({x})
  OBVIOUS
<1>4. QED
  BY <1>2, <1>3, ListedSeq, KeyListed, KeysEmpty, FlattenEmpty, ConcatLaws

LEMMA KeysHead ==
  ASSUME NEW c, Listed(c), c # <<>>
  PROVE  Keys(c) = Key(Head(c)) \o Keys(Tail(c))
<1>1. /\ c = <<Head(c)>> \o Tail(c) /\ Listed(<<Head(c)>>) /\ Listed(Tail(c))
  BY SplitFirst
<1>2. Keys(<<Head(c)>> \o Tail(c)) = Keys(<<Head(c)>>) \o Keys(Tail(c))
  BY <1>1, KeysConcat
<1>3. QED
  BY <1>1, <1>2, KeysOne

\* What is in the document and what is still to be added is the same before and
\* after a call.
LEMMA KeysStep ==
  ASSUME NEW d, Listed(d), NEW c, Listed(c), c # <<>>
  PROVE  /\ Head(c).do # "add" => Keys(Tail(c)) = Keys(c)
         /\ Head(c).do = "add" =>
              Append(d, Head(c).arg) \o Keys(Tail(c)) = d \o Keys(c)
<1> DEFINE k == Key(Head(c))
           t == Keys(Tail(c))
<1>1. Keys(c) = k \o t /\ Listed(k) /\ Listed(t)
  BY KeysHead, KeyListed, ListedTail, KeysListed
<1>2. CASE Head(c).do # "add"
  BY <1>1, <1>2, KeyListed, ConcatLaws, FlattenEmpty
<1>3. CASE Head(c).do = "add"
  <2>1. k = <<Head(c).arg>>
    BY <1>3 DEF Key
  <2>2. Append(d, Head(c).arg) = d \o k
    BY <2>1, AppendOne
  <2> HIDE DEF k, t
  <2>3. (d \o k) \o t = d \o (k \o t)
    BY <1>1, ConcatLaws
  <2>4. QED
    BY <1>1, <1>3, <2>2, <2>3 DEF t
<1>4. QED
  BY <1>2, <1>3

\* Calls that add nothing.
LEMMA KeysNone ==
  ASSUME NEW c, Listed(c), \A i \in DOMAIN c : c[i].do # "add"
  PROVE  Keys(c) = <<>>
<1> DEFINE None(u) == Listed(u) /\ \A i \in DOMAIN u : u[i].do # "add"
           S == {n \in Nat : \A u : None(u) /\ Len(u) = n => Keys(u) = <<>>}
<1>1. 0 \in S
  <2>1. \A u : None(u) /\ Len(u) = 0 => u = <<>>
    BY ListedLen
  <2>2. QED
    BY <2>1, KeysEmpty
<1>2. ASSUME NEW n \in Nat, n \in S
      PROVE  n + 1 \in S
  <2> SUFFICES ASSUME NEW u, None(u), Len(u) = n + 1
               PROVE  Keys(u) = <<>>
    OBVIOUS
  <2>1. u # <<>> /\ Listed(u)
    BY FlattenEmpty
  <2>2. PICK v, e : /\ Listed(v) /\ u = Append(v, e) /\ Len(u) = Len(v) + 1
                    /\ \A i \in 1 .. Len(v) : u[i] = v[i]
                    /\ u[Len(u)] = e
    BY <2>1, SplitLast
  <2>3. /\ Len(v) \in Nat /\ DOMAIN v = 1 .. Len(v) /\ DOMAIN u = 1 .. Len(u)
    BY <2>1, <2>2, ListedLen
  <2>4. Len(v) = n
    <3>1. Len(u) = n + 1 /\ Len(u) = Len(v) + 1 /\ Len(v) \in Nat
      BY <2>2, <2>3
    <3> HIDE DEF None, S
    <3>2. QED
      BY <3>1
  <2>5. \A i \in 1 .. Len(v) : i \in DOMAIN u
    BY <2>2, <2>3
  <2>6. None(v)
    BY <2>2, <2>3, <2>5
  <2>7. Len(u) \in DOMAIN u
    BY <2>2, <2>3
  <2>8. Key(e) = <<>>
    BY <2>2, <2>7, KeyListed
  <2> HIDE DEF None
  <2>9. Keys(v) = <<>>
    BY <1>2, <2>4, <2>6
  <2>10. QED
    BY <2>2, <2>8, <2>9, KeysAppend, FlattenEmpty, ConcatLaws
<1> HIDE DEF S
<1>3. Nat \subseteq S
  BY <1>1, <1>2, Induction
<1>4. Len(c) \in S
  BY <1>3, ListedLen
<1>5. QED
  BY <1>4 DEF S

-----------------------------------------------------------------------------
(* The handlers, and what they or their functions put into the document.   *)

(* Calls of the handler itself, without those for a function.              *)
Plain(c) == Listed(c) /\ \A i \in DOMAIN c : c[i].do \notin {"schedule", "wait"}

(* Calls that leave the document alone.                                    *)
Quiet(c) == Plain(c) /\ \A i \in DOMAIN c : c[i].do # "add"

(* A function is still to be handed over, and is waited for then.          *)
HandsOver(c, s, f) ==
  \E pre, post : Quiet(pre) /\ Quiet(post) /\ c = (pre \o Execute(s, f)) \o post

WaitCall(f) == Call("wait", <<f>>, {})

AtWait(c, f) == \E post : Quiet(post) /\ c = <<WaitCall(f)>> \o post

(* What a function does: it fails with an error, if at all.                *)
Working(c) == Listed(c) /\ \A i \in DOMAIN c : "OK" \notin c[i].errors

\* Plain and quiet calls, joined and one by one.
LEMMA PlainConcat ==
  ASSUME NEW s, NEW t, Listed(s), Listed(t)
  PROVE  /\ Plain(s) /\ Plain(t) => Plain(s \o t)
         /\ Quiet(s) /\ Quiet(t) => Quiet(s \o t)
         /\ Working(s) /\ Working(t) => Working(s \o t)
<1>1. Listed(s \o t)
  BY ListedConcat
<1>2. \A i \in DOMAIN (s \o t) : \/ i \in DOMAIN s /\ (s \o t)[i] = s[i]
                                 \/ \E j \in DOMAIN t : (s \o t)[i] = t[j]
  BY ConcatElement
<1>3. QED
  BY <1>1, <1>2 DEF Plain, Quiet, Working

LEMMA PlainOne ==
  ASSUME NEW x
  PROVE  /\ x.do \notin {"schedule", "wait"} => Plain(<<x>>)
         /\ x.do \notin {"schedule", "wait", "add"} => Quiet(<<x>>)
         /\ "OK" \notin x.errors => Working(<<x>>)
<1>1. Listed(<<x>>)
  BY KeysOne
<1>2. \A i \in DOMAIN <<x>> : <<x>>[i] = x
  OBVIOUS
<1>3. QED
  BY <1>1, <1>2 DEF Plain, Quiet, Working

LEMMA PlainTail ==
  ASSUME NEW c, c # <<>>
  PROVE  /\ Plain(c) => Plain(Tail(c)) /\ Head(c).do \notin {"schedule", "wait"}
         /\ Quiet(c) => Quiet(Tail(c)) /\ Head(c).do # "add"
         /\ Working(c) => Working(Tail(c)) /\ "OK" \notin Head(c).errors
<1> SUFFICES ASSUME Listed(c)
             PROVE  /\ Plain(c) => Plain(Tail(c)) /\ Head(c).do \notin {"schedule", "wait"}
                    /\ Quiet(c) => Quiet(Tail(c)) /\ Head(c).do # "add"
                    /\ Working(c) => Working(Tail(c)) /\ "OK" \notin Head(c).errors
  BY DEF Plain, Quiet, Working
<1>1. /\ Len(c) \in Nat /\ Len(c) # 0 /\ DOMAIN c = 1 .. Len(c) /\ Head(c) = c[1]
      /\ Listed(Tail(c)) /\ Len(Tail(c)) = Len(c) - 1
      /\ \A i \in 1 .. Len(c) - 1 : Tail(c)[i] = c[i + 1]
  BY ListedLen, ListedTail
<1>2. DOMAIN Tail(c) = 1 .. Len(c) - 1
  BY <1>1, ListedLen
<1> DEFINE t == Tail(c)
<1>3. /\ 1 \in DOMAIN c /\ Head(c) = c[1] /\ Listed(t)
      /\ \A i \in DOMAIN t : i + 1 \in DOMAIN c /\ t[i] = c[i + 1]
  BY <1>1, <1>2
<1> HIDE DEF t
<1>4. \A i \in DOMAIN t : \E j \in DOMAIN c : t[i] = c[j]
  BY <1>3
<1>5. QED
  BY <1>3, <1>4 DEF Plain, Quiet, Working, t

LEMMA CalmPlain ==
  ASSUME NEW c, Calm(c)
  PROVE  Plain(c) /\ Working(c)
BY DEF Calm, Calmly, Plain, Working

\* A handler with a function, call by call.
LEMMA HandsOverStep ==
  ASSUME NEW c, NEW s, NEW f, HandsOver(c, s, f)
  PROVE  /\ Listed(c) /\ c # <<>> /\ Head(c).do \notin {"add", "wait"}
         /\ Head(c).do # "schedule" => HandsOver(Tail(c), s, f)
         /\ Head(c).do = "schedule" => Head(c).arg = <<s, f>> /\ AtWait(Tail(c), f)
<1>1. PICK pre, post : Quiet(pre) /\ Quiet(post) /\ c = (pre \o Execute(s, f)) \o post
  BY DEF HandsOver
<1> DEFINE a == Call("schedule", <<s, f>>, {})
           w == <<WaitCall(f)>>
           e == <<a>> \o w
<1>2. Listed(<<a>>) /\ Listed(w) /\ a.do = "schedule" /\ a.arg = <<s, f>>
  BY KeysOne DEF Call
<1>3. Execute(s, f) = e
  <2>1. ASSUME NEW x, NEW y
        PROVE  <<x, y>> = <<x>> \o <<y>>
    <3>1. <<x, y>> = Append(<<x>>, y)
      OBVIOUS
    <3>2. QED
      BY <3>1, KeysOne, AppendOne
  <2>2. QED
    BY <2>1 DEF Execute, WaitCall
<1>4. /\ <<a>> # <<>> /\ Head(<<a>>) = a /\ Tail(<<a>>) = <<>>
  OBVIOUS
<1> HIDE DEF a, w, e
<1>5. Listed(pre) /\ Listed(post)
  BY <1>1 DEF Quiet, Plain
<1>6. Listed(e) /\ e # <<>> /\ Head(e) = a /\ Tail(e) = w
  <2>1. Listed(e)
    BY <1>2, ListedConcat DEF e
  <2>2. PICK h : h = <<a>>
    OBVIOUS
  <2>3. e = h \o w /\ Head(h) = a /\ Tail(h) = <<>>
    BY <1>4, <2>2 DEF e
  <2>4. Listed(h) /\ Listed(w) /\ h # <<>>
    BY <1>2, <1>4, <2>2
  <2>5. h \o w # <<>> /\ Head(h \o w) = Head(h) /\ Tail(h \o w) = Tail(h) \o w
    BY <2>4, ConcatHead
  <2>6. <<>> \o w = w
    BY <2>4, ConcatLaws
  <2>7. QED
    BY <2>1, <2>3, <2>5, <2>6
<1>7. Listed(pre \o e) /\ Listed(c)
  BY <1>1, <1>3, <1>5, <1>6, ListedConcat
<1>8. CASE pre # <<>>
  <2>1. pre \o e # <<>> /\ Head(pre \o e) = Head(pre) /\ Tail(pre \o e) = Tail(pre) \o e
    BY <1>5, <1>6, <1>8, ConcatHead
  <2>2. c # <<>> /\ Head(c) = Head(pre) /\ Tail(c) = (Tail(pre) \o e) \o post
    <3>1. PICK d : d = pre \o e
      OBVIOUS
    <3>2. /\ c = d \o post /\ Listed(d) /\ d # <<>>
          /\ Head(d) = Head(pre) /\ Tail(d) = Tail(pre) \o e
      BY <1>1, <1>3, <1>7, <2>1, <3>1
    <3>3. c # <<>> /\ Head(c) = Head(d) /\ Tail(c) = Tail(d) \o post
      BY <1>5, <3>2, ConcatHead
    <3>4. QED
      BY <3>2, <3>3
  <2>3. Quiet(Tail(pre)) /\ Head(pre).do \notin {"add", "schedule", "wait"}
    BY <1>1, <1>8, PlainTail DEF Quiet
  <2>4. HandsOver(Tail(c), s, f)
    BY <1>1, <1>3, <2>2, <2>3 DEF HandsOver
  <2>5. QED
    BY <1>7, <2>2, <2>3, <2>4
<1>9. CASE pre = <<>>
  <2>1. c = e \o post
    BY <1>1, <1>3, <1>6, <1>9, ConcatLaws
  <2>2. c # <<>> /\ Head(c) = a /\ Tail(c) = w \o post
    BY <1>5, <1>6, <2>1, ConcatHead
  <2>3. AtWait(Tail(c), f)
    BY <1>1, <2>2 DEF AtWait, w
  <2>4. QED
    BY <1>2, <1>7, <2>2, <2>3
<1>10. QED
  BY <1>8, <1>9

LEMMA AtWaitStep ==
  ASSUME NEW c, NEW f, AtWait(c, f)
  PROVE  Listed(c) /\ c # <<>> /\ Head(c).do = "wait" /\ Quiet(Tail(c))
<1>1. PICK post : Quiet(post) /\ c = <<WaitCall(f)>> \o post
  BY DEF AtWait
<1> DEFINE w == <<WaitCall(f)>>
<1>2. Listed(w) /\ WaitCall(f).do = "wait" /\ Listed(post)
  BY <1>1, KeysOne DEF Call, WaitCall, Quiet, Plain
<1>3. w # <<>> /\ Head(w) = WaitCall(f) /\ Tail(w) = <<>>
  OBVIOUS
<1> HIDE DEF w
<1>4. /\ c # <<>> /\ Head(c) = Head(w) /\ Tail(c) = Tail(w) \o post /\ Listed(c)
  <2>1. c = w \o post
    BY <1>1 DEF w
  <2>2. QED
    BY <1>2, <1>3, <2>1, ConcatHead, ListedConcat
<1>5. Tail(c) = post
  BY <1>2, <1>3, <1>4, ConcatLaws
<1>6. QED
  BY <1>1, <1>2, <1>3, <1>4, <1>5

FunctionNames == {"scan", "read", "erase", "write", "reset", "heat", "reboot"}

\* What the handlers are made of besides the formatters.
LEMMA QuietParts ==
  /\ Quiet(<<MakeObject>>) /\ Quiet(Gpio) /\ Quiet(SensorId) /\ Quiet(<<TimeOps>>)
  /\ Quiet(<<Try("get_time", {"Error"})>>) /\ Quiet(<<PrintJson>>)
  /\ Quiet(SendText) /\ Quiet(SendDocument) /\ Quiet(HandleRoot) /\ Quiet(HandleFile)
  /\ Quiet(<<Try("serial_number", {"InvalidArg"}), Try("resolution", {"InvalidArg"}),
             MakeObject>>)
  /\ Quiet(<<>>)
<1>1. \A what, errors : Try(what, errors).do = "try"
  BY DEF Try, Call
<1>2. Send("body").do = "send" /\ Send("redirect").do = "send"
      /\ Call("open", <<>>, {"Error"}).do = "open"
  BY DEF Send, Call
<1>3. /\ MakeObject.do = "try" /\ PrintJson.do = "try" /\ SetType.do = "try"
      /\ TimeOps.do = "try" /\ Mounted.do = "try"
      /\ \A name : SetHeader(name).do = "try"
  BY <1>1 DEF MakeObject, PrintJson, SetType, SetHeader, TimeOps, Mounted
<1>4. \A x : x.do \in {"try", "send", "open"} => Quiet(<<x>>)
  BY PlainOne
<1>5. ASSUME NEW x, NEW y, x.do \in {"try", "send", "open"},
             y.do \in {"try", "send", "open"}
      PROVE  Quiet(<<x, y>>)
  <2>1. \A i \in DOMAIN <<x, y>> : <<x, y>>[i] = x \/ <<x, y>>[i] = y
    OBVIOUS
  <2>2. <<x, y>> \in Seq({x, y})
    OBVIOUS
  <2>3. QED
    BY <1>5, <2>1, <2>2, ListedSeq DEF Quiet, Plain
<1>6. ASSUME NEW x, NEW y, NEW z, x.do \in {"try", "send", "open"},
             y.do \in {"try", "send", "open"}, z.do \in {"try", "send", "open"}
      PROVE  Quiet(<<x, y, z>>)
  <2>1. \A i \in DOMAIN <<x, y, z>> :
          <<x, y, z>>[i] = x \/ <<x, y, z>>[i] = y \/ <<x, y, z>>[i] = z
    OBVIOUS
  <2>2. QED
    BY <1>6, <2>1, ListedTuple DEF Quiet, Plain
<1>7. ASSUME NEW x, NEW y, NEW z, NEW u, x.do \in {"try", "send", "open"},
             y.do \in {"try", "send", "open"}, z.do \in {"try", "send", "open"},
             u.do \in {"try", "send", "open"}
      PROVE  Quiet(<<x, y, z, u>>)
  <2>1. \A i \in DOMAIN <<x, y, z, u>> : <<x, y, z, u>>[i] \in {x, y, z, u}
    OBVIOUS
  <2>2. QED
    BY <1>7, <2>1, ListedTuple DEF Quiet, Plain
<1>8. Quiet(<<MakeObject>>) /\ Quiet(<<TimeOps>>) /\ Quiet(<<PrintJson>>)
      /\ Quiet(<<Try("get_time", {"Error"})>>)
  BY <1>1, <1>3, <1>4
<1>9. Quiet(Gpio) /\ Quiet(SensorId)
  BY <1>1, <1>4 DEF Gpio, SensorId
<1>10. Quiet(SendText)
  BY <1>2, <1>3, <1>5 DEF SendText
<1>11. Quiet(SendDocument)
  BY <1>2, <1>3, <1>6 DEF SendDocument
<1>12. Quiet(HandleRoot)
  BY <1>2, <1>3, <1>6 DEF HandleRoot
<1>13. Quiet(HandleFile)
  BY <1>2, <1>3, <1>7 DEF HandleFile
<1>14. Quiet(<<Try("serial_number", {"InvalidArg"}), Try("resolution", {"InvalidArg"}),
               MakeObject>>)
  BY <1>1, <1>3, <1>6
<1>15. Quiet(<<>>)
  BY FlattenEmpty DEF Quiet, Plain
<1>16. QED
  BY <1>8, <1>9, <1>10, <1>11, <1>12, <1>13, <1>14, <1>15

(* The handlers that do without a function. *)
Immediate == {"telemetry", "registration", "report", "get_time", "set_time", "root",
              "assets", "unknown"}

(* A handler adds to the document itself, or hands one function over and   *)
(* adds nothing.                                                           *)
LEMMA HandlerKinds ==
  ASSUME NEW path \in DOMAIN Handlers
  PROVE  \/ path \in Immediate /\ Plain(Handlers[path])
         \/ \E s \in Schedulers, f \in FunctionNames : HandsOver(Handlers[path], s, f)
<1>0. \A c : Quiet(c) => Plain(c) /\ Listed(c)
  BY DEF Quiet, Plain
<1>1. ASSUME NEW formatter, Calm(formatter)
      PROVE  Plain(DataHandler(formatter))
  <2> DEFINE pair == <<formatter, <<PrintJson>> >>
  <2>1. /\ Listed(pair) /\ DOMAIN pair = {1, 2} /\ pair[1] = formatter
        /\ pair[2] = <<PrintJson>>
    <3>1. pair \in Seq({formatter, <<PrintJson>>})
      OBVIOUS
    <3>2. Listed(pair)
      BY <3>1, ListedSeq
    <3>3. QED
      BY <3>2
  <2>2. Calm(<<PrintJson>>)
    BY CalmCalls, CalmOne DEF PrintJson
  <2> HIDE DEF pair
  <2>3. Calm(FlattenSeq(pair))
    BY <1>1, <2>1, <2>2, CalmFlatten
  <2>4. Plain(FlattenSeq(pair)) /\ Listed(FlattenSeq(pair))
    BY <2>3, CalmPlain DEF Plain
  <2>5. Plain(<<MakeObject>> \o FlattenSeq(pair))
    BY <1>0, <2>4, QuietParts, PlainConcat
  <2>6. Plain((<<MakeObject>> \o FlattenSeq(pair)) \o SendText)
    BY <1>0, <2>5, QuietParts, PlainConcat DEF Plain
  <2>7. QED
    BY <2>6 DEF DataHandler, FanoutFormatter, pair
<1>2. Plain(SystemStateHandler)
  <2>1. Plain(SystemStateFormatter)
    BY CalmSystemState, CalmPlain
  <2>2. Plain(<<MakeObject>> \o SystemStateFormatter)
    BY <1>0, <2>1, QuietParts, PlainConcat DEF Plain
  <2>3. QED
    BY <1>0, <2>2, QuietParts, PlainConcat DEF SystemStateHandler, Plain
<1>3. Plain(GetTime) /\ Plain(SetTime)
  BY <1>0, QuietParts, PlainConcat DEF GetTime, SetTime
<1>4. \A s, f, pre, post :
        Quiet(pre) /\ Quiet(post) => HandsOver((pre \o Execute(s, f)) \o post, s, f)
  BY DEF HandsOver
<1>5. ASSUME NEW f
      PROVE  HandsOver(Sht41Handler(f), "system", f)
  <2>1. HandsOver((<<>> \o Execute("system", f)) \o SendText, "system", f)
    BY <1>4, QuietParts
  <2>2. <<>> \o Execute("system", f) = Execute("system", f)
    <3>1. Listed(Execute("system", f))
      BY PartialExecute DEF Schedulers, Partial
    <3>2. QED
      BY <3>1, ConcatLaws
  <2>3. QED
    BY <2>1, <2>2 DEF Sht41Handler
<1>6. HandsOver(SystemHandler, "system", "reboot")
  <2>1. HandsOver((SendText \o Execute("system", "reboot")) \o <<>>, "system", "reboot")
    BY <1>4, QuietParts
  <2>2. Listed(SendText \o Execute("system", "reboot"))
    <3>1. Listed(Execute("system", "reboot")) /\ Listed(SendText)
      BY <1>0, QuietParts, PartialExecute DEF Schedulers, Partial
    <3>2. QED
      BY <3>1, ListedConcat
  <2>3. QED
    BY <2>1, <2>2, ConcatLaws DEF SystemHandler
<1>7. HandsOver(HandleScan, "bus", "scan")
  <2>1. Quiet(Gpio \o <<MakeObject>>)
    BY <1>0, QuietParts, PlainConcat
  <2>2. QED
    BY <1>4, <2>1, QuietParts DEF HandleScan
<1>8. Quiet(Gpio \o SensorId) /\ Listed(Gpio \o SensorId)
  <2>1. Quiet(Gpio \o SensorId)
    BY <1>0, QuietParts, PlainConcat
  <2>2. QED
    BY <1>0, <2>1
<1>9. ASSUME NEW f
      PROVE  HandsOver(HandleConfiguration(f), "bus", f)
  <2>1. Quiet((Gpio \o SensorId) \o <<MakeObject>>)
    BY <1>0, <1>8, QuietParts, PlainConcat
  <2>2. QED
    BY <1>4, <2>1, QuietParts DEF HandleConfiguration
<1>10. HandsOver(HandleWriteConfiguration, "bus", "write")
  <2> DEFINE parse == <<Try("serial_number", {"InvalidArg"}),
                        Try("resolution", {"InvalidArg"}), MakeObject>>
  <2>1. Quiet((Gpio \o SensorId) \o parse)
    BY <1>0, <1>8, QuietParts, PlainConcat
  <2>2. QED
    BY <1>4, <2>1, QuietParts DEF HandleWriteConfiguration
<1>11. Plain(Handlers["unknown"])
  <2>1. Try("find_if", {"InvalidArg"}).do = "try"
    BY DEF Try, Call
  <2>2. QED
    BY <2>1, PlainOne DEF Handlers
<1>12. CASE path \in Immediate
  BY <1>0, <1>1, <1>2, <1>3, <1>11, <1>12, QuietParts, CalmTelemetry, CalmRegistration
  DEF Handlers, Immediate
<1>13. CASE path \in {"sht41_reset", "sht41_heat", "reboot", "scan",
                      "read_configuration", "write_configuration",
                      "erase_configuration"}
  BY <1>5, <1>6, <1>7, <1>9, <1>10, <1>13 DEF Handlers, Schedulers, FunctionNames
<1>14. QED
  BY <1>12, <1>13 DEF Handlers, Immediate

LEMMA DocumentPlain ==
  ASSUME NEW path \in DOMAIN Handlers, Plain(Handlers[path])
  PROVE  DocumentOf(path, Keys(Handlers[path]))
<1>1. {c \in ToSet(Handlers[path]) : c.do = "schedule"} = {}
  BY DEF Plain, ToSet
<1>2. QED
  BY <1>1 DEF DocumentOf

LEMMA ScheduledCalls ==
  ASSUME NEW c, NEW s, NEW f, HandsOver(c, s, f)
  PROVE  {x \in ToSet(c) : x.do = "schedule"} = {Call("schedule", <<s, f>>, {})}
<1> DEFINE call == Call("schedule", <<s, f>>, {})
           wait == Call("wait", <<f>>, {})
<1>1. PICK pre, post : Quiet(pre) /\ Quiet(post) /\ c = (pre \o Execute(s, f)) \o post
  BY DEF HandsOver
<1>2. Listed(Execute(s, f)) /\ ToSet(Execute(s, f)) = {call, wait}
  <2>1. \A x, y : <<x, y>> \in Seq({x, y}) /\ ToSet(<<x, y>>) = {x, y}
    BY DEF ToSet
  <2>2. QED
    BY <2>1, ListedSeq DEF Execute
<1>3. Listed(pre) /\ Listed(post)
  BY <1>1 DEF Quiet, Plain
<1>4. ToSet(c) = (ToSet(pre) \cup {call, wait}) \cup ToSet(post)
  <2> DEFINE e == Execute(s, f)
  <2> HIDE DEF e
  <2>1. Listed(e) /\ ToSet(e) = {call, wait} /\ c = (pre \o e) \o post
    BY <1>1, <1>2 DEF e
  <2>2. Listed(pre \o e) /\ ToSet(pre \o e) = ToSet(pre) \cup ToSet(e)
    BY <1>3, <2>1, ListedConcat, ConcatLaws
  <2>3. ToSet(c) = ToSet(pre \o e) \cup ToSet(post)
    BY <1>3, <2>1, <2>2, ConcatLaws
  <2>4. QED
    BY <2>1, <2>2, <2>3
<1>5. \A x \in ToSet(pre) \cup ToSet(post) : x.do # "schedule"
  BY <1>1 DEF Quiet, Plain, ToSet
<1>6. call.do = "schedule" /\ wait.do # "schedule"
  BY DEF Call
<1> HIDE DEF call, wait
<1>7. QED
  BY <1>4, <1>5, <1>6 DEF call

LEMMA DocumentHanded ==
  ASSUME NEW path \in DOMAIN Handlers, NEW s, NEW f, HandsOver(Handlers[path], s, f),
         NEW n \in 0 .. Devices
  PROVE  DocumentOf(path, Keys(Body(f, n)))
<1> DEFINE call == Call("schedule", <<s, f>>, {})
<1>1. {c \in ToSet(Handlers[path]) : c.do = "schedule"} = {call} /\ call.arg[2] = f
  BY ScheduledCalls DEF Call
<1> HIDE DEF call
<1>2. QED
  BY <1>1 DEF DocumentOf

(* The reboot answers before its function is handed over: with no field.   *)
LEMMA DocumentReboot ==
  ASSUME "reboot" \in DOMAIN Handlers
  PROVE  DocumentOf("reboot", <<>>)
<1>1. Handlers["reboot"] = (SendText \o Execute("system", "reboot")) \o <<>>
  <2>1. Listed(Execute("system", "reboot")) /\ Listed(SendText)
    BY QuietParts, PartialExecute DEF Schedulers, Partial, Quiet, Plain
  <2>2. Handlers["reboot"] = SendText \o Execute("system", "reboot")
    BY DEF Handlers, SystemHandler
  <2>3. QED
    BY <2>1, <2>2, ListedConcat, ConcatLaws
<1>2. HandsOver(Handlers["reboot"], "system", "reboot")
  BY <1>1, QuietParts DEF HandsOver
<1>3. Keys(Body("reboot", 0)) = <<>>
  <2>1. Call("reboot", <<>>, {}).do # "add"
    BY DEF Call
  <2>2. Body("reboot", 0) = <<Call("reboot", <<>>, {})>>
    BY DEF Body
  <2>3. QED
    BY <2>1, <2>2, KeysOne, KeyListed
<1>4. 0 \in 0 .. Devices
  BY DevicesAssumption
<1>5. QED
  BY <1>2, <1>3, <1>4, DocumentHanded

\* What the main task does for a handler, function by function.
LEMMA CalmFunctions ==
  ASSUME NEW n \in Nat
  PROVE  /\ Calm(Scan(n)) /\ Calm(<<GetSensor>> \o ReadConfiguration)
         /\ Calm(<<GetSensor>> \o EraseConfiguration) /\ Calm(WriteConfiguration)
         /\ Calm(<<Try("reset", {"Error"})>>)
         /\ Calm(<<Try("heat", {"Error", "InvalidState"})>>)
<1>1. \A x : Calmly(x) => Calm(<<x>>)
  BY CalmOne
<1>2. \A s, t : Calm(s) /\ Calm(t) => Calm(s \o t)
  BY CalmConcat
<1>3. \A seqs : Listed(seqs) /\ (\A i \in DOMAIN seqs : Calm(seqs[i])) =>
                  Calm(FlattenSeq(seqs))
  BY CalmFlatten
<1>4. ASSUME NEW x, NEW y, NEW z, NEW u, Calmly(x), Calmly(y), Calmly(z), Calmly(u)
      PROVE  Calm(<<x, y, z, u>>)
  <2>1. \A i \in DOMAIN <<x, y, z, u>> : <<x, y, z, u>>[i] \in {x, y, z, u}
    OBVIOUS
  <2>2. QED
    BY <1>4, <2>1, ListedTuple DEF Calm
<1>5. Calm(FormatConfiguration)
  <2>1. \A a, b : <<a, b>> \in Seq({a, b})
    OBVIOUS
  <2>2. QED
    BY <2>1, ListedSeq, CalmFields DEF FormatConfiguration
<1>6. Calm(<<GetSensor>>) /\ Calm(<<Try("reset", {"Error"})>>)
      /\ Calm(<<Try("heat", {"Error", "InvalidState"})>>)
      /\ Calm(<<Try("read_configuration", {"Error"})>>)
      /\ Calm(<<Try("erase_configuration", {"Error"})>>)
      /\ Calm(<<Try("scan", {"Error"})>>)
  BY <1>1, CalmCalls DEF GetSensor
<1>7. Calm(ReadConfiguration) /\ Calm(EraseConfiguration)
  BY <1>2, <1>5, <1>6 DEF ReadConfiguration, EraseConfiguration
<1>8. Calm(<<GetSensor>> \o ReadConfiguration) /\ Calm(<<GetSensor>> \o EraseConfiguration)
  BY <1>2, <1>6, <1>7
<1>9. Calm(WriteConfiguration)
  <2>1. Calm(<<GetSensor, Try("parse_configuration", {"InvalidArg"}), FindRomCode,
               Try("write_configuration", {"Error"})>>)
    BY <1>4, CalmCalls DEF GetSensor, FindRomCode
  <2>2. QED
    BY <1>2, <1>7, <2>1 DEF WriteConfiguration
<1>10. Calm(ScanRomCodes(n))
  <2> DEFINE r == [i \in 1 .. n |-> Round(i)]
  <2>1. Listed(r) /\ DOMAIN r = 1 .. n
    <3>1. r \in Seq({Round(i) : i \in 1 .. n})
      OBVIOUS
    <3>2. QED
      BY <3>1, ListedSeq
  <2>2. \A i \in DOMAIN r : Calm(r[i])
    BY <2>1, CalmTwo, CalmCalls DEF Round
  <2> HIDE DEF r
  <2>3. Calm(FlattenSeq(r))
    BY <1>3, <2>1, <2>2
  <2>4. Calm(<<Add(<<"rom_codes">>)>>)
    BY <1>1, CalmCalls
  <2>5. Calm((<<Add(<<"rom_codes">>)>> \o FlattenSeq(r)) \o <<Try("scan", {"Error"})>>)
    BY <1>2, <1>6, <2>3, <2>4
  <2>6. QED
    BY <2>5 DEF ScanRomCodes, r
<1>11. Calm(FormatSensors)
  <2> DEFINE r == [i \in DOMAIN Ds18b20Ids |-> FormatSensor(Ds18b20Ids[i])]
  <2>1. Listed(r) /\ DOMAIN r = DOMAIN Ds18b20Ids
    <3>1. Listed(Ds18b20Ids) /\ r = [i \in DOMAIN Ds18b20Ids |-> r[i]]
      BY IdsAssumption, ListedNames
    <3>2. QED
      BY <3>1, ListedMap
  <2>2. \A id : Calm(FormatSensor(id))
    BY <1>4, CalmCalls DEF FormatSensor, MakeObject
  <2>3. \A i \in DOMAIN r : Calm(r[i])
    BY <2>1, <2>2
  <2> HIDE DEF r
  <2>4. Calm(FlattenSeq(r)) /\ Calm(<<Add(<<"sensors">>)>>)
    BY <1>1, <1>3, <2>1, <2>3, CalmCalls
  <2>5. QED
    BY <1>2, <2>4 DEF FormatSensors, r
<1>12. Calm(Scan(n))
  BY <1>2, <1>10, <1>11 DEF Scan
<1>13. QED
  BY <1>6, <1>8, <1>9, <1>12

LEMMA FunctionWorks ==
  ASSUME NEW f \in FunctionNames, NEW n \in Nat
  PROVE  Working(Body(f, n))
<1>1. Working(<<Call("reboot", <<>>, {})>>)
  <2>1. "OK" \notin Call("reboot", <<>>, {}).errors
    BY DEF Call
  <2>2. QED
    BY <2>1, PlainOne
<1>2. CASE f = "reboot"
  BY <1>1, <1>2 DEF Body
<1>3. CASE f # "reboot"
  <2>1. Calm(Body(f, n))
    BY <1>3, CalmFunctions DEF Body, FunctionNames
  <2>2. QED
    BY <2>1, CalmPlain
<1>4. QED
  BY <1>2, <1>3

-----------------------------------------------------------------------------
(* The document: what it has, and what is still to be added to it.         *)

(* The functions that were handed over. *)
Handed == ToSet(running) \cup UNION {ToSet(queue[s]) : s \in Schedulers}

Fits(keys) == ~spoiled => DocumentOf(request, keys)

(* The handler adds to the document itself. *)
Filling == Plain(calls) /\ Fits(document \o Keys(calls))

(* The handler has a function to hand over that will fill the document. *)
Handing ==
  /\ document = <<>>
  /\ \E s \in Schedulers, f \in FunctionNames :
       /\ HandsOver(calls, s, f)
       /\ \A n \in 0 .. Devices : DocumentOf(request, Keys(Body(f, n)))

(* The handler waits for the function that does. *)
Waiting ==
  /\ \E f : AtWait(calls, f)
  /\ future = "OK" => Fits(document)
  /\ \A g \in Handed : g.frame = "alive" => Fits(document \o Keys(g.calls))

(* The handler has no call left that looks at the document. *)
Leaving == calls = <<>> \/ Head(calls).do \in {"copy", "end"}

Sent == \A i \in DOMAIN wire : wire[i].is = "body" => Fits(wire[i].keys)

DocInv ==
  /\ Listed(document)
  /\ \A g \in Handed : Working(g.calls)
  /\ request \in DOMAIN Handlers \cup {NoRequest}
  /\ request # NoRequest => Sent /\ (Filling \/ Handing \/ Waiting \/ Leaving)

\* The functions before and after each action.
LEMMA HandedMember ==
  ASSUME FuncInv, NEW g \in Handed
  PROVE  /\ Function(g)
         /\ g.frame = "alive" => Next1("wait") /\ future = "Last"
<1>1. Functions /\ AliveAwaited
  BY DEF FuncInv
<1>2. CASE g \in ToSet(running)
  <2>1. PICK i \in DOMAIN running : g = running[i]
    BY <1>2 DEF ToSet
  <2>2. QED
    BY <1>1, <2>1 DEF Functions, AliveAwaited
<1>3. ASSUME NEW s \in Schedulers, g \in ToSet(queue[s])
      PROVE  Function(g) /\ (g.frame = "alive" => Next1("wait") /\ future = "Last")
  <2>1. PICK i \in DOMAIN queue[s] : g = queue[s][i]
    BY <1>3 DEF ToSet
  <2>2. QED
    BY <1>1, <2>1 DEF Functions, AliveAwaited
<1>4. QED
  BY <1>2, <1>3 DEF Handed

LEMMA HandedRunning ==
  ASSUME FuncInv, running # <<>>
  PROVE  running[1] \in Handed
<1>1. Functions
  BY DEF FuncInv
<1>2. DOMAIN running = {1}
  <2>1. Listed(running) /\ Len(running) <= 1
    BY <1>1 DEF Functions
  <2>2. Len(running) \in Nat /\ Len(running) # 0 /\ DOMAIN running = 1 .. Len(running)
    BY <2>1, ListedLen
  <2>3. QED
    BY <2>1, <2>2
<1>3. ToSet(running) = {running[1]}
  BY <1>2 DEF ToSet
<1>4. QED
  BY <1>3 DEF Handed

LEMMA HandedTake ==
  ASSUME FuncInv, NEW s \in Schedulers, Take(s)
  PROVE  Handed' \subseteq Handed
<1>1. /\ queue[s] # <<>> /\ running' = <<Head(queue[s])>>
      /\ queue' = [queue EXCEPT ![s] = Tail(@)]
  BY DEF Take
<1>2. /\ queue = [t \in Schedulers |-> queue[t]] /\ Listed(queue[s])
  BY DEF FuncInv, Functions
<1>3. /\ queue'[s] = Tail(queue[s])
      /\ \A t \in Schedulers : t # s => queue'[t] = queue[t]
  BY <1>1, <1>2
<1>4. ToSet(Tail(queue[s])) \subseteq ToSet(queue[s]) /\ Head(queue[s]) \in ToSet(queue[s])
  <2> DEFINE h == <<Head(queue[s])>>
             t == Tail(queue[s])
  <2>1. queue[s] = h \o t /\ Listed(h) /\ Listed(t)
    BY <1>1, <1>2, SplitFirst
  <2>2. Head(queue[s]) \in ToSet(h)
    BY DEF ToSet
  <2> HIDE DEF h, t
  <2>3. ToSet(h \o t) = ToSet(h) \cup ToSet(t)
    BY <2>1, ConcatLaws
  <2>4. ToSet(t) \subseteq ToSet(queue[s]) /\ Head(queue[s]) \in ToSet(queue[s])
    BY <2>1, <2>2, <2>3
  <2>5. QED
    BY <2>4 DEF t
<1>5. ToSet(running') = {Head(queue[s])}
  <2>1. \A x : ToSet(<<x>>) = {x}
    BY DEF ToSet
  <2>2. QED
    BY <1>1, <2>1
<1>6. ASSUME NEW t \in Schedulers
      PROVE  ToSet(queue'[t]) \subseteq ToSet(queue[t])
  BY <1>3, <1>4
<1>7. QED
  BY <1>4, <1>5, <1>6 DEF Handed

LEMMA HandedContinues ==
  ASSUME FuncInv, running # <<>>, Continue, UNCHANGED queue, NEW g \in Handed'
  PROVE  \/ /\ g = [running[1] EXCEPT !.calls = Tail(@)]
            /\ g.calls = Tail(running[1].calls) /\ g.frame = running[1].frame
         \/ g \in Handed /\ (Alive => g.frame # "alive")
<1>1. ToSet(running') = {[running[1] EXCEPT !.calls = Tail(@)]}
  <2>1. \A x : ToSet(<<x>>) = {x}
    BY DEF ToSet
  <2>2. QED
    BY <2>1 DEF Continue
<1>2. Function(running[1])
  BY HandedRunning, HandedMember
<1>3. ASSUME NEW s \in Schedulers, NEW h \in ToSet(queue[s]), Alive
      PROVE  h.frame # "alive"
  <2>1. PICK i \in DOMAIN queue[s] : h = queue[s][i]
    BY <1>3 DEF ToSet
  <2>2. 1 \in DOMAIN running
    <3>1. Listed(running)
      BY DEF FuncInv, Functions
    <3>2. QED
      BY <3>1, ListedLen
  <2>3. QED
    BY <1>3, <2>1, <2>2 DEF FuncInv, OneAlive, Alive
<1>4. CASE g \in ToSet(running')
  BY <1>1, <1>2, <1>4 DEF Function
<1>5. CASE \E s \in Schedulers : g \in ToSet(queue[s])
  BY <1>3, <1>5 DEF Handed
<1>6. QED
  BY <1>4, <1>5 DEF Handed

LEMMA HandedFinishes ==
  ASSUME FuncInv, running # <<>>, NEW status, Finish(status), UNCHANGED queue
  PROVE  /\ Handed' \subseteq Handed
         /\ Alive => \A g \in Handed' : g.frame # "alive"
<1>1. ToSet(running') = {}
  BY DEF Finish, ToSet
<1>2. Handed' = UNION {ToSet(queue[s]) : s \in Schedulers}
  BY <1>1 DEF Handed
<1>3. ASSUME Alive, NEW g \in Handed'
      PROVE  g.frame # "alive"
  <2>1. PICK s \in Schedulers : g \in ToSet(queue[s])
    BY <1>2, <1>3
  <2>2. PICK i \in DOMAIN queue[s] : g = queue[s][i]
    BY <2>1 DEF ToSet
  <2>3. 1 \in DOMAIN running
    <3>1. Listed(running)
      BY DEF FuncInv, Functions
    <3>2. QED
      BY <3>1, ListedLen
  <2>4. QED
    BY <1>3, <2>2, <2>3 DEF FuncInv, OneAlive, Alive
<1>4. QED
  BY <1>2, <1>3 DEF Handed

LEMMA HandedGivenUp ==
  ASSUME FuncInv, GiveUp, NEW g \in Handed'
  PROVE  \E h \in Handed : g.calls = h.calls
<1>1. \A h \in Handed : Abandon(h).calls = h.calls
  BY HandedMember DEF Abandon, Function
<1>2. CASE g \in ToSet(running')
  <2>1. PICK i \in DOMAIN running : g = Abandon(running[i])
    BY <1>2 DEF GiveUp, ToSet
  <2>2. running[i] \in Handed
    BY DEF Handed, ToSet
  <2>3. QED
    BY <1>1, <2>1, <2>2
<1>3. ASSUME NEW s \in Schedulers, g \in ToSet(queue'[s])
      PROVE  \E h \in Handed : g.calls = h.calls
  <2>1. queue'[s] = [i \in DOMAIN queue[s] |-> Abandon(queue[s][i])]
    BY DEF GiveUp
  <2>2. PICK i \in DOMAIN queue[s] : g = Abandon(queue[s][i])
    BY <1>3, <2>1 DEF ToSet
  <2>3. queue[s][i] \in Handed
    BY DEF Handed, ToSet
  <2>4. QED
    BY <1>1, <2>2, <2>3
<1>4. QED
  BY <1>2, <1>3 DEF Handed

\* DocInv under each action of the HTTP task.
LEMMA DocHandler ==
  ASSUME DocInv, Listed(document'), request' = request, UNCHANGED <<queue, running>>,
         request # NoRequest => Sent' /\ (Filling \/ Handing \/ Waiting \/ Leaving)'
  PROVE  DocInv'
<1>1. Handed' = Handed
  BY DEF Handed
<1>2. \A g \in Handed' : Working(g.calls)
  BY <1>1 DEF DocInv
<1>3. QED
  BY <1>2 DEF DocInv

LEMMA DocSent ==
  ASSUME DocInv, request # NoRequest, UNCHANGED <<request, spoiled, wire>>
  PROVE  Sent'
BY DEF DocInv, Sent, Fits

LEMMA DocReceive ==
  ASSUME DocInv, NEW path \in DOMAIN Handlers, Receive(path)
  PROVE  DocInv'
<1>1. /\ request' = path /\ calls' = Handlers[path] /\ document' = <<>> /\ wire' = <<>>
      /\ spoiled' = FALSE /\ queue' = queue /\ running' = running
  BY DEF Receive, mainTask
<1>2. Listed(document') /\ DOMAIN wire' = {}
  BY <1>1, FlattenEmpty
<1>3. Handed' = Handed
  BY <1>1 DEF Handed
<1>4. CASE Plain(Handlers[path])
  <2>1. <<>> \o Keys(Handlers[path]) = Keys(Handlers[path])
    BY <1>4, KeysListed, ConcatLaws DEF Plain
  <2>2. DocumentOf(path, <<>> \o Keys(Handlers[path]))
    BY <1>4, <2>1, DocumentPlain
  <2>3. Filling'
    BY <1>1, <1>4, <2>2 DEF Filling, Fits
  <2>4. QED
    BY <1>1, <1>2, <1>3, <2>3 DEF DocInv, Sent
<1>5. CASE \E s \in Schedulers, f \in FunctionNames : HandsOver(Handlers[path], s, f)
  <2>1. PICK s \in Schedulers, f \in FunctionNames : HandsOver(Handlers[path], s, f)
    BY <1>5
  <2>2. \A n \in 0 .. Devices : DocumentOf(path, Keys(Body(f, n)))
    BY <2>1, DocumentHanded
  <2>3. Handing'
    BY <1>1, <2>1, <2>2 DEF Handing
  <2>4. QED
    BY <1>1, <1>2, <1>3, <2>3 DEF DocInv, Sent
<1>6. QED
  BY <1>4, <1>5, HandlerKinds

(* A call of the handler that is none for a function. *)
LEMMA DocTry ==
  ASSUME DocInv, Succeed
  PROVE  DocInv'
<1>1. /\ calls # <<>> /\ Head(calls).do = "try" /\ calls' = Tail(calls)
      /\ request' = request /\ document' = document /\ wire' = wire /\ spoiled' = spoiled
      /\ queue' = queue /\ running' = running
  BY DEF Succeed, Next1, Done, client, mainTask
<1>2. Listed(document')
  BY <1>1 DEF DocInv
<1>3. ASSUME Filling
      PROVE  Filling'
  <2>1. Listed(calls) /\ Plain(Tail(calls))
    BY <1>1, <1>3, PlainTail DEF Filling, Plain
  <2>2. Keys(Tail(calls)) = Keys(calls)
    BY <1>1, <1>2, <2>1, KeysStep
  <2>3. QED
    BY <1>1, <1>3, <2>1, <2>2 DEF Filling, Fits
<1>4. ASSUME Handing
      PROVE  Handing'
  <2>1. PICK s \in Schedulers, f \in FunctionNames :
          /\ HandsOver(calls, s, f)
          /\ \A n \in 0 .. Devices : DocumentOf(request, Keys(Body(f, n)))
    BY <1>4 DEF Handing
  <2>2. HandsOver(Tail(calls), s, f)
    BY <1>1, <2>1, HandsOverStep
  <2>3. QED
    BY <1>1, <1>4, <2>1, <2>2 DEF Handing
<1>5. ~Waiting /\ ~Leaving
  BY <1>1, AtWaitStep DEF Waiting, Leaving
<1>6. request # NoRequest => (Filling \/ Handing)'
  BY <1>3, <1>4, <1>5 DEF DocInv
<1>7. QED
  BY <1>1, <1>2, <1>6, DocSent, DocHandler

LEMMA DocAdd ==
  ASSUME DocInv, AddItem
  PROVE  DocInv'
<1>1. /\ calls # <<>> /\ Head(calls).do = "add" /\ calls' = Tail(calls)
      /\ document' = Append(document, Head(calls).arg)
      /\ request' = request /\ wire' = wire /\ spoiled' = spoiled
      /\ queue' = queue /\ running' = running
  BY DEF AddItem, Next1, Done, client, mainTask
<1>2. Listed(document) /\ Listed(document')
  BY <1>1, ListedAppend DEF DocInv
<1>3. ASSUME Filling
      PROVE  Filling'
  <2>1. Listed(calls) /\ Plain(Tail(calls))
    BY <1>1, <1>3, PlainTail DEF Filling, Plain
  <2>2. document' \o Keys(Tail(calls)) = document \o Keys(calls)
    BY <1>1, <1>2, <2>1, KeysStep
  <2>3. QED
    BY <1>1, <1>3, <2>1, <2>2 DEF Filling, Fits
<1>4. ~Handing
  BY <1>1, HandsOverStep DEF Handing
<1>5. ~Waiting /\ ~Leaving
  BY <1>1, AtWaitStep DEF Waiting, Leaving
<1>6. request # NoRequest => Filling'
  BY <1>3, <1>4, <1>5 DEF DocInv
<1>7. QED
  BY <1>1, <1>2, <1>6, DocSent, DocHandler

(* A handler that returns early does not look at the document any more. *)
LEMMA DocReturns ==
  ASSUME DocInv, calls' = <<>>,
         UNCHANGED <<request, document, wire, spoiled, queue, running>>
  PROVE  DocInv'
<1>1. Leaving'
  BY DEF Leaving
<1>2. Listed(document')
  BY DEF DocInv
<1>3. QED
  BY <1>1, <1>2, DocSent, DocHandler

(* Only a handler that has its document whole sends it. *)
LEMMA DocSend ==
  ASSUME AnswerInv, DocInv, SendResponse
  PROVE  DocInv'
<1>1. /\ Next1("send") /\ calls # <<>> /\ Head(calls).do = "send"
      /\ document' = document /\ queue' = queue /\ running' = running
  BY DEF SendResponse, Next1, mainTask
<1>2. Listed(document)
  BY DEF DocInv
<1>3. CASE ReturnCode("Error") /\ TransmitFails
  <2>1. calls' = <<>> /\ UNCHANGED <<request, wire, spoiled>>
    BY <1>3 DEF ReturnCode, TransmitFails
  <2>2. QED
    BY <1>1, <2>1, DocReturns
<1> DEFINE item == [is |-> Head(calls).arg[1], keys |-> document]
<1>4. CASE Done /\ Transmit(item)
  <2>1. /\ calls' = Tail(calls) /\ request' = request /\ spoiled' = spoiled
        /\ wire' = Append(wire, item)
    BY <1>4 DEF Done, Transmit
  <2>2. request # NoRequest /\ Pending
    BY <1>1, Phase
  <2>3. ~Waiting /\ ~Leaving
    BY <1>1, AtWaitStep DEF Waiting, Leaving
  <2>4. Filling \/ Handing
    BY <2>2, <2>3 DEF DocInv
  <2>5. /\ Tail(calls) = <<>> \/ Handing'
        /\ Fits(document)
    <3>1. CASE request = "unknown"
      <4>1. Head(<<Try("find_if", {"InvalidArg"})>>).do = "try"
        BY DEF Try, Call
      <4>2. calls = <<Try("find_if", {"InvalidArg"})>>
        BY <2>2, <3>1 DEF Pending, Handlers
      <4>3. QED
        BY <1>1, <4>1, <4>2
    <3>2. CASE request = "reboot"
      <4>1. calls = Handlers["reboot"] \/ calls = Tail(Handlers["reboot"])
        BY <2>2, <3>2 DEF Pending
      <4>2. Tail(calls) = Execute("system", "reboot")
        BY <1>1, <4>1, RebootCalls
      <4>3. ~Filling
        <5>1. ASSUME Plain(calls)
              PROVE  FALSE
          <6>1. Plain(Tail(calls))
            BY <1>1, <5>1, PlainTail
          <6>2. QED
            BY <4>2, <6>1, ExecuteCalls, PlainTail
        <5>2. QED
          BY <5>1 DEF Filling
      <4>4. document = <<>> /\ \E s \in Schedulers, f \in FunctionNames :
              /\ HandsOver(calls, s, f)
              /\ \A n \in 0 .. Devices : DocumentOf(request, Keys(Body(f, n)))
        BY <2>4, <4>3 DEF Handing
      <4>5. Handing'
        BY <1>1, <2>1, <4>4, HandsOverStep DEF Handing
      <4>6. "reboot" \in DOMAIN Handlers
        BY DEF Handlers
      <4>7. QED
        BY <3>2, <4>4, <4>5, <4>6, DocumentReboot DEF Fits
    <3>3. CASE request \notin {"unknown", "reboot"}
      <4>1. Tail(calls) = <<>>
        BY <1>1, <2>2, <3>3, OrderedHead DEF Pending
      <4>2. ~Handing
        BY <1>1, <4>1, HandsOverStep DEF Handing
      <4>3. Plain(calls) /\ Fits(document \o Keys(calls))
        BY <2>4, <4>2 DEF Filling
      <4>4. Keys(calls) = <<>>
        BY <1>1, <1>2, <4>1, <4>3, KeysStep, KeysEmpty DEF Plain
      <4>5. document \o <<>> = document
        BY <1>2, ConcatLaws
      <4>6. QED
        BY <4>1, <4>3, <4>4, <4>5
    <3>4. QED
      BY <3>1, <3>2, <3>3
  <2>6. Leaving' \/ Handing'
    BY <2>1, <2>5 DEF Leaving
  <2>7. /\ Listed(wire) /\ Listed(wire') /\ Len(wire') = Len(wire) + 1
        /\ \A i \in 1 .. Len(wire) : wire'[i] = wire[i]
        /\ wire'[Len(wire) + 1] = item
    BY <2>1, ListedAppend DEF AnswerInv
  <2>8. item.keys = document
    OBVIOUS
  <2> HIDE DEF item
  <2>9. \A i \in DOMAIN wire' : \/ i \in DOMAIN wire /\ wire'[i] = wire[i]
                                \/ wire'[i] = item
    <3>1. /\ DOMAIN wire' = 1 .. Len(wire') /\ DOMAIN wire = 1 .. Len(wire)
          /\ Len(wire) \in Nat
      BY <2>7, ListedLen
    <3>2. QED
      BY <2>7, <3>1
  <2>10. Sent'
    <3>1. \A i \in DOMAIN wire : wire[i].is = "body" => Fits(wire[i].keys)
      BY <2>2 DEF DocInv, Sent
    <3>2. \A i \in DOMAIN wire' : wire'[i].is = "body" => Fits(wire'[i].keys)
      BY <2>5, <2>8, <2>9, <3>1
    <3>3. QED
      BY <2>1, <3>2 DEF Fits, Sent
  <2>11. QED
    BY <1>1, <1>2, <2>1, <2>6, <2>10, DocHandler
<1>5. QED
  BY <1>3, <1>4 DEF SendResponse

(* A file has no document. *)
LEMMA DocFile ==
  ASSUME AnswerInv, DocInv, OpenFile \/ CopyChunk \/ EndStreams
  PROVE  DocInv'
<1>1. /\ request' = request /\ document' = document /\ queue' = queue
      /\ running' = running /\ spoiled' = spoiled /\ Listed(document')
  BY DEF OpenFile, CopyChunk, EndStreams, Done, client, mainTask, Transmit,
     TransmitFails, DocInv
<1>2. Leaving'
  <2>1. \A do, errors : LET c == <<Call(do, <<>>, errors)>>
                        IN  c # <<>> /\ Head(c).do = do
    BY DEF Call
  <2>2. CASE OpenFile
    BY <2>1, <2>2 DEF OpenFile, Leaving
  <2>3. CASE CopyChunk
    BY <2>1, <2>3 DEF CopyChunk, EndCopy, Next1, Leaving
  <2>4. CASE EndStreams
    <3>1. Listed(calls) /\ Len(calls) = 1
      BY <2>4, Phase DEF EndStreams, Ending
    <3>2. calls # <<>>
      BY <2>4 DEF EndStreams, Next1
    <3>3. Listed(Tail(calls)) /\ Len(Tail(calls)) = 1 - 1
      BY <3>1, <3>2, ListedTail
    <3>4. Len(Tail(calls)) = 0
      BY <3>3
    <3>5. Tail(calls) = <<>>
      BY <3>3, <3>4, ListedLen
    <3>6. QED
      BY <2>4, <3>5 DEF EndStreams, Done, Leaving
  <2>5. QED
    BY <2>2, <2>3, <2>4
<1>3. wire' = wire \/ \E n : wire' = Append(wire, Chunk(n))
  BY DEF OpenFile, CopyChunk, EndStreams, client, Transmit, TransmitFails
<1>4. ASSUME request # NoRequest
      PROVE  Sent'
  <2>1. Sent
    BY <1>4 DEF DocInv
  <2>2. CASE wire' = wire
    BY <1>1, <2>1, <2>2 DEF Sent, Fits
  <2>3. ASSUME NEW n, wire' = Append(wire, Chunk(n))
        PROVE  Sent'
    <3> DEFINE item == Chunk(n)
    <3>1. item.is # "body"
      BY DEF Chunk
    <3>2. wire' = Append(wire, item)
      BY <2>3
    <3> HIDE DEF item
    <3>3. /\ Listed(wire) /\ Listed(wire') /\ Len(wire') = Len(wire) + 1
          /\ \A i \in 1 .. Len(wire) : wire'[i] = wire[i]
          /\ wire'[Len(wire) + 1] = item
      BY <3>2, ListedAppend DEF AnswerInv
    <3>4. \A i \in DOMAIN wire' : \/ i \in DOMAIN wire /\ wire'[i] = wire[i]
                                  \/ wire'[i] = item
      <4>1. /\ DOMAIN wire' = 1 .. Len(wire') /\ DOMAIN wire = 1 .. Len(wire)
            /\ Len(wire) \in Nat
        BY <3>3, ListedLen
      <4>2. QED
        BY <3>3, <4>1
    <3>5. QED
      BY <1>1, <2>1, <3>1, <3>4 DEF Sent, Fits
  <2>4. QED
    BY <1>3, <2>2, <2>3
<1>5. QED
  BY <1>1, <1>2, <1>4, DocHandler

(* The function handed over will fill the document of this request. *)
LEMMA DocSchedule ==
  ASSUME AnswerInv, FuncInv, DocInv, Schedule
  PROVE  DocInv'
<1>1. /\ calls # <<>> /\ Head(calls).do = "schedule" /\ Next1("schedule")
      /\ document' = document /\ wire' = wire /\ spoiled' = spoiled
      /\ running' = running /\ request' = request /\ Listed(document')
  BY DEF Schedule, Next1, client, Done, ReturnCode, DocInv
<1>2. CASE ReturnCode("InvalidState") /\ UNCHANGED <<queue, future>>
  <2>1. calls' = <<>> /\ queue' = queue
    BY <1>2 DEF ReturnCode
  <2>2. QED
    BY <1>1, <2>1, DocReturns
<1> DEFINE s == Head(calls).arg[1]
           f == Head(calls).arg[2]
<1>3. ASSUME NEW n \in 0 .. Devices,
             queue' = [queue EXCEPT ![s] = Append(@, [function |-> f, calls |-> Body(f, n),
                                                      frame |-> "alive"])],
             future' = "Last", Done
      PROVE  DocInv'
  <2> DEFINE new == [function |-> f, calls |-> Body(f, n), frame |-> "alive"]
  <2>1. request # NoRequest
    BY <1>1, Phase
  <2>2. calls' = Tail(calls)
    BY <1>3 DEF Done
  <2>3. new.calls = Body(f, n) /\ new.frame = "alive"
    OBVIOUS
  <2>4. \A g \in Handed' : g \in Handed \/ g = new
    <3>1. /\ queue = [t \in Schedulers |-> queue[t]]
          /\ \A t \in Schedulers : Listed(queue[t])
      BY DEF FuncInv, Functions
    <3>2. \A t \in Schedulers : queue'[t] = queue[t]
                                  \/ (t = s /\ queue'[t] = Append(queue[t], new))
      BY <1>3, <3>1
    <3> HIDE DEF new
    <3>3. ASSUME NEW q, Listed(q)
          PROVE  ToSet(Append(q, new)) = ToSet(q) \cup {new}
      <4>1. Append(q, new) = q \o <<new>> /\ Listed(<<new>>)
        BY <3>3, AppendOne, KeysOne
      <4>2. ToSet(<<new>>) = {new}
        BY DEF ToSet
      <4>3. QED
        BY <3>3, <4>1, <4>2, ConcatLaws
    <3>4. \A t \in Schedulers : ToSet(queue'[t]) \subseteq ToSet(queue[t]) \cup {new}
      BY <3>1, <3>2, <3>3
    <3>5. ToSet(running') = ToSet(running)
      BY <1>1
    <3>6. QED
      BY <3>4, <3>5 DEF Handed
  <2>5. \A g \in Handed : g.frame # "alive"
    <3>1. ~Next1("wait")
      BY <1>1 DEF Next1
    <3>2. QED
      BY <3>1, HandedMember
  <2>6. Handing
    BY <1>1, <2>1, PlainTail, AtWaitStep DEF DocInv, Filling, Waiting, Leaving
  <2>7. /\ document = <<>> /\ f \in FunctionNames /\ AtWait(Tail(calls), f)
        /\ DocumentOf(request, Keys(Body(f, n)))
    <3>1. PICK t \in Schedulers, h \in FunctionNames :
            /\ HandsOver(calls, t, h)
            /\ \A m \in 0 .. Devices : DocumentOf(request, Keys(Body(h, m)))
      BY <2>6 DEF Handing
    <3>2. Head(calls).arg = <<t, h>> /\ AtWait(Tail(calls), h)
      BY <1>1, <3>1, HandsOverStep
    <3>3. f = h
      BY <3>2
    <3>4. QED
      BY <2>6, <3>1, <3>2, <3>3 DEF Handing
  <2>8. Working(Body(f, n))
    BY <2>7, FunctionWorks, DevicesAssumption
  <2>9. document' \o Keys(Body(f, n)) = Keys(Body(f, n))
    <3>1. Listed(Body(f, n))
      BY <2>8 DEF Working
    <3>2. QED
      BY <1>1, <2>7, <3>1, KeysListed, ConcatLaws
  <2> HIDE DEF new, f, s
  <2>10. Waiting'
    <3>1. \A g \in Handed' :
            g.frame = "alive" => DocumentOf(request, document' \o Keys(g.calls))
      BY <2>3, <2>4, <2>5, <2>7, <2>9
    <3>2. QED
      BY <1>1, <1>3, <2>2, <2>7, <3>1 DEF Waiting, Fits
  <2>11. \A g \in Handed' : Working(g.calls)
    BY <2>3, <2>4, <2>8 DEF DocInv
  <2>12. QED
    BY <1>1, <2>1, <2>10, <2>11, DocSent DEF DocInv
<1>4. \A n \in IF f = "scan" THEN 0 .. Devices ELSE {0} : n \in 0 .. Devices
  BY DevicesAssumption
<1>5. QED
  BY <1>2, <1>3, <1>4 DEF Schedule

(* Only the document of a function that has come to its end is read. *)
LEMMA DocAwait ==
  ASSUME AnswerInv, DocInv, Await
  PROVE  DocInv'
<1>1. /\ Next1("wait") /\ calls # <<>> /\ Head(calls).do = "wait"
      /\ document' = document /\ wire' = wire /\ spoiled' = spoiled
      /\ running' = running /\ queue' = queue /\ request' = request /\ Listed(document)
  BY DEF Await, Next1, client, mainTask, Done, ReturnCode, DocInv
<1>2. CASE future # "OK" /\ ReturnCode(future)
  <2>1. calls' = <<>>
    BY <1>2 DEF ReturnCode
  <2>2. QED
    BY <1>1, <2>1, DocReturns
<1>3. CASE future = "OK" /\ Done
  <2>1. calls' = Tail(calls)
    BY <1>3 DEF Done
  <2>2. request # NoRequest
    BY <1>1, Phase
  <2>3. Waiting
    BY <1>1, <2>2, PlainTail, HandsOverStep DEF DocInv, Filling, Handing, Leaving
  <2>4. Quiet(Tail(calls)) /\ Fits(document)
    BY <1>3, <2>3, AtWaitStep DEF Waiting
  <2>5. Keys(Tail(calls)) = <<>> /\ Plain(Tail(calls))
    BY <2>4, KeysNone DEF Quiet, Plain
  <2>6. document \o <<>> = document
    BY <1>1, ConcatLaws
  <2>7. Filling'
    BY <1>1, <2>1, <2>4, <2>5, <2>6 DEF Filling, Fits
  <2>8. QED
    BY <1>1, <2>2, <2>7, DocSent, DocHandler
<1>4. QED
  BY <1>2, <1>3 DEF Await

LEMMA DocGiveUp ==
  ASSUME FuncInv, DocInv, GiveUp
  PROVE  DocInv'
<1>1. /\ document' = document /\ wire' = wire /\ spoiled' = spoiled
      /\ calls' = <<>> /\ request' = request
  BY DEF GiveUp, client, ReturnCode
<1>2. \A g \in Handed' : Working(g.calls)
  BY HandedGivenUp DEF DocInv
<1>3. Leaving'
  BY <1>1 DEF Leaving
<1>4. QED
  BY <1>1, <1>2, <1>3, DocSent DEF DocInv

LEMMA DocRespond ==
  ASSUME DocInv, Respond
  PROVE  DocInv'
<1>1. document' = <<>> /\ request' = NoRequest /\ queue' = queue /\ running' = running
  BY DEF Respond, mainTask
<1>2. Listed(document') /\ Handed' = Handed
  BY <1>1, FlattenEmpty DEF Handed
<1>3. QED
  BY <1>1, <1>2 DEF DocInv

LEMMA DocRestart ==
  ASSUME Restart
  PROVE  DocInv'
<1>1. /\ document' = <<>> /\ request' = NoRequest /\ running' = <<>>
      /\ \A s \in Schedulers : queue'[s] = <<>>
  BY DEF Restart
<1>2. ToSet(<<>>) = {}
  BY DEF ToSet
<1>3. Handed' = {}
  BY <1>1, <1>2 DEF Handed
<1>4. QED
  BY <1>1, <1>3, FlattenEmpty DEF DocInv

\* DocInv under each action of the main task: the handler stays where it is, and
\* only a handler that waits has a function that is alive.
LEMMA DocMain ==
  ASSUME DocInv, UNCHANGED <<request, calls, wire>>, spoiled => spoiled',
         Listed(document'), \A g \in Handed' : Working(g.calls),
         document' = document \/ Next1("wait") \/ (spoiled' /\ document' = <<>>),
         Waiting => Waiting'
  PROVE  DocInv'
<1>1. ASSUME request # NoRequest
      PROVE  (Filling \/ Handing \/ Waiting \/ Leaving)'
  <2>1. CASE Filling
    <3>1. ~Next1("wait")
      BY <2>1, PlainTail DEF Filling, Next1
    <3>2. QED
      BY <2>1, <3>1 DEF Filling, Fits
  <2>2. CASE Handing
    <3>1. ~Next1("wait")
      BY <2>2, HandsOverStep DEF Handing, Next1
    <3>2. QED
      BY <2>2, <3>1 DEF Handing
  <2>3. CASE Waiting
    BY <2>3
  <2>4. CASE Leaving
    BY <2>4 DEF Leaving
  <2>5. QED
    BY <1>1, <2>1, <2>2, <2>3, <2>4 DEF DocInv
<1>2. request # NoRequest => Sent'
  BY DEF DocInv, Sent, Fits
<1>3. QED
  BY <1>1, <1>2 DEF DocInv

LEMMA DocTake ==
  ASSUME FuncInv, DocInv, NEW s \in Schedulers, Take(s)
  PROVE  DocInv'
<1>1. /\ UNCHANGED <<request, calls, wire, spoiled, document, future>>
      /\ Handed' \subseteq Handed
  BY HandedTake DEF Take, httpTask, client
<1>2. Waiting => Waiting'
  BY <1>1 DEF Waiting, Fits
<1>3. Listed(document') /\ \A g \in Handed' : Working(g.calls)
  BY <1>1 DEF DocInv
<1>4. QED
  BY <1>1, <1>2, <1>3, DocMain

(* The call the function makes next, and what is left after it. *)
LEMMA DocStep ==
  ASSUME FuncInv, DocInv, running # <<>>, running[1].calls # <<>>
  PROVE  /\ Listed(running[1].calls) /\ Working(Tail(running[1].calls))
         /\ "OK" \notin Head(running[1].calls).errors
         /\ Continue /\ UNCHANGED queue => \A g \in Handed' : Working(g.calls)
<1>1. Working(running[1].calls)
  BY HandedRunning DEF DocInv
<1>2. Working(Tail(running[1].calls)) /\ "OK" \notin Head(running[1].calls).errors
  BY <1>1, PlainTail
<1>3. Continue /\ UNCHANGED queue => \A g \in Handed' : Working(g.calls)
  BY <1>2, HandedContinues DEF DocInv
<1>4. QED
  BY <1>1, <1>2, <1>3 DEF Working

LEMMA DocFuncSucceeds ==
  ASSUME FuncInv, DocInv, FuncSucceeds
  PROVE  DocInv'
<1>1. /\ running # <<>> /\ running[1].calls # <<>> /\ Head(running[1].calls).do = "try"
      /\ Continue /\ UNCHANGED <<request, calls, wire, spoiled, document, future, queue>>
  BY DEF FuncSucceeds, Step, httpTask, client
<1>2. Listed(document)
  BY DEF DocInv
<1>3. Keys(Tail(running[1].calls)) = Keys(running[1].calls)
  BY <1>1, <1>2, DocStep, KeysStep
<1>4. ASSUME Waiting
      PROVE  Waiting'
  <2>1. \A g \in Handed' : g.frame = "alive" => Fits(document \o Keys(g.calls))
    BY <1>1, <1>3, <1>4, HandedRunning, HandedContinues DEF Waiting
  <2>2. QED
    BY <1>1, <1>4, <2>1 DEF Waiting, Fits
<1>5. QED
  BY <1>1, <1>2, <1>4, DocStep, DocMain

LEMMA DocFuncAdds ==
  ASSUME FuncInv, DocInv, FuncAdds
  PROVE  DocInv'
<1> DEFINE f == running[1]
<1>1. /\ running # <<>> /\ f.calls # <<>> /\ Head(f.calls).do = "add" /\ Alive
      /\ Continue /\ UNCHANGED <<request, calls, wire, spoiled, future, queue>>
      /\ document' = IF spoiled THEN <<>> ELSE Append(document, Head(f.calls).arg)
  BY DEF FuncAdds, Step, client
<1>2. Listed(document) /\ Listed(document') /\ Listed(f.calls)
  BY <1>1, ListedAppend, FlattenEmpty, DocStep DEF DocInv
<1>3. Next1("wait") /\ future = "Last"
  BY <1>1, HandedRunning, HandedMember DEF Alive
<1>4. Append(document, Head(f.calls).arg) \o Keys(Tail(f.calls))
        = document \o Keys(f.calls)
  BY <1>1, <1>2, KeysStep
<1>5. ASSUME Waiting
      PROVE  Waiting'
  <2>1. \A g \in Handed' : g.frame = "alive" => g.calls = Tail(f.calls)
    BY <1>1, HandedContinues
  <2>2. Fits(document \o Keys(f.calls))
    BY <1>1, <1>5, HandedRunning DEF Waiting, Alive
  <2>3. \A g \in Handed' :
          g.frame = "alive" /\ ~spoiled => DocumentOf(request, document' \o Keys(g.calls))
    BY <1>1, <1>4, <2>1, <2>2 DEF Fits
  <2>4. QED
    BY <1>1, <1>3, <1>5, <2>3 DEF Waiting, Fits
<1>6. QED
  BY <1>1, <1>2, <1>3, <1>5, DocStep, DocMain

(* A function that fails leaves no OK in its future. *)
LEMMA DocFuncEnds ==
  ASSUME FuncInv, DocInv, FuncFails \/ FuncReturns
  PROVE  DocInv'
<1>1. PICK status :
        /\ running # <<>> /\ Finish(status)
        /\ UNCHANGED <<request, calls, wire, spoiled, document, queue>>
        /\ status = "OK" => running[1].calls = <<>>
  <2>1. CASE FuncFails
    <3>1. running # <<>> /\ running[1].calls # <<>>
      BY <2>1 DEF FuncFails, Step
    <3>2. PICK status \in Head(running[1].calls).errors : Finish(status)
      BY <2>1 DEF FuncFails
    <3>3. status # "OK"
      BY <3>1, DocStep
    <3>4. QED
      BY <2>1, <3>1, <3>2, <3>3 DEF FuncFails, httpTask, client
  <2>2. CASE FuncReturns
    BY <2>2 DEF FuncReturns, httpTask, client
  <2>3. QED
    BY <2>1, <2>2
<1>2. Listed(document') /\ Handed' \subseteq Handed
  BY <1>1, HandedFinishes DEF DocInv
<1>3. ASSUME Waiting
      PROVE  Waiting'
  <2>1. \A g \in Handed' : g.frame = "alive" => Fits(document \o Keys(g.calls))
    BY <1>2, <1>3 DEF Waiting
  <2>2. ASSUME future' = "OK"
        PROVE  Fits(document)
    <3>1. CASE Alive
      <4>1. running[1].calls = <<>>
        BY <1>1, <2>2, <3>1 DEF Finish
      <4>2. Fits(document \o Keys(<<>>))
        BY <1>1, <1>3, <3>1, <4>1, HandedRunning DEF Waiting, Alive
      <4>3. document \o Keys(<<>>) = document
        BY <1>1, <1>2, KeysEmpty, ConcatLaws
      <4>4. QED
        BY <4>2, <4>3
    <3>2. CASE ~Alive
      BY <1>1, <1>3, <2>2, <3>2 DEF Waiting, Finish
    <3>3. QED
      BY <3>1, <3>2
  <2>3. QED
    BY <1>1, <1>3, <2>1, <2>2 DEF Waiting, Fits
<1>4. QED
  BY <1>1, <1>2, <1>3, DocMain DEF DocInv

(* A function whose handler has given up spoils a document at most. *)
LEMMA DocFuncStrays ==
  ASSUME FuncInv, DocInv, FuncStrays
  PROVE  DocInv'
<1>1. CASE Restart
  BY <1>1, DocRestart
<1>2. ASSUME Continue, spoiled => spoiled', document' = document \/ (spoiled' /\ document' = <<>>),
             UNCHANGED <<request, calls, wire, future, queue>>
      PROVE  DocInv'
  <2>1. running # <<>> /\ running[1].calls # <<>> /\ ~Alive
    BY DEF FuncStrays, Step
  <2>2. Listed(document')
    BY <1>2, FlattenEmpty DEF DocInv
  <2>3. ASSUME Waiting
        PROVE  Waiting'
    <3>1. \A g \in Handed' : g.frame = "alive" => Fits(document \o Keys(g.calls))
      BY <1>2, <2>1, <2>3, HandedContinues DEF Waiting, Alive
    <3>2. QED
      BY <1>2, <2>3, <3>1 DEF Waiting, Fits
  <2>4. QED
    BY <1>2, <2>1, <2>2, <2>3, DocStep, DocMain
<1>3. QED
  BY <1>1, <1>2 DEF FuncStrays, httpTask, client

\* DocInv under every action.
LEMMA DocPreserved ==
  ASSUME AnswerInv, FuncInv, DocInv, Next
  PROVE  DocInv'
<1>1. CASE \E path \in DOMAIN Handlers : Receive(path)
  BY <1>1, DocReceive
<1>2. CASE Fail
  <2>1. calls' = <<>> /\ UNCHANGED <<request, document, wire, spoiled, queue, running>>
    BY <1>2 DEF Fail, ReturnCode, client, mainTask
  <2>2. QED
    BY <2>1, DocReturns
<1>3. CASE Succeed \/ AddItem \/ SendResponse \/ OpenFile \/ CopyChunk \/ EndStreams
  BY <1>3, DocTry, DocAdd, DocSend, DocFile
<1>4. CASE Schedule \/ Await \/ GiveUp \/ Respond
  BY <1>4, DocSchedule, DocAwait, DocGiveUp, DocRespond
<1>5. CASE (\E s \in Schedulers : Take(s)) \/ FuncSucceeds \/ FuncAdds
  BY <1>5, DocTake, DocFuncSucceeds, DocFuncAdds
<1>6. CASE FuncFails \/ FuncReturns \/ FuncReboots \/ FuncStrays
  BY <1>6, DocFuncEnds, DocRestart, DocFuncStrays DEF FuncReboots
<1>7. QED
  BY <1>1, <1>2, <1>3, <1>4, <1>5, <1>6 DEF Next, HttpTask, MainTask

-----------------------------------------------------------------------------
(* No document has a key twice.                                            *)

Adds(c) == {i \in DOMAIN c : c[i].do = "add"}
Names(c) == {c[i].arg : i \in Adds(c)}

(* The calls add what they add once. *)
Once(c) == Listed(c) /\ \A i, j \in Adds(c) : c[i].arg = c[j].arg => i = j

\* Injective sequences, one element more.
LEMMA InjectiveAppend ==
  ASSUME NEW s, Listed(s), NEW e, IsInjective(s), e \notin ToSet(s)
  PROVE  IsInjective(Append(s, e)) /\ ToSet(Append(s, e)) = ToSet(s) \cup {e}
<1> DEFINE a == Append(s, e)
<1>1. /\ Listed(a) /\ Len(a) = Len(s) + 1 /\ a[Len(s) + 1] = e
      /\ \A i \in 1 .. Len(s) : a[i] = s[i]
  BY ListedAppend
<1>2. /\ Len(s) \in Nat /\ DOMAIN s = 1 .. Len(s) /\ DOMAIN a = 1 .. Len(s) + 1
  BY <1>1, ListedLen
<1> HIDE DEF a
<1>3. \A i \in DOMAIN a : \/ i \in DOMAIN s /\ a[i] = s[i] /\ s[i] # e
                          \/ i = Len(s) + 1 /\ a[i] = e
  BY <1>1, <1>2 DEF ToSet
<1>4. IsInjective(a)
  BY <1>3 DEF IsInjective
<1>5. ToSet(a) = ToSet(s) \cup {e}
  <2>1. \A i \in DOMAIN s : i \in DOMAIN a /\ a[i] = s[i]
    BY <1>1, <1>2
  <2>2. Len(s) + 1 \in DOMAIN a
    BY <1>2
  <2>3. QED
    BY <1>1, <1>3, <2>1, <2>2 DEF ToSet
<1>6. QED
  BY <1>4, <1>5 DEF a

\* What is added once makes a document without a key twice.
LEMMA OnceInjective ==
  ASSUME NEW c, Once(c)
  PROVE  IsInjective(Keys(c))
<1> DEFINE S == {n \in Nat : \A u : Once(u) /\ Len(u) = n =>
                                      IsInjective(Keys(u)) /\ ToSet(Keys(u)) \subseteq Names(u)}
<1>1. 0 \in S
  <2>1. \A u : Once(u) /\ Len(u) = 0 => u = <<>>
    BY ListedLen DEF Once
  <2>2. IsInjective(<<>>) /\ ToSet(<<>>) = {}
    BY DEF IsInjective, ToSet
  <2>3. QED
    BY <2>1, <2>2, KeysEmpty
<1>2. ASSUME NEW n \in Nat, n \in S
      PROVE  n + 1 \in S
  <2> SUFFICES ASSUME NEW u, Once(u), Len(u) = n + 1
               PROVE  IsInjective(Keys(u)) /\ ToSet(Keys(u)) \subseteq Names(u)
    OBVIOUS
  <2>1. Listed(u) /\ u # <<>> /\ Len(u) \in Nat /\ DOMAIN u = 1 .. Len(u)
    BY ListedLen DEF Once
  <2>2. PICK v, e : /\ Listed(v) /\ u = Append(v, e) /\ Len(u) = Len(v) + 1
                    /\ \A i \in 1 .. Len(v) : u[i] = v[i]
                    /\ u[Len(u)] = e
    BY <2>1, SplitLast
  <2>3. Len(v) = n /\ DOMAIN v = 1 .. n /\ DOMAIN u = 1 .. n + 1
    <3>1. Len(v) \in Nat /\ DOMAIN v = 1 .. Len(v)
      BY <2>2, ListedLen
    <3>2. Len(v) + 1 = n + 1
      BY <2>2
    <3>3. \A x, y \in Nat : x + 1 = y + 1 => x = y
      OBVIOUS
    <3>4. Len(v) = n
      BY <3>1, <3>2, <3>3
    <3>5. QED
      BY <2>1, <3>1, <3>4
  <2>4. \A i \in DOMAIN v : i \in DOMAIN u /\ u[i] = v[i] /\ i # n + 1
    BY <2>2, <2>3
  <2>5. Once(v) /\ Names(v) \subseteq Names(u)
    BY <2>2, <2>4 DEF Once, Adds, Names
  <2>6. IsInjective(Keys(v)) /\ ToSet(Keys(v)) \subseteq Names(v)
    BY <1>2, <2>3, <2>5
  <2>7. Keys(u) = Keys(v) \o Key(e) /\ Listed(Keys(v))
    BY <2>2, KeysAppend, KeysListed
  <2>8. CASE e.do # "add"
    <3>1. Keys(u) = Keys(v)
      BY <2>7, <2>8, KeyListed, ConcatLaws, FlattenEmpty
    <3>2. QED
      BY <2>5, <2>6, <3>1
  <2>9. CASE e.do = "add"
    <3>1. Keys(u) = Append(Keys(v), e.arg)
      BY <2>7, <2>9, AppendOne DEF Key
    <3>2. n + 1 \in DOMAIN u /\ u[n + 1] = e
      BY <2>2, <2>3
    <3>3. n + 1 \in Adds(u) /\ e.arg \in Names(u)
      BY <2>9, <3>2 DEF Adds, Names
    <3>4. e.arg \notin Names(v)
      BY <2>4, <3>2, <3>3 DEF Once, Adds, Names
    <3>5. e.arg \notin ToSet(Keys(v))
      BY <2>6, <3>4
    <3>6. IsInjective(Keys(u)) /\ ToSet(Keys(u)) = ToSet(Keys(v)) \cup {e.arg}
      BY <2>6, <2>7, <3>1, <3>5, InjectiveAppend
    <3>7. QED
      BY <2>5, <2>6, <3>3, <3>6
  <2>10. QED
    BY <2>8, <2>9
<1>3. Nat \subseteq S
  <2> HIDE DEF S
  <2>1. QED
    BY <1>1, <1>2, Induction
<1>4. Len(c) \in S
  BY <1>3, ListedLen DEF Once
<1>5. QED
  BY <1>4

\* Joined and flattened calls add once what their parts add apart from one another.
LEMMA OnceConcat ==
  ASSUME NEW s, NEW t, Once(s), Once(t), Names(s) \cap Names(t) = {}
  PROVE  Once(s \o t) /\ Names(s \o t) \subseteq Names(s) \cup Names(t)
<1> DEFINE c == s \o t
<1>1. Listed(s) /\ Listed(t) /\ Listed(c)
  BY ListedConcat DEF Once
<1>2. \A i \in DOMAIN c : \/ i \in DOMAIN s /\ c[i] = s[i]
                          \/ \E j \in DOMAIN t : i = Len(s) + j /\ c[i] = t[j]
  BY <1>1, ConcatElement
<1> HIDE DEF c
<1>3. \A i \in Adds(c) : \/ i \in Adds(s) /\ c[i].arg = s[i].arg
                         \/ \E j \in Adds(t) : i = Len(s) + j /\ c[i].arg = t[j].arg
  BY <1>2 DEF Adds
<1>4. Names(c) \subseteq Names(s) \cup Names(t)
  BY <1>3 DEF Names
<1>5. \A i, j \in Adds(c) : c[i].arg = c[j].arg => i = j
  BY <1>3 DEF Once, Names
<1>6. QED
  BY <1>1, <1>4, <1>5 DEF Once, c

LEMMA NoneOnce ==
  ASSUME NEW c, Listed(c), \A i \in DOMAIN c : c[i].do # "add"
  PROVE  Once(c) /\ Names(c) = {}
BY DEF Once, Adds, Names

LEMMA OnceFlatten ==
  ASSUME NEW seqs, Listed(seqs), \A i \in DOMAIN seqs : Once(seqs[i]),
         \A i, j \in DOMAIN seqs : i # j => Names(seqs[i]) \cap Names(seqs[j]) = {}
  PROVE  /\ Once(FlattenSeq(seqs))
         /\ \A a \in Names(FlattenSeq(seqs)) : \E i \in DOMAIN seqs : a \in Names(seqs[i])
<1> DEFINE Apart(u) == /\ Listed(u) /\ \A i \in DOMAIN u : Once(u[i])
                       /\ \A i, j \in DOMAIN u : i # j => Names(u[i]) \cap Names(u[j]) = {}
           Joined(u) == /\ Once(FlattenSeq(u))
                        /\ \A a \in Names(FlattenSeq(u)) :
                             \E i \in DOMAIN u : a \in Names(u[i])
           S == {n \in Nat : \A u : Apart(u) /\ Len(u) = n => Joined(u)}
<1>1. 0 \in S
  <2>1. \A u : Apart(u) /\ Len(u) = 0 => u = <<>>
    BY ListedLen
  <2>2. Once(<<>>) /\ Names(<<>>) = {}
    BY FlattenEmpty, NoneOnce
  <2>3. Joined(<<>>)
    BY <2>2, FlattenEmpty
  <2>4. QED
    BY <2>1, <2>3
<1>2. ASSUME NEW n \in Nat, n \in S
      PROVE  n + 1 \in S
  <2> SUFFICES ASSUME NEW u, Apart(u), Len(u) = n + 1
               PROVE  Joined(u)
    OBVIOUS
  <2>1. Listed(u) /\ u # <<>> /\ Len(u) \in Nat /\ DOMAIN u = 1 .. Len(u)
    BY ListedLen
  <2>2. PICK v, e : /\ Listed(v) /\ u = Append(v, e) /\ Len(u) = Len(v) + 1
                    /\ \A i \in 1 .. Len(v) : u[i] = v[i]
                    /\ u[Len(u)] = e
    BY <2>1, SplitLast
  <2>3. Len(v) = n /\ DOMAIN v = 1 .. n /\ DOMAIN u = 1 .. n + 1
    <3>1. Len(v) \in Nat /\ DOMAIN v = 1 .. Len(v)
      BY <2>2, ListedLen
    <3>2. Len(v) + 1 = n + 1
      BY <2>2
    <3>3. \A x, y \in Nat : x + 1 = y + 1 => x = y
      OBVIOUS
    <3>4. Len(v) = n
      BY <3>1, <3>2, <3>3
    <3>5. QED
      BY <2>1, <3>1, <3>4
  <2>4. /\ \A i \in DOMAIN v : i \in DOMAIN u /\ u[i] = v[i] /\ i # n + 1
        /\ n + 1 \in DOMAIN u /\ u[n + 1] = e
    BY <2>2, <2>3
  <2>5. Apart(v) /\ Once(e) /\ \A i \in DOMAIN v : Names(v[i]) \cap Names(e) = {}
    <3>1. \A i \in DOMAIN v : Once(v[i])
      BY <2>4
    <3>2. \A i, j \in DOMAIN v : i # j => Names(v[i]) \cap Names(v[j]) = {}
      BY <2>4
    <3>3. \A i \in DOMAIN v : Names(v[i]) \cap Names(e) = {}
      <4>1. \A i \in DOMAIN v : Names(u[i]) \cap Names(u[n + 1]) = {}
        BY <2>4
      <4>2. QED
        BY <2>4, <4>1
    <3>4. Once(e)
      BY <2>4
    <3>5. QED
      BY <2>2, <3>1, <3>2, <3>3, <3>4
  <2>6. Joined(v)
    BY <1>2, <2>3, <2>5
  <2>7. AllListed(v) /\ Listed(e)
    BY <2>5 DEF AllListed, Once
  <2>8. FlattenSeq(u) = FlattenSeq(v) \o e
    BY <2>2, <2>7, FlattenAppend
  <2>9. Once(FlattenSeq(v)) /\ \A a \in Names(FlattenSeq(v)) :
                                  \E i \in DOMAIN v : a \in Names(v[i])
    BY <2>6
  <2> HIDE DEF Apart, Joined, S
  <2>10. Names(FlattenSeq(v)) \cap Names(e) = {}
    BY <2>5, <2>9
  <2>11. /\ Once(FlattenSeq(u))
         /\ Names(FlattenSeq(u)) \subseteq Names(FlattenSeq(v)) \cup Names(e)
    BY <2>5, <2>8, <2>9, <2>10, OnceConcat
  <2>12. \A a \in Names(FlattenSeq(u)) : \E i \in DOMAIN u : a \in Names(u[i])
    BY <2>4, <2>9, <2>11
  <2>13. QED
    BY <2>11, <2>12 DEF Joined
<1>3. Nat \subseteq S
  <2> HIDE DEF S
  <2>1. QED
    BY <1>1, <1>2, Induction
<1>4. Len(seqs) \in S /\ Apart(seqs)
  BY <1>3, ListedLen
<1>5. QED
  BY <1>4

(* What is added once, and under keys that start with one of K. *)
Under(c, K) == Once(c) /\ \A a \in Names(c) : a[1] \in K

LEMMA QuietOnce ==
  ASSUME NEW c, Quiet(c)
  PROVE  Once(c) /\ Names(c) = {}
BY NoneOnce DEF Quiet, Plain

\* The formatters, bottom up, as they are found to add only by the lemmas above.
LEMMA OnceFields ==
  ASSUME NEW prefix, NEW names, Listed(prefix), Listed(names), IsInjective(names)
  PROVE  /\ Once(Fields(prefix, names))
         /\ Names(Fields(prefix, names)) = {prefix \o <<names[i]>> : i \in DOMAIN names}
<1> DEFINE f == Fields(prefix, names)
<1>1. /\ Listed(f) /\ DOMAIN f = DOMAIN names
      /\ \A i \in DOMAIN names : f[i] = Add(prefix \o <<names[i]>>)
  BY CalmFields DEF Fields, Calm
<1>2. \A i \in DOMAIN names : f[i].do = "add" /\ f[i].arg = prefix \o <<names[i]>>
  BY <1>1 DEF Add, Call
<1>3. \A x : (prefix \o <<x>>)[Len(prefix) + 1] = x
  <2>1. \A x : Listed(<<x>>) /\ Len(<<x>>) = 1 /\ <<x>>[1] = x
    BY KeysOne
  <2>2. QED
    BY <2>1, ListedConcat
<1> HIDE DEF f
<1>4. Adds(f) = DOMAIN names
  BY <1>1, <1>2 DEF Adds
<1>5. \A i, j \in DOMAIN names : f[i].arg = f[j].arg => i = j
  <2>1. ASSUME NEW i \in DOMAIN names, NEW j \in DOMAIN names, f[i].arg = f[j].arg
        PROVE  names[i] = names[j]
    <3>1. prefix \o <<names[i]>> = prefix \o <<names[j]>>
      BY <1>2, <2>1
    <3>2. QED
      BY <1>3, <3>1
  <2>2. QED
    BY <2>1 DEF IsInjective
<1>6. Once(f)
  BY <1>1, <1>4, <1>5 DEF Once
<1>7. Names(f) = {prefix \o <<names[i]>> : i \in DOMAIN names}
  BY <1>2, <1>4 DEF Names
<1>8. QED
  BY <1>6, <1>7 DEF f

LEMMA FieldsUnder ==
  ASSUME NEW names, Listed(names), IsInjective(names)
  PROVE  /\ Under(Fields(<<>>, names), ToSet(names))
         /\ \A p : Under(Fields(<<p>>, names), {p})
<1>1. Listed(<<>>) /\ \A p : Listed(<<p>>)
  BY FlattenEmpty, KeysOne
<1>2. Under(Fields(<<>>, names), ToSet(names))
  <2>1. \A x : <<>> \o <<x>> = <<x>> /\ <<x>>[1] = x
    BY <1>1, ConcatLaws
  <2>2. ASSUME NEW a \in Names(Fields(<<>>, names))
        PROVE  a[1] \in ToSet(names)
    <3>0. Names(Fields(<<>>, names)) = {<<>> \o <<names[i]>> : i \in DOMAIN names}
      BY <1>1, OnceFields
    <3>1. PICK i \in DOMAIN names : a = <<>> \o <<names[i]>>
      BY <3>0
    <3>2. a[1] = names[i]
      BY <2>1, <3>1
    <3>3. QED
      BY <3>2 DEF ToSet
  <2>3. QED
    BY <1>1, <2>2, OnceFields DEF Under
<1>3. ASSUME NEW p
      PROVE  Under(Fields(<<p>>, names), {p})
  <2>1. \A x : (<<p>> \o <<x>>)[1] = p
    <3>1. Len(<<p>>) = 1 /\ <<p>>[1] = p
      OBVIOUS
    <3>2. QED
      BY <1>1, <3>1, ListedConcat
  <2>2. ASSUME NEW a \in Names(Fields(<<p>>, names))
        PROVE  a[1] = p
    <3>0. Names(Fields(<<p>>, names)) = {<<p>> \o <<names[i]>> : i \in DOMAIN names}
      BY <1>1, OnceFields
    <3>1. PICK i \in DOMAIN names : a = <<p>> \o <<names[i]>>
      BY <3>0
    <3>2. QED
      BY <2>1, <3>1
  <2>3. QED
    BY <1>1, <2>2, OnceFields DEF Under
<1>4. QED
  BY <1>2, <1>3

LEMMA FieldFormatterUnder ==
  ASSUME NEW key, NEW names, Listed(names), IsInjective(names)
  PROVE  Under(FieldFormatter(key, Fields(<<>>, names)), {key})
<1> DEFINE c == Fields(<<>>, names)
           f == [i \in DOMAIN c |-> [c[i] EXCEPT !.arg = <<key>> \o c[i].arg]]
           first == <<Try("make_field", {"NoMem"})>>
           last == <<Add(<<key>>)>>
<1>1. /\ Listed(c) /\ DOMAIN c = DOMAIN names
      /\ \A i \in DOMAIN names : c[i] = Add(<<names[i]>>)
  <2>1. Calm(c)
    BY CalmFields
  <2>2. \A x : <<>> \o <<x>> = <<x>>
    BY KeysOne, FlattenEmpty, ConcatLaws
  <2>3. QED
    BY <2>1, <2>2 DEF Fields, Calm
<1>2. ASSUME NEW x
      PROVE  <<key>> \o <<x>> = <<key, x>>
  <2>1. <<key, x>> = Append(<<key>>, x)
    OBVIOUS
  <2>2. QED
    BY <2>1, KeysOne, AppendOne
<1> HIDE DEF c
<1>3. /\ DOMAIN f = DOMAIN names
      /\ \A i \in DOMAIN names : f[i].do = "add" /\ f[i].arg = <<key, names[i]>>
  <2>1. DOMAIN f = DOMAIN names
    BY <1>1
  <2>2. ASSUME NEW i \in DOMAIN names
        PROVE  f[i].do = "add" /\ f[i].arg = <<key, names[i]>>
    <3>1. /\ c[i].do = "add" /\ c[i].arg = <<names[i]>>
          /\ c[i] = [do |-> c[i].do, arg |-> c[i].arg, errors |-> c[i].errors]
      BY <1>1 DEF Add, Call
    <3>2. f[i] = [c[i] EXCEPT !.arg = <<key>> \o c[i].arg]
      BY <1>1
    <3>3. f[i].do = c[i].do /\ f[i].arg = <<key>> \o c[i].arg
      BY <3>1, <3>2
    <3>4. QED
      BY <1>2, <3>1, <3>3
  <2>3. QED
    BY <2>1, <2>2
<1>4. f = [i \in DOMAIN c |-> f[i]]
  OBVIOUS
<1> HIDE DEF f
<1>5. Listed(f)
  BY <1>1, <1>4, ListedMap
<1>6. Adds(f) = DOMAIN names
  BY <1>3 DEF Adds
<1>7. \A x, y : <<key, x>> = <<key, y>> => x = y
  OBVIOUS
<1>8. Once(f) /\ Names(f) = {<<key, names[i]>> : i \in DOMAIN names}
  <2>1. \A i, j \in DOMAIN names : f[i].arg = f[j].arg => names[i] = names[j]
    BY <1>3, <1>7
  <2>2. QED
    BY <1>3, <1>5, <1>6, <2>1 DEF Once, Names, IsInjective
<1>9. Once(first) /\ Names(first) = {}
  <2>1. Try("make_field", {"NoMem"}).do = "try"
    BY DEF Try, Call
  <2>2. QED
    BY <2>1, PlainOne, QuietOnce
<1>10. Once(last) /\ Names(last) = {<<key>>}
  <2>1. /\ Listed(last) /\ DOMAIN last = {1} /\ last[1].do = "add"
        /\ last[1].arg = <<key>>
    BY KeysOne DEF Add, Call
  <2> HIDE DEF last
  <2>2. Adds(last) = {1}
    BY <2>1 DEF Adds
  <2>3. QED
    BY <2>1, <2>2 DEF Once, Names
<1>11. \A x : <<key>> # <<key, x>>
  <2>1. \A x : Len(<<key>>) = 1 /\ Len(<<key, x>>) = 2
    OBVIOUS
  <2>2. QED
    BY <2>1
<1> HIDE DEF first, last
<1>12. Once(first \o f) /\ Names(first \o f) \subseteq Names(f)
  BY <1>8, <1>9, OnceConcat
<1>13. /\ Once((first \o f) \o last)
       /\ Names((first \o f) \o last) \subseteq Names(f) \cup {<<key>>}
  <2>1. Names(first \o f) \cap Names(last) = {}
    BY <1>8, <1>10, <1>11, <1>12
  <2>2. QED
    BY <1>10, <1>12, <2>1, OnceConcat
<1>14. \A x : <<key>>[1] = key /\ <<key, x>>[1] = key
  OBVIOUS
<1>15. \A a \in Names((first \o f) \o last) : a[1] = key
  BY <1>8, <1>13, <1>14
<1>16. QED
  BY <1>13, <1>15 DEF Under, FieldFormatter, first, last, f, c

LEMMA SensorUnder ==
  ASSUME NEW key, NEW sensor, NEW names, Listed(names), IsInjective(names)
  PROVE  Under(Sensor(key, Fields(Prefix(sensor), names)), {key, sensor})
<1>1. CASE Flat
  <2>1. Sensor(key, Fields(Prefix(sensor), names)) = Fields(<<sensor>>, names)
    BY <1>1 DEF Sensor, Prefix
  <2>2. QED
    BY <2>1, FieldsUnder DEF Under
<1>2. CASE ~Flat
  <2>1. Sensor(key, Fields(Prefix(sensor), names)) =
          FieldFormatter(key, Fields(<<>>, names))
    BY <1>2 DEF Sensor, Prefix
  <2>2. QED
    BY <2>1, FieldFormatterUnder DEF Under
<1>3. QED
  BY <1>1, <1>2

\* The names of the formatters' fields.
LEMMA InjectiveNames ==
  /\ IsInjective(<<"system_memory_heap", "system_memory_heap_min",
                   "system_memory_heap_internal", "system_reset_reason">>)
  /\ IsInjective(<<"network_ap_channel", "network_ap_cur_conn", "network_ap_max_conn">>)
  /\ IsInjective(<<"network_sta_ssid", "network_sta_rssi",
                   "network_sta_signal_strength", "network_sta_ip">>)
  /\ IsInjective(<<"humidity", "temperature", "heating_count">>)
  /\ IsInjective(<<"pressure", "temperature", "humidity">>)
  /\ IsInjective(<<"raw", "voltage", "lightness">>)
  /\ IsInjective(<<"raw", "voltage", "moisture", "prev_status", "prev_status_dur",
                   "curr_status", "curr_status_dur", "write_count", "status_len",
                   "status_pos">>)
  /\ IsInjective(<<"name", "state", "number", "priority", "stack_free",
                   "core_id", "runtime_abs", "runtime_rel">>)
  /\ IsInjective(<<"resolution", "serial_number">>)
BY DEF IsInjective

LEMMA OnceOne ==
  ASSUME NEW a, NEW x, x.do = "add", x.arg = a
  PROVE  Once(<<x>>) /\ Names(<<x>>) = {a}
<1>1. /\ Listed(<<x>>) /\ DOMAIN <<x>> = {1} /\ <<x>>[1] = x
  BY KeysOne
<1>2. Adds(<<x>>) = {1}
  BY <1>1 DEF Adds
<1>3. QED
  BY <1>1, <1>2 DEF Once, Names

LEMMA TimeUnder == Under(TimeFormatter, {"timestamp"})
<1>1. Once(<<Try("get_time", {"Error"})>>) /\ Names(<<Try("get_time", {"Error"})>>) = {}
  BY QuietParts, QuietOnce
<1>2. Once(<<Add(<<"timestamp">>)>>)
      /\ Names(<<Add(<<"timestamp">>)>>) = {<<"timestamp">>}
  BY OnceOne DEF Add, Call
<1>3. TimeFormatter = <<Try("get_time", {"Error"})>> \o <<Add(<<"timestamp">>)>>
  <2>1. \A x, y : <<x, y>> = Append(<<x>>, y)
    OBVIOUS
  <2>2. QED
    BY <2>1, KeysOne, AppendOne DEF TimeFormatter
<1>4. Once(TimeFormatter) /\ Names(TimeFormatter) \subseteq {<<"timestamp">>}
  BY <1>1, <1>2, <1>3, OnceConcat
<1>5. QED
  BY <1>4 DEF Under

SystemKeys == {"system_memory_heap", "system_memory_heap_min",
               "system_memory_heap_internal", "system_reset_reason"}

\* Every part of the telemetry has keys of its own.
LEMMA TelemetryParts ==
  /\ Under(SystemFormatter, SystemKeys) /\ Under(CounterFormatter, ToSet(Counters))
  /\ Under(Sensor("sht41", Sht41SensorFormatter), {"sht41", "sensor_sht41"})
  /\ Under(Sensor("bme280", Bme280SensorFormatter), {"bme280", "sensor_bme280"})
  /\ Under(Sensor("ldr", LdrSensorFormatter), {"ldr", "sensor_ldr"})
  /\ Under(Sensor("soil", SoilAnalogSensorFormatter), {"soil", "sensor_soil"})
  /\ \A id : Under(Ds18b20SensorFormatter(id), {id})
<1>1. Under(SystemFormatter, SystemKeys)
  <2>1. ToSet(<<"system_memory_heap", "system_memory_heap_min",
                "system_memory_heap_internal", "system_reset_reason">>) = SystemKeys
    BY DEF ToSet, SystemKeys
  <2>2. QED
    BY <2>1, ListedTuple, InjectiveNames, FieldsUnder DEF SystemFormatter
<1>2. Under(CounterFormatter, ToSet(Counters))
  <2>1. Listed(Counters) /\ IsInjective(Counters)
    BY IdsAssumption, DistinctIdsAssumption, ListedNames
  <2>2. QED
    BY <2>1, FieldsUnder DEF CounterFormatter
<1>3. Under(Sensor("sht41", Sht41SensorFormatter), {"sht41", "sensor_sht41"})
  BY ListedTuple, InjectiveNames, SensorUnder DEF Sht41SensorFormatter
<1>4. Under(Sensor("bme280", Bme280SensorFormatter), {"bme280", "sensor_bme280"})
  BY ListedTuple, InjectiveNames, SensorUnder DEF Bme280SensorFormatter
<1>5. Under(Sensor("ldr", LdrSensorFormatter), {"ldr", "sensor_ldr"})
  BY ListedTuple, InjectiveNames, SensorUnder DEF LdrSensorFormatter
<1>6. Under(Sensor("soil", SoilAnalogSensorFormatter), {"soil", "sensor_soil"})
  BY ListedTuple, InjectiveNames, SensorUnder DEF SoilAnalogSensorFormatter
<1>7. ASSUME NEW id
      PROVE  Under(Ds18b20SensorFormatter(id), {id})
  <2>1. Listed(<<id>>) /\ IsInjective(<<id>>) /\ ToSet(<<id>>) = {id}
    BY KeysOne DEF IsInjective, ToSet
  <2>2. QED
    BY <2>1, FieldsUnder DEF Ds18b20SensorFormatter
<1>8. QED
  BY <1>1, <1>2, <1>3, <1>4, <1>5, <1>6, <1>7

LEMMA TelemetryOnce == Once(TelemetryFormatter)
<1> DEFINE first == <<SystemFormatter, CounterFormatter, TimeFormatter,
                      Sensor("sht41", Sht41SensorFormatter),
                      Sensor("bme280", Bme280SensorFormatter),
                      Sensor("ldr", LdrSensorFormatter),
                      Sensor("soil", SoilAnalogSensorFormatter)>>
           rest == [i \in DOMAIN Ds18b20Ids |-> Ds18b20SensorFormatter(Ds18b20Ids[i])]
           all == first \o rest
           Rank(x) == CASE x \in SystemKeys -> 1
                        [] x = "timestamp" -> 3
                        [] x \in {"sht41", "sensor_sht41"} -> 4
                        [] x \in {"bme280", "sensor_bme280"} -> 5
                        [] x \in {"ldr", "sensor_ldr"} -> 6
                        [] x \in {"soil", "sensor_soil"} -> 7
                        [] OTHER -> 0
           Owner(x) == IF x \in ToSet(Counters) THEN 2
                       ELSE IF x \in ToSet(Ds18b20Ids)
                       THEN 7 + CHOOSE i \in DOMAIN Ds18b20Ids : Ds18b20Ids[i] = x
                       ELSE Rank(x)
<1>1. /\ Listed(Ds18b20Ids) /\ IsInjective(Ds18b20Ids)
      /\ ToSet(Counters) \cap ToSet(Ds18b20Ids) = {}
  BY IdsAssumption, DistinctIdsAssumption, ListedNames
<1>2. Listed(first) /\ Len(first) = 7
  <2>1. \A a, b, c, d, e, f, g :
          <<a, b, c, d, e, f, g>> \in Seq({a, b, c, d, e, f, g})
    OBVIOUS
  <2>2. Listed(first)
    BY <2>1, ListedSeq
  <2>3. QED
    BY <2>2
<1>3. Listed(rest) /\ DOMAIN rest = DOMAIN Ds18b20Ids
  <2>1. rest = [i \in DOMAIN Ds18b20Ids |-> rest[i]]
    OBVIOUS
  <2>2. QED
    BY <1>1, <2>1, ListedMap
<1>4. \A x \in TelemetryKeys : Owner(x) = Rank(x)
  <2>1. \A x \in TelemetryKeys : x \notin ToSet(Counters) /\ x \notin ToSet(Ds18b20Ids)
    BY DistinctIdsAssumption
  <2> HIDE DEF Rank
  <2>2. QED
    BY <2>1
<1>5. /\ \A x \in SystemKeys : Owner(x) = 1
      /\ Owner("timestamp") = 3
      /\ \A x \in {"sht41", "sensor_sht41"} : Owner(x) = 4
      /\ \A x \in {"bme280", "sensor_bme280"} : Owner(x) = 5
      /\ \A x \in {"ldr", "sensor_ldr"} : Owner(x) = 6
      /\ \A x \in {"soil", "sensor_soil"} : Owner(x) = 7
  <2>1. /\ SystemKeys \subseteq TelemetryKeys
        /\ {"timestamp", "sht41", "sensor_sht41", "bme280", "sensor_bme280",
            "ldr", "sensor_ldr", "soil", "sensor_soil"} \subseteq TelemetryKeys
    BY DEF SystemKeys, TelemetryKeys
  <2>2. \A x \in SystemKeys : Rank(x) = 1
    BY DEF SystemKeys
  <2>3. Rank("timestamp") = 3
    BY DEF SystemKeys
  <2>4. Rank("sht41") = 4 /\ Rank("sensor_sht41") = 4
    BY DEF SystemKeys
  <2>5. Rank("bme280") = 5 /\ Rank("sensor_bme280") = 5
    BY DEF SystemKeys
  <2>6. Rank("ldr") = 6 /\ Rank("sensor_ldr") = 6
    BY DEF SystemKeys
  <2>7. Rank("soil") = 7 /\ Rank("sensor_soil") = 7
    BY DEF SystemKeys
  <2> HIDE DEF Rank, Owner
  <2>8. QED
    BY <1>4, <2>1, <2>2, <2>3, <2>4, <2>5, <2>6, <2>7
<1>6. \A x \in ToSet(Counters) : Owner(x) = 2
  OBVIOUS
<1>7. \A i \in DOMAIN Ds18b20Ids : Owner(Ds18b20Ids[i]) = 7 + i
  <2> TAKE i \in DOMAIN Ds18b20Ids
  <2>1. Ds18b20Ids[i] \in ToSet(Ds18b20Ids)
    BY DEF ToSet
  <2>2. \A j \in DOMAIN Ds18b20Ids : Ds18b20Ids[j] = Ds18b20Ids[i] => j = i
    BY <1>1 DEF IsInjective
  <2>3. (CHOOSE j \in DOMAIN Ds18b20Ids : Ds18b20Ids[j] = Ds18b20Ids[i]) = i
    BY <2>2
  <2> HIDE DEF Rank
  <2>4. QED
    BY <1>1, <2>1, <2>3
<1>8. \A i \in DOMAIN first : Once(first[i]) /\ \A a \in Names(first[i]) : Owner(a[1]) = i
  <2> HIDE DEF Owner
  <2>1. Once(SystemFormatter) /\ \A a \in Names(SystemFormatter) : Owner(a[1]) = 1
    BY <1>5, TelemetryParts DEF Under
  <2>2. Once(CounterFormatter) /\ \A a \in Names(CounterFormatter) : Owner(a[1]) = 2
    BY <1>6, TelemetryParts DEF Under
  <2>3. Once(TimeFormatter) /\ \A a \in Names(TimeFormatter) : Owner(a[1]) = 3
    BY <1>5, TimeUnder DEF Under
  <2>4. /\ Once(Sensor("sht41", Sht41SensorFormatter))
        /\ \A a \in Names(Sensor("sht41", Sht41SensorFormatter)) : Owner(a[1]) = 4
    BY <1>5, TelemetryParts DEF Under
  <2>5. /\ Once(Sensor("bme280", Bme280SensorFormatter))
        /\ \A a \in Names(Sensor("bme280", Bme280SensorFormatter)) : Owner(a[1]) = 5
    BY <1>5, TelemetryParts DEF Under
  <2>6. /\ Once(Sensor("ldr", LdrSensorFormatter))
        /\ \A a \in Names(Sensor("ldr", LdrSensorFormatter)) : Owner(a[1]) = 6
    BY <1>5, TelemetryParts DEF Under
  <2>7. /\ Once(Sensor("soil", SoilAnalogSensorFormatter))
        /\ \A a \in Names(Sensor("soil", SoilAnalogSensorFormatter)) : Owner(a[1]) = 7
    BY <1>5, TelemetryParts DEF Under
  <2>8. /\ DOMAIN first = 1 .. 7
        /\ first[1] = SystemFormatter /\ first[2] = CounterFormatter
        /\ first[3] = TimeFormatter
        /\ first[4] = Sensor("sht41", Sht41SensorFormatter)
        /\ first[5] = Sensor("bme280", Bme280SensorFormatter)
        /\ first[6] = Sensor("ldr", LdrSensorFormatter)
        /\ first[7] = Sensor("soil", SoilAnalogSensorFormatter)
    OBVIOUS
  <2> HIDE DEF first
  <2>9. \A i \in 1 .. 7 : i = 1 \/ i = 2 \/ i = 3 \/ i = 4 \/ i = 5 \/ i = 6 \/ i = 7
    OBVIOUS
  <2>10. QED
    BY <2>1, <2>2, <2>3, <2>4, <2>5, <2>6, <2>7, <2>8, <2>9
<1>9. \A j \in DOMAIN rest : Once(rest[j]) /\ \A a \in Names(rest[j]) : Owner(a[1]) = 7 + j
  <2> TAKE j \in DOMAIN rest
  <2>1. rest[j] = Ds18b20SensorFormatter(Ds18b20Ids[j]) /\ j \in DOMAIN Ds18b20Ids
    BY <1>3
  <2> HIDE DEF Owner, rest
  <2>2. Under(rest[j], {Ds18b20Ids[j]})
    BY <2>1, TelemetryParts
  <2>3. QED
    BY <1>7, <2>1, <2>2 DEF Under
<1> HIDE DEF first, rest, Owner, Rank
<1>10. Listed(all)
  BY <1>2, <1>3, ListedConcat
<1>11. \A i \in DOMAIN all : \/ i \in DOMAIN first /\ all[i] = first[i]
                            \/ \E j \in DOMAIN rest : i = Len(first) + j /\ all[i] = rest[j]
  <2>1. Listed(first) /\ Listed(rest)
    BY <1>2, <1>3
  <2>2. QED
    BY <2>1, ConcatElement
<1> HIDE DEF all
<1>12. \A i \in DOMAIN all : Once(all[i]) /\ \A a \in Names(all[i]) : Owner(a[1]) = i
  BY <1>2, <1>8, <1>9, <1>11
<1>13. \A i, j \in DOMAIN all : i # j => Names(all[i]) \cap Names(all[j]) = {}
  BY <1>12
<1>14. Once(FlattenSeq(all))
  BY <1>10, <1>12, <1>13, OnceFlatten
<1>15. QED
  BY <1>14 DEF TelemetryFormatter, FanoutFormatter, all, first, rest

LEMMA StringsUnder ==
  ASSUME NEW names, Listed(names)
  PROVE  Under(StringFormatter(names), ToSet(names))
<1> DEFINE S == {names[i] : i \in DOMAIN names}
           n == Cardinality(S)
           q == SetToSeq(S)
<1>1. Len(names) \in Nat /\ DOMAIN names = 1 .. Len(names)
  BY ListedLen
<1>2. IsFiniteSet(S)
  <2>1. names \in Surjection(1 .. Len(names), S)
    BY <1>1 DEF Listed, ToSet, Surjection
  <2>2. QED
    BY <1>1, <2>1, FS_NatSurjection DEF ExistsSurjection
<1>3. n \in Nat /\ ExistsBijection(1 .. n, S)
  BY <1>2, FS_CardinalityType
<1>4. S = ToSet(names)
  BY DEF ToSet
<1> HIDE DEF S, n
<1>5. \E f \in [1 .. n -> S] : IsInjective(f)
  BY <1>3 DEF ExistsBijection, Bijection, Injection, IsInjective
<1>6. q \in [1 .. n -> S] /\ IsInjective(q)
  BY <1>5 DEF SetToSeq, n
<1> HIDE DEF q
<1>7. q \in Seq(S)
  BY <1>3, <1>6
<1>8. Listed(q) /\ ToSet(q) \subseteq S
  BY <1>6, <1>7, ListedSeq DEF ToSet
<1>9. Under(Fields(<<>>, q), ToSet(q))
  BY <1>6, <1>8, FieldsUnder
<1>10. QED
  BY <1>4, <1>8, <1>9 DEF Under, StringFormatter, S, q

RegistrationKeys ==
  {"version_esp_idf", "fw_version", "fw_name", "fw_description", "device_id"}
ApKeys == {"network_ap_channel", "network_ap_cur_conn", "network_ap_max_conn"}
StaKeys == {"network_sta_ssid", "network_sta_rssi", "network_sta_signal_strength",
            "network_sta_ip"}

LEMMA RegistrationOnce == Once(RegistrationDocument)
<1> DEFINE parts == <<RegistrationFormatter, TimeFormatter, ApNetworkFormatter,
                      StaNetworkFormatter>>
           keys == <<RegistrationKeys, {"timestamp"}, ApKeys, StaKeys>>
<1>1. Under(RegistrationFormatter, RegistrationKeys)
  <2> DEFINE version == <<"version_esp_idf">>
             other == <<"fw_version", "fw_name", "fw_description", "device_id">>
  <2>1. Listed(version) /\ Listed(other)
    BY ListedTuple, KeysOne
  <2>2. ToSet(version) = {"version_esp_idf"}
    BY DEF ToSet
  <2>3. ToSet(other) = {"fw_version", "fw_name", "fw_description", "device_id"}
    BY DEF ToSet
  <2> HIDE DEF version, other
  <2>4. Listed(version \o other) /\ ToSet(version \o other) = ToSet(version) \cup ToSet(other)
    BY <2>1, ListedConcat, ConcatLaws
  <2>5. Under(StringFormatter(version \o other), ToSet(version \o other))
    BY <2>4, StringsUnder
  <2>6. ToSet(version \o other) = RegistrationKeys
    BY <2>2, <2>3, <2>4 DEF RegistrationKeys
  <2>7. QED
    BY <2>5, <2>6 DEF RegistrationFormatter, VersionFormatter, version, other
<1>2. Under(ApNetworkFormatter, ApKeys)
  <2>1. ToSet(<<"network_ap_channel", "network_ap_cur_conn", "network_ap_max_conn">>)
          = ApKeys
    BY DEF ToSet, ApKeys
  <2>2. QED
    BY <2>1, ListedTuple, InjectiveNames, FieldsUnder DEF ApNetworkFormatter
<1>3. Under(StaNetworkFormatter, StaKeys)
  <2>1. ToSet(<<"network_sta_ssid", "network_sta_rssi", "network_sta_signal_strength",
                "network_sta_ip">>) = StaKeys
    BY DEF ToSet, StaKeys
  <2>2. QED
    BY <2>1, ListedTuple, InjectiveNames, FieldsUnder DEF StaNetworkFormatter
<1>4. Listed(parts) /\ DOMAIN parts = {1, 2, 3, 4}
  <2>1. Listed(parts)
    BY ListedTuple
  <2>2. QED
    BY <2>1
<1>5. \A i \in {1, 2, 3, 4} : Under(parts[i], keys[i])
  BY <1>1, <1>2, <1>3, TimeUnder
<1>6. \A i, j \in {1, 2, 3, 4} : i # j => keys[i] \cap keys[j] = {}
  BY DEF RegistrationKeys, ApKeys, StaKeys
<1> HIDE DEF parts, keys
<1>7. \A i \in DOMAIN parts : Once(parts[i]) /\ \A a \in Names(parts[i]) : a[1] \in keys[i]
  BY <1>4, <1>5 DEF Under
<1>8. \A i, j \in DOMAIN parts : i # j => Names(parts[i]) \cap Names(parts[j]) = {}
  BY <1>4, <1>6, <1>7
<1>9. Once(FlattenSeq(parts))
  BY <1>4, <1>7, <1>8, OnceFlatten
<1>10. QED
  BY <1>9 DEF RegistrationDocument, FanoutFormatter, parts

\* An entry of an array: calls whose keys start with the array and the entry.
Entry(c, x, y) == Once(c) /\ \A a \in Names(c) : a[1] = x /\ a[2] = y /\ a # <<x>>

LEMMA EntriesOnce ==
  ASSUME NEW x, NEW ids, Listed(ids), IsInjective(ids),
         NEW parts, Listed(parts), DOMAIN parts = DOMAIN ids,
         \A i \in DOMAIN ids : Entry(parts[i], x, ids[i])
  PROVE  Under(<<Add(<<x>>)>> \o FlattenSeq(parts), {x})
<1>1. \A i \in DOMAIN parts : Once(parts[i]) /\ \A a \in Names(parts[i]) :
                                 a[1] = x /\ a[2] = ids[i] /\ a # <<x>>
  BY DEF Entry
<1>2. \A i, j \in DOMAIN parts : i # j => ids[i] # ids[j]
  BY DEF IsInjective
<1>3. \A i, j \in DOMAIN parts : i # j => Names(parts[i]) \cap Names(parts[j]) = {}
  BY <1>1, <1>2
<1>4. /\ Once(FlattenSeq(parts))
      /\ \A a \in Names(FlattenSeq(parts)) : a[1] = x /\ a # <<x>>
  BY <1>1, <1>3, OnceFlatten
<1>5. Once(<<Add(<<x>>)>>) /\ Names(<<Add(<<x>>)>>) = {<<x>>}
  BY OnceOne DEF Add, Call
<1>6. /\ Once(<<Add(<<x>>)>> \o FlattenSeq(parts))
      /\ Names(<<Add(<<x>>)>> \o FlattenSeq(parts)) \subseteq
           {<<x>>} \cup Names(FlattenSeq(parts))
  <2>1. Names(<<Add(<<x>>)>>) \cap Names(FlattenSeq(parts)) = {}
    BY <1>4, <1>5
  <2>2. QED
    BY <1>4, <1>5, <2>1, OnceConcat
<1>7. <<x>>[1] = x
  OBVIOUS
<1>8. QED
  BY <1>4, <1>6, <1>7 DEF Under

LEMMA SystemStateOnce == Once(SystemStateFormatter)
<1> DEFINE parts == [i \in DOMAIN Tasks |-> TaskState(Tasks[i])]
<1>1. Listed(Tasks) /\ IsInjective(Tasks)
  BY IdsAssumption, DistinctIdsAssumption, ListedNames
<1>2. ASSUME NEW t
      PROVE  Entry(TaskState(t), "tasks", t)
  <2> DEFINE names == <<"name", "state", "number", "priority", "stack_free",
                        "core_id", "runtime_abs", "runtime_rel">>
             make == <<Try("make_object", {"NoMem"})>>
             f == Fields(<<"tasks", t>>, names)
             item == <<AppendItem(<<"tasks", t>>)>>
  <2>1. Once(make) /\ Names(make) = {}
    BY QuietParts, QuietOnce DEF MakeObject
  <2>2. Once(item) /\ Names(item) = {<<"tasks", t>>}
    BY OnceOne DEF AppendItem, Call
  <2>3. Listed(names) /\ IsInjective(names) /\ Listed(<<"tasks", t>>)
    <3>1. <<"tasks", t>> \in Seq({"tasks", t})
      OBVIOUS
    <3>2. QED
      BY <3>1, ListedSeq, ListedTuple, InjectiveNames
  <2> HIDE DEF names
  <2>4. /\ Once(f)
        /\ Names(f) = {<<"tasks", t>> \o <<names[i]>> : i \in DOMAIN names}
    BY <2>3, OnceFields
  <2>5. ASSUME NEW y
        PROVE  /\ (<<"tasks", t>> \o <<y>>)[1] = "tasks"
               /\ (<<"tasks", t>> \o <<y>>)[2] = t
               /\ Len(<<"tasks", t>> \o <<y>>) = 3
    OBVIOUS
  <2>6. /\ <<"tasks", t>>[1] = "tasks" /\ <<"tasks", t>>[2] = t /\ Len(<<"tasks", t>>) = 2
        /\ Len(<<"tasks">>) = 1
    OBVIOUS
  <2>7. ASSUME NEW a \in Names(f)
        PROVE  a[1] = "tasks" /\ a[2] = t /\ Len(a) = 3
    <3>1. PICK i \in DOMAIN names : a = <<"tasks", t>> \o <<names[i]>>
      BY <2>4
    <3>2. QED
      BY <2>5, <3>1
  <2> HIDE DEF make, f, item
  <2>8. Once(make \o f) /\ Names(make \o f) \subseteq Names(f)
    BY <2>1, <2>4, OnceConcat
  <2>9. /\ Once((make \o f) \o item)
        /\ Names((make \o f) \o item) \subseteq Names(f) \cup {<<"tasks", t>>}
    <3>1. <<"tasks", t>> \notin Names(f)
      BY <2>6, <2>7
    <3>2. Names(make \o f) \cap Names(item) = {}
      BY <2>2, <2>8, <3>1
    <3>3. QED
      BY <2>2, <2>8, <3>2, OnceConcat
  <2>10. \A a \in Names((make \o f) \o item) :
           a[1] = "tasks" /\ a[2] = t /\ Len(a) \in {2, 3}
    BY <2>6, <2>7, <2>9
  <2>11. \A a \in Names((make \o f) \o item) : a # <<"tasks">>
    BY <2>6, <2>10
  <2>12. QED
    BY <2>9, <2>10, <2>11 DEF Entry, TaskState, make, f, item, names
<1>3. Listed(parts) /\ DOMAIN parts = DOMAIN Tasks
  <2>1. parts = [i \in DOMAIN Tasks |-> parts[i]]
    OBVIOUS
  <2>2. QED
    BY <1>1, <2>1, ListedMap
<1>4. \A i \in DOMAIN Tasks : Entry(parts[i], "tasks", Tasks[i])
  BY <1>2
<1> HIDE DEF parts
<1>5. Under(<<Add(<<"tasks">>)>> \o FlattenSeq(parts), {"tasks"})
  BY <1>1, <1>3, <1>4, EntriesOnce
<1>6. QED
  BY <1>5 DEF Under, SystemStateFormatter, parts

LEMMA ScanOnce ==
  ASSUME NEW n \in Nat
  PROVE  Once(Scan(n))
<1>1. ASSUME NEW i
      PROVE  Entry(Round(i), "rom_codes", i)
  <2> DEFINE try == <<Try("scan", {"Error"})>>
             item == <<AppendItem(<<"rom_codes", i>>)>>
  <2>1. Once(try) /\ Names(try) = {}
    <3>1. Try("scan", {"Error"}).do = "try"
      BY DEF Try, Call
    <3>2. QED
      BY <3>1, PlainOne, QuietOnce
  <2>2. Once(item) /\ Names(item) = {<<"rom_codes", i>>}
    BY OnceOne DEF AppendItem, Call
  <2>3. Round(i) = try \o item
    <3>1. \A x, y : <<x, y>> = Append(<<x>>, y)
      OBVIOUS
    <3>2. QED
      BY <3>1, KeysOne, AppendOne DEF Round
  <2> HIDE DEF try, item
  <2>4. Once(Round(i)) /\ Names(Round(i)) \subseteq {<<"rom_codes", i>>}
    BY <2>1, <2>2, <2>3, OnceConcat
  <2>5. <<"rom_codes", i>>[1] = "rom_codes" /\ <<"rom_codes", i>>[2] = i
    OBVIOUS
  <2>6. <<"rom_codes", i>> # <<"rom_codes">>
    <3>1. Len(<<"rom_codes", i>>) = 2 /\ Len(<<"rom_codes">>) = 1
      OBVIOUS
    <3>2. QED
      BY <3>1
  <2>7. QED
    BY <2>4, <2>5, <2>6 DEF Entry
<1>2. Under(ScanRomCodes(n), {"rom_codes"})
  <2> DEFINE ids == [i \in 1 .. n |-> i]
             parts == [i \in 1 .. n |-> Round(i)]
             all == <<Add(<<"rom_codes">>)>> \o FlattenSeq(parts)
             last == <<Try("scan", {"Error"})>>
  <2>1. Listed(ids) /\ IsInjective(ids) /\ DOMAIN ids = 1 .. n
    <3>1. ids \in Seq(1 .. n)
      OBVIOUS
    <3>2. QED
      BY <3>1, ListedSeq DEF IsInjective
  <2>2. Listed(parts) /\ DOMAIN parts = DOMAIN ids
    <3>1. parts \in Seq({Round(i) : i \in 1 .. n})
      OBVIOUS
    <3>2. QED
      BY <3>1, ListedSeq
  <2>3. \A i \in DOMAIN ids : Entry(parts[i], "rom_codes", ids[i])
    BY <1>1
  <2> HIDE DEF ids, parts
  <2>4. Under(all, {"rom_codes"})
    BY <2>1, <2>2, <2>3, EntriesOnce
  <2>5. Once(last) /\ Names(last) = {}
    <3>1. Try("scan", {"Error"}).do = "try"
      BY DEF Try, Call
    <3>2. QED
      BY <3>1, PlainOne, QuietOnce
  <2> HIDE DEF all, last
  <2>6. Once(all \o last) /\ Names(all \o last) \subseteq Names(all)
    BY <2>4, <2>5, OnceConcat DEF Under
  <2>7. Under(all \o last, {"rom_codes"})
    BY <2>4, <2>6 DEF Under
  <2>8. QED
    BY <2>7 DEF ScanRomCodes, all, last, parts
<1>3. ASSUME NEW id
      PROVE  Entry(FormatSensor(id), "sensors", id)
  <2> DEFINE c == FormatSensor(id)
             key2 == <<"sensors", id, "id">>
             key3 == <<"sensors", id, "configured">>
             key4 == <<"sensors", id>>
  <2>1. /\ Listed(c) /\ DOMAIN c = {1, 2, 3, 4} /\ c[1].do = "try"
        /\ c[2].do = "add" /\ c[2].arg = key2
        /\ c[3].do = "add" /\ c[3].arg = key3
        /\ c[4].do = "add" /\ c[4].arg = key4
    BY ListedTuple DEF FormatSensor, MakeObject, Try, Add, AppendItem, Call
  <2>2. /\ Len(key2) = 3 /\ key2[1] = "sensors" /\ key2[2] = id /\ key2[3] = "id"
        /\ Len(key3) = 3 /\ key3[1] = "sensors" /\ key3[2] = id
        /\ key3[3] = "configured"
        /\ Len(key4) = 2 /\ key4[1] = "sensors" /\ key4[2] = id
        /\ Len(<<"sensors">>) = 1
    OBVIOUS
  <2> HIDE DEF c, key2, key3, key4
  <2>3. /\ key2 # key3 /\ key2 # key4 /\ key3 # key4
        /\ key2 # <<"sensors">> /\ key3 # <<"sensors">> /\ key4 # <<"sensors">>
    BY <2>2
  <2>4. Adds(c) = {2, 3, 4}
    BY <2>1 DEF Adds
  <2>5. Names(c) = {key2, key3, key4}
    BY <2>1, <2>4 DEF Names
  <2>6. Once(c)
    BY <2>1, <2>3, <2>4 DEF Once
  <2>7. QED
    BY <2>2, <2>3, <2>5, <2>6 DEF Entry, c
<1>4. Under(FormatSensors, {"sensors"})
  <2> DEFINE parts == [i \in DOMAIN Ds18b20Ids |-> FormatSensor(Ds18b20Ids[i])]
  <2>1. Listed(Ds18b20Ids) /\ IsInjective(Ds18b20Ids)
    BY IdsAssumption, DistinctIdsAssumption, ListedNames
  <2>2. Listed(parts) /\ DOMAIN parts = DOMAIN Ds18b20Ids
    <3>1. parts = [i \in DOMAIN Ds18b20Ids |-> parts[i]]
      OBVIOUS
    <3>2. QED
      BY <2>1, <3>1, ListedMap
  <2>3. \A i \in DOMAIN Ds18b20Ids : Entry(parts[i], "sensors", Ds18b20Ids[i])
    BY <1>3
  <2> HIDE DEF parts
  <2>4. Under(<<Add(<<"sensors">>)>> \o FlattenSeq(parts), {"sensors"})
    BY <2>1, <2>2, <2>3, EntriesOnce
  <2>5. QED
    BY <2>4 DEF FormatSensors, parts
<1>5. Names(ScanRomCodes(n)) \cap Names(FormatSensors) = {}
  BY <1>2, <1>4 DEF Under
<1>6. QED
  BY <1>2, <1>4, <1>5, OnceConcat DEF Under, Scan

\* No function adds a key twice, and no handler that adds to the document itself.
LEMMA FunctionOnce ==
  ASSUME NEW f \in FunctionNames, NEW n \in Nat
  PROVE  Once(Body(f, n))
<1>1. ASSUME NEW s, Quiet(s), NEW t, Once(t)
      PROVE  Once(s \o t)
  BY <1>1, QuietOnce, OnceConcat
<1>2. \A x : x.do \notin {"schedule", "wait", "add"} => Quiet(<<x>>)
  BY PlainOne
<1>3. \A what, errors : Try(what, errors).do = "try"
  BY DEF Try, Call
<1>4. \A what, errors : Quiet(<<Try(what, errors)>>)
  BY <1>2, <1>3
<1>5. Once(FormatConfiguration)
  <2>1. Listed(<<"resolution", "serial_number">>)
    <3>1. <<"resolution", "serial_number">> \in Seq({"resolution", "serial_number"})
      OBVIOUS
    <3>2. QED
      BY <3>1, ListedSeq
  <2>2. QED
    BY <2>1, InjectiveNames, FieldsUnder DEF FormatConfiguration, Under
<1>6. Once(ReadConfiguration) /\ Once(EraseConfiguration)
  BY <1>1, <1>4, <1>5 DEF ReadConfiguration, EraseConfiguration
<1>7. Once(<<GetSensor>> \o ReadConfiguration) /\ Once(<<GetSensor>> \o EraseConfiguration)
  BY <1>1, <1>4, <1>6 DEF GetSensor
<1>8. Once(WriteConfiguration)
  <2> DEFINE pre == <<GetSensor, Try("parse_configuration", {"InvalidArg"}), FindRomCode,
                      Try("write_configuration", {"Error"})>>
  <2>1. \A i \in DOMAIN pre : pre[i] \in {GetSensor, Try("parse_configuration", {"InvalidArg"}),
                                          FindRomCode, Try("write_configuration", {"Error"})}
    OBVIOUS
  <2>2. \A i \in DOMAIN pre : pre[i].do = "try"
    BY <1>3, <2>1 DEF GetSensor, FindRomCode
  <2>3. Listed(pre)
    BY ListedTuple
  <2> HIDE DEF pre
  <2>4. Quiet(pre)
    BY <2>2, <2>3 DEF Quiet, Plain
  <2>5. QED
    BY <1>1, <1>6, <2>4 DEF WriteConfiguration, pre
<1>9. Once(<<Try("reset", {"Error"})>>) /\ Once(<<Try("heat", {"Error", "InvalidState"})>>)
  BY <1>4, QuietOnce
<1>10. Once(<<Call("reboot", <<>>, {})>>)
  <2>1. Call("reboot", <<>>, {}).do = "reboot"
    BY DEF Call
  <2>2. QED
    BY <1>2, <2>1, QuietOnce
<1>11. QED
  BY <1>7, <1>8, <1>9, <1>10, ScanOnce DEF Body, FunctionNames

LEMMA HandlerOnce ==
  ASSUME NEW path \in Immediate
  PROVE  Once(Handlers[path])
<1>1. ASSUME NEW formatter, Once(formatter)
      PROVE  Once(DataHandler(formatter))
  <2> DEFINE pair == <<formatter, <<PrintJson>> >>
  <2>1. /\ Listed(pair) /\ DOMAIN pair = {1, 2} /\ pair[1] = formatter
        /\ pair[2] = <<PrintJson>>
    <3>1. pair \in Seq({formatter, <<PrintJson>>})
      OBVIOUS
    <3>2. Listed(pair)
      BY <3>1, ListedSeq
    <3>3. QED
      BY <3>2
  <2>2. Once(<<PrintJson>>) /\ Names(<<PrintJson>>) = {}
    BY QuietParts, QuietOnce
  <2> HIDE DEF pair
  <2>3. \A i \in DOMAIN pair : Once(pair[i])
    BY <1>1, <2>1, <2>2
  <2>4. \A i, j \in DOMAIN pair : i # j => Names(pair[i]) \cap Names(pair[j]) = {}
    BY <2>1, <2>2
  <2>5. Once(FlattenSeq(pair))
    BY <2>1, <2>3, <2>4, OnceFlatten
  <2>6. Once(<<MakeObject>> \o FlattenSeq(pair))
    BY <2>5, QuietParts, QuietOnce, OnceConcat
  <2>7. Once((<<MakeObject>> \o FlattenSeq(pair)) \o SendText)
    BY <2>6, QuietParts, QuietOnce, OnceConcat
  <2>8. QED
    BY <2>7 DEF DataHandler, FanoutFormatter, pair
<1>2. Once(SystemStateHandler)
  <2>1. Once(<<MakeObject>> \o SystemStateFormatter)
    BY SystemStateOnce, QuietParts, QuietOnce, OnceConcat
  <2>2. QED
    BY <2>1, QuietParts, QuietOnce, OnceConcat DEF SystemStateHandler
<1>3. Once(GetTime) /\ Once(SetTime)
  BY QuietParts, QuietOnce, OnceConcat DEF GetTime, SetTime
<1>4. Once(Handlers["unknown"])
  <2>1. Try("find_if", {"InvalidArg"}).do = "try"
    BY DEF Try, Call
  <2>2. QED
    BY <2>1, PlainOne, QuietOnce DEF Handlers
<1>5. QED
  BY <1>1, <1>2, <1>3, <1>4, TelemetryOnce, RegistrationOnce, QuietParts, QuietOnce
  DEF Handlers, Immediate

LEMMA DocumentOnce ==
  ASSUME NEW path \in DOMAIN Handlers, NEW keys, DocumentOf(path, keys)
  PROVE  IsInjective(keys)
<1> DEFINE scheduled == {c \in ToSet(Handlers[path]) : c.do = "schedule"}
<1>1. CASE path \in Immediate /\ Plain(Handlers[path])
  <2>1. scheduled = {}
    BY <1>1 DEF Plain, ToSet
  <2>2. keys = Keys(Handlers[path])
    BY <2>1 DEF DocumentOf
  <2>3. QED
    BY <1>1, <2>2, HandlerOnce, OnceInjective
<1>2. ASSUME NEW s \in Schedulers, NEW f \in FunctionNames, HandsOver(Handlers[path], s, f)
      PROVE  IsInjective(keys)
  <2> DEFINE call == Call("schedule", <<s, f>>, {})
  <2>1. scheduled = {call} /\ call.arg[2] = f
    BY <1>2, ScheduledCalls DEF Call
  <2> HIDE DEF call
  <2>2. PICK n \in 0 .. Devices : keys = Keys(Body(f, n))
    BY <2>1 DEF DocumentOf
  <2>3. n \in Nat
    BY DevicesAssumption
  <2>4. QED
    BY <2>2, <2>3, FunctionOnce, OnceInjective
<1>3. QED
  BY <1>1, <1>2, HandlerKinds

-----------------------------------------------------------------------------
(* The theorems. *)

\* IInv is inductive.
LEMMA Invariance == Spec => []IInv
<1>1. Init => IInv
  <2> SUFFICES ASSUME Init PROVE IInv
    OBVIOUS
  <2>1. Listed(<<>>) /\ Len(<<>>) = 0 /\ DOMAIN <<>> = {}
    BY DEF Listed
  <2>2. FileInv
    BY DEF Init, FileInv, Closed
  <2>3. AnswerInv
    BY <2>1, <2>2 DEF Init, AnswerInv, Idle, AnswerFitsOutcome
  <2>4. /\ queue = [s \in Schedulers |-> queue[s]]
        /\ \A s \in Schedulers : queue[s] = <<>>
    BY DEF Init
  <2>5. Functions /\ OneAlive /\ AliveAwaited
    BY <2>1, <2>4 DEF Init, Functions, OneAlive, AliveAwaited
  <2>6. QED
    BY <2>3, <2>5 DEF IInv
<1>2. IInv /\ [Next]_vars => IInv'
  <2> SUFFICES ASSUME IInv, [Next]_vars PROVE IInv'
    OBVIOUS
  <2>1. AnswerInv /\ FuncInv
    BY DEF IInv, FuncInv
  <2>2. CASE Next
    BY <2>1, <2>2, AnswerStep, FuncStep DEF IInv, FuncInv
  <2>3. CASE UNCHANGED vars
    <3>1. UNCHANGED <<request, calls, code, wire, connected, file, queue, running, future>>
      BY <2>3 DEF vars, httpTask, client, mainTask
    <3>2. AnswerInv'
      BY <2>1, <3>1, AnswerStutters
    <3>3. Functions' /\ OneAlive' /\ AliveAwaited'
      BY <2>1, <3>1 DEF FuncInv, Functions, OneAlive, AliveAwaited, Next1
    <3>4. QED
      BY <3>2, <3>3 DEF IInv
  <2>4. QED
    BY <2>2, <2>3
<1>3. QED
  BY <1>1, <1>2, PTL DEF Spec

(* What the client got when a handler has returned is what it came to: an  *)
(* error, one body, the redirection, or the file from its first byte to    *)
(* its last and the end, for every file and every size of the buffer       *)
(* (server.cpp:123, stream_transceiver.cpp and the handlers).              *)
THEOREM AnswerFits == Spec => []AnswerFitsOutcome
<1>1. IInv => AnswerFitsOutcome
  BY DEF IInv, AnswerInv, Pending, Rebooting, Copying, Ending, Returned, Idle,
     AnswerFitsOutcome
<1>2. QED
  BY <1>1, Invariance, PTL

(* A function uses the variables of a handler only while that handler is   *)
(* inside its wait, whatever is queued and whenever handlers give up       *)
(* (ds18b20_handler.cpp:163-180): of all functions at most one does.       *)
THEOREM AliveAwaits == Spec => []AliveIsAwaited
<1>1. ASSUME IInv
      PROVE  AliveIsAwaited
  <2>1. AliveAwaited /\ Functions
    BY <1>1 DEF IInv
  <2>2. \A f \in ToSet(running) : f.frame = "alive" => Next1("wait")
    BY <2>1 DEF AliveAwaited, ToSet
  <2>3. \A s \in Schedulers : \A f \in ToSet(queue[s]) :
          f.frame = "alive" => Next1("wait")
    BY <2>1 DEF AliveAwaited, ToSet
  <2>4. QED
    BY <2>2, <2>3 DEF AliveIsAwaited
<1>2. QED
  BY <1>1, Invariance, PTL

(* A body is sent with every field its handler or the handler's function   *)
(* adds, in their order, and with none of them twice, whatever fails,      *)
(* whoever gives up and whatever is added meanwhile (data_handler.cpp,     *)
(* ds18b20_handler.cpp, fanout_formatter.cpp and the formatters), for every *)
(* set of counters, sensors and tasks whose ids differ.                    *)
THEOREM DocumentsWhole == Spec => []WholeDocument
<1>1. Init => DocInv
  <2> SUFFICES ASSUME Init PROVE DocInv
    OBVIOUS
  <2>1. Listed(document) /\ request = NoRequest
    BY FlattenEmpty DEF Init
  <2>2. Handed = {}
    <3>1. running = <<>> /\ \A s \in Schedulers : queue[s] = <<>>
      BY DEF Init
    <3>2. ToSet(<<>>) = {}
      BY DEF ToSet
    <3>3. QED
      BY <3>1, <3>2 DEF Handed
  <2>3. QED
    BY <2>1, <2>2 DEF DocInv
<1>2. IInv /\ DocInv /\ [Next]_vars => DocInv'
  <2> SUFFICES ASSUME IInv, DocInv, [Next]_vars PROVE DocInv'
    OBVIOUS
  <2>1. AnswerInv /\ FuncInv
    BY DEF IInv, FuncInv
  <2>2. CASE Next
    BY <2>1, <2>2, DocPreserved
  <2>3. CASE UNCHANGED vars
    <3>1. /\ UNCHANGED <<request, calls, document, wire, spoiled, queue, running, future>>
      BY <2>3 DEF vars, httpTask, client, mainTask
    <3>2. Handed' = Handed
      BY <3>1 DEF Handed
    <3>3. Waiting => Waiting'
      BY <3>1, <3>2 DEF Waiting, Fits
    <3>4. QED
      BY <3>1, <3>2, <3>3, DocMain DEF DocInv
  <2>4. QED
    BY <2>2, <2>3
<1>3. IInv /\ DocInv => WholeDocument
  <2> SUFFICES ASSUME IInv, DocInv, request # NoRequest, ~spoiled,
                      NEW i \in DOMAIN wire, wire[i].is = "body"
               PROVE  DocumentOf(request, wire[i].keys) /\ IsInjective(wire[i].keys)
    BY DEF WholeDocument
  <2>1. DocumentOf(request, wire[i].keys)
    BY DEF DocInv, Sent, Fits
  <2>2. request \in DOMAIN Handlers
    BY DEF DocInv
  <2>3. QED
    BY <2>1, <2>2, DocumentOnce
<1>4. QED
  BY <1>1, <1>2, <1>3, Invariance, PTL DEF Spec
===============================================================================
