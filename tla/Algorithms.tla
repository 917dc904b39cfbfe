------------------------------ MODULE Algorithms ------------------------------
(***************************************************************************)
(* The pure functions: ocs_algo, core::Version, and what the sensors       *)
(* compute from the bytes of their frames.  An input is chosen, and every  *)
(* result is compared with a definition that does not follow the code.     *)
(* Characters, bytes and numbers are cut down to the few that matter.      *)
(***************************************************************************)
EXTENDS Integers, Sequences, FiniteSets, FiniteSetsExt, SequencesExt, Functions, Bitwise

CONSTANTS
  TimeModulus,   \* 2 to the width of the type of TimeOps::after()
  NumberMax,     \* UINT16_MAX of a version's numbers
  MaxLength,     \* of a string
  Bytes,         \* the bytes that frames are made of
  Raws           \* temperatures of DS18B20, in 1/16 of a degree

AlgorithmsAssumption ==
  /\ TimeModulus \in Nat \ {0} /\ NumberMax \in Nat /\ MaxLength \in Nat
  /\ Bytes \subseteq 0 .. 255 /\ Raws \subseteq -880 .. 2000

VARIABLE input

\* TimeOps::after(), on an unsigned type that wraps.
After(start, now, interval) ==
  LET dest == (start + interval) % TimeModulus IN
  IF now < start THEN dest > start \/ dest <= now
  ELSE start <= dest /\ dest <= now

\* Version::operator<.
VersionLess(v, w) ==
  \/ v.major < w.major
  \/ v.minor < w.minor
  \/ v.patch < w.patch

\* Version::parse() of the fields between the dots, -1 one that is no number:
\* sscanf() reads as many numbers as it can, and the others are 0.
VersionParse(fields) ==
  LET bad == {i \in DOMAIN fields : fields[i] = -1}
      read == IF bad = {} THEN Len(fields) ELSE CHOOSE i \in bad : \A j \in bad : i <= j
      count == IF bad = {} THEN read ELSE read - 1
      number(i) == IF i <= count THEN fields[i] ELSE 0
  IN  IF count = 0 \/ \E i \in 1 .. 3 : number(i) > NumberMax THEN {}
      ELSE {[major |-> number(1), minor |-> number(2), patch |-> number(3)]}

\* strchr(): the places of c from i on; the string ends at Len(s).
From(s, i, c) == {j \in i .. Len(s) : s[j] = c}

\* StringOps::split(), from a start on.
RECURSIVE SplitFrom(_, _, _, _)
SplitFrom(delimiter, s, start, values) ==
  LET n == Len(s)
      ends == From(s, start, delimiter)
      end == Min(ends)
      grown == IF s[start] = delimiter THEN values
               ELSE Append(values, SubSeq(s, start, end - 1))
  IN  IF start = n THEN IF s[n] = delimiter THEN values ELSE Append(values, <<s[n]>>)
      ELSE IF ends = {}
        THEN IF values = <<>> THEN <<>> ELSE Append(values, SubSeq(s, start, n))
      ELSE IF end = n THEN grown
      ELSE SplitFrom(delimiter, s, end + 1, grown)

Split(delimiter, s) == IF Len(s) < 2 THEN <<>> ELSE SplitFrom(delimiter, s, 1, <<>>)

\* parse_hex(), which computes a number from any characters, and
\* parse_serial_number(), of SerialSize bytes here.
SerialSize == 2
Digit(c) == CASE c = "0" -> 0 [] c \in {"a", "A"} -> 10 [] c = "z" -> 35
ParseHex(hi, lo) == ((Digit(hi) * 16) | Digit(lo)) % 256

ParseSerialNumber(s) ==
  LET values == Split(":", s)
  IN  IF Len(s) # 3 * SerialSize - 1 \/ Len(values) # SerialSize
           \/ \E i \in DOMAIN values : Len(values[i]) # 2
      THEN {}
      ELSE {[i \in DOMAIN values |-> ParseHex(values[i][1], values[i][2])]}

\* parse_resolution().
ParseResolution(s) == IF s \in {"9", "10", "11", "12"} THEN s ELSE "None"

\* parse_configuration(), nothing when it answers InvalidArg.
ParseConfiguration(serial_number, resolution) ==
  IF ParseResolution(resolution) = "None" THEN {}
  ELSE {[serial_number |-> v, resolution |-> resolution] :
          v \in ParseSerialNumber(serial_number)}

\* UriOps::parse_path().
ParsePath(uri) ==
  LET query == From(uri, 1, "?")
  IN  IF query = {} THEN uri ELSE SubSeq(uri, 1, Min(query) - 1)

\* parse_key_value() between begin and end; '=' is looked for beyond end too,
\* and then the value is "beyond" the string.  emplace() keeps the first value
\* of a key.
ParseKeyValue(uri, values, begin, end) ==
  LET places == From(uri, begin, "=")
      delimiter == Min(places)
      key == SubSeq(uri, begin, delimiter - 1)
      value == IF delimiter > end THEN <<"beyond">>
               ELSE SubSeq(uri, delimiter + 1, end)
  IN  IF places = {} \/ delimiter \in {begin, end} \/ key \in DOMAIN values
        THEN values
      ELSE [k \in DOMAIN values \cup {key} |-> IF k = key THEN value ELSE values[k]]

RECURSIVE ParseQueryFrom(_, _, _)
ParseQueryFrom(uri, start, values) ==
  LET ends == From(uri, start, "&")
  IN  IF ends = {} THEN ParseKeyValue(uri, values, start, Len(uri))
      ELSE ParseQueryFrom(uri, Min(ends) + 1,
                          ParseKeyValue(uri, values, start, Min(ends) - 1))

ParseQuery(uri) ==
  IF From(uri, 1, "?") = {} THEN <<>>
  ELSE ParseQueryFrom(uri, Min(From(uri, 1, "?")) + 1, <<>>)

\* CrcOps::crc8(): a byte is put through bit by bit.
LSB == [polynomial |-> 140, initial |-> 0, lsb |-> TRUE]     \* onewire/crc.cpp
MSB == [polynomial |-> 49, initial |-> 255, lsb |-> FALSE]   \* sht41/sensor.cpp

Shift(crc, order) ==
  IF order.lsb
  THEN IF crc % 2 = 1 THEN (crc \div 2) ^^ order.polynomial ELSE crc \div 2
  ELSE IF crc >= 128 THEN ((crc * 2) % 256) ^^ order.polynomial ELSE (crc * 2) % 256

Crc8(buf, order) ==
  FoldLeft(LAMBDA crc, byte :
             FoldLeft(LAMBDA c, bit : Shift(c, order), crc ^^ byte, [b \in 1 .. 8 |-> b]),
           order.initial, buf)

\* RomCode::valid(), Scratchpad::valid() and the check of a frame of SHT41.
ValidFrame(frame, order) == Crc8(Front(frame), order) = Last(frame)

\* BitOps.
Nth(value, pos) == (value \div 2^pos) % 2
PackU8(hi, lo) == hi * 256 + lo
UnpackU8(value) == <<value \div 256, value % 256>>

\* Bus::write_byte(), which takes the bits off by halving, and Bus::read_byte(),
\* which sets or clears them by masks in whatever byte it is given.
Halved(byte, n) == FoldLeft(LAMBDA b, i : b \div 2, byte, [i \in 1 .. n |-> i])
WrittenBits(byte) == [n \in 1 .. 8 |-> Halved(byte, n - 1) % 2]
ReadByte(byte, bits) ==
  FoldLeft(LAMBDA b, n : IF bits[n] = 1 THEN b | 2^(n - 1) ELSE b & (255 - 2^(n - 1)),
           byte, [n \in 1 .. 8 |-> n])

\* format_20bit_data() of BME280: msb, lsb, and the upper half of xlsb.
Format20Bit(msb, lsb, xlsb) == PackU8(msb, lsb) * 16 + xlsb \div 16

\* configuration_resolution_to_proto(): [r0, r1].
Proto(bits) ==
  CASE bits = 12 -> [r0 |-> 1, r1 |-> 1]
    [] bits = 11 -> [r0 |-> 0, r1 |-> 1]
    [] bits = 10 -> [r0 |-> 1, r1 |-> 0]
    [] bits = 9  -> [r0 |-> 0, r1 |-> 0]

\* Mutant of GetTemperature: the resolutions of 10 and 11 bits are swapped.
GetTemperatureSwapped(lsb, msb, proto) ==
  LET low == CASE proto = Proto(12) -> 0 .. 3
               [] proto = Proto(11) -> 2 .. 3
               [] proto = Proto(10) -> 1 .. 3
               [] OTHER -> {3}
      value == MapThenSumSet(LAMBDA i : Nth(lsb, i) * 2^i, low \cup 4 .. 7)
               + MapThenSumSet(LAMBDA i : Nth(msb, i) * 2^(8 + i), 0 .. 2)
  IN  IF msb \div 8 = 31 THEN -value ELSE value

\* Scratchpad::get_temperature(), in 1/16 of a degree: the bits that the
\* resolution leaves, and a sign.
GetTemperature(lsb, msb, proto) ==
  LET low == CASE proto = Proto(12) -> 0 .. 3
               [] proto = Proto(11) -> 1 .. 3
               [] proto = Proto(10) -> 2 .. 3
               [] OTHER -> {3}
      value == MapThenSumSet(LAMBDA i : Nth(lsb, i) * 2^i, low \cup 4 .. 7)
               + MapThenSumSet(LAMBDA i : Nth(msb, i) * 2^(8 + i), 0 .. 2)
  IN  IF msb \div 8 = 31 THEN -value ELSE value

\* dig_H4 and dig_H5 of BME280: eight bits of one byte and four of another.
CalibrationH(high, low) == high * 16 + low

\* MathOps::round_floor() of a value in 1/1000.
RoundFloor(value, places) ==
  LET unit == 10^(3 - places) IN (value \div unit) * unit

\* StorageOps::prob_read(): [code, the size read].
ProbRead(probed, recv_size, read, size) ==
  IF probed # "OK" THEN <<probed, 0>>
  ELSE IF recv_size > size THEN <<"InvalidArg", 0>>
  ELSE <<read, IF read = "OK" THEN recv_size ELSE 0>>

\* serial_number_to_str: two upper-case digits for a byte, and colons.
HexDigit(n) == IF n = 0 THEN "0" ELSE IF n = 10 THEN "A" ELSE "other"
SerialNumberToStr(v) ==
  FlattenSeq([i \in DOMAIN v |->
    (IF i = 1 THEN <<>> ELSE <<":">>) \o <<HexDigit(v[i] \div 16), HexDigit(v[i] % 16)>>])

(***************************************************************************)
(* The inputs, one of which is chosen.                                     *)
(***************************************************************************)
Times == 0 .. TimeModulus - 1
Strings(chars) == SeqOf(chars, MaxLength)
Versions == [major : 0 .. 1, minor : 0 .. 1, patch : 0 .. 1]
Resolutions == 9 .. 12

Init == input = [of |-> "none"]

ChooseTimes ==
  \E t \in [of : {"after"}, start : Times, now : Times, interval : Times \ {0}] :
    input' = t

ChooseVersions ==
  \E v, w \in Versions : input' = [of |-> "version", v |-> v, w |-> w]

ChooseFields ==
  \E fields \in SeqOf(-1 .. NumberMax + 1, 3) \ {<<>>} :
    input' = [of |-> "fields", fields |-> fields]

ChooseString ==
  \E s \in Strings({"a", ","}) : input' = [of |-> "string", s |-> s]

ChooseSerial ==
  \E s \in Strings({"0", "a", "A", "z", ":"}), r \in {"12", "13"} :
    input' = [of |-> "serial", s |-> s, resolution |-> r]

ChooseUri ==
  \E s \in Strings({"k", "v", "=", "&"}) : input' = [of |-> "uri", query |-> s]

ChooseBytes ==
  \E b, c \in Bytes, order \in {LSB, MSB} :
    input' = [of |-> "bytes", buf |-> <<b, c>>, order |-> order]

ChooseTemperature ==
  \E r \in Raws, bits \in Resolutions :
    input' = [of |-> "temperature", raw |-> r, bits |-> bits]

ChooseRead ==
  \E probed, read \in {"OK", "NoData", "Error"}, recv_size, size \in 0 .. 2 :
    input' = [of |-> "read", probed |-> probed, recv_size |-> recv_size,
              read |-> read, size |-> size]

Next ==
  /\ input.of = "none"
  /\ \/ ChooseTimes \/ ChooseVersions \/ ChooseFields \/ ChooseString
     \/ ChooseSerial \/ ChooseUri \/ ChooseBytes \/ ChooseTemperature \/ ChooseRead

Spec == Init /\ [][Next]_input

(***************************************************************************)
(* What the functions should compute.                                      *)
(***************************************************************************)

\* An interval has passed when the clock has gone so far, round the end of its
\* type too.
TimesAgree(t) ==
  After(t.start, t.now, t.interval)
    <=> (t.now - t.start) % TimeModulus >= t.interval

LexicographicallyLess(v, w) ==
  \/ v.major < w.major
  \/ v.major = w.major /\ v.minor < w.minor
  \/ v.major = w.major /\ v.minor = w.minor /\ v.patch < w.patch

\* An older version is less than a newer one.  (The converse fails: a newer
\* one with a smaller minor or patch number is less as well.)
VersionsAgree(v, w) ==
  /\ LexicographicallyLess(v, w) => VersionLess(v, w)
  /\ v.major = w.major /\ v.minor = w.minor
       => (VersionLess(v, w) <=> LexicographicallyLess(v, w))

\* Three numbers in range are read as they are; what is read is in range, and
\* does not depend on what follows the first field that is no number.
FieldsAgree(fields) ==
  LET cut == {i \in DOMAIN fields : fields[i] = -1}
      head == IF cut = {} THEN fields ELSE SubSeq(fields, 1, Min(cut) - 1)
  IN  /\ \A v \in VersionParse(fields) : Max({v.major, v.minor, v.patch}) <= NumberMax
      /\ head # <<>> => VersionParse(fields) = VersionParse(head)
      /\ Len(fields) = 3 /\ (\A i \in DOMAIN fields : fields[i] \in 0 .. NumberMax)
           => VersionParse(fields) =
                {[major |-> fields[1], minor |-> fields[2], patch |-> fields[3]]}

\* The runs of characters without a c, in their order.
Fields(s, c) ==
  LET bounds == {b \in (DOMAIN s) \X (DOMAIN s) :
                   /\ b[1] <= b[2] /\ \A i \in b[1] .. b[2] : s[i] # c
                   /\ b[1] = 1 \/ s[b[1] - 1] = c
                   /\ b[2] = Len(s) \/ s[b[2] + 1] = c}
      sorted == SetToSortSeq(bounds, LAMBDA a, b : a[1] < b[1])
  IN  [i \in DOMAIN sorted |-> SubSeq(s, sorted[i][1], sorted[i][2])]

\* The fields that are not empty.  A string without a delimiter has none, and
\* a single field of two characters or more that ends the string is dropped
\* even when a delimiter comes before it.
StringsAgree(s) ==
  LET fields == Fields(s, ",")
      dropped == \/ Len(s) < 2
                 \/ "," \notin Range(s)
                 \/ Len(fields) = 1 /\ Len(fields[1]) >= 2 /\ s[Len(s)] # ","
  IN  Split(",", s) = IF dropped THEN <<>> ELSE fields

\* A configuration is taken when its serial number is two characters for every
\* byte with colons between them, and its resolution is known; digits, small
\* or not, come out as they went in.  (A character that is no digit is taken
\* as well.)
SerialsAgree(s, resolution) ==
  LET ok == Len(s) = 5 /\ {i \in DOMAIN s : s[i] = ":"} = {3}
      upper == [i \in DOMAIN s |-> IF s[i] = "a" THEN "A" ELSE s[i]]
      taken == ParseConfiguration(s, resolution)
  IN  /\ taken # {} <=> ok /\ resolution = "12"
      /\ "z" \notin Range(s) =>
           \A c \in taken : SerialNumberToStr(c.serial_number) = upper

\* Every pair with a key and a value is found under its key, the first one
\* when there are two, and nothing else is.  (For queries whose every part has
\* a '=' and none is empty; otherwise the '=' of a later part is taken.)
UrisAgree(query) ==
  LET uri == <<"v", "?">> \o query
      parts == Fields(query, "&")
      equals(p) == {i \in DOMAIN p : p[i] = "="}
      key(p) == SubSeq(p, 1, Min(equals(p)) - 1)
      value(p) == SubSeq(p, Min(equals(p)) + 1, Len(p))
      pairs == {i \in DOMAIN parts : key(parts[i]) # <<>> /\ value(parts[i]) # <<>>}
      found == ParseQuery(uri)
  IN  /\ ParsePath(uri) = <<"v">> /\ ParsePath(query) = query /\ ParseQuery(query) = <<>>
      /\ /\ \A i \in DOMAIN parts : equals(parts[i]) # {}
         /\ \A i \in From(query, 1, "&") : i > 1 /\ query[i - 1] # "&"
         =>
           /\ DOMAIN found = {key(parts[i]) : i \in pairs}
           /\ \A i \in pairs :
                (\A j \in pairs : j < i => key(parts[j]) # key(parts[i]))
                  => found[key(parts[i])] = value(parts[i])

\* Twelve bits in two's complement, which dig_H4 and dig_H5 are.
Signed12(word) == IF word >= 2048 THEN word - 4096 ELSE word

\* A frame is valid with its own checksum and with no other, and with none of
\* its bits flipped; bytes, sent bit by bit too, and 20 bit numbers come out as
\* they went in, and so do the calibration data of 12 bits that are not
\* negative.
BytesAgree(buf, order) ==
  LET crc == Crc8(buf, order)
      flipped(i, bit) == [buf EXCEPT ![i] = @ ^^ (2^bit)]
  IN  /\ ValidFrame(Append(buf, crc), order)
      /\ Crc8(Append(buf, crc), order) = 0
      /\ \A i \in 1 .. 2, bit \in 0 .. 7 : ~ValidFrame(Append(flipped(i, bit), crc), order)
      /\ UnpackU8(PackU8(buf[1], buf[2])) = buf
      /\ ReadByte(buf[1], WrittenBits(buf[2])) = buf[2]
      /\ 16 * Format20Bit(buf[1], buf[2], crc) + (crc % 16)
           = 256 * (256 * buf[1] + buf[2]) + crc
      /\ buf[1] < 128 => CalibrationH(buf[1], buf[2] % 16)
                           = Signed12(16 * buf[1] + (buf[2] % 16))

\* What DS18B20 sends for a temperature: 16 bits in two's complement, of which
\* the lowest are undefined below 12 bits.
Measured(r, bits) ==
  LET step == 2^(12 - bits) IN (r \div step) * step

TemperatureOf(r, bits) ==
  LET word == r % 65536
  IN  GetTemperature(word % 256, word \div 256, Proto(bits))

\* No more is read than the buffer holds, and an error is passed on.
ReadsAgree(r) ==
  LET result == ProbRead(r.probed, r.recv_size, r.read, r.size)
  IN  /\ result[2] <= r.size
      /\ result[1] = "OK" <=> r.probed = "OK" /\ r.read = "OK" /\ r.recv_size <= r.size

\* The functions compute what they should, on every input: the interval, the
\* order of versions, the fields, the serial numbers, the pairs of a query,
\* the checksums, the temperatures from 0 degrees on, and the sizes read.
AlgorithmsAgree ==
  CASE input.of = "none" -> TRUE
    [] input.of = "after" -> TimesAgree(input)
    [] input.of = "version" -> VersionsAgree(input.v, input.w)
    [] input.of = "fields" -> FieldsAgree(input.fields)
    [] input.of = "string" -> StringsAgree(input.s)
    [] input.of = "serial" -> SerialsAgree(input.s, input.resolution)
    [] input.of = "uri" -> UrisAgree(input.query)
    [] input.of = "bytes" -> BytesAgree(input.buf, input.order)
    [] input.of = "temperature" ->
         /\ input.raw >= 0 => TemperatureOf(input.raw, input.bits)
                                = Measured(input.raw, input.bits)
         /\ LET rounded == RoundFloor(input.raw, input.bits - 9)
            IN  0 <= input.raw - rounded /\ input.raw - rounded < 10^(12 - input.bits)
    [] input.of = "read" -> ReadsAgree(input)

\* The temperature is the measured one: scratchpad.h says of get_temperature()
\* that it returns the temperature in Celsius, at the configured resolution.
TemperatureIsMeasured ==
  input.of = "temperature" =>
    TemperatureOf(input.raw, input.bits) = Measured(input.raw, input.bits)
=============================================================================
