------------------------------- MODULE SmsPdu -------------------------------
(***************************************************************************)
(* The messages of the GSM driver as the modem carries them: a PDU, written  *)
(* and read field by field.  Every number in it is little-endian down to    *)
(* the bit, halves of octets and septets too, so a PDU is a sequence of     *)
(* bits here and its hexadecimal text is left out.  The program writes the  *)
(* messages that it submits; the others are written by the network, in the  *)
(* layout that the library reads.  What the library itself writes for them, *)
(* which no program of this repository asks for, is at the end.             *)
(***************************************************************************)
EXTENDS Integers, FiniteSets, Sequences

CONSTANTS
  PduNumbers,   \* telephone numbers that the program sends to
  PduTexts,     \* texts, as sequences of Latin-1 codes
  PduIncoming,  \* messages that the network or a store of the modem holds
  PduLongest    \* characters in one message: 160

VARIABLES
  pduWire,   \* the PDU under way, how many octets were announced, and on which way it is
  pduTrip    \* what was meant, and what was read

pduVars == <<pduWire, pduTrip>>
NoPdu == [bits |-> <<>>]

-----------------------------------------------------------------------------
(* The alphabet: codes of the network and of Latin-1.                       *)

Nop == 172

FirstCodes ==
  <<64, 163, 36, 165, 232, 233, 249, 236, 242, 199, 10, 216, 248, 13, 197, 229,
    Nop, 95, Nop, Nop, Nop, Nop, Nop, Nop, Nop, Nop, Nop, Nop, 198, 230, 223, 201>>
OddCodes ==
  {<<36, 164>>, <<64, 161>>, <<91, 196>>, <<92, 214>>, <<93, 209>>, <<94, 220>>, <<95, 167>>,
   <<96, 191>>, <<123, 228>>, <<124, 246>>, <<125, 241>>, <<126, 252>>, <<127, 224>>}

GsmToLatin1 ==
  [g \in 0 .. 127 |-> IF g < 32 THEN FirstCodes[g + 1]
                      ELSE IF \E code \in OddCodes : code[1] = g
                      THEN (CHOOSE code \in OddCodes : code[1] = g)[2] ELSE g]

(* What has no code becomes 16, which is read back as Nop.                   *)
Latin1ToGsm ==
  [c \in 0 .. 255 |-> IF c # Nop /\ \E g \in 0 .. 127 : GsmToLatin1[g] = c
                      THEN CHOOSE g \in 0 .. 127 : GsmToLatin1[g] = c ELSE 16]

Spelled(text) == [i \in DOMAIN text |-> GsmToLatin1[Latin1ToGsm[text[i]]]]

-----------------------------------------------------------------------------
(* Addresses and alphabets of data.                                         *)

Unknown == 0
International == 1
Alphanumeric == 5
NoSca == [type |-> Unknown, plan |-> 0, number |-> <<>>]

(* A telephone number as users write it: a sign and digits.                  *)
Address(text) ==
  [type |-> IF text.plus THEN International ELSE Unknown, plan |-> 1, number |-> text.digits]

DefaultAlphabet(m) == "dcs" \in DOMAIN m => (m.dcs \div 4) % 4 = 0
Header(m) == IF "header" \in DOMAIN m THEN m.header ELSE <<>>
HeaderSeptets(header) == ((1 + Len(header)) * 8 + 6) \div 7
HeaderLength(m) ==
  IF Header(m) = <<>> THEN 0
  ELSE IF DefaultAlphabet(m) THEN HeaderSeptets(Header(m)) ELSE 1 + Len(Header(m))
UserDataLength(m) == (Len(m.text) + HeaderLength(m)) % 256

-----------------------------------------------------------------------------
(* SMSEncoder.                                                              *)

Weights == <<1, 2, 4, 8, 16, 32, 64, 128>>
BitOf(v, k) == (v \div Weights[k]) % 2
Bits(v, n) == [k \in 1 .. n |-> BitOf(v, k)]
BitsOf(numbers, n) ==
  [i \in 1 .. n * Len(numbers) |-> BitOf(numbers[((i - 1) \div n) + 1], ((i - 1) % n) + 1)]

SetBits(e, bits) == [e EXCEPT !.bits = @ \o bits]
AlignOctet(e) == SetBits(e, Bits(0, -Len(e.bits) % 8))
AlignSeptet(e) == SetBits(e, Bits(0, (e.mark - Len(e.bits)) % 7))
MarkSeptet(e) == [AlignOctet(e) EXCEPT !.mark = Len(AlignOctet(e).bits)]
SetOctets(e, octets) == SetBits(AlignOctet(e), BitsOf(octets, 8))
SetSemiOctets(e, digits) ==
  SetBits(AlignOctet(e), BitsOf(IF Len(digits) % 2 = 1 THEN Append(digits, 15) ELSE digits, 4))

(* Mutant: the text begins where the header ends.                           *)
SetStringUnaligned(e, codes) == SetBits(e, BitsOf(codes, 7))

SetString(e, codes) == SetBits(AlignSeptet(e), BitsOf(codes, 7))
LatinCodes(text) == [i \in DOMAIN text |-> Latin1ToGsm[text[i]]]

(* The length of an address is counted in octets, in digits, or in half      *)
(* octets: the library takes the even number of them that it believes its   *)
(* characters to fill, the network those that they take.                    *)
AddressLength(a, sca) ==
  CASE sca -> (Len(a.number) \div 2) + (Len(a.number) % 2) + 1
    [] ~sca /\ a.type = Alphanumeric -> ((Len(a.number) * 7 + 6) \div 8) * 2
    [] OTHER -> Len(a.number)
NetworkLength(a, sca) ==
  CASE sca -> (Len(a.number) \div 2) + (Len(a.number) % 2) + 1
    [] ~sca /\ a.type = Alphanumeric -> (Len(a.number) * 7 + 3) \div 4
    [] OTHER -> Len(a.number)

SetSized(e, a, sca, length) ==
  IF sca /\ a.number = <<>> THEN SetOctets(e, <<0>>)
  ELSE LET typed == SetBits(SetOctets(e, <<length>>), Bits(a.plan, 4) \o Bits(a.type, 3) \o <<1>>)
       IN AlignOctet(IF a.type = Alphanumeric
                     THEN SetString(MarkSeptet(typed), LatinCodes(a.number))
                     ELSE SetSemiOctets(typed, a.number))
SetAddress(e, a, sca) == SetSized(e, a, sca, AddressLength(a, sca))
NetworkAddress(e, a, sca) == SetSized(e, a, sca, NetworkLength(a, sca))

(* Times come from the network only.  The sign of the zone is a bit of its   *)
(* first digit.                                                            *)
TimeDigits(t) ==
  [i \in 1 .. 14 |->
     IF i = 13 THEN (t.zone.minutes \div 150) + (IF t.zone.negative THEN 0 ELSE 8)
     ELSE IF i = 14 THEN (t.zone.minutes \div 15) % 10
     ELSE IF i % 2 = 1 THEN t.digits[(i + 1) \div 2] \div 10
     ELSE t.digits[i \div 2] % 10]
SetTimestamp(e, t) == SetSemiOctets(e, TimeDigits(t))

SetTimePeriod(e, p) ==
  CASE p.format = 0 -> e
    [] p.format = 2 -> SetOctets(e, <<p.relative>>)
    [] p.format = 3 -> SetTimestamp(e, p.absolute)

SetHeader(e, header) == SetOctets(SetOctets(e, <<Len(header)>>), header)

SetUserData(e, m) ==
  LET marked == MarkSeptet(SetOctets(e, <<UserDataLength(m)>>))
      headed == IF Header(m) = <<>> THEN marked ELSE SetHeader(marked, Header(m))
  IN IF DefaultAlphabet(m) THEN SetString(headed, LatinCodes(m.text)) ELSE SetOctets(headed, m.text)

(* The reports of the library: nobody marks where the septets start.         *)
SetReportData(e, m) ==
  LET sized == SetOctets(e, <<UserDataLength(m)>>)
  IN IF DefaultAlphabet(m) THEN SetString(sized, LatinCodes(m.text)) ELSE SetOctets(sized, m.text)

(* A field of a message, by what is done with it and by its name.  The       *)
(* kinds "has" and "if" are of fields that may be left out.                 *)
Encoded(e, field, m) ==
  LET op == field[1]
      name == field[2]
  IN CASE op = "align" -> AlignOctet(e)
       [] op = "spare" -> SetBits(e, <<0>>)
       [] op = "bit" -> SetBits(e, Bits(m[name], 1))
       [] op = "2 bits" -> SetBits(e, Bits(m[name], 2))
       [] op = "has" -> SetBits(e, <<IF name \in DOMAIN m THEN 1 ELSE 0>>)
       [] op = "octet" -> SetOctets(e, <<m[name]>>)
       [] op = "octet if" -> IF name \in DOMAIN m THEN SetOctets(e, <<m[name]>>) ELSE e
       [] op = "address" -> SetAddress(e, m[name], FALSE)
       [] op = "sender" -> NetworkAddress(e, m[name], FALSE)
       [] op = "time" -> SetTimestamp(e, m[name])
       [] op = "period" -> SetTimePeriod(e, m[name])
       [] op = "octets" -> SetOctets(SetOctets(e, <<Len(m[name])>>), m[name])
       [] op = "data" -> SetUserData(e, m)
       [] op = "data if" -> IF name \in DOMAIN m THEN SetUserData(e, m) ELSE e
       [] op = "report if" -> IF name \in DOMAIN m THEN SetReportData(e, m) ELSE e

(* The members of each class.                                              *)
AllFields == {"type", "sca"}
DataFields == {"dcs", "header", "text"}
DeliverFields == {"more", "reply", "report", "address", "pid", "time"} \cup DataFields
SubmitFields ==
  {"reject", "format", "reply", "report", "reference", "address", "pid", "validity"} \cup DataFields
StatusReportFields ==
  {"more", "qualifier", "reference", "address", "time", "discharge", "status"}
CommandFields ==
  {"reference", "report", "pid", "command", "message", "address", "data"}
DeliverReportFields == {"pid", "dcs", "text"}
SubmitReportFields == {"time", "pid", "dcs", "text"}
Fields ==
  [deliver |-> DeliverFields, submit |-> SubmitFields, status |-> StatusReportFields,
   command |-> CommandFields, deliverReport |-> DeliverReportFields, submitReport |-> SubmitReportFields]

MayLack ==
  [deliver |-> {"header"}, submit |-> {"header"}, status |-> {}, command |-> {},
   deliverReport |-> {"pid", "dcs", "text"}, submitReport |-> {"pid", "dcs", "text"}]

(* What the network and the modem write: an octet counts the digits of an    *)
(* address and the characters of a text, and the name of a sender, which     *)
(* only a message that was received has, is of characters of the alphabet.   *)
Octet == 0 .. 255
Counted(S) == {s \in Seq(S) : Len(s) \in Octet}
Dialled == [type : (0 .. 7) \ {Alphanumeric}, plan : 0 .. 15, number : Counted(0 .. 9)]
Senders ==
  {a \in [type : {Alphanumeric}, plan : 0 .. 15, number : Seq(Octet)] :
     (Len(a.number) * 7 + 3) \div 4 \in Octet /\ Spelled(a.number) = a.number}
Centres == {NoSca} \cup {a \in Dialled : a.number # <<>>}
Zones == [minutes : {15 * q : q \in 0 .. 79}, negative : BOOLEAN]
Times == [digits : [1 .. 6 -> 0 .. 99], zone : Zones]
Periods == [format : {0}] \cup [format : {2}, relative : Octet] \cup [format : {3}, absolute : Times]

FieldValues ==
  [type |-> DOMAIN Fields, sca |-> Centres, address |-> Dialled \cup Senders,
   more |-> 0 .. 1, report |-> 0 .. 1, reply |-> 0 .. 1, reject |-> 0 .. 1, qualifier |-> 0 .. 1,
   format |-> 0 .. 3, validity |-> Periods, time |-> Times, discharge |-> Times,
   pid |-> Octet, dcs |-> Octet, reference |-> Octet, status |-> Octet, command |-> Octet,
   message |-> Octet, data |-> {<<>>},
   header |-> Counted(Octet) \ {<<>>}, text |-> Counted(Octet)]

Complete(m) ==
  /\ m = [name \in DOMAIN m |-> m[name]]
  /\ AllFields \subseteq DOMAIN m /\ m.type \in DOMAIN Fields
  /\ Fields[m.type] \ MayLack[m.type] \subseteq DOMAIN m
  /\ DOMAIN m \subseteq AllFields \cup Fields[m.type]
  /\ \A name \in DOMAIN m : m[name] \in FieldValues[name]
  /\ m.type = "submit" => m.format = m.validity.format
  /\ m.type # "deliver" /\ "address" \in DOMAIN m => m.address \in Dialled

ASSUME PduAssumption ==
  /\ \A m \in PduIncoming : Complete(m)
  /\ PduNumbers \subseteq [plus : BOOLEAN, digits : Counted(0 .. 9)]
  /\ PduTexts \subseteq Seq(Octet) /\ PduLongest \in Octet

Spare == <<"spare", "">>

(* The function encode of each class, after the address of the centre and    *)
(* the type of the message.                                                *)
DeliverWrites ==
  <<<<"bit", "more">>, Spare, Spare, <<"bit", "report">>, <<"has", "header">>, <<"bit", "reply">>,
    <<"address", "address">>, <<"octet", "pid">>, <<"octet", "dcs">>, <<"time", "time">>,
    <<"data", "text">>>>

SubmitWrites ==
  <<<<"bit", "reject">>, <<"2 bits", "format">>, <<"bit", "report">>, <<"has", "header">>,
    <<"bit", "reply">>, <<"octet", "reference">>, <<"address", "address">>, <<"octet", "pid">>,
    <<"octet", "dcs">>, <<"period", "validity">>, <<"data", "text">>>>

StatusReportWrites ==
  <<<<"bit", "more">>, Spare, Spare, <<"bit", "qualifier">>, <<"octet", "reference">>,
    <<"address", "address">>, <<"time", "time">>, <<"time", "discharge">>, <<"octet", "status">>>>

CommandWrites ==
  <<Spare, Spare, Spare, <<"bit", "report">>, <<"octet", "reference">>, <<"octet", "pid">>,
    <<"octet", "command">>, <<"octet", "message">>, <<"address", "address">>, <<"octets", "data">>>>

DeliverReportWrites ==
  <<<<"align", "">>, <<"has", "pid">>, <<"has", "dcs">>, <<"has", "text">>,
    <<"octet if", "pid">>, <<"octet if", "dcs">>, <<"report if", "text">>>>

SubmitReportWrites ==
  <<<<"time", "time">>, <<"has", "pid">>, <<"has", "dcs">>, <<"has", "text">>,
    <<"octet if", "pid">>, <<"octet if", "dcs">>, <<"report if", "text">>>>

(* What the network and the modem write instead, in the three classes where  *)
(* the library does not write what it reads.                                *)
NetworkDelivers ==
  <<<<"bit", "more">>, Spare, Spare, <<"bit", "report">>, <<"has", "header">>, <<"bit", "reply">>,
    <<"sender", "address">>, <<"octet", "pid">>, <<"octet", "dcs">>, <<"time", "time">>,
    <<"data", "text">>>>

NetworkDeliverReport ==
  <<<<"align", "">>, <<"has", "pid">>, <<"has", "dcs">>, <<"has", "text">>,
    <<"octet if", "pid">>, <<"octet if", "dcs">>, <<"data if", "text">>>>

NetworkSubmitReport ==
  <<<<"time", "time">>, <<"has", "pid">>, <<"has", "dcs">>, <<"has", "text">>,
    <<"octet if", "pid">>, <<"octet if", "dcs">>, <<"data if", "text">>>>

Writes ==
  [deliver |-> NetworkDelivers,
   submit |-> SubmitWrites,
   status |-> StatusReportWrites,
   command |-> CommandWrites,
   deliverReport |-> NetworkDeliverReport,
   submitReport |-> NetworkSubmitReport]

TypeCode == [deliver |-> 0, deliverReport |-> 0, submit |-> 1, submitReport |-> 1, status |-> 2, command |-> 2]

ScAddress(m) == SetAddress([bits |-> <<>>, mark |-> 0], m.sca, TRUE)

HexString(e) == AlignOctet(e).bits

(* The encoder after each field.                                           *)
Written(m) ==
  LET written[n \in 0 .. Len(Writes[m.type])] ==
        IF n = 0 THEN SetBits(ScAddress(m), Bits(TypeCode[m.type], 2))
        ELSE Encoded(written[n - 1], Writes[m.type][n], m)
  IN written
Encode(m) == HexString(Written(m)[Len(Writes[m.type])])

Octets(bits) == Len(bits) \div 8

-----------------------------------------------------------------------------
(* SMSDecoder: val is what was read last, has the fields that are announced, *)
(* ok whether the PDU was long enough.                                      *)

NewDecoder(bits) ==
  [bits |-> bits, at |-> 0, mark |-> 0, val |-> 0, has |-> {}, ok |-> TRUE, msg |-> <<>>]

NumberAt(bits, at, n) ==
  LET Part(k) == IF k <= n THEN bits[at + k] * Weights[k] ELSE 0
  IN Part(1) + Part(2) + Part(3) + Part(4) + Part(5) + Part(6) + Part(7) + Part(8)

GetMany(d, n, count) ==
  IF d.at + n * count > Len(d.bits) THEN [d EXCEPT !.ok = FALSE, !.val = <<>>]
  ELSE [d EXCEPT !.at = @ + n * count,
                 !.val = [i \in 1 .. count |-> NumberAt(d.bits, d.at + n * (i - 1), n)]]
FirstOf(d) == [d EXCEPT !.val = IF d.ok THEN @[1] ELSE 0]
GetBits(d, n) == FirstOf(GetMany(d, n, 1))

ToOctet(d) == [d EXCEPT !.at = @ + (-@ % 8)]
ToSeptet(d) == [d EXCEPT !.at = @ + ((d.mark - @) % 7)]
MarkedHere(d) == [d EXCEPT !.mark = d.at]
Marked(d) == MarkedHere(ToOctet(d))
GetOctet(d) == GetBits(ToOctet(d), 8)
GetOctets(d, count) == GetMany(ToOctet(d), 8, count)
(* The second half of an octet is left out when it is 15.                   *)
Rising(S) ==
  CHOOSE list \in [1 .. Cardinality(S) -> S] :
    \A i, j \in 1 .. Cardinality(S) : i < j => list[i] < list[j]
DigitsAt(digits) == {i \in 1 .. Len(digits) : i % 2 = 1 \/ digits[i] # 15}
WithoutFiller(d) ==
  [d EXCEPT !.val = [i \in 1 .. Cardinality(DigitsAt(@)) |-> @[Rising(DigitsAt(@))[i]]]]
GetSemiOctets(d, count) == ToOctet(WithoutFiller(GetMany(ToOctet(d), 4, count)))
InLatin1(d) == [d EXCEPT !.val = [i \in DOMAIN @ |-> GsmToLatin1[@[i]]]]
GetString(d, count) == InLatin1(GetMany(ToSeptet(d), 7, count))

(* An address is read from its size on, each step with what is known before. *)
AddressOf(d, plan, type) == [d EXCEPT !.val = [type |-> type, plan |-> plan, number |-> @]]
FromType(d, sca, size, plan) ==
  AddressOf(IF d.val = Alphanumeric THEN ToOctet(GetString(Marked(d), (size * 4) \div 7))
            ELSE GetSemiOctets(d, IF sca THEN (size - 1) * 2 ELSE size), plan, d.val)
FromPlan(d, sca, size) == FromType(GetBits(d, 3), sca, size, d.val)
FromSize(d, sca) ==
  IF sca /\ d.val = 0 THEN [d EXCEPT !.val = NoSca] ELSE FromPlan(GetBits(d, 4), sca, d.val)
GetAddress(d, sca) == FromSize(GetOctet(d), sca)

(* Six numbers of two digits, the low digit after the high one, and the zone. *)
TimestampOf(d) ==
  [d EXCEPT !.val =
     IF ~d.ok THEN 0
     ELSE [digits |-> [i \in 1 .. 6 |-> @[2 * i - 1] * 10 + @[2 * i]],
           zone |-> [minutes |-> ((@[13] % 8) * 10 + @[14]) * 15, negative |-> @[13] < 8]]]
GetTimestamp(d) == TimestampOf(GetMany(ToOctet(d), 4, 14))

Relative(d) == [d EXCEPT !.val = [format |-> 2, relative |-> @]]
Absolute(d) == [d EXCEPT !.val = [format |-> 3, absolute |-> @]]
GetTimePeriod(d, format) ==
  CASE format = 0 -> [d EXCEPT !.val = [format |-> 0]]
    [] format = 2 -> Relative(GetOctet(d))
    [] format = 3 -> Absolute(GetTimestamp(d))
    [] OTHER -> [d EXCEPT !.ok = FALSE]

(* As many octets as the first of them says.                               *)
ThatMany(d) == GetOctets(d, d.val)
GetCounted(d) == ThatMany(GetOctet(d))

Put(msg, name, value) ==
  [x \in DOMAIN msg \cup {name} |-> IF x = name THEN value ELSE msg[x]]
Keep(d, name) == [d EXCEPT !.msg = Put(@, name, d.val)]

TextOf(d, length) ==
  IF ~d.ok THEN d
  ELSE Keep(IF DefaultAlphabet(d.msg) THEN GetString(d, (length - HeaderLength(d.msg)) % 256)
            ELSE GetOctets(d, (length - HeaderLength(d.msg)) % 256), "text")
FromLength(d) ==
  TextOf(IF "header" \in d.has THEN Keep(GetCounted(Marked(d)), "header") ELSE Marked(d), d.val)
GetUserData(d) == FromLength(GetOctet(d))

Announces(d, name) == [d EXCEPT !.has = IF d.val = 1 THEN @ \cup {name} ELSE @]

Decoded(d, field) ==
  LET op == field[1]
      name == field[2]
  IN CASE ~d.ok -> d
       [] op = "align" /\ d.ok -> ToOctet(d)
       [] op = "spare" /\ d.ok -> GetBits(d, 1)
       [] op = "bit" /\ d.ok -> Keep(GetBits(d, 1), name)
       [] op = "2 bits" /\ d.ok -> Keep(GetBits(d, 2), name)
       [] op = "has" /\ d.ok ->
            Announces(GetBits(d, 1), name)
       [] op = "octet" /\ d.ok -> Keep(GetOctet(d), name)
       [] op = "octet if" /\ d.ok -> IF name \in d.has THEN Keep(GetOctet(d), name) ELSE d
       [] op = "address" /\ d.ok -> Keep(GetAddress(d, FALSE), name)
       [] op = "time" /\ d.ok -> Keep(GetTimestamp(d), name)
       [] op = "period" /\ d.ok -> Keep(GetTimePeriod(d, d.msg.format), name)
       [] op = "dropped" /\ d.ok -> Keep([GetCounted(d) EXCEPT !.val = <<>>], name)
       [] op = "data" /\ d.ok -> GetUserData(d)
       [] op = "data if" /\ d.ok -> IF name \in d.has THEN GetUserData(d) ELSE d

(* The constructor of each class from a PDU.  The data of a command are     *)
(* read and forgotten.                                                     *)
DeliverReads ==
  <<<<"bit", "more">>, Spare, Spare, <<"bit", "report">>, <<"has", "header">>, <<"bit", "reply">>,
    <<"address", "address">>, <<"octet", "pid">>, <<"octet", "dcs">>, <<"time", "time">>,
    <<"data", "text">>>>

SubmitReads ==
  <<<<"bit", "reject">>, <<"2 bits", "format">>, <<"bit", "report">>, <<"has", "header">>,
    <<"bit", "reply">>, <<"octet", "reference">>, <<"address", "address">>, <<"octet", "pid">>,
    <<"octet", "dcs">>, <<"period", "validity">>, <<"data", "text">>>>

StatusReportReads ==
  <<<<"bit", "more">>, Spare, Spare, <<"bit", "qualifier">>, <<"octet", "reference">>,
    <<"address", "address">>, <<"time", "time">>, <<"time", "discharge">>, <<"octet", "status">>>>

CommandReads ==
  <<Spare, Spare, Spare, <<"bit", "report">>, <<"octet", "reference">>, <<"octet", "pid">>,
    <<"octet", "command">>, <<"octet", "message">>, <<"address", "address">>, <<"dropped", "data">>>>

DeliverReportReads ==
  <<<<"align", "">>, <<"has", "pid">>, <<"has", "dcs">>, <<"has", "text">>,
    <<"octet if", "pid">>, <<"octet if", "dcs">>, <<"data if", "text">>>>

SubmitReportReads ==
  <<<<"time", "time">>, <<"has", "pid">>, <<"has", "dcs">>, <<"has", "text">>,
    <<"octet if", "pid">>, <<"octet if", "dcs">>, <<"data if", "text">>>>

Reads ==
  [deliver |-> DeliverReads,
   submit |-> SubmitReads,
   status |-> StatusReportReads,
   command |-> CommandReads,
   deliverReport |-> DeliverReportReads,
   submitReport |-> SubmitReportReads]

(* The class that is chosen by the code and the direction, which some phones *)
(* (_wrongSMSStatusCode) report wrongly.                                    *)
TypeOf(code, fromSC, wrong) ==
  CASE code = 0 -> IF fromSC THEN "deliver" ELSE "deliverReport"
    [] code = 2 -> IF fromSC THEN "status" ELSE "command"
    [] code = 1 -> IF fromSC /\ ~wrong THEN "submitReport" ELSE "submit"
    [] OTHER -> "unhandled"

ReadAll(d, fields) ==
  LET read[n \in 0 .. Len(fields)] == IF n = 0 THEN d ELSE Decoded(read[n - 1], fields[n])
  IN read
FromClass(d, type) ==
  IF ~d.ok \/ type = "unhandled" THEN [ok |-> FALSE]
  ELSE ReadAll([d EXCEPT !.msg = Put(@, "type", type)], Reads[type])[Len(Reads[type])]
FromCode(d, fromSC, wrong) == FromClass(d, TypeOf(d.val, fromSC, wrong))
Decode(bits, fromSC, wrong) ==
  FromCode(GetBits(Keep(GetAddress(NewDecoder(bits), TRUE), "sca"), 2), fromSC, wrong)

-----------------------------------------------------------------------------
(* The way of a message.  Nothing is kept from one to the next, so that one   *)
(* is enough.                                                              *)

NoTrip == [meant |-> NoPdu, read |-> NoPdu]
PduInit == pduWire = NoPdu /\ pduTrip = NoTrip

(* A message as the network keeps it: with the characters that it has, and   *)
(* without what a program leaves out.                                       *)
Meant(m) ==
  IF "text" \in DOMAIN m /\ DefaultAlphabet(m) THEN [m EXCEPT !.text = Spelled(@)] ELSE m

SubmitMessage(number, text) ==
  [type |-> "submit", sca |-> NoSca, reject |-> 1, format |-> 2, report |-> 0, reply |-> 0, reference |-> 0,
   address |-> Address(number), pid |-> 0, dcs |-> 0, validity |-> [format |-> 2, relative |-> 168],
   text |-> text]

(* send: the length that the modem is told leaves out the address of the     *)
(* centre.                                                                  *)
Announced(m) == Octets(Encode(m)) - Octets(ScAddress(m).bits)

(* sendSMSs, of one message: a text that is too long throws.                 *)
PduProgramSends ==
  /\ pduWire = NoPdu /\ pduTrip = NoTrip
  /\ \E number \in PduNumbers, text \in PduTexts :
       LET m == SubmitMessage(number, text) IN
       /\ Len(text) <= PduLongest
       /\ pduWire' = [bits |-> Encode(m), way |-> "out", meant |-> Meant(m), announced |-> Announced(m)]
  /\ UNCHANGED pduTrip

(* The modem takes as many octets as it was told of.                        *)
PduNetworkTakes ==
  /\ pduWire # NoPdu /\ pduWire.way = "out"
  /\ LET centre == Octets(ScAddress([sca |-> NoSca]).bits)
         taken == SubSeq(pduWire.bits, 1, 8 * (centre + pduWire.announced))
         d == Decode(taken, FALSE, FALSE)
     IN pduTrip' = [meant |-> pduWire.meant, read |-> IF d.ok THEN d.msg ELSE NoPdu]
  /\ pduWire' = NoPdu

(* A message of the network or of a store of the modem, which may leave out  *)
(* the address of the centre, and an answer to a message that was sent.      *)
(* Some phones report every message as received.                            *)
PduModemHolds ==
  /\ pduWire = NoPdu /\ pduTrip = NoTrip
  /\ \E m \in PduIncoming, prefix \in BOOLEAN, wrong \in BOOLEAN :
       LET received == m.type \in {"deliver", "status", "submitReport"}
           bits == Encode(m)
       IN /\ ~prefix => m.sca = NoSca
          /\ wrong => m.type \in {"deliver", "status", "submitReport", "submit"}
          /\ pduWire' = [bits |-> IF prefix THEN bits ELSE SubSeq(bits, 9, Len(bits)), prefix |-> prefix,
                         way |-> IF m.type = "submitReport" THEN "answer" ELSE "in",
                         fromSC |-> received \/ wrong, wrong |-> wrong, meant |-> Meant(m)]
  /\ UNCHANGED pduTrip

(* An address of the centre that the phone left out is put back.              *)
Whole(pdu, prefix) == IF prefix THEN pdu ELSE Bits(0, 8) \o pdu

(* readEntry, and send for the answer, which knows nothing of the phone.     *)
PduProgramReads ==
  /\ pduWire # NoPdu /\ pduWire.way \in {"in", "answer"}
  /\ LET d == Decode(Whole(pduWire.bits, pduWire.prefix), pduWire.fromSC,
                     pduWire.wrong /\ pduWire.way = "in")
     IN pduTrip' = [meant |-> pduWire.meant, read |-> IF d.ok THEN d.msg ELSE NoPdu]
  /\ pduWire' = NoPdu

PduNext == PduProgramSends \/ PduNetworkTakes \/ PduModemHolds \/ PduProgramReads
PduSpec == PduInit /\ [][PduNext]_pduVars

-----------------------------------------------------------------------------
(* Whoever reads a message reads what its writer meant: the number, the      *)
(* text and every other field, for texts and headers of every length modulo  *)
(* eight, with or without the address of the centre, and no more of the PDU  *)
(* than was announced to the modem.                                         *)
PduReadAsMeant == pduTrip.read = pduTrip.meant

(* Not so for what the library writes itself.                               *)
LibraryWrites ==
  [deliver |-> DeliverWrites, deliverReport |-> DeliverReportWrites, submitReport |-> SubmitReportWrites]

(* The encoder starts with a mark that nobody has set.                       *)
LibraryEncode(m, mark) ==
  LET fields == LibraryWrites[m.type]
      first == SetBits(ScAddress(m), Bits(TypeCode[m.type], 2))
      written[n \in 0 .. Len(fields)] ==
        IF n = 0 THEN [first EXCEPT !.mark = mark] ELSE Encoded(written[n - 1], fields[n], m)
  IN HexString(written[Len(fields)])

ReadsBack(m, mark) ==
  LET d == Decode(LibraryEncode(m, mark), m.type # "deliverReport", FALSE)
  IN d.ok /\ d.msg = Meant(m)

(* "divided by 7 is number of 7-bit characters", gsm_sms_codec.cc:422: the   *)
(* length of a name of seven characters, as setAddress writes it (:588), is  *)
(* that of six.                                                            *)
NamesReadBack ==
  \A m \in PduIncoming, n \in 1 .. 8 :
    m.type = "deliver" =>
      ReadsBack([m EXCEPT !.address = [type |-> Alphanumeric, plan |-> 0, number |-> [i \in 1 .. n |-> 65]]], 0)

(* "remember starting point of septets (important for alignSeptet())",       *)
(* gsm_sms_codec.h:226: the two reports do not, and their text starts       *)
(* wherever the memory of the encoder has it.                               *)
ReportsReadBack ==
  \A m \in PduIncoming, mark \in 0 .. 6 :
    m.type \in {"deliverReport", "submitReport"} => ReadsBack(m, mark)
=============================================================================
