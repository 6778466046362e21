------------------------------- MODULE RSSCodec -------------------------------
(***************************************************************************)
(* RSSObject, the objects every message, binding and client record is made *)
(* of, and their way through a datagram.                                   *)
(*                                                                         *)
(* An object has the fields its entry of structs[] describes: char, word   *)
(* and int are stored as an unsigned long, dyn is a byte string, "t[]" is  *)
(* an array of objects of type t, and any other type is a nested object.   *)
(* Objects are copied, compared and assigned through their encoding alone. *)
(* A message is encoded into the data of a packet_t, which is encoded into *)
(* a datagram; the receiver parses the packet_t, and then its data as the  *)
(* type its cmd calls for.                                                 *)
(*                                                                         *)
(* encode() and parse() go through an object depth first.  A step is one   *)
(* field; todo holds the fields still to come, those of a nested object in *)
(* the place of the object, and once the size of an array is known, those  *)
(* of its elements.  An object is the sequence of the values of its fields *)
(* in this order, the value of an array being its size.  No nested type    *)
(* has an int, so that the count of the bytes left, which a nested parse() *)
(* keeps for itself, is the one that its caller goes on with, and none     *)
(* begins with an array, so that an element is refused where no byte is    *)
(* left whether parse() asks before the element or in it.                  *)
(*                                                                         *)
(* A byte has ByteBase values, so that the widths of the fields matter in  *)
(* small instances.  parse() keeps the number of bytes left, len, apart    *)
(* from its place in the data.  Where they part it reads past the end, and *)
(* goes on with what it finds in the memory behind, which may be anything. *)
(***************************************************************************)
EXTENDS Naturals, SequencesExt

CONSTANTS ByteBase,       \* 256 in the code
          Types,          \* the types of the messages sent
          Chars, Words, Ints, Strings,  \* values of fields
          MaxCount,       \* bound: elements of an array
          Beyond,         \* what the memory behind the data may hold
          MaxDatagram     \* what sendto() accepts, less than buff_maxlen

B2 == ByteBase * ByteBase
B4 == B2 * B2
Byte == 0 .. ByteBase - 1

\* A length is an int: no string and no datagram is too long for one.
ASSUME ByteAssumption == ByteBase \in Nat /\ ByteBase > 1
ASSUME ValueAssumption ==
  /\ Chars \subseteq Byte /\ Words \subseteq 0 .. B2 - 1 /\ Ints \subseteq 0 .. B4 - 1
  /\ \A s \in Strings : s \in Seq(Byte) /\ Len(s) < B4
  /\ MaxCount \in Nat /\ MaxCount < B4
  /\ MaxDatagram \in Nat /\ MaxDatagram < B4
ASSUME BeyondAssumption == \A b \in Beyond : b \in Seq(Byte) /\ Len(b) >= 4

(* Types of fields.  Every field begins with a number of size bytes: the   *)
(* length of a dyn (dyn_t) and the size of an array (arr_t) are numbers.   *)
char == [kind |-> "char", size |-> 1, row |-> << >>]
word == [kind |-> "word", size |-> 2, row |-> << >>]
int == [kind |-> "int", size |-> 4, row |-> << >>]
dyn == [kind |-> "dyn", size |-> 4, row |-> << >>]
array(row) == [kind |-> "array", size |-> 4, row |-> row]

address_t == <<char, dyn>>
encrypted_packet_t == <<char, dyn>>
chain_row == address_t \o encrypted_packet_t
chains_t == <<array(chain_row)>>
packet_t == <<char, dyn>>

structs ==
  [address_t |-> address_t, encrypted_packet_t |-> encrypted_packet_t,
   chain_row |-> chain_row, chains_t |-> chains_t,
   getChainsRequest |-> address_t,
   getChainsResponse |-> <<char, dyn, char>> \o address_t \o chain_row,
   setChainsRequest |-> address_t \o <<dyn, char>> \o chains_t \o <<dyn>>,
   setChainsResponse |-> <<char>> \o address_t,
   onDeviceConnectRequest |-> <<int>>,
   onDeviceConnectResponse |-> <<char>> \o address_t,
   getDevicesRequest |-> <<word, word, int>>,
   getDevicesResponse |-> <<int, array(address_t)>>,
   data_packet_t |-> chain_row \o <<dyn>>,
   data_packet_encrypted_data |-> address_t \o <<dyn, char>>]

ASSUME TypeAssumption == Types \subseteq DOMAIN structs

\* The values that programs give a field.
Values(f) ==
  CASE f.kind = "char" -> Chars
    [] f.kind = "word" -> Words
    [] f.kind = "int" -> Ints
    [] f.kind = "dyn" -> Strings
    [] f.kind = "array" -> 0 .. MaxCount

Repeated(row, n) ==
  [k \in 1 .. n * Len(row) |-> row[((k - 1) % Len(row)) + 1]]

\* The fields to come after one whose value is v.
Rest(fields, v) ==
  IF Head(fields).kind = "array" THEN Repeated(Head(fields).row, v) \o Tail(fields)
  ELSE Tail(fields)

-----------------------------------------------------------------------------
(* Numbers in memory, least significant byte first.                        *)

Bytes(n, size) ==
  LET second == n \div ByteBase
      third == second \div ByteBase
      fourth == third \div ByteBase
  IN SubSeq(<<n % ByteBase, second % ByteBase, third % ByteBase, fourth % ByteBase>>, 1, size)

UInt(bytes) ==
  LET byte(k) == IF k <= Len(bytes) THEN bytes[k] ELSE 0
  IN byte(1) + ByteBase * (byte(2) + ByteBase * (byte(3) + ByteBase * byte(4)))

\* (long)*((int*)data): an int is sign-extended to the eight bytes stored.
SignExtended(n) == IF n >= B4 \div 2 THEN n + B4 * (B4 - 1) ELSE n

-----------------------------------------------------------------------------
(* One turn of the loops of RSSObject.                                     *)

EncodeField(f, v) ==
  IF f.kind = "dyn" THEN Bytes(Len(v), f.size) \o v ELSE Bytes(v, f.size)

(* A parse in progress: "ok", or "error" (it returned -1), its place, the  *)
(* bytes it believes are left, and what it has just parsed.  s is memory,  *)
(* and nothing but len tells where the data end in it.                     *)
Parsed(pos, len, value) == [status |-> "ok", pos |-> pos, len |-> len, value |-> value]
Failed == [status |-> "error", pos |-> 0, len |-> 0, value |-> << >>]
Begin(s) == Parsed(0, Len(s), << >>)

Take(s, p, n) ==
  IF p.len < n THEN Failed
  ELSE Parsed(p.pos + n, p.len - n, SubSeq(s, p.pos + 1, p.pos + n))

Then(p, q) == IF p.status = "ok" THEN q ELSE p

TakeNumber(s, p, n) ==
  LET q == Take(s, p, n) IN Then(q, Parsed(q.pos, q.len, UInt(q.value)))

\* The branch for int leaves len as it was.
TakeInt(s, p) ==
  LET q == TakeNumber(s, p, 4) IN Then(q, Parsed(q.pos, p.len, SignExtended(q.value)))

\* Mutation: a string is cut with the data.
TakeDynCut(s, p) ==
  LET q == TakeNumber(s, p, 4) IN
    Then(q, Take(s, q, IF q.value < q.len THEN q.value ELSE q.len))

\* Mutation: the length itself is not taken from len.
TakeDynUncounted(s, p) ==
  LET q == TakeNumber(s, p, 4) IN Then(q, Take(s, Parsed(q.pos, p.len, q.value), q.value))

TakeDyn(s, p) ==
  LET q == TakeNumber(s, p, 4) IN Then(q, Take(s, q, q.value))

\* What a string becomes; mutation: it is not cleared.
ReplacedAfter(old, new) == old \o new
Replaced(old, new) == new

\* parse() of one field into an object whose string, if it is one, is old.
ParseField(f, old, s, p) ==
  CASE f.kind = "int" -> TakeInt(s, p)
    [] f.kind = "dyn" -> LET q == TakeDyn(s, p) IN
                           Then(q, Parsed(q.pos, q.len, Replaced(old, q.value)))
    [] f.kind \in {"char", "word", "array"} -> TakeNumber(s, p, f.size)

\* The packet_t around a message, and what is found in one.
Framed(cmd, s) == EncodeField(char, cmd) \o EncodeField(dyn, s)
Unframed(s) ==
  LET q == ParseField(char, << >>, s, Begin(s)) IN Then(q, ParseField(dyn, << >>, s, q))

-----------------------------------------------------------------------------
(* The way of one message, and what is made of the object it becomes.      *)

VARIABLES
  type,     \* the type of the message
  phase,    \* where the message is
  todo,     \* the fields a loop has still to do
  message,  \* history: the values of the object sent
  wire,     \* what the sender's encode() makes of it
  script,   \* history: for each value, the fields to come and its place
  payload,  \* history: what the sender put into the packet_t
  data,     \* the datagram, the data of the packet_t, the encoding of a copy
  parser,   \* parse() in progress
  object,   \* what getLastPackedDataAsType() returns, and its copies
  source,   \* the values of the object being copied, still to be encoded
  used      \* whether the object parsed into has been in use

vars == <<type, phase, todo, message, wire, script, payload, data, parser,
          object, source, used>>

Init ==
  /\ type \in Types /\ phase = "encode" /\ todo = structs[type]
  /\ message = << >> /\ wire = << >>
  /\ script = <<[todo |-> structs[type], pos |-> 0]>>
  /\ payload = << >> /\ data = << >> /\ parser = Begin(<< >>)
  /\ object = << >> /\ source = << >> /\ used = FALSE

\* A turn of encode(), in sendToSockAddr().
Encode(v) ==
  /\ phase = "encode" /\ todo # << >>
  /\ message' = Append(message, v)
  /\ wire' = wire \o EncodeField(Head(todo), v)
  /\ todo' = Rest(todo, v)
  /\ script' = Append(script, [todo |-> todo', pos |-> Len(wire')])
  /\ UNCHANGED <<type, phase, payload, data, parser, object, source, used>>

\* sendto() refuses what is too long, and nobody asks it.
Transmit(datagram) ==
  IF Len(datagram) <= MaxDatagram
  THEN phase' = "sent" /\ data' = datagram
  ELSE phase' = "dropped" /\ UNCHANGED data

\* The rest of sendToSockAddr().
Send(cmd) ==
  /\ phase = "encode" /\ todo = << >>
  /\ payload' = wire
  /\ Transmit(Framed(cmd, wire))
  /\ UNCHANGED <<type, todo, message, wire, script, parser, object, source, used>>

\* External: a peer whose message ends early, in a packet_t that is right.
SendShort(cmd, n) ==
  /\ phase = "encode" /\ todo = << >>
  /\ payload' = SubSeq(wire, 1, n)
  /\ Transmit(Framed(cmd, SubSeq(wire, 1, n)))
  /\ UNCHANGED <<type, todo, message, wire, script, parser, object, source, used>>

\* receivePacket(): an empty datagram, or one that is no packet_t, is
\* passed over.
ReceivePacket ==
  /\ phase = "sent"
  /\ LET p == Unframed(data)
     IN IF data # << >> /\ p.status = "ok"
        THEN phase' = "received" /\ data' = p.value
        ELSE phase' = "dropped" /\ UNCHANGED data
  /\ UNCHANGED <<type, todo, message, wire, script, payload, parser, object, source, used>>

ParseBegin ==
  /\ phase' = "parse" /\ todo' = structs[type]
  /\ parser' = Begin(data) /\ object' = << >>

\* getLastPackedDataAsType() parses into a fresh object.
Unpack ==
  /\ phase = "received"
  /\ ParseBegin
  /\ UNCHANGED <<type, message, wire, script, payload, data, source, used>>

\* A turn of parse().  When it fails, the object is deleted.
Parse(old, behind) ==
  /\ phase = "parse" /\ todo # << >>
  /\ parser' = ParseField(Head(todo), old, data \o behind, parser)
  /\ \/ /\ parser'.status = "ok"
        /\ object' = Append(object, parser'.value) /\ todo' = Rest(todo, parser'.value)
        /\ UNCHANGED phase
     \/ /\ parser'.status # "ok"
        /\ phase' = "null" /\ UNCHANGED <<object, todo>>
  /\ UNCHANGED <<type, message, wire, script, payload, data, source, used>>

\* parse() has gone past the end of the data.
Overrun == parser.pos > Len(data)

Unpacked ==
  /\ phase = "parse" /\ todo = << >>
  /\ phase' = "unpacked"
  /\ UNCHANGED <<type, todo, message, wire, script, payload, data, parser,
                 object, source, used>>

\* An object partly made of what lies behind the data is copied as any other
\* with its values; the way of a message ends there.
CopyBegin(intoUsed) ==
  /\ phase = "unpacked" /\ ~Overrun
  /\ phase' = "copy" /\ todo' = structs[type]
  /\ source' = object /\ data' = << >> /\ used' = intoUsed
  /\ UNCHANGED <<type, message, wire, script, payload, parser, object>>

\* copy(), assign() after its clear(): into a fresh object.
Keep == CopyBegin(FALSE)

\* apply_and_route_rss_packet(): a chain is parsed into the one it was
\* found in.
Peel == type = "chain_row" /\ CopyBegin(TRUE)

\* A turn of encode(), of an object that is copied.
EncodeCopy ==
  /\ phase = "copy" /\ todo # << >>
  /\ data' = data \o EncodeField(Head(todo), Head(source))
  /\ todo' = Rest(todo, Head(source)) /\ source' = Tail(source)
  /\ UNCHANGED <<type, phase, message, wire, script, payload, parser, object, used>>

ParseCopy ==
  /\ phase = "copy" /\ todo = << >>
  /\ ParseBegin
  /\ UNCHANGED <<type, message, wire, script, payload, data, source, used>>

Next ==
  \/ todo # << >> /\ \E v \in Values(Head(todo)) : Encode(v)
  \/ \E cmd \in Chars : Send(cmd) \/ \E n \in 0 .. Len(wire) - 1 : SendShort(cmd, n)
  \/ ReceivePacket \/ Unpack
  \/ \E old \in IF used THEN Strings ELSE {<< >>}, behind \in Beyond : Parse(old, behind)
  \/ Unpacked \/ Keep \/ Peel \/ EncodeCopy \/ ParseCopy

Spec == Init /\ [][Next]_vars

-----------------------------------------------------------------------------
(* What must hold.                                                         *)

\* The field that the i-th value of the message belongs to.
FieldAt(i) == Head(script[i].todo)
SignExtendedValue(f, v) == IF f.kind = "int" THEN SignExtended(v) ELSE v

\* The sender put less than the message into the packet_t.
Short == payload # wire

(* A message that arrives is the message that was sent, through the two    *)
(* encodings and every copy the program makes of it: apart from the sign   *)
(* of an int their values are equal, and compare(), which looks at their   *)
(* encodings, tells them not apart.  None that arrives whole is refused,   *)
(* or read past its end.                                                   *)
ArrivesAsSent ==
  /\ phase = "unpacked" /\ ~Short =>
       object = [i \in 1 .. Len(message) |-> SignExtendedValue(FieldAt(i), message[i])]
  /\ phase = "copy" /\ todo = << >> => data = wire
  /\ phase = "null" \/ (phase \in {"parse", "unpacked"} /\ Overrun) => Short

(* A message that ends early, wherever it does, is refused, unless parse() *)
(* has gone past its end; and it never does when the int of the type, if   *)
(* it has one, is the last field.                                          *)
IntIsLast(fields) == \A i \in 1 .. Len(fields) - 1 : fields[i] # int

ShortIsRefused ==
  /\ phase = "unpacked" /\ Short => Overrun
  /\ phase \in {"parse", "unpacked"} /\ Overrun => ~IntIsLast(structs[type])

(* parse() never goes further past the end of the data than the four bytes *)
(* of one int, whatever lengths and sizes it finds there: no type has two. *)
OverrunIsBounded == phase \in {"parse", "unpacked"} => parser.pos <= Len(data) + 4

(* What the comment in getLastPackedDataAsType() says: it returns an       *)
(* object, or NULL "if unpack error".                                      *)
NullOrObject == phase = "unpacked" => ~Short
=============================================================================
