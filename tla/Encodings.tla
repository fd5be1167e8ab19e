------------------------------- MODULE Encodings -------------------------------
(***************************************************************************)
(* Encoded strings like ak_... and tx_... (src/src/utils/encoder.ts), the  *)
(* checks of them (isEncoded and others of src/src/utils/crypto.ts), and   *)
(* the lengths before a message that is hashed. A string is [parts: what   *)
(* is between its underscores]; the second part of an encoded one is       *)
(* [base, payload, checksum], and a payload [bytes: how many, id: which].  *)
(***************************************************************************)
EXTENDS Integers, Sequences

CONSTANTS
    Undecodable,         \* an exception
    Payloads, Wanted, \* what is encoded, and the types that a reader expects
    ByteValues,     \* how many values a byte has, 256 reduced
    Lengths
Values2 == ByteValues * ByteValues
Values4 == Values2 * Values2
Values8 == Values4 * Values4
\* What is encoded, and what is read, is shorter than a number of 8 bytes can tell.
ASSUME EncodingsAssumption ==
    /\ ByteValues \in Nat \ (0 .. 4) /\ Lengths \subseteq 0 .. Values8 - 1
    /\ \A p \in Payloads : p.bytes \in 0 .. Values8 - 1
    /\ Undecodable \notin {"account_pubkey", "oracle_pubkey", "contract_pubkey", "channel"}

base64Types == {"cb", "ck", "cv", "tx", "ov", "or", "st", "pi", "ss", "cs", "ba"}
base58Types ==
    {"kh", "mh", "bf", "bx", "bs", "ch", "ct", "th", "ok", "oq", "ak", "sk", "sg", "cm", "pp", "nm"}
Encoding == base64Types \cup base58Types
byteSizeForType(type) ==
    CASE type = "sg" -> {64}
      [] type \in (base58Types \ {"nm"}) \cup {"st"} -> {32}
      [] OTHER -> Nat
ensureValidLength(payload, type) == payload.bytes \in byteSizeForType(type)

getChecksum(payload) == <<"checksum", payload>>
addChecksum(base, payload) == [base |-> base, payload |-> payload, checksum |-> getChecksum(payload)]
\* mutant: the checksum is cut off and not compared.
getPayload_Trusted(base, part) == part.payload
\* Read in another base, the characters are not the bytes that they were.
getPayload(base, part) ==
    IF part.base = base /\ part.checksum = getChecksum(part.payload) THEN part.payload ELSE Undecodable
parseType(prefix) ==
    IF prefix \in base64Types THEN "base64" ELSE IF prefix \in base58Types THEN "base58" ELSE Undecodable

encodeTo(payload, type) ==
    IF parseType(type) = Undecodable \/ ~ensureValidLength(payload, type) THEN Undecodable
    ELSE [parts |-> <<type, addChecksum(parseType(type), payload)>>]
decode(data) ==
    IF Len(data.parts) # 2 \/ parseType(data.parts[1]) = Undecodable THEN Undecodable
    ELSE LET payload == getPayload(parseType(data.parts[1]), data.parts[2]) IN
         IF payload = Undecodable \/ ~ensureValidLength(payload, data.parts[1]) THEN Undecodable ELSE payload

\* mutant: the type is compared before anything is decoded, and then that is enough.
ensureEncoded_Prefix(data, encodings) == data.parts[1] \in encodings
ensureEncoded(data, encodings) ==
    decode(data) # Undecodable /\ (encodings = {} \/ data.parts[1] \in encodings)
isEncoded(data, encodings) == ensureEncoded(data, encodings)
isAddressValid(data, encodings) ==
    decode(data) # Undecodable /\ data.parts[1] \in IF encodings = {} THEN {"ak"} ELSE encodings
getDefaultPointerKey(data) ==
    IF decode(data) = Undecodable THEN Undecodable
    ELSE CASE data.parts[1] = "ak" -> "account_pubkey"
           [] data.parts[1] = "ok" -> "oracle_pubkey"
           [] data.parts[1] = "ct" -> "contract_pubkey"
           [] data.parts[1] = "ch" -> "channel"
           [] OTHER -> Undecodable

\* The little-endian bytes of a number: what does not fit is lost.
Uint16(n) == <<n % ByteValues, (n \div ByteValues) % ByteValues>>
Uint32(n) == Uint16(n % Values2) \o Uint16((n \div Values2) % Values2)
Uint64(n) == Uint32(n % Values4) \o Uint32((n \div Values4) % Values4)
\* mutant: the first marker itself is written as a number.
encodeVarUInt_Marker(n) ==
    IF n <= ByteValues - 3 THEN <<n>>
    ELSE IF n < Values2 THEN <<ByteValues - 3>> \o Uint16(n)
    ELSE IF n < Values4 THEN <<ByteValues - 2>> \o Uint32(n)
    ELSE <<ByteValues - 1>> \o Uint64(n)
encodeVarUInt(n) ==
    IF n < ByteValues - 3 THEN <<n>>
    ELSE IF n < Values2 THEN <<ByteValues - 3>> \o Uint16(n)
    ELSE IF n < Values4 THEN <<ByteValues - 2>> \o Uint32(n)
    ELSE <<ByteValues - 1>> \o Uint64(n)
-----------------------------------------------------------------------------
(* A string goes from one who encodes it to one who expects some types, and  *)
(* changes on its way: another prefix, a part cut off, added or damaged.     *)

VARIABLES made, text
envars == <<made, text>>

EnInit == made \in [payload : Payloads, type : Encoding \cup {"xx"}] /\ text = Undecodable
Encode == /\ text = Undecodable /\ encodeTo(made.payload, made.type) # Undecodable
          /\ text' = encodeTo(made.payload, made.type) /\ UNCHANGED made
IsWhole == text # Undecodable /\ Len(text.parts) = 2
Retype == /\ IsWhole /\ \E type \in Encoding \cup {"xx"} : text' = [text EXCEPT !.parts[1] = type]
          /\ UNCHANGED made
Damage == /\ IsWhole /\ UNCHANGED made
          /\ \/ \E p \in Payloads : text' = [text EXCEPT !.parts[2].payload = p]
             \/ text' = [text EXCEPT !.parts = <<@[1]>>]
             \/ text' = [text EXCEPT !.parts = @ \o <<"extra">>]
EnNext == Encode \/ Retype \/ Damage
-----------------------------------------------------------------------------
(* Properties *)

\* Whatever was done to the string, what is decoded is what was encoded, and of the size of its type.
DecodedIsEncoded ==
    (text # Undecodable /\ decode(text) # Undecodable) =>
        decode(text) = made.payload /\ ensureValidLength(decode(text), text.parts[1])

\* One who asks for the types of a string before using it (for its default key of a pointer, say)
\* gets one that can be decoded, and isAddressValid never says otherwise.
CheckedCanBeUsed ==
    text # Undecodable => \A types \in Wanted :
        /\ isEncoded(text, types) => decode(text) # Undecodable
        /\ types # {} => (isAddressValid(text, types) <=> isEncoded(text, types))
        /\ (isEncoded(text, types) /\ types # {} /\ types \subseteq {"ak", "ok", "ct", "ch"}) =>
                getDefaultPointerKey(text) # Undecodable

\* A reader of bytes knows where the length before them ends: no other length starts with it.
StartsWith(a, b) == Len(b) <= Len(a) /\ \A i \in 1 .. Len(b) : a[i] = b[i]
LengthsAreApart ==
    text # Undecodable => \A n \in Lengths \ {made.payload.bytes} :
        LET a == encodeVarUInt(made.payload.bytes)  b == encodeVarUInt(n) IN
        ~StartsWith(a, b) /\ ~StartsWith(b, a)
=============================================================================
