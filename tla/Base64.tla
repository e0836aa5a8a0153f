-------------------------------- MODULE Base64 --------------------------------
(***************************************************************************)
(* The two base64 decoders of the core (rust/src/base64.rs) and the Java   *)
(* implementation's one decoder in its two spellings (StrictBase64.java),  *)
(* over every text a client can build symbol by symbol.                    *)
(*                                                                         *)
(* The engines themselves are libraries; what the code adds is how they    *)
(* are configured and what is refused around them.  Widths are scaled, the *)
(* ratio kept: a symbol carries W bits and a byte has 4 * W \div 3 of      *)
(* them, so four symbols are three bytes, two are one and three are two.   *)
(***************************************************************************)
EXTENDS Integers, Sequences, FiniteSets

CONSTANTS
    W,           \* bits of a symbol (6), a multiple of 3
    Symbols,     \* the symbols a text is built from
    MaxLength    \* bound: the length of a text

Base64Assumption == W \in Nat \ {0} /\ W % 3 = 0 /\ MaxLength \in Nat

(***************************************************************************)
(* Symbols: a value below 2^W; the last two values are written differently *)
(* in base64url, as their negatives; Pad; Other for any other character.   *)
(***************************************************************************)
Values == 0..(2^W - 1)
Special == {2^W - 2, 2^W - 1}
STANDARD == Values
URL_SAFE == (Values \ Special) \cup {-v : v \in Special}
Pad == 2^W
Other == 2^W + 1

SymbolsAssumption == Symbols \subseteq Values \cup {-v : v \in Special} \cup {Pad, Other}

VARIABLE text

Refused == <<-1>>
ByteBits == (4 * W) \div 3

Value(s) == IF s < 0 THEN -s ELSE s
-----------------------------------------------------------------------------
(***************************************************************************)
(* The bits of a run of symbols, and their bytes: as many as they fill.    *)
(***************************************************************************)
Bit(data, k) == (Value(data[(k \div W) + 1]) \div 2^(W - 1 - (k % W))) % 2

ByteAt(data, i) ==
    LET Sum[k \in 0..ByteBits] ==
          IF k = 0 THEN 0 ELSE 2 * Sum[k - 1] + Bit(data, i * ByteBits + k - 1)
    IN Sum[ByteBits]

BytesOf(data) == [i \in 1..((Len(data) * W) \div ByteBits) |-> ByteAt(data, i - 1)]

UnusedBits(data) == (((Len(data) * W) \div ByteBits) * ByteBits)..(Len(data) * W - 1)
ZeroUnused(data) == \A k \in UnusedBits(data) : Bit(data, k) = 0

Data(t) == SelectSeq(t, LAMBDA s : s # Pad)
PadsOf(t) == Len(t) - Len(Data(t))
PadsLast(t) == \A i \in 1..Len(Data(t)) : t[i] # Pad
CanonicalPads(n) == (4 - (n % 4)) % 4

(***************************************************************************)
(* The decoder of the base64 crate, as configured: the alphabet, whether   *)
(* padding is required or forbidden, whether unused bits may be set.       *)
(***************************************************************************)
Engine(t, alphabet, padded, trailing_bits) ==
    LET data == Data(t)
    IN IF /\ PadsLast(t) /\ \A i \in DOMAIN data : data[i] \in alphabet
          /\ Len(data) % 4 # 1
          /\ PadsOf(t) = IF padded THEN CanonicalPads(Len(data)) ELSE 0
          /\ trailing_bits \/ ZeroUnused(data)
       THEN BytesOf(data)
       ELSE Refused

decode_receipt_base64(t) == IF t = <<>> THEN Refused ELSE Engine(t, STANDARD, TRUE, TRUE)

decode_base64url_strict(t) == Engine(t, URL_SAFE, FALSE, FALSE)

(***************************************************************************)
(* java.util.Base64: padding may be left out, but what is there is         *)
(* canonical; unused bits are ignored.                                     *)
(***************************************************************************)
JdkDecode(t, alphabet) ==
    LET data == Data(t)
    IN IF /\ PadsLast(t) /\ \A i \in DOMAIN data : data[i] \in alphabet
          /\ Len(data) % 4 # 1
          /\ PadsOf(t) \in {0, CanonicalPads(Len(data))}
       THEN BytesOf(data)
       ELSE Refused

(***************************************************************************)
(* The encoder without padding: the symbols that hold a byte's bits, the   *)
(* bits past the last byte zero.                                           *)
(***************************************************************************)
ByteBit(bytes, k) ==
    IF k >= Len(bytes) * ByteBits THEN 0
    ELSE (bytes[(k \div ByteBits) + 1] \div 2^(ByteBits - 1 - (k % ByteBits))) % 2

EncodeUrl(bytes) ==
    LET Sym(i) == LET Sum[k \in 0..W] == IF k = 0 THEN 0 ELSE 2 * Sum[k - 1] + ByteBit(bytes, i * W + k - 1)
                  IN Sum[W]
    IN [i \in 1..((Len(bytes) * ByteBits + W - 1) \div W) |->
          IF Sym(i - 1) \in Special THEN -Sym(i - 1) ELSE Sym(i - 1)]

StrictBase64_standard_unsized(t) == IF t = <<>> THEN Refused ELSE JdkDecode(t, STANDARD)

StrictBase64_standard(t) ==
    IF t = <<>> \/ Len(t) % 4 # 0 THEN Refused ELSE JdkDecode(t, STANDARD)

StrictBase64_url(t) ==
    LET decoded == JdkDecode(t, URL_SAFE)
    IN IF decoded # Refused /\ t = EncodeUrl(decoded) THEN decoded ELSE Refused
-----------------------------------------------------------------------------
Init == text = <<>>
Append1 == Len(text) < MaxLength /\ \E s \in Symbols : text' = Append(text, s)
Next == Append1
Spec == Init /\ [][Next]_text
-----------------------------------------------------------------------------
(***************************************************************************)
(* The core and the Java implementation, which come to their rules by      *)
(* different means (an engine's switches; a length check and a re-encode   *)
(* around a lenient decoder), take the same texts and read the same bytes. *)
(***************************************************************************)
DecodersAgree ==
    /\ decode_receipt_base64(text) = StrictBase64_standard(text)
    /\ decode_base64url_strict(text) = StrictBase64_url(text)
=============================================================================
