----------------------------- MODULE UrlCoding -----------------------------
(***************************************************************************)
(* UrlEncode and UrlDecode (src/lib/net/coding/url.cpp).  A character is   *)
(* its byte, 0..255; where plain char is signed, the bytes from 128 on are *)
(* negative numbers.                                                       *)
(***************************************************************************)
EXTENDS Integers, SequencesExt

CONSTANTS
    Bytes,      \* the bytes texts are made of
    MaxText,    \* bound: the length of a text
    Junk        \* what an uninitialized unsigned short may hold

ASSUME UrlAssumption == Bytes \subseteq 0..255 /\ MaxText \in Nat /\ Junk \subseteq Nat

VARIABLES
    signedChar, \* is plain char signed in this build
    plain,      \* the text given to UrlEncode
    coded,      \* the text given to UrlDecode
    index,      \* where UrlDecode's loop is in it
    decoded,    \* UrlDecode's res
    urlStep     \* "start", "coded", "decoding", "decoded"

urlVars == <<signedChar, plain, coded, index, decoded, urlStep>>

Percent  == 37
Specials == {45, 95, 46, 126}
Unreserved == (48..57) \cup (65..90) \cup (97..122) \cup Specials

\* The hexadecimal digits of n at the places given by their weights, uppercase.
HexDigit(d)       == IF d < 10 THEN 48 + d ELSE 55 + d
Digits(n, places) == [i \in DOMAIN places |-> HexDigit((n \div places[i]) % 16)]
Two  == <<16, 1>>
Four == <<4096, 256, 16, 1>>
HexValue(c)       == CASE c \in 48..57  -> c - 48
                       [] c \in 65..70  -> c - 55
                       [] c \in 97..102 -> c - 87

\* static_cast<unsigned short>(curChar): a negative char becomes 0xFFxx.
Widened(b) == IF signedChar /\ b >= 128 THEN 65280 + b ELSE b

\* Fault: the width is not padded.
UnpaddedChar(b) ==
    IF b \in Unreserved THEN <<b>>
    ELSE <<Percent>> \o Digits(Widened(b), IF Widened(b) > 255 THEN Four
                                           ELSE IF b < 16 THEN <<1>> ELSE Two)

\* setw(2) is a least width.
EncodeChar(b) ==
    IF b \in Unreserved THEN <<b>>
    ELSE <<Percent>> \o Digits(Widened(b), IF Widened(b) > 255 THEN Four ELSE Two)

Encoded(text) == FlattenSeq([i \in DOMAIN text |-> EncodeChar(text[i])])

\* The numbers reading the characters s in hexadecimal can leave in num: the
\* digits before the first other character; 0 when there is none; and what
\* num happened to hold when there is nothing to read.
IsHex(c) == c \in (48..57) \cup (65..70) \cup (97..102)
HexNumbers(s) ==
    CASE s = <<>>                  -> Junk
      [] s # <<>> /\ ~IsHex(s[1])  -> {0}
      [] Len(s) = 2 /\ IsHex(s[1]) /\ IsHex(s[2]) -> {16 * HexValue(s[1]) + HexValue(s[2])}
      [] OTHER                     -> {HexValue(s[1])}

UrlInit ==
    /\ signedChar \in BOOLEAN
    /\ plain = <<>> /\ coded = <<>> /\ decoded = <<>> /\ index = 0 /\ urlStep = "start"

UrlEncode ==
    /\ urlStep = "start"
    /\ plain' \in BoundedSeq(Bytes, MaxText)
    /\ coded' = Encoded(plain')
    /\ urlStep' = "coded"
    /\ UNCHANGED <<signedChar, index, decoded>>

\* The decoder is given the text, or what a limit left of it.
UrlDecode ==
    /\ urlStep = "coded"
    /\ \E n \in 0..Len(coded) : coded' = SubSeq(coded, 1, n)
    /\ index' = 1
    /\ urlStep' = "decoding"
    /\ UNCHANGED <<signedChar, plain, decoded>>

\* substr(index + 1, 2)
AfterPercent == SubSeq(coded, index + 1, IF index + 2 <= Len(coded) THEN index + 2 ELSE Len(coded))

\* One turn of the loop: an escape takes three characters, of which the text
\* may have less.
DecodeEscape ==
    /\ urlStep = "decoding" /\ index <= Len(coded) /\ coded[index] = Percent
    /\ \E num \in HexNumbers(AfterPercent) : decoded' = Append(decoded, num % 256)
    /\ index' = index + 3
    /\ UNCHANGED <<signedChar, plain, coded, urlStep>>

DecodeChar ==
    /\ urlStep = "decoding" /\ index <= Len(coded) /\ coded[index] # Percent
    /\ decoded' = Append(decoded, coded[index])
    /\ index' = index + 1
    /\ UNCHANGED <<signedChar, plain, coded, urlStep>>

DecodeEnds ==
    /\ urlStep = "decoding" /\ index > Len(coded)
    /\ urlStep' = "decoded"
    /\ UNCHANGED <<signedChar, plain, coded, index, decoded>>

UrlNext == UrlEncode \/ UrlDecode \/ DecodeEscape \/ DecodeChar \/ DecodeEnds

UrlSpec == UrlInit /\ [][UrlNext]_urlVars

-----------------------------------------------------------------------------
\* What a byte is after encoding and decoding: itself, but for a negative
\* char, of which two digits are decoded and two are left.
Survives(b) ==
    IF signedChar /\ b >= 128 THEN <<255>> \o Digits(b, Two) ELSE <<b>>

Survived(text) == FlattenSeq([i \in DOMAIN text |-> Survives(text[i])])

\* Decoding an encoded text returns it where char is unsigned or the text has
\* only ASCII; every negative char becomes 0xFF and its two last digits.
WholeSurvives == coded = Encoded(plain) => decoded = Survived(plain)

\* A text cut short decodes to a part of what the whole text decodes to,
\* followed by at most one wrong character, that of the cut escape.
CutCostsOneCharacter == decoded = <<>> \/ IsPrefix(Front(decoded), Survived(plain))

\* Both, of what UrlDecode returned.
DecodesWhatItEncoded ==
    urlStep = "decoded" => WholeSurvives /\ CutCostsOneCharacter

=============================================================================
