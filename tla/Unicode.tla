------------------------------ MODULE Unicode ------------------------------
(***************************************************************************)
(* The conversions between UTF-8, UTF-16 and wide text (ASWLog_Unicode):   *)
(* bytes, code units and characters are numbers, a text is a sequence of   *)
(* them, and what a decoder returns is the character and the index after   *)
(* it.                                                                     *)
(***************************************************************************)
EXTENDS Integers, Sequences, SequencesExt

ReplacementCharacter == 65533                                   \* U+FFFD

Surrogates == 55296..57343
HighSurrogates == 55296..56319
LowSurrogates == 56320..57343

AppendUTF8(character) ==
    LET tail(shift) == 128 + ((character \div shift) % 64)
    IN  CASE character < 128   -> <<character>>
          [] character \in 128..2047 -> <<192 + character \div 64, tail(1)>>
          [] character \in 2048..65535 -> <<224 + character \div 4096, tail(64), tail(1)>>
          [] OTHER -> <<240 + character \div 262144, tail(4096), tail(64), tail(1)>>

AppendUTF16(character) ==
    IF character < 65536
    THEN <<character>>
    ELSE LET above == character - 65536
         IN  <<55296 + above \div 1024, 56320 + (above % 1024)>>

\* The character of the unit at index, or of the pair that starts there
DecodeUTF16(text, index) ==
    LET unit == text[index]
        isPair == /\ unit \in HighSurrogates
                  /\ index < Len(text)
                  /\ text[index + 1] \in LowSurrogates
    IN  CASE unit \notin Surrogates -> [Character |-> unit, Next |-> index + 1]
          [] isPair ->
               [Character |-> 65536 + (unit - 55296) * 1024 + text[index + 1] - 56320,
                Next |-> index + 2]
          [] OTHER -> [Character |-> ReplacementCharacter, Next |-> index + 1]

\* What the first byte of a sequence, 128 or more, says of it: its length, its
\* part of the character and the bytes that may come second
Lead(byte) ==
    CASE byte \in 194..223 -> [Length |-> 2, Bits |-> byte % 32, Second |-> 128..191]
      [] byte \in 224..239 ->
           [Length |-> 3, Bits |-> byte % 16,
            Second |-> (IF byte = 224 THEN 160 ELSE 128)..(IF byte = 237 THEN 159 ELSE 191)]
      [] byte \in 240..244 ->
           [Length |-> 4, Bits |-> byte % 8,
            Second |-> (IF byte = 240 THEN 144 ELSE 128)..(IF byte = 244 THEN 143 ELSE 191)]
      [] OTHER -> [Length |-> 1, Bits |-> ReplacementCharacter, Second |-> {}]

\* How many bytes from index on go together under what the lead byte says
Taken(text, index, lead) ==
    CHOOSE count \in 1..lead.Length :
      LET fits(n) == /\ index + n - 1 <= Len(text)
                     /\ text[index + n - 1] \in (IF n = 2 THEN lead.Second ELSE 128..191)
      IN  /\ \A n \in 2..count : fits(n)
          /\ count < lead.Length => ~fits(count + 1)

DecodeUTF8(text, index) ==
    LET lead == Lead(text[index])
        count == Taken(text, index, lead)
        value == FoldLeft(LAMBDA bits, byte : bits * 64 + (byte % 64), lead.Bits,
                          SubSeq(text, index + 1, index + count - 1))
    IN  IF text[index] < 128
        THEN [Character |-> text[index], Next |-> index + 1]
        ELSE [Character |-> IF count = lead.Length THEN value ELSE ReplacementCharacter,
              Next |-> index + count]

\* The characters of a whole text, one decoded after the other
Decode(text, DecodeAt(_, _)) ==
    LET from[index \in 1..(Len(text) + 1)] ==
          IF index > Len(text)
          THEN <<>>
          ELSE LET decoded == DecodeAt(text, index)
               IN  <<decoded.Character>> \o from[decoded.Next]
    IN  from[1]

Encode(characters, AppendCharacter(_)) ==
    FlattenSeq([i \in 1..Len(characters) |-> AppendCharacter(characters[i])])

\* UTF8ToUTF16() and WideToUTF8() of UTF-16
ToUTF16(text) == Encode(Decode(text, DecodeUTF8), AppendUTF16)

ToUTF8(text) == Encode(Decode(text, DecodeUTF16), AppendUTF8)

\* wchar_t has 16 bits on Windows and 32 elsewhere
UTF8ToWide(text, wideBits) ==
    IF wideBits = 16 THEN ToUTF16(text) ELSE Decode(text, DecodeUTF8)

WideToUTF8(text, wideBits) ==
    LET character(unit) ==
          IF unit \in 0..1114111 /\ unit \notin Surrogates THEN unit
          ELSE ReplacementCharacter
    IN  IF wideBits = 16
        THEN ToUTF8(text)
        ELSE Encode([i \in 1..Len(text) |-> character(text[i])], AppendUTF8)

\* Mutant: a unit is a character
UnitsAsCharacters(wide, utf16, wideBits) == IF utf16 = <<>> THEN wide ELSE utf16

\* TASWWideText, which holds either wide or UTF-16 text
ToWide(wide, utf16, wideBits) ==
    CASE utf16 = <<>> -> wide
      [] utf16 # <<>> /\ wideBits = 16 -> utf16
      [] OTHER -> Decode(utf16, DecodeUTF16)
=============================================================================
