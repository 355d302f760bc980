------------------------------- MODULE Utils -------------------------------
(***************************************************************************)
(* The text functions the loggers share (ASWLog_Utils).  A text is a       *)
(* sequence of bytes and an index counts from 1; the functions that walk a *)
(* text piece by piece return a piece and the index after it.              *)
(***************************************************************************)
EXTENDS Integers, Sequences, SequencesExt, Bitwise, Unicode

Tab == 9
LF == 10
CR == 13
Space == 32
Quote == 34
Backslash == 92

-----------------------------------------------------------------------------
(* Words of bytes tested at once *)

\* A byte in every place of a word of the size, and the word of some bytes
Repeat(byte, size) == FoldLeft(LAMBDA word, i : word * 256 + byte, 0, [i \in 1..size |-> i])
Word(bytes) == FoldRight(LAMBDA byte, word : word * 256 + byte, bytes, 0)
Bits(size) == 2^(8 * size)

\* (word - byte in every place) & ~word, the subtraction borrowing from the
\* next byte
Below(word, byte, size) ==
    ((word + Bits(size) - Repeat(byte, size)) % Bits(size)) & (Bits(size) - 1 - word)

IsZeroAnywhere(word, size) == Below(word, 1, size) & Repeat(128, size) # 0

HasCROrLF(bytes) ==
    LET size == Len(bytes)
        has(byte) == IsZeroAnywhere(Word(bytes) ^^ Repeat(byte, size), size)
    IN  has(CR) \/ has(LF)

IsPlainJSONWord(bytes) ==
    LET size == Len(bytes)
        has(byte) == IsZeroAnywhere(Word(bytes) ^^ Repeat(byte, size), size)
    IN  /\ ~has(Quote)
        /\ ~has(Backslash)
        /\ (Word(bytes) | Below(Word(bytes), 32, size)) & Repeat(128, size) = 0

-----------------------------------------------------------------------------
(* JSON strings *)

IsPlainJSONCharacter(byte) == byte \in (32..127) \ {Quote, Backslash}

\* The same table as that of DecodeUTF8(), written again
MeasuredLead(byte) ==
    CASE byte \in 194..223 -> [Length |-> 2, Second |-> 128..191]
      [] byte \in 224..239 ->
           [Length |-> 3,
            Second |-> (IF byte = 224 THEN 160 ELSE 128)..(IF byte = 237 THEN 159 ELSE 191)]
      [] byte \in 240..244 ->
           [Length |-> 4,
            Second |-> (IF byte = 240 THEN 144 ELSE 128)..(IF byte = 244 THEN 143 ELSE 191)]
      [] OTHER -> [Length |-> 0, Second |-> {}]

\* Mutant: each byte of a broken sequence is replaced
EachByte(count) == 1

\* What U+FFFD replaces: the bytes that go together
InvalidLength(count) == count

MeasureUTF8Sequence(text, index) ==
    LET lead == MeasuredLead(text[index])
        count == IF lead.Length = 0 THEN 1 ELSE Taken(text, index, lead)
    IN  IF count = lead.Length
        THEN [Length |-> count, InvalidLength |-> 0]
        ELSE [Length |-> 0, InvalidLength |-> InvalidLength(count)]

HexDigit(digit) == IF digit < 10 THEN 48 + digit ELSE 87 + digit

Escape(byte) ==
    CASE byte \in {Quote, Backslash} -> <<Backslash, byte>>
      [] byte = 8 -> <<Backslash, 98>>
      [] byte = 12 -> <<Backslash, 102>>
      [] byte = LF -> <<Backslash, 110>>
      [] byte = CR -> <<Backslash, 114>>
      [] byte = Tab -> <<Backslash, 116>>
      [] OTHER -> <<Backslash, 117, 48, 48, HexDigit(byte \div 16), HexDigit(byte % 16)>>

\* Where the run of characters ends that a JSON string holds as they are
PlainEnd(text, index) ==
    LET end[i \in 1..(Len(text) + 1)] ==
          IF i > Len(text)
          THEN i
          ELSE LET length == IF text[i] < 128
                             THEN IF IsPlainJSONCharacter(text[i]) THEN 1 ELSE 0
                             ELSE MeasureUTF8Sequence(text, i).Length
               IN  IF length = 0 THEN i ELSE end[i + length]
    IN  end[index]

NextJSONPiece(text, index) ==
    LET end == PlainEnd(text, index)
    IN  CASE end > index ->
               [Text |-> SubSeq(text, index, end - 1), IsEscape |-> FALSE, Next |-> end]
          [] end = index /\ text[index] >= 128 ->
               [Text |-> AppendUTF8(ReplacementCharacter), IsEscape |-> TRUE,
                Next |-> index + MeasureUTF8Sequence(text, index).InvalidLength]
          [] OTHER -> [Text |-> Escape(text[index]), IsEscape |-> TRUE, Next |-> index + 1]

\* What a function that walks a text by pieces makes of it
Pieces(text, NextPiece(_, _)) ==
    LET from[index \in 1..(Len(text) + 1)] ==
          IF index > Len(text)
          THEN <<>>
          ELSE LET piece == NextPiece(text, index)
               IN  piece.Text \o from[piece.Next]
    IN  from[1]

\* JSON::AppendString()
AppendString(text) == <<Quote>> \o Pieces(text, NextJSONPiece) \o <<Quote>>

-----------------------------------------------------------------------------
(* Line breaks *)

IsLineBreakAt(text, index, mode) ==
    \/ text[index] = LF
    \/ /\ text[index] = CR
       /\ mode = "Escape" \/ (index < Len(text) /\ text[index + 1] = LF)

EscapedLineBreak(byte) == <<Backslash, IF byte = CR THEN 114 ELSE 110>>

\* The line ending and the marker of the next line, without the space where
\* that line is empty
IndentedLineBreak(ending, isNextLineEmpty) ==
    (IF ending = "CRLF" THEN <<CR, LF>> ELSE <<LF>>) \o <<Space, Space, Space, Space, 124>>
      \o (IF isNextLineEmpty THEN <<>> ELSE <<Space>>)

LineBreakLength(text, index, mode) == IF text[index] = CR /\ mode = "Indent" THEN 2 ELSE 1

NextMultilinePiece(text, index, mode, ending) ==
    LET end == CHOOSE i \in index..(Len(text) + 1) :
                 /\ i <= Len(text) => mode # "Preserve" /\ IsLineBreakAt(text, i, mode)
                 /\ mode # "Preserve" =>
                      \A j \in index..(i - 1) : ~IsLineBreakAt(text, j, mode)
        next == index + LineBreakLength(text, index, mode)
        isNextLineEmpty == next > Len(text) \/ IsLineBreakAt(text, next, mode)
        rewritten == IF mode = "Escape"
                     THEN EscapedLineBreak(text[index])
                     ELSE IndentedLineBreak(ending, isNextLineEmpty)
    IN  IF end > index
        THEN [Text |-> SubSeq(text, index, end - 1), IsLineBreak |-> FALSE, Next |-> end]
        ELSE [Text |-> rewritten, IsLineBreak |-> TRUE, Next |-> next]

ApplyMultilineMode(line, mode, ending) ==
    Pieces(line, LAMBDA text, index : NextMultilinePiece(text, index, mode, ending))

-----------------------------------------------------------------------------
(* Cutting *)

CutMarker == <<Space, 91, 99, 117, 116, 93>>                    \* " [cut]"

IsContinuation(byte) == byte \in 128..191

CutToFit(text, maxBytes) ==
    LET hasMarker == maxBytes >= Len(CutMarker)
        room == maxBytes - (IF hasMarker THEN Len(CutMarker) ELSE 0)
        kept == CHOOSE size \in 0..room :
                  /\ size = 0 \/ ~IsContinuation(text[size + 1])
                  /\ \A longer \in (size + 1)..room : IsContinuation(text[longer + 1])
    IN  IF Len(text) <= maxBytes
        THEN text
        ELSE SubSeq(text, 1, kept) \o (IF hasMarker THEN CutMarker ELSE <<>>)

-----------------------------------------------------------------------------
(* Wildcards: the last star takes one more character each time what follows *)
(* it doesn't match                                                         *)

Star == 42
QuestionMark == 63

\* Mutant: the value is not taken back
NotTakenBack(v, match) == v + 1

\* Where the value is compared again after a mismatch
AfterMismatch(v, match) == match + 1

\* One turn of the loop after another, from the value's index v and the
\* pattern's index p; the last star is at star and has taken what is before
\* match
RECURSIVE Match(_, _, _, _, _, _)
Match(value, pattern, v, p, star, match) ==
    LET isIn == v <= Len(value) /\ p <= Len(pattern)
        isStar == isIn /\ pattern[p] = Star
        isSame == isIn /\ pattern[p] # Star /\ pattern[p] \in {QuestionMark, value[v]}
    IN  CASE v > Len(value) -> \A rest \in p..Len(pattern) : pattern[rest] = Star
          [] isStar -> Match(value, pattern, v, p + 1, p, v)
          [] isSame -> Match(value, pattern, v + 1, p + 1, star, match)
          [] v <= Len(value) /\ ~isStar /\ ~isSame ->
               star # 0 /\ Match(value, pattern, AfterMismatch(v, match), star + 1, star, match + 1)

MatchesWildcard(value, pattern) == Match(value, pattern, 1, 1, 0, 0)
=============================================================================
