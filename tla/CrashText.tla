----------------------------- MODULE CrashText -----------------------------
(***************************************************************************)
(* The lines a crash handler writes without allocating anything, in a      *)
(* buffer of a fixed size (TCrashText and the Append functions of          *)
(* ASWLog_CrashHandler).  A line is a sequence of pieces, of which only    *)
(* the size is kept, and whether a piece is whole: what is appended at the *)
(* end of the buffer is cut.                                               *)
(*                                                                         *)
(* A text to be written is the sequence of pieces the functions that walk  *)
(* it give (NextJSONPiece(), NextMultilinePiece()): runs of characters of  *)
(* some width, and rewritten ones (an escape, a line break).               *)
(***************************************************************************)
EXTENDS Integers, Sequences, SequencesExt

Capacity == 1024

\* What the fixed-layout lines keep free for what follows the fields and the
\* category
FieldsReserved == 96
CategoryReserved == 64

Smaller(a, b) == IF a < b THEN a ELSE b

Run(size, width) == [Size |-> size, Width |-> width, IsRewritten |-> FALSE]
Rewritten(size) == [Size |-> size, Width |-> size, IsRewritten |-> TRUE]
TextSize(text) == FoldLeft(LAMBDA size, piece : size + piece.Size, 0, text)

\* A piece of a line by its name: "text" or "rewritten" where it is of a text
Piece(name, size, isWhole) == [Name |-> name, Size |-> size, IsWhole |-> isWhole]

EmptyLine == [Pieces |-> <<>>, Size |-> 0]

-----------------------------------------------------------------------------
(* TCrashText *)

AppendPiece(line, name, size) ==
    LET count == Smaller(size, Capacity - line.Size)
    IN  [Pieces |-> Append(line.Pieces, Piece(name, count, count = size)),
         Size |-> line.Size + count]

\* One Append() after another
AppendAll(line, literals) ==
    FoldLeft(LAMBDA result, literal : AppendPiece(result, literal[1], literal[2]), line, literals)

\* How much of a run fits between its characters
CutRun(piece, room) == room - (room % piece.Width)

\* The pieces of a text up to a limit: a run is cut by Cut, a rewritten piece
\* is left out whole, and nothing comes after either
AppendUpTo(line, text, limit, Cut(_, _)) ==
    LET room(size) == IF limit > size THEN limit - size ELSE 0
        add(result, piece) ==
          CASE result.IsCut -> result
            [] ~result.IsCut /\ piece.Size <= room(result.Line.Size) ->
                 [result EXCEPT !.Line =
                    AppendPiece(@, IF piece.IsRewritten THEN "rewritten" ELSE "text", piece.Size)]
            [] ~result.IsCut /\ piece.Size > room(result.Line.Size) ->
                 [Line |-> IF piece.IsRewritten THEN result.Line
                           ELSE AppendPiece(result.Line, "text", Cut(piece, room(result.Line.Size))),
                  IsCut |-> TRUE]
    IN  FoldLeft(add, [Line |-> line, IsCut |-> FALSE], text).Line

\* Mutant: no room is kept for the closing quote
OpenString(line, text, reserved) ==
    AppendPiece(AppendUpTo(AppendPiece(line, "quote", 1), text, Capacity - Smaller(Capacity, reserved),
                       CutRun), "quote", 1)

AppendJSONString(line, text, reserved) ==
    AppendPiece(AppendUpTo(AppendPiece(line, "quote", 1), text, Capacity - Smaller(Capacity, reserved + 1),
                       CutRun), "quote", 1)

AppendMultiline(line, text, reserved) ==
    AppendUpTo(line, text, Capacity - Smaller(Capacity, reserved), LAMBDA piece, room : room)

Truncate(line, size) ==
    LET start(i) == TextSize(SubSeq(line.Pieces, 1, i - 1))
        kept == {i \in 1..Len(line.Pieces) : start(i) < size}
        cut(i) == LET rest == size - start(i)
                      piece == line.Pieces[i]
                  IN  IF piece.Size <= rest THEN piece ELSE Piece(piece.Name, rest, FALSE)
    IN  [Pieces |-> [i \in kept |-> cut(i)], Size |-> Smaller(line.Size, size)]

-----------------------------------------------------------------------------
(* The lines.  A record has the sizes of what a line shows of it, the      *)
(* texts that may be cut, and its fields, each with a Key, a text, and     *)
(* either a Text or the size of a number as its Value.                     *)

HasFields(record) == record.HasScope \/ record.Fields # <<>>

\* A field, built aside, is written whole or not at all
AppendField(line, field, room) ==
    IF field.Size <= room
    THEN [Pieces |-> line.Pieces \o field.Pieces, Size |-> line.Size + field.Size]
    ELSE line

\* A text in quotes, or a number
AppendValue(line, field, used) ==
    IF field.IsText
    THEN AppendJSONString(line, field.Value, used)
    ELSE AppendPiece(line, "number", field.Value)

AppendCrashFields(line, fields, isJSON) ==
    LET start == Len(line.Pieces)
        add(result, field) ==
          LET used == result.Size + FieldsReserved
              room == Capacity - used
              hasField == Len(result.Pieces) > start
              separator == IF hasField THEN AppendPiece(EmptyLine, "separator", 1) ELSE EmptyLine
              key == IF isJSON
                     THEN AppendPiece(AppendJSONString(separator, field.Key, used), "colon", 1)
                     ELSE AppendAll(separator, << <<"key", TextSize(field.Key)>>, <<"equals", 1>> >>)
          IN  IF used >= Capacity THEN result ELSE AppendField(result, AppendValue(key, field, used), room)
    IN  FoldLeft(add, line, fields)

\* The size of a line ending
Ending(usesCRLF) == IF usesCRLF THEN 2 ELSE 1

\* The line as it was where no field fits
CloseFields(line, opened, fields, isJSON) ==
    CASE fields = opened -> Truncate(opened, line.Size)
      [] fields # opened /\ isJSON -> AppendPiece(fields, "close", 1)
      [] fields # opened /\ ~isJSON -> fields

\* A record's fields, after what names them
AppendFields(line, record, nameSize, isJSON) ==
    LET opened == AppendPiece(line, "fields", nameSize)
    IN  IF HasFields(record)
        THEN CloseFields(line, opened, AppendCrashFields(opened, record.Fields, isJSON), isJSON)
        ELSE line

AppendCrashJSONLine(record, usesCRLF) ==
    LET head == AppendAll(EmptyLine,
                  << <<"time", 9 + record.TimeSize>>, <<"epoch_ms", 13 + record.EpochSize>>,
                     <<"level", 11 + record.LevelSize>> >>)
        category == IF record.Category = <<>>
                    THEN head
                    ELSE AppendJSONString(AppendPiece(head, "category", 12), record.Category,
                                          CategoryReserved)
        ids == AppendAll(category, << <<"pid", 7>>, <<"number", record.PidSize>>,
                                      <<"tid", 7>>, <<"number", record.TidSize>> >>)
        raw == IF record.Raw THEN << <<"raw", 11>> >> ELSE <<>>
        named == AppendAll(AppendFields(ids, record, 11, TRUE), raw \o << <<"message", 11>> >>)
        message == AppendJSONString(named, record.Message, 1 + Ending(usesCRLF))
    IN  AppendAll(message, << <<"close", 1>>, <<"ending", Ending(usesCRLF)>> >>)

EndLine(line, usesCRLF) ==
    AppendPiece(Truncate(line, Capacity - Ending(usesCRLF)), "ending", Ending(usesCRLF))

AppendCrashLine(record, usesCRLF) ==
    LET head == AppendAll(EmptyLine, << <<"time", 1 + record.TimeSize>>,
                                        <<"level", 2 + record.LevelSize>> >>)
        category == IF record.Category = <<>>
                    THEN head
                    ELSE AppendAll(head, << <<"category", 2>>, <<"text", TextSize(record.Category)>> >>)
        ids == AppendAll(category, << <<"pid", 4>>, <<"number", record.PidSize>>,
                                      <<"tid", 4>>, <<"number", record.TidSize>> >>)
        named == AppendPiece(AppendFields(ids, record, 2, FALSE), "message", 3)
        message == AppendMultiline(named, record.Message, Ending(usesCRLF))
    IN  EndLine(message, usesCRLF)
=============================================================================
