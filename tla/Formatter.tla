----------------------------- MODULE Formatter -----------------------------
(***************************************************************************)
(* The formatters: the built-in text layout, JSON Lines and line patterns  *)
(* (ASWLog_Formatter).  A text is a sequence of one-character strings.  In *)
(* a JSON line a name, a string and a number are one token each, and so is *)
(* each of the characters between them.                                    *)
(*                                                                         *)
(* A record has the texts of what a line can show, by the name of the      *)
(* option or placeholder that shows it, its Category, its Scope (the       *)
(* fields of its scopes, outermost first), its own Fields, whether it is   *)
(* Raw, and its Message.                                                   *)
(***************************************************************************)
EXTENDS Integers, Sequences, SequencesExt, Fields

MaxPatternWidth == 1000

\* A text written out in JSON, whatever Unicode and escapes it holds (see Utils)
JSONString(text) == [String |-> text]
JSONName(text) == [Name |-> text]
JSONNumber(text) == [Number |-> text]
JSONMark(text) == [Mark |-> text]
Colon == JSONMark(":")
Comma == JSONMark(",")
Open == JSONMark("{")
Close == JSONMark("}")

Quoted(text) == <<"\"">> \o text \o <<"\"">>

-----------------------------------------------------------------------------
(* Fields.  A value is of a Kind and has its Text; a double may be no      *)
(* number.                                                                 *)

\* A NaN or infinity has no number in JSON
WriteScalarValue(value) ==
    IF value.Kind = "NotFinite" THEN JSONString(value.Text) ELSE JSONNumber(value.Text)

AppendFieldValue(value) ==
    IF value.Kind = "Text" THEN Quoted(value.Text) ELSE value.Text

HasFields(record) == record.Fields # <<>> \/ record.Scope # <<>>

\* Mutant: all of them, the replaced ones too
EveryField(record) == VisitAllLogFields(record.Scope, record.Fields)

LineFields(record) == ForEachLogField(record.Scope, record.Fields)

\* Between any two of the texts, the separator
Joined(texts, separator) ==
    FlattenSeq([i \in 1..Len(texts) |-> IF i = 1 THEN texts[i] ELSE separator \o texts[i]])

AppendFieldsJSON(record) ==
    LET fields == LineFields(record)
        member(field) ==
          <<JSONName(field.Key), Colon,
            IF field.Value.Kind = "Text" THEN JSONString(field.Value.Text)
            ELSE WriteScalarValue(field.Value)>>
    IN  IF fields = <<>>
        THEN <<>>
        ELSE <<JSONName("fields"), Colon, Open>>
               \o Joined([i \in 1..Len(fields) |-> member(fields[i])], <<Comma>>)
               \o <<Close, Comma>>

AppendFieldsText(record, prefix, suffix) ==
    LET fields == LineFields(record)
        text(field) == <<field.Key, "=">> \o AppendFieldValue(field.Value)
    IN  IF fields = <<>>
        THEN <<>>
        ELSE prefix \o Joined([i \in 1..Len(fields) |-> text(fields[i])], <<" ">>) \o suffix

-----------------------------------------------------------------------------
(* The built-in layout and the JSON object.  The options are those of      *)
(* TASWLineConfig that are on.                                             *)

\* A number in brackets, and any other text
AppendNumberField(label, text) == <<"[">> \o label \o text \o <<"]">>

FormatLine(record, options) ==
    LET shown(option, label) ==
          IF option \in options THEN AppendNumberField(label, record[option]) ELSE <<>>
    IN  shown("Timestamp", <<>>) \o shown("Level", <<>>)
          \o (IF record.Category = <<>> THEN <<>> ELSE shown("Category", <<>>))
          \o shown("ProcessId", <<"P", ":">>) \o shown("ThreadId", <<"T", ":">>)
          \o shown("WorkingSet", <<"W", "S", ":">>)
          \o shown("PeakWorkingSet", <<"P", "W", "S", ":">>)
          \o shown("FunctionName", <<>>)
          \o (IF "SourceLine" \in options
              THEN AppendNumberField(<<>>, record.File \o <<":">> \o record.Line) ELSE <<>>)
          \o (IF "Fields" \in options /\ HasFields(record)
              THEN AppendFieldsText(record, <<"[">>, <<"]">>) ELSE <<>>)
          \o <<":", " ">> \o record.Message

AppendJSONString(name, text) == <<JSONName(name), Colon, JSONString(text), Comma>>
AppendJSONNumber(name, text) == <<JSONName(name), Colon, JSONNumber(text), Comma>>

JSONFormat(record, options) ==
    LET when(condition, member) == IF condition THEN member ELSE <<>>
    IN  <<Open>>
          \o when("Timestamp" \in options,
                AppendJSONString("time", record.Timestamp) \o AppendJSONNumber("epoch_ms", record.Epoch))
          \o when("Level" \in options, AppendJSONString("level", record.Level))
          \o when("Category" \in options /\ record.Category # <<>>,
                AppendJSONString("category", record.Category))
          \o when("ProcessId" \in options, AppendJSONNumber("pid", record.ProcessId))
          \o when("ThreadId" \in options, AppendJSONNumber("tid", record.ThreadId))
          \o when("WorkingSet" \in options, AppendJSONNumber("ws", record.WorkingSet))
          \o when("PeakWorkingSet" \in options, AppendJSONNumber("pws", record.PeakWorkingSet))
          \o when("FunctionName" \in options, AppendJSONString("function", record.FunctionName))
          \o when("SourceLine" \in options,
                AppendJSONString("file", record.File) \o AppendJSONNumber("line", record.Line))
          \o when("Fields" \in options /\ HasFields(record), AppendFieldsJSON(record))
          \o when(record.Raw, <<JSONName("raw"), Colon, JSONMark("true"), Comma>>)
          \o <<JSONName("message"), Colon, JSONString(record.Message), Close>>

-----------------------------------------------------------------------------
(* Patterns *)

Digits == <<"0", "1", "2", "3", "4", "5", "6", "7", "8", "9">>
IsASCIIDigit(character) == character \in Range(Digits)
IsASCIILetter(character) ==
    character \in {"a", "b", "c", "d", "e", "f", "g", "h", "i", "j", "k", "l", "m",
                   "n", "o", "p", "q", "r", "s", "t", "u", "v", "w", "x", "y", "z"}

\* The names of the placeholders, and what each shows of a record
Names == {<<"t", "i", "m", "e">>, <<"l", "e", "v", "e", "l">>,
          <<"c", "a", "t", "e", "g", "o", "r", "y">>, <<"p", "i", "d">>, <<"t", "i", "d">>,
          <<"w", "s">>, <<"p", "w", "s">>, <<"f", "u", "n", "c", "t", "i", "o", "n">>,
          <<"f", "i", "l", "e">>, <<"l", "i", "n", "e">>, <<"f", "i", "e", "l", "d", "s">>,
          <<"m", "e", "s", "s", "a", "g", "e">>}

FieldText(record, name) ==
    CASE name = <<"t", "i", "m", "e">> -> record.Timestamp
      [] name = <<"l", "e", "v", "e", "l">> -> record.Level
      [] name = <<"c", "a", "t", "e", "g", "o", "r", "y">> -> record.Category
      [] name = <<"p", "i", "d">> -> record.ProcessId
      [] name = <<"t", "i", "d">> -> record.ThreadId
      [] name = <<"w", "s">> -> record.WorkingSet
      [] name = <<"p", "w", "s">> -> record.PeakWorkingSet
      [] name = <<"f", "u", "n", "c", "t", "i", "o", "n">> -> record.FunctionName
      [] name = <<"f", "i", "l", "e">> -> record.File
      [] name = <<"l", "i", "n", "e">> -> record.Line
      [] name = <<"f", "i", "e", "l", "d", "s">> -> AppendFieldsText(record, <<>>, <<>>)
      [] name = <<"m", "e", "s", "s", "a", "g", "e">> -> record.Message

\* A part of a pattern: literal text, in Prefix, has no Name
TPart(name, width, prefix, suffix) ==
    [Name |-> name, Width |-> width, Prefix |-> prefix, Suffix |-> suffix]

\* std::invalid_argument
PatternError == [IsValid |-> FALSE]

\* The end of the run of such characters from index on
RunEnd(pattern, index, IsIn(_)) ==
    CHOOSE end \in index..(Len(pattern) + 1) :
      /\ \A i \in index..(end - 1) : IsIn(pattern[i])
      /\ end <= Len(pattern) => ~IsIn(pattern[end])

\* The character again after itself: a brace or quote for its own sake
IsDoubled(pattern, index) == index < Len(pattern) /\ pattern[index + 1] = pattern[index]

\* The text from index, after a quote, to the quote that ends it; none if it
\* isn't closed
ParseQuoted(pattern, index) ==
    LET after(text, rest) ==
          IF rest.IsValid THEN [IsValid |-> TRUE, Text |-> text \o rest.Text, Next |-> rest.Next]
          ELSE rest
        from[i \in index..(Len(pattern) + 1)] ==
          CASE i > Len(pattern) -> PatternError
            [] i <= Len(pattern) /\ pattern[i] # "'" -> after(<<pattern[i]>>, from[i + 1])
            [] i <= Len(pattern) /\ pattern[i] = "'" ->
                 IF IsDoubled(pattern, i)
                 THEN after(<<"'">>, from[i + 2])
                 ELSE [IsValid |-> TRUE, Text |-> <<>>, Next |-> i + 1]
    IN  from[index]

\* The number some digits are, cut off once it is too large
DigitsValue(digits) ==
    FoldLeft(LAMBDA number, digit :
               IF number > MaxPatternWidth THEN number
               ELSE number * 10 + SelectInSeq(Digits, LAMBDA d : d = digit) - 1, 0, digits)

\* What ParsePlaceholder() knows at an index: the part so far, whether
\* unquoted spaces follow quoted text, and how many of them end the affix
Placeholder(part, isAfterQuote, unquotedSpaces) ==
    [Part |-> part, IsAfterQuote |-> isAfterQuote, UnquotedSpaces |-> unquotedSpaces]

Affix(part) == IF part.Name = <<>> THEN "Prefix" ELSE "Suffix"
AddToAffix(part, text) == [part EXCEPT ![Affix(part)] = @ \o text]

\* Mutant: the spaces before a quote stay
SpacesKept(part, count) == part

\* Without the last characters of the affix
DropFromAffix(part, count) ==
    [part EXCEPT ![Affix(part)] = SubSeq(@, 1, Len(@) - count)]

\* The rest of a placeholder, from index on
RECURSIVE ParseRest(_, _, _)
ParseRest(pattern, index, known) ==
    LET character == pattern[index]
        part == known.Part
        quoted == ParseQuoted(pattern, index + 1)
        nameEnd == RunEnd(pattern, index, IsASCIILetter)
        name == SubSeq(pattern, index, nameEnd - 1)
        hasWidth == nameEnd <= Len(pattern) /\ pattern[nameEnd] = ":"
        widthEnd == RunEnd(pattern, nameEnd + 1, IsASCIIDigit)
        width == DigitsValue(SubSeq(pattern, nameEnd + 1, widthEnd - 1))
    IN  IF index > Len(pattern)
        THEN PatternError
        ELSE
        CASE character = "}" ->
               IF part.Name = <<>> THEN PatternError
               ELSE [IsValid |-> TRUE, Part |-> part, Next |-> index + 1]
          [] character = "'" ->
               IF ~quoted.IsValid THEN PatternError
               ELSE ParseRest(pattern, quoted.Next,
                      Placeholder(AddToAffix(DropFromAffix(part, known.UnquotedSpaces), quoted.Text),
                                  TRUE, 0))
          [] character = " " /\ known.IsAfterQuote -> ParseRest(pattern, index + 1, known)
          [] IsASCIILetter(character) ->
               IF part.Name # <<>> \/ name \notin Names
                    \/ (hasWidth /\ width \notin 1..MaxPatternWidth)
               THEN PatternError
               ELSE ParseRest(pattern, IF hasWidth THEN widthEnd ELSE nameEnd,
                      Placeholder([part EXCEPT !.Name = name, !.Width = IF hasWidth THEN width ELSE 0],
                                  FALSE, 0))
          [] IsASCIIDigit(character) \/ character \in {":", "{"} -> PatternError
          [] OTHER ->
               ParseRest(pattern, index + 1,
                 Placeholder(AddToAffix(part, <<character>>), FALSE,
                             IF character = " " THEN known.UnquotedSpaces + 1 ELSE 0))

\* From the '{' at start
ParsePlaceholder(pattern, start) ==
    ParseRest(pattern, start + 1, Placeholder(TPart(<<>>, 0, <<>>, <<>>), FALSE, 0))

\* TASWPatternFormatter::TASWPatternFormatter(): the parts, the text since
\* the last placeholder one of them
RECURSIVE ParsePattern(_, _, _, _)
ParsePattern(pattern, index, parts, text) ==
    LET withText == IF text = <<>> THEN parts ELSE Append(parts, TPart(<<>>, 0, text, <<>>))
        isBrace == pattern[index] \in {"{", "}"}
        placeholder == ParsePlaceholder(pattern, index)
    IN  IF index > Len(pattern)
        THEN [IsValid |-> TRUE, Parts |-> withText]
        ELSE
        CASE isBrace /\ IsDoubled(pattern, index) ->
               ParsePattern(pattern, index + 2, parts, Append(text, pattern[index]))
          [] pattern[index] = "{" /\ ~IsDoubled(pattern, index) ->
               IF placeholder.IsValid
               THEN ParsePattern(pattern, placeholder.Next, Append(withText, placeholder.Part), <<>>)
               ELSE PatternError
          [] pattern[index] = "}" /\ ~IsDoubled(pattern, index) -> PatternError
          [] ~isBrace -> ParsePattern(pattern, index + 1, parts, Append(text, pattern[index]))

TASWPatternFormatter(pattern) == ParsePattern(pattern, 1, <<>>, <<>>)

AppendField(value, prefix, suffix, width) ==
    IF value = <<>>
    THEN <<>>
    ELSE prefix \o value
           \o [i \in 1..(IF Len(value) < width THEN width - Len(value) ELSE 0) |-> " "]
           \o suffix

\* TASWPatternFormatter::Format()
PatternFormat(parts, record) ==
    LET written(part) ==
          IF part.Name = <<>>
          THEN part.Prefix
          ELSE AppendField(FieldText(record, part.Name), part.Prefix, part.Suffix, part.Width)
    IN  FlattenSeq([i \in 1..Len(parts) |-> written(parts[i])])
=============================================================================
