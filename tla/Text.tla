-------------------------------- MODULE Text --------------------------------
(***************************************************************************)
(* The functions on texts, called one at a time with arguments from the    *)
(* constants, and what each result has to be.  The references here are     *)
(* written from what a reader of the result does (decodes, parses, splits  *)
(* or reads it back), not from how the code makes it.                      *)
(***************************************************************************)
EXTENDS Utils, FiniteSets, FiniteSetsExt

F == INSTANCE Formatter
C == INSTANCE CrashText
T == INSTANCE Times
S == INSTANCE Settings

CONSTANTS Bytes,           \* Texts of bytes, for UTF-8 and JSON
          Characters,      \* Sequences of characters
          Units,           \* Texts of UTF-16 code units
          Words,           \* Words of bytes tested at once
          Lines,           \* Texts with line breaks
          Cuts,            \* Characters to be cut, and the sizes allowed
          Wildcards,       \* Values and patterns
          Instants,        \* Times, with their clock's ticks, zone and precision
          Years,
          Placeholders,    \* What stands in a pattern after a '{'
          Records,         \* Records, and the options that show their fields
          Scopes,          \* A thread's scopes, another scope's fields and an entry's own
          CrashRecords,    \* Records as a crash handler writes them
          Environments     \* The variables an environment sets, and the valid words

VARIABLE call

Nothing == [of |-> "nothing"]

Init == call = Nothing

Called(inputs) == call = Nothing /\ call' \in inputs

Decodes == Called({[of |-> "Decodes", text |-> text] : text \in Bytes})
Encodes == Called({[of |-> "Encodes", text |-> text] : text \in Characters})
Converts == Called({[of |-> "Converts", text |-> text] : text \in Units})
Tests == Called({[of |-> "Tests", bytes |-> bytes] : bytes \in Words})
Breaks ==
    Called({[of |-> "Breaks", text |-> text, mode |-> mode, ending |-> ending] :
              text \in Lines, mode \in {"Preserve", "Indent", "Escape"}, ending \in {"LF", "CRLF"}})
Cut == Called({[of |-> "Cut", text |-> cut[1], maxBytes |-> cut[2]] : cut \in Cuts})
Matches ==
    Called({[of |-> "Matches", value |-> pair[1], pattern |-> pair[2]] : pair \in Wildcards})
Stamps == Called({[of |-> "Stamps", instant |-> instant] : instant \in Instants})
Dates == Called({[of |-> "Dates", year |-> year] : year \in Years})
Parses == Called({[of |-> "Parses", pattern |-> <<"{">> \o inside] : inside \in Placeholders})
Formats ==
    Called({[of |-> "Formats", record |-> input[1], options |-> input[2]] : input \in Records})
Nests ==
    Called({[of |-> "Nests", scopes |-> input[1], inner |-> input[2], own |-> input[3]] :
              input \in Scopes})
Crashes ==
    Called({[of |-> "Crashes", record |-> record, usesCRLF |-> usesCRLF] :
              record \in CrashRecords, usesCRLF \in BOOLEAN})
Configures ==
    Called({[of |-> "Configures", variables |-> input[1], valid |-> input[2]] :
              input \in Environments})
Names == Called({[of |-> "Names"]})

Return == call # Nothing /\ call' = Nothing

Next ==
    \/ Decodes \/ Encodes \/ Converts \/ Tests \/ Breaks \/ Cut \/ Matches \/ Stamps \/ Dates
    \/ Parses \/ Formats \/ Nests \/ Crashes \/ Configures \/ Names
    \/ Return

Spec == Init /\ [][Next]_call

-----------------------------------------------------------------------------
(* UTF-8, as the Unicode standard defines it *)

\* The character the bits of some bytes spell
Spelt(bytes) ==
    FoldLeft(LAMBDA bits, byte : bits * 64 + byte - 128,
             bytes[1] - (CASE Len(bytes) = 1 -> 0 [] Len(bytes) = 2 -> 192
                           [] Len(bytes) = 3 -> 224 [] Len(bytes) = 4 -> 240),
             Tail(bytes))

IsWellFormed(bytes) ==
    LET spelt == Spelt(bytes)
    IN  /\ spelt \in 0..1114111
        /\ spelt \notin Surrogates
        /\ AppendUTF8(spelt) = bytes

\* Some bytes can begin a character: one of the smallest or the largest
\* characters that go on from them is one
CanBegin(bytes) ==
    \E length \in Len(bytes)..4, rest \in {128, 191} :
      IsWellFormed(bytes \o [i \in 1..(length - Len(bytes)) |-> rest])

\* How many bytes from index on are a character, or what U+FFFD replaces
Maximal(text, index) ==
    Max({1} \cup {n \in 1..Min({4, Len(text) + 1 - index}) :
                    CanBegin(SubSeq(text, index, index + n - 1))})

ReferenceDecode(text) ==
    Decode(text, LAMBDA bytes, index :
                   LET taken == SubSeq(bytes, index, index + Maximal(bytes, index) - 1)
                   IN  [Character |-> IF IsWellFormed(taken) THEN Spelt(taken)
                                      ELSE ReplacementCharacter,
                        Next |-> index + Len(taken)])

\* A decoder takes each character, and U+FFFD for each longest start of one: the
\* ranges the lead bytes narrow are where a table goes wrong
DecodesLongestStarts ==
    call.of = "Decodes" => Decode(call.text, DecodeUTF8) = ReferenceDecode(call.text)

\* The characters a reader of a JSON string makes of it: a backslash and what
\* follows are one
RECURSIVE Unescaped(_)
Unescaped(text) ==
    LET short == [byte \in {34, 92, 98, 102, 110, 114, 116} |->
                    CASE byte \in {34, 92} -> byte [] byte = 98 -> 8 [] byte = 102 -> 12
                      [] byte = 110 -> 10 [] byte = 114 -> 13 [] byte = 116 -> 9]
        hex(byte) == IF byte \in 48..57 THEN byte - 48 ELSE byte - 87
    IN  CASE text = <<>> -> <<>>
          [] text # <<>> /\ text[1] # Backslash -> <<text[1]>> \o Unescaped(Tail(text))
          [] text # <<>> /\ text[1] = Backslash ->
               IF text[2] = 117
               THEN <<hex(text[3]) * 4096 + hex(text[4]) * 256 + hex(text[5]) * 16 + hex(text[6])>>
                      \o Unescaped(SubSeq(text, 7, Len(text)))
               ELSE <<short[text[2]]>> \o Unescaped(SubSeq(text, 3, Len(text)))

\* A JSON string is UTF-8 without control characters, and reads back as the
\* text's characters
JSONStringReadsBack ==
    call.of = "Decodes" =>
      LET written == AppendString(call.text)
          inside == SubSeq(written, 2, Len(written) - 1)
          characters == ReferenceDecode(inside)
      IN  /\ \A i \in 1..Len(written) : written[i] >= 32
          /\ Encode(characters, AppendUTF8) = inside
          /\ Unescaped(characters) = ReferenceDecode(call.text)

\* Every text of characters gets through each conversion and back, whatever
\* the size of a wide character
CharactersSurvive ==
    call.of = "Encodes" =>
      LET text == Encode(call.text, AppendUTF8)
      IN  /\ Decode(text, DecodeUTF8) = call.text
          /\ ToUTF8(ToUTF16(text)) = text
          /\ \A bits \in {16, 32} : WideToUTF8(UTF8ToWide(text, bits), bits) = text

\* UTF-16 text gives the same UTF-8, well-formed, at once or as wide text first
WideTextAgrees ==
    call.of = "Converts" =>
      LET utf8 == ToUTF8(call.text)
      IN  /\ Encode(ReferenceDecode(utf8), AppendUTF8) = utf8
          /\ \A bits \in {16, 32} : WideToUTF8(ToWide(<<>>, call.text, bits), bits) = utf8
          /\ WideToUTF8(call.text, 32) = Encode([i \in 1..Len(call.text) |->
                                                   IF call.text[i] \in Surrogates
                                                   THEN ReplacementCharacter ELSE call.text[i]],
                                                AppendUTF8)

\* The tests of a word are true exactly when each of its bytes is plain, and
\* when one is a CR or LF
WordTestsAreExact ==
    call.of = "Tests" =>
      /\ IsPlainJSONWord(call.bytes)
           <=> \A i \in 1..Len(call.bytes) : IsPlainJSONCharacter(call.bytes[i])
      /\ HasCROrLF(call.bytes) <=> \E i \in 1..Len(call.bytes) : call.bytes[i] \in {CR, LF}

-----------------------------------------------------------------------------
(* Lines, cuts, wildcards *)

\* The lines of a text, which end with a LF or a CRLF
RECURSIVE SplitLines(_)
SplitLines(text) ==
    LET lineFeeds == {i \in 1..Len(text) : text[i] = LF}
        first == Min(lineFeeds)
        hasCR == first > 1 /\ text[first - 1] = CR
    IN  IF lineFeeds = {}
        THEN <<text>>
        ELSE <<SubSeq(text, 1, first - (IF hasCR THEN 2 ELSE 1))>>
               \o SplitLines(SubSeq(text, first + 1, Len(text)))

\* Indented line breaks are followed by a mark, and a space but at an empty
\* line; escaped ones make one line
LineBreaksAreRewritten ==
    call.of = "Breaks" =>
      LET lines == SplitLines(call.text)
          ending == IF call.ending = "CRLF" THEN <<CR, LF>> ELSE <<LF>>
          marked(line) == ending \o <<32, 32, 32, 32, 124>>
                            \o (IF line = <<>> THEN <<>> ELSE <<32>> \o line)
          escaped(byte) == CASE byte = CR -> <<92, 114>> [] byte = LF -> <<92, 110>>
                             [] OTHER -> <<byte>>
      IN  ApplyMultilineMode(call.text, call.mode, call.ending) =
            CASE call.mode = "Preserve" -> call.text
              [] call.mode = "Indent" ->
                   FlattenSeq([i \in 1..Len(lines) |->
                                 IF i = 1 THEN lines[1] ELSE marked(lines[i])])
              [] call.mode = "Escape" ->
                   FlattenSeq([i \in 1..Len(call.text) |-> escaped(call.text[i])])

\* An escaped or indented text reads back: a JSON reader gets the characters of
\* any bytes, those the decoder would have replaced replaced, as the escaper's
\* own table of sequences agrees with the decoder's; a line's breaks are
\* rewritten once each; and where bytes are tested in words a borrow from one
\* to the next neither hides nor makes up a match (ASWLog_Utils.cpp,
\* NextJSONPiece(), MeasureUTF8Sequence(), NextMultilinePiece())
EscapesReadBack == JSONStringReadsBack /\ WordTestsAreExact /\ LineBreaksAreRewritten

\* A text that has to be cut keeps as many characters as fit with the marker, or
\* without it where even that has no room
CutKeepsWholeCharacters ==
    call.of = "Cut" =>
      LET text == Encode(call.text, AppendUTF8)
          marker == IF call.maxBytes < Len(CutMarker) THEN <<>> ELSE CutMarker
          starts == {Encode(SubSeq(call.text, 1, n), AppendUTF8) : n \in 0..Len(call.text)}
          fits == {start \in starts : Len(start) + Len(marker) <= call.maxBytes}
          longest == CHOOSE start \in fits : \A other \in fits : Len(other) <= Len(start)
      IN  CutToFit(text, call.maxBytes) =
            IF Len(text) <= call.maxBytes THEN text ELSE longest \o marker

\* The conversions and CutToFit() break no character: text conversions agree with
\* the standard, whose practice is to replace each longest start of one, and
\* with each other, whatever the size of a wide character, and an unpaired
\* surrogate is replaced on every way; a text that CutToFit() cuts keeps as many
\* whole characters as fit (ASWLog_Unicode.cpp, DecodeUTF8(), TASWWideText;
\* ASWLog_Utils.cpp, CutToFit(), for the memory logger and the Event Log).  A
\* text logger's crash line is cut by bytes and not meant here.
CharactersStayWhole ==
    DecodesLongestStarts /\ CharactersSurvive /\ WideTextAgrees /\ CutKeepsWholeCharacters

\* What a wildcard pattern means
RECURSIVE IsMatch(_, _)
IsMatch(value, pattern) ==
    CASE pattern = <<>> -> value = <<>>
      [] pattern # <<>> /\ pattern[1] = Star ->
           \E taken \in 0..Len(value) :
             IsMatch(SubSeq(value, taken + 1, Len(value)), Tail(pattern))
      [] pattern # <<>> /\ pattern[1] # Star ->
           /\ value # <<>>
           /\ pattern[1] \in {QuestionMark, value[1]}
           /\ IsMatch(Tail(value), Tail(pattern))

\* Going back to the last star only finds a match whenever there is one
\* (ASWLog_Utils.cpp, MatchesWildcard(), which says what is a log's backup)
WildcardsMatchAsDefined ==
    call.of = "Matches" =>
      (MatchesWildcard(call.value, call.pattern) <=> IsMatch(call.value, call.pattern))

-----------------------------------------------------------------------------
(* Times *)

Number(digits) == FoldLeft(LAMBDA number, digit : number * 10 + digit - 48, 0, digits)

\* The year's text, and the day and second of a date's text before its fraction
ReadDate(text) ==
    LET letterT == CHOOSE i \in 1..Len(text) : text[i] = T!LetterT
        year == SubSeq(text, 1, letterT - 7)
        two(from) == Number(SubSeq(text, from, from + 1))
    IN  [Year |-> IF year[1] = T!Hyphen THEN -Number(Tail(year)) ELSE Number(year),
         Month |-> two(letterT - 5), Day |-> two(letterT - 2),
         OfDay |-> two(letterT + 1) * 3600 + two(letterT + 4) * 60 + two(letterT + 7),
         Next |-> letterT + 9]

FractionDigits(precision) ==
    CASE precision = "Milliseconds" -> 3 [] precision = "Microseconds" -> 6
      [] precision = "Nanoseconds" -> 9

\* A timestamp reads back, and the date a daily file is named by is its day
InstantsReadBack ==
    call.of = "Stamps" =>
      \A instant \in {call.instant} :
      \A text \in {T!WriteISO8601(instant.time, instant.ticks, instant.zone, instant.precision)} :
      \A date \in {ReadDate(text)} :
      LET digits == FractionDigits(instant.precision)
          fraction == Number(SubSeq(text, date.Next + 1, date.Next + digits))
          suffix == SubSeq(text, date.Next + 1 + digits, Len(text))
          minutes == Number(SubSeq(suffix, 2, 3)) * 60 + Number(SubSeq(suffix, 5, 6))
          offset == CASE suffix[1] = T!LetterZ -> 0 [] suffix[1] = T!Plus -> minutes
                      [] suffix[1] = T!Hyphen -> -minutes
          ofSecond == (instant.time % instant.ticks) * (1000000000 \div instant.ticks)
      IN  /\ T!DayOf(date) * 86400 + date.OfDay - offset * 60 = instant.time \div instant.ticks
          /\ fraction = ofSecond \div 10^(9 - digits)
          /\ suffix = <<T!LetterZ>> <=> ~(instant.zone.Name = "Local" /\ instant.zone.IsKnown)
          /\ Len(text) <= T!ISO8601BufferSize
          /\ T!DayOf(ReadDate(T!ToDateString(instant.time, instant.ticks, instant.zone)
                               \o SubSeq(text, date.Next - 9, date.Next - 1)))
               = (instant.time \div instant.ticks + offset * 60) \div 86400

\* A year reads back, and the longest timestamp fits the buffer
YearsReadBack ==
    call.of = "Dates" =>
      \A text \in {T!WriteDateAndTime([Year |-> call.year, Month |-> 12, Day |-> 31, Hour |-> 23,
                                        Minute |-> 59, Second |-> 58, Nanosecond |-> 0])} :
          /\ ReadDate(text).Year = call.year
          /\ Len(text \o T!WriteFraction(999999999, "Nanoseconds") \o T!WriteOffset(-840))
               <= T!ISO8601BufferSize

\* A timestamp reads back as the time it was written for, cut off at its
\* precision and never rounded up, before 1970 too, with a year of any number of
\* digits and in a zone ahead of UTC or behind it; where the local time can't be
\* told it says it is UTC; the date a daily file is named by is the day that is
\* there (ASWLog_Utils.cpp, WriteISO8601(), WriteDateAndTime(), ToDateString())
TimestampsReadBack == InstantsReadBack /\ YearsReadBack

-----------------------------------------------------------------------------
(* Patterns: what a placeholder means is told from how many quotes come    *)
(* before a character                                                      *)

\* The placeholder a pattern starts with, if it is one
Meaning(pattern) ==
    LET quotesBefore(i) == Cardinality({j \in 2..(i - 1) : pattern[j] = "'"})
        isQuoted(i) == quotesBefore(i) % 2 = 1
        isBare(i) == ~isQuoted(i) /\ pattern[i] # "'"
        ends == {i \in 2..Len(pattern) : isBare(i) /\ pattern[i] = "}"}
        end == Min(ends)
        \* What stands between the braces, by its places
        letters == {i \in 2..(end - 1) : isBare(i) /\ F!IsASCIILetter(pattern[i])}
        first == Min(letters)
        last == Max(letters)
        name == SubSeq(pattern, first, last)
        hasWidth == last + 1 < end /\ isBare(last + 1) /\ pattern[last + 1] = ":"
        afterWidth == CHOOSE i \in (last + 2)..end :
                        /\ \A j \in (last + 2)..(i - 1) : F!IsASCIIDigit(pattern[j])
                        /\ ~F!IsASCIIDigit(pattern[i])
        after == IF hasWidth THEN afterWidth ELSE last + 1
        digits == SubSeq(pattern, last + 2, afterWidth - 1)
        width == FoldLeft(LAMBDA n, d : n * 10 + (CHOOSE i \in 0..9 : F!Digits[i + 1] = d), 0, digits)
        \* A space that only separates quoted text from the rest of its affix
        separates(i, from, to) ==
          /\ isBare(i) /\ pattern[i] = " "
          /\ \E quote \in from..to :
               /\ pattern[quote] = "'"
               /\ \A j \in (quote + 1)..(i - 1) \cup (i + 1)..(quote - 1) :
                    isBare(j) /\ pattern[j] = " "
        \* A quote in quoted text is there twice, the second opening it again
        isWritten(i, from, to) ==
          IF pattern[i] = "'"
          THEN i > from /\ pattern[i - 1] = "'" /\ ~isQuoted(i) /\ quotesBefore(i) > 0
          ELSE ~separates(i, from, to)
        affix(from, to) ==
          LET places == SetToSortSeq({i \in from..to : isWritten(i, from, to)}, <)
          IN  [n \in 1..Len(places) |-> pattern[places[n]]]
    IN  IF /\ ends # {}
           /\ letters # {} /\ letters = first..last /\ name \in F!Names
           /\ hasWidth => Len(digits) > 0 /\ width \in 1..F!MaxPatternWidth
           /\ \A i \in 2..(first - 1) \cup after..(end - 1) :
                isBare(i) => ~F!IsASCIIDigit(pattern[i]) /\ pattern[i] \notin {":", "{"}
        THEN [IsValid |-> TRUE, Next |-> end + 1,
              Part |-> F!TPart(name, IF hasWidth THEN width ELSE 0,
                               affix(2, first - 1), affix(after, end - 1))]
        ELSE F!PatternError

\* A placeholder is taken or refused, and its affixes, name and width are what
\* the documentation of TASWPatternFormatter says
PlaceholdersMeanTheirText ==
    call.of = "Parses" => F!ParsePlaceholder(call.pattern, 1) = Meaning(call.pattern)

Brackets(name) == <<"[", "{">> \o name \o <<"}", "]">>
Labelled(label, name) == <<"[">> \o label \o <<":", "{">> \o name \o <<"}", "]">>
IfAny(name) == <<"{", "[">> \o name \o <<"]", "}">>

\* The pattern of the built-in layout with some options
LayoutPattern(options) ==
    LET shown(option, pattern) == IF option \in options THEN pattern ELSE <<>>
    IN  shown("Timestamp", Brackets(<<"t", "i", "m", "e">>))
          \o shown("Level", Brackets(<<"l", "e", "v", "e", "l">>))
          \o shown("Category", IfAny(<<"c", "a", "t", "e", "g", "o", "r", "y">>))
          \o shown("ProcessId", Labelled(<<"P">>, <<"p", "i", "d">>))
          \o shown("ThreadId", Labelled(<<"T">>, <<"t", "i", "d">>))
          \o shown("WorkingSet", Labelled(<<"W", "S">>, <<"w", "s">>))
          \o shown("PeakWorkingSet", Labelled(<<"P", "W", "S">>, <<"p", "w", "s">>))
          \o shown("FunctionName", Brackets(<<"f", "u", "n", "c", "t", "i", "o", "n">>))
          \o shown("SourceLine", <<"[", "{", "f", "i", "l", "e", "}", ":",
                                   "{", "l", "i", "n", "e", "}", "]">>)
          \o shown("Fields", IfAny(<<"f", "i", "e", "l", "d", "s">>))
          \o <<":", " ", "{", "m", "e", "s", "s", "a", "g", "e", "}">>

\* The pattern that spells the built-in layout writes its line
LayoutIsAPattern ==
    call.of = "Formats" =>
      LET formatter == F!TASWPatternFormatter(LayoutPattern(call.options))
      IN  /\ formatter.IsValid
          /\ F!PatternFormat(formatter.Parts, call.record)
               = F!FormatLine(call.record, call.options)

\* What a pattern means does not depend on the way it is parsed: a placeholder's
\* affixes, name and width are told by the quotes around them (spaces that only
\* separate quoted text, doubled quotes, what has to be in quotes), and the
\* pattern that spells the built-in layout writes its line, with any options,
\* category and fields (ASWLog_Formatter.cpp, ParsePlaceholder(), FormatLine())
PatternMatchesTheLayout == PlaceholdersMeanTheirText /\ LayoutIsAPattern

-----------------------------------------------------------------------------
(* Fields and JSON lines *)

AllFields(scopes, own) == FlattenSeq(Append(scopes, own))

\* A field in force: none after it has its key
InForce(all) ==
    {all[i] : i \in {i \in 1..Len(all) : \A j \in (i + 1)..Len(all) : all[j].Key # all[i].Key}}

\* The members of a JSON object, written without spaces: names, values, and
\* commas between them only
RECURSIVE ReadMembers(_)
ReadMembers(tokens) ==
    LET close == Min({i \in 1..Len(tokens) : tokens[i] = F!Close})
        isObject == tokens[3] = F!Open
        valueEnd == IF isObject THEN close ELSE 3
        member == [Name |-> tokens[1].Name, Value |-> SubSeq(tokens, 3, valueEnd)]
    IN  IF Len(tokens) = valueEnd
        THEN <<member>>
        ELSE <<member>> \o ReadMembers(SubSeq(tokens, valueEnd + 2, Len(tokens)))

\* An entry's JSON object has each name once, and its fields in force, each key
\* once; what it is written from, joined again, is the line
JSONLinesReadBack ==
    call.of = "Formats" =>
      LET line == F!JSONFormat(call.record, call.options)
          members == ReadMembers(SubSeq(line, 2, Len(line) - 1))
          fields == {m \in Range(members) : m.Name = "fields"}
          inForce == InForce(AllFields(call.record.Scope, call.record.Fields))
          written == IF fields = {} THEN <<>>
                     ELSE LET value == (CHOOSE m \in fields : TRUE).Value
                          IN  ReadMembers(SubSeq(value, 2, Len(value) - 1))
          joined(list) == F!Joined([i \in 1..Len(list) |->
                                      <<F!JSONName(list[i].Name), F!Colon>> \o list[i].Value], <<F!Comma>>)
      IN  /\ line = <<F!Open>> \o joined(members) \o <<F!Close>>
          /\ \A i, j \in 1..Len(members) : members[i].Name = members[j].Name => i = j
          /\ members[Len(members)].Name = "message"
          /\ "Fields" \in call.options =>
               /\ Len(written) = Cardinality(inForce)
               /\ \A m \in Range(written) :
                    \E field \in inForce :
                      /\ m.Name = field.Key
                      /\ m.Value = <<IF field.Value.Kind \in {"Text", "NotFinite"}
                                     THEN F!JSONString(field.Value.Text)
                                     ELSE F!JSONNumber(field.Value.Text)>>

\* Fields carried to another thread are those the entry would have had, in
\* the same order, and the new scope's own replace them
ContextCarriesTheFields ==
    call.of = "Nests" =>
      LET context == F!Capture(call.scopes, TRUE)
          carried == <<F!NewScope(context, call.inner, TRUE)>>
      IN  F!ForEachLogField(carried, call.own)
            = F!ForEachLogField(Append(call.scopes, call.inner), call.own)

\* A field an OnBeforeWrite hook sets is the entry's only one with the key,
\* the others stay, and removed it is gone, whichever scope it was from
HookChangesOneField ==
    call.of = "Nests" =>
      LET merged == F!ForEachLogField(call.scopes, call.own)
          keys == {merged[i].Key : i \in 1..Len(merged)}
      IN  \A key \in keys \cup {"new"} :
            LET set == F!SetField(merged, key, "set")
                removed == F!RemoveField(set, key)
            IN  /\ F!ForEachLogField(<<>>, set) = set
                /\ F!FindField(set, key) = "set"
                /\ removed = SelectSeq(merged, LAMBDA field : field.Key # key)
                /\ Range(removed) = InForce(AllFields(call.scopes, call.own))
                                      \ {F!Field(key, v) : v \in {m.Value : m \in Range(merged)}}

\* Wherever fields are merged, a key shows once with its innermost value: in a
\* line, a JSON object, a context captured on one thread and carried to another,
\* and what an OnBeforeWrite hook makes of an entry (ASWLog_Fields.cpp,
\* ForEachLogField(), AppendFieldsJSON(), Capture(), and ASWLog_Types.cpp,
\* TASWPendingEntry)
FieldsShowOnce == JSONLinesReadBack /\ ContextCarriesTheFields /\ HookChangesOneField

-----------------------------------------------------------------------------
(* Crash lines *)

\* The names of the pieces of a line that are not of a text
Structure(line) ==
    LET names == [i \in 1..Len(line.Pieces) |-> line.Pieces[i].Name]
    IN  SelectSeq(names, LAMBDA name : name \notin {"text", "rewritten"})

Strung == <<"quote", "quote">>

\* The structure of a crash line as JSON, with some of the record's fields
JSONStructure(record, kept) ==
    LET fields == SetToSortSeq(kept, <)
        field(i) == Strung \o <<"colon">> \o (IF record.Fields[i].IsText THEN Strung ELSE <<"number">>)
    IN  <<"time", "epoch_ms", "level">>
          \o (IF record.Category = <<>> THEN <<>> ELSE <<"category">> \o Strung)
          \o <<"pid", "number", "tid", "number">>
          \o (IF kept = {} THEN <<>>
              ELSE <<"fields">>
                     \o FlattenSeq([n \in 1..Len(fields) |->
                          IF n = 1 THEN field(fields[1]) ELSE <<"separator">> \o field(fields[n])])
                     \o <<"close">>)
          \o (IF record.Raw THEN <<"raw">> ELSE <<>>)
          \o <<"message">> \o Strung \o <<"close", "ending">>

\* A message is cut only where there is no room for one more character of it
UsesTheRoom(line) ==
    LET start == Max({0} \cup {i \in 1..Len(line.Pieces) : line.Pieces[i].Name = "message"})
        written == C!TextSize(SelectSeq(SubSeq(line.Pieces, start + 1, Len(line.Pieces)),
                                        LAMBDA piece : piece.Name \in {"text", "rewritten"}))
        widths == {piece.Width : piece \in Range(call.record.Message)}
    IN  written < C!TextSize(call.record.Message) => line.Size + Max(widths) > C!Capacity

\* A JSON logger's crash line is a whole object and its line ending
CrashJSONIsWhole ==
    call.of = "Crashes" =>
      \A line \in {C!AppendCrashJSONLine(call.record, call.usesCRLF)} :
          /\ \E kept \in SUBSET (1..Len(call.record.Fields)) :
               Structure(line) = JSONStructure(call.record, kept)
          /\ \A i \in 1..Len(line.Pieces) :
               line.Pieces[i].IsWhole \/ line.Pieces[i].Name = "text"
          /\ line.Size = C!TextSize(line.Pieces) /\ line.Size <= C!Capacity
          /\ UsesTheRoom(line)

\* A text logger's ends with the line ending, no rewritten line break in it is
\* cut, and its fields' texts are closed
CrashLineEnds ==
    call.of = "Crashes" =>
      \A line \in {C!AppendCrashLine(call.record, call.usesCRLF)} :
      LET last == line.Pieces[Len(line.Pieces)]
          quotes == {i \in 1..Len(line.Pieces) : line.Pieces[i].Name = "quote"}
      IN  /\ last = C!Piece("ending", C!Ending(call.usesCRLF), TRUE)
          /\ \A i \in 1..Len(line.Pieces) :
               line.Pieces[i].Name \in {"rewritten", "key", "equals", "separator"}
                 => line.Pieces[i].IsWhole
          /\ Cardinality(quotes) % 2 = 0
          /\ line.Size = C!TextSize(line.Pieces) /\ line.Size <= C!Capacity
          /\ UsesTheRoom(line)

\* However long the category, the fields and the message are, a JSON crash line
\* is whole: what is kept free for the rest of it is enough for the longest ids,
\* texts and objects are closed and it ends with the line ending.  A text one
\* only keeps its line ending, its fields are whole, and so are the line breaks
\* rewritten in it; nothing is kept free for its ids and its message, so a long
\* category cuts them off, and these texts are cut between any two bytes.  In
\* both, the message is cut only where the line is full
\* (ASWLog_CrashHandler.cpp, AppendCrashLine(), AppendCrashJSONLine())
CrashLinesAreWhole == CrashJSONIsWhole /\ CrashLineEnds

-----------------------------------------------------------------------------
(* Settings *)

Before == [Config |-> [target \in {S!Target(key) : key \in Range(S!SettingKeys)} |->
                         CASE target = "BACKTRACE" -> 0
                           [] target \in {"ASYNC", "SHOW_FUNCTION", "SHOW_SOURCE"} -> FALSE
                           [] OTHER -> "as set by the code"],
           Reports |-> 0]

\* The orders some keys can be in
Orders(keys) == {order \in [1..Cardinality(keys) -> keys] : Range(order) = keys}

ApplyInOrder(settings, order, variables, valid) ==
    FoldLeft(LAMBDA result, key :
               S!ApplySetting(result, key, variables[key], valid).Settings, settings, order)

\* The settings of an environment do the same in any order and without invalid
\* ones
AppliedInAnyOrder ==
    call.of = "Configures" =>
      LET variables == call.variables
          keys == DOMAIN variables
          result == S!ApplyEnvironment(Before, variables, call.valid)
          invalid == {key \in keys : ~S!ApplySetting(Before, key, variables[key], call.valid).IsValid}
          comesLast(order) == \A i, j \in 1..Len(order) :
                                order[i] = "FORMAT" /\ order[j] = "PATTERN" => i < j
      IN  /\ \A order \in Orders(keys \ invalid) :
               comesLast(order) =>
                 ApplyInOrder(Before, order, variables, call.valid).Config = result.Settings.Config
          /\ result.IsValid <=> invalid = {}
          /\ result.Settings.Reports = Cardinality(invalid)

\* Every name the library writes for a value is read back as it
NamesReadBack ==
    call.of = "Names" =>
      \A type \in {<<S!Level_FromString, S!Level_ToString>>,
                   <<S!AsyncOverflowPolicy_FromString, S!AsyncOverflowPolicy_ToString>>,
                   <<S!ColorMode_FromString, S!ColorMode_ToString>>,
                   <<S!FlushMode_FromString, S!FlushMode_ToString>>,
                   <<S!LineEnding_FromString, S!LineEnding_ToString>>,
                   <<S!MultilineMode_FromString, S!MultilineMode_ToString>>,
                   <<S!SyslogFacility_FromString, S!SyslogFacility_ToString>>,
                   <<S!TimePrecision_FromString, S!TimePrecision_ToString>>,
                   <<S!TimeZone_FromString, S!TimeZone_ToString>>} :
        \A value \in DOMAIN type[2] :
          /\ type[2][value] \in DOMAIN type[1]
          /\ type[1][type[2][value]] = value

\* An environment does what its settings do one by one, in any order in which
\* a pattern comes after a format; each invalid one is reported and leaves all
\* as it is; and every name the library writes for a value is a valid word
\* that means it (ASWLog_Config.cpp, ApplyEnvironment(), ApplyNamedSetting();
\* ASWLog_Types, the FromString() and ToString() functions)
SettingsAreIndependent == AppliedInAnyOrder /\ NamesReadBack
=============================================================================
