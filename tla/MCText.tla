------------------------------- MODULE MCText -------------------------------
(* The texts of Text for TLC *)
EXTENDS Text

SeqsUpTo(set, n) == UNION {[1..k -> set] : k \in 0..n}

\* The ends of the ranges of UTF-8's bytes, and what JSON escapes
MCBytes ==
    SeqsUpTo({8, 31, 34, 65, 127, 128, 143, 144, 159, 160, 191, 193, 194, 224, 225, 237, 240, 244, 245}, 3)
      \cup {<<lead>> \o rest : lead \in {194, 224, 225, 237, 240, 241, 244, 245},
                               rest \in [1..3 -> {65, 128, 143, 144, 159, 160, 191, 194}]}
      \cup {<<byte, 92, 10>> : byte \in {9, 10, 12, 13, 92, 192}}

\* The ends of the ranges of characters
MCCharacters ==
    SeqsUpTo({0, 65, 127, 128, 2047, 2048, 55295, 57344, 65533, 65535, 65536, 1114111}, 2)
MCUnits == SeqsUpTo({65, 128, 55295, 55296, 56319, 56320, 57343, 57344, 65535}, 3)

\* Bytes beside those the tests look for
MCWords ==
    [1..3 -> {0, 1, 10, 11, 13, 14, 31, 32, 33, 34, 35, 91, 92, 93, 127, 128, 162, 255}]

MCLines == SeqsUpTo({97, CR, LF}, 5)
\* Characters of 1 to 4 bytes, and sizes with and without room for the marker
MCCuts == SeqsUpTo({65, 233, 8364, 128512}, 4) \X (0..16)
MCWildcards == SeqsUpTo({97, 98}, 5) \X SeqsUpTo({97, 98, Star, QuestionMark}, 4)

Zones ==
    {T!Zone("UTC", TRUE, 0), T!Zone("Local", FALSE, 0)}
      \cup {T!Zone("Local", TRUE, seconds) : seconds \in {0, 3600, -1800, -12600, 20700, 50400, -43200}}
Clocks ==
    {<<1000, time>> : time \in {-2147482500, -86400001, -86400000, -1500, -1000, -999, -1, 0, 1, 999,
                                1000, 86399999, 86400000, 2147483647}}
      \cup {<<1000000, time>> : time \in {-1000001, -1, 0, 999999, 2147483647}}
      \cup {<<1000000000, time>> : time \in {-2000000000, -1000000001, -999999999, -1, 0, 1, 1999999999}}
MCInstants ==
    {[time |-> clock[2], ticks |-> clock[1], zone |-> zone, precision |-> precision] :
       clock \in Clocks, zone \in Zones,
       precision \in {"Milliseconds", "Microseconds", "Nanoseconds"}}
MCYears == {-32767, -1000, -1, 0, 1, 9, 99, 999, 1970, 9999, 10000, 32767}

Chunks ==
    {<<"'">>, <<" ">>, <<"-">>, <<":">>, <<"{">>, <<"}">>, <<"w", "s">>, <<"x">>, <<"1">>, <<"0">>}
AffixText == SeqsUpTo({"'", " ", "-"}, 4)
MCPlaceholders ==
    {FlattenSeq(chunks) : chunks \in SeqsUpTo(Chunks, 4)}
      \cup {before \o <<"w", "s">> \o after \o <<"}">> :
              before \in AffixText, after \in SeqsUpTo({"'", " ", "-"}, 2)}
      \cup {before \o <<"w", "s">> \o after \o <<"}">> :
              before \in SeqsUpTo({"'", "-"}, 1), after \in AffixText}
      \cup {<<"w", "s", ":">> \o width \o after \o <<"}">> :
              width \in {<<"0">>, <<"9">>, <<"0", "1">>, <<"1", "0", "0", "0">>, <<"1", "0", "0", "1">>},
              after \in SeqsUpTo({"'", " ", "-", "1", ":"}, 2)}

Text1(text) == [Kind |-> "Text", Text |-> <<text>>]
Values == {Text1("a"), [Kind |-> "Number", Text |-> <<"7">>], [Kind |-> "NotFinite", Text |-> <<"N">>]}
Record(category, scope, fields, raw) ==
    [Timestamp |-> <<"T">>, Epoch |-> <<"0">>, Level |-> <<"I">>, Category |-> category,
     ProcessId |-> <<"1">>, ThreadId |-> <<"2">>, WorkingSet |-> <<"3">>, PeakWorkingSet |-> <<"4">>,
     FunctionName |-> <<"f">>, File |-> <<"c">>, Line |-> <<"5">>, Scope |-> scope, Fields |-> fields,
     Raw |-> raw, Message |-> <<"m">>]
AllOptions ==
    {"Timestamp", "Level", "Category", "ProcessId", "ThreadId", "WorkingSet", "PeakWorkingSet",
     "FunctionName", "SourceLine", "Fields"}
Category == {<<>>, <<"c">>}
SomeFields == SeqsUpTo({F!Field(key, value) : key \in {"j", "k"}, value \in Values}, 2)
MCRecords ==
    {<<Record(category, <<>>, fields, raw), options>> :
       category \in Category, fields \in {<<>>, <<F!Field("k", Text1("a"))>>}, raw \in BOOLEAN,
       options \in SUBSET AllOptions}
      \cup {<<Record(<<>>, scope, fields, FALSE), AllOptions>> :
              scope \in SeqsUpTo({<<>>, <<F!Field("j", Text1("s"))>>, <<F!Field("k", Text1("s"))>>}, 2),
              fields \in SomeFields}

OneField == {<<>>} \cup {<<F!Field(key, value)>> : key \in {"j", "k"}, value \in {"1", "2"}}
TwoFields == SeqsUpTo({F!Field(key, value) : key \in {"j", "k"}, value \in {"1", "2"}}, 2)
MCScopes == SeqsUpTo(OneField, 2) \X TwoFields \X OneField \cup SeqsUpTo(OneField, 1) \X TwoFields \X TwoFields

\* Categories, fields and messages that end before the room they have, at its
\* end and past it
CrashCategory ==
    {<<>>, <<C!Run(5, 1)>>, <<C!Run(600, 1), C!Rewritten(6), C!Run(270, 3)>>, <<C!Run(1000, 1)>>}
      \cup {<<C!Run(size, 1)>> : size \in {795, 800, 805, 810, 860, 879, 880}}
CrashField(keySize, isText, value) ==
    [Key |-> <<C!Run(keySize, 1)>>, IsText |-> isText, Value |-> value]
CrashFields ==
    {<<>>, <<CrashField(3, FALSE, 20)>>, <<CrashField(3, TRUE, <<C!Run(2000, 2)>>)>>,
     <<CrashField(2000, FALSE, 1), CrashField(1, TRUE, <<C!Rewritten(6), C!Run(4, 1)>>)>>,
     <<CrashField(3, FALSE, 1), CrashField(3, FALSE, 2)>>}
CrashMessage ==
    {<<>>, <<C!Run(2000, 1)>>, <<C!Run(1998, 3)>>, <<C!Run(20, 1), C!Rewritten(6), C!Run(5, 1)>>}
      \cup {<<C!Run(size, 1), C!Rewritten(6), C!Run(60, 4)>> : size \in {30, 40, 45, 872, 873, 874, 878, 890}}
MCCrashRecords ==
    {[TimeSize |-> time, EpochSize |-> 13, LevelSize |-> 8, Category |-> category, PidSize |-> id,
      TidSize |-> id, HasScope |-> hasScope, Fields |-> fields, Raw |-> raw, Message |-> message] :
       time \in {24, 30}, category \in CrashCategory, id \in {1, 10}, hasScope \in BOOLEAN,
       fields \in CrashFields, raw \in BOOLEAN, message \in CrashMessage}

MCValid == {"spec", "pattern"}
ValuesOf(key) ==
    LET words == CASE key \in {"LEVEL", "SYNC_AT_LEVEL"} -> {"WARNING", "LOUD"}
                   [] key = "FLUSH" -> {"PERIODIC", "1"}
                   [] key \in {"ASYNC", "SHOW_FUNCTION", "SHOW_SOURCE"} -> {"ON", "MAYBE"}
                   [] key = "TIME_ZONE" -> {"LOCAL", "EST"}
                   [] key = "TIME_PRECISION" -> {"US", "S"}
                   [] key = "MULTILINE" -> {"ESCAPE", "KEEP"}
                   [] key = "FORMAT" -> {"JSON", "XML"}
                   [] key = "PATTERN" -> {"pattern", "{"}
                   [] key = "CATEGORIES" -> {"spec", "="}
                   [] OTHER -> {"path"}
    IN  {S!Value("", S!NoNumber)}
          \cup (IF key = "BACKTRACE" THEN {S!Value("number", n) : n \in {-1, 0, 1000, 1001}}
                ELSE {S!Value(word, S!NoNumber) : word \in words})
ValuesOfKeys(keys) ==
    {f \in [keys -> UNION {ValuesOf(key) : key \in keys}] : \A key \in keys : f[key] \in ValuesOf(key)}
MCEnvironments ==
    LET keys == Range(S!SettingKeys)
        sets == {{a, b} : a, b \in keys} \cup {{"FORMAT", "PATTERN", a} : a \in keys}
    IN  {<<variables, MCValid>> : variables \in UNION {ValuesOfKeys(set) : set \in sets}}
=============================================================================
