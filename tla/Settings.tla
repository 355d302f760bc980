------------------------------ MODULE Settings ------------------------------
(***************************************************************************)
(* The settings an application reads from its environment or its own       *)
(* sources (ASWLog_Config), and the names of the values (ASWLog_Types).    *)
(* A value is a word, told apart without its case and the spaces around    *)
(* it, and the number it is, if it is one; the empty word is no value.     *)
(***************************************************************************)
EXTENDS Integers, Sequences, SequencesExt

Value(word, number) == [Word |-> word, Number |-> number]
NoNumber == -1

\* The largest std::size_t, for the model
MaxCount == 1000

-----------------------------------------------------------------------------
(* The names: what FromString() reads, and what ToString() writes *)

Level_FromString ==
    [TRACE |-> "Trace", DEBUG |-> "Debug", INFO |-> "Info", WARN |-> "Warn", WARNING |-> "Warn",
     ERROR |-> "Error", CRITICAL |-> "Critical", FATAL |-> "Critical", OFF |-> "Off",
     NONE |-> "Off"]
Level_ToString ==
    [Trace |-> "TRACE", Debug |-> "DEBUG", Info |-> "INFO", Warn |-> "WARN", Error |-> "ERROR",
     Critical |-> "CRITICAL", Off |-> "OFF"]

AsyncOverflowPolicy_FromString ==
    [BLOCK |-> "Block", DROP_NEWEST |-> "DropNewest", DROPNEWEST |-> "DropNewest"]
AsyncOverflowPolicy_ToString == [Block |-> "BLOCK", DropNewest |-> "DROP_NEWEST"]

ColorMode_FromString == [AUTO |-> "Auto", ALWAYS |-> "Always", NEVER |-> "Never"]
ColorMode_ToString == [Auto |-> "AUTO", Always |-> "ALWAYS", Never |-> "NEVER"]

FlushMode_FromString ==
    [EVERY_WRITE |-> "EveryWrite", EVERYWRITE |-> "EveryWrite", ON_NEW_LINE |-> "OnNewLine",
     ONNEWLINE |-> "OnNewLine", MANUAL |-> "Manual", PERIODIC |-> "Periodic"]
FlushMode_ToString ==
    [EveryWrite |-> "EVERY_WRITE", OnNewLine |-> "ON_NEW_LINE", Manual |-> "MANUAL",
     Periodic |-> "PERIODIC"]

LineEnding_FromString == [LF |-> "LF", LINUX |-> "LF", CRLF |-> "CRLF", WINDOWS |-> "CRLF"]
LineEnding_ToString == [LF |-> "LF", CRLF |-> "CRLF"]

MultilineMode_FromString == [PRESERVE |-> "Preserve", INDENT |-> "Indent", ESCAPE |-> "Escape"]
MultilineMode_ToString == [Preserve |-> "PRESERVE", Indent |-> "INDENT", Escape |-> "ESCAPE"]

SyslogFacility_ToString ==
    [User |-> "USER", Daemon |-> "DAEMON", Local0 |-> "LOCAL0", Local1 |-> "LOCAL1",
     Local2 |-> "LOCAL2", Local3 |-> "LOCAL3", Local4 |-> "LOCAL4", Local5 |-> "LOCAL5",
     Local6 |-> "LOCAL6", Local7 |-> "LOCAL7"]
\* The facility whose name it is
SyslogFacility_FromString ==
    [name \in {SyslogFacility_ToString[f] : f \in DOMAIN SyslogFacility_ToString} |->
       CHOOSE f \in DOMAIN SyslogFacility_ToString : SyslogFacility_ToString[f] = name]

TimePrecision_FromString ==
    [MILLISECONDS |-> "Milliseconds", MS |-> "Milliseconds", MICROSECONDS |-> "Microseconds",
     US |-> "Microseconds", NANOSECONDS |-> "Nanoseconds", NS |-> "Nanoseconds"]
TimePrecision_ToString ==
    [Milliseconds |-> "MILLISECONDS", Microseconds |-> "MICROSECONDS",
     Nanoseconds |-> "NANOSECONDS"]

TimeZone_FromString == [name \in {"UTC", "LOCAL"} |-> IF name = "UTC" THEN "UTC" ELSE "Local"]
TimeZone_ToString == [UTC |-> "UTC", Local |-> "LOCAL"]

Yes == {"1", "TRUE", "YES", "ON"}
No == {"0", "FALSE", "NO", "OFF"}
ParseBool == [word \in Yes \cup No |-> word \in Yes]

-----------------------------------------------------------------------------
(* The settings.  What they set is a config, by the name of the setting,   *)
(* the Rules of the categories, which are the process's, and how many      *)
(* invalid settings were reported.                                         *)

\* Mutant: FORMAT undoes PATTERN
FormatLast ==
    <<"LEVEL", "CATEGORIES", "FOLDER", "FILE", "FLUSH", "SYNC_AT_LEVEL", "ASYNC", "BACKTRACE",
      "TIME_ZONE", "TIME_PRECISION", "MULTILINE", "SHOW_FUNCTION", "SHOW_SOURCE", "PATTERN",
      "FORMAT">>

SettingKeys ==
    <<"LEVEL", "CATEGORIES", "FOLDER", "FILE", "FLUSH", "SYNC_AT_LEVEL", "ASYNC", "BACKTRACE",
      "TIME_ZONE", "TIME_PRECISION", "MULTILINE", "SHOW_FUNCTION", "SHOW_SOURCE", "FORMAT",
      "PATTERN">>

\* What a setting reads a value as: a function of the words it knows
Known(key) ==
    CASE key \in {"LEVEL", "SYNC_AT_LEVEL"} -> Level_FromString
      [] key = "FLUSH" -> FlushMode_FromString
      [] key \in {"ASYNC", "SHOW_FUNCTION", "SHOW_SOURCE"} -> ParseBool
      [] key = "TIME_ZONE" -> TimeZone_FromString
      [] key = "TIME_PRECISION" -> TimePrecision_FromString
      [] key = "MULTILINE" -> MultilineMode_FromString
      [] key = "FORMAT" -> [TEXT |-> "TASWTextFormatter", JSON |-> "TASWJSONFormatter"]

ParseCount(value) ==
    IF value.Number \in 0..MaxCount THEN {value.Number} ELSE {}

\* The word itself where any is valid, or what is external's to say: a spec of
\* ApplyLevels(), a pattern
Parsed(key, value, valid) ==
    CASE key \in {"FOLDER", "FILE"} -> {value.Word}
      [] key = "BACKTRACE" -> ParseCount(value)
      [] key \in {"CATEGORIES", "PATTERN"} -> {value.Word} \cap valid
      [] OTHER -> IF value.Word \in DOMAIN Known(key) THEN {Known(key)[value.Word]} ELSE {}

\* FORMAT and PATTERN set the same, Line.Formatter
Target(key) == IF key \in {"FORMAT", "PATTERN"} THEN "Formatter" ELSE key

ReportInvalidSetting(settings) == [settings EXCEPT !.Reports = @ + 1]

\* An invalid value leaves the setting as it is
Assign(settings, key, parsed) ==
    IF parsed = {}
    THEN ReportInvalidSetting(settings)
    ELSE [settings EXCEPT !.Config[Target(key)] = CHOOSE value \in parsed : TRUE]

ApplyNamedSetting(settings, key, value, valid) ==
    CASE key \notin Range(SettingKeys) -> ReportInvalidSetting(settings)
      [] key \in Range(SettingKeys) /\ value.Word = "" -> settings
      [] key \in Range(SettingKeys) /\ value.Word # "" ->
           Assign(settings, key, Parsed(key, value, valid))

\* TASWLogConfig::ApplySetting(): what it sets, and whether it was valid
ApplySetting(settings, key, value, valid) ==
    LET applied == ApplyNamedSetting(settings, key, value, valid)
    IN  [Settings |-> applied, IsValid |-> applied.Reports = settings.Reports]

\* TASWLogConfig::ApplyEnvironment(): the variables that are set, in the order
\* of the keys
ApplyEnvironment(settings, variables, valid) ==
    LET applied ==
          FoldLeft(LAMBDA result, key : IF key \in DOMAIN variables
                                        THEN ApplyNamedSetting(result, key, variables[key], valid)
                                        ELSE result, settings, SettingKeys)
    IN  [Settings |-> applied, IsValid |-> applied.Reports = settings.Reports]
=============================================================================
