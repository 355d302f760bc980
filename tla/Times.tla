------------------------------- MODULE Times -------------------------------
(***************************************************************************)
(* Timestamps as text (namespace Time of ASWLog_Utils).  A time is a       *)
(* number of clock ticks since 1970, negative before; how many of them are *)
(* a second depends on the platform.  A text is a sequence of bytes.       *)
(***************************************************************************)
EXTENDS Integers, Sequences

ISO8601BufferSize == 40

Hyphen == 45
Digit(number) == 48 + number
LetterT == 84
LetterZ == 90
Colon == 58
Point == 46
Plus == 43

-----------------------------------------------------------------------------
(* The calendar, counted from March so that a leap day ends its year       *)
(* (std::chrono and the C library)                                         *)

DateOf(day) ==
    LET shifted == day + 719468
        ofEra == shifted % 146097
        yearOfEra == (ofEra - ofEra \div 1460 + ofEra \div 36524 - ofEra \div 146096) \div 365
        ofYear == ofEra - (365 * yearOfEra + yearOfEra \div 4 - yearOfEra \div 100)
        month == (5 * ofYear + 2) \div 153
        year == yearOfEra + 400 * (shifted \div 146097)
    IN  [Year |-> IF month < 10 THEN year ELSE year + 1,
         Month |-> IF month < 10 THEN month + 3 ELSE month - 9,
         Day |-> ofYear - (153 * month + 2) \div 5 + 1]

DayOf(date) ==
    LET year == IF date.Month > 2 THEN date.Year ELSE date.Year - 1
        month == (date.Month + 9) % 12
    IN  365 * year + year \div 4 - year \div 100 + year \div 400
          + (153 * month + 2) \div 5 + date.Day - 1 - 719468

Calendar(seconds) ==
    LET date == DateOf(seconds \div 86400)
        ofDay == seconds % 86400
    IN  [Year |-> date.Year, Month |-> date.Month, Day |-> date.Day,
         Hour |-> ofDay \div 3600, Minute |-> (ofDay \div 60) % 60, Second |-> ofDay % 60]

\* A zone: "UTC", or "Local" with what localtime_r() makes of a time, which is
\* nothing where it can't tell
Zone(name, isKnown, offsetSeconds) ==
    [Name |-> name, IsKnown |-> isKnown, OffsetSeconds |-> offsetSeconds]

-----------------------------------------------------------------------------

TDateAndTime(calendar, nanosecond) ==
    [Year |-> calendar.Year, Month |-> calendar.Month, Day |-> calendar.Day,
     Hour |-> calendar.Hour, Minute |-> calendar.Minute, Second |-> calendar.Second,
     Nanosecond |-> nanosecond]

\* Division of C++
Truncated(a, b) == IF a < 0 THEN -((-a) \div b) ELSE a \div b

\* The second a time is in
Floor(time, ticks) == time \div ticks

Nanosecond(time, ticks) == (time - Floor(time, ticks) * ticks) * (1000000000 \div ticks)

ToUTCDateAndTime(time, ticks) ==
    TDateAndTime(Calendar(Floor(time, ticks)), Nanosecond(time, ticks))

\* ToLocalCalendarTime() and what ToLocalDateAndTime() takes from it
ToLocalDateAndTime(time, ticks, zone) ==
    TDateAndTime(Calendar(Floor(time, ticks) + zone.OffsetSeconds), Nanosecond(time, ticks))

\* The local date and time read as if they were UTC, minus the time
GetOffsetMinutes(local, seconds) ==
    Truncated(DayOf(local) * 86400 + local.Hour * 3600 + local.Minute * 60 + local.Second
                - seconds, 60)

GetUTCOffsetMinutes(time, ticks, zone) ==
    IF zone.IsKnown
    THEN GetOffsetMinutes(Calendar(Floor(time, ticks) + zone.OffsetSeconds), Floor(time, ticks))
    ELSE 0

-----------------------------------------------------------------------------

\* The lowest digits of a value, with leading zeros
WriteDigits(value, digitCount) ==
    [i \in 1..digitCount |-> Digit((value \div 10^(digitCount - i)) % 10)]

\* std::to_chars() of a year
ToChars(number) ==
    LET absolute == IF number < 0 THEN -number ELSE number
        count == CHOOSE n \in 1..6 : absolute < 10^n /\ (n > 1 => absolute >= 10^(n - 1))
    IN  (IF number < 0 THEN <<Hyphen>> ELSE <<>>) \o WriteDigits(absolute, count)

WriteYear(year) == IF year \in 0..9999 THEN WriteDigits(year, 4) ELSE ToChars(year)

WriteDateAndTime(dateAndTime) ==
    WriteYear(dateAndTime.Year) \o <<Hyphen>> \o WriteDigits(dateAndTime.Month, 2)
      \o <<Hyphen>> \o WriteDigits(dateAndTime.Day, 2)
      \o <<LetterT>> \o WriteDigits(dateAndTime.Hour, 2)
      \o <<Colon>> \o WriteDigits(dateAndTime.Minute, 2)
      \o <<Colon>> \o WriteDigits(dateAndTime.Second, 2)

WriteFraction(nanoseconds, precision) ==
    <<Point>> \o (CASE precision = "Microseconds" -> WriteDigits(nanoseconds \div 1000, 6)
                    [] precision = "Nanoseconds" -> WriteDigits(nanoseconds, 9)
                    [] precision = "Milliseconds" -> WriteDigits(nanoseconds \div 1000000, 3))

\* Mutant: the hours and minutes of the offset are rounded down
OffsetRoundedDown(offsetMinutes) ==
    (IF offsetMinutes < 0 THEN <<Hyphen>> ELSE <<Plus>>)
      \o WriteDigits(IF offsetMinutes < 0 THEN -(offsetMinutes \div 60) ELSE offsetMinutes \div 60, 2)
      \o <<Colon>> \o WriteDigits(offsetMinutes % 60, 2)

\* A zone's offset as WriteISO8601() writes it
WriteOffset(offsetMinutes) ==
    LET absolute == IF offsetMinutes < 0 THEN -offsetMinutes ELSE offsetMinutes
    IN  (IF offsetMinutes < 0 THEN <<Hyphen>> ELSE <<Plus>>)
          \o WriteDigits(absolute \div 60, 2) \o <<Colon>> \o WriteDigits(absolute % 60, 2)

WriteISO8601(time, ticks, zone, precision) ==
    LET isLocal == zone.Name = "Local" /\ zone.IsKnown
        dateAndTime == IF isLocal THEN ToLocalDateAndTime(time, ticks, zone)
                       ELSE ToUTCDateAndTime(time, ticks)
    IN  WriteDateAndTime(dateAndTime) \o WriteFraction(dateAndTime.Nanosecond, precision)
          \o (IF isLocal THEN WriteOffset(GetUTCOffsetMinutes(time, ticks, zone)) ELSE <<LetterZ>>)

\* What comes before the 'T'
ToDateString(time, ticks, zone) ==
    LET text == WriteISO8601(time, ticks, zone, "Milliseconds")
    IN  SubSeq(text, 1, (CHOOSE i \in 1..Len(text) : text[i] = LetterT) - 1)
=============================================================================
