------------------------------ MODULE CallSite ------------------------------
(***************************************************************************)
(* One place in a program that logs through a rate limiter                 *)
(* (ASWLOG_ONCE(), ASWLOG_EVERY_N(), ASWLOG_EVERY_INTERVAL()), reached by  *)
(* several threads, each in scopes of its own, and what a failed write     *)
(* leads to: a report that is throttled in turn, and a handler that may    *)
(* reach the same place again.                                             *)
(*                                                                         *)
(* A step is one atomic operation of the limiter, one critical section of  *)
(* m_ErrorReportMutex, or one call of the logger.                          *)
(***************************************************************************)
EXTENDS Integers, Sequences, Fields

CONSTANTS
    Threads,
    Limiters,            \* the limiters the place may have
    Kinds,               \* the kinds of errors
    MinTicks, MaxTicks,  \* the range of the steady clock
    Times,               \* what the system clock may say
    ErrorReportInterval,
    ScopeFields,         \* the fields of a scope a thread opens itself
    MaxCalls,            \* bound: the calls of each thread
    MaxScopes            \* bound: the scopes of each thread, its calls' apart

\* TASWLogLimiter's Kind, m_N and m_IntervalTicks
Limiter == [Kind : {"Once", "EveryN", "EveryInterval"}, N : Nat \ {0}, IntervalTicks : Int]

ASSUME LimiterAssumption == Limiters \subseteq Limiter /\ Limiters # {}
\* An interval has the clock's width
ASSUME ClockAssumption ==
    /\ MinTicks \in Int /\ MaxTicks \in Nat /\ MinTicks <= 0
    /\ \A l \in Limiters : MinTicks <= l.IntervalTicks /\ l.IntervalTicks <= MaxTicks
ASSUME ReportAssumption == Times \subseteq Int /\ ErrorReportInterval \in Nat /\ Kinds # {}
\* A field is the macro's, of a count, or has a name and a value of the users' scopes
FieldName == {"suppressed"} \cup UNION {{fields[i].Key : i \in DOMAIN fields} : fields \in ScopeFields}
FieldValue == Nat \cup UNION {{fields[i].Value : i \in DOMAIN fields} : fields \in ScopeFields}
AnyField == [Key : FieldName, Value : FieldValue]
ASSUME FieldsAssumption == ScopeFields \subseteq Seq(AnyField)
ASSUME BoundsAssumption == MaxCalls \in [Threads -> Nat]

VARIABLES
    limiter, m_CallCount, m_NextAllowedTicks, m_RefusedCount,
    clock,
    isEnabled,           \* the level lets the calls through
    m_ErrorReportStates,
    IsReportingError,
    scopes,              \* the chain of scopes each thread is in
    context,             \* the fields last captured
    frames,              \* the calls each thread is in, the last innermost
    calls,               \* the calls each thread made
    allowed, refused,    \* how many were allowed and refused so far,
    told,                \* how many refused ones the allowed ones were told of,
    lastAllowed,         \* and the time of the one allowed last
    suppressed, counted  \* the reports suppressed, and those later ones count

limiterVars == <<m_CallCount, m_NextAllowedTicks, m_RefusedCount, allowed, refused, told, lastAllowed>>
reportVars == <<m_ErrorReportStates, IsReportingError, suppressed, counted>>
scopeVars == <<scopes, context>>
vars == <<limiter, limiterVars, clock, isEnabled, reportVars, scopeVars, frames, calls>>

Steps == {"Load", "Exchange", "Refuse", "Take", "Write", "Report", "Handle", "Done"}

\* The locals of a call: the time it read, the next allowed time it loaded, how
\* many calls had been allowed when it did, and what it was told
Frame == [pc : Steps, now : MinTicks..MaxTicks, nextAllowed : MinTicks..MaxTicks, before : Nat,
          refusedCount : Nat, kind : Kinds, isWritten : BOOLEAN]

ReportState == [HasReported : BOOLEAN, LastReport : Times \cup {0}, SuppressedCount : Nat]

Top(t) == frames[t][Len(frames[t])]
At(t, pc) == frames[t] # <<>> /\ Top(t).pc = pc
Goes(t, frame) == frames' = [frames EXCEPT ![t][Len(frames[t])] = frame]
GoesTo(t, pc) == Goes(t, [Top(t) EXCEPT !.pc = pc])

\* The field ASWLOG_EVERY_INTERVAL() adds after skipped calls, in a scope
Suppressed(count) == <<Field("suppressed", count)>>
HasOwnScope(frame) == limiter.Kind = "EveryInterval" /\ frame.refusedCount > 0

Init ==
    /\ limiter \in Limiters
    /\ m_CallCount = 0 /\ m_NextAllowedTicks = MinTicks /\ m_RefusedCount = 0
    /\ clock = 0 /\ isEnabled = TRUE
    /\ m_ErrorReportStates =
          [k \in Kinds |-> [HasReported |-> FALSE, LastReport |-> 0, SuppressedCount |-> 0]]
    /\ IsReportingError = [t \in Threads |-> FALSE]
    /\ scopes = [t \in Threads |-> <<>>] /\ context = <<>>
    /\ frames = [t \in Threads |-> <<>>] /\ calls = [t \in Threads |-> 0]
    /\ allowed = 0 /\ refused = 0 /\ told = 0 /\ lastAllowed = MinTicks
    /\ suppressed = [k \in Kinds |-> 0] /\ counted = [k \in Kinds |-> 0]

Tick ==
    /\ clock < MaxTicks /\ clock' = clock + 1
    /\ UNCHANGED <<limiter, limiterVars, isEnabled, reportVars, scopeVars, frames, calls>>

SetLevel ==
    /\ isEnabled' = ~isEnabled
    /\ UNCHANGED <<limiter, limiterVars, clock, reportVars, scopeVars, frames, calls>>

----------------------------------------------------------------------------
(* Scopes a thread opens and ends around its calls *)

OpenScope(t, from, fields, isCopied) ==
    /\ frames[t] = <<>> /\ Len(scopes[t]) < MaxScopes[t]
    /\ scopes' = [scopes EXCEPT ![t] = Append(@, NewScope(from, fields, isCopied))]
    /\ UNCHANGED <<limiter, limiterVars, clock, isEnabled, reportVars, context, frames, calls>>

EndScope(t) ==
    /\ frames[t] = <<>> /\ scopes[t] # <<>>
    /\ scopes' = [scopes EXCEPT ![t] = Front(@)]
    /\ UNCHANGED <<limiter, limiterVars, clock, isEnabled, reportVars, context, frames, calls>>

CaptureScopes(t, isCopied) ==
    /\ frames[t] = <<>>
    /\ context' = Capture(scopes[t], isCopied)
    /\ UNCHANGED <<limiter, limiterVars, clock, isEnabled, reportVars, scopes, frames, calls>>

Scope(t) ==
    \/ \E from \in {<<>>, context}, fields \in ScopeFields, isCopied \in BOOLEAN :
          OpenScope(t, from, fields, isCopied)
    \/ EndScope(t)
    \/ \E isCopied \in BOOLEAN : CaptureScopes(t, isCopied)

----------------------------------------------------------------------------
(* TASWLogLimiter::Allow() *)

\* ShouldLog() lets the call through, and Allow() reads the clock
Call(t) ==
    /\ frames[t] = <<>> \/ At(t, "Handle")
    /\ isEnabled /\ calls[t] < MaxCalls[t]
    /\ calls' = [calls EXCEPT ![t] = @ + 1]
    /\ frames' = [frames EXCEPT ![t] = Append(@,
          [pc |-> "Load", now |-> clock, nextAllowed |-> MinTicks, before |-> 0,
           refusedCount |-> 0, kind |-> CHOOSE k \in Kinds : TRUE, isWritten |-> FALSE])]
    /\ UNCHANGED <<limiter, limiterVars, clock, isEnabled, reportVars, scopeVars>>

Allowed(t, count) ==
    LET frame == [Top(t) EXCEPT !.pc = "Write", !.refusedCount = count]
    IN  /\ Goes(t, frame)
        /\ scopes' = IF HasOwnScope(frame)
                     THEN [scopes EXCEPT ![t] = Append(@, Suppressed(count))] ELSE scopes
        /\ told' = told + count
        /\ UNCHANGED <<limiter, refused, lastAllowed, clock, isEnabled, reportVars, context, calls>>

\* The macro's call is over, with nothing logged
Refused(t) ==
    /\ GoesTo(t, "Done")
    /\ refused' = refused + 1
    /\ UNCHANGED <<limiter, told, lastAllowed, clock, isEnabled, reportVars, scopeVars, calls>>

LoadOnce(t) ==
    /\ At(t, "Load") /\ limiter.Kind = "Once"
    /\ IF m_CallCount = 0
       THEN /\ GoesTo(t, "Exchange")
            /\ UNCHANGED <<limiter, limiterVars, clock, isEnabled, reportVars, scopeVars, calls>>
       ELSE /\ Refused(t)
            /\ UNCHANGED <<allowed, m_CallCount, m_NextAllowedTicks, m_RefusedCount>>

ExchangeOnce(t) ==
    /\ At(t, "Exchange") /\ limiter.Kind = "Once"
    /\ m_CallCount' = 1
    /\ IF m_CallCount = 0 THEN Allowed(t, 0) /\ allowed' = allowed + 1 ELSE Refused(t) /\ allowed' = allowed
    /\ UNCHANGED <<m_NextAllowedTicks, m_RefusedCount>>

CountCall(t) ==
    /\ At(t, "Load") /\ limiter.Kind = "EveryN"
    /\ m_CallCount' = m_CallCount + 1
    /\ IF m_CallCount % limiter.N = 0
       THEN /\ Allowed(t, IF m_CallCount > 0 THEN limiter.N - 1 ELSE 0)
            /\ allowed' = allowed + 1
       ELSE /\ Refused(t)
            /\ allowed' = allowed
    /\ UNCHANGED <<m_NextAllowedTicks, m_RefusedCount>>

AllowAlways(t) ==
    /\ At(t, "Load") /\ limiter.Kind = "EveryInterval" /\ limiter.IntervalTicks <= 0
    /\ Allowed(t, 0)
    /\ allowed' = allowed + 1
    /\ UNCHANGED <<m_CallCount, m_NextAllowedTicks, m_RefusedCount>>

LoadNextAllowed(t) ==
    LET frame == [Top(t) EXCEPT !.nextAllowed = m_NextAllowedTicks, !.before = allowed]
    IN  /\ At(t, "Load") /\ limiter.Kind = "EveryInterval" /\ limiter.IntervalTicks > 0
        /\ Goes(t, [frame EXCEPT !.pc = IF frame.now < frame.nextAllowed THEN "Refuse" ELSE "Exchange"])
        /\ UNCHANGED <<limiter, limiterVars, clock, isEnabled, reportVars, scopeVars, calls>>

\* Mutant: the interval is counted from when the last call could have been allowed
NextAllowedFromBefore(now) ==
    IF m_NextAllowedTicks + limiter.IntervalTicks > MaxTicks THEN MaxTicks
    ELSE m_NextAllowedTicks + limiter.IntervalTicks
\* newNextAllowed: at most the clock's end
NextAllowed(now) ==
    IF now > 0 /\ limiter.IntervalTicks > MaxTicks - now THEN MaxTicks ELSE now + limiter.IntervalTicks

\* Mutant: a weak exchange
MayFail(t) == {m_NextAllowedTicks = Top(t).nextAllowed, FALSE}
Exchanges(t) == {m_NextAllowedTicks = Top(t).nextAllowed}

MoveNextAllowed(t) ==
    /\ At(t, "Exchange") /\ limiter.Kind = "EveryInterval"
    /\ \E isMoved \in Exchanges(t) :
          /\ m_NextAllowedTicks' = IF isMoved THEN NextAllowed(Top(t).now) ELSE m_NextAllowedTicks
          /\ GoesTo(t, IF isMoved THEN "Take" ELSE "Refuse")
          /\ lastAllowed' = IF isMoved THEN Top(t).now ELSE lastAllowed
          /\ allowed' = IF isMoved THEN allowed + 1 ELSE allowed
    /\ UNCHANGED <<limiter, m_CallCount, m_RefusedCount, refused, told,
                   clock, isEnabled, reportVars, scopeVars, calls>>

Refuse(t) ==
    /\ At(t, "Refuse")
    /\ m_RefusedCount' = m_RefusedCount + 1
    /\ Refused(t)
    /\ UNCHANGED <<m_CallCount, m_NextAllowedTicks, allowed>>

TakeRefused(t) ==
    /\ At(t, "Take")
    /\ m_RefusedCount' = 0
    /\ Allowed(t, m_RefusedCount)
    /\ UNCHANGED <<m_CallCount, m_NextAllowedTicks, allowed>>

----------------------------------------------------------------------------
(* The entry, and the report of a write that fails *)

\* The fields an entry of the innermost call gets
EntryFields(t) == ForEachLogField(scopes[t], <<>>)

\* LogFmt(), which looks at the level again
Write(t) ==
    /\ At(t, "Write")
    /\ \/ ~isEnabled /\ GoesTo(t, "Done")
       \/ isEnabled /\ Goes(t, [Top(t) EXCEPT !.pc = "Done", !.isWritten = TRUE])
       \/ isEnabled /\ \E kind \in Kinds : Goes(t, [Top(t) EXCEPT !.pc = "Report", !.kind = kind])
    /\ UNCHANGED <<limiter, limiterVars, clock, isEnabled, reportVars, scopeVars, calls>>

\* Mutant: a handler's own errors are reported to it
ReportsAny(t) == FALSE
IsReporting(t) == IsReportingError[t]

IsSuppressed(state, now) ==
    /\ state.HasReported /\ now >= state.LastReport
    /\ now - state.LastReport < ErrorReportInterval

\* ReportError()
ReportError(t, now) ==
    LET kind == Top(t).kind
        state == m_ErrorReportStates[kind]
    IN  /\ At(t, "Report")
        /\ IF IsReporting(t)
           THEN GoesTo(t, "Done") /\ UNCHANGED reportVars
           ELSE IF IsSuppressed(state, now)
           THEN /\ GoesTo(t, "Done")
                /\ m_ErrorReportStates' = [m_ErrorReportStates EXCEPT ![kind].SuppressedCount = @ + 1]
                /\ suppressed' = [suppressed EXCEPT ![kind] = @ + 1]
                /\ UNCHANGED <<IsReportingError, counted>>
           ELSE /\ GoesTo(t, "Handle")
                /\ m_ErrorReportStates' = [m_ErrorReportStates EXCEPT ![kind] =
                      [HasReported |-> TRUE, LastReport |-> now, SuppressedCount |-> 0]]
                /\ counted' = [counted EXCEPT ![kind] = @ + state.SuppressedCount]
                /\ IsReportingError' = [IsReportingError EXCEPT ![t] = TRUE]
                /\ UNCHANGED suppressed
        /\ UNCHANGED <<limiter, limiterVars, clock, isEnabled, scopeVars, calls>>

\* OnError() returns, or throws, which ReportError() swallows; what it logs
\* meanwhile is another Call()
HandlerReturns(t) ==
    /\ At(t, "Handle")
    /\ GoesTo(t, "Done")
    /\ IsReportingError' = [IsReportingError EXCEPT ![t] = FALSE]
    /\ UNCHANGED <<limiter, limiterVars, clock, isEnabled, m_ErrorReportStates, suppressed, counted,
                   scopeVars, calls>>

\* The macro's end, and with it the end of its scope
Return(t) ==
    /\ At(t, "Done")
    /\ scopes' = IF HasOwnScope(Top(t)) THEN [scopes EXCEPT ![t] = Front(@)] ELSE scopes
    /\ frames' = [frames EXCEPT ![t] = Front(@)]
    /\ UNCHANGED <<limiter, limiterVars, clock, isEnabled, reportVars, context, calls>>

Step(t) ==
    \/ Call(t)
    \/ LoadOnce(t) \/ ExchangeOnce(t) \/ CountCall(t) \/ AllowAlways(t)
    \/ LoadNextAllowed(t) \/ MoveNextAllowed(t) \/ Refuse(t) \/ TakeRefused(t)
    \/ Write(t) \/ (\E now \in Times : ReportError(t, now)) \/ HandlerReturns(t) \/ Return(t)

Next == Tick \/ SetLevel \/ \E t \in Threads : Scope(t) \/ Step(t)

Spec == Init /\ [][Next]_vars

----------------------------------------------------------------------------
(* Properties *)

\* Types; in particular the next allowed time stays in the clock's range
\* (newNextAllowed is clamped).
TypeOK ==
    /\ limiter \in Limiters
    /\ m_CallCount \in Nat /\ m_NextAllowedTicks \in MinTicks..MaxTicks /\ m_RefusedCount \in Nat
    /\ clock \in 0..MaxTicks /\ isEnabled \in BOOLEAN
    /\ m_ErrorReportStates \in [Kinds -> ReportState]
    /\ IsReportingError \in [Threads -> BOOLEAN]
    /\ frames \in [Threads -> Seq(Frame)] /\ calls \in [Threads -> Nat]
    /\ allowed \in Nat /\ refused \in Nat /\ told \in Nat /\ lastAllowed \in MinTicks..MaxTicks
    /\ suppressed \in [Kinds -> Nat] /\ counted \in [Kinds -> Nat]

\* The first call is allowed; every Nth
AllowsByCount ==
    /\ limiter.Kind = "Once" => allowed = m_CallCount /\ m_CallCount <= 1
    /\ limiter.Kind = "EveryN" =>
          /\ (allowed - 1) * limiter.N < m_CallCount
          /\ m_CallCount <= allowed * limiter.N

\* Two calls allowed one after the other are an interval apart by the times they
\* read; at the end of the clock there is no later time to wait for
KeepsInterval ==
    limiter.IntervalTicks > 0 /\ allowed' # allowed /\ allowed > 0 =>
        lastAllowed' >= lastAllowed + limiter.IntervalTicks \/ lastAllowed' = MaxTicks

\* A call is refused because the time it read is less than an interval after
\* that of the call allowed last, or because another was allowed since it looked
RefusesForAReason ==
    \A t \in Threads :
        (At(t, "Load") \/ At(t, "Exchange")) /\ frames'[t] # frames[t] /\ Top(t)'.pc = "Refuse" =>
            /\ allowed > 0
            /\ \/ At(t, "Load") /\ Top(t).now < lastAllowed + limiter.IntervalTicks
               \/ At(t, "Exchange") /\ allowed > Top(t).before

\* However the calls of the threads mix, a limiter allows the calls its factory
\* documents: the first one; every Nth; those an interval apart by the times they
\* read, even if one read its time long before it was allowed.  And it refuses
\* none at the load or at the exchange for nothing (Once(), EveryN(),
\* EveryInterval(), Allow()'s compare_exchange_strong()).
AllowsAsDocumented ==
    [][/\ AllowsByCount'
       /\ limiter.Kind = "EveryInterval" => KeepsInterval /\ RefusesForAReason]_vars

\* Each refused call is told of exactly once: by an allowed call, or by the
\* next one ("each refused call once", ASWLog_Limiter.h:123-124).
ToldOnce ==
    /\ limiter.Kind = "EveryInterval" => refused = told + m_RefusedCount
    /\ limiter.Kind = "EveryN" =>
          /\ told <= refused
          /\ refused - told < limiter.N

\* Each refused call is told of to exactly one allowed call, and an entry's
\* "suppressed" field is the count its own call was told, whatever scopes the
\* thread is in (ASWLOG_EVERY_INTERVAL(), ForEachLogField()).
RefusedToldOnce ==
    /\ ToldOnce
    /\ \A t \in Threads : At(t, "Done") /\ Top(t).isWritten /\ HasOwnScope(Top(t)) =>
          FindField(EntryFields(t), "suppressed") = Top(t).refusedCount

\* Each suppressed report is counted by one report after it, or waits for one
CountedOnce ==
    \A k \in Kinds : suppressed[k] = counted[k] + m_ErrorReportStates[k].SuppressedCount

\* A thread is within the handler once
HandlerNotReentered ==
    \A t \in Threads : \A i, j \in 1..Len(frames[t]) :
        frames[t][i].pc = "Handle" /\ frames[t][j].pc = "Handle" => i = j

\* Each suppressed report is counted by exactly one report after it, or still
\* waits for one, whatever threads report and whatever a handler logs itself; a
\* handler that logs to the failing logger is not called again from within
\* itself (ReportError(), TASWLogError::SuppressedCount, IsReportingError).
ReportsCountedOnce == CountedOnce /\ HandlerNotReentered
=============================================================================
