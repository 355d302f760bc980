--------------------------- MODULE CallSite_proofs ---------------------------
(***************************************************************************)
(* Theorems of CallSite, for any threads, limiters, clock and kinds of     *)
(* errors.                                                                 *)
(***************************************************************************)
EXTENDS CallSite, SequenceTheorems, WellFoundedInduction, TLAPS

(***************************************************************************)
(* What the steps do to a thread's calls: they begin one, change the       *)
(* innermost one, or end it.                                               *)
(***************************************************************************)
LEMMA InnermostType ==
    ASSUME TypeOK, NEW t \in Threads, frames[t] # <<>>
    PROVE  Len(frames[t]) \in Nat \ {0} /\ Top(t) \in Frame
  <1>1. frames[t] \in Seq(Frame)
    BY DEF TypeOK
  <1>2. Len(frames[t]) \in Nat \ {0}
    BY <1>1
  <1> QED
    BY <1>1, <1>2 DEF Top

LEMMA GoesKeeps ==
    ASSUME TypeOK, NEW t \in Threads, frames[t] # <<>>, NEW frame \in Frame, Goes(t, frame)
    PROVE  /\ frames' \in [Threads -> Seq(Frame)]
           /\ Len(frames'[t]) = Len(frames[t])
           /\ \A i \in 1..Len(frames[t]) :
                 frames'[t][i] = IF i = Len(frames[t]) THEN frame ELSE frames[t][i]
           /\ \A u \in Threads \ {t} : frames'[u] = frames[u]
  <1> DEFINE last == Len(frames[t])
             changed == [frames[t] EXCEPT ![last] = frame]
  <1>1. frames \in [Threads -> Seq(Frame)]
    BY DEF TypeOK
  <1>2. last \in 1..last
    BY InnermostType
  <1>3. changed \in Seq(Frame) /\ Len(changed) = last
        /\ \A i \in 1..last : changed[i] = IF i = last THEN frame ELSE frames[t][i]
    BY <1>1, <1>2, ExceptSeq
  <1>4. frames' = [frames EXCEPT ![t] = changed]
    BY DEF Goes
  <1> HIDE DEF changed, last
  <1>5. frames'[t] = changed /\ frames' \in [Threads -> Seq(Frame)]
    BY <1>1, <1>3, <1>4
  <1> QED
    BY <1>1, <1>3, <1>4, <1>5 DEF last

LEMMA GoesToKeeps ==
    ASSUME TypeOK, NEW t \in Threads, frames[t] # <<>>, NEW pc \in Steps
    PROVE  [Top(t) EXCEPT !.pc = pc] \in Frame
  BY InnermostType DEF Frame

\* The calls that are beneath the innermost one, and the other threads', stay
Changes(t, frame) ==
    frames[t] # <<>> /\ frame \in Frame /\ Goes(t, frame)

LEMMA CallFrame ==
    ASSUME TypeOK, NEW t \in Threads, Call(t)
    PROVE  \E frame \in Frame :
              frame.pc = "Load" /\ frames' = [frames EXCEPT ![t] = Append(@, frame)]
  <1> DEFINE frame == [pc |-> "Load", now |-> clock, nextAllowed |-> MinTicks, before |-> 0,
                       refusedCount |-> 0, kind |-> CHOOSE k \in Kinds : TRUE, isWritten |-> FALSE]
  <1>1. (CHOOSE k \in Kinds : TRUE) \in Kinds
    BY ReportAssumption
  <1>2. clock \in MinTicks..MaxTicks /\ MinTicks \in MinTicks..MaxTicks
    BY ClockAssumption DEF TypeOK
  <1>3. frame \in Frame
    BY <1>1, <1>2 DEF Frame, Steps
  <1> QED
    BY <1>3 DEF Call

LEMMA AllowedFrame ==
    ASSUME TypeOK, NEW t \in Threads, frames[t] # <<>>, NEW count \in Nat, Allowed(t, count)
    PROVE  /\ \E frame \in Frame : frame.pc = "Write" /\ Changes(t, frame)
           /\ told' = told + count
           /\ UNCHANGED <<limiter, refused, lastAllowed, clock, isEnabled, reportVars, calls>>
  <1> DEFINE frame == [Top(t) EXCEPT !.pc = "Write", !.refusedCount = count]
  <1>1. frame \in Frame /\ frame.pc = "Write"
    BY InnermostType DEF Frame, Steps
  <1> QED
    BY <1>1 DEF Allowed, Changes

LEMMA GoesToFrame ==
    ASSUME TypeOK, NEW t \in Threads, frames[t] # <<>>, NEW pc \in Steps, GoesTo(t, pc)
    PROVE  \E frame \in Frame :
              Changes(t, frame) /\ frame = [Top(t) EXCEPT !.pc = pc] /\ frame.pc = pc
  <1>1. [Top(t) EXCEPT !.pc = pc] \in Frame /\ [Top(t) EXCEPT !.pc = pc].pc = pc
    BY GoesToKeeps, InnermostType DEF Frame
  <1> QED
    BY <1>1 DEF GoesTo, Changes

LEMMA RefusedFrame ==
    ASSUME TypeOK, NEW t \in Threads, frames[t] # <<>>, Refused(t)
    PROVE  /\ \E frame \in Frame : frame.pc = "Done" /\ Changes(t, frame)
           /\ refused' = refused + 1
           /\ UNCHANGED <<limiter, told, lastAllowed, clock, isEnabled, reportVars, calls>>
  BY GoesToFrame DEF Refused, Steps

LEMMA LoadFrame ==
    ASSUME TypeOK, NEW t \in Threads, LoadNextAllowed(t)
    PROVE  \E frame \in Frame :
              /\ Changes(t, frame)
              /\ frame.pc \in {"Refuse", "Exchange"}
              /\ frame.nextAllowed = m_NextAllowedTicks /\ frame.before = allowed
              /\ frame.pc = "Exchange" => frame.now >= frame.nextAllowed
  <1> DEFINE loaded == [Top(t) EXCEPT !.nextAllowed = m_NextAllowedTicks, !.before = allowed]
             pc == IF loaded.now < loaded.nextAllowed THEN "Refuse" ELSE "Exchange"
             frame == [loaded EXCEPT !.pc = pc]
  <1>1. frames[t] # <<>> /\ Goes(t, frame)
    BY DEF LoadNextAllowed, At
  <1>2. loaded \in Frame /\ loaded.nextAllowed = m_NextAllowedTicks /\ loaded.before = allowed
    BY <1>1, InnermostType DEF Frame, TypeOK
  <1>3. pc \in {"Refuse", "Exchange"} /\ pc \in Steps
    BY DEF Steps
  <1> HIDE DEF loaded
  <1>4. loaded.now \in MinTicks..MaxTicks /\ loaded.nextAllowed \in MinTicks..MaxTicks
    BY <1>2 DEF Frame
  <1>5. pc = "Exchange" => loaded.now >= loaded.nextAllowed
    BY <1>4, ClockAssumption
  <1> HIDE DEF pc
  <1>6. /\ frame \in Frame /\ frame.pc = pc /\ frame.now = loaded.now
        /\ frame.nextAllowed = loaded.nextAllowed /\ frame.before = loaded.before
    BY <1>2, <1>3 DEF Frame
  <1> HIDE DEF frame
  <1> QED
    BY <1>1, <1>2, <1>3, <1>5, <1>6 DEF Changes

LEMMA WriteFrame ==
    ASSUME TypeOK, NEW t \in Threads, Write(t)
    PROVE  \E frame \in Frame : frame.pc \in {"Done", "Report"} /\ Changes(t, frame)
  <1>1. frames[t] # <<>>
    BY DEF Write, At
  <1>2. Top(t) \in Frame
    BY <1>1, InnermostType
  <1>3. CASE GoesTo(t, "Done")
    BY <1>1, <1>3, GoesToFrame DEF Steps
  <1>4. CASE Goes(t, [Top(t) EXCEPT !.pc = "Done", !.isWritten = TRUE])
    <2> DEFINE frame == [Top(t) EXCEPT !.pc = "Done", !.isWritten = TRUE]
    <2>1. frame \in Frame /\ frame.pc = "Done"
      BY <1>2 DEF Frame, Steps
    <2> QED
      BY <1>1, <1>4, <2>1 DEF Changes
  <1>5. ASSUME NEW kind \in Kinds, Goes(t, [Top(t) EXCEPT !.pc = "Report", !.kind = kind])
        PROVE  \E frame \in Frame : frame.pc \in {"Done", "Report"} /\ Changes(t, frame)
    <2> DEFINE frame == [Top(t) EXCEPT !.pc = "Report", !.kind = kind]
    <2>1. frame \in Frame /\ frame.pc = "Report"
      BY <1>2 DEF Frame, Steps
    <2> QED
      BY <1>1, <1>5, <2>1 DEF Changes
  <1> QED
    BY <1>3, <1>4, <1>5 DEF Write

(***************************************************************************)
(* The types are kept: the next allowed time stays in the clock's range,   *)
(* as it is moved to at most the clock's end.                              *)
(***************************************************************************)
framesType == frames \in [Threads -> Seq(Frame)]

LEMMA ChangesType ==
    ASSUME TypeOK, NEW t \in Threads, NEW frame, Changes(t, frame)
    PROVE  framesType'
  BY GoesKeeps DEF Changes, framesType

LEMMA CallType ==
    ASSUME TypeOK, NEW t \in Threads, Call(t)
    PROVE  TypeOK'
  <1>1. PICK frame \in Frame : frames' = [frames EXCEPT ![t] = Append(@, frame)]
    BY CallFrame
  <1>2. Append(frames[t], frame) \in Seq(Frame)
    BY DEF TypeOK
  <1>3. framesType'
    BY <1>1, <1>2 DEF framesType, TypeOK
  <1>4. calls' \in [Threads -> Nat]
    BY DEF Call, TypeOK
  <1> QED
    BY <1>3, <1>4 DEF Call, TypeOK, limiterVars, reportVars, framesType

\* The variables a call that is allowed or refused leaves alone, or counts
LEMMA AllowedType ==
    ASSUME TypeOK, NEW t \in Threads, frames[t] # <<>>, NEW count \in Nat, Allowed(t, count),
           m_CallCount' \in Nat, m_RefusedCount' \in Nat, allowed' \in Nat,
           UNCHANGED m_NextAllowedTicks
    PROVE  TypeOK'
  <1>1. framesType'
    BY AllowedFrame, ChangesType
  <1>2. told' \in Nat /\ UNCHANGED <<limiter, refused, lastAllowed, clock, isEnabled, reportVars, calls>>
    BY AllowedFrame DEF TypeOK
  <1> QED
    BY <1>1, <1>2 DEF TypeOK, reportVars, framesType

LEMMA RefusedType ==
    ASSUME TypeOK, NEW t \in Threads, frames[t] # <<>>, Refused(t),
           m_CallCount' \in Nat, m_RefusedCount' \in Nat, allowed' \in Nat,
           UNCHANGED m_NextAllowedTicks
    PROVE  TypeOK'
  <1>1. framesType'
    BY RefusedFrame, ChangesType
  <1>2. refused' \in Nat /\ UNCHANGED <<limiter, told, lastAllowed, clock, isEnabled, reportVars, calls>>
    BY RefusedFrame DEF TypeOK
  <1> QED
    BY <1>1, <1>2 DEF TypeOK, reportVars, framesType

LEMMA AllowType ==
    ASSUME TypeOK, NEW t \in Threads,
           LoadOnce(t) \/ ExchangeOnce(t) \/ CountCall(t) \/ AllowAlways(t)
    PROVE  TypeOK'
  <1>1. frames[t] # <<>>
    BY DEF LoadOnce, ExchangeOnce, CountCall, AllowAlways, At
  <1>2. limiter.N \in Nat \ {0}
    BY LimiterAssumption DEF TypeOK, Limiter
  <1>3. m_CallCount \in Nat /\ m_RefusedCount \in Nat /\ allowed \in Nat
    BY DEF TypeOK
  <1>4. CASE LoadOnce(t) /\ m_CallCount = 0
    <2>1. framesType'
      BY <1>1, <1>4, GoesToFrame, ChangesType DEF LoadOnce, Steps
    <2> QED
      BY <1>4, <2>1 DEF LoadOnce, TypeOK, limiterVars, reportVars, framesType
  <1>5. CASE LoadOnce(t) /\ m_CallCount # 0
    BY <1>1, <1>3, <1>5, RefusedType DEF LoadOnce
  <1>6. CASE ExchangeOnce(t)
    BY <1>1, <1>3, <1>6, RefusedType, AllowedType DEF ExchangeOnce
  <1>7. CASE CountCall(t)
    <2>1. (IF m_CallCount > 0 THEN limiter.N - 1 ELSE 0) \in Nat
      BY <1>2
    <2> QED
      BY <1>1, <1>3, <1>7, <2>1, RefusedType, AllowedType DEF CountCall
  <1>8. CASE AllowAlways(t)
    BY <1>1, <1>3, <1>8, AllowedType DEF AllowAlways
  <1> QED
    BY <1>4, <1>5, <1>6, <1>7, <1>8

LEMMA NextAllowedType ==
    ASSUME TypeOK, limiter.IntervalTicks > 0, NEW now \in MinTicks..MaxTicks
    PROVE  NextAllowed(now) \in MinTicks..MaxTicks
  <1>1. limiter.IntervalTicks \in Int /\ limiter.IntervalTicks <= MaxTicks
    BY LimiterAssumption, ClockAssumption DEF TypeOK, Limiter
  <1> QED
    BY <1>1, ClockAssumption DEF NextAllowed

\* What the calls on their way through Allow() know of the limiter
FrameInv(frame) ==
    /\ frame.pc = "Exchange" /\ limiter.Kind = "EveryInterval" =>
          /\ limiter.IntervalTicks > 0
          /\ frame.now >= frame.nextAllowed
          /\ frame.before <= allowed
          /\ frame.nextAllowed = m_NextAllowedTicks \/ frame.before < allowed
    /\ frame.pc \in {"Refuse", "Take"} => limiter.Kind = "EveryInterval"

FramesInv == \A t \in Threads : \A i \in 1..Len(frames[t]) : FrameInv(frames[t][i])

LEMMA IntervalType ==
    ASSUME TypeOK, FramesInv, NEW t \in Threads,
           LoadNextAllowed(t) \/ MoveNextAllowed(t) \/ Refuse(t) \/ TakeRefused(t)
    PROVE  TypeOK'
  <1>0. m_CallCount \in Nat /\ m_RefusedCount \in Nat /\ allowed \in Nat
    BY DEF TypeOK
  <1>1. frames[t] # <<>>
    BY DEF LoadNextAllowed, MoveNextAllowed, Refuse, TakeRefused, At
  <1>2. CASE LoadNextAllowed(t)
    <2>1. framesType'
      BY <1>2, LoadFrame, ChangesType
    <2> QED
      BY <1>2, <2>1 DEF LoadNextAllowed, TypeOK, limiterVars, reportVars, framesType
  <1>3. CASE MoveNextAllowed(t)
    <2>1. framesType'
      BY <1>1, <1>3, GoesToFrame, ChangesType DEF MoveNextAllowed, Steps
    <2>2. Top(t).now \in MinTicks..MaxTicks
      BY <1>1, InnermostType DEF Frame
    <2>3. limiter.IntervalTicks > 0
      BY <1>1, <1>3, InnermostType DEF MoveNextAllowed, At, Top, FramesInv, FrameInv
    <2>4. m_NextAllowedTicks' \in MinTicks..MaxTicks
      BY <1>3, <2>2, <2>3, NextAllowedType DEF MoveNextAllowed, TypeOK
    <2> QED
      BY <1>3, <2>1, <2>2, <2>4 DEF MoveNextAllowed, TypeOK, reportVars, framesType
  <1>4. CASE Refuse(t)
    BY <1>0, <1>1, <1>4, RefusedType DEF Refuse
  <1>5. CASE TakeRefused(t)
    BY <1>0, <1>1, <1>5, AllowedType DEF TakeRefused
  <1> QED
    BY <1>2, <1>3, <1>4, <1>5

LEMMA ReportFrame ==
    ASSUME TypeOK, NEW t \in Threads, NEW now \in Times, ReportError(t, now)
    PROVE  \E frame \in Frame :
              /\ Changes(t, frame)
              /\ frame.pc = IF IsReportingError'[t] /\ ~IsReportingError[t] THEN "Handle" ELSE "Done"
  <1>1. frames[t] # <<>> /\ IsReportingError \in [Threads -> BOOLEAN]
    BY DEF ReportError, At, TypeOK
  <1>2. \/ GoesTo(t, "Done") /\ UNCHANGED IsReportingError
        \/ /\ GoesTo(t, "Handle")
           /\ ~IsReportingError[t] /\ IsReportingError' = [IsReportingError EXCEPT ![t] = TRUE]
    BY DEF ReportError, reportVars, IsReporting
  <1> QED
    BY <1>1, <1>2, GoesToFrame DEF Steps

LEMMA ReportType ==
    ASSUME TypeOK, NEW t \in Threads, NEW now \in Times, ReportError(t, now)
    PROVE  TypeOK'
  <1> DEFINE kind == Top(t).kind
             state == m_ErrorReportStates[kind]
  <1>1. framesType'
    BY ReportFrame, ChangesType
  <1>2. kind \in Kinds
    BY InnermostType DEF ReportError, At, Frame
  <1>3. state \in ReportState
    BY <1>2 DEF TypeOK
  <1>4. state.SuppressedCount \in Nat /\ [state EXCEPT !.SuppressedCount = @ + 1] \in ReportState
    BY <1>3 DEF ReportState
  <1>5. [HasReported |-> TRUE, LastReport |-> now, SuppressedCount |-> 0] \in ReportState
    BY DEF ReportState
  <1> HIDE DEF kind, state
  <1>6. CASE UNCHANGED reportVars
    BY <1>1, <1>6 DEF ReportError, TypeOK, limiterVars, reportVars, framesType
  <1>7. CASE /\ m_ErrorReportStates' = [m_ErrorReportStates EXCEPT ![kind].SuppressedCount = @ + 1]
             /\ suppressed' = [suppressed EXCEPT ![kind] = @ + 1]
             /\ UNCHANGED <<IsReportingError, counted>>
    <2> DEFINE more == [state EXCEPT !.SuppressedCount = @ + 1]
    <2>1. m_ErrorReportStates' = [m_ErrorReportStates EXCEPT ![kind] = more] /\ more \in ReportState
      BY <1>4, <1>7 DEF state
    <2> HIDE DEF more
    <2>2. m_ErrorReportStates' \in [Kinds -> ReportState]
      BY <1>2, <2>1 DEF TypeOK
    <2>3. suppressed' \in [Kinds -> Nat]
      <3>1. suppressed' = [suppressed EXCEPT ![kind] = @ + 1]
        BY <1>7
      <3> QED
        BY <1>2, <3>1 DEF TypeOK
    <2>4. UNCHANGED <<IsReportingError, counted>>
      BY <1>7
    <2> QED
      BY <1>1, <2>2, <2>3, <2>4 DEF ReportError, TypeOK, limiterVars, framesType
  <1>8. CASE /\ m_ErrorReportStates' = [m_ErrorReportStates EXCEPT ![kind] =
                    [HasReported |-> TRUE, LastReport |-> now, SuppressedCount |-> 0]]
             /\ counted' = [counted EXCEPT ![kind] = @ + state.SuppressedCount]
             /\ IsReportingError' = [IsReportingError EXCEPT ![t] = TRUE]
             /\ UNCHANGED suppressed
    <2>1. PICK reported \in ReportState :
             m_ErrorReportStates' = [m_ErrorReportStates EXCEPT ![kind] = reported]
      BY <1>5, <1>8
    <2>2. m_ErrorReportStates' \in [Kinds -> ReportState]
      BY <1>2, <2>1 DEF TypeOK
    <2>3. counted' \in [Kinds -> Nat]
      <3>1. PICK count \in Nat : count = state.SuppressedCount
        BY <1>4
      <3>2. counted' = [counted EXCEPT ![kind] = @ + count]
        BY <1>8, <3>1
      <3> QED
        BY <1>2, <3>2 DEF TypeOK
    <2>4. IsReportingError' \in [Threads -> BOOLEAN]
      <3>1. IsReportingError' = [IsReportingError EXCEPT ![t] = TRUE]
        BY <1>8
      <3> QED
        BY <3>1 DEF TypeOK
    <2>5. suppressed' = suppressed
      BY <1>8
    <2> QED
      BY <1>1, <2>2, <2>3, <2>4, <2>5 DEF ReportError, TypeOK, limiterVars, framesType
  <1> QED
    BY <1>6, <1>7, <1>8 DEF ReportError, kind, state

LEMMA ReturnFrames ==
    ASSUME TypeOK, NEW t \in Threads, Return(t)
    PROVE  /\ frames' \in [Threads -> Seq(Frame)]
           /\ Len(frames'[t]) <= Len(frames[t])
           /\ \A i \in 1..Len(frames'[t]) : frames'[t][i] = frames[t][i]
           /\ \A u \in Threads \ {t} : frames'[u] = frames[u]
  <1>1. frames \in [Threads -> Seq(Frame)] /\ frames[t] # <<>>
    BY DEF TypeOK, Return, At
  <1>2. /\ Front(frames[t]) \in Seq(Frame)
        /\ Len(Front(frames[t])) = Len(frames[t]) - 1
        /\ \A i \in 1..(Len(frames[t]) - 1) : Front(frames[t])[i] = frames[t][i]
    <2>1. frames[t] \in Seq(Frame) /\ Len(frames[t]) \in Nat \ {0}
      BY <1>1, InnermostType
    <2> QED
      BY <2>1, SubSeqProperties DEF Front
  <1>3. frames' = [frames EXCEPT ![t] = Front(frames[t])]
    BY DEF Return
  <1> HIDE DEF Front
  <1> QED
    BY <1>1, <1>2, <1>3, InnermostType

LEMMA CallFrames ==
    ASSUME TypeOK, NEW t \in Threads, Call(t)
    PROVE  /\ Len(frames[t]) \in Nat /\ Len(frames'[t]) = Len(frames[t]) + 1
           /\ frames'[t][Len(frames[t]) + 1].pc = "Load"
           /\ \A i \in 1..Len(frames[t]) : frames'[t][i] = frames[t][i]
           /\ \A u \in Threads \ {t} : frames'[u] = frames[u]
  <1>1. PICK frame \in Frame :
           frame.pc = "Load" /\ frames' = [frames EXCEPT ![t] = Append(@, frame)]
    BY CallFrame
  <1>2. frames \in [Threads -> Seq(Frame)] /\ frames'[t] = Append(frames[t], frame)
    BY <1>1 DEF TypeOK
  <1> QED
    BY <1>1, <1>2

LEMMA StepType ==
    ASSUME TypeOK, FramesInv, NEW t \in Threads, Step(t)
    PROVE  TypeOK'
  <1>1. CASE Write(t)
    <2>1. framesType'
      BY <1>1, WriteFrame, ChangesType
    <2> QED
      BY <1>1, <2>1 DEF Write, TypeOK, limiterVars, reportVars, framesType
  <1>2. CASE HandlerReturns(t)
    <2>1. framesType'
      BY <1>2, GoesToFrame, ChangesType DEF HandlerReturns, At, Steps
    <2>2. IsReportingError' \in [Threads -> BOOLEAN]
      BY <1>2 DEF HandlerReturns, TypeOK
    <2> QED
      BY <1>2, <2>1, <2>2 DEF HandlerReturns, TypeOK, limiterVars, framesType
  <1>3. CASE Return(t)
    <2>1. framesType'
      BY <1>3, ReturnFrames DEF framesType
    <2> QED
      BY <1>3, <2>1 DEF Return, TypeOK, limiterVars, reportVars, framesType
  <1> QED
    BY <1>1, <1>2, <1>3, CallType, AllowType, IntervalType, ReportType DEF Step

LEMMA NextType ==
    ASSUME TypeOK, FramesInv, [Next]_vars
    PROVE  TypeOK'
  <1>1. CASE Tick
    BY <1>1, ClockAssumption DEF Tick, TypeOK, limiterVars, reportVars
  <1>2. CASE SetLevel
    BY <1>2 DEF SetLevel, TypeOK, limiterVars, reportVars
  <1>3. ASSUME NEW t \in Threads, Scope(t) PROVE TypeOK'
    BY <1>3 DEF Scope, OpenScope, EndScope, CaptureScopes, TypeOK, limiterVars, reportVars
  <1>4. CASE UNCHANGED vars
    BY <1>4 DEF vars, TypeOK, limiterVars, reportVars
  <1> QED
    BY <1>1, <1>2, <1>3, <1>4, StepType DEF Next

LEMMA InitType == Init => TypeOK
  <1> SUFFICES ASSUME Init PROVE TypeOK
    OBVIOUS
  <1>1. MinTicks \in MinTicks..MaxTicks /\ 0 \in 0..MaxTicks
    BY ClockAssumption
  <1>2. [HasReported |-> FALSE, LastReport |-> 0, SuppressedCount |-> 0] \in ReportState
    BY DEF ReportState
  <1>3. frames \in [Threads -> Seq(Frame)]
    BY DEF Init
  <1> QED
    BY <1>1, <1>2, <1>3 DEF Init, TypeOK

(***************************************************************************)
(* What a call read of the limiter stays true of it, or another call has   *)
(* been allowed since.                                                     *)
(***************************************************************************)
Moved == m_NextAllowedTicks' = m_NextAllowedTicks \/ allowed' > allowed

LEMMA LimiterMoves ==
    ASSUME TypeOK, [Next]_vars
    PROVE  UNCHANGED limiter /\ allowed' >= allowed /\ Moved
  <1>1. allowed \in Nat
    BY DEF TypeOK
  <1>2. ASSUME NEW t \in Threads, Step(t)
        PROVE  UNCHANGED limiter /\ allowed' >= allowed /\ Moved
    <2>1. CASE Call(t)
      BY <1>1, <2>1 DEF Call, limiterVars, Moved
    <2>2. CASE LoadOnce(t) \/ ExchangeOnce(t) \/ CountCall(t) \/ AllowAlways(t)
      BY <1>1, <2>2 DEF LoadOnce, ExchangeOnce, CountCall, AllowAlways, Allowed, Refused, limiterVars, Moved
    <2>3. CASE LoadNextAllowed(t) \/ MoveNextAllowed(t) \/ Refuse(t) \/ TakeRefused(t)
      BY <1>1, <2>3
         DEF LoadNextAllowed, MoveNextAllowed, Refuse, TakeRefused, Allowed, Refused, limiterVars,
             Exchanges, Moved
    <2>4. CASE Write(t)
      <3>1. UNCHANGED <<limiter, limiterVars>>
        BY <2>4, Zenon DEF Write
      <3> QED
        BY <1>1, <3>1 DEF limiterVars, Moved
    <2>6. CASE HandlerReturns(t)
      BY <1>1, <2>6 DEF HandlerReturns, limiterVars, Moved
    <2>7. CASE Return(t)
      BY <1>1, <2>7 DEF Return, limiterVars, Moved
    <2>5. ASSUME NEW now \in Times, ReportError(t, now)
          PROVE  UNCHANGED limiter /\ allowed' >= allowed /\ Moved
      BY <1>1, <2>5 DEF ReportError, limiterVars, Moved
    <2> QED
      BY <1>2, <2>1, <2>2, <2>3, <2>4, <2>5, <2>6, <2>7 DEF Step
  <1>3. ASSUME NEW t \in Threads, Scope(t)
        PROVE  UNCHANGED limiter /\ allowed' >= allowed /\ Moved
    BY <1>1, <1>3 DEF Scope, OpenScope, EndScope, CaptureScopes, limiterVars, Moved
  <1> QED
    BY <1>1, <1>2, <1>3 DEF Next, Tick, SetLevel, vars, limiterVars, Moved

LEMMA FrameInvStays ==
    ASSUME TypeOK, TypeOK', NEW frame \in Frame, FrameInv(frame),
           UNCHANGED limiter, allowed' >= allowed, Moved
    PROVE  FrameInv(frame)'
  <1>1. frame.before \in Nat /\ allowed \in Nat /\ allowed' \in Nat
    BY DEF Frame, TypeOK
  <1> QED
    BY <1>1 DEF FrameInv, Moved

LEMMA ChangesKeepFrames ==
    ASSUME TypeOK, TypeOK', FramesInv, NEW t \in Threads, NEW frame, Changes(t, frame),
           FrameInv(frame)', UNCHANGED limiter, allowed' >= allowed, Moved
    PROVE  FramesInv'
  <1>1. frames \in [Threads -> Seq(Frame)]
    BY DEF TypeOK
  <1>2. ASSUME NEW u \in Threads, NEW i \in 1..Len(frames[u]), ~(u = t /\ i = Len(frames[t]))
        PROVE  FrameInv(frames[u][i])'
    <2>1. frames[u][i] \in Frame /\ FrameInv(frames[u][i])
      BY <1>1, <1>2 DEF FramesInv
    <2>2. \A f \in Frame : FrameInv(f) => FrameInv(f)'
      BY FrameInvStays
    <2>3. PICK f \in Frame : f = frames[u][i] /\ f = frames[u][i]'
      <3>1. frames'[u][i] = frames[u][i]
        BY <1>2, GoesKeeps DEF Changes
      <3> QED
        BY <2>1, <3>1
    <2> QED
      BY <2>1, <2>2, <2>3
  <1> QED
    BY <1>2, GoesKeeps DEF Changes, FramesInv

LEMMA FramesStay ==
    ASSUME TypeOK, TypeOK', FramesInv, NEW t \in Threads,
           \A u \in Threads : \A i \in 1..Len(frames'[u]) :
              \/ i \in 1..Len(frames[u]) /\ frames'[u][i] = frames[u][i]
              \/ frames'[u][i].pc = "Load",
           UNCHANGED limiter, allowed' >= allowed, Moved
    PROVE  FramesInv'
  <1>1. frames \in [Threads -> Seq(Frame)] /\ frames' \in [Threads -> Seq(Frame)]
    BY DEF TypeOK
  <1>2. SUFFICES ASSUME NEW u \in Threads, NEW i \in 1..Len(frames'[u])
                 PROVE  FrameInv(frames[u][i])'
    BY DEF FramesInv
  <1>3. CASE i \in 1..Len(frames[u]) /\ frames'[u][i] = frames[u][i]
    <2>1. frames[u][i] \in Frame /\ FrameInv(frames[u][i])
      BY <1>1, <1>3 DEF FramesInv
    <2>2. \A f \in Frame : FrameInv(f) => FrameInv(f)'
      BY FrameInvStays
    <2>3. PICK f \in Frame : f = frames[u][i] /\ f = frames[u][i]'
      BY <1>3, <2>1
    <2> QED
      BY <2>1, <2>2, <2>3
  <1>4. CASE frames'[u][i].pc = "Load"
    BY <1>4 DEF FrameInv
  <1> QED
    BY <1>3, <1>4

LEMMA AllowFrames ==
    ASSUME TypeOK, TypeOK', FramesInv, NEW t \in Threads,
           LoadOnce(t) \/ ExchangeOnce(t) \/ CountCall(t) \/ AllowAlways(t)
              \/ Refuse(t) \/ TakeRefused(t),
           UNCHANGED limiter, allowed' >= allowed, Moved
    PROVE  FramesInv'
  <1>1. frames[t] # <<>>
    BY DEF LoadOnce, ExchangeOnce, CountCall, AllowAlways, Refuse, TakeRefused, At
  <1>2. limiter.N \in Nat \ {0} /\ m_RefusedCount \in Nat
    BY LimiterAssumption DEF TypeOK, Limiter
  <1>3. CASE Refused(t)
    <2>1. PICK frame \in Frame : frame.pc = "Done" /\ Changes(t, frame)
      BY <1>1, <1>3, RefusedFrame
    <2>2. FrameInv(frame)'
      BY <2>1 DEF FrameInv
    <2> QED
      BY <2>1, <2>2, ChangesKeepFrames
  <1>4. ASSUME NEW count \in Nat, Allowed(t, count)
        PROVE  FramesInv'
    <2>1. PICK frame \in Frame : frame.pc = "Write" /\ Changes(t, frame)
      BY <1>1, <1>4, AllowedFrame
    <2>2. FrameInv(frame)'
      BY <2>1 DEF FrameInv
    <2> QED
      BY <2>1, <2>2, ChangesKeepFrames
  <1>5. CASE GoesTo(t, "Exchange") /\ limiter.Kind = "Once"
    <2>1. PICK frame \in Frame : Changes(t, frame) /\ frame.pc = "Exchange"
      BY <1>1, <1>5, GoesToFrame DEF Steps
    <2>2. FrameInv(frame)'
      BY <1>5, <2>1 DEF FrameInv
    <2> QED
      BY <2>1, <2>2, ChangesKeepFrames
  <1>6. LoadOnce(t) => (GoesTo(t, "Exchange") /\ limiter.Kind = "Once") \/ Refused(t)
    BY DEF LoadOnce
  <1>7. ExchangeOnce(t) => Allowed(t, 0) \/ Refused(t)
    BY DEF ExchangeOnce
  <1>8. CountCall(t) => Refused(t) \/ \E count \in Nat : Allowed(t, count)
    <2>1. (IF m_CallCount > 0 THEN limiter.N - 1 ELSE 0) \in Nat
      BY <1>2
    <2> QED
      BY <2>1 DEF CountCall
  <1> QED
    BY <1>2, <1>3, <1>4, <1>5, <1>6, <1>7, <1>8 DEF AllowAlways, Refuse, TakeRefused

LEMMA IntervalFrames ==
    ASSUME TypeOK, TypeOK', FramesInv, NEW t \in Threads,
           LoadNextAllowed(t) \/ MoveNextAllowed(t),
           UNCHANGED limiter, allowed' >= allowed, Moved
    PROVE  FramesInv'
  <1>1. frames[t] # <<>>
    BY DEF LoadNextAllowed, MoveNextAllowed, At
  <1>2. CASE LoadNextAllowed(t)
    <2>1. PICK frame \in Frame :
             /\ Changes(t, frame)
             /\ frame.pc \in {"Refuse", "Exchange"}
             /\ frame.nextAllowed = m_NextAllowedTicks /\ frame.before = allowed
             /\ frame.pc = "Exchange" => frame.now >= frame.nextAllowed
      BY <1>2, LoadFrame
    <2>2. /\ limiter'.Kind = "EveryInterval" /\ limiter'.IntervalTicks > 0
          /\ m_NextAllowedTicks' = m_NextAllowedTicks /\ allowed' = allowed
      BY <1>2 DEF LoadNextAllowed, limiterVars
    <2>3. FrameInv(frame)'
      BY <2>1, <2>2 DEF FrameInv, TypeOK
    <2> QED
      BY <2>1, <2>3, ChangesKeepFrames
  <1>3. CASE MoveNextAllowed(t)
    <2>1. PICK pc \in {"Take", "Refuse"} : GoesTo(t, pc)
      BY <1>3 DEF MoveNextAllowed
    <2>2. PICK frame \in Frame : Changes(t, frame) /\ frame.pc = pc
      BY <1>1, <2>1, GoesToFrame DEF Steps
    <2>3. limiter'.Kind = "EveryInterval"
      BY <1>3 DEF MoveNextAllowed
    <2>4. FrameInv(frame)'
      BY <2>1, <2>2, <2>3 DEF FrameInv
    <2> QED
      BY <2>2, <2>4, ChangesKeepFrames
  <1> QED
    BY <1>2, <1>3

LEMMA WriteFrames ==
    ASSUME TypeOK, TypeOK', FramesInv, NEW t \in Threads,
           Write(t) \/ HandlerReturns(t) \/ \E now \in Times : ReportError(t, now),
           UNCHANGED limiter, allowed' >= allowed, Moved
    PROVE  FramesInv'
  <1>1. PICK frame \in Frame : Changes(t, frame) /\ frame.pc \in {"Done", "Report", "Handle"}
    <2>1. CASE Write(t)
      BY <2>1, WriteFrame
    <2>2. CASE HandlerReturns(t)
      BY <2>2, GoesToFrame DEF HandlerReturns, At, Steps
    <2>3. ASSUME NEW now \in Times, ReportError(t, now)
          PROVE  \E frame \in Frame : Changes(t, frame) /\ frame.pc \in {"Done", "Report", "Handle"}
      BY <2>3, ReportFrame
    <2> QED
      BY <2>1, <2>2, <2>3
  <1>2. FrameInv(frame)'
    BY <1>1 DEF FrameInv
  <1> QED
    BY <1>1, <1>2, ChangesKeepFrames

LEMMA SameFrames ==
    ASSUME TypeOK, TypeOK', FramesInv, UNCHANGED frames,
           UNCHANGED limiter, allowed' >= allowed, Moved
    PROVE  FramesInv'
  <1>1. SUFFICES ASSUME NEW t \in Threads PROVE FramesInv'
    BY DEF FramesInv
  <1> QED
    BY FramesStay

LEMMA NextFrames ==
    ASSUME TypeOK, FramesInv, [Next]_vars
    PROVE  FramesInv'
  <1>1. TypeOK' /\ UNCHANGED limiter /\ allowed' >= allowed /\ Moved
    BY NextType, LimiterMoves
  <1>2. ASSUME NEW t \in Threads, Step(t)
        PROVE  FramesInv'
    <2>1. CASE Call(t)
      <3>1. \A u \in Threads : \A i \in 1..Len(frames'[u]) :
               \/ i \in 1..Len(frames[u]) /\ frames'[u][i] = frames[u][i]
               \/ frames'[u][i].pc = "Load"
        BY <2>1, CallFrames
      <3> QED
        BY <1>1, <3>1, FramesStay
    <2>2. CASE Return(t)
      <3>1. Len(frames[t]) \in Nat /\ Len(frames'[t]) \in Nat
        BY <2>2, InnermostType, ReturnFrames DEF Return, At
      <3>2. \A u \in Threads : \A i \in 1..Len(frames'[u]) :
               \/ i \in 1..Len(frames[u]) /\ frames'[u][i] = frames[u][i]
               \/ frames'[u][i].pc = "Load"
        BY <2>2, <3>1, ReturnFrames
      <3> QED
        BY <1>1, <3>2, FramesStay
    <2> QED
      BY <1>1, <1>2, <2>1, <2>2, AllowFrames, IntervalFrames, WriteFrames DEF Step
  <1>3. ASSUME NEW t \in Threads, Scope(t)
        PROVE  UNCHANGED frames
    BY <1>3 DEF Scope, OpenScope, EndScope, CaptureScopes
  <1>4. Tick \/ SetLevel \/ UNCHANGED vars => UNCHANGED frames
    BY DEF Tick, SetLevel, vars
  <1> QED
    BY <1>1, <1>2, <1>3, <1>4, SameFrames DEF Next

\* Types: in particular the time up to which calls are refused stays in the
\* clock's range, whatever interval a limiter has and however late a thread
\* moves it from a time it read long before (newNextAllowed, Limiter.h).
THEOREM TypeCorrect == Spec => []TypeOK
  <1>1. Init => TypeOK /\ FramesInv
    <2>1. Init => FramesInv
      BY DEF Init, FramesInv
    <2> QED
      BY <2>1, InitType
  <1>2. TypeOK /\ FramesInv /\ [Next]_vars => TypeOK' /\ FramesInv'
    BY NextType, NextFrames
  <1> QED
    BY <1>1, <1>2, PTL DEF Spec

(***************************************************************************)
(* Reports: each suppressed one is counted once, and a thread is in the    *)
(* handler once, as long as it is marked as reporting.                     *)
(***************************************************************************)
HandlingIsMarked ==
    \A t \in Threads : \A i \in 1..Len(frames[t]) :
        frames[t][i].pc = "Handle" => IsReportingError[t]

ReportsInv == CountedOnce /\ HandlerNotReentered /\ HandlingIsMarked

\* A step that brings no call into the handler
LEMMA HandlersStay ==
    ASSUME ReportsInv, UNCHANGED reportVars,
           \A u \in Threads : \A i \in 1..Len(frames'[u]) :
              frames'[u][i].pc = "Handle" =>
                 i \in 1..Len(frames[u]) /\ frames[u][i].pc = "Handle"
    PROVE  ReportsInv'
  <1>1. CountedOnce'
    BY DEF ReportsInv, CountedOnce, reportVars
  <1>2. HandlerNotReentered'
    BY DEF ReportsInv, HandlerNotReentered
  <1>3. HandlingIsMarked'
    BY DEF ReportsInv, HandlingIsMarked, reportVars
  <1> QED
    BY <1>1, <1>2, <1>3 DEF ReportsInv

LEMMA ChangesKeepHandlers ==
    ASSUME TypeOK, ReportsInv, NEW t \in Threads, NEW frame, Changes(t, frame),
           frame.pc # "Handle", UNCHANGED reportVars
    PROVE  ReportsInv'
  <1>1. \A u \in Threads : \A i \in 1..Len(frames'[u]) :
           frames'[u][i].pc = "Handle" => i \in 1..Len(frames[u]) /\ frames[u][i].pc = "Handle"
    BY GoesKeeps DEF Changes
  <1> QED
    BY <1>1, HandlersStay

LEMMA ReportErrorCounts ==
    ASSUME TypeOK, CountedOnce, NEW t \in Threads, NEW now \in Times, ReportError(t, now)
    PROVE  CountedOnce'
  <1> DEFINE kind == Top(t).kind
             state == m_ErrorReportStates[kind]
  <1>1. kind \in Kinds
    BY InnermostType DEF ReportError, At, Frame
  <1>2. state \in ReportState /\ state.SuppressedCount \in Nat
    BY <1>1 DEF TypeOK, ReportState
  <1>3. /\ m_ErrorReportStates \in [Kinds -> ReportState]
        /\ suppressed \in [Kinds -> Nat] /\ counted \in [Kinds -> Nat]
    BY DEF TypeOK
  <1> HIDE DEF kind
  <1>4. CASE UNCHANGED reportVars
    BY <1>4 DEF CountedOnce, reportVars
  <1>5. CASE /\ m_ErrorReportStates' = [m_ErrorReportStates EXCEPT ![kind].SuppressedCount = @ + 1]
             /\ suppressed' = [suppressed EXCEPT ![kind] = @ + 1]
             /\ UNCHANGED <<IsReportingError, counted>>
    <2> DEFINE more == [state EXCEPT !.SuppressedCount = @ + 1]
    <2>1. /\ m_ErrorReportStates' = [m_ErrorReportStates EXCEPT ![kind] = more]
          /\ more.SuppressedCount = state.SuppressedCount + 1
      BY <1>2, <1>5 DEF ReportState
    <2>2. suppressed' = [suppressed EXCEPT ![kind] = suppressed[kind] + 1] /\ counted' = counted
      BY <1>5
    <2> HIDE DEF more
    <2>3. ASSUME NEW k \in Kinds
          PROVE  suppressed'[k] = counted'[k] + m_ErrorReportStates'[k].SuppressedCount
      <3>1. suppressed[k] = counted[k] + m_ErrorReportStates[k].SuppressedCount
        BY DEF CountedOnce
      <3>2. CASE k = kind
        BY <1>1, <1>2, <1>3, <2>1, <2>2, <3>1, <3>2
      <3>3. CASE k # kind
        BY <1>3, <2>1, <2>2, <3>1, <3>3
      <3> QED
        BY <3>2, <3>3
    <2> QED
      BY <2>3 DEF CountedOnce
  <1>6. CASE /\ m_ErrorReportStates' = [m_ErrorReportStates EXCEPT ![kind] =
                    [HasReported |-> TRUE, LastReport |-> now, SuppressedCount |-> 0]]
             /\ counted' = [counted EXCEPT ![kind] = @ + state.SuppressedCount]
             /\ UNCHANGED suppressed
    <2>1. ASSUME NEW k \in Kinds
          PROVE  suppressed'[k] = counted'[k] + m_ErrorReportStates'[k].SuppressedCount
      <3>1. suppressed[k] = counted[k] + m_ErrorReportStates[k].SuppressedCount
        BY DEF CountedOnce
      <3>2. CASE k = kind
        BY <1>1, <1>2, <1>3, <1>6, <3>1, <3>2
      <3>3. CASE k # kind
        BY <1>3, <1>6, <3>1, <3>3
      <3> QED
        BY <3>2, <3>3
    <2> QED
      BY <2>1 DEF CountedOnce
  <1> QED
    BY <1>4, <1>5, <1>6 DEF ReportError, kind

LEMMA ReportErrorHandles ==
    ASSUME TypeOK, ReportsInv, NEW t \in Threads, NEW now \in Times, ReportError(t, now)
    PROVE  HandlerNotReentered' /\ HandlingIsMarked'
  <1>1. PICK frame \in Frame :
           /\ Changes(t, frame)
           /\ frame.pc = IF IsReportingError'[t] /\ ~IsReportingError[t] THEN "Handle" ELSE "Done"
    BY ReportFrame
  <1>2. \/ UNCHANGED IsReportingError
        \/ IsReportingError' = [IsReportingError EXCEPT ![t] = TRUE]
    BY DEF ReportError, reportVars
  <1>3. IsReportingError \in [Threads -> BOOLEAN] /\ Len(frames[t]) \in Nat \ {0}
    BY <1>1, InnermostType DEF TypeOK, Changes
  <1>4. /\ Len(frames'[t]) = Len(frames[t])
        /\ \A i \in 1..Len(frames[t]) :
              frames'[t][i] = IF i = Len(frames[t]) THEN frame ELSE frames[t][i]
        /\ \A u \in Threads \ {t} : frames'[u] = frames[u]
    BY <1>1, GoesKeeps DEF Changes
  <1>5. CASE ~IsReportingError[t]
    <2>1. \A i \in 1..Len(frames[t]) : frames[t][i].pc # "Handle"
      BY <1>5 DEF ReportsInv, HandlingIsMarked
    <2>2. \A i \in 1..Len(frames'[t]) : frames'[t][i].pc = "Handle" =>
             i = Len(frames[t]) /\ frame.pc = "Handle"
      BY <1>4, <2>1
    <2>3. HandlerNotReentered'
      BY <1>4, <2>2 DEF ReportsInv, HandlerNotReentered
    <2>4. HandlingIsMarked'
      BY <1>1, <1>2, <1>3, <1>4, <2>2 DEF ReportsInv, HandlingIsMarked
    <2> QED
      BY <2>3, <2>4
  <1>6. CASE IsReportingError[t]
    <2>1. frame.pc = "Done" /\ UNCHANGED IsReportingError
      BY <1>1, <1>2, <1>3, <1>6
    <2>2. \A u \in Threads : \A i \in 1..Len(frames'[u]) :
             frames'[u][i].pc = "Handle" => i \in 1..Len(frames[u]) /\ frames[u][i].pc = "Handle"
      BY <1>4, <2>1
    <2>3. HandlerNotReentered'
      BY <2>2 DEF ReportsInv, HandlerNotReentered
    <2>4. HandlingIsMarked'
      BY <2>1, <2>2 DEF ReportsInv, HandlingIsMarked
    <2> QED
      BY <2>3, <2>4
  <1> QED
    BY <1>3, <1>5, <1>6

LEMMA HandlerReturnsOnce ==
    ASSUME TypeOK, ReportsInv, NEW t \in Threads, HandlerReturns(t)
    PROVE  ReportsInv'
  <1>1. frames[t] # <<>> /\ Top(t).pc = "Handle"
    BY DEF HandlerReturns, At
  <1>2. PICK frame \in Frame : Changes(t, frame) /\ frame.pc = "Done"
    BY <1>1, GoesToFrame DEF HandlerReturns, Steps
  <1>3. Len(frames[t]) \in Nat \ {0} /\ IsReportingError \in [Threads -> BOOLEAN]
    BY <1>1, InnermostType DEF TypeOK
  <1>4. /\ Len(frames'[t]) = Len(frames[t])
        /\ \A i \in 1..Len(frames[t]) :
              frames'[t][i] = IF i = Len(frames[t]) THEN frame ELSE frames[t][i]
        /\ \A u \in Threads \ {t} : frames'[u] = frames[u]
    BY <1>2, GoesKeeps DEF Changes
  <1>5. \A i \in 1..Len(frames[t]) : frames[t][i].pc = "Handle" => i = Len(frames[t])
    BY <1>1, <1>3 DEF ReportsInv, HandlerNotReentered, Top
  <1>6. \A i \in 1..Len(frames'[t]) : frames'[t][i].pc # "Handle"
    BY <1>2, <1>4, <1>5
  <1>7. IsReportingError' = [IsReportingError EXCEPT ![t] = FALSE]
        /\ UNCHANGED <<m_ErrorReportStates, suppressed, counted>>
    BY DEF HandlerReturns
  <1>8. CountedOnce'
    BY <1>7 DEF ReportsInv, CountedOnce
  <1>9. HandlerNotReentered'
    BY <1>4, <1>6 DEF ReportsInv, HandlerNotReentered
  <1>10. HandlingIsMarked'
    BY <1>3, <1>4, <1>6, <1>7 DEF ReportsInv, HandlingIsMarked
  <1> QED
    BY <1>8, <1>9, <1>10 DEF ReportsInv

LEMMA AllowReports ==
    ASSUME TypeOK, ReportsInv, NEW t \in Threads,
           \/ LoadOnce(t) \/ ExchangeOnce(t) \/ CountCall(t) \/ AllowAlways(t)
           \/ LoadNextAllowed(t) \/ MoveNextAllowed(t) \/ Refuse(t) \/ TakeRefused(t)
    PROVE  ReportsInv'
  <1>1. frames[t] # <<>>
    BY DEF LoadOnce, ExchangeOnce, CountCall, AllowAlways, LoadNextAllowed, MoveNextAllowed,
           Refuse, TakeRefused, At
  <1>2. limiter.N \in Nat \ {0} /\ m_RefusedCount \in Nat
    BY LimiterAssumption DEF TypeOK, Limiter
  <1>3. CASE Refused(t)
    BY <1>1, <1>3, RefusedFrame, ChangesKeepHandlers
  <1>4. ASSUME NEW count \in Nat, Allowed(t, count)
        PROVE  ReportsInv'
    BY <1>1, <1>4, AllowedFrame, ChangesKeepHandlers
  <1>5. ASSUME NEW pc \in {"Exchange", "Take", "Refuse"}, GoesTo(t, pc), UNCHANGED reportVars
        PROVE  ReportsInv'
    <2>1. PICK frame \in Frame : Changes(t, frame) /\ frame.pc = pc
      BY <1>1, <1>5, GoesToFrame DEF Steps
    <2> QED
      BY <1>5, <2>1, ChangesKeepHandlers
  <1>6. LoadOnce(t) => (GoesTo(t, "Exchange") /\ UNCHANGED reportVars) \/ Refused(t)
    BY DEF LoadOnce
  <1>7. ExchangeOnce(t) => Allowed(t, 0) \/ Refused(t)
    BY DEF ExchangeOnce
  <1>8. CountCall(t) => Refused(t) \/ \E count \in Nat : Allowed(t, count)
    <2>1. (IF m_CallCount > 0 THEN limiter.N - 1 ELSE 0) \in Nat
      BY <1>2
    <2> QED
      BY <2>1 DEF CountCall
  <1>9. CASE LoadNextAllowed(t)
    <2>1. PICK frame \in Frame : Changes(t, frame) /\ frame.pc \in {"Refuse", "Exchange"}
      BY <1>9, LoadFrame
    <2>2. UNCHANGED reportVars
      BY <1>9 DEF LoadNextAllowed
    <2> QED
      BY <2>1, <2>2, ChangesKeepHandlers
  <1>10. MoveNextAllowed(t) =>
            \E pc \in {"Take", "Refuse"} : GoesTo(t, pc) /\ UNCHANGED reportVars
    BY DEF MoveNextAllowed
  <1> QED
    BY <1>2, <1>3, <1>4, <1>5, <1>6, <1>7, <1>8, <1>9, <1>10 DEF AllowAlways, Refuse, TakeRefused

LEMMA NextReports ==
    ASSUME TypeOK, ReportsInv, [Next]_vars
    PROVE  ReportsInv'
  <1>1. ASSUME UNCHANGED <<frames, reportVars>>
        PROVE  ReportsInv'
    BY <1>1, HandlersStay
  <1>2. ASSUME NEW t \in Threads, Step(t)
        PROVE  ReportsInv'
    <2>1. CASE Call(t)
      <3>1. \A u \in Threads : \A i \in 1..Len(frames'[u]) :
               frames'[u][i].pc = "Handle" => i \in 1..Len(frames[u]) /\ frames[u][i].pc = "Handle"
        BY <2>1, CallFrames
      <3>2. UNCHANGED reportVars
        BY <2>1 DEF Call
      <3> QED
        BY <3>1, <3>2, HandlersStay
    <2>2. CASE Return(t)
      <3>1. Len(frames[t]) \in Nat /\ Len(frames'[t]) \in Nat
        BY <2>2, InnermostType, ReturnFrames DEF Return, At
      <3>2. \A u \in Threads : \A i \in 1..Len(frames'[u]) :
               frames'[u][i].pc = "Handle" => i \in 1..Len(frames[u]) /\ frames[u][i].pc = "Handle"
        BY <2>2, <3>1, ReturnFrames
      <3>3. UNCHANGED reportVars
        BY <2>2 DEF Return
      <3> QED
        BY <3>2, <3>3, HandlersStay
    <2>3. CASE Write(t)
      <3>1. UNCHANGED reportVars
        BY <2>3, Zenon DEF Write
      <3> QED
        BY <2>3, <3>1, WriteFrame, ChangesKeepHandlers
    <2>4. ASSUME NEW now \in Times, ReportError(t, now)
          PROVE  ReportsInv'
      BY <2>4, ReportErrorCounts, ReportErrorHandles DEF ReportsInv
    <2> QED
      BY <1>2, <2>1, <2>2, <2>3, <2>4, AllowReports, HandlerReturnsOnce DEF Step
  <1>3. ASSUME NEW t \in Threads, Scope(t)
        PROVE  UNCHANGED <<frames, reportVars>>
    BY <1>3 DEF Scope, OpenScope, EndScope, CaptureScopes
  <1>4. Tick \/ SetLevel \/ UNCHANGED vars => UNCHANGED <<frames, reportVars>>
    BY DEF Tick, SetLevel, vars
  <1> QED
    BY <1>1, <1>2, <1>3, <1>4 DEF Next

\* Each suppressed report is counted by exactly one report after it, or still
\* waits for one, for any threads that report at once and any answers of the
\* system clock, which may go back; and no thread is within the handler twice,
\* however deep what the handler logs goes (ReportError()).
THEOREM ReportsAreCountedOnce == Spec => []ReportsCountedOnce
  <1>1. Init => TypeOK /\ FramesInv /\ ReportsInv
    <2>1. Init => FramesInv /\ HandlerNotReentered /\ HandlingIsMarked /\ CountedOnce
      BY DEF Init, FramesInv, HandlerNotReentered, HandlingIsMarked, CountedOnce
    <2> QED
      BY <2>1, InitType DEF ReportsInv
  <1>2. TypeOK /\ FramesInv /\ ReportsInv /\ [Next]_vars => TypeOK' /\ FramesInv' /\ ReportsInv'
    BY NextType, NextFrames, NextReports
  <1>3. ReportsInv => ReportsCountedOnce
    BY DEF ReportsInv, ReportsCountedOnce
  <1> QED
    BY <1>1, <1>2, <1>3, PTL DEF Spec

(***************************************************************************)
(* What the counters of a limiter say of the calls so far.                 *)
(***************************************************************************)
LEMMA NextMultiple ==
    ASSUME NEW n \in Nat \ {0}, NEW a \in Nat, NEW m \in Nat,
           (a - 1) * n < m, m <= a * n
    PROVE  m % n = 0 <=> m = a * n
  <1> DEFINE q == m \div n
             r == m % n
  <1>1. q \in Int /\ r \in 0..(n - 1) /\ m = n * q + r
    <2>1. m \in Int /\ n \in Int /\ n > 0
      OBVIOUS
    <2>2. m \div n \in Int
      BY <2>1
    <2>3. m % n \in 0..(n - 1)
      BY <2>1
    <2>4. m = n * (m \div n) + (m % n)
      BY <2>1
    <2> QED
      BY <2>2, <2>3, <2>4
  <1> HIDE DEF q, r
  <1>2. (a - 1) * n = a * n - n /\ a * n \in Int
    OBVIOUS
  <1>3. n * (q - a) = m - r - a * n
    BY <1>1
  <1>4. CASE q - a >= 1
    <2>1. n * (q - a) >= n * 1
      BY <1>1, <1>4
    <2> QED
      BY <1>1, <1>2, <1>3, <2>1
  <1>5. CASE q - a <= -2
    <2>1. n * (q - a) <= n * (-2)
      BY <1>1, <1>5
    <2> QED
      BY <1>1, <1>2, <1>3, <2>1
  <1>6. CASE q = a
    BY <1>1, <1>6
  <1>7. CASE q = a - 1
    BY <1>1, <1>2, <1>7
  <1>8. r = 0 <=> m = a * n
    BY <1>1, <1>4, <1>5, <1>6, <1>7
  <1> QED
    BY <1>8 DEF r

LimiterInv ==
    /\ AllowsByCount
    /\ limiter.Kind = "EveryN" =>
          IF m_CallCount = 0 THEN refused = told
          ELSE refused - told = m_CallCount - (allowed - 1) * limiter.N - 1
    /\ limiter.Kind = "EveryInterval" =>
          /\ refused = told + m_RefusedCount
          /\ limiter.IntervalTicks > 0 /\ allowed > 0 =>
                /\ \/ m_NextAllowedTicks = MaxTicks
                   \/ m_NextAllowedTicks >= lastAllowed + limiter.IntervalTicks
                /\ m_NextAllowedTicks <= lastAllowed + limiter.IntervalTicks
          /\ limiter.IntervalTicks > 0 /\ allowed = 0 => m_NextAllowedTicks = MinTicks

LEMMA LimiterStays ==
    ASSUME LimiterInv, UNCHANGED <<limiter, limiterVars>>
    PROVE  LimiterInv'
  BY DEF LimiterInv, AllowsByCount, limiterVars

LEMMA CountCallCounts ==
    ASSUME TypeOK, LimiterInv, NEW t \in Threads, CountCall(t)
    PROVE  LimiterInv'
  <1> DEFINE n == limiter.N
             m == m_CallCount
             a == allowed
  <1>1. n \in Nat \ {0} /\ m \in Nat /\ a \in Nat /\ refused \in Nat /\ told \in Nat
    BY LimiterAssumption DEF TypeOK, Limiter
  <1>2. /\ (a - 1) * n < m /\ m <= a * n
        /\ IF m = 0 THEN refused = told ELSE refused - told = m - (a - 1) * n - 1
    BY DEF CountCall, LimiterInv, AllowsByCount
  <1>3. limiter' = limiter /\ limiter.Kind = "EveryN" /\ m_CallCount' = m + 1
    BY DEF CountCall, Allowed, Refused
  <1>4. PICK p \in Int : p = a * n /\ (a - 1) * n = p - n /\ (a + 1 - 1) * n = p /\ (a + 1) * n = p + n
    BY <1>1
  <1>5. CASE m % n = 0
    <2>1. /\ allowed' = a + 1 /\ refused' = refused
          /\ told' = told + IF m > 0 THEN n - 1 ELSE 0
      BY <1>5 DEF CountCall, Allowed
    <2>2. m = p
      BY <1>1, <1>2, <1>4, <1>5, NextMultiple
    <2> HIDE DEF n, m, a
    <2>3. (a + 1 - 1) * n < m + 1 /\ m + 1 <= (a + 1) * n
      BY <1>1, <1>4, <2>2
    <2>4. refused' - told' = m + 1 - (a + 1 - 1) * n - 1
      BY <1>1, <1>2, <1>4, <2>1, <2>2
    <2>5. m + 1 # 0
      BY <1>1
    <2>6. /\ (allowed' - 1) * limiter'.N < m_CallCount' /\ m_CallCount' <= allowed' * limiter'.N
          /\ refused' - told' = m_CallCount' - (allowed' - 1) * limiter'.N - 1
          /\ m_CallCount' # 0
      <3>1. limiter'.N = n
        BY <1>3 DEF n
      <3> QED
        BY <1>1, <1>3, <2>1, <2>3, <2>4, <2>5, <3>1
    <2> QED
      BY <1>3, <2>6 DEF LimiterInv, AllowsByCount
  <1>6. CASE m % n # 0
    <2>1. allowed' = a /\ refused' = refused + 1 /\ told' = told
      BY <1>6 DEF CountCall, Refused
    <2>2. m # p /\ m # 0
      <3>1. m # p
        BY <1>1, <1>2, <1>4, <1>6, NextMultiple
      <3>2. 0 % n = 0
        BY <1>1
      <3> QED
        BY <1>6, <3>1, <3>2
    <2> HIDE DEF n, m, a
    <2>3. (a - 1) * n < m + 1 /\ m + 1 <= a * n
      BY <1>1, <1>2, <1>4, <2>2
    <2>4. refused' - told' = m + 1 - (a - 1) * n - 1
      BY <1>1, <1>2, <1>4, <2>1, <2>2
    <2>5. m + 1 # 0
      BY <1>1
    <2>6. /\ (allowed' - 1) * limiter'.N < m_CallCount' /\ m_CallCount' <= allowed' * limiter'.N
          /\ refused' - told' = m_CallCount' - (allowed' - 1) * limiter'.N - 1
          /\ m_CallCount' # 0
      <3>1. limiter'.N = n
        BY <1>3 DEF n
      <3> QED
        BY <1>1, <1>3, <2>1, <2>3, <2>4, <2>5, <3>1
    <2> QED
      BY <1>3, <2>6 DEF LimiterInv, AllowsByCount
  <1> QED
    BY <1>5, <1>6

LEMMA OnceCounts ==
    ASSUME TypeOK, LimiterInv, NEW t \in Threads, LoadOnce(t) \/ ExchangeOnce(t)
    PROVE  LimiterInv'
  <1>1. limiter.Kind = "Once" /\ limiter' = limiter
    BY DEF LoadOnce, ExchangeOnce, Allowed, Refused
  <1>2. allowed = m_CallCount /\ m_CallCount <= 1 /\ m_CallCount \in Nat
    BY <1>1 DEF LimiterInv, AllowsByCount, TypeOK
  <1>3. CASE LoadOnce(t)
    <2>1. allowed' = allowed /\ m_CallCount' = m_CallCount
      BY <1>3 DEF LoadOnce, limiterVars
    <2> QED
      BY <1>1, <1>2, <2>1 DEF LimiterInv, AllowsByCount
  <1>4. CASE ExchangeOnce(t)
    <2>1. allowed' = (IF m_CallCount = 0 THEN allowed + 1 ELSE allowed) /\ m_CallCount' = 1
      BY <1>4 DEF ExchangeOnce
    <2> QED
      BY <1>1, <1>2, <2>1 DEF LimiterInv, AllowsByCount
  <1> QED
    BY <1>3, <1>4

LEMMA InnermostInv ==
    ASSUME TypeOK, FramesInv, NEW t \in Threads, frames[t] # <<>>
    PROVE  FrameInv(Top(t))
  BY InnermostType DEF FramesInv, Top

\* The next call is allowed an interval after one at now, at most the clock's end
LEMMA NextAllowedKeeps ==
    ASSUME TypeOK, limiter.IntervalTicks > 0, NEW now \in MinTicks..MaxTicks
    PROVE  /\ NextAllowed(now) = MaxTicks \/ NextAllowed(now) >= now + limiter.IntervalTicks
           /\ NextAllowed(now) <= now + limiter.IntervalTicks
  <1>1. limiter.IntervalTicks \in Int
    BY LimiterAssumption DEF TypeOK, Limiter
  <1> QED
    BY <1>1, ClockAssumption DEF NextAllowed

LEMMA IntervalCounts ==
    ASSUME TypeOK, FramesInv, LimiterInv, NEW t \in Threads,
           AllowAlways(t) \/ LoadNextAllowed(t) \/ MoveNextAllowed(t) \/ Refuse(t) \/ TakeRefused(t)
    PROVE  LimiterInv'
  <1>1. frames[t] # <<>>
    BY DEF AllowAlways, LoadNextAllowed, MoveNextAllowed, Refuse, TakeRefused, At
  <1>2. FrameInv(Top(t)) /\ Top(t) \in Frame
    BY <1>1, InnermostInv, InnermostType
  <1>3. limiter.Kind = "EveryInterval"
    BY <1>2 DEF AllowAlways, LoadNextAllowed, MoveNextAllowed, Refuse, TakeRefused, At, FrameInv
  <1>4. /\ refused = told + m_RefusedCount
        /\ refused \in Nat /\ told \in Nat /\ m_RefusedCount \in Nat /\ allowed \in Nat
    BY <1>3 DEF LimiterInv, TypeOK
  <1>5. limiter' = limiter
    BY DEF AllowAlways, LoadNextAllowed, MoveNextAllowed, Refuse, TakeRefused, Allowed, Refused
  <1>6. CASE AllowAlways(t)
    <2>1. /\ limiter.IntervalTicks <= 0 /\ told' = told + 0
          /\ UNCHANGED <<refused, m_RefusedCount>>
      BY <1>6 DEF AllowAlways, Allowed
    <2>2. limiter.IntervalTicks \in Int
      BY LimiterAssumption DEF TypeOK, Limiter
    <2> QED
      BY <1>3, <1>4, <1>5, <2>1, <2>2 DEF LimiterInv, AllowsByCount
  <1>7. CASE LoadNextAllowed(t)
    BY <1>7, LimiterStays DEF LoadNextAllowed
  <1>8. CASE MoveNextAllowed(t)
    <2>1. limiter.IntervalTicks > 0 /\ Top(t).now \in MinTicks..MaxTicks
      BY <1>2, <1>8 DEF MoveNextAllowed, At, FrameInv, Frame
    <2>2. UNCHANGED <<refused, told, m_RefusedCount>>
      BY <1>8 DEF MoveNextAllowed
    <2>3. CASE m_NextAllowedTicks = Top(t).nextAllowed
      <3>1. m_NextAllowedTicks' = NextAllowed(Top(t).now) /\ lastAllowed' = Top(t).now
        BY <1>8, <2>3 DEF MoveNextAllowed, Exchanges
      <3>2. /\ \/ m_NextAllowedTicks' = MaxTicks
               \/ m_NextAllowedTicks' >= lastAllowed' + limiter'.IntervalTicks
            /\ m_NextAllowedTicks' <= lastAllowed' + limiter'.IntervalTicks
        BY <1>5, <2>1, <3>1, NextAllowedKeeps
      <3>3. allowed' = allowed + 1
        BY <1>8, <2>3 DEF MoveNextAllowed, Exchanges
      <3> QED
        <4>1. allowed' # 0
          BY <1>4, <3>3
        <4> QED
          BY <1>3, <1>4, <1>5, <2>2, <3>2, <4>1 DEF LimiterInv, AllowsByCount
    <2>4. CASE m_NextAllowedTicks # Top(t).nextAllowed
      <3>1. UNCHANGED <<m_NextAllowedTicks, lastAllowed, allowed>>
        BY <1>8, <2>4 DEF MoveNextAllowed, Exchanges
      <3> QED
        BY <1>3, <1>4, <1>5, <2>2, <3>1 DEF LimiterInv, AllowsByCount
    <2> QED
      BY <2>3, <2>4
  <1>9. CASE Refuse(t)
    <2>1. /\ m_RefusedCount' = m_RefusedCount + 1 /\ refused' = refused + 1
          /\ UNCHANGED <<told, m_NextAllowedTicks, lastAllowed, allowed>>
      BY <1>9 DEF Refuse, Refused
    <2> QED
      BY <1>3, <1>4, <1>5, <2>1 DEF LimiterInv, AllowsByCount
  <1>10. CASE TakeRefused(t)
    <2>1. /\ m_RefusedCount' = 0 /\ told' = told + m_RefusedCount
          /\ UNCHANGED <<refused, m_NextAllowedTicks, lastAllowed, allowed>>
      BY <1>10 DEF TakeRefused, Allowed
    <2> QED
      BY <1>3, <1>4, <1>5, <2>1 DEF LimiterInv, AllowsByCount
  <1> QED
    BY <1>6, <1>7, <1>8, <1>9, <1>10

\* The steps of a thread that leave the limiter alone
LEMMA OthersStay ==
    ASSUME NEW t \in Threads,
           \/ Call(t) \/ Write(t) \/ HandlerReturns(t) \/ Return(t) \/ Scope(t)
           \/ \E now \in Times : ReportError(t, now)
    PROVE  UNCHANGED <<limiter, limiterVars>>
  <1>1. CASE Write(t)
    BY <1>1, Zenon DEF Write
  <1>2. CASE Call(t) \/ HandlerReturns(t) \/ Return(t)
    BY <1>2 DEF Call, HandlerReturns, Return
  <1>3. CASE Scope(t)
    BY <1>3 DEF Scope, OpenScope, EndScope, CaptureScopes
  <1>4. CASE \E now \in Times : ReportError(t, now)
    BY <1>4 DEF ReportError
  <1> QED
    BY <1>1, <1>2, <1>3, <1>4

LEMMA NextCounts ==
    ASSUME TypeOK, FramesInv, LimiterInv, [Next]_vars
    PROVE  LimiterInv'
  <1>1. Tick \/ SetLevel \/ UNCHANGED vars => UNCHANGED <<limiter, limiterVars>>
    BY DEF Tick, SetLevel, vars
  <1> QED
    BY <1>1, LimiterStays, OthersStay, OnceCounts, CountCallCounts, IntervalCounts DEF Next, Step

\* A step of another thread, or of none, leaves the calls of a thread alone
LEMMA OthersFrames ==
    ASSUME TypeOK, NEW t \in Threads, [Next]_vars, frames'[t] # frames[t]
    PROVE  Step(t)
  <1>1. ASSUME NEW u \in Threads, u # t, Step(u)
        PROVE  FALSE
    <2>1. CASE frames[u] # <<>> /\ \E frame : Goes(u, frame)
      BY <1>1, <2>1 DEF Goes, TypeOK
    <2>2. CASE Call(u)
      BY <1>1, <2>2 DEF Call, TypeOK
    <2>3. CASE Return(u)
      BY <1>1, <2>3 DEF Return, TypeOK
    <2>4. CASE LoadOnce(u) \/ ExchangeOnce(u) \/ CountCall(u) \/ AllowAlways(u)
      BY <2>1, <2>4
         DEF LoadOnce, ExchangeOnce, CountCall, AllowAlways, Allowed, Refused, GoesTo, At
    <2>5. CASE LoadNextAllowed(u) \/ MoveNextAllowed(u) \/ Refuse(u) \/ TakeRefused(u)
      BY <2>1, <2>5
         DEF LoadNextAllowed, MoveNextAllowed, Refuse, TakeRefused, Allowed, Refused, GoesTo, At
    <2>6. CASE Write(u)
      BY <2>1, <2>6, Zenon DEF Write, GoesTo, At
    <2>7. CASE HandlerReturns(u)
      BY <2>1, <2>7 DEF HandlerReturns, GoesTo, At
    <2>8. ASSUME NEW now \in Times, ReportError(u, now)
          PROVE  FALSE
      BY <2>1, <2>8 DEF ReportError, GoesTo, At
    <2> QED
      BY <1>1, <2>2, <2>3, <2>4, <2>5, <2>6, <2>7, <2>8 DEF Step
  <1>2. ASSUME NEW u \in Threads, Scope(u)
        PROVE  FALSE
    BY <1>2 DEF Scope, OpenScope, EndScope, CaptureScopes
  <1> QED
    BY <1>1, <1>2 DEF Next, Tick, SetLevel, vars

LEMMA StepKeepsInterval ==
    ASSUME TypeOK, FramesInv, LimiterInv, [Next]_vars, limiter.Kind = "EveryInterval"
    PROVE  KeepsInterval
  <1>1. SUFFICES ASSUME limiter.IntervalTicks > 0, allowed' # allowed, allowed > 0
                 PROVE  lastAllowed' >= lastAllowed + limiter.IntervalTicks \/ lastAllowed' = MaxTicks
    BY DEF KeepsInterval
  <1>2. Tick \/ SetLevel \/ UNCHANGED vars => UNCHANGED limiterVars
    BY DEF Tick, SetLevel, vars
  <1>3. PICK t \in Threads : Step(t)
    BY <1>1, <1>2, OthersStay DEF Next, limiterVars
  <1>4. MoveNextAllowed(t)
    <2>1. limiter.IntervalTicks \in Int
      BY LimiterAssumption DEF TypeOK, Limiter
    <2> QED
      BY <1>1, <1>3, <2>1, OthersStay
         DEF Step, LoadOnce, ExchangeOnce, CountCall, AllowAlways, LoadNextAllowed, Refuse, TakeRefused,
             Allowed, Refused, limiterVars
  <1>5. m_NextAllowedTicks = Top(t).nextAllowed /\ lastAllowed' = Top(t).now
    BY <1>1, <1>4 DEF MoveNextAllowed, Exchanges
  <1>6. FrameInv(Top(t)) /\ Top(t) \in Frame
    BY <1>4, InnermostInv, InnermostType DEF MoveNextAllowed, At
  <1>7. limiter.IntervalTicks > 0 /\ Top(t).now >= Top(t).nextAllowed /\ Top(t).now \in MinTicks..MaxTicks
    BY <1>4, <1>6 DEF MoveNextAllowed, At, FrameInv, Frame
  <1>8. \/ m_NextAllowedTicks = MaxTicks
        \/ m_NextAllowedTicks >= lastAllowed + limiter.IntervalTicks
    BY <1>1, <1>4, <1>7 DEF LimiterInv, MoveNextAllowed
  <1>9. limiter.IntervalTicks \in Int /\ lastAllowed \in Int /\ m_NextAllowedTicks \in Int
    BY LimiterAssumption, ClockAssumption DEF TypeOK, Limiter
  <1> QED
    BY <1>5, <1>7, <1>8, <1>9, ClockAssumption

\* A call that the exchange refuses has seen another move the time
LEMMA ExchangeRefuses ==
    ASSUME TypeOK, FramesInv, NEW t \in Threads, MoveNextAllowed(t), Top(t)'.pc = "Refuse"
    PROVE  allowed > Top(t).before
  <1>1. At(t, "Exchange")
    BY DEF MoveNextAllowed
  <1>2. FrameInv(Top(t)) /\ Top(t) \in Frame
    BY <1>1, InnermostInv, InnermostType DEF At
  <1>3. CASE m_NextAllowedTicks = Top(t).nextAllowed
    <2>1. PICK frame \in Frame : Changes(t, frame) /\ frame.pc = "Take"
      BY <1>1, <1>3, GoesToFrame DEF MoveNextAllowed, Exchanges, At, Steps
    <2>2. Len(frames'[t]) = Len(frames[t]) /\ frames'[t][Len(frames[t])] = frame
      <3>1. Len(frames[t]) \in 1..Len(frames[t])
        BY <1>1, InnermostType DEF At
      <3> QED
        BY <2>1, <3>1, GoesKeeps DEF Changes
    <2> QED
      BY <2>1, <2>2 DEF Top
  <1>4. CASE m_NextAllowedTicks # Top(t).nextAllowed
    <2>1. limiter.Kind = "EveryInterval"
      BY DEF MoveNextAllowed
    <2> QED
      BY <1>1, <1>2, <1>4, <2>1 DEF FrameInv, At, Frame, TypeOK
  <1> QED
    BY <1>3, <1>4

\* A call that the load refuses read a time before the next allowed one, which
\* is at most an interval after the time of the call allowed last
LEMMA LoadRefuses ==
    ASSUME TypeOK, FramesInv, LimiterInv, NEW t \in Threads, LoadNextAllowed(t), Top(t)'.pc = "Refuse"
    PROVE  allowed > 0 /\ Top(t).now < lastAllowed + limiter.IntervalTicks
  <1>1. At(t, "Load") /\ limiter.Kind = "EveryInterval" /\ limiter.IntervalTicks > 0
    BY DEF LoadNextAllowed
  <1>2. Top(t) \in Frame /\ Top(t).now \in MinTicks..MaxTicks /\ Len(frames[t]) \in 1..Len(frames[t])
    BY <1>1, InnermostType DEF At, Frame
  <1>3. allowed \in Nat /\ m_NextAllowedTicks \in MinTicks..MaxTicks
    BY DEF TypeOK
  <1>4. Top(t).now < m_NextAllowedTicks
    <2>1. SUFFICES ASSUME ~(Top(t).now < m_NextAllowedTicks) PROVE FALSE
      OBVIOUS
    <2> DEFINE frame == [Top(t) EXCEPT !.nextAllowed = m_NextAllowedTicks, !.before = allowed,
                                       !.pc = "Exchange"]
    <2>2. frame \in Frame /\ frame.pc = "Exchange"
      BY <1>2, <1>3 DEF Frame, Steps
    <2>3. Goes(t, frame)
      BY <1>2, <2>1 DEF LoadNextAllowed, Frame
    <2>4. Len(frames'[t]) = Len(frames[t]) /\ frames'[t][Len(frames[t])] = frame
      BY <1>1, <1>2, <2>2, <2>3, GoesKeeps DEF At
    <2> QED
      BY <2>2, <2>4 DEF Top
  <1>5. limiter.IntervalTicks \in Int /\ lastAllowed \in Int
    BY LimiterAssumption, ClockAssumption DEF TypeOK, Limiter
  <1>6. allowed # 0
    BY <1>1, <1>2, <1>3, <1>4, ClockAssumption DEF LimiterInv
  <1>7. m_NextAllowedTicks <= lastAllowed + limiter.IntervalTicks
    BY <1>1, <1>3, <1>6 DEF LimiterInv
  <1> QED
    BY <1>2, <1>3, <1>4, <1>5, <1>6, <1>7, ClockAssumption

LEMMA StepRefusesForAReason ==
    ASSUME TypeOK, FramesInv, LimiterInv, [Next]_vars, limiter.Kind = "EveryInterval"
    PROVE  RefusesForAReason
  <1>1. SUFFICES ASSUME NEW t \in Threads, At(t, "Load") \/ At(t, "Exchange"), frames'[t] # frames[t],
                        Top(t)'.pc = "Refuse"
                 PROVE  /\ allowed > 0
                        /\ \/ At(t, "Load") /\ Top(t).now < lastAllowed + limiter.IntervalTicks
                           \/ At(t, "Exchange") /\ allowed > Top(t).before
    BY DEF RefusesForAReason
  <1>2. Step(t)
    BY <1>1, OthersFrames
  <1>3. MoveNextAllowed(t) \/ LoadNextAllowed(t) \/ AllowAlways(t)
    BY <1>1, <1>2
       DEF Step, Call, LoadOnce, ExchangeOnce, CountCall, Refuse,
           TakeRefused, Write, ReportError, HandlerReturns, Return, At
  <1>4. ~AllowAlways(t)
    <2>1. SUFFICES ASSUME AllowAlways(t) PROVE FALSE
      OBVIOUS
    <2> DEFINE frame == [Top(t) EXCEPT !.pc = "Write", !.refusedCount = 0]
    <2>2. Top(t) \in Frame /\ Len(frames[t]) \in 1..Len(frames[t])
      BY <1>1, InnermostType DEF At
    <2>3. frame \in Frame /\ frame.pc = "Write" /\ Goes(t, frame)
      BY <2>1, <2>2 DEF Frame, Steps, AllowAlways, Allowed
    <2>4. frames'[t][Len(frames[t])] = frame /\ Len(frames'[t]) = Len(frames[t])
      BY <1>1, <2>2, <2>3, GoesKeeps DEF At
    <2> QED
      BY <1>1, <2>3, <2>4 DEF Top
  <1>5. CASE MoveNextAllowed(t)
    <2>1. allowed > Top(t).before /\ At(t, "Exchange")
      BY <1>1, <1>5, ExchangeRefuses DEF MoveNextAllowed
    <2>2. Top(t).before \in Nat /\ allowed \in Nat
      BY <1>1, InnermostType DEF At, Frame, TypeOK
    <2> QED
      BY <2>1, <2>2
  <1>6. CASE LoadNextAllowed(t)
    BY <1>1, <1>6, LoadRefuses DEF LoadNextAllowed
  <1> QED
    BY <1>3, <1>4, <1>5, <1>6

\* However the calls of any threads mix, the calls a limiter allows are the ones
\* its factory documents, for any N, any interval and any range of the clock:
\* the call a thread exchanges late is still an interval after the one before,
\* as the exchange succeeds only if none was allowed since it looked; and the one
\* it refuses at the load read a time less than an interval after the call
\* allowed last (Allow()).
THEOREM LimiterAllowsAsDocumented == Spec => AllowsAsDocumented
  <1>1. Init => TypeOK /\ FramesInv /\ LimiterInv
    <2>1. Init => FramesInv
      BY DEF Init, FramesInv
    <2>2. ASSUME Init PROVE LimiterInv
      <3>1. limiter.N \in Nat \ {0}
        BY <2>2, LimiterAssumption DEF Init, Limiter
      <3>2. (0 - 1) * limiter.N < 0 /\ 0 <= 0 * limiter.N
        BY <3>1
      <3> QED
        BY <2>2, <3>2 DEF Init, LimiterInv, AllowsByCount
    <2> QED
      BY <2>1, <2>2, InitType
  <1>2. TypeOK /\ FramesInv /\ LimiterInv /\ [Next]_vars => TypeOK' /\ FramesInv' /\ LimiterInv'
    BY NextType, NextFrames, NextCounts
  <1>3. TypeOK /\ FramesInv /\ LimiterInv /\ [Next]_vars =>
           [/\ AllowsByCount'
            /\ limiter.Kind = "EveryInterval" => KeepsInterval /\ RefusesForAReason]_vars
    BY <1>2, StepKeepsInterval, StepRefusesForAReason DEF LimiterInv
  <1> QED
    BY <1>1, <1>2, <1>3, PTL DEF Spec, AllowsAsDocumented

\* Each refused call is told of exactly once, by an allowed call, or by the next
\* one, for any threads, limiter and clock (ASWLog_Limiter.h:123-124).
THEOREM RefusedAreToldOnce == Spec => []ToldOnce
  <1>1. Init => TypeOK /\ FramesInv /\ LimiterInv
    <2>1. Init => FramesInv
      BY DEF Init, FramesInv
    <2>2. ASSUME Init PROVE LimiterInv
      <3>1. limiter.N \in Nat \ {0}
        BY <2>2, LimiterAssumption DEF Init, Limiter
      <3>2. (0 - 1) * limiter.N < 0 /\ 0 <= 0 * limiter.N
        BY <3>1
      <3> QED
        BY <2>2, <3>2 DEF Init, LimiterInv, AllowsByCount
    <2> QED
      BY <2>1, <2>2, InitType
  <1>2. TypeOK /\ FramesInv /\ LimiterInv /\ [Next]_vars => TypeOK' /\ FramesInv' /\ LimiterInv'
    BY NextType, NextFrames, NextCounts
  <1>3. ASSUME TypeOK, LimiterInv PROVE ToldOnce
    <2>1. /\ limiter.N \in Nat \ {0} /\ m_CallCount \in Nat /\ allowed \in Nat
          /\ refused \in Nat /\ told \in Nat
      BY <1>3, LimiterAssumption DEF TypeOK, Limiter
    <2>2. PICK p \in Int : p = allowed * limiter.N /\ (allowed - 1) * limiter.N = p - limiter.N
      BY <2>1
    <2> QED
      BY <1>3, <2>1, <2>2 DEF LimiterInv, AllowsByCount, ToldOnce
  <1> QED
    BY <1>1, <1>2, <1>3, PTL DEF Spec

(***************************************************************************)
(* The fields of an entry: of those with one key the last is shown.        *)
(***************************************************************************)
LEMMA LeastOf ==
    ASSUME NEW I \in SUBSET Nat, I # {}
    PROVE  \E k \in I : \A j \in I : k <= j
  <1>1. PICK less : IsWellFoundedOn(less, Nat) /\ less = {pair \in Nat \X Nat : pair[1] < pair[2]}
    BY NatLessThanWellFounded DEF OpToRel
  <1>2. PICK k \in I : \A j \in I : <<j, k>> \notin less
    BY <1>1, WFMin
  <1>3. \A x, y \in Nat : x < y => <<x, y>> \in less
    BY <1>1
  <1>4. ASSUME NEW j \in I PROVE k <= j
    <2>1. ~(j < k) /\ j \in Nat /\ k \in Nat
      BY <1>2, <1>3
    <2> QED
      BY <2>1
  <1> QED
    BY <1>4

LEMMA FieldType ==
    \A count \in Nat : /\ Field("suppressed", count) \in AnyField
                       /\ Field("suppressed", count).Key = "suppressed"
                       /\ Field("suppressed", count).Value = count
  <1> TAKE count \in Nat
  <1>1. count \in FieldValue /\ "suppressed" \in FieldName
    BY Zenon DEF FieldValue, FieldName
  <1>2. PICK field : field = [Key |-> "suppressed", Value |-> count]
    OBVIOUS
  <1>3. field \in AnyField /\ field.Key = "suppressed" /\ field.Value = count
    BY <1>1, <1>2 DEF AnyField
  <1> QED
    BY <1>2, <1>3 DEF Field

LEMMA ItemsOf ==
    ASSUME NEW S, NEW s \in Seq(S)
    PROVE  \A i \in 1..Len(s) : s[i] \in S
  OBVIOUS

LEMMA FrontList ==
    ASSUME NEW S, NEW s \in Seq(S), s # <<>>
    PROVE  /\ Len(s) \in Nat \ {0} /\ Front(s) \in Seq(S) /\ Len(Front(s)) = Len(s) - 1
           /\ \A i \in 1..Len(s) - 1 : Front(s)[i] = s[i]
  <1>1. Len(s) \in Nat \ {0}
    OBVIOUS
  <1>2. PICK n \in Nat : n + 1 = Len(s)
    BY <1>1
  <1>3. 1 \in 1..Len(s) + 1 /\ n \in 1 - 1..Len(s) /\ Len(s) - 1 = n /\ (1..n) = (1..(n - 1 + 1)) /\ \A i \in 1..n : 1 + i - 1 = i
    BY <1>2
  <1>4. Front(s) = SubSeq(s, 1, n)
    BY <1>3 DEF Front
  <1>5. /\ SubSeq(s, 1, n) \in Seq(S) /\ Len(SubSeq(s, 1, n)) = n
        /\ \A i \in 1..n : SubSeq(s, 1, n)[i] = s[i]
    BY <1>2
  <1> QED
    BY <1>1, <1>3, <1>4, <1>5

\* FlattenSeq() joins the sequences from the first on
JoinedUpTo(f, seqs, n) ==
    /\ f = [i \in 1..n |-> f[i]] /\ f[1] = seqs[1]
    /\ \A i \in 2..n : f[i] = f[i - 1] \o seqs[i]

LEMMA JoinsExist ==
    ASSUME NEW seqs, NEW n \in Nat \ {0}
    PROVE  \E f : JoinedUpTo(f, seqs, n)
  <1> DEFINE without == {k \in Nat \ {0} : ~\E f : JoinedUpTo(f, seqs, k)}
  <1> SUFFICES ASSUME without # {} PROVE FALSE
    OBVIOUS
  <1>1. PICK k \in Nat \ {0} : k \in without /\ \A j \in without : k <= j
    <2>1. without \in SUBSET Nat /\ without \subseteq Nat \ {0}
      OBVIOUS
    <2> HIDE DEF without
    <2> QED
      BY <2>1, LeastOf
  <1>2. k # 1
    <2>1. JoinedUpTo([i \in 1..1 |-> seqs[1]], seqs, 1)
      BY DEF JoinedUpTo
    <2> QED
      BY <1>1, <2>1
  <1>3. k - 1 \in Nat \ {0} /\ k \in 1..k /\ k - 1 \notin without
    BY <1>1, <1>2
  <1>4. PICK f : JoinedUpTo(f, seqs, k - 1)
    BY <1>3
  <1>5. PICK last : last = f[k - 1] \o seqs[k]
    OBVIOUS
  <1>6. PICK g : g = [i \in 1..k |-> IF i = k THEN last ELSE f[i]]
    OBVIOUS
  <1>7. g = [i \in 1..k |-> g[i]] /\ g[1] = seqs[1] /\ g[k] = last /\ \A i \in 1..k - 1 : g[i] = f[i]
    <2>1. 1 \in 1..k /\ 1 # k /\ k \in 1..k /\ 1 \in 1..k - 1 /\ \A i \in 1..k - 1 : i \in 1..k /\ i # k
      BY <1>2
    <2> QED
      BY <1>4, <1>6, <2>1 DEF JoinedUpTo
  <1>8. ASSUME NEW i \in 2..k PROVE g[i] = g[i - 1] \o seqs[i]
    <2>1. i - 1 \in 1..k - 1 /\ (i # k => i \in 2..k - 1 /\ i \in 1..k - 1)
      BY <1>2
    <2>2. CASE i = k
      BY <1>5, <1>7, <2>1, <2>2
    <2>3. CASE i # k
      BY <1>4, <1>7, <2>1, <2>3 DEF JoinedUpTo
    <2> QED
      BY <2>2, <2>3
  <1>9. JoinedUpTo(g, seqs, k)
    BY <1>7, <1>8 DEF JoinedUpTo
  <1> QED
    BY <1>1, <1>9

LEMMA Flattened ==
    ASSUME NEW seqs, Len(seqs) \in Nat \ {0}
    PROVE  \E f : JoinedUpTo(f, seqs, Len(seqs)) /\ FlattenSeq(seqs) = f[Len(seqs)]
  <1>1. PICK n \in Nat \ {0} : n = Len(seqs)
    OBVIOUS
  <1>2. PICK g : JoinedUpTo(g, seqs, n)
    BY JoinsExist
  <1>3. 1 \in 1..n /\ \A i \in 1..n : i # 1 => i \in 2..n
    BY <1>1
  <1>4. g = [i \in 1..n |-> IF i = 1 THEN seqs[i] ELSE g[i - 1] \o seqs[i]]
    <2>1. \A i \in 1..n : g[i] = IF i = 1 THEN seqs[i] ELSE g[i - 1] \o seqs[i]
      BY <1>2, <1>3 DEF JoinedUpTo
    <2>2. g = [i \in 1..n |-> g[i]]
      BY <1>2 DEF JoinedUpTo
    <2> QED
      BY <2>1, <2>2
  <1>5. PICK h : h = CHOOSE f : f = [i \in 1..n |-> IF i = 1 THEN seqs[i] ELSE f[i - 1] \o seqs[i]]
    OBVIOUS
  <1>6. h = [i \in 1..n |-> IF i = 1 THEN seqs[i] ELSE h[i - 1] \o seqs[i]]
    BY <1>4, <1>5
  <1>7. JoinedUpTo(h, seqs, n)
    <2>1. \A i \in 2..n : i \in 1..n /\ i # 1
      BY <1>1
    <2> QED
      BY <1>3, <1>6, <2>1 DEF JoinedUpTo
  <1>8. FlattenSeq(seqs) = h[n]
    BY <1>1, <1>5 DEF FlattenSeq
  <1> QED
    BY <1>1, <1>7, <1>8

LEMMA JoinedType ==
    ASSUME NEW S, NEW seqs \in Seq(Seq(S)), NEW n \in 1..Len(seqs), NEW f, JoinedUpTo(f, seqs, n)
    PROVE  \A i \in 1..n : f[i] \in Seq(S)
  <1> DEFINE without == {i \in 1..n : f[i] \notin Seq(S)}
  <1> SUFFICES ASSUME without # {} PROVE FALSE
    OBVIOUS
  <1>0. \A i \in 1..n : seqs[i] \in Seq(S)
    OBVIOUS
  <1>1. PICK k \in 1..n : k \in without /\ \A j \in without : k <= j
    <2>1. without \in SUBSET Nat /\ without \subseteq 1..n
      OBVIOUS
    <2> HIDE DEF without
    <2> QED
      BY <2>1, LeastOf
  <1>2. CASE k = 1
    BY <1>0, <1>1, <1>2 DEF JoinedUpTo
  <1>3. CASE k # 1
    <2>1. k \in 2..n /\ k - 1 \in 1..n /\ k - 1 \notin without
      BY <1>1, <1>3
    <2>2. PICK p \in Seq(S) : p = f[k - 1]
      BY <2>1
    <2>3. PICK q \in Seq(S) : q = seqs[k]
      BY <1>0
    <2>4. p \o q \in Seq(S)
      OBVIOUS
    <2> QED
      BY <1>1, <2>1, <2>2, <2>3, <2>4 DEF JoinedUpTo
  <1> QED
    BY <1>2, <1>3

\* What an entry's scopes have, the fields of the last at its end
LEMMA ScopesJoined ==
    ASSUME NEW S, NEW chain \in Seq(Seq(S))
    PROVE  /\ VisitAllLogFields(chain, <<>>) \in Seq(S)
           /\ Len(chain) > 0 => \E first \in Seq(S) : VisitAllLogFields(chain, <<>>) = first \o chain[Len(chain)]
  <1>1. PICK n \in Nat : n = Len(chain)
    OBVIOUS
  <1>2. PICK all \in Seq(Seq(S)) : all = Append(chain, <<>>)
    <2>1. <<>> \in Seq(S)
      OBVIOUS
    <2>2. Append(chain, <<>>) \in Seq(Seq(S))
      BY <2>1, AppendProperties
    <2> QED
      BY <2>2
  <1>3. Len(all) = n + 1 /\ all[n + 1] = <<>> /\ \A i \in 1..n : all[i] = chain[i]
    BY <1>1, <1>2
  <1>4. PICK f : JoinedUpTo(f, all, n + 1) /\ VisitAllLogFields(chain, <<>>) = f[n + 1]
    <2>1. Len(all) \in Nat \ {0}
      BY <1>1, <1>3
    <2> QED
      BY <1>2, <1>3, <2>1, Flattened DEF VisitAllLogFields
  <1>5. \A i \in 1..n + 1 : f[i] \in Seq(S)
    <2>1. PICK k \in 1..Len(all) : k = n + 1
      BY <1>1, <1>3
    <2> QED
      BY <1>4, <2>1, JoinedType
  <1>6. n + 1 \in 1..n + 1
    BY <1>1
  <1>7. ASSUME n > 0
        PROVE  \E first \in Seq(S) : f[n + 1] = first \o chain[n]
    <2>1. n \in 1..n + 1 /\ n \in 1..n /\ n + 1 \in 2..n + 1 /\ (n + 1) - 1 = n
      BY <1>1, <1>7
    <2>2. f[n + 1] = f[n] \o <<>>
      BY <1>3, <1>4, <2>1 DEF JoinedUpTo
    <2>3. PICK x \in Seq(S) : x = f[n]
      BY <1>5, <2>1
    <2>4. f[n + 1] = x
      <3>1. x \o <<>> = x
        OBVIOUS
      <3> QED
        BY <2>2, <2>3, <3>1
    <2>5. PICK own \in Seq(S) : own = chain[n]
      BY <1>1, <2>1
    <2>6. CASE n = 1
      <3>1. x = own
        BY <1>3, <1>4, <2>1, <2>3, <2>5, <2>6 DEF JoinedUpTo
      <3>2. <<>> \in Seq(S) /\ <<>> \o own = own
        OBVIOUS
      <3> QED
        BY <2>4, <2>5, <3>1, <3>2
    <2>7. CASE n # 1
      <3>1. n \in 2..n + 1 /\ n - 1 \in 1..n + 1
        BY <1>1, <1>7, <2>7
      <3>2. PICK first \in Seq(S) : first = f[n - 1]
        BY <1>5, <3>1
      <3>3. x = first \o own
        BY <1>3, <1>4, <2>1, <2>3, <2>5, <3>1, <3>2 DEF JoinedUpTo
      <3> QED
        BY <2>4, <2>5, <3>3
    <2> QED
      BY <2>6, <2>7
  <1> QED
    BY <1>1, <1>4, <1>5, <1>6, <1>7

LEMMA WinnerIsLast ==
    ASSUME NEW S, NEW all \in Seq(S), NEW index \in 1..Len(all)
    PROVE  \E last \in 1..Len(all) :
              /\ Winner(all, index) = all[last] /\ all[last].Key = all[index].Key
              /\ \A later \in (last + 1)..Len(all) : all[later].Key # all[index].Key
  <1>1. PICK n \in Nat \ {0} : n = Len(all)
    OBVIOUS
  <1> DEFINE back == {d \in 0..(n - index) : all[n - d].Key = all[index].Key}
  <1>2. PICK d \in 0..(n - index) : d \in back /\ \A e \in back : d <= e
    <2>1. PICK e \in 0..(n - index) : n - e = index
      BY <1>1
    <2>2. e \in back
      BY <2>1
    <2>3. back \subseteq 0..(n - index) /\ back # {}
      BY <2>2
    <2> HIDE DEF back
    <2>4. 0..(n - index) \subseteq Nat
      BY <1>1
    <2>5. back \in SUBSET Nat
      BY <2>3, <2>4
    <2> QED
      BY <2>3, <2>5, LeastOf
  <1>3. PICK last \in index..n : last = n - d /\ all[last].Key = all[index].Key
    <2>1. n - d \in index..n
      BY <1>1
    <2> QED
      BY <1>2, <2>1
  <1>4. ASSUME NEW later \in (last + 1)..n, all[later].Key = all[index].Key PROVE FALSE
    <2>1. PICK e \in 0..(n - index) : n - e = later /\ e < d
      <3>1. n - later \in 0..(n - index) /\ n - (n - later) = later /\ n - later < d
        BY <1>1, <1>3
      <3> QED
        BY <3>1
    <2>2. e \in back
      BY <1>4, <2>1
    <2> QED
      BY <1>2, <2>1, <2>2
  <1> DEFINE is(x) == all[x].Key = all[index].Key /\ \A later \in (x + 1)..n : all[later].Key # all[index].Key
  <1>5. \E x \in index..n : is(x)
    BY <1>3, <1>4
  <1>6. PICK x \in index..n : x = CHOOSE y \in index..n : is(y)
    BY <1>5
  <1>7. is(x)
    BY <1>5, <1>6
  <1>8. Winner(all, index) = all[x]
    BY <1>1, <1>6 DEF Winner
  <1>9. x \in 1..n
    BY <1>1
  <1> QED
    BY <1>1, <1>7, <1>8, <1>9

\* ForEachLogField() goes through the fields from the first on
EachUpTo(f, all, n) ==
    /\ f = [i \in 0..n |-> f[i]] /\ f[0] = <<>>
    /\ \A i \in 1..n : f[i] = IF IsRepeated(all, i) THEN f[i - 1] ELSE Append(f[i - 1], Winner(all, i))

LEMMA EachExists ==
    ASSUME NEW all, NEW n \in Nat
    PROVE  \E f : EachUpTo(f, all, n)
  <1> DEFINE without == {k \in Nat : ~\E f : EachUpTo(f, all, k)}
  <1> SUFFICES ASSUME without # {} PROVE FALSE
    OBVIOUS
  <1>1. PICK k \in Nat : k \in without /\ \A j \in without : k <= j
    <2>1. without \in SUBSET Nat
      OBVIOUS
    <2> HIDE DEF without
    <2> QED
      BY <2>1, LeastOf
  <1>2. k # 0
    <2>1. EachUpTo([i \in 0..0 |-> <<>>], all, 0)
      BY DEF EachUpTo
    <2> QED
      BY <1>1, <2>1
  <1>3. k - 1 \in Nat /\ k \in 1..k /\ k - 1 \notin without
    BY <1>1, <1>2
  <1>4. PICK f : EachUpTo(f, all, k - 1)
    BY <1>3
  <1>5. PICK last : last = IF IsRepeated(all, k) THEN f[k - 1] ELSE Append(f[k - 1], Winner(all, k))
    OBVIOUS
  <1>6. PICK g : g = [i \in 0..k |-> IF i = k THEN last ELSE f[i]]
    OBVIOUS
  <1>7. g = [i \in 0..k |-> g[i]] /\ g[0] = <<>> /\ g[k] = last /\ \A i \in 0..k - 1 : g[i] = f[i]
    <2>1. 0 \in 0..k /\ 0 # k /\ k \in 0..k /\ 0 \in 0..k - 1 /\ \A i \in 0..k - 1 : i \in 0..k /\ i # k
      BY <1>2
    <2> QED
      BY <1>4, <1>6, <2>1 DEF EachUpTo
  <1>8. ASSUME NEW i \in 1..k
        PROVE  g[i] = IF IsRepeated(all, i) THEN g[i - 1] ELSE Append(g[i - 1], Winner(all, i))
    <2>1. i - 1 \in 0..k - 1 /\ (i # k => i \in 1..k - 1 /\ i \in 0..k - 1)
      BY <1>2
    <2>2. CASE i = k
      BY <1>5, <1>7, <2>1, <2>2
    <2>3. CASE i # k
      BY <1>4, <1>7, <2>1, <2>3 DEF EachUpTo
    <2> QED
      BY <2>2, <2>3
  <1>9. EachUpTo(g, all, k)
    BY <1>7, <1>8 DEF EachUpTo
  <1> QED
    BY <1>1, <1>9

LEMMA EachVisited ==
    ASSUME NEW chain, NEW fields, Len(VisitAllLogFields(chain, fields)) \in Nat
    PROVE  \E f : /\ EachUpTo(f, VisitAllLogFields(chain, fields), Len(VisitAllLogFields(chain, fields)))
                  /\ ForEachLogField(chain, fields) = f[Len(VisitAllLogFields(chain, fields))]
  <1>1. PICK all : all = VisitAllLogFields(chain, fields)
    OBVIOUS
  <1>2. PICK n \in Nat : n = Len(all)
    BY <1>1
  <1>3. PICK g : EachUpTo(g, all, n)
    BY EachExists
  <1>4. \A i \in 0..n : i # 0 => i \in 1..n
    BY <1>2
  <1>5. g = [i \in 0..n |-> IF i = 0 THEN <<>>
                            ELSE IF IsRepeated(all, i) THEN g[i - 1] ELSE Append(g[i - 1], Winner(all, i))]
    <2>1. \A i \in 0..n : g[i] = IF i = 0 THEN <<>>
                              ELSE IF IsRepeated(all, i) THEN g[i - 1] ELSE Append(g[i - 1], Winner(all, i))
      BY <1>3, <1>4 DEF EachUpTo
    <2>2. g = [i \in 0..n |-> g[i]]
      BY <1>3 DEF EachUpTo
    <2> QED
      BY <2>1, <2>2
  <1>6. PICK h : h = CHOOSE f : f = [i \in 0..n |-> IF i = 0 THEN <<>>
                            ELSE IF IsRepeated(all, i) THEN f[i - 1] ELSE Append(f[i - 1], Winner(all, i))]
    OBVIOUS
  <1>7. h = [i \in 0..n |-> IF i = 0 THEN <<>>
                            ELSE IF IsRepeated(all, i) THEN h[i - 1] ELSE Append(h[i - 1], Winner(all, i))]
    BY <1>5, <1>6
  <1>8. EachUpTo(h, all, n)
    <2>1. 0 \in 0..n /\ \A i \in 1..n : i \in 0..n /\ i # 0
      BY <1>2
    <2> QED
      BY <1>7, <2>1 DEF EachUpTo
  <1>9. ForEachLogField(chain, fields) = h[n]
    BY <1>1, <1>2, <1>6 DEF ForEachLogField
  <1> QED
    BY <1>1, <1>2, <1>8, <1>9

\* What it gives: of each key among the fields the last one
ShowsEach(shown, all, n) ==
    /\ \A i \in 1..Len(shown) : \E k \in 1..n : shown[i] = Winner(all, k)
    /\ \A k \in 1..n : \E i \in 1..Len(shown) : shown[i].Key = all[k].Key

LEMMA NextShown ==
    ASSUME NEW S, NEW all \in Seq(S), NEW n \in 1..Len(all), NEW shown \in Seq(S), ShowsEach(shown, all, n - 1)
    PROVE  LET next == IF IsRepeated(all, n) THEN shown ELSE Append(shown, Winner(all, n))
           IN  next \in Seq(S) /\ ShowsEach(next, all, n)
  <1>1. PICK m \in Nat : m = Len(shown)
    OBVIOUS
  <1>2. (\A k \in 1..n - 1 : k \in 1..n) /\ n \in 1..n /\ \A k \in 1..n : k \in 1..n - 1 \/ k = n
    OBVIOUS
  <1>3. CASE IsRepeated(all, n)
    <2>1. PICK k \in 1..n - 1 : all[k].Key = all[n].Key
      BY <1>3 DEF IsRepeated
    <2>2. ShowsEach(shown, all, n)
      BY <1>2, <2>1 DEF ShowsEach
    <2> QED
      BY <1>3, <2>2
  <1>4. CASE ~IsRepeated(all, n)
    <2>1. PICK w \in S : w = Winner(all, n) /\ w.Key = all[n].Key
      <3>1. \A i \in 1..Len(all) : all[i] \in S
        BY ItemsOf
      <3> QED
        BY <3>1, WinnerIsLast
    <2>2. PICK next \in Seq(S) : next = Append(shown, w)
      BY AppendProperties
    <2>3. Len(next) = m + 1 /\ next[m + 1] = w /\ \A i \in 1..m : next[i] = shown[i]
      BY <1>1, <2>2, AppendProperties
    <2>4. m + 1 \in 1..m + 1 /\ (\A i \in 1..m : i \in 1..m + 1) /\ \A i \in 1..m + 1 : i \in 1..m \/ i = m + 1
      BY <1>1
    <2>5. \A i \in 1..m + 1 : \E k \in 1..n : next[i] = Winner(all, k)
      <3> SUFFICES ASSUME NEW i \in 1..m + 1 PROVE \E k \in 1..n : next[i] = Winner(all, k)
        OBVIOUS
      <3>1. CASE i = m + 1
        BY <1>2, <2>1, <2>3, <3>1
      <3>2. CASE i # m + 1
        <4>1. i \in 1..m
          BY <2>4, <3>2
        <4>2. PICK k \in 1..n - 1 : shown[i] = Winner(all, k)
          BY <1>1, <4>1 DEF ShowsEach
        <4> QED
          BY <1>2, <2>3, <4>1, <4>2
      <3> QED
        BY <3>1, <3>2
    <2>6. \A k \in 1..n : \E i \in 1..m + 1 : next[i].Key = all[k].Key
      <3> SUFFICES ASSUME NEW k \in 1..n PROVE \E i \in 1..m + 1 : next[i].Key = all[k].Key
        OBVIOUS
      <3>1. CASE k = n
        BY <2>1, <2>3, <2>4, <3>1
      <3>2. CASE k # n
        <4>1. k \in 1..n - 1
          BY <1>2, <3>2
        <4>2. PICK i \in 1..m : shown[i].Key = all[k].Key
          BY <1>1, <4>1 DEF ShowsEach
        <4> QED
          BY <2>3, <2>4, <4>2
      <3> QED
        BY <3>1, <3>2
    <2>7. ShowsEach(next, all, n)
      BY <2>3, <2>5, <2>6 DEF ShowsEach
    <2> QED
      BY <1>4, <2>1, <2>2, <2>7
  <1> QED
    BY <1>3, <1>4

LEMMA EachShown ==
    ASSUME NEW S, NEW all \in Seq(S), NEW f, EachUpTo(f, all, Len(all))
    PROVE  f[Len(all)] \in Seq(S) /\ ShowsEach(f[Len(all)], all, Len(all))
  <1>1. PICK n \in Nat : n = Len(all)
    OBVIOUS
  <1> DEFINE Right(k) == f[k] \in Seq(S) /\ ShowsEach(f[k], all, k)
             without == {k \in 0..n : ~Right(k)}
  <1>2. without = {}
    <2> SUFFICES ASSUME without # {} PROVE FALSE
      OBVIOUS
    <2>1. PICK k \in 0..n : k \in without /\ \A j \in without : k <= j
      <3>1. without \in SUBSET Nat /\ without \subseteq 0..n
        BY <1>1
      <3> HIDE DEF without
      <3> QED
        BY <3>1, LeastOf
    <2>2. k # 0
      <3>1. <<>> \in Seq(S) /\ Len(<<>>) = 0
        OBVIOUS
      <3>2. f[0] = <<>>
        BY DEF EachUpTo
      <3>3. ShowsEach(<<>>, all, 0)
        BY <3>1 DEF ShowsEach
      <3> QED
        BY <2>1, <3>1, <3>2, <3>3
    <2>3. k \in 1..n /\ k - 1 \in 0..n /\ k - 1 \notin without
      BY <1>1, <2>1, <2>2
    <2>4. PICK before \in Seq(S) : before = f[k - 1] /\ ShowsEach(before, all, k - 1)
      BY <2>3
    <2>5. f[k] = IF IsRepeated(all, k) THEN before ELSE Append(before, Winner(all, k))
      BY <1>1, <2>3, <2>4 DEF EachUpTo
    <2>6. Right(k)
      BY <1>1, <2>3, <2>4, <2>5, NextShown
    <2> QED
      BY <2>1, <2>6
  <1>3. n \in 0..n
    BY <1>1
  <1> QED
    BY <1>1, <1>2, <1>3

LEMMA EntryFieldsShown ==
    ASSUME NEW S, NEW chain \in Seq(Seq(S))
    PROVE  LET all == VisitAllLogFields(chain, <<>>)
               shown == ForEachLogField(chain, <<>>)
           IN  all \in Seq(S) /\ shown \in Seq(S) /\ ShowsEach(shown, all, Len(all))
  <1>1. PICK all \in Seq(S) : all = VisitAllLogFields(chain, <<>>)
    BY ScopesJoined
  <1>2. PICK f : EachUpTo(f, all, Len(all)) /\ ForEachLogField(chain, <<>>) = f[Len(all)]
    <2>1. Len(VisitAllLogFields(chain, <<>>)) \in Nat
      BY <1>1
    <2> QED
      BY <1>1, <2>1, EachVisited
  <1> QED
    BY <1>1, <1>2, EachShown

\* A field of the innermost scope is the one shown, whatever the others have
LEMMA InnermostShown ==
    ASSUME NEW chain \in Seq(Seq(AnyField)), Len(chain) > 0, NEW count \in Nat,
           chain[Len(chain)] = Suppressed(count)
    PROVE  FindField(ForEachLogField(chain, <<>>), "suppressed") = count
  <1>1. PICK all \in Seq(AnyField), shown \in Seq(AnyField) :
           /\ all = VisitAllLogFields(chain, <<>>) /\ shown = ForEachLogField(chain, <<>>)
           /\ ShowsEach(shown, all, Len(all))
    BY EntryFieldsShown
  <1>2. PICK own \in AnyField : own = Field("suppressed", count) /\ own.Key = "suppressed" /\ own.Value = count
    BY FieldType
  <1>3. PICK first \in Seq(AnyField) : all = first \o <<own>>
    BY <1>1, <1>2, ScopesJoined DEF Suppressed
  <1>4. PICK n \in Nat \ {0} : n = Len(all) /\ all[n] = own
    <2>1. Len(first) \in Nat /\ Len(all) = Len(first) + 1 /\ all[Len(first) + 1] = own
      BY <1>3
    <2> QED
      BY <2>1
  <1>5. n \in 1..n
    BY <1>4
  <1>6. ASSUME NEW i \in 1..Len(shown), shown[i].Key = "suppressed"
        PROVE  shown[i].Value = count
    <2>1. PICK k \in 1..n : shown[i] = Winner(all, k)
      BY <1>1, <1>4 DEF ShowsEach
    <2>2. PICK last \in 1..n :
             /\ Winner(all, k) = all[last] /\ all[last].Key = all[k].Key
             /\ \A later \in (last + 1)..n : all[later].Key # all[k].Key
      BY <1>4, WinnerIsLast
    <2>3. all[k].Key = all[n].Key
      BY <1>2, <1>4, <1>6, <2>1, <2>2
    <2>4. n \notin (last + 1)..n
      BY <2>2, <2>3
    <2>5. last = n
      BY <1>4, <2>4
    <2> QED
      BY <1>2, <1>4, <2>1, <2>2, <2>5
  <1>7. \E i \in 1..Len(shown) : shown[i].Key = "suppressed"
    <2>1. \A k \in 1..n : \E i \in 1..Len(shown) : shown[i].Key = all[k].Key
      BY <1>1, <1>4, Zenon DEF ShowsEach
    <2> QED
      BY <1>2, <1>4, <1>5, <2>1
  <1>8. PICK i \in 1..Len(shown) :
           i = (CHOOSE j \in 1..Len(shown) : shown[j].Key = "suppressed") /\ shown[i].Key = "suppressed"
    BY <1>7
  <1>9. FindField(shown, "suppressed") = shown[i].Value
    BY <1>8 DEF FindField
  <1> QED
    BY <1>1, <1>6, <1>8, <1>9

(***************************************************************************)
(* The scope of a call is the innermost one of its thread: a call within   *)
(* the handler ends its own before the one beneath it goes on.             *)
(***************************************************************************)
Own(kind, frame) == kind = "EveryInterval" /\ frame.refusedCount > 0
OwnScopeAt(chain, m, frame) == m \in 1..Len(chain) /\ chain[m] = Suppressed(frame.refusedCount)

IsEarly(frame) == frame.pc \in {"Load", "Exchange", "Refuse", "Take"}

OwnScopes(kind, fs, chain) ==
    /\ Len(fs) <= 2
    /\ \A i \in 1..Len(fs) - 1 : fs[i].pc = "Handle"
    /\ \A i \in 1..Len(fs) : IsEarly(fs[i]) => fs[i].refusedCount = 0
    /\ \A i \in 1..Len(fs) : i = Len(fs) /\ Own(kind, fs[i]) => OwnScopeAt(chain, Len(chain), fs[i])
    /\ Len(fs) = 2 /\ Own(kind, fs[1]) =>
          OwnScopeAt(chain, IF Own(kind, fs[2]) THEN Len(chain) - 1 ELSE Len(chain), fs[1])

LEMMA OwnBegins ==
    ASSUME NEW kind, NEW fs \in Seq(Frame), NEW chain \in Seq(Seq(AnyField)), OwnScopes(kind, fs, chain),
           NEW frame \in Frame, frame.pc = "Load", frame.refusedCount = 0,
           Len(fs) = 0 \/ (Len(fs) = 1 /\ fs[1].pc = "Handle"),
           NEW next, Len(next) = Len(fs) + 1, next[Len(fs) + 1] = frame,
           \A i \in 1..Len(fs) : next[i] = fs[i]
    PROVE  OwnScopes(kind, next, chain)
  <1>1. ~Own(kind, frame)
    BY DEF Own
  <1>2. CASE Len(fs) = 0
    <2>1. Len(next) = 1 /\ next[1] = frame
      BY <1>2
    <2> QED
      BY <1>1, <2>1 DEF OwnScopes
  <1>3. CASE Len(fs) = 1
    <2>1. Len(next) = 2 /\ next[1] = fs[1] /\ next[2] = frame /\ fs[1].pc = "Handle"
      BY <1>3
    <2>2. Own(kind, fs[1]) => OwnScopeAt(chain, Len(chain), fs[1])
      BY <1>3 DEF OwnScopes
    <2>3. ~IsEarly(fs[1])
      BY <2>1 DEF IsEarly
    <2>4. \A i \in 1..2 : i = 1 \/ i = 2
      OBVIOUS
    <2>5. \A i \in 1..1 : i = 1
      OBVIOUS
    <2> QED
      BY <1>1, <2>1, <2>2, <2>3, <2>4, <2>5 DEF OwnScopes
  <1> QED
    BY <1>2, <1>3

\* A step of the innermost call that keeps what it was told
LEMMA OwnStays ==
    ASSUME NEW kind, NEW fs \in Seq(Frame), NEW chain \in Seq(Seq(AnyField)), OwnScopes(kind, fs, chain),
           Len(fs) > 0, NEW frame \in Frame, frame.refusedCount = fs[Len(fs)].refusedCount,
           IsEarly(frame) => IsEarly(fs[Len(fs)]),
           NEW next, Len(next) = Len(fs),
           \A i \in 1..Len(fs) : next[i] = IF i = Len(fs) THEN frame ELSE fs[i]
    PROVE  OwnScopes(kind, next, chain)
  <1>1. PICK n \in 1..2 : n = Len(fs)
    BY DEF OwnScopes
  <1>2. n \in 1..n /\ next[n] = frame /\ \A i \in 1..n : i # n => next[i] = fs[i]
    BY <1>1
  <1>3. Own(kind, frame) <=> Own(kind, fs[n])
    BY <1>1 DEF Own
  <1>4. \A m : OwnScopeAt(chain, m, frame) <=> OwnScopeAt(chain, m, fs[n])
    BY <1>1 DEF OwnScopeAt
  <1>5. \A i \in 1..n - 1 : next[i].pc = "Handle"
    <2>1. \A i \in 1..n - 1 : i \in 1..n /\ i # n
      BY <1>1
    <2> QED
      BY <1>1, <1>2, <2>1 DEF OwnScopes
  <1>6. \A i \in 1..n : IsEarly(next[i]) => next[i].refusedCount = 0
    BY <1>1, <1>2 DEF OwnScopes
  <1>7. \A i \in 1..n : i = n /\ Own(kind, next[i]) => OwnScopeAt(chain, Len(chain), next[i])
    BY <1>1, <1>2, <1>3, <1>4 DEF OwnScopes
  <1>8. n = 2 /\ Own(kind, next[1]) =>
           OwnScopeAt(chain, IF Own(kind, next[2]) THEN Len(chain) - 1 ELSE Len(chain), next[1])
    <2>1. n = 2 => next[1] = fs[1] /\ next[2] = frame
      BY <1>1, <1>2
    <2> QED
      BY <1>1, <1>3, <2>1 DEF OwnScopes
  <1> QED
    BY <1>1, <1>5, <1>6, <1>7, <1>8 DEF OwnScopes

\* The call is allowed, and begins a scope if it is told of some
LEMMA OwnAllowed ==
    ASSUME NEW kind, NEW fs \in Seq(Frame), NEW chain \in Seq(Seq(AnyField)), OwnScopes(kind, fs, chain),
           Len(fs) > 0, IsEarly(fs[Len(fs)]), NEW frame \in Frame, ~IsEarly(frame),
           NEW next, Len(next) = Len(fs),
           \A i \in 1..Len(fs) : next[i] = IF i = Len(fs) THEN frame ELSE fs[i],
           NEW longer \in Seq(Seq(AnyField)),
           longer = IF Own(kind, frame) THEN Append(chain, Suppressed(frame.refusedCount)) ELSE chain
    PROVE  OwnScopes(kind, next, longer)
  <1>1. PICK n \in 1..2 : n = Len(fs)
    BY DEF OwnScopes
  <1>2. n \in 1..n /\ next[n] = frame /\ \A i \in 1..n : i # n => next[i] = fs[i]
    BY <1>1
  <1>3. ~Own(kind, fs[n])
    BY <1>1, <1>2 DEF OwnScopes, Own
  <1>4. PICK m \in Nat : m = Len(chain)
    OBVIOUS
  <1>5. \A i \in 1..n - 1 : next[i].pc = "Handle"
    <2>1. \A i \in 1..n - 1 : i \in 1..n /\ i # n
      BY <1>1
    <2> QED
      BY <1>1, <1>2, <2>1 DEF OwnScopes
  <1>6. \A i \in 1..n : IsEarly(next[i]) => next[i].refusedCount = 0
    BY <1>1, <1>2 DEF OwnScopes
  <1>7. CASE Own(kind, frame)
    <2>1. longer = Append(chain, Suppressed(frame.refusedCount))
      BY <1>7
    <2>2. Suppressed(frame.refusedCount) \in Seq(AnyField)
      <3>1. frame.refusedCount \in Nat
        BY DEF Frame
      <3> QED
        BY <3>1, FieldType DEF Suppressed
    <2>3. /\ Len(longer) = m + 1 /\ longer[m + 1] = Suppressed(frame.refusedCount)
          /\ \A i \in 1..m : longer[i] = chain[i]
      BY <1>4, <2>1, <2>2
    <2>4. OwnScopeAt(longer, m + 1, frame)
      BY <1>4, <2>3 DEF OwnScopeAt
    <2>5. \A i \in 1..n : i = n /\ Own(kind, next[i]) => OwnScopeAt(longer, Len(longer), next[i])
      BY <1>2, <2>3, <2>4
    <2>6. ASSUME n = 2, Own(kind, next[1]) PROVE OwnScopeAt(longer, Len(longer) - 1, next[1])
      <3>1. next[1] = fs[1]
        BY <1>1, <1>2, <2>6
      <3>2. OwnScopeAt(chain, m, fs[1])
        BY <1>1, <1>3, <1>4, <2>6, <3>1 DEF OwnScopes
      <3>3. m \in 1..m + 1 /\ (m + 1) - 1 = m
        BY <1>4, <3>2 DEF OwnScopeAt
      <3> QED
        BY <1>4, <2>3, <3>1, <3>2, <3>3 DEF OwnScopeAt
    <2>7. n = 2 => Own(kind, next[2])
      BY <1>2, <1>7
    <2> QED
      BY <1>1, <1>5, <1>6, <2>5, <2>6, <2>7 DEF OwnScopes
  <1>8. CASE ~Own(kind, frame)
    <2>1. \A i \in 1..n : i = n => ~Own(kind, next[i])
      BY <1>2, <1>8
    <2>2. ASSUME n = 2, Own(kind, next[1])
          PROVE  ~Own(kind, next[2]) /\ OwnScopeAt(longer, Len(longer), next[1])
      <3>1. next[1] = fs[1] /\ next[2] = frame
        BY <1>1, <1>2, <2>2
      <3>2. OwnScopeAt(chain, m, fs[1])
        BY <1>1, <1>3, <1>4, <2>2, <3>1 DEF OwnScopes
      <3> QED
        BY <1>4, <1>8, <3>1, <3>2
    <2> QED
      BY <1>1, <1>5, <1>6, <2>1, <2>2 DEF OwnScopes
  <1> QED
    BY <1>7, <1>8

\* The innermost call ends, and with it its scope
LEMMA OwnEnds ==
    ASSUME NEW kind, NEW fs \in Seq(Frame), NEW chain \in Seq(Seq(AnyField)), OwnScopes(kind, fs, chain),
           Len(fs) > 0,
           NEW next, Len(next) = Len(fs) - 1, \A i \in 1..Len(fs) - 1 : next[i] = fs[i],
           NEW shorter,
           IF Own(kind, fs[Len(fs)])
           THEN Len(shorter) = Len(chain) - 1 /\ \A i \in 1..Len(chain) - 1 : shorter[i] = chain[i]
           ELSE shorter = chain
    PROVE  OwnScopes(kind, next, shorter)
  <1>1. PICK n \in 1..2 : n = Len(fs)
    BY DEF OwnScopes
  <1>2. CASE n = 1
    <2>1. Len(next) = 0
      BY <1>1, <1>2
    <2>2. 1..0 = {} /\ 1..(0 - 1) = {} /\ 0 <= 2 /\ 0 # 2
      OBVIOUS
    <2> QED
      BY <2>1, <2>2 DEF OwnScopes
  <1>3. CASE n = 2
    <2>1. Len(next) = 1 /\ next[1] = fs[1] /\ fs[1].pc = "Handle"
      BY <1>1, <1>3 DEF OwnScopes
    <2>2. PICK m \in Nat : m = Len(chain)
      OBVIOUS
    <2>3. Own(kind, fs[1]) => OwnScopeAt(shorter, Len(shorter), fs[1])
      <3>1. CASE Own(kind, fs[2])
        <4>1. Len(shorter) = m - 1 /\ \A i \in 1..m - 1 : shorter[i] = chain[i]
          BY <1>1, <1>3, <2>2, <3>1
        <4>2. Own(kind, fs[1]) => OwnScopeAt(chain, m - 1, fs[1])
          BY <1>1, <1>3, <2>2, <3>1 DEF OwnScopes
        <4>3. m - 1 \in 1..m => m - 1 \in 1..m - 1
          BY <2>2
        <4> QED
          BY <2>2, <4>1, <4>2, <4>3 DEF OwnScopeAt
      <3>2. CASE ~Own(kind, fs[2])
        BY <1>1, <1>3, <3>2 DEF OwnScopes
      <3> QED
        BY <3>1, <3>2
    <2>4. ~IsEarly(fs[1])
      BY <2>1 DEF IsEarly
    <2>5. \A i \in 1..1 : i = 1
      OBVIOUS
    <2> QED
      BY <2>1, <2>3, <2>4, <2>5 DEF OwnScopes
  <1> QED
    BY <1>1, <1>2, <1>3

----------------------------------------------------------------------------
ScopesOK == scopes \in [Threads -> Seq(Seq(AnyField))] /\ context \in Seq(AnyField)

ScopesInv ==
    /\ ScopesOK
    /\ \A t \in Threads : OwnScopes(limiter.Kind, frames[t], scopes[t])

\* A step of one thread
LEMMA OtherChainsStay ==
    ASSUME ScopesInv, ScopesOK', UNCHANGED limiter, NEW t \in Threads,
           \A u \in Threads \ {t} : frames'[u] = frames[u] /\ scopes'[u] = scopes[u],
           OwnScopes(limiter.Kind, frames'[t], scopes'[t])
    PROVE  ScopesInv'
  <1>1. ASSUME NEW u \in Threads PROVE OwnScopes(limiter'.Kind, frames'[u], scopes'[u])
    <2>1. CASE u = t
      BY <2>1
    <2>2. CASE u # t
      BY <2>2 DEF ScopesInv
    <2> QED
      BY <2>1, <2>2
  <1> QED
    BY <1>1 DEF ScopesInv

LEMMA ScopeOfCall == \A frame : HasOwnScope(frame) <=> Own(limiter.Kind, frame)
  BY DEF HasOwnScope, Own

LEMMA ScopeSteps ==
    ASSUME TypeOK, ScopesInv, UNCHANGED limiter, NEW t \in Threads, Scope(t)
    PROVE  ScopesInv'
  <1>1. scopes \in [Threads -> Seq(Seq(AnyField))] /\ context \in Seq(AnyField)
    BY DEF ScopesInv, ScopesOK
  <1>2. frames' = frames /\ frames[t] = <<>>
    BY DEF Scope, OpenScope, EndScope, CaptureScopes
  <1>3. \A chain : OwnScopes(limiter.Kind, frames[t], chain)
    <2>1. Len(frames[t]) = 0
      BY <1>2
    <2> QED
      BY <2>1 DEF OwnScopes
  <1>4. ASSUME NEW chain \in Seq(Seq(AnyField)), scopes' = [scopes EXCEPT ![t] = chain], context' = context
        PROVE  ScopesInv'
    <2>1. ScopesOK'
      BY <1>1, <1>4 DEF ScopesOK
    <2>2. \A u \in Threads \ {t} : scopes'[u] = scopes[u]
      BY <1>1, <1>4
    <2> QED
      BY <1>2, <1>3, <2>1, <2>2, OtherChainsStay
  <1>5. ASSUME NEW from \in {<<>>, context}, NEW fields \in ScopeFields, NEW isCopied \in BOOLEAN,
               OpenScope(t, from, fields, isCopied)
        PROVE  ScopesInv'
    <2>0. <<>> \in Seq(AnyField)
      OBVIOUS
    <2>1. from \in Seq(AnyField) /\ fields \in Seq(AnyField)
      BY <1>1, <2>0, FieldsAssumption
    <2>2. PICK both \in Seq(AnyField) : both = from \o fields
      BY <2>1, ConcatProperties
    <2>3. PICK new \in Seq(AnyField) : new = NewScope(from, fields, isCopied)
      BY <2>0, <2>2 DEF NewScope
    <2>4. PICK chain \in Seq(Seq(AnyField)) : chain = Append(scopes[t], new)
      <3>1. PICK before \in Seq(Seq(AnyField)) : before = scopes[t]
        BY <1>1
      <3> QED
        BY <3>1, AppendProperties
    <2>5. scopes' = [scopes EXCEPT ![t] = chain] /\ context' = context
      BY <1>5, <2>3, <2>4 DEF OpenScope
    <2> QED
      BY <1>4, <2>5
  <1>6. CASE EndScope(t)
    <2>1. PICK chain \in Seq(Seq(AnyField)) : chain = Front(scopes[t])
      <3>1. PICK before \in Seq(Seq(AnyField)) : before = scopes[t] /\ before # <<>>
        BY <1>1, <1>6 DEF EndScope
      <3> QED
        BY <3>1, FrontList
    <2>2. scopes' = [scopes EXCEPT ![t] = chain] /\ context' = context
      BY <1>6, <2>1 DEF EndScope
    <2> QED
      BY <1>4, <2>2
  <1>7. ASSUME NEW isCopied \in BOOLEAN, CaptureScopes(t, isCopied) PROVE ScopesInv'
    <2>1. scopes' = scopes /\ context' = Capture(scopes[t], isCopied)
      BY <1>7 DEF CaptureScopes
    <2>2. PICK chain \in Seq(Seq(AnyField)) : chain = scopes[t]
      BY <1>1
    <2>3. PICK shown \in Seq(AnyField) : shown = ForEachLogField(chain, <<>>)
      BY EntryFieldsShown
    <2>4. Capture(scopes[t], isCopied) \in Seq(AnyField)
      <3>1. <<>> \in Seq(AnyField)
        OBVIOUS
      <3> QED
        BY <2>2, <2>3, <3>1 DEF Capture
    <2>5. ScopesOK'
      BY <1>1, <2>1, <2>4 DEF ScopesOK
    <2> QED
      BY <1>2, <1>3, <2>1, <2>5, OtherChainsStay
  <1> QED
    BY <1>5, <1>6, <1>7 DEF Scope

LEMMA KeepsScopes ==
    ASSUME TypeOK, ScopesInv, UNCHANGED <<limiter, scopes, context>>, NEW t \in Threads, NEW frame,
           Changes(t, frame), frame.refusedCount = Top(t).refusedCount, IsEarly(frame) => IsEarly(Top(t))
    PROVE  ScopesInv'
  <1>1. frames[t] \in Seq(Frame) /\ scopes[t] \in Seq(Seq(AnyField)) /\ OwnScopes(limiter.Kind, frames[t], scopes[t])
    BY DEF TypeOK, ScopesInv, ScopesOK
  <1>2. frames[t] # <<>> /\ frame \in Frame /\ Goes(t, frame)
    BY DEF Changes
  <1>3. PICK fs \in Seq(Frame) : fs = frames[t]
    BY <1>1
  <1>4. Len(fs) > 0 /\ Top(t) = fs[Len(fs)]
    BY <1>2, <1>3 DEF Top
  <1>5. PICK next : next = frames'[t]
    OBVIOUS
  <1>6. /\ Len(next) = Len(fs) /\ \A i \in 1..Len(fs) : next[i] = IF i = Len(fs) THEN frame ELSE fs[i]
        /\ \A u \in Threads \ {t} : frames'[u] = frames[u]
    BY <1>2, <1>3, <1>5, GoesKeeps
  <1>7. PICK chain \in Seq(Seq(AnyField)) : chain = scopes[t]
    BY <1>1
  <1>8. PICK kind : kind = limiter.Kind
    OBVIOUS
  <1>9. OwnScopes(kind, next, chain)
    <2>1. OwnScopes(kind, fs, chain)
      BY <1>1, <1>3, <1>7, <1>8
    <2>2. frame \in Frame /\ frame.refusedCount = fs[Len(fs)].refusedCount /\ (IsEarly(frame) => IsEarly(fs[Len(fs)]))
      BY <1>2, <1>4
    <2> QED
      BY <1>4, <1>6, <2>1, <2>2, OwnStays
  <1>10. ScopesOK'
    BY DEF ScopesInv, ScopesOK
  <1> QED
    BY <1>5, <1>6, <1>7, <1>8, <1>9, <1>10, OtherChainsStay

LEMMA GoesToKeepsScopes ==
    ASSUME TypeOK, ScopesInv, UNCHANGED <<limiter, scopes, context>>, NEW t \in Threads, frames[t] # <<>>,
           NEW pc \in Steps, GoesTo(t, pc), IsEarly(Top(t)) \/ pc \in {"Write", "Report", "Handle", "Done"}
    PROVE  ScopesInv'
  <1>1. PICK frame \in Frame : Changes(t, frame) /\ frame = [Top(t) EXCEPT !.pc = pc] /\ frame.pc = pc
    BY GoesToFrame
  <1>2. PICK top \in Frame : top = Top(t)
    BY InnermostType
  <1>3. frame.refusedCount = top.refusedCount
    BY <1>1, <1>2 DEF Frame
  <1>4. IsEarly(frame) => IsEarly(top)
    BY <1>1, <1>2 DEF IsEarly
  <1> QED
    BY <1>1, <1>2, <1>3, <1>4, KeepsScopes

LEMMA AllowedScopes ==
    ASSUME TypeOK, ScopesInv, NEW t \in Threads, frames[t] # <<>>, IsEarly(Top(t)), NEW count \in Nat, Allowed(t, count)
    PROVE  ScopesInv'
  <1>1. scopes \in [Threads -> Seq(Seq(AnyField))] /\ frames[t] \in Seq(Frame)
        /\ OwnScopes(limiter.Kind, frames[t], scopes[t])
    BY DEF TypeOK, ScopesInv, ScopesOK
  <1>2. PICK top \in Frame : top = Top(t)
    BY InnermostType
  <1>3. PICK frame : frame = [top EXCEPT !.pc = "Write", !.refusedCount = count]
    OBVIOUS
  <1>4. frame \in Frame /\ frame.pc = "Write" /\ frame.refusedCount = count
    BY <1>3 DEF Frame, Steps
  <1>5. /\ Goes(t, frame) /\ limiter' = limiter /\ context' = context
        /\ scopes' = IF HasOwnScope(frame) THEN [scopes EXCEPT ![t] = Append(scopes[t], Suppressed(count))] ELSE scopes
    BY <1>2, <1>3 DEF Allowed
  <1>6. PICK fs \in Seq(Frame) : fs = frames[t]
    BY <1>1
  <1>7. Len(fs) > 0 /\ top = fs[Len(fs)]
    BY <1>2, <1>6 DEF Top
  <1>8. PICK next : next = frames'[t]
    OBVIOUS
  <1>9. /\ Len(next) = Len(fs) /\ \A i \in 1..Len(fs) : next[i] = IF i = Len(fs) THEN frame ELSE fs[i]
        /\ \A u \in Threads \ {t} : frames'[u] = frames[u]
    BY <1>4, <1>5, <1>6, <1>8, GoesKeeps
  <1>10. PICK chain \in Seq(Seq(AnyField)) : chain = scopes[t]
    BY <1>1
  <1>11. PICK kind : kind = limiter.Kind
    OBVIOUS
  <1>12. PICK longer \in Seq(Seq(AnyField)) :
            longer = IF Own(kind, frame) THEN Append(chain, Suppressed(frame.refusedCount)) ELSE chain
    <2>1. PICK own \in Seq(AnyField) : own = Suppressed(count)
      <3>1. PICK field \in AnyField : field = Field("suppressed", count)
        BY FieldType
      <3>2. <<field>> \in Seq(AnyField)
        OBVIOUS
      <3> QED
        BY <3>1, <3>2 DEF Suppressed
    <2>2. Append(chain, own) \in Seq(Seq(AnyField))
      BY AppendProperties
    <2> QED
      BY <1>4, <2>1, <2>2
  <1>13. scopes' = [scopes EXCEPT ![t] = longer]
    <2>1. CASE HasOwnScope(frame)
      BY <1>4, <1>5, <1>10, <1>11, <1>12, <2>1, ScopeOfCall
    <2>2. CASE ~HasOwnScope(frame)
      BY <1>1, <1>5, <1>10, <1>11, <1>12, <2>2, ScopeOfCall
    <2> QED
      BY <2>1, <2>2
  <1>14. scopes'[t] = longer /\ (\A u \in Threads \ {t} : scopes'[u] = scopes[u]) /\ ScopesOK'
    BY <1>1, <1>5, <1>13 DEF ScopesInv, ScopesOK
  <1>15. IsEarly(top) /\ ~IsEarly(frame)
    BY <1>2, <1>4 DEF IsEarly
  <1>16. OwnScopes(kind, next, longer)
    BY <1>1, <1>4, <1>6, <1>7, <1>9, <1>10, <1>11, <1>12, <1>15, OwnAllowed
  <1> QED
    BY <1>5, <1>8, <1>9, <1>11, <1>14, <1>16, OtherChainsStay

LEMMA CallScopes ==
    ASSUME TypeOK, HandlerNotReentered, ScopesInv, NEW t \in Threads, Call(t)
    PROVE  ScopesInv'
  <1>1. frames \in [Threads -> Seq(Frame)] /\ scopes[t] \in Seq(Seq(AnyField))
        /\ OwnScopes(limiter.Kind, frames[t], scopes[t])
    BY DEF TypeOK, ScopesInv, ScopesOK
  <1>2. PICK frame \in Frame : /\ frame.pc = "Load" /\ frame.refusedCount = 0
                               /\ frames' = [frames EXCEPT ![t] = Append(frames[t], frame)]
    <2> DEFINE begun == [pc |-> "Load", now |-> clock, nextAllowed |-> MinTicks, before |-> 0,
                         refusedCount |-> 0, kind |-> CHOOSE k \in Kinds : TRUE, isWritten |-> FALSE]
    <2>1. (CHOOSE k \in Kinds : TRUE) \in Kinds
      BY ReportAssumption
    <2>2. clock \in MinTicks..MaxTicks /\ MinTicks \in MinTicks..MaxTicks
      BY ClockAssumption DEF TypeOK
    <2>3. begun \in Frame
      BY <2>1, <2>2 DEF Frame, Steps
    <2> QED
      BY <2>3 DEF Call
  <1>3. PICK fs \in Seq(Frame) : fs = frames[t]
    BY <1>1
  <1>4. PICK next : next = Append(fs, frame)
    OBVIOUS
  <1>5. Len(next) = Len(fs) + 1 /\ next[Len(fs) + 1] = frame /\ \A i \in 1..Len(fs) : next[i] = fs[i]
    BY <1>4
  <1>6. frames'[t] = next /\ \A u \in Threads \ {t} : frames'[u] = frames[u]
    BY <1>1, <1>2, <1>3, <1>4
  <1>7. PICK chain \in Seq(Seq(AnyField)) : chain = scopes[t]
    BY <1>1
  <1>8. PICK kind : kind = limiter.Kind
    OBVIOUS
  <1>9. Len(fs) = 0 \/ (Len(fs) = 1 /\ fs[1].pc = "Handle")
    <2>1. fs = <<>> \/ (Len(fs) > 0 /\ fs[Len(fs)].pc = "Handle")
      BY <1>3 DEF Call, At, Top
    <2>2. Len(fs) <= 2 /\ \A i \in 1..Len(fs) - 1 : fs[i].pc = "Handle"
      BY <1>1, <1>3 DEF OwnScopes
    <2>3. Len(fs) # 2
      <3> SUFFICES ASSUME Len(fs) = 2 PROVE FALSE
        OBVIOUS
      <3>1. 1 \in 1..2 /\ 2 \in 1..2 /\ 1 \in 1..(2 - 1) /\ Len(<<>>) = 0
        OBVIOUS
      <3>2. fs[2].pc = "Handle"
        BY <2>1, <3>1
      <3>3. \A i \in 1..(2 - 1) : fs[i].pc = "Handle"
        BY <2>2
      <3>4. fs[1].pc = "Handle"
        BY <3>1, <3>3
      <3> QED
        BY <1>3, <3>1, <3>2, <3>4 DEF HandlerNotReentered
    <2>4. Len(fs) \in Nat /\ Len(<<>>) = 0
      OBVIOUS
    <2>5. PICK k \in Nat : k = Len(fs) /\ k <= 2 /\ k # 2
      BY <2>2, <2>3, <2>4
    <2>6. k = 0 \/ k = 1
      BY <2>5
    <2> QED
      BY <2>1, <2>4, <2>5, <2>6
  <1>10. OwnScopes(kind, next, chain)
    BY <1>1, <1>2, <1>3, <1>5, <1>7, <1>8, <1>9, OwnBegins
  <1>11. UNCHANGED <<limiter, scopes, context>>
    BY DEF Call, scopeVars
  <1>12. ScopesOK'
    BY <1>11 DEF ScopesInv, ScopesOK
  <1> QED
    BY <1>6, <1>7, <1>8, <1>10, <1>11, <1>12, OtherChainsStay

LEMMA ReturnScopes ==
    ASSUME TypeOK, ScopesInv, NEW t \in Threads, Return(t)
    PROVE  ScopesInv'
  <1>1. frames \in [Threads -> Seq(Frame)] /\ scopes \in [Threads -> Seq(Seq(AnyField))]
        /\ OwnScopes(limiter.Kind, frames[t], scopes[t])
    BY DEF TypeOK, ScopesInv, ScopesOK
  <1>2. PICK fs \in Seq(Frame) : fs = frames[t] /\ Len(fs) \in Nat \ {0} /\ Top(t) = fs[Len(fs)]
    BY <1>1, InnermostType DEF Return, At, Top
  <1>3. PICK next \in Seq(Frame) : /\ next = Front(fs) /\ Len(next) = Len(fs) - 1
                                   /\ \A i \in 1..Len(fs) - 1 : next[i] = fs[i]
    <2>1. fs # <<>>
      BY <1>2
    <2> QED
      BY <2>1, FrontList
  <1>4. frames'[t] = next /\ \A u \in Threads \ {t} : frames'[u] = frames[u]
    BY <1>1, <1>2, <1>3 DEF Return
  <1>5. PICK chain \in Seq(Seq(AnyField)) : chain = scopes[t]
    BY <1>1
  <1>6. PICK kind : kind = limiter.Kind
    OBVIOUS
  <1>7. PICK shorter \in Seq(Seq(AnyField)) :
           /\ scopes' = [scopes EXCEPT ![t] = shorter]
           /\ IF Own(kind, fs[Len(fs)])
              THEN Len(shorter) = Len(chain) - 1 /\ \A i \in 1..Len(chain) - 1 : shorter[i] = chain[i]
              ELSE shorter = chain
    <2>1. CASE Own(kind, fs[Len(fs)])
      <3>1. HasOwnScope(Top(t))
        BY <1>2, <1>6, <2>1, ScopeOfCall
      <3>2. Len(chain) \in Nat \ {0}
        <4>1. Len(fs) \in 1..Len(fs)
          BY <1>2
        <4>2. OwnScopeAt(chain, Len(chain), fs[Len(fs)])
          BY <1>1, <1>2, <1>5, <1>6, <2>1, <4>1 DEF OwnScopes
        <4> QED
          BY <4>2 DEF OwnScopeAt
      <3>3. PICK shorter \in Seq(Seq(AnyField)) :
               /\ shorter = Front(chain) /\ Len(shorter) = Len(chain) - 1
               /\ \A i \in 1..Len(chain) - 1 : shorter[i] = chain[i]
        <4>1. chain # <<>>
          BY <3>2
        <4> QED
          BY <4>1, FrontList
      <3>4. scopes' = [scopes EXCEPT ![t] = shorter]
        BY <1>5, <3>1, <3>3 DEF Return
      <3> QED
        BY <2>1, <3>3, <3>4
    <2>2. CASE ~Own(kind, fs[Len(fs)])
      <3>1. scopes' = scopes
        BY <1>2, <1>6, <2>2, ScopeOfCall DEF Return
      <3>2. scopes' = [scopes EXCEPT ![t] = chain]
        BY <1>1, <1>5, <3>1
      <3> QED
        BY <2>2, <3>2
    <2> QED
      BY <2>1, <2>2
  <1>8. OwnScopes(kind, next, shorter)
    <2>1. OwnScopes(kind, fs, chain) /\ Len(fs) > 0
      BY <1>1, <1>2, <1>5, <1>6
    <2> QED
      BY <1>3, <1>7, <2>1, OwnEnds
  <1>9. UNCHANGED <<limiter, context>>
    BY DEF Return
  <1>10. scopes'[t] = shorter /\ (\A u \in Threads \ {t} : scopes'[u] = scopes[u]) /\ ScopesOK'
    BY <1>1, <1>7, <1>9 DEF ScopesInv, ScopesOK
  <1> QED
    BY <1>4, <1>6, <1>8, <1>9, <1>10, OtherChainsStay

LEMMA LimiterScopes ==
    ASSUME TypeOK, ScopesInv, NEW t \in Threads,
           \/ LoadOnce(t) \/ ExchangeOnce(t) \/ CountCall(t) \/ AllowAlways(t)
           \/ LoadNextAllowed(t) \/ MoveNextAllowed(t) \/ Refuse(t) \/ TakeRefused(t)
    PROVE  ScopesInv'
  <1>1. frames[t] # <<>> /\ IsEarly(Top(t))
    BY DEF LoadOnce, ExchangeOnce, CountCall, AllowAlways, LoadNextAllowed, MoveNextAllowed,
           Refuse, TakeRefused, At, IsEarly
  <1>2. limiter.N \in Nat \ {0} /\ m_RefusedCount \in Nat
    BY LimiterAssumption DEF TypeOK, Limiter
  <1>3. CASE Refused(t)
    <2>1. GoesTo(t, "Done") /\ UNCHANGED <<limiter, scopes, context>> /\ "Done" \in Steps
      BY <1>3 DEF Refused, scopeVars, Steps
    <2> QED
      BY <1>1, <2>1, GoesToKeepsScopes
  <1>4. ASSUME NEW pc \in {"Exchange", "Take", "Refuse"}, GoesTo(t, pc), UNCHANGED <<limiter, scopeVars>>
        PROVE  ScopesInv'
    <2>1. pc \in Steps /\ UNCHANGED <<limiter, scopes, context>>
      BY <1>4 DEF Steps, scopeVars
    <2> QED
      BY <1>1, <1>4, <2>1, GoesToKeepsScopes
  <1>5. LoadOnce(t) => (GoesTo(t, "Exchange") /\ UNCHANGED <<limiter, scopeVars>>) \/ Refused(t)
    BY DEF LoadOnce
  <1>6. ExchangeOnce(t) => Allowed(t, 0) \/ Refused(t)
    BY DEF ExchangeOnce
  <1>7. CountCall(t) => Refused(t) \/ \E count \in Nat : Allowed(t, count)
    <2>1. (IF m_CallCount > 0 THEN limiter.N - 1 ELSE 0) \in Nat
      BY <1>2
    <2> QED
      BY <2>1 DEF CountCall
  <1>8. CASE LoadNextAllowed(t)
    <2>1. PICK top \in Frame : top = Top(t)
      BY <1>1, InnermostType
    <2>2. PICK loaded : loaded = [top EXCEPT !.nextAllowed = m_NextAllowedTicks, !.before = allowed]
      OBVIOUS
    <2>3. loaded \in Frame /\ loaded.refusedCount = top.refusedCount
      BY <2>2 DEF Frame, TypeOK
    <2>4. PICK pc \in Steps : pc = IF loaded.now < loaded.nextAllowed THEN "Refuse" ELSE "Exchange"
      BY DEF Steps
    <2>5. PICK frame : frame = [loaded EXCEPT !.pc = pc]
      OBVIOUS
    <2>6. frame \in Frame /\ frame.refusedCount = top.refusedCount
      BY <2>3, <2>4, <2>5 DEF Frame
    <2>7. Goes(t, frame) /\ UNCHANGED <<limiter, scopes, context>>
      BY <1>8, <2>1, <2>2, <2>4, <2>5 DEF LoadNextAllowed, scopeVars
    <2> QED
      BY <1>1, <2>1, <2>6, <2>7, KeepsScopes DEF Changes
  <1>9. MoveNextAllowed(t) =>
           \E pc \in {"Take", "Refuse"} : GoesTo(t, pc) /\ UNCHANGED <<limiter, scopeVars>>
    BY DEF MoveNextAllowed
  <1> QED
    BY <1>1, <1>2, <1>3, <1>4, <1>5, <1>6, <1>7, <1>8, <1>9, AllowedScopes DEF AllowAlways, Refuse, TakeRefused

LEMMA EntryScopes ==
    ASSUME TypeOK, ScopesInv, NEW t \in Threads,
           Write(t) \/ HandlerReturns(t) \/ \E now \in Times : ReportError(t, now)
    PROVE  ScopesInv'
  <1>1. frames[t] # <<>> /\ UNCHANGED <<limiter, scopeVars>>
    <2>1. CASE Write(t)
      <3>1. UNCHANGED <<limiter, scopeVars>> /\ At(t, "Write")
        BY <2>1, Zenon DEF Write
      <3> QED
        BY <3>1 DEF At
    <2>2. CASE HandlerReturns(t)
      BY <2>2 DEF HandlerReturns, At
    <2>3. CASE \E now \in Times : ReportError(t, now)
      BY <2>3 DEF ReportError, At
    <2> QED
      BY <2>1, <2>2, <2>3
  <1>2. UNCHANGED <<limiter, scopes, context>>
    BY <1>1 DEF scopeVars
  <1>3. ASSUME NEW pc \in {"Done", "Handle"}, GoesTo(t, pc) PROVE ScopesInv'
    <2>1. pc \in Steps
      BY DEF Steps
    <2> QED
      BY <1>1, <1>2, <1>3, <2>1, GoesToKeepsScopes
  <1>4. PICK top \in Frame : top = Top(t)
    BY <1>1, InnermostType
  <1>5. ASSUME NEW frame \in Frame, Goes(t, frame), frame.refusedCount = top.refusedCount,
               frame.pc \in {"Done", "Report"}
        PROVE  ScopesInv'
    <2>1. ~IsEarly(frame)
      BY <1>5 DEF IsEarly
    <2> QED
      BY <1>1, <1>2, <1>4, <1>5, <2>1, KeepsScopes DEF Changes
  <1>6. CASE Write(t)
    <2>1. PICK written : written = [top EXCEPT !.pc = "Done", !.isWritten = TRUE]
      OBVIOUS
    <2>2. written \in Frame /\ written.pc = "Done" /\ written.refusedCount = top.refusedCount
      BY <2>1 DEF Frame, Steps
    <2>3. ASSUME NEW kind \in Kinds, Goes(t, [top EXCEPT !.pc = "Report", !.kind = kind]) PROVE ScopesInv'
      <3>1. PICK failed : failed = [top EXCEPT !.pc = "Report", !.kind = kind]
        OBVIOUS
      <3>2. failed \in Frame /\ failed.pc = "Report" /\ failed.refusedCount = top.refusedCount
        BY <3>1 DEF Frame, Steps
      <3> QED
        BY <1>5, <2>3, <3>1, <3>2
    <2>4. \/ GoesTo(t, "Done") \/ Goes(t, written)
          \/ \E kind \in Kinds : Goes(t, [top EXCEPT !.pc = "Report", !.kind = kind])
      BY <1>4, <1>6, <2>1 DEF Write
    <2> QED
      BY <1>3, <1>5, <2>2, <2>3, <2>4
  <1>7. CASE HandlerReturns(t)
    BY <1>3, <1>7 DEF HandlerReturns
  <1>8. ASSUME NEW now \in Times, ReportError(t, now) PROVE ScopesInv'
    <2>1. GoesTo(t, "Done") \/ GoesTo(t, "Handle")
      BY <1>8 DEF ReportError
    <2> QED
      BY <1>3, <2>1
  <1> QED
    BY <1>6, <1>7, <1>8

LEMMA NextScopes ==
    ASSUME TypeOK, HandlerNotReentered, ScopesInv, [Next]_vars
    PROVE  ScopesInv'
  <1>1. UNCHANGED limiter
    BY LimiterMoves
  <1>2. ASSUME NEW t \in Threads, Step(t) PROVE ScopesInv'
    BY <1>2, CallScopes, LimiterScopes, EntryScopes, ReturnScopes DEF Step
  <1>3. ASSUME UNCHANGED <<frames, scopes, context>> PROVE ScopesInv'
    BY <1>1, <1>3 DEF ScopesInv, ScopesOK
  <1>4. Tick \/ SetLevel \/ UNCHANGED vars => UNCHANGED <<frames, scopes, context>>
    BY DEF Tick, SetLevel, vars, scopeVars
  <1> QED
    BY <1>1, <1>2, <1>3, <1>4, ScopeSteps DEF Next

LEMMA FieldsTell ==
    ASSUME TypeOK, ScopesInv, NEW t \in Threads, At(t, "Done"), HasOwnScope(Top(t))
    PROVE  FindField(EntryFields(t), "suppressed") = Top(t).refusedCount
  <1>1. frames[t] # <<>> /\ OwnScopes(limiter.Kind, frames[t], scopes[t])
    BY DEF At, ScopesInv
  <1>2. PICK fs \in Seq(Frame) : fs = frames[t] /\ Len(fs) \in 1..Len(fs) /\ Top(t) = fs[Len(fs)]
    <2>1. frames[t] \in Seq(Frame) /\ Len(frames[t]) \in Nat \ {0}
      BY <1>1, InnermostType DEF TypeOK
    <2> QED
      BY <2>1 DEF Top
  <1>3. PICK chain \in Seq(Seq(AnyField)) : chain = scopes[t]
    BY DEF ScopesInv, ScopesOK
  <1>4. PICK count \in Nat : count = Top(t).refusedCount
    BY <1>1, InnermostType DEF Frame
  <1>5. OwnScopeAt(chain, Len(chain), fs[Len(fs)])
    BY <1>1, <1>2, <1>3, ScopeOfCall DEF OwnScopes
  <1>6. Len(chain) > 0 /\ chain[Len(chain)] = Suppressed(count)
    BY <1>2, <1>4, <1>5 DEF OwnScopeAt
  <1> QED
    BY <1>3, <1>4, <1>6, InnermostShown DEF EntryFields

\* Each refused call is told of exactly once, and the "suppressed" field of an entry is
\* the count its own call was told, for any threads, limiter and clock, whatever
\* scopes and fields of that name the thread is in, and whatever a handler of a failed
\* write logs at the same place (ASWLOG_EVERY_INTERVAL(), ForEachLogField()).
THEOREM RefusedToldOnceHolds == Spec => []RefusedToldOnce
  <1>1. Init => TypeOK /\ FramesInv /\ ReportsInv /\ ScopesInv
    <2>1. ASSUME Init PROVE ScopesInv
      <3>1. <<>> \in Seq(AnyField) /\ <<>> \in Seq(Seq(AnyField)) /\ Len(<<>>) = 0
        OBVIOUS
      <3>2. ScopesOK
        BY <2>1, <3>1 DEF Init, ScopesOK
      <3>3. \A kind, chain : OwnScopes(kind, <<>>, chain)
        BY <3>1 DEF OwnScopes
      <3> QED
        BY <2>1, <3>2, <3>3 DEF Init, ScopesInv
    <2>2. Init => FramesInv /\ HandlerNotReentered /\ HandlingIsMarked /\ CountedOnce
      BY DEF Init, FramesInv, HandlerNotReentered, HandlingIsMarked, CountedOnce
    <2> QED
      BY <2>1, <2>2, InitType DEF ReportsInv
  <1>2. TypeOK /\ FramesInv /\ ReportsInv /\ ScopesInv /\ [Next]_vars =>
           TypeOK' /\ FramesInv' /\ ReportsInv' /\ ScopesInv'
    BY NextType, NextFrames, NextReports, NextScopes DEF ReportsInv
  <1>3. TypeOK /\ ScopesInv /\ ToldOnce => RefusedToldOnce
    BY FieldsTell DEF RefusedToldOnce
  <1> QED
    BY <1>1, <1>2, <1>3, RefusedAreToldOnce, PTL DEF Spec
=============================================================================
