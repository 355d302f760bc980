-------------------------- MODULE Backtrace_proofs --------------------------
(***************************************************************************)
(* Theorems of Backtrace, for any threads, levels, configs and bounds.     *)
(***************************************************************************)
EXTENDS Backtrace, FiniteSetTheorems, SequenceTheorems, TLAPS

----------------------------------------------------------------------------
(* The ring *)

(***************************************************************************)
(* What std::rotate() leaves: every element, oldest first.                 *)
(***************************************************************************)
LEMMA RotatedElements ==
    ASSUME NEW S, NEW s \in Seq(S), NEW o \in 0..Len(s)
    PROVE  /\ Rotated(s, o) \in Seq(S)
           /\ Len(Rotated(s, o)) = Len(s)
           /\ \A i \in 1..Len(s) :
                 Rotated(s, o)[i] = IF i <= Len(s) - o THEN s[i + o] ELSE s[i - (Len(s) - o)]
  <1> DEFINE old == SubSeq(s, o + 1, Len(s))
             new == SubSeq(s, 1, o)
  <1>1. Len(s) \in Nat /\ o \in Nat /\ o <= Len(s)
    OBVIOUS
  <1>2. old \in Seq(S) /\ Len(old) = Len(s) - o /\ \A i \in 1..(Len(s) - o) : old[i] = s[i + o]
    BY <1>1
  <1>3. new \in Seq(S) /\ Len(new) = o /\ \A i \in 1..o : new[i] = s[i]
    BY <1>1
  <1>4. Rotated(s, o) = old \o new
    BY DEF Rotated
  <1> HIDE DEF old, new
  <1>5. /\ old \o new \in Seq(S)
        /\ Len(old \o new) = Len(old) + Len(new)
        /\ \A i \in 1..(Len(old) + Len(new)) :
              (old \o new)[i] = IF i <= Len(old) THEN old[i] ELSE new[i - Len(old)]
    BY <1>2, <1>3, ConcatProperties, Zenon
  <1>6. Len(old) + Len(new) = Len(s)
    BY <1>1, <1>2, <1>3
  <1>7. ASSUME NEW i \in 1..Len(s)
        PROVE  (old \o new)[i] = IF i <= Len(s) - o THEN s[i + o] ELSE s[i - (Len(s) - o)]
    <2>1. CASE i <= Len(s) - o
      BY <2>1, <1>1, <1>2, <1>5, <1>6
    <2>2. CASE i > Len(s) - o
      <3>1. i - (Len(s) - o) \in 1..o
        BY <2>2, <1>1
      <3>2. (old \o new)[i] = new[i - (Len(s) - o)]
        BY <2>2, <1>1, <1>2, <1>5, <1>6
      <3>3. new[i - (Len(s) - o)] = s[i - (Len(s) - o)]
        BY <3>1, <1>3
      <3>4. ~(i <= Len(s) - o)
        BY <2>2, <1>1
      <3>5. QED
        BY <3>2, <3>3, <3>4, Zenon
    <2>3. i <= Len(s) - o \/ i > Len(s) - o
      BY <1>1
    <2>4. QED
      BY <2>1, <2>2, <2>3, Zenon
  <1>8. QED
    BY <1>4, <1>5, <1>6, <1>7

(***************************************************************************)
(* Turned by nothing, a sequence is the same.                              *)
(***************************************************************************)
LEMMA RotatedByNone ==
    ASSUME NEW S, NEW s \in Seq(S)
    PROVE  Rotated(s, 0) = s
  <1>1. 0 \in 0..Len(s)
    OBVIOUS
  <1>2. /\ Rotated(s, 0) \in Seq(S)
        /\ Len(Rotated(s, 0)) = Len(s)
        /\ \A i \in 1..Len(s) : Rotated(s, 0)[i] = s[i]
    BY <1>1, RotatedElements
  <1>3. QED
    BY <1>2, SeqEqual

(***************************************************************************)
(* NewestOf() leaves the last elements, at most as many as may stay.       *)
(***************************************************************************)
LEMMA NewestElements ==
    ASSUME NEW S, NEW s \in Seq(S), NEW size \in Nat
    PROVE  /\ NewestOf(s, size) \in Seq(S)
           /\ Len(NewestOf(s, size)) <= size
           /\ Len(s) <= size => NewestOf(s, size) = s
  BY DEF NewestOf


----------------------------------------------------------------------------
(* Type correctness *)

(***************************************************************************)
(* The two halves of m_Levels keep their values when packed.               *)
(***************************************************************************)
LevelsType == [gate : Level, minimum : Level, backtrace : Level]

LEMMA PackType ==
    ASSUME NEW m \in Level, NEW l \in Level
    PROVE  /\ Pack(m, l) \in LevelsType
           /\ Pack(m, l).minimum = m /\ Pack(m, l).backtrace = l
  BY DEF Pack, LevelsType

LEMMA ConfigType ==
    ASSUME NEW config \in Configs
    PROVE  /\ CapacityOf(config) \in Nat /\ BacktraceLevelOf(config) \in Level
           /\ config.DumpAtLevel \in Level
           /\ CapacityOf(config) = 0 <=> BacktraceLevelOf(config) = Off
  <1>1. config \in Config /\ Off \in Level
    BY ConfigsAssumption, LevelAssumption DEF Level
  <1>2. config.Capacity \in Nat /\ config.LowestLevel \in Level /\ config.DumpAtLevel \in Level
    BY <1>1 DEF Config
  <1>3. QED
    BY <1>1, <1>2 DEF CapacityOf, BacktraceLevelOf, IsOn

LEMMA MarkerType == ASSUME NEW t \in Thread PROVE Marker(t) \in Record
  BY LevelAssumption DEF Marker, Record, Level

(***************************************************************************)
(* The parts of the type invariant: the ring, the gate, the threads.       *)
(***************************************************************************)
RingOK ==
    /\ m_HasBacktrace \in BOOLEAN
    /\ m_Backtrace \in Seq(Record)
    /\ m_BacktraceCapacity \in Nat /\ m_BacktraceOldest \in Nat
    /\ Len(m_Backtrace) <= m_BacktraceCapacity
    /\ m_BacktraceOldest # 0 => m_BacktraceOldest < Len(m_Backtrace)
                                 /\ Len(m_Backtrace) = m_BacktraceCapacity
    /\ m_HasBacktrace <=> m_Backtrace # <<>>

GateOK ==
    /\ m_Levels \in LevelsType
    /\ m_IsEnabled \in BOOLEAN /\ m_BacktraceDumpLevel \in Level
    /\ newLevel \in [Thread -> Level] /\ newConfig \in [Thread -> Configs]
    /\ levels \in [Thread -> LevelsType]

CallsOK ==
    /\ pc \in [Thread -> Place]
    /\ record \in [Thread -> Record]
    /\ entries \in [Thread -> Seq(Record)]
    /\ calls \in [Thread -> Nat]
    /\ written \in Seq(Record)

LEMMA TypeParts == TypeOK <=> RingOK /\ GateOK /\ CallsOK
  BY DEF TypeOK, RingOK, GateOK, CallsOK, LevelsType

LEMMA InitType == Init => TypeOK
  <1> SUFFICES ASSUME Init PROVE RingOK /\ GateOK /\ CallsOK
    BY TypeParts
  <1>1. PICK config \in Configs, minimumLevel \in Level :
          /\ newConfig = [t \in Thread |-> config]
          /\ m_BacktraceCapacity = CapacityOf(config)
          /\ m_BacktraceDumpLevel = config.DumpAtLevel
          /\ m_Levels = Pack(minimumLevel, BacktraceLevelOf(config))
    BY DEF Init
  <1>2. CapacityOf(config) \in Nat /\ BacktraceLevelOf(config) \in Level
        /\ config.DumpAtLevel \in Level
    BY ConfigType
  <1>3. 0 \in Level
    BY LevelAssumption DEF Level
  <1>4. RingOK
    <2>1. /\ m_Backtrace = <<>> /\ m_BacktraceOldest = 0
          /\ m_BacktraceCapacity \in Nat
      BY <1>1, <1>2 DEF Init
    <2>2. m_HasBacktrace \in BOOLEAN /\ (m_HasBacktrace <=> m_Backtrace # <<>>)
      BY Zenon DEF Init
    <2>3. QED
      BY <2>1, <2>2 DEF RingOK
  <1>5. GateOK
    BY <1>1, <1>2, <1>3, PackType DEF Init, GateOK
  <1>6. CallsOK
    BY MarkerType DEF Init, CallsOK, Place
  <1>7. QED
    BY <1>4, <1>5, <1>6

(***************************************************************************)
(* The ring keeps its shape.                                               *)
(***************************************************************************)
LEMMA RingStep ==
    ASSUME TypeOK, Next
    PROVE  RingOK'
  <1> USE TypeParts
  <1>1. RingOK /\ GateOK /\ CallsOK
    OBVIOUS
  <1>2. ASSUME UNCHANGED ringVars PROVE RingOK'
    BY <1>1, <1>2 DEF RingOK, ringVars
  <1>3. ASSUME NEW t \in Thread, KeepInBacktrace(t) PROVE RingOK'
    <2>1. record[t] \in Record
      BY <1>1 DEF CallsOK
    <2>2. CASE m_BacktraceCapacity = 0
      BY <2>2, <1>3, <1>2 DEF KeepInBacktrace
    <2>3. CASE m_BacktraceCapacity # 0 /\ Len(m_Backtrace) < m_BacktraceCapacity
      BY <2>1, <2>3, <1>1, <1>3 DEF KeepInBacktrace, RingOK
    <2>4. CASE m_BacktraceCapacity # 0 /\ ~(Len(m_Backtrace) < m_BacktraceCapacity)
      <3>1. /\ m_Backtrace' = [m_Backtrace EXCEPT ![m_BacktraceOldest + 1] = record[t]]
            /\ m_BacktraceOldest' = (m_BacktraceOldest + 1) % m_BacktraceCapacity
            /\ m_HasBacktrace' = TRUE
            /\ m_BacktraceCapacity' = m_BacktraceCapacity
        BY <2>4, <1>3 DEF KeepInBacktrace
      <3>2. Len(m_Backtrace) = m_BacktraceCapacity /\ m_BacktraceCapacity \in Nat \ {0}
        BY <2>4, <1>1 DEF RingOK
      <3>3. m_Backtrace' \in Seq(Record) /\ Len(m_Backtrace') = Len(m_Backtrace)
        <4>1. m_BacktraceOldest + 1 \in 1..Len(m_Backtrace)
          BY <3>2, <1>1 DEF RingOK
        <4>2. m_Backtrace \in Seq(Record)
          BY <1>1 DEF RingOK
        <4>3. QED
          BY <2>1, <3>1, <4>1, <4>2, ExceptSeq
      <3>4. m_BacktraceOldest' \in 0..(m_BacktraceCapacity - 1)
        BY <3>1, <3>2, <1>1 DEF RingOK
      <3>5. m_Backtrace' # <<>>
        BY <3>2, <3>3
      <3>6. QED
        BY <3>1, <3>2, <3>3, <3>4, <3>5 DEF RingOK
    <2>5. QED
      BY <2>2, <2>3, <2>4
  <1>4. ASSUME NEW t \in Thread, TakeBacktrace(t) PROVE RingOK'
    <2>1. /\ m_Backtrace' = <<>> /\ m_BacktraceOldest' = 0
          /\ m_BacktraceCapacity' = m_BacktraceCapacity
      BY <1>4 DEF TakeBacktrace, LeftInRing
    <2>2. m_HasBacktrace' \in BOOLEAN /\ (m_HasBacktrace' <=> m_Backtrace' # <<>>)
      BY <1>4, <2>1, Zenon DEF TakeBacktrace
    <2>3. QED
      BY <2>1, <2>2, <1>1 DEF RingOK
  <1>5. ASSUME NEW t \in Thread, ResizeBacktrace(t) PROVE RingOK'
    <2> DEFINE size == CapacityOf(newConfig[t])
               turned == IF MustRotate(size) THEN Rotated(m_Backtrace, m_BacktraceOldest)
                         ELSE m_Backtrace
    <2>1. size \in Nat
      BY <1>1, ConfigType DEF GateOK
    <2>2. m_BacktraceOldest \in 0..Len(m_Backtrace)
      BY <1>1 DEF RingOK
    <2>3. turned \in Seq(Record) /\ Len(turned) = Len(m_Backtrace)
      BY <2>2, <1>1, RotatedElements DEF RingOK
    <2>4. /\ m_Backtrace' = NewestOf(turned, size)
          /\ m_BacktraceOldest' = IF MustRotate(size) THEN 0 ELSE m_BacktraceOldest
          /\ m_BacktraceCapacity' = size
          /\ m_HasBacktrace' = (m_Backtrace' # <<>>)
      BY <1>5 DEF ResizeBacktrace
    <2> HIDE DEF size, turned
    <2>5. m_Backtrace' \in Seq(Record) /\ Len(m_Backtrace') <= size
      BY <2>1, <2>3, <2>4, NewestElements
    <2>6. ASSUME m_BacktraceOldest' # 0
          PROVE  m_BacktraceOldest' < Len(m_Backtrace') /\ Len(m_Backtrace') = size
      <3>1. ~MustRotate(size) /\ m_BacktraceOldest # 0
        BY <2>4, <2>6
      <3>2. size = m_BacktraceCapacity /\ Len(m_Backtrace) <= size
        BY <3>1, <2>1, <1>1 DEF MustRotate, RingOK
      <3>3. m_Backtrace' = m_Backtrace
        BY <3>1, <3>2, <2>1, <2>4, <1>1, NewestElements DEF turned, RingOK
      <3>4. QED
        BY <3>1, <3>2, <3>3, <2>4, <1>1 DEF RingOK
    <2>7. m_BacktraceOldest' \in Nat
      BY <2>4, <1>1 DEF RingOK
    <2>8. QED
      BY <2>1, <2>4, <2>5, <2>6, <2>7 DEF RingOK
  <1>6. PICK t \in Thread : BeginCall(t) \/ Step(t)
    BY DEF Next
  <1>7. CASE BeginCall(t)
    BY <1>7, <1>2 DEF BeginCall, Write, DumpBacktrace, SetEnabled, SetMinimumLevel, SetConfig, ringVars
  <1>8. CASE Step(t)
    BY <1>8, <1>2, <1>3, <1>4, <1>5
       DEF Step, Enabled, Gate, Route, HasBacktrace, DumpLevel, WriteRecord, Throw,
           ExchangeMinimum, SetDumpLevel, ReadLevels, ExchangeBacktraceLevel
  <1>9. QED
    BY <1>6, <1>7, <1>8

(***************************************************************************)
(* What a compare-exchange leaves in m_Levels is what it wanted or what    *)
(* was there.                                                              *)
(***************************************************************************)
LEMMA CompareExchangeType ==
    ASSUME GateOK, NEW t \in Thread, NEW desired \in LevelsType, CompareExchange(t, desired)
    PROVE  m_Levels' \in LevelsType /\ levels' \in [Thread -> LevelsType]
  <1>1. m_Levels \in LevelsType /\ levels \in [Thread -> LevelsType]
    BY DEF GateOK
  <1>2. QED
    BY <1>1 DEF CompareExchange

LEMMA GateStep ==
    ASSUME TypeOK, Next
    PROVE  GateOK'
  <1>1. GateOK
    BY TypeParts
  <1>2. ASSUME UNCHANGED <<gateVars, newLevel, newConfig, levels>> PROVE GateOK'
    BY <1>1, <1>2 DEF GateOK, gateVars
  <1>3. \A t \in Thread : newLevel[t] \in Level /\ newConfig[t] \in Configs
                          /\ levels[t].minimum \in Level /\ levels[t].backtrace \in Level
    BY <1>1 DEF GateOK, LevelsType
  <1>4. ASSUME NEW t \in Thread, BeginCall(t) PROVE GateOK'
    <2>1. CASE \E level \in Level, forced \in BOOLEAN, category \in CategoryLevels :
                  Write(t, level, forced, category)
      BY <2>1, <1>2 DEF Write
    <2>2. CASE DumpBacktrace(t)
      BY <2>2, <1>2 DEF DumpBacktrace
    <2>3. CASE \E enabled \in BOOLEAN : SetEnabled(t, enabled)
      BY <2>3, <1>1 DEF SetEnabled, GateOK
    <2>4. CASE \E level \in Level : SetMinimumLevel(t, level)
      BY <2>4, <1>1 DEF SetMinimumLevel, GateOK, gateVars
    <2>5. CASE \E config \in Configs : SetConfig(t, config)
      BY <2>5, <1>1 DEF SetConfig, GateOK, gateVars
    <2>6. QED
      BY <1>4, <2>1, <2>2, <2>3, <2>4, <2>5 DEF BeginCall
  <1>5. ASSUME NEW t \in Thread, Step(t) PROVE GateOK'
    <2>1. CASE ExchangeMinimum(t)
      <3>1. Pack(newLevel[t], levels[t].backtrace) \in LevelsType
        BY <1>3, PackType
      <3>2. m_Levels' \in LevelsType /\ levels' \in [Thread -> LevelsType]
        BY <2>1, <3>1, <1>1, CompareExchangeType DEF ExchangeMinimum
      <3>3. UNCHANGED <<m_IsEnabled, m_BacktraceDumpLevel, newLevel, newConfig>>
        BY <2>1 DEF ExchangeMinimum, argVars
      <3>4. QED
        BY <3>2, <3>3, <1>1 DEF GateOK
    <2>2. CASE ExchangeBacktraceLevel(t)
      <3>1. Pack(levels[t].minimum, BacktraceLevelOf(newConfig[t])) \in LevelsType
        BY <1>3, ConfigType, PackType
      <3>2. m_Levels' \in LevelsType /\ levels' \in [Thread -> LevelsType]
        BY <2>2, <3>1, <1>1, CompareExchangeType DEF ExchangeBacktraceLevel
      <3>3. UNCHANGED <<m_IsEnabled, m_BacktraceDumpLevel, newLevel, newConfig>>
        BY <2>2 DEF ExchangeBacktraceLevel, argVars
      <3>4. QED
        BY <3>2, <3>3, <1>1 DEF GateOK
    <2>3. CASE SetDumpLevel(t)
      BY <2>3, <1>1, <1>3, ConfigType DEF SetDumpLevel, GateOK, argVars
    <2>4. CASE ReadLevels(t)
      BY <2>4, <1>1 DEF ReadLevels, GateOK, gateVars, argVars
    <2>5. CASE \/ Enabled(t) \/ Gate(t) \/ Route(t) \/ HasBacktrace(t) \/ DumpLevel(t)
               \/ KeepInBacktrace(t) \/ TakeBacktrace(t) \/ WriteRecord(t) \/ Throw(t)
               \/ ResizeBacktrace(t)
      BY <2>5, <1>2 DEF Enabled, Gate, Route, HasBacktrace, DumpLevel, KeepInBacktrace,
                        TakeBacktrace, WriteRecord, Throw, ResizeBacktrace, argVars
    <2>6. QED
      BY <1>5, <2>1, <2>2, <2>3, <2>4, <2>5 DEF Step
  <1>6. QED
    BY <1>4, <1>5 DEF Next

LEMMA CallsStep ==
    ASSUME TypeOK, Next
    PROVE  CallsOK'
  <1>1. RingOK /\ CallsOK
    BY TypeParts
  <1>2. ASSUME NEW t \in Thread, NEW label \in Place, Goto(t, label)
        PROVE  pc' \in [Thread -> Place]
    BY <1>1, <1>2 DEF Goto, CallsOK
  <1>3. PICK t \in Thread : BeginCall(t) \/ Step(t)
    BY DEF Next
  <1>4. Marker(t) \in Record
    BY MarkerType
  <1>5. ASSUME MayCall(t), Called(t) PROVE calls' \in [Thread -> Nat]
    BY <1>1, <1>5 DEF Called, CallsOK
  <1>6. CASE BeginCall(t)
    <2>1. ASSUME NEW level \in Level, NEW forced \in BOOLEAN, NEW category \in CategoryLevels,
                 Write(t, level, forced, category)
          PROVE  CallsOK'
      <3>1. [thread |-> t, n |-> calls[t] + 1, level |-> level, forced |-> forced,
             category |-> category] \in Record
        BY <1>1, CategoryAssumption DEF Record, CallsOK
      <3>2. record' \in [Thread -> Record]
        BY <2>1, <3>1, <1>1 DEF Write, CallsOK
      <3>3. pc' \in [Thread -> Place]
        <4>1. Goto(t, "idle") \/ Goto(t, "enabled") \/ Goto(t, "gate")
          BY <2>1 DEF Write
        <4>2. QED
          BY <4>1, <1>2 DEF Place
      <3>4. QED
        BY <2>1, <3>2, <3>3, <1>1, <1>5 DEF Write, CallsOK
    <2>2. CASE DumpBacktrace(t)
      <3>1. record' \in [Thread -> Record]
        BY <2>2, <1>1, <1>4 DEF DumpBacktrace, CallsOK
      <3>2. pc' \in [Thread -> Place]
        <4>1. Goto(t, "idle") \/ Goto(t, "has")
          BY <2>2 DEF DumpBacktrace
        <4>2. QED
          BY <4>1, <1>2 DEF Place
      <3>3. QED
        BY <2>2, <3>1, <3>2, <1>1, <1>5 DEF DumpBacktrace, CallsOK
    <2>3. CASE \E enabled \in BOOLEAN : SetEnabled(t, enabled)
      BY <2>3, <1>1, <1>5 DEF SetEnabled, CallsOK
    <2>4. CASE \E level \in Level : SetMinimumLevel(t, level)
      <3>1. Goto(t, "setMinimum")
        BY <2>4 DEF SetMinimumLevel
      <3>2. pc' \in [Thread -> Place]
        BY <3>1, <1>2 DEF Place
      <3>3. QED
        BY <2>4, <3>2, <1>1, <1>5 DEF SetMinimumLevel, CallsOK
    <2>5. CASE \E config \in Configs : SetConfig(t, config)
      <3>1. Goto(t, "resize")
        BY <2>5 DEF SetConfig
      <3>2. pc' \in [Thread -> Place]
        BY <3>1, <1>2 DEF Place
      <3>3. QED
        BY <2>5, <3>2, <1>1, <1>5 DEF SetConfig, CallsOK
    <2>6. QED
      BY <1>6, <2>1, <2>2, <2>3, <2>4, <2>5 DEF BeginCall
  <1>7. CASE Step(t)
    <2>1. ASSUME UNCHANGED <<record, calls>>, pc' \in [Thread -> Place],
                 entries' \in [Thread -> Seq(Record)], written' \in Seq(Record)
          PROVE  CallsOK'
      BY <2>1, <1>1 DEF CallsOK
    <2>2. entries \in [Thread -> Seq(Record)] /\ written \in Seq(Record)
          /\ pc \in [Thread -> Place] /\ record[t] \in Record
      BY <1>1 DEF CallsOK
    <2>3. CASE \/ Enabled(t) \/ Gate(t) \/ Route(t) \/ HasBacktrace(t) \/ DumpLevel(t)
               \/ KeepInBacktrace(t)
      <3>1. \E label \in Place : Goto(t, label)
        BY <2>3 DEF Enabled, Gate, Route, HasBacktrace, DumpLevel, KeepInBacktrace, Place
      <3>2. UNCHANGED <<record, calls, entries, written>>
        BY <2>3 DEF Enabled, Gate, Route, HasBacktrace, DumpLevel, KeepInBacktrace, argVars
      <3>3. QED
        BY <3>1, <3>2, <2>1, <2>2, <1>2
    <2>4. CASE TakeBacktrace(t)
      <3>1. m_BacktraceOldest \in 0..Len(m_Backtrace) /\ m_Backtrace \in Seq(Record)
        BY <1>1 DEF RingOK
      <3>2. Rotated(m_Backtrace, m_BacktraceOldest) \in Seq(Record)
        BY <3>1, RotatedElements
      <3>3. <<Marker(t)>> \o Rotated(m_Backtrace, m_BacktraceOldest) \o <<Marker(t)>> \in Seq(Record)
        BY <3>2, <1>4
      <3>4. entries' \in [Thread -> Seq(Record)]
        BY <2>4, <3>3, <2>2 DEF TakeBacktrace
      <3>5. Goto(t, "write") /\ UNCHANGED <<record, calls, written>>
        BY <2>4 DEF TakeBacktrace, argVars
      <3>6. QED
        BY <3>4, <3>5, <2>1, <2>2, <1>2 DEF Place
    <2>5. CASE WriteRecord(t)
      <3>1. UNCHANGED <<record, calls>>
        BY <2>5 DEF WriteRecord, argVars
      <3>2. CASE entries[t] # <<>>
        <4>1. Head(entries[t]) \in Record /\ Tail(entries[t]) \in Seq(Record)
          BY <3>2, <2>2
        <4>2. /\ written' = Append(written, Head(entries[t]))
              /\ entries' = [entries EXCEPT ![t] = Tail(@)]
              /\ pc' = pc
          BY <3>2, <2>5 DEF WriteRecord
        <4>3. QED
          BY <3>1, <4>1, <4>2, <2>1, <2>2
      <3>3. CASE entries[t] = <<>>
        <4>1. /\ written' = IF record[t].n > 0 THEN Append(written, record[t]) ELSE written
              /\ Goto(t, "idle") /\ entries' = entries
          BY <3>3, <2>5 DEF WriteRecord
        <4>2. written' \in Seq(Record)
          BY <4>1, <2>2
        <4>3. QED
          BY <3>1, <4>1, <4>2, <2>1, <2>2, <1>2 DEF Place
      <3>4. QED
        BY <3>2, <3>3
    <2>6. CASE Throw(t)
      <3>1. entries' \in [Thread -> Seq(Record)]
        BY <2>6, <2>2 DEF Throw
      <3>2. Goto(t, "idle") /\ UNCHANGED <<record, calls, written>>
        BY <2>6 DEF Throw, argVars
      <3>3. QED
        BY <3>1, <3>2, <2>1, <2>2, <1>2 DEF Place
    <2>7. CASE ExchangeMinimum(t) \/ ExchangeBacktraceLevel(t)
      <3>1. pc' = pc \/ Goto(t, "idle")
        BY <2>7 DEF ExchangeMinimum, ExchangeBacktraceLevel, CompareExchange
      <3>2. UNCHANGED <<record, calls, entries, written>>
        BY <2>7 DEF ExchangeMinimum, ExchangeBacktraceLevel, argVars
      <3>3. QED
        BY <3>1, <3>2, <2>1, <2>2, <1>2 DEF Place
    <2>8. CASE ResizeBacktrace(t) \/ SetDumpLevel(t) \/ ReadLevels(t)
      <3>1. \E label \in Place : Goto(t, label)
        BY <2>8 DEF ResizeBacktrace, SetDumpLevel, ReadLevels, Place
      <3>2. UNCHANGED <<record, calls, entries, written>>
        BY <2>8 DEF ResizeBacktrace, SetDumpLevel, ReadLevels, argVars
      <3>3. QED
        BY <3>1, <3>2, <2>1, <2>2, <1>2
    <2>9. QED
      BY <1>7, <2>3, <2>4, <2>5, <2>6, <2>7, <2>8 DEF Step
  <1>8. QED
    BY <1>3, <1>6, <1>7

LEMMA StutterType == ASSUME TypeOK, UNCHANGED vars PROVE TypeOK'
  BY DEF TypeOK, vars, ringVars, gateVars, argVars

(***************************************************************************)
(* Every variable keeps its type, the ring its shape, and m_HasBacktrace   *)
(* says whether the ring is empty, whatever threads log, dump and change   *)
(* the settings (ASWLog_Base.cpp).                                         *)
(***************************************************************************)
THEOREM TypeCorrect == Spec => []TypeOK
  <1>1. Init => TypeOK
    BY InitType
  <1>2. TypeOK /\ [Next]_vars => TypeOK'
    <2> SUFFICES ASSUME TypeOK, [Next]_vars PROVE TypeOK'
      OBVIOUS
    <2>1. CASE UNCHANGED vars
      BY <2>1, StutterType
    <2>2. CASE Next
      <3>1. RingOK' /\ GateOK' /\ CallsOK'
        BY <2>2, RingStep, GateStep, CallsStep
      <3>2. QED
        BY <3>1 DEF TypeOK, RingOK, GateOK, CallsOK, LevelsType
    <2>3. QED
      BY <2>1, <2>2
  <1>3. QED
    BY <1>1, <1>2, PTL DEF Spec

----------------------------------------------------------------------------
(* The gate matches the ring *)

(***************************************************************************)
(* GateMatchesRing is not inductive: while a config is applied the ring    *)
(* has the new size and the gate the old level.  One thread at a time      *)
(* applies one; from its resize on the ring has the size it wants; and     *)
(* before its resize the gate still matches the ring.                      *)
(***************************************************************************)
Resized(t) == pc[t] \in {"setDumpLevel", "readLevels", "setBacktraceLevel"}

GateInv ==
    /\ \A t, u \in Thread : IsApplying(t) /\ IsApplying(u) => t = u
    /\ \A t \in Thread : Resized(t) => m_BacktraceCapacity = CapacityOf(newConfig[t])
    /\ (\A t \in Thread : ~Resized(t)) => (m_Levels.backtrace = Off <=> m_BacktraceCapacity = 0)

LEMMA GateInvImplies == GateInv => GateMatchesRing
  BY DEF GateInv, GateMatchesRing, IsApplying, Resized

LEMMA InitGateInv == Init => GateInv
  <1> SUFFICES ASSUME Init PROVE GateInv
    OBVIOUS
  <1>1. PICK config \in Configs, minimumLevel \in Level :
          /\ m_BacktraceCapacity = CapacityOf(config)
          /\ m_Levels = Pack(minimumLevel, BacktraceLevelOf(config))
    BY DEF Init
  <1>2. m_Levels.backtrace = Off <=> m_BacktraceCapacity = 0
    BY <1>1, ConfigType, PackType
  <1>3. \A t \in Thread : ~IsApplying(t) /\ ~Resized(t)
    BY DEF Init, IsApplying, Resized
  <1>4. QED
    BY <1>2, <1>3 DEF GateInv

(***************************************************************************)
(* A step of a thread that applies no config, before or after it, changes  *)
(* nothing here unless it changes the backtrace's level or the capacity.   *)
(***************************************************************************)
LEMMA OtherSteps ==
    ASSUME TypeOK, GateInv, NEW t \in Thread, NEW label \in Place,
           ~IsApplying(t), label \notin {"resize", "setDumpLevel", "readLevels", "setBacktraceLevel"},
           pc' = pc \/ Goto(t, label),
           m_Levels'.backtrace = m_Levels.backtrace,
           UNCHANGED <<m_BacktraceCapacity, newConfig>>
    PROVE  GateInv'
  <1>1. pc \in [Thread -> Place]
    BY DEF TypeOK
  <1>2. \A u \in Thread : (IsApplying(u)' <=> IsApplying(u)) /\ (Resized(u)' <=> Resized(u))
    BY <1>1 DEF Goto, IsApplying, Resized
  <1>3. QED
    BY <1>2 DEF GateInv

LEMMA ExchangeMinimumKeeps ==
    ASSUME TypeOK, NEW t \in Thread, ExchangeMinimum(t)
    PROVE  m_Levels'.backtrace = m_Levels.backtrace
  <1>1. newLevel[t] \in Level /\ levels[t].backtrace \in Level
    BY DEF TypeOK
  <1>2. Pack(newLevel[t], levels[t].backtrace).backtrace = levels[t].backtrace
    BY <1>1, PackType
  <1>3. QED
    BY <1>2 DEF ExchangeMinimum, CompareExchange

LEMMA ExchangeBacktraceLevelKeeps ==
    ASSUME TypeOK, NEW t \in Thread, ExchangeBacktraceLevel(t)
    PROVE  m_Levels'.minimum = m_Levels.minimum
  <1>1. levels[t].minimum \in Level /\ newConfig[t] \in Configs
    BY DEF TypeOK
  <1>2. Pack(levels[t].minimum, BacktraceLevelOf(newConfig[t])).minimum = levels[t].minimum
    BY <1>1, PackType, ConfigType
  <1>3. QED
    BY <1>2 DEF ExchangeBacktraceLevel, CompareExchange

LEMMA GateInvStep ==
    ASSUME TypeOK, GateInv, Next
    PROVE  GateInv'
  <1>1. PICK t \in Thread : BeginCall(t) \/ Step(t)
    BY DEF Next
  <1>2. pc \in [Thread -> Place] /\ newConfig \in [Thread -> Configs]
    BY DEF TypeOK
  <1>3. CASE BeginCall(t)
    <2>1. CASE \E level \in Level, forced \in BOOLEAN, category \in CategoryLevels :
                  Write(t, level, forced, category)
      <3>1. \E label \in {"idle", "gate", "enabled"} : Goto(t, label)
        BY <2>1 DEF Write
      <3>2. ~IsApplying(t) /\ UNCHANGED <<m_Levels, m_BacktraceCapacity, newConfig>>
        BY <2>1 DEF Write, MayCall, IsApplying, ringVars, gateVars
      <3>3. QED
        BY <3>1, <3>2, OtherSteps DEF Place
    <2>2. CASE DumpBacktrace(t)
      <3>1. \E label \in {"idle", "has"} : Goto(t, label)
        BY <2>2 DEF DumpBacktrace
      <3>2. ~IsApplying(t) /\ UNCHANGED <<m_Levels, m_BacktraceCapacity, newConfig>>
        BY <2>2 DEF DumpBacktrace, MayCall, IsApplying, ringVars, gateVars
      <3>3. QED
        BY <3>1, <3>2, OtherSteps DEF Place
    <2>3. CASE \E enabled \in BOOLEAN : SetEnabled(t, enabled)
      <3>1. ~IsApplying(t) /\ pc' = pc /\ UNCHANGED <<m_Levels, m_BacktraceCapacity, newConfig>>
        BY <2>3 DEF SetEnabled, MayCall, IsApplying, ringVars
      <3>2. "idle" \in Place
        BY DEF Place
      <3>3. QED
        BY <3>1, <3>2, OtherSteps
    <2>4. CASE \E level \in Level : SetMinimumLevel(t, level)
      <3>1. ~IsApplying(t) /\ Goto(t, "setMinimum")
            /\ UNCHANGED <<m_Levels, m_BacktraceCapacity, newConfig>>
        BY <2>4 DEF SetMinimumLevel, MayCall, IsApplying, ringVars, gateVars
      <3>2. "setMinimum" \in Place
        BY DEF Place
      <3>3. QED
        BY <3>1, <3>2, OtherSteps
    <2>5. CASE \E config \in Configs : SetConfig(t, config)
      <3>1. /\ \A u \in Thread : ~IsApplying(u)
            /\ pc' = [pc EXCEPT ![t] = "resize"]
            /\ UNCHANGED <<m_Levels, m_BacktraceCapacity>>
        BY <2>5 DEF SetConfig, Goto, ringVars, gateVars
      <3>2. \A u \in Thread : ~Resized(u)
        BY <3>1 DEF IsApplying, Resized
      <3>3. \A u \in Thread : ~Resized(u)' /\ (IsApplying(u)' => u = t)
        BY <3>1, <3>2, <1>2 DEF IsApplying, Resized
      <3>4. QED
        BY <3>1, <3>2, <3>3 DEF GateInv
    <2>6. QED
      BY <1>3, <2>1, <2>2, <2>3, <2>4, <2>5 DEF BeginCall
  <1>4. CASE Step(t)
    <2>1. CASE \/ Enabled(t) \/ Gate(t) \/ Route(t) \/ HasBacktrace(t) \/ DumpLevel(t)
               \/ KeepInBacktrace(t) \/ TakeBacktrace(t) \/ WriteRecord(t) \/ Throw(t)
      <3>1. pc' = pc \/ \E label \in {"idle", "enabled", "gate", "route", "keep", "has",
                                     "dumpLevel", "take", "write"} : Goto(t, label)
        BY <2>1 DEF Enabled, Gate, Route, HasBacktrace, DumpLevel, KeepInBacktrace,
                    TakeBacktrace, WriteRecord, Throw
      <3>2. ~IsApplying(t)
        BY <2>1 DEF Enabled, Gate, Route, HasBacktrace, DumpLevel, KeepInBacktrace,
                    TakeBacktrace, WriteRecord, Throw, IsApplying
      <3>3. UNCHANGED <<m_Levels, m_BacktraceCapacity, newConfig>>
        BY <2>1 DEF Enabled, Gate, Route, HasBacktrace, DumpLevel, KeepInBacktrace,
                    TakeBacktrace, WriteRecord, Throw, ringVars, gateVars, argVars
      <3>4. "idle" \in Place
        BY DEF Place
      <3>5. CASE pc' = pc
        BY <3>2, <3>3, <3>4, <3>5, OtherSteps
      <3>6. CASE \E label \in {"idle", "enabled", "gate", "route", "keep", "has",
                               "dumpLevel", "take", "write"} : Goto(t, label)
        BY <3>2, <3>3, <3>6, OtherSteps DEF Place
      <3>7. QED
        BY <3>1, <3>5, <3>6
    <2>2. CASE ExchangeMinimum(t)
      <3>1. pc' = pc \/ Goto(t, "idle")
        BY <2>2 DEF ExchangeMinimum, CompareExchange
      <3>2. ~IsApplying(t) /\ UNCHANGED <<m_BacktraceCapacity, newConfig>>
        BY <2>2 DEF ExchangeMinimum, IsApplying, ringVars, argVars
      <3>3. m_Levels'.backtrace = m_Levels.backtrace
        BY <2>2, ExchangeMinimumKeeps
      <3>4. "idle" \in Place
        BY DEF Place
      <3>5. QED
        BY <3>1, <3>2, <3>3, <3>4, OtherSteps
    <2>3. CASE ResizeBacktrace(t)
      <3>1. /\ IsApplying(t) /\ pc' = [pc EXCEPT ![t] = "setDumpLevel"]
            /\ m_BacktraceCapacity' = CapacityOf(newConfig[t]) /\ newConfig' = newConfig
        BY <2>3 DEF ResizeBacktrace, IsApplying, Goto, argVars
      <3>2. \A u \in Thread : u # t => ~IsApplying(u)
        BY <3>1 DEF GateInv
      <3>3. Resized(t)' /\ \A u \in Thread : u # t => ~IsApplying(u)' /\ ~Resized(u)'
        BY <3>1, <3>2, <1>2 DEF IsApplying, Resized
      <3>4. QED
        BY <3>1, <3>3 DEF GateInv
    <2>4. CASE SetDumpLevel(t) \/ ReadLevels(t)
      <3>1. /\ pc' = [pc EXCEPT ![t] = "readLevels"] \/ pc' = [pc EXCEPT ![t] = "setBacktraceLevel"]
            /\ UNCHANGED <<m_BacktraceCapacity, newConfig>>
            /\ Resized(t)
        BY <2>4 DEF SetDumpLevel, ReadLevels, Resized, Goto, ringVars, argVars
      <3>2. \A u \in Thread : u # t => ~IsApplying(u)
        BY <3>1 DEF GateInv, Resized, IsApplying
      <3>3. Resized(t)' /\ \A u \in Thread : u # t => ~IsApplying(u)' /\ ~Resized(u)'
        BY <3>1, <3>2, <1>2 DEF IsApplying, Resized
      <3>4. QED
        BY <3>1, <3>3 DEF GateInv
    <2>5. CASE ExchangeBacktraceLevel(t)
      <3>1. Resized(t) /\ UNCHANGED <<m_BacktraceCapacity, newConfig>>
        BY <2>5 DEF ExchangeBacktraceLevel, Resized, ringVars, argVars
      <3>2. m_BacktraceCapacity = CapacityOf(newConfig[t]) /\ \A u \in Thread : u # t => ~IsApplying(u)
        BY <3>1 DEF GateInv, Resized, IsApplying
      <3>3. CASE m_Levels' = m_Levels /\ pc' = pc
        BY <3>1, <3>3 DEF GateInv, Resized, IsApplying
      <3>4. CASE /\ m_Levels' = Pack(levels[t].minimum, BacktraceLevelOf(newConfig[t]))
                 /\ pc' = [pc EXCEPT ![t] = "idle"]
        <4>1. m_Levels'.backtrace = BacktraceLevelOf(newConfig[t]) /\ newConfig[t] \in Configs
          BY <3>4, PackType, ConfigType DEF TypeOK
        <4>2. m_Levels'.backtrace = Off <=> m_BacktraceCapacity' = 0
          BY <4>1, <3>1, <3>2, ConfigType
        <4>3. \A u \in Thread : ~IsApplying(u)' /\ ~Resized(u)'
          BY <3>2, <3>4, <1>2 DEF IsApplying, Resized
        <4>4. QED
          BY <4>2, <4>3 DEF GateInv
      <3>5. QED
        BY <2>5, <3>3, <3>4 DEF ExchangeBacktraceLevel, CompareExchange, Goto
    <2>6. QED
      BY <1>4, <2>1, <2>2, <2>3, <2>4, <2>5 DEF Step
  <1>5. QED
    BY <1>1, <1>3, <1>4

(***************************************************************************)
(* Whenever no config is being applied, entries below the minimum level    *)
(* get past the gate exactly if there is a ring for them (m_Levels,        *)
(* ASWLog_Base.h:88-116).                                                  *)
(***************************************************************************)
THEOREM GateMatches == Spec => []GateMatchesRing
  <1>1. Init => GateInv
    BY InitGateInv
  <1>2. TypeOK /\ GateInv /\ [Next]_vars => GateInv'
    <2> SUFFICES ASSUME TypeOK, GateInv, [Next]_vars PROVE GateInv'
      OBVIOUS
    <2>1. CASE UNCHANGED vars
      BY <2>1 DEF GateInv, IsApplying, Resized, vars, ringVars, gateVars, argVars
    <2>2. QED
      BY <2>1, GateInvStep
  <1>3. GateInv => GateMatchesRing
    BY GateInvImplies
  <1>4. QED
    BY <1>1, <1>2, <1>3, TypeCorrect, PTL DEF Spec

(***************************************************************************)
(* No step takes back what another thread set: a change of the minimum     *)
(* level and one of the backtrace's level are never one step (the          *)
(* compare-exchange loops of SetMinimumLevel(), ApplyBacktraceConfig()).   *)
(***************************************************************************)
THEOREM LevelsChangeApart == Spec => OneLevelChanges
  <1> DEFINE Apart == m_Levels'.minimum = m_Levels.minimum \/ m_Levels'.backtrace = m_Levels.backtrace
  <1>1. TypeOK /\ [Next]_vars => [Apart]_vars
    <2> SUFFICES ASSUME TypeOK, Next PROVE Apart
      OBVIOUS
    <2>1. PICK t \in Thread : BeginCall(t) \/ Step(t)
      BY DEF Next
    <2>2. CASE ExchangeMinimum(t)
      BY <2>2, ExchangeMinimumKeeps
    <2>3. CASE ExchangeBacktraceLevel(t)
      BY <2>3, ExchangeBacktraceLevelKeeps
    <2>4. CASE BeginCall(t)
      BY <2>4 DEF BeginCall, Write, DumpBacktrace, SetEnabled, SetMinimumLevel, SetConfig, gateVars
    <2>5. QED
      BY <2>1, <2>2, <2>3, <2>4
         DEF Step, Enabled, Gate, Route, HasBacktrace, DumpLevel, KeepInBacktrace, TakeBacktrace,
             WriteRecord, Throw, ResizeBacktrace, SetDumpLevel, ReadLevels, gateVars
  <1>2. QED
    BY <1>1, TypeCorrect, PTL DEF Spec, OneLevelChanges

----------------------------------------------------------------------------
(* The ring implements NewestEntries *)

(***************************************************************************)
(* A new entry, appended or put in the oldest one's place, ends up after   *)
(* the newest, and the oldest is gone if there was no room.                *)
(***************************************************************************)
LEMMA KeepImplements ==
    ASSUME TypeOK, NEW t \in Thread, KeepInBacktrace(t), m_BacktraceCapacity # 0
    PROVE  Ring!Keep
  <1>1. RingOK /\ record[t] \in Record
    BY TypeParts DEF TypeOK
  <1>2. Kept \in Seq(Record) /\ Len(Kept) = Len(m_Backtrace)
    BY <1>1, RotatedElements DEF RingOK, Kept
  <1>3. SUFFICES Kept' = Ring!Newest(Append(Kept, record[t]), m_BacktraceCapacity)
    <2>1. m_BacktraceCapacity' = m_BacktraceCapacity /\ m_BacktraceCapacity \in Nat \ {0}
      BY <1>1 DEF KeepInBacktrace, RingOK
    <2>2. Append(Kept, record[t]) \in Seq(Record) /\ Len(Append(Kept, record[t])) = Len(Kept) + 1
          /\ Append(Kept, record[t])[Len(Kept) + 1] = record[t]
      BY <1>1, <1>2
    <2>3. Len(Kept) <= m_BacktraceCapacity /\ Len(Kept) \in Nat
      BY <1>1, <1>2 DEF RingOK
    <2>4. Kept' # <<>> /\ Kept'[Len(Kept')] = record[t]
      <3>1. CASE Len(Kept) + 1 <= m_BacktraceCapacity
        <4>1. Kept' = Append(Kept, record[t])
          BY <3>1, <2>1, <2>2, <2>3, <1>3 DEF Ring!Newest
        <4>2. QED
          BY <4>1, <2>2, <2>3
      <3>2. CASE ~(Len(Kept) + 1 <= m_BacktraceCapacity)
        <4>1. Len(Append(Kept, record[t])) > m_BacktraceCapacity
          BY <3>2, <2>1, <2>2, <2>3
        <4>2. Len(Kept) = m_BacktraceCapacity
          BY <3>2, <2>1, <2>3
        <4>3. Kept' = SubSeq(Append(Kept, record[t]), 2, Len(Kept) + 1)
          <5>1. /\ Len(Append(Kept, record[t])) - m_BacktraceCapacity + 1 = 2
                /\ Len(Append(Kept, record[t])) = Len(Kept) + 1
            BY <4>2, <2>1, <2>2
          <5>2. Kept' = SubSeq(Append(Kept, record[t]),
                               Len(Append(Kept, record[t])) - m_BacktraceCapacity + 1,
                               Len(Append(Kept, record[t])))
            BY <4>1, <1>3, Zenon DEF Ring!Newest
          <5>3. QED
            BY <5>1, <5>2, Zenon
        <4>4. Len(Kept') = Len(Kept) /\ Kept'[Len(Kept)] = Append(Kept, record[t])[Len(Kept) + 1]
          BY <4>2, <4>3, <2>1, <2>2, <2>3
        <4>5. QED
          BY <4>2, <4>4, <2>1, <2>2
      <3>3. QED
        BY <3>1, <3>2
    <2>5. QED
      BY <1>1, <1>3, <2>1, <2>4 DEF Ring!Keep
  <1>4. CASE Len(m_Backtrace) < m_BacktraceCapacity
    <2>1. m_BacktraceOldest = 0 /\ m_BacktraceOldest' = 0
          /\ m_Backtrace' = Append(m_Backtrace, record[t])
      BY <1>1, <1>4 DEF KeepInBacktrace, RingOK
    <2>2. Kept = m_Backtrace
      BY <1>1, <2>1, RotatedByNone DEF Kept, RingOK
    <2>3. Append(m_Backtrace, record[t]) \in Seq(Record)
          /\ Len(Append(m_Backtrace, record[t])) = Len(m_Backtrace) + 1
      BY <1>1 DEF RingOK
    <2>4. Kept' = Append(m_Backtrace, record[t])
      BY <2>1, <2>3, RotatedByNone DEF Kept
    <2>5. QED
      BY <1>1, <1>4, <2>2, <2>3, <2>4 DEF Ring!Newest, RingOK
  <1>5. CASE ~(Len(m_Backtrace) < m_BacktraceCapacity)
    <2> DEFINE s == m_Backtrace
               o == m_BacktraceOldest
               n == m_BacktraceCapacity
               both == Append(Kept, record[t])
    <2>1. /\ s' = [s EXCEPT ![o + 1] = record[t]]
          /\ o' = (o + 1) % n
      BY <1>5 DEF KeepInBacktrace
    <2>2. s \in Seq(Record) /\ Len(s) = n /\ n \in Nat \ {0} /\ o \in 0..(n - 1)
      BY <1>1, <1>5 DEF RingOK
    <2>3. /\ s' \in Seq(Record) /\ Len(s') = n
          /\ \A i \in 1..n : s'[i] = IF i = o + 1 THEN record[t] ELSE s[i]
      BY <2>1, <2>2, <1>1, ExceptSeq
    <2>4. o' = IF o + 1 = n THEN 0 ELSE o + 1
      BY <2>1, <2>2
    <2>5. o' \in 0..Len(s')
      BY <2>2, <2>3, <2>4
    <2>6. /\ Kept' \in Seq(Record) /\ Len(Kept') = n
          /\ \A i \in 1..n : Kept'[i] = IF i <= n - o' THEN s'[i + o'] ELSE s'[i - (n - o')]
      BY <2>3, <2>5, RotatedElements DEF Kept
    <2>7. \A i \in 1..n : Kept[i] = IF i <= n - o THEN s[i + o] ELSE s[i - (n - o)]
      BY <2>2, RotatedElements DEF Kept
    <2>8. both \in Seq(Record) /\ Len(both) = n + 1
          /\ \A i \in 1..n : both[i] = Kept[i]
          /\ both[n + 1] = record[t]
      BY <1>1, <1>2, <2>2
    <2>9. /\ SubSeq(both, 2, n + 1) \in Seq(Record) /\ Len(SubSeq(both, 2, n + 1)) = n
          /\ \A i \in 1..n : SubSeq(both, 2, n + 1)[i] = both[i + 1]
      BY <2>2, <2>8
    <2> HIDE DEF s, o, n, both
    <2>10. ASSUME NEW i \in 1..n PROVE Kept'[i] = both[i + 1]
      <3>1. CASE i < n
        <4>1. both[i + 1] = IF i + 1 <= n - o THEN s[i + 1 + o] ELSE s[i + 1 - (n - o)]
          BY <2>2, <2>7, <2>8, <3>1
        <4>2. CASE o + 1 = n
          BY <2>2, <2>3, <2>4, <2>6, <3>1, <4>1, <4>2
        <4>3. CASE o + 1 # n
          <5>1. Kept'[i] = IF i + 1 <= n - o THEN s'[i + 1 + o] ELSE s'[i + 1 - (n - o)]
            BY <2>2, <2>4, <2>6, <4>3
          <5>2. CASE i + 1 <= n - o
            BY <2>2, <2>3, <3>1, <4>1, <5>1, <5>2
          <5>3. CASE ~(i + 1 <= n - o)
            BY <2>2, <2>3, <3>1, <4>1, <5>1, <5>3
          <5>4. QED
            BY <5>2, <5>3
        <4>4. QED
          BY <4>2, <4>3
      <3>2. CASE i = n
        <4>1. CASE o + 1 = n
          BY <2>2, <2>3, <2>4, <2>6, <2>8, <3>2, <4>1
        <4>2. CASE o + 1 # n
          <5>1. o' = o + 1 /\ ~(i <= n - o') /\ i - (n - o') = o + 1
            BY <2>2, <2>4, <3>2, <4>2
          <5>2. Kept'[i] = s'[o + 1] /\ o + 1 \in 1..n
            BY <2>2, <2>6, <5>1
          <5>3. QED
            BY <2>3, <2>8, <3>2, <5>2
        <4>3. QED
          BY <4>1, <4>2
      <3>3. QED
        BY <3>1, <3>2, <2>2
    <2>11. Kept' = SubSeq(both, 2, n + 1)
      BY <2>6, <2>9, <2>10, <2>2, SeqEqual
    <2>12. Ring!Newest(both, n) = SubSeq(both, 2, n + 1)
      <3>1. Len(both) > n /\ Len(both) - n + 1 = 2 /\ Len(both) = n + 1
        BY <2>2, <2>8
      <3>2. Ring!Newest(both, n) = SubSeq(both, Len(both) - n + 1, Len(both))
        BY <3>1, Zenon DEF Ring!Newest
      <3>3. QED
        BY <3>1, <3>2, Zenon
    <2>13. QED
      BY <2>11, <2>12 DEF both, n
  <1>6. QED
    BY <1>4, <1>5

LEMMA ResizeImplements ==
    ASSUME TypeOK, NEW t \in Thread, ResizeBacktrace(t)
    PROVE  Ring!Resize(CapacityOf(newConfig[t]))
  <1> DEFINE size == CapacityOf(newConfig[t])
             turned == IF MustRotate(size) THEN Kept ELSE m_Backtrace
  <1>1. RingOK /\ size \in Nat
    BY TypeParts, ConfigType DEF TypeOK
  <1>2. Kept \in Seq(Record) /\ Len(Kept) = Len(m_Backtrace)
    BY <1>1, RotatedElements DEF RingOK, Kept
  <1>3. /\ m_Backtrace' = NewestOf(turned, size)
        /\ m_BacktraceOldest' = IF MustRotate(size) THEN 0 ELSE m_BacktraceOldest
        /\ m_BacktraceCapacity' = size
    BY DEF ResizeBacktrace, Kept
  <1> HIDE DEF size
  <1>4. Kept' = Ring!Newest(Kept, size)
    <2>1. CASE MustRotate(size)
      <3>1. m_Backtrace' = NewestOf(Kept, size) /\ m_BacktraceOldest' = 0
        BY <2>1, <1>3
      <3>2. Kept' = m_Backtrace'
        BY <3>1, <1>1, <1>2, NewestElements, RotatedByNone DEF Kept
      <3>3. QED
        BY <3>1, <3>2 DEF NewestOf, Ring!Newest
    <2>2. CASE ~MustRotate(size)
      <3>1. Len(m_Backtrace) <= size
        BY <2>2, <1>1 DEF MustRotate, RingOK
      <3>2. m_Backtrace' = m_Backtrace /\ m_BacktraceOldest' = m_BacktraceOldest
        BY <2>2, <3>1, <1>1, <1>3, NewestElements DEF RingOK
      <3>3. Kept' = Kept
        BY <3>2 DEF Kept
      <3>4. Ring!Newest(Kept, size) = Kept
        BY <3>1, <1>1, <1>2 DEF Ring!Newest, RingOK
      <3>5. QED
        BY <3>3, <3>4
    <2>3. QED
      BY <2>1, <2>2
  <1>5. QED
    BY <1>3, <1>4 DEF Ring!Resize, size

(***************************************************************************)
(* The ring with its oldest index, resized and emptied in place, keeps     *)
(* what TASWBacktraceConfig promises: the newest entries, oldest first, at *)
(* most as many as the config says (ASWLog_Base.cpp:160-237, 371-380).     *)
(***************************************************************************)
THEOREM RingKeepsTheNewest == Spec => KeepsTheNewest
  <1>1. Init => Ring!Init
    <2> SUFFICES ASSUME Init PROVE Ring!Init
      OBVIOUS
    <2>1. Kept = <<>>
      <3>1. m_Backtrace = <<>> /\ m_BacktraceOldest = 0 /\ <<>> \in Seq(Record)
        BY DEF Init
      <3>2. QED
        BY <3>1, RotatedByNone DEF Kept
    <2>2. QED
      BY <2>1 DEF Init, Ring!Init
  <1>2. TypeOK /\ [Next]_vars => [Ring!Next]_<<Kept, m_BacktraceCapacity>>
    <2> SUFFICES ASSUME TypeOK, [Next]_vars
                 PROVE  Ring!Next \/ UNCHANGED <<Kept, m_BacktraceCapacity>>
      OBVIOUS
    <2>1. ASSUME UNCHANGED ringVars PROVE UNCHANGED <<Kept, m_BacktraceCapacity>>
      BY <2>1 DEF ringVars, Kept
    <2>2. ASSUME NEW t \in Thread, KeepInBacktrace(t) 
          PROVE  Ring!Next \/ UNCHANGED <<Kept, m_BacktraceCapacity>>
      <3>1. CASE m_BacktraceCapacity = 0
        BY <3>1, <2>1, <2>2 DEF KeepInBacktrace
      <3>2. CASE m_BacktraceCapacity # 0
        BY <3>2, <2>2, KeepImplements DEF Ring!Next
      <3>3. QED
        BY <3>1, <3>2
    <2>3. ASSUME NEW t \in Thread, TakeBacktrace(t) PROVE Ring!Next
      <3>1. m_Backtrace' = <<>> /\ m_BacktraceOldest' = 0
            /\ m_BacktraceCapacity' = m_BacktraceCapacity /\ <<>> \in Seq(Record)
        BY <2>3 DEF TakeBacktrace, LeftInRing
      <3>2. Kept' = <<>>
        BY <3>1, RotatedByNone DEF Kept
      <3>3. QED
        BY <3>1, <3>2 DEF Ring!Next, Ring!TakeAll
    <2>4. ASSUME NEW t \in Thread, ResizeBacktrace(t) PROVE Ring!Next
      <3>1. CapacityOf(newConfig[t]) \in {CapacityOf(config) : config \in Configs}
        BY DEF TypeOK
      <3>2. QED
        BY <2>4, <3>1, ResizeImplements DEF Ring!Next
    <2>5. CASE UNCHANGED vars
      BY <2>5, <2>1 DEF vars
    <2>6. ASSUME NEW t \in Thread, BeginCall(t) PROVE UNCHANGED <<Kept, m_BacktraceCapacity>>
      BY <2>6, <2>1 DEF BeginCall, Write, DumpBacktrace, SetEnabled, SetMinimumLevel, SetConfig
    <2>7. ASSUME NEW t \in Thread, Step(t)
          PROVE  Ring!Next \/ UNCHANGED <<Kept, m_BacktraceCapacity>>
      BY <2>7, <2>1, <2>2, <2>3, <2>4
         DEF Step, Enabled, Gate, Route, HasBacktrace, DumpLevel, WriteRecord, Throw,
             ExchangeMinimum, SetDumpLevel, ReadLevels, ExchangeBacktraceLevel
    <2>8. QED
      BY <2>5, <2>6, <2>7 DEF Next
  <1>3. QED
    BY <1>1, <1>2, TypeCorrect, PTL DEF Spec, KeepsTheNewest, Ring!Spec

----------------------------------------------------------------------------
(* A thread's own entries are taken before its entry that dumps *)

(***************************************************************************)
(* From the moment a thread is on its way to write an entry that dumps,    *)
(* the ring holds none of its own: it read the flag after it kept the      *)
(* last of them.                                                           *)
(***************************************************************************)
NoneOf(t) == \A i \in 1..Len(m_Backtrace) : m_Backtrace[i].thread # t

OwnInv ==
    /\ \E config \in Configs : m_BacktraceDumpLevel = config.DumpAtLevel
    /\ \A t \in Thread : record[t].thread = t
    /\ \A t \in Thread : pc[t] = "write" /\ DumpsAlways(record[t]) => NoneOf(t)

LEMMA OwnInvImplies == OwnInv => OwnEntriesAreTaken
  BY DEF OwnInv, OwnEntriesAreTaken, NoneOf, RecordsIn

LEMMA EmptyRing == ASSUME m_Backtrace = <<>>, NEW t PROVE NoneOf(t)
  <1>1. 1..Len(m_Backtrace) = {}
    OBVIOUS
  <1>2. QED
    BY <1>1 DEF NoneOf

LEMMA EmptiedRing == ASSUME m_Backtrace' = <<>>, NEW t PROVE NoneOf(t)'
  <1>1. 1..Len(m_Backtrace') = {}
    OBVIOUS
  <1>2. QED
    BY <1>1 DEF NoneOf

(***************************************************************************)
(* Every step leaves in the ring elements it held, or the record of the    *)
(* thread that keeps one.                                                  *)
(***************************************************************************)
LEMMA RingElements ==
    ASSUME TypeOK, Next, NEW i \in 1..Len(m_Backtrace')
    PROVE  \/ \E j \in 1..Len(m_Backtrace) : m_Backtrace'[i] = m_Backtrace[j]
           \/ \E t \in Thread : KeepInBacktrace(t) /\ m_Backtrace'[i] = record[t]
  <1> DEFINE Old(x) == \E j \in 1..Len(m_Backtrace) : x = m_Backtrace[j]
  <1>1. RingOK /\ \A t \in Thread : record[t] \in Record
    BY TypeParts DEF TypeOK
  <1>2. Old(m_Backtrace[i]) \/ m_Backtrace' # m_Backtrace
    OBVIOUS
  <1>3. ASSUME NEW t \in Thread, KeepInBacktrace(t), m_Backtrace' # m_Backtrace
        PROVE  Old(m_Backtrace'[i]) \/ m_Backtrace'[i] = record[t]
    <2>1. CASE Len(m_Backtrace) < m_BacktraceCapacity
      <3>1. m_Backtrace' = Append(m_Backtrace, record[t])
        BY <1>3, <2>1 DEF KeepInBacktrace
      <3>2. QED
        BY <3>1, <1>1 DEF RingOK
    <2>2. CASE ~(Len(m_Backtrace) < m_BacktraceCapacity)
      <3>1. m_Backtrace' = [m_Backtrace EXCEPT ![m_BacktraceOldest + 1] = record[t]]
            /\ m_BacktraceCapacity # 0
        BY <1>3, <2>2 DEF KeepInBacktrace, ringVars
      <3>2. m_BacktraceOldest + 1 \in 1..Len(m_Backtrace) /\ m_Backtrace \in Seq(Record)
        BY <3>1, <2>2, <1>1 DEF RingOK
      <3>3. QED
        BY <3>1, <3>2, <1>1, ExceptSeq
    <2>3. QED
      BY <2>1, <2>2
  <1>4. ASSUME NEW t \in Thread, ResizeBacktrace(t) PROVE Old(m_Backtrace'[i])
    <2> DEFINE size == CapacityOf(newConfig[t])
               turned == IF MustRotate(size) THEN Rotated(m_Backtrace, m_BacktraceOldest)
                         ELSE m_Backtrace
    <2>1. size \in Nat /\ m_Backtrace' = NewestOf(turned, size)
      BY <1>4, ConfigType DEF ResizeBacktrace, TypeOK
    <2>2. m_BacktraceOldest \in 0..Len(m_Backtrace) /\ m_Backtrace \in Seq(Record)
      BY <1>1 DEF RingOK
    <2>3. ASSUME NEW k \in 1..Len(m_Backtrace)
          PROVE  Old(Rotated(m_Backtrace, m_BacktraceOldest)[k])
      <3>1. CASE k <= Len(m_Backtrace) - m_BacktraceOldest
        <4>1. k + m_BacktraceOldest \in 1..Len(m_Backtrace)
          BY <2>2, <3>1
        <4>2. QED
          BY <2>2, <3>1, <4>1, RotatedElements
      <3>2. CASE ~(k <= Len(m_Backtrace) - m_BacktraceOldest)
        <4>1. k - (Len(m_Backtrace) - m_BacktraceOldest) \in 1..Len(m_Backtrace)
          BY <2>2, <3>2
        <4>2. QED
          BY <2>2, <3>2, <4>1, RotatedElements
      <3>3. QED
        BY <3>1, <3>2
    <2>4. /\ turned \in Seq(Record) /\ Len(turned) = Len(m_Backtrace)
          /\ \A k \in 1..Len(turned) : Old(turned[k])
      BY <2>2, <2>3, RotatedElements
    <2> HIDE DEF size, turned, Old
    <2>5. \E k \in 1..Len(turned) : m_Backtrace'[i] = turned[k]
      <3>1. CASE Len(turned) > size
        <4>1. m_Backtrace' = SubSeq(turned, Len(turned) - size + 1, Len(turned))
          BY <2>1, <3>1 DEF NewestOf
        <4>2. /\ Len(m_Backtrace') = size
              /\ \A k \in 1..size : m_Backtrace'[k] = turned[Len(turned) - size + k]
          BY <4>1, <2>1, <2>4, <3>1
        <4>3. Len(turned) - size + i \in 1..Len(turned)
          BY <4>2, <2>1, <2>4, <3>1
        <4>4. QED
          BY <4>2, <4>3
      <3>2. CASE ~(Len(turned) > size)
        BY <2>1, <3>2 DEF NewestOf
      <3>3. QED
        BY <3>1, <3>2
    <2>6. QED
      BY <2>4, <2>5
  <1>5. ASSUME NEW t \in Thread, TakeBacktrace(t) PROVE FALSE
    <2>1. m_Backtrace' = <<>>
      BY <1>5 DEF TakeBacktrace, LeftInRing
    <2>2. QED
      BY <2>1
  <1> HIDE DEF Old
  <1>6. PICK t \in Thread : BeginCall(t) \/ Step(t)
    BY DEF Next
  <1>7. CASE KeepInBacktrace(t)
    BY <1>2, <1>3, <1>7 DEF Old
  <1>8. CASE BeginCall(t)
    BY <1>2, <1>8 DEF BeginCall, Write, DumpBacktrace, SetEnabled, SetMinimumLevel, SetConfig,
                      ringVars, Old
  <1>9. CASE Step(t) /\ ~KeepInBacktrace(t)
    BY <1>2, <1>4, <1>5, <1>9
       DEF Step, Enabled, Gate, Route, HasBacktrace, DumpLevel, WriteRecord, Throw,
           ExchangeMinimum, SetDumpLevel, ReadLevels, ExchangeBacktraceLevel, ringVars, Old
  <1>10. QED
    BY <1>6, <1>7, <1>8, <1>9

LEMMA OwnInvStep ==
    ASSUME TypeOK, OwnInv, Next
    PROVE  OwnInv'
  <1>1. pc \in [Thread -> Place] /\ record \in [Thread -> Record] /\ newConfig \in [Thread -> Configs]
    BY DEF TypeOK
  <1>2. PICK t \in Thread : BeginCall(t) \/ Step(t)
    BY DEF Next
  <1>3. (\E config \in Configs : m_BacktraceDumpLevel = config.DumpAtLevel)'
    BY <1>1, <1>2
       DEF OwnInv, BeginCall, Write, DumpBacktrace, SetEnabled, SetMinimumLevel, SetConfig,
           Step, Enabled, Gate, Route, HasBacktrace, DumpLevel, KeepInBacktrace, TakeBacktrace,
           WriteRecord, Throw, ExchangeMinimum, ResizeBacktrace, SetDumpLevel, ReadLevels,
           ExchangeBacktraceLevel, gateVars
  <1>4. \A u \in Thread : u # t => record'[u] = record[u] /\ pc'[u] = pc[u]
    <2>1. CASE BeginCall(t)
      BY <2>1, <1>1 DEF BeginCall, Write, DumpBacktrace, SetEnabled, SetMinimumLevel, SetConfig, Goto
    <2>2. CASE Step(t)
      BY <2>2, <1>1
         DEF Step, Enabled, Gate, Route, HasBacktrace, DumpLevel, KeepInBacktrace, TakeBacktrace,
             WriteRecord, Throw, ExchangeMinimum, CompareExchange, ResizeBacktrace, SetDumpLevel,
             ReadLevels, ExchangeBacktraceLevel, argVars, Goto
    <2>3. QED
      BY <1>2, <2>1, <2>2
  <1>5. record'[t].thread = t
    <2>1. CASE BeginCall(t)
      BY <2>1, <1>1 DEF OwnInv, BeginCall, Write, DumpBacktrace, SetEnabled, SetMinimumLevel,
                        SetConfig, Marker
    <2>2. CASE Step(t)
      BY <2>2 DEF OwnInv, Step, Enabled, Gate, Route, HasBacktrace, DumpLevel, KeepInBacktrace,
                  TakeBacktrace, WriteRecord, Throw, ExchangeMinimum, ResizeBacktrace, SetDumpLevel,
                  ReadLevels, ExchangeBacktraceLevel, argVars
    <2>3. QED
      BY <1>2, <2>1, <2>2
  <1>6. ASSUME NEW u \in Thread, NoneOf(u), ~KeepInBacktrace(u) PROVE NoneOf(u)'
    <2>1. SUFFICES ASSUME NEW i \in 1..Len(m_Backtrace') PROVE m_Backtrace'[i].thread # u
      BY DEF NoneOf
    <2>2. CASE \E j \in 1..Len(m_Backtrace) : m_Backtrace'[i] = m_Backtrace[j]
      BY <1>6, <2>2 DEF NoneOf
    <2>3. CASE \E v \in Thread : KeepInBacktrace(v) /\ m_Backtrace'[i] = record[v]
      BY <1>6, <2>3 DEF OwnInv
    <2>4. QED
      BY <2>2, <2>3, RingElements
  <1>7. ASSUME NEW u \in Thread, u # t, pc'[u] = "write", DumpsAlways(record'[u])
        PROVE  NoneOf(u)'
    <2>1. pc[u] = "write" /\ DumpsAlways(record[u])
      BY <1>4, <1>7
    <2>2. NoneOf(u) /\ ~KeepInBacktrace(u)
      BY <2>1 DEF OwnInv, KeepInBacktrace
    <2>3. QED
      BY <2>2, <1>6
  <1>8. ASSUME pc'[t] = "write", DumpsAlways(record'[t]) PROVE NoneOf(t)'
    <2>1. CASE pc[t] = "write" /\ record' = record
      <3>1. NoneOf(t) /\ ~KeepInBacktrace(t)
        BY <2>1, <1>8 DEF OwnInv, KeepInBacktrace
      <3>2. QED
        BY <3>1, <1>6
    <2>2. CASE HasBacktrace(t)
      <3>1. ~m_HasBacktrace
        BY <2>2, <1>1, <1>8 DEF HasBacktrace, Goto
      <3>2. m_Backtrace = <<>> /\ m_Backtrace' = m_Backtrace
        BY <2>2, <3>1 DEF TypeOK, HasBacktrace, ringVars
      <3>3. QED
        BY <3>2, EmptiedRing
    <2>3. CASE DumpLevel(t)
      <3>1. record' = record /\ ~IsAtDumpLevel(record[t])
        BY <2>3, <1>1, <1>8 DEF DumpLevel, Goto, argVars
      <3>2. PICK config \in Configs : m_BacktraceDumpLevel = config.DumpAtLevel
        BY DEF OwnInv
      <3>3. record[t].level >= config.DumpAtLevel
        BY <3>1, <1>8 DEF DumpsAlways
      <3>4. QED
        BY <3>1, <3>2, <3>3 DEF IsAtDumpLevel
    <2>4. CASE TakeBacktrace(t)
      BY <2>4, EmptiedRing DEF TakeBacktrace, LeftInRing
    <2>5. CASE BeginCall(t)
      BY <2>5, <1>1, <1>8 DEF BeginCall, Write, DumpBacktrace, SetEnabled, SetMinimumLevel,
                              SetConfig, MayCall, Goto
    <2>6. CASE Step(t) /\ ~HasBacktrace(t) /\ ~DumpLevel(t) /\ ~TakeBacktrace(t)
      <3>1. pc[t] = "write" /\ record' = record
        BY <2>6, <1>1, <1>8
           DEF Step, Enabled, Gate, Route, KeepInBacktrace, WriteRecord, Throw, ExchangeMinimum,
               CompareExchange, ResizeBacktrace, SetDumpLevel, ReadLevels, ExchangeBacktraceLevel,
               argVars, Goto
      <3>2. QED
        BY <3>1, <2>1
    <2>7. QED
      BY <1>2, <2>2, <2>3, <2>4, <2>5, <2>6
  <1>9. \A u \in Thread : record'[u].thread = u
    BY <1>4, <1>5 DEF OwnInv
  <1>10. QED
    BY <1>3, <1>7, <1>8, <1>9 DEF OwnInv, DumpsAlways

(***************************************************************************)
(* No entry a thread kept is still in the ring when an entry of its own    *)
(* that dumps is written, though the thread reads m_HasBacktrace without   *)
(* the lock (WriteOrKeep(), ASWLog_Base.cpp:464-478).                      *)
(***************************************************************************)
THEOREM OwnEntriesTaken == Spec => []OwnEntriesAreTaken
  <1>1. Init => OwnInv
    BY DEF Init, OwnInv, Marker
  <1>2. TypeOK /\ OwnInv /\ [Next]_vars => OwnInv'
    <2> SUFFICES ASSUME TypeOK, OwnInv, [Next]_vars PROVE OwnInv'
      OBVIOUS
    <2>1. CASE UNCHANGED vars
      BY <2>1 DEF OwnInv, NoneOf, DumpsAlways, vars, ringVars, gateVars, argVars
    <2>2. QED
      BY <2>1, OwnInvStep
  <1>3. QED
    BY <1>1, <1>2, OwnInvImplies, TypeCorrect, PTL DEF Spec

----------------------------------------------------------------------------
(* An entry is in one place *)

\* Entries of a sequence, the markers left out, and that none stands in it twice
Numbered(s) == {r \in RecordsIn(s) : r.n > 0}
Distinct(s) == \A i, j \in 1..Len(s) : s[i].n > 0 /\ s[i] = s[j] => i = j

LEMMA NumberedAre ==
    ASSUME NEW s, NEW r
    PROVE  r \in Numbered(s) <=> \E i \in 1..Len(s) : r = s[i] /\ s[i].n > 0
  BY Zenon DEF Numbered, RecordsIn

LEMMA NoneNumbered == Numbered(<<>>) = {} /\ Distinct(<<>>)
  <1>1. 1..Len(<<>>) = {}
    OBVIOUS
  <1>2. QED
    BY <1>1 DEF Numbered, RecordsIn, Distinct

(***************************************************************************)
(* A sequence whose entries stand at different places of another one.      *)
(***************************************************************************)
LEMMA PartOfDistinct ==
    ASSUME NEW s, NEW p, NEW at, Distinct(s),
           \A i \in 1..Len(p) : p[i].n > 0 => at[i] \in 1..Len(s) /\ p[i] = s[at[i]],
           \A i, j \in 1..Len(p) : at[i] = at[j] => i = j
    PROVE  Distinct(p) /\ Numbered(p) \subseteq Numbered(s)
  <1>1. Distinct(p)
    <2>1. SUFFICES ASSUME NEW i \in 1..Len(p), NEW j \in 1..Len(p), p[i].n > 0, p[i] = p[j]
                   PROVE  i = j
      BY DEF Distinct
    <2>2. /\ at[i] \in 1..Len(s) /\ at[j] \in 1..Len(s)
          /\ p[i] = s[at[i]] /\ p[j] = s[at[j]]
      BY <2>1
    <2>3. at[i] = at[j]
      BY <2>1, <2>2, Zenon DEF Distinct
    <2>4. QED
      BY <2>3
  <1>2. ASSUME NEW r \in Numbered(p) PROVE r \in Numbered(s)
    <2>1. PICK i \in 1..Len(p) : r = p[i] /\ p[i].n > 0
      BY <1>2, NumberedAre
    <2>2. at[i] \in 1..Len(s) /\ r = s[at[i]]
      BY <2>1
    <2>3. QED
      BY <2>1, <2>2, NumberedAre
  <1>3. QED
    BY <1>1, <1>2

LEMMA DistinctRotated ==
    ASSUME NEW s \in Seq(Record), NEW o \in 0..Len(s), Distinct(s)
    PROVE  Distinct(Rotated(s, o)) /\ Numbered(Rotated(s, o)) \subseteq Numbered(s)
  <1> DEFINE p == Rotated(s, o)
             place == [i \in 1..Len(s) |-> IF i <= Len(s) - o THEN i + o ELSE i - (Len(s) - o)]
  <1>1. Len(s) \in Nat /\ o \in Nat /\ o <= Len(s)
    OBVIOUS
  <1>2. Len(p) = Len(s)
    BY RotatedElements
  <1>3. \A i \in 1..Len(s) : place[i] \in 1..Len(s) /\ p[i] = s[place[i]]
    BY <1>1, RotatedElements
  <1>4. \A i, j \in 1..Len(s) : place[i] = place[j] => i = j
    BY <1>1
  <1> HIDE DEF p, place
  <1>5. /\ \A i \in 1..Len(p) : p[i].n > 0 => place[i] \in 1..Len(s) /\ p[i] = s[place[i]]
        /\ \A i, j \in 1..Len(p) : place[i] = place[j] => i = j
    BY <1>2, <1>3, <1>4
  <1>6. Distinct(p) /\ Numbered(p) \subseteq Numbered(s)
    BY <1>5, PartOfDistinct, Zenon
  <1>7. QED
    BY <1>6 DEF p

LEMMA DistinctNewest ==
    ASSUME NEW s \in Seq(Record), NEW size \in Nat, Distinct(s)
    PROVE  Distinct(NewestOf(s, size)) /\ Numbered(NewestOf(s, size)) \subseteq Numbered(s)
  <1>1. CASE Len(s) > size
    <2> DEFINE p == NewestOf(s, size)
               place == [i \in 1..size |-> Len(s) - size + i]
    <2>1. Len(p) = size /\ \A i \in 1..size : place[i] \in 1..Len(s) /\ p[i] = s[place[i]]
      BY <1>1 DEF NewestOf
    <2>2. \A i, j \in 1..size : place[i] = place[j] => i = j
      OBVIOUS
    <2> HIDE DEF p, place
    <2>3. Distinct(p) /\ Numbered(p) \subseteq Numbered(s)
      BY <2>1, <2>2, PartOfDistinct
    <2>4. QED
      BY <2>3 DEF p
  <1>2. CASE ~(Len(s) > size)
    BY <1>2 DEF NewestOf
  <1>3. QED
    BY <1>1, <1>2

LEMMA DistinctTail ==
    ASSUME NEW s \in Seq(Record), s # <<>>, Distinct(s)
    PROVE  /\ Distinct(Tail(s)) /\ Numbered(Tail(s)) \subseteq Numbered(s)
           /\ Head(s).n > 0 => Head(s) \in Numbered(s) /\ Head(s) \notin Numbered(Tail(s))
  <1> DEFINE p == Tail(s)
             place == [i \in 1..(Len(s) - 1) |-> i + 1]
  <1>1. Len(s) \in Nat /\ Len(s) > 0 /\ Len(p) = Len(s) - 1 /\ Head(s) = s[1]
    BY EmptySeq
  <1>2. \A i \in 1..Len(p) : place[i] \in 1..Len(s) /\ p[i] = s[place[i]] /\ place[i] # 1
    BY <1>1
  <1>3. \A i, j \in 1..Len(p) : place[i] = place[j] => i = j
    BY <1>1
  <1> HIDE DEF p, place
  <1>4. Distinct(p) /\ Numbered(p) \subseteq Numbered(s)
    <2>1. \A i \in 1..Len(p) : p[i].n > 0 => place[i] \in 1..Len(s) /\ p[i] = s[place[i]]
      BY <1>2
    <2>2. QED
      BY <1>3, <2>1, PartOfDistinct, Zenon
  <1>5. ASSUME Head(s).n > 0 PROVE Head(s) \in Numbered(s) /\ Head(s) \notin Numbered(p)
    <2>1. 1 \in 1..Len(s)
      BY <1>1
    <2>2. Head(s) \in Numbered(s)
      BY <1>1, <1>5, <2>1, NumberedAre
    <2>3. ASSUME NEW i \in 1..Len(p), Head(s) = p[i] PROVE FALSE
      <3>1. s[1].n > 0 /\ s[1] = s[place[i]] /\ place[i] \in 1..Len(s) /\ place[i] # 1
        BY <1>1, <1>2, <1>5, <2>3
      <3>2. QED
        BY <2>1, <3>1, Zenon DEF Distinct
    <2>4. QED
      BY <2>2, <2>3, NumberedAre
  <1>6. QED
    BY <1>4, <1>5 DEF p

LEMMA DistinctAppend ==
    ASSUME NEW s \in Seq(Record), NEW r \in Record, Distinct(s), r.n > 0 => r \notin Numbered(s)
    PROVE  /\ Distinct(Append(s, r))
           /\ Numbered(Append(s, r)) = Numbered(s) \cup (IF r.n > 0 THEN {r} ELSE {})
  <1> DEFINE p == Append(s, r)
  <1>1. /\ Len(s) \in Nat /\ Len(p) = Len(s) + 1 /\ p[Len(s) + 1] = r
        /\ \A i \in 1..Len(s) : p[i] = s[i]
    OBVIOUS
  <1> HIDE DEF p
  <1>2. ASSUME NEW i \in 1..Len(s), s[i].n > 0 PROVE s[i] \in Numbered(s)
    BY <1>2, NumberedAre
  <1>3. Distinct(p)
    <2>1. SUFFICES ASSUME NEW i \in 1..Len(p), NEW j \in 1..Len(p), p[i].n > 0, p[i] = p[j], i # j
                   PROVE  FALSE
      BY DEF Distinct
    <2>2. CASE i \in 1..Len(s) /\ j \in 1..Len(s)
      <3>1. s[i].n > 0 /\ s[i] = s[j]
        BY <1>1, <2>1, <2>2
      <3>2. QED
        BY <2>1, <2>2, <3>1, Zenon DEF Distinct
    <2>3. CASE i \in 1..Len(s) /\ j = Len(s) + 1
      BY <1>1, <1>2, <2>1, <2>3
    <2>4. CASE i = Len(s) + 1 /\ j \in 1..Len(s)
      BY <1>1, <1>2, <2>1, <2>4
    <2>5. QED
      BY <1>1, <2>1, <2>2, <2>3, <2>4
  <1>4. ASSUME NEW x PROVE x \in Numbered(p) <=> x \in Numbered(s) \/ (x = r /\ r.n > 0)
    <2>1. ASSUME x \in Numbered(p) PROVE x \in Numbered(s) \/ (x = r /\ r.n > 0)
      <3>1. PICK i \in 1..Len(p) : x = p[i] /\ p[i].n > 0
        BY <2>1, NumberedAre
      <3>2. i \in 1..Len(s) \/ i = Len(s) + 1
        BY <1>1
      <3>3. QED
        BY <1>1, <1>2, <3>1, <3>2
    <2>2. ASSUME x \in Numbered(s) PROVE x \in Numbered(p)
      <3>1. PICK i \in 1..Len(s) : x = s[i] /\ s[i].n > 0
        BY <2>2, NumberedAre
      <3>2. i \in 1..Len(p) /\ x = p[i] /\ p[i].n > 0
        BY <1>1, <3>1
      <3>3. QED
        BY <3>2, NumberedAre
    <2>3. ASSUME x = r, r.n > 0 PROVE x \in Numbered(p)
      <3>1. Len(s) + 1 \in 1..Len(p)
        BY <1>1
      <3>2. QED
        BY <1>1, <2>3, <3>1, NumberedAre
    <2>4. QED
      BY <2>1, <2>2, <2>3
  <1>5. Numbered(p) = Numbered(s) \cup (IF r.n > 0 THEN {r} ELSE {})
    BY <1>4
  <1>6. QED
    BY <1>3, <1>5 DEF p

LEMMA DistinctExcept ==
    ASSUME NEW s \in Seq(Record), NEW r \in Record, NEW k \in 1..Len(s), Distinct(s),
           r.n > 0 => r \notin Numbered(s)
    PROVE  /\ Distinct([s EXCEPT ![k] = r])
           /\ Numbered([s EXCEPT ![k] = r]) \subseteq Numbered(s) \cup (IF r.n > 0 THEN {r} ELSE {})
  <1> DEFINE p == [s EXCEPT ![k] = r]
  <1>1. Len(p) = Len(s) /\ p[k] = r /\ \A i \in 1..Len(s) : i # k => p[i] = s[i]
    BY ExceptSeq
  <1> HIDE DEF p
  <1>2. ASSUME NEW i \in 1..Len(s), s[i].n > 0 PROVE s[i] \in Numbered(s)
    BY <1>2, NumberedAre
  <1>3. Distinct(p)
    <2>1. SUFFICES ASSUME NEW i \in 1..Len(s), NEW j \in 1..Len(s), p[i].n > 0, p[i] = p[j], i # j
                   PROVE  FALSE
      BY <1>1 DEF Distinct
    <2>2. CASE i # k /\ j # k
      <3>1. s[i].n > 0 /\ s[i] = s[j]
        BY <1>1, <2>1, <2>2
      <3>2. QED
        BY <2>1, <3>1, Zenon DEF Distinct
    <2>3. CASE i = k \/ j = k
      BY <1>1, <1>2, <2>1, <2>3
    <2>4. QED
      BY <2>2, <2>3
  <1>4. ASSUME NEW x \in Numbered(p) PROVE x \in Numbered(s) \/ (x = r /\ r.n > 0)
    <2>1. PICK i \in 1..Len(s) : x = p[i] /\ p[i].n > 0
      BY <1>1, <1>4, NumberedAre
    <2>2. QED
      BY <1>1, <1>2, <2>1
  <1>5. Numbered(p) \subseteq Numbered(s) \cup (IF r.n > 0 THEN {r} ELSE {})
    BY <1>4
  <1>6. QED
    BY <1>3, <1>5 DEF p

LEMMA DistinctTaken ==
    ASSUME NEW s \in Seq(Record), NEW t \in Thread, Distinct(s)
    PROVE  /\ Distinct(<<Marker(t)>> \o s \o <<Marker(t)>>)
           /\ Numbered(<<Marker(t)>> \o s \o <<Marker(t)>>) \subseteq Numbered(s)
  <1>1. PICK m \in Seq(Record) : m = <<Marker(t)>> /\ Len(m) = 1 /\ m[1] = Marker(t)
    <2>1. Marker(t) \in Record
      BY MarkerType
    <2>2. <<Marker(t)>> \in Seq(Record) /\ Len(<<Marker(t)>>) = 1 /\ <<Marker(t)>>[1] = Marker(t)
      BY <2>1
    <2>3. QED
      BY <2>2, Zenon
  <1>2. PICK p \in Seq(Record) : p = m \o s
    BY ConcatProperties
  <1>3. Len(p) = Len(s) + 1 /\ p[1] = Marker(t) /\ \A i \in 1..Len(p) : i # 1 => p[i] = s[i - 1]
    BY <1>1, <1>2, ConcatProperties
  <1>4. PICK q \in Seq(Record) : q = p \o m
    BY ConcatProperties
  <1>5. Len(q) = Len(p) + 1 /\ q[Len(p) + 1] = Marker(t) /\ \A i \in 1..Len(p) : q[i] = p[i]
    <2>1. Len(p) \in Nat /\ Len(q) = Len(p) + 1
      BY <1>1, <1>4, ConcatProperties
    <2>2. \A i \in 1..(Len(p) + Len(m)) : q[i] = IF i <= Len(p) THEN p[i] ELSE m[i - Len(p)]
      BY <1>4, ConcatProperties
    <2>3. q[Len(p) + 1] = m[1]
      BY <1>1, <2>1, <2>2
    <2>4. QED
      BY <1>1, <2>1, <2>2, <2>3
  <1>6. Marker(t).n = 0
    BY DEF Marker
  <1> DEFINE place == [i \in 1..Len(q) |-> i - 1]
  <1>7. \A i \in 1..Len(q) : q[i].n > 0 => place[i] \in 1..Len(s) /\ q[i] = s[place[i]]
    <2> SUFFICES ASSUME NEW i \in 1..Len(q), q[i].n > 0 PROVE i - 1 \in 1..Len(s) /\ q[i] = s[i - 1]
      OBVIOUS
    <2>1. i # 1 /\ i # Len(p) + 1
      BY <1>3, <1>5, <1>6
    <2>2. i \in 1..Len(p) /\ i - 1 \in 1..Len(s)
      BY <1>3, <1>5, <2>1
    <2>3. QED
      BY <1>3, <1>5, <2>1, <2>2
  <1>8. \A i, j \in 1..Len(q) : place[i] = place[j] => i = j
    OBVIOUS
  <1>9. Distinct(q) /\ Numbered(q) \subseteq Numbered(s)
    <2> HIDE DEF place
    <2>1. QED
      BY <1>7, <1>8, PartOfDistinct
  <1>10. q = <<Marker(t)>> \o s \o <<Marker(t)>>
    BY <1>1, <1>2, <1>4
  <1>11. QED
    BY <1>9, <1>10

\* An entry its thread has not placed yet, and all that were placed
Pending(t) ==
    /\ pc[t] \in {"enabled", "gate", "route", "keep", "has", "dumpLevel", "take", "write"}
    /\ record[t].n > 0
Hand(t) == Numbered(entries[t])
Placed == Numbered(m_Backtrace) \cup Numbered(written) \cup UNION {Hand(t) : t \in Thread}

\* Where an entry is, it is once and nowhere else
Apart ==
    /\ Distinct(m_Backtrace) /\ Distinct(written) /\ \A t \in Thread : Distinct(entries[t])
    /\ Numbered(m_Backtrace) \cap Numbered(written) = {}
    /\ \A t \in Thread :
          Hand(t) \cap Numbered(m_Backtrace) = {} /\ Hand(t) \cap Numbered(written) = {}
    /\ \A t, u \in Thread : t # u => Hand(t) \cap Hand(u) = {}

\* An entry has the number of its thread's call, and one to be placed a
\* higher one than those of its thread that were
NumbersOK ==
    /\ \A t \in Thread : record[t].thread = t /\ (Pending(t) => record[t].n = calls[t])
    /\ \A r \in Placed : r.n <= calls[r.thread] /\ (Pending(r.thread) => r.n < record[r.thread].n)

LEMMA PlacedType == ASSUME TypeOK, NEW r \in Placed PROVE r \in Record /\ r.thread \in Thread /\ r.n \in Nat /\ r.n > 0
  <1>1. PICK s \in Seq(Record) : r \in Numbered(s)
    BY DEF Placed, Hand, TypeOK
  <1>2. PICK i \in 1..Len(s) : r = s[i] /\ s[i].n > 0
    BY <1>1, NumberedAre
  <1>3. r \in Record
    BY <1>2
  <1>4. QED
    BY <1>2, <1>3 DEF Record

LEMMA PendingIsFresh ==
    ASSUME TypeOK, NumbersOK, NEW t \in Thread, Pending(t)
    PROVE  record[t] \notin Placed
  <1>1. record[t].thread = t
    BY DEF NumbersOK
  <1>2. ASSUME record[t] \in Placed PROVE FALSE
    <2>1. record[t].n \in Nat
      BY <1>2, PlacedType
    <2>2. record[t].n < record[t].n
      BY <1>1, <1>2 DEF NumbersOK
    <2>3. QED
      BY <2>1, <2>2
  <1>3. QED
    BY <1>2

\* What the steps that place entries do
MovesRing(t) == KeepInBacktrace(t) \/ TakeBacktrace(t) \/ WriteRecord(t) \/ Throw(t) \/ ResizeBacktrace(t)

LEMMA OthersMoveNone ==
    ASSUME NEW t \in Thread, BeginCall(t) \/ Step(t), ~MovesRing(t)
    PROVE  UNCHANGED <<m_Backtrace, entries, written>>
  <1>1. CASE BeginCall(t)
    BY <1>1 DEF BeginCall, Write, DumpBacktrace, SetEnabled, SetMinimumLevel, SetConfig, ringVars
  <1>2. CASE Step(t)
    BY <1>2 DEF Step, MovesRing, Enabled, Gate, Route, HasBacktrace, DumpLevel, ExchangeMinimum,
                SetDumpLevel, ReadLevels, ExchangeBacktraceLevel, ringVars
  <1>3. QED
    BY <1>1, <1>2

\* The entry a step places is its thread's own, which is pending no more
PlacesOwn(t) == Placed' \subseteq Placed \/ (Pending(t) /\ pc'[t] = "idle" /\ Placed' \subseteq Placed \cup {record[t]})

LEMMA KeepPlaces ==
    ASSUME TypeOK, Apart, NumbersOK, NEW t \in Thread, KeepInBacktrace(t)
    PROVE  Apart' /\ PlacesOwn(t)
  <1> DEFINE r == record[t]
             New == IF r.n > 0 THEN {r} ELSE {}
  <1>1. r \in Record /\ m_Backtrace \in Seq(Record) /\ Distinct(m_Backtrace) /\ pc \in [Thread -> Place]
    BY DEF TypeOK, Apart
  <1>2. r.n > 0 => Pending(t) /\ r \notin Placed
    <2>1. pc[t] = "keep"
      BY DEF KeepInBacktrace
    <2>2. r.n > 0 => Pending(t)
      BY <2>1 DEF Pending
    <2>3. QED
      BY <2>2, PendingIsFresh
  <1>3. r.n > 0 => r \notin Numbered(m_Backtrace)
    BY <1>2 DEF Placed
  <1>4. Distinct(m_Backtrace') /\ Numbered(m_Backtrace)' \subseteq Numbered(m_Backtrace) \cup New
    <2>1. CASE m_BacktraceCapacity = 0
      <3>1. m_Backtrace' = m_Backtrace
        BY <2>1 DEF KeepInBacktrace, ringVars
      <3>2. QED
        BY <1>1, <3>1
    <2>2. CASE m_BacktraceCapacity # 0 /\ Len(m_Backtrace) < m_BacktraceCapacity
      <3>1. m_Backtrace' = Append(m_Backtrace, r)
        BY <2>2 DEF KeepInBacktrace
      <3>2. Distinct(Append(m_Backtrace, r)) /\ Numbered(Append(m_Backtrace, r)) = Numbered(m_Backtrace) \cup New
        BY <1>1, <1>3, DistinctAppend
      <3>3. QED
        BY <3>1, <3>2
    <2>3. CASE m_BacktraceCapacity # 0 /\ ~(Len(m_Backtrace) < m_BacktraceCapacity)
      <3>1. PICK k \in 1..Len(m_Backtrace) : m_Backtrace' = [m_Backtrace EXCEPT ![k] = r]
        <4>1. m_BacktraceOldest + 1 \in 1..Len(m_Backtrace)
          BY <2>3 DEF TypeOK
        <4>2. m_Backtrace' = [m_Backtrace EXCEPT ![m_BacktraceOldest + 1] = r]
          BY <2>3 DEF KeepInBacktrace
        <4>3. QED
          BY <4>1, <4>2
      <3>2. /\ Distinct([m_Backtrace EXCEPT ![k] = r])
            /\ Numbered([m_Backtrace EXCEPT ![k] = r]) \subseteq Numbered(m_Backtrace) \cup New
        BY <1>1, <1>3, DistinctExcept
      <3>3. QED
        BY <3>1, <3>2
    <2>4. QED
      BY <2>1, <2>2, <2>3
  <1>5. UNCHANGED <<entries, written>> /\ pc'[t] = "idle"
    BY <1>1 DEF KeepInBacktrace, Goto
  <1>6. Numbered(written)' = Numbered(written) /\ \A u \in Thread : Hand(u)' = Hand(u)
    BY <1>5 DEF Hand
  <1>7. New \cap Placed = {}
    BY <1>2
  <1> HIDE DEF r, New
  <1>8. Apart'
    <2>1. Distinct(written)' /\ \A u \in Thread : Distinct(entries[u])'
      BY <1>5 DEF Apart
    <2>2. \A u \in Thread : Hand(u) \cap New = {} /\ Numbered(written) \cap New = {}
      BY <1>7 DEF Placed
    <2>3. QED
      BY <1>4, <1>6, <2>1, <2>2 DEF Apart
  <1>9. Placed' \subseteq Placed \cup New
    BY <1>4, <1>6 DEF Placed
  <1>10. QED
    BY <1>2, <1>5, <1>8, <1>9 DEF PlacesOwn, New, r

LEMMA TakePlaces ==
    ASSUME TypeOK, Apart, NEW t \in Thread, TakeBacktrace(t)
    PROVE  Apart' /\ PlacesOwn(t)
  <1>1. m_Backtrace' = <<>> /\ written' = written /\ \A u \in Thread \ {t} : entries'[u] = entries[u]
    BY DEF TakeBacktrace, LeftInRing, TypeOK
  <1>2. Distinct(entries'[t]) /\ Hand(t)' \subseteq Numbered(m_Backtrace)
    <2>1. CASE m_Backtrace = <<>>
      <3>1. entries'[t] = <<>>
        BY <2>1 DEF TakeBacktrace, TypeOK
      <3>2. QED
        BY <3>1, NoneNumbered DEF Hand
    <2>2. CASE m_Backtrace # <<>>
      <3> DEFINE turned == Rotated(m_Backtrace, m_BacktraceOldest)
      <3>1. entries'[t] = <<Marker(t)>> \o turned \o <<Marker(t)>>
        BY <2>2 DEF TakeBacktrace, TypeOK
      <3>2. m_Backtrace \in Seq(Record) /\ m_BacktraceOldest \in 0..Len(m_Backtrace) /\ Distinct(m_Backtrace)
        BY DEF TypeOK, Apart
      <3>3. turned \in Seq(Record) /\ Distinct(turned) /\ Numbered(turned) \subseteq Numbered(m_Backtrace)
        BY <3>2, RotatedElements, DistinctRotated
      <3> HIDE DEF turned
      <3>4. /\ Distinct(<<Marker(t)>> \o turned \o <<Marker(t)>>)
            /\ Numbered(<<Marker(t)>> \o turned \o <<Marker(t)>>) \subseteq Numbered(turned)
        BY <3>3, DistinctTaken
      <3>5. QED
        BY <3>1, <3>3, <3>4 DEF Hand
    <2>3. QED
      BY <2>1, <2>2
  <1>3. /\ Distinct(m_Backtrace)' /\ Numbered(m_Backtrace)' = {}
        /\ Distinct(written)' /\ Numbered(written)' = Numbered(written)
        /\ \A u \in Thread \ {t} : Distinct(entries[u])' /\ Hand(u)' = Hand(u)
    BY <1>1, NoneNumbered DEF Apart, Hand
  <1>4. Apart'
    <2>1. \A u \in Thread : Distinct(entries[u])' /\ Hand(u)' \cap Numbered(written)' = {}
      BY <1>2, <1>3 DEF Apart
    <2>2. \A u, v \in Thread : u # v => Hand(u)' \cap Hand(v)' = {}
      BY <1>2, <1>3 DEF Apart
    <2>3. QED
      BY <1>3, <2>1, <2>2 DEF Apart
  <1>5. Placed' \subseteq Placed
    BY <1>2, <1>3 DEF Placed
  <1>6. QED
    BY <1>4, <1>5 DEF PlacesOwn

LEMMA WritePlaces ==
    ASSUME TypeOK, Apart, NumbersOK, NEW t \in Thread, WriteRecord(t)
    PROVE  Apart' /\ PlacesOwn(t)
  <1>1. m_Backtrace' = m_Backtrace /\ pc[t] = "write" /\ written \in Seq(Record)
    BY DEF WriteRecord, ringVars, TypeOK
  <1>2. CASE entries[t] # <<>>
    <2>1. PICK e \in Seq(Record) : e = entries[t] /\ e # <<>>
      BY <1>2 DEF TypeOK
    <2>2. /\ written' = Append(written, Head(e)) /\ entries'[t] = Tail(e)
          /\ \A u \in Thread \ {t} : entries'[u] = entries[u]
      BY <1>2, <2>1 DEF WriteRecord, TypeOK
    <2>3. /\ Distinct(Tail(e)) /\ Numbered(Tail(e)) \subseteq Hand(t) /\ Hand(t) = Numbered(e)
          /\ Head(e).n > 0 => Head(e) \in Hand(t) /\ Head(e) \notin Numbered(Tail(e))
      <3>1. Distinct(e)
        BY <2>1 DEF Apart
      <3>2. QED
        BY <2>1, <3>1, DistinctTail DEF Hand
    <2> DEFINE h == Head(e)
               New == IF h.n > 0 THEN {h} ELSE {}
    <2>4. New \subseteq Hand(t) /\ New \cap Numbered(Tail(e)) = {}
      BY <2>3
    <2>5. Distinct(Append(written, h)) /\ Numbered(Append(written, h)) = Numbered(written) \cup New
      <3>1. h \in Record
        BY <2>1, EmptySeq
      <3>2. h.n > 0 => h \notin Numbered(written)
        BY <2>3 DEF Apart
      <3>3. Distinct(written)
        BY DEF Apart
      <3> HIDE DEF h
      <3>4. QED
        BY <1>1, <3>1, <3>2, <3>3, DistinctAppend
    <2>6. /\ Distinct(written)' /\ Numbered(written)' = Numbered(written) \cup New
          /\ Distinct(entries[t])' /\ Hand(t)' = Numbered(Tail(e))
          /\ Distinct(m_Backtrace)' /\ Numbered(m_Backtrace)' = Numbered(m_Backtrace)
          /\ \A u \in Thread \ {t} : Distinct(entries[u])' /\ Hand(u)' = Hand(u)
      BY <1>1, <2>2, <2>3, <2>5 DEF Apart, Hand
    <2> HIDE DEF New, h
    <2>7. Apart'
      <3>1. \A u \in Thread : Distinct(entries[u])' /\ Hand(u)' \subseteq Hand(u)
        BY <2>3, <2>6
      <3>2. \A u, v \in Thread : u # v => Hand(u)' \cap Hand(v)' = {}
        BY <3>1 DEF Apart
      <3>3. \A u \in Thread : Hand(u)' \cap (Numbered(written) \cup New) = {}
        <4>1. ASSUME NEW u \in Thread \ {t} PROVE Hand(u)' \cap (Numbered(written) \cup New) = {}
          BY <2>4, <2>6 DEF Apart
        <4>2. Hand(t)' \cap (Numbered(written) \cup New) = {}
          BY <2>3, <2>4, <2>6 DEF Apart
        <4>3. QED
          BY <4>1, <4>2
      <3>4. Numbered(m_Backtrace) \cap (Numbered(written) \cup New) = {}
        BY <2>4 DEF Apart
      <3>5. \A u \in Thread : Hand(u)' \cap Numbered(m_Backtrace) = {}
        BY <3>1 DEF Apart
      <3>6. QED
        BY <2>6, <3>1, <3>2, <3>3, <3>4, <3>5 DEF Apart
    <2>8. Placed' \subseteq Placed
      BY <2>3, <2>4, <2>6 DEF Placed
    <2>9. QED
      BY <2>7, <2>8 DEF PlacesOwn
  <1>3. CASE entries[t] = <<>>
    <2> DEFINE r == record[t]
               New == IF r.n > 0 THEN {r} ELSE {}
    <2>1. /\ entries' = entries /\ pc'[t] = "idle"
          /\ written' = IF r.n > 0 THEN Append(written, r) ELSE written
      BY <1>3 DEF WriteRecord, Goto, TypeOK
    <2>2. r.n > 0 => Pending(t) /\ r \notin Placed
      BY <1>1, PendingIsFresh DEF Pending
    <2>3. Distinct(written)' /\ Numbered(written)' = Numbered(written) \cup New
      <3>1. r \in Record /\ Distinct(written) /\ (r.n > 0 => r \notin Numbered(written))
        BY <2>2 DEF TypeOK, Apart, Placed
      <3>2. Distinct(Append(written, r)) /\ Numbered(Append(written, r)) = Numbered(written) \cup New
        BY <1>1, <3>1, DistinctAppend
      <3>3. QED
        BY <2>1, <3>1, <3>2
    <2>4. New \cap Placed = {}
      BY <2>2
    <2>5. /\ Distinct(m_Backtrace)' /\ Numbered(m_Backtrace)' = Numbered(m_Backtrace)
          /\ \A u \in Thread : Distinct(entries[u])' /\ Hand(u)' = Hand(u)
      BY <1>1, <2>1 DEF Apart, Hand
    <2> HIDE DEF New, r
    <2>6. Apart'
      <3>1. New \cap Numbered(m_Backtrace) = {} /\ \A u \in Thread : New \cap Hand(u) = {}
        BY <2>4 DEF Placed
      <3>2. QED
        BY <2>3, <2>5, <3>1 DEF Apart
    <2>7. Placed' \subseteq Placed \cup New
      BY <2>3, <2>5 DEF Placed
    <2>8. QED
      BY <2>1, <2>2, <2>6, <2>7 DEF PlacesOwn, New, r
  <1>4. QED
    BY <1>2, <1>3

LEMMA ThrowPlaces ==
    ASSUME TypeOK, Apart, NEW t \in Thread, Throw(t)
    PROVE  Apart' /\ PlacesOwn(t)
  <1>1. UNCHANGED <<m_Backtrace, written>> /\ entries'[t] = <<>> /\ \A u \in Thread \ {t} : entries'[u] = entries[u]
    BY DEF Throw, ringVars, TypeOK
  <1>2. /\ Distinct(written)' /\ Numbered(written)' = Numbered(written)
        /\ Distinct(m_Backtrace)' /\ Numbered(m_Backtrace)' = Numbered(m_Backtrace)
        /\ \A u \in Thread : Distinct(entries[u])' /\ Hand(u)' \subseteq Hand(u)
    BY <1>1, NoneNumbered DEF Apart, Hand
  <1>3. Apart'
    BY <1>2 DEF Apart
  <1>4. Placed' \subseteq Placed
    BY <1>2 DEF Placed
  <1>5. QED
    BY <1>3, <1>4 DEF PlacesOwn

LEMMA ResizePlaces ==
    ASSUME TypeOK, Apart, NEW t \in Thread, ResizeBacktrace(t)
    PROVE  Apart' /\ PlacesOwn(t)
  <1>1. PICK size \in Nat, turned \in Seq(Record) :
              /\ m_Backtrace' = NewestOf(turned, size)
              /\ Distinct(turned) /\ Numbered(turned) \subseteq Numbered(m_Backtrace)
    <2>1. m_Backtrace \in Seq(Record) /\ m_BacktraceOldest \in 0..Len(m_Backtrace) /\ Distinct(m_Backtrace)
      BY DEF TypeOK, Apart
    <2>2. CapacityOf(newConfig[t]) \in Nat
      BY ConfigType DEF TypeOK
    <2>3. CASE MustRotate(CapacityOf(newConfig[t]))
      <3>1. m_Backtrace' = NewestOf(Rotated(m_Backtrace, m_BacktraceOldest), CapacityOf(newConfig[t]))
        BY <2>3 DEF ResizeBacktrace
      <3>2. QED
        BY <2>1, <2>2, <3>1, RotatedElements, DistinctRotated
    <2>4. CASE ~MustRotate(CapacityOf(newConfig[t]))
      <3>1. m_Backtrace' = NewestOf(m_Backtrace, CapacityOf(newConfig[t]))
        BY <2>4 DEF ResizeBacktrace
      <3>2. QED
        BY <2>1, <2>2, <3>1
    <2>5. QED
      BY <2>3, <2>4
  <1>2. Distinct(m_Backtrace)' /\ Numbered(m_Backtrace)' \subseteq Numbered(m_Backtrace)
    BY <1>1, DistinctNewest
  <1>3. UNCHANGED <<entries, written>>
    BY DEF ResizeBacktrace
  <1>4. /\ Distinct(written)' /\ Numbered(written)' = Numbered(written)
        /\ \A u \in Thread : Distinct(entries[u])' /\ Hand(u)' = Hand(u)
    BY <1>3 DEF Apart, Hand
  <1>5. Apart'
    BY <1>2, <1>4 DEF Apart
  <1>6. Placed' \subseteq Placed
    BY <1>2, <1>4 DEF Placed
  <1>7. QED
    BY <1>5, <1>6 DEF PlacesOwn

\* What a step does to its thread's call, its number and its entry
Calling(t) ==
    \/ /\ calls'[t] = calls[t] /\ record'[t] = record[t]
       /\ Pending(t)' => Pending(t)
    \/ /\ calls'[t] = calls[t] + 1 /\ record'[t].thread = t
       /\ Pending(t)' => record'[t].n = calls[t] + 1
       /\ pc[t] = "idle"
    \/ calls'[t] = calls[t] + 1 /\ record'[t] = record[t] /\ ~Pending(t)'

LEMMA CallingStep ==
    ASSUME TypeOK, NEW t \in Thread, BeginCall(t) \/ Step(t)
    PROVE  /\ Calling(t)
           /\ \A u \in Thread \ {t} : pc'[u] = pc[u] /\ calls'[u] = calls[u] /\ record'[u] = record[u]
  <1>1. pc \in [Thread -> Place] /\ record \in [Thread -> Record] /\ calls \in [Thread -> Nat]
    BY DEF TypeOK
  <1>2. \A u \in Thread \ {t} : pc'[u] = pc[u] /\ calls'[u] = calls[u] /\ record'[u] = record[u]
    <2>1. CASE BeginCall(t)
      BY <2>1, <1>1 DEF BeginCall, Write, DumpBacktrace, SetEnabled, SetMinimumLevel, SetConfig, Called, Goto
    <2>2. CASE Step(t)
      BY <2>2, <1>1
         DEF Step, Enabled, Gate, Route, HasBacktrace, DumpLevel, KeepInBacktrace, TakeBacktrace,
             WriteRecord, Throw, ExchangeMinimum, CompareExchange, ResizeBacktrace, SetDumpLevel,
             ReadLevels, ExchangeBacktraceLevel, argVars, Goto
    <2>3. QED
      BY <2>1, <2>2
  <1>3. ASSUME BeginCall(t) PROVE Calling(t)
    <2>1. ASSUME NEW level \in Level, NEW forced \in BOOLEAN, NEW category \in CategoryLevels,
                 Write(t, level, forced, category)
          PROVE  Calling(t)
      BY <1>1, <2>1 DEF Write, MayCall, Called, Calling, Pending
    <2>2. ASSUME DumpBacktrace(t) PROVE Calling(t)
      BY <1>1, <2>2 DEF DumpBacktrace, MayCall, Called, Calling, Pending, Marker
    <2>3. ASSUME NEW enabled, SetEnabled(t, enabled) PROVE Calling(t)
      BY <1>1, <2>3 DEF SetEnabled, MayCall, Called, Calling, Pending
    <2>4. ASSUME NEW level, SetMinimumLevel(t, level) PROVE Calling(t)
      BY <1>1, <2>4 DEF SetMinimumLevel, MayCall, Called, Goto, Calling, Pending
    <2>5. ASSUME NEW config, SetConfig(t, config) PROVE Calling(t)
      BY <1>1, <2>5 DEF SetConfig, MayCall, Called, Goto, Calling, Pending
    <2>6. \/ \E level \in Level, forced \in BOOLEAN, category \in CategoryLevels :
                Write(t, level, forced, category)
          \/ DumpBacktrace(t)
          \/ (\E enabled : SetEnabled(t, enabled)) \/ (\E level : SetMinimumLevel(t, level))
          \/ (\E config : SetConfig(t, config))
      BY <1>3, Zenon DEF BeginCall
    <2> HIDE DEF Calling
    <2>7. QED
      BY <2>1, <2>2, <2>3, <2>4, <2>5, <2>6, Zenon
  <1>4. ASSUME Step(t) PROVE Calling(t)
    <2>1. calls' = calls /\ record' = record
      BY <1>4 DEF Step, Enabled, Gate, Route, HasBacktrace, DumpLevel, KeepInBacktrace, TakeBacktrace,
                  WriteRecord, Throw, ExchangeMinimum, ResizeBacktrace, SetDumpLevel, ReadLevels,
                  ExchangeBacktraceLevel, argVars
    <2>2. Pending(t)' => Pending(t)
      BY <1>1, <1>4, <2>1
         DEF Step, Enabled, Gate, Route, HasBacktrace, DumpLevel, KeepInBacktrace, TakeBacktrace,
             WriteRecord, Throw, ExchangeMinimum, CompareExchange, ResizeBacktrace, SetDumpLevel,
             ReadLevels, ExchangeBacktraceLevel, Goto, Pending
    <2>3. QED
      <3>1. calls'[t] = calls[t] /\ record'[t] = record[t]
        BY <2>1
      <3>2. QED
        BY <2>2, <3>1, Zenon DEF Calling
  <1>5. QED
    BY <1>2, <1>3, <1>4

LEMMA NumbersStep ==
    ASSUME TypeOK, TypeOK', NumbersOK, NEW t \in Thread, BeginCall(t) \/ Step(t), PlacesOwn(t)
    PROVE  NumbersOK'
  <1>1. /\ Calling(t)
        /\ \A u \in Thread \ {t} : pc'[u] = pc[u] /\ calls'[u] = calls[u] /\ record'[u] = record[u]
    BY CallingStep
  <1>2. /\ \A u \in Thread \ {t} : Pending(u)' <=> Pending(u)
        /\ calls \in [Thread -> Nat] /\ calls' \in [Thread -> Nat]
    BY <1>1 DEF Pending, TypeOK
  <1>3. \A u \in Thread : record'[u].thread = u /\ (Pending(u)' => record'[u].n = calls'[u])
    <2>1. record'[t].thread = t /\ (Pending(t)' => record'[t].n = calls'[t])
      BY <1>1 DEF Calling, NumbersOK
    <2>2. QED
      BY <1>1, <1>2, <2>1 DEF NumbersOK
  <1>4. ASSUME NEW r \in Placed'
        PROVE  r.n <= calls'[r.thread] /\ (Pending(r.thread)' => r.n < record'[r.thread].n)
    <2>1. r.thread \in Thread /\ r.n \in Nat
      <3>1. CASE r \in Placed
        BY <3>1, PlacedType
      <3>2. CASE r = record[t]
        BY <3>2 DEF TypeOK, Record
      <3>3. QED
        BY <1>4, <3>1, <3>2 DEF PlacesOwn
    <2>2. CASE r \in Placed
      <3>1. r.n <= calls[r.thread] /\ (Pending(r.thread) => r.n < record[r.thread].n)
        BY <2>2 DEF NumbersOK
      <3>2. CASE r.thread # t
        BY <1>1, <1>2, <2>1, <3>1, <3>2
      <3>3. CASE r.thread = t
        <4>1. PICK c \in Nat : c = calls[t]
          BY <1>2
        <4>2. CASE calls'[t] = c /\ record'[t] = record[t] /\ (Pending(t)' => Pending(t))
          BY <3>1, <3>3, <4>1, <4>2
        <4>3. CASE calls'[t] = c + 1 /\ (Pending(t)' => record'[t].n = c + 1)
          BY <2>1, <3>1, <3>3, <4>1, <4>3
        <4>4. CASE calls'[t] = c + 1 /\ ~Pending(t)'
          BY <2>1, <3>1, <3>3, <4>1, <4>4
        <4>5. QED
          BY <1>1, <4>1, <4>2, <4>3, <4>4 DEF Calling
      <3>4. QED
        BY <3>2, <3>3
    <2>3. CASE r \notin Placed
      <3>1. Pending(t) /\ pc'[t] = "idle" /\ r = record[t]
        BY <1>4, <2>3 DEF PlacesOwn
      <3>2. r.thread = t /\ r.n = calls[t] /\ ~Pending(t)' /\ pc[t] # "idle"
        BY <3>1 DEF NumbersOK, Pending
      <3>3. calls'[t] = calls[t] \/ calls'[t] = calls[t] + 1
        BY <1>1 DEF Calling
      <3>4. QED
        BY <1>2, <2>1, <3>2, <3>3
    <2>4. QED
      BY <2>2, <2>3
  <1>5. QED
    BY <1>3, <1>4 DEF NumbersOK

LEMMA PlacesStep ==
    ASSUME TypeOK, TypeOK', Apart, NumbersOK, [Next]_vars
    PROVE  Apart' /\ NumbersOK'
  <1>1. CASE UNCHANGED vars
    BY <1>1 DEF Apart, NumbersOK, Placed, Hand, Pending, Numbered, Distinct, RecordsIn, vars, ringVars, argVars
  <1>2. CASE Next
    <2>1. PICK t \in Thread : BeginCall(t) \/ Step(t)
      BY <1>2 DEF Next
    <2>2. CASE MovesRing(t)
      <3>1. Apart' /\ PlacesOwn(t)
        BY <2>2, KeepPlaces, TakePlaces, WritePlaces, ThrowPlaces, ResizePlaces DEF MovesRing
      <3>2. QED
        BY <2>1, <3>1, NumbersStep
    <2>3. CASE ~MovesRing(t)
      <3>1. UNCHANGED <<m_Backtrace, entries, written>>
        BY <2>1, <2>3, OthersMoveNone
      <3>2. Apart' /\ PlacesOwn(t)
        <4>1. /\ Distinct(m_Backtrace)' /\ Numbered(m_Backtrace)' = Numbered(m_Backtrace)
              /\ Distinct(written)' /\ Numbered(written)' = Numbered(written)
              /\ \A u \in Thread : Distinct(entries[u])' /\ Hand(u)' = Hand(u)
          BY <3>1 DEF Apart, Hand
        <4>2. QED
          BY <4>1 DEF Apart, PlacesOwn, Placed
      <3>3. QED
        BY <2>1, <3>2, NumbersStep
    <2>4. QED
      BY <2>2, <2>3
  <1>3. QED
    BY <1>1, <1>2

(***************************************************************************)
(* How often an entry stands in a sequence that has it once, or not.       *)
(***************************************************************************)
LEMMA CopiesOf ==
    ASSUME NEW s, NEW r, Distinct(s), r.n > 0
    PROVE  Copies(s, r) = IF r \in RecordsIn(s) THEN 1 ELSE 0
  <1>1. CASE r \in RecordsIn(s)
    <2>1. PICK i \in 1..Len(s) : r = s[i]
      BY <1>1 DEF RecordsIn
    <2>2. \A j \in 1..Len(s) : s[j] = r => j = i
      BY <2>1, Zenon DEF Distinct
    <2>3. {j \in 1..Len(s) : s[j] = r} = {i}
      BY <2>1, <2>2
    <2>4. QED
      BY <1>1, <2>3, FS_Singleton DEF Copies
  <1>2. CASE r \notin RecordsIn(s)
    <2>1. {j \in 1..Len(s) : s[j] = r} = {}
      BY <1>2 DEF RecordsIn
    <2>2. QED
      BY <1>2, <2>1, FS_EmptySet DEF Copies
  <1>3. QED
    BY <1>1, <1>2

LEMMA ApartIsOnePlace == Apart => InOnePlace
  <1> SUFFICES ASSUME Apart,
                      NEW r \in RecordsIn(m_Backtrace) \cup RecordsIn(written)
                                  \cup UNION {RecordsIn(entries[t]) : t \in Thread},
                      r.n > 0
               PROVE  /\ (IF r \in RecordsIn(m_Backtrace) THEN 1 ELSE 0) + Cardinality(InHand(r))
                           + Copies(written, r) = 1
                      /\ Copies(m_Backtrace, r) <= 1
                      /\ \A t \in Thread : Copies(entries[t], r) <= 1
    BY DEF InOnePlace
  <1>1. /\ Copies(m_Backtrace, r) <= 1
        /\ \A t \in Thread : Copies(entries[t], r) <= 1
        /\ Copies(written, r) = IF r \in RecordsIn(written) THEN 1 ELSE 0
    BY CopiesOf DEF Apart
  <1>2. \A s : r \in Numbered(s) <=> r \in RecordsIn(s)
    BY DEF Numbered
  <1>3. \A t \in Thread : t \in InHand(r) <=> r \in Hand(t)
    BY <1>2 DEF InHand, Hand
  <1>4. InHand(r) \subseteq Thread
    BY DEF InHand
  <1>5. CASE \E t \in Thread : r \in Hand(t)
    <2>1. PICK t \in Thread : r \in Hand(t)
      BY <1>5
    <2>2. InHand(r) = {t}
      BY <1>3, <1>4, <2>1 DEF Apart
    <2>3. r \notin RecordsIn(m_Backtrace) /\ r \notin RecordsIn(written)
      BY <1>2, <2>1 DEF Apart
    <2>4. Cardinality(InHand(r)) = 1
      BY <2>2, FS_Singleton
    <2>5. QED
      BY <1>1, <2>3, <2>4
  <1>6. CASE ~\E t \in Thread : r \in Hand(t)
    <2>1. InHand(r) = {}
      BY <1>3, <1>4, <1>6
    <2>2. Cardinality(InHand(r)) = 0
      BY <2>1, FS_EmptySet
    <2>3. r \in RecordsIn(m_Backtrace) \/ r \in RecordsIn(written)
      <3>1. \A t \in Thread : r \notin RecordsIn(entries[t])
        BY <1>2, <1>6, Zenon DEF Hand
      <3>2. QED
        BY <3>1
    <2>4. ~(r \in RecordsIn(m_Backtrace) /\ r \in RecordsIn(written))
      BY <1>2 DEF Apart
    <2>5. QED
      BY <1>1, <2>2, <2>3, <2>4
  <1>7. QED
    BY <1>5, <1>6

(***************************************************************************)
(* Every entry is in one place: kept in the ring, taken by one thread that *)
(* dumps it, or written, and there once, whatever threads keep, dump and   *)
(* resize at the same time (KeepInBacktrace(), TakeBacktrace() and         *)
(* ApplyBacktraceConfig()).                                                *)
(***************************************************************************)
THEOREM EntriesAreInOnePlace == Spec => []InOnePlace
  <1>1. Init => Apart /\ NumbersOK
    <2>1. ASSUME Init PROVE Apart /\ NumbersOK
      <3>1. m_Backtrace = <<>> /\ written = <<>> /\ \A t \in Thread : entries[t] = <<>>
        BY <2>1 DEF Init
      <3>2. Apart /\ Placed = {}
        BY <3>1, NoneNumbered DEF Apart, Placed, Hand
      <3>3. NumbersOK
        BY <2>1, <3>2 DEF Init, NumbersOK, Pending, Marker
      <3>4. QED
        BY <3>2, <3>3
    <2>2. QED
      BY <2>1
  <1>2. TypeOK /\ TypeOK' /\ Apart /\ NumbersOK /\ [Next]_vars => Apart' /\ NumbersOK'
    BY PlacesStep
  <1>3. QED
    BY <1>1, <1>2, ApartIsOnePlace, TypeCorrect, PTL DEF Spec
=============================================================================
