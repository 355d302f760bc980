----------------------------- MODULE Backtrace -----------------------------
(***************************************************************************)
(* The gate and the backtrace of a logger (TASWLogBase): Write() lets an   *)
(* entry in by the packed levels, without a lock; an entry below the       *)
(* minimum level is kept in a ring, and one at or above DumpAtLevel first  *)
(* writes what the ring holds.  Levels, the enabled flag and the config    *)
(* change meanwhile.                                                       *)
(*                                                                         *)
(* A step is one critical section of m_BacktraceMutex, one access to an    *)
(* atomic, or one call of the derived logger's WriteRecord().              *)
(***************************************************************************)
EXTENDS Integers, Sequences, FiniteSets

CONSTANTS
    Thread,
    Off,            \* the highest level; the others are 0..Off-1
    CategoryLevels, \* levels of the categories entries come through, or NoLevel
    NoLevel,        \* an entry without a category level (or one not forced)
    Configs,        \* the backtrace configs SetConfig() gets
    Calls,          \* what each thread calls: a set of the names in BeginCall
    MaxCalls        \* bound: how many calls each thread makes

Level == 0..Off

\* TASWBacktraceConfig
Config == [Capacity : Nat, LowestLevel : Level, DumpAtLevel : Level]

ASSUME LevelAssumption == Off \in Nat /\ NoLevel \notin Level
ASSUME CategoryAssumption == CategoryLevels \subseteq Level \cup {NoLevel}
ASSUME ConfigsAssumption == Configs \subseteq Config /\ Configs # {}
ASSUME BoundAssumption == MaxCalls \in [Thread -> Nat]
ASSUME CallsAssumption ==
    Calls \in [Thread -> SUBSET {"Write", "DumpBacktrace", "SetEnabled", "SetMinimumLevel", "SetConfig"}]

VARIABLES
    m_Levels,         \* the atomic that packs the three levels
    m_IsEnabled,
    m_Backtrace, m_BacktraceOldest, m_BacktraceCapacity,  \* under m_BacktraceMutex
    m_HasBacktrace, m_BacktraceDumpLevel,
    \* each thread's call and its argument; the levels its compare-exchange
    \* expects; the entries it took and has yet to write
    pc, record, newLevel, newConfig, levels, entries,
    calls,
    written           \* what WriteRecord() got, in order

ringVars == <<m_Backtrace, m_BacktraceOldest, m_BacktraceCapacity, m_HasBacktrace>>
gateVars == <<m_Levels, m_IsEnabled, m_BacktraceDumpLevel>>
argVars == <<record, newLevel, newConfig, calls>>
vars == <<ringVars, gateVars, pc, argVars, levels, entries, written>>

----------------------------------------------------------------------------
(* Data *)

\* A record: of its thread's n-th call; the two markers around a written
\* backtrace have n = 0.
Record == [thread : Thread, n : Nat, level : Level, forced : BOOLEAN,
           category : Level \cup {NoLevel}]

Marker(t) == [thread |-> t, n |-> 0, level |-> 0, forced |-> TRUE, category |-> NoLevel]

\* PackLevels()
Pack(minimumLevel, backtraceLevel) ==
    [gate |-> IF minimumLevel = Off \/ backtraceLevel >= minimumLevel
              THEN minimumLevel ELSE backtraceLevel,
     minimum |-> minimumLevel, backtrace |-> backtraceLevel]

IsOn(config) == config.Capacity > 0 /\ config.LowestLevel # Off
CapacityOf(config) == IF IsOn(config) THEN config.Capacity ELSE 0
\* Mutant: set even without a ring
LowestLevelOf(config) == config.LowestLevel
BacktraceLevelOf(config) == IF IsOn(config) THEN config.LowestLevel ELSE Off

\* The gate for a category's level is made of it and the backtrace's
Passes(r) ==
    r.level >= IF r.category = NoLevel THEN m_Levels.gate ELSE Pack(r.category, m_Levels.backtrace).gate

MinimumLevelFor(r) == IF r.category = NoLevel THEN m_Levels.minimum ELSE r.category

Place == {"idle", "enabled", "gate", "route", "keep", "has", "dumpLevel", "take", "write",
          "setMinimum", "resize", "setDumpLevel", "readLevels", "setBacktraceLevel"}

\* std::rotate(): the element at oldest becomes the first
Rotated(s, oldest) == SubSeq(s, oldest + 1, Len(s)) \o SubSeq(s, 1, oldest)

\* The entries left when only capacity of them may stay
\* Mutant: erases the newest
OldestOf(s, size) == IF Len(s) > size THEN SubSeq(s, 1, size) ELSE s
NewestOf(s, size) == IF Len(s) > size THEN SubSeq(s, Len(s) - size + 1, Len(s)) ELSE s

Goto(t, label) == pc' = [pc EXCEPT ![t] = label]

----------------------------------------------------------------------------
(* SetConfig(), Reconfigure()'s and Initialize()'s, leaves the logger with *)
(* a config applied.                                                       *)

Init ==
    /\ \E config \in Configs, minimumLevel \in Level :
          /\ newConfig = [t \in Thread |-> config]
          /\ m_BacktraceCapacity = CapacityOf(config)
          /\ m_BacktraceDumpLevel = config.DumpAtLevel
          /\ m_Levels = Pack(minimumLevel, BacktraceLevelOf(config))
    /\ m_IsEnabled = TRUE
    /\ m_Backtrace = <<>> /\ m_BacktraceOldest = 0 /\ m_HasBacktrace = FALSE
    /\ pc = [t \in Thread |-> "idle"]
    /\ record = [t \in Thread |-> Marker(t)]
    /\ newLevel = [t \in Thread |-> 0]
    /\ levels = [t \in Thread |-> Pack(0, 0)]
    /\ entries = [t \in Thread |-> <<>>]
    /\ calls = [t \in Thread |-> 0]
    /\ written = <<>>

----------------------------------------------------------------------------
(* Write() and WriteOrKeep() *)

MayCall(t) == pc[t] = "idle" /\ calls[t] < MaxCalls[t]
Called(t) == calls' = [calls EXCEPT ![t] = @ + 1]

\* A forced entry has no use for its category's level
Write(t, level, forced, category) ==
    /\ MayCall(t) /\ Called(t)
    /\ forced => category = NoLevel
    /\ record' = [record EXCEPT ![t] = [thread |-> t, n |-> calls[t] + 1, level |-> level,
                                        forced |-> forced, category |-> category]]
    /\ Goto(t, IF level = Off THEN "idle" ELSE IF category = NoLevel THEN "enabled" ELSE "gate")
    /\ UNCHANGED <<ringVars, gateVars, newLevel, newConfig, levels, entries, written>>

\* PassesLevelGate() reads m_Levels for an entry with a category's level
\* before m_IsEnabled, for another one after it
Enabled(t) ==
    /\ pc[t] = "enabled"
    /\ Goto(t, IF ~m_IsEnabled THEN "idle"
               ELSE IF record[t].forced \/ record[t].category # NoLevel THEN "route" ELSE "gate")
    /\ UNCHANGED <<ringVars, gateVars, argVars, levels, entries, written>>

Gate(t) ==
    /\ pc[t] = "gate"
    /\ Goto(t, IF ~Passes(record[t]) THEN "idle"
               ELSE IF record[t].category # NoLevel THEN "enabled" ELSE "route")
    /\ UNCHANGED <<ringVars, gateVars, argVars, levels, entries, written>>

\* The minimum level is read again
Route(t) ==
    /\ pc[t] = "route"
    /\ Goto(t, IF ~record[t].forced /\ record[t].level < MinimumLevelFor(record[t])
               THEN "keep" ELSE "has")
    /\ UNCHANGED <<ringVars, gateVars, argVars, levels, entries, written>>

\* Reads m_HasBacktrace without the lock, for an entry or for DumpBacktrace()
HasBacktrace(t) ==
    /\ pc[t] = "has"
    /\ Goto(t, IF m_HasBacktrace
               THEN IF record[t].n > 0 THEN "dumpLevel" ELSE "take"
               ELSE IF record[t].n > 0 THEN "write" ELSE "idle")
    /\ UNCHANGED <<ringVars, gateVars, argVars, levels, entries, written>>

\* Mutant: off by one
IsAboveDumpLevel(r) == r.level > m_BacktraceDumpLevel
IsAtDumpLevel(r) == r.level >= m_BacktraceDumpLevel

DumpLevel(t) ==
    /\ pc[t] = "dumpLevel"
    /\ Goto(t, IF IsAtDumpLevel(record[t]) THEN "take" ELSE "write")
    /\ UNCHANGED <<ringVars, gateVars, argVars, levels, entries, written>>

\* KeepInBacktrace(): after the newest until the ring is full, then in the
\* oldest's place
KeepInBacktrace(t) ==
    /\ pc[t] = "keep"
    /\ IF m_BacktraceCapacity = 0
       THEN UNCHANGED ringVars
       ELSE /\ IF Len(m_Backtrace) < m_BacktraceCapacity
               THEN /\ m_Backtrace' = Append(m_Backtrace, record[t])
                    /\ UNCHANGED m_BacktraceOldest
               ELSE /\ m_Backtrace' = [m_Backtrace EXCEPT ![m_BacktraceOldest + 1] = record[t]]
                    /\ m_BacktraceOldest' = (m_BacktraceOldest + 1) % m_BacktraceCapacity
            /\ m_HasBacktrace' = TRUE
            /\ UNCHANGED m_BacktraceCapacity
    /\ Goto(t, "idle")
    /\ UNCHANGED <<gateVars, argVars, levels, entries, written>>

\* Mutant: copies the entries instead of moving them
StillInRing == m_Backtrace
LeftInRing == <<>>

\* TakeBacktrace(), and the markers of WriteBacktrace()
TakeBacktrace(t) ==
    /\ pc[t] = "take"
    /\ entries' = [entries EXCEPT ![t] =
          IF m_Backtrace = <<>> THEN <<>>
          ELSE <<Marker(t)>> \o Rotated(m_Backtrace, m_BacktraceOldest) \o <<Marker(t)>>]
    /\ m_Backtrace' = LeftInRing /\ m_BacktraceOldest' = 0
    /\ m_HasBacktrace' = FALSE
    /\ Goto(t, "write")
    /\ UNCHANGED <<m_BacktraceCapacity, gateVars, argVars, levels, written>>

\* WriteRecord() for each of the entries taken, then for the call's own
WriteRecord(t) ==
    /\ pc[t] = "write"
    /\ \/ /\ entries[t] # <<>>
          /\ written' = Append(written, Head(entries[t]))
          /\ entries' = [entries EXCEPT ![t] = Tail(@)]
          /\ pc' = pc
       \/ /\ entries[t] = <<>>
          /\ written' = IF record[t].n > 0 THEN Append(written, record[t]) ELSE written
          /\ Goto(t, "idle") /\ entries' = entries
    /\ UNCHANGED <<ringVars, gateVars, argVars, levels>>

\* An exception of WriteRecord()'s, or of a copy KeepInBacktrace() makes,
\* is reported by the call, which returns: what it had taken is gone
Throw(t) ==
    /\ pc[t] \in {"keep", "write"}
    /\ entries' = [entries EXCEPT ![t] = <<>>]
    /\ Goto(t, "idle")
    /\ UNCHANGED <<ringVars, gateVars, argVars, levels, written>>

DumpBacktrace(t) ==
    /\ MayCall(t) /\ Called(t)
    /\ record' = [record EXCEPT ![t] = Marker(t)]
    /\ Goto(t, IF m_IsEnabled THEN "has" ELSE "idle")
    /\ UNCHANGED <<ringVars, gateVars, newLevel, newConfig, levels, entries, written>>

----------------------------------------------------------------------------
(* The settings *)

SetEnabled(t, enabled) ==
    /\ MayCall(t) /\ Called(t)
    /\ m_IsEnabled' = enabled
    /\ UNCHANGED <<ringVars, m_Levels, m_BacktraceDumpLevel, pc, record, newLevel, newConfig,
                   levels, entries, written>>

\* Reads m_Levels, then exchanges it until nobody has changed it meanwhile
SetMinimumLevel(t, level) ==
    /\ MayCall(t) /\ Called(t)
    /\ newLevel' = [newLevel EXCEPT ![t] = level]
    /\ levels' = [levels EXCEPT ![t] = m_Levels]
    /\ Goto(t, "setMinimum")
    /\ UNCHANGED <<ringVars, gateVars, record, newConfig, entries, written>>

\* compare_exchange_weak(levels, desired), which may fail without a reason
CompareExchange(t, desired) ==
    \/ m_Levels = levels[t] /\ m_Levels' = desired /\ Goto(t, "idle") /\ levels' = levels
    \/ m_Levels' = m_Levels /\ levels' = [levels EXCEPT ![t] = m_Levels] /\ pc' = pc

ExchangeMinimum(t) ==
    /\ pc[t] = "setMinimum"
    /\ CompareExchange(t, Pack(newLevel[t], levels[t].backtrace))
    /\ UNCHANGED <<ringVars, m_IsEnabled, m_BacktraceDumpLevel, argVars, entries, written>>

\* Under the derived logger's lock: one config at a time
IsApplying(t) == pc[t] \in {"resize", "setDumpLevel", "readLevels", "setBacktraceLevel"}

SetConfig(t, config) ==
    /\ MayCall(t) /\ Called(t)
    /\ \A u \in Thread : ~IsApplying(u)
    /\ newConfig' = [newConfig EXCEPT ![t] = config]
    /\ Goto(t, "resize")
    /\ UNCHANGED <<ringVars, gateVars, record, newLevel, levels, entries, written>>

\* std::rotate(), then erase(): an entry added later must go after the newest
MustRotate(size) ==
    Len(m_Backtrace) > size \/ (m_BacktraceOldest # 0 /\ size # m_BacktraceCapacity)

\* ApplyBacktraceConfig(): first the ring
ResizeBacktrace(t) ==
    LET size == CapacityOf(newConfig[t])
    IN  /\ pc[t] = "resize"
        /\ m_BacktraceOldest' = IF MustRotate(size) THEN 0 ELSE m_BacktraceOldest
        /\ m_Backtrace' = NewestOf(IF MustRotate(size) THEN Rotated(m_Backtrace, m_BacktraceOldest)
                                   ELSE m_Backtrace, size)
        /\ m_BacktraceCapacity' = size
        /\ m_HasBacktrace' = (m_Backtrace' # <<>>)
        /\ Goto(t, "setDumpLevel")
        /\ UNCHANGED <<gateVars, argVars, levels, entries, written>>

SetDumpLevel(t) ==
    /\ pc[t] = "setDumpLevel"
    /\ m_BacktraceDumpLevel' = newConfig[t].DumpAtLevel
    /\ Goto(t, "readLevels")
    /\ UNCHANGED <<ringVars, m_Levels, m_IsEnabled, argVars, levels, entries, written>>

ReadLevels(t) ==
    /\ pc[t] = "readLevels"
    /\ levels' = [levels EXCEPT ![t] = m_Levels]
    /\ Goto(t, "setBacktraceLevel")
    /\ UNCHANGED <<ringVars, gateVars, argVars, entries, written>>

ExchangeBacktraceLevel(t) ==
    /\ pc[t] = "setBacktraceLevel"
    /\ CompareExchange(t, Pack(levels[t].minimum, BacktraceLevelOf(newConfig[t])))
    /\ UNCHANGED <<ringVars, m_IsEnabled, m_BacktraceDumpLevel, argVars, entries, written>>

----------------------------------------------------------------------------
(* The specification *)

BeginCall(t) ==
    \/ /\ "Write" \in Calls[t]
       /\ \E level \in Level, forced \in BOOLEAN, category \in CategoryLevels :
             Write(t, level, forced, category)
    \/ "DumpBacktrace" \in Calls[t] /\ DumpBacktrace(t)
    \/ "SetEnabled" \in Calls[t] /\ \E enabled \in BOOLEAN : SetEnabled(t, enabled)
    \/ "SetMinimumLevel" \in Calls[t] /\ \E level \in Level : SetMinimumLevel(t, level)
    \/ "SetConfig" \in Calls[t] /\ \E config \in Configs : SetConfig(t, config)

Step(t) ==
    \/ Enabled(t) \/ Gate(t) \/ Route(t) \/ HasBacktrace(t) \/ DumpLevel(t)
    \/ KeepInBacktrace(t) \/ TakeBacktrace(t) \/ WriteRecord(t) \/ Throw(t)
    \/ ExchangeMinimum(t)
    \/ ResizeBacktrace(t) \/ SetDumpLevel(t) \/ ReadLevels(t) \/ ExchangeBacktraceLevel(t)

Next == \E t \in Thread : BeginCall(t) \/ Step(t)

Spec == Init /\ [][Next]_vars

----------------------------------------------------------------------------
(* Properties *)

Kept == Rotated(m_Backtrace, m_BacktraceOldest)

\* Types; the ring starts past its first element only once it is full, never
\* exceeds its capacity, and m_HasBacktrace says whether it is empty
\* (m_BacktraceOldest and m_HasBacktrace in ASWLog_Base.h).
TypeOK ==
    /\ m_Levels \in [gate : Level, minimum : Level, backtrace : Level]
    /\ m_IsEnabled \in BOOLEAN /\ m_HasBacktrace \in BOOLEAN
    /\ m_Backtrace \in Seq(Record)
    /\ m_BacktraceCapacity \in Nat /\ m_BacktraceOldest \in Nat
    /\ m_BacktraceDumpLevel \in Level
    /\ pc \in [Thread -> Place]
    /\ record \in [Thread -> Record]
    /\ newLevel \in [Thread -> Level] /\ newConfig \in [Thread -> Configs]
    /\ levels \in [Thread -> [gate : Level, minimum : Level, backtrace : Level]]
    /\ entries \in [Thread -> Seq(Record)]
    /\ calls \in [Thread -> Nat]
    /\ written \in Seq(Record)
    /\ Len(m_Backtrace) <= m_BacktraceCapacity
    /\ m_BacktraceOldest # 0 => m_BacktraceOldest < Len(m_Backtrace)
                                 /\ Len(m_Backtrace) = m_BacktraceCapacity
    /\ m_HasBacktrace <=> m_Backtrace # <<>>

\* The ring with its oldest index, written to and resized in place, keeps
\* what TASWBacktraceConfig says: the newest entries, oldest first, at most
\* Capacity of them; a dump takes them all (KeepInBacktrace(),
\* ApplyBacktraceConfig(), TakeBacktrace()).
Ring == INSTANCE NewestEntries
            WITH kept <- Kept, capacity <- m_BacktraceCapacity,
                 Entries <- Record, Capacities <- {CapacityOf(config) : config \in Configs}
KeepsTheNewest == Ring!Spec

\* Once no config is being applied, the gate lets entries below the minimum
\* level in exactly if there is a ring to keep them: SetMinimumLevel() and
\* ApplyBacktraceConfig() exchange the same word at the same time.
GateMatchesRing ==
    (\A t \in Thread : ~IsApplying(t)) =>
        (m_Levels.backtrace = Off <=> m_BacktraceCapacity = 0)

\* No update is lost: a change of the minimum level never takes back the
\* backtrace's level, nor a new backtrace config the minimum level.
OneLevelChanges ==
    [][m_Levels'.minimum = m_Levels.minimum \/ m_Levels'.backtrace = m_Levels.backtrace]_vars

\* How often an entry stands in the ring, in a thread's hands or in the log
Copies(s, r) == Cardinality({i \in 1..Len(s) : s[i] = r})
RecordsIn(s) == {s[i] : i \in 1..Len(s)}
InHand(r) == {t \in Thread : r \in RecordsIn(entries[t])}

\* An entry is written at most once, whatever keeps, dumps and resizes run
\* at the same time: it is in the ring, or taken by one thread, or written.
InOnePlace ==
    \A r \in RecordsIn(m_Backtrace) \cup RecordsIn(written)
               \cup UNION {RecordsIn(entries[t]) : t \in Thread} :
        r.n > 0 =>
            /\ (IF r \in RecordsIn(m_Backtrace) THEN 1 ELSE 0) + Cardinality(InHand(r))
                  + Copies(written, r) = 1
            /\ Copies(m_Backtrace, r) <= 1
            /\ \A t \in Thread : Copies(entries[t], r) <= 1

DumpsAlways(r) == r.n > 0 /\ \A config \in Configs : r.level >= config.DumpAtLevel

\* When an entry that dumps is written, none of its thread's own entries is
\* still in the ring: the flag the thread reads without the lock
\* (WriteOrKeep()) never hides an entry it kept itself.
OwnEntriesAreTaken ==
    \A t \in Thread :
        pc[t] = "write" /\ entries[t] = <<>> /\ DumpsAlways(record[t]) =>
            \A r \in RecordsIn(m_Backtrace) : r.thread # t

\* docs/Configuration.md:151: "Writing an entry at or above this level
\* writes the kept entries first": in the log, no entry a thread kept before
\* such an entry of its own stands after it.  No run claims it: while another
\* thread writes the entries it took, this one's error may come before them.
KeptEntriesFirst ==
    \A i, j \in 1..Len(written) :
        /\ i < j
        /\ DumpsAlways(written[i])
        /\ written[j].n > 0
        /\ written[j].thread = written[i].thread
        => written[i].n < written[j].n
=============================================================================
