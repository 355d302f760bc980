------------------------------ MODULE Routing ------------------------------
(***************************************************************************)
(* How an entry gets from a call of the logging interface, through         *)
(* category loggers and a multi-log, to the loggers that write it, while   *)
(* the multi-log's list of loggers, the levels and the rules of            *)
(* TASWCategoryLog::ApplyLevels() change under it.                         *)
(*                                                                         *)
(* A name is a sequence of characters; a rule's name covers a category by  *)
(* its characters, as in the code. The sinks are loggers that write, with  *)
(* a level of their own and no backtrace (see Backtrace).                  *)
(***************************************************************************)
EXTENDS Integers, Sequences, FiniteSets, SequencesExt

CONSTANTS
    Sinks, Multi, Categories, Threads,
    OwnName,      \* the name each category is made with
    Wrapped,      \* the logger each category wraps
    Levels, Off,  \* the levels an entry can have, and the one above them
    Instances     \* what the threads do, below

Loggers == Sinks \cup {Multi} \cup Categories
NoOwnLevel == -1
NoRecord == [op |-> "none"]
NoConfig == [hook |-> FALSE, level |-> 0]
Forms == {"text", "text, fields", "wide", "format", "format, fields", "wide format", "wide format, fields"}

VARIABLES
    instance,
    m_Sinks,           \* the multi-log's list
    m_IsInitialized,   \* of the multi-log and the sinks
    isOpen,            \* of the sinks: whether the output is open
    hasHook,           \* whether the config of each has an OnBeforeWrite hook
    m_MinimumLevel, m_IsEnabled,
    registry,          \* the category registry: who holds its Mutex, the
                       \* Categories that exist and the Rules
    m_Level,           \* the categories' own levels
    pc, at,            \* where each thread is, and in which logger
    record, todo, ok,  \* its entry, the loggers still to call, the result so far
    calls,
    applied, chosen,   \* for the properties: the spec applied last, the
                       \* categories given a level by a call of their own since,
    seen               \* and what each thread's call has met, below

Lower(c) == CASE c = "N" -> "n" [] c = "H" -> "h" [] OTHER -> c

ASSUME StructureAssumption ==
    /\ Wrapped \in [Categories -> Loggers] /\ Off \in Nat /\ Levels \subseteq 0 .. Off - 1
    /\ Multi \notin Sinks /\ Categories \cap (Sinks \cup {Multi}) = {}
    /\ IsFiniteSet(Categories)
\* The sinks listed at first, each once, those initialized with a hook of their own,
\* those that write to a file and, of these, those whose configs open and close it for
\* each entry (File.AutoOpenClosePerWrite); what each thread calls, on which loggers
\* and with which entries, configs, levels and ApplyLevels() specs, and the bound on
\* its calls
ASSUME InstanceAssumption ==
    \A i \in Instances :
        /\ i.sinks \in Seq(Sinks) /\ IsInjective(i.sinks) /\ i.configs \subseteq [hook : BOOLEAN, level : Nat]
        /\ i.files \subseteq Sinks /\ i.perWrite \subseteq i.files
        /\ i.to \subseteq Loggers /\ i.forms \subseteq Forms
        /\ DOMAIN i.ops = Threads /\ i.maxCalls \in Nat
        /\ i.made \subseteq Categories /\ i.specs \subseteq Seq([name : Seq(STRING), level : Int])

\* The sinks listed during the whole of the call, and at some time of it; those
\* closed meanwhile; the sinks called, whether each let the entry pass and how
\* many hooks had run; ShouldLog() as the call began, and whether no other
\* thread has changed a level, a rule or the list since
NothingSeen == [all |-> {}, once |-> {}, closed |-> {}, called |-> <<>>, asked |-> FALSE, quiet |-> TRUE]

multiVars == <<m_Sinks, m_IsInitialized, isOpen, hasHook>>
gateVars == <<m_MinimumLevel, m_IsEnabled>>
categoryVars == <<registry, m_Level, applied, chosen>>
callVars == <<pc, at, record, todo, ok, calls>>
vars == <<instance, multiVars, gateVars, categoryVars, callVars, seen>>

----------------------------------------------------------------------------
(* Names and rules *)

EqualsIgnoringCase(a, b) == Len(a) = Len(b) /\ \A i \in DOMAIN a : Lower(a[i]) = Lower(b[i])

\* From a category to the last one before the logger it belongs to
Path[c \in Categories] == IF Wrapped[c] \in Categories THEN <<c>> \o Path[Wrapped[c]] ELSE <<c>>
\* A category wraps a logger that exists, so that every path ends
ASSUME PathAssumption ==
    /\ Path \in [Categories -> Seq(Categories)]
    /\ \A c \in Categories : Path[c] = IF Wrapped[c] \in Categories THEN <<c>> \o Path[Wrapped[c]] ELSE <<c>>
Base(l) == IF l \in Categories THEN Wrapped[Last(Path[l])] ELSE l

MakeCategoryName[c \in Categories] ==
    IF Wrapped[c] \in Categories THEN MakeCategoryName[Wrapped[c]] \o <<".">> \o OwnName[c] ELSE OwnName[c]

ASSUME NameAssumption == MakeCategoryName \in [Categories -> Seq(STRING)]

LengthOf(rule) == IF rule.name = <<"*">> THEN 0 ELSE Len(rule.name)
\* Mutant: a name covers those that begin with it
CoversAnyPrefix(rule, name) ==
    \/ rule.name = <<"*">>
    \/ /\ Len(name) >= Len(rule.name)
       /\ EqualsIgnoringCase(SubSeq(name, 1, Len(rule.name)), rule.name)
Covers(rule, name) ==
    \/ rule.name = <<"*">>
    \/ /\ Len(name) >= Len(rule.name)
       /\ EqualsIgnoringCase(SubSeq(name, 1, Len(rule.name)), rule.name)
       /\ Len(name) = Len(rule.name) \/ name[Len(rule.name) + 1] = "."

\* The rules covering a name, the one with the longest name first found
FindLevelRule(rules, name) ==
    LET covering == {i \in DOMAIN rules : Covers(rules[i], name)}
        length(i) == LengthOf(rules[i])
    IN  IF covering = {} THEN <<>>
        ELSE <<rules[CHOOSE i \in covering :
                  \A j \in covering : length(j) < length(i) \/ (length(j) = length(i) /\ i <= j)]>>

RuleLevel(rules, c, otherwise) ==
    LET found == FindLevelRule(rules, MakeCategoryName[c])
    IN  IF found = <<>> THEN otherwise ELSE found[1].level

\* The items of a spec: empty ones are skipped, an invalid one fails the whole,
\* a name given again replaces its level
AddRule(rules, item) ==
    LET same == {i \in DOMAIN rules : EqualsIgnoringCase(rules[i].name, item.name)}
    IN  IF same = {} THEN Append(rules, item)
        ELSE [rules EXCEPT ![CHOOSE i \in same : \A j \in same : i <= j].level = item.level]
IsValidItem(item) ==
    /\ item.name # <<>> /\ item.level \in Levels \cup {Off}
    /\ item.name = <<"*">> \/ \A i \in DOMAIN item.name : item.name[i] # "*"
IsEmpty(item) == item = [name |-> <<>>, level |-> NoOwnLevel]
ParseLevelRules(spec) ==
    LET rules[n \in 0..Len(spec)] ==
            IF n = 0 THEN <<>>
            ELSE IF IsEmpty(spec[n]) THEN rules[n - 1] ELSE AddRule(rules[n - 1], spec[n])
    IN  [isValid |-> \A i \in DOMAIN spec : IsEmpty(spec[i]) \/ IsValidItem(spec[i]),
         rules |-> rules[Len(spec)]]

Init ==
    /\ instance \in Instances
    /\ m_Sinks = instance.sinks
    /\ m_IsInitialized = [l \in Sinks \cup {Multi} |-> TRUE]
    /\ isOpen = [l \in Sinks |-> l \notin instance.perWrite]
    /\ hasHook = [l \in Sinks \cup {Multi} |-> l = Multi \/ l \in instance.ownHooks]
    /\ m_MinimumLevel = [l \in Sinks \cup {Multi} |-> 0] /\ m_IsEnabled = [l \in Loggers |-> TRUE]
    /\ registry = [Mutex |-> {}, Categories |-> instance.made, Rules |-> <<>>]
    /\ m_Level = [c \in Categories |-> NoOwnLevel] /\ applied = <<>> /\ chosen = {}
    /\ pc = [t \in Threads |-> "idle"] /\ at = [t \in Threads |-> Multi]
    /\ record = [t \in Threads |-> NoRecord] /\ todo = [t \in Threads |-> <<>>]
    /\ ok = [t \in Threads |-> TRUE] /\ calls = [t \in Threads |-> 0]
    /\ seen = [t \in Threads |-> NothingSeen]

----------------------------------------------------------------------------
(* Levels *)

IsUsable(l) == l \in Categories => ToSet(Path[l]) \subseteq registry.Categories

\* The gate of a multi-log or a sink
GetMinimumLevelFor(l, r) == IF r.categoryLevel # NoOwnLevel THEN r.categoryLevel ELSE m_MinimumLevel[l]
PassesLevelGate(l, r) ==
    /\ m_IsEnabled[l] /\ r.level # Off
    /\ r.forced \/ r.level >= GetMinimumLevelFor(l, r)

WithCategory(c, r) ==
    [r EXCEPT !.category = IF @ = <<>> THEN MakeCategoryName[c] ELSE @,
              !.categoryLevel = IF @ = NoOwnLevel THEN m_Level[c] ELSE @]

\* A category's level replaces the composite's, not the sinks'
SinkRecord(r) == [r EXCEPT !.categoryLevel = NoOwnLevel]

\* GetMinimumLevel() of a category
GetMinimumLevel[c \in Categories] ==
    IF m_Level[c] # NoOwnLevel THEN m_Level[c]
    ELSE IF Wrapped[c] \in Categories THEN GetMinimumLevel[Wrapped[c]] ELSE m_MinimumLevel[Wrapped[c]]

ShouldLogHere(l, r) ==
    /\ PassesLevelGate(l, r)
    /\ l = Multi => \E i \in DOMAIN m_Sinks : PassesLevelGate(m_Sinks[i], SinkRecord(r))

\* ShouldLog(record): each category on the path sets the level that is not set yet
FirstLevel(c) ==
    LET own == {i \in DOMAIN Path[c] : m_Level[Path[c][i]] # NoOwnLevel}
    IN  IF own = {} THEN NoOwnLevel ELSE m_Level[Path[c][CHOOSE i \in own : \A j \in own : i <= j]]
ShouldLog(l, r) ==
    IF l \notin Categories THEN ShouldLogHere(l, r)
    ELSE /\ \A i \in DOMAIN Path[l] : m_IsEnabled[Path[l][i]]
         /\ ShouldLogHere(Base(l), [r EXCEPT !.categoryLevel = IF @ = NoOwnLevel THEN FirstLevel(l) ELSE @])

MakeRecord(entry) ==
    [level |-> entry.level, forced |-> entry.forced, category |-> <<>>, categoryLevel |-> NoOwnLevel, hooks |-> 0]

----------------------------------------------------------------------------
(* Calls *)

Return(t) == pc' = [pc EXCEPT ![t] = "idle"]
Goto(t, label) == pc' = [pc EXCEPT ![t] = label]
MayCall(t, op) == pc[t] = "idle" /\ op \in instance.ops[t] /\ calls[t] < instance.maxCalls

\* What a call has seen as it begins, and what the other threads' calls have once
\* a step of t changed a level, a rule or the list, to `sinks`
Begun(asked) == [NothingSeen EXCEPT !.all = ToSet(m_Sinks), !.once = ToSet(m_Sinks), !.asked = asked]
Disturbed(t, sinks) ==
    [u \in Threads |->
        IF u = t THEN seen[u]
        ELSE [seen[u] EXCEPT !.quiet = FALSE, !.all = @ \cap ToSet(sinks), !.once = @ \cup ToSet(sinks)]]

\* A call that is one step: `others` is the history it leaves the other threads
Call(t, op, others) ==
    /\ MayCall(t, op)
    /\ calls' = [calls EXCEPT ![t] = @ + 1]
    /\ seen' = [others EXCEPT ![t] = NothingSeen]
    /\ UNCHANGED <<instance, at, record>>

----------------------------------------------------------------------------
(* Logging: the calls of the interface. ShouldLog() is taken as one step *)

\* Log(), LogRaw(), LogForce(), LogForceRaw() and the methods of each level,
\* with fields or not: the entry goes to Write() as it is
LogText(l, r) == TRUE
LogTextWithFields(l, r) == TRUE
\* The same with wide text: converted only if the entry would be used
LogWideText(l, r) == ShouldLog(l, r)
\* The *Fmt methods: formatted only then, too, but forced entries whenever the
\* logger called is enabled. Mutant: those by the level as well
LogFormattedByLevel(l, r) == ShouldLog(l, [r EXCEPT !.forced = FALSE])
LogFormatted(l, r) == IF r.forced THEN r.level # Off /\ m_IsEnabled[l] ELSE ShouldLog(l, r)
LogFormattedWithFields(l, r) == LogFormatted(l, r)
LogFormattedWide(l, r) == LogFormatted(l, r)
LogFormattedWideWithFields(l, r) == LogFormatted(l, r)
Reaches(form, l, r) ==
    CASE form = "text" -> LogText(l, r) [] form = "text, fields" -> LogTextWithFields(l, r)
      [] form = "wide" -> LogWideText(l, r)
      [] form = "format" -> LogFormatted(l, r) [] form = "format, fields" -> LogFormattedWithFields(l, r)
      [] form = "wide format" -> LogFormattedWide(l, r)
      [] form = "wide format, fields" -> LogFormattedWideWithFields(l, r)

Log(t, form, l, entry) ==
    LET r == MakeRecord(entry)
    IN  /\ MayCall(t, "Log") /\ IsUsable(l)
        /\ calls' = [calls EXCEPT ![t] = @ + 1]
        /\ seen' = [seen EXCEPT ![t] = Begun(ShouldLog(l, r))]
        /\ IF Reaches(form, l, r)
           THEN /\ Goto(t, "write") /\ at' = [at EXCEPT ![t] = l]
                /\ record' = [record EXCEPT ![t] = r]
           ELSE UNCHANGED <<pc, at, record>>
        /\ UNCHANGED <<instance, multiVars, gateVars, categoryVars, todo, ok>>

Unchanged == UNCHANGED <<instance, multiVars, gateVars, categoryVars, calls, ok>>

\* TASWCategoryLog::Write()
WriteToCategory(t) ==
    LET c == at[t]
    IN  /\ pc[t] = "write" /\ c \in Categories
        /\ IF m_IsEnabled[c]
           THEN /\ at' = [at EXCEPT ![t] = Wrapped[c]]
                /\ record' = [record EXCEPT ![t] = WithCategory(c, @)] /\ UNCHANGED pc
           ELSE Return(t) /\ UNCHANGED <<at, record>>
        /\ UNCHANGED <<todo, seen>> /\ Unchanged

\* A sink's Write(): its gate, then its config's hook, if it has one
Called(t, l) ==
    seen' = [seen EXCEPT ![t].called = Append(@,
        [sink |-> l, took |-> PassesLevelGate(l, record[t]),
         hooks |-> record[t].hooks + (IF hasHook[l] THEN 1 ELSE 0)])]

WriteToSink(t) ==
    /\ pc[t] = "write" /\ at[t] \in Sinks
    /\ Called(t, at[t])
    /\ Return(t)
    /\ UNCHANGED <<at, record, todo>> /\ Unchanged

\* TASWLogBase::Write() of the multi-log
WriteToMulti(t) ==
    /\ pc[t] = "write" /\ at[t] = Multi
    /\ IF PassesLevelGate(Multi, record[t]) THEN Goto(t, "hook") ELSE Return(t)
    /\ UNCHANGED <<at, record, todo, seen>> /\ Unchanged

\* WriteThroughHook(): the hook may drop the entry
RunHook(t) ==
    /\ pc[t] = "hook"
    /\ \/ hasHook[Multi] /\ Return(t) /\ UNCHANGED record
       \/ /\ Goto(t, "record")
          /\ record' = [record EXCEPT ![t].hooks = IF hasHook[Multi] THEN @ + 1 ELSE @]
    /\ UNCHANGED <<at, todo, seen>> /\ Unchanged

\* WriteOrKeep() reads the level again (a multi-log keeps no backtrace), then
\* WriteRecord() copies the list
WriteRecord(t) ==
    /\ pc[t] = "record"
    /\ IF record[t].forced \/ record[t].level >= GetMinimumLevelFor(Multi, record[t])
       THEN /\ Goto(t, "fan out")
            /\ todo' = [todo EXCEPT ![t] = m_Sinks]
            /\ record' = [record EXCEPT ![t] = SinkRecord(@)]
       ELSE Return(t) /\ UNCHANGED <<record, todo>>
    /\ UNCHANGED <<at, seen>> /\ Unchanged

FanOut(t) ==
    /\ pc[t] = "fan out"
    /\ IF todo[t] = <<>> THEN Return(t) /\ UNCHANGED <<todo, seen>>
       ELSE /\ Called(t, Head(todo[t])) /\ todo' = [todo EXCEPT ![t] = Tail(@)]
            /\ UNCHANGED pc
    /\ UNCHANGED <<at, record>> /\ Unchanged

----------------------------------------------------------------------------
(* The multi-log's list, and what it passes on to the loggers of it *)

ListCall(t, op, sinks) ==
    /\ Call(t, op, Disturbed(t, sinks)) /\ m_Sinks' = sinks
    /\ UNCHANGED <<m_IsInitialized, isOpen, hasHook, gateVars, categoryVars, pc, todo, ok>>

AddLogger(t, l) ==
    ListCall(t, "AddLogger", IF l = Multi \/ Contains(m_Sinks, l) THEN m_Sinks ELSE Append(m_Sinks, l))
\* The list has each logger once
RemoveLogger(t, l) == ListCall(t, "RemoveLogger", RemoveFirst(m_Sinks, l))
RemoveAllLoggers(t) == ListCall(t, "RemoveAllLoggers", <<>>)

\* The config a multi-log passes on. Mutant: with its hook
MakeSinkConfigWithHook(config) == config
MakeSinkConfig(config) == [config EXCEPT !.hook = FALSE]

\* The multi-log's own state changes first, under m_StateMutex; then its sinks
\* are called, as they are listed at that moment. The record holds the call.
StartPass(t, op, config) ==
    /\ MayCall(t, op)
    /\ calls' = [calls EXCEPT ![t] = @ + 1] /\ ok' = [ok EXCEPT ![t] = TRUE]
    /\ record' = [record EXCEPT ![t] = [op |-> op, config |-> config]]
    /\ UNCHANGED <<instance, m_Sinks, isOpen, m_IsEnabled, categoryVars, at, todo>>
Refuse(t) == seen' = [seen EXCEPT ![t] = NothingSeen] /\ UNCHANGED <<m_IsInitialized, hasHook, m_MinimumLevel, pc>>

Initialize(t, config) ==
    /\ StartPass(t, "Initialize", config)
    /\ IF m_IsInitialized[Multi] THEN Refuse(t)
       ELSE /\ hasHook' = [hasHook EXCEPT ![Multi] = config.hook]
            /\ m_MinimumLevel' = [m_MinimumLevel EXCEPT ![Multi] = config.level]
            /\ m_IsInitialized' = [m_IsInitialized EXCEPT ![Multi] = TRUE]
            /\ seen' = [Disturbed(t, m_Sinks) EXCEPT ![t] = Begun(FALSE)]
            /\ Goto(t, "snapshot")

Reconfigure(t, config) ==
    /\ StartPass(t, "Reconfigure", config)
    /\ IF ~m_IsInitialized[Multi] THEN Refuse(t)
       ELSE /\ hasHook' = [hasHook EXCEPT ![Multi] = config.hook]
            /\ seen' = [seen EXCEPT ![t] = Begun(FALSE)]
            /\ Goto(t, "snapshot") /\ UNCHANGED <<m_IsInitialized, m_MinimumLevel>>

Passing(t) ==
    /\ seen' = [seen EXCEPT ![t] = Begun(FALSE)] /\ Goto(t, "snapshot")
    /\ UNCHANGED <<m_IsInitialized, hasHook, m_MinimumLevel>>
Open(t) == StartPass(t, "Open", NoConfig) /\ Passing(t)
Close(t) == StartPass(t, "Close", NoConfig) /\ Passing(t)
Flush(t) == StartPass(t, "Flush", NoConfig) /\ Passing(t)

SnapshotSinks(t) ==
    /\ pc[t] = "snapshot"
    /\ todo' = [todo EXCEPT ![t] = m_Sinks]
    /\ Goto(t, "pass")
    /\ UNCHANGED <<at, record, seen>> /\ Unchanged

NextSink(t) == Head(todo[t])
PassStep(t, op) ==
    /\ pc[t] = "pass" /\ record[t].op = op /\ todo[t] # <<>>
    /\ todo' = [todo EXCEPT ![t] = Tail(@)]
    /\ UNCHANGED <<instance, m_Sinks, m_IsEnabled, categoryVars, pc, at, record, calls>>
\* What Initialize() of a sink that is initialized already counts as. Mutant: no
\* failure, whether it is open or not
InitializedIsEnough(t, l) == ok' = ok
RefusesToInitialize(t, l) == ok' = [ok EXCEPT ![t] = @ /\ isOpen[l]]
\* The sink's call succeeds or fails; what is open of a file between entries.
Succeeds(t, succeeds) == ok' = [ok EXCEPT ![t] = @ /\ succeeds]
StaysOpen(l) == l \notin instance.perWrite

\* A sink that is initialized refuses, which is no failure if it is open; one that
\* is set up writes its startup lines, after which a file may be closed again
InitializeSink(t) ==
    LET l == NextSink(t)
        config == MakeSinkConfig(record[t].config)
    IN  /\ PassStep(t, "Initialize")
        /\ IF m_IsInitialized[l]
           THEN /\ RefusesToInitialize(t, l)
                /\ UNCHANGED <<m_IsInitialized, isOpen, hasHook, m_MinimumLevel, seen>>
           ELSE /\ hasHook' = [hasHook EXCEPT ![l] = config.hook]
                /\ m_MinimumLevel' = [m_MinimumLevel EXCEPT ![l] = config.level]
                /\ \E succeeds \in BOOLEAN :
                      /\ Succeeds(t, succeeds)
                      /\ m_IsInitialized' = [m_IsInitialized EXCEPT ![l] = succeeds]
                      /\ isOpen' = [isOpen EXCEPT ![l] = succeeds /\ StaysOpen(l)]
                /\ seen' = Disturbed(t, m_Sinks)

Closed(l) == [u \in Threads |-> [seen[u] EXCEPT !.closed = @ \cup {l}]]
\* A sink that changes its file opens the new one, as Initialize() does, and stays
\* initialized if that fails
ReconfigureSink(t) ==
    LET l == NextSink(t)
    IN  /\ PassStep(t, "Reconfigure")
        /\ IF ~m_IsInitialized[l]
           THEN Succeeds(t, FALSE) /\ UNCHANGED <<isOpen, hasHook, seen>>
           ELSE /\ hasHook' = [hasHook EXCEPT ![l] = MakeSinkConfig(record[t].config).hook]
                /\ \/ UNCHANGED <<ok, isOpen, seen>>
                   \/ /\ isOpen' = [isOpen EXCEPT ![l] = StaysOpen(l)]
                      /\ UNCHANGED <<ok, seen>>
                   \/ /\ Succeeds(t, FALSE) /\ isOpen' = [isOpen EXCEPT ![l] = FALSE]
                      /\ seen' = Closed(l)
        /\ UNCHANGED <<m_IsInitialized, m_MinimumLevel>>

OpenSink(t) ==
    LET l == NextSink(t)
    IN  /\ PassStep(t, "Open")
        /\ \E open \in {isOpen[l], TRUE} :
              /\ Succeeds(t, open) /\ isOpen' = [isOpen EXCEPT ![l] = open]
              /\ m_IsInitialized' = [m_IsInitialized EXCEPT ![l] = @ \/ open]
        /\ UNCHANGED <<hasHook, m_MinimumLevel, seen>>

CloseSink(t) ==
    LET l == NextSink(t)
    IN  /\ PassStep(t, "Close")
        /\ isOpen' = [isOpen EXCEPT ![l] = FALSE] /\ m_IsInitialized' = [m_IsInitialized EXCEPT ![l] = FALSE]
        /\ seen' = Closed(l)
        /\ UNCHANGED <<hasHook, m_MinimumLevel, ok>>

FlushSink(t) ==
    /\ PassStep(t, "Flush")
    /\ \E flushed \in BOOLEAN : ok' = [ok EXCEPT ![t] = @ /\ flushed]
    /\ UNCHANGED <<m_IsInitialized, isOpen, hasHook, m_MinimumLevel, seen>>

\* The call returns; a closed multi-log can be initialized again
FinishPass(t) ==
    /\ pc[t] = "pass" /\ todo[t] = <<>>
    /\ m_IsInitialized' = [m_IsInitialized EXCEPT ![Multi] = @ /\ record[t].op # "Close"]
    /\ Return(t)
    /\ UNCHANGED <<instance, m_Sinks, isOpen, hasHook, gateVars, categoryVars, at, record, todo, ok, calls, seen>>

\* A file's entries are written at any time, by its queue's worker or by those who log
\* to it past the multi-log. One that is opened for each entry is, whether the logger was
\* closed or not (EnsureReadyUnlocked()), and closed after it; another may fail to
\* reopen after a rotation, and be tried again by a later entry.
WriteToFile(l) ==
    /\ l \in instance.files
    /\ IF l \in instance.perWrite
       THEN /\ isOpen' = [isOpen EXCEPT ![l] = FALSE] /\ UNCHANGED seen
            /\ \E opens \in BOOLEAN : m_IsInitialized' = [m_IsInitialized EXCEPT ![l] = @ \/ opens]
       ELSE /\ m_IsInitialized[l] /\ UNCHANGED m_IsInitialized
            /\ isOpen' = [isOpen EXCEPT ![l] = ~@]
            /\ seen' = IF isOpen[l] THEN Closed(l) ELSE seen
    /\ UNCHANGED <<instance, m_Sinks, hasHook, gateVars, categoryVars, callVars>>

----------------------------------------------------------------------------
(* Levels, and categories that come and go *)

SetMinimumLevel(t, l, level) ==
    /\ Call(t, "SetMinimumLevel", Disturbed(t, m_Sinks)) /\ IsUsable(l)
    /\ IF l \in Categories
       THEN /\ m_Level' = [m_Level EXCEPT ![l] = level] /\ chosen' = chosen \cup {l}
            /\ UNCHANGED m_MinimumLevel
       ELSE m_MinimumLevel' = [m_MinimumLevel EXCEPT ![l] = level] /\ UNCHANGED <<m_Level, chosen>>
    /\ UNCHANGED <<multiVars, m_IsEnabled, registry, applied, pc, todo, ok>>

ResetMinimumLevel(t, c) ==
    /\ Call(t, "ResetMinimumLevel", Disturbed(t, m_Sinks)) /\ c \in Categories /\ IsUsable(c)
    /\ m_Level' = [m_Level EXCEPT ![c] = NoOwnLevel] /\ chosen' = chosen \cup {c}
    /\ UNCHANGED <<multiVars, gateVars, registry, applied, pc, todo, ok>>

SetEnabled(t, l, enabled) ==
    /\ Call(t, "SetEnabled", Disturbed(t, m_Sinks)) /\ IsUsable(l)
    /\ m_IsEnabled' = [m_IsEnabled EXCEPT ![l] = enabled]
    /\ UNCHANGED <<multiVars, m_MinimumLevel, categoryVars, pc, todo, ok>>

\* The constructor: the category joins the registry and gets its rule's level
MakeCategory(t, c) ==
    /\ Call(t, "Make", Disturbed(t, m_Sinks))
    /\ c \notin registry.Categories /\ IsUsable(Wrapped[c]) /\ registry.Mutex = {}
    /\ registry' = [registry EXCEPT !.Categories = @ \cup {c}]
    /\ m_Level' = [m_Level EXCEPT ![c] = RuleLevel(registry.Rules, c, NoOwnLevel)]
    /\ m_IsEnabled' = [m_IsEnabled EXCEPT ![c] = TRUE] /\ chosen' = chosen \ {c}
    /\ UNCHANGED <<multiVars, m_MinimumLevel, applied, pc, todo, ok>>

\* The destructor: nobody uses the category, nor one that wraps it
DestroyCategory(t, c) ==
    /\ Call(t, "Destroy", seen)
    /\ c \in registry.Categories /\ registry.Mutex = {}
    /\ \A d \in registry.Categories : Wrapped[d] # c
    /\ \A u \in Threads : pc[u] \in {"idle", "apply"} \/ at[u] # c
    /\ registry' = [registry EXCEPT !.Categories = @ \ {c}]
    /\ UNCHANGED <<multiVars, gateVars, m_Level, applied, chosen, pc, todo, ok>>

\* ApplyLevels(): an invalid spec changes nothing; else, under the registry's
\* lock, the rules are replaced, then each category gets its rule's level.
ApplyLevels(t, spec) ==
    LET parsed == ParseLevelRules(spec)
    IN  /\ Call(t, "ApplyLevels", seen)
        /\ registry.Mutex = {}
        /\ IF ~parsed.isValid THEN UNCHANGED <<registry, applied, pc, todo>>
           ELSE /\ registry' = [registry EXCEPT !.Mutex = {t}, !.Rules = parsed.rules]
                /\ applied' = spec
                /\ todo' = [todo EXCEPT ![t] = SetToSeq(registry.Categories)]
                /\ Goto(t, "apply")
        /\ UNCHANGED <<multiVars, gateVars, m_Level, chosen, ok>>

ApplyRule(t) ==
    LET c == Head(todo[t])
    IN  /\ pc[t] = "apply" /\ todo[t] # <<>>
        /\ m_Level' = [m_Level EXCEPT ![c] = RuleLevel(registry.Rules, c, @)]
        /\ chosen' = IF FindLevelRule(registry.Rules, MakeCategoryName[c]) = <<>> THEN chosen ELSE chosen \ {c}
        /\ todo' = [todo EXCEPT ![t] = Tail(@)]
        /\ seen' = Disturbed(t, m_Sinks)
        /\ UNCHANGED <<instance, multiVars, gateVars, registry, applied, pc, at, record, ok, calls>>

FinishApply(t) ==
    /\ pc[t] = "apply" /\ todo[t] = <<>>
    /\ registry' = [registry EXCEPT !.Mutex = {}]
    /\ Return(t)
    /\ UNCHANGED <<instance, multiVars, gateVars, m_Level, applied, chosen, at, record, todo, ok, calls, seen>>

----------------------------------------------------------------------------
LogStep(t) ==
    \/ \E form \in instance.forms, l \in instance.to, entry \in instance.entries : Log(t, form, l, entry)
    \/ WriteToCategory(t) \/ WriteToSink(t) \/ WriteToMulti(t) \/ RunHook(t) \/ WriteRecord(t) \/ FanOut(t)
MultiStep(t) ==
    \/ \E l \in Sinks \cup {Multi} : AddLogger(t, l)
    \/ \E l \in Sinks : RemoveLogger(t, l)
    \/ RemoveAllLoggers(t)
    \/ \E config \in instance.configs : Initialize(t, config) \/ Reconfigure(t, config)
    \/ Open(t) \/ Close(t) \/ Flush(t) \/ SnapshotSinks(t)
    \/ InitializeSink(t) \/ ReconfigureSink(t) \/ OpenSink(t) \/ CloseSink(t) \/ FlushSink(t) \/ FinishPass(t)
LevelStep(t) ==
    \/ \E l \in instance.to :
          \/ \E level \in instance.levels : SetMinimumLevel(t, l, level)
          \/ ResetMinimumLevel(t, l)
          \/ \E enabled \in BOOLEAN : SetEnabled(t, l, enabled)
    \/ \E c \in Categories : MakeCategory(t, c) \/ DestroyCategory(t, c)
    \/ \E spec \in instance.specs : ApplyLevels(t, spec)
    \/ ApplyRule(t) \/ FinishApply(t)
\* The threads may make no more calls
AllIdle == (\A t \in Threads : pc[t] = "idle") /\ UNCHANGED vars

Next ==
    \/ \E t \in Threads : LogStep(t) \/ MultiStep(t) \/ LevelStep(t)
    \/ \E l \in Sinks : WriteToFile(l)
    \/ AllIdle
Spec == Init /\ [][Next]_vars

----------------------------------------------------------------------------
(* Properties *)

\* A logger runs only a hook of its own; an entry of a multi-log its hook, once
HookRunsOnce ==
    \A t \in Threads : \A i \in DOMAIN seen[t].called :
        LET call == seen[t].called[i]
        IN  call.hooks > 0 => (at[t] = Multi /\ call.hooks <= 1) \/ call.sink \in instance.ownHooks

\* An entry that passes a multi-log is passed once to each logger of its list:
\* to all those listed during the whole call, to none that never was, and to
\* none twice, whatever is added and removed meanwhile (WriteRecord() copies the
\* list). The multi-log's OnBeforeWrite hook runs once for it, and whatever
\* the multi-log is initialized or reconfigured with, does not reach its loggers.
FanOutOnce ==
    [][/\ HookRunsOnce'
       /\ \A t \in Threads :
            pc[t] = "fan out" /\ pc'[t] = "idle" =>
                LET called == seen[t].called
                    sinks == {called[i].sink : i \in DOMAIN called}
                IN  /\ \A i, j \in DOMAIN called : called[i].sink = called[j].sink => i = j
                    /\ seen[t].all \subseteq sinks /\ sinks \subseteq seen[t].once]_vars

\* ShouldLog() tells what logging would do: unless another thread changes a level,
\* a rule or the list meanwhile, an entry for which it is true passes the gate of
\* a logger that writes, and one for which it is false passes none; so the
\* calls that format or convert only if it is true lose no entry. An entry a hook
\* drops is left out. With the levels of categories that wrap each other, of the
\* multi-log and of its loggers, asked by ShouldLog(record) and applied by
\* Write() on two different paths.
AskedIsWritten ==
    [][\A t \in Threads :
        LET returns == pc[t] \in {"write", "record", "fan out"} /\ pc'[t] = "idle"
            refused == calls'[t] # calls[t] /\ seen'[t].asked
        IN  /\ returns /\ seen[t].quiet =>
                   (seen[t].asked <=> \E i \in DOMAIN seen'[t].called : seen'[t].called[i].took)
            /\ refused => pc'[t] # "idle"]_vars

\* A category's GetMinimumLevel() is the level its entries are gated with; a
\* multi-log's loggers apply theirs as well
MinimumLevelIsTheGate ==
    \A c \in registry.Categories, level \in Levels :
        LET r == MakeRecord([level |-> level, forced |-> FALSE])
            isEnabled == m_IsEnabled[Base(c)] /\ \A i \in DOMAIN Path[c] : m_IsEnabled[Path[c][i]]
            passes == level >= GetMinimumLevel[c]
        IN  IsUsable(c) /\ isEnabled =>
                IF Base(c) = Multi
                THEN ShouldLog(c, r) <=> passes /\ \E i \in DOMAIN m_Sinks : ShouldLogHere(m_Sinks[i], r)
                ELSE ShouldLog(c, r) <=> passes

\* A logger that is initialized, and open unless its file is opened for each entry
IsReady(l) == m_IsInitialized[l] /\ (isOpen[l] \/ l \in instance.perWrite)

\* Initialize() returns true only if every logger listed meanwhile ends up ready: it
\* is initialized, and open but for a file that is opened for each entry (with
\* File.AutoOpenClosePerWrite; the file is closed again before a logger's
\* Initialize() returns). Except those closed since, by another call or a rotation
\* that could not open the new file ("Returns true only if every sink ends up
\* initialized or open", ASWLog_MultiLog.h:121).
InitializeTellsReady ==
    [][\A t \in Threads :
        pc[t] = "pass" /\ pc'[t] = "idle" /\ record[t].op = "Initialize" /\ ok[t] =>
            \A l \in seen[t].all \ seen[t].closed : IsReady(l)]_vars

\* The names that cover a category: its own, and it up to each dot
CoveringNames(c) ==
    LET name == MakeCategoryName[c]
    IN  {name} \cup {SubSeq(name, 1, i - 1) : i \in {j \in DOMAIN name : name[j] = "."}}
\* The level the spec applied last says: its last item for the longest of them, else for all
LevelSaid(c) ==
    LET length(i) == LengthOf(applied[i])
        says == {i \in DOMAIN applied :
                    /\ ~IsEmpty(applied[i])
                    /\ \/ applied[i].name = <<"*">>
                       \/ \E n \in CoveringNames(c) : EqualsIgnoringCase(n, applied[i].name)}
    IN  {applied[i].level : i \in {j \in says :
            \A k \in says : length(k) < length(j) \/ (length(k) = length(j) /\ k <= j)}}

\* Every category has the level the spec applied last gives it, if any
HasTheLevelSaid ==
    registry.Mutex = {} =>
        \A c \in registry.Categories \ chosen : LevelSaid(c) # {} => m_Level[c] \in LevelSaid(c)

\* While no ApplyLevels() is at work, every category has the level the spec
\* applied last gives it, if any, unless a call of its own has changed the level
\* since; those made later or during the call too. GetMinimumLevel() is the
\* level its entries are gated with: the first level of its own on the way
\* to the logger, else the logger's (TASWCategoryRegistry, TASWCategoryLog).
CategoriesFollowTheRules == HasTheLevelSaid /\ MinimumLevelIsTheGate
=============================================================================
