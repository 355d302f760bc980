----------------------------- MODULE MCFileLog -----------------------------
(***************************************************************************)
(* Instances of FileLog: one process that keeps its file open, with every  *)
(* call and failure, and two that share the log.                           *)
(***************************************************************************)
EXTENDS FileLog

CONSTANTS p1, p2, c1, c2

NoRules == [MaxAge |-> 0, MaxFiles |-> 0, MaxBytes |-> 0]
KeepOne == [MaxAge |-> 0, MaxFiles |-> 1, MaxBytes |-> 0]

Cfg(isAuto, daily, size, zone, rules) ==
    [FilePath |-> "log", AutoOpenClosePerWrite |-> isAuto, EnableDailyRolling |-> daily,
     EnableRotation |-> size, WriteStartupLinesInNewFiles |-> TRUE,
     TimestampZone |-> zone, Cleanup |-> rules]

\* A logger just constructed
Default == Cfg(FALSE, FALSE, FALSE, 0, NoRules)

DailyElsewhere == Cfg(FALSE, TRUE, FALSE, 1, KeepOne)
Sized == Cfg(FALSE, TRUE, TRUE, 0, KeepOne)
OtherPath == [Sized EXCEPT !.FilePath = "log2"]
Shared == [Cfg(TRUE, TRUE, TRUE, 0, NoRules) EXCEPT !.FilePath = "shared"]

Env(fs, failing) == [fs |-> fs, failing |-> failing]
OneEnvironments ==
    {Env("move", {"open", "rename"}), Env("links", {"unlink", "delete"}),
     Env("nolinks", {"write", "list"})}
SharedEnvironments == {Env("move", {"rename"}), Env("links", {"unlink"})}
LinkEnvironments == {Env("links", {})}

OneConfigs == {DailyElsewhere, Sized, OtherPath}
SharedConfigs == {Shared}

AllOps == {"Initialize", "Reconfigure", "Open", "Close", "Write", "RotateLogFiles"}
OneOps == [p \in Processes |-> AllOps]
LinkOps == [p \in Processes |-> {"Initialize", "Write"}]

\* Two scenarios: one process makes every call, or two share the log. There
\* each process keeps its logger as it was initialized, and entries don't wait.
\* A process alone crashes only where a rename is two steps.
VARIABLE scenario
mcVars == <<vars, scenario>>

AllConfigs == OneConfigs \cup SharedConfigs
AllEnvironments == OneEnvironments \cup SharedEnvironments
AllCalls == [p \in Processes |-> IF p = p1 THEN 4 ELSE 2]

CallInOne == \E config \in OneConfigs :
    Initialize(p1, config) \/ ReconfigureFile(p1, config) \/ ReconfigurePath(p1, config)
CallInShared(p) ==
    /\ Initialize(p, Shared) \/ Write(p) \/ RotateLogFiles(p)
    /\ calls'[p] <= 2 /\ call'[p].stamp \in {0, clock}
ProcessInScenario(p) ==
    \/ IF scenario = "one"
       THEN p = p1 /\ (CallInOne \/ Open(p) \/ Close(p) \/ Write(p) \/ RotateLogFiles(p))
       ELSE CallInShared(p)
    \/ OpenStep(p) \/ WriteStep(p) \/ RotationStep(p) \/ ConfigStep(p)
    \/ (scenario = "one" => p = p1 /\ env.fs = "links") /\ Crash(p)

MCInit ==
    /\ scenario \in {"one", "shared"} /\ Init
    /\ env \in IF scenario = "one" THEN OneEnvironments ELSE SharedEnvironments \cup LinkEnvironments
MCNext ==
    /\ UNCHANGED scenario
    /\ (\E p \in Processes : ProcessInScenario(p)) \/ (\E c \in Cleaners : CleanupStep(c)) \/ Tick
MCSpec == MCInit /\ [][MCNext]_mcVars
=============================================================================
