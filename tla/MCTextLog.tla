----------------------------- MODULE MCTextLog -----------------------------
(***************************************************************************)
(* Small instances of TextLog for TLC: thread a opens, closes and          *)
(* reconfigures the logger, thread b logs (a too, where two loggers        *)
(* compete), and the worker's callbacks call the logger.                   *)
(***************************************************************************)
EXTENDS TextLog

CONSTANTS a, b

TwoThreads == {a, b}

Cfg(async, policy, flush, atOnce) ==
    [Async |-> async, Policy |-> policy, Flush |-> flush, FlushAtOnce |-> atOnce]

\* The configuration of a logger just constructed: synchronous
SyncConfig == Cfg(FALSE, "Block", "EveryWrite", TRUE)

BlockManual == Cfg(TRUE, "Block", "Manual", FALSE)
SyncPeriodic == Cfg(FALSE, "Block", "Periodic", TRUE)
DropManual == Cfg(TRUE, "DropNewest", "Manual", TRUE)

ManualConfigs == {SyncConfig, BlockManual}
PeriodicConfigs == {SyncConfig, BlockManual, SyncPeriodic}
QueueConfigs == {SyncConfig, BlockManual, DropManual}

PerThread(ofA, ofB) == [t \in App |-> IF t = a THEN ofA ELSE ofB]

QueueOps == PerThread({"Initialize", "Log", "Flush"}, {"Log", "LogUrgent", "Flush"})
SwitchOps == PerThread({"Initialize", "Reconfigure", "Open", "Close", "Finalize"}, {"Log", "Close"})
ReturnOps == PerThread({"Initialize", "Reconfigure", "Close"}, {"Log", "LogUrgent"})
HandlerClosesOps == PerThread({"Initialize"}, {"Log"})

\* Bounds: calls of a, of b, and of the worker's callbacks
Bounds(ofA, ofB, ofW) == [t \in Threads |-> IF t = W THEN ofW ELSE IF t = a THEN ofA ELSE ofB]
Calls330 == Bounds(3, 3, 0)
Calls321 == Bounds(3, 2, 1)
Calls122 == Bounds(1, 2, 2)
Calls221 == Bounds(2, 2, 1)
=============================================================================
