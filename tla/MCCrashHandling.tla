-------------------------- MODULE MCCrashHandling --------------------------
(* Two threads, a synchronous logger that buffers, an asynchronous one and one *)
(* that keeps its lines in memory                                            *)
EXTENDS CrashHandling

CONSTANTS t1, t2, w, buffered, async, memory

MCLoggers == {buffered, async, memory}
MCThreads == {t1, t2}
MCWorkers == {w}
MCWorkerOf == [l \in MCLoggers |-> IF l = async THEN w ELSE NoOne]
MCFlushed == {async, memory}
MCMemory == {memory}
MCPlatforms == {"POSIX", "Windows"}

Ops(first, second) == [t \in MCThreads |-> IF t = t1 THEN first ELSE second]
\* An initialized logger, with the handlers installed
Program(l, ops, sources) ==
    [loggers |-> {l}, list |-> <<l>>, isInstalled |-> TRUE, ops |-> ops,
     maxCalls |-> 2, sources |-> sources, maxCrashes |-> 1, maxSetups |-> 0]

\* One crash while handlers are installed, uninstalled and replaced
MCHandlers ==
    {[Program(buffered, Ops({}, {}), Sources) EXCEPT !.isInstalled = n = 3, !.maxCalls = 0, !.maxSetups = n] : n \in {1, 3}}
\* One crash while loggers come and go
MCLives ==
    {Program(buffered, Ops({"Initialize", "Open", "Log"}, {"Close", "Finalize", "Destroy"}), {"fault"})}
\* Two crashes in the middle of entries
MCEntries ==
    {[Program(async, Ops({"Log"}, {"HandleCrash"}), {"terminate"}) EXCEPT !.maxCalls = 1, !.maxCrashes = 2]}
\* One crash while lines are read from memory
MCReads == {Program(memory, Ops({"Read", "Log"}, {"Log", "Keep"}), {"fault"})}
MCCrashes == MCHandlers \cup MCLives \cup MCEntries \cup MCReads
=============================================================================
