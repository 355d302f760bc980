--------------------------- MODULE CrashHandling ---------------------------
(***************************************************************************)
(* What happens when the program crashes: the handlers that get the crash, *)
(* the list of loggers that the one of ASWLog visits, what it writes to    *)
(* each of them (TASWTextLogBase::OnCrash()) while the threads that have   *)
(* not crashed go on, and the locks the crashed thread still holds.        *)
(* Installing and uninstalling the handlers is a process of its own, which *)
(* changes them one by one and may stop at any step: its thread crashed.   *)
(*                                                                         *)
(* Time is whether a crash's deadline has passed, which it may do at any   *)
(* step of the handler. A thread that is not at pc <<"none", "idle">> is   *)
(* in the middle of a call and holds the lock its step names.              *)
(***************************************************************************)
EXTENDS Integers, Sequences, FiniteSets, SequencesExt

CONSTANTS
    Loggers, Threads, Workers, NoOne,
    WorkerOf,     \* the worker of each logger, or NoOne: it writes synchronously
    Flushed,      \* the loggers that flush each entry
    Memory,       \* those that keep their lines in memory (TASWMemoryLog)
    Platforms,
    Instances     \* where the program starts from and what it does, below

Tasks == Threads \cup Workers

ASSUME WorkerAssumption ==
    /\ WorkerOf \in [Loggers -> Workers \cup {NoOne}]
    /\ NoOne \notin Tasks \cup Loggers /\ Threads \cap Workers = {}
    /\ \A k, l \in Loggers : WorkerOf[k] = WorkerOf[l] /\ WorkerOf[k] # NoOne => k = l
ASSUME MemoryAssumption == Memory \subseteq Loggers /\ Memory \subseteq Flushed
ASSUME PlatformAssumption == Platforms \subseteq {"POSIX", "Windows"}
\* The loggers there are and those initialized, whether the crash handlers are
\* installed, the operations of each thread, and bounds: how many operations
\* each thread does, what crashes first come from, how many threads crash and
\* how often crash handlers are changed
ASSUME InstanceAssumption ==
    \A i \in Instances :
        /\ i.loggers \subseteq Loggers /\ i.list \in Seq(i.loggers) /\ IsInjective(i.list)
        /\ i.isInstalled \in BOOLEAN
        /\ DOMAIN i.ops = Threads /\ i.sources \subseteq {"terminate", "abort", "fault"}
        /\ {i.maxCalls, i.maxCrashes, i.maxSetups} \subseteq Nat

VARIABLES
    platform, instance,
    registryHolder, list,       \* TCrashRegistry: its lock, the loggers from First on
    m_Mutex, m_BacktraceMutex,  \* who holds each logger's locks,
    m_LinesMutex,               \* and that of a memory logger's lines
    m_IsInitialized, exists,
    m_LastQueuedSequence,       \* entries logged, queued or not
    m_LastWrittenSequence,
    buffer, file,               \* the output's lines, before and after its flush
    kept,                       \* whether the backtrace keeps entries
    IsActive, IsCrashHandled,
    current,                    \* the handler the system calls for each source,
    previous,                   \* the one each handler replaced
    isInstalled, setups,
    setup,                      \* InstallCrashHandlers() or UninstallCrashHandlers(), as it goes on
    isTorn,                     \* a handler was looked up or replaced while they had it in hand
    pc, on, calls,              \* where each thread is, and on which logger
    crash, isLate,              \* the crash of each thread; its deadline passed
    ended                       \* the thread whose crash ended the process

outputVars == <<m_LastQueuedSequence, m_LastWrittenSequence, buffer, file, kept>>
lifeVars == <<registryHolder, list, m_IsInitialized, exists>>
lockVars == <<m_Mutex, m_BacktraceMutex, m_LinesMutex>>
handlerVars == <<IsActive, IsCrashHandled, current, previous, isInstalled, setups, setup, isTorn>>
crashVars == <<crash, isLate, ended>>
vars == <<platform, instance, outputVars, lifeVars, lockVars, handlerVars, crashVars, pc, on, calls>>

Sources == {"terminate", "abort", "fault"}
\* "before" was there before InstallCrashHandlers(), "after" came since, and
\* each passes the crash on to the one it replaced
Handlers == {"default", "before", "ours", "after"}

Entry(n) == [kind |-> "entry", n |-> n, by |-> NoOne, isLate |-> FALSE]
BacktraceLines(t) == [kind |-> "backtrace", n |-> 0, by |-> t, isLate |-> isLate[t]]
CrashLine(t) ==
    [kind |-> IF crash[t].source = "none" THEN "explicit" ELSE "crash", n |-> 0, by |-> t, isLate |-> isLate[t]]

\* A crash: its source ("none" in HandleCrash()), the handlers that got it, the
\* loggers still to visit, the entries to wait for in the one being visited;
\* and, for the properties, what each logger had logged when it happened, those
\* that were initialized then and still are, and the program's own handlers
NoCrash == [source |-> "none", called |-> <<>>, isWritten |-> FALSE, todo |-> <<>>, lastQueued |-> 0,
            logged |-> [l \in Loggers |-> 0], expects |-> {}, inPlace |-> {}]

\* No handlers are being changed: those still to change, the one in hand and
\* what was found in its place
NoSetup == [op |-> "none", left |-> <<>>, source |-> "none", held |-> "default"]

Contents(l) == file[l] \o buffer[l]
HasCrashed(t) == pc[t][1] = "crash"
\* The calls that open, close and destroy logger l
IsIn(l, ops) == \E t \in Tasks : on[t] = l /\ pc[t][1] \in ops
IsDestroying(l) == IsIn(l, {"Destroy", "DestroyBase"})
IsClosing(l) == IsIn(l, {"Close", "Finalize"}) \/ IsDestroying(l)
IsOpening(l) == IsIn(l, {"Initialize"})

Init ==
    /\ platform \in Platforms /\ instance \in Instances
    /\ registryHolder = NoOne /\ list = instance.list
    /\ m_Mutex = [l \in Loggers |-> NoOne] /\ m_BacktraceMutex = [l \in Loggers |-> NoOne]
    /\ m_LinesMutex = [l \in Loggers |-> NoOne]
    /\ m_IsInitialized = [l \in Loggers |-> l \in ToSet(instance.list)]
    /\ exists = [l \in Loggers |-> l \in instance.loggers]
    /\ m_LastQueuedSequence = [l \in Loggers |-> 0] /\ m_LastWrittenSequence = [l \in Loggers |-> 0]
    /\ buffer = [l \in Loggers |-> <<>>] /\ file = [l \in Loggers |-> <<>>]
    /\ kept = [l \in Loggers |-> FALSE]
    /\ IsActive = instance.isInstalled /\ IsCrashHandled = FALSE
    /\ isInstalled = [s \in Sources |-> instance.isInstalled] /\ setups = 0 /\ setup = NoSetup /\ isTorn = FALSE
    /\ current = [s \in Sources |-> IF isInstalled[s] THEN "ours" ELSE "before"]
    /\ previous = [s \in Sources |->
          [h \in Handlers |-> IF h = "ours" /\ isInstalled[s] THEN "before" ELSE "default"]]
    /\ pc = [t \in Tasks |-> <<"none", "idle">>] /\ on = [t \in Tasks |-> NoOne]
    /\ calls = [t \in Tasks |-> 0]
    /\ crash = [t \in Tasks |-> NoCrash] /\ isLate = [t \in Tasks |-> FALSE]
    /\ ended = NoOne

At(t, op, step) == pc[t] = <<op, step>> /\ ended = NoOne
Go(t, op, step) == pc' = [pc EXCEPT ![t] = <<op, step>>]
Take(t, l) == m_Mutex[l] = NoOne /\ m_Mutex' = [m_Mutex EXCEPT ![l] = t]
Unlock(l) == m_Mutex' = [m_Mutex EXCEPT ![l] = NoOne]
\* A thread begins a call on logger l, which no thread is destroying
Begin(t, op, l) ==
    /\ At(t, "none", "idle") /\ op \in instance.ops[t] /\ calls[t] < instance.maxCalls
    /\ exists[l] /\ ~IsDestroying(l)
    /\ calls' = [calls EXCEPT ![t] = @ + 1] /\ on' = [on EXCEPT ![t] = l]
Return(t) == Go(t, "none", "idle") /\ UNCHANGED <<platform, instance, handlerVars, crashVars, on, calls>>
Continue == UNCHANGED <<platform, instance, handlerVars, crashVars, on, calls>>

----------------------------------------------------------------------------
(* The handlers *)

\* InstallCrashHandlers() and UninstallCrashHandlers() hold InstallMutex, which
\* no handler takes, while they go through the sources
AllSources == <<"terminate", "fault", "abort">>
InSetup(op) == setup.op = op /\ ended = NoOne
BetweenSources(op) == InSetup(op) /\ setup.source = "none"
\* The source in hand
InHand(op) == InSetup(op) /\ setup.source # "none"
UnchangedInSetup == UNCHANGED <<platform, instance, outputVars, lifeVars, lockVars, crashVars, IsCrashHandled, pc, on, calls>>

BeginSetup ==
    /\ InSetup("none") /\ setups < instance.maxSetups /\ setups' = setups + 1
    /\ \/ setup' = [NoSetup EXCEPT !.op = "Install", !.left = AllSources] /\ UNCHANGED IsActive
       \/ setup' = [NoSetup EXCEPT !.op = "Uninstall", !.left = AllSources] /\ IsActive' = FALSE
    /\ UNCHANGED <<current, previous, isInstalled, isTorn>>

EndSetup ==
    /\ setup.left = <<>> /\ (BetweenSources("Install") \/ BetweenSources("Uninstall"))
    /\ IsActive' = (IsActive \/ setup.op = "Install") /\ setup' = NoSetup
    /\ UNCHANGED <<current, previous, isInstalled, setups, isTorn>>

\* The system's call that sets a handler returns the one it replaces, which is
\* stored then
Holding(s, h) == setup' = [setup EXCEPT !.left = Tail(@), !.source = s, !.held = h]
Skipping == setup' = [setup EXCEPT !.left = Tail(@)]

Install ==
    /\ BetweenSources("Install") /\ setup.left # <<>>
    /\ LET s == Head(setup.left)
       IN  IF isInstalled[s]
           THEN Skipping /\ UNCHANGED current
           ELSE Holding(s, current[s]) /\ current' = [current EXCEPT ![s] = "ours"]
    /\ UNCHANGED <<IsActive, previous, isInstalled, setups, isTorn>>

StoreReplaced ==
    /\ InHand("Install")
    /\ LET s == setup.source
       IN  /\ previous' = [previous EXCEPT ![s]["ours"] = setup.held]
           /\ isInstalled' = [isInstalled EXCEPT ![s] = TRUE]
    /\ setup' = [setup EXCEPT !.source = "none"]
    /\ UNCHANGED <<IsActive, current, setups, isTorn>>

\* Windows tells which filter or SIGABRT handler is set only when another is
\* set in its place; elsewhere it is asked for
IsSwapped(s) == platform = "Windows" /\ s # "terminate"

\* Mutant: the handlers that were there are put back whoever came since
IsInstalledOver(s) == isInstalled[s]
IsCurrent(s) == isInstalled[s] /\ current[s] = "ours"

Uninstall ==
    /\ BetweenSources("Uninstall") /\ setup.left # <<>>
    /\ LET s == Head(setup.left)
       IN  \/ /\ isInstalled[s] /\ IsSwapped(s) /\ Holding(s, current[s])
              /\ current' = [current EXCEPT ![s] = previous[s]["ours"]]
           \/ /\ ~IsSwapped(s) /\ UNCHANGED current
              /\ IF IsCurrent(s) THEN Holding(s, "ours") ELSE Skipping
           \/ ~isInstalled[s] /\ IsSwapped(s) /\ Skipping /\ UNCHANGED current
    /\ UNCHANGED <<IsActive, previous, isInstalled, setups, isTorn>>

\* A handler replaced since stays, or is put back
PutBack ==
    /\ InHand("Uninstall")
    /\ LET s == setup.source
       IN  /\ isInstalled' = [isInstalled EXCEPT ![s] = setup.held # "ours"]
           /\ current' = IF setup.held # "ours" THEN [current EXCEPT ![s] = setup.held]
                         ELSE IF IsSwapped(s) THEN current
                         ELSE [current EXCEPT ![s] = previous[s]["ours"]]
    /\ setup' = [setup EXCEPT !.source = "none"]
    /\ UNCHANGED <<IsActive, previous, setups, isTorn>>

\* Another part of the program installs its handlers, which stay
IsReplaced(s) == previous[s]["after"] # "default"
Replace ==
    /\ ended = NoOne /\ setups < instance.maxSetups /\ setups' = setups + 1
    /\ \A s \in Sources : ~IsReplaced(s)
    /\ previous' = [s \in Sources |-> [previous[s] EXCEPT !["after"] = current[s]]]
    /\ current' = [s \in Sources |-> "after"]
    /\ isTorn' = (isTorn \/ InHand("Uninstall"))
    /\ UNCHANGED <<IsActive, isInstalled, setup>>

Setup ==
    /\ BeginSetup \/ Install \/ StoreReplaced \/ Uninstall \/ PutBack \/ EndSetup \/ Replace
    /\ UnchangedInSetup

----------------------------------------------------------------------------
(* The loggers' calls *)

\* Write() of a synchronous logger
StartWrite(t, l) ==
    /\ Begin(t, "Log", l) /\ WorkerOf[l] = NoOne
    /\ m_IsInitialized[l] /\ ~IsClosing(l) /\ ~IsOpening(l)
    /\ Take(t, l) /\ Go(t, "Log", "write")
    /\ UNCHANGED <<platform, instance, outputVars, lifeVars, m_BacktraceMutex, m_LinesMutex, handlerVars, crashVars>>

AppendLines(l, lines) ==
    /\ file' = [file EXCEPT ![l] = IF l \in Flushed THEN @ \o buffer[l] \o lines ELSE @]
    /\ buffer' = [buffer EXCEPT ![l] = IF l \in Flushed THEN <<>> ELSE @ \o lines]

\* A memory logger's lines have a lock of their own, which WriteLineUnlocked()
\* waits for, and Clear(), GetLines() and the like take without the logger's
LinesAreFree(l) == m_LinesMutex[l] = NoOne

EndWrite(t) ==
    /\ At(t, "Log", "write") /\ LinesAreFree(on[t])
    /\ LET l == on[t]
           n == m_LastQueuedSequence[l] + 1
       IN  /\ AppendLines(l, <<Entry(n)>>)
           /\ m_LastQueuedSequence' = [m_LastQueuedSequence EXCEPT ![l] = n]
           /\ m_LastWrittenSequence' = [m_LastWrittenSequence EXCEPT ![l] = n]
           /\ Unlock(l)
    /\ Return(t) /\ UNCHANGED <<lifeVars, m_BacktraceMutex, m_LinesMutex, kept>>

StartRead(t, l) ==
    /\ Begin(t, "Read", l) /\ l \in Memory
    /\ LinesAreFree(l) /\ m_LinesMutex' = [m_LinesMutex EXCEPT ![l] = t]
    /\ Go(t, "Read", "lines")
    /\ UNCHANGED <<platform, instance, outputVars, lifeVars, m_Mutex, m_BacktraceMutex, handlerVars, crashVars>>

EndRead(t) ==
    /\ At(t, "Read", "lines") /\ m_LinesMutex' = [m_LinesMutex EXCEPT ![on[t]] = NoOne]
    /\ Return(t) /\ UNCHANGED <<outputVars, lifeVars, m_Mutex, m_BacktraceMutex>>

\* Write() of an asynchronous one
Queue(t, l) ==
    /\ Begin(t, "Log", l) /\ WorkerOf[l] # NoOne
    /\ m_IsInitialized[l] /\ ~IsClosing(l) /\ ~IsOpening(l)
    /\ m_LastQueuedSequence' = [m_LastQueuedSequence EXCEPT ![l] = @ + 1]
    /\ UNCHANGED <<platform, instance, m_LastWrittenSequence, buffer, file, kept, lifeVars, lockVars, handlerVars,
                   crashVars, pc>>

\* The worker takes the queue with the lock, writes it and tells that it has
WorkerTake(w, l) ==
    /\ At(w, "none", "idle") /\ WorkerOf[l] = w /\ m_IsInitialized[l]
    /\ m_LastWrittenSequence[l] < m_LastQueuedSequence[l]
    /\ Take(w, l) /\ on' = [on EXCEPT ![w] = l] /\ Go(w, "Work", "write")
    /\ UNCHANGED <<platform, instance, outputVars, lifeVars, m_BacktraceMutex, m_LinesMutex, handlerVars, crashVars, calls>>

WorkerWrite(w) ==
    /\ At(w, "Work", "write") /\ LinesAreFree(on[w])
    /\ LET l == on[w]
           first == m_LastWrittenSequence[l]
       IN  /\ AppendLines(l, [i \in 1 .. m_LastQueuedSequence[l] - first |-> Entry(first + i)])
           /\ Unlock(l)
    /\ Go(w, "Work", "mark") /\ Continue
    /\ UNCHANGED <<lifeVars, m_BacktraceMutex, m_LinesMutex, m_LastQueuedSequence, m_LastWrittenSequence, kept>>

WorkerMark(w) ==
    /\ At(w, "Work", "mark")
    /\ LET l == on[w]
           written == {i \in DOMAIN Contents(l) : Contents(l)[i].kind = "entry"}
       IN  m_LastWrittenSequence' = [m_LastWrittenSequence EXCEPT ![l] = Cardinality(written)]
    /\ Return(w) /\ UNCHANGED <<lifeVars, lockVars, m_LastQueuedSequence, buffer, file, kept>>

\* KeepInBacktrace()
StartKeep(t, l) ==
    /\ Begin(t, "Keep", l) /\ m_IsInitialized[l] /\ ~IsClosing(l)
    /\ m_BacktraceMutex[l] = NoOne /\ m_BacktraceMutex' = [m_BacktraceMutex EXCEPT ![l] = t]
    /\ Go(t, "Keep", "keep")
    /\ UNCHANGED <<platform, instance, outputVars, lifeVars, m_Mutex, m_LinesMutex, handlerVars, crashVars>>

EndKeep(t) ==
    /\ At(t, "Keep", "keep")
    /\ kept' = [kept EXCEPT ![on[t]] = TRUE]
    /\ m_BacktraceMutex' = [m_BacktraceMutex EXCEPT ![on[t]] = NoOne]
    /\ Return(t)
    /\ UNCHANGED <<lifeVars, m_Mutex, m_LinesMutex, m_LastQueuedSequence, m_LastWrittenSequence, buffer, file>>

\* Initialize(): registers the logger while it holds its lock
Initialize(t, l) ==
    /\ Begin(t, "Initialize", l) /\ ~m_IsInitialized[l]
    /\ Take(t, l) /\ m_IsInitialized' = [m_IsInitialized EXCEPT ![l] = TRUE]
    /\ Go(t, "Initialize", "lock list")
    /\ UNCHANGED <<platform, instance, outputVars, registryHolder, list, exists, m_BacktraceMutex, m_LinesMutex,
                   handlerVars, crashVars>>

\* Open() makes a logger initialized too, and does not register it
Open(t, l) ==
    /\ Begin(t, "Open", l) /\ m_Mutex[l] = NoOne
    /\ m_IsInitialized' = [m_IsInitialized EXCEPT ![l] = TRUE]
    /\ UNCHANGED <<platform, instance, outputVars, registryHolder, list, exists, lockVars, handlerVars, crashVars, pc>>

LockList(t) ==
    /\ pc[t][2] = "lock list" /\ ended = NoOne
    /\ registryHolder = NoOne /\ registryHolder' = t
    /\ Go(t, pc[t][1], "change list") /\ Continue
    /\ UNCHANGED <<outputVars, list, m_IsInitialized, exists, lockVars>>

\* TCrashHandling::Register(): a logger that was only closed is there still
Registered(t) == IF on[t] \in ToSet(list) THEN list ELSE <<on[t]>> \o list

Register(t) ==
    /\ At(t, "Initialize", "change list")
    /\ list' = Registered(t) /\ registryHolder' = NoOne
    /\ Unlock(on[t]) /\ Return(t)
    /\ UNCHANGED <<outputVars, m_IsInitialized, exists, m_BacktraceMutex, m_LinesMutex>>

\* Close() and Finalize(), which wait for the queue first.  A derived logger's
\* destructor calls Finalize(); no other thread uses the logger by then.
StartsToClose(t, op, l) ==
    /\ Begin(t, op, l) /\ m_LastWrittenSequence[l] = m_LastQueuedSequence[l]
    /\ op = "Destroy" => \A u \in Threads \ {t} : on[u] = l => pc[u] = <<"none", "idle">> \/ HasCrashed(u)
    /\ Go(t, op, IF op = "Close" THEN "close" ELSE "lock list")
    /\ crash' = [u \in Tasks |-> [crash[u] EXCEPT !.expects = @ \ {l}]]
    /\ UNCHANGED <<platform, instance, outputVars, lifeVars, m_BacktraceMutex, m_LinesMutex, handlerVars, isLate, ended>>

\* Mutant: Finalize() takes the logger's lock before the list's
StartCloseLocked(t, op, l) ==
    StartsToClose(t, op, l) /\ IF op = "Finalize" THEN Take(t, l) ELSE UNCHANGED m_Mutex
StartClose(t, op, l) == StartsToClose(t, op, l) /\ UNCHANGED m_Mutex

\* TCrashHandling::Unregister(): by Finalize(), and by the base's destructor,
\* which finds the logger gone from the list
Unregistered(t) == RemoveFirst(list, on[t])

Unregister(t) ==
    /\ pc[t][1] \in {"Finalize", "Destroy"} /\ pc[t][2] = "change list" /\ ended = NoOne
    /\ list' = Unregistered(t) /\ registryHolder' = NoOne
    /\ Go(t, pc[t][1], "close") /\ Continue
    /\ UNCHANGED <<outputVars, m_IsInitialized, exists, lockVars>>

UnregisterBase(t) ==
    /\ At(t, "DestroyBase", "change list")
    /\ list' = Unregistered(t) /\ registryHolder' = NoOne
    /\ Return(t) /\ UNCHANGED <<outputVars, m_IsInitialized, exists, lockVars>>

LockToClose(t) ==
    /\ pc[t][2] = "close" /\ ended = NoOne /\ m_Mutex[on[t]] \in {NoOne, t}
    /\ m_Mutex' = [m_Mutex EXCEPT ![on[t]] = t]
    /\ Go(t, pc[t][1], "locked") /\ Continue
    /\ UNCHANGED <<outputVars, lifeVars, m_BacktraceMutex, m_LinesMutex>>

\* CloseUnlocked() flushes the output and closes it
Close(t) ==
    /\ pc[t][2] = "locked" /\ ended = NoOne
    /\ LET l == on[t]
       IN  /\ file' = [file EXCEPT ![l] = Contents(l)] /\ buffer' = [buffer EXCEPT ![l] = <<>>]
           /\ m_IsInitialized' = [m_IsInitialized EXCEPT ![l] = FALSE]
           /\ Unlock(l)
    /\ IF pc[t][1] = "Destroy" THEN Go(t, "Destroy", "join") ELSE Go(t, "none", "idle")
    /\ Continue
    /\ UNCHANGED <<registryHolder, list, exists, m_BacktraceMutex, m_LinesMutex, m_LastQueuedSequence,
                   m_LastWrittenSequence, kept>>

\* Finalize() has joined the worker, and the derived logger is gone
Destroyed(t) ==
    /\ At(t, "Destroy", "join")
    /\ \A w \in Workers : WorkerOf[on[t]] = w => pc[w] = <<"none", "idle">>
    /\ exists' = [exists EXCEPT ![on[t]] = FALSE]
    /\ Go(t, "DestroyBase", "lock list") /\ Continue
    /\ UNCHANGED <<outputVars, registryHolder, list, m_IsInitialized, lockVars>>

Call(t) ==
    \/ \E l \in Loggers :
          StartWrite(t, l) \/ Queue(t, l) \/ StartKeep(t, l) \/ StartRead(t, l) \/ Initialize(t, l) \/ Open(t, l)
          \/ \E op \in {"Close", "Finalize", "Destroy"} : StartClose(t, op, l)
    \/ EndWrite(t) \/ EndKeep(t) \/ EndRead(t) \/ LockList(t) \/ Register(t) \/ Unregister(t)
    \/ LockToClose(t) \/ Close(t) \/ Destroyed(t) \/ UnregisterBase(t)
Work(w) == \E l \in Loggers : WorkerTake(w, l) \/ WorkerWrite(w) \/ WorkerMark(w)

----------------------------------------------------------------------------
(* The crash *)

Crashed(t, s, called) ==
    [NoCrash EXCEPT !.source = s, !.called = called, !.logged = m_LastQueuedSequence,
                    !.expects = {l \in ToSet(list) : m_IsInitialized[l] /\ ~IsClosing(l)},
                    !.inPlace = {"before"} \cup {h \in {"after"} : \A r \in Sources : IsReplaced(r)}]

\* The system calls the handler installed for the source; on Windows the C
\* library sets the one of SIGABRT back first
Raised(s) == current' = IF platform = "Windows" /\ s = "abort" THEN [current EXCEPT ![s] = "default"] ELSE current

\* Where a handler is in hand, the system finds the one swapped in for it, and
\* ours does not know yet the one it replaced
SystemLooksUp(s) == isTorn' = (isTorn \/ (InHand("Uninstall") /\ setup.source = s /\ setup.held # "ours"))
OursLooksUp(s) == isTorn' = (isTorn \/ (InHand("Install") /\ setup.source = s))

IsCrashPossible(t) == ended = NoOne /\ ~HasCrashed(t) /\ Cardinality({u \in Tasks : HasCrashed(u)}) < instance.maxCrashes
UnchangedInCrash == UNCHANGED <<platform, instance, outputVars, lifeVars, lockVars, IsActive, previous, isInstalled,
                                setups, setup, calls>>

\* A thread crashes wherever it is, and keeps the locks it holds
Crash(t, s) ==
    /\ IsCrashPossible(t) /\ s \in instance.sources /\ SystemLooksUp(s) /\ Raised(s)
    /\ crash' = [crash EXCEPT ![t] = Crashed(t, s, <<<<s, current[s]>>>>)]
    /\ Go(t, "crash", "handler") /\ on' = [on EXCEPT ![t] = NoOne]
    /\ UNCHANGED <<isLate, ended, IsCrashHandled>> /\ UnchangedInCrash

\* HandleCrash(): the application reports its crash before it ends
HandleCrash(t) ==
    /\ IsCrashPossible(t) /\ At(t, "none", "idle") /\ "HandleCrash" \in instance.ops[t]
    /\ IsCrashHandled' = TRUE
    /\ crash' = [crash EXCEPT ![t] = Crashed(t, "none", <<>>)]
    /\ Go(t, "crash", "lock list of loggers") /\ on' = [on EXCEPT ![t] = NoOne]
    /\ UNCHANGED <<isLate, ended, current, isTorn>> /\ UnchangedInCrash

Handler(t) == IF crash[t].called = <<>> THEN "none" ELSE Last(crash[t].called)[2]

\* Mutant: a crash that was handled already is written again
IsFirst == IsActive
\* HandleFirstCrash()
IsFirstCrash == IsActive /\ ~IsCrashHandled

HandleFirstCrash(t) ==
    /\ At(t, "crash", "handler") /\ Handler(t) = "ours"
    /\ IF IsFirstCrash
       THEN IsCrashHandled' = TRUE /\ Go(t, "crash", "lock list of loggers")
       ELSE Go(t, "crash", "pass") /\ UNCHANGED IsCrashHandled
    /\ UNCHANGED <<crash, isLate, ended, current, isTorn, on>> /\ UnchangedInCrash

CallHandler(t, s, h) ==
    /\ crash' = [crash EXCEPT ![t].source = s, ![t].called = @ \o <<<<s, h>>>>]
    /\ Go(t, "crash", "handler") /\ UNCHANGED <<isLate, ended>>

\* The handlers of ASWLog, once the crash is written, pass it on to the handler
\* they replaced: a signal handler installs that one again and lets the signal
\* come once more
OnTerminate(t) ==
    /\ crash[t].source = "terminate"
    /\ OursLooksUp("terminate")
    /\ CallHandler(t, "terminate", previous["terminate"]["ours"]) /\ UNCHANGED current

OnUnhandledException(t) ==
    /\ platform = "Windows" /\ crash[t].source = "fault"
    /\ OursLooksUp("fault")
    /\ CallHandler(t, "fault", previous["fault"]["ours"]) /\ UNCHANGED current

OnAbortSignal(t) ==
    /\ platform = "Windows" /\ crash[t].source = "abort"
    /\ OursLooksUp("abort")
    /\ CallHandler(t, "abort", previous["abort"]["ours"]) /\ UNCHANGED current

OnFatalSignal(t) ==
    /\ platform = "POSIX" /\ crash[t].source # "terminate"
    /\ LET s == crash[t].source
       IN  /\ OursLooksUp(s)
           /\ CallHandler(t, s, previous[s]["ours"]) /\ current' = [current EXCEPT ![s] = previous[s]["ours"]]

\* So do the program's other handlers
OtherHandler(t) ==
    /\ Handler(t) \in {"before", "after"}
    /\ CallHandler(t, crash[t].source, previous[crash[t].source][Handler(t)]) /\ UNCHANGED <<current, isTorn>>

\* std::terminate() ends in abort(), the other sources end the process
DefaultHandler(t) ==
    /\ Handler(t) = "default"
    /\ IF crash[t].source = "terminate"
       THEN CallHandler(t, "abort", current["abort"]) /\ SystemLooksUp("abort") /\ Raised("abort")
       ELSE ended' = t /\ UNCHANGED <<crash, isLate, pc, current, isTorn>>

\* The application that called HandleCrash() crashes in the end
AfterHandleCrash(t) ==
    /\ Handler(t) = "none"
    /\ \E s \in instance.sources : CallHandler(t, s, current[s]) /\ SystemLooksUp(s) /\ Raised(s)

PassOn(t) ==
    /\ \/ /\ At(t, "crash", "pass")
          /\ \/ AfterHandleCrash(t)
             \/ /\ Handler(t) = "ours"
                /\ OnTerminate(t) \/ OnUnhandledException(t) \/ OnAbortSignal(t) \/ OnFatalSignal(t)
       \/ At(t, "crash", "handler") /\ (OtherHandler(t) \/ DefaultHandler(t))
    /\ UNCHANGED <<IsCrashHandled, on>> /\ UnchangedInCrash

----------------------------------------------------------------------------
(* HandleCrashInLoggers() *)

Steps(t, a, b) == At(t, "crash", a) /\ Go(t, "crash", b)
UnchangedInVisit == UNCHANGED <<platform, instance, handlerVars, isLate, ended, calls, exists, m_IsInitialized, list,
                                m_BacktraceMutex, m_LinesMutex, m_LastQueuedSequence, m_LastWrittenSequence>>
UnchangedOutput == UNCHANGED <<buffer, file, kept>>

\* Mutant: the handler waits for the lock of the list
LockListOfLoggersWaits(t) ==
    /\ registryHolder = NoOne /\ Steps(t, "lock list of loggers", "visit")
    /\ registryHolder' = t /\ crash' = [crash EXCEPT ![t].todo = list, ![t].isWritten = TRUE]

LockListOfLoggers(t) ==
    \/ /\ Steps(t, "lock list of loggers", "visit") /\ registryHolder = NoOne
       /\ registryHolder' = t /\ crash' = [crash EXCEPT ![t].todo = list, ![t].isWritten = TRUE]
    \/ /\ Steps(t, "lock list of loggers", "pass") /\ registryHolder # NoOne /\ isLate[t]
       /\ UNCHANGED <<registryHolder, crash>>

\* OnCrash() of the next logger: its queue is waited for up to where it is now
Visit(t) ==
    \/ /\ crash[t].todo = <<>> /\ Steps(t, "visit", "pass")
       /\ registryHolder' = NoOne /\ on' = [on EXCEPT ![t] = NoOne] /\ UNCHANGED crash
    \/ /\ crash[t].todo # <<>>
       /\ LET l == Head(crash[t].todo)
          IN  /\ on' = [on EXCEPT ![t] = l]
              /\ crash' = [crash EXCEPT ![t].todo = Tail(@), ![t].lastQueued = m_LastQueuedSequence[l]]
              /\ Steps(t, "visit", IF m_IsInitialized[l] THEN "await" ELSE "visit")
       /\ UNCHANGED registryHolder

\* The worker cannot write the queue if this is the worker
IsAwaited(t) ==
    m_LastWrittenSequence[on[t]] >= crash[t].lastQueued \/ isLate[t] \/ WorkerOf[on[t]] = t

Await(t) == Steps(t, "await", "lock") /\ IsAwaited(t) /\ UNCHANGED <<registryHolder, crash, on>>

\* Mutant: the buffered entries are left to the crash line's flush
FlushLater(l) == UNCHANGED <<buffer, file>>
\* FlushUnlocked(), or FlushForCrashUnlocked() in a signal handler
Flush(l) == file' = [file EXCEPT ![l] = Contents(l)] /\ buffer' = [buffer EXCEPT ![l] = <<>>]

LockOutput(t) ==
    \/ /\ Steps(t, "lock", "write locked") /\ Take(t, on[t]) /\ Flush(on[t]) /\ UNCHANGED kept
    \/ /\ Steps(t, "lock", "write") /\ m_Mutex[on[t]] # NoOne /\ isLate[t] /\ UNCHANGED <<m_Mutex, buffer, file, kept>>

\* In a POSIX signal handler only async-signal-safe work is done
IsInSignalHandler(t) == platform = "POSIX" /\ crash[t].source \in {"abort", "fault"}

\* What the visit of the backtrace yields: nothing while its lock is busy
Visited(t) == IF kept[on[t]] /\ m_BacktraceMutex[on[t]] = NoOne THEN <<BacktraceLines(t)>> ELSE <<>>
\* Straight to the output, past its buffer: nothing to one that is closed, or
\* to a memory logger, which does not override WriteCrashLineDirect()
Direct(t, lines) == IF m_IsInitialized[on[t]] /\ on[t] \notin Memory THEN lines ELSE <<>>
WriteDirect(t) ==
    /\ file' = [file EXCEPT ![on[t]] = @ \o Direct(t, Visited(t) \o <<CrashLine(t)>>)]
    /\ UNCHANGED buffer

\* Through the formatter, which may throw in the crashed process; a memory
\* logger waits for its lines without a deadline.  Nothing to a logger closed
\* while the handler waited for its lock.
WriteFormatted(t) ==
    LET l == on[t]
    IN  \/ /\ m_IsInitialized[l] /\ LinesAreFree(l)
           /\ \/ /\ file' = [file EXCEPT ![l] = Contents(l) \o Visited(t) \o <<CrashLine(t)>>]
                 /\ buffer' = [buffer EXCEPT ![l] = <<>>]
              \/ \E lines \in {Visited(t), <<>>} :
                    IF l \in Memory
                    THEN file' = [file EXCEPT ![l] = @ \o lines] /\ UNCHANGED buffer
                    ELSE /\ file' = [file EXCEPT ![l] = @ \o <<CrashLine(t)>>]
                         /\ buffer' = [buffer EXCEPT ![l] = @ \o lines]
        \/ ~m_IsInitialized[l] /\ UNCHANGED <<file, buffer>>

\* The backtrace is visited, and forgotten then: not that of a logger found closed
IsVisited(t) == pc[t][2] = "write locked" /\ ~IsInSignalHandler(t) => m_IsInitialized[on[t]]
IsForgotten(t) == IsVisited(t) /\ ~IsInSignalHandler(t) /\ m_BacktraceMutex[on[t]] = NoOne

WriteCrash(t) ==
    /\ pc[t] \in {<<"crash", "write">>, <<"crash", "write locked">>}
    /\ IsVisited(t) => m_BacktraceMutex[on[t]] = NoOne \/ isLate[t]
    /\ \/ /\ Steps(t, "write locked", "visit") /\ Unlock(on[t])
          /\ IF IsInSignalHandler(t) THEN WriteDirect(t) ELSE WriteFormatted(t)
       \/ Steps(t, "write", "visit") /\ UNCHANGED m_Mutex /\ WriteDirect(t)
    /\ kept' = IF IsForgotten(t) THEN [kept EXCEPT ![on[t]] = FALSE] ELSE kept

HandleCrashInLoggers(t) ==
    /\ \/ LockListOfLoggers(t) /\ UNCHANGED <<on, m_Mutex>> /\ UnchangedOutput
       \/ Visit(t) /\ UNCHANGED m_Mutex /\ UnchangedOutput
       \/ Await(t) /\ UNCHANGED m_Mutex /\ UnchangedOutput
       \/ (LockOutput(t) \/ WriteCrash(t)) /\ UNCHANGED <<registryHolder, crash, on>>
    /\ UnchangedInVisit

\* The deadline passes (PauseBeforeDeadline())
Timeout(t) ==
    /\ pc[t][1] = "crash" /\ pc[t][2] \notin {"handler", "pass"} /\ ended = NoOne
    /\ ~isLate[t] /\ isLate' = [isLate EXCEPT ![t] = TRUE]
    /\ UNCHANGED <<platform, instance, outputVars, lifeVars, lockVars, handlerVars, crash, ended, pc, on, calls>>

Handle(t) == HandleFirstCrash(t) \/ PassOn(t) \/ HandleCrashInLoggers(t)

Next ==
    \/ Setup
    \/ \E t \in Threads : Call(t) \/ HandleCrash(t)
    \/ \E w \in Workers : Work(w)
    \/ \E t \in Tasks : (\E s \in Sources : Crash(t, s)) \/ Handle(t) \/ Timeout(t)

Spec == Init /\ [][Next]_vars

\* A crashed thread goes on and time passes, whatever the others do; who holds
\* the lock of a memory logger's lines comes to let it go unless it crashes
FairSpec ==
    /\ Spec /\ \A t \in Tasks : WF_vars(Handle(t)) /\ WF_vars(Timeout(t))
    /\ \A t \in Threads : WF_vars(EndRead(t))

----------------------------------------------------------------------------
(* Properties *)

CrashLines(l) == {i \in DOMAIN file[l] : file[l][i].kind \in {"crash", "explicit"}}
Entries(l, n) == {i \in DOMAIN file[l] : file[l][i].kind = "entry" /\ file[l][i].n <= n}
IsInHandler(t) == HasCrashed(t) /\ pc[t][2] \notin {"handler", "pass"}

(***************************************************************************)
(* The crash line comes after every entry logged before the crash, queued  *)
(* or in the buffer, unless a wait took until the deadline or the worker   *)
(* itself crashed ("Every initialized text logger is then flushed,         *)
(* including its buffered and queued entries", docs/Guarantees.md), even   *)
(* if the formatter throws.                                                *)
(***************************************************************************)
EntriesPrecedeCrashLine ==
    \A l \in Loggers : \A i \in DOMAIN file[l] :
        LET x == file[l][i]
        IN  x.kind \in {"crash", "explicit"} /\ ~x.isLate /\ x.by # WorkerOf[l] =>
                \A n \in 1 .. crash[x.by].logged[l] : \E j \in Entries(l, n) : j < i /\ file[l][j].n = n

\* The handlers' line is a logger's only one, or stands with another thread's
\* that HandleCrash() wrote
OneLineByHandlers ==
    \A l \in Loggers : \A i, j \in CrashLines(l) :
        i # j => file[l][i].by # file[l][j].by /\ "explicit" \in {file[l][i].kind, file[l][j].kind}

(***************************************************************************)
(* When the thread whose crash the handlers wrote ends the process, each   *)
(* logger that was initialized all along has its line, whoever holds its   *)
(* locks (WriteCrashLineDirect()); without it only if the list of loggers  *)
(* stayed locked until the deadline, or it keeps its lines in memory:      *)
(* nothing can be written to that directly.  However many threads crash,   *)
(* and however often one crash reaches the handlers (std::terminate(),     *)
(* then abort()), they write one line to a logger at most, and none for a  *)
(* crash that HandleCrash() has reported.                                  *)
(***************************************************************************)
LoggersGetTheCrash ==
    /\ OneLineByHandlers
    /\ ended # NoOne /\ crash[ended].isWritten =>
          \A l \in crash[ended].expects \ Memory : \E i \in CrashLines(l) : file[l][i].by = ended

\* Once past the list's lock a handler holds it, and a logger's while it writes
HoldsItsLocks ==
    \A t \in Tasks :
        /\ IsInHandler(t) /\ pc[t][2] # "lock list of loggers" => registryHolder = t
        /\ pc[t] = <<"crash", "write locked">> => m_Mutex[on[t]] = t

\* Who waits for the list's lock with a logger's lock a handler waits for
IsWaitedFor(u) ==
    /\ pc[u][2] \in {"lock list", "change list"}
    /\ \E t \in Tasks : pc[t] = <<"crash", "lock">> /\ m_Mutex[on[t]] = u

(***************************************************************************)
(* A handler never visits a logger of which a part is destroyed:           *)
(* Finalize(), in the derived logger's destructor, takes it off the list   *)
(* first, under the list's lock, which the handler holds.  While a handler *)
(* waits for a logger's lock, the thread that holds it does not wait for   *)
(* the list's lock in turn: Finalize() leaves the list before it takes the *)
(* logger's lock, so the handler need not wait until the deadline.  But    *)
(* Initialize() does, with the lock of a logger that Close() left on the   *)
(* list, and then the handler waits until its deadline.                    *)
(***************************************************************************)
VisitsLiveLoggers ==
    /\ HoldsItsLocks
    /\ \A t \in Tasks : IsInHandler(t) /\ on[t] # NoOne => exists[on[t]] /\ on[t] \in ToSet(list)
    /\ \A u \in Tasks : IsWaitedFor(u) => pc[u][1] = "Initialize"

\* The crash of one thread reaches each handler of the program, the one from
\* before InstallCrashHandlers() and the one that replaced ours since, once for
\* each source
EachHandlerIsCalled ==
    ended # NoOne /\ (\A t \in Tasks : HasCrashed(t) => t = ended) =>
        LET called == crash[ended].called
        IN  /\ \A i, j \in DOMAIN called : called[i] = called[j] => i = j
            /\ \A i \in DOMAIN called : \A h \in crash[ended].inPlace : <<called[i][1], h>> \in ToSet(called)

(***************************************************************************)
(* However often the handlers are installed and uninstalled, and whenever  *)
(* that stops, the crash of one thread reaches each handler of the program *)
(* ("a handler replaced since stays"), once for each source.  Except where *)
(* ours passes it on before the handler it replaced is stored, where it    *)
(* comes while another's handler is taken out of its place, or where a     *)
(* handler was replaced while ours was being put back.                     *)
(***************************************************************************)
HandlersGetTheCrash == ~isTorn => EachHandlerIsCalled

\* A crashed thread holds the lock of a memory logger's lines
LinesStayLocked == \E l \in Memory : \E t \in Tasks : HasCrashed(t) /\ m_LinesMutex[l] = t

(***************************************************************************)
(* Whatever locks of the loggers, of their backtraces and of the list the  *)
(* crashed threads hold, the handler of each comes to an end and the       *)
(* process with it: the handler only tries those.  It waits for the lock   *)
(* of a memory logger's lines, so a thread that crashes in Clear() or      *)
(* GetLines() is the exception: the handler waits for it without end.      *)
(***************************************************************************)
ProcessEnds == (\E t \in Tasks : HasCrashed(t)) ~> ended # NoOne \/ LinesStayLocked
=============================================================================
