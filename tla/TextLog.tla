------------------------------ MODULE TextLog ------------------------------
(***************************************************************************)
(* The asynchronous writing of a text logger (TASWTextLogBase, with the    *)
(* output hooks of TASWFileLog): application threads format an entry and   *)
(* queue it, one worker thread writes the queue in batches, and Open(),    *)
(* Close(), Flush(), Reconfigure(), Initialize() and Finalize() run        *)
(* concurrently with both, on any thread, the worker's callbacks included. *)
(*                                                                         *)
(* A step is one critical section of m_Mutex or m_QueueMutex, or one read  *)
(* of an atomic.  A wait on a condition variable that finds its predicate  *)
(* false puts the thread to sleep; only a notify wakes it, and it then     *)
(* tests the predicate again.                                              *)
(***************************************************************************)
EXTENDS Integers, Sequences, FiniteSets

CONSTANTS
    App,            \* the application's threads
    W,              \* the logger's worker thread
    Configs,        \* the configurations Initialize() and Reconfigure() get
    DefaultConfig,  \* the configuration of a logger just constructed
    QueueCapacity,  \* TASWAsyncConfig::QueueCapacity
    CallOps,        \* the methods each of the application's threads calls
    HandlerOps,     \* the methods OnLogEntry and OnError call on the worker
    MaxCalls,       \* bound: how many calls each thread makes
    Failures        \* which of "open", "flush", "throw", "thread" may fail

Threads == App \cup {W}

Ops == {"Log", "LogUrgent", "Flush", "Open", "Close", "Initialize",
        "Reconfigure", "Finalize"}

(***************************************************************************)
(* The settings that steer this component.  Policy is                      *)
(* Async.OverflowPolicy; Flush is File.Flush ("EveryWrite" stands for all  *)
(* modes that flush every entry, "Periodic" for a positive FlushInterval); *)
(* FlushAtOnce says that File.FlushImmediatelyAtLevel is at or below the   *)
(* level of an urgent entry (one at or above Async.WaitAtLevel).           *)
(***************************************************************************)
Config == [Async : BOOLEAN, Policy : {"Block", "DropNewest"},
           Flush : {"EveryWrite", "Manual", "Periodic"}, FlushAtOnce : BOOLEAN]

ASSUME ThreadsAssumption == W \notin App
ASSUME ConfigsAssumption == Configs \subseteq Config /\ DefaultConfig \in Configs
ASSUME CapacityAssumption == QueueCapacity \in Nat
ASSUME OpsAssumption == CallOps \in [App -> SUBSET Ops] /\ HandlerOps \subseteq Ops \ {"Finalize"}
ASSUME BoundsAssumption == MaxCalls \in [Threads -> Nat]
ASSUME FailuresAssumption == Failures \subseteq {"open", "flush", "throw", "thread"}

VARIABLES
    \* guarded by m_Mutex: the output and the work to run after the unlock
    m_IsInitialized,  \* m_IsInitialized and m_IsOpen, which change together here
    m_Config,
    m_Out,            \* the lines written to the output, in order
    m_Flushed,        \* how many of them have left the logger's buffer
    m_HasDeferredWork,
    deferredDrops,    \* dropped entries the queued EntriesDropped reports count
    \* guarded by m_QueueMutex
    m_Queue,
    m_LastQueuedSequence,
    m_LastWrittenSequence,
    m_DroppedCount,
    m_IsAsyncActive,
    m_IsAsync,
    m_WorkerInterval,  \* above 0
    m_IsWorkerStopping,
    m_IsWorkerStoppingItself,
    \* the worker thread: where it is ("none": no std::thread to join), and
    \* the locals of one turn of RunWorker()'s loop
    wpc, entries, droppedCount, writtenCount, isStopping, isWakeDue,
    \* every thread's current call, and the threads asleep on m_QueueChanged
    pc, call, waiting, logged, calls,
    \* history
    dropped,          \* the entries a full queue dropped, as <<thread, n>>
    lost,             \* sequence numbers of entries taken but not written
    reported,         \* dropped entries passed to ReportError()
    closedSequence    \* up to where the last Close() waited for the queue: 0 on the
                      \* worker, which does not wait for itself

outVars == <<m_IsInitialized, m_Config, m_Out, m_Flushed, m_HasDeferredWork, deferredDrops>>
seqVars == <<m_Queue, m_LastQueuedSequence, m_LastWrittenSequence, m_DroppedCount>>
asyncVars == <<m_IsAsyncActive, m_IsAsync>>
stopVars == <<m_WorkerInterval, m_IsWorkerStopping, m_IsWorkerStoppingItself>>
turnVars == <<entries, droppedCount, writtenCount, isStopping, isWakeDue>>
callVars == <<pc, call, waiting, logged, calls>>
historyVars == <<dropped, lost, reported, closedSequence>>
vars == <<outVars, seqVars, asyncVars, stopVars, wpc, turnVars, callVars, historyVars>>

----------------------------------------------------------------------------
(* Data *)

Capacity == IF QueueCapacity > 1 THEN QueueCapacity ELSE 1

\* A line, and a queued entry (TQueuedEntry): the n-th entry its thread
\* logged, formatted with config; a line of the logger's own has n = 0.
Entry == [kind : {"entry", "startup", "shutdown", "drops"}, thread : Threads,
          n : Nat, config : Configs, seq : Nat, urgent : BOOLEAN]

\* The entry t is logging, formatted with config c; seq is 0 if not queued.
EntryOf(t, c, seq) ==
    [kind |-> "entry", thread |-> t, n |-> logged[t], config |-> c, seq |-> seq,
     urgent |-> call[t].op = "LogUrgent"]

OwnLine(kind, t, c) ==
    [kind |-> kind, thread |-> t, n |-> 0, config |-> c, seq |-> 0,
     urgent |-> FALSE]

\* What a call remembers: for Log, the config its entry was formatted with;
\* for the others, their argument.  seq is the sequence number waited for,
\* async what UpdateWorker() read before it started the worker.
Call == [op : Ops \cup {"none"}, config : Configs, seq : Nat, async : BOOLEAN]
NoCall == [op |-> "none", config |-> DefaultConfig, seq |-> 0, async |-> FALSE]

Goto(t, label) == pc' = [pc EXCEPT ![t] = label]

\* What call t goes on with
Remember(t, op, config, seq, async) ==
    call' = [call EXCEPT ![t] = [op |-> op, config |-> config, seq |-> seq, async |-> async]]

Return(t) == /\ Goto(t, "idle")
             /\ call' = [call EXCEPT ![t] = NoCall]

(***************************************************************************)
(* m_QueueChanged.wait(lock, cond): t goes on to next, or sleeps at here.  *)
(***************************************************************************)
WaitUntil(t, cond, here, next) ==
    IF cond THEN Goto(t, next) /\ waiting' = waiting
            ELSE Goto(t, here) /\ waiting' = waiting \cup {t}

\* Mutant: notify_one() on the condition several threads wait on
NotifyOneWaiting ==
    IF waiting = {} THEN waiting' = {} ELSE \E t \in waiting : waiting' = waiting \ {t}

NotifyQueueChanged == waiting' = {}

\* Mutant: the wake-up is forgotten
NotifyNobody == wpc' = wpc

\* m_WorkerWakeup.notify_one() or notify_all(): only the worker waits on it
NotifyWorker == wpc' = IF wpc = "asleep" THEN "loop" ELSE wpc

\* Mutant: the wait ends one entry early
IsNextToWrite(seq) == m_LastWrittenSequence + 1 >= seq

IsWritten(seq) == m_LastWrittenSequence >= seq
IsDrained == IsWritten(m_LastQueuedSequence)
IsFull == Len(m_Queue) >= Capacity
MayDrop(t) == call[t].config.Policy = "DropNewest" /\ call[t].op # "LogUrgent"

\* Mutant: callers write directly at once, while entries are still queued
SetAsyncAtOnce(isActive) ==
    /\ m_IsAsyncActive' = isActive /\ m_IsAsync' = isActive
    /\ NotifyQueueChanged

SetAsyncActive(isActive) ==
    /\ m_IsAsyncActive' = isActive
    /\ m_IsAsync' = IF isActive \/ IsDrained THEN isActive ELSE m_IsAsync
    /\ NotifyQueueChanged

(***************************************************************************)
(* TASWFileLog::FlushUnlocked(), if cond holds, once the lines of out are  *)
(* written.  A failure is reported after the unlock, as what mustReport    *)
(* stands for is.                                                          *)
(***************************************************************************)
FlushIf(cond, out, mustReport) ==
    \/ /\ m_Flushed' = IF cond THEN Len(out) ELSE m_Flushed
       /\ m_HasDeferredWork' = IF mustReport THEN TRUE ELSE m_HasDeferredWork
    \/ /\ "flush" \in Failures /\ cond
       /\ m_Flushed' = m_Flushed
       /\ m_HasDeferredWork' = TRUE

----------------------------------------------------------------------------
Init ==
    /\ m_IsInitialized = FALSE /\ m_Config = DefaultConfig
    /\ m_Out = <<>> /\ m_Flushed = 0
    /\ m_HasDeferredWork = FALSE /\ deferredDrops = 0
    /\ m_Queue = <<>> /\ m_LastQueuedSequence = 0 /\ m_LastWrittenSequence = 0
    /\ m_DroppedCount = 0
    /\ m_IsAsyncActive = FALSE /\ m_IsAsync = FALSE
    /\ m_WorkerInterval = FALSE
    /\ m_IsWorkerStopping = FALSE /\ m_IsWorkerStoppingItself = FALSE
    /\ wpc = "none" /\ entries = <<>> /\ droppedCount = 0 /\ writtenCount = 0
    /\ isStopping = FALSE /\ isWakeDue = FALSE
    /\ pc = [t \in Threads |-> "idle"]
    /\ call = [t \in Threads |-> NoCall]
    /\ waiting = {}
    /\ logged = [t \in Threads |-> 0] /\ calls = [t \in Threads |-> 0]
    /\ dropped = {} /\ lost = {} /\ reported = 0 /\ closedSequence = 0

----------------------------------------------------------------------------
(* A call begins: on an application thread at any time; on the worker from *)
(* OnError, or from OnLogEntry for each entry of the batch it wrote.       *)

InHandler == wpc \in {"onError", "onWakeError"} \/ (wpc = "callbacks" /\ writtenCount > 0)

MayCall(t, op) ==
    /\ pc[t] = "idle" /\ calls[t] < MaxCalls[t]
    /\ \/ t \in App /\ op \in CallOps[t]
       \/ t = W /\ op \in HandlerOps /\ InHandler

Begin(t, op, config, seq) ==
    /\ MayCall(t, op)
    /\ calls' = [calls EXCEPT ![t] = @ + 1]
    /\ Remember(t, op, config, seq, FALSE)

\* WriteRecord(): reads m_IsAsync without a lock
Log(t, op) ==
    /\ op \in {"Log", "LogUrgent"}
    /\ Begin(t, op, DefaultConfig, 0)
    /\ logged' = [logged EXCEPT ![t] = @ + 1]
    /\ Goto(t, IF m_IsAsync THEN "format" ELSE "sync")
    /\ UNCHANGED <<outVars, seqVars, asyncVars, stopVars, wpc, turnVars, waiting, historyVars>>

\* The methods that start with WaitForQueuedEntries(), which returns at once
\* on the worker
WaitForQueuedEntries(t, op, config) ==
    LET seq == IF t = W THEN 0 ELSE m_LastQueuedSequence
    IN  /\ op \in {"Flush", "Close", "Reconfigure", "Finalize"}
        /\ Begin(t, op, config, seq)
        /\ WaitUntil(t, IsWritten(seq), "barrier", "locked")
        /\ UNCHANGED <<outVars, seqVars, asyncVars, stopVars, wpc, turnVars, logged, historyVars>>

\* Open() and Initialize() go straight to m_Mutex
BeginUnqueued(t, op, config) ==
    /\ op \in {"Open", "Initialize"}
    /\ Begin(t, op, config, 0)
    /\ Goto(t, "locked")
    /\ UNCHANGED <<outVars, seqVars, asyncVars, stopVars, wpc, turnVars, waiting, logged, historyVars>>

Barrier(t) ==
    /\ pc[t] = "barrier" /\ t \notin waiting
    /\ WaitUntil(t, IsWritten(call[t].seq), "barrier", "locked")
    /\ UNCHANGED <<outVars, seqVars, asyncVars, stopVars, wpc, turnVars, call, logged, calls, historyVars>>

----------------------------------------------------------------------------
(* QueueRecord() *)

\* Formats the entry from a snapshot of the config, without a lock
FormatEntry(t) ==
    /\ pc[t] = "format"
    /\ Remember(t, call[t].op, m_Config, 0, FALSE)
    /\ Goto(t, "queue")
    /\ UNCHANGED <<outVars, seqVars, asyncVars, stopVars, wpc, turnVars, waiting, logged, calls, historyVars>>

QueueDrop(t) ==
    /\ pc[t] = "queue" /\ t # W
    /\ MayDrop(t) /\ m_IsAsyncActive /\ IsFull
    /\ m_DroppedCount' = m_DroppedCount + 1
    /\ dropped' = dropped \cup {<<t, logged[t]>>}
    /\ Return(t)
    /\ UNCHANGED <<outVars, m_Queue, m_LastQueuedSequence, m_LastWrittenSequence, asyncVars,
                   stopVars, wpc, turnVars, waiting, logged, calls, lost, reported, closedSequence>>

QueueWait(t) ==
    /\ pc[t] = "queue" /\ t # W /\ t \notin waiting
    /\ ~MayDrop(t) /\ m_IsAsyncActive /\ IsFull
    /\ waiting' = waiting \cup {t}
    /\ UNCHANGED <<outVars, seqVars, asyncVars, stopVars, wpc, turnVars, pc, call, logged, calls, historyVars>>

\* The worker queues without waiting for room; nobody waits on the worker
QueuePush(t) ==
    LET seq == m_LastQueuedSequence + 1
    IN  /\ pc[t] = "queue" /\ t \notin waiting
        /\ m_IsAsyncActive /\ (t = W \/ ~IsFull)
        /\ m_Queue' = Append(m_Queue, EntryOf(t, call[t].config, seq))
        /\ m_LastQueuedSequence' = seq
        /\ NotifyWorker
        /\ IF call[t].op = "LogUrgent" /\ t # W
           THEN /\ Goto(t, "await") /\ waiting' = waiting \cup {t}
                /\ Remember(t, call[t].op, call[t].config, seq, FALSE)
           ELSE Return(t) /\ waiting' = waiting
        /\ UNCHANGED <<outVars, m_LastWrittenSequence, m_DroppedCount, asyncVars, stopVars,
                       turnVars, logged, calls, historyVars>>

\* Async was switched off meanwhile: the caller writes its entry itself, an
\* application thread once the queued ones are written
QueueRefuse(t) ==
    /\ pc[t] = "queue" /\ t \notin waiting
    /\ ~m_IsAsyncActive
    /\ WaitUntil(t, t = W \/ IsDrained, "drain", "sync")
    /\ UNCHANGED <<outVars, seqVars, asyncVars, stopVars, wpc, turnVars, call, logged, calls, historyVars>>

Drain(t) ==
    /\ pc[t] = "drain" /\ t \notin waiting
    /\ WaitUntil(t, IsDrained, "drain", "sync")
    /\ UNCHANGED <<outVars, seqVars, asyncVars, stopVars, wpc, turnVars, call, logged, calls, historyVars>>

\* The caller of an urgent entry waits until the worker has written it
Await(t) ==
    /\ pc[t] = "await" /\ t \notin waiting
    /\ \/ IsWritten(call[t].seq) /\ Return(t) /\ waiting' = waiting
       \/ ~IsWritten(call[t].seq) /\ waiting' = waiting \cup {t} /\ UNCHANGED <<pc, call>>
    /\ UNCHANGED <<outVars, seqVars, asyncVars, stopVars, wpc, turnVars, logged, calls, historyVars>>

----------------------------------------------------------------------------
(* What the methods do under m_Mutex *)

\* WriteRecord() without async: MaybeFlush() after the line
FlushesEntry(config, urgent) ==
    config.Flush = "EveryWrite" \/ (urgent /\ config.FlushAtOnce)

WriteSync(t) ==
    /\ pc[t] = "sync"
    /\ IF m_IsInitialized
       THEN /\ m_Out' = Append(m_Out, EntryOf(t, m_Config, 0))
            /\ FlushIf(FlushesEntry(m_Config, call[t].op = "LogUrgent"), m_Out', FALSE)
       ELSE UNCHANGED <<m_Out, m_Flushed, m_HasDeferredWork>>
    /\ Goto(t, "deferred")
    /\ UNCHANGED <<m_IsInitialized, m_Config, deferredDrops, seqVars, asyncVars, stopVars, wpc,
                   turnVars, call, waiting, logged, calls, historyVars>>

AtLock(t, op) == pc[t] = "locked" /\ call[t].op = op /\ Goto(t, "deferred")

lockedUnchanged == <<deferredDrops, seqVars, asyncVars, stopVars, wpc, turnVars, call, waiting,
                     logged, calls, dropped, lost, reported>>

Flush(t) ==
    /\ AtLock(t, "Flush")
    /\ FlushIf(m_IsInitialized, m_Out, FALSE)
    /\ UNCHANGED <<m_IsInitialized, m_Config, m_Out, closedSequence, lockedUnchanged>>

\* CloseUnlocked(): closing the file flushes it
CloseUnlocked(t, out) ==
    /\ m_IsInitialized' = FALSE
    /\ closedSequence' = IF m_IsInitialized THEN call[t].seq ELSE closedSequence
    /\ FlushIf(m_IsInitialized, out, FALSE)

Close(t) ==
    /\ AtLock(t, "Close")
    /\ CloseUnlocked(t, m_Out)
    /\ UNCHANGED <<m_Config, m_Out, lockedUnchanged>>

\* The shutdown line, then CloseUnlocked()
Finalize(t) ==
    /\ AtLock(t, "Finalize")
    /\ m_Out' = IF m_IsInitialized THEN Append(m_Out, OwnLine("shutdown", t, m_Config)) ELSE m_Out
    /\ CloseUnlocked(t, m_Out')
    /\ UNCHANGED <<m_Config, lockedUnchanged>>

\* OpenUnlocked(); opening fails only if the file is not open yet
Open(t) ==
    /\ AtLock(t, "Open")
    /\ \/ m_IsInitialized' = TRUE /\ m_HasDeferredWork' = m_HasDeferredWork
       \/ /\ "open" \in Failures /\ ~m_IsInitialized
          /\ m_IsInitialized' = FALSE /\ m_HasDeferredWork' = TRUE
    /\ UNCHANGED <<m_Config, m_Out, m_Flushed, closedSequence, lockedUnchanged>>

\* The config is stored even if the file can't be opened
Initialize(t) ==
    /\ AtLock(t, "Initialize")
    /\ \/ m_IsInitialized /\ UNCHANGED outVars
       \/ /\ ~m_IsInitialized
          /\ m_Config' = call[t].config
          /\ m_IsInitialized' = TRUE
          /\ m_Out' = Append(m_Out, OwnLine("startup", t, call[t].config))
          /\ FlushIf(FlushesEntry(call[t].config, FALSE), m_Out', FALSE)
          /\ UNCHANGED deferredDrops
       \/ /\ ~m_IsInitialized /\ "open" \in Failures
          /\ m_Config' = call[t].config
          /\ m_HasDeferredWork' = TRUE
          /\ UNCHANGED <<m_IsInitialized, m_Out, m_Flushed, deferredDrops>>
    /\ UNCHANGED <<closedSequence, lockedUnchanged>>

\* With the file's path unchanged: flushes what the old mode buffered
Reconfigure(t) ==
    /\ AtLock(t, "Reconfigure")
    /\ m_Config' = IF m_IsInitialized THEN call[t].config ELSE m_Config
    /\ FlushIf(m_IsInitialized, m_Out, FALSE)
    /\ UNCHANGED <<m_IsInitialized, m_Out, closedSequence, lockedUnchanged>>

\* After the unlock: whoever comes first takes all the deferred work
TakeDeferredWork ==
    /\ m_HasDeferredWork' = FALSE
    /\ reported' = reported + deferredDrops
    /\ deferredDrops' = 0

RunDeferredWork(t) ==
    /\ pc[t] = "deferred"
    /\ TakeDeferredWork
    /\ IF call[t].op \in {"Log", "LogUrgent", "Flush"}
       THEN Return(t)
       ELSE Goto(t, "update") /\ call' = call
    /\ UNCHANGED <<m_IsInitialized, m_Config, m_Out, m_Flushed, seqVars, asyncVars, stopVars, wpc,
                   turnVars, waiting, logged, calls, dropped, lost, closedSequence>>

----------------------------------------------------------------------------
(* UpdateWorker(), when the methods that may change it return *)

WantsInterval(t) ==
    call[t].op # "Finalize" /\ m_IsInitialized /\ m_Config.Flush = "Periodic"
WantsAsync(t) ==
    call[t].op # "Finalize" /\ m_IsInitialized /\ m_Config.Async
IsWanted(t) == WantsInterval(t) \/ WantsAsync(t)

\* m_WorkerMutex, held while the worker is started, stopped or joined
HoldsWorkerMutex(t) == pc[t] \in {"decide", "join", "start", "activate"}

Decides(t) ==
    /\ t # W
    /\ \/ pc[t] = "decide"
       \/ pc[t] = "update" /\ \A u \in Threads : ~HoldsWorkerMutex(u)

IsJoinable == wpc # "none"

updateUnchanged == <<outVars, seqVars, turnVars, logged, calls, historyVars>>

KeepWorker(t) ==
    /\ Decides(t)
    /\ IsJoinable /\ ~m_IsWorkerStopping /\ IsWanted(t)
    /\ m_WorkerInterval' = WantsInterval(t)
    /\ SetAsyncActive(WantsAsync(t))
    /\ NotifyWorker
    /\ Return(t)
    /\ UNCHANGED <<m_IsWorkerStopping, m_IsWorkerStoppingItself, updateUnchanged>>

StopWorker(t) ==
    /\ Decides(t)
    /\ IsJoinable /\ (m_IsWorkerStopping \/ ~IsWanted(t))
    /\ m_IsWorkerStopping' = TRUE /\ m_IsWorkerStoppingItself' = FALSE
    /\ SetAsyncActive(FALSE)
    /\ NotifyWorker
    /\ Goto(t, "join")
    /\ UNCHANGED <<m_WorkerInterval, call, updateUnchanged>>

NoWorker(t) ==
    /\ Decides(t)
    /\ ~IsJoinable /\ ~IsWanted(t)
    /\ Return(t)
    /\ UNCHANGED <<asyncVars, stopVars, wpc, waiting, updateUnchanged>>

WantWorker(t) ==
    /\ Decides(t)
    /\ ~IsJoinable /\ IsWanted(t)
    /\ m_IsWorkerStopping' = FALSE
    /\ m_WorkerInterval' = WantsInterval(t)
    /\ Remember(t, call[t].op, call[t].config, call[t].seq, WantsAsync(t))
    /\ Goto(t, "start")
    /\ UNCHANGED <<m_IsWorkerStoppingItself, asyncVars, wpc, waiting, updateUnchanged>>

\* Then decides again, since the state may have changed meanwhile
JoinWorker(t) ==
    /\ pc[t] = "join" /\ wpc = "ended"
    /\ wpc' = "none"
    /\ Goto(t, "decide")
    /\ UNCHANGED <<asyncVars, stopVars, call, waiting, updateUnchanged>>

\* The new thread runs before async is switched on; std::thread may throw
StartWorker(t) ==
    /\ pc[t] = "start"
    /\ \/ wpc' = "loop" /\ Goto(t, "activate") /\ call' = call
       \/ "thread" \in Failures /\ wpc' = wpc /\ Return(t)
    /\ UNCHANGED <<asyncVars, stopVars, waiting, updateUnchanged>>

ActivateAsync(t) ==
    /\ pc[t] = "activate"
    /\ SetAsyncActive(call[t].async)
    /\ Return(t)
    /\ UNCHANGED <<stopVars, wpc, updateUnchanged>>

\* On the worker itself: stops it, or undoes a stop that was its own
UpdateWorkerFromWorker ==
    /\ pc[W] = "update"
    /\ \/ /\ IsWanted(W)
          /\ LET stopping == m_IsWorkerStopping /\ ~m_IsWorkerStoppingItself
             IN  /\ m_IsWorkerStopping' = stopping
                 /\ \/ stopping /\ UNCHANGED <<m_WorkerInterval, asyncVars, waiting>>
                    \/ /\ ~stopping /\ m_WorkerInterval' = WantsInterval(W)
                       /\ SetAsyncActive(WantsAsync(W))
          /\ UNCHANGED m_IsWorkerStoppingItself
       \/ /\ ~IsWanted(W) /\ ~m_IsWorkerStopping
          /\ m_IsWorkerStopping' = TRUE /\ m_IsWorkerStoppingItself' = TRUE
          /\ SetAsyncActive(FALSE)
          /\ UNCHANGED m_WorkerInterval
       \/ /\ ~IsWanted(W) /\ m_IsWorkerStopping
          /\ UNCHANGED <<stopVars, asyncVars, waiting>>
    /\ NotifyWorker
    /\ Return(W)
    /\ UNCHANGED updateUnchanged

----------------------------------------------------------------------------
(* RunWorker() *)

HasWork == m_IsWorkerStopping \/ m_Queue # <<>> \/ m_DroppedCount > 0

\* Takes the queue and the drop count together; makes room
WorkerTake ==
    /\ wpc = "loop"
    /\ isWakeDue' \in {FALSE, m_WorkerInterval}
    /\ HasWork \/ isWakeDue'
    /\ isStopping' = m_IsWorkerStopping
    /\ entries' = m_Queue /\ m_Queue' = <<>>
    /\ droppedCount' = m_DroppedCount /\ m_DroppedCount' = 0
    /\ NotifyQueueChanged
    /\ wpc' = IF m_Queue # <<>> \/ m_DroppedCount > 0 THEN "write" ELSE "wake"
    /\ UNCHANGED <<outVars, m_LastQueuedSequence, m_LastWrittenSequence, asyncVars, stopVars,
                   writtenCount, pc, call, logged, calls, historyVars>>

WorkerSleep ==
    /\ wpc = "loop" /\ ~HasWork
    /\ wpc' = "asleep"
    /\ UNCHANGED <<outVars, seqVars, asyncVars, stopVars, turnVars, callVars, historyVars>>

\* wait_for() with an interval
WorkerTimeout ==
    /\ wpc = "asleep" /\ m_WorkerInterval
    /\ wpc' = "loop"
    /\ UNCHANGED <<outVars, seqVars, asyncVars, stopVars, turnVars, callVars, historyVars>>

\* How many of the batch's entries are written before an exception, if any
WrittenCounts ==
    IF ~m_IsInitialized THEN {0}
    ELSE IF "throw" \in Failures THEN 0..Len(entries)
    ELSE {Len(entries)}

\* Mutant: nobody flushes for the callers that wait
FlushesEveryWriteOnly(mustFlush) == m_Config.Flush = "EveryWrite"

\* AfterQueuedEntriesUnlocked()
FlushesBatch(mustFlush) == mustFlush \/ m_Config.Flush = "EveryWrite"

\* Mutant: the line about the drops comes first
DropsThenEntries(k, marksDrops) ==
    (IF marksDrops /\ m_IsInitialized THEN <<OwnLine("drops", W, m_Config)>> ELSE <<>>)
        \o SubSeq(entries, 1, k)

\* The first k entries, then the line that says how many were dropped
BatchLines(k, marksDrops) ==
    SubSeq(entries, 1, k)
        \o (IF marksDrops /\ m_IsInitialized THEN <<OwnLine("drops", W, m_Config)>> ELSE <<>>)

(***************************************************************************)
(* WriteQueuedEntries() under m_Mutex: the entries, the line and report    *)
(* of the drops, then the flush.  An exception while an entry is written   *)
(* skips the rest, the drops' report too; one while the drops' line is     *)
(* written comes after the report.                                         *)
(***************************************************************************)
WriteQueuedEntries ==
    /\ wpc = "write"
    /\ \E k \in WrittenCounts, throws \in BOOLEAN :
        LET skips == throws /\ k < Len(entries)
            reports == droppedCount > 0 /\ ~skips
            mustFlush == \E i \in 1..k : entries[i].urgent
        IN  /\ throws => "throw" \in Failures /\ m_IsInitialized /\ (skips \/ droppedCount > 0)
            /\ k < Len(entries) /\ m_IsInitialized => throws
            /\ m_Out' = m_Out \o BatchLines(k, reports /\ ~throws)
            /\ deferredDrops' = deferredDrops + IF reports THEN droppedCount ELSE 0
            /\ FlushIf(m_IsInitialized /\ FlushesBatch(mustFlush), m_Out', reports \/ throws)
            /\ writtenCount' = k
            /\ lost' = lost \cup {entries[i].seq : i \in (k+1)..Len(entries)}
    /\ droppedCount' = 0
    /\ wpc' = "deferred"
    /\ UNCHANGED <<m_IsInitialized, m_Config, seqVars, asyncVars, stopVars, entries, isStopping,
                   isWakeDue, callVars, dropped, reported, closedSequence>>

\* OnError runs on the worker if it takes the deferred work first
WorkerDeferred ==
    /\ wpc \in {"deferred", "wakeDeferred"}
    /\ TakeDeferredWork
    /\ wpc' = IF wpc = "deferred"
              THEN IF m_HasDeferredWork THEN "onError" ELSE "mark"
              ELSE IF m_HasDeferredWork THEN "onWakeError" ELSE "turned"
    /\ UNCHANGED <<m_IsInitialized, m_Config, m_Out, m_Flushed, seqVars, asyncVars, stopVars,
                   turnVars, callVars, dropped, lost, closedSequence>>

\* A handler, or the callbacks of the batch, have returned
HandlerReturned ==
    /\ pc[W] = "idle"
    /\ \/ wpc = "onError" /\ wpc' = "mark"
       \/ wpc = "callbacks" /\ wpc' = "wake"
       \/ wpc = "onWakeError" /\ wpc' = "turned"
    /\ UNCHANGED <<outVars, seqVars, asyncVars, stopVars, turnVars, callVars, historyVars>>

\* The last entry of the batch is the highest number it took
LastTaken == IF entries = <<>> THEN m_LastWrittenSequence ELSE entries[Len(entries)].seq

MarkWritten ==
    /\ wpc = "mark"
    /\ m_LastWrittenSequence' =
         IF LastTaken > m_LastWrittenSequence THEN LastTaken ELSE m_LastWrittenSequence
    /\ m_IsAsync' = (m_IsAsync /\ (m_IsAsyncActive \/ m_LastWrittenSequence' < m_LastQueuedSequence))
    /\ NotifyQueueChanged
    /\ wpc' = "callbacks"
    /\ UNCHANGED <<outVars, m_Queue, m_LastQueuedSequence, m_DroppedCount, m_IsAsyncActive,
                   stopVars, turnVars, pc, call, logged, calls, historyVars>>

\* OnWorkerWakeUnlocked(), if due
WorkerWake ==
    /\ wpc = "wake"
    /\ IF isWakeDue
       THEN FlushIf(m_IsInitialized, m_Out, FALSE) /\ wpc' = "wakeDeferred"
       ELSE wpc' = "turned" /\ UNCHANGED <<m_Flushed, m_HasDeferredWork>>
    /\ UNCHANGED <<m_IsInitialized, m_Config, m_Out, deferredDrops, seqVars, asyncVars, stopVars,
                   turnVars, callVars, historyVars>>

\* The end of one turn: the thread ends if it read m_IsWorkerStopping set
WorkerTurned ==
    /\ wpc = "turned"
    /\ wpc' = IF isStopping THEN "ended" ELSE "loop"
    /\ entries' = <<>> /\ droppedCount' = 0 /\ writtenCount' = 0
    /\ isStopping' = FALSE /\ isWakeDue' = FALSE
    /\ UNCHANGED <<outVars, seqVars, asyncVars, stopVars, callVars, historyVars>>

----------------------------------------------------------------------------
BeginCall(t) ==
    \E op \in Ops :
        \/ Log(t, op)
        \/ op \in {"Flush", "Close", "Finalize"} /\ WaitForQueuedEntries(t, op, DefaultConfig)
        \/ op = "Open" /\ BeginUnqueued(t, op, DefaultConfig)
        \/ \E config \in Configs :
              \/ op = "Reconfigure" /\ WaitForQueuedEntries(t, op, config)
              \/ op = "Initialize" /\ BeginUnqueued(t, op, config)

CallStep(t) ==
    \/ Barrier(t)
    \/ FormatEntry(t) \/ QueueDrop(t) \/ QueueWait(t) \/ QueuePush(t) \/ QueueRefuse(t)
    \/ Drain(t) \/ Await(t) \/ WriteSync(t)
    \/ Flush(t) \/ Close(t) \/ Finalize(t) \/ Open(t) \/ Initialize(t) \/ Reconfigure(t)
    \/ RunDeferredWork(t)
    \/ KeepWorker(t) \/ StopWorker(t) \/ NoWorker(t) \/ WantWorker(t)
    \/ JoinWorker(t) \/ StartWorker(t) \/ ActivateAsync(t)

WorkerStep ==
    \/ WorkerTake \/ WorkerSleep \/ WorkerTimeout
    \/ WriteQueuedEntries \/ WorkerDeferred \/ HandlerReturned \/ MarkWritten
    \/ WorkerWake \/ WorkerTurned
    \/ UpdateWorkerFromWorker

\* Every call has returned; anything else that cannot move is a deadlock
Returned == (\A t \in App : pc[t] = "idle") /\ UNCHANGED vars

Next ==
    \/ \E t \in Threads : BeginCall(t) \/ CallStep(t)
    \/ WorkerStep
    \/ Returned

Spec == Init /\ [][Next]_vars

(***************************************************************************)
(* A thread inside a call, and the worker, keep running: the operating     *)
(* system schedules them and no lock is held across a wait.  Nobody has to *)
(* make a call.                                                            *)
(***************************************************************************)
FairSpec ==
    /\ Spec
    /\ \A t \in Threads : WF_vars(CallStep(t))
    /\ WF_vars(WorkerStep)

----------------------------------------------------------------------------
(* Properties *)

Labels == {"idle", "format", "queue", "drain", "await", "sync", "barrier", "locked", "deferred",
           "update", "decide", "join", "start", "activate"}
WorkerLabels == {"none", "loop", "asleep", "write", "deferred", "onError", "mark", "callbacks",
                 "wake", "wakeDeferred", "onWakeError", "turned", "ended"}

OutTypeOK ==
    /\ m_IsInitialized \in BOOLEAN /\ m_Config \in Configs
    /\ m_Out \in Seq(Entry) /\ m_Flushed \in Nat
    /\ m_HasDeferredWork \in BOOLEAN /\ deferredDrops \in Nat

QueueTypeOK ==
    /\ m_Queue \in Seq(Entry)
    /\ m_LastQueuedSequence \in Nat /\ m_LastWrittenSequence \in Nat
    /\ m_DroppedCount \in Nat
    /\ m_IsAsyncActive \in BOOLEAN /\ m_IsAsync \in BOOLEAN

WorkerTypeOK ==
    /\ m_WorkerInterval \in BOOLEAN
    /\ m_IsWorkerStopping \in BOOLEAN /\ m_IsWorkerStoppingItself \in BOOLEAN
    /\ wpc \in WorkerLabels
    /\ entries \in Seq(Entry) /\ droppedCount \in Nat /\ writtenCount \in Nat
    /\ isStopping \in BOOLEAN /\ isWakeDue \in BOOLEAN

CallTypeOK ==
    /\ pc \in [Threads -> Labels]
    /\ call \in [Threads -> Call]
    /\ waiting \subseteq Threads
    /\ logged \in [Threads -> Nat] /\ calls \in [Threads -> Nat]

HistoryTypeOK ==
    /\ dropped \subseteq (Threads \X Nat)
    /\ lost \subseteq Nat /\ reported \in Nat /\ closedSequence \in Nat

(***************************************************************************)
(* Every variable keeps its type: in particular what the worker took stays *)
(* a sequence of complete entries, and a call keeps the fields its later   *)
(* steps read.                                                             *)
(***************************************************************************)
TypeOK == OutTypeOK /\ QueueTypeOK /\ WorkerTypeOK /\ CallTypeOK /\ HistoryTypeOK

InOrder(T) ==
    \A i, j \in DOMAIN m_Out :
        (/\ i < j
         /\ m_Out[i].kind = "entry" /\ m_Out[j].kind = "entry"
         /\ m_Out[i].thread = m_Out[j].thread /\ m_Out[i].thread \in T)
        => m_Out[i].n < m_Out[j].n

(***************************************************************************)
(* One application thread's entries are in the output in the order it      *)
(* logged them, also when async is switched on and off while it logs:      *)
(* WriteRecord() and QueueRecord() let no entry overtake a queued one.     *)
(***************************************************************************)
OneThreadInOrder == InOrder(App)

\* Entry seq has left the logger's buffer, or the worker could not write it
IsSettled(seq) == seq \in lost \/ \E i \in 1..m_Flushed : m_Out[i].seq = seq

(***************************************************************************)
(* Who waits for the worker finds the entries queued before out of the     *)
(* logger's buffer, whatever the flush mode is: the call of an entry at or *)
(* above WaitAtLevel when it returns from the wait in QueueRecord(), its   *)
(* own entry included, and Flush(), Close(), Reconfigure() or Finalize()   *)
(* when it has done its work under the lock (WaitForQueuedEntries()).      *)
(***************************************************************************)
WaitsCoverQueued ==
    [][\A t \in App :
            /\ pc[t] = "await" /\ pc'[t] = "idle" => \A seq \in 1..call[t].seq : IsSettled(seq)
            /\ pc[t] = "locked" /\ pc'[t] = "deferred" => \A seq \in 1..call[t].seq : IsSettled(seq)']_vars

(***************************************************************************)
(* Closing on an application thread loses no entry queued before the call: *)
(* the worker finds the output closed only for entries queued after the    *)
(* Close() that closed it began.  Of a Close() in a handler on the worker  *)
(* it says nothing: the worker never waits for the queue, and what was     *)
(* queued since it took its batch is lost (CurrentWorkerLog).              *)
(***************************************************************************)
CloseKeepsQueued ==
    wpc = "write" /\ ~m_IsInitialized =>
        \A i \in DOMAIN entries : entries[i].seq > closedSequence

(***************************************************************************)
(* A thread that reads m_IsAsync cleared may write its entry directly:     *)
(* every queued entry has been written ("once it reads false after async   *)
(* was on, the queued entries have been written", WriteRecord()).          *)
(***************************************************************************)
AsyncOffMeansDrained == ~m_IsAsync => IsDrained

(***************************************************************************)
(* Every entry a full queue drops is counted in one place, and in the end  *)
(* in one EntriesDropped report ("The logger reports the drops",           *)
(* AsyncOverflowPolicy::DropNewest).  False if writing an entry of the     *)
(* batch throws: the report is skipped and the count is gone.              *)
(***************************************************************************)
DropsAreCounted ==
    Cardinality(dropped) = m_DroppedCount + droppedCount + deferredDrops + reported

\* The line about dropped entries stands where they would have been
DropsAreMarked ==
    \A d \in dropped, j \in DOMAIN m_Out :
        m_Out[j].kind = "entry" /\ m_Out[j].thread = d[1] /\ m_Out[j].n > d[2] =>
            \E i \in 1..(j-1) :
                /\ m_Out[i].kind = "drops"
                /\ \A k \in i..Len(m_Out) :
                      m_Out[k].kind = "entry" /\ m_Out[k].thread = d[1] => m_Out[k].n > d[2]

(***************************************************************************)
(* Every entry a full queue drops is counted in exactly one place, and in  *)
(* the end in exactly one EntriesDropped report; and the line about it     *)
(* stands after everything its thread logged before it, and before         *)
(* everything it logged after it (QueueRecord(), WriteQueuedEntries()).    *)
(***************************************************************************)
DropsAccounted == DropsAreCounted /\ DropsAreMarked

(***************************************************************************)
(* "Entries go to the queue: async is on and the worker runs": while       *)
(* m_IsAsyncActive is set there is a worker that has not ended.            *)
(***************************************************************************)
ActiveMeansWorkerRuns == m_IsAsyncActive => wpc \notin {"none", "ended"}

(***************************************************************************)
(* Once Reconfigure() has returned, the entries written use the new        *)
(* settings: no line written while nobody is in Initialize() or            *)
(* Reconfigure() was formatted with another config than the current one.   *)
(* No run claims it: QueueRecord() formats an entry before it is queued,   *)
(* and one formatted before Reconfigure() may be queued after it.          *)
(***************************************************************************)
NewSettingsAfterReconfigure ==
    [][(\A t \in Threads : call[t].op \notin {"Initialize", "Reconfigure"}) =>
            \A i \in (Len(m_Out) + 1)..Len(m_Out') : m_Out'[i].config = m_Config]_vars

(***************************************************************************)
(* Every call on an application thread returns: no wait for room, for the  *)
(* queue or for the worker's end goes on for ever.                         *)
(***************************************************************************)
EveryCallReturns == \A t \in App : pc[t] # "idle" ~> pc[t] = "idle"

(***************************************************************************)
(* What is queued gets written (or given up) without any further call: the *)
(* worker never sleeps on a queue it was not woken for.                    *)
(***************************************************************************)
QueueDrains == ~IsDrained ~> IsDrained
=============================================================================
