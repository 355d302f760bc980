-------------------------- MODULE TextLog_proofs ---------------------------
(***************************************************************************)
(* Theorems of TextLog, for any threads, configurations, capacity, bounds  *)
(* and failures.                                                           *)
(***************************************************************************)
EXTENDS TextLog, SequenceTheorems, FiniteSetTheorems, TLAPS

----------------------------------------------------------------------------
(* Type correctness *)

(***************************************************************************)
(* The entry a call queues or writes, and the logger's own lines, are      *)
(* entries; an empty call is a call.                                       *)
(***************************************************************************)
LEMMA EntryType ==
    ASSUME TypeOK, NEW t \in Threads
    PROVE  /\ \A c \in Configs, seq \in Nat : EntryOf(t, c, seq) \in Entry
           /\ \A k \in {"startup", "shutdown", "drops"}, c \in Configs :
                 OwnLine(k, t, c) \in Entry
           /\ NoCall \in Call
  <1>1. logged[t] \in Nat /\ m_Config \in Configs /\ W \in Threads
    BY DEF TypeOK, CallTypeOK, OutTypeOK, Threads
  <1>2. ASSUME NEW c \in Configs, NEW seq \in Nat
        PROVE  EntryOf(t, c, seq) \in Entry
    BY <1>1 DEF EntryOf, Entry
  <1>3. ASSUME NEW k \in {"startup", "shutdown", "drops"}, NEW c \in Configs
        PROVE  OwnLine(k, t, c) \in Entry
    BY DEF OwnLine, Entry
  <1>4. NoCall \in Call
    BY ConfigsAssumption DEF NoCall, Call, Ops
  <1>5. QED
    BY <1>2, <1>3, <1>4

(***************************************************************************)
(* The helpers keep the types of the variables they assign.                *)
(***************************************************************************)
LEMMA GotoType ==
    ASSUME TypeOK, NEW t \in Threads, NEW label \in Labels, Goto(t, label)
    PROVE  pc' \in [Threads -> Labels]
  BY DEF TypeOK, CallTypeOK, Goto

LEMMA ReturnType ==
    ASSUME TypeOK, NEW t \in Threads, Return(t)
    PROVE  pc' \in [Threads -> Labels] /\ call' \in [Threads -> Call]
  <1>1. "idle" \in Labels /\ NoCall \in Call
    BY EntryType DEF Labels
  <1>2. QED
    BY <1>1 DEF TypeOK, CallTypeOK, Goto, Return

LEMMA RememberType ==
    ASSUME TypeOK, NEW t \in Threads, NEW op \in Ops \cup {"none"}, NEW config \in Configs,
           NEW seq \in Nat, NEW async \in BOOLEAN, Remember(t, op, config, seq, async)
    PROVE  call' \in [Threads -> Call]
  <1>1. [op |-> op, config |-> config, seq |-> seq, async |-> async] \in Call
    BY DEF Call
  <1>2. QED
    BY <1>1 DEF TypeOK, CallTypeOK, Remember

LEMMA CallFieldsType ==
    ASSUME TypeOK, NEW t \in Threads
    PROVE  /\ call[t].op \in Ops \cup {"none"} /\ call[t].config \in Configs
           /\ call[t].seq \in Nat /\ call[t].async \in BOOLEAN
  BY DEF TypeOK, CallTypeOK, Call

LEMMA SetAsyncActiveType ==
    ASSUME TypeOK, NEW isActive \in BOOLEAN, SetAsyncActive(isActive)
    PROVE  m_IsAsyncActive' \in BOOLEAN /\ m_IsAsync' \in BOOLEAN /\ waiting' \subseteq Threads
  BY DEF TypeOK, QueueTypeOK, SetAsyncActive, NotifyQueueChanged

LEMMA NotifyWorkerType ==
    ASSUME TypeOK, NotifyWorker
    PROVE  wpc' \in WorkerLabels
  BY DEF TypeOK, WorkerTypeOK, NotifyWorker, WorkerLabels

LEMMA FlushIfType ==
    ASSUME TypeOK, NEW cond, NEW out \in Seq(Entry), NEW mustReport,
           FlushIf(cond, out, mustReport)
    PROVE  m_Flushed' \in Nat /\ m_HasDeferredWork' \in BOOLEAN
  <1>1. Len(out) \in Nat
    OBVIOUS
  <1>2. QED
    BY <1>1 DEF TypeOK, OutTypeOK, FlushIf

----------------------------------------------------------------------------
LEMMA TypeInit == Init => TypeOK
  <1>1. NoCall \in Call
    BY ConfigsAssumption DEF NoCall, Call, Ops
  <1> SUFFICES ASSUME Init
               PROVE  TypeOK
    OBVIOUS
  <1>2. /\ m_IsInitialized \in BOOLEAN /\ m_HasDeferredWork \in BOOLEAN
        /\ m_IsAsyncActive \in BOOLEAN /\ m_IsAsync \in BOOLEAN
        /\ m_WorkerInterval \in BOOLEAN
        /\ m_IsWorkerStopping \in BOOLEAN /\ m_IsWorkerStoppingItself \in BOOLEAN
        /\ isStopping \in BOOLEAN /\ isWakeDue \in BOOLEAN
    BY DEF Init
  <1>3. /\ m_Config \in Configs
        /\ m_Out \in Seq(Entry) /\ m_Queue \in Seq(Entry) /\ entries \in Seq(Entry)
    BY ConfigsAssumption DEF Init
  <1>4. /\ m_Flushed \in Nat /\ deferredDrops \in Nat
        /\ m_LastQueuedSequence \in Nat /\ m_LastWrittenSequence \in Nat /\ m_DroppedCount \in Nat
        /\ droppedCount \in Nat /\ writtenCount \in Nat
        /\ wpc \in WorkerLabels
    BY DEF Init, WorkerLabels
  <1>5. CallTypeOK
    BY <1>1 DEF Init, CallTypeOK, Labels
  <1>6. HistoryTypeOK
    BY DEF Init, HistoryTypeOK
  <1>7. QED
    BY <1>2, <1>3, <1>4, <1>5, <1>6 DEF TypeOK, OutTypeOK, QueueTypeOK, WorkerTypeOK

(***************************************************************************)
(* A group of variables that a step leaves alone keeps its types.          *)
(***************************************************************************)
LEMMA UnchangedTypes ==
    ASSUME TypeOK
    PROVE  /\ UNCHANGED outVars => OutTypeOK'
           /\ UNCHANGED <<seqVars, asyncVars>> => QueueTypeOK'
           /\ UNCHANGED <<stopVars, turnVars>> /\ wpc' \in WorkerLabels => WorkerTypeOK'
           /\ UNCHANGED callVars => CallTypeOK'
           /\ UNCHANGED historyVars => HistoryTypeOK'
  <1>1. UNCHANGED outVars => OutTypeOK'
    BY DEF TypeOK, OutTypeOK, outVars
  <1>2. UNCHANGED <<seqVars, asyncVars>> => QueueTypeOK'
    BY DEF TypeOK, QueueTypeOK, seqVars, asyncVars
  <1>3. UNCHANGED <<stopVars, turnVars>> /\ wpc' \in WorkerLabels => WorkerTypeOK'
    BY DEF TypeOK, WorkerTypeOK, stopVars, turnVars
  <1>4. UNCHANGED callVars => CallTypeOK'
    BY DEF TypeOK, CallTypeOK, callVars
  <1>5. UNCHANGED historyVars => HistoryTypeOK'
    BY DEF TypeOK, HistoryTypeOK, historyVars
  <1>6. QED
    BY <1>1, <1>2, <1>3, <1>4, <1>5

(***************************************************************************)
(* The steps of QueueRecord() and of the waits before the lock.            *)
(***************************************************************************)
LEMMA QueueTypeStep ==
    ASSUME TypeOK, NEW t \in Threads,
           \/ Barrier(t)
           \/ FormatEntry(t)
           \/ QueueDrop(t)
           \/ QueueWait(t)
           \/ QueuePush(t)
           \/ QueueRefuse(t)
           \/ Drain(t)
           \/ Await(t)
    PROVE  TypeOK'
  <1>1. CASE Barrier(t)
    <2>1. /\ OutTypeOK'
          /\ QueueTypeOK'
          /\ WorkerTypeOK'
          /\ HistoryTypeOK'
      BY <1>1, UnchangedTypes DEF Barrier, TypeOK, WorkerTypeOK
    <2>2. CallTypeOK'
      BY <1>1 DEF Barrier, WaitUntil, Goto, Labels, TypeOK, CallTypeOK
    <2>3. QED
      BY <2>1, <2>2 DEF TypeOK
  <1>2. CASE FormatEntry(t)
    <2>1. /\ OutTypeOK'
          /\ QueueTypeOK'
          /\ WorkerTypeOK'
          /\ HistoryTypeOK'
      BY <1>2, UnchangedTypes DEF FormatEntry, TypeOK, WorkerTypeOK
    <2>2. call' \in [Threads -> Call]
      BY <1>2, RememberType, CallFieldsType DEF FormatEntry, TypeOK, OutTypeOK
    <2>3. CallTypeOK'
      BY <1>2, <2>2 DEF FormatEntry, Goto, Labels, TypeOK, CallTypeOK
    <2>4. QED
      BY <2>1, <2>2, <2>3 DEF TypeOK
  <1>3. CASE QueueDrop(t)
    <2>1. /\ OutTypeOK'
          /\ WorkerTypeOK'
      BY <1>3, UnchangedTypes DEF QueueDrop, TypeOK, WorkerTypeOK
    <2>2. QueueTypeOK'
      BY <1>3 DEF QueueDrop, TypeOK, QueueTypeOK, asyncVars
    <2>3. CallTypeOK'
      BY <1>3, ReturnType DEF QueueDrop, TypeOK, CallTypeOK
    <2>4. HistoryTypeOK'
      BY <1>3 DEF QueueDrop, TypeOK, CallTypeOK, HistoryTypeOK
    <2>5. QED
      BY <2>1, <2>2, <2>3, <2>4 DEF TypeOK
  <1>4. CASE QueueWait(t)
    <2>1. /\ OutTypeOK'
          /\ QueueTypeOK'
          /\ WorkerTypeOK'
          /\ HistoryTypeOK'
      BY <1>4, UnchangedTypes DEF QueueWait, TypeOK, WorkerTypeOK
    <2>2. CallTypeOK'
      BY <1>4 DEF QueueWait, TypeOK, CallTypeOK
    <2>3. QED
      BY <2>1, <2>2 DEF TypeOK
  <1>5. CASE QueuePush(t)
    <2>1. /\ OutTypeOK'
          /\ HistoryTypeOK'
      BY <1>5, UnchangedTypes DEF QueuePush
    <2>2. EntryOf(t, call[t].config, m_LastQueuedSequence + 1) \in Entry
      BY <1>5, EntryType, CallFieldsType DEF TypeOK, QueueTypeOK
    <2>3. QueueTypeOK'
      BY <1>5, <2>2 DEF QueuePush, TypeOK, QueueTypeOK, asyncVars
    <2>4. WorkerTypeOK'
      BY <1>5, NotifyWorkerType, UnchangedTypes DEF QueuePush
    <2>5. call' \in [Threads -> Call]
      <3>1. CASE call[t].op = "LogUrgent" /\ t # W
        <4>1. Remember(t, call[t].op, call[t].config, m_LastQueuedSequence + 1, FALSE)
          BY <1>5, <3>1 DEF QueuePush
        <4>2. m_LastQueuedSequence + 1 \in Nat
          BY DEF TypeOK, QueueTypeOK
        <4>3. QED
          BY <4>1, <4>2, RememberType, CallFieldsType
      <3>2. CASE ~(call[t].op = "LogUrgent" /\ t # W)
        BY <1>5, <3>2, ReturnType DEF QueuePush
      <3>3. QED
        BY <3>1, <3>2
    <2>6. CallTypeOK'
      BY <1>5, <2>5 DEF QueuePush, Return, Goto, Labels, TypeOK, CallTypeOK
    <2>7. QED
      BY <2>1, <2>2, <2>3, <2>4, <2>5, <2>6 DEF TypeOK
  <1>6. CASE QueueRefuse(t)
    <2>1. /\ OutTypeOK'
          /\ QueueTypeOK'
          /\ WorkerTypeOK'
          /\ HistoryTypeOK'
      BY <1>6, UnchangedTypes DEF QueueRefuse, TypeOK, WorkerTypeOK
    <2>2. CallTypeOK'
      BY <1>6 DEF QueueRefuse, WaitUntil, Goto, Labels, TypeOK, CallTypeOK
    <2>3. QED
      BY <2>1, <2>2 DEF TypeOK
  <1>7. CASE Drain(t)
    <2>1. /\ OutTypeOK'
          /\ QueueTypeOK'
          /\ WorkerTypeOK'
          /\ HistoryTypeOK'
      BY <1>7, UnchangedTypes DEF Drain, TypeOK, WorkerTypeOK
    <2>2. CallTypeOK'
      BY <1>7 DEF Drain, WaitUntil, Goto, Labels, TypeOK, CallTypeOK
    <2>3. QED
      BY <2>1, <2>2 DEF TypeOK
  <1>8. CASE Await(t)
    <2>1. /\ OutTypeOK'
          /\ QueueTypeOK'
          /\ WorkerTypeOK'
          /\ HistoryTypeOK'
      BY <1>8, UnchangedTypes DEF Await, TypeOK, WorkerTypeOK
    <2>2. CallTypeOK'
      BY <1>8, ReturnType DEF Await, TypeOK, CallTypeOK
    <2>3. QED
      BY <2>1, <2>2 DEF TypeOK
  <1>9. QED
    BY <1>1, <1>2, <1>3, <1>4, <1>5, <1>6, <1>7, <1>8

(***************************************************************************)
(* The steps under m_Mutex.                                                *)
(***************************************************************************)
LEMMA LockedTypeStep ==
    ASSUME TypeOK, NEW t \in Threads,
           \/ WriteSync(t)
           \/ Flush(t)
           \/ Close(t)
           \/ Finalize(t)
           \/ Open(t)
           \/ Initialize(t)
           \/ Reconfigure(t)
           \/ RunDeferredWork(t)
    PROVE  TypeOK'
  <1>1. CASE WriteSync(t)
    <2>1. /\ QueueTypeOK'
          /\ WorkerTypeOK'
          /\ HistoryTypeOK'
      BY <1>1, UnchangedTypes DEF WriteSync, TypeOK, WorkerTypeOK
    <2>2. CallTypeOK'
      BY <1>1 DEF WriteSync, Goto, Labels, TypeOK, CallTypeOK
    <2>3. EntryOf(t, m_Config, 0) \in Entry
      BY <1>1, EntryType DEF TypeOK, OutTypeOK
    <2>4. m_Out' \in Seq(Entry)
      <3>1. m_Out' = Append(m_Out, EntryOf(t, m_Config, 0)) \/ m_Out' = m_Out
        BY <1>1 DEF WriteSync
      <3>2. QED
        BY <3>1, <2>3 DEF TypeOK, OutTypeOK
    <2>5. m_Flushed' \in Nat /\ m_HasDeferredWork' \in BOOLEAN
      <3>1. CASE m_IsInitialized
        <4>1. FlushIf(FlushesEntry(m_Config, call[t].op = "LogUrgent"), m_Out', FALSE)
          BY <1>1, <3>1 DEF WriteSync
        <4>2. QED
          BY <4>1, <2>4, FlushIfType
      <3>2. CASE ~m_IsInitialized
        BY <1>1, <3>2 DEF WriteSync, TypeOK, OutTypeOK
      <3>3. QED
        BY <3>1, <3>2
    <2>6. OutTypeOK'
      BY <1>1, <2>4, <2>5 DEF WriteSync, TypeOK, OutTypeOK
    <2>7. QED
      BY <2>1, <2>2, <2>6 DEF TypeOK
  <1>2. CASE Flush(t)
    <2>1. /\ QueueTypeOK'
          /\ WorkerTypeOK'
      BY <1>2, UnchangedTypes DEF Flush, lockedUnchanged, TypeOK, WorkerTypeOK
    <2>2. CallTypeOK'
      BY <1>2 DEF Flush, AtLock, lockedUnchanged, Goto, Labels, TypeOK, CallTypeOK
    <2>3. HistoryTypeOK'
      BY <1>2, CallFieldsType DEF Flush, CloseUnlocked, lockedUnchanged, TypeOK, HistoryTypeOK
    <2>4. m_Out \in Seq(Entry) /\ m_Out' \in Seq(Entry)
      BY <1>2 DEF Flush, CloseUnlocked, lockedUnchanged, outVars, TypeOK, OutTypeOK
    <2>5. FlushIf(m_IsInitialized, m_Out, FALSE)
      BY <1>2 DEF Flush, CloseUnlocked
    <2>6. m_Flushed' \in Nat /\ m_HasDeferredWork' \in BOOLEAN
      BY <1>2, <2>4, <2>5, FlushIfType
    <2>7. OutTypeOK'
      BY <1>2, <2>4, <2>6, CallFieldsType DEF Flush, CloseUnlocked, lockedUnchanged, TypeOK, OutTypeOK
    <2>8. QED
      BY <2>1, <2>2, <2>3, <2>4, <2>5, <2>6, <2>7 DEF TypeOK
  <1>3. CASE Close(t)
    <2>1. /\ QueueTypeOK'
          /\ WorkerTypeOK'
      BY <1>3, UnchangedTypes DEF Close, lockedUnchanged, TypeOK, WorkerTypeOK
    <2>2. CallTypeOK'
      BY <1>3 DEF Close, AtLock, lockedUnchanged, Goto, Labels, TypeOK, CallTypeOK
    <2>3. HistoryTypeOK'
      BY <1>3, CallFieldsType DEF Close, CloseUnlocked, lockedUnchanged, TypeOK, HistoryTypeOK
    <2>4. m_Out \in Seq(Entry) /\ m_Out' \in Seq(Entry)
      BY <1>3 DEF Close, CloseUnlocked, lockedUnchanged, outVars, TypeOK, OutTypeOK
    <2>5. FlushIf(m_IsInitialized, m_Out, FALSE)
      BY <1>3 DEF Close, CloseUnlocked
    <2>6. m_Flushed' \in Nat /\ m_HasDeferredWork' \in BOOLEAN
      BY <1>3, <2>4, <2>5, FlushIfType
    <2>7. OutTypeOK'
      BY <1>3, <2>4, <2>6, CallFieldsType DEF Close, CloseUnlocked, lockedUnchanged, TypeOK, OutTypeOK
    <2>8. QED
      BY <2>1, <2>2, <2>3, <2>4, <2>5, <2>6, <2>7 DEF TypeOK
  <1>4. CASE Finalize(t)
    <2>1. /\ QueueTypeOK'
          /\ WorkerTypeOK'
      BY <1>4, UnchangedTypes DEF Finalize, lockedUnchanged, TypeOK, WorkerTypeOK
    <2>2. CallTypeOK'
      BY <1>4 DEF Finalize, AtLock, lockedUnchanged, Goto, Labels, TypeOK, CallTypeOK
    <2>3. HistoryTypeOK'
      BY <1>4, CallFieldsType DEF Finalize, CloseUnlocked, lockedUnchanged, TypeOK, HistoryTypeOK
    <2>4. OwnLine("shutdown", t, m_Config) \in Entry
      BY <1>4, EntryType DEF TypeOK, OutTypeOK
    <2>5. m_Out' \in Seq(Entry)
      BY <1>4, <2>4 DEF Finalize, CloseUnlocked, lockedUnchanged, outVars, TypeOK, OutTypeOK
    <2>6. FlushIf(m_IsInitialized, m_Out', FALSE)
      BY <1>4 DEF Finalize, CloseUnlocked
    <2>7. m_Flushed' \in Nat /\ m_HasDeferredWork' \in BOOLEAN
      BY <1>4, <2>5, <2>6, FlushIfType
    <2>8. OutTypeOK'
      BY <1>4, <2>5, <2>7, CallFieldsType DEF Finalize, CloseUnlocked, lockedUnchanged, TypeOK, OutTypeOK
    <2>9. QED
      BY <2>1, <2>2, <2>3, <2>4, <2>5, <2>6, <2>7, <2>8 DEF TypeOK
  <1>5. CASE Open(t)
    <2>1. /\ QueueTypeOK'
          /\ WorkerTypeOK'
      BY <1>5, UnchangedTypes DEF Open, lockedUnchanged, TypeOK, WorkerTypeOK
    <2>2. CallTypeOK'
      BY <1>5 DEF Open, AtLock, lockedUnchanged, Goto, Labels, TypeOK, CallTypeOK
    <2>3. HistoryTypeOK'
      BY <1>5, CallFieldsType DEF Open, CloseUnlocked, lockedUnchanged, TypeOK, HistoryTypeOK
    <2>4. OutTypeOK'
      BY <1>5 DEF Open, lockedUnchanged, TypeOK, OutTypeOK
    <2>5. QED
      BY <2>1, <2>2, <2>3, <2>4 DEF TypeOK
  <1>6. CASE Initialize(t)
    <2>1. /\ QueueTypeOK'
          /\ WorkerTypeOK'
      BY <1>6, UnchangedTypes DEF Initialize, lockedUnchanged, TypeOK, WorkerTypeOK
    <2>2. CallTypeOK'
      BY <1>6 DEF Initialize, AtLock, lockedUnchanged, Goto, Labels, TypeOK, CallTypeOK
    <2>3. HistoryTypeOK'
      BY <1>6, CallFieldsType DEF Initialize, CloseUnlocked, lockedUnchanged, TypeOK, HistoryTypeOK
    <2>4. OwnLine("startup", t, call[t].config) \in Entry
      BY <1>6, EntryType, CallFieldsType
    <2>5. OutTypeOK'
      <3>1. CASE UNCHANGED outVars
        BY <3>1, UnchangedTypes
      <3>2. CASE /\ ~m_IsInitialized
                 /\ m_Config' = call[t].config
                 /\ m_IsInitialized' = TRUE
                 /\ m_Out' = Append(m_Out, OwnLine("startup", t, call[t].config))
                 /\ FlushIf(FlushesEntry(call[t].config, FALSE), m_Out', FALSE)
                 /\ UNCHANGED deferredDrops
        <4>1. m_Out' \in Seq(Entry)
          BY <3>2, <2>4 DEF TypeOK, OutTypeOK
        <4>2. m_Flushed' \in Nat /\ m_HasDeferredWork' \in BOOLEAN
          BY <3>2, <4>1, FlushIfType
        <4>3. QED
          BY <3>2, <4>1, <4>2, CallFieldsType DEF TypeOK, OutTypeOK
      <3>3. CASE /\ ~m_IsInitialized /\ "open" \in Failures
                 /\ m_Config' = call[t].config
                 /\ m_HasDeferredWork' = TRUE
                 /\ UNCHANGED <<m_IsInitialized, m_Out, m_Flushed, deferredDrops>>
        BY <3>3, CallFieldsType DEF TypeOK, OutTypeOK
      <3>4. QED
        BY <1>6, <3>1, <3>2, <3>3 DEF Initialize
    <2>6. QED
      BY <2>1, <2>2, <2>3, <2>5 DEF TypeOK
  <1>7. CASE Reconfigure(t)
    <2>1. /\ QueueTypeOK'
          /\ WorkerTypeOK'
      BY <1>7, UnchangedTypes DEF Reconfigure, lockedUnchanged, TypeOK, WorkerTypeOK
    <2>2. CallTypeOK'
      BY <1>7 DEF Reconfigure, AtLock, lockedUnchanged, Goto, Labels, TypeOK, CallTypeOK
    <2>3. HistoryTypeOK'
      BY <1>7, CallFieldsType DEF Reconfigure, CloseUnlocked, lockedUnchanged, TypeOK, HistoryTypeOK
    <2>4. m_Out \in Seq(Entry) /\ m_Out' \in Seq(Entry)
      BY <1>7 DEF Reconfigure, CloseUnlocked, lockedUnchanged, outVars, TypeOK, OutTypeOK
    <2>5. FlushIf(m_IsInitialized, m_Out, FALSE)
      BY <1>7 DEF Reconfigure, CloseUnlocked
    <2>6. m_Flushed' \in Nat /\ m_HasDeferredWork' \in BOOLEAN
      BY <1>7, <2>4, <2>5, FlushIfType
    <2>7. OutTypeOK'
      BY <1>7, <2>4, <2>6, CallFieldsType DEF Reconfigure, CloseUnlocked, lockedUnchanged, TypeOK, OutTypeOK
    <2>8. QED
      BY <2>1, <2>2, <2>3, <2>4, <2>5, <2>6, <2>7 DEF TypeOK
  <1>8. CASE RunDeferredWork(t)
    <2>1. /\ QueueTypeOK'
          /\ WorkerTypeOK'
      BY <1>8, UnchangedTypes DEF RunDeferredWork, TypeOK, WorkerTypeOK
    <2>2. OutTypeOK'
      BY <1>8 DEF RunDeferredWork, TakeDeferredWork, TypeOK, OutTypeOK
    <2>3. CallTypeOK'
      BY <1>8, ReturnType DEF RunDeferredWork, Goto, Labels, TypeOK, CallTypeOK
    <2>4. HistoryTypeOK'
      BY <1>8 DEF RunDeferredWork, TakeDeferredWork, TypeOK, OutTypeOK, HistoryTypeOK
    <2>5. QED
      BY <2>1, <2>2, <2>3, <2>4 DEF TypeOK
  <1>9. QED
    BY <1>1, <1>2, <1>3, <1>4, <1>5, <1>6, <1>7, <1>8

(***************************************************************************)
(* The steps of UpdateWorker().                                            *)
(***************************************************************************)
LEMMA UpdateTypeStep ==
    ASSUME TypeOK, NEW t \in Threads,
           \/ KeepWorker(t)
           \/ StopWorker(t)
           \/ NoWorker(t)
           \/ WantWorker(t)
           \/ JoinWorker(t)
           \/ StartWorker(t)
           \/ ActivateAsync(t)
    PROVE  TypeOK'
  <1>1. CASE KeepWorker(t)
    <2>1. /\ OutTypeOK'
          /\ HistoryTypeOK'
      BY <1>1, UnchangedTypes DEF KeepWorker, updateUnchanged
    <2>2. SetAsyncActive(WantsAsync(t))
      BY <1>1 DEF KeepWorker
    <2>3. m_IsAsyncActive' \in BOOLEAN /\ m_IsAsync' \in BOOLEAN /\ waiting' \subseteq Threads
      BY <1>1, <2>2, SetAsyncActiveType DEF WantsAsync
    <2>4. QueueTypeOK'
      BY <1>1, <2>3 DEF KeepWorker, updateUnchanged, seqVars, TypeOK, QueueTypeOK
    <2>5. m_WorkerInterval' \in BOOLEAN
      BY <1>1 DEF KeepWorker, WantsInterval
    <2>6. WorkerTypeOK'
      BY <1>1, <2>5, NotifyWorkerType DEF KeepWorker, updateUnchanged, turnVars, TypeOK, WorkerTypeOK
    <2>7. CallTypeOK'
      BY <1>1, <2>3, ReturnType DEF KeepWorker, updateUnchanged, TypeOK, CallTypeOK
    <2>8. QED
      BY <2>1, <2>2, <2>3, <2>4, <2>5, <2>6, <2>7 DEF TypeOK
  <1>2. CASE StopWorker(t)
    <2>1. /\ OutTypeOK'
          /\ HistoryTypeOK'
      BY <1>2, UnchangedTypes DEF StopWorker, updateUnchanged
    <2>2. m_IsAsyncActive' \in BOOLEAN /\ m_IsAsync' \in BOOLEAN /\ waiting' \subseteq Threads
      BY <1>2, SetAsyncActiveType DEF StopWorker
    <2>3. QueueTypeOK'
      BY <1>2, <2>2 DEF StopWorker, updateUnchanged, seqVars, TypeOK, QueueTypeOK
    <2>4. WorkerTypeOK'
      BY <1>2, NotifyWorkerType DEF StopWorker, updateUnchanged, turnVars, TypeOK, WorkerTypeOK
    <2>5. CallTypeOK'
      BY <1>2, <2>2 DEF StopWorker, updateUnchanged, Goto, Labels, TypeOK, CallTypeOK
    <2>6. QED
      BY <2>1, <2>2, <2>3, <2>4, <2>5 DEF TypeOK
  <1>3. CASE NoWorker(t)
    <2>1. /\ OutTypeOK'
          /\ QueueTypeOK'
          /\ WorkerTypeOK'
          /\ HistoryTypeOK'
      BY <1>3, UnchangedTypes DEF NoWorker, updateUnchanged, TypeOK, WorkerTypeOK
    <2>2. CallTypeOK'
      BY <1>3, ReturnType DEF NoWorker, updateUnchanged, TypeOK, CallTypeOK
    <2>3. QED
      BY <2>1, <2>2 DEF TypeOK
  <1>4. CASE WantWorker(t)
    <2>1. /\ OutTypeOK'
          /\ QueueTypeOK'
          /\ HistoryTypeOK'
      BY <1>4, UnchangedTypes DEF WantWorker, updateUnchanged
    <2>2. m_WorkerInterval' \in BOOLEAN
      BY <1>4 DEF WantWorker, WantsInterval
    <2>3. WorkerTypeOK'
      BY <1>4, <2>2 DEF WantWorker, updateUnchanged, turnVars, TypeOK, WorkerTypeOK
    <2>4. call' \in [Threads -> Call]
      BY <1>4, RememberType, CallFieldsType DEF WantWorker, WantsAsync
    <2>5. CallTypeOK'
      BY <1>4, <2>4 DEF WantWorker, updateUnchanged, Goto, Labels, TypeOK, CallTypeOK
    <2>6. QED
      BY <2>1, <2>2, <2>3, <2>4, <2>5 DEF TypeOK
  <1>5. CASE JoinWorker(t)
    <2>1. /\ OutTypeOK'
          /\ QueueTypeOK'
          /\ HistoryTypeOK'
      BY <1>5, UnchangedTypes DEF JoinWorker, updateUnchanged
    <2>2. WorkerTypeOK'
      BY <1>5 DEF JoinWorker, updateUnchanged, stopVars, turnVars, WorkerLabels, TypeOK, WorkerTypeOK
    <2>3. CallTypeOK'
      BY <1>5 DEF JoinWorker, updateUnchanged, Goto, Labels, TypeOK, CallTypeOK
    <2>4. QED
      BY <2>1, <2>2, <2>3 DEF TypeOK
  <1>6. CASE StartWorker(t)
    <2>1. /\ OutTypeOK'
          /\ QueueTypeOK'
          /\ HistoryTypeOK'
      BY <1>6, UnchangedTypes DEF StartWorker, updateUnchanged
    <2>2. WorkerTypeOK'
      BY <1>6 DEF StartWorker, updateUnchanged, stopVars, turnVars, WorkerLabels, TypeOK, WorkerTypeOK
    <2>3. CallTypeOK'
      BY <1>6, ReturnType DEF StartWorker, updateUnchanged, Goto, Labels, TypeOK, CallTypeOK
    <2>4. QED
      BY <2>1, <2>2, <2>3 DEF TypeOK
  <1>7. CASE ActivateAsync(t)
    <2>1. /\ OutTypeOK'
          /\ WorkerTypeOK'
          /\ HistoryTypeOK'
      BY <1>7, UnchangedTypes DEF ActivateAsync, updateUnchanged, TypeOK, WorkerTypeOK
    <2>2. m_IsAsyncActive' \in BOOLEAN /\ m_IsAsync' \in BOOLEAN /\ waiting' \subseteq Threads
      BY <1>7, SetAsyncActiveType, CallFieldsType DEF ActivateAsync
    <2>3. QueueTypeOK'
      BY <1>7, <2>2 DEF ActivateAsync, updateUnchanged, seqVars, TypeOK, QueueTypeOK
    <2>4. CallTypeOK'
      BY <1>7, <2>2, ReturnType DEF ActivateAsync, updateUnchanged, TypeOK, CallTypeOK
    <2>5. QED
      BY <2>1, <2>2, <2>3, <2>4 DEF TypeOK
  <1>8. QED
    BY <1>1, <1>2, <1>3, <1>4, <1>5, <1>6, <1>7

(***************************************************************************)
(* What WriteQueuedEntries() appends: the first k entries of the batch,    *)
(* then at most one line of the logger's own.                              *)
(***************************************************************************)
LEMMA BatchLinesType ==
    ASSUME TypeOK, NEW k \in 0..Len(entries), NEW marksDrops
    PROVE  /\ BatchLines(k, marksDrops) \in Seq(Entry)
           /\ Len(BatchLines(k, marksDrops)) \in {k, k + 1}
           /\ \A i \in 1..k : BatchLines(k, marksDrops)[i] = entries[i]
           /\ Len(BatchLines(k, marksDrops)) = k + 1 =>
                 BatchLines(k, marksDrops)[k + 1] = OwnLine("drops", W, m_Config)
  <1> DEFINE taken == SubSeq(entries, 1, k)
  <1> DEFINE own == IF marksDrops /\ m_IsInitialized
                    THEN <<OwnLine("drops", W, m_Config)>> ELSE <<>>
  <1>1. entries \in Seq(Entry) /\ W \in Threads /\ m_Config \in Configs
    BY DEF TypeOK, WorkerTypeOK, OutTypeOK, Threads
  <1>2. OwnLine("drops", W, m_Config) \in Entry
    BY <1>1, EntryType
  <1>3. /\ taken \in Seq(Entry)
        /\ Len(taken) = k
        /\ \A i \in 1..k : taken[i] = entries[i]
    BY <1>1
  <1>4. own \in Seq(Entry) /\ Len(own) \in {0, 1}
        /\ (Len(own) = 1 => own[1] = OwnLine("drops", W, m_Config))
    BY <1>2
  <1>5. BatchLines(k, marksDrops) = taken \o own
    BY DEF BatchLines
  <1> HIDE DEF taken, own
  <1>6. /\ taken \o own \in Seq(Entry)
        /\ Len(taken \o own) = k + Len(own)
        /\ \A i \in 1..(k + Len(own)) :
              (taken \o own)[i] = IF i <= k THEN taken[i] ELSE own[i - k]
    <2>1. taken \in Seq(Entry) /\ own \in Seq(Entry) /\ Len(taken) = k
      BY <1>3, <1>4
    <2>2. /\ taken \o own \in Seq(Entry)
          /\ Len(taken \o own) = Len(taken) + Len(own)
          /\ \A i \in 1..(Len(taken) + Len(own)) :
                (taken \o own)[i] = IF i <= Len(taken) THEN taken[i] ELSE own[i - Len(taken)]
      BY <2>1, ConcatProperties, Zenon
    <2>3. QED
      BY <2>1, <2>2, Zenon
  <1>7. k \in Nat
    BY <1>1
  <1>8. /\ taken \o own \in Seq(Entry)
        /\ Len(taken \o own) \in {k, k + 1}
    BY <1>4, <1>6, <1>7
  <1>9. \A i \in 1..k : (taken \o own)[i] = entries[i]
    <2> SUFFICES ASSUME NEW i \in 1..k PROVE (taken \o own)[i] = entries[i]
      OBVIOUS
    <2>1. i \in 1..(k + Len(own)) /\ i <= k
      BY <1>4, <1>7
    <2>2. QED
      BY <2>1, <1>3, <1>6
  <1>10. ASSUME Len(taken \o own) = k + 1
         PROVE  (taken \o own)[k + 1] = OwnLine("drops", W, m_Config)
    <2>1. Len(own) = 1
      BY <1>4, <1>6, <1>7, <1>10
    <2>2. (taken \o own)[k + 1] = own[1]
      BY <2>1, <1>6, <1>7
    <2>3. QED
      BY <2>1, <2>2, <1>4
  <1>11. QED
    BY <1>5, <1>8, <1>9, <1>10, Zenon

(***************************************************************************)
(* The steps of RunWorker().                                               *)
(***************************************************************************)
LEMMA WorkerTypeStep ==
    ASSUME TypeOK,
           \/ UpdateWorkerFromWorker
           \/ WorkerTake
           \/ WorkerSleep
           \/ WorkerTimeout
           \/ WriteQueuedEntries
           \/ WorkerDeferred
           \/ HandlerReturned
           \/ MarkWritten
           \/ WorkerWake
           \/ WorkerTurned
    PROVE  TypeOK'
  <1>1. CASE UpdateWorkerFromWorker
    <2>1. /\ OutTypeOK'
          /\ HistoryTypeOK'
      BY <1>1, UnchangedTypes DEF UpdateWorkerFromWorker, updateUnchanged
    <2>2. m_IsAsyncActive' \in BOOLEAN /\ m_IsAsync' \in BOOLEAN /\ waiting' \subseteq Threads
      BY <1>1, SetAsyncActiveType DEF UpdateWorkerFromWorker, WantsAsync, asyncVars, TypeOK, QueueTypeOK, CallTypeOK
    <2>3. QueueTypeOK'
      BY <1>1, <2>2 DEF UpdateWorkerFromWorker, updateUnchanged, seqVars, TypeOK, QueueTypeOK
    <2>4. m_WorkerInterval' \in BOOLEAN /\ m_IsWorkerStopping' \in BOOLEAN /\ m_IsWorkerStoppingItself' \in BOOLEAN
      BY <1>1 DEF UpdateWorkerFromWorker, WantsInterval, stopVars, TypeOK, WorkerTypeOK
    <2>5. WorkerTypeOK'
      BY <1>1, <2>4, NotifyWorkerType DEF UpdateWorkerFromWorker, updateUnchanged, turnVars, TypeOK, WorkerTypeOK
    <2>6. CallTypeOK'
      BY <1>1, <2>2, ReturnType DEF UpdateWorkerFromWorker, updateUnchanged, Threads, TypeOK, CallTypeOK
    <2>7. QED
      BY <2>1, <2>2, <2>3, <2>4, <2>5, <2>6 DEF TypeOK
  <1>2. CASE WorkerTake
    <2>1. /\ OutTypeOK'
          /\ HistoryTypeOK'
      BY <1>2, UnchangedTypes DEF WorkerTake
    <2>2. QueueTypeOK'
      BY <1>2 DEF WorkerTake, asyncVars, TypeOK, QueueTypeOK
    <2>3. isStopping' \in BOOLEAN /\ isWakeDue' \in BOOLEAN
      BY <1>2 DEF WorkerTake, TypeOK, WorkerTypeOK
    <2>4. WorkerTypeOK'
      BY <1>2, <2>3 DEF WorkerTake, stopVars, WorkerLabels, TypeOK, WorkerTypeOK, QueueTypeOK
    <2>5. CallTypeOK'
      BY <1>2 DEF WorkerTake, NotifyQueueChanged, TypeOK, CallTypeOK
    <2>6. QED
      BY <2>1, <2>2, <2>3, <2>4, <2>5 DEF TypeOK
  <1>3. CASE WorkerSleep
    <2>1. /\ OutTypeOK'
          /\ QueueTypeOK'
          /\ CallTypeOK'
          /\ HistoryTypeOK'
      BY <1>3, UnchangedTypes DEF WorkerSleep, callVars
    <2>2. WorkerTypeOK'
      BY <1>3 DEF WorkerSleep, stopVars, turnVars, WorkerLabels, TypeOK, WorkerTypeOK
    <2>3. QED
      BY <2>1, <2>2 DEF TypeOK
  <1>4. CASE WorkerTimeout
    <2>1. /\ OutTypeOK'
          /\ QueueTypeOK'
          /\ CallTypeOK'
          /\ HistoryTypeOK'
      BY <1>4, UnchangedTypes DEF WorkerTimeout, callVars
    <2>2. WorkerTypeOK'
      BY <1>4 DEF WorkerTimeout, stopVars, turnVars, WorkerLabels, TypeOK, WorkerTypeOK
    <2>3. QED
      BY <2>1, <2>2 DEF TypeOK
  <1>5. CASE WriteQueuedEntries
    <2>1. /\ QueueTypeOK'
          /\ CallTypeOK'
      BY <1>5, UnchangedTypes DEF WriteQueuedEntries, callVars
    <2>2. PICK k \in WrittenCounts, throws \in BOOLEAN :
              LET skips == throws /\ k < Len(entries)
                  reports == droppedCount > 0 /\ ~skips
                  mustFlush == \E i \in 1..k : entries[i].urgent
              IN  /\ m_Out' = m_Out \o BatchLines(k, reports /\ ~throws)
                  /\ deferredDrops' = deferredDrops + IF reports THEN droppedCount ELSE 0
                  /\ FlushIf(m_IsInitialized /\ FlushesBatch(mustFlush), m_Out', reports \/ throws)
                  /\ writtenCount' = k
                  /\ lost' = lost \cup {entries[i].seq : i \in (k+1)..Len(entries)}
      BY <1>5 DEF WriteQueuedEntries
    <2>3. m_Out \in Seq(Entry) /\ entries \in Seq(Entry) /\ k \in 0..Len(entries)
      BY DEF WrittenCounts, TypeOK, OutTypeOK, WorkerTypeOK
    <2>4. m_Out' \in Seq(Entry)
      BY <2>2, <2>3, BatchLinesType
    <2>5. m_Flushed' \in Nat /\ m_HasDeferredWork' \in BOOLEAN
      BY <2>2, <2>4, FlushIfType
    <2>6. OutTypeOK'
      BY <1>5, <2>2, <2>4, <2>5 DEF WriteQueuedEntries, TypeOK, OutTypeOK, WorkerTypeOK
    <2>7. WorkerTypeOK'
      BY <1>5, <2>2, <2>3 DEF WriteQueuedEntries, stopVars, WorkerLabels, TypeOK, WorkerTypeOK
    <2>8. {entries[i].seq : i \in (k+1)..Len(entries)} \subseteq Nat
      <3>1. ASSUME NEW i \in (k+1)..Len(entries)
            PROVE  entries[i].seq \in Nat
        <4>1. entries[i] \in Entry
          BY <2>3
        <4>2. QED
          BY <4>1 DEF Entry
      <3>2. QED
        BY <3>1
    <2>9. HistoryTypeOK'
      BY <1>5, <2>2, <2>8 DEF WriteQueuedEntries, TypeOK, HistoryTypeOK
    <2>10. QED
      BY <2>1, <2>6, <2>7, <2>9 DEF TypeOK
  <1>6. CASE WorkerDeferred
    <2>1. /\ QueueTypeOK'
          /\ CallTypeOK'
      BY <1>6, UnchangedTypes DEF WorkerDeferred, callVars
    <2>2. OutTypeOK'
      BY <1>6 DEF WorkerDeferred, TakeDeferredWork, TypeOK, OutTypeOK
    <2>3. WorkerTypeOK'
      BY <1>6 DEF WorkerDeferred, stopVars, turnVars, WorkerLabels, TypeOK, WorkerTypeOK
    <2>4. HistoryTypeOK'
      BY <1>6 DEF WorkerDeferred, TakeDeferredWork, TypeOK, OutTypeOK, HistoryTypeOK
    <2>5. QED
      BY <2>1, <2>2, <2>3, <2>4 DEF TypeOK
  <1>7. CASE HandlerReturned
    <2>1. /\ OutTypeOK'
          /\ QueueTypeOK'
          /\ CallTypeOK'
          /\ HistoryTypeOK'
      BY <1>7, UnchangedTypes DEF HandlerReturned, callVars
    <2>2. WorkerTypeOK'
      BY <1>7 DEF HandlerReturned, stopVars, turnVars, WorkerLabels, TypeOK, WorkerTypeOK
    <2>3. QED
      BY <2>1, <2>2 DEF TypeOK
  <1>8. CASE MarkWritten
    <2>1. /\ OutTypeOK'
          /\ HistoryTypeOK'
      BY <1>8, UnchangedTypes DEF MarkWritten
    <2>2. m_LastWrittenSequence' \in Nat
      BY <1>8 DEF MarkWritten, LastTaken, Entry, TypeOK, QueueTypeOK, WorkerTypeOK
    <2>3. m_IsAsync' \in BOOLEAN
      BY <1>8 DEF MarkWritten
    <2>4. QueueTypeOK'
      BY <1>8, <2>2, <2>3 DEF MarkWritten, TypeOK, QueueTypeOK
    <2>5. WorkerTypeOK'
      BY <1>8 DEF MarkWritten, stopVars, turnVars, WorkerLabels, TypeOK, WorkerTypeOK
    <2>6. CallTypeOK'
      BY <1>8 DEF MarkWritten, NotifyQueueChanged, TypeOK, CallTypeOK
    <2>7. QED
      BY <2>1, <2>2, <2>3, <2>4, <2>5, <2>6 DEF TypeOK
  <1>9. CASE WorkerWake
    <2>1. /\ QueueTypeOK'
          /\ CallTypeOK'
          /\ HistoryTypeOK'
      BY <1>9, UnchangedTypes DEF WorkerWake, callVars
    <2>2. m_Out \in Seq(Entry)
      BY <1>9 DEF TypeOK, OutTypeOK
    <2>3. m_Flushed' \in Nat /\ m_HasDeferredWork' \in BOOLEAN
      <3>1. CASE isWakeDue
        <4>1. FlushIf(m_IsInitialized, m_Out, FALSE)
          BY <1>9, <3>1 DEF WorkerWake
        <4>2. QED
          BY <4>1, <2>2, FlushIfType
      <3>2. CASE ~isWakeDue
        BY <1>9, <3>2 DEF WorkerWake, TypeOK, OutTypeOK
      <3>3. QED
        BY <3>1, <3>2
    <2>4. OutTypeOK'
      BY <1>9, <2>3 DEF WorkerWake, TypeOK, OutTypeOK
    <2>5. WorkerTypeOK'
      BY <1>9 DEF WorkerWake, stopVars, turnVars, WorkerLabels, TypeOK, WorkerTypeOK
    <2>6. QED
      BY <2>1, <2>2, <2>3, <2>4, <2>5 DEF TypeOK
  <1>10. CASE WorkerTurned
    <2>1. /\ OutTypeOK'
          /\ QueueTypeOK'
          /\ CallTypeOK'
          /\ HistoryTypeOK'
      BY <1>10, UnchangedTypes DEF WorkerTurned, callVars
    <2>2. isStopping' \in BOOLEAN /\ isWakeDue' \in BOOLEAN
      BY <1>10 DEF WorkerTurned
    <2>3. WorkerTypeOK'
      BY <1>10, <2>2 DEF WorkerTurned, stopVars, WorkerLabels, TypeOK, WorkerTypeOK
    <2>4. QED
      BY <2>1, <2>2, <2>3 DEF TypeOK
  <1>11. QED
    BY <1>1, <1>2, <1>3, <1>4, <1>5, <1>6, <1>7, <1>8, <1>9, <1>10

(***************************************************************************)
(* A call begins.                                                          *)
(***************************************************************************)
LEMMA BeginTypeStep ==
    ASSUME TypeOK, NEW t \in Threads, BeginCall(t)
    PROVE  TypeOK'
  <1>1. ASSUME NEW op \in Ops, Log(t, op)
        PROVE  TypeOK'
    <2>1. OutTypeOK' /\ QueueTypeOK' /\ WorkerTypeOK' /\ HistoryTypeOK'
      BY <1>1, UnchangedTypes DEF Log, TypeOK, WorkerTypeOK
    <2>2. Remember(t, op, DefaultConfig, 0, FALSE) /\ DefaultConfig \in Configs
      BY <1>1, ConfigsAssumption DEF Log, Begin
    <2>3. call' \in [Threads -> Call]
      BY <2>2, RememberType
    <2>4. calls' \in [Threads -> Nat] /\ logged' \in [Threads -> Nat]
      BY <1>1 DEF Log, Begin, TypeOK, CallTypeOK
    <2>5. pc' \in [Threads -> Labels]
      BY <1>1, GotoType DEF Log, Labels
    <2>6. CallTypeOK'
      BY <1>1, <2>3, <2>4, <2>5 DEF Log, TypeOK, CallTypeOK
    <2>7. QED
      BY <2>1, <2>6 DEF TypeOK
  <1>2. ASSUME NEW op \in Ops, NEW config \in Configs, WaitForQueuedEntries(t, op, config)
        PROVE  TypeOK'
    <2>1. OutTypeOK' /\ QueueTypeOK' /\ WorkerTypeOK' /\ HistoryTypeOK'
      BY <1>2, UnchangedTypes DEF WaitForQueuedEntries, TypeOK, WorkerTypeOK
    <2>2. PICK seq \in Nat : /\ Begin(t, op, config, seq)
                             /\ WaitUntil(t, IsWritten(seq), "barrier", "locked")
      BY <1>2 DEF WaitForQueuedEntries, TypeOK, QueueTypeOK
    <2>3. call' \in [Threads -> Call]
      BY <2>2, RememberType DEF Begin
    <2>4. calls' \in [Threads -> Nat]
      BY <2>2 DEF Begin, TypeOK, CallTypeOK
    <2>5. pc' \in [Threads -> Labels] /\ waiting' \subseteq Threads
      BY <2>2 DEF WaitUntil, Goto, Labels, TypeOK, CallTypeOK
    <2>6. CallTypeOK'
      BY <1>2, <2>3, <2>4, <2>5 DEF WaitForQueuedEntries, TypeOK, CallTypeOK
    <2>7. QED
      BY <2>1, <2>6 DEF TypeOK
  <1>3. ASSUME NEW op \in Ops, NEW config \in Configs, BeginUnqueued(t, op, config)
        PROVE  TypeOK'
    <2>1. OutTypeOK' /\ QueueTypeOK' /\ WorkerTypeOK' /\ HistoryTypeOK'
      BY <1>3, UnchangedTypes DEF BeginUnqueued, TypeOK, WorkerTypeOK
    <2>2. call' \in [Threads -> Call]
      BY <1>3, RememberType DEF BeginUnqueued, Begin
    <2>3. calls' \in [Threads -> Nat]
      BY <1>3 DEF BeginUnqueued, Begin, TypeOK, CallTypeOK
    <2>4. pc' \in [Threads -> Labels]
      BY <1>3, GotoType DEF BeginUnqueued, Labels
    <2>5. CallTypeOK'
      BY <1>3, <2>2, <2>3, <2>4 DEF BeginUnqueued, TypeOK, CallTypeOK
    <2>6. QED
      BY <2>1, <2>5 DEF TypeOK
  <1>4. QED
    BY <1>1, <1>2, <1>3, ConfigsAssumption DEF BeginCall

LEMMA TypeStep ==
    ASSUME TypeOK, [Next]_vars
    PROVE  TypeOK'
  <1>1. ASSUME NEW t \in Threads, CallStep(t)
        PROVE  TypeOK'
    BY <1>1, QueueTypeStep, LockedTypeStep, UpdateTypeStep DEF CallStep
  <1>2. CASE WorkerStep
    BY <1>2, WorkerTypeStep DEF WorkerStep
  <1>3. CASE UNCHANGED vars
    BY <1>3, UnchangedTypes DEF vars, callVars, TypeOK, WorkerTypeOK
  <1>4. QED
    BY <1>1, <1>2, <1>3, BeginTypeStep DEF Next, Returned

(***************************************************************************)
(* Type correctness: every variable keeps its type in every behaviour.     *)
(***************************************************************************)
THEOREM TypeCorrect == Spec => []TypeOK
  <1>1. QED
    BY TypeInit, TypeStep, PTL DEF Spec

----------------------------------------------------------------------------
(***************************************************************************)
(* The sequence numbers.  From the moment it takes a batch until           *)
(* MarkWritten, the worker holds entries whose numbers follow              *)
(* m_LastWrittenSequence; the queue's follow those.                        *)
(***************************************************************************)
HoldsBatch == wpc \in {"write", "deferred", "onError", "mark"}
InFlight == IF HoldsBatch THEN Len(entries) ELSE 0

SeqInv ==
    /\ m_LastQueuedSequence = m_LastWrittenSequence + InFlight + Len(m_Queue)
    /\ HoldsBatch => \A i \in 1..Len(entries) : entries[i].seq = m_LastWrittenSequence + i
    /\ \A i \in 1..Len(m_Queue) : m_Queue[i].seq = m_LastWrittenSequence + InFlight + i

\* Entries are only queued while callers are sent to the queue
ActiveInv == m_IsAsyncActive => m_IsAsync

QueueInv == TypeOK /\ SeqInv /\ ActiveInv /\ AsyncOffMeansDrained

(***************************************************************************)
(* The order of one thread's entries along their way: output, the batch    *)
(* not written yet, queue, and the entry the thread is logging.  A thread  *)
(* about to write directly has nothing left in the batch or the queue.     *)
(***************************************************************************)
IsOf(e, t) == e.kind = "entry" /\ e.thread = t
Ordered(s, t) ==
    \A i, j \in 1..Len(s) : i < j /\ IsOf(s[i], t) /\ IsOf(s[j], t) => s[i].n < s[j].n
Precedes(s, u, t) ==
    \A i \in 1..Len(s), j \in 1..Len(u) : IsOf(s[i], t) /\ IsOf(u[j], t) => s[i].n < u[j].n
UpTo(s, t, n) == \A i \in 1..Len(s) : IsOf(s[i], t) => s[i].n <= n
Absent(s, t) == \A i \in 1..Len(s) : ~IsOf(s[i], t)

Batch == IF wpc = "write" THEN entries ELSE <<>>
Logging == {"format", "queue", "drain", "sync"}
Placed(t) == IF pc[t] \in Logging THEN logged[t] - 1 ELSE logged[t]

OrderOf(out, batch, queue, t, n) ==
    /\ Ordered(out, t) /\ Ordered(batch, t) /\ Ordered(queue, t)
    /\ Precedes(out, batch, t) /\ Precedes(out, queue, t) /\ Precedes(batch, queue, t)
    /\ UpTo(out, t, n) /\ UpTo(batch, t, n) /\ UpTo(queue, t, n)

OrderInvFor(t) ==
    /\ OrderOf(m_Out, Batch, m_Queue, t, Placed(t))
    /\ pc[t] = "sync" => Absent(Batch, t) /\ Absent(m_Queue, t)

OrderInv == \A t \in App : OrderInvFor(t)

----------------------------------------------------------------------------
(* One worker at a time *)

(***************************************************************************)
(* m_WorkerMutex is held by one thread, and while that thread starts the   *)
(* worker there is none.                                                   *)
(***************************************************************************)
MutexInv ==
    /\ \A t, u \in Threads : HoldsWorkerMutex(t) /\ HoldsWorkerMutex(u) => t = u
    /\ \A t \in Threads : pc[t] = "start" => wpc = "none"

MutexLabels == {"decide", "join", "start", "activate"}

(***************************************************************************)
(* A step that moves one thread elsewhere, and does not start the worker,  *)
(* keeps MutexInv.                                                         *)
(***************************************************************************)
LEMMA MutexFrame ==
    ASSUME TypeOK, MutexInv, NEW t \in Threads, NEW label \in Labels,
           pc' = [pc EXCEPT ![t] = label], wpc = "none" => wpc' = "none",
           label \notin MutexLabels \/ (HoldsWorkerMutex(t) /\ label # "start")
    PROVE  MutexInv'
  BY DEF TypeOK, CallTypeOK, MutexInv, HoldsWorkerMutex, MutexLabels

LEMMA MutexSame ==
    ASSUME MutexInv, UNCHANGED pc, wpc = "none" => wpc' = "none"
    PROVE  MutexInv'
  BY DEF MutexInv, HoldsWorkerMutex

LEMMA MutexInit == Init => MutexInv
  BY DEF Init, MutexInv, HoldsWorkerMutex

LEMMA MutexStep ==
    ASSUME TypeOK, MutexInv, [Next]_vars
    PROVE  MutexInv'
  <1>1. ASSUME NEW t \in Threads, BeginCall(t)
        PROVE  MutexInv'
    <2>1. /\ wpc' = wpc
          /\ \/ Goto(t, "format") \/ Goto(t, "sync") \/ Goto(t, "barrier") \/ Goto(t, "locked")
      BY <1>1 DEF BeginCall, Log, WaitForQueuedEntries, BeginUnqueued, WaitUntil
    <2>2. QED
      BY <2>1, MutexFrame DEF Goto, Labels, MutexLabels
  <1>2. ASSUME NEW t \in Threads, CallStep(t)
        PROVE  MutexInv'
    <2>1. CASE Barrier(t) \/ QueueRefuse(t) \/ Drain(t)
      <3>1. /\ wpc' = wpc
            /\ Goto(t, "barrier") \/ Goto(t, "locked") \/ Goto(t, "drain") \/ Goto(t, "sync")
        BY <2>1 DEF Barrier, QueueRefuse, Drain, WaitUntil
      <3>2. QED
        BY <3>1, MutexFrame DEF Goto, Labels, MutexLabels
    <2>2. CASE FormatEntry(t) \/ WriteSync(t)
      BY <2>2, MutexFrame DEF FormatEntry, WriteSync, Goto, Labels, MutexLabels
    <2>3. CASE QueueDrop(t) \/ QueueWait(t) \/ Await(t)
      BY <2>3, MutexFrame, MutexSame DEF QueueDrop, QueueWait, Await, Return, Goto, Labels, MutexLabels
    <2>4. CASE QueuePush(t)
      <3>1. Goto(t, "await") \/ Goto(t, "idle")
        BY <2>4 DEF QueuePush, Return
      <3>2. wpc = "none" => wpc' = "none"
        BY <2>4 DEF QueuePush, NotifyWorker
      <3>3. QED
        BY <3>1, <3>2, MutexFrame DEF Goto, Labels, MutexLabels
    <2>5. CASE Flush(t) \/ Close(t) \/ Finalize(t) \/ Open(t) \/ Initialize(t) \/ Reconfigure(t)
      <3>1. Goto(t, "deferred") /\ wpc' = wpc
        BY <2>5 DEF Flush, Close, Finalize, Open, Initialize, Reconfigure, AtLock, lockedUnchanged
      <3>2. QED
        BY <3>1, MutexFrame DEF Goto, Labels, MutexLabels
    <2>6. CASE RunDeferredWork(t)
      <3>1. /\ wpc' = wpc
            /\ Goto(t, "idle") \/ Goto(t, "update")
        BY <2>6 DEF RunDeferredWork, Return
      <3>2. QED
        BY <3>1, MutexFrame DEF Goto, Labels, MutexLabels
    <2>7. CASE KeepWorker(t) \/ NoWorker(t)
      BY <2>7, MutexFrame DEF KeepWorker, NoWorker, NotifyWorker, Return, Goto, Labels, MutexLabels
    <2>8. CASE StopWorker(t) \/ WantWorker(t)
      <3>1. \A u \in Threads : HoldsWorkerMutex(u) => u = t
        BY <2>8 DEF StopWorker, WantWorker, Decides, MutexInv, HoldsWorkerMutex
      <3>2. pc' = [pc EXCEPT ![t] = "join"] \/ (pc' = [pc EXCEPT ![t] = "start"] /\ wpc = "none")
        BY <2>8 DEF StopWorker, WantWorker, IsJoinable, Goto
      <3>3. wpc = "none" => wpc' = "none"
        BY <2>8 DEF StopWorker, WantWorker, NotifyWorker
      <3>4. QED
        BY <3>1, <3>2, <3>3 DEF MutexInv, HoldsWorkerMutex, TypeOK, CallTypeOK
    <2>9. CASE JoinWorker(t)
      BY <2>9, MutexFrame DEF JoinWorker, HoldsWorkerMutex, Goto, Labels
    <2>10. CASE StartWorker(t)
      <3>1. \A u \in Threads : HoldsWorkerMutex(u) => u = t
        BY <2>10 DEF StartWorker, MutexInv, HoldsWorkerMutex
      <3>2. pc' = [pc EXCEPT ![t] = "activate"] \/ pc' = [pc EXCEPT ![t] = "idle"]
        BY <2>10 DEF StartWorker, Return, Goto
      <3>3. QED
        BY <3>1, <3>2 DEF MutexInv, HoldsWorkerMutex, TypeOK, CallTypeOK
    <2>11. CASE ActivateAsync(t)
      BY <2>11, MutexFrame DEF ActivateAsync, Return, Goto, Labels, MutexLabels
    <2>12. QED
      BY <1>2, <2>1, <2>2, <2>3, <2>4, <2>5, <2>6, <2>7, <2>8, <2>9, <2>10, <2>11 DEF CallStep
  <1>3. CASE WorkerStep
    <2>1. CASE UpdateWorkerFromWorker
      <3>1. /\ pc' = [pc EXCEPT ![W] = "idle"]
            /\ wpc = "none" => wpc' = "none"
        BY <2>1 DEF UpdateWorkerFromWorker, NotifyWorker, Return, Goto
      <3>2. QED
        BY <3>1, MutexFrame DEF Threads, Labels, MutexLabels
    <2>2. CASE WorkerTake \/ WorkerSleep \/ WorkerTimeout
      BY <2>2, MutexSame DEF WorkerTake, WorkerSleep, WorkerTimeout, callVars
    <2>3. CASE WriteQueuedEntries \/ WorkerDeferred \/ HandlerReturned
      BY <2>3, MutexSame DEF WriteQueuedEntries, WorkerDeferred, HandlerReturned, callVars
    <2>4. CASE MarkWritten \/ WorkerWake \/ WorkerTurned
      BY <2>4, MutexSame DEF MarkWritten, WorkerWake, WorkerTurned, callVars
    <2>5. QED
      BY <1>3, <2>1, <2>2, <2>3, <2>4 DEF WorkerStep
  <1>4. CASE UNCHANGED vars
    BY <1>4, MutexSame DEF vars, callVars
  <1>5. QED
    BY <1>1, <1>2, <1>3, <1>4 DEF Next, Returned

----------------------------------------------------------------------------
(* Async switched off means drained *)

(***************************************************************************)
(* The steps that touch neither the queue nor the batch keep SeqInv.       *)
(***************************************************************************)
LEMMA SeqFrame ==
    ASSUME SeqInv, UNCHANGED <<m_Queue, m_LastQueuedSequence, m_LastWrittenSequence, entries>>,
           HoldsBatch' <=> HoldsBatch
    PROVE  SeqInv' /\ (IsDrained' <=> IsDrained)
  BY DEF SeqInv, InFlight, IsDrained, IsWritten

LEMMA SetAsyncActiveInv ==
    ASSUME QueueInv, NEW isActive \in BOOLEAN, SetAsyncActive(isActive),
           IsDrained' <=> IsDrained
    PROVE  ActiveInv' /\ AsyncOffMeansDrained'
  BY DEF QueueInv, ActiveInv, AsyncOffMeansDrained, SetAsyncActive

LEMMA SameAsyncInv ==
    ASSUME QueueInv, UNCHANGED asyncVars, IsDrained' <=> IsDrained
    PROVE  ActiveInv' /\ AsyncOffMeansDrained'
  BY DEF QueueInv, ActiveInv, AsyncOffMeansDrained, asyncVars

LEMMA NotifyWorkerHolds ==
    ASSUME NotifyWorker
    PROVE  HoldsBatch' <=> HoldsBatch
  BY DEF NotifyWorker, HoldsBatch

(***************************************************************************)
(* Of the steps of a call only QueuePush touches the queue's numbers.      *)
(***************************************************************************)
LEMMA CallFrame ==
    ASSUME TypeOK, MutexInv, NEW t \in Threads, CallStep(t), ~QueuePush(t)
    PROVE  /\ UNCHANGED <<m_Queue, m_LastQueuedSequence, m_LastWrittenSequence, entries>>
           /\ HoldsBatch' <=> HoldsBatch
           /\ UNCHANGED asyncVars \/ \E isActive \in BOOLEAN : SetAsyncActive(isActive)
  <1> DEFINE Frame == /\ UNCHANGED <<m_Queue, m_LastQueuedSequence, m_LastWrittenSequence, entries>>
                      /\ HoldsBatch' <=> HoldsBatch
                      /\ UNCHANGED asyncVars \/ \E isActive \in BOOLEAN : SetAsyncActive(isActive)
  <1>1. CASE Barrier(t) \/ FormatEntry(t) \/ QueueDrop(t) \/ QueueWait(t)
    BY <1>1 DEF Barrier, FormatEntry, QueueDrop, QueueWait, seqVars, turnVars, HoldsBatch
  <1>2. CASE QueueRefuse(t) \/ Drain(t) \/ Await(t) \/ WriteSync(t)
    BY <1>2 DEF QueueRefuse, Drain, Await, WriteSync, seqVars, turnVars, HoldsBatch
  <1>3. CASE Flush(t) \/ Close(t) \/ Finalize(t)
    BY <1>3 DEF Flush, Close, Finalize, lockedUnchanged, seqVars, turnVars, HoldsBatch
  <1>4. CASE Open(t) \/ Initialize(t) \/ Reconfigure(t)
    BY <1>4 DEF Open, Initialize, Reconfigure, lockedUnchanged, seqVars, turnVars, HoldsBatch
  <1>5. CASE RunDeferredWork(t)
    BY <1>5 DEF RunDeferredWork, seqVars, turnVars, HoldsBatch
  <1>6. CASE KeepWorker(t)
    <2>1. SetAsyncActive(WantsAsync(t)) /\ WantsAsync(t) \in BOOLEAN
      BY <1>6 DEF KeepWorker, WantsAsync
    <2>2. QED
      BY <1>6, <2>1, NotifyWorkerHolds DEF KeepWorker, updateUnchanged, seqVars, turnVars
  <1>7. CASE StopWorker(t)
    <2>1. SetAsyncActive(FALSE) /\ FALSE \in BOOLEAN
      BY <1>7 DEF StopWorker
    <2>2. QED
      BY <1>7, <2>1, NotifyWorkerHolds DEF StopWorker, updateUnchanged, seqVars, turnVars
  <1>8. CASE NoWorker(t) \/ WantWorker(t) \/ JoinWorker(t)
    BY <1>8 DEF NoWorker, WantWorker, JoinWorker, updateUnchanged, seqVars, turnVars, HoldsBatch
  <1>9. CASE StartWorker(t)
    BY <1>9 DEF StartWorker, MutexInv, updateUnchanged, seqVars, turnVars, HoldsBatch
  <1>10. CASE ActivateAsync(t)
    BY <1>10, CallFieldsType DEF ActivateAsync, updateUnchanged, seqVars, turnVars, HoldsBatch
  <1>11. QED
    BY <1>1, <1>2, <1>3, <1>4, <1>5, <1>6, <1>7, <1>8, <1>9, <1>10 DEF CallStep

LEMMA QueueInit == Init => SeqInv /\ ActiveInv /\ AsyncOffMeansDrained
  <1> SUFFICES ASSUME Init
               PROVE  SeqInv /\ ActiveInv /\ AsyncOffMeansDrained
    OBVIOUS
  <1>1. ~HoldsBatch /\ InFlight = 0
    BY DEF Init, HoldsBatch, InFlight
  <1>2. /\ m_Queue = <<>> /\ m_LastQueuedSequence = 0 /\ m_LastWrittenSequence = 0
        /\ m_IsAsyncActive = FALSE
    BY DEF Init
  <1>3. SeqInv
    BY <1>1, <1>2 DEF SeqInv
  <1>4. QED
    BY <1>2, <1>3 DEF ActiveInv, AsyncOffMeansDrained, IsDrained, IsWritten

(***************************************************************************)
(* QueuePush gives the entry the next number, and async is on.             *)
(***************************************************************************)
LEMMA PushQueueStep ==
    ASSUME QueueInv, NEW t \in Threads, QueuePush(t)
    PROVE  SeqInv' /\ ActiveInv' /\ AsyncOffMeansDrained'
  <1> DEFINE entry == EntryOf(t, call[t].config, m_LastQueuedSequence + 1)
  <1>1. /\ m_Queue \in Seq(Entry) /\ entries \in Seq(Entry)
        /\ m_LastQueuedSequence \in Nat /\ m_LastWrittenSequence \in Nat
    BY DEF QueueInv, TypeOK, QueueTypeOK, WorkerTypeOK
  <1>2. entry \in Entry /\ entry.seq = m_LastQueuedSequence + 1
    BY <1>1, EntryType, CallFieldsType DEF EntryOf, QueueInv
  <1>3. /\ m_Queue' = Append(m_Queue, entry)
        /\ m_LastQueuedSequence' = m_LastQueuedSequence + 1
        /\ UNCHANGED <<m_LastWrittenSequence, entries, asyncVars>>
        /\ m_IsAsyncActive /\ NotifyWorker
    BY DEF QueuePush, turnVars
  <1> HIDE DEF entry
  <1>4. (HoldsBatch' <=> HoldsBatch) /\ InFlight' = InFlight /\ InFlight \in Nat
    BY <1>1, <1>3, NotifyWorkerHolds DEF InFlight
  <1>5. /\ Len(m_Queue') = Len(m_Queue) + 1
        /\ \A i \in 1..Len(m_Queue) : m_Queue'[i] = m_Queue[i]
        /\ m_Queue'[Len(m_Queue) + 1] = entry
    BY <1>1, <1>2, <1>3
  <1>6. SeqInv'
    BY <1>1, <1>2, <1>3, <1>4, <1>5 DEF SeqInv, QueueInv
  <1>7. m_IsAsyncActive' /\ m_IsAsync'
    BY <1>3 DEF QueueInv, ActiveInv, asyncVars
  <1>8. QED
    BY <1>6, <1>7 DEF ActiveInv, AsyncOffMeansDrained

(***************************************************************************)
(* The worker takes the whole queue, and later marks all of it written.    *)
(***************************************************************************)
LEMMA TakeQueueStep ==
    ASSUME QueueInv, WorkerTake
    PROVE  SeqInv' /\ ActiveInv' /\ AsyncOffMeansDrained'
  <1>1. /\ m_Queue \in Seq(Entry)
        /\ m_LastQueuedSequence \in Nat /\ m_LastWrittenSequence \in Nat
    BY DEF QueueInv, TypeOK, QueueTypeOK
  <1>2. /\ entries' = m_Queue /\ m_Queue' = <<>>
        /\ UNCHANGED <<m_LastQueuedSequence, m_LastWrittenSequence, asyncVars>>
        /\ ~HoldsBatch
        /\ HoldsBatch' \/ Len(m_Queue) = 0
    BY <1>1 DEF WorkerTake, HoldsBatch
  <1>3. InFlight = 0 /\ InFlight' = Len(m_Queue) /\ Len(m_Queue') = 0
    BY <1>2 DEF InFlight
  <1>4. SeqInv'
    BY <1>1, <1>2, <1>3 DEF SeqInv, QueueInv
  <1>5. IsDrained' <=> IsDrained
    BY <1>2 DEF IsDrained, IsWritten
  <1>6. QED
    BY <1>2, <1>4, <1>5, SameAsyncInv

LEMMA MarkQueueStep ==
    ASSUME QueueInv, MarkWritten
    PROVE  SeqInv' /\ ActiveInv' /\ AsyncOffMeansDrained'
  <1>1. /\ m_Queue \in Seq(Entry) /\ entries \in Seq(Entry)
        /\ m_LastQueuedSequence \in Nat /\ m_LastWrittenSequence \in Nat
    BY DEF QueueInv, TypeOK, QueueTypeOK, WorkerTypeOK
  <1>2. /\ HoldsBatch /\ ~HoldsBatch'
        /\ UNCHANGED <<m_Queue, m_LastQueuedSequence, m_IsAsyncActive>>
    BY DEF MarkWritten, HoldsBatch
  <1>3. InFlight = Len(entries) /\ InFlight' = 0
    BY <1>2 DEF InFlight
  <1>4. LastTaken = m_LastWrittenSequence + Len(entries)
    <2>1. CASE entries = <<>>
      BY <2>1, <1>1 DEF LastTaken
    <2>2. CASE entries # <<>>
      <3>1. Len(entries) \in 1..Len(entries)
        BY <2>2, <1>1
      <3>2. QED
        BY <2>2, <3>1, <1>2 DEF LastTaken, QueueInv, SeqInv
    <2>3. QED
      BY <2>1, <2>2
  <1>5. m_LastWrittenSequence' = m_LastWrittenSequence + Len(entries)
    BY <1>1, <1>4 DEF MarkWritten
  <1>6. SeqInv'
    BY <1>1, <1>2, <1>3, <1>5 DEF SeqInv, QueueInv
  <1>7. m_IsAsync' <=> (m_IsAsync /\ (m_IsAsyncActive \/ m_LastWrittenSequence' < m_LastQueuedSequence))
    BY DEF MarkWritten
  <1>8. ActiveInv'
    BY <1>2, <1>7 DEF ActiveInv, QueueInv
  <1>9. AsyncOffMeansDrained'
    <2>1. ASSUME ~m_IsAsync'
          PROVE  m_LastWrittenSequence' >= m_LastQueuedSequence
      <3>1. CASE ~m_IsAsync
        BY <3>1, <1>1, <1>5 DEF QueueInv, AsyncOffMeansDrained, IsDrained, IsWritten
      <3>2. CASE ~(m_LastWrittenSequence' < m_LastQueuedSequence)
        BY <3>2, <1>1, <1>5
      <3>3. QED
        BY <2>1, <3>1, <3>2, <1>7
    <2>2. QED
      BY <2>1, <1>2 DEF AsyncOffMeansDrained, IsDrained, IsWritten
  <1>10. QED
    BY <1>6, <1>8, <1>9

LEMMA QueueStep ==
    ASSUME QueueInv, MutexInv, [Next]_vars
    PROVE  SeqInv' /\ ActiveInv' /\ AsyncOffMeansDrained'
  <1> USE DEF QueueInv
  <1>1. ASSUME NEW t \in Threads, BeginCall(t)
        PROVE  SeqInv' /\ ActiveInv' /\ AsyncOffMeansDrained'
    <2>1. UNCHANGED <<seqVars, asyncVars, turnVars, wpc>>
      BY <1>1 DEF BeginCall, Log, WaitForQueuedEntries, BeginUnqueued
    <2>2. QED
      BY <2>1, SeqFrame, SameAsyncInv DEF seqVars, turnVars, HoldsBatch
  <1>2. ASSUME NEW t \in Threads, CallStep(t)
        PROVE  SeqInv' /\ ActiveInv' /\ AsyncOffMeansDrained'
    <2>1. CASE QueuePush(t)
      BY <2>1, PushQueueStep
    <2>2. CASE ~QueuePush(t)
      <3>1. SeqInv' /\ (IsDrained' <=> IsDrained)
        BY <1>2, <2>2, CallFrame, SeqFrame
      <3>2. QED
        BY <1>2, <2>2, <3>1, CallFrame, SameAsyncInv, SetAsyncActiveInv
    <2>3. QED
      BY <2>1, <2>2
  <1>3. CASE WorkerStep
    <2>1. CASE WorkerTake
      BY <2>1, TakeQueueStep
    <2>2. CASE MarkWritten
      BY <2>2, MarkQueueStep
    <2>3. CASE UpdateWorkerFromWorker
      <3>1. /\ UNCHANGED <<m_Queue, m_LastQueuedSequence, m_LastWrittenSequence, entries>>
            /\ NotifyWorker
        BY <2>3 DEF UpdateWorkerFromWorker, updateUnchanged, seqVars, turnVars
      <3>2. SeqInv' /\ (IsDrained' <=> IsDrained)
        BY <3>1, NotifyWorkerHolds, SeqFrame
      <3>3. UNCHANGED asyncVars \/ SetAsyncActive(FALSE)
              \/ (SetAsyncActive(WantsAsync(W)) /\ WantsAsync(W) \in BOOLEAN)
        BY <2>3 DEF UpdateWorkerFromWorker, WantsAsync
      <3>4. QED
        BY <3>2, <3>3, SameAsyncInv, SetAsyncActiveInv
    <2>4. CASE WorkerSleep \/ WorkerTimeout \/ WriteQueuedEntries \/ WorkerDeferred
      <3>1. UNCHANGED <<seqVars, asyncVars, entries>> /\ (HoldsBatch' <=> HoldsBatch)
        BY <2>4 DEF WorkerSleep, WorkerTimeout, WriteQueuedEntries, WorkerDeferred, turnVars, HoldsBatch
      <3>2. QED
        BY <3>1, SeqFrame, SameAsyncInv DEF seqVars
    <2>5. CASE HandlerReturned \/ WorkerWake
      <3>1. UNCHANGED <<seqVars, asyncVars, entries>> /\ (HoldsBatch' <=> HoldsBatch)
        BY <2>5 DEF HandlerReturned, WorkerWake, turnVars, HoldsBatch
      <3>2. QED
        BY <3>1, SeqFrame, SameAsyncInv DEF seqVars
    <2>6. CASE WorkerTurned
      <3>1. UNCHANGED <<seqVars, asyncVars>> /\ ~HoldsBatch /\ ~HoldsBatch'
        BY <2>6 DEF WorkerTurned, HoldsBatch
      <3>2. SeqInv' /\ (IsDrained' <=> IsDrained)
        BY <3>1 DEF SeqInv, InFlight, IsDrained, IsWritten, seqVars
      <3>3. QED
        BY <3>1, <3>2, SameAsyncInv
    <2>7. QED
      BY <1>3, <2>1, <2>2, <2>3, <2>4, <2>5, <2>6 DEF WorkerStep
  <1>4. CASE UNCHANGED vars
    BY <1>4, SeqFrame, SameAsyncInv DEF vars, seqVars, turnVars, HoldsBatch
  <1>5. QED
    BY <1>1, <1>2, <1>3, <1>4 DEF Next, Returned

(***************************************************************************)
(* A thread that reads m_IsAsync cleared finds every queued entry written, *)
(* for any number of threads, any queue capacity and any failures.         *)
(***************************************************************************)
THEOREM AsyncOffIsDrained == Spec => []AsyncOffMeansDrained
  <1>1. Init => MutexInv /\ QueueInv
    BY TypeInit, MutexInit, QueueInit DEF QueueInv
  <1>2. MutexInv /\ QueueInv /\ [Next]_vars => MutexInv' /\ QueueInv'
    BY TypeStep, MutexStep, QueueStep DEF QueueInv
  <1>3. QueueInv => AsyncOffMeansDrained
    BY DEF QueueInv
  <1>4. QED
    BY <1>1, <1>2, <1>3, PTL DEF Spec

----------------------------------------------------------------------------
(* One thread's entries are written in order *)

(***************************************************************************)
(* Appending an entry that is not t's changes nothing for t; appending     *)
(* t's newest entry keeps the order.                                       *)
(***************************************************************************)
LEMMA AppendOther ==
    ASSUME NEW s \in Seq(Entry), NEW e \in Entry, NEW t, ~IsOf(e, t)
    PROVE  /\ Ordered(s, t) => Ordered(Append(s, e), t)
           /\ \A n : UpTo(s, t, n) => UpTo(Append(s, e), t, n)
           /\ Absent(s, t) => Absent(Append(s, e), t)
           /\ \A u \in Seq(Entry) : Precedes(s, u, t) => Precedes(Append(s, e), u, t)
           /\ \A u \in Seq(Entry) : Precedes(u, s, t) => Precedes(u, Append(s, e), t)
  <1> DEFINE r == Append(s, e)
  <1>1. /\ Len(s) \in Nat /\ Len(r) = Len(s) + 1
        /\ \A i \in 1..Len(s) : r[i] = s[i]
        /\ r[Len(s) + 1] = e
    OBVIOUS
  <1> HIDE DEF r
  <1>2. \A i \in 1..Len(r) : IsOf(r[i], t) => i \in 1..Len(s) /\ r[i] = s[i]
    BY <1>1
  <1>3. Ordered(s, t) => Ordered(r, t)
    BY <1>2 DEF Ordered
  <1>4. \A n : UpTo(s, t, n) => UpTo(r, t, n)
    BY <1>2 DEF UpTo
  <1>5. Absent(s, t) => Absent(r, t)
    BY <1>2 DEF Absent
  <1>6. \A u \in Seq(Entry) : Precedes(s, u, t) => Precedes(r, u, t)
    BY <1>2 DEF Precedes
  <1>7. \A u \in Seq(Entry) : Precedes(u, s, t) => Precedes(u, r, t)
    BY <1>2 DEF Precedes
  <1>8. QED
    BY <1>3, <1>4, <1>5, <1>6, <1>7 DEF r

LEMMA AppendOwn ==
    ASSUME NEW s \in Seq(Entry), NEW e \in Entry, NEW t, UpTo(s, t, e.n - 1)
    PROVE  /\ Ordered(s, t) => Ordered(Append(s, e), t)
           /\ UpTo(Append(s, e), t, e.n)
           /\ \A u \in Seq(Entry) : Absent(u, t) => Precedes(Append(s, e), u, t)
           /\ \A u \in Seq(Entry) :
                Precedes(u, s, t) /\ UpTo(u, t, e.n - 1) => Precedes(u, Append(s, e), t)
  <1> DEFINE r == Append(s, e)
  <1>1. /\ Len(s) \in Nat /\ Len(r) = Len(s) + 1
        /\ \A i \in 1..Len(s) : r[i] = s[i]
        /\ r[Len(s) + 1] = e
    OBVIOUS
  <1> HIDE DEF r
  <1>2. /\ e.n \in Nat
        /\ \A v \in Seq(Entry) : \A i \in 1..Len(v) : v[i].n \in Nat
    <2>1. ASSUME NEW v \in Seq(Entry), NEW i \in 1..Len(v)
          PROVE  v[i].n \in Nat
      <3>1. v[i] \in Entry
        OBVIOUS
      <3>2. QED
        BY <3>1 DEF Entry
    <2>2. QED
      BY <2>1 DEF Entry
  <1>3. \A i \in 1..Len(r) : \/ i \in 1..Len(s) /\ r[i] = s[i]
                             \/ i = Len(s) + 1 /\ r[i] = e
    BY <1>1
  <1>4. \A v \in Seq(Entry) : UpTo(v, t, e.n - 1) =>
              \A i \in 1..Len(v) : IsOf(v[i], t) => v[i].n < e.n
    BY <1>2 DEF UpTo
  <1>5. Ordered(s, t) => Ordered(r, t)
    <2> SUFFICES ASSUME Ordered(s, t), NEW i \in 1..Len(r), NEW j \in 1..Len(r), i < j,
                        IsOf(r[i], t), IsOf(r[j], t)
                 PROVE  r[i].n < r[j].n
      BY DEF Ordered
    <2>1. i \in 1..Len(s) /\ r[i] = s[i]
      BY <1>1, <1>3
    <2>2. QED
      BY <2>1, <1>3, <1>4 DEF Ordered
  <1>6. UpTo(r, t, e.n)
    BY <1>2, <1>3, <1>4 DEF UpTo
  <1>7. \A u \in Seq(Entry) : Absent(u, t) => Precedes(r, u, t)
    BY DEF Absent, Precedes
  <1>8. \A u \in Seq(Entry) : Precedes(u, s, t) /\ UpTo(u, t, e.n - 1) => Precedes(u, r, t)
    BY <1>3, <1>4 DEF Precedes
  <1>9. QED
    BY <1>5, <1>6, <1>7, <1>8 DEF r

(***************************************************************************)
(* Two ordered sequences, the first before the second, make an ordered     *)
(* one.                                                                    *)
(***************************************************************************)
LEMMA ConcatOrder ==
    ASSUME NEW s \in Seq(Entry), NEW v \in Seq(Entry), NEW u \in Seq(Entry), NEW t, NEW n,
           Ordered(s, t), Ordered(v, t), Precedes(s, v, t),
           Precedes(s, u, t), Precedes(v, u, t), UpTo(s, t, n), UpTo(v, t, n)
    PROVE  Ordered(s \o v, t) /\ Precedes(s \o v, u, t) /\ UpTo(s \o v, t, n)
  <1> DEFINE r == s \o v
  <1>1. /\ Len(s) \in Nat /\ Len(v) \in Nat /\ Len(r) = Len(s) + Len(v)
        /\ \A i \in 1..Len(s) : r[i] = s[i]
        /\ \A i \in (Len(s) + 1)..Len(r) : r[i] = v[i - Len(s)]
    OBVIOUS
  <1> HIDE DEF r
  <1>2. \A i \in 1..Len(r) : \/ i \in 1..Len(s) /\ r[i] = s[i]
                             \/ /\ i > Len(s) /\ i - Len(s) \in 1..Len(v)
                                /\ r[i] = v[i - Len(s)]
    BY <1>1
  <1>3. Ordered(r, t)
    <2> SUFFICES ASSUME NEW i \in 1..Len(r), NEW j \in 1..Len(r), i < j,
                        IsOf(r[i], t), IsOf(r[j], t)
                 PROVE  r[i].n < r[j].n
      BY DEF Ordered
    <2>1. CASE i > Len(s)
      <3>1. /\ i - Len(s) \in 1..Len(v) /\ r[i] = v[i - Len(s)]
            /\ j - Len(s) \in 1..Len(v) /\ r[j] = v[j - Len(s)]
            /\ i - Len(s) < j - Len(s)
        BY <2>1, <1>1, <1>2
      <3>2. QED
        BY <3>1 DEF Ordered
    <2>2. CASE ~(i > Len(s))
      <3>1. i \in 1..Len(s) /\ r[i] = s[i]
        BY <2>2, <1>1, <1>2
      <3>2. CASE j > Len(s)
        <4>1. j - Len(s) \in 1..Len(v) /\ r[j] = v[j - Len(s)]
          BY <3>2, <1>1, <1>2
        <4>2. QED
          BY <3>1, <4>1 DEF Precedes
      <3>3. CASE ~(j > Len(s))
        BY <3>1, <3>3, <1>1, <1>2 DEF Ordered
      <3>4. QED
        BY <3>2, <3>3
    <2>3. QED
      BY <2>1, <2>2
  <1>4. Precedes(r, u, t)
    BY <1>2 DEF Precedes
  <1>5. UpTo(r, t, n)
    BY <1>2 DEF UpTo
  <1>6. QED
    BY <1>3, <1>4, <1>5 DEF r

(***************************************************************************)
(* A part of a sequence keeps t's entries in order.                        *)
(***************************************************************************)
LEMMA PartOrder ==
    ASSUME NEW s \in Seq(Entry), NEW v \in Seq(Entry), NEW t,
           \A i \in 1..Len(v) : IsOf(v[i], t) => i \in 1..Len(s) /\ v[i] = s[i]
    PROVE  /\ Ordered(s, t) => Ordered(v, t)
           /\ \A n : UpTo(s, t, n) => UpTo(v, t, n)
           /\ \A u \in Seq(Entry) : Precedes(s, u, t) => Precedes(v, u, t)
           /\ \A u \in Seq(Entry) : Precedes(u, s, t) => Precedes(u, v, t)
  <1>1. Ordered(s, t) => Ordered(v, t)
    BY DEF Ordered
  <1>2. \A n : UpTo(s, t, n) => UpTo(v, t, n)
    BY DEF UpTo
  <1>3. \A u \in Seq(Entry) : Precedes(s, u, t) => Precedes(v, u, t)
    BY DEF Precedes
  <1>4. \A u \in Seq(Entry) : Precedes(u, s, t) => Precedes(u, v, t)
    BY DEF Precedes
  <1>5. QED
    BY <1>1, <1>2, <1>3, <1>4

LEMMA UpToLater ==
    ASSUME NEW s \in Seq(Entry), NEW t, NEW n \in Int, NEW m \in Int, n <= m, UpTo(s, t, n)
    PROVE  UpTo(s, t, m)
  <1>1. ASSUME NEW i \in 1..Len(s), IsOf(s[i], t)
        PROVE  s[i].n <= m
    <2>1. s[i] \in Entry
      OBVIOUS
    <2>2. s[i].n \in Nat
      BY <2>1 DEF Entry
    <2>3. s[i].n <= n
      BY <1>1 DEF UpTo
    <2>4. QED
      BY <2>2, <2>3
  <1>2. QED
    BY <1>1 DEF UpTo

LEMMA OrderTypes ==
    ASSUME TypeOK
    PROVE  /\ m_Out \in Seq(Entry) /\ Batch \in Seq(Entry) /\ m_Queue \in Seq(Entry)
           /\ \A t \in Threads : Placed(t) \in Int /\ logged[t] \in Nat
  <1>1. m_Out \in Seq(Entry) /\ Batch \in Seq(Entry) /\ m_Queue \in Seq(Entry)
    BY DEF Batch, TypeOK, OutTypeOK, QueueTypeOK, WorkerTypeOK
  <1>2. \A t \in Threads : Placed(t) \in Int /\ logged[t] \in Nat
    BY DEF Placed, TypeOK, CallTypeOK
  <1>3. QED
    BY <1>1, <1>2

(***************************************************************************)
(* What the three sequences hold after a step, up to an n that the thread  *)
(* has reached, is the invariant's first conjunct.                         *)
(***************************************************************************)
LEMMA OrderNext ==
    ASSUME TypeOK', NEW t \in App, NEW n \in Int, n <= Placed(t)',
           OrderOf(m_Out', Batch', m_Queue', t, n),
           pc'[t] = "sync" => Absent(Batch', t) /\ Absent(m_Queue', t)
    PROVE  OrderInvFor(t)'
  <1>1. t \in Threads
    BY DEF Threads
  <1>2. /\ m_Out' \in Seq(Entry) /\ Batch' \in Seq(Entry) /\ m_Queue' \in Seq(Entry)
        /\ Placed(t)' \in Int
    BY <1>1 DEF TypeOK, OutTypeOK, QueueTypeOK, WorkerTypeOK, CallTypeOK, Batch, Placed
  <1> DEFINE m == Placed(t)'
  <1> HIDE DEF m
  <1>3. m \in Int /\ n <= m
    BY <1>2 DEF m
  <1>4. UpTo(m_Out', t, m) /\ UpTo(Batch', t, m) /\ UpTo(m_Queue', t, m)
    BY <1>2, <1>3, UpToLater DEF OrderOf
  <1>5. OrderOf(m_Out', Batch', m_Queue', t, m)
    BY <1>4 DEF OrderOf
  <1>6. OrderOf(m_Out', Batch', m_Queue', t, Placed(t)')
    BY <1>5 DEF m
  <1>7. QED
    BY <1>6 DEF OrderInvFor

(***************************************************************************)
(* A step that moves a thread in its call, and leaves the sequences alone, *)
(* keeps the order: nobody starts logging an entry or gets to write        *)
(* directly while the batch or the queue holds an entry of its own.        *)
(***************************************************************************)
LEMMA PlacedMove ==
    ASSUME TypeOK, NEW t \in App, NEW u \in Threads, NEW label \in Labels,
           pc' = [pc EXCEPT ![u] = label], logged' = logged,
           label \in Logging => pc[u] \in Logging
    PROVE  /\ Placed(t) <= Placed(t)'
           /\ pc'[t] = "sync" => pc[t] = "sync" \/ (t = u /\ label = "sync")
  BY DEF TypeOK, CallTypeOK, Placed, Threads, Logging

LEMMA OrderMove ==
    ASSUME TypeOK, TypeOK', NEW t \in App, OrderInvFor(t), NEW u \in Threads,
           NEW label \in Labels, pc' = [pc EXCEPT ![u] = label], logged' = logged,
           label \in Logging => pc[u] \in Logging,
           UNCHANGED m_Out, UNCHANGED m_Queue, Batch' = Batch,
           t = u /\ label = "sync" => Absent(Batch, t) /\ Absent(m_Queue, t)
    PROVE  OrderInvFor(t)'
  <1>1. /\ Placed(t) <= Placed(t)'
        /\ pc'[t] = "sync" => pc[t] = "sync" \/ (t = u /\ label = "sync")
    BY PlacedMove
  <1>2. t \in Threads /\ Placed(t) \in Int
    BY OrderTypes DEF Threads
  <1>3. OrderOf(m_Out', Batch', m_Queue', t, Placed(t))
    BY DEF OrderInvFor
  <1>4. pc'[t] = "sync" => Absent(Batch', t) /\ Absent(m_Queue', t)
    BY <1>1 DEF OrderInvFor
  <1>5. QED
    BY <1>1, <1>2, <1>3, <1>4, OrderNext

\* The same for a step that moves no thread
LEMMA OrderSame ==
    ASSUME TypeOK, TypeOK', NEW t \in App, OrderInvFor(t),
           UNCHANGED <<pc, logged>>,
           UNCHANGED m_Out, UNCHANGED m_Queue, Batch' = Batch
    PROVE  OrderInvFor(t)'
  <1>1. t \in Threads /\ Placed(t) \in Int /\ Placed(t) <= Placed(t)'
    BY OrderTypes DEF Threads, Placed
  <1>2. OrderOf(m_Out', Batch', m_Queue', t, Placed(t))
    BY DEF OrderInvFor
  <1>3. pc'[t] = "sync" => Absent(Batch', t) /\ Absent(m_Queue', t)
    BY DEF OrderInvFor
  <1>4. QED
    BY <1>1, <1>2, <1>3, OrderNext

LEMMA BatchSame ==
    ASSUME UNCHANGED entries, wpc' = "write" <=> wpc = "write"
    PROVE  Batch' = Batch
  BY DEF Batch

LEMMA BatchNotified ==
    ASSUME UNCHANGED entries, NotifyWorker
    PROVE  Batch' = Batch
  BY DEF Batch, NotifyWorker

(***************************************************************************)
(* Drained: neither the batch nor the queue holds an entry.                *)
(***************************************************************************)
LEMMA DrainedIsEmpty ==
    ASSUME QueueInv, IsDrained, NEW t
    PROVE  Absent(Batch, t) /\ Absent(m_Queue, t)
  <1>1. /\ m_Queue \in Seq(Entry) /\ entries \in Seq(Entry)
        /\ m_LastQueuedSequence \in Nat /\ m_LastWrittenSequence \in Nat
    BY DEF QueueInv, TypeOK, QueueTypeOK, WorkerTypeOK
  <1>2. InFlight \in Nat /\ Len(m_Queue) \in Nat
    BY <1>1 DEF InFlight
  <1>3. InFlight = 0 /\ Len(m_Queue) = 0
    BY <1>1, <1>2 DEF QueueInv, SeqInv, IsDrained, IsWritten
  <1>4. Len(Batch) = 0
    BY <1>1, <1>3 DEF Batch, InFlight, HoldsBatch
  <1>5. QED
    BY <1>3, <1>4 DEF Absent

(***************************************************************************)
(* A line that is not an entry of t, at the end of the output.             *)
(***************************************************************************)
LEMMA OrderOutOther ==
    ASSUME TypeOK, TypeOK', NEW t \in App, OrderInvFor(t), NEW u \in Threads,
           NEW e \in Entry, ~IsOf(e, t), m_Out' = Append(m_Out, e),
           pc' = [pc EXCEPT ![u] = "deferred"], logged' = logged,
           UNCHANGED m_Queue, Batch' = Batch
    PROVE  OrderInvFor(t)'
  <1>1. t \in Threads /\ Placed(t) \in Int
        /\ m_Out \in Seq(Entry) /\ Batch \in Seq(Entry) /\ m_Queue \in Seq(Entry)
    BY OrderTypes DEF Threads
  <1>2. "deferred" \in Labels /\ "deferred" \notin Logging
    BY DEF Labels, Logging
  <1>3. Placed(t) <= Placed(t)' /\ (pc'[t] = "sync" => pc[t] = "sync")
    BY <1>2, PlacedMove
  <1>4. OrderOf(Append(m_Out, e), Batch, m_Queue, t, Placed(t))
    BY <1>1, AppendOther DEF OrderInvFor, OrderOf
  <1>5. pc'[t] = "sync" => Absent(Batch', t) /\ Absent(m_Queue', t)
    BY <1>3 DEF OrderInvFor
  <1>6. QED
    BY <1>1, <1>3, <1>4, <1>5, OrderNext

(***************************************************************************)
(* The steps of the calls.                                                 *)
(***************************************************************************)
LEMMA OrderBegin ==
    ASSUME QueueInv, TypeOK', NEW t \in App, OrderInvFor(t), NEW u \in Threads, BeginCall(u)
    PROVE  OrderInvFor(t)'
  <1>0. TypeOK
    BY DEF QueueInv
  <1>1. Batch' = Batch /\ UNCHANGED <<m_Out, m_Queue>>
    BY DEF BeginCall, Log, WaitForQueuedEntries, BeginUnqueued, turnVars, outVars, seqVars, Batch
  <1>2. ASSUME NEW op, Log(u, op)
        PROVE  OrderInvFor(t)'
    <2>1. /\ pc[u] = "idle"
          /\ logged' = [logged EXCEPT ![u] = @ + 1]
          /\ pc' = [pc EXCEPT ![u] = IF m_IsAsync THEN "format" ELSE "sync"]
      BY <1>2 DEF Log, Begin, MayCall, Goto
    <2>2. Placed(t)' = Placed(t) /\ Placed(t) \in Int
      BY <1>0, <2>1 DEF Placed, Logging, TypeOK, CallTypeOK, Threads
    <2>3. OrderOf(m_Out', Batch', m_Queue', t, Placed(t))
      BY <1>1 DEF OrderInvFor
    <2>4. pc'[t] = "sync" => pc[t] = "sync" \/ ~m_IsAsync
      BY <1>0, <2>1 DEF TypeOK, CallTypeOK, Threads
    <2>5. ~m_IsAsync => Absent(Batch, t) /\ Absent(m_Queue, t)
      BY DrainedIsEmpty DEF QueueInv, AsyncOffMeansDrained
    <2>6. pc'[t] = "sync" => Absent(Batch', t) /\ Absent(m_Queue', t)
      BY <1>1, <2>4, <2>5 DEF OrderInvFor
    <2>7. Placed(t) <= Placed(t)'
      BY <2>2
    <2>8. QED
      BY <2>2, <2>3, <2>6, <2>7, OrderNext
  <1>3. ASSUME NEW op, NEW config, WaitForQueuedEntries(u, op, config) \/ BeginUnqueued(u, op, config)
        PROVE  OrderInvFor(t)'
    <2>1. /\ logged' = logged
          /\ Goto(u, "barrier") \/ Goto(u, "locked")
      BY <1>3 DEF WaitForQueuedEntries, BeginUnqueued, WaitUntil
    <2>2. \E label \in {"barrier", "locked"} : pc' = [pc EXCEPT ![u] = label]
      BY <2>1 DEF Goto
    <2>3. \A label \in {"barrier", "locked"} : label \in Labels /\ label \notin Logging /\ label # "sync"
      BY DEF Labels, Logging
    <2>4. QED
      BY <1>0, <1>1, <2>1, <2>2, <2>3, OrderMove
  <1>4. QED
    BY <1>2, <1>3 DEF BeginCall

LEMMA OrderPush ==
    ASSUME TypeOK, TypeOK', NEW t \in App, OrderInvFor(t), NEW u \in Threads, QueuePush(u)
    PROVE  OrderInvFor(t)'
  <1> DEFINE entry == EntryOf(u, call[u].config, m_LastQueuedSequence + 1)
  <1>1. /\ t \in Threads /\ Placed(t) \in Int /\ logged[t] \in Nat
        /\ m_Out \in Seq(Entry) /\ Batch \in Seq(Entry) /\ m_Queue \in Seq(Entry)
    BY OrderTypes DEF Threads
  <1>2. entry \in Entry
    BY EntryType, CallFieldsType DEF TypeOK, QueueTypeOK
  <1>3. /\ entry.kind = "entry" /\ entry.thread = u /\ entry.n = logged[u]
    BY DEF EntryOf
  <1>4. /\ m_Queue' = Append(m_Queue, entry) /\ m_Out' = m_Out /\ logged' = logged
        /\ pc[u] = "queue"
        /\ UNCHANGED entries /\ NotifyWorker
        /\ Goto(u, "await") \/ Goto(u, "idle")
    BY DEF QueuePush, Return, outVars, turnVars
  <1>5. \E label \in {"await", "idle"} : pc' = [pc EXCEPT ![u] = label]
    BY <1>4 DEF Goto
  <1>6. Batch' = Batch
    BY <1>4, BatchNotified
  <1> HIDE DEF entry
  <1>7. CASE t = u
    <2>1. entry.n - 1 = Placed(t) /\ entry.n = Placed(t)' /\ pc'[t] # "sync"
      BY <1>1, <1>3, <1>4, <1>5, <1>7 DEF Placed, Logging, TypeOK, CallTypeOK
    <2>2. UpTo(m_Queue, t, entry.n - 1) /\ UpTo(Batch, t, entry.n - 1) /\ UpTo(m_Out, t, entry.n - 1)
      BY <2>1 DEF OrderInvFor, OrderOf
    <2>3. entry.n \in Int /\ entry.n - 1 \in Int /\ entry.n - 1 <= entry.n
      BY <1>1, <1>3, <1>7
    <2>4. UpTo(Batch, t, entry.n) /\ UpTo(m_Out, t, entry.n)
      BY <1>1, <2>2, <2>3, UpToLater
    <2>5. /\ Ordered(m_Queue', t) /\ UpTo(m_Queue', t, entry.n)
          /\ Precedes(m_Out, m_Queue', t) /\ Precedes(Batch, m_Queue', t)
      BY <1>1, <1>2, <1>4, <2>2, AppendOwn DEF OrderInvFor, OrderOf
    <2>6. OrderOf(m_Out', Batch', m_Queue', t, entry.n)
      BY <1>4, <1>6, <2>4, <2>5 DEF OrderInvFor, OrderOf
    <2>7. entry.n <= Placed(t)'
      BY <2>1, <2>3
    <2>8. QED
      BY <2>1, <2>3, <2>6, <2>7, OrderNext
  <1>8. CASE t # u
    <2>1. ~IsOf(entry, t)
      BY <1>3, <1>8 DEF IsOf
    <2>2. Placed(t)' = Placed(t) /\ pc'[t] = pc[t]
      BY <1>1, <1>4, <1>5, <1>8 DEF Placed, TypeOK, CallTypeOK
    <2>3. OrderOf(m_Out, Batch, Append(m_Queue, entry), t, Placed(t))
      BY <1>1, <1>2, <2>1, AppendOther DEF OrderInvFor, OrderOf
    <2>4. OrderOf(m_Out', Batch', m_Queue', t, Placed(t))
      BY <1>4, <1>6, <2>3
    <2>5. Absent(m_Queue, t) => Absent(m_Queue', t)
      BY <1>1, <1>2, <1>4, <2>1, AppendOther
    <2>6. pc'[t] = "sync" => Absent(Batch', t) /\ Absent(m_Queue', t)
      BY <1>6, <2>2, <2>5 DEF OrderInvFor
    <2>7. Placed(t) <= Placed(t)'
      BY <1>1, <2>2
    <2>8. QED
      BY <1>1, <2>4, <2>6, <2>7, OrderNext
  <1>9. QED
    BY <1>7, <1>8

LEMMA OrderWriteSync ==
    ASSUME TypeOK, TypeOK', NEW t \in App, OrderInvFor(t), NEW u \in Threads, WriteSync(u)
    PROVE  OrderInvFor(t)'
  <1> DEFINE entry == EntryOf(u, m_Config, 0)
  <1>1. /\ t \in Threads /\ Placed(t) \in Int /\ logged[t] \in Nat
        /\ m_Out \in Seq(Entry) /\ Batch \in Seq(Entry) /\ m_Queue \in Seq(Entry)
    BY OrderTypes DEF Threads
  <1>2. entry \in Entry
    BY EntryType DEF TypeOK, OutTypeOK
  <1>3. /\ entry.kind = "entry" /\ entry.thread = u /\ entry.n = logged[u]
    BY DEF EntryOf
  <1>4. /\ m_Out' = Append(m_Out, entry) \/ m_Out' = m_Out
        /\ UNCHANGED m_Queue /\ logged' = logged
        /\ pc[u] = "sync" /\ pc' = [pc EXCEPT ![u] = "deferred"]
        /\ UNCHANGED entries /\ UNCHANGED wpc
    BY DEF WriteSync, Goto, seqVars, turnVars
  <1>5. Batch' = Batch
    BY <1>4, BatchSame
  <1> HIDE DEF entry
  <1>6. CASE m_Out' = m_Out
    <2>1. "deferred" \in Labels /\ "deferred" \notin Logging
      BY DEF Labels, Logging
    <2>2. QED
      BY <1>4, <1>5, <1>6, <2>1, OrderMove
  <1>7. CASE m_Out' = Append(m_Out, entry) /\ t # u
    <2>1. ~IsOf(entry, t)
      BY <1>3, <1>7 DEF IsOf
    <2>2. QED
      BY <1>2, <1>4, <1>5, <1>7, <2>1, OrderOutOther
  <1>8. CASE m_Out' = Append(m_Out, entry) /\ t = u
    <2>1. entry.n - 1 = Placed(t) /\ entry.n = Placed(t)' /\ pc'[t] # "sync"
      BY <1>1, <1>3, <1>4, <1>8 DEF Placed, Logging, TypeOK, CallTypeOK
    <2>2. /\ UpTo(m_Out, t, entry.n - 1) /\ UpTo(Batch, t, entry.n - 1) /\ UpTo(m_Queue, t, entry.n - 1)
          /\ Absent(Batch, t) /\ Absent(m_Queue, t)
      BY <1>4, <1>8, <2>1 DEF OrderInvFor, OrderOf
    <2>3. entry.n \in Int /\ entry.n - 1 \in Int /\ entry.n - 1 <= entry.n
      BY <1>1, <1>3, <1>8
    <2>4. UpTo(Batch, t, entry.n) /\ UpTo(m_Queue, t, entry.n)
      BY <1>1, <2>2, <2>3, UpToLater
    <2>5. /\ Ordered(m_Out', t) /\ UpTo(m_Out', t, entry.n)
          /\ Precedes(m_Out', Batch, t) /\ Precedes(m_Out', m_Queue, t)
      BY <1>1, <1>2, <1>8, <2>2, AppendOwn DEF OrderInvFor, OrderOf
    <2>6. OrderOf(m_Out', Batch', m_Queue', t, entry.n)
      BY <1>4, <1>5, <2>4, <2>5 DEF OrderInvFor, OrderOf
    <2>7. entry.n <= Placed(t)'
      BY <2>1, <2>3
    <2>8. QED
      BY <2>1, <2>3, <2>6, <2>7, OrderNext
  <1>9. QED
    BY <1>4, <1>6, <1>7, <1>8
\* Finalize() and Initialize() may write a line of the logger's own.
LEMMA OrderOwnLine ==
    ASSUME TypeOK, TypeOK', NEW t \in App, OrderInvFor(t), NEW u \in Threads,
           Finalize(u) \/ Initialize(u)
    PROVE  OrderInvFor(t)'
  <1>1. /\ UNCHANGED m_Queue /\ logged' = logged
        /\ pc' = [pc EXCEPT ![u] = "deferred"]
        /\ UNCHANGED entries /\ UNCHANGED wpc
    BY DEF Finalize, Initialize, AtLock, Goto, lockedUnchanged, seqVars, turnVars
  <1>2. Batch' = Batch
    BY <1>1, BatchSame
  <1>3. call[u].config \in Configs /\ m_Config \in Configs
    BY CallFieldsType DEF TypeOK, OutTypeOK
  <1>4. \/ m_Out' = m_Out
        \/ \E k \in {"startup", "shutdown"}, c \in Configs : m_Out' = Append(m_Out, OwnLine(k, u, c))
    BY <1>3 DEF Finalize, Initialize, outVars
  <1>5. CASE m_Out' = m_Out
    <2>1. "deferred" \in Labels /\ "deferred" \notin Logging
      BY DEF Labels, Logging
    <2>2. QED
      BY <1>1, <1>2, <1>5, <2>1, OrderMove
  <1>6. ASSUME NEW k \in {"startup", "shutdown"}, NEW c \in Configs,
               m_Out' = Append(m_Out, OwnLine(k, u, c))
        PROVE  OrderInvFor(t)'
    <2>1. OwnLine(k, u, c) \in Entry
      BY EntryType
    <2>2. ~IsOf(OwnLine(k, u, c), t)
      BY DEF IsOf, OwnLine
    <2>3. QED
      BY <1>1, <1>2, <1>6, <2>1, <2>2, OrderOutOther
  <1>7. QED
    BY <1>4, <1>5, <1>6

LEMMA OrderCall ==
    ASSUME QueueInv, MutexInv, TypeOK', NEW t \in App, OrderInvFor(t),
           NEW u \in Threads, CallStep(u)
    PROVE  OrderInvFor(t)'
  <1>0. TypeOK
    BY DEF QueueInv
  <1>1. CASE QueuePush(u)
    BY <1>0, <1>1, OrderPush
  <1>2. CASE WriteSync(u)
    BY <1>0, <1>2, OrderWriteSync
  <1>3. CASE Finalize(u) \/ Initialize(u)
    BY <1>0, <1>3, OrderOwnLine
  <1>4. CASE QueueRefuse(u) \/ Drain(u)
    <2>1. /\ UNCHANGED <<m_Out, m_Queue, entries, wpc>> /\ logged' = logged
          /\ pc[u] \in Logging
          /\ Goto(u, "drain") \/ (Goto(u, "sync") /\ (u = W \/ IsDrained))
      BY <1>4 DEF QueueRefuse, Drain, WaitUntil, Logging, outVars, seqVars, turnVars
    <2>2. t # W
      BY ThreadsAssumption
    <2>3. \E label \in {"drain", "sync"} :
              /\ pc' = [pc EXCEPT ![u] = label]
              /\ t = u /\ label = "sync" => IsDrained
      BY <2>1, <2>2 DEF Goto
    <2>4. IsDrained => Absent(Batch, t) /\ Absent(m_Queue, t)
      BY DrainedIsEmpty
    <2>5. Batch' = Batch
      BY <2>1, BatchSame
    <2>6. \A label \in {"drain", "sync"} : label \in Labels
      BY DEF Labels
    <2>7. QED
      BY <1>0, <2>1, <2>3, <2>4, <2>5, <2>6, OrderMove
  <1>5. CASE FormatEntry(u)
    <2>1. /\ UNCHANGED <<m_Out, m_Queue, entries, wpc>> /\ logged' = logged
          /\ pc[u] \in Logging /\ pc' = [pc EXCEPT ![u] = "queue"]
      BY <1>5 DEF FormatEntry, Goto, Logging, outVars, seqVars, turnVars
    <2>2. "queue" \in Labels
      BY DEF Labels
    <2>3. Batch' = Batch
      BY <2>1, BatchSame
    <2>4. QED
      BY <1>0, <2>1, <2>2, <2>3, OrderMove
  <1>6. CASE \/ Barrier(u) \/ QueueDrop(u) \/ QueueWait(u) \/ Await(u)
             \/ Flush(u) \/ Close(u) \/ Open(u) \/ Reconfigure(u) \/ RunDeferredWork(u)
             \/ KeepWorker(u) \/ StopWorker(u) \/ NoWorker(u) \/ WantWorker(u)
             \/ JoinWorker(u) \/ StartWorker(u) \/ ActivateAsync(u)
    <2> DEFINE targets == {"idle", "barrier", "locked", "deferred", "update", "decide", "join",
                           "start", "activate"}
    <2>1. UNCHANGED m_Out /\ UNCHANGED m_Queue /\ UNCHANGED entries /\ logged' = logged
      <3>1. CASE Barrier(u) \/ QueueDrop(u) \/ QueueWait(u) \/ Await(u)
        BY <3>1 DEF Barrier, QueueDrop, QueueWait, Await, outVars, seqVars, turnVars
      <3>2. CASE Flush(u) \/ Close(u) \/ Open(u) \/ Reconfigure(u) \/ RunDeferredWork(u)
        BY <3>2 DEF Flush, Close, Open, Reconfigure, RunDeferredWork, lockedUnchanged, seqVars, turnVars
      <3>3. CASE KeepWorker(u) \/ StopWorker(u) \/ NoWorker(u) \/ WantWorker(u)
        BY <3>3 DEF KeepWorker, StopWorker, NoWorker, WantWorker, updateUnchanged, outVars, seqVars, turnVars
      <3>4. CASE JoinWorker(u) \/ StartWorker(u) \/ ActivateAsync(u)
        BY <3>4 DEF JoinWorker, StartWorker, ActivateAsync, updateUnchanged, outVars, seqVars, turnVars
      <3>5. QED
        BY <1>6, <3>1, <3>2, <3>3, <3>4
    <2>2. UNCHANGED pc \/ \E label \in targets : pc' = [pc EXCEPT ![u] = label]
      <3>1. CASE Barrier(u) \/ QueueDrop(u) \/ QueueWait(u) \/ Await(u)
        BY <3>1 DEF Barrier, QueueDrop, QueueWait, Await, WaitUntil, Return, Goto
      <3>2. CASE Flush(u) \/ Close(u) \/ Open(u) \/ Reconfigure(u) \/ RunDeferredWork(u)
        BY <3>2 DEF Flush, Close, Open, Reconfigure, RunDeferredWork, AtLock, Return, Goto
      <3>3. CASE KeepWorker(u) \/ StopWorker(u) \/ NoWorker(u) \/ WantWorker(u)
        BY <3>3 DEF KeepWorker, StopWorker, NoWorker, WantWorker, Return, Goto
      <3>4. CASE JoinWorker(u) \/ StartWorker(u) \/ ActivateAsync(u)
        BY <3>4 DEF JoinWorker, StartWorker, ActivateAsync, Return, Goto
      <3>5. QED
        BY <1>6, <3>1, <3>2, <3>3, <3>4
    <2>3. wpc' = "write" <=> wpc = "write"
      <3>1. CASE Barrier(u) \/ QueueDrop(u) \/ QueueWait(u) \/ Await(u)
        BY <3>1 DEF Barrier, QueueDrop, QueueWait, Await
      <3>2. CASE Flush(u) \/ Close(u) \/ Open(u) \/ Reconfigure(u) \/ RunDeferredWork(u)
        BY <3>2 DEF Flush, Close, Open, Reconfigure, RunDeferredWork, lockedUnchanged
      <3>3. CASE KeepWorker(u) \/ StopWorker(u) \/ NoWorker(u) \/ WantWorker(u)
        BY <3>3 DEF KeepWorker, StopWorker, NoWorker, WantWorker, NotifyWorker
      <3>4. CASE JoinWorker(u) \/ StartWorker(u) \/ ActivateAsync(u)
        BY <3>4 DEF JoinWorker, StartWorker, ActivateAsync, MutexInv
      <3>5. QED
        BY <1>6, <3>1, <3>2, <3>3, <3>4
    <2>4. Batch' = Batch
      BY <2>1, <2>3, BatchSame
    <2>5. \A label \in targets : label \in Labels /\ label \notin Logging /\ label # "sync"
      BY DEF Labels, Logging
    <2> HIDE DEF targets
    <2>6. QED
      BY <1>0, <2>1, <2>2, <2>4, <2>5, OrderMove, OrderSame
  <1>7. QED
    BY <1>1, <1>2, <1>3, <1>4, <1>5, <1>6 DEF CallStep

(***************************************************************************)
(* The steps of the worker: the queue becomes the batch, and the batch     *)
(* goes to the end of the output.                                          *)
(***************************************************************************)
LEMMA OrderTake ==
    ASSUME TypeOK, TypeOK', NEW t \in App, OrderInvFor(t), WorkerTake
    PROVE  OrderInvFor(t)'
  <1>1. /\ t \in Threads /\ Placed(t) \in Int
        /\ m_Out \in Seq(Entry) /\ Batch \in Seq(Entry) /\ m_Queue \in Seq(Entry)
    BY OrderTypes DEF Threads
  <1>2. /\ m_Out' = m_Out /\ m_Queue' = <<>> /\ UNCHANGED <<pc, logged>>
        /\ entries' = m_Queue
        /\ wpc' = "write" \/ (wpc' = "wake" /\ m_Queue = <<>>)
    BY DEF WorkerTake, outVars
  <1>3. Batch' = m_Queue
    BY <1>2 DEF Batch
  <1>4. Placed(t)' = Placed(t) /\ pc'[t] = pc[t] /\ Placed(t) <= Placed(t)'
    BY <1>1, <1>2 DEF Placed
  <1>5. /\ Ordered(<<>>, t) /\ UpTo(<<>>, t, Placed(t)) /\ Absent(<<>>, t)
        /\ \A s \in Seq(Entry) : Precedes(s, <<>>, t)
    BY DEF Ordered, UpTo, Absent, Precedes
  <1>6. OrderOf(m_Out', Batch', m_Queue', t, Placed(t))
    BY <1>1, <1>2, <1>3, <1>5 DEF OrderInvFor, OrderOf
  <1>7. pc'[t] = "sync" => Absent(Batch', t) /\ Absent(m_Queue', t)
    BY <1>2, <1>3, <1>4, <1>5 DEF OrderInvFor
  <1>8. QED
    BY <1>1, <1>4, <1>6, <1>7, OrderNext

LEMMA OrderWrite ==
    ASSUME TypeOK, TypeOK', NEW t \in App, OrderInvFor(t), WriteQueuedEntries
    PROVE  OrderInvFor(t)'
  <1>1. /\ t \in Threads /\ Placed(t) \in Int
        /\ m_Out \in Seq(Entry) /\ m_Queue \in Seq(Entry) /\ entries \in Seq(Entry)
    BY OrderTypes DEF Threads, TypeOK, WorkerTypeOK
  <1>2. /\ m_Queue' = m_Queue /\ UNCHANGED <<pc, logged>>
        /\ wpc = "write" /\ wpc' = "deferred"
    BY DEF WriteQueuedEntries, seqVars, callVars
  <1>3. Batch = entries /\ Batch' = <<>>
    BY <1>2 DEF Batch
  <1>4. Placed(t)' = Placed(t) /\ pc'[t] = pc[t] /\ Placed(t) <= Placed(t)'
    BY <1>1, <1>2 DEF Placed
  <1>5. PICK k \in WrittenCounts, marksDrops \in BOOLEAN : m_Out' = m_Out \o BatchLines(k, marksDrops)
    BY DEF WriteQueuedEntries
  <1>6. k \in 0..Len(entries)
    BY <1>1 DEF WrittenCounts
  <1> DEFINE v == BatchLines(k, marksDrops)
  <1>7. /\ v \in Seq(Entry) /\ Len(v) \in {k, k + 1}
        /\ \A i \in 1..k : v[i] = entries[i]
        /\ Len(v) = k + 1 => v[k + 1] = OwnLine("drops", W, m_Config)
    BY <1>6, BatchLinesType
  <1> HIDE DEF v
  <1>8. \A i \in 1..Len(v) : IsOf(v[i], t) => i \in 1..Len(entries) /\ v[i] = entries[i]
    <2>1. ASSUME NEW i \in 1..Len(v), IsOf(v[i], t)
          PROVE  i \in 1..Len(entries) /\ v[i] = entries[i]
      <3>1. ~IsOf(OwnLine("drops", W, m_Config), t)
        BY DEF IsOf, OwnLine
      <3>2. i # k + 1 \/ Len(v) # k + 1
        BY <1>7, <2>1, <3>1
      <3>3. i \in 1..k
        BY <1>6, <1>7, <3>2
      <3>4. QED
        BY <1>1, <1>6, <1>7, <3>3
    <2>2. QED
      BY <2>1
  <1>9. /\ Ordered(m_Out, t) /\ Ordered(entries, t) /\ Ordered(m_Queue, t)
        /\ Precedes(m_Out, entries, t) /\ Precedes(m_Out, m_Queue, t) /\ Precedes(entries, m_Queue, t)
        /\ UpTo(m_Out, t, Placed(t)) /\ UpTo(entries, t, Placed(t)) /\ UpTo(m_Queue, t, Placed(t))
    BY <1>3 DEF OrderInvFor, OrderOf
  <1>10. Ordered(v, t) /\ UpTo(v, t, Placed(t)) /\ Precedes(m_Out, v, t) /\ Precedes(v, m_Queue, t)
    BY <1>1, <1>7, <1>8, <1>9, PartOrder
  <1>11. Ordered(m_Out \o v, t) /\ Precedes(m_Out \o v, m_Queue, t) /\ UpTo(m_Out \o v, t, Placed(t))
    BY <1>1, <1>7, <1>9, <1>10, ConcatOrder
  <1>12. /\ Ordered(<<>>, t) /\ UpTo(<<>>, t, Placed(t)) /\ Absent(<<>>, t)
         /\ Precedes(m_Out \o v, <<>>, t) /\ Precedes(<<>>, m_Queue, t)
    BY DEF Ordered, UpTo, Absent, Precedes
  <1>13. m_Out' = m_Out \o v
    BY <1>5 DEF v
  <1>14. OrderOf(m_Out', Batch', m_Queue', t, Placed(t))
    BY <1>2, <1>3, <1>9, <1>11, <1>12, <1>13 DEF OrderOf
  <1>15. pc'[t] = "sync" => Absent(Batch', t) /\ Absent(m_Queue', t)
    BY <1>2, <1>3, <1>4, <1>12 DEF OrderInvFor
  <1>16. QED
    BY <1>1, <1>4, <1>14, <1>15, OrderNext

LEMMA OrderWorker ==
    ASSUME TypeOK, TypeOK', NEW t \in App, OrderInvFor(t), WorkerStep
    PROVE  OrderInvFor(t)'
  <1>1. CASE WorkerTake
    BY <1>1, OrderTake
  <1>2. CASE WriteQueuedEntries
    BY <1>2, OrderWrite
  <1>3. CASE UpdateWorkerFromWorker
    <2>1. /\ UNCHANGED m_Out /\ UNCHANGED m_Queue /\ UNCHANGED entries /\ logged' = logged
          /\ NotifyWorker /\ pc' = [pc EXCEPT ![W] = "idle"]
      BY <1>3 DEF UpdateWorkerFromWorker, updateUnchanged, outVars, seqVars, turnVars, Return, Goto
    <2>2. Batch' = Batch
      BY <2>1, BatchNotified
    <2>3. W \in Threads /\ "idle" \in Labels /\ "idle" \notin Logging
      BY DEF Threads, Labels, Logging
    <2>4. QED
      BY <2>1, <2>2, <2>3, OrderMove
  <1>4. CASE WorkerSleep \/ WorkerTimeout \/ WorkerDeferred \/ HandlerReturned \/ MarkWritten
             \/ WorkerWake \/ WorkerTurned
    <2>1. UNCHANGED m_Out /\ UNCHANGED m_Queue /\ UNCHANGED <<pc, logged>>
      BY <1>4 DEF WorkerSleep, WorkerTimeout, WorkerDeferred, HandlerReturned, MarkWritten,
                  WorkerWake, WorkerTurned, outVars, seqVars, callVars
    <2>2. wpc # "write" /\ wpc' # "write"
      BY <1>4 DEF WorkerSleep, WorkerTimeout, WorkerDeferred, HandlerReturned, MarkWritten,
                  WorkerWake, WorkerTurned
    <2>3. Batch' = Batch
      BY <2>2 DEF Batch
    <2>4. QED
      BY <2>1, <2>3, OrderSame
  <1>5. QED
    BY <1>1, <1>2, <1>3, <1>4 DEF WorkerStep

LEMMA OrderInit == Init => OrderInv
  <1> SUFFICES ASSUME Init, NEW t \in App
               PROVE  OrderInvFor(t)
    BY DEF OrderInv
  <1>1. m_Out = <<>> /\ m_Queue = <<>> /\ Batch = <<>>
    BY DEF Init, Batch
  <1>2. pc[t] = "idle"
    BY DEF Init, Threads
  <1>3. QED
    BY <1>1, <1>2 DEF OrderInvFor, OrderOf, Ordered, Precedes, UpTo

LEMMA OrderStep ==
    ASSUME QueueInv, MutexInv, OrderInv, TypeOK', [Next]_vars
    PROVE  OrderInv'
  <1> SUFFICES ASSUME NEW t \in App
               PROVE  OrderInvFor(t)'
    BY DEF OrderInv
  <1>1. TypeOK /\ OrderInvFor(t)
    BY DEF QueueInv, OrderInv
  <1>2. ASSUME NEW u \in Threads, BeginCall(u)
        PROVE  OrderInvFor(t)'
    BY <1>1, <1>2, OrderBegin
  <1>3. ASSUME NEW u \in Threads, CallStep(u)
        PROVE  OrderInvFor(t)'
    BY <1>1, <1>3, OrderCall
  <1>4. CASE WorkerStep
    BY <1>1, <1>4, OrderWorker
  <1>5. CASE UNCHANGED vars
    <2>1. UNCHANGED m_Out /\ UNCHANGED m_Queue /\ UNCHANGED <<pc, logged>> /\ Batch' = Batch
      BY <1>5 DEF vars, outVars, seqVars, turnVars, callVars, Batch
    <2>2. QED
      BY <1>1, <2>1, OrderSame
  <1>6. QED
    BY <1>2, <1>3, <1>4, <1>5 DEF Next, Returned

(***************************************************************************)
(* The entries of one application thread are in the output in the order    *)
(* it logged them, however often async is switched on and off, and         *)
(* whatever fails, for any number of threads and calls.                    *)
(***************************************************************************)
THEOREM EachThreadInOrder == Spec => []OneThreadInOrder
  <1>1. Init => MutexInv /\ QueueInv /\ OrderInv
    BY TypeInit, MutexInit, QueueInit, OrderInit DEF QueueInv
  <1>2. MutexInv /\ QueueInv /\ OrderInv /\ [Next]_vars => (MutexInv /\ QueueInv /\ OrderInv)'
    BY TypeStep, MutexStep, QueueStep, OrderStep DEF QueueInv
  <1>3. QueueInv /\ OrderInv => OneThreadInOrder
    <2> SUFFICES ASSUME QueueInv, OrderInv, NEW i \in DOMAIN m_Out, NEW j \in DOMAIN m_Out, i < j,
                        m_Out[i].kind = "entry", m_Out[j].kind = "entry",
                        m_Out[i].thread = m_Out[j].thread, m_Out[i].thread \in App
                 PROVE  m_Out[i].n < m_Out[j].n
      BY DEF OneThreadInOrder, InOrder
    <2>1. m_Out \in Seq(Entry)
      BY DEF QueueInv, TypeOK, OutTypeOK
    <2>2. i \in 1..Len(m_Out) /\ j \in 1..Len(m_Out)
      BY <2>1
    <2>3. Ordered(m_Out, m_Out[i].thread)
      BY DEF OrderInv, OrderInvFor, OrderOf
    <2>4. QED
      BY <2>2, <2>3 DEF Ordered, IsOf
  <1>4. QED
    BY <1>1, <1>2, <1>3, PTL DEF Spec

----------------------------------------------------------------------------
(* Dropped entries *)

(***************************************************************************)
(* Each dropped entry is one its thread is done with, so that the next one *)
(* is another; and the worker holds a count only while it writes a batch.  *)
(***************************************************************************)
DropsPlaced == \A d \in dropped : d[2] <= Placed(d[1])

DropInv ==
    /\ IsFiniteSet(dropped) /\ DropsPlaced /\ DropsAreCounted
    /\ wpc # "write" => droppedCount = 0

(***************************************************************************)
(* What a thread has placed only grows.                                    *)
(***************************************************************************)
Moves(u) ==
    UNCHANGED pc \/ \E label \in Labels :
        /\ pc' = [pc EXCEPT ![u] = label]
        /\ label \in Logging => pc[u] \in Logging

LEMMA PlacedGrowsMoving ==
    ASSUME TypeOK, NEW t \in Threads, NEW u \in Threads, logged' = logged, Moves(u)
    PROVE  Placed(t) <= Placed(t)'
  <1>1. logged[t] \in Nat /\ pc \in [Threads -> Labels]
    BY DEF TypeOK, CallTypeOK
  <1>2. CASE UNCHANGED pc
    BY <1>1, <1>2 DEF Placed
  <1>3. ASSUME NEW label \in Labels, pc' = [pc EXCEPT ![u] = label],
               label \in Logging => pc[u] \in Logging
        PROVE  Placed(t) <= Placed(t)'
    BY <1>1, <1>3 DEF Placed
  <1>4. QED
    BY <1>2, <1>3 DEF Moves

LEMMA BeginPlaces ==
    ASSUME TypeOK, NEW t \in Threads, NEW u \in Threads, BeginCall(u)
    PROVE  Placed(t) <= Placed(t)'
  <1>1. ASSUME NEW op, Log(u, op)
        PROVE  Placed(t) <= Placed(t)'
    <2>1. /\ pc[u] = "idle"
          /\ logged' = [logged EXCEPT ![u] = @ + 1]
          /\ pc' = [pc EXCEPT ![u] = IF m_IsAsync THEN "format" ELSE "sync"]
      BY <1>1 DEF Log, Begin, MayCall, Goto
    <2>2. QED
      BY <2>1 DEF Placed, Logging, TypeOK, CallTypeOK
  <1>2. ASSUME NEW op, NEW config, WaitForQueuedEntries(u, op, config) \/ BeginUnqueued(u, op, config)
        PROVE  Placed(t) <= Placed(t)'
    <2>1. logged' = logged /\ (Goto(u, "barrier") \/ Goto(u, "locked"))
      BY <1>2 DEF WaitForQueuedEntries, BeginUnqueued, WaitUntil
    <2>2. Moves(u)
      BY <2>1 DEF Moves, Goto, Labels, Logging
    <2>3. QED
      BY <2>1, <2>2, PlacedGrowsMoving
  <1>3. QED
    BY <1>1, <1>2 DEF BeginCall

LEMMA CallPlaces ==
    ASSUME TypeOK, NEW t \in Threads, NEW u \in Threads, CallStep(u)
    PROVE  Placed(t) <= Placed(t)'
  <1> SUFFICES logged' = logged /\ Moves(u)
    BY PlacedGrowsMoving
  <1>1. CASE Barrier(u) \/ QueueDrop(u) \/ QueueWait(u) \/ Await(u)
    <2>1. logged' = logged /\ (UNCHANGED pc \/ Goto(u, "idle") \/ Goto(u, "barrier") \/ Goto(u, "locked"))
      BY <1>1 DEF Barrier, QueueDrop, QueueWait, Await, WaitUntil, Return
    <2>2. QED
      BY <2>1 DEF Moves, Goto, Labels, Logging
  <1>2. CASE FormatEntry(u) \/ QueueRefuse(u) \/ Drain(u)
    <2>1. /\ logged' = logged /\ pc[u] \in Logging
          /\ Goto(u, "queue") \/ Goto(u, "drain") \/ Goto(u, "sync")
      BY <1>2 DEF FormatEntry, QueueRefuse, Drain, WaitUntil, Logging
    <2>2. QED
      BY <2>1 DEF Moves, Goto, Labels
  <1>3. CASE QueuePush(u) \/ WriteSync(u)
    <2>1. logged' = logged /\ (Goto(u, "await") \/ Goto(u, "idle") \/ Goto(u, "deferred"))
      BY <1>3 DEF QueuePush, WriteSync, Return
    <2>2. QED
      BY <2>1 DEF Moves, Goto, Labels, Logging
  <1>4. CASE Flush(u) \/ Close(u) \/ Finalize(u) \/ Open(u) \/ Initialize(u) \/ Reconfigure(u)
    <2>1. logged' = logged /\ Goto(u, "deferred")
      BY <1>4 DEF Flush, Close, Finalize, Open, Initialize, Reconfigure, AtLock, lockedUnchanged
    <2>2. QED
      BY <2>1 DEF Moves, Goto, Labels, Logging
  <1>5. CASE RunDeferredWork(u) \/ KeepWorker(u) \/ StopWorker(u) \/ NoWorker(u) \/ WantWorker(u)
             \/ JoinWorker(u) \/ StartWorker(u) \/ ActivateAsync(u)
    <2>1. /\ logged' = logged
          /\ \E label \in {"idle", "update", "decide", "join", "start", "activate"} : Goto(u, label)
      BY <1>5 DEF RunDeferredWork, KeepWorker, StopWorker, NoWorker, WantWorker, JoinWorker,
                  StartWorker, ActivateAsync, updateUnchanged, Return
    <2>2. QED
      BY <2>1 DEF Moves, Goto, Labels, Logging
  <1>6. QED
    BY <1>1, <1>2, <1>3, <1>4, <1>5 DEF CallStep

LEMMA PlacedGrows ==
    ASSUME TypeOK, NEW t \in Threads, [Next]_vars
    PROVE  Placed(t) <= Placed(t)'
  <1>1. CASE WorkerStep
    <2>1. W \in Threads
      BY DEF Threads
    <2>2. logged' = logged /\ (UNCHANGED pc \/ Goto(W, "idle"))
      BY <1>1 DEF WorkerStep, WorkerTake, WorkerSleep, WorkerTimeout, WriteQueuedEntries, WorkerDeferred,
                  HandlerReturned, MarkWritten, WorkerWake, WorkerTurned, UpdateWorkerFromWorker,
                  updateUnchanged, callVars, Return
    <2>3. Moves(W)
      BY <2>2 DEF Moves, Goto, Labels, Logging
    <2>4. QED
      BY <2>1, <2>2, <2>3, PlacedGrowsMoving
  <1>2. CASE UNCHANGED vars
    <2>1. logged' = logged /\ Moves(t)
      BY <1>2 DEF vars, callVars, Moves
    <2>2. QED
      BY <2>1, PlacedGrowsMoving
  <1>3. QED
    BY <1>1, <1>2, BeginPlaces, CallPlaces DEF Next, Returned

LEMMA DropsPlacedSame ==
    ASSUME TypeOK, TypeOK', DropsPlaced, [Next]_vars, dropped' = dropped
    PROVE  DropsPlaced'
  <1> SUFFICES ASSUME NEW d \in dropped
               PROVE  d[2] <= Placed(d[1])'
    BY DEF DropsPlaced
  <1>1. d[1] \in Threads /\ d[2] \in Nat
    BY DEF TypeOK, HistoryTypeOK
  <1>2. Placed(d[1]) \in Int /\ Placed(d[1])' \in Int
    BY <1>1 DEF TypeOK, CallTypeOK, Placed
  <1>3. Placed(d[1]) <= Placed(d[1])'
    BY <1>1, PlacedGrows
  <1>4. QED
    BY <1>1, <1>2, <1>3 DEF DropsPlaced

(***************************************************************************)
(* The steps that drop nothing move a count on at most.                    *)
(***************************************************************************)
Counts == m_DroppedCount + droppedCount + deferredDrops + reported

LEMMA DropFrame ==
    ASSUME TypeOK, TypeOK', DropInv, [Next]_vars, dropped' = dropped, Counts' = Counts,
           wpc' # "write" => droppedCount' = 0
    PROVE  DropInv'
  BY DropsPlacedSame DEF DropInv, DropsAreCounted, Counts

LEMMA SameCounts ==
    ASSUME TypeOK, UNCHANGED <<m_DroppedCount, droppedCount, deferredDrops, reported>>
    PROVE  Counts' = Counts
  BY DEF Counts

(***************************************************************************)
(* Taking the deferred work turns its count into the reported one.         *)
(***************************************************************************)
LEMMA TakenCounts ==
    ASSUME TypeOK, TakeDeferredWork, UNCHANGED <<m_DroppedCount, droppedCount>>
    PROVE  Counts' = Counts
  BY DEF TypeOK, OutTypeOK, QueueTypeOK, WorkerTypeOK, HistoryTypeOK, TakeDeferredWork, Counts

LEMMA DropStep ==
    ASSUME TypeOK, TypeOK', DropInv, NEW t \in Threads, QueueDrop(t)
    PROVE  DropInv'
  <1>1. /\ logged[t] \in Nat /\ pc[t] = "queue" /\ dropped \subseteq (Threads \X Nat)
        /\ logged' = logged /\ pc' = [pc EXCEPT ![t] = "idle"] /\ pc \in [Threads -> Labels]
        /\ dropped' = dropped \cup {<<t, logged[t]>>}
        /\ m_DroppedCount' = m_DroppedCount + 1
        /\ UNCHANGED <<droppedCount, deferredDrops, reported, wpc>>
    BY DEF QueueDrop, Return, Goto, TypeOK, CallTypeOK, HistoryTypeOK, outVars, turnVars
  <1>2. Placed(t) = logged[t] - 1
    BY <1>1 DEF Placed, Logging
  <1>3. <<t, logged[t]>> \notin dropped
    BY <1>1, <1>2 DEF DropInv, DropsPlaced
  <1>4. IsFiniteSet(dropped') /\ Cardinality(dropped') = Cardinality(dropped) + 1
    BY <1>1, <1>3, FS_AddElement DEF DropInv
  <1>5. DropsPlaced'
    <2> SUFFICES ASSUME NEW d \in dropped'
                 PROVE  d[2] <= Placed(d[1])'
      BY DEF DropsPlaced
    <2>1. CASE d = <<t, logged[t]>>
      BY <2>1, <1>1 DEF Placed, Logging
    <2>2. ASSUME d \in dropped
          PROVE  d[2] <= Placed(d[1])'
      <3>1. d[1] \in Threads /\ d[2] \in Nat /\ logged[d[1]] \in Nat
        BY <2>2, <1>1 DEF TypeOK, CallTypeOK
      <3>2. d[2] <= Placed(d[1])
        BY <2>2 DEF DropInv, DropsPlaced
      <3>3. QED
        BY <3>1, <3>2, <1>1 DEF Placed, Logging
    <2>3. QED
      BY <2>1, <2>2, <1>1
  <1>6. DropsAreCounted'
    BY <1>1, <1>4 DEF DropInv, DropsAreCounted, TypeOK, OutTypeOK, QueueTypeOK, WorkerTypeOK, HistoryTypeOK
  <1>7. QED
    BY <1>1, <1>4, <1>5, <1>6 DEF DropInv

LEMMA CallDrops ==
    ASSUME TypeOK, TypeOK', MutexInv, DropInv, NEW t \in Threads, CallStep(t), [Next]_vars
    PROVE  DropInv'
  <1>1. CASE QueueDrop(t)
    BY <1>1, DropStep
  <1>2. CASE RunDeferredWork(t)
    <2>1. /\ TakeDeferredWork
          /\ UNCHANGED <<m_DroppedCount, droppedCount, wpc, dropped>>
      BY <1>2 DEF RunDeferredWork, seqVars, turnVars
    <2>2. QED
      BY <2>1, TakenCounts, DropFrame DEF DropInv
  <1>3. ASSUME ~QueueDrop(t), ~RunDeferredWork(t)
        PROVE  /\ UNCHANGED <<m_DroppedCount, droppedCount, deferredDrops, reported, dropped>>
               /\ wpc' = "write" <=> wpc = "write"
    <2>1. CASE \/ Barrier(t) \/ FormatEntry(t) \/ QueueWait(t) \/ QueueRefuse(t) \/ Drain(t)
              \/ Await(t) \/ WriteSync(t)
      BY <2>1 DEF Barrier, FormatEntry, QueueWait, QueueRefuse, Drain, Await, WriteSync,
                  outVars, seqVars, turnVars, historyVars
    <2>2. CASE QueuePush(t)
      BY <2>2 DEF QueuePush, NotifyWorker, outVars, turnVars, historyVars
    <2>3. CASE Flush(t) \/ Close(t) \/ Finalize(t) \/ Open(t) \/ Initialize(t) \/ Reconfigure(t)
      BY <2>3 DEF Flush, Close, Finalize, Open, Initialize, Reconfigure, lockedUnchanged,
                  outVars, seqVars, turnVars
    <2>4. CASE KeepWorker(t) \/ StopWorker(t) \/ NoWorker(t) \/ WantWorker(t) \/ JoinWorker(t) \/ ActivateAsync(t)
      BY <2>4 DEF KeepWorker, StopWorker, NoWorker, WantWorker, JoinWorker, ActivateAsync, NotifyWorker,
                  updateUnchanged, outVars, seqVars, turnVars, historyVars
    <2>5. CASE StartWorker(t)
      BY <2>5 DEF StartWorker, MutexInv, updateUnchanged, outVars, seqVars, turnVars, historyVars
    <2>6. QED
      BY <1>3, <2>1, <2>2, <2>3, <2>4, <2>5 DEF CallStep
  <1>4. QED
    BY <1>1, <1>2, <1>3, SameCounts, DropFrame DEF DropInv

LEMMA BeginDrops ==
    ASSUME TypeOK, TypeOK', DropInv, NEW t \in Threads, BeginCall(t), [Next]_vars
    PROVE  DropInv'
  <1>1. UNCHANGED <<m_DroppedCount, droppedCount, deferredDrops, reported, dropped, wpc>>
    BY DEF BeginCall, Log, WaitForQueuedEntries, BeginUnqueued, outVars, seqVars, turnVars, historyVars
  <1>2. QED
    BY <1>1, SameCounts, DropFrame DEF DropInv

(***************************************************************************)
(* Without an exception the worker reports every count it has taken.       *)
(***************************************************************************)
LEMMA WriteDrops ==
    ASSUME TypeOK, DropInv, WriteQueuedEntries, "throw" \notin Failures
    PROVE  Counts' = Counts /\ dropped' = dropped /\ droppedCount' = 0
  <1>1. /\ UNCHANGED <<m_DroppedCount, reported, dropped>> /\ droppedCount' = 0
        /\ deferredDrops' = deferredDrops + IF droppedCount > 0 THEN droppedCount ELSE 0
    BY DEF WriteQueuedEntries, seqVars
  <1>2. QED
    BY <1>1 DEF Counts, TypeOK, OutTypeOK, QueueTypeOK, WorkerTypeOK, HistoryTypeOK

LEMMA WorkerDrops ==
    ASSUME TypeOK, TypeOK', DropInv, WorkerStep, [Next]_vars, "throw" \notin Failures
    PROVE  DropInv'
  <1>1. CASE WorkerTake
    <2>1. /\ droppedCount = 0 /\ droppedCount' = m_DroppedCount /\ m_DroppedCount' = 0
          /\ UNCHANGED <<deferredDrops, reported, dropped>>
          /\ wpc' # "write" => droppedCount' = 0
      BY <1>1 DEF WorkerTake, DropInv, outVars, historyVars, TypeOK, QueueTypeOK
    <2>2. Counts' = Counts
      BY <2>1 DEF Counts, TypeOK, OutTypeOK, QueueTypeOK, HistoryTypeOK
    <2>3. QED
      BY <2>1, <2>2, DropFrame
  <1>2. CASE WriteQueuedEntries
    BY <1>2, WriteDrops, DropFrame
  <1>3. CASE WorkerDeferred
    <2>1. /\ TakeDeferredWork /\ wpc # "write"
          /\ UNCHANGED <<m_DroppedCount, droppedCount, dropped>>
      BY <1>3 DEF WorkerDeferred, seqVars, turnVars
    <2>2. QED
      BY <2>1, TakenCounts, DropFrame DEF DropInv
  <1>4. CASE WorkerTurned
    <2>1. /\ droppedCount = 0 /\ droppedCount' = 0
          /\ UNCHANGED <<m_DroppedCount, deferredDrops, reported, dropped>>
      BY <1>4 DEF WorkerTurned, DropInv, outVars, seqVars, historyVars
    <2>2. QED
      BY <2>1, SameCounts, DropFrame
  <1>5. CASE WorkerSleep \/ WorkerTimeout \/ HandlerReturned \/ MarkWritten \/ WorkerWake
             \/ UpdateWorkerFromWorker
    <2>1. /\ UNCHANGED <<m_DroppedCount, droppedCount, deferredDrops, reported, dropped>>
          /\ wpc = "write" => wpc' = "write"
      BY <1>5 DEF WorkerSleep, WorkerTimeout, HandlerReturned, MarkWritten, WorkerWake, UpdateWorkerFromWorker,
                  NotifyWorker, updateUnchanged, outVars, seqVars, turnVars, historyVars
    <2>2. QED
      BY <2>1, SameCounts, DropFrame DEF DropInv
  <1>6. QED
    BY <1>1, <1>2, <1>3, <1>4, <1>5 DEF WorkerStep

LEMMA DropInit == Init => DropInv
  <1> SUFFICES ASSUME Init
               PROVE  DropInv
    OBVIOUS
  <1>1. dropped = {} /\ IsFiniteSet({}) /\ Cardinality({}) = 0
    BY FS_EmptySet DEF Init
  <1>2. QED
    BY <1>1 DEF Init, DropInv, DropsPlaced, DropsAreCounted

LEMMA DropInvStep ==
    ASSUME TypeOK, TypeOK', MutexInv, DropInv, [Next]_vars, "throw" \notin Failures
    PROVE  DropInv'
  <1>1. CASE UNCHANGED vars
    <2>1. UNCHANGED <<m_DroppedCount, droppedCount, deferredDrops, reported, dropped, wpc>>
      BY <1>1 DEF vars, outVars, seqVars, turnVars, historyVars
    <2>2. QED
      BY <2>1, SameCounts, DropFrame DEF DropInv
  <1>2. QED
    BY <1>1, BeginDrops, CallDrops, WorkerDrops DEF Next, Returned

(***************************************************************************)
(* Every entry a full queue drops is counted in exactly one place, and in  *)
(* the end in exactly one EntriesDropped report, for any number of threads *)
(* and calls: QueueRecord() adds one, the worker takes the count, reports  *)
(* it once, and whoever runs the deferred work passes it on.  An exception *)
(* while an entry is written skips the report: the theorem assumes none.   *)
(***************************************************************************)
THEOREM DropsCounted ==
    ASSUME "throw" \notin Failures
    PROVE  Spec => []DropsAreCounted
  <1>1. Init => TypeOK /\ MutexInv /\ DropInv
    BY TypeInit, MutexInit, DropInit
  <1>2. TypeOK /\ MutexInv /\ DropInv /\ [Next]_vars => (TypeOK /\ MutexInv /\ DropInv)'
    BY TypeStep, MutexStep, DropInvStep
  <1>3. DropInv => DropsAreCounted
    BY DEF DropInv
  <1>4. QED
    BY <1>1, <1>2, <1>3, PTL DEF Spec

----------------------------------------------------------------------------
(* The line about dropped entries *)

(***************************************************************************)
(* Where t's drop n stands: counted while the queue is full, in the batch  *)
(* being written, or behind a line in the output.  Only in the last case   *)
(* may t's later entries be in the output.                                 *)
(***************************************************************************)
Below(s, t, n) == \A i \in 1..Len(s) : IsOf(s[i], t) => s[i].n < n
Above(s, t, n) == \A i \in 1..Len(s) : IsOf(s[i], t) => s[i].n > n

HasMark(out, t, n) ==
    \E i \in 1..Len(out) :
        /\ out[i].kind = "drops"
        /\ \A k \in 1..Len(out) :
              IsOf(out[k], t) => (k < i /\ out[k].n < n) \/ (k > i /\ out[k].n > n)

InQueue(t, n) ==
    /\ m_DroppedCount > 0 /\ IsFull
    /\ Below(m_Out, t, n) /\ Below(Batch, t, n) /\ Below(m_Queue, t, n)

InBatch(t, n) ==
    /\ wpc = "write" /\ droppedCount > 0 /\ entries # <<>>
    /\ Below(m_Out, t, n) /\ Below(entries, t, n) /\ Above(m_Queue, t, n)

IsMarked(t, n) == HasMark(m_Out, t, n) /\ Above(Batch, t, n) /\ Above(m_Queue, t, n)

MarkInvFor(t, n) ==
    /\ InQueue(t, n) \/ InBatch(t, n) \/ IsMarked(t, n)
    /\ pc[t] = "sync" => IsMarked(t, n)

MarkInv == \A d \in dropped : d[1] \in App /\ MarkInvFor(d[1], d[2])

(***************************************************************************)
(* Nobody closes the output: it stays open while something is queued.      *)
(***************************************************************************)
NobodyCloses ==
    /\ \A t \in App : CallOps[t] \cap {"Close", "Finalize"} = {}
    /\ "Close" \notin HandlerOps

OpenInv ==
    /\ \A t \in Threads : call[t].op \notin {"Close", "Finalize"}
    /\ \A t \in Threads : call[t].async => m_IsInitialized
    /\ m_IsAsyncActive => m_IsInitialized
    /\ m_Queue # <<>> \/ m_DroppedCount > 0 => m_IsInitialized
    /\ wpc = "write" => m_IsInitialized

(***************************************************************************)
(* A line at the end of a sequence, and a sequence at the end of another.  *)
(***************************************************************************)
LEMMA AppendBounds ==
    ASSUME NEW s \in Seq(Entry), NEW e \in Entry, NEW t, NEW n
    PROVE  /\ Below(s, t, n) /\ ~IsOf(e, t) => Below(Append(s, e), t, n)
           /\ Above(s, t, n) /\ (IsOf(e, t) => e.n > n) => Above(Append(s, e), t, n)
           /\ HasMark(s, t, n) /\ (IsOf(e, t) => e.n > n) => HasMark(Append(s, e), t, n)
  <1> DEFINE r == Append(s, e)
  <1>1. /\ Len(s) \in Nat /\ Len(r) = Len(s) + 1
        /\ \A i \in 1..Len(s) : r[i] = s[i]
        /\ r[Len(s) + 1] = e
    OBVIOUS
  <1> HIDE DEF r
  <1>2. \A i \in 1..Len(r) : \/ i \in 1..Len(s) /\ r[i] = s[i]
                             \/ i = Len(s) + 1 /\ r[i] = e
    BY <1>1
  <1>3. Below(s, t, n) /\ ~IsOf(e, t) => Below(r, t, n)
    BY <1>2 DEF Below
  <1>4. Above(s, t, n) /\ (IsOf(e, t) => e.n > n) => Above(r, t, n)
    BY <1>2 DEF Above
  <1>5. ASSUME HasMark(s, t, n), IsOf(e, t) => e.n > n
        PROVE  HasMark(r, t, n)
    <2>1. PICK i \in 1..Len(s) :
              /\ s[i].kind = "drops"
              /\ \A k \in 1..Len(s) :
                    IsOf(s[k], t) => (k < i /\ s[k].n < n) \/ (k > i /\ s[k].n > n)
      BY <1>5 DEF HasMark
    <2>2. i \in 1..Len(r) /\ r[i].kind = "drops" /\ i < Len(s) + 1
      BY <1>1, <2>1
    <2>3. ASSUME NEW k \in 1..Len(r), IsOf(r[k], t)
          PROVE  (k < i /\ r[k].n < n) \/ (k > i /\ r[k].n > n)
      BY <1>2, <1>5, <2>1, <2>2, <2>3
    <2>4. QED
      BY <2>2, <2>3 DEF HasMark
  <1>6. QED
    BY <1>3, <1>4, <1>5 DEF r

LEMMA ConcatBounds ==
    ASSUME NEW s \in Seq(Entry), NEW v \in Seq(Entry), NEW t, NEW n
    PROVE  /\ Below(s, t, n) /\ Below(v, t, n) => Below(s \o v, t, n)
           /\ HasMark(s, t, n) /\ Above(v, t, n) => HasMark(s \o v, t, n)
           /\ (/\ Below(s, t, n) /\ Below(v, t, n)
               /\ Len(v) > 0 /\ v[Len(v)].kind = "drops") => HasMark(s \o v, t, n)
  <1> DEFINE r == s \o v
  <1>1. /\ Len(s) \in Nat /\ Len(v) \in Nat /\ Len(r) = Len(s) + Len(v)
        /\ \A i \in 1..Len(s) : r[i] = s[i]
        /\ \A i \in (Len(s) + 1)..Len(r) : r[i] = v[i - Len(s)]
    OBVIOUS
  <1> HIDE DEF r
  <1>2. \A i \in 1..Len(r) : \/ i \in 1..Len(s) /\ r[i] = s[i]
                             \/ /\ i > Len(s) /\ i - Len(s) \in 1..Len(v)
                                /\ r[i] = v[i - Len(s)]
    BY <1>1
  <1>3. Below(s, t, n) /\ Below(v, t, n) => Below(r, t, n)
    BY <1>2 DEF Below
  <1>4. ASSUME HasMark(s, t, n), Above(v, t, n)
        PROVE  HasMark(r, t, n)
    <2>1. PICK i \in 1..Len(s) :
              /\ s[i].kind = "drops"
              /\ \A k \in 1..Len(s) :
                    IsOf(s[k], t) => (k < i /\ s[k].n < n) \/ (k > i /\ s[k].n > n)
      BY <1>4 DEF HasMark
    <2>2. i \in 1..Len(r) /\ r[i].kind = "drops" /\ i <= Len(s)
      BY <1>1, <2>1
    <2>3. ASSUME NEW k \in 1..Len(r), IsOf(r[k], t)
          PROVE  (k < i /\ r[k].n < n) \/ (k > i /\ r[k].n > n)
      <3>1. CASE k \in 1..Len(s) /\ r[k] = s[k]
        BY <3>1, <2>1, <2>3
      <3>2. CASE k > Len(s) /\ k - Len(s) \in 1..Len(v) /\ r[k] = v[k - Len(s)]
        <4>1. r[k].n > n
          BY <3>2, <1>4, <2>3 DEF Above
        <4>2. QED
          BY <3>2, <4>1, <2>2, <1>1
      <3>3. QED
        BY <1>2, <3>1, <3>2
    <2>4. QED
      BY <2>2, <2>3 DEF HasMark
  <1>5. ASSUME Below(s, t, n), Below(v, t, n), Len(v) > 0, v[Len(v)].kind = "drops"
        PROVE  HasMark(r, t, n)
    <2>1. Len(r) \in 1..Len(r) /\ r[Len(r)] = v[Len(v)]
      BY <1>1, <1>5
    <2>2. Below(r, t, n)
      BY <1>3, <1>5
    <2>3. ASSUME NEW k \in 1..Len(r), IsOf(r[k], t)
          PROVE  k < Len(r) /\ r[k].n < n
      <3>1. k # Len(r)
        BY <1>5, <2>1, <2>3 DEF IsOf
      <3>2. QED
        BY <3>1, <1>1, <2>2, <2>3 DEF Below
    <2>4. QED
      BY <1>5, <2>1, <2>3 DEF HasMark
  <1>6. QED
    BY <1>3, <1>4, <1>5 DEF r

(***************************************************************************)
(* Once drained, every drop is marked: a full queue is not empty, nor is   *)
(* the batch taken from one.                                               *)
(***************************************************************************)
LEMMA DrainedIsMarked ==
    ASSUME QueueInv, IsDrained, NEW t, NEW n, MarkInvFor(t, n)
    PROVE  IsMarked(t, n)
  <1>1. /\ m_Queue \in Seq(Entry) /\ entries \in Seq(Entry)
        /\ m_LastQueuedSequence \in Nat /\ m_LastWrittenSequence \in Nat
    BY DEF QueueInv, TypeOK, QueueTypeOK, WorkerTypeOK
  <1>2. InFlight \in Nat /\ Len(m_Queue) \in Nat
    BY <1>1 DEF InFlight
  <1>3. InFlight = 0 /\ Len(m_Queue) = 0
    BY <1>1, <1>2 DEF QueueInv, SeqInv, IsDrained, IsWritten
  <1>4. ~InBatch(t, n)
    BY <1>1, <1>3 DEF InBatch, InFlight, HoldsBatch
  <1>5. ~InQueue(t, n)
    BY <1>3, CapacityAssumption DEF InQueue, IsFull, Capacity
  <1>6. QED
    BY <1>4, <1>5 DEF MarkInvFor

(***************************************************************************)
(* A step that leaves the entries where they are.                          *)
(***************************************************************************)
LEMMA MarkSame ==
    ASSUME QueueInv, NEW t, NEW n, MarkInvFor(t, n),
           UNCHANGED <<m_Out, m_Queue, entries>>, m_DroppedCount > 0 => m_DroppedCount' > 0,
           wpc' = "write" <=> wpc = "write", wpc = "write" => droppedCount' = droppedCount,
           pc'[t] = "sync" => pc[t] = "sync" \/ IsDrained
    PROVE  MarkInvFor(t, n)'
  <1>1. Batch' = Batch
    BY DEF Batch
  <1>2. /\ IsMarked(t, n) => IsMarked(t, n)'
        /\ InQueue(t, n) => InQueue(t, n)'
        /\ InBatch(t, n) => InBatch(t, n)'
    BY <1>1 DEF IsMarked, InQueue, InBatch, IsFull
  <1>3. IsDrained => IsMarked(t, n)
    BY DrainedIsMarked
  <1>4. QED
    BY <1>2, <1>3 DEF MarkInvFor

LEMMA MarkBegin ==
    ASSUME QueueInv, NEW t \in App, NEW n, MarkInvFor(t, n), NEW u \in Threads, BeginCall(u)
    PROVE  MarkInvFor(t, n)'
  <1>1. UNCHANGED <<m_Out, m_Queue, entries, m_DroppedCount, wpc, droppedCount>>
    BY DEF BeginCall, Log, WaitForQueuedEntries, BeginUnqueued, turnVars, outVars, seqVars
  <1>2. t \in Threads /\ pc \in [Threads -> Labels]
    BY DEF Threads, QueueInv, TypeOK, CallTypeOK
  <1>3. pc'[t] = "sync" => pc[t] = "sync" \/ ~m_IsAsync
    BY <1>2 DEF BeginCall, Log, WaitForQueuedEntries, BeginUnqueued, WaitUntil, Goto
  <1>4. QED
    BY <1>1, <1>3, MarkSame DEF QueueInv, AsyncOffMeansDrained

(***************************************************************************)
(* A new entry is numbered above its thread's drops; it is not queued      *)
(* while the queue is full.                                                *)
(***************************************************************************)
LEMMA MarkPush ==
    ASSUME QueueInv, NEW t \in App, NEW n \in Nat, MarkInvFor(t, n), n <= Placed(t),
           NEW u \in Threads, QueuePush(u)
    PROVE  MarkInvFor(t, n)'
  <1> DEFINE entry == EntryOf(u, call[u].config, m_LastQueuedSequence + 1)
  <1>0. TypeOK
    BY DEF QueueInv
  <1>1. /\ t \in Threads /\ Placed(t) \in Int /\ logged[t] \in Nat
        /\ m_Out \in Seq(Entry) /\ Batch \in Seq(Entry) /\ m_Queue \in Seq(Entry)
    BY <1>0, OrderTypes DEF Threads
  <1>2. entry \in Entry
    BY <1>0, EntryType, CallFieldsType DEF TypeOK, QueueTypeOK
  <1>3. /\ entry.kind = "entry" /\ entry.thread = u /\ entry.n = logged[u]
    BY DEF EntryOf
  <1>4. /\ m_Queue' = Append(m_Queue, entry) /\ pc[u] = "queue" /\ (u = W \/ ~IsFull)
        /\ UNCHANGED <<m_Out, entries, m_DroppedCount, droppedCount>> /\ NotifyWorker
        /\ Goto(u, "await") \/ Goto(u, "idle")
    BY DEF QueuePush, Return, outVars, turnVars
  <1>5. Batch' = Batch
    BY <1>4, BatchNotified
  <1>6. wpc' = "write" <=> wpc = "write"
    BY <1>4 DEF NotifyWorker
  <1>7. pc'[t] = "sync" => pc[t] = "sync"
    BY <1>0, <1>1, <1>4 DEF Goto, TypeOK, CallTypeOK
  <1> HIDE DEF entry
  <1>8. IsOf(entry, t) => entry.n > n /\ ~IsFull
    <2>1. CASE t = u
      BY <1>1, <1>3, <1>4, <2>1, ThreadsAssumption DEF Placed, Logging
    <2>2. CASE t # u
      BY <1>3, <2>2 DEF IsOf
    <2>3. QED
      BY <2>1, <2>2
  <1>9. IsMarked(t, n) => IsMarked(t, n)'
    BY <1>1, <1>2, <1>4, <1>5, <1>8, AppendBounds DEF IsMarked
  <1>10. InBatch(t, n) => InBatch(t, n)'
    BY <1>1, <1>2, <1>4, <1>6, <1>8, AppendBounds DEF InBatch
  <1>11. InQueue(t, n) => InQueue(t, n)'
    <2>1. IsFull => IsFull'
      BY <1>1, <1>4, CapacityAssumption DEF IsFull, Capacity
    <2>2. QED
      BY <1>1, <1>2, <1>4, <1>5, <1>8, <2>1, AppendBounds DEF InQueue
  <1>12. QED
    BY <1>7, <1>9, <1>10, <1>11 DEF MarkInvFor

(***************************************************************************)
(* A line written directly: t's only once t's drops are marked.            *)
(***************************************************************************)
LEMMA MarkLine ==
    ASSUME TypeOK, NEW t \in App, NEW n, MarkInvFor(t, n), NEW e \in Entry,
           m_Out' = Append(m_Out, e), IsOf(e, t) => e.n > n /\ IsMarked(t, n),
           UNCHANGED <<m_Queue, entries, m_DroppedCount, wpc, droppedCount>>,
           pc'[t] = "sync" => pc[t] = "sync"
    PROVE  MarkInvFor(t, n)'
  <1>1. m_Out \in Seq(Entry) /\ Batch' = Batch /\ IsFull' = IsFull
    BY OrderTypes DEF Batch, IsFull
  <1>2. IsMarked(t, n) => IsMarked(t, n)'
    BY <1>1, AppendBounds DEF IsMarked
  <1>3. ~IsOf(e, t) => (InQueue(t, n) => InQueue(t, n)') /\ (InBatch(t, n) => InBatch(t, n)')
    BY <1>1, AppendBounds DEF InQueue, InBatch
  <1>4. QED
    BY <1>2, <1>3 DEF MarkInvFor

LEMMA MarkWriteSync ==
    ASSUME QueueInv, NEW t \in App, NEW n \in Nat, MarkInvFor(t, n), n <= Placed(t),
           NEW u \in Threads, WriteSync(u)
    PROVE  MarkInvFor(t, n)'
  <1> DEFINE entry == EntryOf(u, m_Config, 0)
  <1>0. TypeOK
    BY DEF QueueInv
  <1>1. t \in Threads /\ Placed(t) \in Int /\ logged[t] \in Nat
    BY <1>0, OrderTypes DEF Threads
  <1>2. entry \in Entry /\ entry.kind = "entry" /\ entry.thread = u /\ entry.n = logged[u]
    BY <1>0, EntryType DEF TypeOK, OutTypeOK, EntryOf
  <1>3. /\ m_Out' = Append(m_Out, entry) \/ m_Out' = m_Out
        /\ pc[u] = "sync" /\ Goto(u, "deferred")
        /\ UNCHANGED <<m_Queue, entries, m_DroppedCount, wpc, droppedCount>>
    BY DEF WriteSync, seqVars, turnVars
  <1>4. pc'[t] = "sync" => pc[t] = "sync"
    BY <1>0, <1>1, <1>3 DEF Goto, TypeOK, CallTypeOK
  <1> HIDE DEF entry
  <1>5. IsOf(entry, t) => entry.n > n /\ IsMarked(t, n)
    BY <1>1, <1>2, <1>3 DEF IsOf, Placed, Logging, MarkInvFor
  <1>6. QED
    BY <1>0, <1>2, <1>3, <1>4, <1>5, MarkLine, MarkSame

LEMMA MarkInitialize ==
    ASSUME QueueInv, NEW t \in App, NEW n, MarkInvFor(t, n), NEW u \in Threads, Initialize(u)
    PROVE  MarkInvFor(t, n)'
  <1> DEFINE line == OwnLine("startup", u, call[u].config)
  <1>0. TypeOK /\ t \in Threads
    BY DEF QueueInv, Threads
  <1>1. line \in Entry /\ ~IsOf(line, t)
    BY <1>0, EntryType, CallFieldsType DEF OwnLine, IsOf
  <1>2. /\ m_Out' = Append(m_Out, line) \/ m_Out' = m_Out
        /\ Goto(u, "deferred")
        /\ UNCHANGED <<m_Queue, entries, m_DroppedCount, wpc, droppedCount>>
    BY DEF Initialize, AtLock, outVars, lockedUnchanged, seqVars, turnVars
  <1>3. pc'[t] = "sync" => pc[t] = "sync"
    BY <1>0, <1>2 DEF Goto, TypeOK, CallTypeOK
  <1> HIDE DEF line
  <1>4. QED
    BY <1>0, <1>1, <1>2, <1>3, MarkLine, MarkSame

LEMMA MarkCall ==
    ASSUME QueueInv, MutexInv, OpenInv, NEW t \in App, NEW n \in Nat, MarkInvFor(t, n), n <= Placed(t),
           NEW u \in Threads, CallStep(u)
    PROVE  MarkInvFor(t, n)'
  <1>0. TypeOK /\ t \in Threads /\ t # W
    BY ThreadsAssumption DEF QueueInv, Threads
  <1>1. CASE QueuePush(u)
    BY <1>1, MarkPush
  <1>2. CASE WriteSync(u)
    BY <1>2, MarkWriteSync
  <1>3. CASE Initialize(u)
    BY <1>3, MarkInitialize
  <1>4. CASE Close(u) \/ Finalize(u)
    BY <1>4 DEF Close, Finalize, AtLock, OpenInv
  <1>5. CASE \/ Barrier(u) \/ FormatEntry(u) \/ QueueDrop(u) \/ QueueWait(u) \/ QueueRefuse(u)
             \/ Drain(u) \/ Await(u) \/ Flush(u) \/ Open(u) \/ Reconfigure(u) \/ RunDeferredWork(u)
    <2>1. /\ UNCHANGED <<m_Out, m_Queue, entries, wpc, droppedCount>>
          /\ m_DroppedCount' \in {m_DroppedCount, m_DroppedCount + 1}
      BY <1>5 DEF Barrier, FormatEntry, QueueDrop, QueueWait, QueueRefuse, Drain, Await, Flush, Open,
                  Reconfigure, RunDeferredWork, lockedUnchanged, outVars, seqVars, turnVars
    <2>2. m_DroppedCount > 0 => m_DroppedCount' > 0
      BY <1>0, <2>1 DEF TypeOK, QueueTypeOK
    <2>3. \/ UNCHANGED pc
          \/ \E label \in Labels : Goto(u, label) /\ (label = "sync" => u = W \/ IsDrained)
      BY <1>5 DEF Barrier, FormatEntry, QueueDrop, QueueWait, QueueRefuse, Drain, Await, Flush, Open,
                  Reconfigure, RunDeferredWork, AtLock, WaitUntil, Return, Labels
    <2>4. pc'[t] = "sync" => pc[t] = "sync" \/ IsDrained
      BY <1>0, <2>3 DEF Goto, TypeOK, CallTypeOK
    <2>5. QED
      BY <2>1, <2>2, <2>4, MarkSame
  <1>6. CASE \/ KeepWorker(u) \/ StopWorker(u) \/ NoWorker(u) \/ WantWorker(u)
             \/ JoinWorker(u) \/ StartWorker(u) \/ ActivateAsync(u)
    <2>1. UNCHANGED <<m_Out, m_Queue, entries, m_DroppedCount, droppedCount>>
      BY <1>6 DEF KeepWorker, StopWorker, NoWorker, WantWorker, JoinWorker, StartWorker, ActivateAsync,
                  updateUnchanged, outVars, seqVars, turnVars
    <2>2. wpc' = "write" <=> wpc = "write"
      BY <1>6 DEF KeepWorker, StopWorker, NoWorker, WantWorker, JoinWorker, StartWorker, ActivateAsync,
                  NotifyWorker, MutexInv
    <2>3. \E label \in {"idle", "decide", "join", "start", "activate"} : Goto(u, label)
      BY <1>6 DEF KeepWorker, StopWorker, NoWorker, WantWorker, JoinWorker, StartWorker, ActivateAsync, Return
    <2>4. pc'[t] = "sync" => pc[t] = "sync"
      BY <1>0, <2>3 DEF Goto, TypeOK, CallTypeOK
    <2>5. QED
      BY <2>1, <2>2, <2>4, MarkSame
  <1>7. QED
    BY <1>1, <1>2, <1>3, <1>4, <1>5, <1>6 DEF CallStep

(***************************************************************************)
(* The worker takes the count with the full queue, and writes the line     *)
(* after the entries it took.                                              *)
(***************************************************************************)
LEMMA MarkTake ==
    ASSUME QueueInv, NEW t, NEW n, MarkInvFor(t, n), WorkerTake
    PROVE  MarkInvFor(t, n)'
  <1>1. m_Queue \in Seq(Entry)
    BY DEF QueueInv, TypeOK, QueueTypeOK
  <1>2. /\ wpc = "loop" /\ UNCHANGED <<m_Out, pc>>
        /\ entries' = m_Queue /\ m_Queue' = <<>> /\ droppedCount' = m_DroppedCount
        /\ wpc' = IF m_Queue # <<>> \/ m_DroppedCount > 0 THEN "write" ELSE "wake"
    BY DEF WorkerTake, outVars
  <1>3. Batch' = m_Queue
    BY <1>2 DEF Batch
  <1>4. Above(m_Queue', t, n)
    BY <1>2 DEF Above
  <1>5. InQueue(t, n) => InBatch(t, n)'
    <2>1. IsFull => m_Queue # <<>>
      BY <1>1, CapacityAssumption DEF IsFull, Capacity
    <2>2. QED
      BY <1>2, <1>4, <2>1 DEF InQueue, InBatch
  <1>6. ~InBatch(t, n)
    BY <1>2 DEF InBatch
  <1>7. IsMarked(t, n) => IsMarked(t, n)'
    BY <1>2, <1>3, <1>4 DEF IsMarked
  <1>8. QED
    BY <1>2, <1>5, <1>6, <1>7 DEF MarkInvFor

LEMMA MarkWrite ==
    ASSUME TypeOK, OpenInv, NEW t, NEW n, MarkInvFor(t, n), WriteQueuedEntries, "throw" \notin Failures
    PROVE  MarkInvFor(t, n)'
  <1> DEFINE k == Len(entries)
             v == BatchLines(k, droppedCount > 0)
             own == OwnLine("drops", W, m_Config)
  <1>1. m_Out \in Seq(Entry) /\ entries \in Seq(Entry) /\ k \in 0..Len(entries)
    BY DEF TypeOK, OutTypeOK, WorkerTypeOK
  <1>2. /\ m_IsInitialized /\ m_Out' = m_Out \o v
        /\ wpc = "write" /\ wpc' = "deferred"
        /\ UNCHANGED <<m_Queue, m_DroppedCount, pc>>
    BY DEF WriteQueuedEntries, WrittenCounts, OpenInv, seqVars, callVars
  <1>3. Batch = entries /\ Batch' = <<>>
    BY <1>2 DEF Batch
  <1>4. /\ v \in Seq(Entry) /\ Len(v) \in {k, k + 1}
        /\ \A i \in 1..k : v[i] = entries[i]
        /\ Len(v) = k + 1 => v[k + 1] = own
    BY <1>1, BatchLinesType
  <1>5. droppedCount > 0 => Len(v) = k + 1
    BY <1>1, <1>2 DEF BatchLines
  <1>6. ~IsOf(own, t) /\ own.kind = "drops"
    BY DEF IsOf, OwnLine
  <1> HIDE DEF v, own
  <1>7. \A i \in 1..Len(v) : IsOf(v[i], t) => i \in 1..k /\ v[i] = entries[i]
    BY <1>1, <1>4, <1>6
  <1>8. /\ Below(entries, t, n) => Below(v, t, n)
        /\ Above(entries, t, n) => Above(v, t, n)
    BY <1>7 DEF Below, Above
  <1>9. Below(<<>>, t, n) /\ Above(<<>>, t, n)
    BY DEF Below, Above
  <1>10. IsMarked(t, n) => IsMarked(t, n)'
    BY <1>1, <1>2, <1>3, <1>4, <1>8, <1>9, ConcatBounds DEF IsMarked
  <1>11. InBatch(t, n) => IsMarked(t, n)'
    <2> SUFFICES ASSUME InBatch(t, n)
                 PROVE  IsMarked(t, n)'
      OBVIOUS
    <2>1. Len(v) > 0 /\ v[Len(v)].kind = "drops"
      BY <1>1, <1>4, <1>5, <1>6 DEF InBatch
    <2>2. HasMark(m_Out \o v, t, n)
      BY <1>1, <1>4, <1>8, <2>1, ConcatBounds DEF InBatch
    <2>3. QED
      BY <1>2, <1>3, <1>9, <2>2 DEF IsMarked, InBatch
  <1>12. InQueue(t, n) => InQueue(t, n)'
    BY <1>1, <1>2, <1>3, <1>4, <1>8, <1>9, ConcatBounds DEF InQueue, IsFull
  <1>13. QED
    BY <1>2, <1>10, <1>11, <1>12 DEF MarkInvFor

LEMMA MarkWorker ==
    ASSUME QueueInv, OpenInv, NEW t \in App, NEW n, MarkInvFor(t, n), WorkerStep, "throw" \notin Failures
    PROVE  MarkInvFor(t, n)'
  <1>0. TypeOK /\ t \in Threads /\ t # W
    BY ThreadsAssumption DEF QueueInv, Threads
  <1>1. CASE WorkerTake
    BY <1>1, MarkTake
  <1>2. CASE WriteQueuedEntries
    BY <1>0, <1>2, MarkWrite
  <1>3. CASE UpdateWorkerFromWorker
    <2>1. /\ UNCHANGED <<m_Out, m_Queue, entries, m_DroppedCount, droppedCount>>
          /\ wpc' = "write" <=> wpc = "write"
      BY <1>3 DEF UpdateWorkerFromWorker, NotifyWorker, updateUnchanged, outVars, seqVars, turnVars
    <2>2. pc'[t] = pc[t]
      BY <1>0, <1>3 DEF UpdateWorkerFromWorker, Return, Goto, TypeOK, CallTypeOK
    <2>3. QED
      BY <2>1, <2>2, MarkSame
  <1>4. CASE \/ WorkerSleep \/ WorkerTimeout \/ WorkerDeferred \/ HandlerReturned
             \/ MarkWritten \/ WorkerWake
    <2>1. /\ UNCHANGED <<m_Out, m_Queue, entries, m_DroppedCount, droppedCount, pc>>
          /\ wpc # "write" /\ wpc' # "write"
      BY <1>4 DEF WorkerSleep, WorkerTimeout, WorkerDeferred, HandlerReturned, MarkWritten, WorkerWake,
                  outVars, seqVars, turnVars, callVars
    <2>2. QED
      BY <2>1, MarkSame
  <1>5. CASE WorkerTurned
    <2>1. /\ UNCHANGED <<m_Out, m_Queue, m_DroppedCount, pc>>
          /\ wpc # "write" /\ wpc' # "write"
      BY <1>5 DEF WorkerTurned, outVars, seqVars, callVars
    <2>2. QED
      BY <2>1 DEF MarkInvFor, InQueue, InBatch, IsMarked, Batch, IsFull
  <1>6. QED
    BY <1>1, <1>2, <1>3, <1>4, <1>5 DEF WorkerStep

(***************************************************************************)
(* A new drop: the queue is full, and all its thread has placed is older.  *)
(***************************************************************************)
LEMMA MarkDrop ==
    ASSUME TypeOK, OrderInv, NEW u \in Threads, NEW n, n = logged[u], QueueDrop(u)
    PROVE  u \in App /\ MarkInvFor(u, n)'
  <1>1. u \in App
    BY DEF QueueDrop, Threads
  <1>2. /\ pc[u] = "queue" /\ pc' = [pc EXCEPT ![u] = "idle"] /\ IsFull
        /\ m_DroppedCount' = m_DroppedCount + 1
        /\ UNCHANGED <<m_Out, m_Queue, entries, wpc, logged>>
    BY DEF QueueDrop, Return, Goto, outVars, turnVars
  <1>3. /\ pc'[u] # "sync" /\ m_DroppedCount' > 0 /\ IsFull' /\ Batch' = Batch
        /\ Placed(u) = logged[u] - 1 /\ logged[u] \in Nat
    BY <1>2 DEF TypeOK, CallTypeOK, QueueTypeOK, Placed, Logging, Batch, IsFull
  <1>4. UpTo(m_Out, u, logged[u] - 1) /\ UpTo(Batch, u, logged[u] - 1) /\ UpTo(m_Queue, u, logged[u] - 1)
    BY <1>1, <1>3 DEF OrderInv, OrderInvFor, OrderOf
  <1>5. ASSUME NEW s \in Seq(Entry), UpTo(s, u, logged[u] - 1)
        PROVE  Below(s, u, n)
    <2>1. \A i \in 1..Len(s) : s[i] \in Entry
      OBVIOUS
    <2>2. \A i \in 1..Len(s) : s[i].n \in Nat
      BY <2>1 DEF Entry
    <2>3. QED
      BY <1>3, <1>5, <2>2 DEF UpTo, Below
  <1>6. Below(m_Out, u, n) /\ Below(Batch, u, n) /\ Below(m_Queue, u, n)
    BY <1>4, <1>5, OrderTypes
  <1>7. QED
    BY <1>1, <1>2, <1>3, <1>6 DEF MarkInvFor, InQueue

(***************************************************************************)
(* The output stays open once it is.                                       *)
(***************************************************************************)
LEMMA OpenInit == Init => OpenInv
  BY DEF Init, OpenInv, NoCall

LEMMA OpenFrame ==
    ASSUME OpenInv, m_IsInitialized => m_IsInitialized', UNCHANGED call,
           m_IsAsyncActive' => m_IsAsyncActive \/ m_IsInitialized',
           m_Queue' # <<>> \/ m_DroppedCount' > 0 => m_Queue # <<>> \/ m_DroppedCount > 0 \/ m_IsInitialized',
           wpc' = "write" => wpc = "write" \/ m_IsInitialized'
    PROVE  OpenInv'
  BY DEF OpenInv

LEMMA OpenReturn ==
    ASSUME TypeOK, OpenInv, NEW u \in Threads, m_IsInitialized => m_IsInitialized',
           call' = [call EXCEPT ![u] = NoCall],
           m_IsAsyncActive' => m_IsAsyncActive \/ m_IsInitialized',
           m_Queue' # <<>> \/ m_DroppedCount' > 0 => m_Queue # <<>> \/ m_DroppedCount > 0 \/ m_IsInitialized',
           wpc' = "write" => wpc = "write" \/ m_IsInitialized'
    PROVE  OpenInv'
  BY DEF OpenInv, NoCall, TypeOK, CallTypeOK

LEMMA OpenBegin ==
    ASSUME TypeOK, OpenInv, NobodyCloses, NEW u \in Threads, BeginCall(u)
    PROVE  OpenInv'
  <1>1. UNCHANGED <<m_IsInitialized, m_IsAsyncActive, m_Queue, m_DroppedCount, wpc>>
    BY DEF BeginCall, Log, WaitForQueuedEntries, BeginUnqueued, outVars, seqVars, asyncVars
  <1>2. PICK op \in Ops : \E config, seq : Begin(u, op, config, seq)
    BY DEF BeginCall, Log, WaitForQueuedEntries, BeginUnqueued
  <1>3. op \notin {"Close", "Finalize"}
    BY <1>2, OpsAssumption DEF Begin, MayCall, NobodyCloses
  <1>4. PICK config, seq : Remember(u, op, config, seq, FALSE)
    BY <1>2 DEF Begin
  <1>5. \A t \in Threads : call'[t].op \notin {"Close", "Finalize"} /\ (call'[t].async => call[t].async)
    BY <1>3, <1>4 DEF Remember, OpenInv, TypeOK, CallTypeOK
  <1>6. QED
    BY <1>1, <1>5 DEF OpenInv

LEMMA OpenCall ==
    ASSUME TypeOK, MutexInv, OpenInv, NEW u \in Threads, CallStep(u)
    PROVE  OpenInv'
  <1>1. CASE Close(u) \/ Finalize(u)
    BY <1>1 DEF Close, Finalize, AtLock, OpenInv
  <1>2. CASE Barrier(u) \/ QueueWait(u) \/ QueueRefuse(u) \/ Drain(u) \/ WriteSync(u)
    <2>1. UNCHANGED <<m_IsInitialized, m_IsAsyncActive, m_Queue, m_DroppedCount, wpc, call>>
      BY <1>2 DEF Barrier, QueueWait, QueueRefuse, Drain, WriteSync, outVars, seqVars, asyncVars
    <2>2. QED
      BY <2>1, OpenFrame
  <1>3. CASE Flush(u) \/ Open(u) \/ Initialize(u) \/ Reconfigure(u)
    <2>1. UNCHANGED <<m_IsAsyncActive, m_Queue, m_DroppedCount, wpc, call>>
      BY <1>3 DEF Flush, Open, Initialize, Reconfigure, lockedUnchanged, seqVars, asyncVars
    <2>2. m_IsInitialized' = m_IsInitialized \/ m_IsInitialized' = TRUE
      BY <1>3 DEF Flush, Open, Initialize, Reconfigure, outVars, TypeOK, OutTypeOK
    <2>3. QED
      BY <2>1, <2>2, OpenFrame
  <1>4. CASE FormatEntry(u)
    <2>1. UNCHANGED <<m_IsInitialized, m_IsAsyncActive, m_Queue, m_DroppedCount, wpc>>
      BY <1>4 DEF FormatEntry, outVars, seqVars, asyncVars
    <2>2. \A t \in Threads : call'[t].op = call[t].op /\ (call'[t].async => call[t].async)
      BY <1>4 DEF FormatEntry, Remember, TypeOK, CallTypeOK
    <2>3. QED
      BY <2>1, <2>2 DEF OpenInv
  <1>5. CASE QueueDrop(u)
    <2>1. /\ m_IsAsyncActive /\ call' = [call EXCEPT ![u] = NoCall]
          /\ UNCHANGED <<m_IsInitialized, m_IsAsyncActive, m_Queue, wpc>>
      BY <1>5 DEF QueueDrop, Return, outVars, asyncVars
    <2>2. QED
      BY <2>1, OpenReturn DEF OpenInv
  <1>6. CASE QueuePush(u)
    <2>1. /\ m_IsAsyncActive /\ NotifyWorker
          /\ UNCHANGED <<m_IsInitialized, m_IsAsyncActive, m_DroppedCount>>
      BY <1>6 DEF QueuePush, outVars, asyncVars
    <2>2. wpc' = "write" <=> wpc = "write"
      BY <2>1 DEF NotifyWorker
    <2>3. \A t \in Threads : call'[t].op \in {call[t].op, "none"} /\ (call'[t].async => call[t].async)
      <3>1. \/ \E seq : Remember(u, call[u].op, call[u].config, seq, FALSE)
            \/ Return(u)
        BY <1>6 DEF QueuePush
      <3>2. QED
        BY <3>1 DEF Remember, Return, NoCall, TypeOK, CallTypeOK
    <2>4. QED
      BY <2>1, <2>2, <2>3 DEF OpenInv
  <1>7. CASE Await(u) \/ RunDeferredWork(u)
    <2>1. UNCHANGED <<m_IsInitialized, m_IsAsyncActive, m_Queue, m_DroppedCount, wpc>>
      BY <1>7 DEF Await, RunDeferredWork, outVars, seqVars, asyncVars
    <2>2. call' = call \/ call' = [call EXCEPT ![u] = NoCall]
      BY <1>7 DEF Await, RunDeferredWork, Return
    <2>3. QED
      BY <2>1, <2>2, OpenFrame, OpenReturn
  <1>8. CASE KeepWorker(u) \/ ActivateAsync(u)
    <2>1. /\ UNCHANGED <<m_IsInitialized, m_Queue, m_DroppedCount>>
          /\ call' = [call EXCEPT ![u] = NoCall]
          /\ wpc' = "write" <=> wpc = "write"
      BY <1>8 DEF KeepWorker, ActivateAsync, NotifyWorker, updateUnchanged, outVars, seqVars, Return
    <2>2. m_IsAsyncActive' => m_IsInitialized
      BY <1>8 DEF KeepWorker, ActivateAsync, SetAsyncActive, WantsAsync, OpenInv
    <2>3. QED
      BY <2>1, <2>2, OpenReturn
  <1>9. CASE StopWorker(u)
    <2>1. /\ UNCHANGED <<m_IsInitialized, m_Queue, m_DroppedCount, call>>
          /\ ~m_IsAsyncActive' /\ (wpc' = "write" <=> wpc = "write")
      BY <1>9 DEF StopWorker, SetAsyncActive, NotifyWorker, updateUnchanged, outVars, seqVars
    <2>2. QED
      BY <2>1, OpenFrame
  <1>10. CASE WantWorker(u)
    <2>1. UNCHANGED <<m_IsInitialized, m_IsAsyncActive, m_Queue, m_DroppedCount, wpc>>
      BY <1>10 DEF WantWorker, updateUnchanged, outVars, seqVars, asyncVars
    <2>2. \A t \in Threads :
              call'[t].op = call[t].op /\ (call'[t].async => call[t].async \/ m_IsInitialized)
      BY <1>10 DEF WantWorker, Remember, WantsAsync, TypeOK, CallTypeOK
    <2>3. QED
      BY <2>1, <2>2 DEF OpenInv
  <1>11. CASE NoWorker(u) \/ JoinWorker(u) \/ StartWorker(u)
    <2>1. /\ UNCHANGED <<m_IsInitialized, m_IsAsyncActive, m_Queue, m_DroppedCount>>
          /\ wpc' = "write" => wpc = "write"
      BY <1>11 DEF NoWorker, JoinWorker, StartWorker, updateUnchanged, outVars, seqVars, asyncVars
    <2>2. call' = call \/ call' = [call EXCEPT ![u] = NoCall]
      BY <1>11 DEF NoWorker, JoinWorker, StartWorker, Return
    <2>3. QED
      BY <2>1, <2>2, OpenFrame, OpenReturn
  <1>12. QED
    BY <1>1, <1>2, <1>3, <1>4, <1>5, <1>6, <1>7, <1>8, <1>9, <1>10, <1>11 DEF CallStep

LEMMA OpenWorker ==
    ASSUME TypeOK, OpenInv, WorkerStep
    PROVE  OpenInv'
  <1>1. CASE UpdateWorkerFromWorker
    <2>1. /\ UNCHANGED <<m_IsInitialized, m_Queue, m_DroppedCount>>
          /\ call' = [call EXCEPT ![W] = NoCall]
          /\ wpc' = "write" <=> wpc = "write"
      BY <1>1 DEF UpdateWorkerFromWorker, NotifyWorker, updateUnchanged, outVars, seqVars, Return
    <2>2. m_IsAsyncActive' => m_IsAsyncActive \/ m_IsInitialized
      BY <1>1 DEF UpdateWorkerFromWorker, SetAsyncActive, WantsAsync, asyncVars
    <2>3. QED
      BY <2>1, <2>2, OpenReturn DEF Threads
  <1>2. CASE WorkerTake
    <2>1. /\ UNCHANGED <<m_IsInitialized, m_IsAsyncActive, call>>
          /\ m_Queue' = <<>> /\ m_DroppedCount' = 0
          /\ wpc' = "write" => m_Queue # <<>> \/ m_DroppedCount > 0
      BY <1>2 DEF WorkerTake, outVars, asyncVars
    <2>2. QED
      BY <2>1, OpenFrame DEF OpenInv
  <1>3. CASE \/ WorkerSleep \/ WorkerTimeout \/ WriteQueuedEntries \/ WorkerDeferred \/ HandlerReturned
             \/ MarkWritten \/ WorkerWake \/ WorkerTurned
    <2>1. /\ UNCHANGED <<m_IsInitialized, m_IsAsyncActive, m_Queue, m_DroppedCount, call>>
          /\ wpc' # "write"
      BY <1>3 DEF WorkerSleep, WorkerTimeout, WriteQueuedEntries, WorkerDeferred, HandlerReturned,
                  MarkWritten, WorkerWake, WorkerTurned, outVars, seqVars, asyncVars, callVars
    <2>2. QED
      BY <2>1, OpenFrame
  <1>4. QED
    BY <1>1, <1>2, <1>3 DEF WorkerStep

LEMMA OpenStep ==
    ASSUME TypeOK, MutexInv, OpenInv, NobodyCloses, [Next]_vars
    PROVE  OpenInv'
  <1>1. CASE UNCHANGED vars
    BY <1>1, OpenFrame DEF vars, outVars, seqVars, asyncVars, callVars
  <1>2. QED
    BY <1>1, OpenBegin, OpenCall, OpenWorker DEF Next, Returned

(***************************************************************************)
(* Every step keeps each drop where MarkInv says.                          *)
(***************************************************************************)
LEMMA MarkStep ==
    ASSUME QueueInv, MutexInv, OrderInv, DropInv, OpenInv, MarkInv, "throw" \notin Failures, [Next]_vars
    PROVE  MarkInv'
  <1>0. TypeOK
    BY DEF QueueInv
  <1>1. ASSUME NEW d \in dropped
        PROVE  d[1] \in App /\ MarkInvFor(d[1], d[2])'
    <2>1. /\ d[1] \in App /\ d[2] \in Nat /\ MarkInvFor(d[1], d[2]) /\ d[2] <= Placed(d[1])
      BY <1>0 DEF MarkInv, DropInv, DropsPlaced, TypeOK, HistoryTypeOK
    <2>2. CASE UNCHANGED vars
      BY <2>1, <2>2, MarkSame DEF vars, outVars, seqVars, turnVars, callVars
    <2>3. ASSUME NEW u \in Threads, BeginCall(u)
          PROVE  MarkInvFor(d[1], d[2])'
      BY <2>1, <2>3, MarkBegin
    <2>4. ASSUME NEW u \in Threads, CallStep(u)
          PROVE  MarkInvFor(d[1], d[2])'
      BY <2>1, <2>4, MarkCall
    <2>5. CASE WorkerStep
      BY <2>1, <2>5, MarkWorker
    <2>6. QED
      BY <2>1, <2>2, <2>3, <2>4, <2>5 DEF Next, Returned
  <1>2. dropped' = dropped \/ \E u \in Threads : QueueDrop(u)
    <2>1. CASE UNCHANGED vars
      BY <2>1 DEF vars, historyVars
    <2>2. ASSUME NEW u \in Threads, BeginCall(u)
          PROVE  dropped' = dropped
      BY <2>2 DEF BeginCall, Log, WaitForQueuedEntries, BeginUnqueued, historyVars
    <2>3. ASSUME NEW u \in Threads, CallStep(u), ~QueueDrop(u)
          PROVE  dropped' = dropped
      BY <2>3 DEF CallStep, Barrier, FormatEntry, QueueWait, QueuePush, QueueRefuse, Drain, Await, WriteSync,
                  Flush, Close, Finalize, Open, Initialize, Reconfigure, RunDeferredWork, KeepWorker,
                  StopWorker, NoWorker, WantWorker, JoinWorker, StartWorker, ActivateAsync,
                  CloseUnlocked, lockedUnchanged, updateUnchanged, historyVars
    <2>4. CASE WorkerStep
      BY <2>4 DEF WorkerStep, WorkerTake, WorkerSleep, WorkerTimeout, WriteQueuedEntries, WorkerDeferred,
                  HandlerReturned, MarkWritten, WorkerWake, WorkerTurned, UpdateWorkerFromWorker,
                  updateUnchanged, historyVars
    <2>5. QED
      BY <2>1, <2>2, <2>3, <2>4 DEF Next, Returned
  <1>3. CASE dropped' = dropped
    BY <1>1, <1>3 DEF MarkInv
  <1>4. ASSUME NEW u \in Threads, QueueDrop(u)
        PROVE  MarkInv'
    <2>1. dropped' = dropped \cup {<<u, logged[u]>>}
      BY <1>4 DEF QueueDrop
    <2>2. ASSUME NEW d \in dropped'
          PROVE  d[1] \in App /\ MarkInvFor(d[1], d[2])'
      <3>1. CASE d \in dropped
        BY <3>1, <1>1
      <3>2. CASE d = <<u, logged[u]>>
        <4>1. d[1] = u /\ d[2] = logged[u]
          BY <3>2
        <4>2. d[1] \in Threads /\ QueueDrop(d[1]) /\ d[2] = logged[d[1]]
          BY <1>4, <4>1
        <4>3. QED
          BY <1>0, <4>2, MarkDrop
      <3>3. QED
        BY <2>1, <3>1, <3>2
    <2>3. QED
      BY <2>2 DEF MarkInv
  <1>5. QED
    BY <1>2, <1>3, <1>4

(***************************************************************************)
(* While the output stays open and no exception skips the report, every    *)
(* dropped entry is counted in one place and in the end in one             *)
(* EntriesDropped report, and the line about it stands between what its    *)
(* thread logged before and after it, for any threads, capacity and calls: *)
(* QueueRecord() drops only while the queue is full, the worker takes the  *)
(* count with that queue, and writes the line after it.                    *)
(***************************************************************************)
THEOREM DropsAreAccounted ==
    ASSUME "throw" \notin Failures, NobodyCloses
    PROVE  Spec => []DropsAccounted
  <1> DEFINE Inv == QueueInv /\ MutexInv /\ OrderInv /\ DropInv /\ OpenInv /\ MarkInv
  <1>1. Init => Inv
    <2>1. Init => MarkInv
      BY DEF Init, MarkInv
    <2>2. QED
      BY <2>1, TypeInit, QueueInit, MutexInit, OrderInit, DropInit, OpenInit DEF QueueInv
  <1>2. Inv /\ [Next]_vars => Inv'
    <2> SUFFICES ASSUME Inv, [Next]_vars
                 PROVE  Inv'
      OBVIOUS
    <2>1. QueueInv' /\ MutexInv' /\ TypeOK /\ TypeOK'
      BY TypeStep, QueueStep, MutexStep DEF QueueInv
    <2>2. QED
      BY <2>1, OrderStep, DropInvStep, OpenStep, MarkStep
  <1>3. Inv => DropsAccounted
    <2> SUFFICES ASSUME QueueInv, DropInv, MarkInv
                 PROVE  DropsAreMarked
      BY DEF DropInv, DropsAccounted
    <2> SUFFICES ASSUME NEW d \in dropped, NEW j \in DOMAIN m_Out, m_Out[j].kind = "entry",
                        m_Out[j].thread = d[1], m_Out[j].n > d[2]
                 PROVE  \E i \in 1..(j-1) :
                            /\ m_Out[i].kind = "drops"
                            /\ \A k \in i..Len(m_Out) :
                                  m_Out[k].kind = "entry" /\ m_Out[k].thread = d[1] => m_Out[k].n > d[2]
      BY DEF DropsAreMarked
    <2>1. m_Out \in Seq(Entry) /\ DOMAIN m_Out = 1..Len(m_Out) /\ d[2] \in Nat
      BY DEF QueueInv, TypeOK, OutTypeOK, HistoryTypeOK
    <2>2. \A k \in 1..Len(m_Out) : m_Out[k] \in Entry
      BY <2>1
    <2>3. \A k \in 1..Len(m_Out) : m_Out[k].n \in Nat
      BY <2>2 DEF Entry
    <2>4. IsOf(m_Out[j], d[1])
      BY DEF IsOf
    <2>5. ~Below(m_Out, d[1], d[2])
      BY <2>1, <2>3, <2>4 DEF Below
    <2>6. HasMark(m_Out, d[1], d[2])
      BY <2>5 DEF MarkInv, MarkInvFor, InQueue, InBatch, IsMarked
    <2>7. PICK i \in 1..Len(m_Out) :
              /\ m_Out[i].kind = "drops"
              /\ \A k \in 1..Len(m_Out) :
                    IsOf(m_Out[k], d[1]) =>
                        (k < i /\ m_Out[k].n < d[2]) \/ (k > i /\ m_Out[k].n > d[2])
      BY <2>6 DEF HasMark
    <2>8. i \in 1..(j-1)
      BY <2>1, <2>3, <2>4, <2>7
    <2>9. ASSUME NEW k \in i..Len(m_Out), m_Out[k].kind = "entry", m_Out[k].thread = d[1]
          PROVE  m_Out[k].n > d[2]
      <3>1. k \in 1..Len(m_Out) /\ k >= i /\ IsOf(m_Out[k], d[1])
        BY <2>9 DEF IsOf
      <3>2. QED
        BY <3>1, <2>7
    <2>10. QED
      BY <2>7, <2>8, <2>9
  <1>4. QED
    BY <1>1, <1>2, <1>3, PTL DEF Spec

----------------------------------------------------------------------------
(* Waiting for the queued entries *)

(***************************************************************************)
(* Who is at the lock has waited for the number it remembered, Open() and  *)
(* Initialize() for none; so has whoever closed the output.                *)
(***************************************************************************)
WaitInv ==
    /\ closedSequence <= m_LastWrittenSequence
    /\ \A t \in Threads :
          /\ pc[t] = "locked" => call[t].seq <= m_LastWrittenSequence
          /\ pc[t] \in {"barrier", "locked"} /\ call[t].op \in {"Open", "Initialize"} => call[t].seq = 0

LEMMA WaitInit == Init => WaitInv
  BY DEF Init, WaitInv

\* A step that brings nobody to the lock
LEMMA WaitFrame ==
    ASSUME TypeOK, WaitInv, m_LastWrittenSequence' \in Nat, m_LastWrittenSequence <= m_LastWrittenSequence',
           closedSequence' = closedSequence,
           \A t \in Threads : pc'[t] \in {"barrier", "locked"} => pc'[t] = pc[t] /\ call'[t] = call[t]
    PROVE  WaitInv'
  <1>1. /\ m_LastWrittenSequence \in Nat /\ closedSequence \in Nat
        /\ \A t \in Threads : call[t].seq \in Nat
    BY CallFieldsType DEF TypeOK, QueueTypeOK, HistoryTypeOK
  <1>2. QED
    BY <1>1 DEF WaitInv

LEMMA WaitBegin ==
    ASSUME TypeOK, WaitInv, NEW u \in Threads, BeginCall(u)
    PROVE  WaitInv'
  <1>1. /\ m_LastWrittenSequence' = m_LastWrittenSequence /\ closedSequence' = closedSequence
    BY DEF BeginCall, Log, WaitForQueuedEntries, BeginUnqueued, seqVars, historyVars
  <1>2. m_LastWrittenSequence \in Nat /\ m_LastQueuedSequence \in Nat
    BY DEF TypeOK, QueueTypeOK
  <1> DEFINE Begins(op, config, seq) ==
                /\ Remember(u, op, config, seq, FALSE)
                /\ \/ Goto(u, "format") \/ Goto(u, "sync")
                   \/ Goto(u, "barrier") /\ op \notin {"Open", "Initialize"}
                   \/ /\ Goto(u, "locked") /\ seq <= m_LastWrittenSequence
                      /\ op \in {"Open", "Initialize"} => seq = 0
  <1>3. \E op, config, seq : Begins(op, config, seq)
    <2>1. ASSUME NEW op, Log(u, op)
          PROVE  Begins(op, DefaultConfig, 0)
      BY <2>1 DEF Log, Begin
    <2>2. ASSUME NEW op, NEW config, WaitForQueuedEntries(u, op, config)
          PROVE  \E seq : Begins(op, config, seq)
      <3> DEFINE seq == IF u = W THEN 0 ELSE m_LastQueuedSequence
      <3>1. /\ op \in {"Flush", "Close", "Reconfigure", "Finalize"}
            /\ Remember(u, op, config, seq, FALSE)
            /\ Goto(u, "barrier") \/ (Goto(u, "locked") /\ m_LastWrittenSequence >= seq)
        BY <2>2 DEF WaitForQueuedEntries, Begin, WaitUntil, IsWritten
      <3>2. Begins(op, config, seq)
        BY <1>2, <3>1
      <3>3. QED
        BY <3>2
    <2>3. ASSUME NEW op, NEW config, BeginUnqueued(u, op, config)
          PROVE  Begins(op, config, 0)
      <3>1. Remember(u, op, config, 0, FALSE) /\ Goto(u, "locked")
        BY <2>3 DEF BeginUnqueued, Begin
      <3>2. 0 <= m_LastWrittenSequence
        BY <1>2
      <3>3. QED
        BY <3>1, <3>2
    <2> HIDE DEF Begins
    <2>4. QED
      BY <2>1, <2>2, <2>3 DEF BeginCall
  <1>4. PICK op, config, seq : Begins(op, config, seq)
    BY <1>3
  <1>5. ASSUME NEW t \in Threads, t # u
        PROVE  pc'[t] = pc[t] /\ call'[t] = call[t]
    BY <1>4, <1>5 DEF Goto, Remember, TypeOK, CallTypeOK
  <1>6. call'[u].op = op /\ call'[u].seq = seq
    BY <1>4 DEF Remember, TypeOK, CallTypeOK
  <1>7. /\ pc'[u] = "locked" => seq <= m_LastWrittenSequence
        /\ pc'[u] \in {"barrier", "locked"} /\ op \in {"Open", "Initialize"} => seq = 0
    BY <1>4 DEF Goto, TypeOK, CallTypeOK
  <1>8. QED
    BY <1>1, <1>5, <1>6, <1>7 DEF WaitInv

LEMMA WaitCall ==
    ASSUME TypeOK, MutexInv, WaitInv, NEW u \in Threads, CallStep(u)
    PROVE  WaitInv'
  <1>0. /\ m_LastWrittenSequence \in Nat /\ pc \in [Threads -> Labels] /\ call \in [Threads -> Call]
    BY DEF TypeOK, QueueTypeOK, CallTypeOK
  <1>1. m_LastWrittenSequence' = m_LastWrittenSequence
    <2>1. CASE QueuePush(u)
      BY <2>1 DEF QueuePush
    <2>2. CASE ~QueuePush(u)
      BY <2>2, CallFrame
    <2>3. QED
      BY <2>1, <2>2
  <1>2. CASE Barrier(u)
    <2>1. /\ pc[u] = "barrier" /\ call' = call /\ closedSequence' = closedSequence
          /\ \/ Goto(u, "locked") /\ call[u].seq <= m_LastWrittenSequence
             \/ Goto(u, "barrier")
      BY <1>0, <1>2, CallFieldsType DEF Barrier, WaitUntil, IsWritten, historyVars
    <2>2. QED
      BY <1>0, <1>1, <1>2, <2>1 DEF WaitInv, Goto
  <1>3. CASE Close(u) \/ Finalize(u)
    <2>1. /\ call' = call /\ pc[u] = "locked" /\ Goto(u, "deferred")
          /\ closedSequence' \in {closedSequence, call[u].seq}
      BY <1>3 DEF Close, Finalize, CloseUnlocked, AtLock, lockedUnchanged
    <2>2. QED
      BY <1>0, <1>1, <2>1 DEF WaitInv, Goto
  <1>4. ASSUME ~Barrier(u), ~Close(u), ~Finalize(u)
        PROVE  /\ closedSequence' = closedSequence
               /\ \/ pc' = pc /\ call' = call
                  \/ \E label \in Labels \ {"barrier", "locked"} : Goto(u, label)
               /\ call' = call \/ Return(u)
                     \/ \E op, config, seq, async : Remember(u, op, config, seq, async)
    <2>1. CASE FormatEntry(u) \/ QueueDrop(u) \/ QueueWait(u) \/ QueuePush(u)
      BY <2>1 DEF FormatEntry, QueueDrop, QueueWait, QueuePush, Return, historyVars, Labels
    <2>2. CASE QueueRefuse(u) \/ Drain(u) \/ Await(u) \/ WriteSync(u)
      BY <2>2 DEF QueueRefuse, Drain, Await, WriteSync, WaitUntil, Return, historyVars, Labels
    <2>3. CASE Flush(u) \/ Open(u) \/ Initialize(u) \/ Reconfigure(u)
      BY <2>3 DEF Flush, Open, Initialize, Reconfigure, AtLock, lockedUnchanged, Labels
    <2>4. CASE RunDeferredWork(u)
      BY <2>4 DEF RunDeferredWork, Return, Labels
    <2>5. CASE KeepWorker(u) \/ StopWorker(u) \/ NoWorker(u) \/ WantWorker(u)
      BY <2>5 DEF KeepWorker, StopWorker, NoWorker, WantWorker, Decides, updateUnchanged, historyVars,
                  Return, Labels
    <2>6. CASE JoinWorker(u) \/ StartWorker(u) \/ ActivateAsync(u)
      BY <2>6 DEF JoinWorker, StartWorker, ActivateAsync, updateUnchanged, historyVars, Return, Labels
    <2>7. QED
      BY <1>4, <2>1, <2>2, <2>3, <2>4, <2>5, <2>6 DEF CallStep
  <1>5. CASE ~Barrier(u) /\ ~Close(u) /\ ~Finalize(u)
    <2>1. \A t \in Threads : pc'[t] \in {"barrier", "locked"} => pc'[t] = pc[t] /\ call'[t] = call[t]
      BY <1>0, <1>4, <1>5 DEF Goto, Return, Remember
    <2>2. QED
      BY <1>0, <1>1, <1>4, <1>5, <2>1, WaitFrame
  <1>6. QED
    BY <1>2, <1>3, <1>5

LEMMA WaitWorker ==
    ASSUME TypeOK, TypeOK', WaitInv, WorkerStep
    PROVE  WaitInv'
  <1>0. m_LastWrittenSequence \in Nat /\ m_LastWrittenSequence' \in Nat
    BY DEF TypeOK, QueueTypeOK
  <1>1. m_LastWrittenSequence <= m_LastWrittenSequence'
    <2>1. CASE MarkWritten
      BY <1>0, <2>1 DEF MarkWritten
    <2>2. ASSUME ~MarkWritten
          PROVE  m_LastWrittenSequence' = m_LastWrittenSequence
      BY <2>2 DEF WorkerStep, WorkerTake, WorkerSleep, WorkerTimeout, WriteQueuedEntries, WorkerDeferred,
                  HandlerReturned, WorkerWake, WorkerTurned, UpdateWorkerFromWorker, updateUnchanged, seqVars
    <2>3. QED
      BY <1>0, <2>1, <2>2
  <1>2. closedSequence' = closedSequence
    BY DEF WorkerStep, WorkerTake, WorkerSleep, WorkerTimeout, WriteQueuedEntries, WorkerDeferred,
           HandlerReturned, MarkWritten, WorkerWake, WorkerTurned, UpdateWorkerFromWorker, updateUnchanged,
           historyVars
  <1>3. (pc' = pc /\ call' = call) \/ Return(W)
    BY DEF WorkerStep, WorkerTake, WorkerSleep, WorkerTimeout, WriteQueuedEntries, WorkerDeferred,
           HandlerReturned, MarkWritten, WorkerWake, WorkerTurned, UpdateWorkerFromWorker, callVars
  <1>4. \A t \in Threads : pc'[t] \in {"barrier", "locked"} => pc'[t] = pc[t] /\ call'[t] = call[t]
    BY <1>3 DEF Return, Goto, TypeOK, CallTypeOK
  <1>5. QED
    BY <1>0, <1>1, <1>2, <1>4, WaitFrame

LEMMA WaitStep ==
    ASSUME TypeOK, TypeOK', MutexInv, WaitInv, [Next]_vars
    PROVE  WaitInv'
  <1>1. CASE UNCHANGED vars
    BY <1>1 DEF vars, seqVars, callVars, historyVars, WaitInv
  <1>2. QED
    BY <1>1, WaitBegin, WaitCall, WaitWorker DEF Next, Returned

(***************************************************************************)
(* Closing on an application thread loses no entry queued before the call, *)
(* whatever fails and for any number of threads and calls: who closes has  *)
(* waited for the entries queued before its call (WaitForQueuedEntries()), *)
(* and the batch the worker holds is numbered above those written.  The    *)
(* worker's own Close(), in a handler, waits for nothing and promises      *)
(* nothing.                                                                *)
(***************************************************************************)
THEOREM ClosingKeepsQueued == Spec => []CloseKeepsQueued
  <1> DEFINE Inv == QueueInv /\ MutexInv /\ WaitInv
  <1>1. Init => Inv
    BY TypeInit, QueueInit, MutexInit, WaitInit DEF QueueInv
  <1>2. Inv /\ [Next]_vars => Inv'
    BY TypeStep, QueueStep, MutexStep, WaitStep DEF QueueInv
  <1>3. Inv => CloseKeepsQueued
    <2> SUFFICES ASSUME Inv, wpc = "write", NEW i \in DOMAIN entries
                 PROVE  entries[i].seq > closedSequence
      BY DEF CloseKeepsQueued
    <2>1. /\ i \in 1..Len(entries) /\ m_LastWrittenSequence \in Nat /\ closedSequence \in Nat
      BY DEF QueueInv, TypeOK, QueueTypeOK, WorkerTypeOK, HistoryTypeOK
    <2>2. entries[i].seq = m_LastWrittenSequence + i
      BY <2>1 DEF QueueInv, SeqInv, HoldsBatch
    <2>3. QED
      BY <2>1, <2>2 DEF WaitInv
  <1>4. QED
    BY <1>1, <1>2, <1>3, PTL DEF Spec

(***************************************************************************)
(* What the worker is done with has been written, or given up as lost; an  *)
(* output that is closed has no line left to flush; and an entry somebody  *)
(* waits for is an urgent one, with all before it out of the buffer once   *)
(* the worker is done with it.                                             *)
(***************************************************************************)
HoldsWritten == wpc \in {"deferred", "onError", "mark"}
Done == IF HoldsWritten THEN m_LastWrittenSequence + Len(entries) ELSE m_LastWrittenSequence

Written(seq) == seq \in lost \/ \E i \in 1..Len(m_Out) : m_Out[i].seq = seq

AwaitInv(t) ==
    /\ call[t].seq <= m_LastQueuedSequence
    /\ call[t].seq <= Done => \A seq \in 1..call[t].seq : IsSettled(seq)
    /\ \A i \in 1..Len(Batch) : Batch[i].seq = call[t].seq => Batch[i].urgent
    /\ \A i \in 1..Len(m_Queue) : m_Queue[i].seq = call[t].seq => m_Queue[i].urgent

SettleInv ==
    /\ m_Flushed <= Len(m_Out)
    /\ ~m_IsInitialized => m_Flushed = Len(m_Out)
    /\ \A seq \in 1..Done : Written(seq)
    /\ \A t \in Threads : pc[t] = "await" => AwaitInv(t)

LEMMA SettleTypes ==
    ASSUME TypeOK
    PROVE  /\ m_Out \in Seq(Entry) /\ m_Queue \in Seq(Entry) /\ entries \in Seq(Entry)
           /\ Len(m_Out) \in Nat /\ Len(m_Queue) \in Nat /\ Len(entries) \in Nat
           /\ m_Flushed \in Nat /\ m_LastWrittenSequence \in Nat /\ m_LastQueuedSequence \in Nat
           /\ Done \in Nat /\ m_LastWrittenSequence <= Done
           /\ \A t \in Threads : call[t].seq \in Nat
  <1>1. m_Out \in Seq(Entry) /\ m_Queue \in Seq(Entry) /\ entries \in Seq(Entry)
    BY DEF TypeOK, OutTypeOK, QueueTypeOK, WorkerTypeOK
  <1>2. Len(m_Out) \in Nat /\ Len(m_Queue) \in Nat /\ Len(entries) \in Nat
    BY <1>1
  <1>3. m_Flushed \in Nat /\ m_LastWrittenSequence \in Nat /\ m_LastQueuedSequence \in Nat
    BY DEF TypeOK, OutTypeOK, QueueTypeOK
  <1>4. Done \in Nat /\ m_LastWrittenSequence <= Done
    BY <1>2, <1>3 DEF Done
  <1>5. QED
    BY <1>1, <1>2, <1>3, <1>4, CallFieldsType

LEMMA SettleInit == Init => SettleInv
  BY DEF Init, SettleInv, Done, HoldsWritten

(***************************************************************************)
(* The output only grows, and so does what is settled.                     *)
(***************************************************************************)
Grows ==
    /\ Len(m_Out) <= Len(m_Out)'
    /\ \A i \in 1..Len(m_Out) : m_Out'[i] = m_Out[i]
    /\ m_Flushed <= m_Flushed' /\ m_Flushed' <= Len(m_Out)'
    /\ \A seq \in lost : seq \in lost'

LEMMA SettledStays ==
    ASSUME TypeOK, TypeOK', SettleInv, Grows, NEW seq
    PROVE  /\ Written(seq) => Written(seq)'
           /\ IsSettled(seq) => IsSettled(seq)'
           /\ m_Flushed' = Len(m_Out)' /\ Written(seq)' => IsSettled(seq)'
  <1>1. /\ Len(m_Out) \in Nat /\ Len(m_Out)' \in Nat /\ m_Flushed \in Nat /\ m_Flushed' \in Nat
        /\ m_Flushed <= Len(m_Out)
    BY SettleTypes DEF SettleInv, TypeOK, OutTypeOK
  <1>2. Written(seq) => Written(seq)'
    BY <1>1 DEF Written, Grows
  <1>3. IsSettled(seq) => IsSettled(seq)'
    BY <1>1 DEF IsSettled, Grows
  <1>4. m_Flushed' = Len(m_Out)' /\ Written(seq)' => IsSettled(seq)'
    BY <1>1 DEF IsSettled, Written
  <1>5. QED
    BY <1>2, <1>3, <1>4

(***************************************************************************)
(* A step that leaves the queue and the batch as they are.                 *)
(***************************************************************************)
LEMMA SettleFrame ==
    ASSUME TypeOK, TypeOK', SettleInv, Grows, Done' = Done, Batch' = Batch,
           UNCHANGED <<m_Queue, m_LastQueuedSequence>>,
           ~m_IsInitialized' => m_Flushed' = Len(m_Out)',
           \A t \in Threads : pc'[t] = "await" => pc[t] = "await" /\ call'[t] = call[t]
    PROVE  SettleInv'
  <1>1. \A seq \in 1..Done' : Written(seq)'
    BY SettledStays DEF SettleInv
  <1>2. ASSUME NEW t \in Threads, pc'[t] = "await"
        PROVE  AwaitInv(t)'
    <2>1. AwaitInv(t) /\ call'[t] = call[t]
      BY <1>2 DEF SettleInv
    <2>2. call'[t].seq <= Done' => \A seq \in 1..call'[t].seq : IsSettled(seq)'
      BY <2>1, SettledStays DEF AwaitInv
    <2>3. QED
      BY <2>1, <2>2 DEF AwaitInv
  <1>3. QED
    BY <1>1, <1>2 DEF SettleInv, Grows

\* A step that leaves the output as it is, too
LEMMA SameGrows ==
    ASSUME TypeOK, SettleInv, UNCHANGED <<m_Out, m_Flushed, lost>>
    PROVE  Grows
  BY SettleTypes DEF SettleInv, Grows

LEMMA FlushGrows ==
    ASSUME TypeOK, TypeOK', SettleInv, lost' = lost, NEW cond, NEW mustReport,
           m_Out' = m_Out \/ \E e \in Entry : m_Out' = Append(m_Out, e),
           FlushIf(cond, m_Out', mustReport)
    PROVE  Grows
  <1>1. /\ Len(m_Out) \in Nat /\ m_Flushed \in Nat /\ m_Out \in Seq(Entry) /\ m_Flushed <= Len(m_Out)
    BY SettleTypes DEF SettleInv
  <1>2. Len(m_Out)' \in Nat /\ Len(m_Out) <= Len(m_Out)' /\ \A i \in 1..Len(m_Out) : m_Out'[i] = m_Out[i]
    BY <1>1
  <1>3. m_Flushed' = Len(m_Out)' \/ m_Flushed' = m_Flushed
    BY DEF FlushIf
  <1>4. QED
    BY <1>1, <1>2, <1>3 DEF Grows

LEMMA SettleBegin ==
    ASSUME TypeOK, TypeOK', SettleInv, NEW u \in Threads, BeginCall(u)
    PROVE  SettleInv'
  <1>1. UNCHANGED <<m_IsInitialized, m_Out, m_Flushed, m_Queue, m_LastQueuedSequence, m_LastWrittenSequence,
                    entries, wpc, lost>>
    BY DEF BeginCall, Log, WaitForQueuedEntries, BeginUnqueued, outVars, seqVars, turnVars, historyVars
  <1>2. Done' = Done /\ Batch' = Batch
    BY <1>1 DEF Done, HoldsWritten, Batch
  <1>3. \E label \in Labels \ {"await"} : Goto(u, label)
    BY DEF BeginCall, Log, WaitForQueuedEntries, BeginUnqueued, WaitUntil, Labels
  <1>4. \E op, config, seq : pc[u] = "idle" /\ Remember(u, op, config, seq, FALSE)
    BY DEF BeginCall, Log, WaitForQueuedEntries, BeginUnqueued, Begin, MayCall
  <1>5. \A t \in Threads : pc'[t] = "await" => pc[t] = "await" /\ call'[t] = call[t]
    BY <1>3, <1>4 DEF Goto, Remember, TypeOK, CallTypeOK
  <1>6. ~m_IsInitialized' => m_Flushed' = Len(m_Out)'
    BY <1>1 DEF SettleInv
  <1>7. QED
    BY <1>1, <1>2, <1>5, <1>6, SameGrows, SettleFrame

(***************************************************************************)
(* The calls' steps leave the worker where its batch is.                   *)
(***************************************************************************)
LEMMA CallKeepsBatch ==
    ASSUME TypeOK, MutexInv, NEW u \in Threads, CallStep(u)
    PROVE  Batch' = Batch /\ Done' = Done
  <1>1. UNCHANGED <<entries, m_LastWrittenSequence>>
    <2>1. CASE QueuePush(u)
      BY <2>1 DEF QueuePush, turnVars
    <2>2. CASE ~QueuePush(u)
      BY <2>2, CallFrame
    <2>3. QED
      BY <2>1, <2>2
  <1>2. wpc' = wpc \/ (wpc \in {"asleep", "none", "ended"} /\ wpc' \in {"loop", "none"})
    <2>1. CASE \/ Barrier(u) \/ FormatEntry(u) \/ QueueDrop(u) \/ QueueWait(u) \/ QueueRefuse(u)
               \/ Drain(u) \/ Await(u) \/ WriteSync(u)
      BY <2>1 DEF Barrier, FormatEntry, QueueDrop, QueueWait, QueueRefuse, Drain, Await, WriteSync
    <2>2. CASE \/ Flush(u) \/ Close(u) \/ Finalize(u) \/ Open(u) \/ Initialize(u) \/ Reconfigure(u)
               \/ RunDeferredWork(u)
      BY <2>2 DEF Flush, Close, Finalize, Open, Initialize, Reconfigure, RunDeferredWork, lockedUnchanged
    <2>3. CASE QueuePush(u) \/ KeepWorker(u) \/ StopWorker(u)
      BY <2>3 DEF QueuePush, KeepWorker, StopWorker, NotifyWorker
    <2>4. CASE NoWorker(u) \/ WantWorker(u) \/ JoinWorker(u) \/ StartWorker(u) \/ ActivateAsync(u)
      BY <2>4 DEF NoWorker, WantWorker, JoinWorker, StartWorker, ActivateAsync, MutexInv
    <2>5. QED
      BY <2>1, <2>2, <2>3, <2>4 DEF CallStep
  <1>3. QED
    BY <1>1, <1>2 DEF Batch, Done, HoldsWritten

(***************************************************************************)
(* The steps that write or flush: closing flushes.                         *)
(***************************************************************************)
LEMMA OutputGrows ==
    ASSUME TypeOK, TypeOK', SettleInv, "flush" \notin Failures, NEW u \in Threads,
           \/ WriteSync(u) \/ Flush(u) \/ Close(u) \/ Finalize(u) \/ Open(u) \/ Initialize(u)
           \/ Reconfigure(u)
    PROVE  Grows /\ (~m_IsInitialized' => m_Flushed' = Len(m_Out)')
  <1>1. /\ m_IsInitialized \in BOOLEAN /\ m_Out \in Seq(Entry) /\ m_Config \in Configs
        /\ (~m_IsInitialized => m_Flushed = Len(m_Out))
    BY DEF TypeOK, OutTypeOK, SettleInv
  <1>2. /\ \A c \in Configs, seq \in Nat : EntryOf(u, c, seq) \in Entry
        /\ \A k \in {"startup", "shutdown", "drops"}, c \in Configs : OwnLine(k, u, c) \in Entry
        /\ call[u].config \in Configs /\ 0 \in Nat
    BY EntryType, CallFieldsType
  <1>3. \A cond, out, mustReport :
            FlushIf(cond, out, mustReport) => m_Flushed' = IF cond THEN Len(out) ELSE m_Flushed
    BY DEF FlushIf
  <1>4. CASE WriteSync(u)
    <2>1. lost' = lost /\ m_IsInitialized' = m_IsInitialized
      BY <1>4 DEF WriteSync, historyVars
    <2>2. CASE m_IsInitialized
      <3>1. /\ m_Out' = Append(m_Out, EntryOf(u, m_Config, 0))
            /\ FlushIf(FlushesEntry(m_Config, call[u].op = "LogUrgent"), m_Out', FALSE)
        BY <1>4, <2>2 DEF WriteSync
      <3>2. QED
        BY <1>1, <1>2, <2>1, <2>2, <3>1, FlushGrows
    <2>3. CASE ~m_IsInitialized
      <3>1. UNCHANGED <<m_Out, m_Flushed>>
        BY <1>4, <2>3 DEF WriteSync
      <3>2. QED
        BY <1>1, <2>1, <3>1, SameGrows
    <2>4. QED
      BY <2>2, <2>3
  <1>5. CASE Flush(u) \/ Reconfigure(u)
    <2>1. /\ UNCHANGED <<m_Out, m_IsInitialized, lost>>
          /\ FlushIf(m_IsInitialized, m_Out, FALSE)
      BY <1>5 DEF Flush, Reconfigure, lockedUnchanged
    <2>2. Grows
      <3>1. FlushIf(m_IsInitialized, m_Out', FALSE)
        BY <2>1
      <3>2. QED
        BY <2>1, <3>1, FlushGrows
    <2>3. QED
      BY <1>1, <1>3, <2>1, <2>2
  <1>6. CASE Close(u) \/ Finalize(u)
    <2>1. /\ lost' = lost /\ FlushIf(m_IsInitialized, m_Out', FALSE)
          /\ m_Out' = m_Out \/ m_Out' = Append(m_Out, OwnLine("shutdown", u, m_Config))
          /\ ~m_IsInitialized => m_Out' = m_Out
      BY <1>6 DEF Close, Finalize, CloseUnlocked, lockedUnchanged
    <2>2. Grows
      BY <1>1, <1>2, <2>1, FlushGrows
    <2>3. m_Flushed' = IF m_IsInitialized THEN Len(m_Out') ELSE m_Flushed
      BY <2>1 DEF FlushIf
    <2>4. CASE m_IsInitialized
      BY <2>2, <2>3, <2>4
    <2>5. CASE ~m_IsInitialized
      <3>1. m_Out' = m_Out /\ m_Flushed' = m_Flushed
        BY <2>1, <2>3, <2>5
      <3>2. QED
        BY <1>1, <2>2, <2>5, <3>1
    <2>6. QED
      BY <2>4, <2>5
  <1>7. CASE Open(u)
    <2>1. /\ UNCHANGED <<m_Out, m_Flushed, lost>>
          /\ m_IsInitialized' = TRUE \/ ~m_IsInitialized
      BY <1>7 DEF Open, lockedUnchanged
    <2>2. QED
      BY <1>1, <2>1, SameGrows
  <1>8. CASE Initialize(u)
    <2>1. lost' = lost
      BY <1>8 DEF Initialize, lockedUnchanged
    <2>2. CASE UNCHANGED <<m_IsInitialized, m_Out, m_Flushed>>
      BY <1>1, <2>1, <2>2, SameGrows
    <2>3. CASE /\ m_IsInitialized' = TRUE
               /\ m_Out' = Append(m_Out, OwnLine("startup", u, call[u].config))
               /\ FlushIf(FlushesEntry(call[u].config, FALSE), m_Out', FALSE)
      BY <1>1, <1>2, <2>1, <2>3, FlushGrows
    <2>4. QED
      BY <1>8, <2>2, <2>3 DEF Initialize, outVars
  <1>9. QED
    BY <1>4, <1>5, <1>6, <1>7, <1>8

(***************************************************************************)
(* Who waits for the entry it queues, waits for one numbered above those   *)
(* the worker is done with, and marked urgent.                             *)
(***************************************************************************)
LEMMA SettlePush ==
    ASSUME QueueInv, TypeOK', SettleInv, Batch' = Batch, Done' = Done, NEW u \in Threads, QueuePush(u)
    PROVE  SettleInv'
  <1> DEFINE number == m_LastQueuedSequence + 1
             entry == EntryOf(u, call[u].config, number)
  <1>0. TypeOK
    BY DEF QueueInv
  <1>1. /\ m_Queue \in Seq(Entry) /\ m_LastQueuedSequence \in Nat /\ number \in Nat
        /\ Len(m_Queue) \in Nat /\ Len(entries) \in Nat /\ m_LastWrittenSequence \in Nat /\ Done \in Nat
        /\ \A t \in Threads : call[t].seq \in Nat
    BY <1>0, SettleTypes
  <1>2. /\ m_Queue' = Append(m_Queue, entry) /\ m_LastQueuedSequence' = number
        /\ UNCHANGED <<m_IsInitialized, m_Out, m_Flushed, lost>>
        /\ \/ /\ call[u].op = "LogUrgent" /\ Goto(u, "await")
              /\ Remember(u, call[u].op, call[u].config, number, FALSE)
           \/ Return(u)
    BY DEF QueuePush, outVars, historyVars
  <1>3. entry.seq = number /\ (call[u].op = "LogUrgent" => entry.urgent)
    BY DEF EntryOf
  <1>4. Done <= m_LastQueuedSequence
    BY <1>1 DEF QueueInv, SeqInv, InFlight, HoldsBatch, Done, HoldsWritten
  <1>5. \A i \in 1..Len(Batch) : Batch[i].seq # number
    <2>1. ASSUME NEW i \in 1..Len(Batch)
          PROVE  Batch[i].seq # number
      <3>1. wpc = "write" /\ i \in 1..Len(entries) /\ Batch[i] = entries[i]
        BY <1>1 DEF Batch
      <3>2. Batch[i].seq = m_LastWrittenSequence + i /\ InFlight = Len(entries)
        BY <3>1 DEF QueueInv, SeqInv, HoldsBatch, InFlight
      <3>3. QED
        BY <1>1, <3>1, <3>2 DEF QueueInv, SeqInv
    <2>2. QED
      BY <2>1
  <1>6. \A i \in 1..Len(m_Queue) : m_Queue[i].seq # number
    <2>1. InFlight \in Nat
      BY <1>1 DEF InFlight
    <2>2. QED
      BY <1>1, <2>1 DEF QueueInv, SeqInv
  <1> HIDE DEF entry
  <1>7. \A i \in 1..Len(m_Queue') : \/ i \in 1..Len(m_Queue) /\ m_Queue'[i] = m_Queue[i]
                                    \/ m_Queue'[i] = entry
    BY <1>1, <1>2
  <1>8. Grows
    BY <1>0, <1>2, SameGrows
  <1>9. \A seq : (Written(seq) => Written(seq)') /\ (IsSettled(seq) => IsSettled(seq)')
    BY <1>0, <1>8, SettledStays
  <1>10. ASSUME NEW t \in Threads, pc'[t] = "await"
         PROVE  AwaitInv(t)'
    <2>1. CASE pc[t] = "await" /\ call'[t] = call[t]
      <3>1. AwaitInv(t)
        BY <2>1 DEF SettleInv
      <3>2. call[t].seq # number
        BY <1>1, <3>1 DEF AwaitInv
      <3>3. \A i \in 1..Len(m_Queue') : m_Queue'[i].seq = call[t].seq => m_Queue'[i].urgent
        BY <1>3, <1>7, <3>1, <3>2 DEF AwaitInv
      <3>4. call[t].seq <= m_LastQueuedSequence'
        BY <1>1, <1>2, <3>1 DEF AwaitInv
      <3>5. QED
        BY <1>9, <2>1, <3>1, <3>3, <3>4 DEF AwaitInv
    <2>2. CASE call'[t].seq = number /\ call[t].op = "LogUrgent" /\ t = u
      <3>1. \A i \in 1..Len(m_Queue') : m_Queue'[i].seq = number => m_Queue'[i].urgent
        BY <1>3, <1>6, <1>7, <2>2
      <3>2. ~(number <= Done')
        BY <1>1, <1>4
      <3>3. QED
        BY <1>1, <1>2, <1>5, <2>2, <3>1, <3>2 DEF AwaitInv
    <2>3. QED
      BY <1>0, <1>2, <1>10, <2>1, <2>2 DEF Goto, Return, Remember, TypeOK, CallTypeOK
  <1>11. QED
    BY <1>2, <1>8, <1>9, <1>10 DEF SettleInv, Grows

LEMMA SettleCall ==
    ASSUME QueueInv, TypeOK', MutexInv, SettleInv, "flush" \notin Failures, NEW u \in Threads, CallStep(u)
    PROVE  SettleInv'
  <1>0. TypeOK /\ Batch' = Batch /\ Done' = Done
    BY CallKeepsBatch DEF QueueInv
  <1>1. CASE QueuePush(u)
    BY <1>0, <1>1, SettlePush
  <1>2. ASSUME ~QueuePush(u)
        PROVE  /\ UNCHANGED <<m_Queue, m_LastQueuedSequence>>
               /\ \A t \in Threads : pc'[t] = "await" => pc[t] = "await" /\ call'[t] = call[t]
    <2>1. UNCHANGED <<m_Queue, m_LastQueuedSequence>>
      BY <1>0, <1>2, CallFrame
    <2>2. /\ \/ pc' = pc /\ call' = call
             \/ \E label \in Labels \ {"await"} : Goto(u, label)
          /\ \/ call' = call \/ Return(u)
             \/ \E op, config, seq, async : Remember(u, op, config, seq, async)
      <3>1. CASE Barrier(u) \/ FormatEntry(u) \/ QueueDrop(u) \/ QueueWait(u)
        BY <3>1 DEF Barrier, FormatEntry, QueueDrop, QueueWait, WaitUntil, Return, Labels
      <3>2. CASE QueueRefuse(u) \/ Drain(u) \/ Await(u) \/ WriteSync(u)
        BY <3>2 DEF QueueRefuse, Drain, Await, WriteSync, WaitUntil, Return, Labels
      <3>3. CASE Flush(u) \/ Close(u) \/ Finalize(u) \/ Open(u) \/ Initialize(u) \/ Reconfigure(u)
        BY <3>3 DEF Flush, Close, Finalize, Open, Initialize, Reconfigure, AtLock, lockedUnchanged, Labels
      <3>4. CASE RunDeferredWork(u)
        BY <3>4 DEF RunDeferredWork, Return, Labels
      <3>5. CASE KeepWorker(u) \/ StopWorker(u) \/ NoWorker(u) \/ WantWorker(u)
        BY <3>5 DEF KeepWorker, StopWorker, NoWorker, WantWorker, Return, Labels
      <3>6. CASE JoinWorker(u) \/ StartWorker(u) \/ ActivateAsync(u)
        BY <3>6 DEF JoinWorker, StartWorker, ActivateAsync, Return, Labels
      <3>7. QED
        BY <1>2, <3>1, <3>2, <3>3, <3>4, <3>5, <3>6 DEF CallStep
    <2>3. QED
      BY <1>0, <2>1, <2>2 DEF Goto, Return, Remember, TypeOK, CallTypeOK
  <1>3. CASE ~QueuePush(u) /\ (\/ WriteSync(u) \/ Flush(u) \/ Close(u) \/ Finalize(u) \/ Open(u)
                               \/ Initialize(u) \/ Reconfigure(u))
    BY <1>0, <1>2, <1>3, OutputGrows, SettleFrame
  <1>4. ASSUME ~QueuePush(u), ~WriteSync(u), ~Flush(u), ~Close(u), ~Finalize(u), ~Open(u),
               ~Initialize(u), ~Reconfigure(u)
        PROVE  SettleInv'
    <2>1. UNCHANGED <<m_IsInitialized, m_Out, m_Flushed, lost>>
      <3>1. CASE \/ Barrier(u) \/ FormatEntry(u) \/ QueueDrop(u) \/ QueueWait(u) \/ QueueRefuse(u)
                 \/ Drain(u) \/ Await(u) \/ RunDeferredWork(u)
        BY <3>1 DEF Barrier, FormatEntry, QueueDrop, QueueWait, QueueRefuse, Drain, Await, RunDeferredWork,
                    outVars, historyVars
      <3>2. CASE \/ KeepWorker(u) \/ StopWorker(u) \/ NoWorker(u) \/ WantWorker(u)
                 \/ JoinWorker(u) \/ StartWorker(u) \/ ActivateAsync(u)
        BY <3>2 DEF KeepWorker, StopWorker, NoWorker, WantWorker, JoinWorker, StartWorker, ActivateAsync,
                    updateUnchanged, outVars, historyVars
      <3>3. QED
        BY <1>4, <3>1, <3>2 DEF CallStep
    <2>2. ~m_IsInitialized' => m_Flushed' = Len(m_Out)'
      BY <2>1 DEF SettleInv
    <2>3. QED
      BY <1>0, <1>2, <1>4, <2>1, <2>2, SameGrows, SettleFrame
  <1>5. QED
    BY <1>1, <1>3, <1>4

(***************************************************************************)
(* The batch is written as a whole, or lost while the output is closed;    *)
(* if somebody waits for one of its entries it is flushed.                 *)
(***************************************************************************)
LEMMA SettleWrite ==
    ASSUME QueueInv, TypeOK', SettleInv, WriteQueuedEntries, "flush" \notin Failures, "throw" \notin Failures
    PROVE  SettleInv'
  <1>0. TypeOK
    BY DEF QueueInv
  <1>1. /\ m_Out \in Seq(Entry) /\ entries \in Seq(Entry) /\ m_IsInitialized \in BOOLEAN
        /\ Len(m_Out) \in Nat /\ Len(entries) \in Nat /\ m_Flushed \in Nat /\ m_LastWrittenSequence \in Nat
        /\ \A t \in Threads : call[t].seq \in Nat
    BY <1>0, SettleTypes DEF TypeOK, OutTypeOK
  <1>2. /\ wpc = "write" /\ wpc' = "deferred"
        /\ UNCHANGED <<m_IsInitialized, m_Queue, m_LastQueuedSequence, m_LastWrittenSequence, entries, pc, call>>
    BY DEF WriteQueuedEntries, seqVars, callVars
  <1>3. /\ Done = m_LastWrittenSequence /\ Done' = m_LastWrittenSequence + Len(entries)
        /\ Batch = entries /\ Batch' = <<>>
    BY <1>2 DEF Done, HoldsWritten, Batch
  <1>4. \A i \in 1..Len(entries) : entries[i].seq = m_LastWrittenSequence + i
    BY <1>2 DEF QueueInv, SeqInv, HoldsBatch
  <1>5. PICK k \in WrittenCounts, marks \in BOOLEAN :
            /\ m_Out' = m_Out \o BatchLines(k, marks)
            /\ lost' = lost \cup {entries[i].seq : i \in (k+1)..Len(entries)}
            /\ m_Flushed' = IF m_IsInitialized /\ FlushesBatch(\E i \in 1..k : entries[i].urgent)
                            THEN Len(m_Out') ELSE m_Flushed
    BY DEF WriteQueuedEntries, FlushIf
  <1>6. k = IF m_IsInitialized THEN Len(entries) ELSE 0
    BY DEF WrittenCounts
  <1> DEFINE v == BatchLines(k, marks)
  <1>7. v \in Seq(Entry) /\ Len(v) >= k /\ \A i \in 1..k : v[i] = entries[i]
    <2>1. k \in 0..Len(entries)
      BY <1>1, <1>6
    <2>2. QED
      BY <1>0, <2>1, BatchLinesType
  <1>8. ~m_IsInitialized => v = <<>>
    BY <1>1, <1>6 DEF BatchLines
  <1> HIDE DEF v
  <1>9. /\ Len(m_Out') = Len(m_Out) + Len(v) /\ Len(v) \in Nat
        /\ \A i \in 1..Len(m_Out) : m_Out'[i] = m_Out[i]
        /\ \A i \in 1..k : m_Out'[Len(m_Out) + i] = entries[i]
    <2>1. m_Out' = m_Out \o v
      BY <1>5 DEF v
    <2>2. k \in Nat
      BY <1>1, <1>6
    <2>3. QED
      BY <1>1, <1>7, <2>1, <2>2
  <1>10. m_Flushed' = Len(m_Out') \/ m_Flushed' = m_Flushed
    BY <1>5
  <1>11. Grows
    <2>1. m_Flushed <= m_Flushed' /\ m_Flushed' <= Len(m_Out') /\ Len(m_Out) <= Len(m_Out')
      BY <1>1, <1>9, <1>10 DEF SettleInv
    <2>2. \A seq \in lost : seq \in lost'
      BY <1>5
    <2>3. QED
      BY <1>9, <2>1, <2>2 DEF Grows
  <1>12. ~m_IsInitialized' => m_Flushed' = Len(m_Out)'
    BY <1>1, <1>2, <1>5, <1>8, <1>9 DEF SettleInv
  <1>13. ASSUME NEW s \in 1..Done'
         PROVE  Written(s)'
    <2>1. CASE s \in 1..Done
      BY <1>0, <1>11, <2>1, SettledStays DEF SettleInv
    <2>2. CASE s \notin 1..Done
      <3> DEFINE i == s - m_LastWrittenSequence
      <3>1. i \in 1..Len(entries) /\ s = m_LastWrittenSequence + i
        BY <1>1, <1>3, <2>2
      <3> HIDE DEF i
      <3>2. entries[i].seq = s
        BY <1>4, <3>1
      <3>3. CASE m_IsInitialized
        <4>1. i \in 1..k /\ Len(m_Out) + i \in 1..Len(m_Out')
          BY <1>1, <1>6, <1>7, <1>9, <3>1, <3>3
        <4>2. m_Out'[Len(m_Out) + i].seq = s
          BY <1>9, <3>2, <4>1
        <4>3. QED
          BY <4>1, <4>2 DEF Written
      <3>4. CASE ~m_IsInitialized
        BY <1>5, <1>6, <3>1, <3>2, <3>4 DEF Written
      <3>5. QED
        BY <3>3, <3>4
    <2>3. QED
      BY <2>1, <2>2
  <1>14. ASSUME NEW t \in Threads, pc'[t] = "await"
         PROVE  AwaitInv(t)'
    <2>1. AwaitInv(t) /\ call' = call
      BY <1>2, <1>14 DEF SettleInv
    <2>2. ASSUME call[t].seq <= Done', NEW s \in 1..call[t].seq
          PROVE  IsSettled(s)'
      <3>1. CASE call[t].seq <= Done
        BY <1>0, <1>11, <2>1, <3>1, SettledStays DEF AwaitInv
      <3>2. CASE ~(call[t].seq <= Done)
        <4> DEFINE i == call[t].seq - m_LastWrittenSequence
        <4>1. i \in 1..Len(entries) /\ call[t].seq = m_LastWrittenSequence + i
          BY <1>1, <1>3, <2>2, <3>2
        <4>2. entries[i].urgent
          BY <1>3, <1>4, <2>1, <4>1 DEF AwaitInv
        <4> HIDE DEF i
        <4>3. m_Flushed' = Len(m_Out)'
          <5>1. CASE m_IsInitialized
            <6>1. \E j \in 1..k : entries[j].urgent
              BY <1>6, <4>1, <4>2, <5>1
            <6>2. FlushesBatch(\E j \in 1..k : entries[j].urgent)
              BY <6>1 DEF FlushesBatch
            <6>3. QED
              BY <1>5, <5>1, <6>2
          <5>2. CASE ~m_IsInitialized
            BY <1>2, <1>12, <5>2
          <5>3. QED
            BY <5>1, <5>2
        <4>4. s \in 1..Done'
          BY <1>1, <1>3, <2>2
        <4>5. QED
          BY <1>0, <1>11, <1>13, <4>3, <4>4, SettledStays
      <3>3. QED
        BY <3>1, <3>2
    <2>3. \A i \in 1..Len(Batch') : Batch'[i].seq = call[t].seq => Batch'[i].urgent
      BY <1>3
    <2>4. QED
      BY <1>2, <2>1, <2>2, <2>3 DEF AwaitInv
  <1>15. QED
    BY <1>11, <1>12, <1>13, <1>14 DEF SettleInv, Grows

LEMMA SettleTake ==
    ASSUME TypeOK, TypeOK', SettleInv, WorkerTake
    PROVE  SettleInv'
  <1>1. /\ wpc = "loop" /\ wpc' \in {"write", "wake"} /\ (wpc' = "wake" => m_Queue = <<>>)
        /\ entries' = m_Queue /\ m_Queue' = <<>>
        /\ UNCHANGED <<m_IsInitialized, m_Out, m_Flushed, m_LastQueuedSequence, m_LastWrittenSequence, lost,
                       pc, call>>
    BY DEF WorkerTake, outVars, historyVars
  <1>2. Done' = Done /\ Batch' = m_Queue
    BY <1>1 DEF Done, HoldsWritten, Batch
  <1>3. Grows
    BY <1>1, SameGrows
  <1>4. \A seq : (Written(seq) => Written(seq)') /\ (IsSettled(seq) => IsSettled(seq)')
    BY <1>3, SettledStays
  <1>5. \A t \in Threads : AwaitInv(t) => AwaitInv(t)'
    BY <1>1, <1>2, <1>4 DEF AwaitInv
  <1>6. QED
    BY <1>1, <1>2, <1>4, <1>5 DEF SettleInv

LEMMA SettleWorker ==
    ASSUME QueueInv, QueueInv', SettleInv, WorkerStep, "flush" \notin Failures, "throw" \notin Failures
    PROVE  SettleInv'
  <1>0. TypeOK /\ TypeOK' /\ m_IsInitialized \in BOOLEAN
    BY DEF QueueInv, TypeOK, OutTypeOK
  <1>1. CASE WorkerTake
    BY <1>0, <1>1, SettleTake
  <1>2. CASE WriteQueuedEntries
    BY <1>0, <1>2, SettleWrite
  <1>3. CASE MarkWritten
    <2>1. /\ wpc = "mark" /\ wpc' = "callbacks"
          /\ UNCHANGED <<m_IsInitialized, m_Out, m_Flushed, m_Queue, m_LastQueuedSequence, entries, lost, pc, call>>
      BY <1>3 DEF MarkWritten, outVars, turnVars, historyVars
    <2>2. m_LastWrittenSequence' = m_LastWrittenSequence + Len(entries)
      <3>1. InFlight = Len(entries) /\ InFlight' = 0
        BY <2>1 DEF InFlight, HoldsBatch
      <3>2. /\ Len(m_Queue) \in Nat /\ Len(entries) \in Nat
            /\ m_LastWrittenSequence \in Nat /\ m_LastWrittenSequence' \in Nat
        BY <1>0, SettleTypes DEF TypeOK, QueueTypeOK
      <3>3. QED
        BY <2>1, <3>1, <3>2 DEF QueueInv, SeqInv
    <2>3. Done' = Done /\ Batch' = Batch
      BY <2>1, <2>2 DEF Done, HoldsWritten, Batch
    <2>4. ~m_IsInitialized' => m_Flushed' = Len(m_Out)'
      BY <2>1 DEF SettleInv
    <2>5. QED
      BY <1>0, <2>1, <2>3, <2>4, SameGrows, SettleFrame
  <1>4. CASE WorkerWake
    <2>1. /\ wpc = "wake" /\ wpc' \in {"wakeDeferred", "turned"}
          /\ UNCHANGED <<m_IsInitialized, m_Out, m_Queue, m_LastQueuedSequence, m_LastWrittenSequence, entries,
                         lost, pc, call>>
          /\ m_Flushed' = m_Flushed \/ (m_IsInitialized /\ m_Flushed' = Len(m_Out))
      BY <1>0, <1>4 DEF WorkerWake, FlushIf, seqVars, turnVars, callVars, historyVars
    <2>2. Done' = Done /\ Batch' = Batch
      BY <2>1 DEF Done, HoldsWritten, Batch
    <2>3. Grows
      BY <1>0, <2>1, SettleTypes DEF Grows, SettleInv
    <2>4. ~m_IsInitialized' => m_Flushed' = Len(m_Out)'
      BY <1>0, <2>1 DEF SettleInv
    <2>5. QED
      BY <1>0, <2>1, <2>2, <2>3, <2>4, SettleFrame
  <1>5. CASE \/ WorkerSleep \/ WorkerTimeout \/ WorkerDeferred \/ HandlerReturned \/ WorkerTurned
             \/ UpdateWorkerFromWorker
    <2>1. /\ UNCHANGED <<m_IsInitialized, m_Out, m_Flushed, m_Queue, m_LastQueuedSequence, m_LastWrittenSequence,
                         lost>>
          /\ (pc' = pc /\ call' = call) \/ Return(W)
      BY <1>5 DEF WorkerSleep, WorkerTimeout, WorkerDeferred, HandlerReturned, WorkerTurned,
                  UpdateWorkerFromWorker, updateUnchanged, outVars, seqVars, callVars, historyVars
    <2>2. Done' = Done /\ Batch' = Batch
      <3>1. CASE UpdateWorkerFromWorker
        BY <3>1 DEF UpdateWorkerFromWorker, NotifyWorker, updateUnchanged, turnVars, seqVars, Done, HoldsWritten,
                    Batch
      <3>2. CASE WorkerSleep \/ WorkerTimeout \/ WorkerDeferred \/ HandlerReturned
        <4>1. UNCHANGED <<entries, m_LastWrittenSequence>> /\ wpc # "write" /\ wpc' # "write"
              /\ (HoldsWritten' <=> HoldsWritten)
          BY <3>2 DEF WorkerSleep, WorkerTimeout, WorkerDeferred, HandlerReturned, seqVars, turnVars, HoldsWritten
        <4>2. QED
          BY <4>1 DEF Done, Batch
      <3>3. CASE WorkerTurned
        <4>1. wpc = "turned" /\ wpc' \in {"ended", "loop"}
          BY <3>3 DEF WorkerTurned
        <4>2. QED
          BY <2>1, <4>1 DEF Done, HoldsWritten, Batch
      <3>4. QED
        BY <1>5, <3>1, <3>2, <3>3
    <2>3. \A t \in Threads : pc'[t] = "await" => pc[t] = "await" /\ call'[t] = call[t]
      BY <1>0, <2>1 DEF Return, Goto, TypeOK, CallTypeOK
    <2>4. ~m_IsInitialized' => m_Flushed' = Len(m_Out)'
      BY <2>1 DEF SettleInv
    <2>5. QED
      BY <1>0, <2>1, <2>2, <2>3, <2>4, SameGrows, SettleFrame
  <1>6. QED
    BY <1>1, <1>2, <1>3, <1>4, <1>5 DEF WorkerStep

LEMMA SettleStep ==
    ASSUME QueueInv, QueueInv', MutexInv, SettleInv, [Next]_vars,
           "flush" \notin Failures, "throw" \notin Failures
    PROVE  SettleInv'
  <1>1. TypeOK /\ TypeOK'
    BY DEF QueueInv
  <1>2. CASE UNCHANGED vars
    BY <1>2 DEF vars, outVars, seqVars, turnVars, callVars, historyVars, SettleInv, Done, HoldsWritten, Written,
                AwaitInv, IsSettled, Batch
  <1>3. QED
    BY <1>1, <1>2, SettleBegin, SettleCall, SettleWorker DEF Next, Returned

\* A step of a call moves its own thread only.
LEMMA CallMoves ==
    ASSUME NEW u \in Threads, CallStep(u)
    PROVE  pc' = pc \/ \E label \in Labels : Goto(u, label)
  <1>1. CASE Barrier(u) \/ FormatEntry(u) \/ QueueDrop(u) \/ QueueWait(u) \/ QueuePush(u)
    BY <1>1 DEF Barrier, FormatEntry, QueueDrop, QueueWait, QueuePush, WaitUntil, Return, Labels
  <1>2. CASE QueueRefuse(u) \/ Drain(u) \/ Await(u) \/ WriteSync(u)
    BY <1>2 DEF QueueRefuse, Drain, Await, WriteSync, WaitUntil, Return, Labels
  <1>3. CASE Flush(u) \/ Close(u) \/ Finalize(u) \/ Open(u) \/ Initialize(u) \/ Reconfigure(u)
    BY <1>3 DEF Flush, Close, Finalize, Open, Initialize, Reconfigure, AtLock, Labels
  <1>4. CASE RunDeferredWork(u)
    BY <1>4 DEF RunDeferredWork, Return, Labels
  <1>5. CASE KeepWorker(u) \/ StopWorker(u) \/ NoWorker(u) \/ WantWorker(u)
    BY <1>5 DEF KeepWorker, StopWorker, NoWorker, WantWorker, Return, Labels
  <1>6. CASE JoinWorker(u) \/ StartWorker(u) \/ ActivateAsync(u)
    BY <1>6 DEF JoinWorker, StartWorker, ActivateAsync, Return, Labels
  <1>7. QED
    BY <1>1, <1>2, <1>3, <1>4, <1>5, <1>6 DEF CallStep

(***************************************************************************)
(* Who waits for the worker finds the entries queued before out of the     *)
(* logger's buffer, while neither a flush nor the writing of an entry      *)
(* fails, for any flush mode and any number of threads and calls: the      *)
(* worker flushes a batch somebody waits for, and the methods that wait    *)
(* flush what the worker left in the buffer.                               *)
(***************************************************************************)
THEOREM WaitsAreCovered ==
    ASSUME "flush" \notin Failures, "throw" \notin Failures
    PROVE  Spec => WaitsCoverQueued
  <1> DEFINE Inv == QueueInv /\ MutexInv /\ WaitInv /\ SettleInv
             Covered(t) ==
                /\ pc[t] = "await" /\ pc'[t] = "idle" => \A seq \in 1..call[t].seq : IsSettled(seq)
                /\ pc[t] = "locked" /\ pc'[t] = "deferred" => \A seq \in 1..call[t].seq : IsSettled(seq)'
  <1>1. Init => Inv
    BY TypeInit, QueueInit, MutexInit, WaitInit, SettleInit DEF QueueInv
  <1>2. Inv /\ [Next]_vars => Inv'
    BY TypeStep, QueueStep, MutexStep, WaitStep, SettleStep DEF QueueInv
  <1>3. Inv /\ Inv' /\ [Next]_vars => [\A t \in App : Covered(t)]_vars
    <2> SUFFICES ASSUME Inv, Inv', [Next]_vars, NEW t \in App
                 PROVE  Covered(t)
      OBVIOUS
    <2>0. TypeOK /\ TypeOK' /\ t \in Threads /\ t # W /\ pc \in [Threads -> Labels]
      BY ThreadsAssumption DEF QueueInv, Threads, TypeOK, CallTypeOK
    <2>1. CASE pc'[t] = pc[t]
      BY <2>1
    <2>2. ASSUME pc'[t] # pc[t]
          PROVE  BeginCall(t) \/ CallStep(t)
      <3>1. ASSUME NEW u \in Threads, BeginCall(u)
            PROVE  \E label \in Labels : Goto(u, label)
        BY <3>1 DEF BeginCall, Log, WaitForQueuedEntries, BeginUnqueued, WaitUntil, Labels
      <3>2. ASSUME NEW u \in Threads, CallStep(u)
            PROVE  pc' = pc \/ \E label \in Labels : Goto(u, label)
        BY <3>2, CallMoves
      <3>3. CASE WorkerStep
        <4>1. pc' = pc \/ Goto(W, "idle")
          BY <3>3 DEF WorkerStep, WorkerTake, WorkerSleep, WorkerTimeout, WriteQueuedEntries, WorkerDeferred,
                      HandlerReturned, MarkWritten, WorkerWake, WorkerTurned, UpdateWorkerFromWorker, callVars,
                      Return
        <4>2. QED
          BY <2>0, <2>2, <4>1 DEF Goto
      <3>4. CASE UNCHANGED vars
        BY <2>2, <3>4 DEF vars, callVars
      <3>5. QED
        BY <2>0, <2>2, <3>1, <3>2, <3>3, <3>4 DEF Next, Returned, Goto
    <2>3. CASE BeginCall(t)
      <3>1. pc[t] = "idle"
        BY <2>3 DEF BeginCall, Log, WaitForQueuedEntries, BeginUnqueued, Begin, MayCall
      <3>2. QED
        BY <3>1
    <2>4. CASE CallStep(t) /\ pc[t] = "await"
      <3>1. Await(t)
        BY <2>4 DEF CallStep, Barrier, FormatEntry, QueueDrop, QueueWait, QueuePush, QueueRefuse, Drain,
                    WriteSync, Flush, Close, Finalize, Open, Initialize, Reconfigure, AtLock, RunDeferredWork,
                    KeepWorker, StopWorker, NoWorker, WantWorker, Decides, JoinWorker, StartWorker,
                    ActivateAsync
      <3>2. SUFFICES ASSUME pc'[t] = "idle"
                     PROVE  \A seq \in 1..call[t].seq : IsSettled(seq)
        BY <2>4
      <3>3. call[t].seq <= m_LastWrittenSequence
        <4>1. IsWritten(call[t].seq)
          BY <2>4, <3>1, <3>2 DEF Await
        <4>2. QED
          BY <2>0, <4>1, SettleTypes DEF IsWritten
      <3>4. call[t].seq <= Done
        BY <2>0, <3>3, SettleTypes
      <3>5. QED
        BY <2>0, <2>4, <3>4 DEF SettleInv, AwaitInv
    <2>5. CASE CallStep(t) /\ pc[t] = "locked"
      <3>1. Flush(t) \/ Close(t) \/ Finalize(t) \/ Open(t) \/ Initialize(t) \/ Reconfigure(t)
        BY <2>5 DEF CallStep, Barrier, FormatEntry, QueueDrop, QueueWait, QueuePush, QueueRefuse, Drain, Await,
                    WriteSync, RunDeferredWork, KeepWorker, StopWorker, NoWorker, WantWorker, Decides,
                    JoinWorker, StartWorker, ActivateAsync
      <3>2. SUFFICES ASSUME NEW seq \in 1..call[t].seq
                     PROVE  IsSettled(seq)'
        BY <2>5
      <3>3. seq \in 1..Done
        BY <2>0, <2>5, SettleTypes DEF WaitInv
      <3>4. Grows /\ (~m_IsInitialized' => m_Flushed' = Len(m_Out)')
        BY <2>0, <3>1, OutputGrows
      <3>5. Written(seq)'
        BY <2>0, <3>3, <3>4, SettledStays DEF SettleInv
      <3>6. CASE Open(t) \/ Initialize(t)
        <4>1. call[t].seq = 0
          BY <2>0, <2>5, <3>6 DEF Open, Initialize, AtLock, WaitInv
        <4>2. QED
          BY <4>1
      <3>7. CASE Flush(t) \/ Close(t) \/ Finalize(t) \/ Reconfigure(t)
        <4>1. m_Flushed' = Len(m_Out)'
          <5>1. CASE m_IsInitialized
            BY <3>7, <5>1 DEF Flush, Close, Finalize, CloseUnlocked, Reconfigure, FlushIf
          <5>2. CASE ~m_IsInitialized
            <6>1. ~m_IsInitialized'
              BY <2>0, <3>7, <5>2 DEF Flush, Close, Finalize, CloseUnlocked, Reconfigure
            <6>2. QED
              BY <3>4, <6>1
          <5>3. QED
            BY <5>1, <5>2
        <4>2. QED
          BY <2>0, <3>4, <3>5, <4>1, SettledStays
      <3>8. QED
        BY <3>1, <3>6, <3>7
    <2>6. CASE CallStep(t) /\ pc[t] \notin {"await", "locked"}
      BY <2>6
    <2>7. QED
      BY <2>1, <2>2, <2>3, <2>4, <2>5, <2>6
  <1>4. QED
    BY <1>1, <1>2, <1>3, PTL DEF Spec, WaitsCoverQueued
=============================================================================
