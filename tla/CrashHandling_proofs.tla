------------------------ MODULE CrashHandling_proofs ------------------------
(***************************************************************************)
(* What holds of the crash handling for any threads, loggers, workers and  *)
(* bounds, on either platform.                                             *)
(***************************************************************************)
EXTENDS CrashHandling, FiniteSetTheorems, FunctionTheorems, SequenceTheorems, WellFoundedInduction, TLAPS

----------------------------------------------------------------------------
(* Sequences *)

LEMMA LeastNumber == ASSUME NEW S \in SUBSET Nat, S # {} PROVE \E x \in S : \A y \in S : x <= y
  <1> DEFINE R == {ss \in Nat \X Nat : ss[1] < ss[2]}
  <1>1. IsWellFoundedOn(R, Nat)
    BY NatLessThanWellFounded, Zenon DEF OpToRel
  <1>2. PICK x \in S : \A y \in S : ~ (<<y, x>> \in R)
    <2> HIDE DEF R
    <2> QED BY <1>1, WFMin, Zenon
  <1>3. \A y \in S : ~(y < x)
    BY <1>2
  <1> QED BY <1>3

\* Elements are taken out of a list once, and the others stay
LEMMA RemovedOne ==
  ASSUME NEW S, NEW s \in Seq(S), NEW e \in S, IsInjective(s)
  PROVE  /\ RemoveFirst(s, e) \in Seq(S) /\ IsInjective(RemoveFirst(s, e))
         /\ ToSet(RemoveFirst(s, e)) = ToSet(s) \ {e}
  <1>1. CASE ~\E i \in 1 .. Len(s) : s[i] = e
    BY <1>1 DEF RemoveFirst, ToSet
  <1>2. CASE \E i \in 1 .. Len(s) : s[i] = e
    <2> DEFINE I == {i \in 1 .. Len(s) : s[i] = e}
               k == Min(I)
    <2>1. I \in SUBSET Nat /\ I # {}
      BY <1>2
    <2>2. k \in I
      <3> HIDE DEF I
      <3> QED BY <2>1, LeastNumber DEF Min
    <2>3. RemoveFirst(s, e) = RemoveAt(s, k)
      BY <1>2, <2>1 DEF RemoveFirst, SelectInSeq
    <2> HIDE DEF k
    <2>4. k \in 1 .. Len(s) /\ s[k] = e
      BY <2>2
    <2> DEFINE a == SubSeq(s, 1, k - 1)
               b == SubSeq(s, k + 1, Len(s))
               r == a \o b
    <2>11. a \in Seq(S) /\ Len(a) = k - 1 /\ \A i \in 1 .. k - 1 : a[i] = s[i]
      BY <2>4
    <2>12. b \in Seq(S) /\ Len(b) = Len(s) - k /\ \A i \in 1 .. Len(s) - k : b[i] = s[k + i]
      BY <2>4
    <2> HIDE DEF a, b
    <2>5. r \in Seq(S) /\ Len(r) = Len(s) - 1
      BY <2>4, <2>11, <2>12, ConcatProperties
    <2>6. \A i \in 1 .. Len(s) - 1 : r[i] = IF i < k THEN s[i] ELSE s[i + 1]
      <3> TAKE i \in 1 .. Len(s) - 1
      <3>1. r[i] = IF i <= Len(a) THEN a[i] ELSE b[i - Len(a)]
        BY <2>4, <2>11, <2>12, ConcatProperties
      <3> QED BY <3>1, <2>4, <2>11, <2>12
    <2>7. RemoveFirst(s, e) = r
      BY <2>3 DEF RemoveAt, a, b
    <2> HIDE DEF r
    <2>8. IsInjective(r)
      BY <2>4, <2>5, <2>6, SMTT(30) DEF IsInjective
    <2>9. ToSet(r) \subseteq ToSet(s) \ {e}
      BY <2>4, <2>5, <2>6 DEF IsInjective, ToSet
    <2>10. ASSUME NEW i \in 1 .. Len(s), s[i] # e PROVE s[i] \in ToSet(r)
      <3>1. CASE i < k
        BY <3>1, <2>4, <2>5, <2>6 DEF ToSet
      <3>2. CASE i > k
        <4>1. i - 1 \in 1 .. Len(s) - 1 /\ r[i - 1] = s[i]
          BY <3>2, <2>4, <2>6
        <4> QED BY <4>1, <2>5 DEF ToSet
      <3> QED BY <3>1, <3>2, <2>4, <2>10
    <2> QED BY <2>5, <2>7, <2>8, <2>9, <2>10 DEF ToSet
  <1> QED BY <1>1, <1>2

----------------------------------------------------------------------------
(* Types *)

\* The steps of the calls, the lines written and the crashes
CrashSteps == {"handler", "pass", "lock list of loggers", "visit", "await", "lock", "write", "write locked"}
\* The calls that change the list of loggers, and those that close one
Changes == {"Initialize", "Finalize", "Destroy", "DestroyBase"}
Closes == {"Close", "Finalize", "Destroy"}
Label ==
    ({"none"} \X {"idle"}) \cup ({"Log"} \X {"write"}) \cup ({"Keep"} \X {"keep"}) \cup ({"Read"} \X {"lines"})
    \cup ({"Work"} \X {"write", "mark"}) \cup (Changes \X {"lock list", "change list"})
    \cup (Closes \X {"close", "locked"}) \cup ({"Destroy"} \X {"join"}) \cup ({"crash"} \X CrashSteps)
Line ==
    [kind : {"entry", "backtrace", "crash", "explicit"}, n : Nat, by : Tasks \cup {NoOne}, isLate : BOOLEAN]
CrashRecord ==
    [source : Sources \cup {"none"}, called : Seq(Sources \X Handlers), isWritten : BOOLEAN,
     todo : Seq(Loggers), lastQueued : Nat, logged : [Loggers -> Nat],
     expects : SUBSET Loggers, inPlace : SUBSET Handlers]

SetupRecord ==
    [op : {"none", "Install", "Uninstall"}, left : Seq(Sources), source : Sources \cup {"none"}, held : Handlers]

\* The parts of the type invariant
PcOK == pc \in [Tasks -> Label]
LocksOK ==
    /\ m_Mutex \in [Loggers -> Tasks \cup {NoOne}] /\ m_BacktraceMutex \in [Loggers -> Tasks \cup {NoOne}]
    /\ m_LinesMutex \in [Loggers -> Tasks \cup {NoOne}]
LifeOK ==
    /\ m_IsInitialized \in [Loggers -> BOOLEAN] /\ exists \in [Loggers -> BOOLEAN]
    /\ registryHolder \in Tasks \cup {NoOne}
ListOK == list \in Seq(Loggers) /\ IsInjective(list)
\* Who uses a logger has it
UsesLogger(op, step) == op \notin {"none", "crash"} \/ step \in {"await", "lock", "write", "write locked"}
OnOK ==
    /\ on \in [Tasks -> Loggers \cup {NoOne}]
    /\ \A t \in Tasks : UsesLogger(pc[t][1], pc[t][2]) => on[t] \in Loggers
OutputOK ==
    /\ m_LastQueuedSequence \in [Loggers -> Nat] /\ m_LastWrittenSequence \in [Loggers -> Nat]
    /\ buffer \in [Loggers -> Seq(Line)] /\ file \in [Loggers -> Seq(Line)]
    /\ kept \in [Loggers -> BOOLEAN]
HandlersOK ==
    /\ IsActive \in BOOLEAN /\ IsCrashHandled \in BOOLEAN /\ setups \in Nat
    /\ isInstalled \in [Sources -> BOOLEAN]
    /\ current \in [Sources -> Handlers] /\ previous \in [Sources -> [Handlers -> Handlers]]
    /\ setup \in SetupRecord /\ isTorn \in BOOLEAN
\* A crash that no handler has got yet has no source
CrashOK ==
    /\ crash \in [Tasks -> CrashRecord] /\ isLate \in [Tasks -> BOOLEAN]
    /\ ended \in Tasks \cup {NoOne}
    /\ \A t \in Tasks : crash[t].called = <<>> <=> crash[t].source = "none"
TypeOK ==
    /\ platform \in Platforms /\ instance \in Instances /\ calls \in [Tasks -> Nat]
    /\ PcOK /\ LocksOK /\ LifeOK /\ ListOK /\ OnOK /\ OutputOK /\ HandlersOK /\ CrashOK

LEMMA InitTypes == Init => TypeOK
  <1> SUFFICES ASSUME Init PROVE TypeOK
    OBVIOUS
  <1> USE DEF Init
  <1>1. instance.list \in Seq(Loggers) /\ IsInjective(instance.list) /\ instance.isInstalled \in BOOLEAN
    BY InstanceAssumption, ElementOfSeq, SeqDef
  <1>2. PcOK /\ OnOK
    <2>1. pc \in [Tasks -> Label] /\ \A t \in Tasks : pc[t][1] = "none" /\ pc[t][2] = "idle"
      BY DEF Label
    <2> QED BY <2>1 DEF PcOK, OnOK, UsesLogger
  <1>3. LocksOK /\ LifeOK /\ ListOK
    BY <1>1 DEF LocksOK, LifeOK, ListOK
  <1>4. OutputOK
    BY DEF OutputOK
  <1>5. HandlersOK
    <2>1. NoSetup \in SetupRecord
      BY DEF SetupRecord, NoSetup, Handlers
    <2>2. current \in [Sources -> Handlers] /\ previous \in [Sources -> [Handlers -> Handlers]]
      BY <1>1 DEF Handlers
    <2>3. isInstalled \in [Sources -> BOOLEAN]
      BY <1>1
    <2> QED BY <1>1, <2>1, <2>2, <2>3 DEF HandlersOK
  <1>6. CrashOK
    <2>1. NoCrash \in CrashRecord /\ NoCrash.called = <<>> /\ NoCrash.source = "none"
      BY DEF CrashRecord, NoCrash
    <2> QED BY <2>1 DEF CrashOK
  <1> QED BY <1>2, <1>3, <1>4, <1>5, <1>6 DEF TypeOK

----------------------------------------------------------------------------
(* Where the threads are *)

LEMMA TasksAre == Threads \subseteq Tasks /\ Workers \subseteq Tasks /\ NoOne \notin Tasks
  BY WorkerAssumption DEF Tasks

LEMMA Labels ==
  ASSUME PcOK, NEW t \in Tasks
  PROVE  /\ pc[t] \in Label
         /\ pc[t][2] \in {"lock list", "change list"} => pc[t][1] \in Changes
         /\ pc[t][2] \in {"close", "locked"} => pc[t][1] \in Closes
         /\ pc[t][2] = "join" => pc[t][1] = "Destroy"
         /\ pc[t][1] = "crash" => pc[t][2] \in CrashSteps
         /\ pc[t][1] = "none" => pc[t][2] = "idle"
  BY DEF PcOK, Label, CrashSteps, Changes, Closes

\* A thread goes on, the others stay where they are
Moves(t, op, step) ==
    /\ pc'[t] = <<op, step>> /\ pc'[t][1] = op /\ pc'[t][2] = step
    /\ \A u \in Tasks \ {t} : pc'[u] = pc[u]

LEMMA Moved ==
  ASSUME PcOK, NEW t \in Tasks, NEW op, NEW step, Go(t, op, step)
  PROVE  Moves(t, op, step)
  BY DEF PcOK, Go, Moves

LEMMA PcStays ==
  ASSUME PcOK, NEW t \in Tasks, NEW op, NEW step, Go(t, op, step), <<op, step>> \in Label
  PROVE  PcOK'
  BY DEF PcOK, Go

LEMMA LabelsAre ==
  /\ <<"none", "idle">> \in Label /\ <<"Log", "write">> \in Label /\ <<"Keep", "keep">> \in Label
  /\ <<"Work", "write">> \in Label /\ <<"Work", "mark">> \in Label /\ <<"Read", "lines">> \in Label
  /\ \A op \in Changes : <<op, "lock list">> \in Label /\ <<op, "change list">> \in Label
  /\ \A op \in Closes : <<op, "close">> \in Label /\ <<op, "locked">> \in Label
  /\ <<"Destroy", "join">> \in Label
  /\ \A step \in CrashSteps : <<"crash", step>> \in Label
  BY DEF Label

LEMMA AtIs ==
  ASSUME NEW t, NEW op, NEW step, At(t, op, step)
  PROVE  pc[t] = <<op, step>> /\ pc[t][1] = op /\ pc[t][2] = step /\ ended = NoOne
  BY DEF At

LEMMA Pair == ASSUME NEW x, NEW a, NEW b, x = <<a, b>> PROVE x[1] = a /\ x[2] = b
  OBVIOUS

\* Every step moves one thread, or none, along its operation
LEMMA PcStep == PcOK /\ [Next]_vars => PcOK'
  <1> SUFFICES ASSUME PcOK, [Next]_vars PROVE PcOK'
    OBVIOUS
  <1> USE TasksAre, LabelsAre
  <1>0. CASE pc' = pc
    BY <1>0 DEF PcOK
  <1>1. ASSUME NEW t \in Threads, Call(t) PROVE pc' = pc \/ \E op, step : Go(t, op, step) /\ <<op, step>> \in Label
    <2>1. ASSUME NEW l \in Loggers, StartWrite(t, l) PROVE Go(t, "Log", "write")
      BY <2>1 DEF StartWrite
    <2>2. ASSUME NEW l \in Loggers, Queue(t, l) PROVE pc' = pc
      BY <2>2 DEF Queue
    <2>3. ASSUME NEW l \in Loggers, StartKeep(t, l) PROVE Go(t, "Keep", "keep")
      BY <2>3 DEF StartKeep
    <2>4. ASSUME NEW l \in Loggers, Initialize(t, l) PROVE Go(t, "Initialize", "lock list")
      BY <2>4 DEF Initialize
    <2>5. ASSUME NEW l \in Loggers, NEW op \in Closes, StartClose(t, op, l)
          PROVE  (op = "Close" /\ Go(t, op, "close")) \/ (op \in Changes /\ Go(t, op, "lock list"))
      BY <2>5 DEF StartClose, StartsToClose, Closes, Changes
    <2>6. ASSUME EndWrite(t) \/ EndKeep(t) \/ EndRead(t) \/ Register(t) \/ UnregisterBase(t) PROVE Go(t, "none", "idle")
      BY <2>6 DEF EndWrite, EndKeep, EndRead, Register, UnregisterBase, Return
    <2>7. ASSUME LockList(t) PROVE \E op \in Changes : Go(t, op, "change list")
      BY <2>7, Labels DEF LockList
    <2>8. ASSUME Unregister(t) PROVE \E op \in Closes : Go(t, op, "close")
      BY <2>8 DEF Unregister, Closes
    <2>9. ASSUME LockToClose(t) PROVE \E op \in Closes : Go(t, op, "locked")
      BY <2>9, Labels DEF LockToClose
    <2>10. ASSUME NEW l \in Loggers, StartRead(t, l) PROVE Go(t, "Read", "lines")
      BY <2>10 DEF StartRead
    <2>11. ASSUME NEW l \in Loggers, Open(t, l) PROVE pc' = pc
      BY <2>11 DEF Open
    <2>12. ASSUME Close(t) PROVE Go(t, "Destroy", "join") \/ Go(t, "none", "idle")
      BY <2>12 DEF Close
    <2>13. ASSUME Destroyed(t) PROVE \E op \in Changes : Go(t, op, "lock list")
      BY <2>13 DEF Destroyed, Changes
    <2> DEFINE GoesOn == pc' = pc \/ \E op, step : Go(t, op, step) /\ <<op, step>> \in Label
    <2>14. ASSUME NEW l \in Loggers, StartWrite(t, l) \/ Queue(t, l) \/ StartKeep(t, l) \/ StartRead(t, l) \/ Initialize(t, l) \/ Open(t, l)
           PROVE  GoesOn
      <3>1. "Initialize" \in Changes
        BY DEF Changes
      <3> QED BY <2>14, <2>1, <2>2, <2>3, <2>4, <2>10, <2>11, <3>1
    <2>15. ASSUME NEW l \in Loggers, NEW op \in Closes, StartClose(t, op, l) PROVE GoesOn
      BY <2>5, <2>15
    <2>16. ASSUME EndWrite(t) \/ EndKeep(t) \/ EndRead(t) \/ Register(t) \/ UnregisterBase(t) PROVE GoesOn
      BY <2>6, <2>16
    <2>17. ASSUME LockList(t) \/ Unregister(t) \/ LockToClose(t) \/ Close(t) \/ Destroyed(t) PROVE GoesOn
      BY <2>7, <2>8, <2>9, <2>12, <2>13, <2>17
    <2> HIDE DEF GoesOn
    <2>18. GoesOn
      BY <1>1, <2>14, <2>15, <2>16, <2>17 DEF Call, Closes
    <2> QED BY <2>18 DEF GoesOn
  <1>2. ASSUME NEW w \in Workers, Work(w) PROVE \E op, step : Go(w, op, step) /\ <<op, step>> \in Label
    BY <1>2 DEF Work, WorkerTake, WorkerWrite, WorkerMark, Return
  <1>3. ASSUME NEW t \in Tasks, HandleCrash(t) \/ (\E s \in Sources : Crash(t, s)) \/ Handle(t) \/ Timeout(t)
        PROVE pc' = pc \/ \E step \in CrashSteps : Go(t, "crash", step)
    <2> USE DEF CrashSteps
    <2>1. CASE HandleCrash(t) \/ \E s \in Sources : Crash(t, s)
      BY <2>1 DEF HandleCrash, Crash
    <2>2. CASE HandleFirstCrash(t)
      BY <2>2 DEF HandleFirstCrash
    <2>3. CASE PassOn(t)
      BY <2>3 DEF PassOn, AfterHandleCrash, OnTerminate, OnUnhandledException, OnAbortSignal, OnFatalSignal,
                  OtherHandler, DefaultHandler, CallHandler
    <2>4. CASE HandleCrashInLoggers(t)
      BY <2>4 DEF HandleCrashInLoggers, LockListOfLoggers, Visit, Await, LockOutput, WriteCrash, Steps
    <2>5. CASE Timeout(t)
      BY <2>5 DEF Timeout
    <2> QED BY <1>3, <2>1, <2>2, <2>3, <2>4, <2>5 DEF Handle
  <1>4. Setup => pc' = pc
    BY DEF Setup, UnchangedInSetup
  <1>5. UNCHANGED vars => pc' = pc
    BY DEF vars
  <1> QED BY <1>0, <1>1, <1>2, <1>3, <1>4, <1>5, PcStays DEF Next

LEMMA LocksStep == PcOK /\ LocksOK /\ [Next]_vars => LocksOK'
  <1> SUFFICES ASSUME PcOK, LocksOK, [Next]_vars PROVE LocksOK'
    OBVIOUS
  <1> USE TasksAre DEF LocksOK
  <1>0. CASE UNCHANGED lockVars
    BY <1>0 DEF lockVars
  <1>1. ASSUME NEW t \in Threads, Call(t) PROVE LocksOK'
    <2>1. ASSUME NEW l \in Loggers,
                 StartWrite(t, l) \/ Queue(t, l) \/ StartKeep(t, l) \/ StartRead(t, l) \/ Initialize(t, l) \/ Open(t, l)
          PROVE  LocksOK'
      BY <1>0, <2>1, ZenonT(40) DEF StartWrite, Queue, StartKeep, StartRead, Initialize, Open, Take, lockVars
    <2>2. ASSUME NEW l \in Loggers, NEW op \in Closes, StartClose(t, op, l) PROVE LocksOK'
      BY <2>2 DEF StartClose, StartsToClose
    <2>3. ASSUME EndWrite(t) \/ EndKeep(t) \/ EndRead(t) \/ Register(t) \/ LockToClose(t) \/ Close(t) PROVE LocksOK'
      BY <2>3, ZenonT(40) DEF EndWrite, EndKeep, EndRead, Register, LockToClose, Close, Unlock
    <2>4. ASSUME LockList(t) \/ Unregister(t) \/ UnregisterBase(t) \/ Destroyed(t) PROVE LocksOK'
      BY <1>0, <2>4 DEF LockList, Unregister, UnregisterBase, Destroyed
    <2> QED BY <1>1, <2>1, <2>2, <2>3, <2>4 DEF Call, Closes
  <1>2. ASSUME NEW w \in Workers, Work(w) PROVE LocksOK'
    BY <1>2 DEF Work, WorkerTake, WorkerWrite, WorkerMark, Take, Unlock, lockVars
  <1>3. ASSUME NEW t \in Tasks, HandleCrash(t) \/ (\E s \in Sources : Crash(t, s)) \/ HandleFirstCrash(t) \/ PassOn(t)
        PROVE  UNCHANGED lockVars
    BY <1>3 DEF HandleCrash, Crash, HandleFirstCrash, PassOn, UnchangedInCrash
  <1>4. ASSUME NEW t \in Tasks, HandleCrashInLoggers(t) PROVE LocksOK'
    BY <1>4, ZenonT(40) DEF HandleCrashInLoggers, LockOutput, WriteCrash, UnchangedInVisit, Take, Unlock
  <1>5. ASSUME NEW t \in Tasks, Timeout(t) PROVE UNCHANGED lockVars
    BY <1>5 DEF Timeout
  <1>6. Setup => UNCHANGED lockVars
    BY DEF Setup, UnchangedInSetup
  <1>7. UNCHANGED vars => UNCHANGED lockVars
    BY DEF vars
  <1> QED BY <1>0, <1>1, <1>2, <1>3, <1>4, <1>5, <1>6, <1>7 DEF Next, Handle

LEMMA LifeStep == PcOK /\ LifeOK /\ OnOK /\ [Next]_vars => LifeOK'
  <1> SUFFICES ASSUME PcOK, LifeOK, OnOK, [Next]_vars PROVE LifeOK'
    OBVIOUS
  <1> USE TasksAre DEF LifeOK
  <1>0. CASE UNCHANGED lifeVars
    BY <1>0 DEF lifeVars
  <1>1. ASSUME NEW t \in Threads, Call(t) PROVE LifeOK'
    <2>1. ASSUME EndWrite(t) \/ EndKeep(t) \/ EndRead(t) \/ LockToClose(t)
                 \/ \E l \in Loggers : StartWrite(t, l) \/ Queue(t, l) \/ StartKeep(t, l) \/ StartRead(t, l)
                       \/ \E op \in Closes : StartClose(t, op, l)
          PROVE LifeOK'
      BY <1>0, <2>1 DEF EndWrite, EndKeep, EndRead, LockToClose, StartWrite, Queue, StartKeep, StartRead, StartClose, StartsToClose
    <2>2. ASSUME LockList(t) \/ Close(t) \/ Destroyed(t) \/ \E l \in Loggers : Initialize(t, l) \/ Open(t, l) PROVE LifeOK'
      BY <2>2 DEF LockList, Close, Destroyed, Initialize, Open
    <2>3. ASSUME Register(t) \/ Unregister(t) \/ UnregisterBase(t) PROVE LifeOK'
      BY <2>3 DEF Register, Unregister, UnregisterBase
    <2> QED BY <1>1, <2>1, <2>2, <2>3 DEF Call, Closes
  <1>2. ASSUME NEW w \in Workers, Work(w) PROVE UNCHANGED lifeVars
    BY <1>2 DEF Work, WorkerTake, WorkerWrite, WorkerMark
  <1>3. ASSUME NEW t \in Tasks, HandleCrash(t) \/ (\E s \in Sources : Crash(t, s)) \/ HandleFirstCrash(t) \/ PassOn(t)
        PROVE  UNCHANGED lifeVars
    BY <1>3 DEF HandleCrash, Crash, HandleFirstCrash, PassOn, UnchangedInCrash
  <1>4. ASSUME NEW t \in Tasks, HandleCrashInLoggers(t) PROVE LifeOK'
    BY <1>4 DEF HandleCrashInLoggers, LockListOfLoggers, Visit, Await, UnchangedInVisit
  <1>5. ASSUME NEW t \in Tasks, Timeout(t) PROVE UNCHANGED lifeVars
    BY <1>5 DEF Timeout
  <1>6. Setup => UNCHANGED lifeVars
    BY DEF Setup, UnchangedInSetup
  <1>7. UNCHANGED vars => UNCHANGED lifeVars
    BY DEF vars
  <1> QED BY <1>0, <1>1, <1>2, <1>3, <1>4, <1>5, <1>6, <1>7 DEF Next, Handle

LEMMA OnStep == PcOK /\ OnOK /\ (\A t \in Tasks : crash[t].todo \in Seq(Loggers)) /\ [Next]_vars => OnOK'
  <1> SUFFICES ASSUME PcOK, OnOK, \A t \in Tasks : crash[t].todo \in Seq(Loggers), [Next]_vars PROVE OnOK'
    OBVIOUS
  <1> USE TasksAre DEF OnOK
  <1>0. CASE UNCHANGED <<pc, on>>
    BY <1>0
  <1>12. \A step \in {"handler", "pass", "lock list of loggers"} : ~UsesLogger("crash", step)
    BY DEF UsesLogger
  <1>1. ASSUME NEW t \in Tasks, on' = on, NEW op, NEW step, Moves(t, op, step),
               UsesLogger(op, step) => UsesLogger(pc[t][1], pc[t][2])
        PROVE  OnOK'
    BY <1>1 DEF Moves
  <1>2. ASSUME NEW t \in Tasks, NEW l \in Loggers, on' = [on EXCEPT ![t] = l], NEW op, NEW step, Moves(t, op, step)
        PROVE  OnOK'
    BY <1>2 DEF Moves
  <1>3. ASSUME NEW t \in Tasks, on' = [on EXCEPT ![t] = NoOne], NEW op, NEW step, Moves(t, op, step), ~UsesLogger(op, step)
        PROVE  OnOK'
    BY <1>3 DEF Moves
  <1>4. ASSUME NEW t \in Threads, Call(t) PROVE OnOK'
    <2>1. ASSUME NEW l \in Loggers, StartWrite(t, l) \/ StartKeep(t, l) \/ StartRead(t, l) \/ Initialize(t, l) PROVE OnOK'
      BY <2>1, <1>2, Moved DEF StartWrite, StartKeep, StartRead, Initialize, Begin
    <2>2. ASSUME NEW l \in Loggers, Queue(t, l) \/ Open(t, l) PROVE OnOK'
      BY <2>2 DEF Queue, Open, Begin
    <2>3. ASSUME NEW l \in Loggers, NEW op \in Closes, StartClose(t, op, l) PROVE OnOK'
      BY <2>3, <1>2, Moved DEF StartClose, StartsToClose, Begin
    <2>4. ASSUME EndWrite(t) \/ EndKeep(t) \/ EndRead(t) \/ Register(t) \/ UnregisterBase(t) PROVE OnOK'
      <3>1. on' = on /\ Moves(t, "none", "idle")
        BY <2>4, Moved DEF EndWrite, EndKeep, EndRead, Register, UnregisterBase, Return
      <3> QED BY <3>1, <1>1 DEF UsesLogger
    <2>5. ASSUME LockList(t) PROVE OnOK'
      <3>1. on' = on /\ Moves(t, pc[t][1], "change list")
        BY <2>5, Moved DEF LockList, Continue
      <3>2. pc[t][1] \notin {"none", "crash"}
        BY <2>5, Labels DEF LockList, Changes
      <3> QED BY <3>1, <3>2, <1>1 DEF UsesLogger
    <2>6. ASSUME Unregister(t) PROVE OnOK'
      <3>1. on' = on /\ Moves(t, pc[t][1], "close")
        BY <2>6, Moved DEF Unregister, Continue
      <3>2. pc[t][1] \notin {"none", "crash"}
        BY <2>6 DEF Unregister
      <3> QED BY <3>1, <3>2, <1>1 DEF UsesLogger
    <2>7. ASSUME LockToClose(t) PROVE OnOK'
      <3>1. on' = on /\ Moves(t, pc[t][1], "locked")
        BY <2>7, Moved DEF LockToClose, Continue
      <3>2. pc[t][1] \notin {"none", "crash"}
        BY <2>7, Labels DEF LockToClose, Closes
      <3> QED BY <3>1, <3>2, <1>1 DEF UsesLogger
    <2>8. ASSUME Close(t) PROVE OnOK'
      <3>1. on' = on /\ (Moves(t, "Destroy", "join") \/ Moves(t, "none", "idle"))
        BY <2>8, Moved DEF Close, Continue
      <3>2. pc[t][1] \notin {"none", "crash"}
        BY <2>8, Labels DEF Close, Closes
      <3> QED BY <3>1, <3>2, <1>1 DEF UsesLogger
    <2>9. ASSUME Destroyed(t) PROVE OnOK'
      <3>1. on' = on /\ Moves(t, "DestroyBase", "lock list")
        BY <2>9, Moved DEF Destroyed, Continue
      <3>2. pc[t][1] = "Destroy"
        BY <2>9, AtIs DEF Destroyed
      <3> QED BY <3>1, <3>2, <1>1 DEF UsesLogger
    <2> QED BY <1>4, <2>1, <2>2, <2>3, <2>4, <2>5, <2>6, <2>7, <2>8, <2>9 DEF Call, Closes
  <1>5. ASSUME NEW w \in Workers, Work(w) PROVE OnOK'
    <2>1. ASSUME NEW l \in Loggers, WorkerTake(w, l) PROVE OnOK'
      BY <2>1, <1>2, Moved DEF WorkerTake
    <2>2. ASSUME WorkerWrite(w) PROVE OnOK'
      <3>1. on' = on /\ Moves(w, "Work", "mark")
        BY <2>2, Moved DEF WorkerWrite, Continue
      <3>2. pc[w][1] \notin {"none", "crash"}
        BY <2>2, AtIs DEF WorkerWrite
      <3> QED BY <3>1, <3>2, <1>1 DEF UsesLogger
    <2>3. ASSUME WorkerMark(w) PROVE OnOK'
      <3>1. on' = on /\ Moves(w, "none", "idle")
        BY <2>3, Moved DEF WorkerMark, Return
      <3> QED BY <3>1, <1>1 DEF UsesLogger
    <2> QED BY <1>5, <2>1, <2>2, <2>3 DEF Work
  <1>6. ASSUME NEW t \in Tasks, HandleCrash(t) \/ (\E s \in Sources : Crash(t, s)) PROVE OnOK'
    <2>1. on' = [on EXCEPT ![t] = NoOne] /\ (Go(t, "crash", "handler") \/ Go(t, "crash", "lock list of loggers"))
      BY <1>6 DEF HandleCrash, Crash
    <2> QED BY <2>1, <1>3, <1>12, Moved
  <1>7. ASSUME NEW t \in Tasks, HandleFirstCrash(t) \/ PassOn(t) PROVE OnOK'
    <2>1. on' = on
      BY <1>7 DEF HandleFirstCrash, PassOn
    <2>2. pc' = pc \/ Go(t, "crash", "handler") \/ Go(t, "crash", "pass") \/ Go(t, "crash", "lock list of loggers")
      BY <1>7 DEF HandleFirstCrash, PassOn, AfterHandleCrash, OnTerminate, OnUnhandledException, OnAbortSignal, OnFatalSignal,
                  OtherHandler, DefaultHandler, CallHandler
    <2> QED BY <2>1, <2>2, <1>0, <1>1, <1>12, Moved
  <1>8. ASSUME NEW t \in Tasks, HandleCrashInLoggers(t) PROVE OnOK'
    <2>1. ASSUME NEW from, NEW step, Steps(t, from, step), on' = on, UsesLogger("crash", step) => UsesLogger("crash", from)
          PROVE OnOK'
      BY <2>1, <1>1, Moved, AtIs DEF Steps
    <2>2. CASE LockListOfLoggers(t) /\ on' = on
      BY <2>2, <2>1 DEF LockListOfLoggers, UsesLogger
    <2>3. CASE (Await(t) \/ LockOutput(t) \/ WriteCrash(t)) /\ on' = on
      BY <2>3, <2>1 DEF Await, LockOutput, WriteCrash, UsesLogger
    <2>4. CASE Visit(t)
      <3>1. CASE crash[t].todo = <<>>
        BY <2>4, <3>1, <1>3, <1>12, Moved DEF Visit, Steps
      <3>2. CASE crash[t].todo # <<>>
        <4>1. Head(crash[t].todo) \in Loggers
          BY <3>2
        <4>2. on' = [on EXCEPT ![t] = Head(crash[t].todo)] /\ \E step : Go(t, "crash", step)
          BY <2>4, <3>2 DEF Visit, Steps
        <4> QED BY <4>1, <4>2, <1>2, Moved
      <3> QED BY <3>1, <3>2
    <2> QED BY <1>8, <2>2, <2>3, <2>4 DEF HandleCrashInLoggers, Await
  <1>9. ASSUME NEW t \in Tasks, Timeout(t) PROVE OnOK'
    BY <1>9, <1>0 DEF Timeout
  <1>10. Setup => OnOK'
    BY <1>0 DEF Setup, UnchangedInSetup
  <1>11. UNCHANGED vars => OnOK'
    BY <1>0 DEF vars
  <1> QED BY <1>4, <1>5, <1>6, <1>7, <1>8, <1>9, <1>10, <1>11 DEF Next, Handle

----------------------------------------------------------------------------
(* The lock of the list *)

\* The steps of the visit of the loggers, the list locked
VisitSteps == {"visit", "await", "lock", "write", "write locked"}
Visits(t) == pc[t][1] = "crash" /\ pc[t][2] \in VisitSteps
\* Whoever changes the list of loggers, or visits it, holds its lock
ListLock == \A t \in Tasks : Visits(t) \/ pc[t][2] = "change list" => registryHolder = t

LEMMA ListReleased ==
  ASSUME ListLock, NEW t \in Tasks, registryHolder = t, NEW op, NEW step, Moves(t, op, step),
         op # "crash" \/ step \notin VisitSteps, step # "change list"
  PROVE  ListLock'
  BY DEF ListLock, Visits, Moves
LEMMA ListTaken ==
  ASSUME ListLock, NEW t \in Tasks, registryHolder = NoOne, registryHolder' = t,
         NEW op, NEW step, Moves(t, op, step)
  PROVE  ListLock'
  BY TasksAre DEF ListLock, Visits, Moves
LEMMA ListKept ==
  ASSUME ListLock, NEW t \in Tasks, registryHolder' = registryHolder, NEW op, NEW step, Moves(t, op, step),
         op # "crash" \/ step \notin VisitSteps \/ Visits(t), step # "change list"
  PROVE  ListLock'
  BY DEF ListLock, Visits, Moves

LEMMA ListLockStep == PcOK /\ ListLock /\ [Next]_vars => ListLock'
  <1> SUFFICES ASSUME PcOK, ListLock, [Next]_vars PROVE ListLock'
    OBVIOUS
  <1> USE TasksAre
  <1>0. CASE UNCHANGED <<pc, registryHolder>>
    BY <1>0 DEF ListLock, Visits
  <1>1. ASSUME NEW t \in Threads, Call(t) PROVE ListLock'
    <2> USE DEF lifeVars
    <2>1. ASSUME NEW l \in Loggers, StartWrite(t, l) PROVE ListLock'
      BY <2>1, Moved, ListKept DEF StartWrite
    <2>2. ASSUME NEW l \in Loggers, Queue(t, l) \/ Open(t, l) PROVE ListLock'
      BY <2>2, <1>0 DEF Queue, Open
    <2>3. ASSUME NEW l \in Loggers, StartKeep(t, l) \/ StartRead(t, l) PROVE ListLock'
      BY <2>3, Moved, ListKept DEF StartKeep, StartRead
    <2>4. ASSUME NEW l \in Loggers, Initialize(t, l) PROVE ListLock'
      BY <2>4, Moved, ListKept DEF Initialize
    <2>5. ASSUME NEW l \in Loggers, NEW op \in Closes, StartClose(t, op, l) PROVE ListLock'
      BY <2>5, Moved, ListKept DEF StartClose, StartsToClose, Closes
    <2>6. ASSUME EndWrite(t) \/ EndKeep(t) \/ EndRead(t) \/ Close(t) \/ Destroyed(t) PROVE ListLock'
      BY <2>6, Moved, ListKept DEF EndWrite, EndKeep, EndRead, Close, Destroyed, Return
    <2>7. ASSUME LockList(t) PROVE ListLock'
      BY <2>7, Moved, ListTaken DEF LockList
    <2>8. ASSUME Register(t) \/ Unregister(t) \/ UnregisterBase(t) PROVE ListLock'
      <3>1. pc[t][2] = "change list"
        BY <2>8, AtIs DEF Register, Unregister, UnregisterBase
      <3>3. registryHolder = t
        BY <3>1 DEF ListLock
      <3>2. \E op \in {"none", "Finalize", "Destroy"}, step \in {"idle", "close"} : Moves(t, op, step)
        BY <2>8, Moved DEF Register, Unregister, UnregisterBase, Return
      <3> QED BY <3>3, <3>2, ListReleased
    <2>9. ASSUME LockToClose(t) PROVE ListLock'
      <3>1. pc[t][1] # "crash"
        BY <2>9, Labels DEF LockToClose, Closes
      <3>2. Moves(t, pc[t][1], "locked") /\ registryHolder' = registryHolder
        BY <2>9, Moved DEF LockToClose
      <3> HIDE <2>9
      <3> QED BY <3>1, <3>2, ListKept
    <2> QED BY <1>1, <2>1, <2>2, <2>3, <2>4, <2>5, <2>6, <2>7, <2>8, <2>9 DEF Call, Closes
  <1>2. ASSUME NEW w \in Workers, Work(w) PROVE ListLock'
    BY <1>2, Moved, ListKept DEF Work, WorkerTake, WorkerWrite, WorkerMark, Return, lifeVars
  <1>3. ASSUME NEW t \in Tasks, HandleCrash(t) \/ (\E s \in Sources : Crash(t, s)) \/ HandleFirstCrash(t) PROVE ListLock'
    <2>1. registryHolder' = registryHolder
      BY <1>3 DEF HandleCrash, Crash, HandleFirstCrash, UnchangedInCrash, lifeVars
    <2>2. \E step \in {"handler", "pass", "lock list of loggers"} : Go(t, "crash", step)
      BY <1>3 DEF HandleCrash, Crash, HandleFirstCrash
    <2>3. ASSUME NEW step \in {"handler", "pass", "lock list of loggers"}, Go(t, "crash", step) PROVE ListLock'
      <3>1. Moves(t, "crash", step)
        BY <2>3, Moved
      <3>2. step \notin VisitSteps /\ step # "change list"
        BY DEF VisitSteps
      <3> QED BY <2>1, <3>1, <3>2, ListKept
    <2> QED BY <2>2, <2>3
  <1>4. ASSUME NEW t \in Tasks, PassOn(t) PROVE ListLock'
    <2>1. registryHolder' = registryHolder
      BY <1>4 DEF PassOn, UnchangedInCrash, lifeVars
    <2>2. pc' = pc \/ Go(t, "crash", "handler")
      BY <1>4 DEF PassOn, AfterHandleCrash, OnTerminate, OnUnhandledException, OnAbortSignal, OnFatalSignal,
                  OtherHandler, DefaultHandler, CallHandler
    <2> QED BY <1>0, <2>1, <2>2, Moved, ListKept DEF VisitSteps
  <1>5. ASSUME NEW t \in Tasks, HandleCrashInLoggers(t) PROVE ListLock'
    <2> USE DEF VisitSteps, Steps
    <2>1. CASE LockListOfLoggers(t)
      BY <2>1, Moved, ListTaken, ListKept DEF LockListOfLoggers
    <2>2. CASE Visit(t)
      <3>1. registryHolder = t
        BY <2>2, AtIs DEF Visit, ListLock, Visits
      <3>2. CASE Go(t, "crash", "pass")
        BY <3>1, <3>2, Moved, ListReleased
      <3>3. CASE ~Go(t, "crash", "pass")
        <4>1. registryHolder' = registryHolder /\ Visits(t)
          BY <2>2, <3>3, AtIs DEF Visit, Visits
        <4>2. Go(t, "crash", "await") \/ Go(t, "crash", "visit")
          BY <2>2, <3>3 DEF Visit
        <4> QED BY <4>1, <4>2, Moved, ListKept
      <3> QED BY <3>2, <3>3
    <2>3. CASE (Await(t) \/ LockOutput(t) \/ WriteCrash(t)) /\ UNCHANGED registryHolder
      <3>1. Visits(t)
        BY <2>3, AtIs, ZenonT(40) DEF Await, LockOutput, WriteCrash, Visits
      <3>2. Go(t, "crash", "lock") \/ Go(t, "crash", "write locked") \/ Go(t, "crash", "write") \/ Go(t, "crash", "visit")
        BY <2>3 DEF Await, LockOutput, WriteCrash
      <3> QED BY <2>3, <3>1, <3>2, Moved, ListKept, Zenon
    <2> QED BY <1>5, <2>1, <2>2, <2>3 DEF HandleCrashInLoggers, Await
  <1>6. ASSUME NEW t \in Tasks, Timeout(t) PROVE ListLock'
    BY <1>6, <1>0 DEF Timeout, lifeVars
  <1>7. Setup => ListLock'
    BY <1>0 DEF Setup, UnchangedInSetup, lifeVars
  <1>8. UNCHANGED vars => ListLock'
    BY <1>0 DEF vars, lifeVars
  <1> QED BY <1>1, <1>2, <1>3, <1>4, <1>5, <1>6, <1>7, <1>8 DEF Next, Handle

LEMMA BeginsCrash ==
  ASSUME PcOK, NEW t \in Tasks, HandleCrash(t) \/ \E s \in Sources : Crash(t, s)
  PROVE  /\ UNCHANGED <<lifeVars, lockVars, outputVars>> /\ on' = [on EXCEPT ![t] = NoOne] /\ ~HasCrashed(t)
         /\ Moves(t, "crash", "handler") \/ Moves(t, "crash", "lock list of loggers")
  BY Moved DEF HandleCrash, Crash, UnchangedInCrash, IsCrashPossible

LEMMA PassesOn ==
  ASSUME PcOK, NEW t \in Tasks, HandleFirstCrash(t) \/ PassOn(t)
  PROVE  /\ UNCHANGED <<lifeVars, lockVars, outputVars, on>>
         /\ pc[t][1] = "crash" /\ (pc[t][2] = "handler" \/ pc[t][2] = "pass")
         /\ \/ pc' = pc \/ Moves(t, "crash", "handler") \/ Moves(t, "crash", "pass")
            \/ Moves(t, "crash", "lock list of loggers")
  <1>1. UNCHANGED <<lifeVars, lockVars, outputVars, on>>
    BY DEF HandleFirstCrash, PassOn, UnchangedInCrash
  <1>2. pc[t][1] = "crash" /\ (pc[t][2] = "handler" \/ pc[t][2] = "pass")
    BY AtIs DEF HandleFirstCrash, PassOn
  <1>3. pc' = pc \/ Go(t, "crash", "handler") \/ Go(t, "crash", "pass") \/ Go(t, "crash", "lock list of loggers")
    BY DEF HandleFirstCrash, PassOn, AfterHandleCrash, OnTerminate, OnUnhandledException, OnAbortSignal, OnFatalSignal,
           OtherHandler, DefaultHandler, CallHandler
  <1> QED BY <1>1, <1>2, <1>3, Moved

\* A step of the visit of the loggers
VisitStep(t, from, to) == pc[t][1] = "crash" /\ pc[t][2] = from /\ Moves(t, "crash", to)
LEMMA StepIs == ASSUME PcOK, NEW t \in Tasks, NEW from, NEW to, Steps(t, from, to) PROVE VisitStep(t, from, to)
  BY AtIs, Moved DEF Steps, VisitStep

----------------------------------------------------------------------------
(* The loggers' locks *)

\* The steps at which a thread has a logger's lock
HoldsAt(op, step) ==
    op = "Log" \/ op = "Initialize" \/ (op = "Work" /\ step = "write") \/ step = "locked" \/ step = "write locked"
HoldsOutput(t) == HoldsAt(pc[t][1], pc[t][2])
\* Who writes to a logger holds its lock, and no other unless it has crashed
OutputLock == \A t \in Tasks : HoldsOutput(t) => m_Mutex[on[t]] = t
OutputOwner ==
    \A t \in Tasks, l \in Loggers : m_Mutex[l] = t /\ ~HasCrashed(t) => HoldsOutput(t) /\ on[t] = l
OutputLocks == OutputLock /\ OutputOwner

\* Only thread t's logger changes
OthersStay(t) == \A u \in Tasks \ {t} : on'[u] = on[u]

LEMMA OthersHold ==
  ASSUME NEW t \in Tasks, NEW op, NEW step, Moves(t, op, step)
  PROVE  /\ \A u \in Tasks \ {t} : (HoldsOutput(u)' <=> HoldsOutput(u)) /\ (HasCrashed(u)' <=> HasCrashed(u))
         /\ HasCrashed(t)' <=> op = "crash"
         /\ HoldsOutput(t)' <=> HoldsAt(op, step)
  BY DEF HoldsOutput, HasCrashed, Moves

LEMMA LockNotUsed ==
  ASSUME OutputLocks, NEW t \in Tasks, NEW op, NEW step, Moves(t, op, step), OthersStay(t), m_Mutex' = m_Mutex,
         ~HoldsAt(op, step), ~HoldsOutput(t) \/ op = "crash", ~HasCrashed(t) \/ op = "crash"
  PROVE  OutputLocks'
  BY OthersHold DEF OutputLocks, OutputLock, OutputOwner, OthersStay

LEMMA LockKept ==
  ASSUME OutputLocks, NEW t \in Tasks, NEW op, NEW step, Moves(t, op, step), on' = on, m_Mutex' = m_Mutex,
         HoldsAt(op, step), HoldsOutput(t), ~HasCrashed(t)
  PROVE  OutputLocks'
  BY OthersHold DEF OutputLocks, OutputLock, OutputOwner

LEMMA LockTaken ==
  ASSUME OutputLocks, LocksOK, NEW t \in Tasks, NEW op, NEW step, Moves(t, op, step), OthersStay(t), NEW l \in Loggers,
         m_Mutex[l] = NoOne \/ m_Mutex[l] = t, m_Mutex' = [m_Mutex EXCEPT ![l] = t], on'[t] = l,
         HoldsAt(op, step), ~HoldsOutput(t), ~HasCrashed(t) \/ op = "crash"
  PROVE  OutputLocks'
  BY TasksAre, OthersHold DEF OutputLocks, OutputLock, OutputOwner, OthersStay, LocksOK

LEMMA LockReleased ==
  ASSUME OutputLocks, LocksOK, NEW t \in Tasks, NEW op, NEW step, Moves(t, op, step), on' = on, on[t] \in Loggers,
         m_Mutex' = [m_Mutex EXCEPT ![on[t]] = NoOne], HoldsOutput(t), ~HoldsAt(op, step), ~HasCrashed(t) \/ op = "crash"
  PROVE  OutputLocks'
  BY TasksAre, OthersHold DEF OutputLocks, OutputLock, OutputOwner, LocksOK

LEMMA OutputLocksStep == PcOK /\ LocksOK /\ OnOK /\ OutputLocks /\ [Next]_vars => OutputLocks'
  <1> SUFFICES ASSUME PcOK, LocksOK, OnOK, OutputLocks, [Next]_vars PROVE OutputLocks'
    OBVIOUS
  <1> USE TasksAre
  <1>0. CASE UNCHANGED <<pc, on, m_Mutex>>
    BY <1>0 DEF OutputLocks, OutputLock, OutputOwner, HoldsOutput, HasCrashed
  <1>1. ASSUME NEW t \in Threads, Call(t) PROVE OutputLocks'
    <2> USE DEF HoldsOutput, HoldsAt, HasCrashed
    <2>2. ASSUME NEW l \in Loggers, pc[t][1] = "none", pc[t][2] = "idle", on' = [on EXCEPT ![t] = l],
                 NEW op, NEW step, Moves(t, op, step), Take(t, l), op = "Log" \/ op = "Initialize"
          PROVE  OutputLocks'
      <3>1. on'[t] = l /\ OthersStay(t)
        BY <2>2 DEF OnOK, OthersStay
      <3> QED BY <2>2, <3>1, LockTaken DEF Take
    <2>3. ASSUME NEW l \in Loggers, StartWrite(t, l) \/ Initialize(t, l) PROVE OutputLocks'
      <3>1. pc[t][1] = "none" /\ pc[t][2] = "idle" /\ on' = [on EXCEPT ![t] = l] /\ Take(t, l)
        BY <2>3, AtIs DEF StartWrite, Initialize, Begin
      <3>2. Moves(t, "Log", "write") \/ Moves(t, "Initialize", "lock list")
        BY <2>3, Moved DEF StartWrite, Initialize
      <3> QED BY <3>1, <3>2, <2>2
    <2>5. ASSUME NEW l \in Loggers, Queue(t, l) \/ Open(t, l) PROVE OutputLocks'
      <3>1. pc[t][1] = "none" /\ pc[t][2] = "idle" /\ pc' = pc /\ m_Mutex' = m_Mutex /\ on' = [on EXCEPT ![t] = l]
        BY <2>5, AtIs DEF Queue, Open, Begin, lockVars
      <3> QED BY <3>1 DEF OutputLocks, OutputLock, OutputOwner, OnOK
    <2>6. ASSUME NEW l \in Loggers, StartKeep(t, l) \/ StartRead(t, l) PROVE OutputLocks'
      <3>1. /\ pc[t][1] = "none" /\ pc[t][2] = "idle" /\ m_Mutex' = m_Mutex /\ OthersStay(t)
            /\ Moves(t, "Keep", "keep") \/ Moves(t, "Read", "lines")
        BY <2>6, AtIs, Moved DEF StartKeep, StartRead, Begin, OnOK, OthersStay
      <3> QED BY <3>1, LockNotUsed
    <2>7. ASSUME NEW l \in Loggers, NEW op \in Closes, StartClose(t, op, l) PROVE OutputLocks'
      <3>1. /\ pc[t][1] = "none" /\ pc[t][2] = "idle" /\ m_Mutex' = m_Mutex /\ OthersStay(t)
            /\ Moves(t, op, "lock list") \/ Moves(t, op, "close")
        BY <2>7, AtIs, Moved DEF StartClose, StartsToClose, Begin, OnOK, OthersStay
      <3> QED BY <3>1, LockNotUsed DEF Closes
    <2>8. ASSUME NEW op, NEW step, Moves(t, op, step), ~HoldsAt(op, step), on' = on, Unlock(on[t]),
                 pc[t][1] \in {"Log", "Initialize"} \/ (pc[t][1] \in Closes /\ pc[t][2] = "locked")
          PROVE  OutputLocks'
      <3>2. on[t] \in Loggers /\ m_Mutex' = [m_Mutex EXCEPT ![on[t]] = NoOne]
        BY <2>8 DEF OnOK, UsesLogger, Unlock, Closes
      <3>3. HoldsOutput(t) /\ ~HasCrashed(t)
        BY <2>8 DEF Closes
      <3> HIDE DEF HoldsOutput, HoldsAt, HasCrashed
      <3> QED BY <2>8, <3>2, <3>3, LockReleased
    <2>9. ASSUME EndWrite(t) \/ Register(t) \/ Close(t) PROVE OutputLocks'
      <3>1. /\ on' = on /\ Unlock(on[t])
            /\ pc[t][1] \in {"Log", "Initialize"} \/ (pc[t][1] \in Closes /\ pc[t][2] = "locked")
        BY <2>9, AtIs, Labels DEF EndWrite, Register, Close, Return, Continue
      <3>2. Moves(t, "none", "idle") \/ Moves(t, "Destroy", "join")
        BY <2>9, Moved DEF EndWrite, Register, Close, Return
      <3> QED BY <2>8, <3>1, <3>2
    <2>10. ASSUME EndKeep(t) \/ EndRead(t) PROVE OutputLocks'
      <3>1. /\ (pc[t][1] = "Keep" /\ pc[t][2] = "keep") \/ (pc[t][1] = "Read" /\ pc[t][2] = "lines")
            /\ Moves(t, "none", "idle") /\ m_Mutex' = m_Mutex /\ OthersStay(t)
        BY <2>10, AtIs, Moved DEF EndKeep, EndRead, Return, OthersStay
      <3> QED BY <3>1, LockNotUsed
    <2>11. ASSUME Destroyed(t) PROVE OutputLocks'
      <3>1. /\ pc[t][1] = "Destroy" /\ pc[t][2] = "join" /\ Moves(t, "DestroyBase", "lock list")
            /\ m_Mutex' = m_Mutex /\ OthersStay(t)
        BY <2>11, AtIs, Moved DEF Destroyed, Continue, OthersStay, lockVars
      <3> QED BY <3>1, LockNotUsed
    <2>12. ASSUME LockList(t) PROVE OutputLocks'
      <3>1. /\ pc[t][1] \in Changes /\ pc[t][2] = "lock list"
            /\ Moves(t, pc[t][1], "change list") /\ m_Mutex' = m_Mutex /\ on' = on
        BY <2>12, Labels, Moved DEF LockList, Continue, lockVars
      <3>2. CASE pc[t][1] = "Initialize"
        BY <3>1, <3>2, LockKept
      <3>3. CASE pc[t][1] # "Initialize"
        BY <3>1, <3>3, LockNotUsed DEF OthersStay, Changes
      <3> QED BY <3>1, <3>2, <3>3
    <2>13. ASSUME Unregister(t) \/ UnregisterBase(t) PROVE OutputLocks'
      <3>1. /\ pc[t][1] = "Finalize" \/ pc[t][1] = "Destroy" \/ pc[t][1] = "DestroyBase"
            /\ pc[t][2] = "change list" /\ m_Mutex' = m_Mutex /\ on' = on
            /\ (pc[t][1] # "DestroyBase" /\ Moves(t, pc[t][1], "close")) \/ Moves(t, "none", "idle")
        BY <2>13, AtIs, Moved DEF Unregister, UnregisterBase, Return, Continue, lockVars
      <3> QED BY <3>1, LockNotUsed DEF OthersStay
    <2>14. ASSUME LockToClose(t) PROVE OutputLocks'
      <3>1. pc[t][1] \in Closes /\ pc[t][2] = "close" /\ Moves(t, pc[t][1], "locked") /\ on' = on
        BY <2>14, Labels, Moved DEF LockToClose, Continue
      <3>2. on[t] \in Loggers
        BY <3>1 DEF OnOK, UsesLogger, Closes
      <3>3. (m_Mutex[on[t]] = NoOne \/ m_Mutex[on[t]] = t) /\ m_Mutex' = [m_Mutex EXCEPT ![on[t]] = t]
        BY <2>14 DEF LockToClose
      <3> QED BY <3>1, <3>2, <3>3, LockTaken DEF OthersStay, Closes
    <2> QED BY <1>1, <2>3, <2>5, <2>6, <2>7, <2>9, <2>10, <2>11, <2>12, <2>13, <2>14 DEF Call, Closes
  <1>2. ASSUME NEW w \in Workers, Work(w) PROVE OutputLocks'
    <2> USE DEF HoldsOutput, HoldsAt, HasCrashed
    <2>2. ASSUME NEW l \in Loggers, WorkerTake(w, l) PROVE OutputLocks'
      <3>1. pc[w][1] = "none" /\ pc[w][2] = "idle" /\ Moves(w, "Work", "write") /\ OthersStay(w) /\ on'[w] = l
        BY <2>2, AtIs, Moved DEF WorkerTake, OnOK, OthersStay
      <3>2. m_Mutex[l] = NoOne /\ m_Mutex' = [m_Mutex EXCEPT ![l] = w]
        BY <2>2 DEF WorkerTake, Take
      <3> QED BY <3>1, <3>2, LockTaken
    <2>3. ASSUME WorkerWrite(w) PROVE OutputLocks'
      <3>1. pc[w][1] = "Work" /\ pc[w][2] = "write" /\ Moves(w, "Work", "mark") /\ on' = on
        BY <2>3, AtIs, Moved DEF WorkerWrite, Continue
      <3>2. on[w] \in Loggers /\ m_Mutex' = [m_Mutex EXCEPT ![on[w]] = NoOne]
        BY <2>3, <3>1 DEF WorkerWrite, Unlock, OnOK, UsesLogger
      <3> QED BY <3>1, <3>2, LockReleased
    <2>4. ASSUME WorkerMark(w) PROVE OutputLocks'
      <3>1. pc[w][1] = "Work" /\ pc[w][2] = "mark" /\ Moves(w, "none", "idle") /\ m_Mutex' = m_Mutex /\ OthersStay(w)
        BY <2>4, AtIs, Moved DEF WorkerMark, Return, OthersStay, lockVars
      <3> QED BY <3>1, LockNotUsed
    <2> QED BY <1>2, <2>2, <2>3, <2>4 DEF Work
  <1>3. ASSUME NEW t \in Tasks, NEW step, Moves(t, "crash", step), m_Mutex' = m_Mutex, OthersStay(t),
               step # "locked", step # "write locked", ~HoldsOutput(t) \/ ~HasCrashed(t)
        PROVE  OutputLocks'
    BY <1>3, LockNotUsed DEF HoldsAt
  <1>4. ASSUME NEW t \in Tasks, HandleCrash(t) \/ \E s \in Sources : Crash(t, s) PROVE OutputLocks'
    <2>1. m_Mutex' = m_Mutex /\ OthersStay(t) /\ ~HasCrashed(t)
      BY <1>4, BeginsCrash DEF lockVars, OthersStay, OnOK
    <2> QED BY <1>3, <1>4, <2>1, BeginsCrash
  <1>5. ASSUME NEW t \in Tasks, HandleFirstCrash(t) \/ PassOn(t) PROVE OutputLocks'
    <2>1. ~HoldsOutput(t)
      BY <1>5, PassesOn DEF HoldsOutput, HoldsAt
    <2>2. m_Mutex' = m_Mutex /\ OthersStay(t) /\ on' = on
      BY <1>5, PassesOn DEF lockVars, OthersStay
    <2> QED BY <1>0, <1>3, <1>5, <2>1, <2>2, PassesOn
  <1>6. ASSUME NEW t \in Tasks, HandleCrashInLoggers(t) PROVE OutputLocks'
    <2>1. ASSUME NEW from, NEW to, VisitStep(t, from, to), from # "write locked", from # "locked",
                 to # "write locked", to # "locked", m_Mutex' = m_Mutex, OthersStay(t)
          PROVE  OutputLocks'
      <3>1. ~HoldsOutput(t)
        BY <2>1 DEF HoldsOutput, HoldsAt, VisitStep
      <3> QED BY <1>3, <2>1, <3>1 DEF VisitStep
    <2>2. CASE LockListOfLoggers(t) /\ UNCHANGED <<on, m_Mutex>>
      <3>1. VisitStep(t, "lock list of loggers", "visit") \/ VisitStep(t, "lock list of loggers", "pass")
        BY <2>2, StepIs DEF LockListOfLoggers
      <3> QED BY <2>1, <2>2, <3>1 DEF OthersStay
    <2>3. CASE Visit(t) /\ m_Mutex' = m_Mutex
      <3>1. OthersStay(t)
        BY <2>3 DEF Visit, OthersStay, OnOK
      <3>2. VisitStep(t, "visit", "pass") \/ VisitStep(t, "visit", "await") \/ VisitStep(t, "visit", "visit")
        BY <2>3, StepIs DEF Visit
      <3> QED BY <2>1, <2>3, <3>1, <3>2
    <2>4. CASE Await(t) /\ m_Mutex' = m_Mutex
      <3>1. VisitStep(t, "await", "lock")
        BY <2>4, StepIs DEF Await
      <3> QED BY <2>1, <2>4, <3>1 DEF OthersStay, Await
    <2>5. CASE LockOutput(t) /\ on' = on
      <3>1. CASE Steps(t, "lock", "write locked") /\ Take(t, on[t])
        <4>1. VisitStep(t, "lock", "write locked")
          BY <3>1, StepIs
        <4>2. ~HoldsOutput(t) /\ Moves(t, "crash", "write locked")
          BY <4>1 DEF HoldsOutput, HoldsAt, VisitStep
        <4>3. on[t] \in Loggers
          BY <4>1 DEF VisitStep, OnOK, UsesLogger
        <4> QED BY <2>5, <3>1, <4>2, <4>3, LockTaken DEF Take, OthersStay, HoldsAt
      <3>2. CASE Steps(t, "lock", "write") /\ m_Mutex' = m_Mutex
        <4>1. VisitStep(t, "lock", "write")
          BY <3>2, StepIs
        <4> QED BY <2>1, <2>5, <3>2, <4>1 DEF OthersStay
      <3> QED BY <2>5, <3>1, <3>2 DEF LockOutput
    <2>6. CASE WriteCrash(t) /\ on' = on
      <3>1. CASE Steps(t, "write locked", "visit") /\ Unlock(on[t])
        <4>1. VisitStep(t, "write locked", "visit")
          BY <3>1, StepIs
        <4>2. HoldsOutput(t) /\ Moves(t, "crash", "visit")
          BY <4>1 DEF HoldsOutput, HoldsAt, VisitStep
        <4>3. on[t] \in Loggers
          BY <4>1 DEF VisitStep, OnOK, UsesLogger
        <4> QED BY <2>6, <3>1, <4>2, <4>3, LockReleased DEF Unlock, HoldsAt
      <3>2. CASE Steps(t, "write", "visit") /\ m_Mutex' = m_Mutex
        <4>1. VisitStep(t, "write", "visit")
          BY <3>2, StepIs
        <4> QED BY <2>1, <2>6, <3>2, <4>1 DEF OthersStay
      <3> QED BY <2>6, <3>1, <3>2 DEF WriteCrash
    <2> QED BY <1>6, <2>2, <2>3, <2>4, <2>5, <2>6 DEF HandleCrashInLoggers
  <1>7. ASSUME NEW t \in Tasks, Timeout(t) PROVE OutputLocks'
    BY <1>7, <1>0 DEF Timeout, lockVars
  <1>8. Setup => OutputLocks'
    BY <1>0 DEF Setup, UnchangedInSetup, lockVars
  <1>9. UNCHANGED vars => OutputLocks'
    BY <1>0 DEF vars, lockVars
  <1> QED BY <1>1, <1>2, <1>4, <1>5, <1>6, <1>7, <1>8, <1>9 DEF Next, Handle

----------------------------------------------------------------------------
(* The lines written *)

\* The worker writes the entries queued, each with its number
LEMMA WrittenLines ==
  ASSUME OutputOK, NEW l \in Loggers
  PROVE  LET first == m_LastWrittenSequence[l]
             lines == [i \in 1 .. m_LastQueuedSequence[l] - first |-> Entry(first + i)]
         IN  /\ lines \in Seq(Line) /\ Len(lines) = IF m_LastQueuedSequence[l] >= first THEN m_LastQueuedSequence[l] - first ELSE 0
             /\ \A i \in 1 .. Len(lines) : lines[i].kind = "entry" /\ lines[i].n = first + i
             /\ \A i \in 1 .. Len(lines) : ~(lines[i].kind \in {"crash", "explicit"})
  <1> DEFINE first == m_LastWrittenSequence[l]
             lines == [i \in 1 .. m_LastQueuedSequence[l] - first |-> Entry(first + i)]
  <1>1. first \in Nat /\ m_LastQueuedSequence[l] \in Nat
    BY DEF OutputOK
  <1> HIDE DEF first
  <1>2. \A i \in 1 .. m_LastQueuedSequence[l] - first : Entry(first + i) \in Line
    BY <1>1 DEF Entry, Line
  <1>3. PICK k \in Nat : 1 .. k = 1 .. m_LastQueuedSequence[l] - first
                        /\ k = IF m_LastQueuedSequence[l] >= first THEN m_LastQueuedSequence[l] - first ELSE 0
    <2>1. CASE m_LastQueuedSequence[l] >= first
      BY <1>1, <2>1
    <2>2. CASE m_LastQueuedSequence[l] < first
      <3>1. 1 .. 0 = 1 .. m_LastQueuedSequence[l] - first
        BY <1>1, <2>2
      <3> QED BY <1>1, <2>2, <3>1
    <2> QED BY <1>1, <2>1, <2>2
  <1>4. lines = [i \in 1 .. k |-> Entry(first + i)]
    BY <1>3
  <1>5. lines \in Seq(Line) /\ Len(lines) = k
    <2>1. \A i \in 1 .. k : Entry(first + i) \in Line
      BY <1>2, <1>3
    <2>2. DOMAIN lines = 1 .. k
      BY <1>4
    <2>3. lines \in [1 .. k -> Line]
      BY <1>4, <2>1
    <2> HIDE DEF lines
    <2>4. lines \in Seq(Line)
      BY <1>3, <2>3
    <2> QED BY <1>3, <2>2, <2>4, LenProperties
  <1>6. \A i \in 1 .. Len(lines) : lines[i].kind = "entry" /\ lines[i].n = first + i
    BY <1>4, <1>5 DEF Entry
  <1> QED BY <1>3, <1>5, <1>6 DEF first

LEMMA OutputStep == PcOK /\ OnOK /\ OutputOK /\ CrashOK /\ [Next]_vars => OutputOK'
  <1> SUFFICES ASSUME PcOK, OnOK, OutputOK, CrashOK, [Next]_vars PROVE OutputOK'
    OBVIOUS
  <1> USE TasksAre
  <1>0. CASE UNCHANGED outputVars
    BY <1>0 DEF outputVars, OutputOK
  <1>1. ASSUME NEW t \in Threads, Call(t) PROVE OutputOK'
    <2>1. ASSUME EndWrite(t) PROVE OutputOK'
      <3>1. on[t] \in Loggers
        BY <2>1, AtIs DEF EndWrite, OnOK, UsesLogger
      <3> DEFINE n == m_LastQueuedSequence[on[t]] + 1
      <3>2. n \in Nat /\ Entry(n) \in Line
        BY <3>1 DEF OutputOK, Entry, Line
      <3>3. AppendLines(on[t], <<Entry(n)>>) /\ <<Entry(n)>> \in Seq(Line)
        BY <2>1, <3>2 DEF EndWrite
      <3>4. file' \in [Loggers -> Seq(Line)] /\ buffer' \in [Loggers -> Seq(Line)]
        <4> HIDE DEF n
        <4> DEFINE lines == <<Entry(n)>>
        <4>1. lines \in Seq(Line) /\ AppendLines(on[t], lines)
          BY <3>3
        <4> HIDE DEF lines
        <4> QED BY <3>1, <4>1, ConcatProperties DEF AppendLines, OutputOK
      <3>5. m_LastQueuedSequence' \in [Loggers -> Nat] /\ m_LastWrittenSequence' \in [Loggers -> Nat] /\ kept' = kept
        BY <2>1, <3>1, <3>2 DEF EndWrite, OutputOK
      <3> QED BY <3>4, <3>5 DEF OutputOK
    <2>2. ASSUME NEW l \in Loggers, Queue(t, l) PROVE OutputOK'
      BY <2>2 DEF Queue, OutputOK
    <2>3. ASSUME EndKeep(t) PROVE OutputOK'
      BY <2>3 DEF EndKeep, OutputOK
    <2>4. ASSUME Close(t) PROVE OutputOK'
      <3>1. on[t] \in Loggers
        <4>1. pc[t][1] \in Closes
          BY <2>4, Labels DEF Close
        <4> QED BY <4>1 DEF OnOK, UsesLogger, Closes
      <3>2. Contents(on[t]) \in Seq(Line)
        BY <3>1, ConcatProperties DEF OutputOK, Contents
      <3>3. <<>> \in Seq(Line)
        OBVIOUS
      <3> QED BY <2>4, <3>1, <3>2, <3>3 DEF Close, OutputOK
    <2>5. ASSUME LockList(t) \/ Register(t) \/ Unregister(t) \/ UnregisterBase(t) \/ LockToClose(t) \/ Destroyed(t) \/ EndRead(t)
                 \/ \E l \in Loggers : StartWrite(t, l) \/ StartKeep(t, l) \/ StartRead(t, l) \/ Initialize(t, l) \/ Open(t, l)
                                       \/ \E op \in Closes : StartClose(t, op, l)
          PROVE UNCHANGED outputVars
      BY <2>5 DEF LockList, Register, Unregister, UnregisterBase, LockToClose, Destroyed, EndRead, StartWrite, StartKeep, StartRead,
                  Initialize, Open, StartClose, StartsToClose
    <2> QED BY <1>0, <1>1, <2>1, <2>2, <2>3, <2>4, <2>5 DEF Call, Closes
  <1>2. ASSUME NEW w \in Workers, Work(w) PROVE OutputOK'
    <2>1. ASSUME NEW l \in Loggers, WorkerTake(w, l) PROVE OutputOK'
      BY <2>1, <1>0 DEF WorkerTake
    <2>2. ASSUME WorkerWrite(w) PROVE OutputOK'
      <3>1. on[w] \in Loggers
        BY <2>2, AtIs DEF WorkerWrite, OnOK, UsesLogger
      <3> DEFINE first == m_LastWrittenSequence[on[w]]
                 lines == [i \in 1 .. m_LastQueuedSequence[on[w]] - first |-> Entry(first + i)]
      <3>3. lines \in Seq(Line)
        BY <3>1, WrittenLines
      <3>4. AppendLines(on[w], lines)
        BY <2>2 DEF WorkerWrite
      <3> HIDE DEF lines
      <3>5. file' \in [Loggers -> Seq(Line)] /\ buffer' \in [Loggers -> Seq(Line)]
        BY <3>1, <3>3, <3>4, ConcatProperties DEF AppendLines, OutputOK
      <3> QED BY <2>2, <3>5 DEF WorkerWrite, OutputOK
    <2>3. ASSUME WorkerMark(w) PROVE OutputOK'
      <3>1. on[w] \in Loggers
        <4>1. pc[w][1] = "Work"
          BY <2>3, AtIs DEF WorkerMark
        <4> QED BY <4>1 DEF OnOK, UsesLogger
      <3> DEFINE written == {i \in DOMAIN Contents(on[w]) : Contents(on[w])[i].kind = "entry"}
      <3>2. Contents(on[w]) \in Seq(Line)
        BY <3>1, ConcatProperties DEF OutputOK, Contents
      <3>3. IsFiniteSet(DOMAIN Contents(on[w]))
        BY <3>2, FS_Interval
      <3>4. Cardinality(written) \in Nat
        BY <3>3, FS_Subset, FS_CardinalityType
      <3>5. m_LastWrittenSequence' = [m_LastWrittenSequence EXCEPT ![on[w]] = Cardinality(written)]
        BY <2>3 DEF WorkerMark
      <3> HIDE DEF written
      <3> QED BY <2>3, <3>4, <3>5 DEF WorkerMark, OutputOK
    <2> QED BY <1>2, <2>1, <2>2, <2>3 DEF Work
  <1>3. ASSUME NEW t \in Tasks, HandleCrash(t) \/ (\E s \in Sources : Crash(t, s)) \/ HandleFirstCrash(t) \/ PassOn(t)
        PROVE  OutputOK'
    BY <1>0, <1>3 DEF HandleCrash, Crash, HandleFirstCrash, PassOn, UnchangedInCrash
  <1>4. ASSUME NEW t \in Tasks, HandleCrashInLoggers(t) PROVE OutputOK'
    <2>1. UNCHANGED <<m_LastQueuedSequence, m_LastWrittenSequence>>
      BY <1>4 DEF HandleCrashInLoggers, UnchangedInVisit
    <2>2. CASE UnchangedOutput
      BY <2>1, <2>2 DEF UnchangedOutput, OutputOK
    <2>3. CASE LockOutput(t)
      <3>1. on[t] \in Loggers
        <4>1. pc[t][2] = "lock"
          BY <2>3, AtIs DEF LockOutput, Steps
        <4> QED BY <4>1 DEF OnOK, UsesLogger
      <3>2. Contents(on[t]) \in Seq(Line)
        BY <3>1, ConcatProperties DEF OutputOK, Contents
      <3>3. <<>> \in Seq(Line)
        OBVIOUS
      <3> QED BY <2>1, <2>3, <3>1, <3>2, <3>3 DEF LockOutput, Flush, OutputOK
    <2>4. CASE WriteCrash(t)
      <3>1. on[t] \in Loggers
        <4>1. pc[t][2] = "write" \/ pc[t][2] = "write locked"
          <5>1. Steps(t, "write locked", "visit") \/ Steps(t, "write", "visit")
            BY <2>4 DEF WriteCrash
          <5> QED BY <5>1, AtIs DEF Steps
        <4> QED BY <4>1 DEF OnOK, UsesLogger
      <3>2. CrashLine(t) \in Line /\ BacktraceLines(t) \in Line
        BY DEF CrashLine, BacktraceLines, Line, CrashOK
      <3>3. <<CrashLine(t)>> \in Seq(Line) /\ Visited(t) \in Seq(Line) /\ <<>> \in Seq(Line)
        BY <3>2 DEF Visited
      <3>4. WriteFormatted(t) => file' \in [Loggers -> Seq(Line)] /\ buffer' \in [Loggers -> Seq(Line)]
        <4>0. ASSUME UNCHANGED <<file, buffer>> PROVE file' \in [Loggers -> Seq(Line)] /\ buffer' \in [Loggers -> Seq(Line)]
          BY <4>0 DEF OutputOK
        <4>1. ASSUME NEW lines \in Seq(Line), NEW more \in Seq(Line)
              PROVE  /\ [file EXCEPT ![on[t]] = Contents(on[t]) \o lines \o more] \in [Loggers -> Seq(Line)]
                     /\ [file EXCEPT ![on[t]] = @ \o lines] \in [Loggers -> Seq(Line)]
                     /\ [buffer EXCEPT ![on[t]] = @ \o lines] \in [Loggers -> Seq(Line)]
                     /\ [buffer EXCEPT ![on[t]] = <<>>] \in [Loggers -> Seq(Line)]
          <5>1. <<>> \in Seq(Line) /\ Contents(on[t]) \o lines \in Seq(Line) /\ file[on[t]] \o lines \in Seq(Line)
                /\ buffer[on[t]] \o lines \in Seq(Line)
            BY <3>1, ConcatProperties DEF Contents, OutputOK
          <5>2. Contents(on[t]) \o lines \o more \in Seq(Line)
            BY <5>1, ConcatProperties
          <5> QED BY <3>1, <5>1, <5>2 DEF OutputOK
        <4> DEFINE more == <<CrashLine(t)>>
        <4>2. more \in Seq(Line)
          BY <3>3
        <4>3. WriteFormatted(t) =>
                  \/ /\ file' = [file EXCEPT ![on[t]] = Contents(on[t]) \o Visited(t) \o more]
                     /\ buffer' = [buffer EXCEPT ![on[t]] = <<>>]
                  \/ \E lines \in Seq(Line) :
                        /\ file' = [file EXCEPT ![on[t]] = @ \o more]
                        /\ buffer' = [buffer EXCEPT ![on[t]] = @ \o lines]
                  \/ \E lines \in Seq(Line) : file' = [file EXCEPT ![on[t]] = @ \o lines] /\ buffer' = buffer
                  \/ UNCHANGED <<file, buffer>>
          BY <3>3, Zenon DEF WriteFormatted
        <4> HIDE DEF more
        <4>4. /\ [file EXCEPT ![on[t]] = Contents(on[t]) \o Visited(t) \o more] \in [Loggers -> Seq(Line)]
              /\ [buffer EXCEPT ![on[t]] = <<>>] \in [Loggers -> Seq(Line)]
              /\ [file EXCEPT ![on[t]] = @ \o more] \in [Loggers -> Seq(Line)]
          BY <3>3, <4>1, <4>2, Zenon
        <4>5. \A lines \in Seq(Line) : [buffer EXCEPT ![on[t]] = @ \o lines] \in [Loggers -> Seq(Line)]
          BY <4>1, <4>2, Zenon
        <4>6. ASSUME NEW lines \in Seq(Line), file' = [file EXCEPT ![on[t]] = @ \o more],
                     buffer' = [buffer EXCEPT ![on[t]] = @ \o lines]
              PROVE  file' \in [Loggers -> Seq(Line)] /\ buffer' \in [Loggers -> Seq(Line)]
          <5>1. [buffer EXCEPT ![on[t]] = @ \o lines] \in [Loggers -> Seq(Line)]
            BY <4>5
          <5> QED BY <4>4, <4>6, <5>1, Zenon
        <4>7. ASSUME file' = [file EXCEPT ![on[t]] = Contents(on[t]) \o Visited(t) \o more], buffer' = [buffer EXCEPT ![on[t]] = <<>>]
              PROVE  file' \in [Loggers -> Seq(Line)] /\ buffer' \in [Loggers -> Seq(Line)]
          BY <4>4, <4>7, Zenon
        <4>8. ASSUME NEW lines \in Seq(Line), file' = [file EXCEPT ![on[t]] = @ \o lines], buffer' = buffer
              PROVE  file' \in [Loggers -> Seq(Line)] /\ buffer' \in [Loggers -> Seq(Line)]
          <5>1. [file EXCEPT ![on[t]] = @ \o lines] \in [Loggers -> Seq(Line)]
            BY <4>1, <4>2, Zenon
          <5> QED BY <4>8, <5>1, Zenon DEF OutputOK
        <4> QED BY <4>0, <4>3, <4>6, <4>7, <4>8
      <3>5. WriteDirect(t) => file' \in [Loggers -> Seq(Line)] /\ buffer' \in [Loggers -> Seq(Line)]
        <4> DEFINE lines == Direct(t, Visited(t) \o <<CrashLine(t)>>)
        <4>1. lines \in Seq(Line)
          BY <3>3, ConcatProperties DEF Direct
        <4>2. WriteDirect(t) => file' = [file EXCEPT ![on[t]] = @ \o lines] /\ buffer' = buffer
          BY DEF WriteDirect
        <4> HIDE DEF lines
        <4>3. file[on[t]] \o lines \in Seq(Line)
          BY <3>1, <4>1, ConcatProperties DEF OutputOK
        <4> QED BY <4>2, <4>3 DEF OutputOK
      <3>6. kept' \in [Loggers -> BOOLEAN]
        BY <2>4 DEF WriteCrash, OutputOK
      <3> QED BY <2>1, <2>4, <3>4, <3>5, <3>6 DEF WriteCrash, OutputOK
    <2> QED BY <1>4, <2>2, <2>3, <2>4 DEF HandleCrashInLoggers
  <1>5. ASSUME NEW t \in Tasks, Timeout(t) PROVE OutputOK'
    BY <1>5, <1>0 DEF Timeout
  <1>6. Setup => OutputOK'
    BY <1>0 DEF Setup, UnchangedInSetup
  <1>7. UNCHANGED vars => OutputOK'
    BY <1>0 DEF vars
  <1> QED BY <1>1, <1>2, <1>3, <1>4, <1>5, <1>6, <1>7 DEF Next, Handle

LEMMA SourceIs ==
  ASSUME CrashOK, NEW t \in Tasks, Handler(t) # "none"
  PROVE  crash[t].source \in Sources
  BY DEF CrashOK, CrashRecord, Handler

\* A crash is passed on to a handler, or ends the process
LEMMA PassOnIs ==
  ASSUME HandlersOK, CrashOK, instance \in Instances, NEW t \in Tasks, PassOn(t)
  PROVE  \/ /\ UNCHANGED <<crash, isLate, pc, handlerVars>> /\ ended' = t
            /\ At(t, "crash", "handler") /\ Handler(t) = "default" /\ crash[t].source # "terminate"
         \/ /\ \E s \in Sources, h \in Handlers : CallHandler(t, s, h)
            /\ current' \in [Sources -> Handlers] /\ isTorn' \in BOOLEAN
            /\ UNCHANGED <<IsActive, IsCrashHandled, previous, isInstalled, setups, setup>>
  <1>1. ASSUME NEW s \in Sources, NEW h, h \in Handlers, CallHandler(t, s, h), current' = current
        PROVE  /\ \E r \in Sources, g \in Handlers : CallHandler(t, r, g)
               /\ current' \in [Sources -> Handlers]
    BY <1>1 DEF HandlersOK
  <1>2. UNCHANGED <<IsActive, IsCrashHandled, previous, isInstalled, setups, setup>>
    BY DEF PassOn, UnchangedInCrash
  <1>12. isTorn \in BOOLEAN /\ setup \in SetupRecord
    BY DEF HandlersOK
  <1>13. \A s : (SystemLooksUp(s) \/ OursLooksUp(s)) => isTorn' \in BOOLEAN
    BY <1>12 DEF SystemLooksUp, OursLooksUp
  <1>3. \A s \in Sources, h \in Handlers : previous[s][h] \in Handlers /\ current[s] \in Handlers
    BY DEF HandlersOK
  <1>4. "terminate" \in Sources /\ "fault" \in Sources /\ "abort" \in Sources /\ "ours" \in Handlers /\ "default" \in Handlers
    BY DEF Sources, Handlers
  <1>5. CASE AfterHandleCrash(t)
    <2>1. instance.sources \subseteq Sources
      BY InstanceAssumption DEF Sources
    <2>2. PICK s \in Sources : CallHandler(t, s, current[s]) /\ SystemLooksUp(s) /\ Raised(s)
      BY <1>5, <2>1 DEF AfterHandleCrash
    <2>3. current' \in [Sources -> Handlers]
      BY <1>4, <2>2 DEF Raised, HandlersOK
    <2> QED BY <1>2, <1>3, <1>4, <1>13, <2>2, <2>3
  <1>6. CASE Handler(t) = "ours" /\ OnTerminate(t)
    BY <1>1, <1>2, <1>3, <1>4, <1>6, <1>13 DEF OnTerminate
  <1>7. CASE Handler(t) = "ours" /\ (OnUnhandledException(t) \/ OnAbortSignal(t))
    BY <1>1, <1>2, <1>3, <1>4, <1>7, <1>13 DEF OnUnhandledException, OnAbortSignal
  <1>8. CASE Handler(t) = "ours" /\ OnFatalSignal(t)
    <2>1. crash[t].source \in Sources
      BY <1>8, SourceIs
    <2>2. current' \in [Sources -> Handlers]
      BY <1>3, <1>4, <1>8, <2>1 DEF OnFatalSignal, HandlersOK
    <2> QED BY <1>2, <1>3, <1>4, <1>8, <1>13, <2>1, <2>2 DEF OnFatalSignal
  <1>9. CASE OtherHandler(t)
    <2>1. crash[t].source \in Sources /\ Handler(t) \in Handlers
      BY <1>9, SourceIs DEF OtherHandler, Handlers
    <2> QED BY <1>1, <1>2, <1>3, <1>9, <1>12, <2>1 DEF OtherHandler
  <1>10. CASE At(t, "crash", "handler") /\ DefaultHandler(t) /\ crash[t].source = "terminate"
    <2>1. current' \in [Sources -> Handlers]
      BY <1>4, <1>10 DEF DefaultHandler, Raised, HandlersOK
    <2> QED BY <1>2, <1>3, <1>4, <1>10, <1>13, <2>1 DEF DefaultHandler
  <1>11. CASE At(t, "crash", "handler") /\ DefaultHandler(t) /\ crash[t].source # "terminate"
    BY <1>2, <1>11 DEF DefaultHandler, PassOn, handlerVars
  <1> QED BY <1>5, <1>6, <1>7, <1>8, <1>9, <1>10, <1>11 DEF PassOn

LEMMA SetupTypes ==
  /\ NoSetup \in SetupRecord
  /\ [NoSetup EXCEPT !.op = "Install", !.left = AllSources] \in SetupRecord
  /\ [NoSetup EXCEPT !.op = "Uninstall", !.left = AllSources] \in SetupRecord
  <1>1. AllSources \in Seq(Sources) /\ <<>> \in Seq(Sources)
    BY DEF AllSources, Sources
  <1> QED BY <1>1 DEF NoSetup, SetupRecord, Handlers

LEMMA HandlersStep == HandlersOK /\ CrashOK /\ instance \in Instances /\ [Next]_vars => HandlersOK'
  <1> SUFFICES ASSUME HandlersOK, CrashOK, instance \in Instances, [Next]_vars PROVE HandlersOK'
    OBVIOUS
  <1> USE TasksAre
  <1>0. CASE UNCHANGED handlerVars
    BY <1>0 DEF handlerVars, HandlersOK
  <1>1. ASSUME NEW t \in Threads, Call(t) PROVE UNCHANGED handlerVars
    BY <1>1 DEF Call, StartWrite, Queue, StartKeep, StartRead, Initialize, Open, StartClose, StartsToClose, EndWrite, EndKeep,
                EndRead, LockList, Register, Unregister, UnregisterBase, LockToClose, Close, Destroyed, Return, Continue
  <1>2. ASSUME NEW w \in Workers, Work(w) PROVE UNCHANGED handlerVars
    BY <1>2 DEF Work, WorkerTake, WorkerWrite, WorkerMark, Return, Continue
  <1>3. ASSUME NEW t \in Tasks, HandleCrash(t) \/ HandleFirstCrash(t) PROVE HandlersOK'
    BY <1>3 DEF HandleCrash, HandleFirstCrash, UnchangedInCrash, HandlersOK
  <1>4. ASSUME NEW t \in Tasks, NEW s \in Sources, Crash(t, s) PROVE HandlersOK'
    BY <1>4 DEF Crash, Raised, SystemLooksUp, UnchangedInCrash, HandlersOK, Handlers
  <1>5. ASSUME NEW t \in Tasks, PassOn(t) PROVE HandlersOK'
    BY <1>0, <1>5, PassOnIs DEF HandlersOK
  <1>6. ASSUME NEW t \in Tasks, HandleCrashInLoggers(t) \/ Timeout(t) PROVE UNCHANGED handlerVars
    BY <1>6 DEF HandleCrashInLoggers, UnchangedInVisit, Timeout
  <1>7. ASSUME Setup PROVE HandlersOK'
    <2> USE DEF HandlersOK, Handlers
    <2>1. IsCrashHandled' = IsCrashHandled
      BY <1>7 DEF Setup, UnchangedInSetup
    <2>2. CASE BeginSetup
      <3>1. setup' \in SetupRecord /\ IsActive' \in BOOLEAN
        BY <2>2, SetupTypes, Zenon DEF BeginSetup
      <3>2. setups' \in Nat /\ UNCHANGED <<current, previous, isInstalled, isTorn>>
        BY <2>2 DEF BeginSetup
      <3> QED BY <2>1, <3>1, <3>2
    <2>3. CASE Install \/ Uninstall
      <3>1. setup' \in SetupRecord /\ current' \in [Sources -> Handlers]
        <4>1. setup.left # <<>> /\ setup.left \in Seq(Sources)
          BY <2>3 DEF Install, Uninstall, SetupRecord
        <4>2. Head(setup.left) \in Sources /\ Tail(setup.left) \in Seq(Sources)
          BY <4>1
        <4>3. current[Head(setup.left)] \in Handlers /\ previous[Head(setup.left)]["ours"] \in Handlers /\ "ours" \in Handlers
          BY <4>2
        <4>4. \A h \in Handlers : Holding(Head(setup.left), h) => setup' \in SetupRecord
          BY <4>2 DEF Holding, SetupRecord
        <4>5. Skipping => setup' \in SetupRecord
          BY <4>2 DEF Skipping, SetupRecord
        <4>6. CASE Install
          BY <4>2, <4>3, <4>4, <4>5, <4>6 DEF Install
        <4>7. CASE Uninstall
          BY <4>2, <4>3, <4>4, <4>5, <4>7 DEF Uninstall
        <4> QED BY <2>3, <4>6, <4>7
      <3> QED BY <2>1, <2>3, <3>1 DEF Install, Uninstall
    <2>4. CASE StoreReplaced \/ PutBack
      <3>1. setup.source \in Sources /\ setup.held \in Handlers /\ setup' \in SetupRecord
        BY <2>4 DEF StoreReplaced, PutBack, InHand, SetupRecord
      <3>2. CASE StoreReplaced
        BY <2>1, <3>1, <3>2 DEF StoreReplaced
      <3>3. CASE PutBack
        BY <2>1, <3>1, <3>3 DEF PutBack
      <3> QED BY <2>4, <3>2, <3>3
    <2>5. CASE EndSetup
      BY <2>1, <2>5, SetupTypes DEF EndSetup
    <2>6. CASE Replace
      BY <2>1, <2>6 DEF Replace
    <2> QED BY <1>7, <2>2, <2>3, <2>4, <2>5, <2>6 DEF Setup
  <1>8. UNCHANGED vars => UNCHANGED handlerVars
    BY DEF vars
  <1> QED BY <1>0, <1>1, <1>2, <1>3, <1>4, <1>5, <1>6, <1>7, <1>8 DEF Next, Handle

LEMMA CallHandlerType ==
  ASSUME CrashOK, NEW t \in Tasks, NEW s \in Sources, NEW h \in Handlers, CallHandler(t, s, h)
  PROVE  /\ CrashOK'
         /\ crash'[t].called = crash[t].called \o <<<<s, h>>>>
  <1> DEFINE one == <<<<s, h>>>>
             r == [crash[t] EXCEPT !.source = s, !.called = @ \o one]
  <1>1. crash' = [crash EXCEPT ![t] = r] /\ isLate' = isLate /\ ended' = ended
    BY DEF CallHandler, CrashOK
  <1>2. one \in Seq(Sources \X Handlers) /\ Len(one) = 1
    OBVIOUS
  <1>3. crash[t] \in CrashRecord /\ crash[t].called \in Seq(Sources \X Handlers)
    BY DEF CrashOK, CrashRecord
  <1> HIDE DEF one
  <1>4. crash[t].called \o one \in Seq(Sources \X Handlers) /\ crash[t].called \o one # <<>>
    BY <1>2, <1>3, ConcatProperties
  <1>5. r \in CrashRecord /\ r.called # <<>> /\ r.source # "none" /\ r.called = crash[t].called \o one
    BY <1>3, <1>4 DEF CrashRecord, Sources
  <1> HIDE DEF r
  <1>6. CrashOK'
    BY <1>1, <1>5 DEF CrashOK
  <1> QED BY <1>1, <1>3, <1>5, <1>6 DEF CrashOK, one

LEMMA CrashedType ==
  ASSUME OutputOK, list \in Seq(Loggers), NEW t, NEW s, NEW called \in Seq(Sources \X Handlers), s \in Sources \cup {"none"},
         called = <<>> <=> s = "none"
  PROVE  Crashed(t, s, called) \in CrashRecord
  <1>1. {l \in ToSet(list) : m_IsInitialized[l] /\ ~IsClosing(l)} \in SUBSET Loggers
    BY DEF ToSet
  <1>2. {"before"} \cup {h \in {"after"} : \A r \in Sources : IsReplaced(r)} \in SUBSET Handlers
    BY DEF Handlers
  <1>3. NoCrash \in CrashRecord
    BY DEF NoCrash, CrashRecord
  <1> QED BY <1>1, <1>2, <1>3 DEF Crashed, CrashRecord, OutputOK

LEMMA CrashStep ==
  /\ PcOK /\ OnOK /\ OutputOK /\ HandlersOK /\ CrashOK /\ list \in Seq(Loggers) /\ instance \in Instances
  /\ [Next]_vars
  => CrashOK'
  <1> SUFFICES ASSUME PcOK, OnOK, OutputOK, HandlersOK, CrashOK, list \in Seq(Loggers), instance \in Instances, [Next]_vars
               PROVE  CrashOK'
    OBVIOUS
  <1> USE TasksAre
  <1>0. CASE UNCHANGED crashVars
    BY <1>0 DEF crashVars, CrashOK
  <1>1. ASSUME NEW t \in Tasks, NEW r \in CrashRecord, crash' = [crash EXCEPT ![t] = r], UNCHANGED <<isLate, ended>>,
               r.called = <<>> <=> r.source = "none"
        PROVE  CrashOK'
    BY <1>1 DEF CrashOK
  <1>2. ASSUME NEW t \in Threads, Call(t) PROVE CrashOK'
    <2>1. ASSUME NEW l \in Loggers, NEW op \in Closes, StartsToClose(t, op, l) PROVE CrashOK'
      <3>1. \A u \in Tasks : /\ [crash[u] EXCEPT !.expects = @ \ {l}] \in CrashRecord
                            /\ [crash[u] EXCEPT !.expects = @ \ {l}].called = crash[u].called
                            /\ [crash[u] EXCEPT !.expects = @ \ {l}].source = crash[u].source
        BY ZenonT(40) DEF CrashOK, CrashRecord
      <3>2. crash' = [u \in Tasks |-> [crash[u] EXCEPT !.expects = @ \ {l}]] /\ UNCHANGED <<isLate, ended>>
        BY <2>1 DEF StartsToClose
      <3> QED BY <3>1, <3>2 DEF CrashOK
    <2>2. ASSUME EndWrite(t) \/ EndKeep(t) \/ EndRead(t) \/ LockList(t) \/ Register(t) \/ Unregister(t) \/ UnregisterBase(t)
                 \/ LockToClose(t) \/ Close(t) \/ Destroyed(t)
                 \/ \E l \in Loggers : StartWrite(t, l) \/ Queue(t, l) \/ StartKeep(t, l) \/ StartRead(t, l) \/ Initialize(t, l)
                                       \/ Open(t, l)
          PROVE  UNCHANGED crashVars
      BY <2>2 DEF EndWrite, EndKeep, EndRead, LockList, Register, Unregister, UnregisterBase, LockToClose, Close, Destroyed,
                  StartWrite, Queue, StartKeep, StartRead, Initialize, Open, Return, Continue
    <2> QED BY <1>0, <1>2, <2>1, <2>2 DEF Call, StartClose, Closes
  <1>3. ASSUME NEW w \in Workers, Work(w) PROVE UNCHANGED crashVars
    BY <1>3 DEF Work, WorkerTake, WorkerWrite, WorkerMark, Return, Continue
  <1>4. ASSUME NEW t \in Tasks, HandleCrash(t) PROVE CrashOK'
    <2>1. <<>> \in Seq(Sources \X Handlers)
      OBVIOUS
    <2>2. Crashed(t, "none", <<>>) \in CrashRecord
      BY <2>1, CrashedType
    <2>3. Crashed(t, "none", <<>>).called = <<>> /\ Crashed(t, "none", <<>>).source = "none"
      BY DEF Crashed, NoCrash
    <2> QED BY <1>1, <1>4, <2>2, <2>3 DEF HandleCrash
  <1>5. ASSUME NEW t \in Tasks, NEW s \in Sources, Crash(t, s) PROVE CrashOK'
    <2> DEFINE called == <<<<s, current[s]>>>>
    <2>1. called \in Seq(Sources \X Handlers) /\ called # <<>> /\ s # "none"
      BY DEF HandlersOK, Sources
    <2>2. crash' = [crash EXCEPT ![t] = Crashed(t, s, called)] /\ UNCHANGED <<isLate, ended>>
      BY <1>5 DEF Crash
    <2> HIDE DEF called
    <2>3. Crashed(t, s, called) \in CrashRecord
      BY <2>1, CrashedType
    <2>4. Crashed(t, s, called).called = called /\ Crashed(t, s, called).source = s
      BY DEF Crashed, NoCrash
    <2> QED BY <1>1, <2>1, <2>2, <2>3, <2>4
  <1>6. ASSUME NEW t \in Tasks, PassOn(t) PROVE CrashOK'
    <2>1. CASE UNCHANGED <<crash, isLate>> /\ ended' = t
      BY <2>1 DEF CrashOK
    <2> QED BY <1>6, <2>1, PassOnIs, CallHandlerType
  <1>7. ASSUME NEW t \in Tasks, HandleFirstCrash(t) PROVE CrashOK'
    BY <1>7, <1>0 DEF HandleFirstCrash, crashVars
  <1>8. ASSUME NEW t \in Tasks, HandleCrashInLoggers(t) PROVE CrashOK'
    <2>1. UNCHANGED <<isLate, ended>>
      BY <1>8 DEF HandleCrashInLoggers, UnchangedInVisit
    <2>2. CASE crash' = crash
      BY <2>1, <2>2, <1>0 DEF crashVars
    <2>3. CASE crash' = [crash EXCEPT ![t].todo = list, ![t].isWritten = TRUE]
      <3> DEFINE r == [crash[t] EXCEPT !.todo = list, !.isWritten = TRUE]
      <3>1. r \in CrashRecord /\ r.called = crash[t].called /\ r.source = crash[t].source
        <4>1. crash[t] \in CrashRecord
          BY DEF CrashOK
        <4> QED BY <4>1 DEF CrashRecord
      <3>2. crash' = [crash EXCEPT ![t] = r]
        BY <2>3 DEF CrashOK
      <3> HIDE DEF r
      <3> QED BY <1>1, <2>1, <3>1, <3>2 DEF CrashOK
    <2>4. CASE Visit(t)
      <3>1. CASE crash[t].todo # <<>>
        <4>1. crash[t].todo \in Seq(Loggers)
          <5>1. crash[t] \in CrashRecord
            BY DEF CrashOK
          <5> QED BY <5>1 DEF CrashRecord
        <4>2. Tail(crash[t].todo) \in Seq(Loggers) /\ m_LastQueuedSequence[Head(crash[t].todo)] \in Nat
          BY <3>1, <4>1 DEF OutputOK
        <4> DEFINE r == [crash[t] EXCEPT !.todo = Tail(@), !.lastQueued = m_LastQueuedSequence[Head(crash[t].todo)]]
        <4>3. crash' = [crash EXCEPT ![t] = r]
          BY <2>4, <3>1 DEF Visit, CrashOK
        <4>4. r \in CrashRecord /\ r.called = crash[t].called /\ r.source = crash[t].source
          <5> DEFINE rest == Tail(crash[t].todo)
                     last == m_LastQueuedSequence[Head(crash[t].todo)]
          <5>1. rest \in Seq(Loggers) /\ last \in Nat /\ crash[t] \in CrashRecord
            BY <4>2 DEF CrashOK
          <5> HIDE DEF rest, last
          <5>2. [crash[t] EXCEPT !.todo = rest, !.lastQueued = last] \in CrashRecord
            BY <5>1 DEF CrashRecord
          <5>3. r = [crash[t] EXCEPT !.todo = rest, !.lastQueued = last]
            BY DEF rest, last
          <5> QED BY <5>1, <5>2, <5>3 DEF CrashRecord
        <4> HIDE DEF r
        <4> QED BY <1>1, <2>1, <4>3, <4>4 DEF CrashOK
      <3> QED BY <2>2, <2>4, <3>1 DEF Visit
    <2> QED BY <1>8, <2>2, <2>3, <2>4 DEF HandleCrashInLoggers, LockListOfLoggers, Await
  <1>9. ASSUME NEW t \in Tasks, Timeout(t) PROVE CrashOK'
    BY <1>9 DEF Timeout, CrashOK
  <1>10. Setup => UNCHANGED crashVars
    BY DEF Setup, UnchangedInSetup
  <1>11. UNCHANGED vars => UNCHANGED crashVars
    BY DEF vars
  <1> QED BY <1>0, <1>2, <1>3, <1>4, <1>5, <1>6, <1>7, <1>8, <1>9, <1>10, <1>11 DEF Next, Handle

----------------------------------------------------------------------------
(* The list of loggers *)

Destroys == {"Destroy", "DestroyBase"}
\* Where a logger's destructor has taken it off the list
Gone(op, step) == op = "DestroyBase" \/ (op = "Destroy" /\ step \in {"close", "locked", "join"})
\* Calls that a destructor does not wait for
Away == {"none", "crash", "Work"}

\* A logger is on the list only while there is one
Listed == \A l \in Loggers : l \in ToSet(list) => exists[l]
\* It is off it when its parts are destroyed, and put on it before
NotListed == \A t \in Tasks : Gone(pc[t][1], pc[t][2]) => on[t] \notin ToSet(list)
Opened == \A t \in Tasks : pc[t][1] = "Initialize" => exists[on[t]]
\* No other thread calls a logger that is being destroyed
Alone ==
    /\ \A t, u \in Tasks : t # u /\ pc[t][1] \in Destroys /\ on[u] = on[t] => pc[u][1] \in Away
    /\ \A w \in Workers : pc[w][1] \in Away
RegistryOK == ListOK /\ Listed /\ NotListed /\ Opened /\ Alone

\* A step that changes neither the list nor the loggers there are
LifeStays == UNCHANGED <<list, exists>>

LEMMA RegistryStays ==
  ASSUME RegistryOK, NEW t \in Tasks, NEW op, NEW step, Moves(t, op, step), OthersStay(t), LifeStays, op \in Away
  PROVE  RegistryOK'
  <1>1. op \notin Destroys /\ op # "Initialize" /\ ~Gone(op, step)
    BY DEF Away, Destroys, Gone
  <1>2. \A u \in Tasks : u # t => pc'[u] = pc[u] /\ on'[u] = on[u]
    BY DEF Moves, OthersStay
  <1>3. pc'[t][1] = op /\ pc'[t][2] = step
    BY DEF Moves
  <1>4. Workers \subseteq Tasks
    BY TasksAre
  <1>5. ListOK' /\ Listed'
    BY DEF RegistryOK, ListOK, Listed, LifeStays
  <1>6. NotListed' /\ Opened'
    BY <1>1, <1>2, <1>3 DEF RegistryOK, NotListed, Opened, LifeStays
  <1>7. Alone'
    BY <1>1, <1>2, <1>3, <1>4 DEF RegistryOK, Alone
  <1> QED BY <1>5, <1>6, <1>7 DEF RegistryOK

LEMMA RegistryGoesOn ==
  ASSUME RegistryOK, NEW t \in Tasks, NEW step, Moves(t, pc[t][1], step), on' = on, LifeStays,
         Gone(pc[t][1], step) => on[t] \notin ToSet(list)
  PROVE  RegistryOK'
  <1>1. \A u \in Tasks : pc'[u][1] = pc[u][1] /\ (u # t => pc'[u][2] = pc[u][2])
    BY DEF Moves
  <1>2. pc'[t][2] = step
    BY DEF Moves
  <1>3. Workers \subseteq Tasks
    BY TasksAre
  <1>4. ListOK' /\ Listed' /\ NotListed' /\ Opened'
    BY <1>1, <1>2 DEF RegistryOK, ListOK, Listed, NotListed, Opened, LifeStays
  <1>5. Alone'
    BY <1>1, <1>3 DEF RegistryOK, Alone
  <1> QED BY <1>4, <1>5 DEF RegistryOK

\* A thread calls a logger
LEMMA RegistryBegins ==
  ASSUME RegistryOK, NEW t \in Threads, NEW op, NEW step, Moves(t, op, step), OthersStay(t), LifeStays,
         NEW l \in Loggers, on'[t] = l, exists[l], ~IsDestroying(l),
         \/ op \notin Destroys
         \/ /\ op = "Destroy" /\ step = "lock list"
            /\ \A u \in Threads \ {t} : on[u] = l => pc[u][1] \in Away
  PROVE  RegistryOK'
  <1>1. t \in Tasks /\ t \notin Workers /\ Workers \subseteq Tasks /\ \A u \in Tasks : u \in Threads \/ u \in Workers
    BY WorkerAssumption DEF Tasks
  <1>2. \A u \in Tasks : u # t => pc'[u] = pc[u] /\ on'[u] = on[u]
    BY DEF Moves, OthersStay
  <1>3. pc'[t][1] = op /\ pc'[t][2] = step
    BY DEF Moves
  <1>4. ~Gone(op, step)
    BY DEF Gone, Destroys
  <1>5. ListOK' /\ Listed'
    BY DEF RegistryOK, ListOK, Listed, LifeStays
  <1>6. NotListed'
    BY <1>2, <1>3, <1>4 DEF RegistryOK, NotListed, LifeStays
  <1>7. Opened'
    BY <1>2, <1>3 DEF RegistryOK, Opened, LifeStays
  <1>8. \A u \in Tasks : pc[u][1] \in Destroys => on[u] # l
    BY DEF IsDestroying, IsIn, Destroys
  <1>9. \A w \in Workers : pc'[w][1] \in Away
    BY <1>1, <1>2 DEF RegistryOK, Alone
  <1>10. ASSUME NEW u \in Tasks, NEW v \in Tasks, u # v, pc'[u][1] \in Destroys, on'[v] = on'[u] PROVE pc'[v][1] \in Away
    <2>1. CASE v = t
      BY <1>2, <1>8, <1>10, <2>1
    <2>2. CASE u = t
      <3>1. on[v] = l /\ pc'[v] = pc[v] /\ op \in Destroys
        BY <1>2, <1>3, <1>10, <2>2
      <3> QED BY <1>1, <1>9, <1>10, <2>2, <3>1
    <2>3. CASE u # t /\ v # t
      BY <1>2, <1>10, <2>3 DEF RegistryOK, Alone
    <2> QED BY <2>1, <2>2, <2>3
  <1>11. Alone'
    BY <1>9, <1>10 DEF Alone
  <1> QED BY <1>5, <1>6, <1>7, <1>11 DEF RegistryOK

LEMMA Prepended ==
  ASSUME NEW S, NEW s \in Seq(S), NEW e \in S
  PROVE  /\ <<e>> \o s \in Seq(S) /\ ToSet(<<e>> \o s) = ToSet(s) \cup {e}
         /\ IsInjective(s) /\ e \notin ToSet(s) => IsInjective(<<e>> \o s)
  <1> DEFINE a == <<e>>
             r == a \o s
  <1>1. a \in Seq(S) /\ Len(a) = 1 /\ a[1] = e
    OBVIOUS
  <1> HIDE DEF a
  <1>2. r \in Seq(S) /\ Len(r) = Len(s) + 1 /\ \A i \in 1 .. Len(s) + 1 : r[i] = IF i = 1 THEN e ELSE s[i - 1]
    <2>1. r \in Seq(S) /\ Len(r) = 1 + Len(s)
      BY <1>1, ConcatProperties, SMTT(30)
    <2>2. \A i \in 1 .. Len(a) + Len(s) : r[i] = IF i <= Len(a) THEN a[i] ELSE s[i - Len(a)]
      BY <1>1, ConcatProperties
    <2>3. \A i \in 1 .. Len(s) + 1 : i <= 1 <=> i = 1
      OBVIOUS
    <2> QED BY <1>1, <2>1, <2>2, <2>3
  <1> HIDE DEF r
  <1>3. ToSet(r) = ToSet(s) \cup {e}
    <2>1. \A i \in 1 .. Len(s) : i + 1 \in 1 .. Len(s) + 1 /\ r[i + 1] = s[i]
      BY <1>2
    <2>2. r[1] = e /\ 1 \in 1 .. Len(s) + 1
      BY <1>2
    <2>3. \A i \in 1 .. Len(s) + 1 : i = 1 \/ i - 1 \in 1 .. Len(s)
      OBVIOUS
    <2>4. \A i \in 1 .. Len(s) : s[i] \in {r[j] : j \in 1 .. Len(s) + 1}
      BY <2>1
    <2>5. e \in {r[j] : j \in 1 .. Len(s) + 1}
      BY <2>2
    <2>6. \A i \in 1 .. Len(s) + 1 : r[i] \in {s[j] : j \in 1 .. Len(s)} \cup {e}
      BY <1>2, <2>3
    <2>7. DOMAIN r = 1 .. Len(s) + 1 /\ DOMAIN s = 1 .. Len(s)
      BY <1>2
    <2> QED BY <2>4, <2>5, <2>6, <2>7 DEF ToSet
  <1>4. ASSUME IsInjective(s), e \notin ToSet(s) PROVE IsInjective(r)
    <2> SUFFICES ASSUME NEW i \in 1 .. Len(s) + 1, NEW j \in 1 .. Len(s) + 1, r[i] = r[j] PROVE i = j
      BY <1>2 DEF IsInjective
    <2>1. \A k \in 1 .. Len(s) + 1 : k = 1 \/ (k - 1 \in 1 .. Len(s) /\ r[k] = s[k - 1] /\ r[k] # e)
      BY <1>2, <1>4 DEF ToSet
    <2>2. \A k, m \in 1 .. Len(s) : s[k] = s[m] => k = m
      BY <1>4 DEF IsInjective
    <2>3. CASE i = 1 \/ j = 1
      BY <1>2, <2>1, <2>3
    <2>4. CASE i # 1 /\ j # 1
      <3>1. i - 1 = j - 1
        BY <2>1, <2>2, <2>4
      <3> QED BY <3>1
    <2> QED BY <2>3, <2>4
  <1> QED BY <1>2, <1>3, <1>4 DEF r, a

LEMMA RegistryStep == PcOK /\ LifeOK /\ OnOK /\ RegistryOK /\ [Next]_vars => RegistryOK'
  <1> SUFFICES ASSUME PcOK, LifeOK, OnOK, RegistryOK, [Next]_vars PROVE RegistryOK'
    OBVIOUS
  <1> USE TasksAre
  <1>0. CASE UNCHANGED <<pc, on>> /\ LifeStays
    BY <1>0 DEF RegistryOK, ListOK, Listed, NotListed, Opened, Alone, LifeStays
  <1>8. "none" \in Away /\ "crash" \in Away /\ "Work" \in Away
    BY DEF Away
  <1>1. ASSUME NEW t \in Threads, Call(t) PROVE RegistryOK'
    <2>1. ASSUME NEW l \in Loggers, StartWrite(t, l) \/ StartKeep(t, l) \/ StartRead(t, l) \/ Initialize(t, l) PROVE RegistryOK'
      <3>1. OthersStay(t) /\ LifeStays /\ on'[t] = l /\ exists[l] /\ ~IsDestroying(l)
        BY <2>1 DEF StartWrite, StartKeep, StartRead, Initialize, Begin, OnOK, OthersStay, LifeStays, lifeVars
      <3>2. \E op \in {"Log", "Keep", "Read", "Initialize"} : \E step : Moves(t, op, step)
        BY <2>1, Moved DEF StartWrite, StartKeep, StartRead, Initialize
      <3> QED BY <3>1, <3>2, RegistryBegins DEF Destroys
    <2>2. ASSUME NEW l \in Loggers, Queue(t, l) \/ Open(t, l) PROVE RegistryOK'
      <3>1. pc[t] = <<"none", "idle">> /\ pc[t][1] = "none" /\ pc[t][2] = "idle" /\ OthersStay(t) /\ LifeStays /\ pc' = pc
        BY <2>2, AtIs DEF Queue, Open, Begin, OnOK, OthersStay, LifeStays, lifeVars
      <3>2. Moves(t, "none", "idle")
        BY <3>1 DEF Moves
      <3> QED BY <1>8, <3>1, <3>2, RegistryStays
    <2>3. ASSUME NEW l \in Loggers, NEW op \in Closes, StartClose(t, op, l) PROVE RegistryOK'
      <3>1. OthersStay(t) /\ LifeStays /\ on'[t] = l /\ exists[l] /\ ~IsDestroying(l)
        BY <2>3 DEF StartClose, StartsToClose, Begin, OnOK, OthersStay, LifeStays, lifeVars
      <3>2. CASE op # "Destroy"
        <4>1. op \notin Destroys /\ \E step : Moves(t, op, step)
          BY <2>3, <3>2, Moved DEF StartClose, StartsToClose, Destroys, Closes
        <4> QED BY <3>1, <4>1, RegistryBegins
      <3>3. CASE op = "Destroy"
        <4>1. Moves(t, "Destroy", "lock list")
          BY <2>3, <3>3, Moved DEF StartClose, StartsToClose
        <4>2. ASSUME NEW u \in Threads \ {t}, on[u] = l PROVE pc[u][1] \in Away
          <5>1. pc[u] = <<"none", "idle">> \/ HasCrashed(u)
            BY <2>3, <3>3, <4>2 DEF StartClose, StartsToClose
          <5> QED BY <1>8, <5>1 DEF HasCrashed
        <4> QED BY <3>1, <4>1, <4>2, RegistryBegins
      <3> QED BY <3>2, <3>3
    <2>4. ASSUME EndWrite(t) \/ EndKeep(t) \/ EndRead(t) PROVE RegistryOK'
      <3>1. OthersStay(t) /\ LifeStays /\ Moves(t, "none", "idle")
        BY <2>4, Moved DEF EndWrite, EndKeep, EndRead, Return, OthersStay, LifeStays, lifeVars
      <3> QED BY <1>8, <3>1, RegistryStays
    <2>5. ASSUME LockList(t) PROVE RegistryOK'
      <3>1. on' = on /\ LifeStays /\ Moves(t, pc[t][1], "change list")
        BY <2>5, Moved DEF LockList, Continue, LifeStays
      <3>2. Gone(pc[t][1], "change list") => Gone(pc[t][1], pc[t][2])
        BY DEF Gone
      <3> QED BY <3>1, <3>2, RegistryGoesOn DEF RegistryOK, NotListed
    <2>6. ASSUME Register(t) PROVE RegistryOK'
      <3>1. pc[t][1] = "Initialize"
        BY <2>6, AtIs DEF Register
      <3>2. on[t] \in Loggers /\ exists[on[t]]
        BY <3>1 DEF OnOK, UsesLogger, RegistryOK, Opened
      <3>3. list' = Registered(t) /\ UNCHANGED <<exists, on>> /\ Moves(t, "none", "idle")
        BY <2>6, Moved DEF Register, Return
      <3>4. ListOK' /\ ToSet(list)' = ToSet(list) \cup {on[t]}
        <4>1. CASE on[t] \in ToSet(list)
          BY <3>3, <4>1 DEF Registered, RegistryOK, ListOK
        <4>2. CASE on[t] \notin ToSet(list)
          BY <3>2, <3>3, <4>2, Prepended DEF Registered, RegistryOK, ListOK
        <4> QED BY <4>1, <4>2
      <3>5. Listed'
        BY <3>2, <3>3, <3>4 DEF RegistryOK, Listed
      <3>6. \A u \in Tasks : u # t => pc'[u] = pc[u]
        BY <3>3 DEF Moves
      <3>7. pc'[t][1] = "none" /\ ~Gone("none", "idle") /\ pc'[t][2] = "idle"
        BY <3>3 DEF Moves, Gone
      <3>8. Opened' /\ Alone'
        BY <1>8, <3>3, <3>6, <3>7 DEF RegistryOK, Opened, Alone, Destroys
      <3>9. ASSUME NEW u \in Tasks, u # t, Gone(pc[u][1], pc[u][2]) PROVE on[u] # on[t]
        BY <3>1, <3>9 DEF RegistryOK, Alone, Gone, Destroys, Away
      <3>10. NotListed'
        BY <3>3, <3>4, <3>6, <3>7, <3>9 DEF RegistryOK, NotListed
      <3> QED BY <3>4, <3>5, <3>8, <3>10 DEF RegistryOK
    <2>7. ASSUME Unregister(t) \/ UnregisterBase(t) PROVE RegistryOK'
      <3>1. \/ pc[t][1] \in {"Finalize", "Destroy"} /\ Moves(t, pc[t][1], "close")
            \/ pc[t][1] = "DestroyBase" /\ Moves(t, "none", "idle")
        BY <2>7, AtIs, Moved DEF Unregister, UnregisterBase, Return
      <3>2. on[t] \in Loggers
        BY <3>1 DEF OnOK, UsesLogger
      <3>3. list' = RemoveFirst(list, on[t]) /\ UNCHANGED <<exists, on>>
        BY <2>7 DEF Unregister, UnregisterBase, Unregistered, Return, Continue
      <3>4. ListOK' /\ ToSet(list)' = ToSet(list) \ {on[t]}
        BY <3>2, <3>3, RemovedOne DEF RegistryOK, ListOK
      <3>5. \A u \in Tasks : u # t => pc'[u] = pc[u]
        BY <3>1 DEF Moves
      <3>6. pc'[t][1] = pc[t][1] \/ pc'[t][1] = "none"
        BY <3>1 DEF Moves
      <3>7. Listed' /\ NotListed' /\ Opened'
        BY <3>3, <3>4, <3>5, <3>6 DEF RegistryOK, Listed, NotListed, Opened
      <3>8. Alone'
        BY <1>8, <3>3, <3>5, <3>6 DEF RegistryOK, Alone, Destroys
      <3> QED BY <3>4, <3>7, <3>8 DEF RegistryOK
    <2>8. ASSUME LockToClose(t) \/ Close(t) PROVE RegistryOK'
      <3>1. pc[t][1] \in Closes /\ (pc[t][2] = "close" \/ pc[t][2] = "locked")
        BY <2>8, Labels DEF LockToClose, Close
      <3>2. /\ on' = on /\ LifeStays
            /\ Moves(t, pc[t][1], "locked") \/ (pc[t][1] = "Destroy" /\ Moves(t, "Destroy", "join")) \/ Moves(t, "none", "idle")
        BY <2>8, Moved DEF LockToClose, Close, Continue, LifeStays, lifeVars
      <3>3. pc[t][1] = "Destroy" => on[t] \notin ToSet(list)
        BY <3>1 DEF RegistryOK, NotListed, Gone
      <3>4. \A step : Gone(pc[t][1], step) => pc[t][1] = "Destroy"
        BY <3>1 DEF Gone, Closes
      <3> QED BY <1>8, <3>2, <3>3, <3>4, RegistryGoesOn, RegistryStays DEF OthersStay
    <2>9. ASSUME Destroyed(t) PROVE RegistryOK'
      <3>1. pc[t][1] = "Destroy" /\ pc[t][2] = "join"
        BY <2>9, AtIs DEF Destroyed
      <3>2. on[t] \in Loggers /\ on[t] \notin ToSet(list)
        BY <3>1 DEF OnOK, UsesLogger, RegistryOK, NotListed, Gone
      <3>3. UNCHANGED <<list, on>> /\ exists' = [exists EXCEPT ![on[t]] = FALSE] /\ Moves(t, "DestroyBase", "lock list")
        BY <2>9, Moved DEF Destroyed, Continue
      <3>4. \A k \in Loggers : k # on[t] => exists'[k] = exists[k]
        BY <3>3 DEF LifeOK
      <3>5. \A u \in Tasks : u # t => pc'[u] = pc[u]
        BY <3>3 DEF Moves
      <3>6. pc'[t][1] = "DestroyBase"
        BY <3>3 DEF Moves
      <3>7. ListOK' /\ Listed'
        BY <3>2, <3>3, <3>4 DEF RegistryOK, ListOK, Listed
      <3>8. NotListed'
        BY <3>2, <3>3, <3>5 DEF RegistryOK, NotListed
      <3>9. ASSUME NEW u \in Tasks, pc'[u][1] = "Initialize" PROVE exists'[on'[u]]
        <4>1. u # t /\ pc[u][1] = "Initialize" /\ on'[u] = on[u]
          BY <3>3, <3>5, <3>6, <3>9
        <4>2. on[u] # on[t]
          BY <3>1, <4>1 DEF RegistryOK, Alone, Destroys, Away
        <4> QED BY <3>4, <4>1, <4>2 DEF RegistryOK, Opened, OnOK, UsesLogger
      <3>10. Alone'
        BY <3>1, <3>3, <3>5, <3>6 DEF RegistryOK, Alone, Destroys, Away
      <3> QED BY <3>7, <3>8, <3>9, <3>10 DEF RegistryOK, Opened
    <2> QED BY <1>1, <2>1, <2>2, <2>3, <2>4, <2>5, <2>6, <2>7, <2>8, <2>9 DEF Call, Closes
  <1>2. ASSUME NEW w \in Workers, Work(w) PROVE RegistryOK'
    <2>1. LifeStays
      BY <1>2 DEF Work, WorkerTake, WorkerWrite, WorkerMark, LifeStays, lifeVars
    <2>2. OthersStay(w)
      BY <1>2 DEF Work, WorkerTake, WorkerWrite, WorkerMark, Return, Continue, OthersStay, OnOK
    <2>3. Moves(w, "Work", "write") \/ Moves(w, "Work", "mark") \/ Moves(w, "none", "idle")
      BY <1>2, Moved DEF Work, WorkerTake, WorkerWrite, WorkerMark, Return
    <2> QED BY <1>8, <2>1, <2>2, <2>3, RegistryStays
  <1>3. ASSUME NEW t \in Tasks, HandleCrash(t) \/ (\E s \in Sources : Crash(t, s)) \/ HandleFirstCrash(t) \/ PassOn(t)
        PROVE  RegistryOK'
    <2>1. LifeStays /\ OthersStay(t)
      BY <1>3, BeginsCrash, PassesOn DEF LifeStays, lifeVars, OthersStay, OnOK
    <2>2. \/ on' = on /\ pc' = pc
          \/ Moves(t, "crash", "handler") \/ Moves(t, "crash", "pass") \/ Moves(t, "crash", "lock list of loggers")
      BY <1>3, BeginsCrash, PassesOn
    <2> QED BY <1>0, <1>8, <2>1, <2>2, RegistryStays
  <1>4. ASSUME NEW t \in Tasks, HandleCrashInLoggers(t) PROVE RegistryOK'
    <2>1. LifeStays
      BY <1>4 DEF HandleCrashInLoggers, UnchangedInVisit, LifeStays
    <2>2. OthersStay(t)
      BY <1>4 DEF HandleCrashInLoggers, Visit, Await, OthersStay, OnOK
    <2>3. \E step : Moves(t, "crash", step)
      BY <1>4, Moved DEF HandleCrashInLoggers, LockListOfLoggers, Visit, Await, LockOutput, WriteCrash, Steps
    <2> QED BY <1>8, <2>1, <2>2, <2>3, RegistryStays
  <1>5. ASSUME NEW t \in Tasks, Timeout(t) PROVE RegistryOK'
    BY <1>0, <1>5 DEF Timeout, LifeStays, lifeVars
  <1>6. Setup => RegistryOK'
    BY <1>0 DEF Setup, UnchangedInSetup, LifeStays, lifeVars
  <1>7. UNCHANGED vars => RegistryOK'
    BY <1>0 DEF vars, LifeStays, lifeVars
  <1> QED BY <1>1, <1>2, <1>3, <1>4, <1>5, <1>6, <1>7 DEF Next, Handle

----------------------------------------------------------------------------
(* The visits of the loggers *)

\* The first of a list of different elements is not in the rest
LEMMA HeadAndTail ==
  ASSUME NEW S, NEW s \in Seq(S), s # <<>>, IsInjective(s)
  PROVE  /\ Head(s) \in S /\ Tail(s) \in Seq(S) /\ IsInjective(Tail(s))
         /\ Head(s) \notin ToSet(Tail(s)) /\ ToSet(s) = ToSet(Tail(s)) \cup {Head(s)}
  <1> DEFINE r == Tail(s)
  <1>1. r \in Seq(S) /\ Len(r) = Len(s) - 1 /\ Len(s) >= 1 /\ Head(s) = s[1]
    OBVIOUS
  <1>2. \A i \in 1 .. Len(r) : r[i] = s[i + 1]
    OBVIOUS
  <1> HIDE DEF r
  <1>3. \A i, j \in 1 .. Len(s) : s[i] = s[j] => i = j
    BY DEF IsInjective
  <1>4. \A i \in 1 .. Len(r) : i + 1 \in 1 .. Len(s) /\ i + 1 # 1
    BY <1>1
  <1>5. IsInjective(r)
    <2> SUFFICES ASSUME NEW i \in 1 .. Len(r), NEW j \in 1 .. Len(r), r[i] = r[j] PROVE i = j
      BY <1>1 DEF IsInjective
    <2>1. i + 1 = j + 1
      BY <1>2, <1>3, <1>4
    <2> QED BY <2>1
  <1>6. Head(s) \notin ToSet(r)
    BY <1>1, <1>2, <1>3, <1>4 DEF ToSet
  <1>7. ToSet(s) = ToSet(r) \cup {Head(s)}
    <2>1. ASSUME NEW i \in 1 .. Len(s) PROVE s[i] = Head(s) \/ s[i] \in ToSet(r)
      <3>1. i = 1 \/ (i - 1 \in 1 .. Len(r) /\ r[i - 1] = s[i])
        BY <1>1, <1>2
      <3> QED BY <1>1, <3>1 DEF ToSet
    <2>2. ToSet(r) \cup {Head(s)} \subseteq ToSet(s)
      BY <1>1, <1>2, <1>4 DEF ToSet
    <2> QED BY <2>1, <2>2 DEF ToSet
  <1> QED BY <1>1, <1>5, <1>6, <1>7 DEF r

\* The list does not change while a handler visits it
ToVisit(t) == ToSet(crash[t].todo)
VisitOK ==
    \A t \in Tasks :
        /\ Visits(t) =>
              /\ ToVisit(t) \subseteq ToSet(list) /\ IsInjective(crash[t].todo) /\ on[t] \notin ToVisit(t)
              /\ on[t] \in ToSet(list) \/ (pc[t][2] = "visit" /\ on[t] = NoOne)
        /\ HasCrashed(t) /\ ~Visits(t) => on[t] = NoOne

\* Only the crash of t changes what is still to visit
VisitsStay(t) == \A u \in Tasks \ {t} : crash'[u].todo = crash[u].todo

LEMMA OthersVisit ==
  ASSUME NEW t \in Tasks, NEW op, NEW step, Moves(t, op, step)
  PROVE  /\ \A u \in Tasks \ {t} : (Visits(u)' <=> Visits(u)) /\ (HasCrashed(u)' <=> HasCrashed(u))
         /\ op # "crash" => ~Visits(t)' /\ ~HasCrashed(t)'
         /\ step \notin VisitSteps => ~Visits(t)'
         /\ op = "crash" => HasCrashed(t)'
         /\ op = "crash" /\ step \in VisitSteps => Visits(t)'
  BY DEF Visits, HasCrashed, Moves

LEMMA VisitsUnchanged ==
  ASSUME VisitOK, NEW t \in Tasks, NEW op, NEW step, Moves(t, op, step), OthersStay(t), VisitsStay(t), list' = list,
         op # "crash" \/ (step \notin VisitSteps /\ on'[t] = NoOne)
  PROVE  VisitOK'
  BY OthersVisit DEF VisitOK, ToVisit, OthersStay, VisitsStay, Moves

LEMMA VisitGoesOn ==
  ASSUME VisitOK, NEW t \in Tasks, NEW step, Moves(t, "crash", step), OthersStay(t), VisitsStay(t), list' = list,
         Visits(t), crash'[t].todo = crash[t].todo, on'[t] = on[t], on[t] \in ToSet(list), step \in VisitSteps
  PROVE  VisitOK'
  BY OthersVisit DEF VisitOK, ToVisit, OthersStay, VisitsStay, Moves

LEMMA VisitMade ==
  ASSUME VisitOK, NEW t \in Tasks, NEW step, Moves(t, "crash", step), OthersStay(t), VisitsStay(t), list' = list,
         step \in VisitSteps, NEW l, on'[t] = l, NEW s, crash'[t].todo = s,
         ToSet(s) \subseteq ToSet(list), IsInjective(s), l \notin ToSet(s),
         l \in ToSet(list) \/ (step = "visit" /\ l = NoOne)
  PROVE  VisitOK'
  <1>1. (Visits(t) /\ HasCrashed(t))' /\ pc'[t][2] = step
    BY OthersVisit DEF Moves
  <1> QED BY <1>1, OthersVisit DEF VisitOK, ToVisit, OthersStay, VisitsStay, Moves

LEMMA NobodyVisits ==
  ASSUME ListLock, NEW t \in Tasks, registryHolder = t, pc[t][2] = "change list"
  PROVE  \A u \in Tasks : ~Visits(u)
  BY DEF ListLock, Visits, VisitSteps

LEMMA VisitStepOK ==
  PcOK /\ OnOK /\ RegistryOK /\ ListLock /\ CrashOK /\ VisitOK /\ [Next]_vars => VisitOK'
  <1> SUFFICES ASSUME PcOK, OnOK, RegistryOK, ListLock, CrashOK, VisitOK, [Next]_vars PROVE VisitOK'
    OBVIOUS
  <1> USE TasksAre
  <1>0. CASE UNCHANGED <<pc, on, crash, list>>
    BY <1>0 DEF VisitOK, ToVisit, Visits, HasCrashed
  <1>1. ASSUME NEW t \in Threads, Call(t) PROVE VisitOK'
    <2>1. ASSUME NEW l \in Loggers, StartWrite(t, l) \/ StartKeep(t, l) \/ StartRead(t, l) \/ Initialize(t, l) PROVE VisitOK'
      <3>1. OthersStay(t) /\ VisitsStay(t) /\ list' = list
        BY <2>1 DEF StartWrite, StartKeep, StartRead, Initialize, Begin, OnOK, OthersStay, VisitsStay, lifeVars, crashVars
      <3>2. \/ Moves(t, "Log", "write") \/ Moves(t, "Keep", "keep") \/ Moves(t, "Read", "lines")
            \/ Moves(t, "Initialize", "lock list")
        BY <2>1, Moved DEF StartWrite, StartKeep, StartRead, Initialize
      <3> QED BY <3>1, <3>2, VisitsUnchanged
    <2>2. ASSUME NEW l \in Loggers, Queue(t, l) \/ Open(t, l) PROVE VisitOK'
      <3>1. pc[t] = <<"none", "idle">> /\ pc[t][1] = "none" /\ pc[t][2] = "idle" /\ OthersStay(t) /\ VisitsStay(t) /\ list' = list /\ pc' = pc
        BY <2>2, AtIs DEF Queue, Open, Begin, OnOK, OthersStay, VisitsStay, lifeVars, crashVars
      <3>2. Moves(t, "none", "idle")
        BY <3>1 DEF Moves
      <3> QED BY <3>1, <3>2, VisitsUnchanged
    <2>3. ASSUME NEW l \in Loggers, NEW op \in Closes, StartClose(t, op, l) PROVE VisitOK'
      <3>1. OthersStay(t) /\ list' = list /\ op # "crash" /\ (Moves(t, op, "lock list") \/ Moves(t, op, "close"))
        BY <2>3, Moved DEF StartClose, StartsToClose, Begin, OnOK, OthersStay, lifeVars, Closes
      <3>2. VisitsStay(t)
        <4>1. \A u \in Tasks : crash[u] \in CrashRecord
          BY DEF CrashOK
        <4>2. crash' = [u \in Tasks |-> [crash[u] EXCEPT !.expects = @ \ {l}]]
          BY <2>3 DEF StartClose, StartsToClose
        <4> QED BY <4>1, <4>2 DEF VisitsStay, CrashRecord
      <3> QED BY <3>1, <3>2, VisitsUnchanged
    <2>4. ASSUME EndWrite(t) \/ EndKeep(t) \/ EndRead(t) \/ Close(t) \/ Destroyed(t) PROVE VisitOK'
      <3>1. /\ OthersStay(t) /\ VisitsStay(t) /\ list' = list
            /\ Moves(t, "none", "idle") \/ Moves(t, "Destroy", "join") \/ Moves(t, "DestroyBase", "lock list")
        BY <2>4, Moved DEF EndWrite, EndKeep, EndRead, Close, Destroyed, Return, Continue, OthersStay, VisitsStay, lifeVars, crashVars
      <3> QED BY <3>1, VisitsUnchanged
    <2>5. ASSUME LockList(t) PROVE VisitOK'
      <3>1. OthersStay(t) /\ VisitsStay(t) /\ list' = list /\ Moves(t, pc[t][1], "change list")
        BY <2>5, Moved DEF LockList, Continue, OthersStay, VisitsStay, crashVars
      <3>2. pc[t][1] # "crash"
        BY <2>5, Labels DEF LockList, Changes
      <3> QED BY <3>1, <3>2, VisitsUnchanged
    <2>6. ASSUME Register(t) \/ Unregister(t) \/ UnregisterBase(t) PROVE VisitOK'
      <3>1. pc[t][2] = "change list"
        BY <2>6, AtIs, Zenon DEF Register, Unregister, UnregisterBase
      <3>4. \A u \in Tasks : ~Visits(u)
        BY <3>1, NobodyVisits DEF ListLock
      <3>2. Moves(t, "none", "idle") \/ Moves(t, "Finalize", "close") \/ Moves(t, "Destroy", "close")
        BY <2>6, Moved DEF Register, Unregister, UnregisterBase, Return
      <3>3. on' = on
        BY <2>6 DEF Register, Unregister, UnregisterBase, Return, Continue
      <3>5. \A u \in Tasks \ {t} : ~Visits(u)' /\ (HasCrashed(u)' <=> HasCrashed(u))
        BY <3>2, <3>4, OthersVisit
      <3>6. ~Visits(t)' /\ ~HasCrashed(t)'
        BY <3>2, OthersVisit
      <3> QED BY <3>3, <3>4, <3>5, <3>6 DEF VisitOK
    <2>7. ASSUME LockToClose(t) PROVE VisitOK'
      <3>1. OthersStay(t) /\ VisitsStay(t) /\ list' = list /\ Moves(t, pc[t][1], "locked")
        BY <2>7, Moved DEF LockToClose, Continue, OthersStay, VisitsStay, lifeVars, crashVars
      <3>2. pc[t][1] # "crash"
        BY <2>7, Labels DEF LockToClose, Closes
      <3> QED BY <3>1, <3>2, VisitsUnchanged
    <2> QED BY <1>1, <2>1, <2>2, <2>3, <2>4, <2>5, <2>6, <2>7 DEF Call, Closes
  <1>2. ASSUME NEW w \in Workers, Work(w) PROVE VisitOK'
    <2>1. list' = list /\ OthersStay(w) /\ VisitsStay(w)
      BY <1>2 DEF Work, WorkerTake, WorkerWrite, WorkerMark, Return, Continue, OthersStay, OnOK, VisitsStay, lifeVars, crashVars
    <2>2. Moves(w, "Work", "write") \/ Moves(w, "Work", "mark") \/ Moves(w, "none", "idle")
      BY <1>2, Moved DEF Work, WorkerTake, WorkerWrite, WorkerMark, Return
    <2> QED BY <2>1, <2>2, VisitsUnchanged
  <1>3. ASSUME NEW t \in Tasks, HandleCrash(t) \/ (\E s \in Sources : Crash(t, s)) \/ HandleFirstCrash(t) \/ PassOn(t)
        PROVE  VisitOK'
    <2>1. list' = list /\ OthersStay(t)
      BY <1>3, BeginsCrash, PassesOn DEF lifeVars, OthersStay, OnOK
    <2>2. VisitsStay(t)
      BY <1>3 DEF HandleCrash, Crash, HandleFirstCrash, PassOn, AfterHandleCrash, OnTerminate, OnUnhandledException, OnAbortSignal,
                  OnFatalSignal, OtherHandler, DefaultHandler, CallHandler, VisitsStay, CrashOK
    <2>3. on'[t] = NoOne
      BY <1>3, BeginsCrash, PassesOn DEF OnOK, VisitOK, HasCrashed, Visits, VisitSteps
    <2>4. ASSUME pc' = pc PROVE VisitOK'
      <3>1. ~Visits(t) /\ \A u \in Tasks : (Visits(u)' <=> Visits(u)) /\ (HasCrashed(u)' <=> HasCrashed(u))
        BY <1>3, <2>4, BeginsCrash, PassesOn DEF Moves, HasCrashed, Visits, VisitSteps
      <3>2. \A u \in Tasks \ {t} : ToVisit(u)' = ToVisit(u) /\ crash'[u].todo = crash[u].todo /\ on'[u] = on[u]
        BY <2>1, <2>2 DEF ToVisit, OthersStay, VisitsStay
      <3> QED BY <2>1, <2>3, <2>4, <3>1, <3>2 DEF VisitOK
    <2>5. \/ pc' = pc
          \/ Moves(t, "crash", "handler") \/ Moves(t, "crash", "pass") \/ Moves(t, "crash", "lock list of loggers")
      BY <1>3, BeginsCrash, PassesOn
    <2> QED BY <2>1, <2>2, <2>3, <2>4, <2>5, VisitsUnchanged DEF VisitSteps
  <1>4. ASSUME NEW t \in Tasks, HandleCrashInLoggers(t) PROVE VisitOK'
    <2>1. list' = list /\ OthersStay(t)
      BY <1>4 DEF HandleCrashInLoggers, UnchangedInVisit, Visit, Await, OthersStay, OnOK
    <2>2. VisitsStay(t)
      BY <1>4 DEF HandleCrashInLoggers, LockListOfLoggers, Visit, Await, VisitsStay, CrashOK
    <2>3. CASE LockListOfLoggers(t) /\ on' = on
      <3>1. pc[t][1] = "crash" /\ pc[t][2] = "lock list of loggers"
        BY <2>3, StepIs DEF LockListOfLoggers, VisitStep
      <3>2. on[t] = NoOne
        BY <3>1 DEF VisitOK, HasCrashed, Visits, VisitSteps
      <3>3. CASE Steps(t, "lock list of loggers", "pass")
        BY <2>1, <2>2, <2>3, <3>2, <3>3, StepIs, VisitsUnchanged DEF VisitStep, VisitSteps
      <3>4. CASE Steps(t, "lock list of loggers", "visit") /\ crash' = [crash EXCEPT ![t].todo = list, ![t].isWritten = TRUE]
        <4>1. crash'[t].todo = list
          BY <3>4 DEF CrashOK, CrashRecord
        <4>2. Moves(t, "crash", "visit")
          BY <3>4, StepIs DEF VisitStep
        <4>3. NoOne \notin ToSet(list) /\ IsInjective(list)
          BY WorkerAssumption DEF RegistryOK, ListOK, ToSet
        <4> QED BY <2>1, <2>2, <2>3, <3>2, <4>1, <4>2, <4>3, VisitMade DEF VisitSteps
      <3> QED BY <2>3, <3>3, <3>4 DEF LockListOfLoggers
    <2>4. CASE Visit(t)
      <3>1. CASE crash[t].todo = <<>>
        <4>1. Moves(t, "crash", "pass") /\ on'[t] = NoOne
          BY <2>4, <3>1, StepIs DEF Visit, VisitStep, OnOK
        <4> QED BY <2>1, <2>2, <4>1, VisitsUnchanged DEF VisitSteps
      <3>2. CASE crash[t].todo # <<>>
        <4> DEFINE s == crash[t].todo
        <4>1. Visits(t) /\ (Moves(t, "crash", "visit") \/ Moves(t, "crash", "await"))
          BY <2>4, <3>2, StepIs DEF Visit, VisitStep, Visits, VisitSteps
        <4>2. s \in Seq(Loggers) /\ IsInjective(s) /\ ToSet(s) \subseteq ToSet(list)
          <5>1. crash[t] \in CrashRecord
            BY DEF CrashOK
          <5> QED BY <4>1, <5>1 DEF VisitOK, CrashRecord, ToVisit
        <4>3. on'[t] = Head(s) /\ crash'[t].todo = Tail(s)
          <5>1. crash[t] \in CrashRecord /\ DOMAIN crash = Tasks /\ DOMAIN on = Tasks
            BY DEF CrashOK, OnOK
          <5>2. on' = [on EXCEPT ![t] = Head(s)]
            BY <2>4, <3>2 DEF Visit
          <5>3. crash' = [crash EXCEPT ![t].todo = Tail(@), ![t].lastQueued = m_LastQueuedSequence[Head(s)]]
            BY <2>4, <3>2 DEF Visit
          <5> QED BY <5>1, <5>2, <5>3 DEF CrashRecord
        <4> HIDE DEF s
        <4>4. Head(s) \in ToSet(s) /\ Head(s) \notin ToSet(Tail(s)) /\ IsInjective(Tail(s)) /\ ToSet(Tail(s)) \subseteq ToSet(s)
          BY <3>2, <4>2, HeadAndTail DEF s
        <4> QED BY <2>1, <2>2, <4>1, <4>2, <4>3, <4>4, VisitMade DEF VisitSteps
      <3> QED BY <3>1, <3>2
    <2>5. CASE (Await(t) \/ LockOutput(t) \/ WriteCrash(t)) /\ UNCHANGED <<crash, on>>
      <3>1. pc[t][1] = "crash" /\ (pc[t][2] = "await" \/ pc[t][2] = "lock" \/ pc[t][2] = "write" \/ pc[t][2] = "write locked")
        BY <2>5, StepIs DEF Await, LockOutput, WriteCrash, VisitStep
      <3>2. Moves(t, "crash", "lock") \/ Moves(t, "crash", "write locked") \/ Moves(t, "crash", "write") \/ Moves(t, "crash", "visit")
        BY <2>5, StepIs DEF Await, LockOutput, WriteCrash, VisitStep
      <3>3. Visits(t) /\ pc[t][2] # "visit"
        BY <3>1 DEF Visits, VisitSteps
      <3>4. on[t] \in ToSet(list)
        BY <3>3 DEF VisitOK
      <3> QED BY <2>1, <2>2, <2>5, <3>2, <3>3, <3>4, VisitGoesOn DEF VisitSteps
    <2> QED BY <1>4, <2>3, <2>4, <2>5 DEF HandleCrashInLoggers, Await
  <1>5. ASSUME NEW t \in Tasks, Timeout(t) PROVE VisitOK'
    BY <1>0, <1>5 DEF Timeout, lifeVars
  <1>6. Setup => VisitOK'
    BY <1>0 DEF Setup, UnchangedInSetup, lifeVars, crashVars
  <1>7. UNCHANGED vars => VisitOK'
    BY <1>0 DEF vars, lifeVars, crashVars
  <1> QED BY <1>1, <1>2, <1>3, <1>4, <1>5, <1>6, <1>7 DEF Next, Handle

\* What a program does stays within its instance
CallsOK == instance \in Instances /\ platform \in Platforms /\ calls \in [Tasks -> Nat]
LEMMA CallsStep == CallsOK /\ [Next]_vars => CallsOK'
  <1> SUFFICES ASSUME CallsOK, [Next]_vars PROVE CallsOK'
    OBVIOUS
  <1> USE TasksAre DEF CallsOK
  <1>1. ASSUME NEW t \in Threads, Call(t) PROVE CallsOK'
    <2>1. ASSUME NEW op, NEW l, Begin(t, op, l) PROVE calls' \in [Tasks -> Nat]
      BY <2>1 DEF Begin
    <2>2. ASSUME NEW l \in Loggers, \/ StartWrite(t, l) \/ Queue(t, l) \/ StartKeep(t, l) \/ StartRead(t, l) \/ Initialize(t, l)
                                    \/ Open(t, l) \/ \E op \in Closes : StartsToClose(t, op, l)
          PROVE  CallsOK'
      BY <2>1, <2>2 DEF StartWrite, Queue, StartKeep, StartRead, Initialize, Open, StartsToClose
    <2>3. ASSUME \/ EndWrite(t) \/ EndKeep(t) \/ EndRead(t) \/ LockList(t) \/ Register(t) \/ Unregister(t) \/ UnregisterBase(t)
                 \/ LockToClose(t) \/ Close(t) \/ Destroyed(t)
          PROVE  CallsOK'
      BY <2>3 DEF EndWrite, EndKeep, EndRead, LockList, Register, Unregister, UnregisterBase, LockToClose, Close, Destroyed,
                  Return, Continue
    <2> QED BY <1>1, <2>2, <2>3 DEF Call, StartClose, Closes
  <1>2. ASSUME NEW w \in Workers, Work(w) PROVE CallsOK'
    BY <1>2 DEF Work, WorkerTake, WorkerWrite, WorkerMark, Return, Continue
  <1>3. ASSUME NEW t \in Tasks, HandleCrash(t) \/ (\E s \in Sources : Crash(t, s)) \/ Handle(t) \/ Timeout(t)
        PROVE  CallsOK'
    BY <1>3 DEF HandleCrash, Crash, Handle, HandleFirstCrash, PassOn, HandleCrashInLoggers, UnchangedInCrash, UnchangedInVisit, Timeout
  <1>4. Setup => CallsOK'
    BY DEF Setup, UnchangedInSetup
  <1>5. UNCHANGED vars => CallsOK'
    BY DEF vars
  <1> QED BY <1>1, <1>2, <1>3, <1>4, <1>5 DEF Next

\* The inductive invariant of the locks and visits
ControlInv == TypeOK /\ ListLock /\ OutputLocks /\ RegistryOK /\ VisitOK

LEMMA InitControl == Init => ControlInv
  <1> SUFFICES ASSUME Init PROVE ControlInv
    OBVIOUS
  <1>1. TypeOK
    BY InitTypes
  <1>2. \A t \in Tasks : pc[t][1] = "none" /\ pc[t][2] = "idle"
    BY DEF Init
  <1>3. ListLock /\ VisitOK
    BY <1>2 DEF ListLock, VisitOK, Visits, HasCrashed
  <1>4. OutputLocks
    BY <1>2, TasksAre DEF Init, OutputLocks, OutputLock, OutputOwner, HoldsOutput, HoldsAt
  <1>5. RegistryOK
    <2>1. ToSet(instance.list) \subseteq instance.loggers
      BY InstanceAssumption DEF Init, ToSet
    <2>2. Listed
      BY <2>1 DEF Init, Listed
    <2> QED BY <1>1, <1>2, <2>2, TasksAre DEF RegistryOK, TypeOK, NotListed, Opened, Alone, Gone, Destroys, Away
  <1> QED BY <1>1, <1>3, <1>4, <1>5 DEF ControlInv

LEMMA ControlStep == ControlInv /\ [Next]_vars => ControlInv'
  <1> SUFFICES ASSUME ControlInv, [Next]_vars PROVE ControlInv'
    OBVIOUS
  <1>1. PcOK' /\ LocksOK' /\ LifeOK'
    BY PcStep, LocksStep, LifeStep DEF ControlInv, TypeOK
  <1>2. OnOK'
    <2>1. \A t \in Tasks : crash[t].todo \in Seq(Loggers)
      <3>1. \A t \in Tasks : crash[t] \in CrashRecord
        BY DEF ControlInv, TypeOK, CrashOK
      <3> QED BY <3>1 DEF CrashRecord
    <2> QED BY <2>1, OnStep DEF ControlInv, TypeOK
  <1>3. OutputOK' /\ HandlersOK' /\ CrashOK'
    BY OutputStep, HandlersStep, CrashStep DEF ControlInv, TypeOK, ListOK
  <1>4. RegistryOK' /\ ListOK'
    BY RegistryStep DEF ControlInv, TypeOK, RegistryOK
  <1>5. TypeOK'
    BY <1>1, <1>2, <1>3, <1>4, CallsStep DEF ControlInv, TypeOK, CallsOK
  <1>6. ListLock' /\ OutputLocks' /\ VisitOK'
    BY ListLockStep, OutputLocksStep, VisitStepOK DEF ControlInv, TypeOK
  <1> QED BY <1>4, <1>5, <1>6 DEF ControlInv

\* Every variable keeps its type, whichever operations meet
THEOREM TypeCorrect == Spec => []TypeOK
  <1>1. ControlInv => TypeOK
    BY DEF ControlInv
  <1> QED BY <1>1, InitControl, ControlStep, PTL DEF Spec

(***************************************************************************)
(* Whoever opens, closes and destroys loggers meanwhile, a handler visits  *)
(* only loggers that are there and on the list, holds the locks its step   *)
(* needs, and where it waits for a logger whose lock is held by a thread   *)
(* that waits for the list's, that thread is in Initialize().              *)
(***************************************************************************)
THEOREM VisitsAreLive == Spec => []VisitsLiveLoggers
  <1>1. ASSUME ControlInv PROVE VisitsLiveLoggers
    <2> USE <1>1 DEF ControlInv, TypeOK
    <2>1. HoldsItsLocks
      <3> SUFFICES ASSUME NEW t \in Tasks
                   PROVE  /\ IsInHandler(t) /\ pc[t][2] # "lock list of loggers" => registryHolder = t
                          /\ pc[t] = <<"crash", "write locked">> => m_Mutex[on[t]] = t
        BY DEF HoldsItsLocks
      <3>1. IsInHandler(t) /\ pc[t][2] # "lock list of loggers" => Visits(t)
        BY Labels DEF IsInHandler, HasCrashed, Visits, VisitSteps, CrashSteps
      <3>2. pc[t] = <<"crash", "write locked">> => HoldsOutput(t)
        BY Pair DEF HoldsOutput, HoldsAt
      <3> QED BY <3>1, <3>2 DEF ListLock, OutputLocks, OutputLock
    <2>2. ASSUME NEW u \in Tasks, IsWaitedFor(u) PROVE pc[u][1] = "Initialize"
      <3>1. PICK t \in Tasks : pc[t] = <<"crash", "lock">> /\ m_Mutex[on[t]] = u
        BY <2>2 DEF IsWaitedFor
      <3>2. pc[t][1] = "crash" /\ pc[t][2] = "lock"
        BY <3>1, Pair
      <3>3. on[t] \in Loggers
        BY <3>2 DEF OnOK, UsesLogger
      <3>4. pc[u][1] \in Changes /\ (pc[u][2] = "lock list" \/ pc[u][2] = "change list")
        BY <2>2, Labels DEF IsWaitedFor
      <3>5. HoldsOutput(u)
        BY <3>1, <3>3, <3>4 DEF OutputLocks, OutputOwner, HasCrashed, Changes
      <3> QED BY <3>4, <3>5 DEF HoldsOutput, HoldsAt, Changes
    <2>3. ASSUME NEW t \in Tasks, IsInHandler(t), on[t] # NoOne PROVE exists[on[t]] /\ on[t] \in ToSet(list)
      <3>1. Visits(t)
        BY <2>3, Labels DEF IsInHandler, VisitOK, HasCrashed
      <3>2. on[t] \in ToSet(list) /\ on[t] \in Loggers
        BY <2>3, <3>1 DEF VisitOK, OnOK
      <3> QED BY <3>2 DEF RegistryOK, Listed
    <2> QED BY <2>1, <2>2, <2>3 DEF VisitsLiveLoggers
  <1> QED BY <1>1, InitControl, ControlStep, PTL DEF Spec

----------------------------------------------------------------------------
(* The crash lines *)

\* Lines without a crash line
IsCrashLine(x) == x.kind \in {"crash", "explicit"}
Plain(s) == \A i \in 1 .. Len(s) : ~IsCrashLine(s[i])
\* The lines of s stay, and no crash line follows, or one that comes last
Grows(s, r) ==
    /\ Len(s) <= Len(r) /\ \A i \in 1 .. Len(s) : r[i] = s[i]
    /\ \A i \in 1 .. Len(r) : i > Len(s) => ~IsCrashLine(r[i])
GrowsByCrash(s, r, x) ==
    /\ Len(s) < Len(r) /\ \A i \in 1 .. Len(s) : r[i] = s[i]
    /\ r[Len(r)] = x /\ \A i \in 1 .. Len(r) : i > Len(s) /\ i < Len(r) => ~IsCrashLine(r[i])

LEMMA GrowsWhenPlain ==
  ASSUME NEW s \in Seq(Line), NEW r \in Seq(Line), Plain(r)
  PROVE  s \o r \in Seq(Line) /\ Grows(s, s \o r) /\ (Plain(s) => Plain(s \o r))
  <1>1. Len(s \o r) = Len(s) + Len(r) /\ \A i \in 1 .. Len(s) + Len(r) : (s \o r)[i] = IF i <= Len(s) THEN s[i] ELSE r[i - Len(s)]
    BY ConcatProperties
  <1>2. \A i \in 1 .. Len(s) + Len(r) : i > Len(s) => i - Len(s) \in 1 .. Len(r)
    OBVIOUS
  <1>3. s \o r \in Seq(Line)
    BY ConcatProperties
  <1> DEFINE c == s \o r
  <1> HIDE DEF c
  <1>4. Len(c) = Len(s) + Len(r) /\ \A i \in 1 .. Len(s) + Len(r) : c[i] = IF i <= Len(s) THEN s[i] ELSE r[i - Len(s)]
    BY <1>1 DEF c
  <1>5. Grows(s, c)
    BY <1>2, <1>4, SMTT(30) DEF Grows, Plain
  <1>6. Plain(s) => Plain(c)
    <2> SUFFICES ASSUME Plain(s), NEW i \in 1 .. Len(s) + Len(r) PROVE ~IsCrashLine(c[i])
      BY <1>4 DEF Plain
    <2>1. CASE i <= Len(s)
      BY <1>4, <2>1 DEF Plain
    <2>2. CASE i > Len(s)
      BY <1>2, <1>4, <2>2 DEF Plain
    <2> QED BY <2>1, <2>2
  <1> QED BY <1>3, <1>5, <1>6 DEF c

LEMMA GrowsTwice ==
  ASSUME NEW s \in Seq(Line), NEW r \in Seq(Line), NEW q \in Seq(Line), Grows(s, r), Grows(r, q)
  PROVE  Grows(s, q)
  <1>1. Len(s) <= Len(q) /\ Len(s) <= Len(r)
    BY DEF Grows
  <1>2. \A i \in 1 .. Len(s) : q[i] = s[i]
    <2> TAKE i \in 1 .. Len(s)
    <2>1. i \in 1 .. Len(r)
      BY <1>1
    <2> QED BY <2>1 DEF Grows
  <1>3. ASSUME NEW i \in 1 .. Len(q), i > Len(s) PROVE ~IsCrashLine(q[i])
    <2>1. CASE i \in 1 .. Len(r)
      BY <1>3, <2>1 DEF Grows
    <2>2. CASE i > Len(r)
      BY <2>2 DEF Grows
    <2> QED BY <2>1, <2>2
  <1> QED BY <1>1, <1>2, <1>3 DEF Grows

LEMMA GrowsThenCrash ==
  ASSUME NEW s \in Seq(Line), NEW r \in Seq(Line), NEW x \in Line, Grows(s, r)
  PROVE  r \o <<x>> \in Seq(Line) /\ GrowsByCrash(s, r \o <<x>>, x)
  <1> DEFINE one == <<x>>
             q == r \o one
  <1>1. one \in Seq(Line) /\ Len(one) = 1 /\ one[1] = x
    OBVIOUS
  <1> HIDE DEF one
  <1>2. q \in Seq(Line) /\ Len(q) = Len(r) + 1
    <2>1. r \o one \in Seq(Line) /\ Len(r \o one) = Len(r) + Len(one)
      BY <1>1, ConcatProperties
    <2> QED BY <1>1, <2>1
  <1>3. \A i \in 1 .. Len(r) + Len(one) : q[i] = IF i <= Len(r) THEN r[i] ELSE one[i - Len(r)]
    <2>1. \A i \in 1 .. Len(r) + Len(one) : (r \o one)[i] = IF i <= Len(r) THEN r[i] ELSE one[i - Len(r)]
      BY <1>1, ConcatProperties
    <2> QED BY <2>1
  <1> HIDE DEF q
  <1>4. q[Len(q)] = x /\ \A i \in 1 .. Len(r) : q[i] = r[i]
    <2>1. Len(r) + 1 - Len(r) = 1 /\ Len(r) + 1 \in 1 .. Len(r) + Len(one)
      BY <1>1
    <2> QED BY <1>1, <1>2, <1>3, <2>1
  <1>5. GrowsByCrash(s, q, x)
    <2>1. Len(s) <= Len(r) /\ \A i \in 1 .. Len(s) : i \in 1 .. Len(r) /\ r[i] = s[i]
      BY DEF Grows
    <2>2. \A i \in 1 .. Len(r) : i > Len(s) => ~IsCrashLine(r[i])
      BY DEF Grows
    <2>3. \A i \in 1 .. Len(q) : i < Len(q) => i \in 1 .. Len(r)
      BY <1>2
    <2>4. \A i \in 1 .. Len(q) : i > Len(s) /\ i < Len(q) => ~IsCrashLine(q[i])
      BY <1>4, <2>2, <2>3
    <2> QED BY <1>2, <1>4, <2>1, <2>4 DEF GrowsByCrash
  <1> QED BY <1>2, <1>5 DEF q, one

LEMMA GrowsSame == ASSUME NEW s \in Seq(Line) PROVE Grows(s, s)
  BY DEF Grows

\* The buffers hold entries and what the backtrace held, no crash line.  A
\* logger gets the crash line unless it was closed or keeps its lines in memory.
PlainBuffers == \A l \in Loggers : Plain(buffer[l])
FilesGrow == \A l \in Loggers : Grows(file[l], file'[l])
GetsCrashLine(t, l) ==
    /\ GrowsByCrash(file[l], file'[l], CrashLine(t))
    /\ \A k \in Loggers \ {l} : file'[k] = file[k]
MissesCrashLine(l) == FilesGrow /\ (l \in Memory \/ ~m_IsInitialized[l])

LEMMA OthersGrow ==
  ASSUME OutputOK, NEW k \in Loggers, NEW s, Grows(file[k], s), file' = [file EXCEPT ![k] = s]
  PROVE  FilesGrow
  BY GrowsSame DEF FilesGrow, OutputOK

LEMMA BuffersStayPlain ==
  ASSUME OutputOK, PlainBuffers, NEW k \in Loggers, NEW s, Plain(s), buffer' = [buffer EXCEPT ![k] = s]
  PROVE  PlainBuffers'
  BY DEF PlainBuffers, OutputOK

LEMMA PlainAppended ==
  ASSUME OutputOK, PlainBuffers, NEW l \in Loggers, NEW lines \in Seq(Line), Plain(lines), AppendLines(l, lines)
  PROVE  FilesGrow /\ PlainBuffers'
  <1>1. file[l] \in Seq(Line) /\ buffer[l] \in Seq(Line) /\ Plain(buffer[l])
    BY DEF OutputOK, PlainBuffers
  <1>2. Plain(<<>>)
    BY DEF Plain
  <1>3. CASE l \in Flushed
    <2> DEFINE more == buffer[l] \o lines
    <2>1. more \in Seq(Line) /\ Plain(more)
      BY <1>1, GrowsWhenPlain
    <2>2. file[l] \o buffer[l] \o lines = file[l] \o more
      <3> DEFINE a == file[l]
                 b == buffer[l]
      <3>1. a \in Seq(Line) /\ b \in Seq(Line)
        BY <1>1
      <3> HIDE DEF a, b
      <3>2. (a \o b) \o lines = a \o (b \o lines)
        BY <3>1, ConcatAssociative, SMTT(30)
      <3> QED BY <3>2 DEF a, b
    <2>3. Grows(file[l], file[l] \o more)
      BY <1>1, <2>1, GrowsWhenPlain
    <2>4. file' = [file EXCEPT ![l] = file[l] \o buffer[l] \o lines] /\ buffer' = [buffer EXCEPT ![l] = <<>>]
      BY <1>3 DEF AppendLines
    <2> QED BY <1>2, <2>2, <2>3, <2>4, OthersGrow, BuffersStayPlain
  <1>4. CASE l \notin Flushed
    <2>1. file' = [file EXCEPT ![l] = file[l]] /\ buffer' = [buffer EXCEPT ![l] = buffer[l] \o lines]
      BY <1>4 DEF AppendLines
    <2>2. Plain(buffer[l] \o lines) /\ Grows(file[l], file[l])
      BY <1>1, GrowsWhenPlain, GrowsSame
    <2> QED BY <2>1, <2>2, OthersGrow, BuffersStayPlain
  <1> QED BY <1>3, <1>4

LEMMA PlainFlushed ==
  ASSUME OutputOK, PlainBuffers, NEW l \in Loggers,
         file' = [file EXCEPT ![l] = Contents(l)], buffer' = [buffer EXCEPT ![l] = <<>>]
  PROVE  FilesGrow /\ PlainBuffers'
  <1>1. file[l] \in Seq(Line) /\ buffer[l] \in Seq(Line) /\ Plain(buffer[l])
    BY DEF OutputOK, PlainBuffers
  <1>2. Plain(<<>>)
    BY DEF Plain
  <1>3. Grows(file[l], Contents(l))
    BY <1>1, GrowsWhenPlain DEF Contents
  <1> QED BY <1>2, <1>3, OthersGrow, BuffersStayPlain

LEMMA CrashWritten ==
  ASSUME OutputOK, CrashOK, LifeOK, PlainBuffers, NEW t \in Tasks, NEW l \in Loggers, on[t] = l, WriteCrash(t)
  PROVE  PlainBuffers' /\ (GetsCrashLine(t, l) \/ MissesCrashLine(l))
  <1>1. file[l] \in Seq(Line) /\ buffer[l] \in Seq(Line) /\ Plain(buffer[l])
    BY DEF OutputOK, PlainBuffers
  <1>2. CrashLine(t) \in Line /\ BacktraceLines(t) \in Line /\ ~IsCrashLine(BacktraceLines(t))
    BY DEF CrashLine, BacktraceLines, Line, CrashOK, IsCrashLine
  <1>3. Visited(t) \in Seq(Line) /\ Plain(Visited(t)) /\ <<>> \in Seq(Line) /\ Plain(<<>>)
    BY <1>2 DEF Visited, Plain
  <1>4. ASSUME NEW s \in Seq(Line), Grows(file[l], s), file' = [file EXCEPT ![l] = s \o <<CrashLine(t)>>]
        PROVE  GetsCrashLine(t, l)
    <2>1. GrowsByCrash(file[l], s \o <<CrashLine(t)>>, CrashLine(t))
      BY <1>1, <1>2, <1>4, GrowsThenCrash
    <2> QED BY <1>4, <2>1 DEF GetsCrashLine, OutputOK
  <1>7. ASSUME NEW lines \in Seq(Line), Plain(lines), file' = [file EXCEPT ![l] = file[l] \o lines] PROVE FilesGrow
    BY <1>1, <1>7, GrowsWhenPlain, OthersGrow
  <1>5. CASE WriteDirect(t)
    <2>1. file[l] \o Visited(t) \in Seq(Line) /\ Grows(file[l], file[l] \o Visited(t))
      BY <1>1, <1>3, GrowsWhenPlain
    <2>2. buffer' = buffer
      BY <1>5 DEF WriteDirect
    <2>3. CASE m_IsInitialized[l] /\ l \notin Memory
      <3> DEFINE a == file[l]
                 b == Visited(t)
                 c == <<CrashLine(t)>>
      <3>1. file' = [file EXCEPT ![l] = a \o (b \o c)]
        BY <1>5, <2>3 DEF WriteDirect, Direct
      <3>2. a \in Seq(Line) /\ b \in Seq(Line) /\ c \in Seq(Line)
        BY <1>1, <1>2, <1>3
      <3> HIDE DEF a, b, c
      <3>3. a \o (b \o c) = (a \o b) \o c
        BY <3>2, ConcatAssociative, SMTT(30)
      <3>4. file' = [file EXCEPT ![l] = file[l] \o Visited(t) \o <<CrashLine(t)>>]
        BY <3>1, <3>3 DEF a, b, c
      <3> QED BY <1>4, <2>1, <2>2, <3>4 DEF PlainBuffers
    <2>4. CASE ~m_IsInitialized[l] \/ l \in Memory
      <3>1. file' = [file EXCEPT ![l] = file[l] \o <<>>]
        BY <1>5, <2>4 DEF WriteDirect, Direct
      <3> QED BY <1>3, <1>7, <2>2, <2>4, <3>1 DEF PlainBuffers, MissesCrashLine
    <2> QED BY <2>3, <2>4 DEF LifeOK
  <1>6. CASE WriteFormatted(t)
    <2>1. CASE /\ file' = [file EXCEPT ![on[t]] = Contents(on[t]) \o Visited(t) \o <<CrashLine(t)>>]
               /\ buffer' = [buffer EXCEPT ![on[t]] = <<>>]
      <3>1. Contents(l) \in Seq(Line) /\ Grows(file[l], Contents(l))
        BY <1>1, GrowsWhenPlain DEF Contents
      <3>2. Contents(l) \o Visited(t) \in Seq(Line) /\ Grows(Contents(l), Contents(l) \o Visited(t))
        BY <1>3, <3>1, GrowsWhenPlain
      <3>3. Grows(file[l], Contents(l) \o Visited(t))
        BY <1>1, <3>1, <3>2, GrowsTwice
      <3> QED BY <1>3, <1>4, <2>1, <3>2, <3>3, BuffersStayPlain
    <2>2. ASSUME NEW lines \in {Visited(t), <<>>}, file' = [file EXCEPT ![on[t]] = file[on[t]] \o <<CrashLine(t)>>],
                 buffer' = [buffer EXCEPT ![on[t]] = buffer[on[t]] \o lines]
          PROVE  GetsCrashLine(t, l) /\ PlainBuffers'
      <3>1. Plain(buffer[l] \o lines)
        BY <1>1, <1>3, GrowsWhenPlain
      <3> QED BY <1>1, <1>4, <2>2, <3>1, GrowsSame, BuffersStayPlain
    <2>3. ASSUME l \in Memory, NEW lines \in {Visited(t), <<>>}, file' = [file EXCEPT ![l] = file[l] \o lines], buffer' = buffer
          PROVE  MissesCrashLine(l) /\ PlainBuffers'
      BY <1>3, <1>7, <2>3 DEF PlainBuffers, MissesCrashLine
    <2>4. ASSUME ~m_IsInitialized[l], UNCHANGED <<file, buffer>> PROVE MissesCrashLine(l) /\ PlainBuffers'
      BY <2>4, GrowsSame DEF PlainBuffers, MissesCrashLine, FilesGrow, OutputOK
    <2> QED BY <1>6, <2>1, <2>2, <2>3, <2>4 DEF WriteFormatted
  <1> QED BY <1>5, <1>6 DEF WriteCrash

\* Only WriteCrash() writes a crash line
LEMMA OutputGrows ==
  ASSUME PcOK, OnOK, OutputOK, CrashOK, LifeOK, PlainBuffers, [Next]_vars
  PROVE  /\ PlainBuffers'
         /\ \/ FilesGrow
            \/ \E t \in Tasks, l \in Loggers :
                  /\ HandleCrashInLoggers(t) /\ WriteCrash(t) /\ UNCHANGED <<registryHolder, crash, on>>
                  /\ on[t] = l /\ GetsCrashLine(t, l)
  <1> DEFINE Grown == PlainBuffers' /\ FilesGrow
  <1> USE TasksAre
  <1>0. ASSUME UNCHANGED <<buffer, file>> PROVE Grown
    BY <1>0, GrowsSame DEF PlainBuffers, FilesGrow, OutputOK
  <1>1. ASSUME NEW t \in Threads, Call(t) PROVE Grown
    <2>1. ASSUME EndWrite(t) PROVE Grown
      <3>1. on[t] \in Loggers
        BY <2>1, AtIs DEF EndWrite, OnOK, UsesLogger
      <3> DEFINE n == m_LastQueuedSequence[on[t]] + 1
                 lines == <<Entry(n)>>
      <3>2. Entry(n) \in Line /\ ~IsCrashLine(Entry(n))
        BY <3>1 DEF OutputOK, Entry, Line, IsCrashLine
      <3>3. lines \in Seq(Line) /\ Plain(lines)
        BY <3>2 DEF Plain
      <3>4. AppendLines(on[t], lines)
        BY <2>1 DEF EndWrite
      <3> HIDE DEF lines
      <3> QED BY <3>1, <3>3, <3>4, PlainAppended
    <2>2. ASSUME Close(t) PROVE Grown
      <3>1. pc[t][1] \in Closes
        BY <2>2, Labels DEF Close
      <3>2. on[t] \in Loggers
        BY <3>1 DEF OnOK, UsesLogger, Closes
      <3> QED BY <2>2, <3>2, PlainFlushed DEF Close
    <2>3. ASSUME \/ EndKeep(t) \/ EndRead(t) \/ LockList(t) \/ Register(t) \/ Unregister(t) \/ UnregisterBase(t)
                 \/ LockToClose(t) \/ Destroyed(t)
                 \/ \E l \in Loggers : StartWrite(t, l) \/ Queue(t, l) \/ StartKeep(t, l) \/ StartRead(t, l) \/ Initialize(t, l)
                                       \/ Open(t, l) \/ \E op \in Closes : StartClose(t, op, l)
          PROVE  UNCHANGED <<buffer, file>>
      BY <2>3 DEF EndKeep, EndRead, LockList, Register, Unregister, UnregisterBase, LockToClose, Destroyed, StartWrite, Queue, StartKeep,
                  StartRead, Initialize, Open, StartClose, StartsToClose, outputVars
    <2> QED BY <1>0, <1>1, <2>1, <2>2, <2>3 DEF Call, Closes
  <1>2. ASSUME NEW w \in Workers, Work(w) PROVE Grown
    <2>1. ASSUME WorkerWrite(w) PROVE Grown
      <3>1. on[w] \in Loggers
        BY <2>1, AtIs DEF WorkerWrite, OnOK, UsesLogger
      <3> DEFINE first == m_LastWrittenSequence[on[w]]
                 lines == [i \in 1 .. m_LastQueuedSequence[on[w]] - first |-> Entry(first + i)]
      <3>2. lines \in Seq(Line) /\ Plain(lines)
        BY <3>1, WrittenLines DEF Plain, IsCrashLine
      <3>3. AppendLines(on[w], lines)
        BY <2>1 DEF WorkerWrite
      <3> HIDE DEF lines
      <3> QED BY <3>1, <3>2, <3>3, PlainAppended
    <2>2. ASSUME WorkerMark(w) \/ \E l \in Loggers : WorkerTake(w, l) PROVE UNCHANGED <<buffer, file>>
      BY <2>2 DEF WorkerMark, WorkerTake, outputVars
    <2> QED BY <1>0, <1>2, <2>1, <2>2 DEF Work
  <1>3. ASSUME NEW t \in Tasks, HandleCrash(t) \/ (\E s \in Sources : Crash(t, s)) \/ HandleFirstCrash(t) \/ PassOn(t) \/ Timeout(t)
        PROVE  UNCHANGED <<buffer, file>>
    BY <1>3 DEF HandleCrash, Crash, HandleFirstCrash, PassOn, UnchangedInCrash, Timeout, outputVars
  <1>4. ASSUME NEW t \in Tasks, HandleCrashInLoggers(t)
        PROVE  \/ Grown
               \/ /\ PlainBuffers' /\ WriteCrash(t) /\ UNCHANGED <<registryHolder, crash, on>>
                  /\ \E l \in Loggers : on[t] = l /\ GetsCrashLine(t, l)
    <2>1. CASE UnchangedOutput
      BY <1>0, <2>1 DEF UnchangedOutput
    <2>2. CASE LockOutput(t)
      <3>1. pc[t][2] = "lock"
        BY <2>2, AtIs, Zenon DEF LockOutput, Steps
      <3>2. on[t] \in Loggers
        BY <3>1 DEF OnOK, UsesLogger
      <3> QED BY <1>0, <2>2, <3>2, PlainFlushed DEF LockOutput, Flush
    <2>3. CASE WriteCrash(t) /\ UNCHANGED <<registryHolder, crash, on>>
      <3>1. pc[t][2] = "write" \/ pc[t][2] = "write locked"
        <4>1. Steps(t, "write locked", "visit") \/ Steps(t, "write", "visit")
          BY <2>3 DEF WriteCrash
        <4> QED BY <4>1, AtIs DEF Steps
      <3>2. on[t] \in Loggers
        BY <3>1 DEF OnOK, UsesLogger
      <3> QED BY <2>3, <3>2, CrashWritten DEF MissesCrashLine
    <2> QED BY <1>4, <2>1, <2>2, <2>3 DEF HandleCrashInLoggers
  <1>5. Setup => UNCHANGED <<buffer, file>>
    BY DEF Setup, UnchangedInSetup, outputVars
  <1>6. UNCHANGED vars => UNCHANGED <<buffer, file>>
    BY DEF vars, outputVars
  <1> QED BY <1>0, <1>1, <1>2, <1>3, <1>4, <1>5, <1>6 DEF Next, Handle

\* The crash of t has its line in logger l
HasLine(t, l) == \E i \in CrashLines(l) : file[l][i].by = t

LEMMA CrashLinesAre ==
  ASSUME OutputOK, NEW l \in Loggers
  PROVE  CrashLines(l) = {i \in 1 .. Len(file[l]) : IsCrashLine(file[l][i])}
  BY DEF OutputOK, CrashLines, IsCrashLine

LEMMA LinesStay ==
  ASSUME OutputOK, OutputOK', NEW l \in Loggers, Grows(file[l], file'[l])
  PROVE  /\ CrashLines(l)' = CrashLines(l) /\ \A i \in CrashLines(l) : file'[l][i] = file[l][i]
         /\ \A t : HasLine(t, l)' <=> HasLine(t, l)
  <1>1. file[l] \in Seq(Line) /\ file'[l] \in Seq(Line)
    BY DEF OutputOK
  <1>2. CrashLines(l)' = {i \in 1 .. Len(file'[l]) : IsCrashLine(file'[l][i])}
    BY <1>1 DEF CrashLines, IsCrashLine
  <1> DEFINE s == file[l]
             r == file'[l]
  <1>3. {i \in 1 .. Len(r) : IsCrashLine(r[i])} = {i \in 1 .. Len(s) : IsCrashLine(s[i])}
    <2>1. Len(s) \in Nat /\ Len(r) \in Nat /\ Len(s) <= Len(r)
      BY <1>1 DEF Grows
    <2>2. \A i \in 1 .. Len(s) : i \in 1 .. Len(r) /\ r[i] = s[i]
      BY <2>1 DEF Grows
    <2>3. \A i \in 1 .. Len(r) : IsCrashLine(r[i]) => i \in 1 .. Len(s)
      BY <2>1 DEF Grows
    <2> QED BY <2>2, <2>3
  <1>4. CrashLines(l)' = CrashLines(l) /\ \A i \in CrashLines(l) : file'[l][i] = file[l][i]
    BY <1>2, <1>3, CrashLinesAre DEF Grows
  <1> QED BY <1>4 DEF HasLine

LEMMA LineAdded ==
  ASSUME OutputOK, OutputOK', CrashOK, NEW t \in Tasks, NEW l \in Loggers, GetsCrashLine(t, l)
  PROVE  /\ \E k : /\ k \notin CrashLines(l) /\ CrashLines(l)' = CrashLines(l) \cup {k}
                   /\ file'[l][k] = CrashLine(t) /\ \A i \in CrashLines(l) : file'[l][i] = file[l][i]
                   /\ k \in 1 .. Len(file'[l])
         /\ \A k \in Loggers \ {l} : Grows(file[k], file'[k])
  <1> DEFINE s == file[l]
             r == file'[l]
             k == Len(r)
  <1>1. s \in Seq(Line) /\ r \in Seq(Line)
    BY DEF OutputOK
  <1>2. CrashLines(l)' = {i \in 1 .. Len(r) : IsCrashLine(r[i])}
    BY <1>1 DEF CrashLines, IsCrashLine
  <1>3. IsCrashLine(CrashLine(t))
    BY DEF IsCrashLine, CrashLine
  <1>4. Len(s) \in Nat /\ Len(r) \in Nat /\ Len(s) < Len(r) /\ r[k] = CrashLine(t)
    BY <1>1 DEF GetsCrashLine, GrowsByCrash
  <1>5. \A i \in 1 .. Len(s) : i \in 1 .. Len(r) /\ r[i] = s[i]
    BY <1>4 DEF GetsCrashLine, GrowsByCrash
  <1>6. \A i \in 1 .. Len(r) : IsCrashLine(r[i]) => i \in 1 .. Len(s) \/ i = k
    BY <1>4 DEF GetsCrashLine, GrowsByCrash
  <1>7. {i \in 1 .. Len(r) : IsCrashLine(r[i])} = {i \in 1 .. Len(s) : IsCrashLine(s[i])} \cup {k}
    BY <1>3, <1>4, <1>5, <1>6
  <1>8. k \notin 1 .. Len(s) /\ k \in 1 .. Len(r)
    BY <1>4
  <1>9. \A m \in Loggers \ {l} : Grows(file[m], file'[m])
    BY GrowsSame DEF GetsCrashLine, OutputOK
  <1> HIDE DEF k
  <1>10. k \notin CrashLines(l) /\ CrashLines(l)' = CrashLines(l) \cup {k} /\ \A i \in CrashLines(l) : r[i] = s[i]
    BY <1>2, <1>5, <1>7, <1>8, CrashLinesAre
  <1> QED BY <1>4, <1>8, <1>9, <1>10

LEMMA LinesAfter ==
  ASSUME OutputOK, OutputOK', CrashOK, NEW t \in Tasks, NEW l \in Loggers, GetsCrashLine(t, l)
  PROVE  \A u, k : k \in Loggers => (HasLine(u, k)' <=> HasLine(u, k) \/ (u = t /\ k = l))
  <1>1. CrashLine(t).by = t
    BY DEF CrashLine
  <1>2. PICK j : /\ j \notin CrashLines(l) /\ CrashLines(l)' = CrashLines(l) \cup {j}
                 /\ file'[l][j] = CrashLine(t) /\ \A i \in CrashLines(l) : file'[l][i] = file[l][i]
    BY LineAdded
  <1>3. \A k \in Loggers \ {l} : Grows(file[k], file'[k])
    BY LineAdded
  <1>4. ASSUME NEW u PROVE HasLine(u, l)' <=> HasLine(u, l) \/ u = t
    BY <1>1, <1>2 DEF HasLine
  <1>5. ASSUME NEW u, NEW k \in Loggers, k # l PROVE HasLine(u, k)' <=> HasLine(u, k)
    BY <1>3, <1>5, LinesStay
  <1> QED BY <1>4, <1>5

----------------------------------------------------------------------------
(* The kinds of steps *)

\* What a call of a thread that has not crashed, or a worker's step, does
\* to the crashes: one that closes a logger leaves it to no handler
SameBut(r, s) ==
    /\ s.source = r.source /\ s.called = r.called /\ s.isWritten = r.isWritten /\ s.todo = r.todo
    /\ s.lastQueued = r.lastQueued /\ s.logged = r.logged /\ s.inPlace = r.inPlace /\ s.expects \subseteq r.expects
CallMoves(t) ==
    /\ \E op, step : Moves(t, op, step) /\ op # "crash"
    /\ ~HasCrashed(t) /\ OthersStay(t) /\ UNCHANGED <<handlerVars, isLate, ended>>
    /\ \A u \in Tasks : SameBut(crash[u], crash'[u])

LEMMA CallsMove ==
  ASSUME PcOK, OnOK, CrashOK, NEW t, (t \in Threads /\ Call(t)) \/ (t \in Workers /\ Work(t))
  PROVE  t \in Tasks /\ CallMoves(t)
  <1> USE TasksAre
  <1>1. ASSUME crash' = crash PROVE \A u \in Tasks : SameBut(crash[u], crash'[u])
    BY <1>1 DEF SameBut
  <1>2. CASE t \in Threads /\ Call(t)
    <2>0. t \in Tasks
      BY <1>2
    <2>1. ASSUME NEW l \in Loggers, NEW op, Begin(t, op, l) PROVE ~HasCrashed(t) /\ OthersStay(t)
      BY <2>0, <2>1, AtIs DEF Begin, HasCrashed, OthersStay, OnOK
    <2>2. ASSUME NEW l \in Loggers, StartWrite(t, l) \/ StartKeep(t, l) \/ StartRead(t, l) \/ Initialize(t, l) PROVE CallMoves(t)
      <3>1. ~HasCrashed(t) /\ OthersStay(t)
        BY <2>1, <2>2 DEF StartWrite, StartKeep, StartRead, Initialize
      <3>2. Moves(t, "Log", "write") \/ Moves(t, "Keep", "keep") \/ Moves(t, "Read", "lines") \/ Moves(t, "Initialize", "lock list")
        BY <2>0, <2>2, Moved DEF StartWrite, StartKeep, StartRead, Initialize
      <3>3. UNCHANGED <<handlerVars, crashVars>>
        BY <2>2 DEF StartWrite, StartKeep, StartRead, Initialize
      <3>4. \E op, step : Moves(t, op, step) /\ op # "crash"
        <4>1. "Log" # "crash" /\ "Keep" # "crash" /\ "Read" # "crash" /\ "Initialize" # "crash"
          OBVIOUS
        <4> QED BY <3>2, <4>1, Zenon
      <3> QED BY <1>1, <3>1, <3>3, <3>4 DEF CallMoves, crashVars
    <2>3. ASSUME NEW l \in Loggers, Queue(t, l) \/ Open(t, l) PROVE CallMoves(t)
      <3>1. ~HasCrashed(t) /\ OthersStay(t)
        BY <2>1, <2>3 DEF Queue, Open
      <3>2. pc[t] = <<"none", "idle">> /\ pc[t][1] = "none" /\ pc[t][2] = "idle" /\ pc' = pc /\ UNCHANGED <<handlerVars, crashVars>>
        BY <2>3, AtIs DEF Queue, Open, Begin
      <3>3. Moves(t, "none", "idle")
        BY <3>2 DEF Moves
      <3> QED BY <1>1, <3>1, <3>2, <3>3 DEF CallMoves, crashVars
    <2>4. ASSUME NEW l \in Loggers, NEW op \in Closes, StartClose(t, op, l) PROVE CallMoves(t)
      <3>1. ~HasCrashed(t) /\ OthersStay(t)
        BY <2>1, <2>4 DEF StartClose, StartsToClose
      <3>2. \E step : Moves(t, op, step)
        BY <2>0, <2>4, Moved DEF StartClose, StartsToClose
      <3>5. UNCHANGED <<handlerVars, isLate, ended>> /\ op # "crash"
        BY <2>4 DEF StartClose, StartsToClose, Closes
      <3>3. crash' = [u \in Tasks |-> [crash[u] EXCEPT !.expects = @ \ {l}]]
        BY <2>4 DEF StartClose, StartsToClose
      <3>4. ASSUME NEW u \in Tasks PROVE SameBut(crash[u], crash'[u])
        <4>1. crash[u] \in CrashRecord
          BY DEF CrashOK
        <4> QED BY <3>3, <4>1 DEF SameBut, CrashRecord
      <3> QED BY <3>1, <3>2, <3>4, <3>5 DEF CallMoves
    <2>5. ASSUME EndWrite(t) \/ EndKeep(t) \/ EndRead(t) \/ Register(t) \/ UnregisterBase(t) PROVE CallMoves(t)
      <3>1. ~HasCrashed(t)
        <4>1. pc[t][1] \in {"Log", "Keep", "Read", "Initialize", "DestroyBase"}
          BY <2>5, AtIs DEF EndWrite, EndKeep, EndRead, Register, UnregisterBase
        <4> QED BY <4>1 DEF HasCrashed
      <3>2. Moves(t, "none", "idle") /\ UNCHANGED <<handlerVars, crashVars, on>>
        BY <2>0, <2>5, Moved DEF EndWrite, EndKeep, EndRead, Register, UnregisterBase, Return
      <3> QED BY <1>1, <3>1, <3>2 DEF CallMoves, crashVars, OthersStay
    <2>6. ASSUME LockList(t) \/ Unregister(t) \/ LockToClose(t) \/ Close(t) \/ Destroyed(t) PROVE CallMoves(t)
      <3>1. pc[t][1] \in {"Close", "Initialize", "Finalize", "Destroy", "DestroyBase"}
        <4>1. LockList(t) => pc[t][1] \in Changes
          BY <2>0, Labels DEF LockList
        <4>2. LockToClose(t) \/ Close(t) => pc[t][1] \in Closes
          BY <2>0, Labels DEF LockToClose, Close
        <4>3. Unregister(t) => pc[t][1] \in {"Finalize", "Destroy"}
          BY DEF Unregister
        <4>4. Destroyed(t) => pc[t][1] = "Destroy"
          BY AtIs DEF Destroyed
        <4> QED BY <2>6, <4>1, <4>2, <4>3, <4>4 DEF Changes, Closes
      <3>2. UNCHANGED <<handlerVars, crashVars, on>>
        BY <2>6 DEF LockList, Unregister, LockToClose, Close, Destroyed, Continue
      <3>3. \/ Moves(t, pc[t][1], "change list") \/ Moves(t, pc[t][1], "close") \/ Moves(t, pc[t][1], "locked")
            \/ Moves(t, "Destroy", "join") \/ Moves(t, "none", "idle") \/ Moves(t, "DestroyBase", "lock list")
        BY <2>0, <2>6, Moved DEF LockList, Unregister, LockToClose, Close, Destroyed
      <3>4. \E op, step : Moves(t, op, step) /\ op # "crash"
        <4>1. "Destroy" # "crash" /\ "none" # "crash" /\ "DestroyBase" # "crash" /\ pc[t][1] # "crash"
          BY <3>1
        <4> QED BY <3>3, <4>1, Zenon
      <3>5. ~HasCrashed(t) /\ OthersStay(t)
        BY <3>1, <3>2 DEF HasCrashed, OthersStay
      <3> QED BY <1>1, <3>2, <3>4, <3>5 DEF CallMoves, crashVars
    <2> QED BY <1>2, <2>0, <2>2, <2>3, <2>4, <2>5, <2>6 DEF Call, Closes
  <1>3. CASE t \in Workers /\ Work(t)
    <2>1. t \in Tasks /\ UNCHANGED <<handlerVars, crashVars>> /\ OthersStay(t)
      BY <1>3 DEF Work, WorkerTake, WorkerWrite, WorkerMark, Return, Continue, OthersStay, OnOK
    <2>2. ~HasCrashed(t)
      BY <1>3, AtIs DEF Work, WorkerTake, WorkerWrite, WorkerMark, HasCrashed
    <2>3. Moves(t, "Work", "write") \/ Moves(t, "Work", "mark") \/ Moves(t, "none", "idle")
      BY <1>3, <2>1, Moved DEF Work, WorkerTake, WorkerWrite, WorkerMark, Return
    <2> QED BY <1>1, <2>1, <2>2, <2>3 DEF CallMoves, crashVars
  <1> QED BY <1>2, <1>3

\* The steps of the program, by what they do to the crashes
LEMMA StepKinds ==
  ASSUME PcOK, OnOK, CrashOK, [Next]_vars
  PROVE  \/ UNCHANGED <<pc, on, crash, lifeVars, lockVars, outputVars, IsCrashHandled, ended>>
         \/ \E t \in Tasks : CallMoves(t) /\ ((t \in Threads /\ Call(t)) \/ (t \in Workers /\ Work(t)))
         \/ \E t \in Tasks : HandleCrash(t) \/ \E s \in Sources : Crash(t, s)
         \/ \E t \in Tasks : HandleFirstCrash(t) \/ PassOn(t) \/ HandleCrashInLoggers(t)
  <1>1. Setup => UNCHANGED <<pc, on, crash, lifeVars, lockVars, outputVars, IsCrashHandled, ended>>
    BY DEF Setup, UnchangedInSetup, crashVars
  <1>2. UNCHANGED vars => UNCHANGED <<pc, on, crash, lifeVars, lockVars, outputVars, IsCrashHandled, ended>>
    BY DEF vars, crashVars, handlerVars
  <1>3. \A t \in Tasks : Timeout(t) => UNCHANGED <<pc, on, crash, lifeVars, lockVars, outputVars, IsCrashHandled, ended>>
    BY DEF Timeout, handlerVars
  <1> QED BY <1>1, <1>2, <1>3, CallsMove, TasksAre DEF Next, Handle

----------------------------------------------------------------------------
(* One line of the handlers in each logger *)

\* The handlers wrote the crash of t somewhere
HasHandlersLine(t) == \E l \in Loggers : \E i \in CrashLines(l) : file[l][i].by = t /\ file[l][i].kind = "crash"
\* The crash of t is one that the handlers write, or wrote
IsHandlersCrash(t) == (IsInHandler(t) /\ crash[t].source # "none") \/ HasHandlersLine(t)

\* A thread has one line in a logger, and only once a crash is handled; no
\* logger it has written to is still to be written to
OneEach == \A l \in Loggers : \A i, j \in CrashLines(l) : file[l][i].by = file[l][j].by => i = j
Told ==
    \A l \in Loggers : \A i \in CrashLines(l) :
        LET t == file[l][i].by IN t \in Tasks /\ HasCrashed(t) /\ IsCrashHandled
Handled == \A t \in Tasks : IsInHandler(t) => IsCrashHandled
NotWritten(t, l) ==
    /\ HasCrashed(t) => pc[t][2] # "lock list of loggers"
    /\ Visits(t) => l \notin ToVisit(t) /\ (l # on[t] \/ pc[t][2] = "visit")
WrittenOnce == \A t \in Tasks, l \in Loggers : HasLine(t, l) => NotWritten(t, l)
OneHandled == \A t, u \in Tasks : IsHandlersCrash(t) /\ IsHandlersCrash(u) => t = u
LinesOK == OneEach /\ Told /\ Handled /\ WrittenOnce /\ OneHandled

LEMMA OneLine == LinesOK => OneLineByHandlers
  <1> SUFFICES ASSUME LinesOK, NEW l \in Loggers, NEW i \in CrashLines(l), NEW j \in CrashLines(l), i # j
               PROVE  file[l][i].by # file[l][j].by /\ "explicit" \in {file[l][i].kind, file[l][j].kind}
    BY DEF OneLineByHandlers
  <1>1. file[l][i].by # file[l][j].by
    BY DEF LinesOK, OneEach
  <1>2. CASE file[l][i].kind = "crash" /\ file[l][j].kind = "crash"
    <2>1. IsHandlersCrash(file[l][i].by) /\ IsHandlersCrash(file[l][j].by)
      BY <1>2 DEF IsHandlersCrash, HasHandlersLine
    <2> QED BY <1>1, <2>1 DEF LinesOK, Told, OneHandled
  <1>3. CASE file[l][i].kind = "explicit" \/ file[l][j].kind = "explicit"
    BY <1>1, <1>3
  <1> QED BY <1>1, <1>2, <1>3 DEF CrashLines

LEMMA LinesSame ==
  ASSUME OutputOK, OutputOK', FilesGrow
  PROVE  /\ \A l \in Loggers : CrashLines(l)' = CrashLines(l) /\ \A i \in CrashLines(l) : file'[l][i] = file[l][i]
         /\ \A t, l : l \in Loggers => (HasLine(t, l)' <=> HasLine(t, l))
         /\ \A t : HasHandlersLine(t)' <=> HasHandlersLine(t)
         /\ OneEach => OneEach'
  <1>1. \A l \in Loggers : CrashLines(l)' = CrashLines(l) /\ \A i \in CrashLines(l) : file'[l][i] = file[l][i]
    BY LinesStay DEF FilesGrow
  <1>2. \A t, l : l \in Loggers => (HasLine(t, l)' <=> HasLine(t, l))
    BY <1>1 DEF HasLine
  <1>3. \A t : HasHandlersLine(t)' <=> HasHandlersLine(t)
    BY <1>1 DEF HasHandlersLine
  <1>4. OneEach => OneEach'
    BY <1>1 DEF OneEach
  <1> QED BY <1>1, <1>2, <1>3, <1>4

LEMMA OthersHandle ==
  ASSUME NEW t \in Tasks, NEW op, NEW step, Moves(t, op, step)
  PROVE  /\ \A u \in Tasks \ {t} : (IsInHandler(u)' <=> IsInHandler(u))
         /\ op # "crash" \/ step = "handler" \/ step = "pass" => ~IsInHandler(t)'
         /\ op = "crash" /\ step # "handler" /\ step # "pass" => IsInHandler(t)'
  BY DEF IsInHandler, HasCrashed, Moves

\* Only the crash of t changes
OtherCrashesStay(t) ==
    \A u \in Tasks \ {t} : SameBut(crash[u], crash'[u])

LEMMA OthersToWrite ==
  ASSUME NEW t \in Tasks, NEW op, NEW step, Moves(t, op, step), OthersStay(t), OtherCrashesStay(t), NEW u \in Tasks \ {t}, NEW l
  PROVE  NotWritten(u, l)' <=> NotWritten(u, l)
  <1>1. pc'[u] = pc[u] /\ on'[u] = on[u] /\ ToVisit(u)' = ToVisit(u)
    BY DEF Moves, OthersStay, OtherCrashesStay, SameBut, ToVisit
  <1>2. (Visits(u)' <=> Visits(u)) /\ (HasCrashed(u)' <=> HasCrashed(u))
    BY OthersVisit
  <1> QED BY <1>1, <1>2 DEF NotWritten

\* A thread is not in the handlers, or leaves them
LEMMA LinesWhenOut ==
  ASSUME OutputOK, OutputOK', FilesGrow, LinesOK, NEW t \in Tasks, NEW op, NEW step, Moves(t, op, step),
         OthersStay(t), OtherCrashesStay(t), IsCrashHandled' = IsCrashHandled,
         op # "crash" \/ step = "handler" \/ step = "pass", HasCrashed(t) => op = "crash"
  PROVE  LinesOK'
  <1> USE DEF LinesOK
  <1>1. OneEach'
    BY LinesSame
  <1>2. \A u \in Tasks : HasCrashed(u) => HasCrashed(u)'
    BY OthersVisit
  <1>3. Told'
    BY <1>2, LinesSame DEF Told
  <1>4. \A u \in Tasks : IsInHandler(u)' => IsInHandler(u) /\ u # t
    BY OthersHandle
  <1>5. Handled'
    BY <1>4 DEF Handled
  <1>6. \A u \in Tasks : IsHandlersCrash(u)' => IsHandlersCrash(u)
    BY <1>4, LinesSame DEF IsHandlersCrash, OtherCrashesStay, SameBut
  <1>7. OneHandled'
    BY <1>6 DEF OneHandled
  <1>8. ASSUME NEW u \in Tasks, NEW l \in Loggers, HasLine(u, l)' PROVE NotWritten(u, l)'
    <2>1. NotWritten(u, l)
      BY <1>8, LinesSame DEF WrittenOnce
    <2>2. CASE u = t
      <3>1. ~Visits(t)' /\ (pc'[t][2] = "lock list of loggers" => ~HasCrashed(t)')
        <4>1. CASE op # "crash"
          BY <4>1, OthersVisit
        <4>2. CASE step = "handler" \/ step = "pass"
          <5>1. step \notin VisitSteps /\ step # "lock list of loggers" /\ pc'[t][2] = step
            BY <4>2 DEF Moves, VisitSteps
          <5> QED BY <5>1, OthersVisit
        <4> QED BY <4>1, <4>2
      <3> QED BY <2>2, <3>1 DEF NotWritten
    <2>3. CASE u # t
      BY <2>1, <2>3, OthersToWrite
    <2> QED BY <2>2, <2>3
  <1> QED BY <1>1, <1>3, <1>5, <1>7, <1>8 DEF WrittenOnce

\* A thread comes to write its crash, which HandleCrash() reports or nobody did
LEMMA LinesWhenIn ==
  ASSUME OutputOK, OutputOK', FilesGrow, LinesOK, NEW t \in Tasks, Moves(t, "crash", "lock list of loggers"),
         OthersStay(t), OtherCrashesStay(t), IsCrashHandled',
         \A l \in Loggers : ~HasLine(t, l), crash'[t].source = "none" \/ ~IsCrashHandled
  PROVE  LinesOK'
  <1> USE DEF LinesOK
  <1>1. OneEach'
    BY LinesSame
  <1>2. \A u \in Tasks : HasCrashed(u) => HasCrashed(u)'
    BY OthersVisit
  <1>3. Told'
    BY <1>2, LinesSame, Zenon DEF Told
  <1>4. Handled'
    BY DEF Handled
  <1>5. ~HasHandlersLine(t)
    BY DEF HasHandlersLine, HasLine
  <1>6. \A u \in Tasks : IsHandlersCrash(u)' => IsHandlersCrash(u) \/ (u = t /\ ~IsCrashHandled)
    BY <1>5, OthersHandle, LinesSame DEF IsHandlersCrash, OtherCrashesStay, SameBut
  <1>7. ~IsCrashHandled => \A u \in Tasks : ~IsHandlersCrash(u)
    BY DEF IsHandlersCrash, HasHandlersLine, Told, Handled
  <1>8. OneHandled'
    BY <1>6, <1>7 DEF OneHandled
  <1>9. ASSUME NEW u \in Tasks, NEW l \in Loggers, HasLine(u, l)' PROVE NotWritten(u, l)'
    <2>1. u # t /\ NotWritten(u, l)
      BY <1>9, LinesSame DEF WrittenOnce
    <2> QED BY <2>1, OthersToWrite
  <1> QED BY <1>1, <1>3, <1>4, <1>8, <1>9 DEF WrittenOnce

\* A handler goes on with its visit
LEMMA LinesWhenVisiting ==
  ASSUME OutputOK, OutputOK', FilesGrow, LinesOK, NEW t \in Tasks, NEW step, Moves(t, "crash", step), IsInHandler(t),
         step \in VisitSteps, OthersStay(t), OtherCrashesStay(t), IsCrashHandled' = IsCrashHandled,
         crash'[t].source = crash[t].source,
         \A l \in Loggers : HasLine(t, l) => l \notin ToVisit(t)' /\ (l # on'[t] \/ step = "visit")
  PROVE  LinesOK'
  <1> USE DEF LinesOK
  <1>1. OneEach'
    BY LinesSame
  <1>2. \A u \in Tasks : HasCrashed(u) => HasCrashed(u)'
    BY OthersVisit
  <1>3. Told'
    BY <1>2, LinesSame DEF Told
  <1>4. \A u \in Tasks : IsInHandler(u)' => IsInHandler(u)
    BY OthersHandle
  <1>5. Handled'
    BY <1>4 DEF Handled
  <1>6. \A u \in Tasks : IsHandlersCrash(u)' => IsHandlersCrash(u)
    BY <1>4, LinesSame DEF IsHandlersCrash, OtherCrashesStay, SameBut
  <1>7. OneHandled'
    BY <1>6 DEF OneHandled
  <1>8. ASSUME NEW u \in Tasks, NEW l \in Loggers, HasLine(u, l)' PROVE NotWritten(u, l)'
    <2>1. NotWritten(u, l) /\ HasLine(u, l)
      BY <1>8, LinesSame DEF WrittenOnce
    <2>2. CASE u = t
      <3>1. pc'[t][2] = step /\ step # "lock list of loggers"
        BY DEF Moves, VisitSteps
      <3> QED BY <2>1, <2>2, <3>1 DEF NotWritten
    <2>3. CASE u # t
      BY <2>1, <2>3, OthersToWrite
    <2> QED BY <2>2, <2>3
  <1> QED BY <1>1, <1>3, <1>5, <1>7, <1>8 DEF WrittenOnce

\* It writes the crash line, the first of its thread in this logger
LEMMA LinesWhenWritten ==
  ASSUME OutputOK, OutputOK', CrashOK, LinesOK, VisitOK, NEW t \in Tasks, NEW l \in Loggers, GetsCrashLine(t, l),
         Visits(t), on[t] = l, pc[t][2] # "visit", Moves(t, "crash", "visit"),
         UNCHANGED <<on, crash, IsCrashHandled>>
  PROVE  LinesOK'
  <1> USE DEF LinesOK
  <1>1. ~HasLine(t, l) /\ IsInHandler(t) /\ l \notin ToVisit(t)
    BY DEF WrittenOnce, NotWritten, Visits, VisitSteps, IsInHandler, HasCrashed, VisitOK
  <1>2. PICK k : /\ k \notin CrashLines(l) /\ CrashLines(l)' = CrashLines(l) \cup {k}
                 /\ file'[l][k] = CrashLine(t) /\ \A i \in CrashLines(l) : file'[l][i] = file[l][i]
    BY LineAdded
  <1>3. CrashLine(t).by = t /\ (CrashLine(t).kind = "crash" => crash[t].source # "none")
    BY DEF CrashLine
  <1>4. \A m \in Loggers \ {l} : CrashLines(m)' = CrashLines(m) /\ \A i \in CrashLines(m) : file'[m][i] = file[m][i]
    BY LineAdded, LinesStay
  <1>5. OneEach'
    <2>1. \A i \in CrashLines(l) : file[l][i].by # t
      BY <1>1 DEF HasLine
    <2>2. ASSUME NEW i \in CrashLines(l)', NEW j \in CrashLines(l)', file'[l][i].by = file'[l][j].by PROVE i = j
      BY <1>2, <1>3, <2>1, <2>2 DEF OneEach
    <2> QED BY <1>4, <2>2 DEF OneEach
  <1>6. \A u \in Tasks : HasCrashed(u) => HasCrashed(u)'
    BY OthersVisit
  <1>7. Told'
    <2>1. HasCrashed(t)' /\ IsCrashHandled
      BY <1>1, OthersVisit DEF Handled
    <2>2. ASSUME NEW i \in CrashLines(l)', NEW u, file'[l][i].by = u PROVE u \in Tasks /\ HasCrashed(u)' /\ IsCrashHandled
      <3>1. CASE i = k
        BY <1>2, <1>3, <2>1, <2>2, <3>1
      <3>2. CASE i # k
        <4>1. i \in CrashLines(l) /\ file[l][i].by = u
          BY <1>2, <2>2, <3>2
        <4> QED BY <1>6, <4>1 DEF Told
      <3> QED BY <3>1, <3>2
    <2>3. ASSUME NEW m \in Loggers, m # l, NEW i \in CrashLines(m)', NEW u, file'[m][i].by = u
          PROVE  u \in Tasks /\ HasCrashed(u)' /\ IsCrashHandled
      <3>1. i \in CrashLines(m) /\ file[m][i].by = u
        BY <1>4, <2>3
      <3> QED BY <1>6, <3>1 DEF Told
    <2> QED BY <2>2, <2>3 DEF Told
  <1>8. \A u \in Tasks : IsInHandler(u)' => IsInHandler(u)
    BY <1>1, OthersHandle
  <1>9. Handled'
    BY <1>8 DEF Handled
  <1>10. \A u \in Tasks : HasHandlersLine(u)' => HasHandlersLine(u) \/ (u = t /\ crash[t].source # "none")
    BY <1>2, <1>3, <1>4 DEF HasHandlersLine
  <1>11. \A u \in Tasks : IsHandlersCrash(u)' => IsHandlersCrash(u)
    BY <1>1, <1>8, <1>10 DEF IsHandlersCrash
  <1>12. OneHandled'
    BY <1>11 DEF OneHandled
  <1>13. ASSUME NEW u \in Tasks, NEW m \in Loggers, HasLine(u, m)' PROVE NotWritten(u, m)'
    <2>1. HasLine(u, m) \/ (u = t /\ m = l)
      BY <1>13, LinesAfter
    <2>2. CASE u = t
      <3>1. pc'[t][2] = "visit" /\ m \notin ToVisit(t)
        BY <1>1, <2>1, <2>2 DEF Moves, WrittenOnce, NotWritten
      <3> QED BY <2>2, <3>1 DEF NotWritten, ToVisit
    <2>3. CASE u # t
      <3>1. NotWritten(u, m)
        BY <2>1, <2>3 DEF WrittenOnce
      <3>2. OthersStay(t) /\ OtherCrashesStay(t)
        BY DEF OthersStay, OtherCrashesStay, SameBut
      <3> QED BY <2>3, <3>1, <3>2, OthersToWrite
    <2> QED BY <2>2, <2>3
  <1> QED BY <1>5, <1>7, <1>9, <1>12, <1>13 DEF WrittenOnce

LEMMA LinesUnchanged ==
  ASSUME OutputOK, OutputOK', FilesGrow, LinesOK, UNCHANGED <<pc, on, IsCrashHandled>>,
         \A u \in Tasks : SameBut(crash[u], crash'[u])
  PROVE  LinesOK'
  <1> USE DEF LinesOK
  <1>1. \A u \in Tasks : (HasCrashed(u)' <=> HasCrashed(u)) /\ (IsInHandler(u)' <=> IsInHandler(u)) /\ (Visits(u)' <=> Visits(u))
    BY DEF HasCrashed, IsInHandler, Visits
  <1>2. OneEach' /\ Told' /\ Handled'
    BY <1>1, LinesSame DEF Told, Handled
  <1>3. \A u \in Tasks, l \in Loggers : NotWritten(u, l)' <=> NotWritten(u, l)
    BY <1>1 DEF NotWritten, ToVisit, SameBut
  <1>4. WrittenOnce'
    BY <1>3, LinesSame DEF WrittenOnce
  <1>5. \A u \in Tasks : IsHandlersCrash(u)' <=> IsHandlersCrash(u)
    BY <1>1, LinesSame DEF IsHandlersCrash, SameBut
  <1> QED BY <1>2, <1>4, <1>5 DEF OneHandled

LEMMA LinesStep ==
  ASSUME ControlInv, ControlInv', PlainBuffers, LinesOK, [Next]_vars
  PROVE  LinesOK'
  <1> USE DEF ControlInv, TypeOK
  <1>1. ASSUME NEW t \in Tasks, NEW l \in Loggers, HandleCrashInLoggers(t), WriteCrash(t),
               UNCHANGED <<registryHolder, crash, on>>, on[t] = l, GetsCrashLine(t, l)
        PROVE  LinesOK'
    <2>1. UNCHANGED <<on, crash, IsCrashHandled>>
      BY <1>1 DEF HandleCrashInLoggers, UnchangedInVisit, handlerVars
    <2>2. Visits(t) /\ pc[t][2] # "visit" /\ Moves(t, "crash", "visit")
      <3>1. VisitStep(t, "write locked", "visit") \/ VisitStep(t, "write", "visit")
        BY <1>1, StepIs DEF WriteCrash
      <3> QED BY <3>1 DEF VisitStep, Visits, VisitSteps
    <2> QED BY <1>1, <2>1, <2>2, LinesWhenWritten
  <1>2. CASE FilesGrow
    <2>1. CASE UNCHANGED <<pc, on, crash, lifeVars, lockVars, outputVars, IsCrashHandled, ended>>
      BY <1>2, <2>1, LinesUnchanged DEF SameBut
    <2>2. ASSUME NEW t \in Tasks, CallMoves(t) PROVE LinesOK'
      <3>1. OthersStay(t) /\ OtherCrashesStay(t) /\ IsCrashHandled' = IsCrashHandled /\ ~HasCrashed(t)
        BY <2>2 DEF CallMoves, OtherCrashesStay, handlerVars
      <3>2. PICK op, step : Moves(t, op, step) /\ op # "crash"
        BY <2>2 DEF CallMoves
      <3> QED BY <1>2, <3>1, <3>2, LinesWhenOut
    <2>3. ASSUME NEW t \in Tasks, HandleCrash(t) PROVE LinesOK'
      <3>1. OthersStay(t) /\ ~HasCrashed(t) /\ Moves(t, "crash", "lock list of loggers")
        BY <2>3, BeginsCrash, Moved DEF HandleCrash, OthersStay, OnOK
      <3>2. OtherCrashesStay(t) /\ IsCrashHandled'
        BY <2>3 DEF HandleCrash, OtherCrashesStay, SameBut, CrashOK
      <3>3. crash'[t].source = "none"
        BY <2>3 DEF HandleCrash, Crashed, NoCrash, CrashOK
      <3>4. \A l \in Loggers : ~HasLine(t, l)
        BY <3>1 DEF LinesOK, Told, HasLine
      <3> QED BY <1>2, <3>1, <3>2, <3>3, <3>4, LinesWhenIn
    <2>4. ASSUME NEW t \in Tasks, NEW s \in Sources, Crash(t, s) PROVE LinesOK'
      <3>1. OthersStay(t) /\ Moves(t, "crash", "handler")
        BY <2>4, BeginsCrash, Moved DEF Crash, OthersStay, OnOK
      <3>2. OtherCrashesStay(t) /\ IsCrashHandled' = IsCrashHandled
        BY <2>4 DEF Crash, OtherCrashesStay, SameBut, CrashOK
      <3> QED BY <1>2, <3>1, <3>2, LinesWhenOut
    <2>5. ASSUME NEW t \in Tasks, HandleFirstCrash(t) PROVE LinesOK'
      <3>1. OthersStay(t) /\ OtherCrashesStay(t)
        BY <2>5 DEF HandleFirstCrash, OthersStay, OtherCrashesStay, SameBut
      <3>2. CASE IsFirstCrash
        <4>1. Moves(t, "crash", "lock list of loggers") /\ IsCrashHandled' /\ ~IsCrashHandled
          BY <2>5, <3>2, Moved DEF HandleFirstCrash, IsFirstCrash
        <4>2. \A l \in Loggers : ~HasLine(t, l)
          BY <4>1 DEF LinesOK, Told, HasLine
        <4> QED BY <1>2, <3>1, <4>1, <4>2, LinesWhenIn
      <3>3. CASE ~IsFirstCrash
        <4>1. Moves(t, "crash", "pass") /\ IsCrashHandled' = IsCrashHandled
          BY <2>5, <3>3, Moved DEF HandleFirstCrash
        <4> QED BY <1>2, <3>1, <4>1, LinesWhenOut
      <3> QED BY <3>2, <3>3
    <2>6. ASSUME NEW t \in Tasks, PassOn(t) PROVE LinesOK'
      <3>1. CASE UNCHANGED <<crash, isLate, pc, handlerVars>>
        <4>1. on' = on /\ IsCrashHandled' = IsCrashHandled
          BY <2>6, <3>1 DEF PassOn, handlerVars
        <4> QED BY <1>2, <3>1, <4>1, LinesUnchanged DEF SameBut
      <3>2. CASE \E s \in Sources, h \in Handlers : CallHandler(t, s, h)
        <4>1. Moves(t, "crash", "handler") /\ OtherCrashesStay(t)
          BY <3>2, Moved DEF CallHandler, OtherCrashesStay, SameBut, CrashOK
        <4>2. OthersStay(t) /\ IsCrashHandled' = IsCrashHandled
          BY <2>6 DEF PassOn, OthersStay
        <4> QED BY <1>2, <4>1, <4>2, LinesWhenOut
      <3> QED BY <2>6, <3>1, <3>2, PassOnIs
    <2>7. ASSUME NEW t \in Tasks, HandleCrashInLoggers(t) PROVE LinesOK'
      <3>1. IsCrashHandled' = IsCrashHandled /\ OthersStay(t)
        BY <2>7 DEF HandleCrashInLoggers, UnchangedInVisit, handlerVars, Visit, Await, OthersStay, OnOK
      <3>2. OtherCrashesStay(t) /\ crash'[t].source = crash[t].source
        <4>1. crash[t] \in CrashRecord /\ DOMAIN crash = Tasks
          BY DEF CrashOK
        <4>2. \/ crash' = crash
              \/ crash' = [crash EXCEPT ![t].todo = list, ![t].isWritten = TRUE]
              \/ \E n : crash' = [crash EXCEPT ![t].todo = Tail(@), ![t].lastQueued = n]
          BY <2>7 DEF HandleCrashInLoggers, LockListOfLoggers, Visit, Await
        <4> QED BY <4>1, <4>2 DEF OtherCrashesStay, SameBut, CrashRecord
      <3>3. ASSUME NEW from, NEW step, VisitStep(t, from, step), from # "handler", from # "pass", step \in VisitSteps,
                   \A l \in Loggers : HasLine(t, l) => l \notin ToVisit(t)' /\ (l # on'[t] \/ step = "visit")
            PROVE  LinesOK'
        <4>1. IsInHandler(t) /\ Moves(t, "crash", step)
          BY <3>3 DEF VisitStep, IsInHandler, HasCrashed
        <4> QED BY <1>2, <3>1, <3>2, <3>3, <4>1, LinesWhenVisiting
      <3>4. ASSUME NEW from, VisitStep(t, from, "pass") PROVE LinesOK'
        BY <1>2, <3>1, <3>2, <3>4, LinesWhenOut DEF VisitStep
      <3>5. CASE LockListOfLoggers(t)
        <4>1. CASE Steps(t, "lock list of loggers", "pass")
          BY <3>4, <4>1, StepIs
        <4>2. CASE Steps(t, "lock list of loggers", "visit")
          <5>1. VisitStep(t, "lock list of loggers", "visit")
            BY <4>2, StepIs
          <5>2. \A l \in Loggers : ~HasLine(t, l)
            BY <5>1 DEF LinesOK, WrittenOnce, NotWritten, VisitStep, HasCrashed
          <5> QED BY <3>3, <5>1, <5>2 DEF VisitSteps
        <4> QED BY <3>5, <4>1, <4>2 DEF LockListOfLoggers
      <3>6. CASE Visit(t)
        <4>1. CASE crash[t].todo = <<>>
          BY <3>4, <3>6, <4>1, StepIs DEF Visit
        <4>2. CASE crash[t].todo # <<>>
          <5> DEFINE s == crash[t].todo
          <5>1. crash[t] \in CrashRecord /\ DOMAIN crash = Tasks /\ DOMAIN on = Tasks
            BY DEF CrashOK, OnOK
          <5>2. on'[t] = Head(s) /\ crash'[t].todo = Tail(s)
            BY <3>6, <4>2, <5>1 DEF Visit, CrashRecord
          <5>3. VisitStep(t, "visit", "await") \/ VisitStep(t, "visit", "visit")
            BY <3>6, <4>2, StepIs DEF Visit
          <5>4. Visits(t)
            BY <5>3 DEF VisitStep, Visits, VisitSteps
          <5>5. s \in Seq(Loggers) /\ IsInjective(s)
            BY <5>1, <5>4 DEF VisitOK, CrashRecord
          <5> HIDE DEF s
          <5>6. ToSet(s) = ToSet(Tail(s)) \cup {Head(s)}
            BY <4>2, <5>5, HeadAndTail DEF s
          <5>7. \A l \in Loggers : HasLine(t, l) => l \notin ToSet(s)
            BY <5>4 DEF LinesOK, WrittenOnce, NotWritten, ToVisit, s
          <5>8. \A l \in Loggers : HasLine(t, l) => l \notin ToVisit(t)' /\ l # on'[t]
            BY <5>2, <5>6, <5>7 DEF ToVisit
          <5> QED BY <3>3, <5>3, <5>8 DEF VisitSteps
        <4> QED BY <4>1, <4>2
      <3>7. CASE (Await(t) \/ LockOutput(t) \/ WriteCrash(t)) /\ UNCHANGED <<crash, on>>
        <4>1. \/ VisitStep(t, "await", "lock") \/ VisitStep(t, "lock", "write locked") \/ VisitStep(t, "lock", "write")
              \/ VisitStep(t, "write locked", "visit") \/ VisitStep(t, "write", "visit")
          BY <3>7, StepIs DEF Await, LockOutput, WriteCrash
        <4>2. Visits(t) /\ pc[t][2] # "visit"
          BY <4>1 DEF VisitStep, Visits, VisitSteps
        <4>3. \A l \in Loggers : HasLine(t, l) => l \notin ToVisit(t)' /\ l # on'[t]
          BY <3>7, <4>2 DEF LinesOK, WrittenOnce, NotWritten, ToVisit
        <4> QED BY <3>3, <4>1, <4>3 DEF VisitSteps
      <3> QED BY <2>7, <3>5, <3>6, <3>7 DEF HandleCrashInLoggers, Await
    <2> QED BY <2>1, <2>2, <2>3, <2>4, <2>5, <2>6, <2>7, StepKinds
  <1> QED BY <1>1, <1>2, OutputGrows

\* The loggers that are to get a crash stay initialized and on the list
ExpectedListed ==
    \A t \in Tasks : crash[t].expects \subseteq ToSet(list) /\ \A l \in crash[t].expects : m_IsInitialized[l] /\ ~IsClosing(l)
\* Of those, a handler past the list's lock has written its line to each that
\* does not keep its lines in memory, or still visits it
IsVisiting(t, l) == Visits(t) /\ (l \in ToVisit(t) \/ (l = on[t] /\ pc[t][2] # "visit"))
ExpectedWritten ==
    \A t \in Tasks : crash[t].isWritten => \A l \in crash[t].expects \ Memory : HasLine(t, l) \/ IsVisiting(t, l)

\* A logger that no thread closes stays initialized
ClosingOps == {"Close", "Finalize", "Destroy", "DestroyBase"}
OthersStayOpen == \A l \in Loggers : m_IsInitialized[l] /\ ~IsClosing(l) => m_IsInitialized'[l]

LEMMA ClosingIs == \A l : IsClosing(l) <=> \E t \in Tasks : on[t] = l /\ pc[t][1] \in ClosingOps
  BY DEF IsClosing, IsDestroying, IsIn, ClosingOps

LEMMA ClosingStays ==
  ASSUME NEW t \in Tasks, NEW op, NEW step, Moves(t, op, step), OthersStay(t),
         op \notin ClosingOps \/ (pc[t][1] \in ClosingOps /\ on' = on)
  PROVE  \A l : IsClosing(l)' => IsClosing(l)
  <1>1. ASSUME NEW l, NEW u \in Tasks, on'[u] = l, pc'[u][1] \in ClosingOps PROVE on[u] = l /\ pc[u][1] \in ClosingOps
    BY <1>1 DEF Moves, OthersStay
  <1>2. \A l : IsClosing(l)' <=> \E u \in Tasks : on'[u] = l /\ pc'[u][1] \in ClosingOps
    BY DEF IsClosing, IsDestroying, IsIn, ClosingOps
  <1> QED BY <1>1, <1>2, ClosingIs

LEMMA ExpectedStay ==
  ASSUME CrashOK, ExpectedListed, \A l : IsClosing(l)' => IsClosing(l), ToSet(list) \subseteq ToSet(list)', OthersStayOpen,
         \A u \in Tasks : SameBut(crash[u], crash'[u])
  PROVE  ExpectedListed'
  <1>1. \A u \in Tasks : crash[u].expects \subseteq Loggers
    BY DEF CrashOK, CrashRecord
  <1> QED BY <1>1 DEF ExpectedListed, OthersStayOpen, SameBut

\* What a handler's step leaves of a crash
LEMMA CrashKept ==
  ASSUME CrashOK, ListOK, OutputOK, HandlersOK, instance \in Instances, NEW t \in Tasks, HandleFirstCrash(t) \/ PassOn(t) \/ HandleCrashInLoggers(t)
  PROVE  /\ OtherCrashesStay(t)
         /\ crash'[t].expects = crash[t].expects /\ crash'[t].logged = crash[t].logged /\ crash'[t].inPlace = crash[t].inPlace
         /\ ~HandleCrashInLoggers(t) => crash'[t].isWritten = crash[t].isWritten /\ crash'[t].todo = crash[t].todo
  <1>1. crash[t] \in CrashRecord /\ DOMAIN crash = Tasks
    BY DEF CrashOK
  <1>2. \/ crash' = crash
        \/ \E s, h : crash' = [crash EXCEPT ![t].source = s, ![t].called = @ \o <<<<s, h>>>>]
        \/ /\ HandleCrashInLoggers(t)
           /\ \/ crash' = [crash EXCEPT ![t].todo = list, ![t].isWritten = TRUE]
              \/ \E n \in Nat : crash' = [crash EXCEPT ![t].todo = Tail(@), ![t].lastQueued = n] /\ crash[t].todo # <<>>
    <2>1. PassOn(t) => crash' = crash \/ \E s, h : crash' = [crash EXCEPT ![t].source = s, ![t].called = @ \o <<<<s, h>>>>]
      BY PassOnIs DEF CallHandler
    <2>2. HandleFirstCrash(t) => crash' = crash
      BY DEF HandleFirstCrash
    <2>3. ASSUME Visit(t)
          PROVE  crash' = crash \/ \E n \in Nat : crash' = [crash EXCEPT ![t].todo = Tail(@), ![t].lastQueued = n] /\ crash[t].todo # <<>>
      <3>1. CASE crash[t].todo = <<>>
        BY <2>3, <3>1 DEF Visit
      <3>2. CASE crash[t].todo # <<>>
        <4>1. Head(crash[t].todo) \in Loggers
          BY <1>1, <3>2 DEF CrashRecord
        <4>2. m_LastQueuedSequence[Head(crash[t].todo)] \in Nat
          BY <4>1 DEF OutputOK
        <4>3. crash' = [crash EXCEPT ![t].todo = Tail(@), ![t].lastQueued = m_LastQueuedSequence[Head(crash[t].todo)]]
          BY <2>3, <3>2 DEF Visit
        <4> QED BY <3>2, <4>2, <4>3
      <3> QED BY <3>1, <3>2
    <2>4. HandleCrashInLoggers(t) => Visit(t) \/ crash' = crash \/ crash' = [crash EXCEPT ![t].todo = list, ![t].isWritten = TRUE]
      BY DEF HandleCrashInLoggers, LockListOfLoggers, Await
    <2> QED BY <2>1, <2>2, <2>3, <2>4
  <1>3. CASE crash' = crash
    BY <1>3 DEF OtherCrashesStay, SameBut
  <1>4. ASSUME NEW s, NEW h, crash' = [crash EXCEPT ![t].source = s, ![t].called = @ \o <<<<s, h>>>>]
        PROVE  /\ OtherCrashesStay(t)
               /\ crash'[t].expects = crash[t].expects /\ crash'[t].logged = crash[t].logged /\ crash'[t].inPlace = crash[t].inPlace
               /\ crash'[t].isWritten = crash[t].isWritten /\ crash'[t].todo = crash[t].todo
    <2> DEFINE c == crash[t].called \o <<<<s, h>>>>
    <2>1. crash' = [crash EXCEPT ![t] = [crash[t] EXCEPT !.source = s, !.called = c]]
      BY <1>1, <1>4
    <2> HIDE DEF c
    <2> QED BY <1>1, <2>1 DEF OtherCrashesStay, SameBut, CrashRecord
  <1>5. ASSUME NEW r \in CrashRecord, crash' = [crash EXCEPT ![t] = r], HandleCrashInLoggers(t),
               r.expects = crash[t].expects, r.logged = crash[t].logged, r.inPlace = crash[t].inPlace
        PROVE  /\ OtherCrashesStay(t)
               /\ crash'[t].expects = crash[t].expects /\ crash'[t].logged = crash[t].logged /\ crash'[t].inPlace = crash[t].inPlace
               /\ ~HandleCrashInLoggers(t) => crash'[t].isWritten = crash[t].isWritten /\ crash'[t].todo = crash[t].todo
    BY <1>1, <1>5 DEF OtherCrashesStay, SameBut
  <1>6. ASSUME crash' = [crash EXCEPT ![t].todo = list, ![t].isWritten = TRUE], list \in Seq(Loggers)
        PROVE  \E r \in CrashRecord : crash' = [crash EXCEPT ![t] = r] /\ r.expects = crash[t].expects /\ r.logged = crash[t].logged
                                                                      /\ r.inPlace = crash[t].inPlace
    <2> DEFINE r == [crash[t] EXCEPT !.todo = list, !.isWritten = TRUE]
    <2>1. r \in CrashRecord /\ r.expects = crash[t].expects /\ r.logged = crash[t].logged /\ r.inPlace = crash[t].inPlace
      BY <1>1, <1>6 DEF CrashRecord
    <2>2. crash' = [crash EXCEPT ![t] = r]
      BY <1>1, <1>6
    <2> HIDE DEF r
    <2> QED BY <2>1, <2>2
  <1>7. ASSUME NEW n \in Nat, crash' = [crash EXCEPT ![t].todo = Tail(@), ![t].lastQueued = n], crash[t].todo # <<>>
        PROVE  \E r \in CrashRecord : crash' = [crash EXCEPT ![t] = r] /\ r.expects = crash[t].expects /\ r.logged = crash[t].logged
                                                                      /\ r.inPlace = crash[t].inPlace
    <2> DEFINE r == [crash[t] EXCEPT !.todo = Tail(@), !.lastQueued = n]
    <2>1. r \in CrashRecord /\ r.expects = crash[t].expects /\ r.logged = crash[t].logged /\ r.inPlace = crash[t].inPlace
      <3>1. crash[t].todo \in Seq(Loggers)
        BY <1>1 DEF CrashRecord
      <3>2. Tail(crash[t].todo) \in Seq(Loggers)
        BY <1>7, <3>1
      <3> HIDE <1>7
      <3> QED BY <1>1, <3>2 DEF CrashRecord
    <2>2. crash' = [crash EXCEPT ![t] = r]
      BY <1>1, <1>7
    <2> HIDE DEF r
    <2> QED BY <2>1, <2>2
  <1>8. crash' = crash => OtherCrashesStay(t) /\ crash'[t] = crash[t]
    BY DEF OtherCrashesStay, SameBut
  <1>9. list \in Seq(Loggers)
    BY DEF ListOK
  <1>10. ASSUME HandleCrashInLoggers(t), NEW r \in CrashRecord, crash' = [crash EXCEPT ![t] = r] /\ r.expects = crash[t].expects
                                                                  /\ r.logged = crash[t].logged /\ r.inPlace = crash[t].inPlace
         PROVE  OtherCrashesStay(t) /\ crash'[t].expects = crash[t].expects /\ crash'[t].logged = crash[t].logged
                                    /\ crash'[t].inPlace = crash[t].inPlace
    BY <1>5, <1>10
  <1>11. CASE HandleCrashInLoggers(t)
    <2>1. crash' = [crash EXCEPT ![t].todo = list, ![t].isWritten = TRUE]
             => OtherCrashesStay(t) /\ crash'[t].expects = crash[t].expects /\ crash'[t].logged = crash[t].logged
                                    /\ crash'[t].inPlace = crash[t].inPlace
      BY <1>6, <1>9, <1>10, <1>11
    <2>2. (\E n \in Nat : crash' = [crash EXCEPT ![t].todo = Tail(@), ![t].lastQueued = n] /\ crash[t].todo # <<>>)
             => OtherCrashesStay(t) /\ crash'[t].expects = crash[t].expects /\ crash'[t].logged = crash[t].logged
                                    /\ crash'[t].inPlace = crash[t].inPlace
      BY <1>7, <1>10, <1>11
    <2> QED BY <1>2, <1>4, <1>8, <1>11, <2>1, <2>2
  <1> QED BY <1>2, <1>4, <1>8, <1>11

LEMMA ExpectedListedStep ==
  ASSUME ControlInv, ExpectedListed, [Next]_vars
  PROVE  ExpectedListed'
  <1> USE TasksAre DEF ControlInv, TypeOK
  <1>0. m_IsInitialized' = m_IsInitialized => OthersStayOpen
    BY DEF OthersStayOpen
  <1>1. CASE UNCHANGED <<pc, on, crash, lifeVars, lockVars, outputVars, IsCrashHandled, ended>>
    <2>1. \A l : IsClosing(l)' => IsClosing(l)
      BY <1>1 DEF IsClosing, IsDestroying, IsIn
    <2> QED BY <1>0, <1>1, <2>1, ExpectedStay DEF SameBut, lifeVars
  <1>2. ASSUME NEW t \in Tasks, CallMoves(t), list' = list, OthersStayOpen, NEW op, NEW step, Moves(t, op, step),
               op \notin ClosingOps \/ (pc[t][1] \in ClosingOps /\ on' = on)
        PROVE  ExpectedListed'
    BY <1>2, ClosingStays, ExpectedStay DEF CallMoves
  <1>3. ASSUME NEW t \in Threads, Call(t) PROVE ExpectedListed'
    <2>0. t \in Tasks /\ CallMoves(t)
      BY <1>3, CallsMove
    <2>1. ASSUME NEW l \in Loggers, StartWrite(t, l) \/ StartKeep(t, l) \/ StartRead(t, l) PROVE ExpectedListed'
      <3>1. UNCHANGED <<list, m_IsInitialized>> /\ (Moves(t, "Log", "write") \/ Moves(t, "Keep", "keep") \/ Moves(t, "Read", "lines"))
        BY <2>1, Moved DEF StartWrite, StartKeep, StartRead, lifeVars
      <3> QED BY <1>0, <1>2, <2>0, <3>1 DEF ClosingOps
    <2>2. ASSUME NEW l \in Loggers, Initialize(t, l) PROVE ExpectedListed'
      <3>1. list' = list /\ Moves(t, "Initialize", "lock list") /\ OthersStayOpen
        BY <2>2, Moved DEF Initialize, OthersStayOpen, LifeOK
      <3> QED BY <1>2, <2>0, <3>1 DEF ClosingOps
    <2>3. ASSUME NEW l \in Loggers, Queue(t, l) \/ Open(t, l) PROVE ExpectedListed'
      <3>1. pc[t] = <<"none", "idle">> /\ pc[t][1] = "none" /\ pc[t][2] = "idle" /\ list' = list /\ pc' = pc
        BY <2>3, AtIs DEF Queue, Open, Begin, lifeVars
      <3>2. Moves(t, "none", "idle")
        BY <3>1 DEF Moves
      <3>3. OthersStayOpen
        BY <1>0, <2>3 DEF Queue, Open, OthersStayOpen, LifeOK, lifeVars
      <3> QED BY <1>2, <2>0, <3>1, <3>2, <3>3 DEF ClosingOps
    <2>4. ASSUME NEW l \in Loggers, NEW op \in Closes, StartClose(t, op, l) PROVE ExpectedListed'
      <3>1. OthersStay(t) /\ on'[t] = l /\ UNCHANGED <<list, m_IsInitialized>> /\ \E step : Moves(t, op, step)
        BY <2>4, Moved DEF StartClose, StartsToClose, Begin, OthersStay, OnOK, lifeVars
      <3>2. \A u \in Tasks : crash'[u].expects = crash[u].expects \ {l}
        <4>1. \A u \in Tasks : crash[u] \in CrashRecord
          BY DEF CrashOK
        <4>2. crash' = [u \in Tasks |-> [crash[u] EXCEPT !.expects = @ \ {l}]]
          BY <2>4 DEF StartClose, StartsToClose
        <4> QED BY <4>1, <4>2 DEF CrashRecord
      <3>3. \A k : IsClosing(k)' => IsClosing(k) \/ k = l
        <4>1. \A u \in Tasks \ {t} : on'[u] = on[u] /\ pc'[u] = pc[u]
          BY <3>1 DEF Moves, OthersStay
        <4> QED BY <3>1, <4>1 DEF IsClosing, IsDestroying, IsIn
      <3> QED BY <3>1, <3>2, <3>3 DEF ExpectedListed
    <2>5. ASSUME EndWrite(t) \/ EndKeep(t) \/ EndRead(t) PROVE ExpectedListed'
      <3>1. UNCHANGED <<list, m_IsInitialized>> /\ Moves(t, "none", "idle")
        BY <2>5, Moved DEF EndWrite, EndKeep, EndRead, Return, lifeVars
      <3> QED BY <1>0, <1>2, <2>0, <3>1 DEF ClosingOps
    <2>6. ASSUME LockList(t) \/ LockToClose(t) \/ Destroyed(t) PROVE ExpectedListed'
      <3>1. UNCHANGED <<list, m_IsInitialized, on>>
        BY <2>6 DEF LockList, LockToClose, Destroyed, Continue, lifeVars
      <3>2. CASE LockList(t) \/ LockToClose(t)
        <4>1. Moves(t, pc[t][1], "change list") \/ Moves(t, pc[t][1], "locked")
          BY <2>0, <3>2, Moved DEF LockList, LockToClose
        <4> QED BY <1>0, <1>2, <2>0, <3>1, <4>1
      <3>3. CASE Destroyed(t)
        <4>1. Moves(t, "DestroyBase", "lock list") /\ pc[t][1] = "Destroy"
          BY <2>0, <3>3, Moved, AtIs DEF Destroyed
        <4> QED BY <1>0, <1>2, <2>0, <3>1, <4>1 DEF ClosingOps
      <3> QED BY <2>6, <3>2, <3>3
    <2>7. ASSUME Close(t) PROVE ExpectedListed'
      <3>1. UNCHANGED <<list, on>> /\ m_IsInitialized' = [m_IsInitialized EXCEPT ![on[t]] = FALSE]
        BY <2>7 DEF Close, Continue
      <3>2. pc[t][1] \in Closes
        BY <2>0, <2>7, Labels DEF Close
      <3>3. Moves(t, "Destroy", "join") \/ Moves(t, "none", "idle")
        BY <2>0, <2>7, Moved DEF Close
      <3>4. IsClosing(on[t])
        BY <2>0, <3>2, ClosingIs DEF Closes, ClosingOps
      <3>5. OthersStayOpen
        BY <3>1, <3>4 DEF OthersStayOpen, LifeOK
      <3> QED BY <1>2, <2>0, <3>1, <3>2, <3>3, <3>5 DEF ClosingOps, Closes
    <2>8. ASSUME Register(t) PROVE ExpectedListed'
      <3>1. pc[t][1] = "Initialize" /\ Moves(t, "none", "idle") /\ list' = Registered(t) /\ m_IsInitialized' = m_IsInitialized
        BY <2>8, Moved, AtIs DEF Register, Return
      <3>2. on[t] \in Loggers
        BY <3>1 DEF OnOK, UsesLogger
      <3>3. ToSet(list) \subseteq ToSet(list)'
        BY <3>1, <3>2, Prepended DEF ListOK, Registered
      <3> QED BY <1>0, <2>0, <3>1, <3>3, ClosingStays, ExpectedStay DEF CallMoves, ClosingOps
    <2>9. ASSUME Unregister(t) \/ UnregisterBase(t) PROVE ExpectedListed'
      <3>1. pc[t][1] \in {"Finalize", "Destroy", "DestroyBase"} /\ list' = RemoveFirst(list, on[t])
            /\ UNCHANGED <<on, m_IsInitialized>>
        BY <2>9, AtIs DEF Unregister, UnregisterBase, Unregistered, Continue, Return
      <3>6. Moves(t, pc[t][1], "close") \/ Moves(t, "none", "idle")
        BY <2>9, Moved DEF Unregister, UnregisterBase, Return
      <3>2. on[t] \in Loggers /\ IsClosing(on[t])
        BY <2>0, <3>1, ClosingIs DEF OnOK, UsesLogger, ClosingOps
      <3>3. ToSet(list)' = ToSet(list) \ {on[t]}
        BY <3>1, <3>2, RemovedOne DEF ListOK
      <3>4. \A l : IsClosing(l)' => IsClosing(l)
        BY <2>0, <3>1, <3>6, ClosingStays DEF CallMoves, ClosingOps
      <3>5. \A u \in Tasks : on[t] \notin crash[u].expects /\ crash'[u].expects \subseteq crash[u].expects
        BY <2>0, <3>2 DEF ExpectedListed, CallMoves, SameBut
      <3> QED BY <3>1, <3>3, <3>4, <3>5 DEF ExpectedListed
    <2> QED BY <1>3, <2>1, <2>2, <2>3, <2>4, <2>5, <2>6, <2>7, <2>8, <2>9 DEF Call, Closes
  <1>4. ASSUME NEW w \in Workers, Work(w) PROVE ExpectedListed'
    <2>1. w \in Tasks /\ CallMoves(w)
      BY <1>4, CallsMove
    <2>2. UNCHANGED <<list, m_IsInitialized>>
      BY <1>4 DEF Work, WorkerTake, WorkerWrite, WorkerMark, lifeVars
    <2>3. Moves(w, "Work", "write") \/ Moves(w, "Work", "mark") \/ Moves(w, "none", "idle")
      BY <1>4, Moved DEF Work, WorkerTake, WorkerWrite, WorkerMark, Return
    <2> QED BY <1>0, <1>2, <2>1, <2>2, <2>3 DEF ClosingOps
  <1>5. ASSUME NEW t \in Tasks, HandleCrash(t) \/ \E s \in Sources : Crash(t, s) PROVE ExpectedListed'
    <2>1. OthersStay(t) /\ UNCHANGED <<list, m_IsInitialized>>
      BY <1>5, BeginsCrash DEF OthersStay, OnOK, lifeVars
    <2>2. \A l : IsClosing(l)' => IsClosing(l)
      BY <1>5, <2>1, BeginsCrash, ClosingStays DEF ClosingOps
    <2> DEFINE Expects == {l \in ToSet(list) : m_IsInitialized[l] /\ ~IsClosing(l)}
    <2>3. (\A u \in Tasks \ {t} : crash'[u] = crash[u]) /\ crash'[t].expects = Expects
      <3>1. \A s, c : Crashed(t, s, c).expects = Expects
        BY DEF Crashed, NoCrash
      <3>2. \E s, c : crash' = [crash EXCEPT ![t] = Crashed(t, s, c)]
        BY <1>5 DEF HandleCrash, Crash
      <3> QED BY <3>1, <3>2 DEF CrashOK
    <2> QED BY <2>1, <2>2, <2>3 DEF ExpectedListed
  <1>6. ASSUME NEW t \in Tasks, HandleFirstCrash(t) \/ PassOn(t) \/ HandleCrashInLoggers(t) PROVE ExpectedListed'
    <2>1. UNCHANGED <<list, m_IsInitialized>> /\ OthersStay(t)
      BY <1>6 DEF HandleFirstCrash, PassOn, HandleCrashInLoggers, UnchangedInVisit, UnchangedInCrash, lifeVars, Visit, Await, OthersStay, OnOK
    <2>2. pc' = pc \/ \E step : Moves(t, "crash", step)
      <3>1. HandleCrashInLoggers(t) => \E step : Go(t, "crash", step)
        BY DEF HandleCrashInLoggers, LockListOfLoggers, Visit, Await, LockOutput, WriteCrash, Steps
      <3> QED BY <1>6, <3>1, PassesOn, Moved
    <2>3. \A l : IsClosing(l)' => IsClosing(l)
      <3>1. CASE pc' = pc
        <4>1. pc[t][1] = "crash"
          BY <1>6, <3>1, PassesOn, AtIs DEF HandleCrashInLoggers, LockListOfLoggers, Visit, Await, LockOutput, WriteCrash, Steps
        <4>2. \A u \in Tasks : u # t => on'[u] = on[u]
          BY <2>1 DEF OthersStay
        <4> QED BY <3>1, <4>1, <4>2 DEF IsClosing, IsDestroying, IsIn
      <3> QED BY <2>1, <2>2, <3>1, ClosingStays DEF ClosingOps
    <2>4. \A u \in Tasks : crash'[u].expects \subseteq crash[u].expects
      BY <1>6, CrashKept DEF OtherCrashesStay, SameBut
    <2> QED BY <2>1, <2>3, <2>4 DEF ExpectedListed
  <1> QED BY <1>1, <1>3, <1>4, <1>5, <1>6, StepKinds

LEMMA InLoggersAt ==
  ASSUME NEW t, HandleCrashInLoggers(t)
  PROVE  pc[t][1] = "crash" /\ pc[t][2] \in {"lock list of loggers"} \cup VisitSteps
  <1>1. \E a, b : Steps(t, a, b) /\ a \in {"lock list of loggers", "visit", "await", "lock", "write", "write locked"}
    BY DEF HandleCrashInLoggers, LockListOfLoggers, Visit, Await, LockOutput, WriteCrash
  <1> QED BY <1>1, AtIs DEF Steps, VisitSteps

LEMMA LinesKept ==
  ASSUME PcOK, OnOK, OutputOK, OutputOK', CrashOK, LifeOK, PlainBuffers, [Next]_vars
  PROVE  \A t, l : l \in Loggers /\ HasLine(t, l) => HasLine(t, l)'
  <1>1. CASE FilesGrow
    BY <1>1, LinesSame
  <1>2. ASSUME NEW t \in Tasks, NEW l \in Loggers, GetsCrashLine(t, l) PROVE \A u, k : k \in Loggers /\ HasLine(u, k) => HasLine(u, k)'
    BY <1>2, LinesAfter
  <1> QED BY <1>1, <1>2, OutputGrows

LEMMA ExpectedWrittenStep ==
  ASSUME ControlInv, ControlInv', PlainBuffers, ExpectedListed, ExpectedWritten, [Next]_vars
  PROVE  ExpectedWritten'
  <1> USE DEF ControlInv, TypeOK
  <1>1. \A t, l : l \in Loggers /\ HasLine(t, l) => HasLine(t, l)'
    BY LinesKept
  <1>2. \A t \in Tasks : crash[t].expects \subseteq Loggers /\ crash[t].expects \subseteq ToSet(list)
    <2>1. \A t \in Tasks : crash[t] \in CrashRecord
      BY DEF CrashOK
    <2> QED BY <2>1 DEF ExpectedListed, CrashRecord
  <1>3. ASSUME UNCHANGED <<pc, on, crash>> PROVE ExpectedWritten'
    <2>1. \A t \in Tasks, l \in Loggers : IsVisiting(t, l)' <=> IsVisiting(t, l)
      BY <1>3 DEF IsVisiting, Visits, ToVisit
    <2> QED BY <1>1, <1>2, <1>3, <2>1 DEF ExpectedWritten
  <1>4. ASSUME NEW t \in Tasks, NEW op, NEW step, Moves(t, op, step), OthersStay(t), OtherCrashesStay(t),
               crash'[t].isWritten => \A l \in crash'[t].expects \ Memory : HasLine(t, l)' \/ IsVisiting(t, l)'
        PROVE  ExpectedWritten'
    <2> SUFFICES ASSUME NEW u \in Tasks, u # t, crash'[u].isWritten, NEW l \in crash'[u].expects \ Memory
                 PROVE  HasLine(u, l)' \/ IsVisiting(u, l)'
      BY <1>4 DEF ExpectedWritten
    <2>1. /\ pc'[u] = pc[u] /\ on'[u] = on[u] /\ ToVisit(u)' = ToVisit(u) /\ (Visits(u)' <=> Visits(u))
          /\ crash[u].isWritten /\ l \in crash[u].expects
      BY <1>4, OthersVisit DEF Moves, OthersStay, OtherCrashesStay, SameBut, ToVisit
    <2> QED BY <1>1, <1>2, <2>1 DEF ExpectedWritten, IsVisiting
  <1>5. ASSUME NEW t \in Tasks, ~Visits(t), NEW op, NEW step, Moves(t, op, step), OthersStay(t), OtherCrashesStay(t),
               crash'[t].isWritten = crash[t].isWritten, crash'[t].expects \subseteq crash[t].expects
        PROVE  ExpectedWritten'
    <2>1. crash'[t].isWritten => \A l \in crash'[t].expects \ Memory : HasLine(t, l)'
      BY <1>1, <1>2, <1>5 DEF ExpectedWritten, IsVisiting
    <2> QED BY <1>4, <1>5, <2>1
  <1>6. ASSUME NEW t \in Tasks, CallMoves(t) PROVE ExpectedWritten'
    <2>1. OthersStay(t) /\ OtherCrashesStay(t) /\ SameBut(crash[t], crash'[t]) /\ ~Visits(t)
      BY <1>6 DEF CallMoves, OtherCrashesStay, HasCrashed, Visits
    <2> QED BY <1>5, <1>6, <2>1 DEF CallMoves, SameBut
  <1>7. ASSUME NEW t \in Tasks, HandleCrash(t) \/ \E s \in Sources : Crash(t, s) PROVE ExpectedWritten'
    <2>1. OthersStay(t) /\ (Moves(t, "crash", "handler") \/ Moves(t, "crash", "lock list of loggers"))
      BY <1>7, BeginsCrash DEF OthersStay, OnOK
    <2>2. \A s, c : ~Crashed(t, s, c).isWritten
      BY DEF Crashed, NoCrash
    <2>3. \E s, c : crash' = [crash EXCEPT ![t] = Crashed(t, s, c)]
      BY <1>7 DEF HandleCrash, Crash
    <2>4. ~crash'[t].isWritten /\ OtherCrashesStay(t)
      BY <2>2, <2>3 DEF CrashOK, OtherCrashesStay, SameBut
    <2> QED BY <1>4, <2>1, <2>4
  <1>8. ASSUME NEW t \in Tasks, HandleFirstCrash(t) \/ PassOn(t) PROVE ExpectedWritten'
    <2>1. ~Visits(t) /\ OthersStay(t) /\ ~HandleCrashInLoggers(t)
      BY <1>8, PassesOn, InLoggersAt DEF Visits, VisitSteps, OthersStay
    <2>2. OtherCrashesStay(t) /\ crash'[t].expects = crash[t].expects /\ crash'[t].isWritten = crash[t].isWritten
      BY <1>8, <2>1, CrashKept
    <2>3. CASE pc' = pc
      <3>1. \E step : Moves(t, "crash", step)
        <4>1. pc[t] = <<"crash", "handler">> \/ pc[t] = <<"crash", "pass">>
          BY <1>8, AtIs DEF HandleFirstCrash, PassOn
        <4>4. Moves(t, "crash", "handler") \/ Moves(t, "crash", "pass")
          BY <2>3, <4>1, Pair DEF Moves
        <4> QED BY <4>4
      <3> QED BY <1>5, <2>1, <2>2, <3>1
    <2> QED BY <1>5, <1>8, <2>1, <2>2, <2>3, PassesOn
  <1>9. ASSUME NEW t \in Tasks, HandleCrashInLoggers(t) PROVE ExpectedWritten'
    <2>1. OthersStay(t) /\ OtherCrashesStay(t) /\ crash'[t].expects = crash[t].expects
      BY <1>9, CrashKept DEF HandleCrashInLoggers, Visit, Await, OthersStay, OnOK
    <2>2. CASE LockListOfLoggers(t)
      <3>1. ~Visits(t)
        <4>1. \E step : Steps(t, "lock list of loggers", step)
          BY <2>2 DEF LockListOfLoggers
        <4>2. pc[t][2] = "lock list of loggers"
          BY <4>1, StepIs DEF VisitStep
        <4> QED BY <4>2 DEF Visits, VisitSteps
      <3>2. CASE Steps(t, "lock list of loggers", "pass") /\ crash' = crash
        BY <1>5, <2>1, <3>1, <3>2, StepIs DEF VisitStep
      <3>3. CASE Steps(t, "lock list of loggers", "visit") /\ crash' = [crash EXCEPT ![t].todo = list, ![t].isWritten = TRUE]
        <4>1. Moves(t, "crash", "visit")
          BY <3>3, StepIs DEF VisitStep
        <4>2. ToVisit(t)' = ToSet(list)
          <5>1. crash[t] \in CrashRecord /\ DOMAIN crash = Tasks
            BY DEF CrashOK
          <5>2. crash'[t].todo = list
            BY <3>3, <5>1 DEF CrashRecord
          <5> QED BY <5>2 DEF ToVisit
        <4>3. \A l \in crash'[t].expects : IsVisiting(t, l)'
          BY <1>2, <2>1, <4>1, <4>2, OthersVisit DEF IsVisiting, VisitSteps
        <4> QED BY <1>4, <2>1, <4>1, <4>3
      <3> QED BY <2>2, <3>2, <3>3 DEF LockListOfLoggers
    <2>3. CASE Visit(t)
      <3>0. VisitStep(t, "visit", "pass") \/ VisitStep(t, "visit", "await") \/ VisitStep(t, "visit", "visit")
        BY <2>3, StepIs DEF Visit
      <3>1. Visits(t) /\ pc[t][2] = "visit"
        BY <3>0 DEF VisitStep, Visits, VisitSteps
      <3>2. \A l \in crash[t].expects \ Memory : crash[t].isWritten => HasLine(t, l) \/ l \in ToVisit(t)
        BY <3>1 DEF ExpectedWritten, IsVisiting
      <3>3. CASE crash[t].todo = <<>>
        <4>1. VisitStep(t, "visit", "pass") /\ crash' = crash
          BY <2>3, <3>3, StepIs DEF Visit
        <4>2. ToVisit(t) = {}
          BY <3>3 DEF ToVisit, ToSet
        <4> QED BY <1>1, <1>2, <1>4, <2>1, <3>2, <4>1, <4>2 DEF VisitStep
      <3>4. CASE crash[t].todo # <<>>
        <4> DEFINE s == crash[t].todo
        <4>1. crash[t] \in CrashRecord /\ DOMAIN crash = Tasks /\ DOMAIN on = Tasks
          BY DEF CrashOK, OnOK
        <4>2. on'[t] = Head(s) /\ crash'[t].todo = Tail(s) /\ crash'[t].isWritten = crash[t].isWritten
          BY <2>3, <3>4, <4>1 DEF Visit, CrashRecord
        <4>3. s \in Seq(Loggers) /\ IsInjective(s) /\ ToSet(s) \subseteq ToSet(list)
          BY <3>1, <4>1 DEF VisitOK, CrashRecord, ToVisit
        <4>4. Steps(t, "visit", IF m_IsInitialized[Head(s)] THEN "await" ELSE "visit")
          BY <2>3, <3>4 DEF Visit
        <4> HIDE DEF s
        <4>5. ToSet(s) = ToSet(Tail(s)) \cup {Head(s)} /\ Head(s) \in Loggers
          BY <3>4, <4>3, HeadAndTail DEF s
        <4>6. Head(s) \in crash[t].expects => m_IsInitialized[Head(s)]
          BY DEF ExpectedListed
        <4>7. \/ Moves(t, "crash", "await")
              \/ Moves(t, "crash", "visit") /\ ~m_IsInitialized[Head(s)]
          BY <4>4, StepIs DEF VisitStep
        <4>8. Visits(t)' /\ (Head(s) \in crash[t].expects => pc'[t][2] # "visit")
          <5>1. Moves(t, "crash", "await") => pc'[t][2] = "await"
            BY DEF Moves
          <5>2. "await" # "visit"
            OBVIOUS
          <5>3. Visits(t)'
            BY <4>7, OthersVisit DEF VisitSteps
          <5> QED BY <4>6, <4>7, <5>1, <5>2, <5>3
        <4>9. \A l \in ToVisit(t) : l \in crash[t].expects => IsVisiting(t, l)'
          BY <4>2, <4>5, <4>8 DEF IsVisiting, ToVisit, s
        <4>10. crash'[t].isWritten => \A l \in crash'[t].expects \ Memory : HasLine(t, l)' \/ IsVisiting(t, l)'
          BY <1>1, <1>2, <2>1, <3>2, <4>2, <4>9
        <4> QED BY <1>4, <2>1, <4>7, <4>10
      <3> QED BY <3>3, <3>4
    <2>4. CASE (Await(t) \/ LockOutput(t)) /\ UNCHANGED <<crash, on>>
      <3>1. VisitStep(t, "await", "lock") \/ VisitStep(t, "lock", "write locked") \/ VisitStep(t, "lock", "write")
        BY <2>4, StepIs DEF Await, LockOutput
      <3>2. Moves(t, "crash", "lock") \/ Moves(t, "crash", "write locked") \/ Moves(t, "crash", "write")
        BY <3>1 DEF VisitStep
      <3>3. Visits(t)' /\ pc'[t][2] # "visit"
        <4>1. pc'[t] \in {<<"crash", "lock">>, <<"crash", "write locked">>, <<"crash", "write">>}
          BY <3>2 DEF Moves
        <4>2. pc'[t][2] # "visit"
          <5>1. pc'[t] = <<"crash", "lock">> => pc'[t][2] = "lock"
            BY Pair
          <5>2. pc'[t] = <<"crash", "write locked">> => pc'[t][2] = "write locked"
            BY Pair
          <5>3. pc'[t] = <<"crash", "write">> => pc'[t][2] = "write"
            BY Pair
          <5>4. "lock" # "visit" /\ "write locked" # "visit" /\ "write" # "visit"
            OBVIOUS
          <5> QED BY <4>1, <5>1, <5>2, <5>3, <5>4
        <4>3. Visits(t)'
          BY <3>2, OthersVisit DEF VisitSteps
        <4> QED BY <4>2, <4>3
      <3>4. \A l : IsVisiting(t, l) => IsVisiting(t, l)'
        BY <2>4, <3>3 DEF IsVisiting, ToVisit
      <3>5. crash'[t].isWritten => \A l \in crash'[t].expects \ Memory : HasLine(t, l)' \/ IsVisiting(t, l)'
        BY <1>1, <1>2, <2>4, <3>4 DEF ExpectedWritten
      <3> QED BY <1>4, <2>1, <3>2, <3>5
    <2>5. CASE WriteCrash(t) /\ UNCHANGED <<crash, on>>
      <3>1. VisitStep(t, "write locked", "visit") \/ VisitStep(t, "write", "visit")
        BY <2>5, StepIs DEF WriteCrash
      <3>2. Moves(t, "crash", "visit") /\ Visits(t) /\ pc[t][2] # "visit"
        BY <3>1 DEF VisitStep, Visits, VisitSteps
      <3>3. on[t] \in Loggers
        BY <3>2 DEF VisitOK, ListOK, ToSet
      <3>4. on[t] \in crash[t].expects \ Memory => HasLine(t, on[t])'
        <4>0. SUFFICES ASSUME on[t] \in crash[t].expects \ Memory PROVE HasLine(t, on[t])'
          OBVIOUS
        <4>1. PICK l \in Loggers : on[t] = l
          BY <3>3
        <4>2. GetsCrashLine(t, l)
          BY <2>5, <4>0, <4>1, CrashWritten DEF MissesCrashLine, ExpectedListed
        <4>3. HasLine(t, l)'
          BY <4>1, <4>2, LinesAfter
        <4> QED BY <2>5, <4>1, <4>3
      <3>5. \A l \in ToVisit(t) : IsVisiting(t, l)'
        BY <2>5, <3>2, OthersVisit DEF IsVisiting, ToVisit, VisitSteps
      <3>6. crash'[t].isWritten => \A l \in crash'[t].expects \ Memory : HasLine(t, l)' \/ IsVisiting(t, l)'
        BY <1>1, <1>2, <2>5, <3>4, <3>5 DEF ExpectedWritten, IsVisiting
      <3> QED BY <1>4, <2>1, <3>2, <3>6
    <2> QED BY <1>9, <2>2, <2>3, <2>4, <2>5 DEF HandleCrashInLoggers, Await
  <1> QED BY <1>3, <1>6, <1>7, <1>8, <1>9, StepKinds

\* The process has ended by the crash of a thread that had left the list of loggers
EndedOK == ended # NoOne => ended \in Tasks /\ HasCrashed(ended) /\ ~Visits(ended)

LEMMA EndsBy ==
  ASSUME Next
  PROVE  /\ ended = NoOne
         /\ ended' = NoOne \/ \E t \in Tasks : PassOn(t) /\ ended' = t /\ UNCHANGED <<pc, crash>> /\ At(t, "crash", "handler")
  <1>1. ASSUME NEW t \in Threads, Call(t) PROVE ended = NoOne /\ ended' = NoOne
    BY <1>1 DEF Call, StartWrite, Queue, StartKeep, StartRead, Initialize, Open, StartClose, StartsToClose, EndWrite, EndKeep,
                EndRead, LockList, Register, Unregister, UnregisterBase, LockToClose, Close, Destroyed, Begin, At, Return,
                Continue, crashVars
  <1>2. ASSUME NEW w \in Workers, Work(w) PROVE ended = NoOne /\ ended' = NoOne
    BY <1>2 DEF Work, WorkerTake, WorkerWrite, WorkerMark, At, Return, Continue, crashVars
  <1>3. ASSUME NEW t \in Tasks, HandleCrash(t) \/ HandleFirstCrash(t) \/ HandleCrashInLoggers(t) \/ Timeout(t)
                                \/ \E s \in Sources : Crash(t, s)
        PROVE  ended = NoOne /\ ended' = NoOne
    <2>1. ended = NoOne
      BY <1>3, InLoggersAt DEF HandleCrash, HandleFirstCrash, Crash, IsCrashPossible, Timeout, At, HandleCrashInLoggers,
                  LockListOfLoggers, Visit, Await, LockOutput, WriteCrash, Steps
    <2>2. ended' = ended
      BY <1>3 DEF HandleCrash, HandleFirstCrash, Crash, Timeout, HandleCrashInLoggers, UnchangedInVisit
    <2> QED BY <2>1, <2>2
  <1>4. ASSUME NEW t \in Tasks, PassOn(t)
        PROVE  /\ ended = NoOne
               /\ ended' = NoOne \/ (ended' = t /\ UNCHANGED <<pc, crash>> /\ At(t, "crash", "handler"))
    <2>1. ended = NoOne
      BY <1>4 DEF PassOn, At
    <2>2. CASE At(t, "crash", "handler") /\ DefaultHandler(t)
      BY <2>1, <2>2 DEF DefaultHandler, CallHandler
    <2>3. CASE ~(At(t, "crash", "handler") /\ DefaultHandler(t))
      <3>1. ended' = ended
        BY <1>4, <2>3 DEF PassOn, AfterHandleCrash, OnTerminate, OnUnhandledException, OnAbortSignal, OnFatalSignal,
                          OtherHandler, CallHandler
      <3> QED BY <2>1, <3>1
    <2> QED BY <2>2, <2>3
  <1>5. Setup => ended = NoOne /\ ended' = NoOne
    BY DEF Setup, UnchangedInSetup, BeginSetup, Install, StoreReplaced, Uninstall, PutBack, EndSetup, Replace, BetweenSources,
           InHand, InSetup, crashVars
  <1> QED BY <1>1, <1>2, <1>3, <1>4, <1>5, TasksAre DEF Next, Handle

LEMMA EndedStep ==
  ASSUME EndedOK, [Next]_vars
  PROVE  EndedOK'
  <1>1. CASE Next
    <2>1. CASE ended' = NoOne
      BY <2>1 DEF EndedOK
    <2>2. ASSUME NEW t \in Tasks, PassOn(t), ended' = t, UNCHANGED <<pc, crash>>, At(t, "crash", "handler") PROVE EndedOK'
      <3>1. pc'[t][1] = "crash" /\ pc'[t][2] = "handler" /\ "handler" \notin VisitSteps
        BY <2>2, AtIs DEF VisitSteps
      <3> QED BY <2>2, <3>1 DEF EndedOK, HasCrashed, Visits
    <2> QED BY <1>1, <2>1, <2>2, EndsBy
  <1>2. CASE UNCHANGED vars
    <2>1. ended' = ended /\ pc' = pc
      BY <1>2 DEF vars, crashVars
    <2> QED BY <2>1 DEF EndedOK, HasCrashed, Visits
  <1> QED BY <1>1, <1>2

\* The inductive invariant of the crash lines
CrashInv ==
    ControlInv /\ PlainBuffers /\ LinesOK /\ ExpectedListed /\ ExpectedWritten /\ EndedOK

LEMMA InitCrash == Init => CrashInv
  <1> SUFFICES ASSUME Init PROVE CrashInv
    OBVIOUS
  <1>1. ControlInv /\ PlainBuffers
    BY InitControl DEF Init, PlainBuffers, Plain
  <1>2. \A l \in Loggers : CrashLines(l) = {}
    BY DEF Init, CrashLines
  <1>3. \A t \in Tasks : ~HasCrashed(t) /\ ~IsInHandler(t)
    BY DEF Init, HasCrashed, IsInHandler
  <1>4. LinesOK
    BY <1>2, <1>3 DEF LinesOK, OneEach, Told, Handled, WrittenOnce, OneHandled, HasLine, HasHandlersLine, IsHandlersCrash
  <1>5. \A t \in Tasks : crash[t].expects = {} /\ ~crash[t].isWritten
    BY DEF Init, NoCrash
  <1>6. ExpectedListed /\ ExpectedWritten
    BY <1>5 DEF ExpectedListed, ExpectedWritten
  <1>7. EndedOK
    BY DEF Init, EndedOK
  <1> QED BY <1>1, <1>4, <1>6, <1>7 DEF CrashInv

LEMMA CrashInvStep == CrashInv /\ [Next]_vars => CrashInv'
  <1> SUFFICES ASSUME CrashInv, [Next]_vars PROVE CrashInv'
    OBVIOUS
  <1>1. ControlInv'
    BY ControlStep DEF CrashInv
  <1>2. PlainBuffers'
    BY OutputGrows DEF CrashInv, ControlInv, TypeOK
  <1>3. LinesOK'
    BY <1>1, LinesStep DEF CrashInv
  <1>4. ExpectedListed' /\ EndedOK'
    BY ExpectedListedStep, EndedStep DEF CrashInv
  <1>5. ExpectedWritten'
    BY <1>1, ExpectedWrittenStep DEF CrashInv
  <1> QED BY <1>1, <1>2, <1>3, <1>4, <1>5 DEF CrashInv

(***************************************************************************)
(* Whichever threads crash, in whatever step and with whatever locks of    *)
(* loggers, of backtraces and of the list, the handlers write one line to  *)
(* a logger at most, and once the thread whose crash they wrote ends the   *)
(* process, every logger that was initialized and on the list all along,   *)
(* except one that keeps its lines in memory, has that line                *)
(* (HandleCrashInLoggers()).                                               *)
(***************************************************************************)
THEOREM EachLoggerGetsTheCrash == Spec => []LoggersGetTheCrash
  <1>1. ASSUME CrashInv PROVE LoggersGetTheCrash
    <2>1. OneLineByHandlers
      BY <1>1, OneLine DEF CrashInv
    <2>2. ASSUME ended # NoOne, crash[ended].isWritten, NEW l \in crash[ended].expects \ Memory
          PROVE  \E i \in CrashLines(l) : file[l][i].by = ended
      <3>1. ended \in Tasks /\ ~Visits(ended)
        BY <1>1, <2>2 DEF CrashInv, EndedOK
      <3>2. HasLine(ended, l)
        BY <1>1, <2>2, <3>1 DEF CrashInv, ExpectedWritten, IsVisiting
      <3> QED BY <3>2 DEF HasLine
    <2> QED BY <2>1, <2>2 DEF LoggersGetTheCrash
  <1> QED BY <1>1, InitCrash, CrashInvStep, PTL DEF Spec
=============================================================================
