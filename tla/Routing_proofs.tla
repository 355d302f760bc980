--------------------------- MODULE Routing_proofs ---------------------------
(***************************************************************************)
(* Theorems of Routing about the list of a multi-log, about ShouldLog() and*)
(* about the rules of category levels, for any loggers, categories that    *)
(* wrap each other, threads, specs of rules and instances.                 *)
(***************************************************************************)
EXTENDS Routing, FiniteSetTheorems, WellFoundedInduction, TLAPS

----------------------------------------------------------------------------
(* Lists *)

LEMMA InSet == \A s : \A i \in DOMAIN s : s[i] \in ToSet(s)
  BY DEF ToSet

LEMMA ListSet ==
  ASSUME NEW S, NEW s \in Seq(S)
  PROVE  ToSet(s) \subseteq S /\ (\A i \in DOMAIN s : s[i] \in S) /\ (ToSet(s) = {} <=> s = <<>>)
  <1>1. DOMAIN s = 1..Len(s) /\ Len(s) \in Nat /\ \A i \in 1..Len(s) : s[i] \in S
    OBVIOUS
  <1>2. s # <<>> => 1 \in 1..Len(s)
    OBVIOUS
  <1> QED BY <1>1, <1>2 DEF ToSet

LEMMA AppendList ==
  ASSUME NEW S, NEW s \in Seq(S), NEW e \in S
  PROVE  /\ Append(s, e) \in Seq(S) /\ ToSet(Append(s, e)) = ToSet(s) \cup {e}
         /\ IsInjective(s) /\ e \notin ToSet(s) => IsInjective(Append(s, e))
  <1>0. /\ Len(s) \in Nat /\ Append(s, e) \in Seq(S) /\ Len(Append(s, e)) = Len(s) + 1
        /\ Append(s, e)[Len(s) + 1] = e /\ \A i \in 1..Len(s) : Append(s, e)[i] = s[i]
    OBVIOUS
  <1>a. PICK n \in Nat : n = Len(s)
    BY <1>0
  <1>1. PICK r \in Seq(S) : r = Append(s, e)
    BY <1>0
  <1>2. DOMAIN s = 1..n /\ DOMAIN r = 1..n + 1 /\ r[n + 1] = e /\ \A i \in 1..n : r[i] = s[i]
    BY <1>0, <1>a, <1>1
  <1>3. \A i \in 1..n + 1 : i \in 1..n \/ i = n + 1
    BY <1>a
  <1>4. (\A i \in 1..n : i \in 1..n + 1) /\ n + 1 \in 1..n + 1
    BY <1>a
  <1>5. ToSet(r) = ToSet(s) \cup {e}
    BY <1>2, <1>3, <1>4 DEF ToSet
  <1>6. IsInjective(s) /\ e \notin ToSet(s) => IsInjective(r)
    BY <1>2, <1>3 DEF IsInjective, ToSet
  <1> QED BY <1>1, <1>5, <1>6

LEMMA TailList ==
  ASSUME NEW S, NEW s \in Seq(S), s # <<>>
  PROVE  /\ Head(s) \in S /\ Tail(s) \in Seq(S) /\ ToSet(s) = ToSet(Tail(s)) \cup {Head(s)}
         /\ IsInjective(s) => IsInjective(Tail(s)) /\ Head(s) \notin ToSet(Tail(s))
  <1>1. /\ Len(s) \in Nat \ {0} /\ Tail(s) \in Seq(S) /\ Len(Tail(s)) = Len(s) - 1
        /\ Head(s) = s[1] /\ \A i \in 1..Len(s) - 1 : Tail(s)[i] = s[i + 1]
    OBVIOUS
  <1>2. PICK n \in Nat \ {0} : n = Len(s)
    BY <1>1
  <1>3. PICK r \in Seq(S) : r = Tail(s)
    BY <1>1
  <1>4. DOMAIN s = 1..n /\ DOMAIN r = 1..n - 1 /\ Head(s) = s[1] /\ \A i \in 1..n - 1 : r[i] = s[i + 1]
    BY <1>1, <1>2, <1>3
  <1>5. \A i \in 1..n : i = 1 \/ \E j \in 1..n - 1 : i = j + 1
    <2> TAKE i \in 1..n
    <2>1. i # 1 => i - 1 \in 1..n - 1 /\ i = (i - 1) + 1
      BY <1>2
    <2> QED BY <2>1
  <1>6. (\A i \in 1..n - 1 : i + 1 \in 1..n /\ i + 1 # 1) /\ 1 \in 1..n
    BY <1>2
  <1>7. ToSet(s) = ToSet(r) \cup {s[1]}
    <2>1. ASSUME NEW i \in DOMAIN s PROVE s[i] \in ToSet(r) \cup {s[1]}
      <3>1. i = 1 \/ \E j \in DOMAIN r : s[i] = r[j]
        BY <1>4, <1>5
      <3> QED BY <3>1 DEF ToSet
    <2>2. ASSUME NEW i \in DOMAIN r PROVE r[i] \in ToSet(s)
      <3>1. i + 1 \in DOMAIN s /\ r[i] = s[i + 1]
        BY <1>4, <1>6
      <3> QED BY <3>1 DEF ToSet
    <2>3. s[1] \in ToSet(s)
      BY <1>4, <1>6 DEF ToSet
    <2>4. ToSet(s) = {s[i] : i \in DOMAIN s} /\ ToSet(r) = {r[i] : i \in DOMAIN r}
      BY DEF ToSet
    <2> QED BY <2>1, <2>2, <2>3, <2>4
  <1>8. ASSUME IsInjective(s) PROVE IsInjective(r) /\ s[1] \notin ToSet(r)
    <2>1. ASSUME NEW i \in 1..n - 1, NEW j \in 1..n - 1, r[i] = r[j] PROVE i = j
      <3>1. s[i + 1] = s[j + 1] /\ i + 1 \in DOMAIN s /\ j + 1 \in DOMAIN s
        BY <1>4, <1>6, <2>1
      <3>2. i + 1 = j + 1
        BY <1>8, <3>1 DEF IsInjective
      <3> QED BY <3>2
    <2>2. \A i \in 1..n - 1 : r[i] # s[1]
      BY <1>4, <1>6, <1>8 DEF IsInjective
    <2> QED BY <1>4, <2>1, <2>2 DEF IsInjective, ToSet
  <1>9. Head(s) \in S
    BY <1>1, <1>4, <1>6
  <1> QED BY <1>3, <1>4, <1>7, <1>8, <1>9

LEMMA LeastOf ==
  ASSUME NEW I \in SUBSET Nat, I # {}
  PROVE  \E k \in I : \A j \in I : k <= j
  <1>1. PICK less : /\ IsWellFoundedOn(less, Nat)
                    /\ less = {pair \in Nat \X Nat : pair[1] < pair[2]}
    BY NatLessThanWellFounded DEF OpToRel
  <1>2. PICK k \in I : \A j \in I : <<j, k>> \notin less
    BY <1>1, WFMin
  <1>3. \A a, b \in Nat : a < b => <<a, b>> \in less
    BY <1>1
  <1>4. ASSUME NEW j \in I PROVE k <= j
    <2>1. ~(j < k) /\ j \in Nat /\ k \in Nat
      BY <1>2, <1>3
    <2> QED BY <2>1
  <1> QED BY <1>4

LEMMA ShorterList ==
  ASSUME NEW S, NEW s \in Seq(S), NEW e, IsInjective(s)
  PROVE  RemoveFirst(s, e) \in Seq(S) /\ IsInjective(RemoveFirst(s, e))
  <1>1. CASE RemoveFirst(s, e) = s
    BY <1>1
  <1>2. ASSUME NEW k \in 1..Len(s) PROVE RemoveAt(s, k) \in Seq(S) /\ IsInjective(RemoveAt(s, k))
    <2>0. Len(s) \in Nat \ {0}
      OBVIOUS
    <2>1. PICK n \in Nat \ {0} : n = Len(s) /\ k \in 1..n
      BY <2>0
    <2>2. PICK a : a = SubSeq(s, 1, k - 1)
      OBVIOUS
    <2>3. PICK b : b = SubSeq(s, k + 1, n)
      OBVIOUS
    <2>4. a \in Seq(S) /\ Len(a) = k - 1 /\ \A i \in 1..k - 1 : a[i] = s[i]
      BY <2>1, <2>2
    <2>5. b \in Seq(S) /\ Len(b) = n - k /\ \A i \in 1..n - k : b[i] = s[i + k]
      BY <2>1, <2>3
    <2>6. PICK r : r = a \o b
      OBVIOUS
    <2>7. r \in Seq(S) /\ Len(r) = n - 1
      BY <2>1, <2>4, <2>5, <2>6
    <2>8. \A i \in 1..n - 1 : r[i] = IF i < k THEN s[i] ELSE s[i + 1]
      <3> TAKE i \in 1..n - 1
      <3>1. CASE i < k
        BY <2>1, <2>4, <2>5, <2>6, <3>1
      <3>2. CASE i >= k
        <4>1. r[i] = b[i - (k - 1)] /\ i - (k - 1) \in 1..n - k
          BY <2>1, <2>4, <2>5, <2>6, <3>2
        <4>2. (i - (k - 1)) + k = i + 1
          BY <2>1
        <4> QED BY <2>1, <2>5, <3>2, <4>1, <4>2
      <3> QED BY <2>1, <3>1, <3>2
    <2>9. DOMAIN r = 1..n - 1 /\ DOMAIN s = 1..n
      BY <2>1, <2>7
    <2>10. ASSUME NEW i \in 1..n - 1, NEW j \in 1..n - 1, r[i] = r[j] PROVE i = j
      <3>1. PICK x : x = IF i < k THEN i ELSE i + 1
        OBVIOUS
      <3>2. PICK y : y = IF j < k THEN j ELSE j + 1
        OBVIOUS
      <3>3. x \in 1..n /\ y \in 1..n /\ (x = y => i = j)
        BY <2>1, <3>1, <3>2
      <3>4. r[i] = s[x] /\ r[j] = s[y]
        BY <2>8, <3>1, <3>2
      <3> QED BY <2>9, <2>10, <3>3, <3>4 DEF IsInjective
    <2> QED BY <2>1, <2>2, <2>3, <2>6, <2>7, <2>9, <2>10 DEF IsInjective, RemoveAt
  <1>3. ASSUME NEW i \in 1..Len(s), s[i] = e PROVE \E k \in 1..Len(s) : RemoveFirst(s, e) = RemoveAt(s, k)
    <2>1. PICK I : I = {j \in 1..Len(s) : s[j] = e}
      OBVIOUS
    <2>2. I \subseteq Nat /\ I # {}
      BY <1>3, <2>1
    <2>4. PICK k \in I : \A j \in I : k <= j
      BY <2>2, LeastOf
    <2>5. Min(I) \in I
      BY <2>4 DEF Min
    <2> QED BY <1>3, <2>1, <2>5 DEF RemoveFirst, SelectInSeq
  <1> QED BY <1>1, <1>2, <1>3 DEF RemoveFirst

----------------------------------------------------------------------------
(* The inductive invariant *)

Config == [hook : BOOLEAN, level : Nat]
SinkCall == [sink : Sinks, took : BOOLEAN, hooks : Nat]
Seen == [all : SUBSET Sinks, once : SUBSET Sinks, closed : SUBSET Sinks, called : Seq(SinkCall),
         asked : BOOLEAN, quiet : BOOLEAN]

StateOK ==
    /\ instance \in Instances /\ m_Sinks \in Seq(Sinks) /\ IsInjective(m_Sinks)
    /\ m_IsInitialized \in [Sinks \cup {Multi} -> BOOLEAN] /\ isOpen \in [Sinks -> BOOLEAN]
    /\ hasHook \in [Sinks \cup {Multi} -> BOOLEAN]
    /\ DOMAIN pc = Threads /\ DOMAIN at = Threads /\ DOMAIN record = Threads /\ DOMAIN todo = Threads
    /\ ok \in [Threads -> BOOLEAN] /\ seen \in [Threads -> Seen]

\* A sink that is open is initialized, and its hook is its own
SinkInv == \A l \in Sinks : (isOpen[l] => m_IsInitialized[l]) /\ (hasHook[l] => l \in instance.ownHooks)

CalledSinks(s) == {s.called[i].sink : i \in DOMAIN s.called}
CalledOnce(s) == \A i, j \in DOMAIN s.called : s.called[i].sink = s.called[j].sink => i = j

\* HookRunsOnce, of one thread
HookInv(t) ==
    \A i \in DOMAIN seen[t].called :
        seen[t].called[i].hooks > 0 =>
            (at[t] = Multi /\ seen[t].called[i].hooks <= 1) \/ seen[t].called[i].sink \in instance.ownHooks

Entry == {"level", "forced", "category", "categoryLevel", "hooks"}

\* The hooks an entry has met; until it is passed on, no sink has been called
EntryInv(t) ==
    pc[t] \in {"write", "hook", "record", "fan out"} =>
        /\ DOMAIN record[t] = Entry /\ record[t].hooks \in {0, 1}
        /\ pc[t] \in {"write", "hook"} => record[t].hooks = 0
        /\ pc[t] # "write" => at[t] = Multi
        /\ pc[t] # "fan out" => seen[t].called = <<>>

\* Until the list is copied, it has those listed during the whole call, and they
\* have been listed at some time of it
ListInv(t) ==
    pc[t] \in {"write", "hook", "record", "snapshot"} =>
        seen[t].all \subseteq ToSet(m_Sinks) /\ ToSet(m_Sinks) \subseteq seen[t].once

\* The sinks called and those still to call are the copy
FanOutInv(t) ==
    pc[t] = "fan out" =>
        /\ todo[t] \in Seq(Sinks) /\ IsInjective(todo[t]) /\ CalledOnce(seen[t])
        /\ CalledSinks(seen[t]) \cap ToSet(todo[t]) = {}
        /\ seen[t].all \subseteq CalledSinks(seen[t]) \cup ToSet(todo[t])
        /\ CalledSinks(seen[t]) \cup ToSet(todo[t]) \subseteq seen[t].once

\* What Initialize() has still to call, or has left ready
PassInv(t) ==
    /\ pc[t] \in {"snapshot", "pass"} => record[t].config \in Config
    /\ pc[t] = "pass" =>
          /\ todo[t] \in Seq(Sinks)
          /\ record[t].op = "Initialize" /\ ok[t] =>
                \A l \in seen[t].all \ seen[t].closed : l \in ToSet(todo[t]) \/ IsReady(l)

ThreadInv(t) == HookInv(t) /\ EntryInv(t) /\ ListInv(t) /\ FanOutInv(t) /\ PassInv(t)
RoutingInv == StateOK /\ SinkInv /\ \A t \in Threads : ThreadInv(t)

\* What a step of another thread may change of a call, and of what it relies on
Undisturbed(u) ==
    /\ pc'[u] = pc[u] /\ at'[u] = at[u] /\ record'[u] = record[u] /\ todo'[u] = todo[u] /\ ok'[u] = ok[u]
    /\ seen'[u].called = seen[u].called /\ seen[u].closed \subseteq seen'[u].closed
    /\ seen'[u].all \subseteq seen[u].all /\ seen[u].once \subseteq seen'[u].once
    /\ \/ m_Sinks' = m_Sinks
       \/ seen'[u].all \subseteq ToSet(m_Sinks') /\ ToSet(m_Sinks') \subseteq seen'[u].once
    /\ \A l \in Sinks : IsReady(l) => IsReady(l)' \/ l \in seen'[u].closed

\* A call leaves its loop only when no logger is left to call
EndsAtTheEnd(t) == pc[t] \in {"fan out", "pass"} /\ pc'[t] = "idle" => todo[t] = <<>>

StepOK(t) ==
    /\ StateOK' /\ SinkInv' /\ ThreadInv(t)' /\ EndsAtTheEnd(t)
    /\ \A u \in Threads \ {t} : Undisturbed(u)

LEMMA OthersKeep ==
  ASSUME StateOK, StateOK', instance' = instance, NEW u \in Threads, ThreadInv(u), Undisturbed(u)
  PROVE  ThreadInv(u)'
  <1> DEFINE s == seen[u]
             n == seen'[u]
  <1>1. s \in Seen /\ n \in Seen
    BY DEF StateOK
  <1>2. n.called = s.called /\ CalledSinks(n) = CalledSinks(s) /\ (CalledOnce(s) => CalledOnce(n))
    BY DEF Undisturbed, CalledSinks, CalledOnce
  <1>3. HookInv(u)' /\ EntryInv(u)'
    BY <1>2 DEF ThreadInv, HookInv, EntryInv, Undisturbed
  <1>4. ListInv(u)'
    BY DEF ThreadInv, ListInv, Undisturbed
  <1>5. FanOutInv(u)'
    BY <1>2 DEF ThreadInv, FanOutInv, Undisturbed
  <1>6. PassInv(u)'
    BY DEF ThreadInv, PassInv, Undisturbed, StateOK, Seen
  <1> QED BY <1>3, <1>4, <1>5, <1>6 DEF ThreadInv

LEMMA StepKeeps ==
  ASSUME RoutingInv, instance' = instance, NEW t \in Threads, StepOK(t)
  PROVE  RoutingInv'
  BY OthersKeep DEF RoutingInv, StepOK

LEMMA InitOK == Init => RoutingInv
  <1> SUFFICES ASSUME Init PROVE RoutingInv
    OBVIOUS
  <1>1. NothingSeen \in Seen
    BY DEF NothingSeen, Seen
  <1>2. StateOK
    BY <1>1, InstanceAssumption DEF Init, StateOK
  <1>3. SinkInv
    BY StructureAssumption DEF Init, SinkInv
  <1>4. ASSUME NEW t \in Threads PROVE ThreadInv(t)
    BY <1>4 DEF Init, ThreadInv, HookInv, EntryInv, ListInv, FanOutInv, PassInv, NothingSeen
  <1> QED BY <1>2, <1>3, <1>4 DEF RoutingInv

----------------------------------------------------------------------------
(* What the steps leave of the histories *)

LEMMA DisturbedSeen ==
  ASSUME StateOK, NEW t \in Threads, NEW sinks \in Seq(Sinks)
  PROVE  /\ Disturbed(t, sinks) \in [Threads -> Seen]
         /\ \A u \in Threads \ {t} :
                LET n == Disturbed(t, sinks)[u]
                IN  /\ n.called = seen[u].called /\ n.closed = seen[u].closed
                    /\ n.all = seen[u].all \cap ToSet(sinks) /\ n.once = seen[u].once \cup ToSet(sinks)
  <1>1. ToSet(sinks) \subseteq Sinks
    BY ListSet
  <1>2. ASSUME NEW s \in Seen
        PROVE  LET n == [s EXCEPT !.quiet = FALSE, !.all = @ \cap ToSet(sinks), !.once = @ \cup ToSet(sinks)]
               IN  /\ n \in Seen /\ n.called = s.called /\ n.closed = s.closed
                   /\ n.all = s.all \cap ToSet(sinks) /\ n.once = s.once \cup ToSet(sinks)
    BY <1>1 DEF Seen
  <1> QED BY <1>2 DEF StateOK, Disturbed

LEMMA ClosedSeen ==
  ASSUME StateOK, NEW l \in Sinks
  PROVE  /\ Closed(l) \in [Threads -> Seen]
         /\ \A u \in Threads :
                LET n == Closed(l)[u]
                IN  /\ n.called = seen[u].called /\ n.closed = seen[u].closed \cup {l}
                    /\ n.all = seen[u].all /\ n.once = seen[u].once
  <1>1. ASSUME NEW s \in Seen
        PROVE  LET n == [s EXCEPT !.closed = @ \cup {l}]
               IN  /\ n \in Seen /\ n.called = s.called /\ n.closed = s.closed \cup {l}
                   /\ n.all = s.all /\ n.once = s.once
    BY DEF Seen
  <1> QED BY <1>1 DEF StateOK, Closed

LEMMA BegunSeen ==
  ASSUME StateOK, NEW asked \in BOOLEAN
  PROVE  /\ NothingSeen \in Seen /\ NothingSeen.called = <<>>
         /\ Begun(asked) \in Seen /\ Begun(asked).called = <<>>
         /\ Begun(asked).all = ToSet(m_Sinks) /\ Begun(asked).once = ToSet(m_Sinks)
  <1>1. ToSet(m_Sinks) \subseteq Sinks
    BY ListSet DEF StateOK
  <1>2. NothingSeen \in Seen /\ NothingSeen.called = <<>>
    BY DEF Seen, NothingSeen
  <1>3. PICK listed \in SUBSET Sinks : listed = ToSet(m_Sinks)
    BY <1>1
  <1>4. Begun(asked) = [all |-> listed, once |-> listed, closed |-> {}, called |-> <<>>, asked |-> asked, quiet |-> TRUE]
    <2>1. Begun(asked) = [NothingSeen EXCEPT !.all = listed, !.once = listed, !.asked = asked]
      BY <1>3 DEF Begun
    <2> QED BY <2>1 DEF NothingSeen
  <1>5. <<>> \in Seq(SinkCall)
    OBVIOUS
  <1> QED BY <1>2, <1>3, <1>4, <1>5 DEF Seen

\* A thread that is not in a call relies on nothing
LEMMA IdleInv ==
  ASSUME NEW t \in Threads, pc'[t] \in {"idle", "apply"}, seen'[t].called = <<>>
  PROVE  ThreadInv(t)'
  <1>1. DOMAIN seen'[t].called = {}
    OBVIOUS
  <1>2. HookInv(t)'
    BY <1>1 DEF HookInv
  <1>3. EntryInv(t)' /\ ListInv(t)' /\ FanOutInv(t)' /\ PassInv(t)'
    BY DEF EntryInv, ListInv, FanOutInv, PassInv
  <1> QED BY <1>2, <1>3 DEF ThreadInv

\* A call of one step, after which the list is `sinks`
LEMMA OneStepCall ==
  ASSUME RoutingInv, NEW t \in Threads, NEW sinks \in Seq(Sinks), IsInjective(sinks),
         pc[t] = "idle", m_Sinks' = sinks, seen' = [Disturbed(t, sinks) EXCEPT ![t] = NothingSeen],
         UNCHANGED <<instance, m_IsInitialized, isOpen, hasHook, pc, at, record, todo, ok>>
  PROVE  StepOK(t)
  <1>1. StateOK /\ SinkInv
    BY DEF RoutingInv
  <1>2. StateOK'
    BY <1>1, DisturbedSeen, BegunSeen DEF StateOK
  <1>3. SinkInv'
    BY <1>1 DEF SinkInv
  <1>4. ThreadInv(t)'
    BY <1>1, DisturbedSeen, BegunSeen, IdleInv
  <1>5. ASSUME NEW u \in Threads \ {t} PROVE Undisturbed(u)
    <2>1. seen'[u] = Disturbed(t, sinks)[u]
      BY <1>1, DisturbedSeen
    <2> QED BY <1>1, <2>1, DisturbedSeen DEF Undisturbed, IsReady
  <1> QED BY <1>2, <1>3, <1>4, <1>5 DEF StepOK, EndsAtTheEnd

\* A step of a thread that changes its own control, entry and history at most
LEMMA OwnStep ==
  ASSUME RoutingInv, NEW t \in Threads, NEW s \in Seen,
         UNCHANGED <<instance, m_Sinks, m_IsInitialized, isOpen, hasHook>>,
         DOMAIN pc' = Threads, DOMAIN at' = Threads, DOMAIN record' = Threads, DOMAIN todo' = Threads,
         ok' \in [Threads -> BOOLEAN], seen' = [seen EXCEPT ![t] = s],
         \A u \in Threads \ {t} :
            pc'[u] = pc[u] /\ at'[u] = at[u] /\ record'[u] = record[u] /\ todo'[u] = todo[u] /\ ok'[u] = ok[u],
         EndsAtTheEnd(t), ThreadInv(t)'
  PROVE  StepOK(t)
  <1>1. StateOK /\ SinkInv
    BY DEF RoutingInv
  <1>2. StateOK' /\ SinkInv'
    BY <1>1 DEF StateOK, SinkInv
  <1>3. ASSUME NEW u \in Threads \ {t} PROVE Undisturbed(u)
    BY <1>1 DEF StateOK, Undisturbed, IsReady
  <1> QED BY <1>2, <1>3 DEF StepOK

LEMMA Asked ==
  (\A l, r : PassesLevelGate(l, r) \in BOOLEAN) /\ (\A l, r : ShouldLog(l, r) \in BOOLEAN)
  BY DEF PassesLevelGate, ShouldLog, ShouldLogHere

----------------------------------------------------------------------------
(* Levels and the list *)

LEMMA LevelCallsOK ==
  ASSUME RoutingInv, NEW t \in Threads, LevelStep(t)
  PROVE  StepOK(t)
  <1>1. StateOK /\ m_Sinks \in Seq(Sinks) /\ IsInjective(m_Sinks)
    BY DEF RoutingInv, StateOK
  <1>2. ASSUME Call(t, "SetMinimumLevel", Disturbed(t, m_Sinks)) \/ Call(t, "ResetMinimumLevel", Disturbed(t, m_Sinks))
               \/ Call(t, "SetEnabled", Disturbed(t, m_Sinks)) \/ Call(t, "Make", Disturbed(t, m_Sinks)),
               UNCHANGED <<multiVars, pc, todo, ok>>
        PROVE  StepOK(t)
    <2>1. /\ pc[t] = "idle" /\ seen' = [Disturbed(t, m_Sinks) EXCEPT ![t] = NothingSeen]
          /\ UNCHANGED <<instance, at, record>>
      BY <1>2 DEF Call, MayCall
    <2>2. UNCHANGED <<m_Sinks, m_IsInitialized, isOpen, hasHook, pc, todo, ok>>
      BY <1>2 DEF multiVars
    <2> QED BY <1>1, <2>1, <2>2, OneStepCall
  <1>3. ASSUME NEW l, NEW level, SetMinimumLevel(t, l, level) PROVE StepOK(t)
    BY <1>2, <1>3 DEF SetMinimumLevel
  <1>4. ASSUME NEW c, ResetMinimumLevel(t, c) PROVE StepOK(t)
    BY <1>2, <1>4 DEF ResetMinimumLevel
  <1>5. ASSUME NEW l, NEW enabled, SetEnabled(t, l, enabled) PROVE StepOK(t)
    BY <1>2, <1>5 DEF SetEnabled
  <1>6. ASSUME NEW c, MakeCategory(t, c) PROVE StepOK(t)
    BY <1>2, <1>6 DEF MakeCategory
  <1>7. ASSUME NEW c, DestroyCategory(t, c) PROVE StepOK(t)
    <2>1. /\ pc[t] = "idle" /\ seen' = [seen EXCEPT ![t] = NothingSeen] /\ UNCHANGED <<instance, at, record>>
          /\ UNCHANGED <<m_Sinks, m_IsInitialized, isOpen, hasHook, pc, todo, ok>>
      BY <1>7 DEF DestroyCategory, Call, MayCall, multiVars
    <2>2. seen'[t] = NothingSeen /\ ThreadInv(t)'
      BY <1>1, <2>1, BegunSeen, IdleInv DEF StateOK
    <2> QED BY <1>1, <2>1, <2>2, BegunSeen, OwnStep DEF StateOK, EndsAtTheEnd
  <1>8. ASSUME NEW spec, ApplyLevels(t, spec) PROVE StepOK(t)
    <2>1. /\ pc[t] = "idle" /\ seen' = [seen EXCEPT ![t] = NothingSeen] /\ UNCHANGED <<instance, at, record, ok>>
          /\ UNCHANGED <<m_Sinks, m_IsInitialized, isOpen, hasHook>>
      BY <1>8 DEF ApplyLevels, Call, MayCall, multiVars
    <2>2. \/ UNCHANGED <<pc, todo>>
          \/ \E q : pc' = [pc EXCEPT ![t] = "apply"] /\ todo' = [todo EXCEPT ![t] = q]
      BY <1>8 DEF ApplyLevels, Goto
    <2>3. /\ DOMAIN pc' = Threads /\ DOMAIN todo' = Threads /\ pc'[t] \in {"idle", "apply"}
          /\ \A u \in Threads \ {t} : pc'[u] = pc[u] /\ todo'[u] = todo[u]
      BY <1>1, <2>1, <2>2 DEF StateOK
    <2>4. seen'[t] = NothingSeen /\ ThreadInv(t)'
      BY <1>1, <2>1, <2>3, BegunSeen, IdleInv DEF StateOK
    <2> QED BY <1>1, <2>1, <2>3, <2>4, BegunSeen, OwnStep DEF StateOK, EndsAtTheEnd
  <1>9. CASE ApplyRule(t)
    <2>1. /\ pc[t] = "apply" /\ seen' = Disturbed(t, m_Sinks) /\ todo' = [todo EXCEPT ![t] = Tail(todo[t])]
          /\ UNCHANGED <<instance, pc, at, record, ok>> /\ UNCHANGED <<m_Sinks, m_IsInitialized, isOpen, hasHook>>
      BY <1>9 DEF ApplyRule, multiVars
    <2>2. seen'[t] = seen[t]
      BY <1>1, <2>1 DEF StateOK, Disturbed
    <2>3. StateOK' /\ SinkInv'
      BY <1>1, <2>1, DisturbedSeen DEF StateOK, RoutingInv, SinkInv
    <2>4. ThreadInv(t)'
      BY <2>1, <2>2 DEF RoutingInv, ThreadInv, HookInv, EntryInv, ListInv, FanOutInv, PassInv
    <2>5. ASSUME NEW u \in Threads \ {t} PROVE Undisturbed(u)
      BY <1>1, <2>1, DisturbedSeen DEF Undisturbed, StateOK, IsReady
    <2> QED BY <2>1, <2>3, <2>4, <2>5 DEF StepOK, EndsAtTheEnd
  <1>10. CASE FinishApply(t)
    <2>1. /\ pc[t] = "apply" /\ pc' = [pc EXCEPT ![t] = "idle"]
          /\ UNCHANGED <<instance, at, record, todo, ok, seen>> /\ UNCHANGED <<m_Sinks, m_IsInitialized, isOpen, hasHook>>
      BY <1>10 DEF FinishApply, Return, multiVars
    <2>2. DOMAIN pc' = Threads /\ pc'[t] = "idle" /\ \A u \in Threads \ {t} : pc'[u] = pc[u]
      BY <1>1, <2>1 DEF StateOK
    <2>3. ThreadInv(t)'
      BY <2>1, <2>2 DEF RoutingInv, ThreadInv, HookInv, EntryInv, ListInv, FanOutInv, PassInv
    <2>4. seen[t] \in Seen /\ seen' = [seen EXCEPT ![t] = seen[t]]
      BY <1>1, <2>1 DEF StateOK
    <2> QED BY <1>1, <2>1, <2>2, <2>3, <2>4, OwnStep DEF StateOK, EndsAtTheEnd
  <1> QED BY <1>3, <1>4, <1>5, <1>6, <1>7, <1>8, <1>9, <1>10 DEF LevelStep

----------------------------------------------------------------------------
(* Logging *)

LEMMA EntryFields ==
  /\ \A entry : DOMAIN MakeRecord(entry) = Entry /\ MakeRecord(entry).hooks = 0
  /\ \A r : DOMAIN r = Entry =>
        /\ \A c : DOMAIN WithCategory(c, r) = Entry /\ WithCategory(c, r).hooks = r.hooks
        /\ DOMAIN SinkRecord(r) = Entry /\ SinkRecord(r).hooks = r.hooks
        /\ \A n : DOMAIN [r EXCEPT !.hooks = n] = Entry /\ [r EXCEPT !.hooks = n].hooks = n
  BY DEF MakeRecord, WithCategory, SinkRecord, Entry

\* A sink that is called joins those called
LEMMA CallAppends ==
  ASSUME StateOK, NEW t \in Threads, NEW l \in Sinks, record[t].hooks \in {0, 1}, Called(t, l)
  PROVE  \E n \in Seen :
            /\ seen' = [seen EXCEPT ![t] = n] /\ n.all = seen[t].all /\ n.once = seen[t].once
            /\ CalledSinks(n) = CalledSinks(seen[t]) \cup {l}
            /\ CalledOnce(seen[t]) /\ l \notin CalledSinks(seen[t]) => CalledOnce(n)
            /\ \A i \in DOMAIN n.called :
                  \/ \E j \in DOMAIN seen[t].called : n.called[i] = seen[t].called[j]
                  \/ n.called[i].sink = l /\ n.called[i].hooks = record[t].hooks + (IF hasHook[l] THEN 1 ELSE 0)
  <1> DEFINE s == seen[t]
  <1>1. PICK call : call = [sink |-> l, took |-> PassesLevelGate(l, record[t]),
                            hooks |-> record[t].hooks + (IF hasHook[l] THEN 1 ELSE 0)]
    OBVIOUS
  <1>2. PICK took \in BOOLEAN : took = PassesLevelGate(l, record[t])
    BY Asked
  <1>3. PICK hooks \in Nat : hooks = record[t].hooks + (IF hasHook[l] THEN 1 ELSE 0)
    OBVIOUS
  <1>4. call \in SinkCall /\ call.sink = l /\ call.hooks = hooks
    BY <1>1, <1>2, <1>3 DEF SinkCall
  <1>5. s \in Seen /\ s.called \in Seq(SinkCall)
    BY DEF StateOK, Seen
  <1>6. /\ Len(s.called) \in Nat /\ DOMAIN s.called = 1..Len(s.called)
        /\ Append(s.called, call) \in Seq(SinkCall) /\ Len(Append(s.called, call)) = Len(s.called) + 1
        /\ Append(s.called, call)[Len(s.called) + 1] = call
        /\ \A i \in 1..Len(s.called) : Append(s.called, call)[i] = s.called[i]
    BY <1>4, <1>5
  <1>7. PICK k \in Nat : k = Len(s.called)
    BY <1>6
  <1>8. PICK longer \in Seq(SinkCall) : longer = Append(s.called, call)
    BY <1>6
  <1>9. PICK n : n = [s EXCEPT !.called = longer]
    OBVIOUS
  <1>10. n \in Seen /\ n.called = longer /\ n.all = s.all /\ n.once = s.once
    BY <1>5, <1>9 DEF Seen
  <1>11. /\ DOMAIN s.called = 1..k /\ DOMAIN longer = 1..k + 1 /\ longer[k + 1] = call
         /\ \A i \in 1..k : longer[i] = s.called[i]
    BY <1>6, <1>7, <1>8
  <1>12. (\A i \in 1..k + 1 : i \in 1..k \/ i = k + 1) /\ (\A i \in 1..k : i \in 1..k + 1) /\ k + 1 \in 1..k + 1
    BY <1>7
  <1>13. seen' = [seen EXCEPT ![t] = n]
    BY <1>1, <1>8, <1>9 DEF Called, StateOK
  <1>14. CalledSinks(n) = CalledSinks(s) \cup {l}
    <2>1. ASSUME NEW i \in 1..k + 1 PROVE longer[i].sink \in CalledSinks(s) \cup {l}
      BY <1>4, <1>11, <1>12, <2>1 DEF CalledSinks
    <2>2. ASSUME NEW i \in 1..k PROVE s.called[i].sink \in CalledSinks(n)
      BY <1>10, <1>11, <1>12, <2>2 DEF CalledSinks
    <2>3. l \in CalledSinks(n)
      BY <1>4, <1>10, <1>11, <1>12 DEF CalledSinks
    <2> QED BY <1>10, <1>11, <2>1, <2>2, <2>3 DEF CalledSinks
  <1>15. CalledOnce(s) /\ l \notin CalledSinks(s) => CalledOnce(n)
    BY <1>4, <1>10, <1>11, <1>12 DEF CalledOnce, CalledSinks
  <1>16. \A i \in DOMAIN n.called :
            \/ \E j \in DOMAIN s.called : n.called[i] = s.called[j]
            \/ n.called[i].sink = l /\ n.called[i].hooks = hooks
    BY <1>4, <1>10, <1>11, <1>12
  <1> QED BY <1>3, <1>10, <1>13, <1>14, <1>15, <1>16

\* The hooks of a sink that is called are those of the entry and its own
LEMMA CallHooks ==
  ASSUME StateOK, SinkInv, NEW t \in Threads, NEW l \in Sinks, HookInv(t), at' = at, instance' = instance,
         record[t].hooks \in {0, 1}, record[t].hooks = 1 => at[t] = Multi, NEW n, seen'[t] = n,
         \A i \in DOMAIN n.called :
            \/ \E j \in DOMAIN seen[t].called : n.called[i] = seen[t].called[j]
            \/ n.called[i].sink = l /\ n.called[i].hooks = record[t].hooks + (IF hasHook[l] THEN 1 ELSE 0)
  PROVE  HookInv(t)'
  <1>1. hasHook[l] => l \in instance.ownHooks
    BY DEF SinkInv
  <1>2. ASSUME NEW i \in DOMAIN n.called, n.called[i].hooks > 0
        PROVE  (at[t] = Multi /\ n.called[i].hooks <= 1) \/ n.called[i].sink \in instance.ownHooks
    <2>1. CASE \E j \in DOMAIN seen[t].called : n.called[i] = seen[t].called[j]
      BY <1>2, <2>1 DEF HookInv
    <2>2. CASE n.called[i].sink = l /\ n.called[i].hooks = record[t].hooks + (IF hasHook[l] THEN 1 ELSE 0)
      BY <1>1, <1>2, <2>2
    <2> QED BY <1>2, <2>1, <2>2
  <1> QED BY <1>2 DEF HookInv

LEMMA LogStepsOK ==
  ASSUME RoutingInv, NEW t \in Threads, LogStep(t)
  PROVE  StepOK(t)
  <1>1. /\ StateOK /\ SinkInv /\ seen[t] \in Seen /\ seen = [seen EXCEPT ![t] = seen[t]]
        /\ HookInv(t) /\ EntryInv(t) /\ ListInv(t) /\ FanOutInv(t)
    BY DEF RoutingInv, StateOK, ThreadInv
  <1>2. ASSUME NEW form, NEW l, NEW entry, Log(t, form, l, entry) PROVE StepOK(t)
    <2>1. PICK asked \in BOOLEAN : asked = ShouldLog(l, MakeRecord(entry))
      BY Asked
    <2>2. PICK r : r = MakeRecord(entry)
      OBVIOUS
    <2>3. /\ pc[t] = "idle" /\ seen' = [seen EXCEPT ![t] = Begun(asked)]
          /\ UNCHANGED <<instance, todo, ok>> /\ UNCHANGED <<m_Sinks, m_IsInitialized, isOpen, hasHook>>
          /\ \/ UNCHANGED <<pc, at, record>>
             \/ /\ pc' = [pc EXCEPT ![t] = "write"] /\ at' = [at EXCEPT ![t] = l]
                /\ record' = [record EXCEPT ![t] = r]
      BY <1>2, <2>1, <2>2 DEF Log, MayCall, Goto, multiVars
    <2>4. /\ DOMAIN pc' = Threads /\ DOMAIN at' = Threads /\ DOMAIN record' = Threads
          /\ \A u \in Threads \ {t} : pc'[u] = pc[u] /\ at'[u] = at[u] /\ record'[u] = record[u]
          /\ pc'[t] = "idle" \/ (pc'[t] = "write" /\ record'[t] = r)
      BY <1>1, <2>3 DEF StateOK
    <2>5. /\ Begun(asked) \in Seen /\ seen'[t] = Begun(asked) /\ seen'[t].called = <<>>
          /\ seen'[t].all = ToSet(m_Sinks) /\ seen'[t].once = ToSet(m_Sinks)
      BY <1>1, <2>3, BegunSeen DEF StateOK
    <2>6. ThreadInv(t)'
      <3>1. CASE pc'[t] = "idle"
        BY <2>5, <3>1, IdleInv
      <3>2. CASE pc'[t] = "write" /\ record'[t] = r
        <4>1. DOMAIN r = Entry /\ r.hooks = 0
          BY <2>2, EntryFields
        <4>2. EntryInv(t)' /\ ListInv(t)' /\ FanOutInv(t)' /\ PassInv(t)'
          BY <2>3, <2>5, <3>2, <4>1 DEF EntryInv, ListInv, FanOutInv, PassInv
        <4>3. DOMAIN seen'[t].called = {}
          BY <2>5
        <4> QED BY <4>2, <4>3 DEF ThreadInv, HookInv
      <3> QED BY <2>4, <3>1, <3>2
    <2> QED BY <1>1, <2>3, <2>4, <2>5, <2>6, OwnStep DEF EndsAtTheEnd, StateOK
  <1>3. CASE WriteToCategory(t)
    <2>1. /\ pc[t] = "write" /\ UNCHANGED <<instance, todo, ok, seen>>
          /\ UNCHANGED <<m_Sinks, m_IsInitialized, isOpen, hasHook>>
          /\ \/ pc' = [pc EXCEPT ![t] = "idle"] /\ UNCHANGED <<at, record>>
             \/ \E l, r : /\ at' = [at EXCEPT ![t] = l] /\ r = WithCategory(at[t], record[t])
                          /\ record' = [record EXCEPT ![t] = r] /\ pc' = pc
      BY <1>3 DEF WriteToCategory, Return, Unchanged, multiVars
    <2>2. DOMAIN record[t] = Entry /\ record[t].hooks = 0 /\ seen[t].called = <<>>
      BY <1>1, <2>1 DEF EntryInv
    <2>3. /\ DOMAIN pc' = Threads /\ DOMAIN at' = Threads /\ DOMAIN record' = Threads
          /\ \A u \in Threads \ {t} : pc'[u] = pc[u] /\ at'[u] = at[u] /\ record'[u] = record[u]
          /\ \/ pc'[t] = "idle"
             \/ pc'[t] = "write" /\ record'[t] = WithCategory(at[t], record[t])
      BY <1>1, <2>1 DEF StateOK
    <2>4. ThreadInv(t)'
      <3>1. CASE pc'[t] = "idle"
        BY <2>1, <2>2, <3>1, IdleInv
      <3>2. CASE pc'[t] = "write" /\ record'[t] = WithCategory(at[t], record[t])
        <4>0. DOMAIN WithCategory(at[t], record[t]) = Entry /\ WithCategory(at[t], record[t]).hooks = 0
          BY <2>2, EntryFields
        <4>1. DOMAIN record'[t] = Entry /\ record'[t].hooks = 0
          BY <3>2, <4>0
        <4>2. EntryInv(t)' /\ ListInv(t)' /\ FanOutInv(t)' /\ PassInv(t)'
          BY <1>1, <2>1, <2>2, <3>2, <4>1 DEF EntryInv, ListInv, FanOutInv, PassInv
        <4>3. DOMAIN seen'[t].called = {}
          BY <2>1, <2>2
        <4> QED BY <4>2, <4>3 DEF ThreadInv, HookInv
      <3> QED BY <2>3, <3>1, <3>2
    <2> QED BY <1>1, <2>1, <2>3, <2>4, OwnStep DEF EndsAtTheEnd, StateOK
  <1>4. CASE WriteToSink(t)
    <2>1. /\ pc[t] = "write" /\ at[t] \in Sinks /\ Called(t, at[t]) /\ pc' = [pc EXCEPT ![t] = "idle"]
          /\ UNCHANGED <<instance, at, record, todo, ok>> /\ UNCHANGED <<m_Sinks, m_IsInitialized, isOpen, hasHook>>
      BY <1>4 DEF WriteToSink, Return, Unchanged, multiVars
    <2>2. record[t].hooks = 0
      BY <1>1, <2>1 DEF EntryInv
    <2>3. PICK n \in Seen :
             /\ seen' = [seen EXCEPT ![t] = n]
             /\ \A i \in DOMAIN n.called :
                   \/ \E j \in DOMAIN seen[t].called : n.called[i] = seen[t].called[j]
                   \/ /\ n.called[i].sink = at[t]
                      /\ n.called[i].hooks = record[t].hooks + (IF hasHook[at[t]] THEN 1 ELSE 0)
      BY <1>1, <2>1, <2>2, CallAppends
    <2>4. DOMAIN pc' = Threads /\ pc'[t] = "idle" /\ seen'[t] = n /\ \A u \in Threads \ {t} : pc'[u] = pc[u]
      BY <1>1, <2>1, <2>3 DEF StateOK
    <2>5. HookInv(t)'
      BY <1>1, <2>1, <2>2, <2>3, <2>4, CallHooks
    <2>6. ThreadInv(t)'
      BY <2>4, <2>5 DEF ThreadInv, EntryInv, ListInv, FanOutInv, PassInv
    <2> QED BY <1>1, <2>1, <2>3, <2>4, <2>6, OwnStep DEF EndsAtTheEnd, StateOK
  <1>5. CASE WriteToMulti(t)
    <2>1. /\ pc[t] = "write" /\ at[t] = Multi /\ UNCHANGED <<instance, at, record, todo, ok, seen>>
          /\ UNCHANGED <<m_Sinks, m_IsInitialized, isOpen, hasHook>>
          /\ \E label \in {"hook", "idle"} : pc' = [pc EXCEPT ![t] = label]
      BY <1>5 DEF WriteToMulti, Goto, Return, Unchanged, multiVars
    <2>2. DOMAIN pc' = Threads /\ pc'[t] \in {"hook", "idle"} /\ \A u \in Threads \ {t} : pc'[u] = pc[u]
      BY <1>1, <2>1 DEF StateOK
    <2>3. ThreadInv(t)'
      BY <1>1, <2>1, <2>2 DEF ThreadInv, HookInv, EntryInv, ListInv, FanOutInv, PassInv
    <2> QED BY <1>1, <2>1, <2>2, <2>3, OwnStep DEF EndsAtTheEnd, StateOK
  <1>6. CASE RunHook(t)
    <2>1. /\ pc[t] = "hook" /\ UNCHANGED <<instance, at, todo, ok, seen>>
          /\ UNCHANGED <<m_Sinks, m_IsInitialized, isOpen, hasHook>>
          /\ \/ pc' = [pc EXCEPT ![t] = "idle"] /\ record' = record
             \/ /\ pc' = [pc EXCEPT ![t] = "record"]
                /\ \E n \in {record[t].hooks, record[t].hooks + 1} : record' = [record EXCEPT ![t] = [@ EXCEPT !.hooks = n]]
      BY <1>1, <1>6 DEF RunHook, Goto, Return, Unchanged, multiVars, StateOK
    <2>2. /\ DOMAIN pc' = Threads /\ DOMAIN record' = Threads
          /\ \A u \in Threads \ {t} : pc'[u] = pc[u] /\ record'[u] = record[u]
          /\ \/ pc'[t] = "idle"
             \/ /\ pc'[t] = "record"
                /\ \E n \in {record[t].hooks, record[t].hooks + 1} : record'[t] = [record[t] EXCEPT !.hooks = n]
      BY <1>1, <2>1 DEF StateOK
    <2>3. DOMAIN record[t] = Entry /\ record[t].hooks = 0 /\ seen[t].called = <<>> /\ at[t] = Multi
      BY <1>1, <2>1 DEF EntryInv
    <2>4. pc'[t] = "record" => DOMAIN record'[t] = Entry /\ record'[t].hooks \in {0, 1}
      <3>1. SUFFICES ASSUME pc'[t] = "record" PROVE DOMAIN record'[t] = Entry /\ record'[t].hooks \in {0, 1}
        OBVIOUS
      <3>2. PICK n \in {0, 1} : record'[t] = [record[t] EXCEPT !.hooks = n]
        BY <2>2, <2>3, <3>1
      <3>3. DOMAIN [record[t] EXCEPT !.hooks = n] = Entry /\ [record[t] EXCEPT !.hooks = n].hooks = n
        BY <2>3, EntryFields
      <3> QED BY <3>2, <3>3
    <2>5. ThreadInv(t)'
      BY <1>1, <2>1, <2>2, <2>3, <2>4 DEF ThreadInv, HookInv, EntryInv, ListInv, FanOutInv, PassInv
    <2> QED BY <1>1, <2>1, <2>2, <2>5, OwnStep DEF EndsAtTheEnd, StateOK
  <1>7. CASE WriteRecord(t)
    <2>1. /\ pc[t] = "record" /\ UNCHANGED <<instance, at, ok, seen>>
          /\ UNCHANGED <<m_Sinks, m_IsInitialized, isOpen, hasHook>>
          /\ \/ pc' = [pc EXCEPT ![t] = "idle"] /\ UNCHANGED <<record, todo>>
             \/ /\ pc' = [pc EXCEPT ![t] = "fan out"] /\ todo' = [todo EXCEPT ![t] = m_Sinks]
                /\ record' = [record EXCEPT ![t] = SinkRecord(record[t])]
      BY <1>7 DEF WriteRecord, Goto, Return, Unchanged, multiVars
    <2>2. /\ DOMAIN pc' = Threads /\ DOMAIN record' = Threads /\ DOMAIN todo' = Threads
          /\ \A u \in Threads \ {t} : pc'[u] = pc[u] /\ record'[u] = record[u] /\ todo'[u] = todo[u]
          /\ \/ pc'[t] = "idle"
             \/ pc'[t] = "fan out" /\ todo'[t] = m_Sinks /\ record'[t] = SinkRecord(record[t])
      BY <1>1, <2>1 DEF StateOK
    <2>3. /\ DOMAIN record[t] = Entry /\ record[t].hooks \in {0, 1} /\ seen[t].called = <<>> /\ at[t] = Multi
          /\ seen[t].all \subseteq ToSet(m_Sinks) /\ ToSet(m_Sinks) \subseteq seen[t].once
      BY <1>1, <2>1 DEF EntryInv, ListInv
    <2>4. ThreadInv(t)'
      <3>1. CASE pc'[t] = "idle"
        BY <2>1, <2>3, <3>1, IdleInv
      <3>2. CASE pc'[t] = "fan out" /\ todo'[t] = m_Sinks /\ record'[t] = SinkRecord(record[t])
        <4>1. DOMAIN record'[t] = Entry /\ record'[t].hooks \in {0, 1}
          BY <2>3, <3>2, EntryFields
        <4>2. seen'[t] = seen[t] /\ DOMAIN seen[t].called = {}
          <5>1. seen' = seen
            BY <2>1
          <5>2. DOMAIN seen[t].called = {}
            BY <2>3
          <5> QED BY <5>1, <5>2
        <4>3. CalledSinks(seen[t]) = {} /\ CalledOnce(seen[t])
          BY <4>2 DEF CalledSinks, CalledOnce
        <4>4. FanOutInv(t)'
          BY <1>1, <2>3, <3>2, <4>2, <4>3 DEF FanOutInv, StateOK
        <4>5. EntryInv(t)' /\ ListInv(t)' /\ PassInv(t)' /\ HookInv(t)'
          BY <2>1, <2>3, <3>2, <4>1, <4>2 DEF EntryInv, ListInv, PassInv, HookInv
        <4> QED BY <4>4, <4>5 DEF ThreadInv
      <3> QED BY <2>2, <3>1, <3>2
    <2> QED BY <1>1, <2>1, <2>2, <2>4, OwnStep DEF EndsAtTheEnd, StateOK
  <1>8. CASE FanOut(t)
    <2>0. /\ pc[t] = "fan out" /\ UNCHANGED <<instance, at, record, ok>>
          /\ UNCHANGED <<m_Sinks, m_IsInitialized, isOpen, hasHook>>
      BY <1>8 DEF FanOut, Unchanged, multiVars
    <2>1. CASE todo[t] = <<>>
      <3>1. pc' = [pc EXCEPT ![t] = "idle"] /\ UNCHANGED <<todo, seen>>
        BY <1>8, <2>1 DEF FanOut, Return
      <3>2. DOMAIN pc' = Threads /\ pc'[t] = "idle" /\ \A u \in Threads \ {t} : pc'[u] = pc[u]
        BY <1>1, <3>1 DEF StateOK
      <3>3. ThreadInv(t)'
        BY <1>1, <2>0, <3>1, <3>2 DEF ThreadInv, HookInv, EntryInv, ListInv, FanOutInv, PassInv
      <3> QED BY <1>1, <2>0, <2>1, <3>1, <3>2, <3>3, OwnStep DEF EndsAtTheEnd, StateOK
    <2>2. CASE todo[t] # <<>>
      <3>1. /\ todo[t] \in Seq(Sinks) /\ IsInjective(todo[t]) /\ CalledOnce(seen[t])
            /\ CalledSinks(seen[t]) \cap ToSet(todo[t]) = {}
            /\ seen[t].all \subseteq CalledSinks(seen[t]) \cup ToSet(todo[t])
            /\ CalledSinks(seen[t]) \cup ToSet(todo[t]) \subseteq seen[t].once
        BY <1>1, <2>0 DEF FanOutInv
      <3>2. PICK l \in Sinks, rest \in Seq(Sinks) :
               /\ l = Head(todo[t]) /\ rest = Tail(todo[t]) /\ ToSet(todo[t]) = ToSet(rest) \cup {l}
               /\ IsInjective(rest) /\ l \notin ToSet(rest)
        BY <2>2, <3>1, TailList
      <3>3. Called(t, l) /\ todo' = [todo EXCEPT ![t] = rest] /\ pc' = pc
        BY <1>8, <2>2, <3>2 DEF FanOut
      <3>4. DOMAIN record[t] = Entry /\ record[t].hooks \in {0, 1} /\ at[t] = Multi
        BY <1>1, <2>0 DEF EntryInv
      <3>5. PICK n \in Seen :
               /\ seen' = [seen EXCEPT ![t] = n] /\ n.all = seen[t].all /\ n.once = seen[t].once
               /\ CalledSinks(n) = CalledSinks(seen[t]) \cup {l}
               /\ CalledOnce(seen[t]) /\ l \notin CalledSinks(seen[t]) => CalledOnce(n)
               /\ \A i \in DOMAIN n.called :
                     \/ \E j \in DOMAIN seen[t].called : n.called[i] = seen[t].called[j]
                     \/ n.called[i].sink = l /\ n.called[i].hooks = record[t].hooks + (IF hasHook[l] THEN 1 ELSE 0)
        BY <1>1, <3>3, <3>4, CallAppends
      <3>6. /\ seen'[t] = n /\ todo'[t] = rest /\ pc'[t] = "fan out" /\ DOMAIN todo' = Threads
            /\ \A u \in Threads \ {t} : todo'[u] = todo[u]
        BY <1>1, <2>0, <3>3, <3>5 DEF StateOK
      <3>7. HookInv(t)'
        <4>1. at' = at /\ instance' = instance /\ (record[t].hooks = 1 => at[t] = Multi)
          BY <2>0, <3>4
        <4>2. \A i \in DOMAIN n.called :
                 \/ \E j \in DOMAIN seen[t].called : n.called[i] = seen[t].called[j]
                 \/ n.called[i].sink = l /\ n.called[i].hooks = record[t].hooks + (IF hasHook[l] THEN 1 ELSE 0)
          BY <3>5
        <4>3. seen'[t] = n /\ record[t].hooks \in {0, 1} /\ StateOK /\ SinkInv /\ HookInv(t)
          BY <1>1, <3>4, <3>6
        <4> QED BY <4>1, <4>2, <4>3, CallHooks
      <3>8. CalledOnce(n)
        BY <3>1, <3>2, <3>5
      <3>9. FanOutInv(t)'
        BY <3>1, <3>2, <3>5, <3>6, <3>8 DEF FanOutInv
      <3>10. EntryInv(t)' /\ ListInv(t)' /\ PassInv(t)'
        BY <2>0, <3>4, <3>6 DEF EntryInv, ListInv, PassInv
      <3>11. ThreadInv(t)'
        BY <3>7, <3>9, <3>10 DEF ThreadInv
      <3> QED BY <1>1, <2>0, <3>3, <3>5, <3>6, <3>11, OwnStep DEF EndsAtTheEnd, StateOK
    <2> QED BY <2>1, <2>2
  <1> QED BY <1>2, <1>3, <1>4, <1>5, <1>6, <1>7, <1>8 DEF LogStep

----------------------------------------------------------------------------
(* The multi-log's list, and what it passes on *)

\* What a call that passes on to the sinks begins with
LEMMA PassStarts ==
  ASSUME RoutingInv, NEW t \in Threads, NEW op, NEW config \in Config, StartPass(t, op, config),
         NEW history \in {seen, Disturbed(t, m_Sinks)}, NEW s \in {NothingSeen, Begun(FALSE)},
         seen' = [history EXCEPT ![t] = s],
         \/ s = NothingSeen /\ pc' = pc
         \/ s = Begun(FALSE) /\ pc' = [pc EXCEPT ![t] = "snapshot"],
         hasHook' \in [Sinks \cup {Multi} -> BOOLEAN], m_IsInitialized' \in [Sinks \cup {Multi} -> BOOLEAN],
         \A l \in Sinks : hasHook'[l] = hasHook[l] /\ m_IsInitialized'[l] = m_IsInitialized[l]
  PROVE  StepOK(t)
  <1>1. /\ StateOK /\ SinkInv /\ m_Sinks \in Seq(Sinks)
        /\ \A u \in Threads : seen[u] \in Seen /\ seen[u].all \subseteq Sinks
    BY DEF RoutingInv, StateOK, Seen
  <1>2. PICK r : r = [op |-> op, config |-> config]
    OBVIOUS
  <1>3. /\ pc[t] = "idle" /\ ok' = [ok EXCEPT ![t] = TRUE] /\ record' = [record EXCEPT ![t] = r]
        /\ UNCHANGED <<instance, m_Sinks, isOpen, at, todo>>
    BY <1>2 DEF StartPass, MayCall
  <1>4. /\ DOMAIN pc' = Threads /\ DOMAIN record' = Threads /\ ok' \in [Threads -> BOOLEAN] /\ record'[t] = r
        /\ \A u \in Threads \ {t} : pc'[u] = pc[u] /\ record'[u] = record[u] /\ ok'[u] = ok[u]
        /\ pc'[t] = "idle" \/ (pc'[t] = "snapshot" /\ s = Begun(FALSE))
    BY <1>1, <1>3 DEF StateOK
  <1>5. NothingSeen \in Seen /\ Begun(FALSE) \in Seen /\ NothingSeen.called = <<>> /\ Begun(FALSE).called = <<>>
        /\ Begun(FALSE).all = ToSet(m_Sinks) /\ Begun(FALSE).once = ToSet(m_Sinks)
    BY <1>1, BegunSeen
  <1>6. history \in [Threads -> Seen]
    BY <1>1, DisturbedSeen DEF StateOK
  <1>7. seen' \in [Threads -> Seen] /\ seen'[t] = s /\ \A u \in Threads \ {t} : seen'[u] = history[u]
    BY <1>5, <1>6
  <1>8. StateOK' /\ SinkInv'
    BY <1>1, <1>3, <1>4, <1>7 DEF StateOK, SinkInv
  <1>9. ThreadInv(t)'
    <2>1. CASE pc'[t] = "idle"
      BY <1>5, <1>7, <2>1, IdleInv
    <2>2. CASE pc'[t] = "snapshot" /\ s = Begun(FALSE)
      <3>1. r.config \in Config
        BY <1>2
      <3>2. DOMAIN seen'[t].called = {}
        <4>1. seen'[t].called = <<>>
          BY <1>5, <1>7, <2>2
        <4> QED BY <4>1
      <3>3. HookInv(t)'
        BY <3>2 DEF HookInv
      <3>4. ListInv(t)'
        BY <1>3, <1>5, <1>7, <2>2 DEF ListInv
      <3>5. EntryInv(t)' /\ FanOutInv(t)' /\ PassInv(t)'
        BY <1>4, <2>2, <3>1 DEF EntryInv, FanOutInv, PassInv
      <3> QED BY <3>3, <3>4, <3>5 DEF ThreadInv
    <2> QED BY <1>4, <2>1, <2>2
  <1>10. ASSUME NEW u \in Threads \ {t} PROVE Undisturbed(u)
    <2>1. CASE history = seen
      BY <1>1, <1>3, <1>4, <1>7, <2>1 DEF Undisturbed, IsReady
    <2>2. CASE history = Disturbed(t, m_Sinks)
      BY <1>1, <1>3, <1>4, <1>7, <2>2, DisturbedSeen DEF Undisturbed, IsReady
    <2> QED BY <2>1, <2>2
  <1> QED BY <1>3, <1>8, <1>9, <1>10 DEF StepOK, EndsAtTheEnd

\* A call of one sink: it opens it, closes it for all to see, or fails
LEMMA PassGoesOn ==
  ASSUME RoutingInv, NEW t \in Threads, pc[t] = "pass", todo[t] # <<>>, todo' = [todo EXCEPT ![t] = Tail(@)],
         UNCHANGED <<instance, m_Sinks, pc, at, record>>,
         hasHook' \in [Sinks \cup {Multi} -> BOOLEAN], m_IsInitialized' \in [Sinks \cup {Multi} -> BOOLEAN],
         isOpen' \in [Sinks -> BOOLEAN], ok' \in [Threads -> BOOLEAN], seen' \in [Threads -> Seen], SinkInv',
         \A u \in Threads \ {t} : ok'[u] = ok[u],
         \A u \in Threads :
            /\ seen'[u].called = seen[u].called /\ seen[u].closed \subseteq seen'[u].closed
            /\ seen'[u].all \subseteq seen[u].all /\ seen[u].once \subseteq seen'[u].once
            /\ \A l \in Sinks : IsReady(l) => IsReady(l)' \/ l \in seen'[u].closed,
         record[t].op = "Initialize" /\ ok'[t] => ok[t] /\ \A l \in {Head(todo[t])} : IsReady(l)'
  PROVE  StepOK(t)
  <1>1. StateOK /\ PassInv(t) /\ HookInv(t)
    BY DEF RoutingInv, ThreadInv
  <1>2. StateOK'
    BY <1>1 DEF StateOK
  <1>3. todo[t] \in Seq(Sinks)
    BY <1>1 DEF PassInv
  <1>4. PICK l \in Sinks, rest \in Seq(Sinks) :
           l = Head(todo[t]) /\ rest = Tail(todo[t]) /\ ToSet(todo[t]) = ToSet(rest) \cup {l}
    <2>1. /\ Head(todo[t]) \in Sinks /\ Tail(todo[t]) \in Seq(Sinks)
          /\ ToSet(todo[t]) = ToSet(Tail(todo[t])) \cup {Head(todo[t])}
      BY <1>3, TailList
    <2> QED BY <2>1
  <1>5. todo'[t] = rest /\ \A u \in Threads \ {t} : todo'[u] = todo[u]
    BY <1>1, <1>4 DEF StateOK
  <1>6. PassInv(t)'
    <2>1. ASSUME record[t].op = "Initialize", ok'[t], NEW k \in seen'[t].all \ seen'[t].closed
          PROVE  k \in ToSet(rest) \/ IsReady(k)'
      <3>1. k \in seen[t].all \ seen[t].closed /\ k \in Sinks
        BY <1>1, <2>1 DEF StateOK, Seen
      <3>2. k \in ToSet(todo[t]) \/ IsReady(k)
        BY <1>1, <2>1, <3>1 DEF PassInv
      <3>3. IsReady(k) => IsReady(k)'
        BY <2>1, <3>1 DEF IsReady
      <3> QED BY <1>4, <2>1, <3>2, <3>3
    <2> QED BY <1>1, <1>5, <2>1 DEF PassInv
  <1>7. HookInv(t)' /\ EntryInv(t)' /\ ListInv(t)' /\ FanOutInv(t)'
    BY <1>1 DEF HookInv, EntryInv, ListInv, FanOutInv
  <1>8. ASSUME NEW u \in Threads \ {t} PROVE Undisturbed(u)
    BY <1>5 DEF Undisturbed
  <1> QED BY <1>2, <1>6, <1>7, <1>8 DEF StepOK, ThreadInv, EndsAtTheEnd

LEMMA ListCallsOK ==
  ASSUME RoutingInv, NEW t \in Threads
  PROVE  /\ \A l \in Sinks \cup {Multi} : AddLogger(t, l) => StepOK(t)
         /\ \A l \in Sinks : RemoveLogger(t, l) => StepOK(t)
         /\ RemoveAllLoggers(t) => StepOK(t)
  <1>1. StateOK /\ m_Sinks \in Seq(Sinks) /\ IsInjective(m_Sinks)
    BY DEF RoutingInv, StateOK
  <1>2. ASSUME NEW op, NEW sinks \in Seq(Sinks), IsInjective(sinks), ListCall(t, op, sinks) PROVE StepOK(t)
    <2>1. /\ pc[t] = "idle" /\ m_Sinks' = sinks /\ seen' = [Disturbed(t, sinks) EXCEPT ![t] = NothingSeen]
          /\ UNCHANGED <<instance, m_IsInitialized, isOpen, hasHook, pc, at, record, todo, ok>>
      BY <1>2 DEF ListCall, Call, MayCall
    <2> QED BY <1>2, <2>1, OneStepCall
  <1>3. ASSUME NEW l \in Sinks \cup {Multi}, AddLogger(t, l) PROVE StepOK(t)
    <2>1. CASE l = Multi \/ Contains(m_Sinks, l)
      <3>1. ListCall(t, "AddLogger", m_Sinks)
        BY <1>3, <2>1 DEF AddLogger
      <3> QED BY <1>1, <1>2, <3>1
    <2>2. CASE ~(l = Multi \/ Contains(m_Sinks, l))
      <3>1. ListCall(t, "AddLogger", Append(m_Sinks, l))
        BY <1>3, <2>2 DEF AddLogger
      <3>2. l \in Sinks /\ DOMAIN m_Sinks = 1..Len(m_Sinks)
        BY <1>1, <1>3, <2>2
      <3>3. l \notin ToSet(m_Sinks)
        BY <2>2, <3>2 DEF ToSet, Contains
      <3>4. Append(m_Sinks, l) \in Seq(Sinks) /\ IsInjective(Append(m_Sinks, l))
        BY <1>1, <3>2, <3>3, AppendList
      <3> QED BY <1>2, <3>1, <3>4
    <2> QED BY <2>1, <2>2
  <1>4. ASSUME NEW l \in Sinks, RemoveLogger(t, l) PROVE StepOK(t)
    BY <1>1, <1>2, <1>4, ShorterList DEF RemoveLogger
  <1>5. ASSUME RemoveAllLoggers(t) PROVE StepOK(t)
    <2>1. <<>> \in Seq(Sinks) /\ IsInjective(<<>>)
      BY DEF IsInjective
    <2> QED BY <1>2, <1>5, <2>1 DEF RemoveAllLoggers
  <1> QED BY <1>3, <1>4, <1>5

LEMMA PassCallsOK ==
  ASSUME RoutingInv, NEW t \in Threads
  PROVE  /\ \A config \in instance.configs :
               (Initialize(t, config) => StepOK(t)) /\ (Reconfigure(t, config) => StepOK(t))
         /\ Open(t) \/ Close(t) \/ Flush(t) => StepOK(t)
  <1>1. /\ StateOK /\ hasHook \in [Sinks \cup {Multi} -> BOOLEAN]
        /\ m_IsInitialized \in [Sinks \cup {Multi} -> BOOLEAN] /\ Multi \notin Sinks
    BY StructureAssumption DEF RoutingInv, StateOK
  <1>2. instance.configs \subseteq Config /\ NoConfig \in Config
    BY <1>1, InstanceAssumption DEF StateOK, Config, NoConfig
  <1>3. ASSUME NEW op, NEW config \in Config, StartPass(t, op, config), Refuse(t) PROVE StepOK(t)
    <2>1. seen' = [seen EXCEPT ![t] = NothingSeen] /\ UNCHANGED <<m_IsInitialized, hasHook, pc>>
      BY <1>3 DEF Refuse
    <2> QED BY <1>1, <1>3, <2>1, PassStarts
  <1>4. ASSUME NEW config \in instance.configs, Initialize(t, config) PROVE StepOK(t)
    <2>0. config \in Config /\ config.hook \in BOOLEAN /\ StartPass(t, "Initialize", config)
      BY <1>2, <1>4 DEF Config, Initialize
    <2>1. CASE m_IsInitialized[Multi]
      BY <1>3, <1>4, <2>0, <2>1 DEF Initialize
    <2>2. CASE ~m_IsInitialized[Multi]
      <3>1. /\ hasHook' = [hasHook EXCEPT ![Multi] = config.hook]
            /\ m_IsInitialized' = [m_IsInitialized EXCEPT ![Multi] = TRUE]
            /\ seen' = [Disturbed(t, m_Sinks) EXCEPT ![t] = Begun(FALSE)] /\ pc' = [pc EXCEPT ![t] = "snapshot"]
        BY <1>4, <2>2 DEF Initialize, Goto
      <3>2. /\ hasHook' \in [Sinks \cup {Multi} -> BOOLEAN] /\ m_IsInitialized' \in [Sinks \cup {Multi} -> BOOLEAN]
            /\ \A l \in Sinks : hasHook'[l] = hasHook[l] /\ m_IsInitialized'[l] = m_IsInitialized[l]
        BY <1>1, <2>0, <3>1
      <3> QED BY <2>0, <3>1, <3>2, PassStarts
    <2> QED BY <2>1, <2>2
  <1>5. ASSUME NEW config \in instance.configs, Reconfigure(t, config) PROVE StepOK(t)
    <2>0. config \in Config /\ config.hook \in BOOLEAN /\ StartPass(t, "Reconfigure", config)
      BY <1>2, <1>5 DEF Config, Reconfigure
    <2>1. CASE ~m_IsInitialized[Multi]
      BY <1>3, <1>5, <2>0, <2>1 DEF Reconfigure
    <2>2. CASE m_IsInitialized[Multi]
      <3>1. /\ hasHook' = [hasHook EXCEPT ![Multi] = config.hook] /\ m_IsInitialized' = m_IsInitialized
            /\ seen' = [seen EXCEPT ![t] = Begun(FALSE)] /\ pc' = [pc EXCEPT ![t] = "snapshot"]
        BY <1>5, <2>2 DEF Reconfigure, Goto
      <3>2. /\ hasHook' \in [Sinks \cup {Multi} -> BOOLEAN]
            /\ \A l \in Sinks : hasHook'[l] = hasHook[l]
        BY <1>1, <2>0, <3>1
      <3> QED BY <1>1, <2>0, <3>1, <3>2, PassStarts
    <2> QED BY <2>1, <2>2
  <1>6. ASSUME NEW op, StartPass(t, op, NoConfig), Passing(t) PROVE StepOK(t)
    <2>1. /\ seen' = [seen EXCEPT ![t] = Begun(FALSE)] /\ pc' = [pc EXCEPT ![t] = "snapshot"]
          /\ UNCHANGED <<m_IsInitialized, hasHook>>
      BY <1>6 DEF Passing, Goto
    <2> QED BY <1>1, <1>2, <1>6, <2>1, PassStarts
  <1> QED BY <1>4, <1>5, <1>6 DEF Open, Close, Flush

LEMMA PassStepIs ==
  ASSUME RoutingInv, NEW t \in Threads, NEW op, PassStep(t, op)
  PROVE  /\ pc[t] = "pass" /\ record[t].op = op /\ todo[t] # <<>> /\ todo' = [todo EXCEPT ![t] = Tail(@)]
         /\ UNCHANGED <<instance, m_Sinks, pc, at, record>> /\ Head(todo[t]) \in Sinks
         /\ record[t].config \in Config
  <1>1. /\ pc[t] = "pass" /\ record[t].op = op /\ todo[t] # <<>> /\ todo' = [todo EXCEPT ![t] = Tail(@)]
        /\ UNCHANGED <<instance, m_Sinks, pc, at, record>>
    BY DEF PassStep
  <1>2. todo[t] \in Seq(Sinks) /\ record[t].config \in Config
    BY <1>1 DEF RoutingInv, ThreadInv, PassInv
  <1> QED BY <1>1, <1>2, TailList

\* The hook of the multi-log's config does not reach a sink
LEMMA NoHookPassed ==
  ASSUME NEW config \in Config
  PROVE  MakeSinkConfig(config).hook = FALSE
  BY DEF MakeSinkConfig, Config

LEMMA SinkStepsOK ==
  ASSUME RoutingInv, NEW t \in Threads,
         InitializeSink(t) \/ ReconfigureSink(t) \/ OpenSink(t) \/ CloseSink(t) \/ FlushSink(t)
  PROVE  StepOK(t)
  <1>1. /\ StateOK /\ SinkInv /\ hasHook \in [Sinks \cup {Multi} -> BOOLEAN]
        /\ m_IsInitialized \in [Sinks \cup {Multi} -> BOOLEAN] /\ isOpen \in [Sinks -> BOOLEAN]
        /\ ok \in [Threads -> BOOLEAN] /\ seen \in [Threads -> Seen] /\ m_Sinks \in Seq(Sinks)
    BY DEF RoutingInv, StateOK
  <1>2. PICK l : l = Head(todo[t])
    OBVIOUS
  <1>3. CASE InitializeSink(t)
    <2>1. /\ pc[t] = "pass" /\ todo[t] # <<>> /\ todo' = [todo EXCEPT ![t] = Tail(@)]
          /\ UNCHANGED <<instance, m_Sinks, pc, at, record>> /\ l \in Sinks /\ record[t].config \in Config
      BY <1>2, <1>3, PassStepIs DEF InitializeSink
    <2>2. CASE m_IsInitialized[l]
      <3>1. /\ ok' = [ok EXCEPT ![t] = @ /\ isOpen[l]]
            /\ UNCHANGED <<m_IsInitialized, isOpen, hasHook, seen>>
        BY <1>2, <1>3, <2>2 DEF InitializeSink, NextSink, RefusesToInitialize
      <3>2. /\ ok' \in [Threads -> BOOLEAN] /\ (\A u \in Threads \ {t} : ok'[u] = ok[u])
            /\ (ok'[t] => ok[t] /\ isOpen[l])
        BY <1>1, <2>1, <3>1
      <3>3. SinkInv'
        BY <1>1, <2>1, <3>1 DEF SinkInv
      <3>4. (\A k \in Sinks : IsReady(k) => IsReady(k)') /\ (isOpen[l] => \A k \in {l} : IsReady(k)')
        BY <1>1, <2>1, <3>1 DEF IsReady, SinkInv
      <3> QED BY <1>1, <1>2, <2>1, <3>1, <3>2, <3>3, <3>4, PassGoesOn
    <2>3. CASE ~m_IsInitialized[l]
      <3>1. PICK succeeds \in BOOLEAN :
               /\ hasHook' = [hasHook EXCEPT ![l] = FALSE]
               /\ isOpen' = [isOpen EXCEPT ![l] = succeeds /\ StaysOpen(l)]
               /\ ok' = [ok EXCEPT ![t] = @ /\ succeeds]
               /\ m_IsInitialized' = [m_IsInitialized EXCEPT ![l] = succeeds] /\ seen' = Disturbed(t, m_Sinks)
        BY <1>2, <1>3, <2>1, <2>3, NoHookPassed DEF InitializeSink, NextSink, Succeeds
      <3>2. /\ ok' \in [Threads -> BOOLEAN] /\ (\A u \in Threads \ {t} : ok'[u] = ok[u])
            /\ (ok'[t] => ok[t] /\ succeeds)
        BY <1>1, <2>1, <3>1
      <3>3. /\ hasHook' \in [Sinks \cup {Multi} -> BOOLEAN] /\ m_IsInitialized' \in [Sinks \cup {Multi} -> BOOLEAN]
            /\ isOpen' \in [Sinks -> BOOLEAN] /\ m_IsInitialized'[l] = succeeds
            /\ isOpen'[l] = (succeeds /\ StaysOpen(l))
            /\ \A k \in Sinks \ {l} : isOpen'[k] = isOpen[k] /\ m_IsInitialized'[k] = m_IsInitialized[k]
        BY <1>1, <2>1, <2>3, <3>1 DEF StaysOpen
      <3>7. (\A k \in Sinks : IsReady(k) => IsReady(k)') /\ (succeeds => \A k \in {l} : IsReady(k)')
        BY <2>1, <2>3, <3>3 DEF IsReady, StaysOpen
      <3>4. SinkInv'
        BY <1>1, <2>1, <3>1, <3>3 DEF SinkInv
      <3>5. seen' \in [Threads -> Seen] /\ seen'[t] = seen[t]
        BY <1>1, <3>1, DisturbedSeen DEF Disturbed
      <3>6. \A u \in Threads : /\ seen'[u].called = seen[u].called /\ seen[u].closed \subseteq seen'[u].closed
                               /\ seen'[u].all \subseteq seen[u].all /\ seen[u].once \subseteq seen'[u].once
        <4>1. ASSUME NEW u \in Threads \ {t}
              PROVE  /\ seen'[u].called = seen[u].called /\ seen[u].closed \subseteq seen'[u].closed
                     /\ seen'[u].all \subseteq seen[u].all /\ seen[u].once \subseteq seen'[u].once
          BY <1>1, <3>1, DisturbedSeen
        <4> QED BY <3>5, <4>1
      <3> QED BY <1>2, <2>1, <3>2, <3>3, <3>4, <3>5, <3>6, <3>7, PassGoesOn
    <2> QED BY <2>2, <2>3
  <1>4. CASE ReconfigureSink(t)
    <2>1. /\ pc[t] = "pass" /\ todo[t] # <<>> /\ todo' = [todo EXCEPT ![t] = Tail(@)] /\ record[t].op = "Reconfigure"
          /\ UNCHANGED <<instance, m_Sinks, pc, at, record>> /\ l \in Sinks /\ record[t].config \in Config
      BY <1>2, <1>4, PassStepIs DEF ReconfigureSink
    <2>2. m_IsInitialized' = m_IsInitialized
      BY <1>4 DEF ReconfigureSink
    <2>3. CASE ~m_IsInitialized[l]
      <3>1. ok' = [ok EXCEPT ![t] = FALSE] /\ UNCHANGED <<isOpen, hasHook, seen>>
        BY <1>2, <1>4, <2>3 DEF ReconfigureSink, NextSink, Succeeds
      <3>2. ok' \in [Threads -> BOOLEAN] /\ (\A u \in Threads \ {t} : ok'[u] = ok[u])
        BY <1>1, <3>1
      <3>3. SinkInv' /\ \A k \in Sinks : IsReady(k)' = IsReady(k)
        BY <1>1, <2>1, <2>2, <3>1 DEF SinkInv, IsReady
      <3> QED BY <1>1, <2>1, <2>2, <3>1, <3>2, <3>3, PassGoesOn
    <2>4. CASE m_IsInitialized[l]
      <3>1. hasHook' = [hasHook EXCEPT ![l] = FALSE]
        BY <1>2, <1>4, <2>1, <2>4, NoHookPassed DEF ReconfigureSink, NextSink
      <3>2. \/ UNCHANGED <<ok, isOpen, seen>>
            \/ isOpen' = [isOpen EXCEPT ![l] = StaysOpen(l)] /\ UNCHANGED <<ok, seen>>
            \/ ok' = [ok EXCEPT ![t] = FALSE] /\ isOpen' = [isOpen EXCEPT ![l] = FALSE] /\ seen' = Closed(l)
        BY <1>2, <1>4, <2>4 DEF ReconfigureSink, NextSink, Succeeds
      <3>3. hasHook' \in [Sinks \cup {Multi} -> BOOLEAN] /\ \A k \in Sinks : hasHook'[k] => hasHook[k]
        BY <1>1, <2>1, <3>1
      <3>4. /\ ok' \in [Threads -> BOOLEAN] /\ (\A u \in Threads \ {t} : ok'[u] = ok[u])
            /\ isOpen' \in [Sinks -> BOOLEAN] /\ \A k \in Sinks \ {l} : isOpen'[k] = isOpen[k]
        BY <1>1, <2>1, <3>2 DEF StaysOpen
      <3>5. SinkInv'
        BY <1>1, <2>1, <2>2, <2>4, <3>3, <3>4 DEF SinkInv
      <3>6. /\ seen' \in [Threads -> Seen]
            /\ \A u \in Threads : /\ seen'[u].called = seen[u].called /\ seen[u].closed \subseteq seen'[u].closed
                                  /\ seen'[u].all = seen[u].all /\ seen'[u].once = seen[u].once
                                  /\ seen' = seen \/ l \in seen'[u].closed
        BY <1>1, <2>1, <3>2, ClosedSeen
      <3>7. ASSUME NEW u \in Threads, NEW k \in Sinks, IsReady(k) PROVE IsReady(k)' \/ k \in seen'[u].closed
        <4>1. CASE k = l
          <5>1. isOpen'[l] \/ ~isOpen[l] \/ l \in instance.perWrite \/ l \in seen'[u].closed
            <6>1. CASE UNCHANGED <<ok, isOpen, seen>>
              BY <6>1
            <6>2. CASE isOpen' = [isOpen EXCEPT ![l] = StaysOpen(l)]
              BY <1>1, <2>1, <6>2 DEF StaysOpen
            <6>3. CASE seen' = Closed(l)
              BY <1>1, <2>1, <6>3, ClosedSeen
            <6> QED BY <3>2, <6>1, <6>2, <6>3
          <5> QED BY <1>1, <2>1, <2>2, <2>4, <3>7, <4>1, <5>1 DEF IsReady
        <4>2. CASE k # l
          BY <2>1, <2>2, <3>4, <3>7, <4>2 DEF IsReady
        <4> QED BY <4>1, <4>2
      <3> QED BY <1>1, <2>1, <2>2, <3>3, <3>4, <3>5, <3>6, <3>7, PassGoesOn
    <2> QED BY <2>3, <2>4
  <1>5. CASE OpenSink(t)
    <2>1. /\ pc[t] = "pass" /\ todo[t] # <<>> /\ todo' = [todo EXCEPT ![t] = Tail(@)] /\ record[t].op = "Open"
          /\ UNCHANGED <<instance, m_Sinks, pc, at, record>> /\ l \in Sinks
      BY <1>2, <1>5, PassStepIs DEF OpenSink
    <2>2. PICK open \in {isOpen[l], TRUE} :
             /\ isOpen' = [isOpen EXCEPT ![l] = open] /\ ok' = [ok EXCEPT ![t] = @ /\ open]
             /\ m_IsInitialized' = [m_IsInitialized EXCEPT ![l] = @ \/ open] /\ UNCHANGED <<hasHook, seen>>
      BY <1>2, <1>5 DEF OpenSink, NextSink, Succeeds
    <2>3. open \in BOOLEAN
      BY <1>1, <2>1, <2>2
    <2>4. /\ ok' \in [Threads -> BOOLEAN] /\ (\A u \in Threads \ {t} : ok'[u] = ok[u])
          /\ m_IsInitialized' \in [Sinks \cup {Multi} -> BOOLEAN] /\ isOpen' \in [Sinks -> BOOLEAN]
          /\ \A k \in Sinks : (isOpen[k] => isOpen'[k]) /\ (m_IsInitialized[k] => m_IsInitialized'[k])
      BY <1>1, <2>1, <2>2, <2>3
    <2>6. \A k \in Sinks : IsReady(k) => IsReady(k)'
      BY <2>1, <2>4 DEF IsReady
    <2>5. SinkInv'
      BY <1>1, <2>1, <2>2, <2>3 DEF SinkInv
    <2> QED BY <1>1, <2>1, <2>2, <2>4, <2>5, <2>6, PassGoesOn
  <1>6. CASE CloseSink(t)
    <2>1. /\ pc[t] = "pass" /\ todo[t] # <<>> /\ todo' = [todo EXCEPT ![t] = Tail(@)] /\ record[t].op = "Close"
          /\ UNCHANGED <<instance, m_Sinks, pc, at, record>> /\ l \in Sinks
      BY <1>2, <1>6, PassStepIs DEF CloseSink
    <2>2. /\ isOpen' = [isOpen EXCEPT ![l] = FALSE] /\ m_IsInitialized' = [m_IsInitialized EXCEPT ![l] = FALSE]
          /\ seen' = Closed(l) /\ UNCHANGED <<hasHook, ok>>
      BY <1>2, <1>6 DEF CloseSink, NextSink
    <2>3. /\ m_IsInitialized' \in [Sinks \cup {Multi} -> BOOLEAN] /\ isOpen' \in [Sinks -> BOOLEAN]
          /\ \A k \in Sinks \ {l} : isOpen'[k] = isOpen[k] /\ m_IsInitialized'[k] = m_IsInitialized[k]
      BY <1>1, <2>1, <2>2
    <2>6. \A k \in Sinks \ {l} : IsReady(k)' = IsReady(k)
      BY <2>1, <2>3 DEF IsReady
    <2>4. SinkInv'
      BY <1>1, <2>1, <2>2 DEF SinkInv
    <2>5. /\ seen' \in [Threads -> Seen]
          /\ \A u \in Threads : /\ seen'[u].called = seen[u].called /\ seen[u].closed \subseteq seen'[u].closed
                                /\ seen'[u].all = seen[u].all /\ seen'[u].once = seen[u].once
                                /\ l \in seen'[u].closed
      BY <1>1, <2>1, <2>2, ClosedSeen
    <2> QED BY <1>1, <2>1, <2>2, <2>3, <2>4, <2>5, <2>6, PassGoesOn
  <1>7. CASE FlushSink(t)
    <2>1. /\ pc[t] = "pass" /\ todo[t] # <<>> /\ todo' = [todo EXCEPT ![t] = Tail(@)] /\ record[t].op = "Flush"
          /\ UNCHANGED <<instance, m_Sinks, pc, at, record>>
      BY <1>7, PassStepIs DEF FlushSink
    <2>2. PICK flushed \in BOOLEAN : /\ ok' = [ok EXCEPT ![t] = @ /\ flushed]
                                     /\ UNCHANGED <<m_IsInitialized, isOpen, hasHook, seen>>
      BY <1>7 DEF FlushSink
    <2>3. ok' \in [Threads -> BOOLEAN] /\ (\A u \in Threads \ {t} : ok'[u] = ok[u])
      BY <1>1, <2>2
    <2>4. SinkInv' /\ \A k \in Sinks : IsReady(k)' = IsReady(k)
      BY <1>1, <2>1, <2>2 DEF SinkInv, IsReady
    <2> QED BY <1>1, <2>1, <2>2, <2>3, <2>4, PassGoesOn
  <1> QED BY <1>3, <1>4, <1>5, <1>6, <1>7

LEMMA MultiStepsOK ==
  ASSUME RoutingInv, NEW t \in Threads, MultiStep(t)
  PROVE  StepOK(t)
  <1>1. StateOK /\ SinkInv /\ ThreadInv(t) /\ seen[t] \in Seen /\ seen = [seen EXCEPT ![t] = seen[t]]
    BY DEF RoutingInv, StateOK
  <1>2. CASE SnapshotSinks(t)
    <2>1. /\ pc[t] = "snapshot" /\ pc' = [pc EXCEPT ![t] = "pass"] /\ todo' = [todo EXCEPT ![t] = m_Sinks]
          /\ UNCHANGED <<instance, at, record, ok, seen>> /\ UNCHANGED <<m_Sinks, m_IsInitialized, isOpen, hasHook>>
      BY <1>2 DEF SnapshotSinks, Goto, Unchanged, multiVars
    <2>2. /\ DOMAIN pc' = Threads /\ DOMAIN todo' = Threads /\ pc'[t] = "pass" /\ todo'[t] = m_Sinks
          /\ \A u \in Threads \ {t} : pc'[u] = pc[u] /\ todo'[u] = todo[u]
      BY <1>1, <2>1 DEF StateOK
    <2>3. ThreadInv(t)'
      BY <1>1, <2>1, <2>2 DEF ThreadInv, HookInv, EntryInv, ListInv, FanOutInv, PassInv, StateOK
    <2> QED BY <1>1, <2>1, <2>2, <2>3, OwnStep DEF EndsAtTheEnd, StateOK
  <1>3. CASE FinishPass(t)
    <2>1. /\ pc[t] = "pass" /\ todo[t] = <<>> /\ pc' = [pc EXCEPT ![t] = "idle"]
          /\ \E closes : m_IsInitialized' = [m_IsInitialized EXCEPT ![Multi] = @ /\ ~closes]
          /\ UNCHANGED <<instance, m_Sinks, isOpen, hasHook, at, record, todo, ok, seen>>
      BY <1>3 DEF FinishPass, Return
    <2>2. DOMAIN pc' = Threads /\ pc'[t] = "idle" /\ \A u \in Threads \ {t} : pc'[u] = pc[u]
      BY <1>1, <2>1 DEF StateOK
    <2>3. m_IsInitialized' \in [Sinks \cup {Multi} -> BOOLEAN] /\ \A l \in Sinks : m_IsInitialized'[l] = m_IsInitialized[l]
      BY <1>1, <2>1, StructureAssumption DEF StateOK
    <2>4. StateOK' /\ SinkInv'
      BY <1>1, <2>1, <2>2, <2>3 DEF StateOK, SinkInv
    <2>5. ThreadInv(t)'
      BY <1>1, <2>1, <2>2 DEF ThreadInv, HookInv, EntryInv, ListInv, FanOutInv, PassInv
    <2>6. ASSUME NEW u \in Threads \ {t} PROVE Undisturbed(u)
      BY <2>1, <2>2, <2>3 DEF Undisturbed, IsReady
    <2> QED BY <2>1, <2>4, <2>5, <2>6 DEF StepOK, EndsAtTheEnd
  <1> QED BY <1>2, <1>3, ListCallsOK, PassCallsOK, SinkStepsOK DEF MultiStep

\* An entry of a file's logger: the file may be closed for all to see
LEMMA FileWritten ==
  ASSUME RoutingInv, NEW l \in Sinks, WriteToFile(l)
  PROVE  RoutingInv' /\ \A t \in Threads : EndsAtTheEnd(t) /\ Undisturbed(t)
  <1>1. /\ StateOK /\ SinkInv /\ m_IsInitialized \in [Sinks \cup {Multi} -> BOOLEAN] /\ isOpen \in [Sinks -> BOOLEAN]
        /\ seen \in [Threads -> Seen]
    BY DEF RoutingInv, StateOK
  <1>2. UNCHANGED <<instance, m_Sinks, hasHook>> /\ UNCHANGED <<pc, at, record, todo, ok>>
    BY DEF WriteToFile, callVars
  <1>3. \/ /\ l \in instance.perWrite /\ isOpen' = [isOpen EXCEPT ![l] = FALSE] /\ seen' = seen
           /\ \E opens \in BOOLEAN : m_IsInitialized' = [m_IsInitialized EXCEPT ![l] = @ \/ opens]
        \/ /\ m_IsInitialized[l] /\ m_IsInitialized' = m_IsInitialized /\ isOpen' = [isOpen EXCEPT ![l] = ~@]
           /\ seen' = IF isOpen[l] THEN Closed(l) ELSE seen
    BY DEF WriteToFile
  <1>4. /\ m_IsInitialized' \in [Sinks \cup {Multi} -> BOOLEAN] /\ isOpen' \in [Sinks -> BOOLEAN]
        /\ \A k \in Sinks : m_IsInitialized[k] => m_IsInitialized'[k]
        /\ \A k \in Sinks \ {l} : isOpen'[k] = isOpen[k]
    BY <1>1, <1>3
  <1>5. /\ seen' \in [Threads -> Seen]
        /\ \A u \in Threads : /\ seen'[u].called = seen[u].called /\ seen[u].closed \subseteq seen'[u].closed
                              /\ seen'[u].all = seen[u].all /\ seen'[u].once = seen[u].once
                              /\ isOpen[l] => l \in instance.perWrite \/ l \in seen'[u].closed
    BY <1>1, <1>3, ClosedSeen
  <1>6. StateOK'
    BY <1>1, <1>2, <1>4, <1>5 DEF StateOK
  <1>7. isOpen'[l] => m_IsInitialized'[l]
    BY <1>1, <1>3 DEF SinkInv
  <1>8. SinkInv'
    BY <1>1, <1>2, <1>4, <1>7 DEF SinkInv
  <1>9. ASSUME NEW u \in Threads, NEW k \in Sinks, IsReady(k) PROVE IsReady(k)' \/ k \in seen'[u].closed
    BY <1>2, <1>4, <1>5, <1>9 DEF IsReady
  <1>10. ASSUME NEW u \in Threads PROVE Undisturbed(u)
    BY <1>2, <1>5, <1>9 DEF Undisturbed
  <1> QED BY <1>1, <1>2, <1>6, <1>8, <1>10, OthersKeep DEF RoutingInv, EndsAtTheEnd

LEMMA InstanceStays ==
  ASSUME RoutingInv, [Next]_vars
  PROVE  instance' = instance
  <1>1. ASSUME NEW t \in Threads, LogStep(t) PROVE instance' = instance
    BY <1>1 DEF LogStep, Log, WriteToCategory, WriteToSink, WriteToMulti, RunHook, WriteRecord, FanOut, Unchanged
  <1>2. ASSUME NEW t \in Threads, MultiStep(t) PROVE instance' = instance
    BY <1>2 DEF MultiStep, AddLogger, RemoveLogger, RemoveAllLoggers, ListCall, Call, Initialize, Reconfigure, Open,
       Close, Flush, StartPass, SnapshotSinks, Unchanged, InitializeSink, ReconfigureSink, OpenSink, CloseSink,
       FlushSink, PassStep, FinishPass
  <1>3. ASSUME NEW t \in Threads, LevelStep(t) PROVE instance' = instance
    BY <1>3 DEF LevelStep, SetMinimumLevel, ResetMinimumLevel, SetEnabled, MakeCategory, DestroyCategory, ApplyLevels,
       Call, ApplyRule, FinishApply
  <1>4. ASSUME NEW l \in Sinks, WriteToFile(l) PROVE instance' = instance
    BY <1>4 DEF WriteToFile
  <1> QED BY <1>1, <1>2, <1>3, <1>4 DEF Next, AllIdle, vars

\* What a step of the multi-log leaves: the invariant, and a call that has ended
LEMMA NextOK ==
  ASSUME RoutingInv, [Next]_vars
  PROVE  RoutingInv' /\ \A t \in Threads : EndsAtTheEnd(t)
  <1>1. ASSUME NEW t \in Threads, LogStep(t) \/ MultiStep(t) \/ LevelStep(t)
        PROVE  RoutingInv' /\ \A u \in Threads : EndsAtTheEnd(u)
    <2>1. StepOK(t)
      BY <1>1, LogStepsOK, MultiStepsOK, LevelCallsOK
    <2>2. \A u \in Threads : EndsAtTheEnd(u)
      BY <2>1 DEF StepOK, Undisturbed, EndsAtTheEnd
    <2> QED BY <2>1, <2>2, InstanceStays, StepKeeps
  <1>2. CASE UNCHANGED vars
    <2>1. /\ UNCHANGED <<instance, m_Sinks, m_IsInitialized, isOpen, hasHook>>
          /\ UNCHANGED <<pc, at, record, todo, ok, seen>>
      BY <1>2 DEF vars, multiVars, callVars
    <2>2. StateOK' /\ SinkInv'
      BY <2>1 DEF RoutingInv, StateOK, SinkInv
    <2>3. ASSUME NEW t \in Threads PROVE ThreadInv(t)'
      BY <2>1 DEF RoutingInv, ThreadInv, HookInv, EntryInv, ListInv, FanOutInv, PassInv, IsReady
    <2> QED BY <2>1, <2>2, <2>3 DEF EndsAtTheEnd, RoutingInv
  <1> QED BY <1>1, <1>2, FileWritten DEF Next, AllIdle

LEMMA Invariant == Spec => []RoutingInv
  BY InitOK, NextOK, PTL DEF Spec

\* A logger runs only a hook of its own and of the multi-log its hook, once; an
\* entry is passed once to each logger listed during the whole call and to none
\* that never was, whatever AddLogger() and RemoveLogger() of other threads do
\* while WriteRecord() calls the loggers.
THEOREM FanOutOnceHolds == Spec => FanOutOnce
  <1>1. ASSUME RoutingInv, RoutingInv', [Next]_vars
        PROVE  /\ HookRunsOnce'
               /\ \A t \in Threads :
                    pc[t] = "fan out" /\ pc'[t] = "idle" =>
                        LET called == seen[t].called
                            sinks == {called[i].sink : i \in DOMAIN called}
                        IN  /\ \A i, j \in DOMAIN called : called[i].sink = called[j].sink => i = j
                            /\ seen[t].all \subseteq sinks /\ sinks \subseteq seen[t].once
    <2>1. HookRunsOnce'
      BY <1>1 DEF HookRunsOnce, RoutingInv, ThreadInv, HookInv
    <2>2. ASSUME NEW t \in Threads, pc[t] = "fan out", pc'[t] = "idle"
          PROVE  /\ CalledOnce(seen[t]) /\ seen[t].all \subseteq CalledSinks(seen[t])
                 /\ CalledSinks(seen[t]) \subseteq seen[t].once
      <3>1. todo[t] = <<>>
        BY <1>1, <2>2, NextOK DEF EndsAtTheEnd
      <3>2. ToSet(todo[t]) = {}
        BY <3>1 DEF ToSet
      <3> QED BY <1>1, <2>2, <3>2 DEF RoutingInv, ThreadInv, FanOutInv
    <2> QED BY <2>1, <2>2 DEF CalledOnce, CalledSinks
  <1> QED BY <1>1, Invariant, PTL DEF Spec, FanOutOnce

\* Initialize() of a multi-log returns true only if every logger listed during
\* the whole call is initialized, and open but for a file that is opened for each
\* entry, except those closed meanwhile, whatever other calls initialize,
\* reconfigure, open, close, add or remove, and whatever is written.
THEOREM InitializeTellsReadyHolds == Spec => InitializeTellsReady
  <1>1. ASSUME RoutingInv, [Next]_vars
        PROVE  \A t \in Threads :
                   pc[t] = "pass" /\ pc'[t] = "idle" /\ record[t].op = "Initialize" /\ ok[t] =>
                       \A l \in seen[t].all \ seen[t].closed : IsReady(l)
    <2>1. ASSUME NEW t \in Threads, pc[t] = "pass", pc'[t] = "idle", record[t].op = "Initialize", ok[t],
                 NEW l \in seen[t].all \ seen[t].closed
          PROVE  IsReady(l)
      <3>1. todo[t] = <<>>
        BY <1>1, <2>1, NextOK DEF EndsAtTheEnd
      <3>2. ToSet(todo[t]) = {}
        BY <3>1 DEF ToSet
      <3> QED BY <1>1, <2>1, <3>2 DEF RoutingInv, ThreadInv, PassInv
    <2> QED BY <2>1
  <1> QED BY <1>1, Invariant, PTL DEF Spec, InitializeTellsReady

----------------------------------------------------------------------------
(* What ShouldLog() tells of an entry on its way *)

EntryLabels == {"write", "hook", "record", "fan out"}
Sees(sinks, r) == \E i \in DOMAIN sinks : PassesLevelGate(sinks[i], r)

\* While no other thread has changed a level, a rule or the list, ShouldLog() of
\* the rest of the way is what it was for the whole
AskInv(t) ==
    /\ pc[t] = "write" => at[t] \in Loggers
    /\ seen[t].quiet =>
          /\ pc[t] = "write" => (seen[t].asked <=> ShouldLog(at[t], record[t]))
          /\ pc[t] \in {"hook", "record"} =>
                PassesLevelGate(Multi, record[t]) /\ (seen[t].asked <=> Sees(m_Sinks, SinkRecord(record[t])))
          /\ pc[t] = "fan out" =>
                (seen[t].asked <=> \/ \E i \in DOMAIN seen[t].called : seen[t].called[i].took
                                   \/ Sees(todo[t], record[t]))
AskedInv == DOMAIN calls = Threads /\ \A t \in Threads : AskInv(t)

levelVars == <<m_MinimumLevel, m_IsEnabled, m_Level, m_Sinks>>

\* The fields the gates read
LEMMA GateFields ==
  \A r : DOMAIN r = Entry =>
      /\ \A n : LET x == [r EXCEPT !.hooks = n]
                IN  x.level = r.level /\ x.forced = r.forced /\ x.categoryLevel = r.categoryLevel
      /\ \A v : LET x == [r EXCEPT !.categoryLevel = v]
                IN  /\ DOMAIN x = Entry /\ x.level = r.level /\ x.forced = r.forced /\ x.categoryLevel = v
      /\ \A c : LET x == WithCategory(c, r)
                IN  /\ x.level = r.level /\ x.forced = r.forced
                    /\ x.categoryLevel = IF r.categoryLevel = NoOwnLevel THEN m_Level[c] ELSE r.categoryLevel
  BY DEF Entry, WithCategory

LEMMA SameGate ==
  ASSUME NEW r, NEW x, x.level = r.level, x.forced = r.forced, x.categoryLevel = r.categoryLevel
  PROVE  \A l : PassesLevelGate(l, x) = PassesLevelGate(l, r)
  BY DEF PassesLevelGate, GetMinimumLevelFor

\* One of the loggers that write, or what a category makes of the entry
LEMMA SameHere ==
  ASSUME NEW l, NEW r, NEW x, DOMAIN r = Entry, DOMAIN x = Entry,
         x.level = r.level, x.forced = r.forced, x.categoryLevel = r.categoryLevel
  PROVE  ShouldLogHere(l, x) <=> ShouldLogHere(l, r)
  <1>1. SinkRecord(x).level = SinkRecord(r).level /\ SinkRecord(x).forced = SinkRecord(r).forced
        /\ SinkRecord(x).categoryLevel = SinkRecord(r).categoryLevel
    BY GateFields DEF SinkRecord
  <1>2. \A k : PassesLevelGate(k, x) = PassesLevelGate(k, r)
    BY SameGate
  <1>3. \A k : PassesLevelGate(k, SinkRecord(x)) = PassesLevelGate(k, SinkRecord(r))
    BY <1>1, SameGate
  <1> QED BY <1>2, <1>3 DEF ShouldLogHere

LEMMA PathType ==
  ASSUME NEW c \in Categories
  PROVE  /\ Path[c] \in Seq(Categories) /\ Len(Path[c]) \in Nat \ {0} /\ Path[c][1] = c
         /\ Wrapped[c] \notin Categories => Path[c] = <<c>>
         /\ Wrapped[c] \in Categories =>
               /\ Len(Path[c]) = Len(Path[Wrapped[c]]) + 1
               /\ \A i \in 1..Len(Path[Wrapped[c]]) : Path[c][i + 1] = Path[Wrapped[c]][i]
  <1>1. Path[c] \in Seq(Categories) /\ Path[c] = IF Wrapped[c] \in Categories THEN <<c>> \o Path[Wrapped[c]] ELSE <<c>>
    BY PathAssumption
  <1>2. CASE Wrapped[c] \notin Categories
    BY <1>1, <1>2
  <1>3. CASE Wrapped[c] \in Categories
    <2>1. PICK rest \in Seq(Categories) : rest = Path[Wrapped[c]]
      BY <1>3, PathAssumption
    <2>2. Path[c] = <<c>> \o rest
      BY <1>1, <1>3, <2>1
    <2>3. Len(<<c>> \o rest) = Len(rest) + 1 /\ (<<c>> \o rest)[1] = c /\ Len(rest) \in Nat
          /\ \A i \in 1..Len(rest) : (<<c>> \o rest)[i + 1] = rest[i]
      OBVIOUS
    <2> QED BY <1>1, <1>3, <2>1, <2>2, <2>3
  <1> QED BY <1>2, <1>3

\* The level of a category's own counts before those of the categories it wraps
LEMMA LevelOnTheWay ==
  ASSUME NEW c \in Categories
  PROVE  FirstLevel(c) = IF m_Level[c] # NoOwnLevel THEN m_Level[c]
                         ELSE IF Wrapped[c] \in Categories THEN FirstLevel(Wrapped[c]) ELSE NoOwnLevel
  <1>1. PICK p \in Seq(Categories) : p = Path[c] /\ Len(p) \in Nat \ {0} /\ p[1] = c
    BY PathType
  <1>2. PICK n \in Nat \ {0} : n = Len(p) /\ DOMAIN p = 1..n /\ 1 \in 1..n
    BY <1>1
  <1>3. PICK own : own = {i \in 1..n : m_Level[p[i]] # NoOwnLevel}
    OBVIOUS
  <1>4. FirstLevel(c) = IF own = {} THEN NoOwnLevel ELSE m_Level[p[CHOOSE i \in own : \A j \in own : i <= j]]
    BY <1>1, <1>2, <1>3 DEF FirstLevel
  <1>5. \A i \in own : i \in Nat /\ 1 <= i
    BY <1>2, <1>3
  <1>6. CASE m_Level[c] # NoOwnLevel
    <2>1. 1 \in own /\ \A j \in own : 1 <= j
      BY <1>1, <1>2, <1>3, <1>5, <1>6
    <2>2. \A i \in own : (\A j \in own : i <= j) => i = 1
      BY <1>5, <2>1
    <2>3. (CHOOSE i \in own : \A j \in own : i <= j) = 1
      BY <2>1, <2>2
    <2> QED BY <1>1, <1>4, <1>6, <2>1, <2>3
  <1>7. CASE m_Level[c] = NoOwnLevel /\ Wrapped[c] \notin Categories
    <2>1. p = <<c>>
      BY <1>1, <1>7, PathType
    <2>2. own = {}
      BY <1>2, <1>3, <1>7, <2>1
    <2> QED BY <1>4, <1>7, <2>2
  <1>8. CASE m_Level[c] = NoOwnLevel /\ Wrapped[c] \in Categories
    <2>1. PICK q \in Seq(Categories) : q = Path[Wrapped[c]] /\ Len(q) \in Nat \ {0}
      BY <1>8, PathType
    <2>2. n = Len(q) + 1 /\ \A i \in 1..Len(q) : p[i + 1] = q[i]
      BY <1>1, <1>2, <1>8, <2>1, PathType
    <2>3. PICK m \in Nat \ {0} : m = Len(q) /\ DOMAIN q = 1..m /\ n = m + 1
      BY <2>1, <2>2
    <2>4. PICK rest : rest = {i \in 1..m : m_Level[q[i]] # NoOwnLevel}
      OBVIOUS
    <2>5. FirstLevel(Wrapped[c]) = IF rest = {} THEN NoOwnLevel ELSE m_Level[q[CHOOSE i \in rest : \A j \in rest : i <= j]]
      BY <2>1, <2>3, <2>4 DEF FirstLevel
    <2>6. \A i \in rest : i \in Nat /\ i + 1 \in own
      BY <1>3, <2>2, <2>3, <2>4
    <2>7. \A i \in own : \E j \in rest : i = j + 1
      <3> TAKE i \in own
      <3>1. i \in 1..n /\ i # 1
        BY <1>1, <1>3, <1>8
      <3>2. PICK j \in 1..m : i = j + 1
        <4>1. i - 1 \in 1..m /\ i = (i - 1) + 1
          BY <2>3, <3>1
        <4> QED BY <4>1
      <3>3. j \in rest
        BY <1>3, <2>2, <2>3, <2>4, <3>2
      <3> QED BY <3>2, <3>3
    <2>8. CASE rest = {}
      BY <1>4, <1>8, <2>5, <2>7, <2>8
    <2>9. CASE rest # {}
      <3>1. PICK k \in rest : \A j \in rest : k <= j
        BY <2>6, <2>9, LeastOf
      <3>2. \A i \in rest : (\A j \in rest : i <= j) => i = k
        BY <2>6, <3>1
      <3>3. (CHOOSE i \in rest : \A j \in rest : i <= j) = k
        BY <3>1, <3>2
      <3>4. k + 1 \in own /\ \A j \in own : k + 1 <= j
        BY <2>6, <2>7, <3>1
      <3>5. \A i \in own : (\A j \in own : i <= j) => i = k + 1
        BY <1>5, <2>6, <3>4
      <3>6. (CHOOSE i \in own : \A j \in own : i <= j) = k + 1
        BY <3>4, <3>5
      <3>7. p[k + 1] = q[k]
        BY <2>2, <2>3, <2>4, <3>1
      <3> QED BY <1>4, <1>8, <2>5, <2>9, <3>3, <3>4, <3>6, <3>7
    <2> QED BY <2>8, <2>9
  <1> QED BY <1>6, <1>7, <1>8

LEMMA PathEnds ==
  ASSUME NEW c \in Categories
  PROVE  /\ Base(c) = IF Wrapped[c] \in Categories THEN Base(Wrapped[c]) ELSE Wrapped[c]
         /\ (\A i \in DOMAIN Path[c] : m_IsEnabled[Path[c][i]]) <=>
               /\ m_IsEnabled[c]
               /\ Wrapped[c] \in Categories => \A i \in DOMAIN Path[Wrapped[c]] : m_IsEnabled[Path[Wrapped[c]][i]]
  <1>1. PICK p \in Seq(Categories) : p = Path[c] /\ Len(p) \in Nat \ {0} /\ p[1] = c
    BY PathType
  <1>2. PICK n \in Nat \ {0} : n = Len(p) /\ DOMAIN p = 1..n /\ 1 \in 1..n
    BY <1>1
  <1>3. CASE Wrapped[c] \notin Categories
    <2>1. p = <<c>>
      BY <1>1, <1>3, PathType
    <2> QED BY <1>1, <1>3, <2>1 DEF Base, Last
  <1>4. CASE Wrapped[c] \in Categories
    <2>1. PICK q \in Seq(Categories) : q = Path[Wrapped[c]] /\ Len(q) \in Nat \ {0}
      BY <1>4, PathType
    <2>2. n = Len(q) + 1 /\ \A i \in 1..Len(q) : p[i + 1] = q[i]
      BY <1>1, <1>2, <1>4, <2>1, PathType
    <2>3. PICK m \in Nat \ {0} : m = Len(q) /\ DOMAIN q = 1..m /\ n = m + 1 /\ m \in 1..m
      BY <2>1, <2>2
    <2>4. p[n] = q[m]
      BY <2>2, <2>3
    <2>5. Base(c) = Base(Wrapped[c])
      BY <1>1, <1>2, <1>4, <2>1, <2>3, <2>4 DEF Base, Last
    <2>6. (\A i \in 1..m : i + 1 \in 1..n) /\ \A i \in 1..n : i = 1 \/ (i - 1 \in 1..m /\ i = (i - 1) + 1)
      BY <2>3
    <2>7. ASSUME m_IsEnabled[c], \A i \in 1..m : m_IsEnabled[q[i]], NEW i \in 1..n PROVE m_IsEnabled[p[i]]
      <3>1. CASE i = 1
        BY <1>1, <2>7, <3>1
      <3>2. CASE i # 1
        <4>1. PICK j \in 1..m : i = j + 1
          BY <2>6, <3>2
        <4> QED BY <2>2, <2>3, <2>7, <4>1
      <3> QED BY <3>1, <3>2
    <2>8. ASSUME \A i \in 1..n : m_IsEnabled[p[i]] PROVE m_IsEnabled[c] /\ \A i \in 1..m : m_IsEnabled[q[i]]
      <3>1. m_IsEnabled[c]
        BY <1>1, <1>2, <2>8
      <3>2. ASSUME NEW i \in 1..m PROVE m_IsEnabled[q[i]]
        <4>1. i + 1 \in 1..n /\ p[i + 1] = q[i]
          BY <2>2, <2>3, <2>6
        <4> QED BY <2>8, <4>1
      <3> QED BY <3>1, <3>2
    <2> QED BY <1>1, <1>2, <1>4, <2>1, <2>3, <2>5, <2>7, <2>8
  <1> QED BY <1>3, <1>4

\* ShouldLog() of a category is that of the logger it wraps, of the entry it
\* would pass on
LEMMA CategoryAsks ==
  ASSUME NEW c \in Categories, NEW r, DOMAIN r = Entry
  PROVE  ShouldLog(c, r) <=> m_IsEnabled[c] /\ ShouldLog(Wrapped[c], WithCategory(c, r))
  <1>1. PICK x : x = WithCategory(c, r)
    OBVIOUS
  <1>2. /\ DOMAIN x = Entry /\ x.level = r.level /\ x.forced = r.forced
        /\ x.categoryLevel = IF r.categoryLevel = NoOwnLevel THEN m_Level[c] ELSE r.categoryLevel
    BY <1>1, GateFields, EntryFields
  <1>3. PICK y : y = [r EXCEPT !.categoryLevel = IF r.categoryLevel = NoOwnLevel THEN FirstLevel(c) ELSE r.categoryLevel]
    OBVIOUS
  <1>4. /\ DOMAIN y = Entry /\ y.level = r.level /\ y.forced = r.forced
        /\ y.categoryLevel = IF r.categoryLevel = NoOwnLevel THEN FirstLevel(c) ELSE r.categoryLevel
    BY <1>3, GateFields
  <1>5. ShouldLog(c, r) <=> (\A i \in DOMAIN Path[c] : m_IsEnabled[Path[c][i]]) /\ ShouldLogHere(Base(c), y)
    BY <1>3 DEF ShouldLog
  <1>6. CASE Wrapped[c] \notin Categories
    <2>1. ShouldLog(Wrapped[c], x) <=> ShouldLogHere(Wrapped[c], x)
      BY <1>6 DEF ShouldLog
    <2>2. FirstLevel(c) = m_Level[c]
      BY <1>6, LevelOnTheWay
    <2>3. ShouldLogHere(Wrapped[c], y) <=> ShouldLogHere(Wrapped[c], x)
      BY <1>2, <1>4, <2>2, SameHere
    <2> QED BY <1>1, <1>5, <1>6, <2>1, <2>3, PathEnds
  <1>7. CASE Wrapped[c] \in Categories
    <2>1. PICK z : z = [x EXCEPT !.categoryLevel = IF x.categoryLevel = NoOwnLevel THEN FirstLevel(Wrapped[c]) ELSE x.categoryLevel]
      OBVIOUS
    <2>2. /\ DOMAIN z = Entry /\ z.level = x.level /\ z.forced = x.forced
          /\ z.categoryLevel = IF x.categoryLevel = NoOwnLevel THEN FirstLevel(Wrapped[c]) ELSE x.categoryLevel
      BY <1>2, <2>1, GateFields
    <2>3. ShouldLog(Wrapped[c], x) <=>
              (\A i \in DOMAIN Path[Wrapped[c]] : m_IsEnabled[Path[Wrapped[c]][i]]) /\ ShouldLogHere(Base(Wrapped[c]), z)
      BY <1>7, <2>1 DEF ShouldLog
    <2>4. z.categoryLevel = y.categoryLevel
      BY <1>2, <1>4, <1>7, <2>2, LevelOnTheWay
    <2>5. \A l : ShouldLogHere(l, y) <=> ShouldLogHere(l, z)
      BY <1>2, <1>4, <2>2, <2>4, SameHere
    <2> QED BY <1>1, <1>5, <1>7, <2>3, <2>5, PathEnds
  <1> QED BY <1>6, <1>7

\* While the levels and the list stay, the gates tell the same
LEMMA SameAsked ==
  ASSUME UNCHANGED levelVars
  PROVE  /\ \A l, r : PassesLevelGate(l, r)' <=> PassesLevelGate(l, r)
         /\ \A s, r : Sees(s, r)' <=> Sees(s, r)
         /\ \A l, r : ShouldLog(l, r)' <=> ShouldLog(l, r)
  <1>1. m_MinimumLevel' = m_MinimumLevel /\ m_IsEnabled' = m_IsEnabled /\ m_Level' = m_Level /\ m_Sinks' = m_Sinks
    BY DEF levelVars
  <1>2. \A l, r : PassesLevelGate(l, r)' <=> PassesLevelGate(l, r)
    BY <1>1 DEF PassesLevelGate, GetMinimumLevelFor
  <1>3. \A s, r : Sees(s, r)' <=> Sees(s, r)
    BY <1>2 DEF Sees
  <1>4. \A l, r : ShouldLogHere(l, r)' <=> ShouldLogHere(l, r)
    BY <1>1, <1>2 DEF ShouldLogHere
  <1>5. \A c : FirstLevel(c)' = FirstLevel(c)
    BY <1>1 DEF FirstLevel
  <1>6. \A l, r : ShouldLog(l, r)' <=> ShouldLog(l, r)
    BY <1>1, <1>4, <1>5 DEF ShouldLog
  <1> QED BY <1>2, <1>3, <1>6

\* Another thread's step changes the levels or the list only if the call is told
Quiet(t) ==
    /\ \A u \in Threads \ {t} : seen'[u].asked = seen[u].asked
    /\ \/ \A u \in Threads \ {t} : ~seen'[u].quiet
       \/ (\A u \in Threads \ {t} : seen'[u].quiet = seen[u].quiet) /\ UNCHANGED levelVars
    /\ DOMAIN calls = Threads => DOMAIN calls' = Threads /\ \A u \in Threads \ {t} : calls'[u] = calls[u]

LEMMA QuietHistories ==
  ASSUME StateOK, NEW t \in Threads
  PROVE  /\ \A sinks : \A u \in Threads \ {t} : Disturbed(t, sinks)[u].asked = seen[u].asked /\ ~Disturbed(t, sinks)[u].quiet
         /\ \A l : \A u \in Threads : Closed(l)[u].asked = seen[u].asked /\ Closed(l)[u].quiet = seen[u].quiet
  BY DEF StateOK, Seen, Disturbed, Closed

LEMMA QuietSteps ==
  ASSUME RoutingInv, NEW t \in Threads, LogStep(t) \/ MultiStep(t) \/ LevelStep(t)
  PROVE  Quiet(t)
  <1>1. StateOK /\ DOMAIN seen = Threads
    BY DEF RoutingInv, StateOK
  \* The history is told of the step, or only t's own changes
  <1>2. ASSUME NEW sinks, NEW h, seen' = [Disturbed(t, sinks) EXCEPT ![t] = h] \/ seen' = Disturbed(t, sinks)
        PROVE  \A u \in Threads \ {t} : seen'[u].asked = seen[u].asked /\ ~seen'[u].quiet
    <2>1. DOMAIN Disturbed(t, sinks) = Threads
      BY DEF Disturbed
    <2>2. \A u \in Threads \ {t} : seen'[u] = Disturbed(t, sinks)[u]
      BY <1>2, <2>1
    <2> QED BY <1>1, <2>2, QuietHistories
  <1>3. ASSUME NEW h, seen' = [seen EXCEPT ![t] = h]
        PROVE  \A u \in Threads \ {t} : seen'[u].asked = seen[u].asked /\ seen'[u].quiet = seen[u].quiet
    BY <1>1, <1>3
  <1>4. ASSUME NEW l, Called(t, l)
        PROVE  \A u \in Threads \ {t} : seen'[u].asked = seen[u].asked /\ seen'[u].quiet = seen[u].quiet
    BY <1>1, <1>4 DEF Called
  <1>5. ASSUME NEW n, calls' = [calls EXCEPT ![t] = n] \/ calls' = calls
        PROVE  DOMAIN calls = Threads => DOMAIN calls' = Threads /\ \A u \in Threads \ {t} : calls'[u] = calls[u]
    BY <1>5
  <1>6. CASE LogStep(t)
    <2>1. ASSUME NEW form, NEW l, NEW entry, Log(t, form, l, entry) PROVE Quiet(t)
      <3>1. /\ calls' = [calls EXCEPT ![t] = @ + 1] /\ UNCHANGED levelVars
            /\ \E h : seen' = [seen EXCEPT ![t] = h]
        BY <2>1 DEF Log, multiVars, gateVars, categoryVars, levelVars
      <3> QED BY <1>3, <1>5, <3>1 DEF Quiet
    <2>2. ASSUME Unchanged, seen' = seen \/ \E l : Called(t, l) PROVE Quiet(t)
      <3>1. calls' = calls /\ UNCHANGED levelVars
        BY <2>2 DEF Unchanged, multiVars, gateVars, categoryVars, levelVars
      <3> QED BY <1>4, <1>5, <2>2, <3>1 DEF Quiet
    <2>3. CASE WriteToCategory(t) \/ WriteToMulti(t) \/ RunHook(t) \/ WriteRecord(t)
      BY <2>2, <2>3 DEF WriteToCategory, WriteToMulti, RunHook, WriteRecord
    <2>4. CASE WriteToSink(t)
      BY <2>2, <2>4 DEF WriteToSink
    <2>5. CASE FanOut(t)
      BY <2>2, <2>5 DEF FanOut
    <2> QED BY <1>6, <2>1, <2>3, <2>4, <2>5 DEF LogStep
  <1>7. ASSUME NEW op, NEW sinks, Call(t, op, Disturbed(t, sinks)) PROVE Quiet(t)
    <2>1. seen' = [Disturbed(t, sinks) EXCEPT ![t] = NothingSeen] /\ calls' = [calls EXCEPT ![t] = @ + 1]
      BY <1>7 DEF Call
    <2> QED BY <1>2, <1>5, <2>1 DEF Quiet
  <1>8. ASSUME NEW op, Call(t, op, seen), UNCHANGED levelVars PROVE Quiet(t)
    <2>1. seen' = [seen EXCEPT ![t] = NothingSeen] /\ calls' = [calls EXCEPT ![t] = @ + 1]
      BY <1>8 DEF Call
    <2> QED BY <1>3, <1>5, <1>8, <2>1 DEF Quiet
  <1>9. CASE LevelStep(t)
    <2>1. ASSUME NEW l, NEW level, SetMinimumLevel(t, l, level) PROVE Quiet(t)
      BY <1>7, <2>1 DEF SetMinimumLevel
    <2>2. ASSUME NEW c, ResetMinimumLevel(t, c) PROVE Quiet(t)
      BY <1>7, <2>2 DEF ResetMinimumLevel
    <2>3. ASSUME NEW l, NEW enabled, SetEnabled(t, l, enabled) PROVE Quiet(t)
      BY <1>7, <2>3 DEF SetEnabled
    <2>4. ASSUME NEW c, MakeCategory(t, c) PROVE Quiet(t)
      BY <1>7, <2>4 DEF MakeCategory
    <2>5. ASSUME NEW c, DestroyCategory(t, c) PROVE Quiet(t)
      BY <1>8, <2>5 DEF DestroyCategory, multiVars, gateVars, levelVars
    <2>6. ASSUME NEW spec, ApplyLevels(t, spec) PROVE Quiet(t)
      BY <1>8, <2>6 DEF ApplyLevels, multiVars, gateVars, levelVars
    <2>7. CASE ApplyRule(t)
      BY <1>2, <1>5, <2>7 DEF ApplyRule, Quiet
    <2>8. CASE FinishApply(t)
      BY <1>5, <2>8 DEF FinishApply, multiVars, gateVars, levelVars, Quiet
    <2> QED BY <1>9, <2>1, <2>2, <2>3, <2>4, <2>5, <2>6, <2>7, <2>8 DEF LevelStep
  <1>10. CASE MultiStep(t)
    <2>1. ASSUME NEW l, AddLogger(t, l) PROVE Quiet(t)
      BY <1>7, <2>1 DEF AddLogger, ListCall
    <2>2. ASSUME NEW l, RemoveLogger(t, l) PROVE Quiet(t)
      BY <1>7, <2>2 DEF RemoveLogger, ListCall
    <2>3. CASE RemoveAllLoggers(t)
      BY <1>7, <2>3 DEF RemoveAllLoggers, ListCall
    <2>4. ASSUME NEW op, NEW config, StartPass(t, op, config),
                 \/ m_MinimumLevel' = m_MinimumLevel /\ \E h : seen' = [seen EXCEPT ![t] = h]
                 \/ \E h : seen' = [Disturbed(t, m_Sinks) EXCEPT ![t] = h]
          PROVE  Quiet(t)
      <3>1. calls' = [calls EXCEPT ![t] = @ + 1] /\ UNCHANGED <<m_Sinks, m_IsEnabled, m_Level>>
        BY <2>4 DEF StartPass, categoryVars
      <3>2. CASE m_MinimumLevel' = m_MinimumLevel /\ \E h : seen' = [seen EXCEPT ![t] = h]
        BY <1>3, <1>5, <3>1, <3>2 DEF Quiet, levelVars
      <3>3. CASE \E h : seen' = [Disturbed(t, m_Sinks) EXCEPT ![t] = h]
        BY <1>2, <1>5, <3>1, <3>3 DEF Quiet
      <3> QED BY <2>4, <3>2, <3>3
    <2>5. ASSUME NEW config, Initialize(t, config) PROVE Quiet(t)
      <3>1. \/ m_MinimumLevel' = m_MinimumLevel /\ \E h : seen' = [seen EXCEPT ![t] = h]
            \/ \E h : seen' = [Disturbed(t, m_Sinks) EXCEPT ![t] = h]
        BY <2>5 DEF Initialize, Refuse
      <3> QED BY <2>4, <2>5, <3>1 DEF Initialize
    <2>6. ASSUME NEW config, Reconfigure(t, config) PROVE Quiet(t)
      <3>1. m_MinimumLevel' = m_MinimumLevel /\ \E h : seen' = [seen EXCEPT ![t] = h]
        BY <2>6 DEF Reconfigure, Refuse
      <3> QED BY <2>4, <2>6, <3>1 DEF Reconfigure
    <2>7. CASE Open(t) \/ Close(t) \/ Flush(t)
      <3>1. Passing(t) /\ \E op : StartPass(t, op, NoConfig)
        BY <2>7 DEF Open, Close, Flush
      <3>2. m_MinimumLevel' = m_MinimumLevel /\ \E h : seen' = [seen EXCEPT ![t] = h]
        BY <3>1 DEF Passing
      <3> QED BY <2>4, <3>1, <3>2
    <2>8. CASE SnapshotSinks(t)
      BY <1>5, <2>8 DEF SnapshotSinks, Unchanged, multiVars, gateVars, categoryVars, levelVars, Quiet
    <2>9. CASE FinishPass(t)
      BY <1>5, <2>9 DEF FinishPass, gateVars, categoryVars, levelVars, Quiet
    <2>10. ASSUME NEW op, PassStep(t, op),
                  \/ m_MinimumLevel' = m_MinimumLevel /\ (seen' = seen \/ \E l : seen' = Closed(l))
                  \/ seen' = Disturbed(t, m_Sinks)
           PROVE  Quiet(t)
      <3>1. calls' = calls /\ UNCHANGED <<m_Sinks, m_IsEnabled, m_Level>>
        BY <2>10 DEF PassStep, categoryVars
      <3>2. CASE m_MinimumLevel' = m_MinimumLevel /\ (seen' = seen \/ \E l : seen' = Closed(l))
        <4>1. \A u \in Threads \ {t} : seen'[u].asked = seen[u].asked /\ seen'[u].quiet = seen[u].quiet
          BY <1>1, <3>2, QuietHistories
        <4> QED BY <1>5, <3>1, <3>2, <4>1 DEF Quiet, levelVars
      <3>3. CASE seen' = Disturbed(t, m_Sinks)
        BY <1>2, <1>5, <3>1, <3>3 DEF Quiet
      <3> QED BY <2>10, <3>2, <3>3
    <2>11. CASE InitializeSink(t)
      <3>1. PassStep(t, "Initialize")
        BY <2>11 DEF InitializeSink
      <3>2. \/ m_MinimumLevel' = m_MinimumLevel /\ seen' = seen
            \/ seen' = Disturbed(t, m_Sinks)
        BY <2>11 DEF InitializeSink
      <3> QED BY <2>10, <3>1, <3>2
    <2>12. CASE ReconfigureSink(t)
      <3>1. PassStep(t, "Reconfigure") /\ m_MinimumLevel' = m_MinimumLevel
        BY <2>12 DEF ReconfigureSink
      <3>2. seen' = seen \/ seen' = Closed(NextSink(t))
        BY <2>12 DEF ReconfigureSink
      <3> QED BY <2>10, <3>1, <3>2
    <2>13. CASE OpenSink(t)
      BY <2>10, <2>13 DEF OpenSink
    <2>14. CASE CloseSink(t)
      <3>1. PassStep(t, "Close") /\ m_MinimumLevel' = m_MinimumLevel /\ seen' = Closed(NextSink(t))
        BY <2>14 DEF CloseSink
      <3> QED BY <2>10, <3>1
    <2>15. CASE FlushSink(t)
      BY <2>10, <2>15 DEF FlushSink
    <2> QED BY <1>10, <2>1, <2>2, <2>3, <2>5, <2>6, <2>7, <2>8, <2>9, <2>11, <2>12, <2>13, <2>14, <2>15 DEF MultiStep
  <1> QED BY <1>6, <1>9, <1>10

\* The entry of another thread
LEMMA OthersAsk ==
  ASSUME NEW u \in Threads, AskInv(u), Undisturbed(u), seen'[u].asked = seen[u].asked,
         seen'[u].quiet => seen[u].quiet /\ UNCHANGED levelVars
  PROVE  AskInv(u)'
  <1>1. /\ pc'[u] = pc[u] /\ at'[u] = at[u] /\ record'[u] = record[u] /\ todo'[u] = todo[u]
        /\ seen'[u].called = seen[u].called
    BY DEF Undisturbed
  <1>2. CASE ~seen'[u].quiet
    BY <1>1, <1>2 DEF AskInv
  <1>3. CASE UNCHANGED levelVars /\ seen[u].quiet
    <2>1. m_Sinks' = m_Sinks
      BY <1>3 DEF levelVars
    <2>2. /\ PassesLevelGate(Multi, record[u])' <=> PassesLevelGate(Multi, record[u])
          /\ Sees(m_Sinks, SinkRecord(record[u]))' <=> Sees(m_Sinks, SinkRecord(record[u]))
          /\ Sees(todo[u], record[u])' <=> Sees(todo[u], record[u])
          /\ ShouldLog(at[u], record[u])' <=> ShouldLog(at[u], record[u])
      BY <1>1, <1>3, <2>1, SameAsked
    <2> QED BY <1>1, <1>3, <2>2 DEF AskInv
  <1> QED BY <1>2, <1>3

LEMMA OtherLabels ==
  ASSUME RoutingInv, NEW t \in Threads, MultiStep(t) \/ LevelStep(t)
  PROVE  pc[t] \notin EntryLabels /\ pc'[t] \notin EntryLabels /\ (calls'[t] # calls[t] => ~seen'[t].asked)
  <1>1. DOMAIN seen = Threads /\ DOMAIN pc = Threads
    BY DEF RoutingInv, StateOK
  <1>2. NothingSeen.asked = FALSE /\ Begun(FALSE).asked = FALSE
    BY DEF NothingSeen, Begun
  <1>3. DOMAIN Disturbed(t, m_Sinks) = Threads /\ \A sinks : DOMAIN Disturbed(t, sinks) = Threads
    BY DEF Disturbed
  <1>4. ASSUME NEW op, NEW others, Call(t, op, others), DOMAIN others = Threads
        PROVE  pc[t] = "idle" /\ ~seen'[t].asked
    BY <1>2, <1>4 DEF Call, MayCall
  <1>5. CASE LevelStep(t)
    <2>1. CASE ApplyRule(t) \/ FinishApply(t)
      BY <1>1, <2>1 DEF ApplyRule, FinishApply, Return, EntryLabels
    <2>2. ASSUME NEW l, NEW level, NEW enabled, NEW c,
                 SetMinimumLevel(t, l, level) \/ ResetMinimumLevel(t, l) \/ SetEnabled(t, l, enabled)
                 \/ MakeCategory(t, c) \/ DestroyCategory(t, c)
          PROVE  pc[t] = "idle" /\ pc' = pc /\ ~seen'[t].asked
      BY <1>1, <1>3, <1>4, <2>2 DEF SetMinimumLevel, ResetMinimumLevel, SetEnabled, MakeCategory, DestroyCategory
    <2>3. ASSUME NEW spec, ApplyLevels(t, spec)
          PROVE  pc[t] = "idle" /\ pc'[t] \in {"idle", "apply"} /\ ~seen'[t].asked
      <3>1. pc[t] = "idle" /\ ~seen'[t].asked
        BY <1>1, <1>4, <2>3 DEF ApplyLevels
      <3>2. pc' = pc \/ pc' = [pc EXCEPT ![t] = "apply"]
        BY <2>3 DEF ApplyLevels, Goto
      <3> QED BY <1>1, <3>1, <3>2
    <2> QED BY <1>5, <2>1, <2>2, <2>3 DEF LevelStep, EntryLabels
  <1>6. CASE MultiStep(t)
    <2>1. ASSUME NEW l, AddLogger(t, l) \/ RemoveLogger(t, l) \/ RemoveAllLoggers(t)
          PROVE  pc[t] = "idle" /\ pc' = pc /\ ~seen'[t].asked
      BY <1>1, <1>3, <1>4, <2>1 DEF AddLogger, RemoveLogger, RemoveAllLoggers, ListCall
    <2>2. ASSUME NEW op, NEW config, StartPass(t, op, config),
                 \/ Refuse(t)
                 \/ /\ \E h \in {seen, Disturbed(t, m_Sinks)} : seen' = [h EXCEPT ![t] = Begun(FALSE)]
                    /\ pc' = [pc EXCEPT ![t] = "snapshot"]
          PROVE  pc[t] = "idle" /\ pc'[t] \in {"idle", "snapshot"} /\ ~seen'[t].asked
      <3>1. pc[t] = "idle"
        BY <2>2 DEF StartPass, MayCall
      <3>2. CASE Refuse(t)
        BY <1>1, <1>2, <3>1, <3>2 DEF Refuse
      <3>3. CASE /\ \E h \in {seen, Disturbed(t, m_Sinks)} : seen' = [h EXCEPT ![t] = Begun(FALSE)]
                 /\ pc' = [pc EXCEPT ![t] = "snapshot"]
        BY <1>1, <1>2, <1>3, <3>1, <3>3
      <3> QED BY <2>2, <3>2, <3>3
    <2>3. ASSUME NEW config, Initialize(t, config) \/ Reconfigure(t, config)
          PROVE  pc[t] = "idle" /\ pc'[t] \in {"idle", "snapshot"} /\ ~seen'[t].asked
      BY <2>2, <2>3 DEF Initialize, Reconfigure, Goto
    <2>4. CASE Open(t) \/ Close(t) \/ Flush(t)
      BY <2>2, <2>4 DEF Open, Close, Flush, Passing, Goto, EntryLabels
    <2>5. CASE SnapshotSinks(t)
      BY <1>1, <2>5 DEF SnapshotSinks, Goto, Unchanged, EntryLabels
    <2>6. CASE FinishPass(t)
      BY <1>1, <2>6 DEF FinishPass, Return, EntryLabels
    <2>7. ASSUME NEW op, PassStep(t, op) PROVE pc[t] = "pass" /\ pc' = pc /\ calls' = calls
      BY <2>7 DEF PassStep
    <2>8. CASE InitializeSink(t) \/ ReconfigureSink(t) \/ OpenSink(t) \/ CloseSink(t) \/ FlushSink(t)
      BY <2>7, <2>8 DEF InitializeSink, ReconfigureSink, OpenSink, CloseSink, FlushSink, EntryLabels
    <2> QED BY <1>6, <2>1, <2>3, <2>4, <2>5, <2>6, <2>8 DEF MultiStep, EntryLabels
  <1> QED BY <1>5, <1>6

LEMMA InitAsked == Init => AskedInv
  BY DEF Init, AskedInv, AskInv

\* An entry that is asked about reaches the logger, in whatever form it is logged
LEMMA AskedReach ==
  ASSUME NEW form \in Forms, NEW l \in Loggers, NEW r, DOMAIN r = Entry, ShouldLog(l, r)
  PROVE  Reaches(form, l, r)
  <1>1. r.level # Off /\ m_IsEnabled[l]
    <2>1. CASE l \notin Categories
      BY <2>1 DEF ShouldLog, ShouldLogHere, PassesLevelGate
    <2>2. CASE l \in Categories
      <3>1. m_IsEnabled[l]
        BY <2>2, PathEnds DEF ShouldLog
      <3>2. PICK x : x = [r EXCEPT !.categoryLevel = IF r.categoryLevel = NoOwnLevel THEN FirstLevel(l) ELSE r.categoryLevel]
        OBVIOUS
      <3>3. x.level = r.level
        BY <3>2, GateFields
      <3>4. ShouldLogHere(Base(l), x)
        BY <2>2, <3>2 DEF ShouldLog
      <3> QED BY <3>1, <3>3, <3>4 DEF ShouldLogHere, PassesLevelGate
    <2> QED BY <2>1, <2>2
  <1>2. LogFormatted(l, r)
    BY <1>1 DEF LogFormatted
  <1> QED BY <1>2 DEF Reaches, Forms, LogText, LogTextWithFields, LogWideText, LogFormattedWithFields, LogFormattedWide,
             LogFormattedWideWithFields

\* A logger that is called adds what it tells of the entry
LEMMA CallTells ==
  ASSUME StateOK, NEW t \in Threads, NEW l, Called(t, l)
  PROVE  /\ seen'[t].asked = seen[t].asked /\ seen'[t].quiet = seen[t].quiet
         /\ (\E i \in DOMAIN seen'[t].called : seen'[t].called[i].took) <=>
               (\E i \in DOMAIN seen[t].called : seen[t].called[i].took) \/ PassesLevelGate(l, record[t])
  <1>1. PICK e : e = [sink |-> l, took |-> PassesLevelGate(l, record[t]),
                      hooks |-> record[t].hooks + (IF hasHook[l] THEN 1 ELSE 0)]
    OBVIOUS
  <1>2. PICK s \in Seq(SinkCall) : s = seen[t].called
    BY DEF StateOK, Seen
  <1>3. PICK x \in Seen : x = seen[t]
    BY DEF StateOK
  <1>4. seen' = [seen EXCEPT ![t] = [x EXCEPT !.called = Append(s, e)]]
    BY <1>1, <1>2, <1>3 DEF Called
  <1>5. seen'[t] = [x EXCEPT !.called = Append(s, e)]
    BY <1>4 DEF StateOK
  <1>6. seen'[t].asked = x.asked /\ seen'[t].quiet = x.quiet /\ seen'[t].called = Append(s, e)
    BY <1>3, <1>5 DEF Seen
  <1>7. PICK n \in Nat : n = Len(s) /\ DOMAIN s = 1..n /\ DOMAIN Append(s, e) = 1..n + 1
                        /\ Append(s, e)[n + 1] = e /\ \A i \in 1..n : Append(s, e)[i] = s[i]
    OBVIOUS
  <1>8. \A i \in 1..n + 1 : i = n + 1 \/ i \in 1..n
    OBVIOUS
  <1>9. n + 1 \in 1..n + 1 /\ \A i \in 1..n : i \in 1..n + 1
    OBVIOUS
  <1>10. (\E i \in DOMAIN Append(s, e) : Append(s, e)[i].took) <=> (\E i \in DOMAIN s : s[i].took) \/ e.took
    BY <1>7, <1>8, <1>9
  <1> QED BY <1>1, <1>2, <1>3, <1>6, <1>10

\* What AskedIsWritten says of a thread's step
Tells(t) ==
    /\ pc[t] \in {"write", "record", "fan out"} /\ pc'[t] = "idle" /\ seen[t].quiet =>
          (seen[t].asked <=> \E i \in DOMAIN seen'[t].called : seen'[t].called[i].took)
    /\ calls'[t] # calls[t] /\ seen'[t].asked => pc'[t] # "idle"

\* The own steps of a thread that logs
LEMMA LogAsks ==
  ASSUME RoutingInv, AskedInv, NEW t \in Threads, LogStep(t)
  PROVE  AskInv(t)' /\ Tells(t)
  <1>1. /\ DOMAIN pc = Threads /\ DOMAIN at = Threads /\ DOMAIN record = Threads /\ DOMAIN todo = Threads
        /\ DOMAIN seen = Threads /\ DOMAIN calls = Threads /\ instance \in Instances
        /\ EntryInv(t) /\ FanOutInv(t) /\ AskInv(t) /\ seen[t] \in Seen
    BY DEF RoutingInv, StateOK, ThreadInv, AskedInv
  <1>2. ASSUME NEW form \in instance.forms, NEW l \in instance.to, NEW entry, Log(t, form, l, entry)
        PROVE  AskInv(t)' /\ Tells(t)
    <2>1. PICK r : r = MakeRecord(entry) /\ DOMAIN r = Entry
      BY EntryFields
    <2>2. form \in Forms /\ l \in Loggers
      BY <1>1, <1>2, InstanceAssumption
    <2>3. PICK asked \in BOOLEAN : asked = ShouldLog(l, r)
      BY Asked
    <2>4. /\ pc[t] = "idle" /\ seen' = [seen EXCEPT ![t] = Begun(asked)] /\ UNCHANGED levelVars
          /\ \/ /\ Reaches(form, l, r) /\ pc' = [pc EXCEPT ![t] = "write"]
                /\ at' = [at EXCEPT ![t] = l] /\ record' = [record EXCEPT ![t] = r]
             \/ ~Reaches(form, l, r) /\ pc' = pc
      BY <1>2, <2>1, <2>3 DEF Log, MayCall, Goto, multiVars, gateVars, categoryVars, levelVars
    <2>5. seen'[t] = Begun(asked) /\ Begun(asked).asked = asked
      BY <1>1, <2>4 DEF Begun, NothingSeen
    <2>6. CASE Reaches(form, l, r)
      <3>1. pc'[t] = "write" /\ at'[t] = l /\ record'[t] = r
        BY <1>1, <2>4, <2>6
      <3>2. ShouldLog(at[t], record[t])' <=> ShouldLog(l, r)
        BY <2>4, <3>1, SameAsked
      <3> QED
        <4>1. AskInv(t)'
          BY <2>2, <2>3, <2>4, <2>5, <3>1, <3>2 DEF AskInv
        <4>2. Tells(t)
          BY <2>2, <2>3, <2>4, <2>5, <3>1, <3>2 DEF Tells
        <4> QED BY <4>1, <4>2
    <2>7. CASE ~Reaches(form, l, r)
      <3>1. pc'[t] = "idle" /\ ~asked
        BY <2>1, <2>2, <2>3, <2>4, <2>7, AskedReach
      <3> QED
        <4>1. AskInv(t)'
          BY <2>4, <2>5, <3>1 DEF AskInv
        <4>2. Tells(t)
          BY <2>4, <2>5, <3>1 DEF Tells
        <4> QED BY <4>1, <4>2
    <2> QED BY <2>6, <2>7
  <1>3. CASE WriteToCategory(t)
    <2>1. PICK c \in Categories : c = at[t]
      BY <1>3 DEF WriteToCategory
    <2>2. PICK r : r = record[t] /\ DOMAIN r = Entry
      BY <1>1, <1>3 DEF WriteToCategory, EntryInv
    <2>3. /\ pc[t] = "write" /\ seen' = seen /\ calls' = calls /\ UNCHANGED levelVars
          /\ seen[t].called = <<>>
      BY <1>1, <1>3 DEF WriteToCategory, Unchanged, multiVars, gateVars, categoryVars, levelVars, EntryInv
    <2>4. ShouldLog(c, r) <=> m_IsEnabled[c] /\ ShouldLog(Wrapped[c], WithCategory(c, r))
      BY <2>2, CategoryAsks
    <2>5. seen[t].quiet => (seen[t].asked <=> ShouldLog(c, r))
      BY <1>1, <2>1, <2>2, <2>3 DEF AskInv
    <2>6. CASE m_IsEnabled[c]
      <3>1. at'[t] = Wrapped[c] /\ record'[t] = WithCategory(c, r) /\ pc' = pc
        BY <1>1, <1>3, <2>1, <2>2, <2>6 DEF WriteToCategory
      <3>2. ShouldLog(at[t], record[t])' <=> ShouldLog(Wrapped[c], WithCategory(c, r))
        BY <2>3, <3>1, SameAsked
      <3>3. Wrapped[c] \in Loggers
        BY StructureAssumption
      <3> QED
        <4>1. AskInv(t)'
          BY <2>3, <2>4, <2>5, <2>6, <3>1, <3>2, <3>3 DEF AskInv
        <4>2. Tells(t)
          BY <2>3, <2>4, <2>5, <2>6, <3>1, <3>2, <3>3 DEF Tells
        <4> QED BY <4>1, <4>2
    <2>7. CASE ~m_IsEnabled[c]
      <3>1. pc'[t] = "idle"
        BY <1>1, <1>3, <2>1, <2>7 DEF WriteToCategory, Return
      <3>2. DOMAIN seen[t].called = {}
        BY <2>3
      <3> QED
        <4>1. AskInv(t)'
          BY <2>3, <2>4, <2>5, <2>7, <3>1, <3>2 DEF AskInv
        <4>2. Tells(t)
          BY <2>3, <2>4, <2>5, <2>7, <3>1, <3>2 DEF Tells
        <4> QED BY <4>1, <4>2
    <2> QED BY <2>6, <2>7
  <1>4. CASE WriteToSink(t)
    <2>1. /\ pc[t] = "write" /\ at[t] \in Sinks /\ Called(t, at[t]) /\ pc'[t] = "idle" /\ calls' = calls
          /\ seen[t].called = <<>>
      BY <1>1, <1>4 DEF WriteToSink, Return, Unchanged, EntryInv
    <2>2. ShouldLog(at[t], record[t]) <=> PassesLevelGate(at[t], record[t])
      BY <2>1, StructureAssumption DEF ShouldLog, ShouldLogHere
    <2>3. seen[t].quiet => (seen[t].asked <=> PassesLevelGate(at[t], record[t]))
      BY <1>1, <2>1, <2>2 DEF AskInv
    <2>4. (\E i \in DOMAIN seen'[t].called : seen'[t].called[i].took) <=> PassesLevelGate(at[t], record[t])
      <3>1. DOMAIN seen[t].called = {}
        BY <2>1
      <3> QED BY <2>1, <3>1, CallTells DEF RoutingInv
    <2> QED
      <3>1. AskInv(t)'
        BY <2>1, <2>3, <2>4 DEF AskInv
      <3>2. Tells(t)
        BY <2>1, <2>3, <2>4 DEF Tells
      <3> QED BY <3>1, <3>2
  <1>5. CASE WriteToMulti(t)
    <2>1. /\ pc[t] = "write" /\ at[t] = Multi /\ calls' = calls /\ seen' = seen /\ record' = record /\ UNCHANGED levelVars
          /\ seen[t].called = <<>>
      BY <1>1, <1>5 DEF WriteToMulti, Unchanged, multiVars, gateVars, categoryVars, levelVars, EntryInv
    <2>2. ShouldLog(Multi, record[t]) <=>
              PassesLevelGate(Multi, record[t]) /\ Sees(m_Sinks, SinkRecord(record[t]))
      BY StructureAssumption DEF ShouldLog, ShouldLogHere, Sees
    <2>3. seen[t].quiet => (seen[t].asked <=>
              PassesLevelGate(Multi, record[t]) /\ Sees(m_Sinks, SinkRecord(record[t])))
      BY <1>1, <2>1, <2>2 DEF AskInv
    <2>4. CASE PassesLevelGate(Multi, record[t])
      <3>1. pc'[t] = "hook"
        BY <1>1, <1>5, <2>4 DEF WriteToMulti, Goto
      <3>2. /\ PassesLevelGate(Multi, record[t])' <=> PassesLevelGate(Multi, record[t])
            /\ Sees(m_Sinks, SinkRecord(record[t]))' <=> Sees(m_Sinks, SinkRecord(record[t]))
        <4>1. m_Sinks' = m_Sinks
          BY <2>1 DEF levelVars
        <4> QED BY <2>1, <4>1, SameAsked
      <3> QED
        <4>1. AskInv(t)'
          BY <2>1, <2>3, <2>4, <3>1, <3>2 DEF AskInv
        <4>2. Tells(t)
          BY <2>1, <2>3, <2>4, <3>1, <3>2 DEF Tells
        <4> QED BY <4>1, <4>2
    <2>5. CASE ~PassesLevelGate(Multi, record[t])
      <3>1. pc'[t] = "idle" /\ DOMAIN seen[t].called = {}
        BY <1>1, <1>5, <2>1, <2>5 DEF WriteToMulti, Return
      <3> QED
        <4>1. AskInv(t)'
          BY <2>1, <2>3, <2>5, <3>1 DEF AskInv
        <4>2. Tells(t)
          BY <2>1, <2>3, <2>5, <3>1 DEF Tells
        <4> QED BY <4>1, <4>2
    <2> QED BY <2>4, <2>5
  <1>6. CASE RunHook(t)
    <2>1. /\ pc[t] = "hook" /\ calls' = calls /\ seen' = seen /\ UNCHANGED levelVars
          /\ DOMAIN record[t] = Entry
      BY <1>1, <1>6 DEF RunHook, Unchanged, multiVars, gateVars, categoryVars, levelVars, EntryInv
    <2>2. seen[t].quiet =>
              PassesLevelGate(Multi, record[t]) /\ (seen[t].asked <=> Sees(m_Sinks, SinkRecord(record[t])))
      BY <1>1, <2>1 DEF AskInv
    <2>3. CASE pc'[t] = "idle"
      BY <2>1, <2>3 DEF AskInv, Tells
    <2>4. CASE pc'[t] # "idle"
      <3>1. PICK n : pc'[t] = "record" /\ record'[t] = [record[t] EXCEPT !.hooks = n]
        BY <1>1, <1>6, <2>4 DEF RunHook, Goto, Return
      <3>2. PICK r : r = record[t] /\ DOMAIN r = Entry
        BY <2>1
      <3>3. PICK x : x = [r EXCEPT !.hooks = n]
        OBVIOUS
      <3>4. x = record'[t]
        BY <3>1, <3>2, <3>3
      <3>5. x.level = r.level /\ x.forced = r.forced /\ x.categoryLevel = r.categoryLevel
        BY <3>2, <3>3, GateFields
      <3>6. DOMAIN x = Entry
        BY <3>2, <3>3, EntryFields
      <3>7. /\ x = record'[t] /\ x.level = r.level /\ x.forced = r.forced /\ x.categoryLevel = r.categoryLevel
            /\ DOMAIN x = Entry
        BY <3>4, <3>5, <3>6
      <3>8. PassesLevelGate(Multi, x) <=> PassesLevelGate(Multi, r)
        BY <3>2, <3>7, SameGate
      <3>9. Sees(m_Sinks, SinkRecord(x)) <=> Sees(m_Sinks, SinkRecord(r))
        <4>1. /\ SinkRecord(x).level = SinkRecord(r).level /\ SinkRecord(x).forced = SinkRecord(r).forced
              /\ SinkRecord(x).categoryLevel = SinkRecord(r).categoryLevel
          BY <3>2, <3>7, GateFields DEF SinkRecord
        <4>2. \A k : PassesLevelGate(k, SinkRecord(x)) = PassesLevelGate(k, SinkRecord(r))
          BY <4>1, SameGate
        <4> QED BY <4>2 DEF Sees
      <3>10. /\ PassesLevelGate(Multi, record[t])' <=> PassesLevelGate(Multi, x)
             /\ Sees(m_Sinks, SinkRecord(record[t]))' <=> Sees(m_Sinks, SinkRecord(x))
        <4>1. m_Sinks' = m_Sinks
          BY <2>1 DEF levelVars
        <4> QED BY <2>1, <3>7, <4>1, SameAsked
      <3> QED
        <4>1. AskInv(t)'
          BY <2>1, <2>2, <3>1, <3>2, <3>8, <3>9, <3>10 DEF AskInv
        <4>2. Tells(t)
          BY <2>1, <3>1 DEF Tells
        <4> QED BY <4>1, <4>2
    <2> QED BY <2>3, <2>4
  <1>7. CASE WriteRecord(t)
    <2>1. /\ pc[t] = "record" /\ calls' = calls /\ seen' = seen /\ UNCHANGED levelVars
          /\ seen[t].called = <<>>
      BY <1>1, <1>7 DEF WriteRecord, Unchanged, multiVars, gateVars, categoryVars, levelVars, EntryInv
    <2>2. seen[t].quiet =>
              PassesLevelGate(Multi, record[t]) /\ (seen[t].asked <=> Sees(m_Sinks, SinkRecord(record[t])))
      BY <1>1, <2>1 DEF AskInv
    <2>3. CASE record[t].forced \/ record[t].level >= GetMinimumLevelFor(Multi, record[t])
      <3>1. pc'[t] = "fan out" /\ todo'[t] = m_Sinks /\ record'[t] = SinkRecord(record[t])
        BY <1>1, <1>7, <2>3 DEF WriteRecord, Goto
      <3>2. Sees(todo[t], record[t])' <=> Sees(m_Sinks, SinkRecord(record[t]))
        BY <2>1, <3>1, SameAsked
      <3>3. DOMAIN seen[t].called = {}
        BY <2>1
      <3> QED
        <4>1. AskInv(t)'
          BY <2>1, <2>2, <3>1, <3>2, <3>3 DEF AskInv
        <4>2. Tells(t)
          BY <2>1, <2>2, <3>1, <3>2, <3>3 DEF Tells
        <4> QED BY <4>1, <4>2
    <2>4. CASE ~(record[t].forced \/ record[t].level >= GetMinimumLevelFor(Multi, record[t]))
      <3>1. pc'[t] = "idle"
        BY <1>1, <1>7, <2>4 DEF WriteRecord, Return
      <3>2. ~PassesLevelGate(Multi, record[t])
        BY <2>4 DEF PassesLevelGate
      <3> QED
        <4>1. AskInv(t)'
          BY <2>1, <2>2, <3>1, <3>2 DEF AskInv
        <4>2. Tells(t)
          BY <2>1, <2>2, <3>1, <3>2 DEF Tells
        <4> QED BY <4>1, <4>2
    <2> QED BY <2>3, <2>4
  <1>8. CASE FanOut(t)
    <2>1. /\ pc[t] = "fan out" /\ calls' = calls /\ record' = record /\ UNCHANGED levelVars
          /\ todo[t] \in Seq(Sinks)
      BY <1>1, <1>8 DEF FanOut, Unchanged, multiVars, gateVars, categoryVars, levelVars, FanOutInv
    <2>2. seen[t].quiet =>
              (seen[t].asked <=> \/ \E i \in DOMAIN seen[t].called : seen[t].called[i].took
                                 \/ Sees(todo[t], record[t]))
      BY <1>1, <2>1 DEF AskInv
    <2>3. CASE todo[t] = <<>>
      <3>1. pc'[t] = "idle" /\ seen' = seen
        BY <1>1, <1>8, <2>3 DEF FanOut, Return
      <3>2. ~Sees(todo[t], record[t])
        <4>1. DOMAIN todo[t] = {}
          BY <2>3
        <4> QED BY <4>1 DEF Sees
      <3> QED
        <4>1. AskInv(t)'
          BY <2>1, <2>2, <3>1, <3>2 DEF AskInv
        <4>2. Tells(t)
          BY <2>1, <2>2, <3>1, <3>2 DEF Tells
        <4> QED BY <4>1, <4>2
    <2>4. CASE todo[t] # <<>>
      <3>1. PICK s \in Seq(Sinks) : s = todo[t] /\ s # <<>>
        BY <2>1, <2>4
      <3>2. Called(t, Head(s)) /\ todo'[t] = Tail(s) /\ pc' = pc
        BY <1>1, <1>8, <2>4, <3>1 DEF FanOut
      <3>3. Sees(s, record[t]) <=> PassesLevelGate(Head(s), record[t]) \/ Sees(Tail(s), record[t])
        <4>1. PICK n \in Nat : DOMAIN s = 1..n + 1 /\ DOMAIN Tail(s) = 1..n /\ Head(s) = s[1]
                               /\ \A i \in 1..n : Tail(s)[i] = s[i + 1]
          <5>1. Len(s) - 1 \in Nat /\ Len(s) = (Len(s) - 1) + 1 /\ Len(Tail(s)) = Len(s) - 1
            BY <3>1
          <5>2. DOMAIN s = 1..Len(s) /\ Tail(s) \in Seq(Sinks) /\ DOMAIN Tail(s) = 1..Len(s) - 1 /\ Head(s) = s[1]
                /\ \A i \in 1..Len(s) - 1 : Tail(s)[i] = s[i + 1]
            BY <3>1
          <5> QED BY <5>1, <5>2
        <4>2. \A i \in 1..n + 1 : i = 1 \/ \E j \in 1..n : i = j + 1
          <5>1. \A i \in 1..n + 1 : i # 1 => i - 1 \in 1..n /\ i = (i - 1) + 1
            OBVIOUS
          <5> QED BY <5>1
        <4>3. 1 \in 1..n + 1 /\ \A j \in 1..n : j + 1 \in 1..n + 1
          OBVIOUS
        <4>4. Sees(s, record[t]) <=> \E i \in 1..n + 1 : PassesLevelGate(s[i], record[t])
          BY <4>1 DEF Sees
        <4>5. Sees(Tail(s), record[t]) <=> \E j \in 1..n : PassesLevelGate(s[j + 1], record[t])
          BY <4>1 DEF Sees
        <4>6. ASSUME NEW i \in 1..n + 1, PassesLevelGate(s[i], record[t])
              PROVE  PassesLevelGate(s[1], record[t]) \/ \E j \in 1..n : PassesLevelGate(s[j + 1], record[t])
          <5>1. CASE i = 1
            BY <4>6, <5>1
          <5>2. CASE i # 1
            <6>1. PICK j \in 1..n : i = j + 1
              BY <4>2, <5>2
            <6> QED BY <4>6, <6>1
          <5> QED BY <5>1, <5>2
        <4> QED BY <4>1, <4>3, <4>4, <4>5, <4>6
      <3>4. Sees(todo[t], record[t])' <=> Sees(Tail(s), record[t])
        BY <2>1, <3>2, SameAsked
      <3>5. /\ seen'[t].asked = seen[t].asked /\ seen'[t].quiet = seen[t].quiet
            /\ (\E i \in DOMAIN seen'[t].called : seen'[t].called[i].took) <=>
                  (\E i \in DOMAIN seen[t].called : seen[t].called[i].took) \/ PassesLevelGate(Head(s), record[t])
        BY <3>2, CallTells DEF RoutingInv
      <3> QED
        <4>1. AskInv(t)'
          BY <2>1, <2>2, <3>1, <3>2, <3>3, <3>4, <3>5 DEF AskInv
        <4>2. Tells(t)
          BY <2>1, <2>2, <3>1, <3>2, <3>3, <3>4, <3>5 DEF Tells
        <4> QED BY <4>1, <4>2
    <2> QED BY <2>3, <2>4
  <1> QED BY <1>2, <1>3, <1>4, <1>5, <1>6, <1>7, <1>8 DEF LogStep

LEMMA AskedStep ==
  ASSUME RoutingInv, AskedInv, [Next]_vars
  PROVE  /\ AskedInv'
         /\ \A t \in Threads : Tells(t)
  <1>1. ASSUME NEW t \in Threads, LogStep(t) \/ MultiStep(t) \/ LevelStep(t)
        PROVE  /\ AskedInv'
               /\ \A u \in Threads : Tells(u)
    <2>1. AskInv(t)' /\ Tells(t)
      <3>1. CASE LogStep(t)
        BY <1>1, <3>1, LogAsks
      <3>2. CASE MultiStep(t) \/ LevelStep(t)
        <4>1. pc[t] \notin EntryLabels /\ pc'[t] \notin EntryLabels /\ (calls'[t] # calls[t] => ~seen'[t].asked)
          BY <1>1, <3>2, OtherLabels
        <4> QED
          <5>1. AskInv(t)'
            BY <4>1 DEF AskInv, EntryLabels
          <5>2. Tells(t)
            BY <4>1 DEF Tells, EntryLabels
          <5> QED BY <5>1, <5>2
      <3> QED BY <1>1, <3>1, <3>2
    <2>2. Quiet(t) /\ DOMAIN calls = Threads
      BY <1>1, QuietSteps DEF AskedInv
    <2>3. \A u \in Threads \ {t} : Undisturbed(u)
      BY <1>1, LogStepsOK, MultiStepsOK, LevelCallsOK DEF StepOK
    <2>4. ASSUME NEW u \in Threads \ {t}
          PROVE  AskInv(u)' /\ pc'[u] = pc[u] /\ calls'[u] = calls[u]
      <3>1. Undisturbed(u) /\ pc'[u] = pc[u] /\ AskInv(u) /\ u \in Threads
        BY <2>3, <2>4 DEF AskedInv, Undisturbed
      <3>2. /\ seen'[u].asked = seen[u].asked /\ calls'[u] = calls[u]
            /\ seen'[u].quiet => seen[u].quiet /\ UNCHANGED levelVars
        BY <2>2, <2>4 DEF Quiet
      <3> QED BY <3>1, <3>2, OthersAsk
    <2>5. ASSUME NEW u \in Threads \ {t}
          PROVE  Tells(u)
      BY <2>4, <2>5 DEF Tells
    <2>6. DOMAIN calls' = Threads
      BY <2>2 DEF Quiet
    <2>7. AskedInv'
      BY <2>1, <2>4, <2>6 DEF AskedInv
    <2> QED BY <2>1, <2>5, <2>7
  <1>2. CASE UNCHANGED vars
    <2>1. pc' = pc /\ at' = at /\ record' = record /\ todo' = todo /\ seen' = seen /\ calls' = calls /\ UNCHANGED levelVars
      BY <1>2 DEF vars, multiVars, gateVars, categoryVars, callVars, levelVars
    <2>2. m_Sinks' = m_Sinks
      BY <2>1 DEF levelVars
    <2>3. ASSUME NEW t \in Threads PROVE AskInv(t)'
      <3>1. /\ PassesLevelGate(Multi, record[t])' <=> PassesLevelGate(Multi, record[t])
            /\ Sees(m_Sinks, SinkRecord(record[t]))' <=> Sees(m_Sinks, SinkRecord(record[t]))
            /\ Sees(todo[t], record[t])' <=> Sees(todo[t], record[t])
            /\ ShouldLog(at[t], record[t])' <=> ShouldLog(at[t], record[t])
        BY <2>1, <2>2, SameAsked
      <3> QED BY <2>1, <3>1 DEF AskedInv, AskInv
    <2>4. ASSUME NEW t \in Threads PROVE Tells(t)
      BY <2>1 DEF Tells
    <2> QED BY <2>1, <2>3, <2>4 DEF AskedInv
  <1>3. ASSUME NEW l \in Sinks, WriteToFile(l)
        PROVE  AskedInv' /\ \A u \in Threads : Tells(u)
    <2>1. UNCHANGED levelVars /\ UNCHANGED <<pc, calls>> /\ (seen' = seen \/ seen' = Closed(l))
      BY <1>3 DEF WriteToFile, gateVars, categoryVars, callVars, levelVars
    <2>2. \A u \in Threads : seen'[u].asked = seen[u].asked /\ seen'[u].quiet = seen[u].quiet
      BY <1>3, <2>1, QuietHistories DEF RoutingInv
    <2>3. ASSUME NEW u \in Threads PROVE AskInv(u)' /\ Tells(u)
      <3>1. AskInv(u) /\ Undisturbed(u)
        BY <1>3, FileWritten DEF AskedInv
      <3>2. AskInv(u)'
        BY <2>1, <2>2, <3>1, OthersAsk
      <3> QED BY <2>1, <3>2 DEF Tells
    <2> QED BY <2>1, <2>3 DEF AskedInv
  <1> QED BY <1>1, <1>2, <1>3 DEF Next, AllIdle

LEMMA AskedInvariant == Spec => [](RoutingInv /\ AskedInv)
  BY InitOK, InitAsked, NextOK, AskedStep, PTL DEF Spec

\* ShouldLog() tells what logging does, of any categories that wrap each other, a
\* multi-log and its loggers: unless another thread changes a level, a rule or the
\* list, an entry for which it was true passes the gate of a logger that
\* writes, one for which it was false passes none, and no form of the calls that
\* log drops an entry for which it is true before it is written.
THEOREM AskedIsWrittenHolds == Spec => AskedIsWritten
  BY AskedInvariant, AskedStep, PTL DEF Spec, AskedIsWritten, Tells

----------------------------------------------------------------------------
(* The rules of a spec *)

Item == [name : Seq(STRING), level : Int]

LEMMA ItemNames == \A item \in Item : item.name \in Seq(STRING) /\ item.level \in Int
  BY DEF Item

\* Names that differ in case are one name
LEMMA SameNames ==
  ASSUME NEW a \in Seq(STRING), NEW b \in Seq(STRING), EqualsIgnoringCase(a, b)
  PROVE  /\ EqualsIgnoringCase(b, a) /\ Len(a) = Len(b)
         /\ \A c \in Seq(STRING) : EqualsIgnoringCase(a, c) <=> EqualsIgnoringCase(b, c)
         /\ a = <<"*">> <=> b = <<"*">>
  <1>1. PICK n \in Nat : n = Len(a) /\ DOMAIN a = 1..n
    OBVIOUS
  <1>2. n = Len(b) /\ DOMAIN b = 1..n /\ \A i \in 1..n : Lower(a[i]) = Lower(b[i])
    BY <1>1 DEF EqualsIgnoringCase
  <1>3. EqualsIgnoringCase(b, a)
    BY <1>1, <1>2 DEF EqualsIgnoringCase
  <1>4. \A c \in Seq(STRING) : EqualsIgnoringCase(a, c) <=> EqualsIgnoringCase(b, c)
    BY <1>1, <1>2 DEF EqualsIgnoringCase
  <1>5. \A x : Lower(x) = "*" <=> x = "*"
    BY DEF Lower
  <1>6. \A s \in Seq(STRING) : s = <<"*">> <=> Len(s) = 1 /\ s[1] = "*"
    <2> TAKE s \in Seq(STRING)
    <2>1. ASSUME Len(s) = 1, s[1] = "*" PROVE s = <<"*">>
      BY <2>1
    <2>2. Len(<<"*">>) = 1 /\ <<"*">>[1] = "*"
      OBVIOUS
    <2> QED BY <2>1, <2>2
  <1>7. n = 1 => (a[1] = "*" <=> b[1] = "*")
    <2> SUFFICES ASSUME n = 1 PROVE a[1] = "*" <=> b[1] = "*"
      OBVIOUS
    <2>1. Lower(a[1]) = Lower(b[1])
      BY <1>2
    <2> QED BY <2>1, <1>5
  <1>8. a = <<"*">> <=> b = <<"*">>
    BY <1>1, <1>2, <1>6, <1>7
  <1> QED BY <1>1, <1>2, <1>3, <1>4, <1>8

LEMMA SameName ==
  ASSUME NEW a \in Seq(STRING) PROVE EqualsIgnoringCase(a, a)
  BY DEF EqualsIgnoringCase

\* One rule for each name
OncePerName(rules) ==
    \A i, j \in DOMAIN rules : EqualsIgnoringCase(rules[i].name, rules[j].name) => i = j

LEMMA RuleAdded ==
  ASSUME NEW rules \in Seq(Item), NEW item \in Item, OncePerName(rules)
  PROVE  LET r == AddRule(rules, item)
         IN  /\ r \in Seq(Item) /\ OncePerName(r)
             /\ \A i \in DOMAIN rules : i \in DOMAIN r /\ r[i].name = rules[i].name
             /\ \E i \in DOMAIN r : EqualsIgnoringCase(r[i].name, item.name)
             /\ \A i \in DOMAIN r : IF EqualsIgnoringCase(r[i].name, item.name) THEN r[i].level = item.level
                                    ELSE i \in DOMAIN rules /\ r[i] = rules[i]
  <1>1. PICK same : same = {i \in DOMAIN rules : EqualsIgnoringCase(rules[i].name, item.name)}
    OBVIOUS
  <1>2. PICK n \in Nat : n = Len(rules) /\ DOMAIN rules = 1..n /\ \A i \in 1..n : rules[i] \in Item
    OBVIOUS
  <1>3. \A i \in 1..n : rules[i].name \in Seq(STRING) /\ rules[i].level \in Int
    BY <1>2 DEF Item
  <1>4. item.name \in Seq(STRING) /\ item.level \in Int
    BY DEF Item
  <1>5. PICK r : r = AddRule(rules, item)
    OBVIOUS
  <1>6. CASE same = {}
    <2>1. r = Append(rules, item)
      BY <1>1, <1>5, <1>6 DEF AddRule
    <2>2. r \in Seq(Item) /\ DOMAIN r = 1..n + 1 /\ r[n + 1] = item /\ \A i \in 1..n : r[i] = rules[i]
      BY <1>2, <2>1
    <2>3. \A i \in 1..n + 1 : i \in 1..n \/ i = n + 1
      BY <1>2
    <2>4. \A i \in 1..n : ~EqualsIgnoringCase(rules[i].name, item.name) /\ ~EqualsIgnoringCase(item.name, rules[i].name)
      BY <1>1, <1>2, <1>3, <1>4, <1>6, SameNames
    <2>5. (\A i \in 1..n : i \in 1..n + 1) /\ n + 1 \in 1..n + 1
      BY <1>2
    <2>6. OncePerName(r)
      <3> SUFFICES ASSUME NEW i \in 1..n + 1, NEW j \in 1..n + 1, EqualsIgnoringCase(r[i].name, r[j].name)
                   PROVE  i = j
        BY <2>2 DEF OncePerName
      <3>1. CASE i \in 1..n /\ j \in 1..n
        BY <1>2, <2>2, <3>1 DEF OncePerName
      <3>2. CASE i = n + 1 /\ j \in 1..n
        BY <2>2, <2>4, <3>2
      <3>3. CASE i \in 1..n /\ j = n + 1
        BY <2>2, <2>4, <3>3
      <3> QED BY <2>3, <3>1, <3>2, <3>3
    <2>7. EqualsIgnoringCase(item.name, item.name)
      BY <1>4, SameName
    <2> QED BY <1>2, <1>5, <2>2, <2>3, <2>4, <2>5, <2>6, <2>7
  <1>7. CASE same # {}
    <2>1. PICK k \in same : \A j \in same : k <= j
      BY <1>1, <1>2, <1>7, LeastOf
    <2>2. \A i \in same : i = k
      <3> TAKE i \in same
      <3>1. /\ i \in DOMAIN rules /\ k \in DOMAIN rules
            /\ EqualsIgnoringCase(rules[i].name, item.name) /\ EqualsIgnoringCase(rules[k].name, item.name)
        BY <1>1, <2>1
      <3>2. EqualsIgnoringCase(rules[i].name, rules[k].name)
        BY <1>2, <1>3, <1>4, <3>1, SameNames
      <3> QED BY <3>1, <3>2 DEF OncePerName
    <2>3. (CHOOSE i \in same : \A j \in same : i <= j) = k
      BY <2>1, <2>2
    <2>4. r = [rules EXCEPT ![k].level = item.level]
      BY <1>1, <1>5, <1>7, <2>3 DEF AddRule
    <2>5. k \in 1..n
      BY <1>1, <1>2
    <2>6. PICK new \in Item : new = [rules[k] EXCEPT !.level = item.level] /\ new.name = rules[k].name
                              /\ new.level = item.level
      <3>1. rules[k] \in Item
        BY <1>2, <2>5
      <3>2. LET x == [rules[k] EXCEPT !.level = item.level]
            IN  x \in Item /\ x.name = rules[k].name /\ x.level = item.level
        BY <1>4, <3>1 DEF Item
      <3> QED BY <3>2
    <2>7. r = [rules EXCEPT ![k] = new]
      BY <2>4, <2>6
    <2>8. r \in Seq(Item) /\ DOMAIN r = 1..n /\ r[k] = new /\ \A i \in 1..n : i # k => r[i] = rules[i]
      BY <1>2, <2>5, <2>7
    <2>9. \A i \in 1..n : r[i].name = rules[i].name
      BY <2>6, <2>8
    <2>10. OncePerName(r)
      BY <1>2, <2>8, <2>9 DEF OncePerName
    <2>11. \A i \in 1..n : EqualsIgnoringCase(rules[i].name, item.name) <=> i = k
      BY <1>1, <1>2, <2>1, <2>2
    <2> QED BY <1>2, <1>5, <2>5, <2>6, <2>8, <2>9, <2>10, <2>11
  <1> QED BY <1>5, <1>6, <1>7

\* The rules after n items: what ParseLevelRules() makes of them
RulesUpTo(f, spec, n) ==
    /\ f = [i \in 0..n |-> f[i]] /\ f[0] = <<>>
    /\ \A i \in 1..n : f[i] = IF IsEmpty(spec[i]) THEN f[i - 1] ELSE AddRule(f[i - 1], spec[i])

LEMMA RulesExist ==
  ASSUME NEW spec, NEW n \in Nat
  PROVE  \E f : RulesUpTo(f, spec, n)
  <1> DEFINE without == {k \in Nat : ~\E f : RulesUpTo(f, spec, k)}
  <1> SUFFICES ASSUME without # {} PROVE FALSE
    OBVIOUS
  <1>1. PICK k \in Nat : k \in without /\ \A j \in without : k <= j
    <2>1. without \in SUBSET Nat
      OBVIOUS
    <2> HIDE DEF without
    <2> QED BY <2>1, LeastOf
  <1>2. k # 0
    <2>1. RulesUpTo([i \in 0..0 |-> <<>>], spec, 0)
      BY DEF RulesUpTo
    <2> QED BY <1>1, <2>1
  <1>3. k - 1 \in Nat /\ k \in 1..k /\ k - 1 \notin without
    BY <1>1, <1>2
  <1>4. PICK f : RulesUpTo(f, spec, k - 1)
    BY <1>3
  <1>5. PICK last : last = IF IsEmpty(spec[k]) THEN f[k - 1] ELSE AddRule(f[k - 1], spec[k])
    OBVIOUS
  <1>6. PICK g : g = [i \in 0..k |-> IF i = k THEN last ELSE f[i]]
    OBVIOUS
  <1>7. g = [i \in 0..k |-> g[i]] /\ g[0] = <<>> /\ g[k] = last /\ \A i \in 0..k - 1 : g[i] = f[i]
    <2>1. 0 \in 0..k /\ 0 # k /\ k \in 0..k /\ 0 \in 0..k - 1 /\ \A i \in 0..k - 1 : i \in 0..k /\ i # k
      BY <1>2
    <2> QED BY <1>4, <1>6, <2>1 DEF RulesUpTo
  <1>8. ASSUME NEW i \in 1..k
        PROVE  g[i] = IF IsEmpty(spec[i]) THEN g[i - 1] ELSE AddRule(g[i - 1], spec[i])
    <2>1. i - 1 \in 0..k - 1 /\ (i # k => i \in 1..k - 1 /\ i \in 0..k - 1)
      BY <1>2
    <2>2. CASE i = k
      BY <1>5, <1>7, <2>1, <2>2
    <2>3. CASE i # k
      BY <1>4, <1>7, <2>1, <2>3 DEF RulesUpTo
    <2> QED BY <2>2, <2>3
  <1>9. RulesUpTo(g, spec, k)
    BY <1>7, <1>8 DEF RulesUpTo
  <1> QED BY <1>1, <1>9

LEMMA RulesParsed ==
  ASSUME NEW spec \in Seq(Item)
  PROVE  \E f : RulesUpTo(f, spec, Len(spec)) /\ ParseLevelRules(spec).rules = f[Len(spec)]
  <1>1. PICK n \in Nat : n = Len(spec)
    OBVIOUS
  <1>2. PICK g : RulesUpTo(g, spec, n)
    BY RulesExist
  <1>3. \A i \in 0..n : i # 0 => i \in 1..n
    BY <1>1
  <1>4. g = [i \in 0..n |-> IF i = 0 THEN <<>>
                            ELSE IF IsEmpty(spec[i]) THEN g[i - 1] ELSE AddRule(g[i - 1], spec[i])]
    <2>1. \A i \in 0..n : g[i] = IF i = 0 THEN <<>>
                              ELSE IF IsEmpty(spec[i]) THEN g[i - 1] ELSE AddRule(g[i - 1], spec[i])
      BY <1>2, <1>3 DEF RulesUpTo
    <2>2. g = [i \in 0..n |-> g[i]]
      BY <1>2 DEF RulesUpTo
    <2> QED BY <2>1, <2>2
  <1>5. PICK h : h = CHOOSE f : f = [i \in 0..n |-> IF i = 0 THEN <<>>
                            ELSE IF IsEmpty(spec[i]) THEN f[i - 1] ELSE AddRule(f[i - 1], spec[i])]
    OBVIOUS
  <1>6. h = [i \in 0..n |-> IF i = 0 THEN <<>>
                            ELSE IF IsEmpty(spec[i]) THEN h[i - 1] ELSE AddRule(h[i - 1], spec[i])]
    BY <1>4, <1>5
  <1>7. RulesUpTo(h, spec, n)
    <2>1. 0 \in 0..n /\ \A i \in 1..n : i \in 0..n /\ i # 0
      BY <1>1
    <2> QED BY <1>6, <2>1 DEF RulesUpTo
  <1>8. ParseLevelRules(spec).rules = h[n]
    BY <1>1, <1>5 DEF ParseLevelRules
  <1> QED BY <1>1, <1>7, <1>8


\* What the rules after n items say of each name is what its last item says
RulesSay(rules, spec, n) ==
    /\ rules \in Seq(Item) /\ OncePerName(rules)
    /\ \A k \in 1..n : ~IsEmpty(spec[k]) => \E i \in DOMAIN rules : EqualsIgnoringCase(rules[i].name, spec[k].name)
    /\ \A i \in DOMAIN rules : \E k \in 1..n :
          /\ ~IsEmpty(spec[k]) /\ EqualsIgnoringCase(rules[i].name, spec[k].name) /\ rules[i].level = spec[k].level
          /\ \A m \in k + 1..n : ~IsEmpty(spec[m]) => ~EqualsIgnoringCase(rules[i].name, spec[m].name)

LEMMA ItemSaid ==
  ASSUME NEW spec \in Seq(Item), NEW n \in 1..Len(spec), NEW rules, RulesSay(rules, spec, n - 1)
  PROVE  RulesSay(IF IsEmpty(spec[n]) THEN rules ELSE AddRule(rules, spec[n]), spec, n)
  <1>1. PICK item \in Item : item = spec[n]
    OBVIOUS
  <1>2. /\ rules \in Seq(Item) /\ OncePerName(rules)
        /\ \A i \in DOMAIN rules : rules[i] \in Item /\ rules[i].name \in Seq(STRING)
    <2>1. rules \in Seq(Item) /\ OncePerName(rules)
      BY DEF RulesSay
    <2>2. \A i \in DOMAIN rules : rules[i] \in Item
      BY <2>1
    <2> QED BY <2>1, <2>2, ItemNames
  <1>3. item.name \in Seq(STRING) /\ \A k \in 1..Len(spec) : spec[k] \in Item /\ spec[k].name \in Seq(STRING)
    <2>1. \A k \in 1..Len(spec) : spec[k] \in Item
      OBVIOUS
    <2> QED BY <2>1, ItemNames
  <1>4. /\ \A k \in 1..n - 1 : k \in 1..n /\ k \in 1..Len(spec)
        /\ \A k \in 1..n : k \in 1..n - 1 \/ k = n
        /\ n \in Nat /\ n \in 1..n /\ \A m \in n + 1..n : FALSE
    OBVIOUS
  <1>5. \A k \in 1..n - 1 : \A m \in k + 1..n : m \in k + 1..n - 1 \/ m = n
    BY <1>4
  <1>6. CASE IsEmpty(item)
    <2>1. \A k \in 1..n : ~IsEmpty(spec[k]) => k \in 1..n - 1
      BY <1>1, <1>4, <1>6
    <2>2. ASSUME NEW i \in DOMAIN rules
          PROVE  \E k \in 1..n :
                    /\ ~IsEmpty(spec[k]) /\ EqualsIgnoringCase(rules[i].name, spec[k].name) /\ rules[i].level = spec[k].level
                    /\ \A m \in k + 1..n : ~IsEmpty(spec[m]) => ~EqualsIgnoringCase(rules[i].name, spec[m].name)
      <3>1. PICK k \in 1..n - 1 :
              /\ ~IsEmpty(spec[k]) /\ EqualsIgnoringCase(rules[i].name, spec[k].name) /\ rules[i].level = spec[k].level
              /\ \A m \in k + 1..n - 1 : ~IsEmpty(spec[m]) => ~EqualsIgnoringCase(rules[i].name, spec[m].name)
        BY DEF RulesSay
      <3>2. \A m \in k + 1..n : ~IsEmpty(spec[m]) => ~EqualsIgnoringCase(rules[i].name, spec[m].name)
        BY <1>1, <1>5, <1>6, <3>1
      <3> QED BY <1>4, <3>1, <3>2
    <2> QED BY <1>1, <1>6, <2>1, <2>2 DEF RulesSay
  <1>7. CASE ~IsEmpty(item)
    <2>1. PICK r \in Seq(Item) :
            /\ r = AddRule(rules, item) /\ OncePerName(r)
            /\ \A i \in DOMAIN rules : i \in DOMAIN r /\ r[i].name = rules[i].name
            /\ \E i \in DOMAIN r : EqualsIgnoringCase(r[i].name, item.name)
            /\ \A i \in DOMAIN r : IF EqualsIgnoringCase(r[i].name, item.name) THEN r[i].level = item.level
                                   ELSE i \in DOMAIN rules /\ r[i] = rules[i]
      <3>1. LET r == AddRule(rules, item)
            IN  /\ r \in Seq(Item) /\ OncePerName(r)
                /\ \A i \in DOMAIN rules : i \in DOMAIN r /\ r[i].name = rules[i].name
                /\ \E i \in DOMAIN r : EqualsIgnoringCase(r[i].name, item.name)
                /\ \A i \in DOMAIN r : IF EqualsIgnoringCase(r[i].name, item.name) THEN r[i].level = item.level
                                       ELSE i \in DOMAIN rules /\ r[i] = rules[i]
        BY <1>2, RuleAdded
      <3> QED BY <3>1
    <2>2. ASSUME NEW k \in 1..n, ~IsEmpty(spec[k])
          PROVE  \E i \in DOMAIN r : EqualsIgnoringCase(r[i].name, spec[k].name)
      <3>1. CASE k = n
        BY <1>1, <2>1, <3>1
      <3>2. CASE k \in 1..n - 1
        <4>1. PICK i \in DOMAIN rules : EqualsIgnoringCase(rules[i].name, spec[k].name)
          BY <2>2, <3>2 DEF RulesSay
        <4> QED BY <2>1, <4>1
      <3> QED BY <1>4, <3>1, <3>2
    <2>3. ASSUME NEW i \in DOMAIN r
          PROVE  \E k \in 1..n :
                    /\ ~IsEmpty(spec[k]) /\ EqualsIgnoringCase(r[i].name, spec[k].name) /\ r[i].level = spec[k].level
                    /\ \A m \in k + 1..n : ~IsEmpty(spec[m]) => ~EqualsIgnoringCase(r[i].name, spec[m].name)
      <3>1. CASE EqualsIgnoringCase(r[i].name, item.name)
        <4>1. r[i].level = spec[n].level /\ ~IsEmpty(spec[n]) /\ EqualsIgnoringCase(r[i].name, spec[n].name)
          BY <1>1, <1>7, <2>1, <3>1
        <4> QED BY <1>4, <4>1
      <3>2. CASE ~EqualsIgnoringCase(r[i].name, item.name)
        <4>1. i \in DOMAIN rules /\ r[i] = rules[i]
          BY <2>1, <3>2
        <4>2. PICK k \in 1..n - 1 :
                /\ ~IsEmpty(spec[k]) /\ EqualsIgnoringCase(rules[i].name, spec[k].name) /\ rules[i].level = spec[k].level
                /\ \A m \in k + 1..n - 1 : ~IsEmpty(spec[m]) => ~EqualsIgnoringCase(rules[i].name, spec[m].name)
          BY <4>1 DEF RulesSay
        <4>3. \A m \in k + 1..n : ~IsEmpty(spec[m]) => ~EqualsIgnoringCase(r[i].name, spec[m].name)
          BY <1>1, <1>5, <3>2, <4>1, <4>2
        <4> QED BY <1>4, <4>1, <4>2, <4>3
      <3> QED BY <3>1, <3>2
    <2>4. RulesSay(r, spec, n)
      BY <2>1, <2>2, <2>3 DEF RulesSay
    <2> QED BY <1>1, <1>7, <2>1, <2>4
  <1> QED BY <1>6, <1>7

LEMMA RulesSaid ==
  ASSUME NEW spec \in Seq(Item)
  PROVE  RulesSay(ParseLevelRules(spec).rules, spec, Len(spec))
  <1>1. PICK n \in Nat : n = Len(spec)
    OBVIOUS
  <1>2. PICK f : RulesUpTo(f, spec, n) /\ ParseLevelRules(spec).rules = f[n]
    BY <1>1, RulesParsed
  <1> DEFINE without == {k \in 0..n : ~RulesSay(f[k], spec, k)}
  <1>3. without = {}
    <2> SUFFICES ASSUME without # {} PROVE FALSE
      OBVIOUS
    <2>1. PICK k \in 0..n : k \in without /\ \A j \in without : k <= j
      <3>1. without \in SUBSET Nat /\ without \subseteq 0..n
        BY <1>1
      <3> HIDE DEF without
      <3> QED BY <3>1, LeastOf
    <2>2. k # 0
      <3>1. RulesSay(<<>>, spec, 0)
        <4>1. <<>> \in Seq(Item) /\ DOMAIN <<>> = {} /\ 1..0 = {}
          OBVIOUS
        <4> QED BY <4>1 DEF RulesSay, OncePerName
      <3> QED BY <1>2, <2>1, <3>1 DEF RulesUpTo
    <2>3. k \in 1..n /\ k - 1 \in 0..n /\ k - 1 \notin without
      BY <1>1, <2>1, <2>2
    <2>4. RulesSay(f[k - 1], spec, k - 1)
      BY <2>3
    <2>5. f[k] = IF IsEmpty(spec[k]) THEN f[k - 1] ELSE AddRule(f[k - 1], spec[k])
      BY <1>2, <2>3 DEF RulesUpTo
    <2>6. RulesSay(f[k], spec, k)
      BY <1>1, <2>3, <2>4, <2>5, ItemSaid
    <2> QED BY <2>1, <2>6
  <1>4. n \in 0..n
    BY <1>1
  <1> QED BY <1>1, <1>2, <1>3, <1>4



----------------------------------------------------------------------------
(* The rule of a category *)

LEMMA Covered ==
  ASSUME NEW c \in Categories, NEW rule \in Item
  PROVE  Covers(rule, MakeCategoryName[c]) <=>
            \/ rule.name = <<"*">>
            \/ \E n \in CoveringNames(c) : EqualsIgnoringCase(n, rule.name)
  <1>1. PICK name \in Seq(STRING) : name = MakeCategoryName[c]
    BY NameAssumption
  <1>2. PICK rn \in Seq(STRING) : rn = rule.name
    BY ItemNames
  <1>3. PICK n \in Nat : n = Len(name) /\ DOMAIN name = 1..n
    OBVIOUS
  <1>4. PICK k \in Nat : k = Len(rn)
    OBVIOUS
  <1>5. CoveringNames(c) = {name} \cup {SubSeq(name, 1, i - 1) : i \in {j \in 1..n : name[j] = "."}}
    BY <1>1, <1>3 DEF CoveringNames
  <1>6. SubSeq(name, 1, n) = name
    BY <1>3
  <1>7. ASSUME rn # <<"*">>, Covers(rule, name) PROVE \E x \in CoveringNames(c) : EqualsIgnoringCase(x, rn)
    <2>1. n >= k /\ EqualsIgnoringCase(SubSeq(name, 1, k), rn) /\ (n = k \/ name[k + 1] = ".")
      BY <1>2, <1>3, <1>4, <1>7 DEF Covers
    <2>2. CASE n = k
      BY <1>5, <1>6, <2>1, <2>2
    <2>3. CASE n # k
      <3>1. k + 1 \in 1..n /\ name[k + 1] = "." /\ (k + 1) - 1 = k
        BY <2>1, <2>3
      <3>2. SubSeq(name, 1, k) \in CoveringNames(c)
        BY <1>5, <3>1
      <3> QED BY <2>1, <3>2
    <2> QED BY <2>2, <2>3
  <1>8. ASSUME NEW x \in CoveringNames(c), EqualsIgnoringCase(x, rn) PROVE Covers(rule, name)
    <2>1. CASE x = name
      <3>1. n = k
        BY <1>3, <1>4, <1>8, <2>1 DEF EqualsIgnoringCase
      <3>2. n >= k /\ SubSeq(name, 1, k) = x
        BY <1>3, <1>4, <1>6, <2>1, <3>1
      <3>3. Len(name) >= Len(rule.name) /\ Len(name) = Len(rule.name)
            /\ EqualsIgnoringCase(SubSeq(name, 1, Len(rule.name)), rule.name)
        BY <1>2, <1>3, <1>4, <1>8, <3>1, <3>2
      <3> QED BY <3>3 DEF Covers
    <2>2. ASSUME NEW i \in 1..n, name[i] = ".", x = SubSeq(name, 1, i - 1) PROVE Covers(rule, name)
      <3>1. Len(x) = i - 1
        BY <1>3, <2>2
      <3>2. k = i - 1
        BY <1>4, <1>8, <3>1 DEF EqualsIgnoringCase
      <3>3. n >= k /\ name[k + 1] = "." /\ x = SubSeq(name, 1, k)
        BY <1>3, <2>2, <3>2
      <3> QED BY <1>2, <1>3, <1>4, <1>8, <3>3 DEF Covers
    <2> QED BY <1>5, <2>1, <2>2
  <1> QED BY <1>1, <1>2, <1>7, <1>8 DEF Covers

\* Rules that cover a category and are as long are of one name
LEMMA CoversOnce ==
  ASSUME NEW a \in Item, NEW b \in Item, NEW name \in Seq(STRING), a.name # <<>>, b.name # <<>>
  PROVE  /\ Covers(a, name) /\ Covers(b, name) /\ LengthOf(a) = LengthOf(b) => EqualsIgnoringCase(a.name, b.name)
         /\ EqualsIgnoringCase(a.name, b.name) => LengthOf(a) = LengthOf(b) /\ (Covers(a, name) <=> Covers(b, name))
         /\ LengthOf(a) \in Nat /\ (Covers(a, name) => LengthOf(a) <= Len(name))
  <1>1. PICK p \in Seq(STRING) : p = a.name /\ p # <<>>
    BY ItemNames
  <1>2. PICK q \in Seq(STRING) : q = b.name /\ q # <<>>
    BY ItemNames
  <1>3. Len(p) \in Nat \ {0} /\ Len(q) \in Nat \ {0} /\ Len(name) \in Nat
    BY <1>1, <1>2
  <1>4. LengthOf(a) = (IF p = <<"*">> THEN 0 ELSE Len(p)) /\ LengthOf(b) = (IF q = <<"*">> THEN 0 ELSE Len(q))
    BY <1>1, <1>2 DEF LengthOf
  <1> DEFINE Begins(s) == Len(name) >= Len(s) /\ EqualsIgnoringCase(SubSeq(name, 1, Len(s)), s)
                          /\ (Len(name) = Len(s) \/ name[Len(s) + 1] = ".")
  <1>5. (Covers(a, name) <=> p = <<"*">> \/ Begins(p)) /\ (Covers(b, name) <=> q = <<"*">> \/ Begins(q))
    BY <1>1, <1>2 DEF Covers
  <1>6. ASSUME Covers(a, name), Covers(b, name), LengthOf(a) = LengthOf(b) PROVE EqualsIgnoringCase(p, q)
    <2>1. CASE p = <<"*">> \/ q = <<"*">>
      <3>1. p = q
        BY <1>3, <1>4, <1>6, <2>1
      <3> QED BY <3>1, SameName
    <2>2. CASE p # <<"*">> /\ q # <<"*">>
      <3>1. Len(p) = Len(q) /\ Begins(p) /\ Begins(q)
        BY <1>4, <1>5, <1>6, <2>2
      <3>2. PICK s \in Seq(STRING) : s = SubSeq(name, 1, Len(p))
        <4>1. Len(p) \in Nat /\ Len(p) <= Len(name)
          BY <1>3, <3>1
        <4>2. SubSeq(name, 1, Len(p)) \in Seq(STRING)
          BY <4>1
        <4> QED BY <4>2
      <3>3. EqualsIgnoringCase(s, p) /\ EqualsIgnoringCase(s, q)
        BY <3>1, <3>2
      <3> QED BY <3>3, SameNames
    <2> QED BY <2>1, <2>2
  <1>7. ASSUME EqualsIgnoringCase(p, q)
        PROVE  LengthOf(a) = LengthOf(b) /\ (Covers(a, name) <=> Covers(b, name))
    <2>1. Len(p) = Len(q) /\ (p = <<"*">> <=> q = <<"*">>)
      BY <1>7, SameNames
    <2>2. Begins(p) <=> Begins(q)
      <3> SUFFICES ASSUME Len(name) >= Len(p)
                   PROVE  EqualsIgnoringCase(SubSeq(name, 1, Len(p)), p) <=> EqualsIgnoringCase(SubSeq(name, 1, Len(q)), q)
        BY <2>1
      <3>1. PICK s \in Seq(STRING) : s = SubSeq(name, 1, Len(p))
        <4>1. Len(p) \in Nat /\ Len(p) <= Len(name)
          BY <1>3
        <4>2. SubSeq(name, 1, Len(p)) \in Seq(STRING)
          BY <4>1
        <4> QED BY <4>2
      <3>2. EqualsIgnoringCase(s, p) <=> EqualsIgnoringCase(s, q)
        BY <1>7, SameNames
      <3> QED BY <2>1, <3>1, <3>2
    <2> QED BY <1>4, <1>5, <2>1, <2>2
  <1>8. LengthOf(a) \in Nat /\ (Covers(a, name) => LengthOf(a) <= Len(name))
    BY <1>3, <1>4, <1>5
  <1> QED BY <1>1, <1>2, <1>6, <1>7, <1>8

\* Of rules there are, one that covers a name and is as long as any is found
LEMMA RuleFound ==
  ASSUME NEW rules \in Seq(Item), NEW name \in Seq(STRING), \A i \in DOMAIN rules : rules[i].name # <<>>
  PROVE  \/ /\ FindLevelRule(rules, name) = <<>>
            /\ \A i \in DOMAIN rules : ~Covers(rules[i], name)
         \/ \E i \in DOMAIN rules :
               /\ FindLevelRule(rules, name) = <<rules[i]>> /\ Covers(rules[i], name)
               /\ \A j \in DOMAIN rules : Covers(rules[j], name) => LengthOf(rules[j]) <= LengthOf(rules[i])
  <1>1. PICK n \in Nat : n = Len(name)
    OBVIOUS
  <1>2. PICK covering : covering = {i \in DOMAIN rules : Covers(rules[i], name)}
    OBVIOUS
  <1>3. CASE covering = {}
    BY <1>2, <1>3 DEF FindLevelRule
  <1>4. CASE covering # {}
    <2>1. \A i \in covering : i \in Nat /\ i \in DOMAIN rules /\ LengthOf(rules[i]) \in Nat /\ LengthOf(rules[i]) <= n
      <3> TAKE i \in covering
      <3>1. i \in DOMAIN rules /\ Covers(rules[i], name)
        BY <1>2
      <3>2. i \in Nat /\ rules[i] \in Item /\ rules[i].name # <<>>
        BY <3>1
      <3> QED BY <1>1, <3>1, <3>2, CoversOnce
    <2>2. PICK left : left = {n - LengthOf(rules[i]) : i \in covering}
      OBVIOUS
    <2>3. left \in SUBSET Nat /\ left # {}
      BY <1>1, <1>4, <2>1, <2>2
    <2>4. PICK least \in left : \A j \in left : least <= j
      BY <2>3, LeastOf
    <2>5. PICK longest : longest = {i \in covering : n - LengthOf(rules[i]) = least}
      OBVIOUS
    <2>6. longest \in SUBSET Nat /\ longest # {} /\ longest \subseteq covering
      BY <2>1, <2>2, <2>4, <2>5
    <2>7. PICK i \in longest : \A j \in longest : i <= j
      BY <2>6, LeastOf
    <2>8. i \in covering /\ i \in DOMAIN rules /\ i \in Nat /\ LengthOf(rules[i]) \in Nat /\ n - LengthOf(rules[i]) = least
      BY <2>1, <2>5, <2>6, <2>7
    <2>9. \A j \in covering : LengthOf(rules[j]) < LengthOf(rules[i]) \/ (LengthOf(rules[j]) = LengthOf(rules[i]) /\ i <= j)
      <3> TAKE j \in covering
      <3>1. n - LengthOf(rules[j]) \in left
        BY <2>2
      <3>2. least <= n - LengthOf(rules[j])
        BY <2>4, <3>1
      <3>3. LengthOf(rules[j]) <= LengthOf(rules[i]) /\ LengthOf(rules[j]) \in Nat
        BY <1>1, <2>1, <2>8, <3>2
      <3>4. LengthOf(rules[j]) = LengthOf(rules[i]) => j \in longest
        BY <2>5, <2>8
      <3> QED BY <2>7, <2>8, <3>3, <3>4
    <2>10. PICK best : best = CHOOSE k \in covering :
              \A j \in covering : LengthOf(rules[j]) < LengthOf(rules[k]) \/ (LengthOf(rules[j]) = LengthOf(rules[k]) /\ k <= j)
      OBVIOUS
    <2>11. /\ best \in covering
           /\ \A j \in covering : LengthOf(rules[j]) < LengthOf(rules[best]) \/ (LengthOf(rules[j]) = LengthOf(rules[best]) /\ best <= j)
      BY <2>8, <2>9, <2>10
    <2>12. FindLevelRule(rules, name) = <<rules[best]>>
      BY <1>2, <1>4, <2>10 DEF FindLevelRule
    <2>13. \A j \in covering : LengthOf(rules[j]) <= LengthOf(rules[best])
      BY <2>1, <2>11
    <2> QED BY <1>2, <2>11, <2>12, <2>13
  <1> QED BY <1>3, <1>4

\* The rule found for a category says what the spec applied says of it
LEMMA RuleSaid ==
  ASSUME NEW c \in Categories, applied \in Seq(Item), ParseLevelRules(applied).isValid
  PROVE  LET found == FindLevelRule(ParseLevelRules(applied).rules, MakeCategoryName[c])
         IN  LevelSaid(c) # {} => found # <<>> /\ found[1].level \in LevelSaid(c)
  <1>1. PICK spec \in Seq(Item) : spec = applied
    OBVIOUS
  <1>2. PICK n \in Nat : n = Len(spec) /\ DOMAIN spec = 1..n
    OBVIOUS
  <1>3. PICK rules : rules = ParseLevelRules(spec).rules
    OBVIOUS
  <1>4. PICK name \in Seq(STRING) : name = MakeCategoryName[c]
    BY NameAssumption
  <1>5. RulesSay(rules, spec, n)
    BY <1>2, <1>3, RulesSaid
  <1>6. rules \in Seq(Item) /\ (\A i \in DOMAIN rules : rules[i] \in Item) /\ \A k \in 1..n : spec[k] \in Item
    <2>1. rules \in Seq(Item)
      BY <1>5 DEF RulesSay
    <2>2. \A i \in DOMAIN rules : rules[i] \in Item
      BY <2>1
    <2>3. \A k \in 1..n : spec[k] \in Item
      BY <1>2
    <2> QED BY <2>1, <2>2, <2>3
  <1>7. \A k \in 1..n : ~IsEmpty(spec[k]) => spec[k].name # <<>>
    BY <1>1, <1>2 DEF ParseLevelRules, IsValidItem
  <1>8. ASSUME NEW i \in DOMAIN rules PROVE rules[i].name # <<>>
    <2>1. PICK k \in 1..n : ~IsEmpty(spec[k]) /\ EqualsIgnoringCase(rules[i].name, spec[k].name)
      BY <1>5 DEF RulesSay
    <2>2. rules[i].name \in Seq(STRING) /\ spec[k].name \in Seq(STRING) /\ spec[k].name # <<>>
      BY <1>6, <1>7, <2>1, ItemNames
    <2> QED BY <2>1, <2>2 DEF EqualsIgnoringCase
  <1>9. PICK says : says = {k \in 1..n : ~IsEmpty(spec[k]) /\ Covers(spec[k], name)}
    OBVIOUS
  <1>10. LevelSaid(c) = {spec[k].level : k \in {m \in says :
            \A j \in says : LengthOf(spec[j]) < LengthOf(spec[m]) \/ (LengthOf(spec[j]) = LengthOf(spec[m]) /\ j <= m)}}
    <2>1. says = {i \in DOMAIN applied :
                    /\ ~IsEmpty(applied[i])
                    /\ \/ applied[i].name = <<"*">>
                       \/ \E x \in CoveringNames(c) : EqualsIgnoringCase(x, applied[i].name)}
      <3>1. \A k \in 1..n : Covers(spec[k], name) <=>
                \/ spec[k].name = <<"*">>
                \/ \E x \in CoveringNames(c) : EqualsIgnoringCase(x, spec[k].name)
        BY <1>4, <1>6, Covered
      <3> QED BY <1>1, <1>2, <1>9, <3>1
    <2> QED BY <1>1, <2>1 DEF LevelSaid
  <1>11. SUFFICES ASSUME says # {}
                  PROVE  LET found == FindLevelRule(rules, name) IN found # <<>> /\ found[1].level \in LevelSaid(c)
    <2>1. says = {} => LevelSaid(c) = {}
      BY <1>10
    <2> QED BY <1>1, <1>3, <1>4, <2>1
  \* Each item that covers the category has its rule
  <1>12. ASSUME NEW k \in says
         PROVE  \E i \in DOMAIN rules : /\ EqualsIgnoringCase(rules[i].name, spec[k].name) /\ Covers(rules[i], name)
                                        /\ LengthOf(rules[i]) = LengthOf(spec[k])
    <2>1. k \in 1..n /\ ~IsEmpty(spec[k]) /\ Covers(spec[k], name)
      BY <1>9
    <2>2. PICK i \in DOMAIN rules : EqualsIgnoringCase(rules[i].name, spec[k].name)
      BY <1>5, <2>1 DEF RulesSay
    <2>3. rules[i] \in Item /\ spec[k] \in Item /\ rules[i].name # <<>> /\ spec[k].name # <<>>
      BY <1>6, <1>7, <1>8, <2>1
    <2> QED BY <2>1, <2>2, <2>3, CoversOnce
  <1>13. PICK i \in DOMAIN rules :
           /\ FindLevelRule(rules, name) = <<rules[i]>> /\ Covers(rules[i], name)
           /\ \A j \in DOMAIN rules : Covers(rules[j], name) => LengthOf(rules[j]) <= LengthOf(rules[i])
    <2>1. \E j \in DOMAIN rules : Covers(rules[j], name)
      BY <1>11, <1>12
    <2> QED BY <1>6, <1>8, <2>1, RuleFound
  <1>14. PICK k \in 1..n :
           /\ ~IsEmpty(spec[k]) /\ EqualsIgnoringCase(rules[i].name, spec[k].name) /\ rules[i].level = spec[k].level
           /\ \A m \in k + 1..n : ~IsEmpty(spec[m]) => ~EqualsIgnoringCase(rules[i].name, spec[m].name)
    BY <1>5 DEF RulesSay
  <1>15. rules[i] \in Item /\ rules[i].name # <<>> /\ spec[k] \in Item /\ spec[k].name # <<>>
    BY <1>6, <1>7, <1>8, <1>14
  <1>16. Covers(spec[k], name) /\ LengthOf(spec[k]) = LengthOf(rules[i]) /\ LengthOf(rules[i]) \in Nat
    BY <1>13, <1>14, <1>15, CoversOnce
  <1>17. k \in says
    BY <1>9, <1>14, <1>16
  <1>18. ASSUME NEW j \in says
         PROVE  LengthOf(spec[j]) < LengthOf(spec[k]) \/ (LengthOf(spec[j]) = LengthOf(spec[k]) /\ j <= k)
    <2>1. j \in 1..n /\ ~IsEmpty(spec[j]) /\ Covers(spec[j], name)
      BY <1>9
    <2>2. spec[j] \in Item /\ spec[j].name # <<>> /\ LengthOf(spec[j]) \in Nat
      BY <1>6, <1>7, <2>1, CoversOnce
    <2>3. LengthOf(spec[j]) <= LengthOf(rules[i])
      BY <1>12, <1>13
    <2>4. CASE LengthOf(spec[j]) = LengthOf(spec[k])
      <3>1. EqualsIgnoringCase(rules[i].name, spec[j].name)
        BY <1>13, <1>15, <1>16, <2>1, <2>2, <2>4, CoversOnce
      <3>2. j \notin k + 1..n
        BY <1>14, <2>1, <3>1
      <3> QED BY <1>2, <2>1, <2>4, <3>2
    <2>5. CASE LengthOf(spec[j]) # LengthOf(spec[k])
      BY <1>16, <2>2, <2>3, <2>5
    <2> QED BY <2>4, <2>5
  <1>19. rules[i].level \in LevelSaid(c)
    BY <1>10, <1>14, <1>17, <1>18
  <1> QED BY <1>13, <1>19

----------------------------------------------------------------------------
(* Every category has its rule's level *)

Registry == [Mutex : SUBSET Threads, Categories : SUBSET Categories, Rules : Seq(Item)]
RuleOf(rules, c) == FindLevelRule(rules, MakeCategoryName[c])

\* ApplyLevels() will come to the category
Waits(c) == \E t \in Threads : pc[t] = "apply" /\ c \in ToSet(todo[t])
Follows(c) == RuleOf(registry.Rules, c) # <<>> => m_Level[c] = RuleOf(registry.Rules, c)[1].level \/ Waits(c)

RulesInv ==
    /\ registry \in Registry /\ DOMAIN m_Level = Categories
    /\ applied \in Seq(Item) /\ ParseLevelRules(applied).isValid /\ registry.Rules = ParseLevelRules(applied).rules
    /\ \A t \in Threads : pc[t] = "apply" => registry.Mutex = {t} /\ todo[t] \in Seq(Categories)
    /\ \A c \in registry.Categories \ chosen : Follows(c)

LEMMA RegistryFields ==
  ASSUME NEW r \in Registry
  PROVE  r.Mutex \in SUBSET Threads /\ r.Categories \in SUBSET Categories /\ r.Rules \in Seq(Item)
  BY DEF Registry

LEMMA NewCategories ==
  ASSUME NEW r \in Registry, NEW s \in SUBSET Categories, NEW x, x = [r EXCEPT !.Categories = s]
  PROVE  x \in Registry /\ x.Mutex = r.Mutex /\ x.Categories = s /\ x.Rules = r.Rules
  BY DEF Registry

LEMMA NewMutex ==
  ASSUME NEW r \in Registry, NEW m \in SUBSET Threads, NEW x, x = [r EXCEPT !.Mutex = m]
  PROVE  x \in Registry /\ x.Mutex = m /\ x.Categories = r.Categories /\ x.Rules = r.Rules
  BY DEF Registry

LEMMA InitRules == Init => RulesInv
  <1> SUFFICES ASSUME Init PROVE RulesInv
    OBVIOUS
  <1>1. /\ registry = [Mutex |-> {}, Categories |-> instance.made, Rules |-> <<>>] /\ instance \in Instances
        /\ DOMAIN m_Level = Categories /\ applied = <<>> /\ \A t \in Threads : pc[t] = "idle"
    BY DEF Init
  <1>2. registry \in Registry /\ registry.Rules = <<>>
    <2>1. instance.made \subseteq Categories
      BY <1>1, InstanceAssumption
    <2>2. <<>> \in Seq(Item)
      OBVIOUS
    <2> QED BY <1>1, <2>1, <2>2 DEF Registry
  <1>3. <<>> \in Seq(Item) /\ Len(<<>>) = 0 /\ DOMAIN <<>> = {}
    OBVIOUS
  <1>4. ParseLevelRules(<<>>).isValid
    BY <1>3 DEF ParseLevelRules
  <1>5. ParseLevelRules(<<>>).rules = <<>>
    <2>1. PICK f : RulesUpTo(f, <<>>, 0) /\ ParseLevelRules(<<>>).rules = f[0]
      BY <1>3, RulesParsed
    <2> QED BY <2>1 DEF RulesUpTo
  <1>6. \A c : RuleOf(<<>>, c) = <<>>
    BY <1>3 DEF RuleOf, FindLevelRule
  <1> QED BY <1>1, <1>2, <1>3, <1>4, <1>5, <1>6 DEF RulesInv, Follows

\* The steps of logging and of the multi-log are not ApplyLevels()'s
LEMMA OtherSteps ==
  ASSUME RoutingInv, NEW t \in Threads, LogStep(t) \/ MultiStep(t)
  PROVE  UNCHANGED categoryVars /\ pc[t] # "apply" /\ pc'[t] # "apply"
  <1>1. DOMAIN pc = Threads
    BY DEF RoutingInv, StateOK
  <1>2. CASE LogStep(t)
    <2>1. ASSUME NEW form, NEW l, NEW entry, Log(t, form, l, entry)
          PROVE  UNCHANGED categoryVars /\ pc[t] = "idle" /\ pc'[t] \in {"idle", "write"}
      <3>1. UNCHANGED categoryVars /\ pc[t] = "idle" /\ (pc' = pc \/ pc' = [pc EXCEPT ![t] = "write"])
        BY <2>1 DEF Log, MayCall, Goto
      <3> QED BY <1>1, <3>1
    <2>2. CASE WriteToCategory(t)
      BY <1>1, <2>2 DEF WriteToCategory, Return, Unchanged
    <2>3. CASE WriteToSink(t)
      BY <1>1, <2>3 DEF WriteToSink, Return, Unchanged
    <2>4. CASE WriteToMulti(t)
      BY <1>1, <2>4 DEF WriteToMulti, Return, Goto, Unchanged
    <2>5. CASE RunHook(t)
      BY <1>1, <2>5 DEF RunHook, Return, Goto, Unchanged
    <2>6. CASE WriteRecord(t)
      BY <1>1, <2>6 DEF WriteRecord, Return, Goto, Unchanged
    <2>7. CASE FanOut(t)
      BY <1>1, <2>7 DEF FanOut, Return, Unchanged
    <2> QED BY <1>2, <2>1, <2>2, <2>3, <2>4, <2>5, <2>6, <2>7 DEF LogStep
  <1>3. CASE MultiStep(t)
    <2>1. ASSUME NEW l, AddLogger(t, l) \/ RemoveLogger(t, l) \/ RemoveAllLoggers(t)
          PROVE  UNCHANGED categoryVars /\ pc[t] = "idle" /\ pc' = pc
      BY <2>1 DEF AddLogger, RemoveLogger, RemoveAllLoggers, ListCall, Call, MayCall
    <2>2. ASSUME NEW config, Initialize(t, config) \/ Reconfigure(t, config)
          PROVE  UNCHANGED categoryVars /\ pc[t] = "idle" /\ (pc' = pc \/ pc' = [pc EXCEPT ![t] = "snapshot"])
      BY <2>2 DEF Initialize, Reconfigure, StartPass, MayCall, Refuse, Goto
    <2>3. ASSUME Open(t) \/ Close(t) \/ Flush(t)
          PROVE  UNCHANGED categoryVars /\ pc[t] = "idle" /\ pc' = [pc EXCEPT ![t] = "snapshot"]
      BY <2>3 DEF Open, Close, Flush, StartPass, MayCall, Passing, Goto
    <2>4. CASE SnapshotSinks(t)
      BY <1>1, <2>4 DEF SnapshotSinks, Goto, Unchanged
    <2>5. ASSUME NEW op, PassStep(t, op) PROVE UNCHANGED categoryVars /\ pc[t] = "pass" /\ pc' = pc
      BY <2>5 DEF PassStep
    <2>6. CASE InitializeSink(t) \/ ReconfigureSink(t) \/ OpenSink(t) \/ CloseSink(t) \/ FlushSink(t)
      BY <2>5, <2>6 DEF InitializeSink, ReconfigureSink, OpenSink, CloseSink, FlushSink
    <2>7. CASE FinishPass(t)
      BY <1>1, <2>7 DEF FinishPass, Return
    <2> QED BY <1>1, <1>3, <2>1, <2>2, <2>3, <2>4, <2>6, <2>7 DEF MultiStep
  <1> QED BY <1>2, <1>3

\* While the threads stay in ApplyLevels() and the rules stay
LEMMA RulesStay ==
  ASSUME RulesInv, UNCHANGED <<registry, applied>>, DOMAIN m_Level' = Categories,
         \A t \in Threads : (pc'[t] = "apply" <=> pc[t] = "apply") /\ (pc[t] = "apply" => todo'[t] = todo[t]),
         chosen \subseteq chosen', \A c \in Categories : m_Level'[c] = m_Level[c] \/ c \in chosen'
  PROVE  RulesInv'
  <1>1. \A c : Waits(c) => Waits(c)'
    BY DEF Waits
  <1>2. \A c : RuleOf(registry.Rules, c)' = RuleOf(registry.Rules, c)
    BY DEF RuleOf, MakeCategoryName
  <1>3. registry.Categories \subseteq Categories
    BY RegistryFields DEF RulesInv
  <1>4. ASSUME NEW c \in registry.Categories \ chosen' PROVE Follows(c)'
    <2>1. Follows(c) /\ m_Level'[c] = m_Level[c]
      BY <1>3 DEF RulesInv
    <2> QED BY <1>1, <1>2, <2>1 DEF Follows
  <1>5. ParseLevelRules(applied)' = ParseLevelRules(applied)
    BY DEF ParseLevelRules
  <1> QED BY <1>4, <1>5 DEF RulesInv

\* The rule of a category, and its level once it is set
LEMMA RuleLevelIs ==
  \A rules, c, otherwise :
      RuleLevel(rules, c, otherwise) = IF RuleOf(rules, c) = <<>> THEN otherwise ELSE RuleOf(rules, c)[1].level
  BY DEF RuleLevel, RuleOf

LEMMA OwnLevelStep ==
  ASSUME RoutingInv, RulesInv, NEW t \in Threads, NEW l, NEW level,
         SetMinimumLevel(t, l, level) \/ ResetMinimumLevel(t, l)
  PROVE  RulesInv'
  <1>1. UNCHANGED <<registry, applied, pc, todo>>
    BY DEF SetMinimumLevel, ResetMinimumLevel
  <1>2. \/ m_Level' = m_Level /\ chosen' = chosen
        \/ \E x : m_Level' = [m_Level EXCEPT ![l] = x] /\ chosen' = chosen \cup {l}
    BY DEF SetMinimumLevel, ResetMinimumLevel
  <1>3. DOMAIN m_Level' = Categories /\ chosen \subseteq chosen' /\ \A c \in Categories : m_Level'[c] = m_Level[c] \/ c \in chosen'
    BY <1>2 DEF RulesInv
  <1> QED BY <1>1, <1>3, RulesStay

LEMMA MakeStep ==
  ASSUME RoutingInv, RulesInv, NEW t \in Threads, NEW c \in Categories, MakeCategory(t, c)
  PROVE  RulesInv'
  <1>1. /\ registry' = [registry EXCEPT !.Categories = registry.Categories \cup {c}]
        /\ m_Level' = [m_Level EXCEPT ![c] = RuleLevel(registry.Rules, c, NoOwnLevel)]
        /\ chosen' = chosen \ {c} /\ UNCHANGED <<applied, pc, todo>>
    BY DEF MakeCategory
  <1>2. registry \in Registry /\ DOMAIN m_Level = Categories
    BY DEF RulesInv
  <1>3. /\ registry' \in Registry /\ registry'.Mutex = registry.Mutex /\ registry'.Rules = registry.Rules
        /\ registry'.Categories = registry.Categories \cup {c} /\ registry.Categories \subseteq Categories
    <2>1. registry.Categories \cup {c} \in SUBSET Categories
      BY <1>2, RegistryFields
    <2>2. PICK more \in SUBSET Categories : more = registry.Categories \cup {c}
      BY <2>1
    <2>3. registry' = [registry EXCEPT !.Categories = more]
      BY <1>1, <2>2
    <2>4. registry.Categories \subseteq Categories
      BY <1>2, RegistryFields
    <2> QED BY <1>2, <2>2, <2>3, <2>4, NewCategories
  <1>4. \A d : RuleOf(registry.Rules, d)' = RuleOf(registry.Rules, d)
    BY <1>3 DEF RuleOf, MakeCategoryName
  <1>5. \A d : Waits(d)' <=> Waits(d)
    BY <1>1 DEF Waits
  <1>6. ASSUME NEW d \in registry'.Categories \ chosen' PROVE Follows(d)'
    <2>1. CASE d = c
      BY <1>1, <1>2, <1>4, <2>1, RuleLevelIs DEF Follows
    <2>2. CASE d # c
      <3>1. d \in registry.Categories \ chosen /\ m_Level'[d] = m_Level[d]
        BY <1>1, <1>2, <1>3, <2>2
      <3> QED BY <1>4, <1>5, <3>1 DEF RulesInv, Follows
    <2> QED BY <2>1, <2>2
  <1>7. ParseLevelRules(applied)' = ParseLevelRules(applied)
    BY <1>1 DEF ParseLevelRules
  <1>8. DOMAIN m_Level' = Categories
    BY <1>1, <1>2
  <1>9. \A u \in Threads : pc'[u] = "apply" => registry'.Mutex = {u} /\ todo'[u] \in Seq(Categories)
    BY <1>1, <1>3 DEF RulesInv
  <1> QED BY <1>1, <1>3, <1>6, <1>7, <1>8, <1>9 DEF RulesInv

LEMMA DestroyStep ==
  ASSUME RoutingInv, RulesInv, NEW t \in Threads, NEW c \in Categories, DestroyCategory(t, c)
  PROVE  RulesInv'
  <1>1. /\ registry' = [registry EXCEPT !.Categories = registry.Categories \ {c}]
        /\ UNCHANGED <<m_Level, applied, chosen, pc, todo>>
    BY DEF DestroyCategory
  <1>2. registry \in Registry
    BY DEF RulesInv
  <1>3. /\ registry' \in Registry /\ registry'.Mutex = registry.Mutex /\ registry'.Rules = registry.Rules
        /\ registry'.Categories = registry.Categories \ {c}
    <2>1. registry.Categories \ {c} \in SUBSET Categories
      BY <1>2, RegistryFields
    <2>2. PICK rest \in SUBSET Categories : rest = registry.Categories \ {c}
      BY <2>1
    <2>3. registry' = [registry EXCEPT !.Categories = rest]
      BY <1>1, <2>2
    <2> QED BY <1>2, <2>2, <2>3, NewCategories
  <1>4. \A d : RuleOf(registry.Rules, d)' = RuleOf(registry.Rules, d)
    BY <1>3 DEF RuleOf, MakeCategoryName
  <1>5. \A d : Waits(d)' <=> Waits(d)
    BY <1>1 DEF Waits
  <1>6. \A d : Follows(d)' <=> Follows(d)
    BY <1>1, <1>4, <1>5 DEF Follows
  <1>7. ParseLevelRules(applied)' = ParseLevelRules(applied)
    BY <1>1 DEF ParseLevelRules
  <1> QED BY <1>1, <1>3, <1>6, <1>7 DEF RulesInv

\* The order in which the categories are told
LEMMA ListOfSet ==
  ASSUME NEW S, IsFiniteSet(S)
  PROVE  SetToSeq(S) \in Seq(S) /\ ToSet(SetToSeq(S)) = S
  <1>1. PICK n \in Nat : n = Cardinality(S)
    BY FS_CardinalityType
  <1>2. PICK g \in Bijection(1..n, S) : TRUE
    BY <1>1, FS_CardinalityType DEF ExistsBijection
  <1>3. g \in [1..n -> S] /\ IsInjective(g)
    BY <1>2 DEF Bijection, Injection, IsInjective
  <1>4. PICK f : f = SetToSeq(S)
    OBVIOUS
  <1>5. f \in [1..n -> S] /\ IsInjective(f)
    BY <1>1, <1>3, <1>4 DEF SetToSeq
  <1>6. f \in Injection(1..n, S)
    BY <1>5 DEF Injection, IsInjective
  <1>7. IsFiniteSet(1..n) /\ Cardinality(1..n) = n
    BY FS_Interval
  <1>8. f \in Surjection(1..n, S)
    BY <1>1, <1>6, <1>7, FS_Injection
  <1>9. ToSet(f) = S
    BY <1>5, <1>8 DEF Surjection, ToSet
  <1>10. f \in Seq(S)
    BY <1>5
  <1> QED BY <1>4, <1>9, <1>10

LEMMA ApplyStep ==
  ASSUME RoutingInv, RulesInv, NEW t \in Threads, NEW spec \in instance.specs, ApplyLevels(t, spec)
  PROVE  RulesInv'
  <1>0. DOMAIN pc = Threads /\ DOMAIN todo = Threads /\ spec \in Seq(Item) /\ instance \in Instances
    <2>1. instance \in Instances /\ DOMAIN pc = Threads /\ DOMAIN todo = Threads
      BY DEF RoutingInv, StateOK
    <2> QED BY <2>1, InstanceAssumption DEF Item
  <1>1. registry.Mutex = {} /\ UNCHANGED <<m_Level, chosen>> /\ pc[t] = "idle"
    BY DEF ApplyLevels, Call, MayCall
  <1>2. registry \in Registry /\ DOMAIN m_Level = Categories
    BY DEF RulesInv
  <1>3. CASE ~ParseLevelRules(spec).isValid
    <2>1. UNCHANGED <<registry, applied, pc, todo>>
      BY <1>3 DEF ApplyLevels
    <2> QED BY <1>1, <1>2, <2>1, RulesStay
  <1>4. CASE ParseLevelRules(spec).isValid
    <2>1. /\ registry' = [registry EXCEPT !.Mutex = {t}, !.Rules = ParseLevelRules(spec).rules]
          /\ applied' = spec /\ todo' = [todo EXCEPT ![t] = SetToSeq(registry.Categories)]
          /\ pc' = [pc EXCEPT ![t] = "apply"]
      BY <1>4 DEF ApplyLevels, Goto
    <2>2. ParseLevelRules(spec).rules \in Seq(Item)
      BY <1>0, RulesSaid DEF RulesSay
    <2>3. /\ registry' \in Registry /\ registry'.Mutex = {t} /\ registry'.Categories = registry.Categories
          /\ registry'.Rules = ParseLevelRules(spec).rules /\ registry.Categories \subseteq Categories
      <3>1. {t} \in SUBSET Threads
        OBVIOUS
      <3>2. PICK holder \in SUBSET Threads : holder = {t}
        BY <3>1
      <3>3. PICK rules \in Seq(Item) : rules = ParseLevelRules(spec).rules
        BY <2>2
      <3>4. registry' = [registry EXCEPT !.Mutex = holder, !.Rules = rules]
        BY <2>1, <3>2, <3>3
      <3>5. registry.Categories \subseteq Categories
        BY <1>2, RegistryFields
      <3>6. /\ registry' \in Registry /\ registry'.Mutex = holder /\ registry'.Categories = registry.Categories
            /\ registry'.Rules = rules
        BY <1>2, <3>4 DEF Registry
      <3> QED BY <3>2, <3>3, <3>5, <3>6
    <2>4. SetToSeq(registry.Categories) \in Seq(registry.Categories)
          /\ ToSet(SetToSeq(registry.Categories)) = registry.Categories
      <3>1. IsFiniteSet(registry.Categories)
        BY <2>3, StructureAssumption, FS_Subset
      <3> QED BY <3>1, ListOfSet
    <2>5. PICK order \in Seq(Categories) : order = SetToSeq(registry.Categories)
      <3>1. Seq(registry.Categories) \subseteq Seq(Categories)
        BY <2>3
      <3> QED BY <2>4, <3>1
    <2>6. pc'[t] = "apply" /\ todo'[t] = order
      BY <1>0, <2>1, <2>5
    <2>7. \A c \in registry.Categories : Waits(c)'
      BY <2>4, <2>5, <2>6 DEF Waits
    <2>8. \A u \in Threads : pc'[u] = "apply" => u = t
      BY <1>0, <1>1, <2>1 DEF RulesInv
    <2>9. \A c \in registry'.Categories \ chosen' : Follows(c)'
      BY <2>3, <2>7 DEF Follows
    <2>10. ParseLevelRules(applied)' = ParseLevelRules(spec)
      BY <2>1 DEF ParseLevelRules
    <2> QED BY <1>0, <1>1, <1>2, <1>4, <2>1, <2>3, <2>5, <2>6, <2>8, <2>9, <2>10 DEF RulesInv
  <1> QED BY <1>3, <1>4

LEMMA RuleStep ==
  ASSUME RoutingInv, RulesInv, NEW t \in Threads, ApplyRule(t)
  PROVE  RulesInv'
  <1>1. /\ pc[t] = "apply" /\ todo[t] # <<>> /\ UNCHANGED <<registry, applied, pc>>
        /\ m_Level' = [m_Level EXCEPT ![Head(todo[t])] = RuleLevel(registry.Rules, Head(todo[t]), m_Level[Head(todo[t])])]
        /\ chosen' = IF RuleOf(registry.Rules, Head(todo[t])) = <<>> THEN chosen ELSE chosen \ {Head(todo[t])}
        /\ todo' = [todo EXCEPT ![t] = Tail(todo[t])]
    BY DEF ApplyRule, RuleOf
  <1>2. registry.Mutex = {t} /\ todo[t] \in Seq(Categories) /\ DOMAIN m_Level = Categories
    BY <1>1 DEF RulesInv
  <1>3. PICK c \in Categories : c = Head(todo[t])
    BY <1>1, <1>2, TailList
  <1>4. PICK rest \in Seq(Categories) : rest = Tail(todo[t]) /\ ToSet(todo[t]) = ToSet(rest) \cup {c}
    BY <1>1, <1>2, <1>3, TailList
  <1>5. DOMAIN todo = Threads
    BY DEF RoutingInv, StateOK
  <1>6. \A u \in Threads : pc[u] = "apply" => u = t
    BY <1>2 DEF RulesInv
  <1>7. \A d : RuleOf(registry.Rules, d)' = RuleOf(registry.Rules, d)
    BY <1>1 DEF RuleOf, MakeCategoryName
  <1>8. todo'[t] = rest /\ DOMAIN m_Level' = Categories
    BY <1>1, <1>2, <1>4, <1>5
  <1>9. ASSUME NEW d \in registry.Categories \ chosen' PROVE Follows(d)'
    <2>1. CASE d = c
      BY <1>1, <1>2, <1>3, <1>7, <2>1, RuleLevelIs DEF Follows
    <2>2. CASE d # c
      <3>1. d \in registry.Categories \ chosen /\ m_Level'[d] = m_Level[d]
        <4>1. d \in Categories
          BY RegistryFields DEF RulesInv
        <4> QED BY <1>1, <1>2, <1>3, <2>2, <4>1
      <3>2. Waits(d) => Waits(d)'
        BY <1>1, <1>4, <1>6, <1>8, <2>2 DEF Waits
      <3> QED BY <1>7, <3>1, <3>2 DEF RulesInv, Follows
    <2> QED BY <2>1, <2>2
  <1>10. ParseLevelRules(applied)' = ParseLevelRules(applied)
    BY <1>1 DEF ParseLevelRules
  <1>11. \A u \in Threads : pc'[u] = "apply" => registry'.Mutex = {u} /\ todo'[u] \in Seq(Categories)
    BY <1>1, <1>2, <1>6, <1>8
  <1> QED BY <1>1, <1>8, <1>9, <1>10, <1>11 DEF RulesInv

LEMMA FinishStep ==
  ASSUME RoutingInv, RulesInv, NEW t \in Threads, FinishApply(t)
  PROVE  RulesInv'
  <1>1. /\ pc[t] = "apply" /\ todo[t] = <<>> /\ UNCHANGED <<m_Level, applied, chosen, todo>>
        /\ registry' = [registry EXCEPT !.Mutex = {}] /\ pc' = [pc EXCEPT ![t] = "idle"]
    BY DEF FinishApply, Return
  <1>2. registry \in Registry /\ DOMAIN pc = Threads /\ registry.Mutex = {t}
    BY <1>1 DEF RulesInv, RoutingInv, StateOK
  <1>3. /\ registry' \in Registry /\ registry'.Mutex = {} /\ registry'.Categories = registry.Categories
        /\ registry'.Rules = registry.Rules
    <2>1. PICK none \in SUBSET Threads : none = {}
      OBVIOUS
    <2>2. registry' = [registry EXCEPT !.Mutex = none]
      BY <1>1, <2>1
    <2> QED BY <1>2, <2>1, <2>2, NewMutex
  <1>4. \A u \in Threads : pc[u] = "apply" => u = t
    BY <1>2 DEF RulesInv
  <1>5. \A c : ~Waits(c)
    <2>1. ToSet(<<>>) = {}
      BY DEF ToSet
    <2> QED BY <1>1, <1>4, <2>1 DEF Waits
  <1>6. \A c : RuleOf(registry.Rules, c)' = RuleOf(registry.Rules, c)
    BY <1>3 DEF RuleOf, MakeCategoryName
  <1>7. \A c \in registry'.Categories \ chosen' : Follows(c)'
    BY <1>1, <1>3, <1>5, <1>6 DEF RulesInv, Follows
  <1>8. ParseLevelRules(applied)' = ParseLevelRules(applied)
    BY <1>1 DEF ParseLevelRules
  <1>9. \A u \in Threads : pc'[u] # "apply"
    BY <1>1, <1>2, <1>4
  <1> QED BY <1>1, <1>3, <1>7, <1>8, <1>9 DEF RulesInv

LEMMA NextRules ==
  ASSUME RoutingInv, RulesInv, [Next]_vars
  PROVE  RulesInv'
  <1>1. ASSUME NEW t \in Threads, LogStep(t) \/ MultiStep(t) PROVE RulesInv'
    <2>1. UNCHANGED <<registry, applied, m_Level, chosen>> /\ pc[t] # "apply" /\ pc'[t] # "apply"
      BY <1>1, OtherSteps DEF categoryVars
    <2>2. \A u \in Threads \ {t} : pc'[u] = pc[u] /\ todo'[u] = todo[u]
      BY <1>1, LogStepsOK, MultiStepsOK DEF StepOK, Undisturbed
    <2>3. DOMAIN m_Level' = Categories
      BY <2>1 DEF RulesInv
    <2>4. \A u \in Threads : (pc'[u] = "apply" <=> pc[u] = "apply") /\ (pc[u] = "apply" => todo'[u] = todo[u])
      BY <2>1, <2>2
    <2> QED BY <2>1, <2>3, <2>4, RulesStay
  <1>2. ASSUME NEW t \in Threads, LevelStep(t) PROVE RulesInv'
    <2>1. ASSUME NEW l, NEW enabled, SetEnabled(t, l, enabled) PROVE RulesInv'
      <3>1. UNCHANGED <<registry, applied, m_Level, chosen, pc, todo>>
        BY <2>1 DEF SetEnabled, categoryVars
      <3>2. DOMAIN m_Level' = Categories
        BY <3>1 DEF RulesInv
      <3> QED BY <3>1, <3>2, RulesStay
    <2> QED BY <1>2, <2>1, OwnLevelStep, MakeStep, DestroyStep, ApplyStep, RuleStep, FinishStep DEF LevelStep
  <1>3. CASE UNCHANGED vars
    <2>1. UNCHANGED <<registry, applied, m_Level, chosen, pc, todo>>
      BY <1>3 DEF vars, categoryVars, callVars
    <2>2. DOMAIN m_Level' = Categories
      BY <2>1 DEF RulesInv
    <2> QED BY <2>1, <2>2, RulesStay
  <1>4. ASSUME NEW l \in Sinks, WriteToFile(l) PROVE RulesInv'
    <2>1. UNCHANGED <<registry, applied, m_Level, chosen, pc, todo>>
      BY <1>4 DEF WriteToFile, categoryVars, callVars
    <2>2. DOMAIN m_Level' = Categories
      BY <2>1 DEF RulesInv
    <2> QED BY <2>1, <2>2, RulesStay
  <1> QED BY <1>1, <1>2, <1>3, <1>4 DEF Next, AllIdle

LEMMA LevelSaidHolds == RulesInv => HasTheLevelSaid
  <1> SUFFICES ASSUME RulesInv, registry.Mutex = {}, NEW c \in registry.Categories \ chosen, LevelSaid(c) # {}
               PROVE  m_Level[c] \in LevelSaid(c)
    BY DEF HasTheLevelSaid
  <1>1. c \in Categories
    BY RegistryFields DEF RulesInv
  <1>2. RuleOf(registry.Rules, c) # <<>> /\ RuleOf(registry.Rules, c)[1].level \in LevelSaid(c)
    BY <1>1, RuleSaid DEF RulesInv, RuleOf
  <1>3. ~Waits(c)
    BY DEF Waits, RulesInv
  <1>4. Follows(c)
    BY DEF RulesInv
  <1> QED BY <1>2, <1>3, <1>4 DEF Follows

----------------------------------------------------------------------------
(* GetMinimumLevel() *)

LEMMA MinimumIs ==
  ASSUME NEW c \in Categories
  PROVE  GetMinimumLevel[c] = IF FirstLevel(c) # NoOwnLevel THEN FirstLevel(c) ELSE m_MinimumLevel[Base(c)]
  <1> DEFINE OnTheWay(d) == IF FirstLevel(d) # NoOwnLevel THEN FirstLevel(d) ELSE m_MinimumLevel[Base(d)]
  <1>1. PICK levels : levels = [d \in Categories |-> OnTheWay(d)]
    OBVIOUS
  <1>2. ASSUME NEW d \in Categories
        PROVE  levels[d] = IF m_Level[d] # NoOwnLevel THEN m_Level[d]
                           ELSE IF Wrapped[d] \in Categories THEN levels[Wrapped[d]] ELSE m_MinimumLevel[Wrapped[d]]
    <2>1. levels[d] = OnTheWay(d) /\ (Wrapped[d] \in Categories => levels[Wrapped[d]] = OnTheWay(Wrapped[d]))
      BY <1>1
    <2>2. FirstLevel(d) = IF m_Level[d] # NoOwnLevel THEN m_Level[d]
                          ELSE IF Wrapped[d] \in Categories THEN FirstLevel(Wrapped[d]) ELSE NoOwnLevel
      BY LevelOnTheWay
    <2>3. Base(d) = IF Wrapped[d] \in Categories THEN Base(Wrapped[d]) ELSE Wrapped[d]
      BY PathEnds
    <2> QED BY <2>1, <2>2, <2>3
  <1>3. PICK least : least = CHOOSE f : f = [d \in Categories |->
            IF m_Level[d] # NoOwnLevel THEN m_Level[d]
            ELSE IF Wrapped[d] \in Categories THEN f[Wrapped[d]] ELSE m_MinimumLevel[Wrapped[d]]]
    OBVIOUS
  <1>4. levels = [d \in Categories |-> IF m_Level[d] # NoOwnLevel THEN m_Level[d]
            ELSE IF Wrapped[d] \in Categories THEN levels[Wrapped[d]] ELSE m_MinimumLevel[Wrapped[d]]]
    BY <1>1, <1>2
  <1>5. least = [d \in Categories |-> IF m_Level[d] # NoOwnLevel THEN m_Level[d]
            ELSE IF Wrapped[d] \in Categories THEN least[Wrapped[d]] ELSE m_MinimumLevel[Wrapped[d]]]
    BY <1>3, <1>4
  <1>6. GetMinimumLevel = least
    BY <1>3 DEF GetMinimumLevel
  <1>7. PICK lengths : lengths = {Len(Path[d]) : d \in {e \in Categories : least[e] # levels[e]}}
    OBVIOUS
  <1>8. lengths = {}
    <2> SUFFICES ASSUME lengths # {} PROVE FALSE
      OBVIOUS
    <2>1. lengths \in SUBSET Nat
      BY <1>7, PathType
    <2>2. PICK k \in lengths : \A j \in lengths : k <= j
      BY <2>1, LeastOf
    <2>3. PICK d \in Categories : least[d] # levels[d] /\ k = Len(Path[d])
      BY <1>7, <2>2
    <2>4. Wrapped[d] \in Categories /\ least[Wrapped[d]] # levels[Wrapped[d]]
      <3>1. least[d] = IF m_Level[d] # NoOwnLevel THEN m_Level[d]
                       ELSE IF Wrapped[d] \in Categories THEN least[Wrapped[d]] ELSE m_MinimumLevel[Wrapped[d]]
        BY <1>5
      <3> QED BY <1>2, <2>3, <3>1
    <2>5. Len(Path[Wrapped[d]]) \in lengths /\ Len(Path[d]) = Len(Path[Wrapped[d]]) + 1
          /\ Len(Path[Wrapped[d]]) \in Nat
      BY <1>7, <2>4, PathType
    <2>6. k <= Len(Path[Wrapped[d]])
      BY <2>2, <2>5
    <2> QED BY <2>3, <2>5, <2>6
  <1>9. least[c] = levels[c]
    BY <1>7, <1>8
  <1> QED BY <1>1, <1>6, <1>9

LEMMA BaseType ==
  ASSUME NEW c \in Categories
  PROVE  Base(c) \in Sinks \cup {Multi}
  <1>1. PICK lengths : lengths = {Len(Path[d]) : d \in {e \in Categories : Base(e) \notin Sinks \cup {Multi}}}
    OBVIOUS
  <1>2. lengths = {}
    <2> SUFFICES ASSUME lengths # {} PROVE FALSE
      OBVIOUS
    <2>1. lengths \in SUBSET Nat
      BY <1>1, PathType
    <2>2. PICK k \in lengths : \A j \in lengths : k <= j
      BY <2>1, LeastOf
    <2>3. PICK d \in Categories : Base(d) \notin Sinks \cup {Multi} /\ k = Len(Path[d])
      BY <1>1, <2>2
    <2>4. Wrapped[d] \in Categories /\ Base(Wrapped[d]) \notin Sinks \cup {Multi}
      <3>1. Wrapped[d] \in Loggers /\ Base(d) = IF Wrapped[d] \in Categories THEN Base(Wrapped[d]) ELSE Wrapped[d]
        BY StructureAssumption, PathEnds
      <3> QED BY <2>3, <3>1 DEF Loggers
    <2>5. Len(Path[Wrapped[d]]) \in lengths /\ Len(Path[d]) = Len(Path[Wrapped[d]]) + 1
          /\ Len(Path[Wrapped[d]]) \in Nat
      BY <1>1, <2>4, PathType
    <2>6. k <= Len(Path[Wrapped[d]])
      BY <2>2, <2>5
    <2> QED BY <2>3, <2>5, <2>6
  <1> QED BY <1>1, <1>2

LEMMA MinimumHolds == RoutingInv /\ RulesInv => MinimumLevelIsTheGate
  <1> SUFFICES ASSUME RoutingInv, RulesInv, NEW c \in registry.Categories, NEW level \in Levels,
                      m_IsEnabled[Base(c)], \A i \in DOMAIN Path[c] : m_IsEnabled[Path[c][i]]
               PROVE  LET r == MakeRecord([level |-> level, forced |-> FALSE])
                          passes == level >= GetMinimumLevel[c]
                      IN  IF Base(c) = Multi
                          THEN ShouldLog(c, r) <=> passes /\ \E i \in DOMAIN m_Sinks : ShouldLogHere(m_Sinks[i], r)
                          ELSE ShouldLog(c, r) <=> passes
    BY DEF MinimumLevelIsTheGate
  <1>1. c \in Categories
    BY RegistryFields DEF RulesInv
  <1>2. PICK r : r = MakeRecord([level |-> level, forced |-> FALSE])
    OBVIOUS
  <1>3. DOMAIN r = Entry /\ r.level = level /\ ~r.forced /\ r.categoryLevel = NoOwnLevel /\ level # Off
    <2>1. level # Off
      BY StructureAssumption
    <2> QED BY <1>2, <2>1 DEF MakeRecord, Entry
  <1>4. PICK x : x = [r EXCEPT !.categoryLevel = IF @ = NoOwnLevel THEN FirstLevel(c) ELSE @]
    OBVIOUS
  <1>5. DOMAIN x = Entry /\ x.level = level /\ ~x.forced /\ x.categoryLevel = FirstLevel(c)
    BY <1>3, <1>4, GateFields
  <1>6. ShouldLog(c, r) <=> ShouldLogHere(Base(c), x)
    BY <1>1, <1>4 DEF ShouldLog
  <1>7. PassesLevelGate(Base(c), x) <=> level >= GetMinimumLevel[c]
    BY <1>1, <1>3, <1>5, MinimumIs DEF PassesLevelGate, GetMinimumLevelFor
  <1>8. CASE Base(c) # Multi
    BY <1>2, <1>6, <1>7, <1>8 DEF ShouldLogHere
  <1>9. CASE Base(c) = Multi
    <2>1. ASSUME NEW i \in DOMAIN m_Sinks
          PROVE  PassesLevelGate(m_Sinks[i], SinkRecord(x)) <=> ShouldLogHere(m_Sinks[i], r)
      <3>1. m_Sinks[i] # Multi
        BY StructureAssumption, ListSet DEF RoutingInv, StateOK
      <3>2. SinkRecord(x).level = r.level /\ SinkRecord(x).forced = x.forced /\ SinkRecord(x).categoryLevel = NoOwnLevel
        BY <1>3, <1>5, GateFields DEF SinkRecord
      <3>3. x.forced = r.forced
        BY <1>3, <1>4, GateFields
      <3>4. PassesLevelGate(m_Sinks[i], SinkRecord(x)) = PassesLevelGate(m_Sinks[i], r)
        BY <1>3, <3>2, <3>3, SameGate
      <3> QED BY <3>1, <3>4 DEF ShouldLogHere
    <2> QED BY <1>2, <1>6, <1>7, <1>9, <2>1 DEF ShouldLogHere
  <1> QED BY <1>8, <1>9

\* While no ApplyLevels() is at work, every category has the level the spec
\* applied last gives it, unless a call of its own changed it since; categories
\* made while the spec is applied, destroyed or given a level meanwhile too. And
\* its GetMinimumLevel() is the level its entries are gated with.
THEOREM CategoriesFollowTheRulesHolds == Spec => []CategoriesFollowTheRules
  <1>1. RoutingInv /\ RulesInv => CategoriesFollowTheRules
    BY LevelSaidHolds, MinimumHolds DEF CategoriesFollowTheRules
  <1> QED BY <1>1, InitOK, InitRules, NextOK, NextRules, PTL DEF Spec
=============================================================================
