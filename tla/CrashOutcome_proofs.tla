------------------------ MODULE CrashOutcome_proofs ------------------------
(***************************************************************************)
(* What a crash leaves in the loggers and which handlers get it: the lines *)
(* the crash line follows, and the chain of the program's crash handlers.  *)
(***************************************************************************)
EXTENDS CrashHandling_proofs

----------------------------------------------------------------------------
(* The entries a logger has written *)

\* The n-th entry of a logger
IsEntry(x, n) == x.kind = "entry" /\ x.n = n
\* The entries of s are those from a + 1 to b, each once
NumberedIn(s, a, b) ==
    /\ a <= b
    /\ \A i \in 1 .. Len(s) : s[i].kind = "entry" => s[i].n > a /\ s[i].n <= b
    /\ \A n \in a + 1 .. b : \E i \in 1 .. Len(s) : IsEntry(s[i], n)
    /\ \A i, j \in 1 .. Len(s) : s[i].kind = "entry" /\ s[j].kind = "entry" /\ s[i].n = s[j].n => i = j

LEMMA ConcatLines ==
  ASSUME NEW s \in Seq(Line), NEW r \in Seq(Line)
  PROVE  /\ s \o r \in Seq(Line) /\ Len(s \o r) = Len(s) + Len(r)
         /\ \A i \in 1 .. Len(s) : i \in 1 .. Len(s \o r) /\ (s \o r)[i] = s[i]
         /\ \A i \in 1 .. Len(r) : Len(s) + i \in 1 .. Len(s \o r) /\ (s \o r)[Len(s) + i] = r[i]
         /\ \A i \in 1 .. Len(s \o r) : i \in 1 .. Len(s) \/ (i - Len(s) \in 1 .. Len(r) /\ (s \o r)[i] = r[i - Len(s)])
  <1>1. s \o r \in Seq(Line) /\ Len(s \o r) = Len(s) + Len(r)
    BY ConcatProperties
  <1>2. \A i \in 1 .. Len(s) + Len(r) : (s \o r)[i] = IF i <= Len(s) THEN s[i] ELSE r[i - Len(s)]
    BY ConcatProperties
  <1> DEFINE c == s \o r
  <1>3. c \in Seq(Line) /\ Len(c) = Len(s) + Len(r) /\ \A i \in 1 .. Len(s) + Len(r) : c[i] = IF i <= Len(s) THEN s[i] ELSE r[i - Len(s)]
    BY <1>1, <1>2
  <1> HIDE DEF c
  <1>4. \A i \in 1 .. Len(s) : i \in 1 .. Len(c) /\ c[i] = s[i]
    BY <1>3
  <1>5. \A i \in 1 .. Len(r) : Len(s) + i \in 1 .. Len(c) /\ c[Len(s) + i] = r[i]
    <2> TAKE i \in 1 .. Len(r)
    <2>1. Len(s) + i \in 1 .. Len(s) + Len(r) /\ ~(Len(s) + i <= Len(s)) /\ Len(s) + i - Len(s) = i
      OBVIOUS
    <2>2. c[Len(s) + i] = IF Len(s) + i <= Len(s) THEN s[Len(s) + i] ELSE r[Len(s) + i - Len(s)]
      BY <1>3, <2>1
    <2> QED BY <1>3, <2>1, <2>2
  <1>6. \A i \in 1 .. Len(c) : i \in 1 .. Len(s) \/ (i - Len(s) \in 1 .. Len(r) /\ c[i] = r[i - Len(s)])
    <2> TAKE i \in 1 .. Len(c)
    <2>1. i \in 1 .. Len(s) + Len(r)
      BY <1>3
    <2>2. CASE i <= Len(s)
      BY <2>1, <2>2
    <2>3. CASE i > Len(s)
      BY <1>3, <2>1, <2>3
    <2> QED BY <2>1, <2>2, <2>3
  <1> QED BY <1>3, <1>4, <1>5, <1>6 DEF c

LEMMA NumberedConcat ==
  ASSUME NEW s \in Seq(Line), NEW r \in Seq(Line), NEW a \in Nat, NEW b \in Nat, NEW c \in Nat,
         NumberedIn(s, a, b), NumberedIn(r, b, c)
  PROVE  NumberedIn(s \o r, a, c)
  <1> DEFINE q == s \o r
  <1>1. /\ q \in Seq(Line) /\ Len(q) = Len(s) + Len(r)
        /\ \A i \in 1 .. Len(s) : i \in 1 .. Len(q) /\ q[i] = s[i]
        /\ \A i \in 1 .. Len(r) : Len(s) + i \in 1 .. Len(q) /\ q[Len(s) + i] = r[i]
        /\ \A i \in 1 .. Len(q) : i \in 1 .. Len(s) \/ (i - Len(s) \in 1 .. Len(r) /\ q[i] = r[i - Len(s)])
    BY ConcatLines
  <1> HIDE DEF q
  <1>0. a <= b /\ b <= c
    BY DEF NumberedIn
  <1>8. \A i \in 1 .. Len(q) : q[i].n \in Nat
    <2> TAKE i \in 1 .. Len(q)
    <2>1. q[i] \in Line
      BY <1>1
    <2> QED BY <2>1 DEF Line
  <1>2. \A i \in 1 .. Len(s) : q[i].kind = "entry" => q[i].n > a /\ q[i].n <= b /\ q[i].n \in Nat
    BY <1>1, <1>8 DEF NumberedIn
  <1>3. \A i \in 1 .. Len(q) : i \notin 1 .. Len(s) /\ q[i].kind = "entry" => q[i].n > b /\ q[i].n <= c /\ q[i].n \in Nat
    <2> TAKE i \in 1 .. Len(q)
    <2>1. i \notin 1 .. Len(s) => i - Len(s) \in 1 .. Len(r) /\ q[i] = r[i - Len(s)]
      BY <1>1
    <2> QED BY <1>8, <2>1 DEF NumberedIn
  <1>4. \A n \in a + 1 .. c : \E i \in 1 .. Len(q) : IsEntry(q[i], n)
    <2> TAKE n \in a + 1 .. c
    <2>1. CASE n <= b
      <3>1. PICK i \in 1 .. Len(s) : IsEntry(s[i], n)
        BY <2>1 DEF NumberedIn
      <3> QED BY <1>1, <3>1
    <2>2. CASE n > b
      <3>1. PICK i \in 1 .. Len(r) : IsEntry(r[i], n)
        BY <2>2 DEF NumberedIn
      <3> QED BY <1>1, <3>1
    <2> QED BY <2>1, <2>2
  <1>5. ASSUME NEW i \in 1 .. Len(q), NEW j \in 1 .. Len(q), q[i].kind = "entry", q[j].kind = "entry", q[i].n = q[j].n
        PROVE  i = j
    <2>1. CASE i \in 1 .. Len(s) /\ j \in 1 .. Len(s)
      BY <1>1, <1>5, <2>1 DEF NumberedIn
    <2>2. CASE i \notin 1 .. Len(s) /\ j \notin 1 .. Len(s)
      <3>1. i - Len(s) \in 1 .. Len(r) /\ j - Len(s) \in 1 .. Len(r) /\ q[i] = r[i - Len(s)] /\ q[j] = r[j - Len(s)]
        BY <1>1, <2>2
      <3>2. i - Len(s) = j - Len(s)
        BY <1>5, <3>1 DEF NumberedIn
      <3> QED BY <3>2
    <2>3. CASE i \in 1 .. Len(s) /\ j \notin 1 .. Len(s)
      BY <1>0, <1>2, <1>3, <1>5, <2>3
    <2>4. CASE i \notin 1 .. Len(s) /\ j \in 1 .. Len(s)
      BY <1>0, <1>2, <1>3, <1>5, <2>4
    <2> QED BY <2>1, <2>2, <2>3, <2>4
  <1>6. \A i \in 1 .. Len(q) : q[i].kind = "entry" => q[i].n > a /\ q[i].n <= c
    <2> TAKE i \in 1 .. Len(q)
    <2>1. CASE i \in 1 .. Len(s)
      BY <1>0, <1>2, <2>1
    <2>2. CASE i \notin 1 .. Len(s)
      BY <1>0, <1>3, <2>2
    <2> QED BY <2>1, <2>2
  <1>7. NumberedIn(q, a, c)
    BY <1>0, <1>4, <1>5, <1>6 DEF NumberedIn
  <1> QED BY <1>7 DEF q

LEMMA NumberedNone ==
  ASSUME NEW s \in Seq(Line), NEW a \in Nat, \A i \in 1 .. Len(s) : s[i].kind # "entry"
  PROVE  NumberedIn(s, a, a)
  BY DEF NumberedIn

LEMMA NumberedRun ==
  ASSUME NEW a \in Nat, NEW k \in Nat
  PROVE  /\ [i \in 1 .. k |-> Entry(a + i)] \in Seq(Line)
         /\ NumberedIn([i \in 1 .. k |-> Entry(a + i)], a, a + k)
  <1> DEFINE s == [i \in 1 .. k |-> Entry(a + i)]
  <1>1. \A i \in 1 .. k : Entry(a + i) \in Line /\ Entry(a + i).kind = "entry" /\ Entry(a + i).n = a + i
    BY DEF Entry, Line
  <1>2. s \in [1 .. k -> Line]
    BY <1>1
  <1>3. s \in Seq(Line) /\ Len(s) = k
    BY <1>2, LenProperties
  <1>4. \A i \in 1 .. k : s[i].kind = "entry" /\ s[i].n = a + i
    BY <1>1
  <1> HIDE DEF s
  <1>5. \A n \in a + 1 .. a + k : n - a \in 1 .. k /\ a + (n - a) = n
    OBVIOUS
  <1>6. NumberedIn(s, a, a + k)
    <2>1. \A n \in a + 1 .. a + k : \E i \in 1 .. Len(s) : IsEntry(s[i], n)
      <3> TAKE n \in a + 1 .. a + k
      <3>1. n - a \in 1 .. k /\ s[n - a].kind = "entry" /\ s[n - a].n = n
        BY <1>4, <1>5
      <3> QED BY <1>3, <3>1 DEF IsEntry
    <2>2. \A i \in 1 .. k : a + i > a /\ a + i <= a + k
      OBVIOUS
    <2>3. \A i, j \in 1 .. k : a + i = a + j => i = j
      OBVIOUS
    <2>4. a <= a + k
      OBVIOUS
    <2>5. \A i \in 1 .. Len(s) : s[i].kind = "entry" => s[i].n > a /\ s[i].n <= a + k
      BY <1>3, <1>4, <2>2
    <2>6. \A i, j \in 1 .. Len(s) : s[i].kind = "entry" /\ s[j].kind = "entry" /\ s[i].n = s[j].n => i = j
      <3> TAKE i, j \in 1 .. Len(s)
      <3>1. i \in 1 .. k /\ j \in 1 .. k /\ s[i].n = a + i /\ s[j].n = a + j
        BY <1>3, <1>4
      <3> QED BY <2>3, <3>1
    <2> QED BY <2>1, <2>4, <2>5, <2>6 DEF NumberedIn
  <1> QED BY <1>3, <1>6 DEF s

LEMMA NumberedCount ==
  ASSUME NEW s \in Seq(Line), NEW k \in Nat, NumberedIn(s, 0, k)
  PROVE  Cardinality({i \in DOMAIN s : s[i].kind = "entry"}) = k
  <1> DEFINE S == {i \in 1 .. Len(s) : s[i].kind = "entry"}
             f == [i \in S |-> s[i].n]
  <1>1. IsFiniteSet(S)
    <2>1. Len(s) \in Nat /\ IsFiniteSet(1 .. Len(s))
      BY FS_Interval
    <2> QED BY <2>1, FS_Subset
  <1>2. \A i \in S : s[i].n \in 1 .. k
    <2> TAKE i \in S
    <2>1. s[i] \in Line
      OBVIOUS
    <2>2. s[i].n \in Nat
      BY <2>1 DEF Line
    <2> QED BY <2>2 DEF NumberedIn
  <1>3. f \in Injection(S, 1 .. k)
    BY <1>2 DEF NumberedIn, Injection, IsInjective
  <1>4. f \in Surjection(S, 1 .. k)
    BY <1>2, SMTT(30) DEF NumberedIn, Surjection, IsEntry
  <1>5. ExistsBijection(S, 1 .. k)
    BY <1>3, <1>4 DEF ExistsBijection, Bijection
  <1>6. Cardinality(1 .. k) = Cardinality(S)
    BY <1>1, <1>5, FS_Bijection
  <1>7. Cardinality(1 .. k) = k
    BY FS_Interval
  <1>8. DOMAIN s = 1 .. Len(s)
    OBVIOUS
  <1> QED BY <1>6, <1>7, <1>8

\* Logger l has flushed its first f entries and buffers those up to the k-th
EntriesAre(l, f, k) == NumberedIn(file[l], 0, f) /\ NumberedIn(buffer[l], f, k)

LEMMA NumberedFlush ==
  ASSUME OutputOK, NEW l \in Loggers, NEW f \in Nat, NEW k \in Nat, EntriesAre(l, f, k)
  PROVE  Contents(l) \in Seq(Line) /\ NumberedIn(Contents(l), 0, k)
  <1>1. file[l] \in Seq(Line) /\ buffer[l] \in Seq(Line)
    BY DEF OutputOK
  <1> QED BY <1>1, NumberedConcat, ConcatProperties DEF EntriesAre, Contents

LEMMA NumberedEmpty == ASSUME NEW k \in Nat PROVE NumberedIn(<<>>, k, k)
  <1>1. <<>> \in Seq(Line) /\ \A i \in 1 .. Len(<<>>) : <<>>[i].kind # "entry"
    OBVIOUS
  <1> QED BY <1>1, NumberedNone

LEMMA FlushNumbered ==
  ASSUME OutputOK, NEW l \in Loggers, NEW f \in Nat, NEW k \in Nat, EntriesAre(l, f, k),
         file' = [file EXCEPT ![l] = Contents(l)], buffer' = [buffer EXCEPT ![l] = <<>>]
  PROVE  EntriesAre(l, k, k)'
  BY NumberedFlush, NumberedEmpty DEF EntriesAre, OutputOK

LEMMA AppendNumbered ==
  ASSUME OutputOK, NEW l \in Loggers, NEW f \in Nat, NEW k \in Nat, NEW m \in Nat, EntriesAre(l, f, k),
         NEW lines \in Seq(Line), NumberedIn(lines, k, m), AppendLines(l, lines)
  PROVE  \E g \in Nat : EntriesAre(l, g, m)'
  <1>1. file[l] \in Seq(Line) /\ buffer[l] \in Seq(Line) /\ DOMAIN file = Loggers /\ DOMAIN buffer = Loggers
    BY DEF OutputOK
  <1>2. CASE l \in Flushed
    <2>1. NumberedIn(Contents(l) \o lines, 0, m)
      BY NumberedFlush, NumberedConcat
    <2>2. file'[l] = Contents(l) \o lines /\ buffer'[l] = <<>>
      BY <1>1, <1>2 DEF AppendLines, Contents
    <2>3. EntriesAre(l, m, m)'
      BY <2>1, <2>2, NumberedEmpty DEF EntriesAre
    <2> QED BY <2>3
  <1>3. CASE l \notin Flushed
    <2>1. NumberedIn(buffer[l] \o lines, f, m)
      BY <1>1, NumberedConcat DEF EntriesAre
    <2>2. file'[l] = file[l] /\ buffer'[l] = buffer[l] \o lines
      BY <1>1, <1>3 DEF AppendLines
    <2>3. EntriesAre(l, f, m)'
      BY <2>1, <2>2 DEF EntriesAre
    <2> QED BY <2>3
  <1> QED BY <1>2, <1>3

LEMMA CrashNumbered ==
  ASSUME OutputOK, CrashOK, NEW t \in Tasks, NEW l \in Loggers, on[t] = l, WriteCrash(t),
         NEW f \in Nat, NEW k \in Nat, EntriesAre(l, f, k)
  PROVE  \E g \in Nat : EntriesAre(l, g, k)'
  <1> DEFINE x == <<CrashLine(t)>>
             v == Visited(t)
  <1>1. file[l] \in Seq(Line) /\ buffer[l] \in Seq(Line) /\ DOMAIN file = Loggers /\ DOMAIN buffer = Loggers
    BY DEF OutputOK
  <1>2. CrashLine(t) \in Line /\ BacktraceLines(t) \in Line /\ CrashLine(t).kind # "entry" /\ BacktraceLines(t).kind # "entry"
    BY DEF CrashLine, BacktraceLines, Line, CrashOK
  <1>3. x \in Seq(Line) /\ \A n \in Nat : NumberedIn(x, n, n)
    <2>1. x \in Seq(Line) /\ \A i \in 1 .. Len(x) : x[i].kind # "entry"
      BY <1>2
    <2> QED BY <2>1, NumberedNone
  <1>4. v \in Seq(Line) /\ \A n \in Nat : NumberedIn(v, n, n)
    <2>1. v \in Seq(Line) /\ \A i \in 1 .. Len(v) : v[i].kind # "entry"
      BY <1>2 DEF Visited
    <2> QED BY <2>1, NumberedNone
  <1>5. \A n \in Nat : NumberedIn(<<>>, n, n)
    BY NumberedEmpty
  <1> HIDE DEF x, v
  <1>6. ASSUME NEW s \in Seq(Line), NEW g \in Nat, NEW a \in Nat, NumberedIn(s, a, g)
        PROVE  /\ s \o x \in Seq(Line) /\ NumberedIn(s \o x, a, g)
               /\ s \o v \in Seq(Line) /\ NumberedIn(s \o v, a, g)
    BY <1>3, <1>4, <1>6, NumberedConcat, ConcatProperties
  <1>7. NumberedIn(file[l], 0, f) /\ NumberedIn(buffer[l], f, k)
    BY DEF EntriesAre
  <1>8. CASE WriteDirect(t)
    <2> DEFINE r == Direct(t, v \o x)
    <2>1. file'[l] = file[l] \o r /\ buffer'[l] = buffer[l]
      BY <1>1, <1>8 DEF WriteDirect, x, v
    <2>2. v \o x \in Seq(Line) /\ NumberedIn(v \o x, f, f)
      BY <1>4, <1>6
    <2>3. r \in Seq(Line) /\ NumberedIn(r, f, f)
      <3>1. r = v \o x \/ r = <<>>
        BY DEF Direct
      <3>2. <<>> \in Seq(Line)
        OBVIOUS
      <3> QED BY <1>5, <2>2, <3>1, <3>2
    <2> HIDE DEF r
    <2>4. NumberedIn(file[l] \o r, 0, f)
      BY <1>1, <1>7, <2>3, NumberedConcat
    <2>5. EntriesAre(l, f, k)'
      BY <1>7, <2>1, <2>4 DEF EntriesAre
    <2> QED BY <2>5
  <1>9. CASE /\ file' = [file EXCEPT ![on[t]] = Contents(on[t]) \o Visited(t) \o <<CrashLine(t)>>]
             /\ buffer' = [buffer EXCEPT ![on[t]] = <<>>]
    <2>1. file'[l] = Contents(l) \o v \o x /\ buffer'[l] = <<>>
      BY <1>1, <1>9 DEF x, v
    <2>2. Contents(l) \in Seq(Line) /\ NumberedIn(Contents(l), 0, k)
      BY NumberedFlush
    <2>3. Contents(l) \o v \in Seq(Line) /\ NumberedIn(Contents(l) \o v, 0, k)
      BY <1>6, <2>2
    <2>4. NumberedIn(Contents(l) \o v \o x, 0, k)
      BY <1>6, <2>3
    <2>5. EntriesAre(l, k, k)'
      BY <1>5, <2>1, <2>4 DEF EntriesAre
    <2> QED BY <2>5
  <1>11. \A lines \in {Visited(t), <<>>} : lines \in Seq(Line) /\ \A n \in Nat : NumberedIn(lines, n, n)
    <2>1. <<>> \in Seq(Line)
      OBVIOUS
    <2> QED BY <1>4, <1>5, <2>1 DEF v
  <1>10. ASSUME NEW lines \in {Visited(t), <<>>}, file' = [file EXCEPT ![on[t]] = file[on[t]] \o <<CrashLine(t)>>],
                buffer' = [buffer EXCEPT ![on[t]] = buffer[on[t]] \o lines]
         PROVE  EntriesAre(l, f, k)'
    <2>1. file'[l] = file[l] \o x /\ buffer'[l] = buffer[l] \o lines
      BY <1>1, <1>10 DEF x
    <2>2. NumberedIn(file[l] \o x, 0, f)
      BY <1>1, <1>6, <1>7
    <2>3. NumberedIn(buffer[l] \o lines, f, k)
      BY <1>1, <1>7, <1>10, <1>11, NumberedConcat
    <2> QED BY <2>1, <2>2, <2>3 DEF EntriesAre
  <1>12. ASSUME NEW lines \in {Visited(t), <<>>}, file' = [file EXCEPT ![on[t]] = file[on[t]] \o lines], buffer' = buffer
         PROVE  EntriesAre(l, f, k)'
    <2>1. file'[l] = file[l] \o lines /\ buffer'[l] = buffer[l]
      BY <1>1, <1>12
    <2>2. NumberedIn(file[l] \o lines, 0, f)
      BY <1>1, <1>7, <1>11, <1>12, NumberedConcat
    <2> QED BY <1>7, <2>1, <2>2 DEF EntriesAre
  <1>13. UNCHANGED <<file, buffer>> => EntriesAre(l, f, k)'
    BY <1>7 DEF EntriesAre
  <1>14. CASE WriteFormatted(t)
    BY <1>9, <1>10, <1>12, <1>13, <1>14 DEF WriteFormatted
  <1> QED BY <1>8, <1>14 DEF WriteCrash

\* The worker that has written what it took, or never will tell that it has
Marks(w) == w \in Tasks /\ (HasCrashed(w) \/ (pc[w][1] = "Work" /\ pc[w][2] = "mark"))

LEMMA CrashLasts ==
  ASSUME PcOK, OnOK, CrashOK, [Next]_vars, NEW t \in Tasks, HasCrashed(t)
  PROVE  HasCrashed(t)'
  <1>1. ASSUME NEW u \in Tasks, NEW op, NEW step, Moves(u, op, step), u # t \/ op = "crash" PROVE HasCrashed(t)'
    BY <1>1, OthersVisit
  <1>2. ASSUME NEW u \in Tasks, CallMoves(u) PROVE HasCrashed(t)'
    BY <1>1, <1>2 DEF CallMoves
  <1>3. ASSUME NEW u \in Tasks, HandleCrash(u) \/ \E s \in Sources : Crash(u, s) PROVE HasCrashed(t)'
    BY <1>1, <1>3, BeginsCrash
  <1>4. ASSUME NEW u \in Tasks, HandleFirstCrash(u) \/ PassOn(u) PROVE HasCrashed(t)'
    BY <1>1, <1>4, PassesOn DEF HasCrashed
  <1>5. ASSUME NEW u \in Tasks, HandleCrashInLoggers(u) PROVE HasCrashed(t)'
    <2>1. \E step : Go(u, "crash", step)
      BY <1>5 DEF HandleCrashInLoggers, LockListOfLoggers, Visit, Await, LockOutput, WriteCrash, Steps
    <2> QED BY <1>1, <2>1, Moved
  <1>6. pc' = pc => HasCrashed(t)'
    BY DEF HasCrashed
  <1> QED BY <1>2, <1>3, <1>4, <1>5, <1>6, StepKinds

LEMMA MarksLast ==
  ASSUME PcOK, OnOK, CrashOK, [Next]_vars, NEW w \in Workers, Marks(w)
  PROVE  Marks(w)' \/ WorkerMark(w)
  <1> USE TasksAre
  <1>1. CASE HasCrashed(w)
    BY <1>1, CrashLasts DEF Marks
  <1>2. CASE ~HasCrashed(w)
    <2>1. pc[w][1] = "Work" /\ pc[w][2] = "mark"
      BY <1>2 DEF Marks
    <2>2. ASSUME NEW u \in Tasks, NEW op, NEW step, Moves(u, op, step), u # w \/ op = "crash" PROVE Marks(w)'
      BY <2>1, <2>2 DEF Marks, Moves, HasCrashed
    <2>3. ASSUME NEW t \in Threads, Call(t) PROVE Marks(w)'
      <3>1. t \in Tasks /\ CallMoves(t) /\ t # w
        BY <2>3, CallsMove, WorkerAssumption
      <3> QED BY <2>2, <3>1 DEF CallMoves
    <2>4. ASSUME NEW u \in Workers, Work(u) PROVE Marks(w)' \/ WorkerMark(w)
      <3>1. CASE u = w
        <4>1. ~WorkerWrite(w) /\ \A l \in Loggers : ~WorkerTake(w, l)
          BY <2>1, AtIs DEF WorkerWrite, WorkerTake
        <4> QED BY <2>4, <3>1, <4>1 DEF Work
      <3>2. CASE u # w
        <4>1. u \in Tasks /\ CallMoves(u)
          BY <2>4, CallsMove
        <4> QED BY <2>2, <3>2, <4>1 DEF CallMoves
      <3> QED BY <3>1, <3>2
    <2>5. ASSUME NEW u \in Tasks, HandleCrash(u) \/ \E s \in Sources : Crash(u, s) PROVE Marks(w)'
      BY <2>2, <2>5, BeginsCrash
    <2>6. ASSUME NEW u \in Tasks, HandleFirstCrash(u) \/ PassOn(u) PROVE Marks(w)'
      <3>1. pc' = pc => Marks(w)'
        BY <2>1 DEF Marks
      <3> QED BY <2>2, <2>6, <3>1, PassesOn
    <2>7. ASSUME NEW u \in Tasks, HandleCrashInLoggers(u) PROVE Marks(w)'
      <3>1. \E step : Go(u, "crash", step)
        BY <2>7 DEF HandleCrashInLoggers, LockListOfLoggers, Visit, Await, LockOutput, WriteCrash, Steps
      <3> QED BY <2>2, <3>1, Moved
    <2>8. pc' = pc => Marks(w)'
      BY <2>1 DEF Marks
    <2> QED BY <2>3, <2>4, <2>5, <2>6, <2>7, <2>8, StepKinds
  <1> QED BY <1>1, <1>2

\* Who writes a logger's entries: its worker, or any thread if it has none
WritersOK ==
    \A t \in Tasks :
        /\ pc[t][1] = "Work" => t \in Workers /\ WorkerOf[on[t]] = t
        /\ pc[t][1] = "Log" => WorkerOf[on[t]] = NoOne

LEMMA WritersStep ==
  ASSUME PcOK, OnOK, CrashOK, WritersOK, [Next]_vars
  PROVE  WritersOK'
  <1> USE TasksAre
  <1>1. ASSUME NEW t \in Tasks, NEW op, NEW step, Moves(t, op, step), OthersStay(t),
               op = "Work" => t \in Workers /\ WorkerOf[on'[t]] = t, op = "Log" => WorkerOf[on'[t]] = NoOne
        PROVE  WritersOK'
    BY <1>1 DEF WritersOK, Moves, OthersStay
  <1>2. ASSUME NEW t \in Tasks, NEW op, NEW step, Moves(t, op, step), OthersStay(t), op # "Work", op # "Log" PROVE WritersOK'
    BY <1>1, <1>2
  <1>3. CASE UNCHANGED <<pc, on>>
    BY <1>3 DEF WritersOK
  <1>4. ASSUME NEW t \in Threads, Call(t) PROVE WritersOK'
    <2>0. t \in Tasks /\ OthersStay(t)
      BY <1>4, CallsMove DEF CallMoves
    <2>1. ASSUME NEW l \in Loggers, StartWrite(t, l) PROVE WritersOK'
      <3>1. Moves(t, "Log", "write") /\ on'[t] = l /\ WorkerOf[l] = NoOne
        BY <2>0, <2>1, Moved DEF StartWrite, Begin, OnOK
      <3>2. "Log" # "Work"
        OBVIOUS
      <3> QED BY <1>1, <2>0, <3>1, <3>2
    <2>2. ASSUME NEW l \in Loggers, StartKeep(t, l) \/ StartRead(t, l) \/ Initialize(t, l) PROVE WritersOK'
      <3>1. Moves(t, "Keep", "keep") \/ Moves(t, "Read", "lines") \/ Moves(t, "Initialize", "lock list")
        BY <2>0, <2>2, Moved DEF StartKeep, StartRead, Initialize
      <3>2. \A op \in {"Keep", "Read", "Initialize"} : op # "Work" /\ op # "Log"
        OBVIOUS
      <3> QED BY <1>2, <2>0, <3>1, <3>2
    <2>3. ASSUME NEW l \in Loggers, Queue(t, l) \/ Open(t, l) PROVE WritersOK'
      <3>1. pc[t] = <<"none", "idle">> /\ pc[t][1] = "none" /\ pc[t][2] = "idle" /\ pc' = pc
        BY <2>3, AtIs DEF Queue, Open, Begin
      <3>2. Moves(t, "none", "idle")
        BY <3>1 DEF Moves
      <3> QED BY <1>2, <2>0, <3>2
    <2>4. ASSUME NEW l \in Loggers, NEW op \in Closes, StartClose(t, op, l) PROVE WritersOK'
      <3>1. \E step : Moves(t, op, step)
        BY <2>0, <2>4, Moved DEF StartClose, StartsToClose
      <3> QED BY <1>2, <2>0, <2>4, <3>1 DEF Closes
    <2>5. ASSUME EndWrite(t) \/ EndKeep(t) \/ EndRead(t) \/ Register(t) \/ UnregisterBase(t) PROVE WritersOK'
      <3>1. Moves(t, "none", "idle")
        BY <2>0, <2>5, Moved DEF EndWrite, EndKeep, EndRead, Register, UnregisterBase, Return
      <3> QED BY <1>2, <2>0, <3>1
    <2>6. ASSUME LockList(t) \/ Unregister(t) \/ LockToClose(t) PROVE WritersOK'
      <3>1. pc[t][1] \in Changes \cup Closes
        BY <2>0, <2>6, Labels DEF LockList, Unregister, LockToClose, Closes
      <3>2. Moves(t, pc[t][1], "change list") \/ Moves(t, pc[t][1], "close") \/ Moves(t, pc[t][1], "locked")
        BY <2>0, <2>6, Moved DEF LockList, Unregister, LockToClose
      <3>3. pc[t][1] # "Work" /\ pc[t][1] # "Log"
        BY <3>1 DEF Changes, Closes
      <3> QED BY <1>2, <2>0, <3>2, <3>3
    <2>7. ASSUME Close(t) \/ Destroyed(t) PROVE WritersOK'
      <3>1. Moves(t, "none", "idle") \/ Moves(t, "Destroy", "join") \/ Moves(t, "DestroyBase", "lock list")
        BY <2>0, <2>7, Moved DEF Close, Destroyed
      <3>2. \A op \in {"none", "Destroy", "DestroyBase"} : op # "Work" /\ op # "Log"
        OBVIOUS
      <3> QED BY <1>2, <2>0, <3>1, <3>2
    <2> QED BY <1>4, <2>1, <2>2, <2>3, <2>4, <2>5, <2>6, <2>7 DEF Call, Closes
  <1>5. ASSUME NEW w \in Workers, Work(w) PROVE WritersOK'
    <2>0. w \in Tasks /\ OthersStay(w)
      BY <1>5, CallsMove DEF CallMoves
    <2>1. ASSUME NEW l \in Loggers, WorkerTake(w, l) PROVE WritersOK'
      <3>1. Moves(w, "Work", "write") /\ on'[w] = l /\ WorkerOf[l] = w
        BY <2>0, <2>1, Moved DEF WorkerTake, OnOK
      <3>2. "Log" # "Work"
        OBVIOUS
      <3> QED BY <1>1, <2>0, <3>1, <3>2
    <2>2. ASSUME WorkerWrite(w) PROVE WritersOK'
      <3>1. Moves(w, "Work", "mark") /\ on' = on /\ pc[w][1] = "Work"
        BY <2>0, <2>2, Moved, AtIs DEF WorkerWrite, Continue
      <3>2. "Log" # "Work" /\ WorkerOf[on'[w]] = w
        BY <2>0, <3>1 DEF WritersOK
      <3> QED BY <1>1, <2>0, <3>1, <3>2
    <2>3. ASSUME WorkerMark(w) PROVE WritersOK'
      <3>1. Moves(w, "none", "idle")
        BY <2>0, <2>3, Moved DEF WorkerMark, Return
      <3> QED BY <1>2, <2>0, <3>1
    <2> QED BY <1>5, <2>1, <2>2, <2>3 DEF Work
  <1>6. ASSUME NEW t \in Tasks, NEW step, Moves(t, "crash", step), OthersStay(t) PROVE WritersOK'
    <2>1. "crash" # "Work" /\ "crash" # "Log"
      OBVIOUS
    <2> QED BY <1>2, <1>6, <2>1
  <1>7. ASSUME NEW t \in Tasks, HandleCrash(t) \/ \E s \in Sources : Crash(t, s) PROVE WritersOK'
    BY <1>6, <1>7, BeginsCrash DEF OthersStay, OnOK
  <1>8. ASSUME NEW t \in Tasks, HandleFirstCrash(t) \/ PassOn(t) PROVE WritersOK'
    BY <1>3, <1>6, <1>8, PassesOn DEF OthersStay
  <1>9. ASSUME NEW t \in Tasks, HandleCrashInLoggers(t) PROVE WritersOK'
    <2>1. \E step : Go(t, "crash", step)
      BY <1>9 DEF HandleCrashInLoggers, LockListOfLoggers, Visit, Await, LockOutput, WriteCrash, Steps
    <2>2. OthersStay(t)
      BY <1>9 DEF HandleCrashInLoggers, Visit, Await, OthersStay, OnOK
    <2> QED BY <1>6, <2>1, <2>2, Moved
  <1> QED BY <1>3, <1>4, <1>5, <1>7, <1>8, <1>9, StepKinds

\* What a step does to the lines of logger l
LineVars(l) == <<file[l], buffer[l], m_LastQueuedSequence[l], m_LastWrittenSequence[l]>>

LEMMA LinesChange ==
  ASSUME PcOK, OnOK, OutputOK, CrashOK, [Next]_vars, NEW l \in Loggers
  PROVE  \/ UNCHANGED LineVars(l)
         \/ \E t \in Threads : on[t] = l /\ EndWrite(t)
         \/ \E t \in Threads : Queue(t, l)
         \/ \E w \in Workers : on[w] = l /\ (WorkerWrite(w) \/ WorkerMark(w))
         \/ /\ file' = [file EXCEPT ![l] = Contents(l)] /\ buffer' = [buffer EXCEPT ![l] = <<>>]
            /\ UNCHANGED <<m_LastQueuedSequence, m_LastWrittenSequence>>
         \/ \E t \in Tasks : on[t] = l /\ WriteCrash(t) /\ UNCHANGED <<m_LastQueuedSequence, m_LastWrittenSequence>>
  <1> DEFINE OneChange ==
         \/ UNCHANGED LineVars(l)
         \/ \E t \in Threads : on[t] = l /\ EndWrite(t)
         \/ \E t \in Threads : Queue(t, l)
         \/ \E w \in Workers : on[w] = l /\ (WorkerWrite(w) \/ WorkerMark(w))
         \/ /\ file' = [file EXCEPT ![l] = Contents(l)] /\ buffer' = [buffer EXCEPT ![l] = <<>>]
            /\ UNCHANGED <<m_LastQueuedSequence, m_LastWrittenSequence>>
         \/ \E t \in Tasks : on[t] = l /\ WriteCrash(t) /\ UNCHANGED <<m_LastQueuedSequence, m_LastWrittenSequence>>
  <1> USE TasksAre
  <1>1. ASSUME UNCHANGED <<file, buffer, m_LastQueuedSequence, m_LastWrittenSequence>> PROVE UNCHANGED LineVars(l)
    BY <1>1 DEF LineVars
  <1>2. ASSUME NEW k, k # l, NEW s, NEW r, NEW q, NEW n,
               file' = [file EXCEPT ![k] = s] \/ file' = file, buffer' = [buffer EXCEPT ![k] = r] \/ buffer' = buffer,
               m_LastQueuedSequence' = [m_LastQueuedSequence EXCEPT ![k] = q] \/ m_LastQueuedSequence' = m_LastQueuedSequence,
               m_LastWrittenSequence' = [m_LastWrittenSequence EXCEPT ![k] = n] \/ m_LastWrittenSequence' = m_LastWrittenSequence
        PROVE  UNCHANGED LineVars(l)
    BY <1>2 DEF LineVars, OutputOK
  <1>3. ASSUME NEW t \in Threads, Call(t) PROVE OneChange
    <2>1. ASSUME NEW k \in Loggers, StartWrite(t, k) \/ StartKeep(t, k) \/ StartRead(t, k) \/ Initialize(t, k) \/ Open(t, k)
                                    \/ \E op \in Closes : StartClose(t, op, k)
          PROVE  OneChange
      BY <1>1, <2>1 DEF StartWrite, StartKeep, StartRead, Initialize, Open, StartClose, StartsToClose, outputVars
    <2>2. ASSUME NEW k \in Loggers, Queue(t, k) PROVE OneChange
      BY <1>2, <2>2 DEF Queue
    <2>3. ASSUME EndWrite(t) PROVE OneChange
      <3>1. CASE on[t] # l
        BY <1>2, <2>3, <3>1 DEF EndWrite, AppendLines
      <3> QED BY <2>3, <3>1
    <2>4. ASSUME Close(t) PROVE OneChange
      <3>1. CASE on[t] # l
        BY <1>2, <2>4, <3>1 DEF Close
      <3>2. CASE on[t] = l
        <4>1. /\ file' = [file EXCEPT ![l] = Contents(l)] /\ buffer' = [buffer EXCEPT ![l] = <<>>]
              /\ UNCHANGED <<m_LastQueuedSequence, m_LastWrittenSequence>>
          BY <2>4, <3>2 DEF Close
        <4> QED BY <4>1
      <3> QED BY <3>1, <3>2
    <2>5. ASSUME EndKeep(t) \/ EndRead(t) \/ LockList(t) \/ Register(t) \/ Unregister(t) \/ UnregisterBase(t)
                 \/ LockToClose(t) \/ Destroyed(t)
          PROVE  OneChange
      BY <1>1, <2>5 DEF EndKeep, EndRead, LockList, Register, Unregister, UnregisterBase, LockToClose, Destroyed, outputVars
    <2> HIDE DEF OneChange
    <2> QED BY <1>3, <2>1, <2>2, <2>3, <2>4, <2>5 DEF Call, Closes
  <1>4. ASSUME NEW w \in Workers, Work(w) PROVE OneChange
    <2>1. CASE on[w] = l
      <3>1. ASSUME NEW k \in Loggers, WorkerTake(w, k) PROVE OneChange
        BY <1>1, <3>1 DEF WorkerTake, outputVars
      <3> QED BY <1>4, <2>1, <3>1 DEF Work
    <2>2. CASE on[w] # l
      <3>1. ASSUME WorkerWrite(w) PROVE OneChange
        <4>1. UNCHANGED <<m_LastQueuedSequence, m_LastWrittenSequence>>
          BY <3>1 DEF WorkerWrite
        <4>2. \E s, r : file' = [file EXCEPT ![on[w]] = s] /\ buffer' = [buffer EXCEPT ![on[w]] = r]
          BY <3>1 DEF WorkerWrite, AppendLines
        <4> QED BY <1>2, <2>2, <4>1, <4>2
      <3>2. ASSUME WorkerMark(w) PROVE OneChange
        BY <1>2, <2>2, <3>2 DEF WorkerMark
      <3>3. ASSUME NEW k \in Loggers, WorkerTake(w, k) PROVE OneChange
        BY <1>1, <3>3 DEF WorkerTake, outputVars
      <3> QED BY <1>4, <3>1, <3>2, <3>3 DEF Work
    <2> QED BY <2>1, <2>2
  <1>5. ASSUME NEW t \in Tasks, HandleCrash(t) \/ (\E s \in Sources : Crash(t, s)) \/ HandleFirstCrash(t) \/ PassOn(t) PROVE OneChange
    BY <1>1, <1>5, BeginsCrash, PassesOn DEF outputVars
  <1>6. ASSUME NEW t \in Tasks, HandleCrashInLoggers(t) PROVE OneChange
    <2>1. UNCHANGED <<m_LastQueuedSequence, m_LastWrittenSequence>>
      BY <1>6 DEF HandleCrashInLoggers, UnchangedInVisit
    <2>2. CASE UNCHANGED <<file, buffer>>
      BY <1>1, <2>1, <2>2
    <2>3. CASE LockOutput(t) /\ Flush(on[t])
      <3>1. CASE on[t] # l
        BY <1>2, <2>1, <2>3, <3>1 DEF Flush
      <3>2. CASE on[t] = l
        <4>1. /\ file' = [file EXCEPT ![l] = Contents(l)] /\ buffer' = [buffer EXCEPT ![l] = <<>>]
              /\ UNCHANGED <<m_LastQueuedSequence, m_LastWrittenSequence>>
          BY <2>1, <2>3, <3>2 DEF Flush
        <4> QED BY <4>1
      <3> QED BY <3>1, <3>2
    <2>4. CASE WriteCrash(t)
      <3>1. CASE on[t] # l
        <4>1. CASE WriteDirect(t)
          BY <1>2, <2>1, <3>1, <4>1 DEF WriteDirect
        <4>2. CASE WriteFormatted(t)
          <5>1. (file' = file \/ \E s : file' = [file EXCEPT ![on[t]] = s])
                /\ (buffer' = buffer \/ \E r : buffer' = [buffer EXCEPT ![on[t]] = r])
            BY <4>2 DEF WriteFormatted
          <5> QED BY <1>2, <2>1, <3>1, <5>1
        <4> QED BY <2>4, <4>1, <4>2 DEF WriteCrash
      <3>2. CASE on[t] = l
        <4>1. on[t] = l /\ WriteCrash(t) /\ UNCHANGED <<m_LastQueuedSequence, m_LastWrittenSequence>>
          BY <2>1, <2>4, <3>2
        <4> HIDE DEF OneChange
        <4>2. (\E u \in Tasks : on[u] = l /\ WriteCrash(u) /\ UNCHANGED <<m_LastQueuedSequence, m_LastWrittenSequence>>) => OneChange
          BY DEF OneChange
        <4> QED BY <4>1, <4>2
      <3> QED BY <3>1, <3>2
    <2> QED BY <1>6, <2>2, <2>3, <2>4 DEF HandleCrashInLoggers, UnchangedOutput, LockOutput
  <1> QED BY <1>1, <1>3, <1>4, <1>5, <1>6, StepKinds DEF outputVars

\* The lines of logger l hold its entries up to k, in order of output up to f
\* in the file and the others in the buffer: those that are written, and those
\* its worker has written but has not told of
Holds(l, f, k) ==
    /\ EntriesAre(l, f, k)
    /\ m_LastWrittenSequence[l] <= k /\ k <= m_LastQueuedSequence[l]
    /\ WorkerOf[l] = NoOne => m_LastWrittenSequence[l] = m_LastQueuedSequence[l]
    /\ k = m_LastWrittenSequence[l] \/ Marks(WorkerOf[l])
\* Each logger holds the entries from its first one on
EntriesOK == \A l \in Loggers : \E f, k \in Nat : Holds(l, f, k)

LEMMA EntriesStep ==
  ASSUME PcOK, OnOK, OutputOK, CrashOK, WritersOK, EntriesOK, [Next]_vars
  PROVE  EntriesOK'
  <1> SUFFICES ASSUME NEW l \in Loggers PROVE \E f, k \in Nat : Holds(l, f, k)'
    BY DEF EntriesOK
  <1> USE TasksAre
  <1>1. PICK f \in Nat, k \in Nat : Holds(l, f, k)
    BY DEF EntriesOK
  <1> DEFINE w == WorkerOf[l]
  <1>0. PICK q \in Nat, n \in Nat : q = m_LastQueuedSequence[l] /\ n = m_LastWrittenSequence[l]
    BY DEF OutputOK
  <1>2. w \in Workers \/ w = NoOne
    BY WorkerAssumption
  <1>3. Marks(w) => Marks(w)' \/ (WorkerMark(w) /\ w \in Workers)
    <2>1. Marks(w) => w \in Workers
      BY <1>2 DEF Marks
    <2> QED BY <2>1, MarksLast
  <1>4. EntriesAre(l, f, k) /\ n <= k /\ k <= q /\ (w = NoOne => n = q) /\ (k = n \/ Marks(w))
    BY <1>0, <1>1 DEF Holds
  <1>5. ASSUME NEW g \in Nat, EntriesAre(l, g, k)', UNCHANGED <<m_LastQueuedSequence[l], m_LastWrittenSequence[l]>>,
               ~(WorkerMark(w) /\ w \in Workers)
        PROVE  \E h, m \in Nat : Holds(l, h, m)'
    <2>1. k = m_LastWrittenSequence'[l] \/ Marks(w)'
      BY <1>0, <1>3, <1>4, <1>5
    <2>2. Holds(l, g, k)'
      BY <1>0, <1>4, <1>5, <2>1 DEF Holds
    <2> QED BY <2>2
  <1>6. CASE WorkerMark(w) /\ w \in Workers
    <2>1. DOMAIN m_LastWrittenSequence = Loggers
      BY DEF OutputOK
    <2>2. m_LastWrittenSequence' = [m_LastWrittenSequence EXCEPT ![on[w]] =
              Cardinality({i \in DOMAIN Contents(on[w]) : Contents(on[w])[i].kind = "entry"})]
          /\ UNCHANGED <<m_LastQueuedSequence, file, buffer>>
      BY <1>6 DEF WorkerMark
    <2>3. EntriesAre(l, f, k)'
      BY <1>4, <2>2 DEF EntriesAre
    <2>4. on[w] = l
      <3>1. pc[w][1] = "Work" /\ w \in Tasks
        BY <1>6, AtIs DEF WorkerMark
      <3>2. WorkerOf[on[w]] = w /\ on[w] \in Loggers
        BY <3>1 DEF WritersOK, OnOK, UsesLogger
      <3> QED BY <1>6, <3>1, <3>2, WorkerAssumption
    <2>5. m_LastWrittenSequence'[l] = k
      <3>1. Contents(l) \in Seq(Line) /\ NumberedIn(Contents(l), 0, k)
        BY <1>4, NumberedFlush
      <3>2. Cardinality({i \in DOMAIN Contents(l) : Contents(l)[i].kind = "entry"}) = k
        BY <3>1, NumberedCount
      <3> QED BY <2>1, <2>2, <2>4, <3>2
    <2>6. w # NoOne
      BY <1>6
    <2>7. Holds(l, f, k)'
      BY <1>0, <1>4, <2>2, <2>3, <2>5, <2>6 DEF Holds
    <2> QED BY <2>7
  <1>7. CASE ~(WorkerMark(w) /\ w \in Workers)
    <2>1. CASE UNCHANGED LineVars(l)
      <3>1. EntriesAre(l, f, k)'
        BY <1>4, <2>1 DEF EntriesAre, LineVars
      <3>2. UNCHANGED <<m_LastQueuedSequence[l], m_LastWrittenSequence[l]>>
        BY <2>1 DEF LineVars
      <3> QED BY <1>5, <1>7, <3>1, <3>2
    <2>2. ASSUME NEW t \in Threads, on[t] = l, EndWrite(t) PROVE \E h, m \in Nat : Holds(l, h, m)'
      <3>1. pc[t][1] = "Log" /\ t \in Tasks
        BY <2>2, AtIs DEF EndWrite
      <3>2. w = NoOne /\ n = q /\ k = q
        BY <1>0, <1>2, <1>4, <2>2, <3>1 DEF WritersOK
      <3> DEFINE lines == <<Entry(q + 1)>>
                 run == [i \in 1 .. 1 |-> Entry(q + i)]
      <3>3. run \in Seq(Line) /\ NumberedIn(run, q, q + 1)
        BY <1>0, <1>2, NumberedRun
      <3>4. lines = run
        OBVIOUS
      <3>5. AppendLines(l, lines) /\ m_LastQueuedSequence'[l] = q + 1 /\ m_LastWrittenSequence'[l] = q + 1
        BY <1>0, <2>2 DEF EndWrite, OutputOK
      <3> HIDE DEF lines, run
      <3>6. PICK g \in Nat : EntriesAre(l, g, q + 1)'
        <4>1. q + 1 \in Nat /\ lines \in Seq(Line) /\ NumberedIn(lines, k, q + 1) /\ AppendLines(l, lines)
          BY <1>0, <1>2, <3>2, <3>3, <3>4, <3>5
        <4> QED BY <1>4, <4>1, AppendNumbered
      <3>7. Holds(l, g, q + 1)'
        <4>1. q + 1 \in Nat /\ q + 1 <= q + 1
          OBVIOUS
        <4> QED BY <3>2, <3>5, <3>6, <4>1 DEF Holds
      <3> QED BY <3>7
    <2>3. ASSUME NEW t \in Threads, Queue(t, l) PROVE \E h, m \in Nat : Holds(l, h, m)'
      <3>1. w # NoOne /\ m_LastQueuedSequence'[l] = q + 1 /\ UNCHANGED <<m_LastWrittenSequence, file, buffer>>
        BY <1>0, <2>3 DEF Queue, OutputOK
      <3>2. EntriesAre(l, f, k)'
        BY <1>4, <3>1 DEF EntriesAre
      <3>3. Holds(l, f, k)'
        BY <1>0, <1>2, <1>3, <1>4, <1>7, <3>1, <3>2 DEF Holds
      <3> QED BY <3>3
    <2>4. ASSUME NEW u \in Workers, on[u] = l, WorkerWrite(u) PROVE \E h, m \in Nat : Holds(l, h, m)'
      <3>1. pc[u][1] = "Work" /\ pc[u][2] = "write" /\ u \in Tasks
        BY <2>4, AtIs DEF WorkerWrite
      <3>2. w = u
        BY <2>4, <3>1 DEF WritersOK
      <3>3. ~Marks(w) /\ k = n
        BY <1>4, <3>1, <3>2 DEF Marks, HasCrashed
      <3> DEFINE run == [i \in 1 .. q - n |-> Entry(n + i)]
      <3>4. q - n \in Nat /\ n + (q - n) = q
        BY <1>0, <1>2, <1>4
      <3>5. run \in Seq(Line) /\ NumberedIn(run, n, q)
        BY <1>0, <1>2, <3>4, NumberedRun
      <3>6. AppendLines(l, run) /\ UNCHANGED <<m_LastQueuedSequence, m_LastWrittenSequence>>
        BY <1>0, <2>4 DEF WorkerWrite
      <3> HIDE DEF run
      <3>7. PICK g \in Nat : EntriesAre(l, g, q)'
        BY <1>0, <1>2, <1>4, <3>3, <3>5, <3>6, AppendNumbered
      <3>8. Marks(w)'
        <4>1. Moves(u, "Work", "mark")
          BY <2>4, <3>1, Moved DEF WorkerWrite
        <4> QED BY <3>1, <3>2, <4>1 DEF Marks, Moves
      <3>9. Holds(l, g, q)'
        BY <1>0, <1>2, <1>4, <3>2, <3>6, <3>7, <3>8, WorkerAssumption DEF Holds
      <3> QED BY <3>9
    <2>5. ASSUME NEW u \in Workers, on[u] = l, WorkerMark(u) PROVE FALSE
      <3>1. pc[u][1] = "Work" /\ u \in Tasks
        BY <2>5, AtIs DEF WorkerMark
      <3> QED BY <1>7, <2>5, <3>1 DEF WritersOK
    <2>6. CASE /\ file' = [file EXCEPT ![l] = Contents(l)] /\ buffer' = [buffer EXCEPT ![l] = <<>>]
               /\ UNCHANGED <<m_LastQueuedSequence, m_LastWrittenSequence>>
      <3>1. EntriesAre(l, k, k)'
        BY <1>4, <2>6, FlushNumbered
      <3> QED BY <1>5, <1>7, <2>6, <3>1
    <2>7. ASSUME NEW t \in Tasks, on[t] = l, WriteCrash(t), UNCHANGED <<m_LastQueuedSequence, m_LastWrittenSequence>>
          PROVE  \E h, m \in Nat : Holds(l, h, m)'
      <3>1. PICK g \in Nat : EntriesAre(l, g, k)'
        BY <1>4, <2>7, CrashNumbered
      <3> QED BY <1>5, <1>7, <2>7, <3>1
    <2> QED BY <2>1, <2>2, <2>3, <2>4, <2>5, <2>6, <2>7, LinesChange
  <1> QED BY <1>6, <1>7

\* Lines s hold the first n entries
HasEntries(s, n) == \A m \in 1 .. n : \E j \in 1 .. Len(s) : IsEntry(s[j], m)
\* Its entries are not waited for: the deadline passed, or it is their worker
IsExcused(t, l) == isLate[t] \/ WorkerOf[l] = t
\* What a crashed thread has waited for where it is in the visit of a logger
AwaitAt(t) ==
    /\ \A k \in Loggers : crash[t].logged[k] <= m_LastQueuedSequence[k]
    /\ HasCrashed(t) =>
          /\ pc[t][2] = "await" => crash[t].logged[on[t]] <= crash[t].lastQueued
          /\ pc[t][2] = "lock" => IsExcused(t, on[t]) \/ crash[t].logged[on[t]] <= m_LastWrittenSequence[on[t]]
          /\ pc[t][2] = "write locked" => IsExcused(t, on[t]) \/ HasEntries(file[on[t]], crash[t].logged[on[t]])
          /\ pc[t][2] = "write" => isLate[t]
AwaitOK == \A t \in Tasks : AwaitAt(t)

LEMMA SequencesGrow ==
  ASSUME PcOK, OnOK, OutputOK, CrashOK, WritersOK, EntriesOK, [Next]_vars, NEW l \in Loggers
  PROVE  m_LastQueuedSequence[l] <= m_LastQueuedSequence'[l] /\ m_LastWrittenSequence[l] <= m_LastWrittenSequence'[l]
  <1>0. PICK q \in Nat, n \in Nat : q = m_LastQueuedSequence[l] /\ n = m_LastWrittenSequence[l]
    BY DEF OutputOK
  <1>1. PICK f \in Nat, k \in Nat : Holds(l, f, k)
    BY DEF EntriesOK
  <1>2. n <= k /\ n <= q
    BY <1>0, <1>1 DEF Holds
  <1>3. DOMAIN m_LastQueuedSequence = Loggers /\ DOMAIN m_LastWrittenSequence = Loggers
    BY DEF OutputOK
  <1>4. CASE UNCHANGED LineVars(l)
    BY <1>0, <1>4 DEF LineVars
  <1>5. CASE UNCHANGED <<m_LastQueuedSequence, m_LastWrittenSequence>>
    BY <1>0, <1>5
  <1>6. ASSUME NEW t \in Threads, on[t] = l, EndWrite(t)
        PROVE  q <= m_LastQueuedSequence'[l] /\ n <= m_LastWrittenSequence'[l]
    <2>1. m_LastQueuedSequence'[l] = q + 1 /\ m_LastWrittenSequence'[l] = q + 1
      BY <1>0, <1>3, <1>6 DEF EndWrite
    <2> QED BY <1>2, <2>1
  <1>7. ASSUME NEW t \in Threads, Queue(t, l)
        PROVE  q <= m_LastQueuedSequence'[l] /\ n <= m_LastWrittenSequence'[l]
    <2>1. m_LastQueuedSequence'[l] = q + 1 /\ m_LastWrittenSequence'[l] = n
      BY <1>0, <1>3, <1>7 DEF Queue
    <2> QED BY <2>1
  <1>8. ASSUME NEW w, on[w] = l, WorkerMark(w)
        PROVE  q <= m_LastQueuedSequence'[l] /\ n <= m_LastWrittenSequence'[l]
    <2>1. Contents(l) \in Seq(Line) /\ NumberedIn(Contents(l), 0, k)
      BY <1>1, NumberedFlush DEF Holds
    <2>2. Cardinality({i \in DOMAIN Contents(l) : Contents(l)[i].kind = "entry"}) = k
      BY <2>1, NumberedCount
    <2>3. m_LastWrittenSequence'[l] = k /\ m_LastQueuedSequence'[l] = q
      BY <1>0, <1>3, <1>8, <2>2 DEF WorkerMark
    <2> QED BY <1>2, <2>3
  <1>9. \A w : WorkerWrite(w) => UNCHANGED <<m_LastQueuedSequence, m_LastWrittenSequence>>
    BY DEF WorkerWrite
  <1> QED BY <1>0, <1>4, <1>5, <1>6, <1>7, <1>8, <1>9, LinesChange

LEMMA LatesLast ==
  ASSUME CrashOK, [Next]_vars, NEW t \in Tasks, isLate[t]
  PROVE  isLate'[t]
  <1>1. ASSUME NEW u \in Tasks, Timeout(u) PROVE isLate'[t]
    BY <1>1 DEF Timeout, CrashOK
  <1>2. ASSUME NEW u \in Threads, Call(u) PROVE isLate' = isLate
    BY <1>2 DEF Call, StartWrite, Queue, StartKeep, StartRead, Initialize, Open, StartClose, StartsToClose, EndWrite, EndKeep,
                EndRead, LockList, Register, Unregister, UnregisterBase, LockToClose, Close, Destroyed, Return, Continue, crashVars
  <1>3. ASSUME NEW w \in Workers, Work(w) PROVE isLate' = isLate
    BY <1>3 DEF Work, WorkerTake, WorkerWrite, WorkerMark, Return, Continue, crashVars
  <1>4. ASSUME NEW u \in Tasks, HandleCrash(u) \/ (\E s \in Sources : Crash(u, s)) \/ HandleFirstCrash(u) \/ HandleCrashInLoggers(u)
        PROVE  isLate' = isLate
    BY <1>4 DEF HandleCrash, Crash, HandleFirstCrash, HandleCrashInLoggers, UnchangedInVisit
  <1>5. ASSUME NEW u \in Tasks, PassOn(u) PROVE isLate' = isLate
    BY <1>5 DEF PassOn, AfterHandleCrash, OnTerminate, OnUnhandledException, OnAbortSignal, OnFatalSignal,
                OtherHandler, DefaultHandler, CallHandler
  <1>6. Setup \/ UNCHANGED vars => isLate' = isLate
    BY DEF Setup, UnchangedInSetup, vars, crashVars
  <1> QED BY <1>1, <1>2, <1>3, <1>4, <1>5, <1>6, TasksAre DEF Next, Handle

LEMMA EntriesKept ==
  ASSUME PcOK, LifeOK, OnOK, OutputOK, CrashOK, PlainBuffers, [Next]_vars, NEW l \in Loggers, NEW n \in Nat, HasEntries(file[l], n)
  PROVE  HasEntries(file'[l], n)
  <1>1. Len(file[l]) \in Nat
    BY DEF OutputOK
  <1>2. (Len(file[l]) <= Len(file'[l]) /\ \A i \in 1 .. Len(file[l]) : file'[l][i] = file[l][i]) \/ file'[l] = file[l]
        \/ (Len(file[l]) < Len(file'[l]) /\ \A i \in 1 .. Len(file[l]) : file'[l][i] = file[l][i])
    BY OutputGrows DEF FilesGrow, Grows, GetsCrashLine, GrowsByCrash
  <1>3. OutputOK'
    BY OutputStep
  <1>4. Len(file'[l]) \in Nat
    BY <1>3 DEF OutputOK
  <1> SUFFICES ASSUME NEW m \in 1 .. n PROVE \E j \in 1 .. Len(file'[l]) : IsEntry(file'[l][j], m)
    BY DEF HasEntries
  <1>5. PICK j \in 1 .. Len(file[l]) : IsEntry(file[l][j], m)
    BY DEF HasEntries
  <1>6. j \in 1 .. Len(file'[l]) /\ file'[l][j] = file[l][j]
    BY <1>1, <1>2, <1>4
  <1> QED BY <1>5, <1>6

\* What a thread waits for stays waited for, if its own step leaves it there
LEMMA AwaitStays ==
  ASSUME PcOK, LifeOK, OnOK, OutputOK, CrashOK, PlainBuffers, WritersOK, EntriesOK, [Next]_vars, NEW t \in Tasks, AwaitAt(t),
         pc'[t] = pc[t], on'[t] = on[t], crash'[t].logged = crash[t].logged, crash'[t].lastQueued = crash[t].lastQueued
  PROVE  AwaitAt(t)'
  <1>1. OutputOK' /\ crash[t] \in CrashRecord
    BY OutputStep DEF CrashOK
  <1>2. crash[t].logged \in [Loggers -> Nat]
    BY <1>1 DEF CrashRecord
  <1>3. \A l \in Loggers : /\ crash[t].logged[l] \in Nat /\ m_LastQueuedSequence[l] \in Nat /\ m_LastWrittenSequence[l] \in Nat
                          /\ m_LastQueuedSequence'[l] \in Nat /\ m_LastWrittenSequence'[l] \in Nat
                          /\ m_LastQueuedSequence[l] <= m_LastQueuedSequence'[l] /\ m_LastWrittenSequence[l] <= m_LastWrittenSequence'[l]
    BY <1>1, <1>2, SequencesGrow DEF OutputOK
  <1>4. \A k \in Loggers : crash'[t].logged[k] <= m_LastQueuedSequence'[k]
    <2> TAKE k \in Loggers
    <2>1. crash[t].logged[k] <= m_LastQueuedSequence[k]
      BY DEF AwaitAt
    <2> QED BY <1>3, <2>1
  <1>5. \A l : IsExcused(t, l) => IsExcused(t, l)'
    BY LatesLast DEF IsExcused
  <1> SUFFICES ASSUME HasCrashed(t)
               PROVE  /\ pc[t][2] = "await" => crash'[t].logged[on[t]] <= crash'[t].lastQueued
                      /\ pc[t][2] = "lock" => IsExcused(t, on[t])' \/ crash'[t].logged[on[t]] <= m_LastWrittenSequence'[on[t]]
                      /\ pc[t][2] = "write locked" => IsExcused(t, on[t])' \/ HasEntries(file'[on[t]], crash'[t].logged[on[t]])
                      /\ pc[t][2] = "write" => isLate'[t]
    BY <1>4 DEF AwaitAt, HasCrashed, IsExcused
  <1>6. pc[t][2] = "await" => crash'[t].logged[on[t]] <= crash'[t].lastQueued
    BY DEF AwaitAt
  <1>7. ASSUME pc[t][2] = "lock" PROVE IsExcused(t, on[t])' \/ crash'[t].logged[on[t]] <= m_LastWrittenSequence'[on[t]]
    <2>1. on[t] \in Loggers
      BY <1>7 DEF OnOK, UsesLogger
    <2>2. IsExcused(t, on[t]) \/ crash[t].logged[on[t]] <= m_LastWrittenSequence[on[t]]
      BY <1>7 DEF AwaitAt
    <2>3. crash[t].logged[on[t]] <= m_LastWrittenSequence[on[t]] => crash[t].logged[on[t]] <= m_LastWrittenSequence'[on[t]]
      BY <1>3, <2>1
    <2>4. IsExcused(t, on[t]) => IsExcused(t, on[t])'
      BY LatesLast DEF IsExcused
    <2> QED BY <2>2, <2>3, <2>4
  <1>8. ASSUME pc[t][2] = "write locked" PROVE IsExcused(t, on[t])' \/ HasEntries(file'[on[t]], crash'[t].logged[on[t]])
    <2>1. on[t] \in Loggers /\ crash[t].logged[on[t]] \in Nat
      BY <1>3, <1>8 DEF OnOK, UsesLogger
    <2>2. IsExcused(t, on[t]) \/ HasEntries(file[on[t]], crash[t].logged[on[t]])
      BY <1>8 DEF AwaitAt
    <2>3. HasEntries(file[on[t]], crash[t].logged[on[t]]) => HasEntries(file'[on[t]], crash[t].logged[on[t]])
      BY <2>1, EntriesKept
    <2>4. IsExcused(t, on[t]) => IsExcused(t, on[t])'
      BY LatesLast DEF IsExcused
    <2> QED BY <2>2, <2>3, <2>4
  <1>9. pc[t][2] = "write" => isLate'[t]
    BY LatesLast DEF AwaitAt
  <1> QED BY <1>6, <1>7, <1>8, <1>9

LEMMA AwaitStep ==
  ASSUME ControlInv, PlainBuffers, WritersOK, EntriesOK, AwaitOK, [Next]_vars
  PROVE  AwaitOK'
  <1> USE TasksAre DEF ControlInv, TypeOK
  <1>0. OutputOK' /\ \A u \in Tasks : crash[u] \in CrashRecord /\ crash[u].logged \in [Loggers -> Nat]
    BY OutputStep DEF CrashOK, CrashRecord
  <1>1. ASSUME NEW u \in Tasks, pc'[u] = pc[u], on'[u] = on[u], crash'[u].logged = crash[u].logged,
               crash'[u].lastQueued = crash[u].lastQueued
        PROVE  AwaitAt(u)'
    BY <1>1, AwaitStays DEF AwaitOK
  <1>2. ASSUME NEW t \in Tasks, \A k \in Loggers : crash'[t].logged[k] <= m_LastQueuedSequence[k],
               NEW op, NEW step, Moves(t, op, step),
               op = "crash" => /\ step # "await" /\ step # "lock" /\ step # "write locked" /\ step # "write"
        PROVE  AwaitAt(t)'
    <2>1. \A k \in Loggers : crash'[t].logged[k] <= m_LastQueuedSequence'[k]
      <3> TAKE k \in Loggers
      <3>1. CASE m_LastQueuedSequence'[k] = m_LastQueuedSequence[k]
        BY <1>2, <3>1
      <3>2. CASE m_LastQueuedSequence'[k] # m_LastQueuedSequence[k]
        <4>1. \/ \E u \in Threads : on[u] = k /\ EndWrite(u)
              \/ \E u \in Threads : Queue(u, k)
          BY <3>2, LinesChange DEF LineVars, WorkerWrite, WorkerMark
        <4>2. crash' = crash
          BY <4>1 DEF EndWrite, Queue, Return, crashVars
        <4>3. crash'[t].logged[k] \in Nat /\ m_LastQueuedSequence[k] \in Nat /\ m_LastQueuedSequence'[k] \in Nat
          BY <1>0, <4>2 DEF OutputOK
        <4>4. m_LastQueuedSequence[k] <= m_LastQueuedSequence'[k]
          BY SequencesGrow
        <4>5. crash'[t].logged[k] <= m_LastQueuedSequence[k]
          BY <1>2
        <4> QED BY <4>3, <4>4, <4>5
      <3> QED BY <3>1, <3>2
    <2> QED BY <1>2, <2>1 DEF AwaitAt, HasCrashed, Moves
  <1>3. \A u \in Tasks, k \in Loggers : crash[u].logged[k] <= m_LastQueuedSequence[k]
    BY DEF AwaitOK, AwaitAt
  <1>4. ASSUME UNCHANGED <<pc, on, crash>> PROVE AwaitOK'
    BY <1>1, <1>4 DEF AwaitOK
  <1>5. ASSUME NEW t \in Tasks, NEW op, NEW step, Moves(t, op, step), OthersStay(t), OtherCrashesStay(t), AwaitAt(t)' PROVE AwaitOK'
    <2>1. ASSUME NEW u \in Tasks \ {t} PROVE AwaitAt(u)'
      BY <1>1, <1>5 DEF Moves, OthersStay, OtherCrashesStay, SameBut
    <2> QED BY <1>5, <2>1 DEF AwaitOK
  <1>6. ASSUME NEW t \in Tasks, CallMoves(t) PROVE AwaitOK'
    <2>1. PICK op, step : Moves(t, op, step) /\ op # "crash"
      BY <1>6 DEF CallMoves
    <2>2. OthersStay(t) /\ OtherCrashesStay(t) /\ crash'[t].logged = crash[t].logged
      BY <1>6 DEF CallMoves, OtherCrashesStay, SameBut
    <2>3. AwaitAt(t)'
      BY <1>2, <1>3, <2>1, <2>2
    <2> QED BY <1>5, <2>1, <2>2, <2>3
  <1>7. ASSUME NEW t \in Tasks, HandleCrash(t) \/ \E s \in Sources : Crash(t, s) PROVE AwaitOK'
    <2>1. OthersStay(t) /\ (Moves(t, "crash", "handler") \/ Moves(t, "crash", "lock list of loggers"))
      BY <1>7, BeginsCrash DEF OthersStay, OnOK
    <2>2. \A s, c : Crashed(t, s, c).logged = m_LastQueuedSequence
      BY DEF Crashed, NoCrash
    <2>3. \E s, c : crash' = [crash EXCEPT ![t] = Crashed(t, s, c)]
      BY <1>7 DEF HandleCrash, Crash
    <2>4. crash'[t].logged = m_LastQueuedSequence /\ OtherCrashesStay(t)
      BY <2>2, <2>3 DEF CrashOK, OtherCrashesStay, SameBut
    <2>5. \A k \in Loggers : crash'[t].logged[k] <= m_LastQueuedSequence[k]
      BY <2>4 DEF OutputOK
    <2>6. AwaitAt(t)'
      BY <1>2, <2>1, <2>5
    <2> QED BY <1>5, <2>1, <2>4, <2>6
  <1>8. ASSUME NEW t \in Tasks, HandleFirstCrash(t) \/ PassOn(t) PROVE AwaitOK'
    <2>1. OthersStay(t) /\ on' = on
      BY <1>8, PassesOn DEF OthersStay
    <2>2. OtherCrashesStay(t) /\ crash'[t].logged = crash[t].logged
      BY <1>8, CrashKept
    <2>3. Moves(t, "crash", "handler") \/ Moves(t, "crash", "pass") \/ Moves(t, "crash", "lock list of loggers")
      <3>1. CASE pc' = pc
        <4>1. pc[t] = <<"crash", "handler">> \/ pc[t] = <<"crash", "pass">>
          BY <1>8, AtIs DEF HandleFirstCrash, PassOn
        <4>2. Moves(t, "crash", "handler") \/ Moves(t, "crash", "pass")
          BY <3>1, <4>1, Pair DEF Moves
        <4> QED BY <4>2
      <3> QED BY <1>8, <3>1, PassesOn
    <2>4. AwaitAt(t)'
      BY <1>2, <1>3, <2>2, <2>3
    <2> QED BY <1>5, <2>1, <2>2, <2>3, <2>4
  <1>9. ASSUME NEW t \in Tasks, HandleCrashInLoggers(t) PROVE AwaitOK'
    <2>1. OthersStay(t) /\ OtherCrashesStay(t) /\ crash'[t].logged = crash[t].logged
      BY <1>9, CrashKept DEF HandleCrashInLoggers, Visit, Await, OthersStay, OnOK
    <2>2. UNCHANGED <<m_LastQueuedSequence, m_LastWrittenSequence, isLate>>
      BY <1>9 DEF HandleCrashInLoggers, UnchangedInVisit
    <2>3. \A k \in Loggers : crash'[t].logged[k] <= m_LastQueuedSequence'[k]
      BY <1>3, <2>1, <2>2
    <2>4. CASE LockListOfLoggers(t)
      <3>1. VisitStep(t, "lock list of loggers", "visit") \/ VisitStep(t, "lock list of loggers", "pass")
        BY <2>4, StepIs DEF LockListOfLoggers
      <3>2. Moves(t, "crash", "visit") \/ Moves(t, "crash", "pass")
        BY <3>1 DEF VisitStep
      <3>3. AwaitAt(t)'
        BY <1>2, <1>3, <2>1, <3>2
      <3> QED BY <1>5, <2>1, <3>2, <3>3
    <2>5. CASE Visit(t)
      <3>0. VisitStep(t, "visit", "pass") \/ VisitStep(t, "visit", "await") \/ VisitStep(t, "visit", "visit")
        BY <2>5, StepIs DEF Visit
      <3>1. CASE VisitStep(t, "visit", "pass") \/ VisitStep(t, "visit", "visit")
        <4>1. Moves(t, "crash", "visit") \/ Moves(t, "crash", "pass")
          BY <3>1 DEF VisitStep
        <4>2. AwaitAt(t)'
          BY <1>2, <1>3, <2>1, <4>1
        <4> QED BY <1>5, <2>1, <4>1, <4>2
      <3>2. CASE VisitStep(t, "visit", "await")
        <4>1. Moves(t, "crash", "await")
          BY <3>2 DEF VisitStep
        <4>2. crash[t].todo # <<>>
          <5>1. crash[t].todo = <<>> => VisitStep(t, "visit", "pass")
            BY <2>5, StepIs DEF Visit
          <5>2. ~Moves(t, "crash", "pass")
            BY <4>1 DEF Moves
          <5> QED BY <5>1, <5>2 DEF VisitStep
        <4>3. PICK l : l = Head(crash[t].todo)
          OBVIOUS
        <4>4. l \in Loggers
          BY <1>0, <4>2, <4>3 DEF CrashRecord
        <4>5. on'[t] = l
          BY <2>5, <4>2, <4>3 DEF Visit, OnOK
        <4>6. crash'[t].lastQueued = m_LastQueuedSequence[l]
          <5>1. crash' = [crash EXCEPT ![t].todo = Tail(@), ![t].lastQueued = m_LastQueuedSequence[l]]
            BY <2>5, <4>2, <4>3 DEF Visit
          <5> QED BY <1>0, <5>1 DEF CrashRecord, CrashOK
        <4>7. crash'[t].logged[l] <= crash'[t].lastQueued
          BY <1>3, <2>1, <4>4, <4>6
        <4>8. pc'[t] = <<"crash", "await">> /\ pc'[t][2] = "await" /\ "await" # "lock" /\ "await" # "write locked" /\ "await" # "write"
          BY <4>1 DEF Moves
        <4>9. AwaitAt(t)'
          BY <2>3, <4>5, <4>7, <4>8 DEF AwaitAt
        <4> QED BY <1>5, <2>1, <4>1, <4>9
      <3> QED BY <3>0, <3>1, <3>2
    <2>6. ASSUME UNCHANGED <<crash, on>>, NEW from, NEW to, VisitStep(t, from, to), from # "visit", NEW l \in Loggers, l = on[t],
                 to = "lock" => IsExcused(t, l) \/ crash[t].logged[l] <= m_LastWrittenSequence[l],
                 to = "write locked" => IsExcused(t, l) \/ HasEntries(file'[l], crash[t].logged[l]),
                 to = "write" => isLate[t], to # "await"
          PROVE  AwaitOK'
      <3>1. Moves(t, "crash", to) /\ pc'[t][2] = to
        BY <2>6 DEF VisitStep, Moves
      <3>2. IsExcused(t, l)' <=> IsExcused(t, l)
        BY <2>2 DEF IsExcused
      <3>3. AwaitAt(t)'
        <4>1. on'[t] = l /\ crash' = crash
          BY <2>6
        <4>2. to = "lock" => IsExcused(t, l)' \/ crash'[t].logged[l] <= m_LastWrittenSequence'[l]
          BY <2>2, <2>6, <3>2
        <4>3. to = "write locked" => IsExcused(t, l)' \/ HasEntries(file'[l], crash'[t].logged[l])
          BY <2>6, <3>2
        <4>4. to = "write" => isLate'[t]
          BY <2>2, <2>6
        <4>5. to # "await"
          BY <2>6
        <4> QED BY <2>3, <3>1, <4>1, <4>2, <4>3, <4>4, <4>5 DEF AwaitAt, IsExcused
      <3> QED BY <1>5, <2>1, <3>1, <3>3
    <2>7. CASE Await(t) /\ UNCHANGED <<crash, on>>
      <3>1. VisitStep(t, "await", "lock")
        BY <2>7, StepIs DEF Await
      <3>2. pc[t][1] = "crash" /\ pc[t][2] = "await"
        BY <3>1 DEF VisitStep
      <3>3. PICK l \in Loggers : l = on[t]
        BY <3>2 DEF OnOK, UsesLogger
      <3>4. crash[t].logged[l] <= crash[t].lastQueued
        BY <3>2, <3>3 DEF AwaitOK, AwaitAt, HasCrashed
      <3>5. m_LastWrittenSequence[l] >= crash[t].lastQueued \/ IsExcused(t, l)
        BY <2>7, <3>3 DEF Await, IsAwaited, IsExcused
      <3>6. m_LastWrittenSequence[l] \in Nat /\ crash[t].lastQueued \in Nat /\ crash[t].logged[l] \in Nat
        <4>1. crash[t].lastQueued \in Nat
          BY <1>0 DEF CrashRecord
        <4> QED BY <1>0, <4>1 DEF OutputOK
      <3>7. IsExcused(t, l) \/ crash[t].logged[l] <= m_LastWrittenSequence[l]
        BY <3>4, <3>5, <3>6
      <3>8. "lock" # "write locked" /\ "lock" # "write" /\ "lock" # "await" /\ "await" # "visit"
        OBVIOUS
      <3> QED BY <2>6, <2>7, <3>1, <3>3, <3>7, <3>8
    <2>8. CASE LockOutput(t) /\ UNCHANGED <<crash, on>>
      <3>0. VisitStep(t, "lock", "write locked") \/ VisitStep(t, "lock", "write")
        BY <2>8, StepIs DEF LockOutput
      <3>1. pc[t][1] = "crash" /\ pc[t][2] = "lock"
        BY <3>0 DEF VisitStep
      <3>2. PICK l \in Loggers : l = on[t]
        BY <3>1 DEF OnOK, UsesLogger
      <3>3. IsExcused(t, l) \/ crash[t].logged[l] <= m_LastWrittenSequence[l]
        BY <3>1, <3>2 DEF AwaitOK, AwaitAt, HasCrashed
      <3>4. CASE Steps(t, "lock", "write locked") /\ Flush(on[t])
        <4>1. PICK f \in Nat, k \in Nat : Holds(l, f, k)
          BY DEF EntriesOK
        <4>2. EntriesAre(l, f, k) /\ m_LastWrittenSequence[l] <= k
          BY <4>1 DEF Holds
        <4>3. NumberedIn(file'[l], 0, k)
          BY <3>2, <3>4, <4>2, NumberedFlush DEF Flush, OutputOK
        <4>4. m_LastWrittenSequence[l] \in Nat /\ crash[t].logged[l] \in Nat
          BY <1>0 DEF OutputOK
        <4>5. crash[t].logged[l] <= m_LastWrittenSequence[l] => HasEntries(file'[l], crash[t].logged[l])
          BY <4>2, <4>3, <4>4 DEF HasEntries, NumberedIn
        <4>6. "lock" # "write locked" /\ "write locked" # "write" /\ "write locked" # "await" /\ "lock" # "visit"
          OBVIOUS
        <4>7. VisitStep(t, "lock", "write locked")
          BY <3>4, StepIs
        <4> QED BY <2>6, <2>8, <3>2, <3>3, <4>5, <4>6, <4>7
      <3>5. CASE Steps(t, "lock", "write") /\ isLate[t]
        <4>1. VisitStep(t, "lock", "write")
          BY <3>5, StepIs
        <4>2. "lock" # "write" /\ "write locked" # "write" /\ "write" # "await" /\ "lock" # "visit"
          OBVIOUS
        <4> QED BY <2>6, <2>8, <3>2, <3>5, <4>1, <4>2
      <3> QED BY <2>8, <3>4, <3>5 DEF LockOutput
    <2>9. CASE WriteCrash(t) /\ UNCHANGED <<crash, on>>
      <3>1. VisitStep(t, "write locked", "visit") \/ VisitStep(t, "write", "visit")
        BY <2>9, StepIs DEF WriteCrash
      <3>2. Moves(t, "crash", "visit")
        BY <3>1 DEF VisitStep
      <3>3. AwaitAt(t)'
        BY <1>2, <1>3, <2>1, <3>2
      <3> QED BY <1>5, <2>1, <3>2, <3>3
    <2> QED BY <1>9, <2>4, <2>5, <2>7, <2>8, <2>9 DEF HandleCrashInLoggers, Await
  <1> QED BY <1>4, <1>6, <1>7, <1>8, <1>9, StepKinds

\* The entries logged before a crash come before its line
EntriesBefore(s, i, n) == \A m \in 1 .. n : \E j \in 1 .. Len(s) : j < i /\ IsEntry(s[j], m)
Preceded ==
    \A l \in Loggers : \A i \in CrashLines(l) :
        LET x == file[l][i]
        IN  ~x.isLate /\ x.by # WorkerOf[l] => EntriesBefore(file[l], i, crash[x.by].logged[l])

LEMMA LoggedStays ==
  ASSUME TypeOK, [Next]_vars, NEW u \in Tasks, HasCrashed(u)
  PROVE  crash'[u].logged = crash[u].logged
  <1> USE DEF TypeOK
  <1>1. ASSUME NEW t \in Tasks, CallMoves(t) PROVE crash'[u].logged = crash[u].logged
    BY <1>1 DEF CallMoves, SameBut
  <1>2. ASSUME NEW t \in Tasks, HandleCrash(t) \/ \E s \in Sources : Crash(t, s) PROVE crash'[u].logged = crash[u].logged
    <2>1. t # u
      BY <1>2, BeginsCrash
    <2>2. \E r : crash' = [crash EXCEPT ![t] = r]
      BY <1>2 DEF HandleCrash, Crash
    <2> QED BY <2>1, <2>2 DEF CrashOK
  <1>3. ASSUME NEW t \in Tasks, HandleFirstCrash(t) \/ PassOn(t) \/ HandleCrashInLoggers(t) PROVE crash'[u].logged = crash[u].logged
    BY <1>3, CrashKept DEF OtherCrashesStay, SameBut
  <1> QED BY <1>1, <1>2, <1>3, StepKinds

LEMMA PrecededStep ==
  ASSUME ControlInv, PlainBuffers, LinesOK, AwaitOK, Preceded, [Next]_vars
  PROVE  Preceded'
  <1> USE DEF ControlInv, TypeOK
  <1>0. OutputOK'
    BY OutputStep
  <1>1. ASSUME NEW l \in Loggers, NEW i \in CrashLines(l) PROVE file[l][i].by \in Tasks /\ crash'[file[l][i].by].logged = crash[file[l][i].by].logged
    BY LoggedStays DEF LinesOK, Told
  <1>2. \A l \in Loggers : Len(file[l]) \in Nat /\ Len(file'[l]) \in Nat
    BY <1>0 DEF OutputOK
  <1>3. ASSUME NEW l \in Loggers, Len(file[l]) <= Len(file'[l]), \A i \in 1 .. Len(file[l]) : file'[l][i] = file[l][i],
               NEW i \in CrashLines(l), ~file'[l][i].isLate, file'[l][i].by # WorkerOf[l]
        PROVE  EntriesBefore(file'[l], i, crash'[file'[l][i].by].logged[l])
    <2>1. i \in 1 .. Len(file[l]) /\ file'[l][i] = file[l][i]
      BY <1>3, CrashLinesAre
    <2>2. EntriesBefore(file[l], i, crash[file[l][i].by].logged[l])
      BY <1>3, <2>1 DEF Preceded
    <2>3. \A j \in 1 .. Len(file[l]) : j \in 1 .. Len(file'[l]) /\ file'[l][j] = file[l][j]
      BY <1>2, <1>3
    <2>4. EntriesBefore(file'[l], i, crash[file[l][i].by].logged[l])
      BY <2>2, <2>3 DEF EntriesBefore
    <2> QED BY <1>1, <2>1, <2>4
  <1>4. CASE FilesGrow
    <2> SUFFICES ASSUME NEW l \in Loggers, NEW i \in CrashLines(l)', ~file'[l][i].isLate, file'[l][i].by # WorkerOf[l]
                 PROVE  EntriesBefore(file'[l], i, crash'[file'[l][i].by].logged[l])
      BY DEF Preceded
    <2>1. i \in CrashLines(l)
      BY <1>0, <1>4, LinesSame
    <2> QED BY <1>3, <1>4, <2>1 DEF FilesGrow, Grows
  <1>5. ASSUME NEW t \in Tasks, NEW k \in Loggers, WriteCrash(t), UNCHANGED <<registryHolder, crash, on>>, on[t] = k, GetsCrashLine(t, k)
        PROVE  Preceded'
    <2> SUFFICES ASSUME NEW l \in Loggers, NEW i \in CrashLines(l)', ~file'[l][i].isLate, file'[l][i].by # WorkerOf[l]
                 PROVE  EntriesBefore(file'[l], i, crash'[file'[l][i].by].logged[l])
      BY DEF Preceded
    <2>1. CASE l # k
      <3>1. file'[l] = file[l]
        BY <1>5, <2>1 DEF GetsCrashLine
      <3>2. i \in CrashLines(l)
        BY <3>1 DEF CrashLines
      <3>3. Len(file[l]) <= Len(file'[l]) /\ \A j \in 1 .. Len(file[l]) : file'[l][j] = file[l][j]
        BY <1>2, <3>1
      <3> QED BY <1>3, <3>2, <3>3
    <2>2. CASE l = k
      <3> DEFINE n == Len(file[l])
      <3>0. file'[l] \in Seq(Line)
        BY <1>0 DEF OutputOK
      <3>1. /\ Len(file[l]) < Len(file'[l]) /\ \A j \in 1 .. Len(file[l]) : file'[l][j] = file[l][j]
            /\ file'[l][Len(file'[l])] = CrashLine(t)
            /\ \A j \in 1 .. Len(file'[l]) : j > Len(file[l]) /\ j < Len(file'[l]) => ~IsCrashLine(file'[l][j])
        BY <1>5, <2>2 DEF GetsCrashLine, GrowsByCrash
      <3>2. i \in 1 .. Len(file'[l]) /\ IsCrashLine(file'[l][i])
        BY <3>0 DEF CrashLines, IsCrashLine
      <3>3. CASE i \in 1 .. Len(file[l])
        <4>1. i \in CrashLines(l)
          BY <3>1, <3>2, <3>3, CrashLinesAre
        <4> QED BY <1>2, <1>3, <3>1, <4>1
      <3>4. CASE i \notin 1 .. Len(file[l])
        <4>1. i = Len(file'[l]) /\ file'[l][i] = CrashLine(t)
          BY <1>2, <3>1, <3>2, <3>4
        <4>2. file'[l][i].by = t /\ ~isLate[t] /\ t # WorkerOf[l]
          BY <4>1 DEF CrashLine
        <4>3. (pc[t][1] = "crash" /\ pc[t][2] = "write") \/ (pc[t][1] = "crash" /\ pc[t][2] = "write locked")
          <5>1. VisitStep(t, "write locked", "visit") \/ VisitStep(t, "write", "visit")
            BY <1>5, StepIs DEF WriteCrash
          <5> QED BY <5>1 DEF VisitStep
        <4>4. HasEntries(file[l], crash[t].logged[l])
          BY <1>5, <2>2, <4>2, <4>3 DEF AwaitOK, AwaitAt, HasCrashed, IsExcused
        <4>5. \A j \in 1 .. Len(file[l]) : j \in 1 .. Len(file'[l]) /\ j < i /\ file'[l][j] = file[l][j]
          BY <1>2, <3>1, <4>1
        <4>6. EntriesBefore(file'[l], i, crash[t].logged[l])
          BY <4>4, <4>5 DEF HasEntries, EntriesBefore
        <4> QED BY <1>5, <4>2, <4>6
      <3> QED BY <3>3, <3>4
    <2> QED BY <2>1, <2>2
  <1> QED BY <1>4, <1>5, OutputGrows

\* The inductive invariant of the entries before the crash lines
EntriesInv == CrashInv /\ WritersOK /\ EntriesOK /\ AwaitOK /\ Preceded

LEMMA InitEntries == Init => EntriesInv
  <1> SUFFICES ASSUME Init PROVE EntriesInv
    OBVIOUS
  <1>1. CrashInv
    BY InitCrash
  <1>2. \A t \in Tasks : pc[t] = <<"none", "idle">> /\ pc[t][1] = "none" /\ ~HasCrashed(t)
    BY DEF Init, HasCrashed
  <1>3. WritersOK
    BY <1>2 DEF WritersOK
  <1>4. EntriesOK
    <2> SUFFICES ASSUME NEW l \in Loggers PROVE Holds(l, 0, 0)
      BY DEF EntriesOK
    <2>1. EntriesAre(l, 0, 0)
      BY NumberedEmpty DEF Init, EntriesAre
    <2> QED BY <2>1 DEF Init, Holds
  <1>5. AwaitOK
    <2>1. NoCrash.logged = [l \in Loggers |-> 0]
      BY DEF NoCrash
    <2> QED BY <1>2, <2>1 DEF Init, AwaitOK, AwaitAt
  <1>6. \A l \in Loggers : CrashLines(l) = {}
    BY DEF Init, CrashLines
  <1> QED BY <1>1, <1>3, <1>4, <1>5, <1>6 DEF EntriesInv, Preceded

LEMMA EntriesInvStep == EntriesInv /\ [Next]_vars => EntriesInv'
  <1> SUFFICES ASSUME EntriesInv, [Next]_vars PROVE EntriesInv'
    OBVIOUS
  <1>1. CrashInv'
    BY CrashInvStep DEF EntriesInv
  <1>2. WritersOK'
    BY WritersStep DEF EntriesInv, CrashInv, ControlInv, TypeOK
  <1>3. EntriesOK'
    BY EntriesStep DEF EntriesInv, CrashInv, ControlInv, TypeOK
  <1>4. AwaitOK'
    BY AwaitStep DEF EntriesInv, CrashInv
  <1>5. Preceded'
    BY PrecededStep DEF EntriesInv, CrashInv
  <1> QED BY <1>1, <1>2, <1>3, <1>4, <1>5 DEF EntriesInv

(***************************************************************************)
(* The crash line of a logger comes after all that was logged before the   *)
(* crash, queued or in the output's buffer, unless the wait took until the *)
(* deadline or the logger's own worker crashed: OnCrash() waits for the    *)
(* queue and flushes the output before it writes the line.                 *)
(***************************************************************************)
THEOREM EntriesComeFirst == Spec => []EntriesPrecedeCrashLine
  <1>1. ASSUME EntriesInv PROVE EntriesPrecedeCrashLine
    <2>0. OutputOK /\ CrashOK /\ Preceded
      BY <1>1 DEF EntriesInv, CrashInv, ControlInv, TypeOK
    <2> SUFFICES ASSUME NEW l \in Loggers, NEW i \in DOMAIN file[l], file[l][i].kind \in {"crash", "explicit"},
                        ~file[l][i].isLate, file[l][i].by # WorkerOf[l], NEW n \in 1 .. crash[file[l][i].by].logged[l]
                 PROVE  \E j \in Entries(l, n) : j < i /\ file[l][j].n = n
      BY DEF EntriesPrecedeCrashLine
    <2>1. i \in CrashLines(l)
      BY DEF CrashLines
    <2>2. EntriesBefore(file[l], i, crash[file[l][i].by].logged[l])
      BY <2>0, <2>1 DEF Preceded
    <2>3. PICK j \in 1 .. Len(file[l]) : j < i /\ IsEntry(file[l][j], n)
      BY <2>2 DEF EntriesBefore
    <2>4. j \in Entries(l, n) /\ file[l][j].n = n
      BY <2>0, <2>3 DEF Entries, IsEntry, OutputOK
    <2> QED BY <2>3, <2>4
  <1> QED BY <1>1, InitEntries, EntriesInvStep, PTL DEF Spec

----------------------------------------------------------------------------
(* The handlers that get a crash *)

\* The handlers that p[h] replaced, from the one a source calls, c, on: i tells
\* if ours is installed, r if the program has replaced handlers since
LinksOK(p, c, i, r) ==
    /\ p["before"] = "default" /\ p["default"] = "default"
    /\ p["ours"] # "ours" /\ p["after"] # "after" /\ ~(p["ours"] = "after" /\ p["after"] = "ours")
    /\ c = "ours" => i
    /\ p["after"] = "ours" => i /\ c # "ours"
    /\ ~r => p["after"] = "default" /\ c # "after" /\ p["ours"] # "after"
\* They lead to every handler of the program
WholeOK(p, c, i, r) ==
    /\ c # "default" /\ (i => p["ours"] # "default")
    /\ r => p["after"] # "default" /\ (c = "after" \/ (c = "ours" /\ p["ours"] = "after"))
\* The handlers that come after h, which replaced two at most
After(p, h) == {p[h], p[p[h]]}

\* What a setup does to the handlers of a source
Leaves(p, c, i, p2, c2, i2) == p2 = p /\ c2 = c /\ i2 = i
Installs(p, c, i, p2, c2, i2) == ~i /\ p2 = [p EXCEPT !["ours"] = c] /\ c2 = "ours" /\ i2 = TRUE
Uninstalls(p, c, i, p2, c2, i2) ==
    /\ i /\ c \in {"ours", p["ours"]} /\ p["after"] # "ours"
    /\ p2 = p /\ c2 = p["ours"] /\ i2 = FALSE
Replaces(p, c, i, p2, c2, i2) == p2 = [p EXCEPT !["after"] = c] /\ c2 = "after" /\ i2 = i

LEMMA LinksChange ==
  ASSUME NEW p \in [Handlers -> Handlers], NEW c \in Handlers, NEW i \in BOOLEAN, NEW r \in BOOLEAN, LinksOK(p, c, i, r),
         NEW p2, NEW c2, NEW i2
  PROVE  /\ Installs(p, c, i, p2, c2, i2) => LinksOK(p2, c2, i2, r)
         /\ Uninstalls(p, c, i, p2, c2, i2) => LinksOK(p2, c2, i2, r)
         /\ Replaces(p, c, i, p2, c2, i2) /\ ~r => LinksOK(p2, c2, i2, TRUE)
         /\ WholeOK(p, c, i, r) =>
               /\ Installs(p, c, i, p2, c2, i2) => WholeOK(p2, c2, i2, r)
               /\ Uninstalls(p, c, i, p2, c2, i2) => WholeOK(p2, c2, i2, r)
               /\ Replaces(p, c, i, p2, c2, i2) /\ ~r => WholeOK(p2, c2, i2, TRUE)
  BY DEF LinksOK, WholeOK, Installs, Uninstalls, Replaces, Handlers

\* A crash puts a handler back
LEMMA LinksPutBack ==
  ASSUME NEW p \in [Handlers -> Handlers], NEW c \in Handlers, NEW i \in BOOLEAN, NEW r \in BOOLEAN, LinksOK(p, c, i, r)
  PROVE  LinksOK(p, "default", i, r) /\ LinksOK(p, p["ours"], i, r)
  BY DEF LinksOK, Handlers

LEMMA LinksEnd ==
  ASSUME NEW p \in [Handlers -> Handlers], NEW c \in Handlers, NEW i \in BOOLEAN, NEW r \in BOOLEAN, LinksOK(p, c, i, r), NEW h \in Handlers
  PROVE  /\ p[h] \in Handlers /\ p[p[h]] \in Handlers /\ p[p[p[h]]] = "default"
         /\ h # "default" => p[h] # h /\ p[p[h]] # h
         /\ p[h] = h => h = "default"
         /\ p[h] # "default" => p[p[h]] # p[h]
         /\ p[h] = "ours" => i
         /\ WholeOK(p, c, i, r) => "before" \in {c, p[c], p[p[c]]} /\ (r => "after" \in {c, p[c], p[p[c]]})
  BY DEF LinksOK, WholeOK, Handlers

\* A crash is at handler h, those in d have had it, and those in place that have
\* not come after h; the handler that ours passes it on to may still change
LeadsOn(p, c, i, r, h, d, q) ==
    /\ h \in d /\ (h # "default" => "default" \notin d) /\ ("after" \in d => r)
    /\ After(p, h) \cap d \subseteq {"default"} /\ q \subseteq d \cup After(p, h)
    /\ h = "ours" /\ ~i => {c, p[c]} \cap d \subseteq {"default"} /\ q \subseteq d \cup {c, p[c]}
\* The program's handlers that were in place when the crash happened
InPlaceOK(r, q) == q \subseteq {"before", "after"} /\ ("after" \in q => r)

LEMMA LeadsFirst ==
  ASSUME NEW p \in [Handlers -> Handlers], NEW c \in Handlers, NEW i \in BOOLEAN, NEW r \in BOOLEAN, LinksOK(p, c, i, r),
         WholeOK(p, c, i, r), NEW q \in SUBSET Handlers, InPlaceOK(r, q), NEW c2
  PROVE  LeadsOn(p, c2, i, r, c, {c}, q)
  <1>1. After(p, c) \cap {c} \subseteq {"default"} /\ q \subseteq {c} \cup After(p, c)
    BY LinksEnd DEF After, InPlaceOK
  <1>2. c # "default" /\ (c = "ours" => i) /\ (c = "after" => r)
    BY DEF LinksOK, WholeOK
  <1> QED BY <1>1, <1>2 DEF LeadsOn

\* The handler that h replaced
ReplacedBy(p, h) == p[h]

LEMMA LeadsNext ==
  ASSUME NEW p \in [Handlers -> Handlers], NEW c \in Handlers, NEW i \in BOOLEAN, NEW r \in BOOLEAN, LinksOK(p, c, i, r),
         NEW h \in Handlers, h # "default", NEW d \in SUBSET Handlers, NEW q \in SUBSET Handlers, InPlaceOK(r, q),
         LeadsOn(p, c, i, r, h, d, q), NEW c2, NEW h2, h2 = ReplacedBy(p, h), NEW d2, d2 = d \cup {h2}
  PROVE  h2 \notin d /\ LeadsOn(p, c2, i, r, h2, d2, q)
  <1>0. h2 = p[h]
    BY DEF ReplacedBy
  <1>1. p[h] \notin d
    BY DEF LeadsOn, After
  <1>2. p[h] \in Handlers /\ p[p[h]] \in Handlers /\ p[p[p[h]]] = "default" /\ (p[h] = "ours" => i)
        /\ (p[h] # "default" => p[p[h]] # p[h])
    BY LinksEnd
  <1>3. p[h] = "after" => r
    BY DEF LinksOK, Handlers
  <1>4. q \subseteq (d \cup {p[h]}) \cup After(p, p[h])
    BY <1>2 DEF LeadsOn, After
  <1>5. After(p, p[h]) \cap (d \cup {p[h]}) \subseteq {"default"}
    BY <1>2 DEF LeadsOn, After
  <1>6. p[h] # "default" => "default" \notin d \cup {p[h]}
    BY DEF LeadsOn
  <1>7. LeadsOn(p, c2, i, r, p[h], d \cup {p[h]}, q)
    BY <1>1, <1>2, <1>3, <1>4, <1>5, <1>6 DEF LeadsOn
  <1> QED BY <1>0, <1>1, <1>7

LEMMA LeadsSetup ==
  ASSUME NEW p \in [Handlers -> Handlers], NEW c \in Handlers, NEW i \in BOOLEAN, NEW r \in BOOLEAN, LinksOK(p, c, i, r),
         NEW h \in Handlers, NEW d \in SUBSET Handlers, NEW q \in SUBSET Handlers, InPlaceOK(r, q),
         LeadsOn(p, c, i, r, h, d, q), NEW p2, NEW c2, NEW i2
  PROVE  /\ Installs(p, c, i, p2, c2, i2) => LeadsOn(p2, c2, i2, r, h, d, q)
         /\ Uninstalls(p, c, i, p2, c2, i2) => LeadsOn(p2, c2, i2, r, h, d, q)
         /\ Replaces(p, c, i, p2, c2, i2) /\ ~r => LeadsOn(p2, c2, i2, TRUE, h, d, q)
  <1>1. ASSUME Installs(p, c, i, p2, c2, i2) PROVE LeadsOn(p2, c2, i2, r, h, d, q)
    <2>1. ~i
      BY <1>1 DEF Installs
    <2>2. CASE ~i
      <3>1. p2 = [p EXCEPT !["ours"] = c] /\ c2 = "ours" /\ i2 = TRUE /\ c # "ours" /\ p["after"] # "ours"
        BY <1>1, <2>2 DEF Installs, LinksOK
      <3>2. CASE h = "ours"
        <4>1. After(p2, h) = {c, p[c]}
          BY <3>1, <3>2 DEF After, Handlers
        <4> QED BY <2>2, <3>1, <3>2, <4>1 DEF LeadsOn
      <3>3. CASE h # "ours"
        <4>1. After(p2, h) = After(p, h)
          BY <3>1, <3>3 DEF After, Handlers, LinksOK
        <4> QED BY <3>1, <3>3, <4>1 DEF LeadsOn
      <3> QED BY <3>2, <3>3
    <2> QED BY <2>1, <2>2
  <1>2. ASSUME Uninstalls(p, c, i, p2, c2, i2) PROVE LeadsOn(p2, c2, i2, r, h, d, q)
    <2>1. p2 = p /\ c2 = p["ours"] /\ i2 = FALSE
      BY <1>2 DEF Uninstalls
    <2> QED BY <2>1 DEF LeadsOn, After
  <1>3. ASSUME Replaces(p, c, i, p2, c2, i2), ~r PROVE LeadsOn(p2, c2, i2, TRUE, h, d, q)
    <2>1. p2 = [p EXCEPT !["after"] = c] /\ c2 = "after" /\ i2 = i
      BY <1>3 DEF Replaces
    <2>2. "after" \notin d /\ h # "after" /\ c # "after" /\ p["ours"] # "after"
      BY <1>3 DEF LeadsOn, LinksOK
    <2>3. After(p2, h) = After(p, h)
      BY <2>1, <2>2 DEF After, Handlers, LinksOK
    <2>4. p2[c2] = c
      BY <2>1 DEF Handlers
    <2>5. p[c] \notin {"before", "after"} \/ c = "ours"
      BY <1>3 DEF LinksOK, Handlers
    <2>6. h = "ours" /\ ~i => {c2, p2[c2]} \cap d \subseteq {"default"} /\ q \subseteq d \cup {c2, p2[c2]}
      <3> SUFFICES ASSUME h = "ours", ~i PROVE {"after", c} \cap d \subseteq {"default"} /\ q \subseteq d \cup {"after", c}
        BY <2>1, <2>4
      <3>1. c # "ours"
        BY DEF LinksOK
      <3>2. {c, p[c]} \cap d \subseteq {"default"} /\ q \subseteq d \cup {c, p[c]} /\ q \subseteq {"before", "after"}
        BY DEF LeadsOn, InPlaceOK
      <3> QED BY <2>2, <2>5, <3>1, <3>2
    <2> QED BY <2>1, <2>3, <2>6 DEF LeadsOn
  <1> QED BY <1>1, <1>2, <1>3

\* While a source's handler is in hand, ours counts as installed already, over
\* the handler that is not stored yet, or as taken out, and one of the program
\* that was taken out of its place counts as still there
IsHeld(op, s) == setup.op = op /\ setup.source = s
LinksOf(s) == IF IsHeld("Install", s) THEN [previous[s] EXCEPT !["ours"] = setup.held] ELSE previous[s]
FirstOf(s) == IF IsHeld("Uninstall", s) /\ setup.held # "ours" THEN setup.held ELSE current[s]
HasOurs(s) ==
    \/ IsHeld("Install", s)
    \/ isInstalled[s] /\ ~(IsHeld("Uninstall", s) /\ IsSwapped(s) /\ setup.held = "ours")
HaveReplaced == IsReplaced("terminate")
\* The links stay, whatever the system calls first
KeepsLinks ==
    HaveReplaced' = HaveReplaced /\ \A s \in Sources : LinksOf(s)' = LinksOf(s) /\ HasOurs(s)' = HasOurs(s)

\* Ours is taken out in the end, or the handler found in its place put back
HandOK ==
    setup.op = "Uninstall" /\ setup.source # "none" =>
        /\ isInstalled[setup.source] /\ (~IsSwapped(setup.source) => setup.held = "ours")
        /\ setup.held = "ours" /\ ~isTorn =>
              /\ previous[setup.source]["after"] # "ours"
              /\ IsSwapped(setup.source) \/ current[setup.source] \in {"ours", previous[setup.source]["ours"]}

LEMMA LinkTypes ==
  ASSUME HandlersOK, NEW s \in Sources
  PROVE  /\ LinksOf(s) \in [Handlers -> Handlers] /\ FirstOf(s) \in Handlers /\ HasOurs(s) \in BOOLEAN /\ HaveReplaced \in BOOLEAN
         /\ \A h \in Handlers : h # "ours" => LinksOf(s)[h] = previous[s][h]
         /\ ~IsHeld("Install", s) => LinksOf(s) = previous[s]
  <1> USE DEF HandlersOK
  <1>1. previous[s] \in [Handlers -> Handlers] /\ current[s] \in Handlers /\ setup.held \in Handlers /\ isInstalled[s] \in BOOLEAN
    BY DEF SetupRecord
  <1> QED BY <1>1 DEF LinksOf, FirstOf, HasOurs, HaveReplaced, IsReplaced

LEMMA LinksStay ==
  ASSUME UNCHANGED <<platform, previous, isInstalled, setup>>
  PROVE  KeepsLinks /\ \A s \in Sources : current'[s] = current[s] => FirstOf(s)' = FirstOf(s)
  BY DEF KeepsLinks, LinksOf, HasOurs, FirstOf, IsHeld, IsSwapped, HaveReplaced, IsReplaced

\* The same of the handlers as they are now
Links(s) == LinksOK(LinksOf(s), FirstOf(s), HasOurs(s), HaveReplaced)
Whole(s) == WholeOK(LinksOf(s), FirstOf(s), HasOurs(s), HaveReplaced)
Done(t, s) == {h \in Handlers : <<s, h>> \in ToSet(crash[t].called)}
Leads(t, s) ==
    LeadsOn(LinksOf(s), FirstOf(s), HasOurs(s), HaveReplaced, Handler(t), Done(t, s), crash[t].inPlace)

\* What the handlers of t, the only thread that crashed, have of its crash
GetsCrash(t) ==
    LET s == crash[t].source
        called == crash[t].called
    IN  /\ InPlaceOK(HaveReplaced, crash[t].inPlace) /\ IsInjective(called)
        /\ s = "none" => called = <<>> /\ \A r \in Sources : Whole(r)
        /\ s # "none" =>
              /\ called # <<>> /\ Leads(t, s)
              /\ \A i \in DOMAIN called : called[i][1] = s \/ (called[i][1] = "terminate" /\ s = "abort")
              /\ s = "terminate" => Whole("abort")
              /\ s = "abort" /\ Done(t, "terminate") # {} => crash[t].inPlace \subseteq Done(t, "terminate")
\* Nobody but t has crashed
OnlyCrash(t) == \A u \in Tasks : HasCrashed(u) <=> u = t
\* The handlers lead on to each other, std::terminate()'s to all of them
\* always and the other sources' until the first crash puts one back
ChainsOK ==
    /\ \A s \in Sources : Links(s)
    /\ Whole("terminate")
    /\ (\A t \in Tasks : ~HasCrashed(t)) => \A s \in Sources : Whole(s)
    /\ \A t \in Tasks : OnlyCrash(t) => GetsCrash(t)

\* What a step of a setup does to the handlers of source s
Stays(s) == Leaves(LinksOf(s), FirstOf(s), HasOurs(s), LinksOf(s)', FirstOf(s)', HasOurs(s)')
GetsOurs(s) == Installs(LinksOf(s), FirstOf(s), HasOurs(s), LinksOf(s)', FirstOf(s)', HasOurs(s)')
LosesOurs(s) == Uninstalls(LinksOf(s), FirstOf(s), HasOurs(s), LinksOf(s)', FirstOf(s)', HasOurs(s)')
IsTakenOver(s) == Replaces(LinksOf(s), FirstOf(s), HasOurs(s), LinksOf(s)', FirstOf(s)', HasOurs(s)')

LEMMA SetupIs ==
  ASSUME HandlersOK, HandOK, \A s \in Sources : Links(s), Whole("terminate"), Setup, ~isTorn, ~isTorn'
  PROVE  \/ HaveReplaced' = HaveReplaced /\ \A s \in Sources : Stays(s) \/ GetsOurs(s) \/ LosesOurs(s)
         \/ HaveReplaced = FALSE /\ HaveReplaced' = TRUE /\ \A s \in Sources : IsTakenOver(s)
  <1> USE DEF HandlersOK
  <1>0. /\ "terminate" \in Sources /\ "none" \notin Sources /\ platform' = platform
        /\ \A s \in Sources : previous[s] \in [Handlers -> Handlers] /\ current[s] \in Handlers /\ isInstalled[s] \in BOOLEAN
        /\ setup \in SetupRecord /\ setup.held \in Handlers /\ setup.source \in Sources \cup {"none"} /\ setup.left \in Seq(Sources)
    BY DEF Sources, SetupRecord, Setup, UnchangedInSetup
  <1>1. ASSUME UNCHANGED <<previous, current, isInstalled>>, \A op \in {"Install", "Uninstall"}, s \in Sources : ~IsHeld(op, s),
               \A op \in {"Install", "Uninstall"}, s \in Sources : ~IsHeld(op, s)'
        PROVE  HaveReplaced' = HaveReplaced /\ \A s \in Sources : Stays(s)
    BY <1>1 DEF HaveReplaced, IsReplaced, Stays, Leaves, LinksOf, FirstOf, HasOurs
  <1>2. setup.source = "none" \/ setup.op = "none" => \A op \in {"Install", "Uninstall"}, s \in Sources : ~IsHeld(op, s)
    BY <1>0 DEF IsHeld
  <1>3. setup'.source = "none" => \A op \in {"Install", "Uninstall"}, s \in Sources : ~IsHeld(op, s)'
    BY <1>0 DEF IsHeld
  <1>4. \A op : BetweenSources(op) => setup.op = op /\ setup.source = "none"
    BY DEF BetweenSources, InSetup
  <1>5. \A op : InHand(op) => setup.op = op /\ setup.source \in Sources /\ \A r \in Sources : r # setup.source => ~IsHeld(op, r)
    BY <1>0 DEF InHand, InSetup, IsHeld
  <1>6. Skipping => setup'.op = setup.op /\ setup'.source = setup.source
    BY <1>0 DEF Skipping, SetupRecord
  <1>7. \A s \in Sources, h \in Handlers : Holding(s, h) => setup'.op = setup.op /\ setup'.source = s /\ setup'.held = h
    BY <1>0 DEF Holding, SetupRecord
  <1>8. setup' = [setup EXCEPT !.source = "none"] => setup'.source = "none"
    BY <1>0 DEF SetupRecord
  <1>9. \A op \in {"Install", "Uninstall"}, s \in Sources : IsHeld(op, s) => setup.op = op /\ setup.source = s
    BY DEF IsHeld
  <1>10. CASE BeginSetup \/ EndSetup
    <2>1. UNCHANGED <<previous, current, isInstalled>>
      BY <1>10 DEF BeginSetup, EndSetup
    <2>2. (setup.source = "none" \/ setup.op = "none") /\ setup'.source = "none"
      <3>1. \A op, left : [NoSetup EXCEPT !.op = op, !.left = left].source = "none" /\ NoSetup.source = "none"
        BY DEF NoSetup
      <3>2. CASE BeginSetup
        <4>1. setup.op = "none" /\ \E op : setup' = [NoSetup EXCEPT !.op = op, !.left = AllSources]
          BY <3>2 DEF BeginSetup, InSetup
        <4> QED BY <3>1, <4>1
      <3>3. CASE EndSetup
        <4>1. setup' = NoSetup /\ (BetweenSources("Install") \/ BetweenSources("Uninstall"))
          BY <3>3 DEF EndSetup
        <4> QED BY <1>4, <3>1, <4>1
      <3> QED BY <1>10, <3>2, <3>3
    <2> QED BY <1>1, <1>2, <1>3, <2>1, <2>2
  <1>11. CASE Install
    <2>1. setup.op = "Install" /\ setup.source = "none" /\ setup.left # <<>> /\ UNCHANGED <<previous, isInstalled>>
      BY <1>4, <1>11 DEF Install
    <2>2. PICK s \in Sources : s = Head(setup.left)
      BY <1>0, <2>1
    <2>3. HaveReplaced' = HaveReplaced
      BY <2>1 DEF HaveReplaced, IsReplaced
    <2>4. CASE isInstalled[s]
      <3>1. UNCHANGED current /\ setup'.source = "none"
        BY <1>6, <1>11, <2>1, <2>2, <2>4 DEF Install
      <3> QED BY <1>1, <1>2, <1>3, <2>1, <3>1
    <2>5. CASE ~isInstalled[s]
      <3>1. /\ current' = [current EXCEPT ![s] = "ours"]
            /\ setup'.op = "Install" /\ setup'.source = s /\ setup'.held = current[s]
        BY <1>0, <1>7, <1>11, <2>1, <2>2, <2>5 DEF Install
      <3>2. \A r \in Sources : /\ ~IsHeld("Install", r) /\ ~IsHeld("Uninstall", r) /\ ~IsHeld("Uninstall", r)'
                               /\ IsHeld("Install", r)' <=> r = s
        BY <2>1, <3>1 DEF IsHeld, Sources
      <3>3. GetsOurs(s)
        BY <1>0, <2>1, <2>5, <3>1, <3>2 DEF GetsOurs, Installs, LinksOf, FirstOf, HasOurs
      <3>4. \A r \in Sources : r # s => Stays(r)
        BY <1>0, <2>1, <3>1, <3>2 DEF Stays, Leaves, LinksOf, FirstOf, HasOurs
      <3> QED BY <2>3, <3>3, <3>4
    <2> QED BY <2>4, <2>5
  <1>12. CASE StoreReplaced
    <2>1. PICK s \in Sources : s = setup.source /\ setup.op = "Install"
      BY <1>5, <1>12 DEF StoreReplaced
    <2>2. /\ previous' = [previous EXCEPT ![s] = [previous[s] EXCEPT !["ours"] = setup.held]] /\ current' = current
          /\ isInstalled' = [isInstalled EXCEPT ![s] = TRUE] /\ setup'.source = "none"
      BY <1>0, <1>8, <1>12, <2>1 DEF StoreReplaced
    <2>3. \A r \in Sources : /\ ~IsHeld("Uninstall", r) /\ ~IsHeld("Uninstall", r)' /\ ~IsHeld("Install", r)'
                             /\ IsHeld("Install", r) <=> r = s
      BY <1>3, <2>1, <2>2 DEF IsHeld
    <2>4. \A r \in Sources : Stays(r)
      BY <1>0, <2>2, <2>3 DEF Stays, Leaves, LinksOf, FirstOf, HasOurs
    <2>5. previous'["terminate"]["after"] = previous["terminate"]["after"]
      BY <1>0, <2>2 DEF Handlers
    <2> QED BY <2>4, <2>5 DEF HaveReplaced, IsReplaced
  <1>13. CASE Uninstall
    <2>1. setup.op = "Uninstall" /\ setup.source = "none" /\ setup.left # <<>> /\ UNCHANGED <<previous, isInstalled>>
      BY <1>4, <1>13 DEF Uninstall
    <2>2. PICK s \in Sources : s = Head(setup.left)
      BY <1>0, <2>1
    <2>3. HaveReplaced' = HaveReplaced
      BY <2>1 DEF HaveReplaced, IsReplaced
    <2>4. CASE Skipping /\ UNCHANGED current
      BY <1>1, <1>2, <1>3, <1>6, <2>1, <2>4
    <2>5. CASE isInstalled[s] /\ IsSwapped(s) /\ Holding(s, current[s]) /\ current' = [current EXCEPT ![s] = previous[s]["ours"]]
      <3>1. setup'.op = "Uninstall" /\ setup'.source = s /\ setup'.held = current[s]
        BY <1>0, <1>7, <2>1, <2>5
      <3>2. \A r \in Sources : /\ ~IsHeld("Install", r) /\ ~IsHeld("Uninstall", r) /\ ~IsHeld("Install", r)'
                               /\ IsHeld("Uninstall", r)' <=> r = s
        BY <2>1, <3>1 DEF IsHeld, Sources
      <3>3. IsSwapped(s)'
        BY <1>0, <2>5 DEF IsSwapped
      <3>4. ASSUME current[s] = "ours" PROVE LosesOurs(s)
        <4>1. LinksOf(s) = previous[s] /\ FirstOf(s) = "ours" /\ HasOurs(s) = TRUE
          BY <2>5, <3>2, <3>4 DEF LinksOf, FirstOf, HasOurs
        <4>2. LinksOf(s)' = previous[s] /\ FirstOf(s)' = previous[s]["ours"] /\ HasOurs(s)' = FALSE
          BY <1>0, <2>1, <2>5, <3>1, <3>2, <3>3, <3>4 DEF LinksOf, FirstOf, HasOurs
        <4>3. previous[s]["after"] # "ours"
          <5>1. LinksOK(previous[s], "ours", HasOurs(s), HaveReplaced)
            BY <4>1 DEF Links
          <5> QED BY <5>1 DEF LinksOK
        <4> QED BY <4>1, <4>2, <4>3 DEF LosesOurs, Uninstalls
      <3>5. ASSUME current[s] # "ours" PROVE Stays(s)
        <4>1. LinksOf(s)' = LinksOf(s)
          BY <2>1, <3>2 DEF LinksOf
        <4>2. FirstOf(s)' = FirstOf(s)
          BY <3>1, <3>2, <3>5 DEF FirstOf
        <4>3. HasOurs(s)' = HasOurs(s)
          BY <2>1, <3>1, <3>2, <3>5 DEF HasOurs
        <4> QED BY <4>1, <4>2, <4>3 DEF Stays, Leaves
      <3>6. \A r \in Sources : r # s => Stays(r)
        BY <1>0, <2>1, <2>5, <3>1, <3>2 DEF Stays, Leaves, LinksOf, FirstOf, HasOurs
      <3> QED BY <2>3, <3>4, <3>5, <3>6
    <2>6. CASE ~IsSwapped(s) /\ UNCHANGED current /\ Holding(s, "ours")
      <3>1. setup'.op = "Uninstall" /\ setup'.source = s /\ setup'.held = "ours"
        BY <1>0, <1>7, <2>1, <2>6 DEF Handlers
      <3>2. \A r \in Sources : /\ ~IsHeld("Install", r) /\ ~IsHeld("Uninstall", r) /\ ~IsHeld("Install", r)'
                               /\ IsHeld("Uninstall", r)' <=> r = s
        BY <2>1, <3>1 DEF IsHeld, Sources
      <3>3. ~IsSwapped(s)'
        BY <1>0, <2>6 DEF IsSwapped
      <3>4. \A r \in Sources : Stays(r)
        BY <1>0, <2>1, <2>6, <3>1, <3>2, <3>3 DEF Stays, Leaves, LinksOf, FirstOf, HasOurs
      <3> QED BY <2>3, <3>4
    <2> QED BY <1>13, <2>2, <2>4, <2>5, <2>6 DEF Uninstall
  <1>14. CASE PutBack
    <2>1. PICK s \in Sources : s = setup.source /\ setup.op = "Uninstall"
      BY <1>5, <1>14 DEF PutBack
    <2>2. /\ UNCHANGED previous /\ setup'.source = "none"
          /\ isInstalled' = [isInstalled EXCEPT ![s] = setup.held # "ours"]
          /\ current' = IF setup.held # "ours" THEN [current EXCEPT ![s] = setup.held]
                        ELSE IF IsSwapped(s) THEN current ELSE [current EXCEPT ![s] = previous[s]["ours"]]
      BY <1>8, <1>14, <2>1 DEF PutBack
    <2>3. HaveReplaced' = HaveReplaced
      BY <2>2 DEF HaveReplaced, IsReplaced
    <2>4. \A r \in Sources : /\ ~IsHeld("Install", r) /\ ~IsHeld("Uninstall", r)' /\ ~IsHeld("Install", r)'
                             /\ IsHeld("Uninstall", r) <=> r = s
      BY <1>3, <2>1, <2>2 DEF IsHeld
    <2>5. isInstalled[s] /\ (~IsSwapped(s) => setup.held = "ours")
      BY <1>0, <2>1 DEF HandOK
    <2>6. \A r \in Sources : r # s => Stays(r)
      BY <1>0, <2>2, <2>4 DEF Stays, Leaves, LinksOf, FirstOf, HasOurs
    <2>7. LinksOf(s) = previous[s] /\ LinksOf(s)' = previous[s]
      BY <2>2, <2>4 DEF LinksOf
    <2>8. CASE setup.held # "ours" \/ IsSwapped(s)
      <3>1. FirstOf(s)' = FirstOf(s)
        BY <1>0, <2>2, <2>4, <2>8 DEF FirstOf
      <3>2. HasOurs(s)' = HasOurs(s)
        BY <1>0, <2>2, <2>4, <2>5, <2>8 DEF HasOurs
      <3>3. Stays(s)
        BY <2>7, <3>1, <3>2 DEF Stays, Leaves
      <3> QED BY <2>3, <2>6, <3>3
    <2>9. CASE setup.held = "ours" /\ ~IsSwapped(s)
      <3>1. previous[s]["after"] # "ours" /\ current[s] \in {"ours", previous[s]["ours"]}
        BY <1>0, <2>1, <2>9 DEF HandOK
      <3>2. FirstOf(s) = current[s] /\ HasOurs(s) = TRUE
        BY <2>5, <2>9 DEF FirstOf, HasOurs
      <3>3. FirstOf(s)' = previous[s]["ours"] /\ HasOurs(s)' = FALSE
        BY <1>0, <2>2, <2>4, <2>9 DEF FirstOf, HasOurs
      <3>4. LosesOurs(s)
        BY <2>7, <3>1, <3>2, <3>3 DEF LosesOurs, Uninstalls
      <3> QED BY <2>3, <2>6, <3>4
    <2> QED BY <2>8, <2>9
  <1>15. CASE Replace
    <2>1. /\ ~InHand("Uninstall") /\ ended = NoOne /\ UNCHANGED <<isInstalled, setup>>
          /\ previous' = [s \in Sources |-> [previous[s] EXCEPT !["after"] = current[s]]] /\ current' = [s \in Sources |-> "after"]
          /\ ~IsReplaced("terminate")
      BY <1>0, <1>15 DEF Replace
    <2>2. \A s \in Sources : ~IsHeld("Uninstall", s) /\ ~IsHeld("Uninstall", s)' /\ (IsHeld("Install", s)' <=> IsHeld("Install", s))
      BY <1>0, <2>1 DEF IsHeld, InHand, InSetup
    <2>3. ASSUME NEW s \in Sources PROVE IsTakenOver(s)
      <3>1. FirstOf(s) = current[s] /\ FirstOf(s)' = "after" /\ HasOurs(s)' = HasOurs(s)
        BY <2>1, <2>2 DEF FirstOf, HasOurs
      <3>2. CASE ~IsHeld("Install", s)
        <4>1. LinksOf(s) = previous[s] /\ LinksOf(s)' = [previous[s] EXCEPT !["after"] = current[s]]
          BY <2>1, <2>2, <3>2 DEF LinksOf
        <4> QED BY <3>1, <4>1 DEF IsTakenOver, Replaces
      <3>3. CASE IsHeld("Install", s)
        <4>1. PICK p \in [Handlers -> Handlers], c \in Handlers, h \in Handlers : p = previous[s] /\ c = current[s] /\ h = setup.held
          BY <1>0
        <4>2. LinksOf(s) = [p EXCEPT !["ours"] = h] /\ LinksOf(s)' = [[p EXCEPT !["after"] = c] EXCEPT !["ours"] = h]
          BY <2>1, <2>2, <3>3, <4>1 DEF LinksOf
        <4>3. [[p EXCEPT !["after"] = c] EXCEPT !["ours"] = h] = [[p EXCEPT !["ours"] = h] EXCEPT !["after"] = c]
          BY DEF Handlers
        <4>4. LinksOf(s)' = [LinksOf(s) EXCEPT !["after"] = FirstOf(s)]
          BY <3>1, <4>1, <4>2, <4>3
        <4> QED BY <3>1, <4>4 DEF IsTakenOver, Replaces
      <3> QED BY <3>2, <3>3
    <2>4. HaveReplaced = FALSE
      BY <2>1 DEF HaveReplaced
    <2>5. HaveReplaced' = TRUE
      <3>1. current["terminate"] # "default"
        <4>1. FirstOf("terminate") = current["terminate"]
          BY <1>0, <2>2 DEF FirstOf
        <4> QED BY <4>1 DEF Whole, WholeOK
      <3>2. previous'["terminate"]["after"] = current["terminate"]
        BY <1>0, <2>1 DEF Handlers
      <3> QED BY <3>1, <3>2 DEF HaveReplaced, IsReplaced
    <2> QED BY <2>3, <2>4, <2>5
  <1> QED BY <1>10, <1>11, <1>12, <1>13, <1>14, <1>15 DEF Setup

LEMMA ChainsSetup ==
  ASSUME HandlersOK, CrashOK, HandOK, ChainsOK, Setup, ~isTorn, ~isTorn'
  PROVE  ChainsOK'
  <1>0. "terminate" \in Sources /\ "abort" \in Sources
    BY DEF Sources
  <1>1. \A s \in Sources : /\ LinksOf(s) \in [Handlers -> Handlers] /\ FirstOf(s) \in Handlers /\ HasOurs(s) \in BOOLEAN
                           /\ LinksOK(LinksOf(s), FirstOf(s), HasOurs(s), HaveReplaced)
    BY LinkTypes DEF ChainsOK, Links
  <1>2. HaveReplaced \in BOOLEAN
    BY DEF HaveReplaced, IsReplaced
  <1>3. UNCHANGED <<crash, pc>> /\ \A t \in Tasks : crash[t] \in CrashRecord
    BY DEF Setup, UnchangedInSetup, crashVars, CrashOK
  <1>8. \A s \in Sources :
           \/ HaveReplaced' = HaveReplaced /\ (Stays(s) \/ GetsOurs(s) \/ LosesOurs(s))
           \/ HaveReplaced = FALSE /\ HaveReplaced' = TRUE /\ IsTakenOver(s)
    <2>1. (\A s \in Sources : Links(s)) /\ Whole("terminate")
      BY DEF ChainsOK
    <2> QED BY <2>1, SetupIs, Zenon
  <1>4. ASSUME NEW s \in Sources PROVE Links(s)' /\ (Whole(s) => Whole(s)')
    <2>1. CASE Stays(s) /\ HaveReplaced' = HaveReplaced
      BY <1>1, <2>1 DEF Stays, Leaves, Links, Whole
    <2>2. CASE (GetsOurs(s) \/ LosesOurs(s)) /\ HaveReplaced' = HaveReplaced
      BY <1>1, <1>2, <2>2, LinksChange DEF GetsOurs, LosesOurs, Links, Whole
    <2>3. CASE IsTakenOver(s) /\ HaveReplaced = FALSE /\ HaveReplaced' = TRUE
      BY <1>1, <1>2, <2>3, LinksChange DEF IsTakenOver, Links, Whole
    <2> QED BY <1>8, <2>1, <2>2, <2>3
  <1>5. \A t \in Tasks : Handler(t)' = Handler(t) /\ \A s : Done(t, s)' = Done(t, s)
    BY <1>3 DEF Handler, Done
  <1>6. ASSUME NEW t \in Tasks, GetsCrash(t) PROVE GetsCrash(t)'
    <2>1. HaveReplaced => HaveReplaced'
      BY <1>0, <1>8
    <2>2. InPlaceOK(HaveReplaced, crash[t].inPlace)'
      BY <1>3, <1>6, <2>1 DEF GetsCrash, InPlaceOK
    <2>3. ASSUME crash[t].source # "none" PROVE Leads(t, crash[t].source)'
      <3>1. PICK s \in Sources : s = crash[t].source
        BY <1>3, <2>3 DEF CrashRecord
      <3>2. Leads(t, s)
        BY <1>6, <2>3, <3>1 DEF GetsCrash
      <3>3. /\ InPlaceOK(HaveReplaced, crash[t].inPlace)
            /\ Handler(t) \in Handlers /\ Done(t, s) \in SUBSET Handlers /\ crash[t].inPlace \in SUBSET Handlers
        <4>1. crash[t].called \in Seq(Sources \X Handlers) /\ crash[t].inPlace \in SUBSET Handlers /\ crash[t].called # <<>>
          BY <1>3, <1>6, <2>3 DEF CrashRecord, GetsCrash
        <4>2. Last(crash[t].called) \in Sources \X Handlers
          BY <4>1 DEF Last
        <4>3. Handler(t) \in Handlers
          BY <4>1, <4>2 DEF Handler
        <4> QED BY <1>6, <4>1, <4>3 DEF GetsCrash, Done
      <3>4. Leads(t, s)'
        <4>0. CASE Stays(s) /\ HaveReplaced' = HaveReplaced
          BY <1>3, <1>5, <3>2, <4>0 DEF Stays, Leaves, Leads
        <4>1. CASE GetsOurs(s) /\ HaveReplaced' = HaveReplaced
          <5>1. LeadsOn(LinksOf(s)', FirstOf(s)', HasOurs(s)', HaveReplaced, Handler(t), Done(t, s), crash[t].inPlace)
            BY <1>1, <1>2, <3>2, <3>3, <4>1, LeadsSetup DEF Leads, GetsOurs
          <5> QED BY <1>3, <1>5, <4>1, <5>1 DEF Leads
        <4>2. CASE LosesOurs(s) /\ HaveReplaced' = HaveReplaced
          <5>1. LeadsOn(LinksOf(s)', FirstOf(s)', HasOurs(s)', HaveReplaced, Handler(t), Done(t, s), crash[t].inPlace)
            BY <1>1, <1>2, <3>2, <3>3, <4>2, LeadsSetup DEF Leads, LosesOurs
          <5> QED BY <1>3, <1>5, <4>2, <5>1 DEF Leads
        <4>3. CASE IsTakenOver(s) /\ HaveReplaced = FALSE /\ HaveReplaced' = TRUE
          <5>1. LeadsOn(LinksOf(s)', FirstOf(s)', HasOurs(s)', TRUE, Handler(t), Done(t, s), crash[t].inPlace)
            BY <1>1, <1>2, <3>2, <3>3, <4>3, LeadsSetup DEF Leads, IsTakenOver
          <5> QED BY <1>3, <1>5, <4>3, <5>1 DEF Leads
        <4> QED BY <1>8, <4>0, <4>1, <4>2, <4>3
      <3> QED BY <1>3, <3>1, <3>4
    <2> QED BY <1>0, <1>3, <1>4, <1>5, <1>6, <2>2, <2>3 DEF GetsCrash
  <1>7. \A t \in Tasks : (HasCrashed(t)' <=> HasCrashed(t)) /\ (OnlyCrash(t)' <=> OnlyCrash(t))
    BY <1>3 DEF HasCrashed, OnlyCrash
  <1> QED BY <1>0, <1>4, <1>6, <1>7 DEF ChainsOK

LEMMA ChainsSame ==
  ASSUME ChainsOK, UNCHANGED <<platform, previous, current, isInstalled, setup>>,
         \A t \in Tasks : /\ crash'[t].source = crash[t].source /\ crash'[t].called = crash[t].called
                          /\ crash'[t].inPlace = crash[t].inPlace /\ (HasCrashed(t)' <=> HasCrashed(t))
  PROVE  ChainsOK'
  <1>1. HaveReplaced' = HaveReplaced
    BY DEF HaveReplaced, IsReplaced
  <1>6. \A s : LinksOf(s)' = LinksOf(s) /\ FirstOf(s)' = FirstOf(s) /\ HasOurs(s)' = HasOurs(s)
    BY DEF LinksOf, FirstOf, HasOurs, IsHeld, IsSwapped
  <1>2. \A s \in Sources : Links(s)' = Links(s) /\ Whole(s)' = Whole(s)
    BY <1>1, <1>6 DEF Links, Whole
  <1>3. \A t \in Tasks : (OnlyCrash(t)' <=> OnlyCrash(t))
    BY DEF OnlyCrash
  <1>5. "terminate" \in Sources /\ "abort" \in Sources
    BY DEF Sources
  <1>4. ASSUME NEW t \in Tasks, GetsCrash(t) PROVE GetsCrash(t)'
    <2>1. Handler(t)' = Handler(t) /\ \A s : Done(t, s)' = Done(t, s)
      BY DEF Handler, Done
    <2>2. \A s : Leads(t, s)' = Leads(t, s)
      BY <1>1, <1>6, <2>1 DEF Leads
    <2>3. PICK s : s = crash[t].source
      OBVIOUS
    <2>4. crash'[t].source = s /\ (s # "none" => Leads(t, s)')
      BY <1>4, <2>2, <2>3 DEF GetsCrash
    <2>5. s # "none" => Leads(t, crash[t].source)'
      BY <2>4
    <2>6. InPlaceOK(HaveReplaced, crash[t].inPlace)' /\ IsInjective(crash'[t].called)
      BY <1>1, <1>4 DEF GetsCrash
    <2> QED BY <1>2, <1>4, <1>5, <2>1, <2>3, <2>4, <2>5, <2>6 DEF GetsCrash
  <1> QED BY <1>2, <1>3, <1>4, <1>5 DEF ChainsOK

\* Once a thread has crashed, only what it does with its own crash matters
LEMMA ChainsOne ==
  ASSUME NEW t \in Tasks, HasCrashed(t)', \A s \in Sources : Links(s)', Whole("terminate")', OnlyCrash(t)' => GetsCrash(t)'
  PROVE  ChainsOK'
  BY DEF ChainsOK, OnlyCrash

LEMMA CalledNext ==
  ASSUME CrashOK, NEW t \in Tasks, NEW s \in Sources, NEW h \in Handlers, CallHandler(t, s, h)
  PROVE  /\ crash'[t].source = s /\ crash'[t].called # <<>> /\ crash'[t].inPlace = crash[t].inPlace
         /\ Handler(t)' = h /\ Done(t, s)' = Done(t, s) \cup {h} /\ \A r \in Sources \ {s} : Done(t, r)' = Done(t, r)
         /\ \A i \in DOMAIN crash'[t].called :
               crash'[t].called[i] = <<s, h>> \/ \E j \in DOMAIN crash[t].called : crash'[t].called[i] = crash[t].called[j]
         /\ IsInjective(crash[t].called) /\ <<s, h>> \notin ToSet(crash[t].called) => IsInjective(crash'[t].called)
  <1> DEFINE one == <<<<s, h>>>>
  <1>1. PICK c : c = crash[t].called
    OBVIOUS
  <1>2. c \in Seq(Sources \X Handlers) /\ crash[t] \in CrashRecord
    BY <1>1 DEF CrashOK, CrashRecord
  <1>3. one \in Seq(Sources \X Handlers) /\ Len(one) = 1 /\ one[1] = <<s, h>>
    OBVIOUS
  <1>4. crash'[t].source = s /\ crash'[t].called = c \o one /\ crash'[t].inPlace = crash[t].inPlace
    BY <1>1, <1>2 DEF CallHandler, CrashOK, CrashRecord
  <1> HIDE DEF one
  <1>5. PICK d : d = c \o one
    OBVIOUS
  <1>6. /\ d \in Seq(Sources \X Handlers) /\ Len(d) = Len(c) + 1 /\ d[Len(c) + 1] = <<s, h>>
        /\ \A i \in 1 .. Len(c) : d[i] = c[i]
    BY <1>2, <1>3, <1>5, ConcatProperties, SMTT(30)
  <1>7. DOMAIN d = 1 .. Len(c) + 1 /\ DOMAIN c = 1 .. Len(c) /\ Len(c) \in Nat
    BY <1>2, <1>6
  <1>8. ToSet(d) = ToSet(c) \cup {<<s, h>>}
    <2>1. \A i \in DOMAIN d : d[i] \in ToSet(c) \cup {<<s, h>>}
      BY <1>6, <1>7 DEF ToSet
    <2>2. \A i \in DOMAIN c : c[i] \in ToSet(d)
      BY <1>6, <1>7 DEF ToSet
    <2>3. <<s, h>> \in ToSet(d)
      BY <1>6, <1>7 DEF ToSet
    <2> QED BY <2>1, <2>2, <2>3 DEF ToSet
  <1>9. d # <<>> /\ Last(d) = <<s, h>>
    BY <1>6, <1>7 DEF Last
  <1>10. IsInjective(c) /\ <<s, h>> \notin ToSet(c) => IsInjective(d)
    BY <1>6, <1>7 DEF IsInjective, ToSet
  <1>11. Handler(t)' = h
    BY <1>4, <1>5, <1>9 DEF Handler
  <1>12. Done(t, s)' = Done(t, s) \cup {h} /\ \A r \in Sources \ {s} : Done(t, r)' = Done(t, r)
    BY <1>1, <1>4, <1>5, <1>8 DEF Done
  <1>13. \A i \in DOMAIN d : d[i] = <<s, h>> \/ \E j \in DOMAIN c : d[i] = c[j]
    BY <1>6, <1>7
  <1> QED BY <1>1, <1>4, <1>5, <1>9, <1>10, <1>11, <1>12, <1>13

\* A handler passes the crash on to the one it replaced
LEMMA GetsNext ==
  ASSUME HandlersOK, CrashOK, NEW t \in Tasks, GetsCrash(t), NEW s \in Sources, crash[t].source = s, Links(s),
         NEW h \in Handlers, Handler(t) = h, h # "default", CallHandler(t, s, LinksOf(s)[h]),
         KeepsLinks, s = "terminate" => FirstOf("abort")' = FirstOf("abort")
  PROVE  GetsCrash(t)'
  <1>1. PICK g \in Handlers : g = LinksOf(s)[h]
    BY LinkTypes
  <1>2. s # "none"
    BY DEF Sources
  <1>3. /\ HaveReplaced' = HaveReplaced /\ HaveReplaced \in BOOLEAN
        /\ \A r \in Sources : LinksOf(r)' = LinksOf(r) /\ HasOurs(r)' = HasOurs(r)
    BY LinkTypes DEF KeepsLinks
  <1>4. PICK q : q = crash[t].inPlace
    OBVIOUS
  <1>5. q \in SUBSET Handlers /\ crash[t] \in CrashRecord
    BY <1>4 DEF CrashOK, CrashRecord
  <1>6. InPlaceOK(HaveReplaced, q) /\ Leads(t, s) /\ IsInjective(crash[t].called)
    BY <1>2, <1>4 DEF GetsCrash
  <1>7. g \notin Done(t, s) /\ LeadsOn(LinksOf(s), FirstOf(s)', HasOurs(s), HaveReplaced, g, Done(t, s) \cup {g}, q)
    <2>1. PICK p, c, i, r, k, d, e :
             /\ p = LinksOf(s) /\ c = FirstOf(s) /\ i = HasOurs(s) /\ r = HaveReplaced /\ k = FirstOf(s)'
             /\ d = Done(t, s) /\ e = Done(t, s) \cup {g}
      OBVIOUS
    <2>2. p \in [Handlers -> Handlers] /\ c \in Handlers /\ i \in BOOLEAN /\ r \in BOOLEAN /\ d \in SUBSET Handlers
      BY <1>3, <2>1, LinkTypes DEF Done
    <2>3. LinksOK(p, c, i, r) /\ LeadsOn(p, c, i, r, h, d, q) /\ InPlaceOK(r, q)
      BY <1>4, <1>6, <2>1 DEF Links, Leads
    <2>4. g = ReplacedBy(p, h) /\ e = d \cup {g}
      BY <1>1, <2>1 DEF ReplacedBy
    <2>5. g \notin d /\ LeadsOn(p, k, i, r, g, e, q)
      BY <1>5, <2>2, <2>3, <2>4, LeadsNext
    <2> QED BY <2>1, <2>5
  <1>8. <<s, g>> \notin ToSet(crash[t].called)
    BY <1>7 DEF Done
  <1>9. /\ crash'[t].source = s /\ crash'[t].called # <<>> /\ crash'[t].inPlace = q
        /\ Handler(t)' = g /\ Done(t, s)' = Done(t, s) \cup {g} /\ \A r \in Sources \ {s} : Done(t, r)' = Done(t, r)
        /\ \A i \in DOMAIN crash'[t].called :
               crash'[t].called[i] = <<s, g>> \/ \E j \in DOMAIN crash[t].called : crash'[t].called[i] = crash[t].called[j]
        /\ IsInjective(crash'[t].called)
    BY <1>1, <1>4, <1>6, <1>8, CalledNext
  <1>10. Leads(t, s)'
    BY <1>3, <1>7, <1>9 DEF Leads
  <1>11. \A i \in DOMAIN crash'[t].called :
            crash'[t].called[i][1] = s \/ (crash'[t].called[i][1] = "terminate" /\ s = "abort")
    BY <1>2, <1>9 DEF GetsCrash
  <1>12. s = "terminate" => Whole("abort")'
    BY <1>2, <1>3 DEF GetsCrash, Whole, Sources
  <1>13. s = "abort" => Done(t, "terminate")' = Done(t, "terminate")
    BY <1>9 DEF Sources
  <1>14. s = "abort" /\ Done(t, "terminate") # {} => q \subseteq Done(t, "terminate")
    BY <1>2, <1>4 DEF GetsCrash
  <1>15. InPlaceOK(HaveReplaced, crash[t].inPlace)'
    BY <1>3, <1>6, <1>9
  <1> QED BY <1>2, <1>9, <1>10, <1>11, <1>12, <1>13, <1>14, <1>15 DEF GetsCrash

LEMMA LeadsCalled ==
  ASSUME HandlersOK, NEW t \in Tasks, NEW s \in Sources, Links(s), Whole(s), NEW h, h = FirstOf(s),
         KeepsLinks, Handler(t)' = h, Done(t, s)' = {h},
         NEW q \in SUBSET Handlers, crash'[t].inPlace = q, InPlaceOK(HaveReplaced, q)
  PROVE  Leads(t, s)'
  <1>1. PICK p, c, i, r, k, d :
           /\ p = LinksOf(s) /\ c = FirstOf(s) /\ i = HasOurs(s) /\ r = HaveReplaced /\ k = FirstOf(s)' /\ d = {h}
    OBVIOUS
  <1>2. HaveReplaced' = HaveReplaced /\ LinksOf(s)' = LinksOf(s) /\ HasOurs(s)' = HasOurs(s)
    BY DEF KeepsLinks
  <1>3. p \in [Handlers -> Handlers] /\ c \in Handlers /\ i \in BOOLEAN /\ r \in BOOLEAN /\ h = c
    BY <1>1, LinkTypes
  <1>4. LinksOK(p, c, i, r) /\ WholeOK(p, c, i, r) /\ InPlaceOK(r, q)
    BY <1>1 DEF Links, Whole
  <1>5. LeadsOn(p, k, i, r, h, {h}, q)
    BY <1>2, <1>3, <1>4, LeadsFirst
  <1> QED BY <1>1, <1>2, <1>5 DEF Leads

\* A crash that no handler has got yet, or that every handler of
\* std::terminate() has, goes to the handlers of s
LEMMA GetsRaised ==
  ASSUME HandlersOK, CrashOK, NEW t \in Tasks, GetsCrash(t), NEW s \in Sources, Links(s), Whole(s),
         CallHandler(t, s, FirstOf(s)), KeepsLinks, s = "terminate" => Whole("abort")',
         \/ crash[t].source = "none"
         \/ crash[t].source = "terminate" /\ s = "abort" /\ crash[t].inPlace \subseteq Done(t, "terminate")
  PROVE  GetsCrash(t)'
  <1>1. PICK h \in Handlers : h = FirstOf(s)
    BY LinkTypes
  <1>2. "none" \notin Sources /\ "terminate" # "abort" /\ "terminate" # "none" /\ "terminate" \in Sources
    BY DEF Sources
  <1>3. \A j \in DOMAIN crash[t].called : crash[t].called[j][1] = "terminate" /\ s = "abort"
    BY <1>2 DEF GetsCrash
  <1>4. Done(t, s) = {}
    <2>1. \A h2 \in Handlers : <<s, h2>> \notin ToSet(crash[t].called)
      BY <1>2, <1>3 DEF ToSet
    <2> QED BY <2>1 DEF Done
  <1>5. PICK q \in SUBSET Handlers : q = crash[t].inPlace
    BY DEF CrashOK, CrashRecord
  <1>6. InPlaceOK(HaveReplaced, q) /\ IsInjective(crash[t].called)
    BY <1>5 DEF GetsCrash
  <1>7. <<s, h>> \notin ToSet(crash[t].called)
    BY <1>1, <1>4 DEF Done
  <1>8. /\ crash'[t].source = s /\ crash'[t].called # <<>> /\ crash'[t].inPlace = q
        /\ Handler(t)' = h /\ Done(t, s)' = {h} /\ \A r \in Sources \ {s} : Done(t, r)' = Done(t, r)
        /\ \A i \in DOMAIN crash'[t].called :
               crash'[t].called[i] = <<s, h>> \/ \E j \in DOMAIN crash[t].called : crash'[t].called[i] = crash[t].called[j]
        /\ IsInjective(crash'[t].called)
    BY <1>1, <1>4, <1>5, <1>6, <1>7, CalledNext
  <1>9. Leads(t, s)'
    BY <1>1, <1>6, <1>8, LeadsCalled
  <1>10. \A i \in DOMAIN crash'[t].called :
            crash'[t].called[i][1] = s \/ (crash'[t].called[i][1] = "terminate" /\ s = "abort")
    BY <1>3, <1>8
  <1>11. s = "abort" /\ Done(t, "terminate")' # {} => q \subseteq Done(t, "terminate")'
    <2>1. CASE crash[t].source = "none"
      <3>1. crash[t].called = <<>>
        BY <2>1 DEF GetsCrash
      <3>2. Done(t, "terminate") = {}
        BY <3>1 DEF Done, ToSet
      <3> QED BY <1>2, <1>8, <3>2
    <2>2. CASE crash[t].source # "none"
      BY <1>2, <1>5, <1>8, <2>2
    <2> QED BY <2>1, <2>2
  <1>12. InPlaceOK(HaveReplaced, crash[t].inPlace)'
    <2>1. HaveReplaced' = HaveReplaced
      BY DEF KeepsLinks
    <2> QED BY <1>6, <1>8, <2>1
  <1> QED BY <1>2, <1>8, <1>9, <1>10, <1>11, <1>12 DEF GetsCrash

\* The first crash of the program: nobody has changed the handlers' links yet
LEMMA GetsCrashed ==
  ASSUME HandlersOK, CrashOK, NEW t \in Tasks, \A r \in Sources : Links(r) /\ Whole(r),
         NEW s \in Sources \cup {"none"}, NEW called, called = IF s = "none" THEN <<>> ELSE <<<<s, FirstOf(s)>>>>,
         crash' = [crash EXCEPT ![t] = Crashed(t, s, called)],
         KeepsLinks, s \in {"none", "terminate"} => \A r \in Sources : FirstOf(r)' = FirstOf(r)
  PROVE  GetsCrash(t)'
  <1>1. "none" \notin Sources /\ "abort" \in Sources /\ "terminate" \in Sources /\ "terminate" # "abort"
    BY DEF Sources
  <1>2. HaveReplaced' = HaveReplaced /\ \A r \in Sources : LinksOf(r)' = LinksOf(r) /\ HasOurs(r)' = HasOurs(r)
    BY DEF KeepsLinks
  <1>3. crash'[t] = Crashed(t, s, called)
    BY DEF CrashOK
  <1>4. PICK q : q = {"before"} \cup {h \in {"after"} : \A r \in Sources : IsReplaced(r)}
    OBVIOUS
  <1>5. crash'[t].source = s /\ crash'[t].called = called /\ crash'[t].inPlace = q
    <2>1. Crashed(t, s, called).source = s /\ Crashed(t, s, called).called = called
      BY DEF Crashed, NoCrash
    <2>2. Crashed(t, s, called).inPlace = {"before"} \cup {h \in {"after"} : \A r \in Sources : IsReplaced(r)}
      BY Zenon DEF Crashed, NoCrash
    <2> QED BY <1>3, <1>4, <2>1, <2>2
  <1>6. InPlaceOK(HaveReplaced, q) /\ q \in SUBSET Handlers
    BY <1>1, <1>4 DEF InPlaceOK, HaveReplaced, Handlers
  <1>7. CASE s = "none"
    <2>1. called = <<>> /\ IsInjective(called)
      BY <1>7 DEF IsInjective
    <2>2. \A r \in Sources : Whole(r)'
      BY <1>2, <1>7 DEF Whole
    <2> QED BY <1>2, <1>5, <1>6, <1>7, <2>1, <2>2 DEF GetsCrash
  <1>8. CASE s # "none"
    <2>10. s \in Sources
      BY <1>8
    <2>11. FirstOf(s) \in Handlers
      BY <2>10, LinkTypes
    <2>1. PICK h \in Handlers : h = FirstOf(s) /\ s \in Sources
      BY <2>10, <2>11
    <2>2. called = <<<<s, h>>>> /\ called # <<>> /\ Last(called) = <<s, h>> /\ IsInjective(called) /\ DOMAIN called = {1}
          /\ called[1] = <<s, h>>
      BY <1>8, <2>1 DEF IsInjective, Last
    <2>3. ToSet(called) = {<<s, h>>}
      BY <2>2 DEF ToSet
    <2>4. Handler(t)' = h
      <3>1. crash'[t].called # <<>> /\ Last(crash'[t].called) = <<s, h>>
        BY <1>5, <2>2, Zenon
      <3>2. <<s, h>>[2] = h
        OBVIOUS
      <3> QED BY <3>1, <3>2, Zenon DEF Handler
    <2>5. Done(t, s)' = {h}
      BY <1>5, <2>3 DEF Done
    <2>6. \A r \in Sources \ {s} : Done(t, r)' = {}
      BY <1>5, <2>3 DEF Done
    <2>7. Leads(t, s)'
      BY <1>5, <1>6, <2>1, <2>4, <2>5, LeadsCalled
    <2>8. s = "terminate" => Whole("abort")'
      BY <1>1, <1>2 DEF Whole
    <2>9. s = "abort" => Done(t, "terminate")' = {}
      BY <1>1, <2>6
    <2> QED BY <1>2, <1>5, <1>6, <1>8, <2>2, <2>7, <2>8, <2>9 DEF GetsCrash
  <1> QED BY <1>7, <1>8

\* In its step a crashed thread puts handlers back at most
LEMMA ChainsPutBack ==
  ASSUME HandlersOK, ChainsOK, NEW t \in Tasks, HasCrashed(t)', KeepsLinks,
         FirstOf("terminate")' = FirstOf("terminate"),
         \A r \in Sources : FirstOf(r)' \in {FirstOf(r), "default", LinksOf(r)["ours"]},
         OnlyCrash(t)' => GetsCrash(t)'
  PROVE  ChainsOK'
  <1>1. /\ HaveReplaced' = HaveReplaced /\ HaveReplaced \in BOOLEAN
        /\ \A r \in Sources : LinksOf(r)' = LinksOf(r) /\ HasOurs(r)' = HasOurs(r)
    <2>1. "terminate" \in Sources
      BY DEF Sources
    <2> QED BY <2>1, LinkTypes DEF KeepsLinks
  <1>2. ASSUME NEW s \in Sources PROVE Links(s)'
    <2>1. LinksOK(LinksOf(s), FirstOf(s), HasOurs(s), HaveReplaced)
          /\ LinksOf(s) \in [Handlers -> Handlers] /\ FirstOf(s) \in Handlers /\ HasOurs(s) \in BOOLEAN
      BY LinkTypes DEF ChainsOK, Links
    <2>2. LinksOK(LinksOf(s), "default", HasOurs(s), HaveReplaced)
          /\ LinksOK(LinksOf(s), LinksOf(s)["ours"], HasOurs(s), HaveReplaced)
      BY <1>1, <2>1, LinksPutBack
    <2>3. LinksOK(LinksOf(s), FirstOf(s)', HasOurs(s), HaveReplaced)
      BY <2>1, <2>2
    <2> QED BY <1>1, <2>3 DEF Links
  <1>3. Whole("terminate")'
    BY <1>1 DEF ChainsOK, Whole, Sources
  <1> QED BY <1>2, <1>3, ChainsOne

\* The system calls the first handler, unless it finds the one put in its place
LEMMA RaisedIs ==
  ASSUME HandlersOK, NEW s \in Sources, Raised(s), SystemLooksUp(s), ~isTorn', ended = NoOne, UNCHANGED setup
  PROVE  /\ current[s] = FirstOf(s) /\ FirstOf("terminate")' = FirstOf("terminate")
         /\ \A r \in Sources : FirstOf(r)' \in {FirstOf(r), "default"}
         /\ s # "abort" => \A r \in Sources : FirstOf(r)' = FirstOf(r)
  <1>1. current' = current \/ (s = "abort" /\ current' = [current EXCEPT !["abort"] = "default"])
    BY DEF Raised
  <1>2. current'["terminate"] = current["terminate"] /\ \A r \in Sources : current'[r] \in {current[r], "default"}
    BY <1>1 DEF HandlersOK, Sources
  <1>3. \A r \in Sources : IsHeld("Uninstall", r)' <=> IsHeld("Uninstall", r)
    BY DEF IsHeld
  <1>4. current[s] = FirstOf(s)
    BY DEF SystemLooksUp, FirstOf, IsHeld, InHand, InSetup, Sources
  <1>5. ASSUME NEW r \in Sources, current'[r] = current[r] PROVE FirstOf(r)' = FirstOf(r)
    BY <1>3, <1>5 DEF FirstOf
  <1>6. ASSUME NEW r \in Sources PROVE FirstOf(r)' \in {FirstOf(r), "default"}
    BY <1>2, <1>3 DEF FirstOf
  <1> QED BY <1>1, <1>2, <1>4, <1>5, <1>6 DEF Sources

LEMMA ChainsPassOn ==
  ASSUME PcOK, HandlersOK, CrashOK, ChainsOK, instance \in Instances, NEW t \in Tasks, PassOn(t), ended = NoOne, ~isTorn'
  PROVE  ChainsOK'
  <1>0. UNCHANGED <<platform, previous, isInstalled, setup>>
    BY DEF PassOn, UnchangedInCrash
  <1>1. KeepsLinks /\ \A s \in Sources : current'[s] = current[s] => FirstOf(s)' = FirstOf(s)
    BY <1>0, LinksStay
  <1>2. HasCrashed(t) /\ HasCrashed(t)' /\ (OnlyCrash(t)' => OnlyCrash(t))
    <2>1. HasCrashed(t)
      BY PassesOn DEF HasCrashed
    <2>2. CASE pc' = pc
      BY <2>1, <2>2 DEF HasCrashed, OnlyCrash
    <2>3. CASE \E step : Moves(t, "crash", step)
      BY <2>1, <2>3, OthersHold DEF OnlyCrash
    <2> QED BY <2>2, <2>3, PassesOn
  <1>3. OnlyCrash(t) => GetsCrash(t)
    BY DEF ChainsOK
  <1>4. \A s \in Sources : Links(s) /\ LinksOf(s) \in [Handlers -> Handlers]
    BY LinkTypes DEF ChainsOK
  <1>5. "terminate" \in Sources /\ "abort" \in Sources /\ "terminate" # "abort" /\ "none" \notin Sources /\ Whole("terminate")
        /\ "ours" \in Handlers /\ "ours" # "default" /\ "ours" # "none"
    BY DEF Sources, Handlers, ChainsOK
  <1>6. ASSUME NEW s \in Sources, NEW h \in Handlers, Handler(t) = h, h # "default", crash[t].source = s,
               CallHandler(t, s, LinksOf(s)[h]), s = "terminate" => FirstOf("abort")' = FirstOf("abort"),
               \A r \in Sources : FirstOf(r)' \in {FirstOf(r), "default", LinksOf(r)["ours"]},
               FirstOf("terminate")' = FirstOf("terminate")
        PROVE  ChainsOK'
    <2>1. GetsCrash(t) => GetsCrash(t)'
      BY <1>1, <1>4, <1>6, GetsNext
    <2> QED BY <1>1, <1>2, <1>3, <1>6, <2>1, ChainsPutBack
  <1>13. ASSUME NEW s \in Sources, OursLooksUp(s) PROVE LinksOf(s) = previous[s]
    <2>1. ~IsHeld("Install", s)
      BY <1>13 DEF OursLooksUp, IsHeld, InHand, InSetup, Sources
    <2> QED BY <2>1, LinkTypes
  <1>7. CASE AfterHandleCrash(t)
    <2>1. crash[t].source = "none"
      <3>1. crash[t].called \in Seq(Sources \X Handlers)
        BY DEF CrashOK, CrashRecord
      <3>2. CASE crash[t].called # <<>>
        <4>1. Last(crash[t].called) \in Sources \X Handlers
          BY <3>1, <3>2 DEF Last
        <4> QED BY <1>7, <3>2, <4>1 DEF AfterHandleCrash, Handler, Handlers
      <3> QED BY <3>2 DEF CrashOK
    <2>4. PICK s \in Sources : CallHandler(t, s, current[s]) /\ SystemLooksUp(s) /\ Raised(s)
      <3>1. instance.sources \subseteq Sources
        BY InstanceAssumption DEF Sources
      <3> QED BY <1>7, <3>1 DEF AfterHandleCrash
    <2>5. /\ current[s] = FirstOf(s) /\ FirstOf("terminate")' = FirstOf("terminate")
          /\ \A r \in Sources : FirstOf(r)' \in {FirstOf(r), "default"}
          /\ s # "abort" => \A r \in Sources : FirstOf(r)' = FirstOf(r)
      BY <1>0, <2>4, RaisedIs
    <2>2. CallHandler(t, s, FirstOf(s))
      BY <2>4, <2>5
    <2>3. ASSUME GetsCrash(t) PROVE GetsCrash(t)'
      <3>1. \A r \in Sources : Whole(r)
        BY <2>1, <2>3 DEF GetsCrash
      <3>2. s = "terminate" => Whole("abort")'
        <4>1. s = "terminate" => FirstOf("abort")' = FirstOf("abort")
          BY <1>5, <2>5
        <4> QED BY <1>1, <1>5, <3>1, <4>1 DEF KeepsLinks, Whole
      <3> QED BY <1>1, <1>4, <2>1, <2>2, <2>3, <3>1, <3>2, GetsRaised
    <2> QED BY <1>1, <1>2, <1>3, <2>3, <2>5, ChainsPutBack
  <1>8. CASE Handler(t) = "ours" /\ (OnTerminate(t) \/ OnUnhandledException(t) \/ OnAbortSignal(t))
    <2>1. PICK s \in Sources : s = crash[t].source
      BY <1>5, <1>8, SourceIs
    <2>2. CallHandler(t, s, previous[s]["ours"]) /\ OursLooksUp(s) /\ current' = current
      BY <1>8, <2>1 DEF OnTerminate, OnUnhandledException, OnAbortSignal
    <2>3. CallHandler(t, s, LinksOf(s)["ours"])
      BY <1>13, <2>2
    <2>4. \A r \in Sources : FirstOf(r)' = FirstOf(r)
      BY <1>1, <2>2
    <2> QED BY <1>5, <1>6, <1>8, <2>1, <2>3, <2>4
  <1>9. CASE Handler(t) = "ours" /\ OnFatalSignal(t)
    <2>1. PICK s \in Sources : s = crash[t].source /\ s # "terminate"
      BY <1>5, <1>9, SourceIs DEF OnFatalSignal
    <2>2. CallHandler(t, s, previous[s]["ours"]) /\ OursLooksUp(s) /\ current' = [current EXCEPT ![s] = previous[s]["ours"]]
      BY <1>9, <2>1 DEF OnFatalSignal
    <2>3. CallHandler(t, s, LinksOf(s)["ours"]) /\ LinksOf(s) = previous[s]
      BY <1>13, <2>2
    <2>4. \A r \in Sources : r # s => FirstOf(r)' = FirstOf(r)
      BY <1>1, <2>2 DEF HandlersOK
    <2>5. FirstOf(s)' \in {FirstOf(s), LinksOf(s)["ours"]}
      <3>1. IsHeld("Uninstall", s)' <=> IsHeld("Uninstall", s)
        BY <1>0 DEF IsHeld
      <3> QED BY <1>0, <2>2, <2>3, <3>1 DEF FirstOf, HandlersOK
    <2> QED BY <1>5, <1>6, <1>9, <2>1, <2>3, <2>4, <2>5
  <1>10. CASE OtherHandler(t)
    <2>1. PICK h \in Handlers : h = Handler(t) /\ h # "default" /\ h # "ours"
      BY <1>10 DEF OtherHandler, Handlers
    <2>2. PICK s \in Sources : s = crash[t].source
      BY <1>10, SourceIs DEF OtherHandler
    <2>3. CallHandler(t, s, previous[s][h]) /\ current' = current
      BY <1>10, <2>1, <2>2 DEF OtherHandler
    <2>4. CallHandler(t, s, LinksOf(s)[h])
      BY <2>1, <2>3, LinkTypes
    <2>5. \A r \in Sources : FirstOf(r)' = FirstOf(r)
      BY <1>1, <2>3
    <2> QED BY <1>5, <1>6, <2>1, <2>2, <2>4, <2>5
  <1>11. CASE DefaultHandler(t) /\ crash[t].source = "terminate"
    <2>3. CallHandler(t, "abort", current["abort"]) /\ SystemLooksUp("abort") /\ Raised("abort") /\ Handler(t) = "default"
      BY <1>11 DEF DefaultHandler
    <2>4. /\ current["abort"] = FirstOf("abort") /\ FirstOf("terminate")' = FirstOf("terminate")
          /\ \A r \in Sources : FirstOf(r)' \in {FirstOf(r), "default"}
      BY <1>0, <1>5, <2>3, RaisedIs
    <2>1. CallHandler(t, "abort", FirstOf("abort")) /\ Handler(t) = "default"
      BY <2>3, <2>4
    <2>2. ASSUME GetsCrash(t) PROVE GetsCrash(t)'
      <3>1. Whole("abort") /\ Leads(t, "terminate") /\ InPlaceOK(HaveReplaced, crash[t].inPlace)
        BY <1>5, <1>11, <2>2 DEF GetsCrash
      <3>2. crash[t].inPlace \subseteq Done(t, "terminate")
        <4>1. LinksOf("terminate")["default"] = "default"
          BY <1>4, <1>5 DEF Links, LinksOK
        <4>2. After(LinksOf("terminate"), "default") = {"default"}
          BY <4>1 DEF After
        <4> QED BY <2>1, <3>1, <4>2 DEF Leads, LeadsOn, InPlaceOK
      <3> QED BY <1>1, <1>4, <1>5, <1>11, <2>1, <2>2, <3>1, <3>2, GetsRaised
    <2> QED BY <1>1, <1>2, <1>3, <2>2, <2>4, ChainsPutBack
  <1>12. CASE DefaultHandler(t) /\ crash[t].source # "terminate"
    <2>1. UNCHANGED <<crash, pc, current>>
      BY <1>12 DEF DefaultHandler
    <2> QED BY <1>0, <2>1, ChainsSame DEF HasCrashed
  <1> QED BY <1>7, <1>8, <1>9, <1>10, <1>11, <1>12 DEF PassOn

\* The visit of the loggers leaves a crash with the handlers that got it
LEMMA VisitKeepsCalled ==
  ASSUME CrashOK, ListOK, OutputOK, HandlersOK, instance \in Instances, NEW t \in Tasks,
         HandleCrashInLoggers(t), NEW u \in Tasks
  PROVE  crash'[u].source = crash[u].source /\ crash'[u].called = crash[u].called /\ crash'[u].inPlace = crash[u].inPlace
  <1>1. crash[t] \in CrashRecord /\ DOMAIN crash = Tasks
    BY DEF CrashOK
  <1>2. \/ crash' = crash
        \/ crash' = [crash EXCEPT ![t].todo = list, ![t].isWritten = TRUE]
        \/ crash' = [crash EXCEPT ![t].todo = Tail(@), ![t].lastQueued = m_LastQueuedSequence[Head(crash[t].todo)]]
    BY DEF HandleCrashInLoggers, LockListOfLoggers, Visit, Await
  <1>3. ASSUME NEW todo, NEW written, crash' = [crash EXCEPT ![t].todo = todo, ![t].isWritten = written]
        PROVE  crash'[u].source = crash[u].source /\ crash'[u].called = crash[u].called /\ crash'[u].inPlace = crash[u].inPlace
    BY <1>1, <1>3 DEF CrashRecord
  <1>4. ASSUME NEW todo, NEW n, crash' = [crash EXCEPT ![t].todo = todo, ![t].lastQueued = n]
        PROVE  crash'[u].source = crash[u].source /\ crash'[u].called = crash[u].called /\ crash'[u].inPlace = crash[u].inPlace
    BY <1>1, <1>4 DEF CrashRecord
  <1>5. CASE crash' = [crash EXCEPT ![t].todo = Tail(@), ![t].lastQueued = m_LastQueuedSequence[Head(crash[t].todo)]]
    <2> DEFINE todo == Tail(crash[t].todo)
               n == m_LastQueuedSequence[Head(crash[t].todo)]
    <2>1. crash' = [crash EXCEPT ![t].todo = todo, ![t].lastQueued = n]
      BY <1>1, <1>5
    <2> HIDE DEF todo, n
    <2> QED BY <1>4, <2>1
  <1> QED BY <1>2, <1>3, <1>5

LEMMA ChainsCrash ==
  ASSUME PcOK, HandlersOK, CrashOK, ChainsOK, NEW t \in Tasks, HandleCrash(t) \/ \E s \in Sources : Crash(t, s), ~isTorn'
  PROVE  ChainsOK'
  <1>1. HasCrashed(t)' /\ (OnlyCrash(t)' => \A u \in Tasks : ~HasCrashed(u))
    <2>1. ~HasCrashed(t) /\ \E step : Moves(t, "crash", step)
      BY BeginsCrash
    <2> QED BY <2>1, OthersHold DEF OnlyCrash
  <1>6. UNCHANGED <<platform, previous, isInstalled, setup>> /\ ended = NoOne
    BY DEF HandleCrash, Crash, UnchangedInCrash, IsCrashPossible
  <1>2. KeepsLinks /\ \A s \in Sources : current'[s] = current[s] => FirstOf(s)' = FirstOf(s)
    BY <1>6, LinksStay
  <1>3. PICK s \in Sources \cup {"none"} :
           /\ \E called : /\ called = IF s = "none" THEN <<>> ELSE <<<<s, current[s]>>>>
                          /\ crash' = [crash EXCEPT ![t] = Crashed(t, s, called)]
           /\ IF s = "none" THEN current' = current ELSE Raised(s) /\ SystemLooksUp(s)
    <2>1. "none" \notin Sources
      BY DEF Sources
    <2>2. CASE HandleCrash(t)
      BY <2>2 DEF HandleCrash
    <2>3. ASSUME NEW r \in Sources, Crash(t, r)
          PROVE  \E s \in Sources \cup {"none"} :
                    /\ \E called : /\ called = IF s = "none" THEN <<>> ELSE <<<<s, current[s]>>>>
                                   /\ crash' = [crash EXCEPT ![t] = Crashed(t, s, called)]
                    /\ IF s = "none" THEN current' = current ELSE Raised(s) /\ SystemLooksUp(s)
      BY <2>1, <2>3 DEF Crash
    <2> QED BY <2>2, <2>3
  <1>4. /\ FirstOf("terminate")' = FirstOf("terminate") /\ \A r \in Sources : FirstOf(r)' \in {FirstOf(r), "default"}
        /\ s \in {"none", "terminate"} => \A r \in Sources : FirstOf(r)' = FirstOf(r)
        /\ s # "none" => current[s] = FirstOf(s)
    <2>1. CASE s = "none"
      BY <1>2, <1>3, <2>1 DEF Sources
    <2>2. CASE s # "none"
      <3>1. s \in Sources /\ Raised(s) /\ SystemLooksUp(s)
        BY <1>3, <2>2
      <3>2. /\ current[s] = FirstOf(s) /\ FirstOf("terminate")' = FirstOf("terminate")
            /\ \A r \in Sources : FirstOf(r)' \in {FirstOf(r), "default"}
            /\ s # "abort" => \A r \in Sources : FirstOf(r)' = FirstOf(r)
        BY <1>6, <3>1, RaisedIs
      <3> QED BY <2>2, <3>2
    <2> QED BY <2>1, <2>2
  <1>5. ASSUME OnlyCrash(t)' PROVE GetsCrash(t)'
    <2>1. \A r \in Sources : Links(r) /\ Whole(r)
      BY <1>1, <1>5 DEF ChainsOK
    <2>2. \E called : /\ called = IF s = "none" THEN <<>> ELSE <<<<s, FirstOf(s)>>>>
                      /\ crash' = [crash EXCEPT ![t] = Crashed(t, s, called)]
      BY <1>3, <1>4
    <2> QED BY <1>2, <1>4, <2>1, <2>2, GetsCrashed
  <1> QED BY <1>1, <1>2, <1>4, <1>5, ChainsPutBack

\* The program does not move to another system
LEMMA PlatformStays ==
  ASSUME [Next]_vars
  PROVE  platform' = platform
  <1>1. ASSUME NEW t \in Threads, Call(t) PROVE platform' = platform
    BY <1>1 DEF Call, StartWrite, Queue, StartKeep, StartRead, Initialize, Open, StartClose, StartsToClose, EndWrite, EndKeep,
                EndRead, LockList, Register, Unregister, UnregisterBase, LockToClose, Close, Destroyed, Return, Continue
  <1>2. ASSUME NEW w \in Workers, Work(w) PROVE platform' = platform
    BY <1>2 DEF Work, WorkerTake, WorkerWrite, WorkerMark, Return, Continue
  <1>3. ASSUME NEW t \in Tasks, HandleCrash(t) \/ (\E s \in Sources : Crash(t, s)) \/ Handle(t) \/ Timeout(t) PROVE platform' = platform
    BY <1>3 DEF HandleCrash, Crash, Handle, HandleFirstCrash, PassOn, HandleCrashInLoggers, UnchangedInVisit, UnchangedInCrash, Timeout
  <1>4. Setup \/ UNCHANGED vars => platform' = platform
    BY DEF Setup, UnchangedInSetup, vars
  <1> QED BY <1>1, <1>2, <1>3, <1>4, TasksAre DEF Next

\* The steps of a crash that change handlers, or look them up
InCrash(t) == HandleCrash(t) \/ (\E s \in Sources : Crash(t, s)) \/ PassOn(t)

LEMMA NextIs ==
  ASSUME TypeOK, [Next]_vars
  PROVE  \/ UNCHANGED <<platform, previous, current, isInstalled, setup, isTorn>>
         \/ Setup
         \/ \E t \in Tasks : InCrash(t)
  <1> USE DEF TypeOK
  <1>1. ASSUME NEW t \in Tasks, CallMoves(t) PROVE UNCHANGED <<previous, current, isInstalled, setup, isTorn>>
    BY <1>1 DEF CallMoves, handlerVars
  <1>2. ASSUME NEW t \in Tasks, HandleFirstCrash(t) \/ HandleCrashInLoggers(t) \/ Timeout(t)
        PROVE  UNCHANGED <<previous, current, isInstalled, setup, isTorn>>
    BY <1>2 DEF HandleFirstCrash, HandleCrashInLoggers, UnchangedInVisit, UnchangedInCrash, Timeout, handlerVars
  <1>3. UNCHANGED vars => UNCHANGED <<previous, current, isInstalled, setup, isTorn>>
    BY DEF vars, handlerVars
  <1> QED BY <1>1, <1>2, <1>3, PlatformStays, CallsMove, TasksAre DEF Next, Handle, InCrash

LEMMA TornStays ==
  ASSUME TypeOK, [Next]_vars, isTorn
  PROVE  isTorn'
  <1>1. ASSUME Setup PROVE isTorn'
    BY <1>1 DEF Setup, BeginSetup, Install, StoreReplaced, Uninstall, PutBack, EndSetup, Replace
  <1>2. ASSUME NEW t \in Tasks, InCrash(t) PROVE isTorn'
    BY <1>2 DEF InCrash, HandleCrash, Crash, PassOn, AfterHandleCrash, OnTerminate, OnUnhandledException, OnAbortSignal,
                OnFatalSignal, OtherHandler, DefaultHandler, SystemLooksUp, OursLooksUp
  <1> QED BY <1>1, <1>2, NextIs

LEMMA ChainsStep ==
  ASSUME TypeOK, HandOK, ChainsOK, [Next]_vars, ~isTorn, ~isTorn'
  PROVE  ChainsOK'
  <1> USE DEF TypeOK
  <1>0. platform' = platform
    BY PlatformStays
  <1>1. ASSUME UNCHANGED <<crash, pc, previous, current, isInstalled, setup>> PROVE ChainsOK'
    BY <1>0, <1>1, ChainsSame DEF HasCrashed
  <1>2. ASSUME NEW t \in Tasks, CallMoves(t) PROVE ChainsOK'
    <2>1. \A u \in Tasks : HasCrashed(u)' <=> HasCrashed(u)
      BY <1>2, OthersHold DEF CallMoves
    <2> QED BY <1>0, <1>2, <2>1, ChainsSame DEF CallMoves, SameBut, handlerVars
  <1>3. ASSUME NEW t \in Tasks, HandleFirstCrash(t) PROVE ChainsOK'
    <2>1. \A u \in Tasks : HasCrashed(u)' <=> HasCrashed(u)
      <3>1. HasCrashed(t) /\ \E step : Moves(t, "crash", step)
        BY <1>3, AtIs, Moved DEF HandleFirstCrash, HasCrashed
      <3> QED BY <3>1, OthersHold
    <2>2. UNCHANGED <<crash, previous, current, isInstalled, setup>>
      BY <1>3 DEF HandleFirstCrash, UnchangedInCrash
    <2> QED BY <1>0, <2>1, <2>2, ChainsSame
  <1>4. ASSUME NEW t \in Tasks, HandleCrashInLoggers(t) PROVE ChainsOK'
    <2>1. \A u \in Tasks : HasCrashed(u)' <=> HasCrashed(u)
      <3>1. HasCrashed(t) /\ \E step : Go(t, "crash", step)
        BY <1>4, InLoggersAt DEF HasCrashed, HandleCrashInLoggers, LockListOfLoggers, Visit, Await, LockOutput, WriteCrash, Steps
      <3> QED BY <3>1, Moved, OthersHold
    <2>2. UNCHANGED <<previous, current, isInstalled, setup>>
      BY <1>4 DEF HandleCrashInLoggers, UnchangedInVisit, handlerVars
    <2> QED BY <1>0, <1>4, <2>1, <2>2, VisitKeepsCalled, ChainsSame
  <1>5. UNCHANGED vars \/ (\E t \in Tasks : Timeout(t)) => UNCHANGED <<crash, pc, previous, current, isInstalled, setup>>
    BY DEF vars, Timeout, handlerVars, crashVars
  <1>6. ASSUME NEW t \in Tasks, PassOn(t) PROVE ChainsOK'
    <2>1. ended = NoOne
      BY <1>6 DEF PassOn, At
    <2> QED BY <1>6, <2>1, ChainsPassOn
  <1> QED BY <1>1, <1>2, <1>3, <1>4, <1>5, <1>6, CallsMove, ChainsSetup, ChainsCrash, TasksAre DEF Next, Handle

\* A handler is in hand as the step that took it left it: only a setup changes
\* what it replaced, and a crash that comes leads to that one at most
LEMMA HandStep ==
  ASSUME TypeOK, HandOK, ~isTorn => ChainsOK, [Next]_vars
  PROVE  HandOK'
  <1> USE DEF TypeOK, HandlersOK
  <1>0. /\ setup \in SetupRecord /\ setup.held \in Handlers /\ setup.source \in Sources \cup {"none"} /\ setup.left \in Seq(Sources)
        /\ "none" \notin Sources /\ platform' = platform /\ (isTorn => isTorn')
    BY PlatformStays, TornStays DEF SetupRecord, Sources
  <1>1. CASE UNCHANGED <<previous, current, isInstalled, setup, isTorn>>
    BY <1>0, <1>1 DEF HandOK, IsSwapped
  <1>2. CASE setup'.source = "none" \/ setup'.op # "Uninstall"
    BY <1>2 DEF HandOK
  <1>3. CASE BeginSetup \/ EndSetup
    <2>1. \A op, left : [NoSetup EXCEPT !.op = op, !.left = left].source = "none" /\ NoSetup.source = "none"
      BY DEF NoSetup
    <2>2. CASE BeginSetup
      <3>1. \E op : setup' = [NoSetup EXCEPT !.op = op, !.left = AllSources]
        BY <2>2 DEF BeginSetup
      <3> QED BY <1>2, <2>1, <3>1
    <2>3. CASE EndSetup
      BY <1>2, <2>1, <2>3 DEF EndSetup
    <2> QED BY <1>3, <2>2, <2>3
  <1>4. CASE Install
    <2>1. setup'.op = "Install"
      <3>1. setup.op = "Install"
        BY <1>4 DEF Install, BetweenSources, InSetup
      <3> QED BY <1>0, <1>4, <3>1 DEF Install, Skipping, Holding, SetupRecord
    <2> QED BY <1>2, <2>1
  <1>5. CASE StoreReplaced \/ PutBack
    <2>1. setup'.source = "none"
      BY <1>0, <1>5 DEF StoreReplaced, PutBack, SetupRecord
    <2> QED BY <1>2, <2>1
  <1>6. CASE Uninstall
    <2>1. setup.op = "Uninstall" /\ setup.source = "none" /\ setup.left # <<>> /\ UNCHANGED <<previous, isInstalled, isTorn>>
      BY <1>6 DEF Uninstall, BetweenSources, InSetup
    <2>2. PICK s \in Sources : s = Head(setup.left)
      BY <1>0, <2>1
    <2>3. CASE Skipping
      <3>1. setup'.source = "none"
        BY <1>0, <2>1, <2>3 DEF Skipping, SetupRecord
      <3> QED BY <1>2, <3>1
    <2>4. ASSUME ~isTorn PROVE previous[s] \in [Handlers -> Handlers] /\ (current[s] = "ours" => previous[s]["after"] # "ours")
      <3>1. ~IsHeld("Install", s) /\ ~IsHeld("Uninstall", s)
        BY <1>0, <2>1 DEF IsHeld
      <3>2. LinksOK(previous[s], current[s], HasOurs(s), HaveReplaced)
        BY <2>4, <3>1 DEF ChainsOK, Links, LinksOf, FirstOf
      <3> QED BY <3>2 DEF LinksOK
    <2>5. CASE isInstalled[s] /\ IsSwapped(s) /\ Holding(s, current[s]) /\ current' = [current EXCEPT ![s] = previous[s]["ours"]]
      <3>1. setup'.source = s /\ setup'.held = current[s]
        BY <1>0, <2>5 DEF Holding, SetupRecord
      <3>2. IsSwapped(s)'
        BY <1>0, <2>5 DEF IsSwapped
      <3> QED BY <2>1, <2>4, <2>5, <3>1, <3>2 DEF HandOK
    <2>6. CASE IsCurrent(s) /\ Holding(s, "ours") /\ UNCHANGED current
      <3>1. setup'.source = s /\ setup'.held = "ours"
        BY <1>0, <2>6 DEF Holding, SetupRecord
      <3> QED BY <2>1, <2>4, <2>6, <3>1 DEF HandOK, IsCurrent
    <2> QED BY <1>6, <2>2, <2>3, <2>5, <2>6 DEF Uninstall
  <1>7. CASE Replace
    <2>1. UNCHANGED <<isInstalled, setup>> /\ (setup.op = "Uninstall" /\ setup.source # "none" => isTorn')
      BY <1>7 DEF Replace, InHand, InSetup
    <2> QED BY <1>0, <2>1 DEF HandOK, IsSwapped
  <1>8. ASSUME NEW t \in Tasks, InCrash(t) PROVE HandOK'
    <2>1. UNCHANGED <<previous, isInstalled, setup>>
      BY <1>8 DEF InCrash, HandleCrash, Crash, PassOn, UnchangedInCrash
    <2>2. \A s \in Sources : \/ current'[s] \in {current[s], previous[s]["ours"]}
                           \/ IsSwapped(s)
      <3>1. ASSUME NEW r, Raised(r) PROVE \A s \in Sources : current'[s] = current[s] \/ IsSwapped(s)
        BY <3>1 DEF Raised, IsSwapped
      <3>2. CASE HandleCrash(t) \/ \E s \in Sources : Crash(t, s)
        BY <3>1, <3>2 DEF HandleCrash, Crash
      <3>3. CASE PassOn(t)
        BY <3>1, <3>3 DEF PassOn, AfterHandleCrash, OnTerminate, OnUnhandledException, OnAbortSignal, OnFatalSignal,
                          OtherHandler, DefaultHandler
      <3> QED BY <1>8, <3>2, <3>3 DEF InCrash
    <2> QED BY <1>0, <2>1, <2>2 DEF HandOK, IsSwapped
  <1> QED BY <1>1, <1>3, <1>4, <1>5, <1>6, <1>7, <1>8, NextIs DEF Setup

\* The crash of the thread that ended the process has gone down to the system's
\* own handler
EndsInDefault == ended # NoOne => Handler(ended) = "default"

LEMMA EndsInDefaultStep ==
  ASSUME TypeOK, EndsInDefault, [Next]_vars
  PROVE  EndsInDefault'
  <1>1. CASE UNCHANGED vars
    BY <1>1 DEF vars, crashVars, EndsInDefault, Handler
  <1>2. CASE Next
    <2>1. ASSUME NEW t \in Tasks, PassOn(t), ended' = t, UNCHANGED <<pc, crash>>, ended = NoOne PROVE EndsInDefault'
      <3>1. t # NoOne
        BY TasksAre
      <3>2. Handler(t) = "default"
        BY <2>1, <3>1, PassOnIs DEF TypeOK, CallHandler
      <3> QED BY <2>1, <3>2 DEF EndsInDefault, Handler
    <2>2. CASE ended' = NoOne
      BY <2>2 DEF EndsInDefault
    <2> QED BY <1>2, <2>1, <2>2, EndsBy
  <1> QED BY <1>1, <1>2

\* The inductive invariant of the handlers
HandlersInv == CrashInv /\ HandOK /\ (~isTorn => ChainsOK) /\ EndsInDefault

LEMMA InitHandlers == Init => HandlersInv
  <1> SUFFICES ASSUME Init PROVE HandlersInv
    OBVIOUS
  <1>1. \A t \in Tasks : ~HasCrashed(t)
    BY DEF Init, HasCrashed
  <1>2. HaveReplaced = FALSE
    BY DEF Init, HaveReplaced, IsReplaced, Sources, Handlers
  <1>0. setup.source = "none" /\ "none" \notin Sources
    BY DEF Init, NoSetup, Sources
  <1>3. ASSUME NEW s \in Sources PROVE Links(s) /\ Whole(s)
    <2>1. PICK p, c, i : p = LinksOf(s) /\ c = FirstOf(s) /\ i = HasOurs(s)
      OBVIOUS
    <2>3. p = previous[s] /\ c = current[s] /\ i = isInstalled[s]
      <3>1. ~IsHeld("Install", s) /\ ~IsHeld("Uninstall", s)
        BY <1>0 DEF IsHeld
      <3>2. isInstalled[s] \in BOOLEAN
        BY InitTypes DEF TypeOK, HandlersOK
      <3> QED BY <2>1, <3>1, <3>2 DEF LinksOf, FirstOf, HasOurs
    <2>2. p = [h \in Handlers |-> IF h = "ours" /\ i THEN "before" ELSE "default"] /\ c = IF i THEN "ours" ELSE "before"
      BY <2>3 DEF Init
    <2> QED BY <1>2, <2>1, <2>2, <2>3, InitTypes DEF TypeOK, HandlersOK, Links, Whole, LinksOK, WholeOK, Handlers
  <1>4. "terminate" \in Sources
    BY DEF Sources
  <1>5. ChainsOK
    BY <1>1, <1>3, <1>4 DEF ChainsOK, OnlyCrash
  <1>6. EndsInDefault
    BY DEF Init, EndsInDefault
  <1>7. HandOK
    BY <1>0 DEF HandOK
  <1> QED BY <1>5, <1>6, <1>7, InitCrash DEF HandlersInv

LEMMA HandlersInvStep == HandlersInv /\ [Next]_vars => HandlersInv'
  <1> SUFFICES ASSUME HandlersInv, [Next]_vars PROVE HandlersInv'
    OBVIOUS
  <1>1. TypeOK
    BY DEF HandlersInv, CrashInv, ControlInv
  <1>2. CrashInv' /\ EndsInDefault'
    BY <1>1, CrashInvStep, EndsInDefaultStep DEF HandlersInv
  <1>3. HandOK'
    BY <1>1, HandStep DEF HandlersInv
  <1>4. ~isTorn' => ChainsOK'
    BY <1>1, ChainsStep, TornStays DEF HandlersInv
  <1> QED BY <1>2, <1>3, <1>4 DEF HandlersInv

(***************************************************************************)
(* Whatever order the crash handlers are installed, uninstalled and        *)
(* replaced in, and at whichever step of that a thread crashes, the crash  *)
(* of one thread reaches each handler of the program once for each source  *)
(* before it ends the process, unless a handler was looked up or replaced  *)
(* while the setup had it in hand.                                         *)
(***************************************************************************)
THEOREM HandlersGetEachCrash == Spec => []HandlersGetTheCrash
  <1>1. ASSUME HandlersInv PROVE HandlersGetTheCrash
    <2> SUFFICES ASSUME ~isTorn, ended # NoOne, \A t \in Tasks : HasCrashed(t) => t = ended
                 PROVE  /\ IsInjective(crash[ended].called)
                        /\ \A i \in DOMAIN crash[ended].called : \A h \in crash[ended].inPlace :
                              <<crash[ended].called[i][1], h>> \in ToSet(crash[ended].called)
      BY DEF HandlersGetTheCrash, EachHandlerIsCalled, IsInjective
    <2>1. ended \in Tasks /\ OnlyCrash(ended) /\ Handler(ended) = "default"
      BY <1>1 DEF HandlersInv, CrashInv, EndedOK, EndsInDefault, OnlyCrash
    <2>2. GetsCrash(ended)
      BY <1>1, <2>1 DEF HandlersInv, ChainsOK
    <2>3. PICK s \in Sources : s = crash[ended].source
      BY <1>1, <2>1, SourceIs DEF HandlersInv, CrashInv, ControlInv, TypeOK
    <2>4. Leads(ended, s) /\ InPlaceOK(HaveReplaced, crash[ended].inPlace) /\ Links(s)
      BY <1>1, <2>2, <2>3 DEF GetsCrash, HandlersInv, ChainsOK, Sources
    <2>5. crash[ended].inPlace \subseteq Done(ended, s)
      <3>1. After(LinksOf(s), "default") = {"default"}
        BY <2>4 DEF Links, LinksOK, After
      <3> QED BY <2>1, <2>4, <3>1 DEF Leads, LeadsOn, InPlaceOK
    <2>6. ASSUME NEW i \in DOMAIN crash[ended].called, NEW h \in crash[ended].inPlace
          PROVE  <<crash[ended].called[i][1], h>> \in ToSet(crash[ended].called)
      <3>1. CASE crash[ended].called[i][1] = s
        BY <2>5, <3>1 DEF Done
      <3>2. CASE crash[ended].called[i][1] = "terminate" /\ s = "abort"
        <4>1. crash[ended].called \in Seq(Sources \X Handlers)
          BY <1>1, <2>1 DEF HandlersInv, CrashInv, ControlInv, TypeOK, CrashOK, CrashRecord
        <4>2. crash[ended].called[i] = <<"terminate", crash[ended].called[i][2]>> /\ crash[ended].called[i][2] \in Handlers
          BY <3>2, <4>1
        <4>3. crash[ended].called[i][2] \in Done(ended, "terminate")
          BY <4>2 DEF Done, ToSet
        <4>4. crash[ended].inPlace \subseteq Done(ended, "terminate")
          BY <2>2, <2>3, <3>2, <4>3 DEF GetsCrash
        <4> QED BY <3>2, <4>4 DEF Done
      <3> QED BY <2>2, <2>3, <3>1, <3>2 DEF GetsCrash, Sources
    <2>7. IsInjective(crash[ended].called)
      BY <2>2 DEF GetsCrash
    <2> QED BY <2>6, <2>7
  <1> QED BY <1>1, InitHandlers, HandlersInvStep, PTL DEF Spec
=============================================================================
