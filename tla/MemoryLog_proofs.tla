-------------------------- MODULE MemoryLog_proofs --------------------------
(***************************************************************************)
(* Theorems of MemoryLog, for any limits, lines and viewers.               *)
(***************************************************************************)
EXTENDS MemoryLog, SequenceTheorems, WellFoundedInduction, TLAPS

(***************************************************************************)
(* The lines kept are always the newest ones written: their numbers are    *)
(* consecutive and end with the last.  With it, and the count each viewer  *)
(* has of its lines, every poll keeps the promise.                         *)
(***************************************************************************)
KeptLine == [id : Nat, size : Int]

LinesInv ==
    /\ m_Lines \in Seq(KeptLine)
    /\ m_NextSequence \in Nat \ {0} /\ Len(m_Lines) < m_NextSequence
    /\ \A i \in 1..Len(m_Lines) : m_Lines[i].id = OldestKept + i - 1

ViewersInv ==
    /\ seen \in [Viewers -> Seq(KeptLine)]
    /\ next \in [Viewers -> Nat \ {0}] /\ missed \in [Viewers -> Nat]
    /\ polls \in [Viewers -> Nat]
    /\ \A v \in Viewers : next[v] <= m_NextSequence

IInv == LinesInv /\ ViewersInv /\ ViewerCountsEach

\* The first k of some lines, and the rest
LEMMA PartsOf ==
    ASSUME NEW lines \in Seq(KeptLine), NEW k \in 0..Len(lines)
    PROVE  /\ SubSeq(lines, 1, k) \in Seq(KeptLine) /\ Len(SubSeq(lines, 1, k)) = k
           /\ \A i \in 1..k : SubSeq(lines, 1, k)[i] = lines[i]
           /\ SubSeq(lines, k + 1, Len(lines)) \in Seq(KeptLine)
           /\ Len(SubSeq(lines, k + 1, Len(lines))) = Len(lines) - k
           /\ \A i \in 1..(Len(lines) - k) : SubSeq(lines, k + 1, Len(lines))[i] = lines[k + i]
  <1>1. Len(lines) \in Nat /\ k \in Nat /\ k <= Len(lines)
    OBVIOUS
  <1>2. /\ SubSeq(lines, 1, k) \in Seq(KeptLine) /\ Len(SubSeq(lines, 1, k)) = k
        /\ \A i \in 1..k : SubSeq(lines, 1, k)[i] = lines[i]
    BY <1>1
  <1>3. /\ SubSeq(lines, k + 1, Len(lines)) \in Seq(KeptLine)
        /\ Len(SubSeq(lines, k + 1, Len(lines))) = Len(lines) - k
        /\ \A i \in 1..(Len(lines) - k) : SubSeq(lines, k + 1, Len(lines))[i] = lines[k + i]
    BY <1>1
  <1>4. QED
    BY <1>2, <1>3

LEMMA DropKeepsNewest ==
    ASSUME NEW lines \in Seq(KeptLine), NEW bytes, NEW limits,
           DropOldestLines(lines, bytes, limits)
    PROVE  /\ m_Lines' \in Seq(KeptLine)
           /\ Len(m_Lines') \in 0..Len(lines)
           /\ \A i \in 1..Len(m_Lines') : m_Lines'[i] = lines[Len(lines) - Len(m_Lines') + i]
  <1>1. PICK k \in 0..Len(lines) : m_Lines' = SubSeq(lines, k + 1, Len(lines))
    BY DEF DropOldestLines
  <1>2. Len(lines) \in Nat
    OBVIOUS
  <1>3. /\ m_Lines' \in Seq(KeptLine)
        /\ Len(m_Lines') = Len(lines) - k
        /\ \A i \in 1..(Len(lines) - k) : m_Lines'[i] = lines[k + i]
    BY <1>1, <1>2
  <1>4. QED
    BY <1>2, <1>3

LEMMA WriteKeeps ==
    ASSUME IInv, SizesAssumption, LimitsAssumption, m_Limits \in Limits, NEW size \in Sizes, WriteLine(size)
    PROVE  LinesInv'
  <1>1. m_Limits.MaxBytes \in Nat /\ size \in Nat
    BY SizesAssumption, LimitsAssumption DEF MemoryConfig
  <1> DEFINE sizes == IF m_Limits.MaxBytes > 0 THEN CutToFit(size, m_Limits.MaxBytes) ELSE {size}
  <1>2. PICK kept \in sizes :
          DropOldestLines(Append(m_Lines, [id |-> m_NextSequence, size |-> kept]),
                          m_ByteCount + BytesOfText(kept), m_Limits)
    BY DEF WriteLine
  <1>3. kept \in Int
    BY <1>1, SizesAssumption DEF CutToFit
  <1> DEFINE lines == Append(m_Lines, [id |-> m_NextSequence, size |-> kept])
  <1>4. /\ m_Lines \in Seq(KeptLine) /\ m_NextSequence \in Nat \ {0}
        /\ Len(m_Lines) < m_NextSequence
        /\ \A i \in 1..Len(m_Lines) : m_Lines[i].id = m_NextSequence - Len(m_Lines) + i - 1
    BY DEF IInv, LinesInv, OldestKept
  <1>5. /\ lines \in Seq(KeptLine) /\ Len(lines) = Len(m_Lines) + 1
        /\ \A i \in 1..Len(m_Lines) : lines[i] = m_Lines[i]
        /\ lines[Len(m_Lines) + 1] = [id |-> m_NextSequence, size |-> kept]
    <2>1. [id |-> m_NextSequence, size |-> kept] \in KeptLine
      BY <1>3, <1>4 DEF KeptLine
    <2>2. QED
      BY <2>1, <1>4
  <1>6. \A i \in 1..Len(lines) : lines[i].id = m_NextSequence - Len(m_Lines) + i - 1
    <2> SUFFICES ASSUME NEW i \in 1..Len(lines)
                 PROVE  lines[i].id = m_NextSequence - Len(m_Lines) + i - 1
      OBVIOUS
    <2>1. CASE i \in 1..Len(m_Lines)
      BY <2>1, <1>4, <1>5
    <2>2. CASE i = Len(m_Lines) + 1
      <3>1. lines[i].id = m_NextSequence
        BY <2>2, <1>5
      <3>2. QED
        BY <2>2, <3>1, <1>4
    <2>3. Len(m_Lines) \in Nat /\ Len(lines) = Len(m_Lines) + 1
      BY <1>4, <1>5
    <2>4. i \in 1..Len(m_Lines) \/ i = Len(m_Lines) + 1
      BY <2>3
    <2>5. QED
      BY <2>1, <2>2, <2>4, Zenon
  <1>7. m_NextSequence' = m_NextSequence + 1
    BY DEF WriteLine
  <1> HIDE DEF lines
  <1>8. /\ m_Lines' \in Seq(KeptLine)
        /\ Len(m_Lines') \in 0..Len(lines)
        /\ \A i \in 1..Len(m_Lines') : m_Lines'[i] = lines[Len(lines) - Len(m_Lines') + i]
    BY <1>2, <1>5, DropKeepsNewest DEF lines
  <1>9. ASSUME NEW i \in 1..Len(m_Lines')
        PROVE  m_Lines'[i].id = m_NextSequence' - Len(m_Lines') + i - 1
    <2>1. Len(lines) - Len(m_Lines') + i \in 1..Len(lines) /\ Len(lines) \in Nat
      BY <1>5, <1>8
    <2>2. m_Lines'[i].id = m_NextSequence - Len(m_Lines) + (Len(lines) - Len(m_Lines') + i) - 1
      BY <2>1, <1>6, <1>8
    <2>3. /\ Len(m_Lines) \in Nat /\ Len(lines) = Len(m_Lines) + 1
          /\ m_NextSequence \in Nat /\ Len(m_Lines') \in Nat
      BY <1>4, <1>5, <1>8
    <2>4. QED
      BY <2>2, <2>3, <1>7
  <1>10. QED
    BY <1>4, <1>5, <1>7, <1>8, <1>9 DEF LinesInv, OldestKept

LEMMA ApplyKeeps ==
    ASSUME IInv, NEW limits \in Limits, ApplyLimits(limits)
    PROVE  LinesInv'
  <1>1. /\ m_Lines \in Seq(KeptLine) /\ m_NextSequence \in Nat \ {0}
        /\ Len(m_Lines) < m_NextSequence
        /\ \A i \in 1..Len(m_Lines) : m_Lines[i].id = m_NextSequence - Len(m_Lines) + i - 1
    BY DEF IInv, LinesInv, OldestKept
  <1>2. /\ m_Lines' \in Seq(KeptLine)
        /\ Len(m_Lines') \in 0..Len(m_Lines)
        /\ \A i \in 1..Len(m_Lines') : m_Lines'[i] = m_Lines[Len(m_Lines) - Len(m_Lines') + i]
        /\ m_NextSequence' = m_NextSequence
    BY <1>1, DropKeepsNewest DEF ApplyLimits, FitLines
  <1>3. ASSUME NEW i \in 1..Len(m_Lines')
        PROVE  m_Lines'[i].id = m_NextSequence' - Len(m_Lines') + i - 1
    <2>1. Len(m_Lines) - Len(m_Lines') + i \in 1..Len(m_Lines) /\ Len(m_Lines) \in Nat
      BY <1>1, <1>2
    <2>2. m_Lines'[i] = m_Lines[Len(m_Lines) - Len(m_Lines') + i]
      BY <1>2
    <2>3. m_Lines'[i].id = m_NextSequence - Len(m_Lines) + (Len(m_Lines) - Len(m_Lines') + i) - 1
      BY <2>1, <2>2, <1>1
    <2>4. m_NextSequence \in Nat /\ Len(m_Lines') \in Nat /\ m_NextSequence' = m_NextSequence
      BY <2>1, <1>1, <1>2
    <2>5. QED
      BY <2>1, <2>3, <2>4
  <1>4. QED
    BY <1>1, <1>2, <1>3 DEF LinesInv, OldestKept

(***************************************************************************)
(* What a poll adds to a viewer's lines, and to the count of those it      *)
(* missed.                                                                 *)
(***************************************************************************)
LEMMA PollKeeps ==
    ASSUME IInv, NEW v \in Viewers, GetLinesSince(v)
    PROVE  ViewersInv' /\ ViewerCountsEach'
  <1> DEFINE n == m_NextSequence
             first == next[v]
             new == SubSeq(m_Lines, Skipped(first) + 1, Len(m_Lines))
  <1>1. /\ m_Lines \in Seq(KeptLine) /\ n \in Nat \ {0} /\ Len(m_Lines) < n /\ Len(m_Lines) \in Nat
        /\ \A i \in 1..Len(m_Lines) : m_Lines[i].id = n - Len(m_Lines) + i - 1
    BY DEF IInv, LinesInv, OldestKept
  <1>2. /\ seen \in [Viewers -> Seq(KeptLine)] /\ next \in [Viewers -> Nat \ {0}]
        /\ missed \in [Viewers -> Nat] /\ \A u \in Viewers : next[u] <= n
        /\ polls \in [Viewers -> Nat] /\ polls' = [polls EXCEPT ![v] = polls[v] + 1]
        /\ polls' \in [Viewers -> Nat]
    BY DEF IInv, ViewersInv, GetLinesSince
  <1>3. /\ Len(seen[v]) + missed[v] = first - 1
        /\ \A i, j \in 1..Len(seen[v]) : i < j => seen[v][i].id < seen[v][j].id
        /\ \A i \in 1..Len(seen[v]) : seen[v][i].id < first
    BY DEF IInv, ViewerCountsEach
  <1>4. first \in Nat \ {0} /\ first <= n /\ seen[v] \in Seq(KeptLine) /\ missed[v] \in Nat
        /\ Len(seen[v]) \in Nat /\ \A i \in 1..Len(seen[v]) : seen[v][i].id \in Nat
    <2>1. first \in Nat \ {0} /\ first <= n /\ seen[v] \in Seq(KeptLine) /\ missed[v] \in Nat
          /\ Len(seen[v]) \in Nat
      BY <1>2
    <2>2. \A i \in 1..Len(seen[v]) : seen[v][i] \in KeptLine
      BY <2>1
    <2>3. \A line \in KeptLine : line.id \in Nat
      BY DEF KeptLine
    <2>4. QED
      BY <2>1, <2>2, <2>3
  <1>5. /\ next' = [next EXCEPT ![v] = n] /\ n' = n
        /\ missed' = [missed EXCEPT ![v] =
              IF first < OldestKept THEN missed[v] + (OldestKept - first) ELSE missed[v]]
        /\ seen' = [seen EXCEPT ![v] = IF first < n THEN seen[v] \o new ELSE seen[v]]
    BY DEF GetLinesSince, lineVars
  <1>6. OldestKept \in Nat \ {0} /\ OldestKept = n - Len(m_Lines)
    BY <1>1 DEF OldestKept
  <1>7. CASE first >= n
    <2>1. first = n /\ ~(first < n) /\ ~(first < OldestKept)
      BY <1>1, <1>4, <1>6, <1>7
    <2>2. seen' = seen /\ missed' = missed /\ next' = next
      BY <2>1, <1>2, <1>4, <1>5
    <2>3. QED
      BY <2>2, <1>2, <1>5 DEF IInv, ViewersInv, ViewerCountsEach
  <1>8. CASE first < n
    <2> DEFINE skipped == Skipped(first)
    <2>1. skipped \in Nat /\ skipped <= Len(m_Lines)
          /\ skipped = IF first < OldestKept THEN 0 ELSE first - OldestKept
      BY <1>1, <1>4, <1>6, <1>8 DEF Skipped
    <2>2. /\ new \in Seq(KeptLine) /\ Len(new) = Len(m_Lines) - skipped
          /\ \A i \in 1..(Len(m_Lines) - skipped) : new[i] = m_Lines[skipped + i]
      <3>1. skipped \in 0..Len(m_Lines)
        BY <2>1, <1>1
      <3> HIDE DEF skipped
      <3>2. new = SubSeq(m_Lines, skipped + 1, Len(m_Lines))
        BY DEF skipped
      <3> HIDE DEF new
      <3>3. m_Lines \in Seq(KeptLine)
        BY <1>1
      <3>4. /\ SubSeq(m_Lines, skipped + 1, Len(m_Lines)) \in Seq(KeptLine)
            /\ Len(SubSeq(m_Lines, skipped + 1, Len(m_Lines))) = Len(m_Lines) - skipped
            /\ \A i \in 1..(Len(m_Lines) - skipped) :
                  SubSeq(m_Lines, skipped + 1, Len(m_Lines))[i] = m_Lines[skipped + i]
        BY <3>1, <3>3, PartsOf
      <3>5. QED
        BY <3>2, <3>4, Zenon
    <2> HIDE DEF skipped, new
    <2>3. ASSUME NEW i \in 1..Len(new)
          PROVE  new[i].id = OldestKept + skipped + i - 1
      <3>1. skipped + i \in 1..Len(m_Lines)
        <4>1. skipped \in Nat /\ Len(m_Lines) \in Nat /\ i \in 1..(Len(m_Lines) - skipped)
          BY <2>1, <2>2, <1>1, Zenon
        <4>2. QED
          BY <4>1
      <3>2. new[i] = m_Lines[skipped + i]
        BY <2>2
      <3>3. new[i].id = n - Len(m_Lines) + (skipped + i) - 1
        BY <3>1, <3>2, <1>1
      <3>4. Len(m_Lines) \in Nat /\ n \in Nat
        BY <1>1
      <3>5. QED
        BY <3>3, <3>4, <2>1, <1>6
    <2>3a. Len(m_Lines) \in Nat /\ n \in Nat /\ Len(new) = Len(m_Lines) - skipped
      BY <1>1, <2>2
    <2>4. ASSUME NEW i \in 1..Len(new)
          PROVE  first <= new[i].id /\ new[i].id < n /\ new[i].id \in Int
      <3>1. new[i].id = OldestKept + skipped + i - 1
        BY <2>3
      <3>2. first \in Nat
        BY <1>4
      <3>3. QED
        BY <3>1, <3>2, <2>1, <2>3a, <1>6
    <2> DEFINE all == seen[v] \o new
    <2>5. /\ all \in Seq(KeptLine)
          /\ Len(all) = Len(seen[v]) + Len(new)
          /\ \A i \in 1..(Len(seen[v]) + Len(new)) :
                all[i] = IF i <= Len(seen[v]) THEN seen[v][i] ELSE new[i - Len(seen[v])]
      <3>1. seen[v] \in Seq(KeptLine) /\ new \in Seq(KeptLine)
        BY <2>2, <1>4
      <3>2. QED
        BY <3>1, ConcatProperties, Zenon
    <2>6. all \in Seq(KeptLine) /\ seen'[v] = all /\ next'[v] = n
          /\ missed'[v] = IF first < OldestKept THEN missed[v] + (OldestKept - first) ELSE missed[v]
      BY <2>5, <1>2, <1>5, <1>8
    <2> HIDE DEF all
    <2>7. Len(seen'[v]) + missed'[v] = next'[v] - 1
      <3>1. Len(seen'[v]) = Len(seen[v]) + Len(new)
        BY <2>5, <2>6
      <3>2. Len(seen[v]) + missed[v] = first - 1 /\ Len(seen[v]) \in Nat /\ missed[v] \in Nat
            /\ first \in Nat
        BY <1>3, <1>4
      <3>3. /\ Len(m_Lines) \in Nat /\ n \in Nat /\ OldestKept \in Nat
            /\ OldestKept = n - Len(m_Lines) /\ Len(new) = Len(m_Lines) - skipped
        BY <2>3a, <1>6
      <3>4. ASSUME NEW got, NEW told, NEW from, NEW kept, NEW oldest, NEW more, NEW toldNow,
                   got = Len(seen[v]), told = missed[v], from = first, kept = Len(m_Lines),
                   oldest = OldestKept, more = Len(new), toldNow = missed'[v]
            PROVE  got + more + toldNow = n - 1
        <4>1. /\ got \in Nat /\ told \in Nat /\ from \in Nat /\ kept \in Nat
              /\ oldest \in Nat /\ n \in Nat /\ oldest = n - kept /\ got + told = from - 1
          BY <3>4, <3>2, <3>3
        <4>2. CASE from < oldest
          <5>1. more = kept
            BY <3>4, <4>1, <4>2, <3>3, <2>1
          <5>2. toldNow = told + (oldest - from)
            BY <3>4, <4>2, <2>6
          <5>3. QED
            BY <4>1, <5>1, <5>2
        <4>3. CASE ~(from < oldest)
          <5>1. more = kept - (from - oldest)
            BY <3>4, <4>1, <4>3, <3>3, <2>1
          <5>2. toldNow = told
            BY <3>4, <4>3, <2>6
          <5>3. QED
            BY <4>1, <5>1, <5>2
        <4>4. QED
          BY <4>2, <4>3
      <3>5. Len(seen[v]) + Len(new) + missed'[v] = n - 1
        BY <3>4, Zenon
      <3>6. QED
        BY <3>1, <3>5, <2>6, Zenon
    <2>8. ASSUME NEW i \in 1..Len(all)
          PROVE  \/ i \in 1..Len(seen[v]) /\ all[i] = seen[v][i]
                 \/ i > Len(seen[v]) /\ i - Len(seen[v]) \in 1..Len(new) /\ all[i] = new[i - Len(seen[v])]
      <3>1. Len(new) \in Nat
        BY <2>2
      <3>2. CASE i <= Len(seen[v])
        BY <3>1, <3>2, <2>5, <1>4
      <3>3. CASE i > Len(seen[v])
        BY <3>1, <3>3, <2>5, <1>4
      <3>4. QED
        BY <3>1, <3>2, <3>3, <1>4
    <2>9. ASSUME NEW i \in 1..Len(all) PROVE all[i].id < n
      <3>1. CASE i \in 1..Len(seen[v]) /\ all[i] = seen[v][i]
        <4>1. seen[v][i].id \in Nat /\ seen[v][i].id < first
          BY <3>1, <1>3, <1>4
        <4>2. QED
          BY <3>1, <4>1, <1>1, <1>4, <1>8
      <3>2. CASE i - Len(seen[v]) \in 1..Len(new) /\ all[i] = new[i - Len(seen[v])]
        BY <3>2, <2>4
      <3>3. QED
        BY <2>8, <3>1, <3>2
    <2>10. ASSUME NEW i \in 1..Len(all), NEW j \in 1..Len(all), i < j PROVE all[i].id < all[j].id
      <3>1. CASE j \in 1..Len(seen[v]) /\ all[j] = seen[v][j]
        <4>1. i \in 1..Len(seen[v]) /\ all[i] = seen[v][i]
          BY <2>8, <2>10, <3>1, <1>4
        <4>2. QED
          BY <2>10, <3>1, <4>1, <1>3
      <3>2. CASE /\ j > Len(seen[v]) /\ j - Len(seen[v]) \in 1..Len(new)
                 /\ all[j] = new[j - Len(seen[v])]
        <4>1. CASE i \in 1..Len(seen[v]) /\ all[i] = seen[v][i]
          <5>1. seen[v][i].id \in Nat /\ seen[v][i].id < first
            BY <4>1, <1>3, <1>4
          <5>2. all[j].id \in Int /\ first <= all[j].id
            BY <3>2, <2>4
          <5>3. QED
            BY <4>1, <5>1, <5>2, <1>4
        <4>2. CASE /\ i > Len(seen[v]) /\ i - Len(seen[v]) \in 1..Len(new)
                   /\ all[i] = new[i - Len(seen[v])]
          <5>1. /\ all[i].id = OldestKept + skipped + (i - Len(seen[v])) - 1
                /\ all[j].id = OldestKept + skipped + (j - Len(seen[v])) - 1
            BY <3>2, <4>2, <2>3
          <5>2. QED
            BY <5>1, <2>1, <2>10, <1>4, <1>6
        <4>3. QED
          BY <2>8, <4>1, <4>2
      <3>3. QED
        BY <2>8, <3>1, <3>2
    <2>11. ViewersInv'
      <3>1. seen' \in [Viewers -> Seq(KeptLine)]
        BY <2>5, <1>2, <1>5, <1>8 DEF all
      <3>2. next' \in [Viewers -> Nat \ {0}] /\ \A u \in Viewers : next'[u] <= n'
        BY <2>3a, <1>2, <1>5, <1>1
      <3>3. missed' \in [Viewers -> Nat]
        <4>1. (IF first < OldestKept THEN missed[v] + (OldestKept - first) ELSE missed[v]) \in Nat
          <5>1. first \in Nat /\ missed[v] \in Nat
            BY <1>4
          <5>2. QED
            BY <5>1, <1>6
        <4>2. QED
          BY <4>1, <1>2, <1>5
      <3>4. QED
        BY <1>2, <3>1, <3>2, <3>3 DEF ViewersInv
    <2>12. \A u \in Viewers : u # v => seen'[u] = seen[u] /\ missed'[u] = missed[u] /\ next'[u] = next[u]
      BY <1>2, <1>5
    <2>13. QED
      BY <2>6, <2>7, <2>9, <2>10, <2>11, <2>12 DEF IInv, ViewerCountsEach
  <1>9. QED
    BY <1>1, <1>4, <1>7, <1>8

LEMMA IInvKept ==
    ASSUME IInv, m_Limits \in Limits, [Next]_vars
    PROVE  IInv' /\ m_Limits' \in Limits
  <1>1. ASSUME UNCHANGED viewerVars, m_NextSequence \in Nat, m_NextSequence' \in Nat,
               m_NextSequence' >= m_NextSequence
        PROVE  ViewersInv' /\ ViewerCountsEach'
    <2>1. next' = next /\ seen' = seen /\ missed' = missed /\ polls' = polls
      BY <1>1 DEF viewerVars
    <2>2. ViewersInv /\ ViewerCountsEach
      BY DEF IInv
    <2>3. ViewersInv'
      BY <2>1, <2>2, <1>1 DEF ViewersInv
    <2>4. ViewerCountsEach'
      BY <2>1, <2>2 DEF ViewerCountsEach
    <2>5. QED
      BY <2>3, <2>4
  <1>2. ASSUME NEW size \in Sizes, WriteLine(size) PROVE IInv' /\ m_Limits' \in Limits
    <2>1. LinesInv'
      BY <1>2, WriteKeeps, SizesAssumption, LimitsAssumption
    <2>2. UNCHANGED viewerVars /\ m_NextSequence' = m_NextSequence + 1 /\ m_Limits' = m_Limits
      BY <1>2 DEF WriteLine
    <2>3. QED
      BY <2>1, <2>2, <1>1 DEF IInv, LinesInv
  <1>3. ASSUME NEW limits \in Limits, ApplyLimits(limits) PROVE IInv' /\ m_Limits' \in Limits
    <2>1. LinesInv'
      BY <1>3, ApplyKeeps
    <2>2. UNCHANGED viewerVars /\ m_NextSequence' = m_NextSequence /\ m_Limits' = limits
      BY <1>3 DEF ApplyLimits
    <2>3. QED
      BY <2>1, <2>2, <1>1 DEF IInv, LinesInv
  <1>4. CASE Clear
    <2>1. m_Lines' = <<>> /\ UNCHANGED <<m_NextSequence, m_Limits, viewerVars>>
      BY <1>4 DEF Clear
    <2>2. LinesInv'
      BY <2>1 DEF IInv, LinesInv
    <2>3. QED
      BY <2>1, <2>2, <1>1 DEF IInv, LinesInv
  <1>5. ASSUME NEW v \in Viewers, GetLinesSince(v) PROVE IInv' /\ m_Limits' \in Limits
    <2>1. UNCHANGED <<m_Lines, m_NextSequence, m_Limits>>
      BY <1>5 DEF GetLinesSince, lineVars
    <2>2. LinesInv'
      BY <2>1 DEF IInv, LinesInv, OldestKept
    <2>3. QED
      BY <1>5, <2>1, <2>2, PollKeeps DEF IInv
  <1>6. CASE UNCHANGED vars
    BY <1>6 DEF vars, lineVars, viewerVars, IInv, LinesInv, ViewersInv, ViewerCountsEach, OldestKept
  <1>7. QED
    BY <1>2, <1>3, <1>4, <1>5, <1>6 DEF Next

LEMMA IInvAlways == Spec => [](IInv /\ m_Limits \in Limits)
  <1>1. Init => IInv /\ m_Limits \in Limits
    BY DEF Init, IInv, LinesInv, ViewersInv, ViewerCountsEach
  <1>2. IInv /\ m_Limits \in Limits /\ [Next]_vars => (IInv /\ m_Limits \in Limits)'
    BY IInvKept
  <1>3. QED
    BY <1>1, <1>2, PTL DEF Spec

(***************************************************************************)
(* A viewer gets each line at most once, in order, and is told how many it *)
(* missed, whatever is written, dropped, cleared and reconfigured between  *)
(* its polls (TASWMemoryLog::GetLinesSince()).                             *)
(***************************************************************************)
THEOREM ViewersGetEach == Spec => []ViewerCountsEach
  <1>1. IInv => ViewerCountsEach
    BY DEF IInv
  <1>2. QED
    BY <1>1, IInvAlways, PTL

(***************************************************************************)
(* The sum of the lines' bytes, by the least length for which it would     *)
(* not be what its recursion says.                                         *)
(***************************************************************************)
LEMMA LeastOf ==
  ASSUME NEW I \in SUBSET Nat, I # {}
  PROVE  \E k \in I : \A j \in I : k <= j
  <1>1. PICK less : /\ IsWellFoundedOn(less, Nat)
                    /\ less = {pair \in Nat \X Nat : pair[1] < pair[2]}
    BY NatLessThanWellFounded DEF OpToRel
  <1>2. PICK k \in I : \A j \in I : <<j, k>> \notin less
    BY <1>1, WFMin
  <1>3. \A a, b \in Nat : a < b => <<a, b>> \in less
    BY <1>1
  <1>4. ASSUME NEW j \in I PROVE k <= j
    <2>1. ~(j < k) /\ j \in Nat /\ k \in Nat
      BY <1>2, <1>3
    <2> QED BY <2>1
  <1>5. QED
    BY <1>4

\* The bytes of the first n lines
IsSum(f, lines, n) ==
    f \in [0..n -> Int] /\ f[0] = 0 /\ \A i \in 1..n : f[i] = f[i - 1] + lines[i].size

LEMMA SumExists ==
  ASSUME NEW lines \in Seq(KeptLine)
  PROVE  \A n \in 0..Len(lines) : \E f : IsSum(f, lines, n)
  <1> DEFINE without == {n \in 0..Len(lines) : ~\E f : IsSum(f, lines, n)}
  <1>1. SUFFICES ASSUME without # {} PROVE FALSE
    OBVIOUS
  <1>2. PICK k \in without : \A j \in without : k <= j
    <2>1. without \in SUBSET Nat
      OBVIOUS
    <2> HIDE DEF without
    <2>2. QED
      BY <1>1, <2>1, LeastOf
  <1>3. k # 0
    <2>1. IsSum([i \in 0..0 |-> 0], lines, 0)
      BY DEF IsSum
    <2>2. QED
      BY <1>2, <2>1
  <1>4. k - 1 \in 0..Len(lines) /\ k \in 1..Len(lines) /\ k - 1 \notin without
    BY <1>2, <1>3
  <1>5. PICK f : IsSum(f, lines, k - 1)
    BY <1>4
  <1>6. PICK size \in Int : size = lines[k].size
    <2>1. lines[k] \in KeptLine
      BY <1>4
    <2>2. lines[k].size \in Int
      BY <2>1 DEF KeptLine
    <2>3. QED
      BY <2>2
  <1>7. PICK g : g = [i \in 0..k |-> IF i = k THEN f[k - 1] + size ELSE f[i]]
    OBVIOUS
  <1>8. f \in [0..(k - 1) -> Int] /\ f[0] = 0 /\ \A i \in 1..(k - 1) : f[i] = f[i - 1] + lines[i].size
    BY <1>5 DEF IsSum
  <1>9. g \in [0..k -> Int] /\ g[0] = 0
    BY <1>4, <1>6, <1>7, <1>8
  <1>10. ASSUME NEW i \in 1..k PROVE g[i] = g[i - 1] + lines[i].size
    <2>1. CASE i = k
      BY <1>4, <1>6, <1>7, <2>1
    <2>2. CASE i # k
      <3>1. i \in 1..(k - 1) /\ i - 1 \in 0..k /\ i - 1 # k /\ i \in 0..k
        BY <1>4, <2>2
      <3>2. QED
        BY <1>7, <1>8, <2>2, <3>1
    <2>3. QED
      BY <2>1, <2>2
  <1>11. IsSum(g, lines, k)
    BY <1>9, <1>10 DEF IsSum
  <1>12. QED
    BY <1>2, <1>11

LEMMA BytesAreSum ==
  ASSUME NEW lines \in Seq(KeptLine)
  PROVE  /\ \A f : IsSum(f, lines, Len(lines)) => Bytes(lines) = f[Len(lines)]
         /\ Bytes(lines) \in Int
  <1>1. PICK n \in Nat : n = Len(lines) /\ n \in 0..n
    OBVIOUS
  <1>2. PICK f : IsSum(f, lines, n)
    BY <1>1, SumExists
  <1>3. PICK h : h = CHOOSE upTo : upTo = [i \in 0..n |-> IF i = 0 THEN 0 ELSE upTo[i - 1] + lines[i].size]
    OBVIOUS
  <1>4. f = [i \in 0..n |-> IF i = 0 THEN 0 ELSE f[i - 1] + lines[i].size]
    <2>1. \A i \in 0..n : i # 0 => i \in 1..n
      BY <1>1
    <2>2. QED
      BY <1>2, <2>1 DEF IsSum
  <1>5. h = [i \in 0..n |-> IF i = 0 THEN 0 ELSE h[i - 1] + lines[i].size]
    BY <1>3, <1>4
  <1>6. Bytes(lines) = h[n]
    BY <1>1, <1>3 DEF Bytes
  <1>7. ASSUME NEW g, IsSum(g, lines, n) PROVE \A i \in 0..n : h[i] = g[i]
    <2> DEFINE differ == {i \in 0..n : h[i] # g[i]}
    <2>1. SUFFICES ASSUME differ # {} PROVE FALSE
      OBVIOUS
    <2>2. PICK k \in differ : \A j \in differ : k <= j
      <3>1. differ \in SUBSET Nat
        OBVIOUS
      <3> HIDE DEF differ
      <3>2. QED
        BY <2>1, <3>1, LeastOf
    <2>3. k # 0
      BY <1>5, <1>7, <2>2 DEF IsSum
    <2>4. k - 1 \in 0..n /\ k \in 1..n /\ k - 1 \notin differ
      BY <2>2, <2>3
    <2>5. h[k] = h[k - 1] + lines[k].size
      BY <1>5, <2>2, <2>3
    <2>6. g[k] = g[k - 1] + lines[k].size
      BY <1>7, <2>4 DEF IsSum
    <2>7. QED
      BY <2>2, <2>4, <2>5, <2>6
  <1>8. QED
    BY <1>1, <1>2, <1>6, <1>7 DEF IsSum

LEMMA BytesOfNothing == Bytes(<<>>) = 0
  <1>1. <<>> \in Seq(KeptLine) /\ Len(<<>>) = 0 /\ 0 \in 0..0
    OBVIOUS
  <1>2. PICK f : IsSum(f, <<>>, 0)
    BY <1>1, SumExists
  <1>3. QED
    BY <1>1, <1>2, BytesAreSum DEF IsSum

LEMMA BytesOfAppended ==
  ASSUME NEW lines \in Seq(KeptLine), NEW line \in KeptLine
  PROVE  Bytes(Append(lines, line)) = Bytes(lines) + line.size
  <1>1. PICK n \in Nat : n = Len(lines) /\ n \in 0..n
    OBVIOUS
  <1>2. PICK all \in Seq(KeptLine) : all = Append(lines, line)
    <2>1. Append(lines, line) \in Seq(KeptLine)
      OBVIOUS
    <2>2. QED
      BY <2>1, Zenon
  <1>3. Len(all) = n + 1 /\ n + 1 \in 0..(n + 1) /\ all[n + 1] = line /\ \A i \in 1..n : all[i] = lines[i]
    BY <1>1, <1>2
  <1>4. PICK f : IsSum(f, all, n + 1)
    BY <1>3, SumExists
  <1>5. f \in [0..(n + 1) -> Int] /\ f[0] = 0 /\ \A i \in 1..(n + 1) : f[i] = f[i - 1] + all[i].size
    BY <1>4 DEF IsSum
  <1>6. PICK g : g = [i \in 0..n |-> f[i]]
    OBVIOUS
  <1>7. IsSum(g, lines, n)
    <2>1. g \in [0..n -> Int] /\ g[0] = 0
      BY <1>5, <1>6
    <2>2. ASSUME NEW i \in 1..n PROVE g[i] = g[i - 1] + lines[i].size
      <3>1. i \in 1..(n + 1) /\ i \in 0..n /\ i - 1 \in 0..n
        OBVIOUS
      <3>2. QED
        BY <1>3, <1>5, <1>6, <3>1
    <2>3. QED
      BY <2>1, <2>2 DEF IsSum
  <1>8. Bytes(lines) = f[n] /\ Bytes(all) = f[n + 1]
    BY <1>1, <1>3, <1>4, <1>6, <1>7, BytesAreSum
  <1>9. f[n + 1] = f[n] + line.size
    <2>1. n + 1 \in 1..(n + 1) /\ (n + 1) - 1 = n
      OBVIOUS
    <2>2. QED
      BY <1>3, <1>5, <2>1
  <1>10. QED
    BY <1>2, <1>8, <1>9

\* The bytes of the first lines and of the rest
LEMMA BytesOfParts ==
  ASSUME NEW lines \in Seq(KeptLine), NEW k \in 0..Len(lines)
  PROVE  /\ SubSeq(lines, 1, k) \in Seq(KeptLine) /\ SubSeq(lines, k + 1, Len(lines)) \in Seq(KeptLine)
         /\ Bytes(SubSeq(lines, k + 1, Len(lines))) = Bytes(lines) - Bytes(SubSeq(lines, 1, k))
  <1>1. PICK n \in Nat : n = Len(lines) /\ n \in 0..n /\ k \in 0..n /\ k \in Nat
    OBVIOUS
  <1>2. /\ SubSeq(lines, 1, k) \in Seq(KeptLine) /\ Len(SubSeq(lines, 1, k)) = k
        /\ \A i \in 1..k : SubSeq(lines, 1, k)[i] = lines[i]
    BY PartsOf
  <1>3. /\ SubSeq(lines, k + 1, n) \in Seq(KeptLine) /\ Len(SubSeq(lines, k + 1, n)) = n - k
        /\ \A i \in 1..(n - k) : SubSeq(lines, k + 1, n)[i] = lines[k + i]
    BY <1>1, PartsOf
  <1>4. PICK a \in Seq(KeptLine) : a = SubSeq(lines, 1, k)
    BY <1>2
  <1>5. PICK b \in Seq(KeptLine) : b = SubSeq(lines, k + 1, n)
    BY <1>3
  <1>6. PICK f : IsSum(f, lines, n)
    BY <1>1, SumExists
  <1>7. f \in [0..n -> Int] /\ f[0] = 0 /\ \A i \in 1..n : f[i] = f[i - 1] + lines[i].size
    BY <1>6 DEF IsSum
  <1>8. PICK g : g = [i \in 0..k |-> f[i]]
    OBVIOUS
  <1>9. IsSum(g, a, k)
    <2>1. g \in [0..k -> Int] /\ g[0] = 0
      <3>1. 0 \in 0..k /\ \A i \in 0..k : i \in 0..n
        BY <1>1
      <3>2. QED
        BY <1>7, <1>8, <3>1
    <2>2. ASSUME NEW i \in 1..k PROVE g[i] = g[i - 1] + a[i].size
      <3>1. i \in 1..n /\ i \in 0..k /\ i - 1 \in 0..k
        BY <1>1
      <3>2. QED
        BY <1>2, <1>4, <1>7, <1>8, <3>1
    <2>3. QED
      BY <2>1, <2>2 DEF IsSum
  <1>10. PICK m \in Nat : m = n - k /\ n = k + m
    <2>1. n - k \in Nat /\ n = k + (n - k)
      BY <1>1
    <2>2. QED
      BY <2>1
  <1>11. PICK h : h = [i \in 0..m |-> f[k + i] - f[k]]
    OBVIOUS
  <1>12. IsSum(h, b, m)
    <2>1. h \in [0..m -> Int] /\ h[0] = 0
      <3>1. 0 \in 0..m /\ k + 0 = k /\ k \in 0..n /\ \A i \in 0..m : k + i \in 0..n
        BY <1>1, <1>10
      <3>2. f[k] \in Int /\ \A i \in 0..m : f[k + i] \in Int
        BY <1>7, <3>1
      <3>3. QED
        <4>1. f[k] - f[k] = 0 /\ \A i \in 0..m : f[k + i] - f[k] \in Int
          <5>1. \A x, y \in Int : x - x = 0 /\ y - x \in Int
            OBVIOUS
          <5>2. QED
            BY <3>2, <5>1, Zenon
        <4>2. h[0] = f[k + 0] - f[k]
          BY <1>11, <3>1
        <4>3. QED
          BY <1>11, <3>1, <4>1, <4>2
    <2>2. ASSUME NEW i \in 1..m PROVE h[i] = h[i - 1] + b[i].size
      <3>1. k + i \in 1..n /\ i \in 0..m /\ i - 1 \in 0..m /\ k + (i - 1) = (k + i) - 1 /\ k + (i - 1) \in 0..n
        BY <1>1, <1>10
      <3>2. f[k + i] = f[(k + i) - 1] + lines[k + i].size /\ b[i] = lines[k + i]
        BY <1>3, <1>5, <1>7, <1>10, <3>1
      <3>3. lines[k + i].size \in Int /\ f[k] \in Int /\ f[k + i] \in Int /\ f[k + (i - 1)] \in Int
        <4>1. lines[k + i] \in KeptLine
          BY <1>1, <3>1
        <4>2. k \in 0..n /\ k + i \in 0..n /\ k + (i - 1) \in 0..n
          BY <1>1, <3>1
        <4>3. f[k] \in Int /\ f[k + i] \in Int /\ f[k + (i - 1)] \in Int
          BY <1>7, <4>2
        <4>4. QED
          BY <4>1, <4>3 DEF KeptLine
      <3>4. h[i] = f[k + i] - f[k] /\ h[i - 1] = f[k + (i - 1)] - f[k]
        BY <1>11, <3>1
      <3>5. QED
        BY <3>1, <3>2, <3>3, <3>4
    <2>3. QED
      BY <2>1, <2>2 DEF IsSum
  <1>13. Bytes(a) = f[k] /\ Bytes(b) = f[n] - f[k] /\ Bytes(lines) = f[n]
    <2>1. Bytes(a) = g[k] /\ Bytes(b) = h[m] /\ Bytes(lines) = f[n]
      BY <1>1, <1>2, <1>3, <1>4, <1>5, <1>6, <1>9, <1>10, <1>12, BytesAreSum
    <2>2. k \in 0..k /\ m \in 0..m /\ k + m = n
      BY <1>1, <1>10
    <2>3. QED
      BY <1>8, <1>11, <2>1, <2>2
  <1>14. QED
    BY <1>1, <1>2, <1>3, <1>4, <1>5, <1>13

LEMMA DropFits ==
    ASSUME NEW lines \in Seq(KeptLine), NEW limits \in MemoryConfig,
           DropOldestLines(lines, Bytes(lines), limits)
    PROVE  /\ m_ByteCount' = Bytes(m_Lines')
           /\ m_Lines' # <<>> => ~Exceeds(Len(m_Lines'), m_ByteCount', limits)
  <1>1. PICK k \in 0..Len(lines) :
          /\ \/ k = Len(lines)
             \/ ~Exceeds(Len(lines) - k, Bytes(lines) - Bytes(SubSeq(lines, 1, k)), limits)
          /\ m_Lines' = SubSeq(lines, k + 1, Len(lines))
          /\ m_ByteCount' = Bytes(lines) - Bytes(SubSeq(lines, 1, k))
    BY DEF DropOldestLines
  <1>2. m_ByteCount' = Bytes(m_Lines')
    BY <1>1, BytesOfParts
  <1>3. Len(m_Lines') = Len(lines) - k /\ m_Lines' \in Seq(KeptLine)
    BY <1>1
  <1>4. CASE k = Len(lines)
    <2>1. Len(m_Lines') = 0
      BY <1>3, <1>4
    <2>2. m_Lines' = <<>>
      BY <2>1, <1>3
    <2>3. QED
      BY <2>2, <1>2
  <1>5. CASE ~Exceeds(Len(lines) - k, Bytes(lines) - Bytes(SubSeq(lines, 1, k)), limits)
    BY <1>1, <1>2, <1>3, <1>5
  <1>6. QED
    BY <1>1, <1>4, <1>5

\* The last line stays if it fits by itself
LEMMA LastStays ==
    ASSUME NEW lines \in Seq(KeptLine), lines # <<>>, NEW limits \in MemoryConfig,
           limits.MaxBytes > 0 => lines[Len(lines)].size <= limits.MaxBytes,
           DropOldestLines(lines, Bytes(lines), limits)
    PROVE  m_Lines' # <<>> /\ m_Lines'[Len(m_Lines')] = lines[Len(lines)]
  <1>1. PICK n \in Nat \ {0} : n = Len(lines)
    OBVIOUS
  <1>2. PICK k \in 0..n :
          /\ m_Lines' = SubSeq(lines, k + 1, n)
          /\ \A j \in 0..(k - 1) : Exceeds(n - j, Bytes(lines) - Bytes(SubSeq(lines, 1, j)), limits)
    BY <1>1 DEF DropOldestLines
  <1>3. k # n
    <2>1. SUFFICES ASSUME k = n PROVE FALSE
      OBVIOUS
    <2>2. PICK j \in 0..(k - 1) : j = n - 1 /\ n - j = 1 /\ j + 1 = n /\ j \in 0..n
      BY <2>1, <1>1
    <2>3. PICK last \in KeptLine : last = lines[n]
      <3>1. lines[n] \in KeptLine
        BY <1>1
      <3>2. QED
        BY <3>1, Zenon
    <2>4. SubSeq(lines, n, n) = Append(<<>>, last)
      <3>1. PICK rest \in Seq(KeptLine) :
              rest = SubSeq(lines, n, n) /\ Len(rest) = 1 /\ rest[1] = lines[j + 1]
        <4>1. /\ SubSeq(lines, j + 1, Len(lines)) \in Seq(KeptLine)
              /\ Len(SubSeq(lines, j + 1, Len(lines))) = Len(lines) - j
              /\ \A i \in 1..(Len(lines) - j) : SubSeq(lines, j + 1, Len(lines))[i] = lines[j + i]
          BY <1>1, <2>2, PartsOf
        <4>2. 1 \in 1..(Len(lines) - j) /\ Len(lines) - j = 1 /\ j + 1 = n /\ Len(lines) = n
          BY <1>1, <2>2
        <4>3. QED
          BY <4>1, <4>2
      <3>2. rest = <<last>>
        <4>1. rest[1] = last
          BY <2>2, <2>3, <3>1
        <4>2. <<last>> \in Seq(KeptLine) /\ Len(<<last>>) = 1 /\ <<last>>[1] = last
          BY <2>3
        <4>3. \A i \in 1..Len(rest) : rest[i] = <<last>>[i]
          BY <3>1, <4>1, <4>2
        <4>4. QED
          BY <3>1, <4>2, <4>3, SeqEqual
      <3>3. QED
        BY <3>1, <3>2
    <2>5. Bytes(Append(<<>>, last)) = last.size
      <3>1. <<>> \in Seq(KeptLine)
        OBVIOUS
      <3>2. Bytes(Append(<<>>, last)) = 0 + last.size
        BY <2>3, <3>1, BytesOfNothing, BytesOfAppended
      <3>3. last.size \in Int
        BY <2>3 DEF KeptLine
      <3>4. QED
        BY <3>2, <3>3
    <2>6. Bytes(lines) - Bytes(SubSeq(lines, 1, j)) = last.size
      <3>1. Bytes(SubSeq(lines, j + 1, Len(lines))) = Bytes(lines) - Bytes(SubSeq(lines, 1, j))
        BY <1>1, <2>2, BytesOfParts
      <3>2. QED
        BY <3>1, <1>1, <2>2, <2>4, <2>5
    <2>7. Exceeds(1, last.size, limits)
      BY <1>2, <2>2, <2>6
    <2>8. limits.MaxLines \in Nat /\ limits.MaxBytes \in Nat /\ last.size \in Int
          /\ (limits.MaxBytes > 0 => last.size <= limits.MaxBytes)
      BY <1>1, <2>3 DEF MemoryConfig, KeptLine
    <2>9. QED
      BY <2>7, <2>8 DEF Exceeds
  <1>4. /\ Len(m_Lines') = n - k /\ n - k \in 1..(n - k)
        /\ m_Lines'[n - k] = lines[k + (n - k)]
    BY <1>1, <1>2, <1>3
  <1>5. QED
    BY <1>1, <1>4

(***************************************************************************)
(* What is kept fits the limits after each step.                           *)
(***************************************************************************)
\* What a written line is put behind the others and cut to
LEMMA WriteFits ==
    ASSUME IInv, FitLimits, m_Limits \in Limits, NEW size \in Sizes, WriteLine(size)
    PROVE  /\ FitLimits'
           /\ m_Lines' # <<>> /\ m_Lines'[Len(m_Lines')].id = m_NextSequence
  <1>1. m_Limits \in MemoryConfig /\ m_Limits.MaxBytes \in Nat /\ size \in Nat
    BY SizesAssumption, LimitsAssumption DEF MemoryConfig
  <1> DEFINE sizes == IF m_Limits.MaxBytes > 0 THEN CutToFit(size, m_Limits.MaxBytes) ELSE {size}
  <1>2. PICK kept \in sizes :
          DropOldestLines(Append(m_Lines, [id |-> m_NextSequence, size |-> kept]),
                          m_ByteCount + kept, m_Limits)
    BY DEF WriteLine, BytesOfText
  <1>3. kept \in Int /\ (m_Limits.MaxBytes > 0 => kept <= m_Limits.MaxBytes)
    BY <1>1, SizesAssumption DEF CutToFit
  <1>4. PICK line \in KeptLine :
          line = [id |-> m_NextSequence, size |-> kept] /\ line.id = m_NextSequence /\ line.size = kept
    <2>1. m_NextSequence \in Nat
      BY DEF IInv, LinesInv
    <2>2. [id |-> m_NextSequence, size |-> kept] \in KeptLine
      BY <1>3, <2>1 DEF KeptLine
    <2>3. QED
      BY <2>2
  <1>5. m_Lines \in Seq(KeptLine) /\ m_ByteCount = Bytes(m_Lines)
    BY DEF IInv, LinesInv, FitLimits
  <1>6. PICK lines \in Seq(KeptLine) :
          lines = Append(m_Lines, line) /\ lines # <<>> /\ lines[Len(lines)] = line
    <2>1. Append(m_Lines, line) \in Seq(KeptLine) /\ Append(m_Lines, line) # <<>>
          /\ Append(m_Lines, line)[Len(Append(m_Lines, line))] = line
      BY <1>5
    <2>2. QED
      BY <2>1, Zenon
  <1>7. Bytes(lines) = m_ByteCount + kept
    BY <1>4, <1>5, <1>6, BytesOfAppended
  <1>8. DropOldestLines(lines, Bytes(lines), m_Limits)
    BY <1>2, <1>4, <1>6, <1>7
  <1>9. /\ m_ByteCount' = Bytes(m_Lines')
        /\ m_Lines' # <<>> => ~Exceeds(Len(m_Lines'), m_ByteCount', m_Limits)
    BY <1>1, <1>8, DropFits
  <1>10. m_Lines' # <<>> /\ m_Lines'[Len(m_Lines')] = line
    BY <1>1, <1>3, <1>4, <1>6, <1>8, LastStays
  <1>11. m_Limits' = m_Limits /\ Bytes(m_Lines') = Bytes(m_Lines)'
    BY DEF WriteLine, Bytes
  <1>12. QED
    BY <1>4, <1>9, <1>10, <1>11 DEF FitLimits, Exceeds

LEMMA FitsKept ==
    ASSUME IInv, FitLimits, m_Limits \in Limits, [Next]_vars
    PROVE  /\ FitLimits'
           /\ m_NextSequence' # m_NextSequence =>
                m_Lines' # <<>> /\ m_Lines'[Len(m_Lines')].id = m_NextSequence
  <1>1. ASSUME NEW size \in Sizes, WriteLine(size)
        PROVE  /\ FitLimits'
               /\ m_Lines' # <<>> /\ m_Lines'[Len(m_Lines')].id = m_NextSequence
    BY <1>1, WriteFits
  <1>2. ASSUME NEW limits \in Limits, ApplyLimits(limits)
        PROVE  FitLimits' /\ m_NextSequence' = m_NextSequence
    <2>1. limits \in MemoryConfig /\ m_Lines \in Seq(KeptLine) /\ m_ByteCount = Bytes(m_Lines)
      BY LimitsAssumption DEF IInv, LinesInv, FitLimits
    <2>2. DropOldestLines(m_Lines, Bytes(m_Lines), limits) /\ m_Limits' = limits
          /\ m_NextSequence' = m_NextSequence
      BY <1>2, <2>1 DEF ApplyLimits, FitLines
    <2>3. /\ m_ByteCount' = Bytes(m_Lines')
          /\ m_Lines' # <<>> => ~Exceeds(Len(m_Lines'), m_ByteCount', limits)
      BY <2>1, <2>2, DropFits
    <2>4. QED
      BY <2>2, <2>3 DEF FitLimits, Exceeds
  <1>3. CASE Clear
    <2>1. m_Lines' = <<>> /\ m_ByteCount' = 0 /\ m_NextSequence' = m_NextSequence
      BY <1>3 DEF Clear, BytesOfNone
    <2>2. Bytes(<<>>) = 0
      BY BytesOfNothing
    <2>3. QED
      BY <2>1, <2>2 DEF FitLimits
  <1>4. ASSUME NEW v \in Viewers, GetLinesSince(v)
        PROVE  FitLimits' /\ m_NextSequence' = m_NextSequence
    BY <1>4 DEF GetLinesSince, lineVars, FitLimits, Exceeds
  <1>5. CASE UNCHANGED vars
    BY <1>5 DEF vars, lineVars, FitLimits, Exceeds
  <1>6. m_NextSequence' # m_NextSequence => \E size \in Sizes : WriteLine(size)
    BY <1>2, <1>4, <1>5 DEF Next, Clear, vars, lineVars
  <1>7. QED
    BY <1>1, <1>2, <1>3, <1>4, <1>5, <1>6 DEF Next

(***************************************************************************)
(* However lines are cut, dropped and cleared and limits changed, the      *)
(* lines kept fit the limits by a byte count that is their sum, and a line *)
(* just written is kept (WriteLineUnlocked(), ApplyLimitsUnlocked()).      *)
(***************************************************************************)
THEOREM WithinLimitsHolds == Spec => WithinLimits
  <1>1. Init => FitLimits
    BY BytesOfNothing DEF Init, FitLimits
  <1>2. IInv /\ m_Limits \in Limits /\ FitLimits /\ [Next]_vars => FitLimits'
    BY FitsKept
  <1> DEFINE Kept == /\ FitLimits'
                     /\ m_NextSequence' # m_NextSequence =>
                          m_Lines' # <<>> /\ m_Lines'[Len(m_Lines')].id = m_NextSequence
  <1>3. IInv /\ m_Limits \in Limits /\ FitLimits /\ [Next]_vars => [Kept]_vars
    BY FitsKept
  <1> HIDE DEF Kept
  <1>4. Spec => [][Kept]_vars
    BY <1>1, <1>2, <1>3, IInvAlways, PTL DEF Spec
  <1>5. QED
    BY <1>4 DEF Kept, WithinLimits

(***************************************************************************)
(* No line a viewer is told it missed is still kept: a poll returns every  *)
(* line kept that is new to it (GetLinesSince()).                          *)
(***************************************************************************)
LEMMA PollReturnsKept ==
    ASSUME IInv, NEW v \in Viewers, GetLinesSince(v), NEW i \in 1..Len(m_Lines)
    PROVE  \/ \E j \in 1..Len(seen'[v]) : seen'[v][j] = m_Lines[i]
           \/ m_Lines[i].id < next[v]
  <1>1. /\ m_Lines \in Seq(KeptLine) /\ Len(m_Lines) \in Nat
        /\ m_NextSequence \in Nat \ {0} /\ Len(m_Lines) < m_NextSequence
        /\ m_Lines[i].id = OldestKept + i - 1
        /\ OldestKept = m_NextSequence - Len(m_Lines)
    BY DEF IInv, LinesInv, OldestKept
  <1>2. /\ seen \in [Viewers -> Seq(KeptLine)] /\ seen[v] \in Seq(KeptLine)
        /\ Len(seen[v]) \in Nat /\ next[v] \in Nat \ {0} /\ next[v] <= m_NextSequence
    BY DEF IInv, ViewersInv
  <1>3. CASE next[v] >= m_NextSequence
    BY <1>1, <1>2, <1>3
  <1>4. CASE next[v] < m_NextSequence /\ ~(m_Lines[i].id < next[v])
    <2>1. PICK skipped : skipped = Skipped(next[v])
      OBVIOUS
    <2>2. skipped \in Nat /\ skipped < i /\ skipped <= Len(m_Lines)
      BY <1>1, <1>2, <1>4, <2>1 DEF Skipped
    <2>3. PICK new \in Seq(KeptLine) :
            /\ new = SubSeq(m_Lines, skipped + 1, Len(m_Lines))
            /\ Len(new) = Len(m_Lines) - skipped
            /\ \A j \in 1..(Len(m_Lines) - skipped) : new[j] = m_Lines[skipped + j]
      <3>1. LET new == SubSeq(m_Lines, skipped + 1, Len(m_Lines))
            IN  /\ new \in Seq(KeptLine) /\ Len(new) = Len(m_Lines) - skipped
                /\ \A j \in 1..(Len(m_Lines) - skipped) : new[j] = m_Lines[skipped + j]
        BY <1>1, <2>2
      <3>2. QED
        BY <3>1, Zenon
    <2>4. seen'[v] = seen[v] \o new
      BY <1>2, <1>4, <2>1, <2>3 DEF GetLinesSince
    <2>5. PICK j \in 1..Len(new) : j = i - skipped /\ new[j] = m_Lines[i]
      <3>1. i - skipped \in 1..Len(new) /\ skipped + (i - skipped) = i
        BY <1>1, <2>2, <2>3
      <3>2. QED
        BY <2>3, <3>1
    <2>6. /\ Len(seen[v]) + j \in 1..Len(seen'[v])
          /\ seen'[v][Len(seen[v]) + j] = new[j]
      <3>1. /\ Len(seen[v] \o new) = Len(seen[v]) + Len(new)
            /\ \A k \in 1..(Len(seen[v]) + Len(new)) :
                  (seen[v] \o new)[k] = IF k <= Len(seen[v]) THEN seen[v][k] ELSE new[k - Len(seen[v])]
        <4>1. seen[v] \in Seq(KeptLine) /\ new \in Seq(KeptLine)
          BY <1>2, <2>3
        <4>2. QED
          BY <4>1, ConcatProperties, Zenon
      <3>2. Len(new) \in Nat /\ j \in 1..Len(new) /\ Len(seen[v]) \in Nat
        BY <1>2, <2>3, <2>5
      <3>3. /\ Len(seen[v]) + j \in 1..(Len(seen[v]) + Len(new))
            /\ ~(Len(seen[v]) + j <= Len(seen[v])) /\ (Len(seen[v]) + j) - Len(seen[v]) = j
        BY <3>2
      <3>4. QED
        BY <2>4, <3>1, <3>3
    <2>7. QED
      BY <2>5, <2>6
  <1>5. next[v] >= m_NextSequence \/ next[v] < m_NextSequence
    BY <1>1, <1>2
  <1>6. QED
    BY <1>3, <1>4, <1>5

THEOREM NothingKeptIsMissedHolds == Spec => NothingKeptIsMissed
  <1> DEFINE Told == \A v \in Viewers : polls'[v] # polls[v] =>
                        \A i \in 1..Len(m_Lines) :
                            \/ \E j \in 1..Len(seen'[v]) : seen'[v][j] = m_Lines[i]
                            \/ m_Lines[i].id < next[v]
  <1>1. IInv /\ [Next]_vars => [Told]_vars
    <2> SUFFICES ASSUME IInv, Next, NEW v \in Viewers, polls'[v] # polls[v]
                 PROVE  \A i \in 1..Len(m_Lines) :
                            \/ \E j \in 1..Len(seen'[v]) : seen'[v][j] = m_Lines[i]
                            \/ m_Lines[i].id < next[v]
      OBVIOUS
    <2>1. GetLinesSince(v)
      <3>1. PICK u \in Viewers : GetLinesSince(u)
        BY DEF Next, WriteLine, ApplyLimits, Clear, viewerVars
      <3>2. polls' = [polls EXCEPT ![u] = polls[u] + 1] /\ polls \in [Viewers -> Nat]
        BY <3>1 DEF GetLinesSince, IInv, ViewersInv
      <3>3. QED
        BY <3>1, <3>2
    <2>2. QED
      BY <2>1, PollReturnsKept
  <1> HIDE DEF Told
  <1>2. Spec => [][Told]_vars
    BY <1>1, IInvAlways, PTL DEF Spec
  <1>3. QED
    BY <1>2 DEF Told, NothingKeptIsMissed
=============================================================================
