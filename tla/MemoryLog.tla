----------------------------- MODULE MemoryLog -----------------------------
(***************************************************************************)
(* What a memory logger keeps (TASWMemoryLog): its newest lines, within    *)
(* limits on their number and their bytes that may change, and what its    *)
(* viewers get, each polling for the lines since the last one it saw.      *)
(*                                                                         *)
(* A step is one critical section of m_LinesMutex.                         *)
(***************************************************************************)
EXTENDS Integers, Sequences

CONSTANTS
    Viewers,
    Sizes,          \* the bytes of the lines written
    Limits,         \* the memory configs: records of MaxLines and MaxBytes
    CutMarkerSize,  \* the bytes of the text that ends a cut line
    MaxWritten,     \* bound: how many lines are written
    MaxPolls        \* bound: how often each viewer asks

\* TASWMemoryConfig
MemoryConfig == [MaxLines : Nat, MaxBytes : Nat]

ASSUME SizesAssumption == Sizes \subseteq Nat /\ CutMarkerSize \in Nat
ASSUME LimitsAssumption == Limits \subseteq MemoryConfig /\ Limits # {}
ASSUME BoundAssumption == MaxWritten \in Nat /\ MaxPolls \in Nat

VARIABLES
    m_Lines, m_ByteCount, m_NextSequence,
    m_Limits,   \* m_MaxLines and m_MaxBytes
    next,       \* the sequence number each viewer asks from
    seen,       \* the lines each viewer got, in order
    missed,     \* and how many it was told it missed
    polls

lineVars == <<m_Lines, m_ByteCount, m_NextSequence>>
viewerVars == <<next, seen, missed, polls>>
vars == <<lineVars, m_Limits, viewerVars>>

\* A kept line: which one it is of those written, and its bytes
Line == [id : Nat, size : Nat]

Bytes(lines) ==
    LET upTo[n \in 0..Len(lines)] == IF n = 0 THEN 0 ELSE upTo[n - 1] + lines[n].size
    IN  upTo[Len(lines)]

\* Mutant: the marker is put after as many bytes as fit
MarkedAfterCut(size, maxBytes) ==
    IF size <= maxBytes THEN {size}
    ELSE IF maxBytes >= CutMarkerSize THEN CutMarkerSize..(maxBytes + CutMarkerSize)
    ELSE 0..maxBytes

\* CutToFit(): the sizes a line may be cut to, as its characters allow
CutToFit(size, maxBytes) ==
    IF size <= maxBytes THEN {size}
    ELSE IF maxBytes >= CutMarkerSize THEN CutMarkerSize..maxBytes
    ELSE 0..maxBytes

Exceeds(count, bytes, limits) ==
    \/ limits.MaxLines > 0 /\ count > limits.MaxLines
    \/ limits.MaxBytes > 0 /\ bytes > limits.MaxBytes

\* DropOldestLines(): drops the first k of the lines, and no more than needed
DropOldestLines(lines, bytes, limits) ==
    \E k \in 0..Len(lines) :
        LET after(j) == bytes - Bytes(SubSeq(lines, 1, j))
        IN  /\ k = Len(lines) \/ ~Exceeds(Len(lines) - k, after(k), limits)
            /\ \A j \in 0..(k - 1) : Exceeds(Len(lines) - j, after(j), limits)
            /\ m_Lines' = SubSeq(lines, k + 1, Len(lines))
            /\ m_ByteCount' = after(k)

----------------------------------------------------------------------------
\* Initialize() applies the first limits
Init ==
    /\ m_Lines = <<>> /\ m_ByteCount = 0 /\ m_NextSequence = 1
    /\ m_Limits \in Limits
    /\ next = [v \in Viewers |-> 1]
    /\ seen = [v \in Viewers |-> <<>>]
    /\ missed = [v \in Viewers |-> 0]
    /\ polls = [v \in Viewers |-> 0]

BytesOfText(kept) == kept

\* WriteLineUnlocked()
WriteLine(size) ==
    /\ m_NextSequence <= MaxWritten
    /\ \E kept \in IF m_Limits.MaxBytes > 0 THEN CutToFit(size, m_Limits.MaxBytes) ELSE {size} :
          DropOldestLines(Append(m_Lines, [id |-> m_NextSequence, size |-> kept]),
                          m_ByteCount + BytesOfText(kept), m_Limits)
    /\ m_NextSequence' = m_NextSequence + 1
    /\ UNCHANGED <<m_Limits, viewerVars>>

FitLines(limits) == DropOldestLines(m_Lines, m_ByteCount, limits)

\* ApplyLimitsUnlocked(), Initialize()'s and Reconfigure()'s
ApplyLimits(limits) ==
    /\ m_Limits' = limits
    /\ FitLines(limits)
    /\ UNCHANGED <<m_NextSequence, viewerVars>>

BytesOfNone == 0

Clear ==
    /\ m_Lines' = <<>> /\ m_ByteCount' = BytesOfNone
    /\ UNCHANGED <<m_NextSequence, m_Limits, viewerVars>>

\* Mutant: lines are missed only if some are kept
OldestIfAny == IF m_Lines = <<>> THEN 1 ELSE m_NextSequence - Len(m_Lines)
OldestKept == m_NextSequence - Len(m_Lines)

\* Mutant: skips the line it last returned a number for
SkippedFrom(first) == IF first < OldestKept THEN 1 ELSE first - OldestKept
Skipped(first) == IF first < OldestKept THEN 0 ELSE first - OldestKept

\* GetLinesSince(), with the number the viewer got the last time
GetLinesSince(v) ==
    LET first == next[v]
    IN  /\ polls[v] < MaxPolls
        /\ polls' = [polls EXCEPT ![v] = @ + 1]
        /\ next' = [next EXCEPT ![v] = m_NextSequence]
        /\ missed' = [missed EXCEPT ![v] = IF first < OldestKept THEN @ + (OldestKept - first) ELSE @]
        /\ seen' = [seen EXCEPT ![v] =
              IF first < m_NextSequence
              THEN @ \o SubSeq(m_Lines, Skipped(first) + 1, Len(m_Lines)) ELSE @]
        /\ UNCHANGED <<lineVars, m_Limits>>

Next ==
    \/ \E size \in Sizes : WriteLine(size)
    \/ \E limits \in Limits : ApplyLimits(limits)
    \/ Clear
    \/ \E v \in Viewers : GetLinesSince(v)

Spec == Init /\ [][Next]_vars

----------------------------------------------------------------------------
(* Properties *)

\* The lines kept fit the config's limits by their own sizes, which are what
\* m_ByteCount says
FitLimits ==
    /\ m_ByteCount = Bytes(m_Lines)
    /\ m_Lines # <<>> => ~Exceeds(Len(m_Lines), m_ByteCount, m_Limits)

\* However lines are cut, dropped and cleared and limits are changed, what is
\* kept fits the limits after each step, by a byte count that is kept beside the
\* lines; and yet a line just written is kept, cut if it has to be
\* (WriteLineUnlocked(), ApplyLimitsUnlocked(); "kept cut to fit",
\* ASWLog_Config.h:283-284).
WithinLimits ==
    [][/\ FitLimits'
       /\ m_NextSequence' # m_NextSequence =>
            m_Lines' # <<>> /\ m_Lines'[Len(m_Lines')].id = m_NextSequence]_vars

\* A viewer gets each line at most once, in order, and every line it did not
\* get it was told of (GetLinesSince()'s MissedCount).
ViewerCountsEach ==
    \A v \in Viewers :
        /\ Len(seen[v]) + missed[v] = next[v] - 1
        /\ \A i, j \in 1..Len(seen[v]) : i < j => seen[v][i].id < seen[v][j].id
        /\ \A i \in 1..Len(seen[v]) : seen[v][i].id < next[v]

\* No line a viewer is told it missed is still kept: a poll returns every
\* line kept that is new to it (GetLinesSince()).
NothingKeptIsMissed ==
    [][\A v \in Viewers : polls'[v] # polls[v] =>
          \A i \in 1..Len(m_Lines) :
              \/ \E j \in 1..Len(seen'[v]) : seen'[v][j] = m_Lines[i]
              \/ m_Lines[i].id < next[v]]_vars
=============================================================================
