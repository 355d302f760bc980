---------------------------- MODULE MCBacktrace ----------------------------
(***************************************************************************)
(* Instances of Backtrace.  Two levels and Off: an entry at level 0 is     *)
(* kept when the minimum is higher, one at level 1 dumps what was kept.    *)
(***************************************************************************)
EXTENDS Backtrace, TLC

CONSTANTS a, b, none

Threads == {a, b}

Ring2 == [Capacity |-> 2, LowestLevel |-> 0, DumpAtLevel |-> 1]
Ring3 == [Capacity |-> 3, LowestLevel |-> 0, DumpAtLevel |-> 1]
NoRing == [Capacity |-> 0, LowestLevel |-> 0, DumpAtLevel |-> 1]
OffRing == [Capacity |-> 2, LowestLevel |-> 2, DumpAtLevel |-> 1]

Sizes == {NoRing, OffRing, Ring2, Ring3}
WithAndWithout == {NoRing, Ring2}

LowCategory == {none, 0}

Everything == {"Write", "DumpBacktrace", "SetEnabled", "SetMinimumLevel", "SetConfig"}
AllCalls == (a :> Everything) @@ (b :> {"Write", "SetMinimumLevel", "SetConfig"})
Calls42 == (a :> 4) @@ (b :> 2)

\* Two scenarios: one thread logs and dumps while the other resizes the ring
\* once, among all its sizes; or one calls everything while the other logs and
\* changes the levels, and the ring is there or not
VARIABLE scenario
mcVars == <<vars, scenario>>

IsRing ==
    /\ calls[b] <= 1 /\ m_IsEnabled /\ record[b] = Marker(b) /\ newLevel[a] = 0 /\ newLevel[b] = 0
    /\ pc[a] \notin {"setMinimum", "resize"} /\ pc[b] # "setMinimum" /\ record[a].category = none
IsLevels == calls[a] <= 2 /\ calls[a] + calls[b] <= 3 /\ \A t \in Thread : newConfig[t] \in WithAndWithout
InScenario == IF scenario = "ring" THEN IsRing ELSE IsLevels

MCInit == Init /\ scenario \in {"ring", "levels"} /\ InScenario
MCSpec == MCInit /\ [][Next /\ UNCHANGED scenario /\ InScenario']_mcVars
=============================================================================
