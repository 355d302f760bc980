--------------------------- MODULE NewestEntries ---------------------------
(***************************************************************************)
(* What the backtrace of a logger promises (TASWBacktraceConfig): the      *)
(* newest entries kept, at most capacity of them, oldest first.  A new one *)
(* takes the oldest's place; a smaller capacity forgets the oldest ones;   *)
(* whoever takes them takes them all.                                      *)
(***************************************************************************)
EXTENDS Integers, Sequences

CONSTANTS Entries, Capacities

VARIABLES kept, capacity

\* The last n of a sequence's elements, or all of them
Newest(s, n) == IF Len(s) > n THEN SubSeq(s, Len(s) - n + 1, Len(s)) ELSE s

\* The entry kept is the last one afterwards
Keep ==
    /\ capacity > 0
    /\ kept' # <<>>
    /\ LET entry == kept'[Len(kept')]
       IN  entry \in Entries /\ kept' = Newest(Append(kept, entry), capacity)
    /\ capacity' = capacity

Resize(newCapacity) ==
    /\ kept' = Newest(kept, newCapacity)
    /\ capacity' = newCapacity

TakeAll ==
    /\ kept' = <<>>
    /\ capacity' = capacity

Init == kept = <<>> /\ capacity \in Capacities

Next ==
    \/ Keep
    \/ \E newCapacity \in Capacities : Resize(newCapacity)
    \/ TakeAll

Spec == Init /\ [][Next]_<<kept, capacity>>
=============================================================================
