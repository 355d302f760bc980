----------------------------- MODULE MCCallSite -----------------------------
(***************************************************************************)
(* An instance of CallSite: each kind of limiter, an interval of two ticks *)
(* that the clock passes twice, or ends in the middle of; a user's own     *)
(* field with the name of the macro's.                                     *)
(***************************************************************************)
EXTENDS CallSite, TLC

CONSTANTS a, b

Limit(kind, n, ticks) == [Kind |-> kind, N |-> n, IntervalTicks |-> ticks]

EachKind ==
    {Limit("Once", 1, 0), Limit("EveryN", 2, 0),
     Limit("EveryInterval", 1, 0), Limit("EveryInterval", 1, 2)}

Calls21 == (a :> 2) @@ (b :> 1)
Scopes10 == (a :> 1) @@ (b :> 0)

OwnField == {<<Field("suppressed", 9)>>}
=============================================================================
