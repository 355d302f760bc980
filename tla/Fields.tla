------------------------------- MODULE Fields -------------------------------
(***************************************************************************)
(* The fields of an entry: those of the scopes its thread is in, from the  *)
(* outermost one in, then its own (TASWLogField, TASWLogScope).  A chain   *)
(* of scopes is the sequence of their fields, outermost first.             *)
(***************************************************************************)
EXTENDS Integers, Sequences, SequencesExt

Field(key, value) == [Key |-> key, Value |-> value]

\* VisitAllLogFields(): every field in order, repeated keys included
VisitAllLogFields(scopes, fields) == FlattenSeq(Append(scopes, fields))

IsRepeated(all, index) == \E earlier \in 1..(index - 1) : all[earlier].Key = all[index].Key

\* Mutant: the outermost value wins
FirstWinner(all, index) == all[index]

\* The last field with the key of the one at index
Winner(all, index) ==
    all[CHOOSE last \in index..Len(all) :
          /\ all[last].Key = all[index].Key
          /\ \A later \in (last + 1)..Len(all) : all[later].Key # all[index].Key]

\* ForEachLogField(): each key once, where it first appears, with its last value
ForEachLogField(scopes, fields) ==
    LET all == VisitAllLogFields(scopes, fields)
        each[n \in 0..Len(all)] ==
            IF n = 0 THEN <<>>
            ELSE IF IsRepeated(all, n) THEN each[n - 1] ELSE Append(each[n - 1], Winner(all, n))
    IN  each[Len(all)]

HasField(fields, key) == \E i \in 1..Len(fields) : fields[i].Key = key

\* TASWPendingEntry::FindField(), on fields whose keys are each there once
FindField(fields, key) == fields[CHOOSE i \in 1..Len(fields) : fields[i].Key = key].Value

\* TASWLogScope::Capture() and TOwnedFields::AssignMerged(): nothing if the
\* copy can't be made
Capture(scopes, isCopied) == IF isCopied THEN ForEachLogField(scopes, <<>>) ELSE <<>>

\* TASWLogScope::TASWLogScope(): the context's fields, then its own, so that
\* these replace those
NewScope(context, fields, isCopied) == IF isCopied THEN context \o fields ELSE <<>>

\* TASWPendingEntry::SetField() and RemoveField(), which replace all fields of
\* the entry, its scopes' included
SetField(merged, key, value) ==
    IF HasField(merged, key)
    THEN [i \in 1..Len(merged) |-> IF merged[i].Key = key THEN Field(key, value) ELSE merged[i]]
    ELSE Append(merged, Field(key, value))

RemoveField(merged, key) == SelectSeq(merged, LAMBDA field : field.Key # key)
=============================================================================
