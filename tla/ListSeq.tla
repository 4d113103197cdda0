------------------------------ MODULE ListSeq ------------------------------
(***************************************************************************)
(* What lib/list.h promises of a list: a sequence of values, with elements *)
(* added at the end or after an index and removed one by one or all at     *)
(* once.  Indices start at 0, as in the code.  Module List is shown to     *)
(* implement it.                                                           *)
(***************************************************************************)
EXTENDS Integers, Sequences

CONSTANT Values

VARIABLE values

InsertAfter(s, i, v) == SubSeq(s, 1, i + 1) \o <<v>> \o SubSeq(s, i + 2, Len(s))
WithoutAt(s, i) == SubSeq(s, 1, i) \o SubSeq(s, i + 2, Len(s))

New(v) == values = <<>> /\ values' = <<v>>
Add(v) == values # <<>> /\ values' = Append(values, v)
AddAt(v, i) == values' = InsertAfter(values, i, v)
RemoveAt(i) == values' = WithoutAt(values, i)
Delete == values' = <<>>

SeqInit == values = <<>>

SeqNext ==
  \/ \E v \in Values : New(v) \/ Add(v)
  \/ \E i \in 0 .. Len(values) - 1 : RemoveAt(i) \/ \E v \in Values : AddAt(v, i)
  \/ Delete

SeqSpec == SeqInit /\ [][SeqNext]_values
=============================================================================
