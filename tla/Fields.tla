-------------------------------- MODULE Fields --------------------------------
(***************************************************************************)
(* Files as sequences of fields, for the formats of src/bytecode and       *)
(* src/tlb: an integer of any width is one field, and so is a string with  *)
(* its length.  A size or an offset in a file counts fields.  Readers ask  *)
(* for the end of the file at every field: a field of which only a part   *)
(* is on disk is as good as one that is missing.                           *)
(***************************************************************************)
EXTENDS Integers, SequencesExt

-----------------------------------------------------------------------------
(* Writers                                                                 *)

Flag(b) == IF b THEN 1 ELSE 0

Each(items, Write(_)) == FlattenSeq([k \in DOMAIN items |-> Write(items[k])])
Counted(items, Write(_)) == <<Len(items)>> \o Each(items, Write)

-----------------------------------------------------------------------------
(* Readers: each takes fields from what is left of the file, or fails      *)

Failed == [ok |-> FALSE]
Got(value, left) == [ok |-> TRUE, value |-> value, left |-> left]

Then(read, Goes_on(_, _)) == IF read.ok THEN Goes_on(read.value, read.left) ELSE Failed

\* ReadIntegral and ReadString
Take(n, left) ==
    IF Len(left) < n THEN Failed ELSE Got(SubSeq(left, 1, n), SubSeq(left, n + 1, Len(left)))

RECURSIVE Items(_, _, _)
Items(n, Read(_), left) ==
    IF n = 0 THEN Got(<<>>, left)
    ELSE Then(Read(left), LAMBDA item, rest :
           Then(Items(n - 1, Read, rest), LAMBDA items, end : Got(<<item>> \o items, end)))
List(Read(_), left) == Then(Take(1, left), LAMBDA count, rest : Items(count[1], Read, rest))

\* A record whose fields are all in one place.
Plain(n, Make(_), left) == Then(Take(n, left), LAMBDA v, rest : Got(Make(v), rest))

ReadString(left) == Plain(1, LAMBDA v : v[1], left)
=============================================================================
