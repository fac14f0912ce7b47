------------------------------ MODULE SeqFilter ------------------------------
(***************************************************************************)
(* The list filter both scripts build their lists with: a loop over a     *)
(* list that appends the items that pass a test, as in                     *)
(*     results = []                                                        *)
(*     for line in ...: if match: results.append(...)                      *)
(* and in the comprehension [r for r in results if r.status == ...].      *)
(* The test is the set K of the items it accepts.  kept[i] is the list    *)
(* after the first i items, so the filter is a recursive function over    *)
(* the prefixes, which the proof system can unfold (SelectSeq of the      *)
(* standard module Sequences is the same filter, but opaque to it).       *)
(***************************************************************************)
EXTENDS Naturals, Sequences

Keep(s, K) ==
  LET kept[i \in 0..Len(s)] ==
        IF i = 0 THEN <<>>
        ELSE IF s[i] \in K THEN Append(kept[i - 1], s[i]) ELSE kept[i - 1]
  IN  kept[Len(s)]

=============================================================================
