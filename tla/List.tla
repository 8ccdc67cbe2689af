-------------------------------- MODULE List --------------------------------
(***************************************************************************)
(* transaction/List.js: an array with a lock and an index.  Indices are    *)
(* counted from 1.  setList() and push() throw on a locked list, so their  *)
(* callers have ~ l.locked in the guard; clear() and set() do not look at  *)
(* the lock.                                                               *)
(***************************************************************************)
EXTENDS Integers, Sequences

NewList == [list |-> <<>>, locked |-> FALSE, index |-> 1]

ListType(S) == [list : Seq(S), locked : BOOLEAN, index : Nat \ {0}]

Elements(l) == {l.list[i] : i \in DOMAIN l.list}
IsEmpty(l) == l.list = <<>>
Current(l) == l.list[l.index]
CurrentOr(l, none) == IF IsEmpty(l) THEN none ELSE Current(l)

(* setList(): also the index starts anew. *)
SetList(l, s) == [l EXCEPT !.list = s, !.index = 1]
Push(l, x) == [l EXCEPT !.list = Append(@, x)]
SetLocked(l) == [l EXCEPT !.locked = TRUE]
LockedIf(b, l) == [l EXCEPT !.locked = @ \/ b]
Clear(l) == [l EXCEPT !.list = <<>>, !.index = 1]

(* set(): an index one past the end appends. *)
SetAt(l, i, x) ==
    [l EXCEPT !.list = IF i = Len(l.list) + 1 THEN Append(@, x) ELSE [@ EXCEPT ![i] = x]]

(* setIfAbsent(), where "none" stands for null *)
SetIfAbsent(l, i, x, none) ==
    IF i = Len(l.list) + 1 \/ l.list[i] = none THEN SetAt(l, i, x) ELSE l

(* advance(); the index of an empty list becomes NaN, which reads the same  *)
(* undefined element as before.                                            *)
Advanced(l) == IF IsEmpty(l) THEN l ELSE [l EXCEPT !.index = (@ % Len(l.list)) + 1]
==============================================================================
