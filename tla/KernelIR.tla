------------------------------ MODULE KernelIR ------------------------------
(* The intermediate representation the AscendC passes transform: a bufferized *)
(* kernel function, as the sequence of its operations in textual order.       *)
(*                                                                            *)
(* `in' is the loop whose body holds an operation, 0 for the function's own   *)
(* block; a block ends with its terminator ("yield", "return").  An           *)
(* operation's identifier also names the value it defines, and the function's *)
(* arguments are the "arg" operations the sequence starts with.  Sizes are    *)
(* abstracted to axes: a buffer has an element for every binding of its axes  *)
(* to 0 and 1, and a subview whose offsets use the induction variable of a    *)
(* loop over an axis, or a constant (`at'), keeps the rest.  A loop that       *)
(* carries a buffer names it in src, and its identifier then stands for the    *)
(* carried value and the result.  Constants, dim operations and element types  *)
(* are left out.                                                              *)
EXTENDS Integers, Sequences, SequencesExt, FiniteSets, FiniteSetsExt, TLC

Blank == [id |-> 0, kind |-> "", in |-> 0, src |-> <<>>, dst |-> 0,
          space |-> "GM", axes |-> {}, rank |-> 2, axis |-> "", trip |-> 2,
          over |-> {}, at |-> <<>>, sums |-> {}, unit |-> "", fn |-> "", body |-> <<>>,
          prologue |-> <<>>, epilogue |-> <<>>, when |-> 0, scalar |-> 0]

Op(id, kind, in, fields) == fields @@ [id |-> id, kind |-> kind, in |-> in] @@ Blank

Ids(k) == {k[i].id : i \in DOMAIN k}
Pos(k, v) == CHOOSE i \in DOMAIN k : k[i].id = v
Def(k, v) == IF v \in Ids(k) THEN k[Pos(k, v)] ELSE Blank
Kind(k, v) == Def(k, v).kind
Fresh(k) == Max(Ids(k)) + 1
OfKind(k, K) == SelectSeq(k, LAMBDA o : o.kind \in K)
Args(k) == OfKind(k, {"arg"})
Argument(k, n) == IF n > Len(Args(k)) THEN 0 ELSE Args(k)[n].id
Returned(k) == Range(Last(k).src)

(* The loops around a block, innermost first. *)
Around(k, b) ==
    LET A[x \in Nat] == IF x = 0 THEN <<>> ELSE <<x>> \o A[Def(k, x).in]
    IN  A[b]
Inside(k, o, l) == l \in Range(Around(k, o.in))
Body(k, b) == SelectSeq(k, LAMBDA o : o.in = b)
Terminator(k, b) == Last(Body(k, b)).id

(* The last position of an operation, its region included. *)
End(k, v) == IF Kind(k, v) \in {"for", "block", "aic"} THEN Pos(k, Terminator(k, v)) ELSE Pos(k, v)

Splice(k, n, ops) == SubSeq(k, 1, n) \o ops \o SubSeq(k, n + 1, Len(k))
Before(k, v, ops) == Splice(k, Pos(k, v) - 1, ops)
After(k, v, ops) == Splice(k, End(k, v), ops)
AtStart(k, b, ops) == Splice(k, IF b = 0 THEN Len(Args(k)) ELSE Pos(k, b), ops)
AtEnd(k, b, ops) == Before(k, Terminator(k, b), ops)
Erase(k, V) == SelectSeq(k, LAMBDA o : o.id \notin V)
Updated(k, v, F(_)) == [i \in DOMAIN k |-> IF k[i].id = v THEN F(k[i]) ELSE k[i]]
Reading(o, j, v) == [o EXCEPT !.src = [i \in DOMAIN @ |-> IF i = j THEN v ELSE @[i]]]
Replace(k, v, ops) == Erase(Before(k, v, ops), {v})

(* The operations that use a value: they read src and write dst. *)
Users(k, v) == SelectSeq(k, LAMBDA o : v = o.dst \/ v \in Range(o.src))
ReplaceUses(k, v, w) ==
    [i \in DOMAIN k |-> [k[i] EXCEPT !.src = [j \in DOMAIN @ |-> IF @[j] = v THEN w ELSE @[j]],
                                    !.dst = IF @ = v THEN w ELSE @]]

(* Views: the value a chain of subviews starts from, its space and its axes. *)
Alias(o) == o.kind = "subview" \/ (o.kind = "for" /\ o.src # <<>>)
Root(k, v) ==
    LET R[x \in Nat] == IF Alias(Def(k, x)) THEN R[Def(k, x).src[1]] ELSE x
    IN  R[v]
Space(k, v) == Def(k, Root(k, v)).space
Rank(k, v) == Def(k, Root(k, v)).rank
(* Buffers are row-major, their axes in this order. *)
AxisRank == [half |-> 5, m |-> 4, mi |-> 3, k |-> 2, n |-> 1]
AxesOf(k, loops) == {Def(k, l).axis : l \in loops}
Shape(k, v) ==
    LET S[x \in Nat] == LET o == Def(k, x)
                        IN  IF Alias(o)
                            THEN S[o.src[1]] \ (AxesOf(k, o.over) \cup DOMAIN o.at) ELSE o.axes
    IN  S[v]
=============================================================================
