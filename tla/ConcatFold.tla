----------------------------- MODULE ConcatFold -----------------------------
(* The ascendc-fold-concat-alloc pass (AscendCFoldConcatAllocPass.cpp): the   *)
(* loops that compute the parts of a concatenation write to their places in   *)
(* the returned buffer, instead of buffers that are copied there at the end.  *)
EXTENDS KernelIR

OutAlloc(k) ==
    IF Len(Last(k).src) = 1 /\ Kind(k, Last(k).src[1]) = "alloc" THEN Last(k).src[1] ELSE 0

(* The alloc that a copied value is, or that the loop it comes from carries. *)
SrcAlloc(k, v) ==
    CASE Kind(k, v) = "alloc" -> v
      [] Kind(k, v) = "for" /\ Kind(k, Def(k, v).src[1]) = "alloc" -> Def(k, v).src[1]
      [] OTHER -> 0

(* Nothing else in the function's own block may use that alloc. *)
ConcatCopy(k, c) ==
    /\ c.kind = "copy"
    /\ Kind(k, c.dst) = "subview" /\ Def(k, c.dst).src[1] = OutAlloc(k)
    /\ SrcAlloc(k, c.src[1]) # 0
    /\ \A u \in Range(Users(k, SrcAlloc(k, c.src[1]))) :
          u.in # 0 \/ u.id = c.src[1] \/ (Kind(k, c.src[1]) = "alloc" /\ u.id = c.id)

(* The copies in front of the return, last one first, each with or without its *)
(* subview right before it; the first operation that is neither ends the scan. *)
ConcatCopies(k) ==
    LET block == Body(k, 0)
        Scan[i \in Nat] ==
            IF i = 0 THEN <<>>
            ELSE IF ~ConcatCopy(k, block[i]) THEN <<>>
            ELSE <<block[i]>> \o
                 Scan[IF i > 1 THEN IF block[i - 1].id = block[i].dst THEN i - 2 ELSE i - 1 ELSE 0]
    IN  IF OutAlloc(k) = 0 THEN <<>> ELSE Scan[Len(block) - 1]

(* The returned alloc and its subviews move before the first of the loops. *)
InsertBefore(k, copies) ==
    LET loops == {c.src[1] : c \in {x \in Range(copies) : Kind(k, x.src[1]) = "for"}}
    IN  IF loops = {} THEN Pos(k, OutAlloc(k)) ELSE Min({Pos(k, l) : l \in loops})
OutAllocFirst(k, copies) ==
    LET moved == <<Def(k, OutAlloc(k))>> \o [i \in DOMAIN copies |-> Def(k, copies[i].dst)]
        ids   == {o.id : o \in Range(moved)}
        ahead == SubSeq(k, 1, InsertBefore(k, copies) - 1)
    IN  Splice(Erase(k, ids), Len(Erase(ahead, ids)), moved)

(* What the loop carries, and its result, become the subview. *)
Redirected(k, c) ==
    LET a    == SrcAlloc(k, c.src[1])
        uses == ReplaceUses(k, c.src[1], c.dst)
        init == IF Kind(k, c.src[1]) = "for"
                THEN Updated(uses, c.src[1], LAMBDA o : [o EXCEPT !.src = <<c.dst>>]) ELSE uses
        done == Erase(init, {c.id})
    IN  IF Users(done, a) = <<>> THEN Erase(done, {a}) ELSE done

Folded(k) ==
    IF ConcatCopies(k) = <<>> THEN k
    ELSE FoldLeft(Redirected, OutAllocFirst(k, ConcatCopies(k)), ConcatCopies(k))

(* The canonicalizer runs next: a buffer a loop carries along unchanged is used *)
(* directly.                                                                   *)
Canonicalized(k) ==
    LET Uncarried(x, l) ==
            Updated(ReplaceUses(x, l.id, Def(x, l.id).src[1]), l.id, LAMBDA o : [o EXCEPT !.src = <<>>])
    IN  FoldLeft(Uncarried, k, SelectSeq(k, LAMBDA o : o.kind = "for" /\ o.src # <<>>))
=============================================================================
