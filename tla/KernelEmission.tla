--------------------------- MODULE KernelEmission ---------------------------
(* What prepares a kernel for emission: ascendc-prepare-for-emit              *)
(* (AscendCPrepareForEmitPass.cpp) and canonicalize-cann-signature            *)
(* (CanonicalizeCannSignaturePass.cpp).                                        *)
(*                                                                            *)
(*   flat     a pointer into the GM buffer src[1], at the offsets of the      *)
(*            loops `over' and the constants `at'; what is read or written    *)
(*            there is contiguous                                             *)
(*   memmove  copies as many elements as the buffer behind src[1] has         *)
(*   tiling   the struct with the tile sizes and the sizes of the arguments   *)
(*   output   an argument that was a buffer of the function                   *)
EXTENDS AscendCLowering

Roots == {"arg", "output"}
GMView(k, v) == Kind(k, v) = "subview" /\ Space(k, v) = "GM"

(* The arguments whose sizes the kernel needs: those it takes pointers into.   *)
DimKeys(k) ==
    LET used == UNION {{o.dst} \cup Range(o.src) : o \in Range(OfKind(k, {"move"}))}
    IN  {Root(k, v) : v \in used} \cap Ids(Args(k))
AddTilingArg(k) ==
    IF DimKeys(k) = {} THEN k
    ELSE AtStart(k, 0, <<Op(Fresh(k), "tiling", 0, [over |-> DimKeys(k)])>>)

(* The GM allocs of the function's own block become its last arguments. *)
PromoteAllocs(k) ==
    LET Top(o) == o.kind = "alloc" /\ o.space = "GM" /\ o.in = 0
        outs   == SelectSeq(k, Top)
        params == OfKind(k, {"arg", "tiling"})
    IN  params \o [i \in DOMAIN outs |-> [outs[i] EXCEPT !.kind = "output"]]
        \o SelectSeq(k, LAMBDA o : ~Top(o) /\ o.kind \notin {"arg", "tiling"})

(* The offsets of a chain of views, added up; 0 when it starts elsewhere.      *)
ChainLoops(k, v) ==
    LET C[x \in Nat] == IF Kind(k, x) = "subview" THEN Def(k, x).over \cup C[Def(k, x).src[1]] ELSE {}
    IN  C[v]
ChainConstants(k, v) ==
    LET C[x \in Nat] == IF Kind(k, x) = "subview" THEN Def(k, x).at @@ C[Def(k, x).src[1]] ELSE <<>>
    IN  C[v]
FlatPointer(k, id, in, v) ==
    Op(id, "flat", in, [src |-> <<Root(k, v)>>, over |-> ChainLoops(k, v), at |-> ChainConstants(k, v)])

SetGlobalBuffer(k, o) ==
    LET views == SelectSeq(o.src \o <<o.dst>>, LAMBDA v : GMView(k, v) /\ Kind(k, Root(k, v)) \in Roots)
        n     == Fresh(k)
        to    == Before(k, o.id, <<FlatPointer(k, n, o.in, views[1])>>)
    IN  IF views = <<>> THEN k
        ELSE Updated(to, o.id, LAMBDA x :
                [x EXCEPT !.src = [j \in DOMAIN @ |-> IF @[j] = views[1] THEN n ELSE @[j]],
                          !.dst = IF @ = views[1] THEN n ELSE @])
FlattenPointers(k) == FoldLeft(SetGlobalBuffer, k, OfKind(k, {"move"}))

DropDeadViews(k) == SelectSeq(k, LAMBDA o : o.kind # "subview" \/ Users(k, o.id) # <<>>)

(* A copy within GM, of which only the sizes of a promoted source are known,   *)
(* and only views of an argument itself can be resolved in two dimensions.     *)
Resolved(k, v) ==
    /\ Kind(k, Root(k, v)) \in Roots
    /\ v = Root(k, v) \/ Rank(k, v) = 1 \/ Def(k, v).src[1] = Root(k, v)
CopyToMemmove(k, o) ==
    LET n == Fresh(k)
        from == FlatPointer(k, n, o.in, o.src[1])
        to   == FlatPointer(k, n + 1, o.in, o.dst)
    IN  IF Resolved(k, o.src[1]) /\ Resolved(k, o.dst) /\ Kind(k, from.src[1]) = "output"
        THEN Replace(k, o.id, <<from, to, Op(n + 2, "memmove", o.in, [src |-> <<n>>, dst |-> n + 1])>>)
        ELSE k
MoveWithinGM(k) ==
    FoldLeft(CopyToMemmove, k, SelectSeq(k, LAMBDA o :
        o.kind = "copy" /\ Space(k, o.src[1]) = "GM" /\ Space(k, o.dst) = "GM"))

DropReturned(k) == [i \in DOMAIN k |-> IF k[i].kind = "return" THEN [k[i] EXCEPT !.src = <<>>] ELSE k[i]]

Prepared(k) ==
    DropReturned(DropDeadViews(MoveWithinGM(DropDeadViews(FlattenPointers(
        PromoteAllocs(AddTilingArg(k)))))))

(***************************************************************************)
(* The order CANN expects: inputs, outputs, workspace, tiling.  A kernel    *)
(* without the tiling argument is refused.                                  *)
(***************************************************************************)
HasTiling(k) == OfKind(k, {"tiling"}) # <<>>
NumInputs(k) == Len(Args(k))
Canonical(k) ==
    LET tiling == OfKind(k, {"tiling"})
        params == OfKind(k, {"arg", "output"})
    IN  params \o <<Op(Fresh(k), "workspace", 0, <<>>)>> \o tiling
        \o SelectSeq(k, LAMBDA o : o.kind \notin {"arg", "output", "tiling"})
=============================================================================
