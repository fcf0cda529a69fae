------------------------------ MODULE MixTiling ------------------------------
(* What a mix kernel is launched with.  The translated kernel takes its        *)
(* buffers by position and is told by the tiling how to compute its matmul;     *)
(* the buffers are read off the text the translation started from, less those  *)
(* nothing refers to, and the tiling is made for those.                         *)
(*                                                                             *)
(* Sizes are axes here: two dimensions are of one size if they are of one axis. *)
(* Element types are left out, and so are transposed and batched matmuls, which *)
(* the template has no room for.                                                *)
EXTENDS MixTranslation

(***************************************************************************)
(* The meaning of the matmul, noted before its operations are lowered: {}   *)
(* if it is not one the pass knows.                                         *)
(***************************************************************************)
IdentityMemRef(k, v) == Rank(k, v) = 2 /\ Kind(k, v) # "subview"
Generics(k, inputs) ==
    {o \in Range(k) : o.kind = "generic" /\ o.sums = {} /\ o.unit = Vec /\ Rank(k, o.dst) = 2
                      /\ [i \in DOMAIN o.src |-> Rank(k, o.src[i])] = inputs}
FnsOf(o) == [i \in DOMAIN o.body |-> o.body[i].fn]
BiasAdds(k) == {o \in Generics(k, <<2, 1>>) : FnsOf(o) = <<"add">>}
LeakyRelus(k) == {o \in Generics(k, <<2>>) : FnsOf(o) = <<"mul", "max">>}
UniqueChained(v, generics) ==
    LET S == {o \in generics : o.src[1] = v} IN IF Cardinality(S) = 1 THEN S ELSE {}

MatmulSemantics(k) ==
    LET matmuls == OfKind(k, {"matmul"})
        out     == matmuls[1].dst
        bias    == UniqueChained(out, BiasAdds(k))
        current == IF bias = {} THEN out ELSE (CHOOSE o \in bias : TRUE).dst
    IN  IF /\ KernelKind(k) = "mix" /\ Len(matmuls) = 1 /\ matmuls[1].unit = Cube
           /\ \A v \in Range(matmuls[1].src) \cup {out} : IdentityMemRef(k, v)
           /\ UniqueChained(current, LeakyRelus(k)) # {} => bias # {}
        THEN {[hasBias |-> bias # {}]} ELSE {}

(***************************************************************************)
(* The interface of the kernel, and the tiling for it.                      *)
(***************************************************************************)
Parameters(k) == OfKind(k, {"arg", "output", "workspace", "tiling"})
ReferencedInBody(k, o) == \E x \in Range(k) : o.id \in Range(x.src) \cup {x.dst}
MixAbi(k) ==
    LET InUse(from, to) == SelectSeq(SubSeq(Parameters(k), from, to), LAMBDA o : ReferencedInBody(k, o))
    IN  [inputs  |-> InUse(1, NumInputs(k)),
         outputs |-> InUse(NumInputs(k) + 1, Len(Parameters(k)) - 2)]

Dims(o) == SetToSortSeq(o.axes, LAMBDA a, b : AxisRank[a] > AxisRank[b])
IsMatmul(a, b, c) == Len(a) = 2 /\ Len(b) = 2 /\ c = <<a[1], b[2]>> /\ a[2] = b[1]

(* What is asked of the tiling, {} if nothing can be: without a note on the     *)
(* matmul a third input is taken for its bias.                                  *)
MatmulTilingRequest(abi, noted) ==
    LET in      == [i \in DOMAIN abi.inputs |-> Dims(abi.inputs[i])]
        c       == Dims(abi.outputs[1])
        hasBias == IF noted = {} THEN Len(in) = 3 ELSE \E m \in noted : m.hasBias
    IN  IF /\ Len(in) \in {2, 3} /\ Len(abi.outputs) = 1 /\ IsMatmul(in[1], in[2], c)
           /\ hasBias => Len(in) = 3 /\ in[3] = <<c[2]>>
        THEN {[hasBias |-> hasBias]} ELSE {}

(* The tiling library is external: it may find a tiling with the splits of the  *)
(* native plan or without them.                                                 *)
Splits == {"native", "api"}
MatmulApiTiling(request, split, found) == IF split \in found THEN request ELSE {}
DispatchMatmulTiling(request, found) ==
    LET native == MatmulApiTiling(request, "native", found)
    IN  IF native # {} THEN native ELSE MatmulApiTiling(request, "api", found)

(* If it fails in this process, a helper is run: it sees three inputs, one      *)
(* output and no note.                                                          *)
HelperAbi(abi) == [inputs |-> SubSeq(abi.inputs, 1, Min({3, Len(abi.inputs)})), outputs |-> <<abi.outputs[1]>>]
HelperTiling(abi, found) ==
    IF Len(abi.inputs) < 2 \/ abi.outputs = <<>> THEN {}
    ELSE DispatchMatmulTiling(MatmulTilingRequest(HelperAbi(abi), {}), found)
MixDirectTiling(abi, noted, found) ==
    LET inProcess == DispatchMatmulTiling(MatmulTilingRequest(abi, noted), found)
    IN  IF inProcess # {} THEN inProcess ELSE HelperTiling(abi, found)

MixTilings(p, noted, found) ==
    LET abi == MixAbi(p.k)
    IN  IF Supported(p) /\ abi.inputs # <<>> /\ abi.outputs # <<>>
        THEN MixDirectTiling(abi, noted, found) ELSE {}

(* The launch: the kernel's parameters become the live buffers, in their order. *)
(* A bias the tiling makes no room for leaves the product undefined.            *)
Launched(t, abi, tiling) ==
    LET n     == Len(Parameters(t))
        given == abi.inputs \o abi.outputs \o SubSeq(t, n - 1, n)
        Bound(v) == IF v \notin Ids(Parameters(t)) THEN v
                    ELSE IF Pos(t, v) > Len(given) THEN 0 ELSE given[Pos(t, v)].id
        Unbiased(o) == o.fn = "iterate_all" /\ Len(o.src) = 3 /\ ~tiling.hasBias
        InBody(o) == [o EXCEPT !.src = [i \in DOMAIN @ |-> Bound(@[i])], !.dst = Bound(@),
                             !.fn = IF Unbiased(o) THEN "undefined" ELSE @]
    IN  given \o [i \in 1..(Len(t) - n) |-> InBody(t[n + i])]
=============================================================================
