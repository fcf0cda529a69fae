--------------------------- MODULE MixTranslation ---------------------------
(* The translation to a CANN kernel (CannTranslation.cpp).  A kernel of one    *)
(* unit is printed operation by operation.  One that uses both the cube and    *)
(* the vector unit is matched against one shape - a matmul whose accumulator   *)
(* is moved to the vector unit, where a bias is added and a relu applied - and *)
(* printed from a template for it, or refused.                                 *)
(*                                                                             *)
(*   aic                    a region only the cube core of a launch runs       *)
(*   set_flag, wait_flag    the cube core's signal to its vector cores         *)
EXTENDS KernelEmission

Cube == "AiCore.Cube"
Vec == "AiCore.Vector"
KernelKind(k) ==
    LET units == {o.unit : o \in Range(k)} \ {""}
    IN  IF units = {} THEN "" ELSE IF units = {Cube, Vec} THEN "mix"
        ELSE IF units = {Cube} THEN "cube" ELSE "vec"

(* What the printer of a kernel of one unit insists on. *)
Printable(k) ==
    LET params == OfKind(k, {"arg", "output", "workspace", "tiling"})
    IN  /\ Len(params) >= 4
        /\ params[Len(params)].kind = "tiling" /\ params[Len(params) - 1].kind = "workspace"

(***************************************************************************)
(* Which unit a queue, a buffer or a tensor belongs to.                     *)
(***************************************************************************)
Position(k, v) ==
    CASE Kind(k, v) \in {"alloc", "temp"} -> Def(k, v).space
      [] Kind(k, v) \in {"alloc_tensor", "deque"} -> Def(k, Def(k, v).src[1]).space
      [] OTHER -> ""
Storage(k, v) ==
    CASE Position(k, v) \in {"A1", "A2", "B1", "B2", "CO1"} -> Cube
      [] Position(k, v) \in {"VECIN", "VECCALC", "VECOUT"} -> Vec
      [] OTHER -> ""

(* The destination of an operation is its first operand. *)
Operands(k, o) ==
    CASE o.kind \in {"move", "calc"} -> <<o.dst>> \o o.src
      [] o.kind \in {"enque", "free"} -> <<Def(k, o.src[1]).src[1]>> \o o.src
      [] o.kind \in {"alloc_tensor", "deque", "slice"} -> o.src
      [] OTHER -> <<>>
Defines(o) == o.kind \in {"alloc_tensor", "deque", "slice"}
UsersOf(k, v) == {o \in Range(k) : v \in Range(Operands(k, o))}
Enqueued(k, q) == {o.src[1] : o \in {x \in UsersOf(k, q) : x.kind = "enque"}}
Dequeued(k, q) == {o.id : o \in {x \in UsersOf(k, q) : x.kind = "deque"}}

Closed(S, Step(_)) ==
    LET C[X \in SUBSET Nat] == LET Y == X \cup UNION {Step(x) : x \in X} IN IF Y = X THEN X ELSE C[Y]
    IN  C[S]

(***************************************************************************)
(* The partition: an operation belongs to its unit; one without a unit is   *)
(* on the boundary if it touches the storage of both or if what one unit    *)
(* computes reaches the other through it.                                   *)
(***************************************************************************)
OriginatesFrom(k, v, unit) ==
    LET F[x \in Nat] == LET d == Def(k, x)
                        IN  IF d.unit # "" THEN d.unit = unit ELSE \E y \in Range(Operands(k, d)) : F[y]
    IN  F[v]
Reaches(k, v, unit, skip) ==
    LET R[x \in Nat] == \E u \in UsersOf(k, x) : /\ u.id # skip
                                                 /\ u.unit = unit \/ (u.unit = "" /\ Defines(u) /\ R[u.id])
    IN  R[v]
OnBoundary(k, o) ==
    LET touched == {Storage(k, v) : v \in Range(Operands(k, o)) \cup {o.id}}
        In(unit)  == \E v \in Range(Operands(k, o)) : OriginatesFrom(k, v, unit)
        Out(unit) == \/ Defines(o) /\ Reaches(k, o.id, unit, 0)
                     \/ \E v \in Range(Operands(k, o)) : Reaches(k, v, unit, o.id)
    IN  {Cube, Vec} \subseteq touched \/ (In(Cube) /\ Out(Vec)) \/ (In(Vec) /\ Out(Cube))

Partition(k) ==
    [k |-> k,
     cube     |-> SelectSeq(k, LAMBDA o : o.unit = Cube),
     vector   |-> SelectSeq(k, LAMBDA o : o.unit = Vec),
     boundary |-> SelectSeq(k, LAMBDA o : o.unit = "" /\ OnBoundary(k, o))]
Writers(ops, v) == {o \in Range(ops) : o.dst = v}
IdsOf(ops) == {o.id : o \in ops}

(* Values that cross into and out of the boundary.  The operations of the      *)
(* units and of the boundary define no values, so that what they exchange are  *)
(* tensors, told by their storage; a tensor out of a queue is also counted as  *)
(* coming from the operation that put it there.                                *)
Crossing(v, by) == [value |-> v, by |-> by]
CubeToBoundary(p) ==
    LET From(o) ==
            LET stored == SelectSeq(Operands(p.k, o), LAMBDA v : Storage(p.k, v) = Cube)
                puts   == SelectSeq(p.k, LAMBDA x : x.kind = "enque" /\ Kind(p.k, o.src[1]) = "deque" /\
                              Def(p.k, x.src[1]).src[1] = Def(p.k, o.src[1]).src[1])
            IN  [i \in DOMAIN stored |-> Crossing(stored[i], stored[i])]
                \o (IF puts = <<>> \/ Storage(p.k, o.src[1]) # Cube THEN <<>>
                    ELSE <<Crossing(o.src[1], puts[1].id)>>)
    IN  FlattenSeq([i \in DOMAIN p.boundary |-> From(p.boundary[i])])
BoundaryToVector(p) ==
    LET outs == SelectSeq(p.boundary, LAMBDA o : Storage(p.k, o.dst) = Vec)
    IN  [i \in DOMAIN outs |-> Crossing(outs[i].dst, outs[i].id)]

(***************************************************************************)
(* The chain: from the cube operations that lead to a value that crosses,   *)
(* to the vector operations that come of it or that those need.             *)
(***************************************************************************)
CubeAncestors(p, v) ==
    LET Back(x) == UNION {Range(o.src) : o \in Writers(p.cube, x)}
                   \cup (IF Kind(p.k, x) = "deque" THEN Enqueued(p.k, Def(p.k, x).src[1]) ELSE {})
                   \cup Range(Operands(p.k, Def(p.k, x)))
        values == Closed({v}, Back)
    IN  SelectSeq(p.cube, LAMBDA o : o.dst \in values)

VectorDescendants(p, v) ==
    LET uses(x) == {o \in Range(p.vector) : x \in Range(Operands(p.k, o))}
        Put(x) == {Operands(p.k, u)[1] : u \in {y \in UsersOf(p.k, x) : y.kind = "enque"}}
        Forward(x) == UNION {Dequeued(p.k, q) : q \in Put(x)}
                      \cup {o.dst : o \in {u \in uses(x) : Storage(p.k, u.dst) = Vec}}
                      \cup {u.id : u \in {y \in UsersOf(p.k, x) : Defines(y)}}
    IN  IdsOf(UNION {uses(x) : x \in Closed({v}, Forward)})
VectorNeeds(p, ids) ==
    LET Needed(i) == UNION {IdsOf(Writers(p.vector, x)) : x \in Range(Operands(p.k, Def(p.k, i)))}
    IN  Closed(ids, Needed)

(* The payload of a crossing: from a queue of CO1, by the boundary's copy, to a *)
(* tensor of a queue of VECIN.                                                  *)
Payload(p, in, out) ==
    /\ Kind(p.k, in.by) = "enque" /\ Position(p.k, Def(p.k, in.by).src[1]) = "CO1"
    /\ \E o \in Range(p.boundary) :
          /\ o.src[1] = in.value /\ o.dst = out.value /\ o.id = out.by
          /\ Kind(p.k, in.value) = "deque"
          /\ Def(p.k, in.value).src = Def(p.k, Def(p.k, in.by).src[1]).src
          /\ Kind(p.k, out.value) = "alloc_tensor" /\ Position(p.k, out.value) = "VECIN"

(* Without values of their own the boundary's operations are not linked: one    *)
(* alone makes a linear path.                                                   *)
Linear(p, out) == {out.by} = IdsOf(Range(p.boundary))
Covers(p, in, out) ==
    LET seeds == IF ~Payload(p, in, out) THEN {}
                 ELSE {v \in UNION {Range(Operands(p.k, o)) : o \in Range(p.vector)} :
                          \/ Storage(p.k, v) = Storage(p.k, in.value)
                          \/ OriginatesFrom(p.k, v, Storage(p.k, in.value))}
    IN  VectorNeeds(p, UNION {VectorDescendants(p, v) : v \in seeds \cup {out.value}})
            = IdsOf(Range(p.vector))

(* Why the kernel is not one chain, or the pair of crossings that makes it one. *)
Failed(reasons) == [reasons |-> reasons, in |-> Crossing(0, 0), out |-> Crossing(0, 0)]
Chained(covering, linear, chains) ==
    IF chains # <<>> THEN [reasons |-> {}, in |-> chains[1][1], out |-> chains[1][2]]
    ELSE Failed((IF covering # <<>> THEN {"payload"} ELSE {"extra vector ops"})
                \cup (IF linear = <<>> THEN {"not linear"} ELSE {}))
Narrowed(p, pairs) ==
    LET Lin(x) == Linear(p, x[2])
        Cov(x) == CubeAncestors(p, x[1].value) # <<>> /\ Covers(p, x[1], x[2])
        Pay(x) == Payload(p, x[1], x[2])
        linear == SelectSeq(pairs, Lin)
        Among(covering) == Chained(covering, linear, SelectSeq(covering, Pay))
    IN  Among(SelectSeq(linear, Cov))
Pairs(ins, outs) ==
    FlattenSeq([i \in DOMAIN ins |-> [j \in DOMAIN outs |-> <<ins[i], outs[j]>>]])
Validation(p) ==
    LET empty   == {r \in {"cube", "boundary", "vector"} : p[r] = <<>>}
        ordered == /\ Pos(p.k, Last(p.cube).id) < Pos(p.k, p.boundary[1].id)
                   /\ Pos(p.k, Last(p.boundary).id) < Pos(p.k, p.vector[1].id)
        Checked(pairs) ==
            IF ordered /\ pairs # <<>> THEN Narrowed(p, pairs)
            ELSE Failed((IF ordered THEN {} ELSE {"invalid ordering"})
                        \cup (IF pairs = <<>> THEN {"missing crossing"} ELSE {}))
    IN  IF empty # {} THEN Failed({"missing region"})
        ELSE Checked(Pairs(CubeToBoundary(p), BoundaryToVector(p)))

(***************************************************************************)
(* What the template needs to know, read off the kernel.                    *)
(***************************************************************************)
Signature(k) ==
    LET outs == OfKind(k, {"output"})
    IN  /\ NumInputs(k) = 4
        /\ [i \in 1..4 |-> Args(k)[i].rank] = <<2, 2, 1, 2>>
        /\ Len(outs) = 1 /\ outs[1].rank = 2

HasBiasAdd(p) ==
    LET wide == {o.dst : o \in {x \in Range(p.vector) : x.fn = "broadcast"}}
    IN  \E o \in Range(p.vector) : o.fn = "add" /\ Range(Operands(p.k, o)) \cap wide # {}

(* The constant the values are multiplied with, when there is a maximum. *)
Slopes(p) ==
    SelectSeq(p.k, LAMBDA o :
        /\ o.fn = "duplicate" /\ Storage(p.k, o.dst) = Vec
        /\ \E x \in Range(p.vector) : x.fn = "max"
        /\ \E u \in UsersOf(p.k, o.dst) : u.fn = "mul" /\ Storage(p.k, u.dst) = Vec)
Epilogue(p) == IF Slopes(p) = <<>> THEN "" ELSE IF Slopes(p)[1].scalar = 0 THEN "relu" ELSE "leaky_relu"

(* The fallback takes the first transfer there is, whatever is around it. *)
LegacyInputs(p) ==
    LET found == SelectSeq(p.boundary, LAMBDA o :
            \E x \in Range(p.k) : /\ x.kind = "enque"
                                  /\ Payload(p, Crossing(o.src[1], x.id), Crossing(o.dst, o.id)))
    IN  IF found = <<>> THEN {} ELSE {found[1].src[1]}

(* The values whose cube operations the template stands for: {} if none fits.  *)
ChainInputs(p, v) ==
    CASE v.reasons = {} -> {v.in.value}
      [] v.reasons # {} /\ "extra vector ops" \in v.reasons -> {}
      [] v.reasons # {} /\ "extra vector ops" \notin v.reasons -> LegacyInputs(p)

(* The template has room for one mmad, and for the vector operations it stands *)
(* for; other operations of the cube unit are left behind.                     *)
Supported(p) ==
    /\ Signature(p.k) /\ Epilogue(p) # ""
    /\ \E in \in ChainInputs(p, Validation(p)) :
          LET ops == CubeAncestors(p, in) IN Len(ops) = 1 /\ ops[1].fn = "mmad"
    /\ \A o \in Range(p.vector) : o.fn \in {"broadcast", "add", "duplicate", "mul", "max"}

(***************************************************************************)
(* The template.  The cube core computes the whole product into the output; *)
(* each of its two vector cores takes its half of it from there, applies    *)
(* the epilogue and puts it back.                                           *)
(***************************************************************************)
AicPart(p, n, out) ==
    LET bias == IF HasBiasAdd(p) THEN <<Argument(p.k, 3)>> ELSE <<>>
    IN  <<Op(n, "aic", 0, <<>>),
          Calc(n + 1, n, Cube, "iterate_all", <<Argument(p.k, 1), Argument(p.k, 2)>> \o bias, out),
          Op(n + 2, "set_flag", n, <<>>), Op(n + 3, "yield", n, <<>>)>>

AivPart(p, n, out) ==
    LET slice == n + 1   in == n + 2   res == n + 3
    IN  <<Op(n, "block", 0, [axis |-> "m"]),
          Op(slice, "flat", n, [src |-> <<out>>, over |-> {n}]),
          Op(n + 4, "wait_flag", n, <<>>),
          AllocTensor(n + 5, n, in), Move(n + 6, n, slice, n + 5), Enque(n + 7, n, n + 5),
          Deque(n + 8, n, in), AllocTensor(n + 9, n, res),
          [Calc(n + 10, n, Vec, Epilogue(p), <<n + 8>>, n + 9) EXCEPT !.scalar = Slopes(p)[1].scalar],
          Enque(n + 11, n, n + 9), FreeTensor(n + 12, n, n + 8),
          Deque(n + 13, n, res), Move(n + 14, n, n + 13, slice), FreeTensor(n + 15, n, n + 13),
          Op(n + 16, "yield", n, <<>>)>>

Template(p) ==
    LET out  == OfKind(p.k, {"output"})[1]
        n    == Fresh(p.k)
        half == [axes |-> out.axes \ {"m"}]
    IN  SubSeq(Args(p.k), 1, 3) \o OfKind(p.k, {"output", "workspace", "tiling"})
        \o <<Op(n + 6, "alloc", 0, half @@ [space |-> "VECIN"]),
             Op(n + 7, "alloc", 0, half @@ [space |-> "VECOUT"])>>
        \o AicPart(p, n, out.id) \o AivPart(p, n + 4, out.id) \o <<Last(p.k)>>
=============================================================================
