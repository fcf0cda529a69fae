--------------------------- MODULE AscendCLowering ---------------------------
(* The linalg-to-ascendc pass (LinalgToAscendC/): copies and compute           *)
(* operations of a placed kernel become AscendC operations on local tensors.   *)
(* Every on-chip buffer owns one queue of depth 1, named by its alloc.         *)
(*                                                                             *)
(*   alloc_tensor, deque   define a tensor of the queue src[1]                 *)
(*   enque, free           hand the tensor src[1] on, or back                  *)
(*   slice                 a part of the memory of the queue src[1]            *)
(*   move                  copies src[1] to dst, between GM and tensors        *)
(*   calc                  applies fn to src, or to a constant, and writes     *)
(*                         dst; has the unit of the operation it is from       *)
(*   temp                  an on-chip temporary (a tbuf) without a queue       *)
(*                                                                             *)
(* A conversion works on c.k, the kernel, and c.live, which gives the tensor   *)
(* that stays dequeued for a buffer.                                           *)
EXTENDS BufferPlacement

(* One queue per on-chip alloc; there is none for a buffer in GM. *)
Queue(k, v) == IF Space(k, v) # "GM" /\ Kind(k, Root(k, v)) = "alloc" THEN Root(k, v) ELSE 0
Live(c, v) == IF Root(c.k, v) \in DOMAIN c.live THEN c.live[Root(c.k, v)] ELSE 0

AllocTensor(id, in, q) == Op(id, "alloc_tensor", in, [src |-> <<q>>])
Deque(id, in, q) == Op(id, "deque", in, [src |-> <<q>>])
Enque(id, in, t) == Op(id, "enque", in, [src |-> <<t>>])
FreeTensor(id, in, t) == Op(id, "free", in, [src |-> <<t>>])
Move(id, in, from, to) == Op(id, "move", in, [src |-> <<from>>, dst |-> to])
Calc(id, in, unit, fn, from, to) ==
    Op(id, "calc", in, [unit |-> unit, fn |-> fn, src |-> from, dst |-> to])

(***************************************************************************)
(* Data movement.                                                           *)
(***************************************************************************)
LoadToL1(c, o) ==
    LET n == Fresh(c.k)
    IN  [c EXCEPT !.k = Replace(@, o.id,
            <<AllocTensor(n, o.in, Queue(c.k, o.dst)), Move(n + 1, o.in, o.src[1], n),
              Enque(n + 2, o.in, n)>>)]

(* A mutant: the tensor goes back to its queue before the block has used it. *)
LoadToVecinFreed(c, o) ==
    LET n == Fresh(c.k)
        q == Queue(c.k, o.dst)
        k == Replace(c.k, o.id,
                <<AllocTensor(n, o.in, q), Move(n + 1, o.in, o.src[1], n),
                  Enque(n + 2, o.in, n), Deque(n + 3, o.in, q), FreeTensor(n + 4, o.in, n + 3)>>)
    IN  [k |-> k, live |-> (Root(c.k, o.dst) :> n + 3) @@ c.live]
(* The tensor is dequeued at once and stays live for the rest of the block. *)
LoadToVecin(c, o) ==
    LET n == Fresh(c.k)
        q == Queue(c.k, o.dst)
        k == Replace(c.k, o.id,
                <<AllocTensor(n, o.in, q), Move(n + 1, o.in, o.src[1], n),
                  Enque(n + 2, o.in, n), Deque(n + 3, o.in, q)>>)
    IN  [k |-> AtEnd(k, o.in, <<FreeTensor(n + 4, o.in, n + 3)>>),
         live |-> (Root(c.k, o.dst) :> n + 3) @@ c.live]

(* The outermost loop around o that does not hold the operation that defines a. *)
OutermostForOutside(k, o, a) ==
    LET loops == SelectSeq(Around(k, o.in), LAMBDA l : l \notin Range(Around(k, Def(k, a).in)))
    IN  IF loops = <<>> THEN 0 ELSE Last(loops)

(* The source tensor spans the loop the copy is hoisted out of; the load      *)
(* starts at the tensor's first element whatever view the copy has.           *)
LoadToL0(c, o) ==
    LET n == Fresh(c.k)
        q == Queue(c.k, o.src[1])
        f == OutermostForOutside(c.k, o, Root(c.k, o.src[1]))
        b == IF f = 0 THEN o.in ELSE Def(c.k, f).in
        deque == Deque(n, b, q)
        free  == FreeTensor(n + 1, b, n)
        load  == <<AllocTensor(n + 2, o.in, Queue(c.k, o.dst)), Move(n + 3, o.in, n, n + 2),
                   Enque(n + 4, o.in, n + 2)>>
    IN  [c EXCEPT !.k = IF f = 0 THEN Replace(@, o.id, <<deque>> \o load \o <<free>>)
                        ELSE After(Before(Replace(@, o.id, load), f, <<deque>>), f, <<free>>)]

CopyFromCO1(c, o) ==
    LET n == Fresh(c.k)
    IN  [c EXCEPT !.k = Replace(@, o.id,
            <<Deque(n, o.in, Queue(c.k, o.src[1])), AllocTensor(n + 1, o.in, Queue(c.k, o.dst)),
              Move(n + 2, o.in, n, n + 1), Enque(n + 3, o.in, n + 1), FreeTensor(n + 4, o.in, n)>>)]

(* The innermost loop over tiles of a reduced axis around the generic that      *)
(* writes a buffer, 0 if there is none.                                         *)
ReductionTileLoop(k, v) ==
    LET writers == SelectSeq(k, LAMBDA g : /\ g.kind = "generic" /\ g.sums # {}
                                           /\ Root(k, g.dst) = Root(k, v))
        Tiles(g, l) == /\ Def(k, l).axis \in g.sums
                       /\ \E x \in Range(g.src) : l \in Def(k, x).over
        loops == SelectSeq(Around(k, writers[1].in), LAMBDA l : Tiles(writers[1], l))
    IN  IF writers = <<>> THEN 0 ELSE IF loops = <<>> THEN 0 ELSE loops[1]

(* After the loop's first iteration a partial sum is added to what is there. *)
AddPreviousPartial(k, n, b, l, dst, t) ==
    LET when(o) == [o EXCEPT !.when = l]
    IN  <<Op(n, "alloc", b, [space |-> "VECIN", axes |-> Shape(k, dst)])>>
        \o [i \in 1..6 |-> when(
              <<AllocTensor(n + 1, b, n), Move(n + 2, b, dst, n + 1), Enque(n + 3, b, n + 1),
                Deque(n + 4, b, n), Calc(n + 5, b, "", "add", <<t, n + 4>>, t),
                FreeTensor(n + 6, b, n + 4)>>[i])]

(* A mutant: each tile's partial sum overwrites the one before. *)
StoreResultOverwriting(c, o) ==
    LET n == Fresh(c.k)
    IN  [c EXCEPT !.k = Replace(@, o.id,
            <<Deque(n, o.in, Queue(c.k, o.src[1])), Move(n + 8, o.in, n, o.dst),
              FreeTensor(n + 9, o.in, n)>>)]
StoreResult(c, o) ==
    LET n == Fresh(c.k)
        l == ReductionTileLoop(c.k, o.src[1])
    IN  [c EXCEPT !.k = Replace(@, o.id,
            <<Deque(n, o.in, Queue(c.k, o.src[1]))>>
            \o (IF l = 0 THEN <<>> ELSE AddPreviousPartial(c.k, n + 1, o.in, l, o.dst, n))
            \o <<Move(n + 8, o.in, n, o.dst), FreeTensor(n + 9, o.in, n)>>)]

ConvertCopy(c, o) ==
    LET way == <<Space(c.k, o.src[1]), Space(c.k, o.dst)>>
    IN  CASE way \in {<<"GM", "A1">>, <<"GM", "B1">>} -> LoadToL1(c, o)
          [] way = <<"GM", "VECIN">> -> LoadToVecin(c, o)
          [] way \in {<<"A1", "A2">>, <<"B1", "B2">>} -> LoadToL0(c, o)
          [] way = <<"CO1", "VECIN">> -> CopyFromCO1(c, o)
          [] way = <<"VECOUT", "GM">> -> StoreResult(c, o)
          [] OTHER -> c

(***************************************************************************)
(* Compute.  A conversion builds up e: the operations emitted so far, e.val  *)
(* the value defined last, e.vals those kept for later, e.acc the tensor the *)
(* results go to and e.temps the tensors to free at the end.                 *)
(***************************************************************************)
Start(c, o) == c @@ [ops |-> <<>>, next |-> Fresh(c.k), in |-> o.in, unit |-> o.unit, val |-> 0,
                     vals |-> <<>>, args |-> <<>>, acc |-> 0, temps |-> <<>>]
Emit(e, ops) == [e EXCEPT !.ops = @ \o ops, !.next = @ + Len(ops)]
Yield(e, v) == [e EXCEPT !.val = v]
Keep(e) == [e EXCEPT !.vals = Append(@, e.val)]
Converted(c, o, e) == [c EXCEPT !.k = Replace(@, o.id, e.ops)]

TBufTensor(e, space, axes) ==
    Yield(Emit(e, <<Op(e.next, "temp", e.in, [space |-> space, axes |-> axes])>>), e.next)
Temp(e, axes) == TBufTensor(e, "VECCALC", axes)
Apply1(e, fn, from) == Emit(e, <<Calc(e.next, e.in, e.unit, fn, from, e.val)>>)
Duplicate(e, const) ==
    Emit(e, <<[Calc(e.next, e.in, e.unit, "duplicate", <<>>, e.val) EXCEPT !.scalar = const]>>)
ConstTemp(e, const, axes) == Duplicate(Temp(e, axes), const)
Slice(e, v) ==
    Yield(Emit(e, <<Op(e.next, "slice", e.in,
                       [src |-> <<Root(e.k, v)>>, over |-> Def(e.k, v).over])>>), e.next)
IsSlice(k, v) == Kind(k, v) = "subview" /\ Rank(k, v) = 2

ReadTensor(e, v) ==
    CASE Live(e, v) # 0 /\ IsSlice(e.k, v) -> Slice(e, v)
      [] Live(e, v) # 0 /\ ~IsSlice(e.k, v) -> Yield(e, Live(e, v))
      [] Live(e, v) = 0 /\ Queue(e.k, v) # 0 ->
           Yield(Emit(e, <<Deque(e.next, e.in, Queue(e.k, v))>>), e.next)
      [] OTHER -> TBufTensor(e, Space(e.k, v), Shape(e.k, v))

WriteTensor(e, v) ==
    CASE IsSlice(e.k, v) /\ Queue(e.k, v) # 0 -> Slice(e, v)
      [] ~IsSlice(e.k, v) /\ Queue(e.k, v) # 0 ->
           Yield(Emit(e, <<AllocTensor(e.next, e.in, Queue(e.k, v))>>), e.next)
      [] OTHER -> TBufTensor(e, Space(e.k, v), Shape(e.k, v))

(* A GM operand goes through a queue of its own. *)
CopyGmToVecin(e, v) ==
    LET n == e.next
    IN  [Yield(Emit(e, <<Op(n, "alloc", e.in, [space |-> "VECIN", axes |-> Shape(e.k, v)]),
                         AllocTensor(n + 1, e.in, n), Move(n + 2, e.in, v, n + 1),
                         Enque(n + 3, e.in, n + 1), Deque(n + 4, e.in, n)>>), n + 4)
         EXCEPT !.temps = Append(@, n + 4)]
FreeTemps(e) ==
    Emit(e, [i \in DOMAIN e.temps |-> FreeTensor(e.next - 1 + i, e.in, e.temps[i])])
EnqueIfQueue(e, v) ==
    IF Queue(e.k, v) = 0 THEN e ELSE Emit(e, <<Enque(e.next, e.in, e.val)>>)

IterationAxes(k, o) == UNION {Shape(k, v) : v \in Range(o.src) \cup {o.dst}}
Broadcast(k, o, v) == \E x \in Range(o.src) \cup {o.dst} : Rank(k, v) < Rank(k, x)

(* A generic with a reduction copies a broadcast operand only from GM; one     *)
(* without takes everything that is not in VECIN for GM.                       *)
Copied(k, o, v) == \/ Space(k, v) = "GM"
                   \/ Broadcast(k, o, v) /\ o.sums = {} /\ Space(k, v) # "VECIN"
Widen(e, axes) == Apply1(Temp(e, axes), "broadcast", <<e.val>>)
Promote(o, e, v) ==
    LET Local(x) == IF Copied(x.k, o, v) THEN CopyGmToVecin(x, v) ELSE ReadTensor(x, v)
    IN  IF Broadcast(e.k, o, v) /\ (Copied(e.k, o, v) \/ Space(e.k, v) = "VECIN")
        THEN Widen(Local(e), IterationAxes(e.k, o)) ELSE Local(e)
PromoteInputs(o, e) ==
    LET Input(x, v) == Keep(Promote(o, x, v)) IN FoldLeft(Input, e, o.src)

(* The operands of a body operation: 0 is the constant zero and -1 another one, *)
(* 1 .. Len(src) the inputs, then the output, then the results of the body.    *)
InlineBody(o, e, fresh) ==
    LET axes == IterationAxes(e.k, o)
        Arg(x, ref) ==
            LET Push(y) == [y EXCEPT !.args = Append(@, y.val)]
            IN  Push(IF ref > 0 THEN Yield(x, x.vals[ref]) ELSE ConstTemp(x, ref, axes))
        Applied(x, fn) == Apply1(x, fn, x.args)
        Step(x, i) ==
            LET To(y) == IF fresh /\ i # Len(o.body) THEN Temp(y, axes) ELSE Yield(y, e.acc)
            IN  Keep(Applied(To(FoldLeft(Arg, [x EXCEPT !.args = <<>>], o.body[i].args)), o.body[i].fn))
    IN  FoldLeft(Step, [e EXCEPT !.vals = Append(@, e.acc)], [i \in DOMAIN o.body |-> i])

(* Only the yielded operation writes the accumulator, which is then reduced. *)
Accumulate(e) == [e EXCEPT !.acc = e.val]
SumInto(e) == Apply1(e, "sum", <<e.acc>>)
ConvertReduction(c, o) ==
    LET Body1(e) == InlineBody(o, PromoteInputs(o, Accumulate(ConstTemp(e, 0, IterationAxes(e.k, o)))), TRUE)
    IN  IF o.sums = {} \/ Space(c.k, o.dst) = "GM" THEN c
        ELSE Converted(c, o, FreeTemps(EnqueIfQueue(SumInto(WriteTensor(Body1(Start(c, o)), o.dst)), o.dst)))

(* Every operation of the body writes the result's tensor, a temporary if the *)
(* result has no queue.                                                       *)
ConvertParallel(c, o) ==
    LET Result1(e) == IF Queue(e.k, o.dst) = 0 THEN Temp(e, IterationAxes(e.k, o))
                      ELSE Yield(Emit(e, <<AllocTensor(e.next, e.in, Queue(e.k, o.dst))>>), e.next)
        Body1(e) == InlineBody(o, Accumulate(Result1(PromoteInputs(o, e))), FALSE)
        Ready(e) == EnqueIfQueue(Yield(e, e.acc), o.dst)
    IN  IF o.sums # {} \/ Space(c.k, o.dst) = "GM" THEN c
        ELSE Converted(c, o, FreeTemps(Ready(Body1(Start(c, o)))))

(* The accumulator's tensor is held over the nearest loop. *)
Hoisted(k, o, n, q, ops) ==
    IF o.in = 0 THEN Replace(k, o.id, <<AllocTensor(n, 0, q)>> \o ops \o <<Enque(n + 1, 0, n)>>)
    ELSE LET b == Def(k, o.in).in
         IN  After(Before(Replace(k, o.id, ops), o.in, <<AllocTensor(n, b, q)>>),
                   o.in, <<Enque(n + 1, b, n)>>)

(* A mutant: the operands are never handed back. *)
ConvertMatmulUnfreed(c, o) ==
    LET n == Fresh(c.k)
    IN  IF <<Space(c.k, o.src[1]), Space(c.k, o.src[2]), Space(c.k, o.dst)>> # <<"A2", "B2", "CO1">>
        THEN c
        ELSE [c EXCEPT !.k = Hoisted(@, o, n, Queue(@, o.dst),
                 <<Deque(n + 2, o.in, Queue(@, o.src[1])), Deque(n + 3, o.in, Queue(@, o.src[2])),
                   Calc(n + 4, o.in, o.unit, "mmad", <<n + 2, n + 3>>, n)>>)]
ConvertMatmul(c, o) ==
    LET n == Fresh(c.k)
        ops == <<Deque(n + 2, o.in, Queue(c.k, o.src[1])), Deque(n + 3, o.in, Queue(c.k, o.src[2])),
                 Calc(n + 4, o.in, o.unit, "mmad", <<n + 2, n + 3>>, n),
                 FreeTensor(n + 5, o.in, n + 2), FreeTensor(n + 6, o.in, n + 3)>>
    IN  IF <<Space(c.k, o.src[1]), Space(c.k, o.src[2]), Space(c.k, o.dst)>> # <<"A2", "B2", "CO1">>
        THEN c ELSE [c EXCEPT !.k = Hoisted(@, o, n, Queue(@, o.dst), ops)]

FreeIfRead(e, v, t) ==
    IF Queue(e.k, v) = 0 \/ Live(e, v) # 0 THEN e ELSE Emit(e, <<FreeTensor(e.next, e.in, t)>>)

(* A result in VECOUT is held, as the accumulator is; n is its tensor then.  *)
ConvertElementwise(c, o) ==
    LET held == Space(c.k, o.dst) = "VECOUT"
        n    == Fresh(c.k)
        Read2(e) == Keep(ReadTensor(Keep(ReadTensor(e, o.src[1])), o.src[2]))
        Target(e) == CASE held /\ IsSlice(e.k, o.dst) -> Slice(e, o.dst)
                       [] held /\ ~IsSlice(e.k, o.dst) -> Yield(e, n)
                       [] OTHER -> WriteTensor(e, o.dst)
        Calc2(e) == Apply1(e, o.fn, e.vals)
        Ready(e) == IF held THEN e ELSE EnqueIfQueue(e, o.dst)
        Free2(e) == FreeIfRead(FreeIfRead(e, o.src[1], e.vals[1]), o.src[2], e.vals[2])
        Emitted  == Free2(Ready(Calc2(Target(Read2([Start(c, o) EXCEPT !.next = n + 2])))))
    IN  IF Space(c.k, o.dst) = "GM" \/ o.fn \notin {"add", "mul", "max"} THEN c
        ELSE [c EXCEPT !.k = IF held THEN Hoisted(@, o, n, Queue(@, o.dst), Emitted.ops)
                             ELSE Replace(@, o.id, Emitted.ops)]

(* Fills of accumulators in GM, CO1 and VECOUT are taken for redundant. *)
ConvertFill(c, o) ==
    LET Zero(e) == Duplicate(e, 0)
    IN  CASE Space(c.k, o.dst) = "GM" /\ Kind(c.k, o.dst) # "alloc" -> c
          [] Space(c.k, o.dst) = "GM" /\ Kind(c.k, o.dst) = "alloc" -> [c EXCEPT !.k = Erase(@, {o.id})]
          [] Space(c.k, o.dst) \in {"CO1", "VECOUT"} -> [c EXCEPT !.k = Erase(@, {o.id})]
          [] OTHER -> Converted(c, o, EnqueIfQueue(Zero(WriteTensor(Start(c, o), o.dst)), o.dst))

(***************************************************************************)
(* Queues and temporaries are set up once, at the start of the function.    *)
(***************************************************************************)
OnChip(o) == o.kind = "temp" \/ (o.kind = "alloc" /\ o.space # "GM")
HoistBuffers(k) ==
    LET moved == SelectSeq(k, OnChip)
    IN  AtStart(SelectSeq(k, LAMBDA o : ~OnChip(o)), 0,
                [i \in DOMAIN moved |-> [moved[i] EXCEPT !.in = 0]])

(* Each conversion takes the operations of its kind as it finds them. *)
Convert(c, K, F(_, _)) == FoldLeft(F, c, OfKind(c.k, K))
Lowered(k) ==
    LET Moved(c)    == Convert(c, {"copy"}, ConvertCopy)
        Generics(c) == Convert(Convert(c, {"generic"}, ConvertReduction), {"generic"}, ConvertParallel)
        Cube(c)     == Convert(c, {"matmul"}, ConvertMatmul)
        Vec(c)      == Convert(Convert(c, {"elementwise"}, ConvertElementwise), {"fill"}, ConvertFill)
    IN  HoistBuffers(Vec(Cube(Generics(Moved([k |-> k, live |-> <<>>])))).k)

(***************************************************************************)
(* The ascendc-parallelize pass: every loop of the function's own block is  *)
(* run by the blocks of the launch, one iteration each.                     *)
(***************************************************************************)
(* A mutant: the loops stay, so that every block runs all of them. *)
ParallelizedNothing(k) == k
Parallelized(k) ==
    [i \in DOMAIN k |-> IF k[i].kind = "for" /\ k[i].in = 0 THEN [k[i] EXCEPT !.kind = "block"] ELSE k[i]]
=============================================================================
