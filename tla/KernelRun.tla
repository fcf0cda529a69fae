------------------------------ MODULE KernelRun ------------------------------
(* What a kernel computes, before and after each pass of the compiler.        *)
(*                                                                            *)
(* The kernel is executed four times: as it comes from bufferization, placed  *)
(* and lowered to AscendC, parallelized over the blocks of a launch, which    *)
(* share the GM buffers and interleave, and prepared for emission, when views *)
(* have become flat pointers.  Values are symbolic: an element is the bag of  *)
(* the terms it is the sum of, so that a missing, a doubled or a stale operand *)
(* shows.  The linalg operations, the queues and the tensor operations of the *)
(* device are external; src/ only emits them.                                 *)
EXTENDS MixTiling, ConcatFold, Bags

CONSTANTS Kernels,   \* the kernels the compiler is given
          Blocks     \* the blocks of a launch, one per iteration of a loop

AIC == -1            \* the cube core of a launch whose blocks are vector cores
Cores == Blocks \cup {AIC}

VARIABLES stage,     \* the pass the kernel has come through
          kernel,    \* its operations
          gm,        \* the buffers in GM, shared by the blocks
          cores,     \* for each core its pc, loop counters, local memory, queues,
                     \* the GM elements it has read and written, and its flag
          expected   \* what the kernel it was compiled from left in GM

vars == <<stage, kernel, gm, cores, expected>>

(***************************************************************************)
(* Memory.                                                                  *)
(***************************************************************************)
Elements(axes) == [axes -> {0, 1}]
Term(t) == SetToBag({t})
Undefined(v) == [e \in Elements(Def(kernel, v).axes) |-> Term(<<"undefined", v, e>>)]
Zeros(axes) == [e \in Elements(axes) |-> EmptyBag]
Outputs(k) == IF Returned(k) = {} THEN {Last(Args(k)).id} ELSE Returned(k)
Shared(k) == {o.id : o \in {x \in Range(k) :
                 x.kind \in {"arg", "output", "alloc"} /\ x.space = "GM" /\ x.in = 0}}

(* A kernel that returns nothing gets its result buffer filled with zeros, and  *)
(* a matmul the one it starts from.                                            *)
InitialGM(k, outs) ==
    [v \in Shared(k) |-> LET axes == Def(k, v).axes IN
        IF Kind(k, v) = "arg" /\ (v \in outs \/ Def(k, v).fn = "zero") THEN Zeros(axes)
        ELSE [e \in Elements(axes) |->
                 Term(<<IF Kind(k, v) = "arg" THEN "x" ELSE "undefined", v, e>>)]]

(* The memory a value stands for, and the part of it at the current iteration. *)
Tensors == {"alloc_tensor", "deque"}
Buffer(v) == IF Kind(kernel, v) \in Tensors \cup {"slice", "flat"} THEN Def(kernel, v).src[1]
             ELSE Root(kernel, v)
Offsets(v) ==
    LET S[x \in Nat] == LET o == Def(kernel, x)
                        IN  CASE Alias(o) -> o.over \cup S[o.src[1]]
                              [] o.kind \in {"slice", "flat"} -> o.over
                              [] OTHER -> {}
    IN  {l \in S[v] : Def(kernel, l).axis # ""}
Constants(v) ==
    LET S[x \in Nat] == LET o == Def(kernel, x) IN IF Alias(o) THEN o.at @@ S[o.src[1]] ELSE o.at
    IN  S[v]
Region(c, v) ==
    Constants(v) @@ [a \in AxesOf(kernel, Offsets(v)) |->
                        c.env[CHOOSE l \in Offsets(v) : Def(kernel, l).axis = a]]
Content(c, v) == IF Buffer(v) \in DOMAIN gm THEN gm[Buffer(v)]
                 ELSE IF Buffer(v) \in DOMAIN c.local THEN c.local[Buffer(v)] ELSE Undefined(Buffer(v))

(* Buffers are row-major.  What follows a flat pointer is contiguous; a view    *)
(* whose offset is along an axis its buffer does not have leads out of it.     *)
Weight(axes, a) == 2 ^ Cardinality({b \in axes : AxisRank[b] < AxisRank[a]})
Index(axes, e) == FoldSet(LAMBDA a, i : i + e[a] * Weight(axes, a), 0, DOMAIN e)
ElementAt(axes, i) == [a \in axes |-> (i \div Weight(axes, a)) % 2]

Axes(v) == Def(kernel, Buffer(v)).axes
PlaceIn(axes, v, r, e) ==
    IF Kind(kernel, v) = "flat" THEN ElementAt(axes, Index(axes, r) + Index(DOMAIN e, e))
    ELSE [a \in axes |-> IF a \in DOMAIN r THEN r[a] ELSE IF a \in DOMAIN e THEN e[a] ELSE 0]
OutsideOf(axes, v, r, e) ==
    IF Kind(kernel, v) = "flat" THEN Index(axes, r) + Index(DOMAIN e, e) >= 2 ^ Cardinality(axes)
    ELSE \E a \in DOMAIN r \ axes : r[a] # 0
Place(c, v, e) == PlaceIn(Axes(v), v, Region(c, v), e)
ReadAt(c, v, r, e) ==
    IF OutsideOf(Axes(v), v, r, e) THEN Term(<<"undefined", v, e>>)
    ELSE Content(c, v)[PlaceIn(Axes(v), v, r, e)]
Read(c, v, e) == ReadAt(c, v, Region(c, v), e)
ViewAxes(c, v) == Axes(v) \ DOMAIN Region(c, v)

(***************************************************************************)
(* What an operation leaves in element e of its destination.                *)
(***************************************************************************)
Scalar(ref) == IF ref = 0 THEN EmptyBag ELSE Term(<<"constant", ref>>)
Apply(fn, x) ==
    CASE fn = "add" -> x[1] (+) x[2]
      [] fn = "mul" /\ EmptyBag \in Range(x) -> EmptyBag
      [] OTHER -> Term(<<fn, Range(x)>>)

BodyValue(o, x) ==
    LET Value(vals, ref) == IF ref <= 0 THEN Scalar(ref) ELSE vals[ref]
        Step(vals, p) == Append(vals, Apply(p.fn, [i \in DOMAIN p.args |-> Value(vals, p.args[i])]))
    IN  Last(FoldLeft(Step, x, o.body))

Summed(c, o, e) == Elements(UNION {ViewAxes(c, v) : v \in Range(o.src)} \ DOMAIN e)

Result(c, o, e) ==
    LET In(x) == [i \in DOMAIN o.src |-> Read(c, o.src[i], x)]
        Sum(F(_)) == FoldSet(LAMBDA x, s : F(x) (+) s, EmptyBag, Summed(c, o, e))
        Product == Sum(LAMBDA x : Apply("mul", SubSeq(In(x @@ e), 1, 2)))
        Sloped(x) == Apply("mul", <<x, Scalar(o.scalar)>>)
    IN  CASE o.kind = "fill" \/ o.fn = "duplicate" -> Scalar(o.scalar)
          [] o.kind \in {"copy", "move", "memmove"} \/ o.fn = "broadcast" -> In(e)[1]
          [] o.fn = "sum" -> Sum(LAMBDA x : In(x @@ e)[1])
          [] o.kind = "matmul" \/ o.fn = "mmad" -> Read(c, o.dst, e) (+) Product
          [] o.fn = "iterate_all" -> IF Len(o.src) = 3 THEN Product (+) Read(c, o.src[3], e) ELSE Product
          [] o.fn \in {"relu", "leaky_relu"} -> Apply("max", <<In(e)[1], Sloped(In(e)[1])>>)
          [] o.kind = "generic" ->
               FoldSet(LAMBDA x, old : BodyValue(o, Append(In(x @@ e), old)), Read(c, o.dst, e), Summed(c, o, e))
          [] OTHER -> Apply(o.fn, In(e))

(***************************************************************************)
(* Control.                                                                 *)
(***************************************************************************)
Runs(b, s) == CASE s \in {"source", "lowered"} -> b = 0
                [] s \in {"parallel", "prepared"} -> b \in Blocks
                [] s = "mix" -> TRUE
                [] s = "refused" -> FALSE
Core(b, s) == [pc |-> IF Runs(b, s) THEN 1 ELSE 0, env |-> <<>>, local |-> <<>>,
               queue |-> <<>>, saw |-> {}, wrote |-> {}, flag |-> FALSE]
Idle(b) == IF cores[b].pc = 0 THEN TRUE ELSE kernel[cores[b].pc].kind = "return"
At(b) == kernel[cores[b].pc]
QueueState(c, q) == IF q \in DOMAIN c.queue THEN c.queue[q] ELSE "free"

Init ==
    /\ stage = "source"
    /\ kernel \in Kernels
    /\ gm = InitialGM(kernel, Outputs(kernel))
    /\ cores = [b \in Cores |-> Core(b, "source")]
    /\ expected = <<>>

Go(b, c) == /\ cores' = [cores EXCEPT ![b] = c]
            /\ UNCHANGED <<stage, kernel, expected>>
Skipped(c, o) == o.when # 0 /\ c.env[o.when] = 0

(* A loop starts, goes round or ends; a block takes one iteration of its loop, *)
(* or none if there are fewer.                                                 *)
Loop(b) ==
    LET o == At(b)
        c == cores[b]
        l == o.in
        Enter(i) == Go(b, [c EXCEPT !.pc = @ + 1, !.env = (o.id :> i) @@ @])
    IN  /\ \/ o.kind = "for" /\ Enter(0)
           \/ o.kind = "aic" /\ b = AIC /\ Enter(0)
           \/ o.kind = "block" /\ b \in 0..(o.trip - 1) /\ Enter(b)
           \/ /\ (o.kind = "aic" /\ b # AIC) \/ (o.kind = "block" /\ b \notin 0..(o.trip - 1))
              /\ Go(b, [c EXCEPT !.pc = End(kernel, o.id) + 1])
           \/ /\ o.kind = "yield"
              /\ IF Kind(kernel, l) = "for" /\ c.env[l] + 1 < Def(kernel, l).trip
                 THEN Go(b, [c EXCEPT !.pc = Pos(kernel, l) + 1, !.env[l] = @ + 1])
                 ELSE Go(b, [c EXCEPT !.pc = @ + 1])
        /\ UNCHANGED gm

Definitions == {"arg", "output", "workspace", "tiling", "alloc", "temp", "subview", "slice", "flat", "dealloc"}

(* Definitions; an alloc on the chip gives memory with nothing in it.          *)
Define(b) ==
    LET o == At(b)
    IN  /\ \/ o.kind \in Definitions
           \/ Skipped(cores[b], o)
        /\ Go(b, [cores[b] EXCEPT !.pc = @ + 1,
                                  !.local = IF o.kind = "alloc" /\ o.id \notin DOMAIN gm
                                            THEN (o.id :> Undefined(o.id)) @@ @ ELSE @])
        /\ UNCHANGED gm

(* The cube core's signal reaches both vector cores.                          *)
Signal(b) ==
    LET o == At(b)
        next == [cores EXCEPT ![b].pc = @ + 1]
    IN  /\ \/ /\ o.kind = "set_flag"
              /\ cores' = [x \in Cores |-> IF x = b THEN next[x] ELSE [next[x] EXCEPT !.flag = TRUE]]
           \/ /\ o.kind = "wait_flag" /\ cores[b].flag
              /\ cores' = [next EXCEPT ![b].flag = FALSE]
        /\ UNCHANGED <<stage, kernel, expected, gm>>

(* A queue of depth 1 has one buffer, which goes round from free to held, full *)
(* and out.  An operation it is not ready for waits, here for ever.            *)
QueueOps == "alloc_tensor" :> <<"free", "held">> @@ "enque" :> <<"held", "full">>
            @@ "deque" :> <<"full", "out">> @@ "free" :> <<"out", "free">>
QueueOf(o) == IF o.kind \in Tensors THEN o.src[1] ELSE Def(kernel, o.src[1]).src[1]

QueueStep(b) ==
    LET o == At(b)
        c == cores[b]
        q == QueueOf(o)
    IN  /\ o.kind \in DOMAIN QueueOps /\ ~Skipped(c, o)
        /\ QueueState(c, q) = QueueOps[o.kind][1]
        /\ Go(b, [c EXCEPT !.pc = @ + 1,
                           !.queue = (q :> QueueOps[o.kind][2]) @@ @,
                           !.local = IF o.kind # "alloc_tensor" THEN @
                                     ELSE (q :> IF Def(kernel, q).space = "CO1"
                                                THEN Zeros(Def(kernel, q).axes) ELSE Undefined(q)) @@ @])
        /\ UNCHANGED gm

(* A memmove covers as many elements as its source's buffer has. *)
Covered(c, o) == Elements(IF o.kind = "memmove" THEN Axes(o.src[1]) ELSE ViewAxes(c, o.dst))
Cells(c, v, tile) == IF Buffer(v) \notin DOMAIN gm THEN {}
                     ELSE {<<Buffer(v), Place(c, v, e)>> : e \in tile}
CellsRead(c, o, v) ==
    Cells(c, v, IF o.kind = "memmove" THEN Covered(c, o) ELSE Elements(ViewAxes(c, v)))
Compute(b) ==
    LET o == At(b)
        c == cores[b]
        Written(old, e) == [old EXCEPT ![Place(c, o.dst, e)] = Result(c, o, e)]
        new == FoldSet(LAMBDA e, old : Written(old, e), Content(c, o.dst), Covered(c, o))
        shared == Buffer(o.dst) \in DOMAIN gm
    IN  /\ o.kind \in {"copy", "fill", "matmul", "elementwise", "generic", "move", "memmove", "calc"}
        /\ ~Skipped(c, o)
        /\ Go(b, [c EXCEPT !.pc = @ + 1,
                           !.local = IF shared THEN @ ELSE (Buffer(o.dst) :> new) @@ @,
                           !.saw = @ \cup UNION {CellsRead(c, o, v) : v \in Range(o.src)},
                           !.wrote = @ \cup Cells(c, o.dst, Covered(c, o))])
        /\ gm' = IF shared THEN [gm EXCEPT ![Buffer(o.dst)] = new] ELSE gm

Finished == \A b \in Cores : Idle(b)
Begin(s, k, outs) ==
    /\ stage' = s
    /\ kernel' = k
    /\ gm' = InitialGM(k, outs)
    /\ cores' = [b \in Cores |-> Core(b, s)]

Expect == expected' = [v \in Outputs(kernel) |-> gm[v]]
Lower(k) ==
    /\ KernelKind(kernel) # "mix"
    /\ Begin("lowered", k, Outputs(kernel))
    /\ Expect

(* A kernel of both units goes through all passes, and ends in a template and   *)
(* the tiling it is launched with.                                             *)
TranslateMix(p) ==
    /\ KernelKind(kernel) = "mix"
    /\ \E found \in SUBSET Splits : \E tilings \in {MixTilings(p, MatmulSemantics(kernel), found)} :
          \/ \E t \in tilings :
                Begin("mix", Launched(Template(p), MixAbi(p.k), t), Outputs(kernel)) /\ Expect
          \/ tilings = {} /\ Begin("refused", kernel, {}) /\ expected' = <<>>

Compile ==
    /\ Finished /\ stage = "source"
    /\ \E k \in {Lowered(Placed(Canonicalized(Folded(kernel))))} :
          Lower(k) \/ TranslateMix(Partition(Canonical(Prepared(Parallelized(k)))))

Parallelize ==
    /\ Finished /\ stage = "lowered"
    /\ Begin("parallel", Parallelized(kernel), DOMAIN expected)
    /\ UNCHANGED expected

Prepare ==
    /\ Finished /\ stage = "parallel"
    /\ HasTiling(Prepared(kernel)) /\ Printable(Canonical(Prepared(kernel)))
    /\ Begin("prepared", Canonical(Prepared(kernel)), DOMAIN expected)
    /\ UNCHANGED expected

Run(b) == ~Idle(b) /\ (Loop(b) \/ Define(b) \/ Signal(b) \/ QueueStep(b) \/ Compute(b))
Next == Compile \/ Parallelize \/ Prepare \/ \E b \in Cores : Run(b)
Spec == Init /\ [][Next]_vars

(***************************************************************************)
(* Properties.                                                              *)
(***************************************************************************)
(* Whatever the blocks interleave, the compiled kernel leaves in its outputs   *)
(* what the kernel before the passes left there.                               *)
MeaningKept ==
    Finished /\ stage # "source" => \A v \in DOMAIN expected : gm[v] = expected[v]

(* A tensor is only read or written while its queue has handed it out: between  *)
(* alloc and enque, or between deque and free.  A late free or an early one, a  *)
(* tensor that stays live over an inner loop, would break it.                   *)
TensorsHeld ==
    \A b \in Blocks : ~Idle(b) /\ At(b).kind \in {"move", "calc"} /\ ~Skipped(cores[b], At(b)) =>
        \A v \in Range(At(b).src) \cup {At(b).dst} :
            Kind(kernel, v) \in Tensors => QueueState(cores[b], Buffer(v)) \in {"held", "out"}

(* No element of GM that one block writes is read or written by another: the    *)
(* blocks run without synchronization.                                         *)
BlocksIndependent ==
    \A a, b \in Blocks : a # b => cores[a].wrote \cap (cores[b].saw \cup cores[b].wrote) = {}

(* Every block of every stage comes to its end.  Nobody else uses a block's     *)
(* queues, so an operation its queue is not ready for would wait for ever: an   *)
(* alloc for a tensor that was never freed, a deque for one never enqueued.  A  *)
(* vector core only waits for a cube core that is still to give its signal.     *)
NeverStuck ==
    \A b \in Blocks :
        /\ ~Idle(b) /\ At(b).kind \in DOMAIN QueueOps /\ ~Skipped(cores[b], At(b)) =>
              QueueState(cores[b], QueueOf(At(b))) = QueueOps[At(b).kind][1]
        /\ ~Idle(b) /\ At(b).kind = "wait_flag" => cores[b].flag \/ ~Idle(AIC)
=============================================================================
