--------------------------- MODULE BufferPlacement ---------------------------
(* The ascendc-buffer-placement pass (AscendCBufferPlacementPass.cpp): gives   *)
(* every buffer of a kernel an on-chip position, inserts the copies that the   *)
(* prologue and epilogue annotations of its loops ask for, and redirects the   *)
(* operations to the local buffers.  A task is a role with its two positions.  *)
EXTENDS KernelIR

Vector(o) == o.unit = "AiCore.Vector"
FindAlloc(k, v) == IF Kind(k, Root(k, v)) = "alloc" THEN Root(k, v) ELSE 0
FindArgument(k, v) == IF Kind(k, Root(k, v)) = "arg" THEN Root(k, v) ELSE 0

(***************************************************************************)
(* The positions of the allocs that are there already: the accumulator of a *)
(* matmul, and the destinations of the vector operations, of which a later  *)
(* one overrides an earlier one.                                            *)
(***************************************************************************)
VectorSpace(k, o) ==
    IF \E i \in DOMAIN Users(k, o.dst) :
          LET u == Users(k, o.dst)[i] IN u.id # o.id /\ Vector(u)
    THEN "VECCALC" ELSE "VECOUT"

InferBufferPositions(k) ==
    LET Cube(pos, o) ==
            IF FindAlloc(k, o.dst) = 0 THEN pos ELSE (FindAlloc(k, o.dst) :> "CO1") @@ pos
        Vec(pos, o) ==
            LET a == FindAlloc(k, o.dst)
            IN  IF ~Vector(o) \/ a = 0 \/ a \in Returned(k) THEN pos
                ELSE (a :> VectorSpace(k, o)) @@ pos
    IN  FoldLeft(Vec, FoldLeft(Cube, <<>>, OfKind(k, {"matmul"})),
                 OfKind(k, {"generic"}) \o OfKind(k, {"elementwise"}))

UpdateAllocMemorySpace(k, pos) ==
    [i \in DOMAIN k |-> IF k[i].id \in DOMAIN pos
                        THEN [k[i] EXCEPT !.space = pos[k[i].id]] ELSE k[i]]

(***************************************************************************)
(* What a task copies: the first subview of the loop's own body that plays  *)
(* its role, 0 if there is none.                                            *)
(***************************************************************************)
FirstView(k, l, P(_)) ==
    LET views == SelectSeq(Body(k, l), LAMBDA o : o.kind = "subview" /\ P(o.id))
    IN  IF views = <<>> THEN 0 ELSE views[1].id
ArgNumber(role) == CASE role = "lhs" -> 1 [] role = "rhs" -> 2 [] role = "bias" -> 3

FindRoleSubview(k, l, role, from) ==
    CASE role \in {"lhs", "rhs"} /\ from # "GM" ->
           FirstView(k, l, LAMBDA v : FindAlloc(k, v) # 0 /\ Space(k, v) = from)
      [] role \in {"lhs", "rhs"} ->
           FirstView(k, l, LAMBDA v : FindArgument(k, v) = Argument(k, ArgNumber(role)))
      [] role = "bias" ->
           FirstView(k, l, LAMBDA v : FindArgument(k, v) \notin
               {0, Argument(k, 1), Argument(k, 2), Last(Args(k)).id})
      [] role = "src" ->
           LET ins == FlattenSeq([i \in DOMAIN k |->
                          IF k[i].kind = "generic" /\ Vector(k[i]) /\ Inside(k, k[i], l)
                          THEN k[i].src ELSE <<>>])
               mine == SelectSeq(ins, LAMBDA v : Kind(k, v) = "subview" /\ Def(k, v).in = l)
           IN  IF mine = <<>> THEN 0 ELSE mine[1]

(* The first alloc of a position in the blocks around a loop, innermost first. *)
FindSourceBufferByPos(k, l, from) ==
    LET blocks == Tail(Around(k, l)) \o <<0>>
        allocs == FlattenSeq([i \in DOMAIN blocks |->
            SelectSeq(Body(k, blocks[i]), LAMBDA o : o.kind = "alloc" /\ o.space = from)])
    IN  IF allocs = <<>> THEN 0 ELSE allocs[1].id

(***************************************************************************)
(* One prologue task: p.k is the kernel, p.mark the last operation inserted *)
(* for a source the body does not define, p.bufs the local buffers by role. *)
(* Without a view, data in L1 is sliced as the body slices the argument, and *)
(* data in GM is the argument itself.                                        *)
(***************************************************************************)
SliceL1(k, l, task) ==
    LET l1 == FindSourceBufferByPos(k, l, task.from)
        gm == FindRoleSubview(k, l, task.role, "GM")
        v  == Fresh(k)
    IN  IF l1 = 0 \/ gm = 0 THEN [k |-> k, src |-> 0]
        ELSE [src |-> v,
              k   |-> After(k, gm, <<Op(v, "subview", l,
                          [src |-> <<l1>>, over |-> Def(k, gm).over])>>)]

PrologueSource(k, l, task) ==
    LET view == FindRoleSubview(k, l, task.role, task.from)
    IN  CASE view # 0 -> [k |-> k, src |-> view]
          [] view = 0 /\ task.from = "GM" ->
               [k |-> k, src |-> IF task.role = "src" THEN 0
                                 ELSE Argument(k, ArgNumber(task.role))]
          [] view = 0 /\ task.from # "GM" /\ task.role \in {"lhs", "rhs"} -> SliceL1(k, l, task)
          [] OTHER -> [k |-> k, src |-> FindSourceBufferByPos(k, l, task.from)]

Copy(id, in, from, to) == Op(id, "copy", in, [src |-> <<from>>, dst |-> to])
LocalMemrefLike(k, id, in, v, space) ==
    Op(id, "alloc", in, [space |-> space, axes |-> Shape(k, v), rank |-> Rank(k, v)])

(* The local buffer of a task whose source is s.src, and the copy that fills it. *)
InsertLocal(l, p, task, s) ==
    LET n == Fresh(s.k)
        inBody == Def(s.k, s.src).in = l
        new == <<LocalMemrefLike(s.k, n, l, s.src, task.to)>>
               \o (IF task.from \in {"GM", "A1", "B1"} THEN <<Copy(n + 1, l, s.src, n)>> ELSE <<>>)
    IN  IF s.src = 0 THEN p
        ELSE [k |-> IF inBody THEN After(s.k, s.src, new)
                    ELSE IF p.mark # 0 THEN After(s.k, p.mark, new) ELSE AtStart(s.k, l, new),
              mark |-> IF inBody THEN 0 ELSE Last(new).id,
              bufs |-> (task.role :> n) @@ p.bufs, frees |-> Append(p.frees, n)]

InsertPrologueTask(l, p, task) == InsertLocal(l, p, task, PrologueSource(p.k, l, task))

(***************************************************************************)
(* The operations inside the loop read the local buffers instead: every     *)
(* matmul, every element-wise operand that comes from an argument after the *)
(* second, and the first operand of a vector generic that has the buffer's  *)
(* shape.                                                                   *)
(***************************************************************************)
RedirectMatmuls(k, l, bufs) ==
    [i \in DOMAIN k |->
        IF k[i].kind # "matmul" \/ ~Inside(k, k[i], l) THEN k[i]
        ELSE [k[i] EXCEPT !.src = <<IF "lhs" \in DOMAIN bufs THEN bufs["lhs"] ELSE @[1],
                                    IF "rhs" \in DOMAIN bufs THEN bufs["rhs"] ELSE @[2]>>]]

(* The buffer is sliced with the operand's own offsets, else with the result's. *)
RedirectBias(k, l, buf) ==
    LET Redirect(c, use) ==
            LET o   == Def(c, use[1])
                inp == o.src[use[2]]
                by  == CASE Kind(c, inp) = "subview" -> Def(c, inp).over
                         [] Kind(c, inp) # "subview" /\ Kind(c, o.dst) = "subview" -> Def(c, o.dst).over
                         [] OTHER -> {}
                n   == Fresh(c)
                to  == IF by # {} /\ Rank(c, o.dst) = Rank(c, buf) THEN n ELSE buf
                sliced == IF to = buf THEN c
                          ELSE Before(c, o.id, <<Op(n, "subview", o.in, [src |-> <<buf>>, over |-> by])>>)
            IN  Updated(sliced, o.id, LAMBDA x : Reading(x, use[2], to))
        uses == FlattenSeq([i \in DOMAIN k |->
            IF k[i].kind = "elementwise" /\ Inside(k, k[i], l)
            THEN SelectSeq([j \in DOMAIN k[i].src |-> <<k[i].id, j, k[i].src[j]>>],
                   LAMBDA u : FindArgument(k, u[3]) \notin {0, Argument(k, 1), Argument(k, 2)})
            ELSE <<>>])
    IN  FoldLeft(Redirect, k, uses)

RedirectSrc(k, l, buf) ==
    LET Match(o) == {j \in DOMAIN o.src : /\ Space(k, o.src[j]) = "GM"
                                          /\ Shape(k, o.src[j]) = Def(k, buf).axes
                                          /\ Rank(k, o.src[j]) = Def(k, buf).rank}
    IN  [i \in DOMAIN k |->
            IF k[i].kind # "generic" \/ ~Vector(k[i]) \/ ~Inside(k, k[i], l) \/ Match(k[i]) = {}
            THEN k[i] ELSE Reading(k[i], Min(Match(k[i])), buf)]

InsertDeallocs(k, l, bufs) ==
    AtEnd(k, l, [i \in DOMAIN bufs |-> Op(Fresh(k) - 1 + i, "dealloc", l, [src |-> <<bufs[i]>>])])

(***************************************************************************)
(* One epilogue task.  The accumulator leaves the cube unit after the loop; *)
(* a result without a VECOUT buffer gets one at the last vector generic.    *)
(***************************************************************************)
CopyAccumulator(k, l, to) ==
    LET here == SelectSeq(Body(k, l), LAMBDA o : o.kind = "alloc" /\ o.space = "CO1")
        co1  == IF here # <<>> THEN here[1].id ELSE FindSourceBufferByPos(k, l, "CO1")
        b    == Def(k, l).in
        n    == Fresh(k)
        used == ReplaceUses(k, co1, n)
        r    == [i \in DOMAIN k |->
                   IF k[i].in # b \/ i < End(k, l) \/ k[i].kind \in {"copy", "dealloc"} THEN k[i]
                   ELSE used[i]]
    IN  IF co1 = 0 THEN k
        ELSE AtEnd(After(r, l, <<LocalMemrefLike(k, n, b, co1, to), Copy(n + 1, b, co1, n)>>),
                   b, <<Op(n + 2, "dealloc", b, [src |-> <<n>>])>>)

CopyResult(k, l, pos) ==
    LET vecs == SelectSeq(k, LAMBDA o : o.kind = "generic" /\ Vector(o) /\ Inside(k, o, l))
        o    == Last(vecs)
        n    == Fresh(k)
    IN  IF "VECOUT" \in Range(pos) \/ vecs = <<>> THEN k
        ELSE AtEnd(Before(Updated(k, o.id, LAMBDA x : [x EXCEPT !.dst = n]), o.id,
                          <<LocalMemrefLike(k, n, o.in, o.dst, "VECOUT")>>),
                   o.in, <<Copy(n + 1, o.in, n, o.dst),
                           Op(n + 2, "dealloc", o.in, [src |-> <<n>>])>>)

EpilogueTask(l, pos, k, task) ==
    CASE task.from = "CO1" /\ task.to = "VECIN" -> CopyAccumulator(k, l, "VECIN")
      [] ~(task.from = "CO1" /\ task.to = "VECIN") /\ task.to = "GM" -> CopyResult(k, l, pos)
      [] OTHER -> k

(* A pass over the loop: the kernel p.k and the local buffers made so far.   *)
InsertPrologue(k, l) ==
    LET Task(p, task) == InsertPrologueTask(l, p, task)
    IN  FoldLeft(Task, [k |-> k, mark |-> 0, bufs |-> <<>>, frees |-> <<>>], Def(k, l).prologue)
RedirectCube(l, p) == [p EXCEPT !.k = InsertDeallocs(RedirectMatmuls(@, l, p.bufs), l, p.frees)]
RedirectVector(l, p) ==
    LET Bias(k) == IF "bias" \in DOMAIN p.bufs THEN RedirectBias(k, l, p.bufs["bias"]) ELSE k
        Src(k)  == IF "src" \in DOMAIN p.bufs THEN RedirectSrc(k, l, p.bufs["src"]) ELSE k
    IN  Src(Bias(p.k))

InsertCopiesForLoop(pos, k, l) ==
    LET Task(x, task) == EpilogueTask(l, pos, x, task)
    IN  FoldLeft(Task, RedirectVector(l, RedirectCube(l, InsertPrologue(k, l))), Def(k, l).epilogue)

InsertCopiesForLoops(k, pos) ==
    LET Deeper(a, b) == \/ Len(Around(k, a.id)) < Len(Around(k, b.id))
                        \/ Len(Around(k, a.id)) = Len(Around(k, b.id)) /\ Pos(k, a.id) < Pos(k, b.id)
        loops == SortSeq(OfKind(k, {"for"}), Deeper)
        Insert(x, o) == InsertCopiesForLoop(pos, x, o.id)
    IN  FoldLeft(Insert, k, loops)

(***************************************************************************)
(* Accumulators start from zero: a copy in the alloc's block that filled one *)
(* from an unplaced buffer becomes a fill, and CO1 is freed once.            *)
(***************************************************************************)
InitOutputs(k) ==
    LET Zeroed(x, a) ==
            LET fills == [i \in DOMAIN x |->
                    IF x[i].kind = "copy" /\ x[i].dst = a.id /\ x[i].in = a.in
                       /\ Space(x, x[i].src[1]) = "GM"
                    THEN Op(x[i].id, "fill", x[i].in, [dst |-> a.id]) ELSE x[i]]
                freed == {o.id : o \in {u \in Range(Users(x, a.id)) : u.kind = "dealloc"}}
            IN  IF a.space # "CO1" THEN fills
                ELSE AtEnd(Erase(fills, freed), a.in,
                           <<Op(Fresh(x), "dealloc", a.in, [src |-> <<a.id>>])>>)
    IN  FoldLeft(Zeroed, k, SelectSeq(k, LAMBDA o : o.kind = "alloc" /\ o.space \in {"CO1", "VECOUT"}))

(***************************************************************************)
(* The zeros of a relu: a buffer of the function that is filled with zero   *)
(* becomes a local one at each use, and goes away when nothing uses it.     *)
(***************************************************************************)
ZeroAlloc(k, v) ==
    LET a == FindAlloc(k, v)
    IN  IF a # 0 /\ Space(k, a) = "GM" /\ \E o \in Range(k) : o.kind = "fill" /\ o.dst = a
        THEN a ELSE 0

ViewsOf(k, a) == {v \in Ids(k) : Root(k, v) = a}

LocalZeros(k) ==
    LET uses == FlattenSeq([i \in DOMAIN k |->
            IF k[i].kind = "elementwise" /\ k[i].fn = "max"
            THEN SelectSeq([j \in DOMAIN k[i].src |-> <<k[i].id, j, ZeroAlloc(k, k[i].src[j])>>],
                           LAMBDA u : u[3] # 0)
            ELSE <<>>])
        Local(x, u) ==
            LET o == Def(x, u[1])
                n == Fresh(x)
                y == Updated(x, o.id, LAMBDA z : Reading(z, u[2], n))
            IN  After(Before(y, o.id, <<LocalMemrefLike(x, n, o.in, o.dst, "VECIN"),
                                        Op(n + 1, "fill", o.in, [dst |-> n])>>),
                      o.id, <<Op(n + 2, "dealloc", o.in, [src |-> <<n>>])>>)
        Clean(x, a) ==
            LET users == UNION {Range(Users(x, v)) : v \in ViewsOf(x, a)}
            IN  IF \E u \in users : u.kind \notin {"fill", "dealloc", "subview"} THEN x
                ELSE Erase(x, ViewsOf(x, a) \cup {u.id : u \in users})
        zeros == SetToSeq({u[3] : u \in Range(uses)})
    IN  FoldLeft(Clean, FoldLeft(Local, k, uses), zeros)

ClearAnnotations(k) ==
    [i \in DOMAIN k |-> [k[i] EXCEPT !.prologue = <<>>, !.epilogue = <<>>]]

Placed(k) ==
    LET Copied(x, pos) == InsertCopiesForLoops(UpdateAllocMemorySpace(x, pos), pos)
    IN  ClearAnnotations(LocalZeros(InitOutputs(Copied(k, InferBufferPositions(k)))))
=============================================================================
