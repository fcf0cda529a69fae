----------------------------- MODULE MCKernelRun -----------------------------
(* Kernels for the model of the compiler, one per shape of the examples.       *)
EXTENDS KernelRun

Arg(id, axes) == Op(id, "arg", 0, [axes |-> axes])
Flat(id, axes) == Op(id, "arg", 0, [axes |-> axes, rank |-> 1])
For(id, in, axis, trip) == Op(id, "for", in, [axis |-> axis, trip |-> trip])
View(id, in, src, over) == Op(id, "subview", in, [src |-> <<src>>, over |-> over])
Yielded(id, in) == Op(id, "yield", in, <<>>)
Task(role, from, to) == [role |-> role, from |-> from, to |-> to]
In == <<Task("src", "GM", "VECIN")>>
Out == <<Task("dst", "VECOUT", "GM")>>
Generic(id, in, ins, out, body, sums) ==
    Op(id, "generic", in, [unit |-> "AiCore.Vector", src |-> ins, dst |-> out, body |-> body, sums |-> sums])
Elementwise(id, in, fn, a, b, out) ==
    Op(id, "elementwise", in, [unit |-> "AiCore.Vector", fn |-> fn, src |-> <<a, b>>, dst |-> out])
Do(fn, a, b) == [fn |-> fn, args |-> <<a, b>>]

(* broadcast-add-reduce: out[m] = sum over n of a[m] + b[m, n], the result a    *)
(* buffer the function returns; n is reduced tile by tile.                     *)
Reduce ==
    <<Flat(1, {"m", "mi"}), Arg(2, {"m", "mi", "n"}),
      Op(3, "alloc", 0, [axes |-> {"m", "mi"}, rank |-> 1]), Op(4, "fill", 0, [dst |-> 3]),
      For(5, 0, "m", 2), View(6, 5, 1, {5}), View(7, 5, 2, {5}), View(8, 5, 3, {5}),
      [For(9, 5, "mi", 2) EXCEPT !.prologue = In, !.epilogue = Out],
      View(10, 9, 6, {9}), View(11, 9, 8, {9}),
      For(12, 9, "n", 2), View(13, 12, 7, {9, 12}),
      Generic(14, 12, <<10, 13>>, 11, <<Do("add", 1, 2), Do("add", 3, 4)>>, {"n"}),
      Yielded(15, 12), Yielded(16, 9), Yielded(17, 5), Op(18, "return", 0, [src |-> <<3>>])>>
(* out[m, n] = max((a[m] + b[m, n]) * b[m, n], 0): one generic, whose first     *)
(* operand comes through the loop's prologue, its second from GM.              *)
BroadcastAdd ==
    <<Flat(1, {"m"}), Arg(2, {"m", "n"}), Arg(3, {"m", "n"}),
      [For(4, 0, "m", 2) EXCEPT !.prologue = In, !.epilogue = Out],
      View(5, 4, 1, {4}), View(6, 4, 2, {4}), View(7, 4, 3, {4}),
      Generic(8, 4, <<5, 6>>, 7, <<Do("add", 1, 2), Do("mul", 4, 2), Do("max", 5, 0)>>, {}),
      Yielded(9, 4), Op(10, "return", 0, <<>>)>>

(* Two loops, the second over the rows of what the first has left in GM.       *)
TwoLoops ==
    <<Arg(1, {"m", "n"}), Arg(2, {"m", "n"}), Arg(3, {"m", "n"}), Arg(4, {"m", "n"}),
      [For(5, 0, "m", 2) EXCEPT !.prologue = In, !.epilogue = Out],
      View(6, 5, 1, {5}), View(7, 5, 2, {5}), View(8, 5, 3, {5}),
      Generic(9, 5, <<6, 7>>, 8, <<Do("add", 1, 2)>>, {}), Yielded(10, 5),
      [For(11, 0, "m", 2) EXCEPT !.epilogue = Out],
      View(12, 11, 3, {11}), View(13, 11, 2, {11}), View(14, 11, 4, {11}),
      Generic(15, 11, <<12, 13>>, 14, <<Do("mul", 1, 2)>>, {}), Yielded(16, 11),
      Op(17, "return", 0, <<>>)>>

(* The whole kernel is one tile: there is work for one block only.             *)
OneTile ==
    <<Arg(1, {"m", "n"}), Arg(2, {"m", "n"}),
      [For(3, 0, "", 1) EXCEPT !.prologue = In, !.epilogue = Out],
      View(4, 3, 1, {}), View(5, 3, 2, {}), Generic(6, 3, <<4>>, 5, <<Do("mul", 1, 1)>>, {}),
      Yielded(7, 3), Op(8, "return", 0, <<>>)>>

(* matmul-add-relu: C[m, n] = max(sum over k of A[m, k] * B[k, n] + bias[m, n], 0). *)
(* kAxis is "" when the loop over K takes one step.                            *)
Matmul(kAxis) ==
    <<Arg(1, {"m", "k"}), Arg(2, {"k", "n"}), Arg(3, {"m", "n"}), Arg(4, {"m", "n"}),
      Op(5, "alloc", 0, [axes |-> {"m", "n"}]), Op(6, "fill", 0, [dst |-> 5]),
      [For(7, 0, "m", 2) EXCEPT
          !.prologue = <<Task("lhs", "GM", "A1"), Task("rhs", "GM", "B1"), Task("bias", "GM", "VECIN")>>,
          !.epilogue = <<Task("result", "VECOUT", "GM")>>],
      View(8, 7, 1, {7}), View(9, 7, 2, {}), View(10, 7, 3, {7}), View(11, 7, 4, {7}), View(12, 7, 5, {7}),
      Op(13, "alloc", 7, [axes |-> {"n"}]),
      For(14, 7, "", 1),
      Op(15, "alloc", 14, [axes |-> {"n"}]), Op(16, "copy", 14, [src |-> <<11>>, dst |-> 15]),
      [For(17, 14, kAxis, IF kAxis = "" THEN 1 ELSE 2) EXCEPT
          !.prologue = <<Task("lhs", "A1", "A2"), Task("rhs", "B1", "B2")>>,
          !.epilogue = <<Task("acc", "CO1", "VECIN")>>],
      View(18, 17, 8, {17}), View(19, 17, 9, {17}),
      Op(20, "matmul", 17, [src |-> <<18, 19>>, dst |-> 15]), Yielded(21, 17),
      View(30, 14, 10, {14}), Op(22, "alloc", 14, [axes |-> {"n"}]),
      Elementwise(23, 14, "add", 15, 30, 22),
      View(24, 14, 13, {14}), Elementwise(25, 14, "max", 22, 12, 24), Yielded(26, 14),
      Op(27, "copy", 7, [src |-> <<13>>, dst |-> 11]), Yielded(28, 7), Op(29, "return", 0, <<>>)>>

(* broadcast-concat: a[m] + b[m, n] above c[m] * d[m, n], each computed by a    *)
(* loop that carries a buffer of its own.                                      *)
Carrying(id, buf) == [For(id, 0, "m", 2) EXCEPT !.src = <<buf>>, !.prologue = In, !.epilogue = Out]
Half(id, in, src, i) == Op(id, "subview", in, [src |-> <<src>>, at |-> [half |-> i]])
CopyOf(id, in, from, to) == Op(id, "copy", in, [src |-> <<from>>, dst |-> to])
Concat ==
    <<Flat(1, {"m"}), Arg(2, {"m", "n"}), Flat(3, {"m"}), Arg(4, {"m", "n"}),
      Op(5, "alloc", 0, [axes |-> {"m", "n"}]), Op(6, "alloc", 0, [axes |-> {"m", "n"}]),
      Carrying(7, 5), View(8, 7, 1, {7}), View(9, 7, 2, {7}), View(10, 7, 7, {7}),
      Generic(11, 7, <<8, 9>>, 10, <<Do("add", 1, 2)>>, {}), Yielded(12, 7),
      Carrying(13, 6), View(14, 13, 3, {13}), View(15, 13, 4, {13}), View(16, 13, 13, {13}),
      Generic(17, 13, <<14, 15>>, 16, <<Do("mul", 1, 2)>>, {}), Yielded(18, 13),
      Op(19, "alloc", 0, [axes |-> {"half", "m", "n"}]),
      Half(20, 0, 19, 0), CopyOf(21, 0, 7, 20), Half(22, 0, 19, 1), CopyOf(23, 0, 13, 22),
      Op(24, "return", 0, [src |-> <<19>>])>>

(* The squares, returned by themselves and twice in a row: the outer loop has   *)
(* one tile, which is put in its places after the inner one.                   *)
Twice ==
    <<Arg(1, {"m", "n"}), Op(2, "alloc", 0, [axes |-> {"m", "n"}]),
      Op(3, "alloc", 0, [axes |-> {"half", "m", "n"}]), For(4, 0, "", 1),
      [For(5, 4, "m", 2) EXCEPT !.prologue = In, !.epilogue = Out],
      View(6, 5, 1, {5}), View(7, 5, 2, {5}), Generic(8, 5, <<6>>, 7, <<Do("mul", 1, 1)>>, {}), Yielded(9, 5),
      Half(10, 4, 3, 0), CopyOf(11, 4, 2, 10), Half(12, 4, 3, 1), CopyOf(13, 4, 2, 12),
      Yielded(14, 4), Op(15, "return", 0, [src |-> <<2, 3>>])>>

(* matmul-add-leakyrelu: e[m, n] = the product plus bias[n], through a slope.  *)
(* The bias may be missing, and so may the shape the translation knows.        *)
Sloped(const) == <<Do("mul", 1, const), Do("max", 1, 3)>>
MatmulBias(bias, body) ==
    <<Arg(1, {"m", "k"}), Arg(2, {"k", "n"}), Flat(3, {"n"}),
      [Arg(4, {"m", "n"}) EXCEPT !.fn = "zero"], Op(5, "alloc", 0, [axes |-> {"m", "n"}]),
      For(7, 0, "m", 2),
      [For(8, 7, "", 1) EXCEPT
          !.prologue = <<Task("lhs", "GM", "A1"), Task("rhs", "GM", "B1"), Task("bias", "GM", "VECIN")>>,
          !.epilogue = <<Task("result", "VECOUT", "GM")>>],
      View(9, 8, 1, {7}), View(10, 8, 2, {8}), View(11, 8, 3, {8}), View(12, 8, 4, {7, 8}),
      View(13, 8, 5, {7, 8}), Op(14, "alloc", 8, [axes |-> {"n"}]),
      For(15, 8, "", 1), Op(16, "alloc", 15, [axes |-> {"n"}]), CopyOf(17, 15, 12, 16),
      [For(18, 15, "", 1) EXCEPT
          !.prologue = <<Task("lhs", "A1", "A2"), Task("rhs", "B1", "B2")>>,
          !.epilogue = <<Task("acc", "CO1", "VECIN")>>],
      View(19, 18, 9, {18}), View(20, 18, 10, {18}),
      Op(21, "matmul", 18, [unit |-> "AiCore.Cube", src |-> <<19, 20>>, dst |-> 16]), Yielded(22, 18)>>
    \o (IF bias THEN <<View(23, 15, 11, {15}), View(24, 15, 14, {15}),
                       Generic(25, 15, <<16, 23>>, 24, <<Do("add", 1, 2)>>, {})>> ELSE <<>>)
    \o <<View(26, 15, 13, {15}), Generic(27, 15, <<IF bias THEN 24 ELSE 16>>, 26, body, {}),
          Yielded(28, 15), Yielded(29, 8), Yielded(30, 7), Op(31, "return", 0, [src |-> <<5>>])>>

(* The whole product as one tile, read straight from its buffers.              *)
WholeTile ==
    LET k == MatmulBias(TRUE, Sloped(-1))
        Whole(o) == CASE o.kind = "for" -> [o EXCEPT !.axis = "", !.trip = 1]
                      [] o.kind = "matmul" -> [o EXCEPT !.src = <<1, 2>>]
                      [] o.kind = "alloc" -> [o EXCEPT !.axes = {"m", "n"}]
                      [] OTHER -> o
    IN  [i \in DOMAIN k |-> Whole(k[i])]

MixKernels == {MatmulBias(TRUE, Sloped(-1)), MatmulBias(TRUE, Sloped(0)), MatmulBias(FALSE, Sloped(-1)),
               MatmulBias(TRUE, <<Do("mul", 1, 1)>>), WholeTile}
MCKernels == {Reduce, OneTile, BroadcastAdd, TwoLoops, Matmul(""), Concat, Twice} \cup MixKernels
SlicedMatmul == {Matmul("k")}
MCBlocks == {0, 1}
=============================================================================
