------------------------------ MODULE MCBackends ------------------------------
(* Scenarios for Backends.tla: calls of two backends in one process.       *)
EXTENDS Backends, TLC

CONSTANTS s1, s2, n1, n2, sim, f, g, d1, d2

Binary(brief) == [ mix |-> FALSE, function |-> f, brief |-> brief,
                   inputs |-> 0, outputs |-> 1, tiling |-> FALSE ]
Mix == [ mix |-> TRUE, function |-> f, brief |-> FALSE,
         inputs |-> 1, outputs |-> 1, tiling |-> TRUE ]
Launches == {Binary(FALSE), Mix}

File == {"external", "path", "loads"}
Good == [ inputs |-> File, tiling |-> TRUE, outputs |-> 1,
          output |-> {"external", "path"}, metadata |-> "right",
          expected |-> 0, expectation |-> File ]
Compared == [Good EXCEPT !.expected = 1]

\* Every way to be wrong in one respect, and some in two.
Bindings ==
  {Good, Compared}
  \cup {[b EXCEPT !.inputs = File \ {x}] : b \in {Good, Compared}, x \in File}
  \cup {[b EXCEPT !.output = @ \ {x}, !.metadata = y] :
          b \in {Good, Compared}, x \in {"external", "path", "none"},
          y \in {"missing", "right", "differs"}}
  \cup {[Compared EXCEPT !.expectation = File \ {x}, !.outputs = n] :
          x \in File, n \in {1, 2}}
  \cup {[b EXCEPT !.outputs = n, !.tiling = y] :
          b \in {Good, Compared}, n \in 0 .. 2, y \in BOOLEAN}

Asked(npu, driver, complete, bindings, launch, profiling, directory) ==
  [ npu |-> npu, driver |-> driver, complete |-> complete,
    bindings |-> bindings, launch |-> launch, profiling |-> profiling,
    directory |-> directory ]
OnSim(launch, directory) == Asked(FALSE, FALSE, TRUE, Compared, launch, TRUE, directory)
OnNpu(launch) == Asked(TRUE, FALSE, TRUE, Good, launch, FALSE, d2)

\* The same task on both backends.
Pairs == {(s1 :> Asked(FALSE, d, c, b, Binary(FALSE), TRUE, d1)
           @@ n1 :> Asked(TRUE, d, c, b, Binary(FALSE), FALSE, d2)) :
            b \in Bindings, c \in BOOLEAN, d \in BOOLEAN}
  \cup {(s1 :> Asked(FALSE, FALSE, TRUE, Good, Mix, TRUE, d1)
         @@ n1 :> Asked(TRUE, FALSE, TRUE, Good, Mix, FALSE, d2))}

\* Two simulator tasks of one session or of two; two NPU tasks.
Queued == {(s1 :> OnSim(Binary(FALSE), d1) @@ s2 :> OnSim(q, d)) :
             q \in Launches, d \in {d1, d2}}
Devices == {(n1 :> OnNpu(p) @@ n2 :> OnNpu(q)) : p \in Launches, q \in {Mix}}

\* Everybody at once.
Crowd == {(s1 :> OnSim(Mix, d1) @@ n1 :> OnNpu(Mix) @@ n2 :> OnNpu(Binary(FALSE)))}

Scenarios == Pairs \cup Queued \cup Devices \cup Crowd

\* Two simulator tasks with functions of their own and short names.
Named(function) == [Binary(TRUE) EXCEPT !.function = function]
ShortNames == {Named(f), Named(g)}
TwoFunctions == {(s1 :> OnSim(Named(f), d1) @@ s2 :> OnSim(Named(g), d2))}
===============================================================================
