-------------------------- MODULE MCFormulaRewrite --------------------------
(* The columns "a" and "b" and the column "s" that the statements set, on   *)
(* every row of NULL, a negative number, 0 and 1.                           *)
EXTENDS FormulaRewrite

A == Col("a")
B == Col("b")
S == Col("s")
MCRows == [{"a", "b", "s"} -> {NullValue, -1, 0, 1}]

AIs1 == Op("==", A, Lit(1))
BIs1 == Op("==", B, Lit(1))
Both == Op("AND", AIs1, BIs1)
Either == Op("OR", AIs1, BIs1)

Updates2(G, V) == {[i \in 1..2 |-> Update(i, g[i], v[i])] : g \in [1..2 -> G], v \in [1..2 -> V]}
Updates3(G, VV) == {[i \in 1..3 |-> Update(i, g[i], v[i])] : g \in [1..3 -> G], v \in VV}

(* Two statements that may read the column in WHERE and in SET, a CASE too. *)
ReadingPairs ==
    Updates2({Absent, Op("<", A, Lit(0)), Op("<", S, Lit(0)), Op("==", S, Lit(0)), Both},
             {Lit(0), A, Op("+", S, Lit(1)), If(BIs1, A, S)})

(* Values that the pruning may rewrite as MAX(x, 0), in two places.         *)
FloorOf(x) == If(Op("<", x, Lit(0)), Lit(0), x)
TwoFloors == Updates2({Absent, AIs1, Both}, {FloorOf(A), FloorOf(B)})

(* Three assignments, of three values or of one value twice or of a NULL.   *)
Triples == Updates3({AIs1, BIs1, Both, Either},
                    {<<Lit(0), Lit(1), A>>, <<A, Lit(1), Null>>, <<A, Lit(1), A>>})

(* Increments, a cap and floors.                                            *)
Additions == {<<AIs1, Op("+", S, A)>>, <<BIs1, Op("+", Fn("COALESCE", <<S, Lit(0)>>), Lit(1))>>,
              <<Either, Op("+", Lit(1), S)>>}
Clamps == {<<Op("<", S, Lit(0)), Lit(0)>>, <<Op(">", S, A), A>>,
           <<Op("AND", Op("<", S, Lit(0)), BIs1), Lit(0)>>}
Totals == {[i \in 1..3 |-> Update(i, t[i][1], t[i][2])] : t \in [1..3 -> Additions \cup Clamps]}

(* A procedural IF with an ELSE, an ELSEIF or neither, before or after an    *)
(* UPDATE.                                                                  *)
Blocks == {<<Update(2, Absent, Lit(0))>>, <<Update(2, BIs1, Lit(1))>>,
           <<Update(2, Absent, Op("+", S, Lit(1)))>>,
           <<Update(2, Absent, Lit(1)), Update(3, BIs1, A)>>}
Ifs == {<<Arm(AIs1, x)>> : x \in Blocks}
       \cup {<<Arm(AIs1, x), Arm(c, y)>> : c \in {Absent, BIs1}, x \in Blocks, y \in Blocks}
Around == {<<Absent, Op("+", S, Lit(1))>>, <<BIs1, Op("-", A, Lit(1))>>, <<Op("<", S, Lit(0)), Lit(0)>>}
Procedures == {<<Update(1, u[1], u[2]), Branches(arms)>> : u \in Around, arms \in Ifs}
              \cup {<<Branches(arms), Update(4, u[1], u[2])>> : u \in Around, arms \in Ifs}

(* An assignment corrected by two others that assign one value.             *)
Corrections == Updates3({AIs1, BIs1, Op("<", A, Lit(0))}, {<<Lit(0), Lit(1), Lit(1)>>})

MCSources == ReadingPairs \cup TwoFloors \cup Triples \cup Totals \cup Procedures
=============================================================================
