--------------------------- MODULE MCMutationFold ---------------------------
(***************************************************************************)
(* Procedures about the column s of T: every pair of statements, statements *)
(* around every IF and TRY, resets and temps.  c is a flag of T and of U,   *)
(* @p a parameter of the procedure.                                        *)
(***************************************************************************)
EXTENDS ProgramFold, PassSamples

MCTemps == ("#t1" :> "t1") @@ ("#t2" :> "t2")
MCEndings == [tok \in {} |-> 0]

Partners == {<<NullValue, NullValue>>, <<1, 0>>, <<1, 1>>}
RowOf(s, c, p, u, fails) ==
    ("s" :> s) @@ ("c" :> c) @@ ("k" :> 1) @@ ("@p" :> p) @@ ("U.k" :> u[1]) @@ ("U.c" :> u[2])
    @@ ("fails" :> fails) @@ ("here" :> 1)
    @@ [x \in {"t1.k", "t1.c", "t1.v", "t2.k", "t2.c", "t2.v"} |-> NullValue]
MCRows == {RowOf(s, c, p, u, f) : s \in {NullValue, 3}, c \in {0, 1}, p \in 1..3, u \in Partners, f \in {0, 1}}

S == Col("s")
C == Col("c")
UC == Col("U.c")
Is(n, x) == Op("==", n, Lit(x))
True == Bool(TRUE)
Bc == <<"B", ".", "c">>
InnerU == Joining(<<"INNER", "JOIN">>, "U", "B", <<>>)
LeftU == Joining(<<"LEFT", "JOIN">>, "U", "B", <<>>)
FlaggedU == Joining(<<"JOIN">>, "U", "B", <<"AND", "B", ".", "c", "=", "1">>)
OwnS == <<"A", ".", "s">>

Zero == Write(<<"0">>, Lit(0), <<>>, True)
FlagOne == Write(<<"1">>, Lit(1), <<"c", "=", "1">>, Is(C, 1))
CountUp == Write(<<"s", "+", "1">>, Op("+", S, Lit(1)), <<"@p", "=", "1">>, Is(Var("@p"), 1))
ByCase == Write(<<"CASE", "WHEN", "c", "=", "1", "THEN", "2", "ELSE", "s", "END">>, If(Is(C, 1), Lit(2), S), <<>>, True)
Copied == WriteFrom(<<"s">>, Bc, UC, InnerU, <<>>, HasPartner)
Added == WriteFrom(OwnS, OwnS \o <<"+">> \o Bc, Op("+", S, UC), FlaggedU, <<"A", ".", "c", "=", "0">>,
                   And(And(HasPartner, Is(UC, 1)), Is(C, 0)))
OrZero == WriteFrom(<<"s">>, <<"ISNULL", "(">> \o Bc \o <<",", "0", ")">>, Fn("COALESCE", <<UC, Lit(0)>>), LeftU, <<>>, True)
Orphans == WriteFrom(OwnS, <<"2">>, Lit(2), LeftU, <<"B", ".", "k", "IS", "NULL">>, Fn("ISEMPTY", <<Col("U.k")>>))
Merged == Merge(Bc, UC)

Writes == {Zero, FlagOne, CountUp, ByCase, Copied, Added, OrZero, Orphans, Merged}
InArms == {Zero, CountUp, Added, Orphans}

-----------------------------------------------------------------------------
(* IF on the parameter, TRY.                                               *)

If1(body) == Taken(Is(Var("@p"), 1), <<"@p", "=", "1">>, body)
If2(body) == Taken(Is(Var("@p"), 2), <<"@p", "=", "2">>, body)
Else(body) == Taken(True, <<>>, body)

Ifs == {Choice(<<If1(<<x>>)>>) : x \in Writes \ {Merged}} \cup {Choice(<<If1(<<x, y>>)>>) : x \in InArms, y \in InArms}
       \cup {Choice(<<If1(<<x>>), Else(<<y>>)>>) : x \in InArms, y \in InArms}
       \cup {Choice(<<If1(<<x>>), If2(<<y>>)>>) : x \in InArms, y \in InArms}
       \cup {Choice(<<If1(<<x>>), If2(<<y>>), Else(<<z>>)>>) : x \in {Zero, Added}, y \in InArms, z \in {CountUp, Orphans}}
Tries == {Try(<<x>>, <<y>>) : x \in InArms, y \in InArms} \cup {Try(<<x, y>>, <<Zero>>) : x \in Writes, y \in InArms}
Handlers == {Try(<<>>, <<x, y>>) : x \in Writes, y \in InArms}

-----------------------------------------------------------------------------
(* Resets, rows that come back.                                            *)

Resets == {Reset(<<"TRUNCATE", "TABLE", "T">>), Reset(<<"DELETE", "FROM", "T">>), Reset(<<"DELETE", "T">>)}
Deleted == Step(<<"DELETE", "FROM", "T", "WHERE", "c", "=", "1">>, Is(C, 1), "here" :> Lit(0))
Loads == {Insert(<<"1", "AS", "s">>, Lit(1), <<>>, True), Insert(<<"B", ".", "c", "+", "1">>, Op("+", UC, Lit(1)), <<>>, True)}
Load == Insert(<<"1">>, Lit(1), <<>>, True)
Reload == {<<r, i>> : r \in Resets, i \in Loads} \cup {<<Choice(<<If1(<<Reset(<<"TRUNCATE", "TABLE", "T">>), Load>>)>>)>>}
          \cup {<<Deleted>>}

-----------------------------------------------------------------------------
(* Temps and CTEs.                                                         *)

FromT == Fill("#t1", "t1", "v", "T", "A", "c", <<>>, Here, "")
FlaggedT == Fill("#t1", "t1", "v", "T", "A", "c", <<"A", ".", "c", "=", "1">>, And(Here, Is(C, 1)), "")
FromU == Fill("#t1", "t1", "v", "U", "A", "c", <<>>, HasPartner, "U.")
SameName == Fill("#t1", "t1", "c", "T", "A", "c", <<>>, Here, "")
Again == Fill("#t2", "t2", "c", "#t1", "A", "c", <<>>, InTemp("t1"), "t1.")

Dv == <<"D", ".", "v">>
Vt == Col("t1.v")
TempWrites == {UpdateTemp("#t1", "t1", "v", <<"2">>, Lit(2), <<"D", ".", "v", "=", "1">>, Is(Vt, 1)),
               UpdateTemp("#t1", "t1", "v", Dv \o <<"+", "1">>, Op("+", Vt, Lit(1)), <<>>, True),
               UpdateTemp("#t1", "t1", "v", <<"@p">>, Var("@p"), <<"D", ".", "v", "<", "2">>, Op("<", Vt, Lit(2)))}
TempOfT == UpdateTemp("#t1", "t1", "c", <<"2">>, Lit(2), <<"D", ".", "c", "=", "1">>, Is(Col("t1.c"), 1))

InnerTemp == Joining(<<"JOIN">>, "#t1", "D", <<>>)
FromTemp == {WriteFrom(<<"s">>, Dv, Vt, InnerTemp, <<>>, InTemp("t1")),
             WriteFrom(<<"s">>, <<"v">>, Vt, InnerTemp, <<>>, InTemp("t1")),
             WriteFrom(OwnS, OwnS \o <<"+">> \o Dv, Op("+", S, Vt), InnerTemp, <<"D", ".", "v", "=", "2">>,
                       And(InTemp("t1"), Is(Vt, 2)))}

With(st) ==
    [st EXCEPT !.text = <<"WITH", "q", "AS", "(", "SELECT", "B", ".", "k", ",", "B", ".", "c", "AS", "v", "FROM", "U", "B", ")">> \o @]
OfCte == With(WriteFrom(<<"s">>, Dv, UC, Joining(<<"JOIN">>, "q", "D", <<>>), <<>>, HasPartner))

Staged == {<<f>> \o u \o <<w>> : f \in {FromT, FlaggedT, FromU}, w \in FromTemp,
                                  u \in {<<>>} \cup {<<t>> : t \in TempWrites} \cup {<<t, v>> : t \in TempWrites, v \in TempWrites}}
Chains == {<<SameName, TempOfT, Again, Zero>>, <<SameName, Again, FlagOne>>}

MCPrograms == {Program(p) :
    p \in {<<x, y>> : x \in Writes, y \in Writes} \cup {<<x, i>> : x \in Writes, i \in Ifs \cup Tries}
          \cup {<<i, x>> : x \in Writes, i \in Ifs \cup Tries} \cup {<<h>> : h \in Handlers}
          \cup {<<x, i, y>> : x \in {Zero, FlagOne}, i \in Ifs \cup Tries, y \in {CountUp, Orphans}}
          \cup {<<Try(<<i, x>>, <<y>>)>> : i \in Ifs, x \in {CountUp, Orphans}, y \in {Zero, Copied}}
          \cup {<<x>> \o r \o <<y>> : x \in Writes, y \in Writes, r \in Reload}
          \cup Staged \cup Chains \cup {<<OfCte, x>> : x \in Writes}}

(* The IF arm leaves the column alone.                                     *)
Note == Step(<<"UPDATE", "T", "SET", "w", "=", "1">>, Bool(FALSE), "s" :> S)
MCElseOnly == {Program(<<x, Choice(<<If1(<<Note>>), Else(<<y>>)>>), z>>) :
                  x \in {Zero, FlagOne}, y \in {Zero, FlagOne, Copied}, z \in {FlagOne, CountUp}}
              \cup {Program(<<x, Choice(<<If1(<<y>>), Else(<<z>>)>>)>>) : x \in Writes, y \in InArms, z \in InArms}
=============================================================================
