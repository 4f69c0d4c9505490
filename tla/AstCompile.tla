----------------------------- MODULE AstCompile -----------------------------
(***************************************************************************)
(* derivation/v2/phase2_mutation_folder.py's pruning of a folded formula   *)
(* and derivation/v2/ast_compiler.py's printing of it.  The printed text   *)
(* is modelled by the tree it denotes: what the compiler changes on the    *)
(* way (NULL comparisons, constants, clauses that print alike) is kept,    *)
(* quoting and spelling are not.                                           *)
(***************************************************************************)
EXTENDS AstOptimize

(* Inside IF(G), an inner IF(G) gives its THEN, or its ELSE under a NULL.  *)
RECURSIVE Peeled(_, _)
Peeled(n, guard) == PeeledAt(LAMBDA x : Peeled(x, guard), GuardSignature, n, guard)

FlatPattern(n) == IF JoinZeroDefault(n) # Absent THEN JoinZeroDefault(n) ELSE NegativeClamp(n)

OneOfEach(cond) ==
    LET parts == FlattenOr(cond)
    IN  IF IsOp(cond, "OR") /\ Distinct(parts) # parts THEN RebuildOr(Distinct(parts)) ELSE cond

RECURSIVE PruneTree(_)
PruneTree(n) == PruneAt(PruneTree, Peeled, FlatPattern, OneOfEach, n)

PruneRedundant(n) == CollapseDegenerate(EnforcePrecedence(PruneTree(n)))

(* The subtrees pruning would replace by a new dictionary of its own.      *)
ToFlatten(n) ==
    LET Flattens(s) == IsIf(s) /\ (JoinZeroDefault(s) # Absent \/ NegativeClamp(s) # Absent)
    IN  SelectSeq(Subtrees(n), Flattens)

-----------------------------------------------------------------------------

(* A tree the compiler raises ValueError on.                               *)
Unprintable == Node("error", "", 0, <<>>)

Raises(n) == Mentions(n, Unprintable)

RECURSIVE Constant(_)
Constant(n) ==
    CASE n.k = "lit" /\ n.v = "num" -> n
      [] IsFn(n, "COALESCE") -> Constant(n.a[1])
      [] IsArithmetic(n) ->
            LET x == Constant(n.a[1])  y == Constant(n.a[2])
            IN  IF x = Absent \/ y = Absent THEN Absent ELSE Lit(Arithmetic(n.v, x.n, y.n))
      [] OTHER -> Absent

(* A bare == or != in a value slot stands for its right-hand operand.      *)
RepairValue(n) == IF n.k = "op" /\ n.v \in EqOps \cup NeOps THEN n.a[2] ELSE n

(* Adjacent clauses that print the same value become one.                  *)
MergeClauses(clauses) ==
    LET Drop(acc, c) == IF acc # <<>> /\ Last(acc) = c THEN acc ELSE Append(acc, c)
        Join(acc, c) == IF acc # <<>> /\ Last(acc).then = c.then
                        THEN [acc EXCEPT ![Len(acc)].cond = Op("OR", @, c.cond)]
                        ELSE Append(acc, c)
    IN  FoldLeft(Join, <<>>, FoldLeft(Drop, <<>>, clauses))

(* Clauses at the end that print what the ELSE prints are dropped.         *)
RECURSIVE DropTrailing(_, _)
DropTrailing(clauses, text) ==
    IF clauses # <<>> /\ Last(clauses).then = text
    THEN DropTrailing(Front(clauses), text) ELSE clauses

RECURSIVE LastElse(_)
LastElse(n) == IF IsIf(n) THEN LastElse(ElseOf(n)) ELSE n

RECURSIVE Compile(_)
Compile(n) ==
    LET nulls == {i \in {1, 2} : IsNull(n.a[i])}
        spread == Distribute(n)
        arms == ChainArms(n)
        clauses == [i \in DOMAIN arms |-> [cond |-> Compile(arms[i].cond),
                                           then |-> Compile(RepairValue(arms[i].then))]]
        text == IF LastElse(n) = Absent THEN Absent ELSE Compile(RepairValue(LastElse(n)))
        merged == MergeClauses(clauses)
        kept == IF text = Absent THEN merged ELSE DropTrailing(merged, text)
    IN  CASE IsIf(n) -> IF \E i \in DOMAIN clauses : Raises(clauses[i].cond) \/ Raises(clauses[i].then)
                        THEN Unprintable ELSE RebuildChain(kept, text)
          [] IsComparison(n) /\ nulls # {} ->
                Fn(IF n.v \in {"==", "<=", ">="} THEN "ISEMPTY" ELSE "ISNOTEMPTY",
                   <<Compile(n.a[IF 1 \in nulls THEN 2 ELSE 1])>>)
          [] IsComparison(n) /\ nulls = {} ->
                IF IsIf(spread) THEN Compile(spread)
                ELSE IF IsIf(spread.a[1]) \/ IsIf(spread.a[2]) THEN Unprintable
                ELSE Op(n.v, Compile(spread.a[1]), Compile(spread.a[2]))
          [] (IsArithmetic(n) \/ IsFn(n, "COALESCE")) /\ Constant(n) # Absent -> Constant(n)
          [] OTHER -> Mapped(Compile, n)
=============================================================================
