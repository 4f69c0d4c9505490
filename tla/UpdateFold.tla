----------------------------- MODULE UpdateFold -----------------------------
(***************************************************************************)
(* derivation/v2/phase3_ast_generator.py: build_ast_from_mutations on      *)
(* expression trees, from the UPDATEs of one column to its formula.        *)
(* FormulaFold has the same rules on meanings and is what the proofs are   *)
(* about; here they build the trees that the optimizer rewrites, with the  *)
(* position tags, the totals (increments, caps and floors) and the         *)
(* procedural IF branches that FormulaFold leaves out.                     *)
(*                                                                         *)
(* Left out: a cap together with a floor, and the rules for columns of     *)
(* particular names.                                                       *)
(***************************************************************************)
EXTENDS AstCompile

(* An UPDATE at a source position, guard Absent without a WHERE clause; or *)
(* a procedural IF, whose arms have a condition (ELSE: Absent) and UPDATEs. *)
Update(pos, guard, value) == [kind |-> "update", pos |-> pos, guard |-> guard, value |-> value]
Branches(arms) == [kind |-> "branches", arms |-> arms]
Arm(cond, updates) == [cond |-> cond, updates |-> updates]

-----------------------------------------------------------------------------
(* What the statements do to a row: the reference for the formula.         *)

RunUpdate(row, u, self) ==
    IF u.guard = Absent \/ Holds(u.guard, row)
    THEN [row EXCEPT ![self] = Value(u.value, row)] ELSE row

RunItem(row, item, self) ==
    IF item.kind = "update" THEN RunUpdate(row, item, self)
    ELSE LET chosen == SelectSeq(item.arms, LAMBDA arm : arm.cond = Absent \/ Holds(arm.cond, row))
         IN  IF chosen = <<>> THEN row
             ELSE FoldLeft(LAMBDA r, u : RunUpdate(r, u, self), row, chosen[1].updates)

Executed(items, row, self) ==
    FoldLeft(LAMBDA r, item : RunItem(r, item, self), row, items)[self]

-----------------------------------------------------------------------------
(* Reads of the column itself, and what they become.                       *)

RECURSIVE Replace(_, _, _)
Replace(n, leaf, by) ==
    IF n = leaf THEN by
    ELSE [n EXCEPT !.a = [i \in DOMAIN n.a |-> Replace(n.a[i], leaf, by)]]

(* IFs along the ELSE branches; arguments of a function do not count.      *)
RECURSIVE IfDepth(_)
IfDepth(n) ==
    CASE IsIf(n) -> 1 + IfDepth(ElseOf(n))
      [] n.k = "op" -> Max({IfDepth(n.a[1]), IfDepth(n.a[2])})
      [] OTHER -> 0

InValue(n, prior, self) ==
    IF \/ IsLiteral(prior) \/ IfDepth(prior) >= 2
       \/ IsIf(prior) /\ IsNull(ThenOf(prior))
    THEN n ELSE Replace(n, Col(self), prior)

IsOwn(n, self) == n = Col(self) \/ (IsFn(n, "COALESCE") /\ n.a[1] = Col(self))

(* Col < 0 and COALESCE(Col, 0) < 0 test the formula so far, however deep. *)
IsNegativityGuard(n, self) ==
    n.k = "op" /\ n.v \in {"<", "<="} /\ IsZero(n.a[2]) /\ IsOwn(n.a[1], self)

RECURSIVE InGuard(_, _, _)
InGuard(n, prior, self) ==
    CASE IsLiteral(prior) \/ prior = Col(self) -> n
      [] ~(IsLiteral(prior) \/ prior = Col(self)) ->
            IF IsNegativityGuard(n, self) THEN Op(n.v, prior, n.a[2])
            ELSE IF n = Col(self) THEN IF IfDepth(prior) >= 3 THEN n ELSE prior
            ELSE [n EXCEPT !.a = [i \in DOMAIN n.a |-> InGuard(n.a[i], prior, self)]]

-----------------------------------------------------------------------------
(* The rules of the fold, in the order the code tries them.  The state is  *)
(* the tree, the run of flat passes it ends with and the clamps put off.   *)

NoChain == [rules |-> {}, passes |-> <<>>, base |-> Null]
Started(self) == [tree |-> Col(self), chain |-> NoChain, clamps |-> <<>>]
Plainly(tree, st) == [tree |-> tree, chain |-> NoChain, clamps |-> st.clamps]

(* SET Col = bound WHERE Col > bound, SET Col = 0 WHERE Col < 0.           *)
ClampOf(u, self) ==
    LET parts == FlattenAnd(u.guard)
        Extras(i) == RemoveAt(parts, i)
        IsCap(p) == p.v \in {">", ">="} /\ u.value.k = "col" /\ p.a[2] = u.value
        IsFloor(p) == p.v \in {"<", "<="} /\ IsZero(p.a[2]) /\ IsZero(u.value)
        own == {i \in DOMAIN parts : parts[i].k = "op" /\ IsOwn(parts[i].a[1], self)}
        i == Min(own)
    IN  IF \/ Cardinality(own) # 1
           \/ \E j \in DOMAIN Extras(i) : Mentions(Extras(i)[j], Col(self))
           \/ ~(IsCap(parts[i]) \/ IsFloor(parts[i]))
        THEN <<>>
        ELSE <<[kind |-> IF IsCap(parts[i]) THEN "cap" ELSE "floor", op |-> parts[i].v,
                bound |-> u.value, extras |-> Extras(i)]>>

PutOff(u, st, self) ==
    LET clamp == ClampOf(u, self)
    IN  clamp # <<>> /\ (clamp[1].kind = "floor" \/ IfDepth(st.tree) >= 1)

OnlyIsEmpty(guard, self) == ~Mentions(Replace(guard, Fn("ISEMPTY", <<Col(self)>>), Null), Col(self))
FillsEmpty(u, self) == OnlyIsEmpty(u.guard, self) /\ IsLiteral(u.value) /\ ~IsNull(u.value)

(* The runs a layered pass may start: every later pass of a run joins by    *)
(* the same rule, except that the second one has the choice.               *)
RunsOf(u, self) ==
    IF ~IsLiteral(u.value) THEN {}
    ELSE {"literal"} \cup IF ~Mentions(u.guard, Col(self)) THEN {}
                          ELSE IF FillsEmpty(u, self) THEN {"fills"} ELSE {"own"}

Joins(rule, u, chain, self) ==
    /\ rule \in chain.rules
    /\ IF rule = "fills" THEN FillsEmpty(u, self)
       ELSE /\ IsLiteral(u.value)
            /\ \A i \in DOMAIN chain.passes : chain.passes[i].value = u.value
            /\ rule = "own" => Mentions(u.guard, Col(self))

(* Flat again, over the tree before the run; without a position.           *)
Flattened(rule, u, chain) ==
    LET passes == Append(chain.passes, u)
        guards == Reverse([i \in DOMAIN passes |-> passes[i].guard])
    IN  IF rule = "fills"
        THEN RebuildChain([i \in DOMAIN passes |-> [cond |-> passes[i].guard, then |-> passes[i].value]],
                          chain.base)
        ELSE If(Rebuild("OR", guards), u.value, chain.base)

Qualifiers(u, tree) ==
    SelectSeq(FlattenAnd(u.guard), LAMBDA p : NormalizeGuard(p) \notin Conjuncts(CondOf(tree)))

Narrows(u, tree) == /\ IsIf(tree) /\ Conjuncts(CondOf(tree)) \subseteq Conjuncts(u.guard)
                    /\ Qualifiers(u, tree) # <<>>

IsIndependent(u, tree, self) ==
    ~IsIf(tree) /\ ~Mentions(u.guard, Col(self)) /\ ~Mentions(u.value, Col(self))

(* Y of Col + Y and COALESCE(Col, 0) + Y, after an earlier pass.           *)
Increment(u, st, self) ==
    LET v == u.value IN
    IF IsOp(v, "+") /\ IfDepth(st.tree) >= 1 /\ ~Mentions(u.guard, Col(self))
    THEN CASE IsOwn(v.a[1], self) /\ ~Mentions(v.a[2], Col(self)) -> v.a[2]
           [] IsOwn(v.a[2], self) /\ ~IsOwn(v.a[1], self) /\ ~Mentions(v.a[1], Col(self)) -> v.a[1]
           [] OTHER -> Absent
    ELSE Absent

FoldUpdate(st, u, self) ==
    LET tree == st.tree
        extra == Increment(u, st, self)
        joined == SelectSeq(<<"own", "fills", "literal">>,
                            LAMBDA rule : Joins(rule, u, st.chain, self))
    IN  IF u.value = Col(self) THEN st
        ELSE IF u.guard = Absent THEN Plainly(InValue(u.value, tree, self), st)
        ELSE IF PutOff(u, st, self) THEN [st EXCEPT !.clamps = @ \o ClampOf(u, self)]
        ELSE IF joined # <<>>
        THEN [st EXCEPT !.tree = Flattened(joined[1], u, st.chain),
                        !.chain.rules = {joined[1]}, !.chain.passes = Append(@, u)]
        ELSE IF Narrows(u, tree)
        THEN Plainly(TaggedIf(u.pos, CondOf(tree),
                              If(RebuildAnd(Qualifiers(u, tree)), InValue(u.value, tree, self), ThenOf(tree)),
                              ElseOf(tree)), st)
        ELSE IF IsIndependent(u, tree, self)
        THEN Plainly(TaggedIf(u.pos, u.guard, u.value, tree), st)
        ELSE IF extra # Absent
        THEN Plainly(Op("+", tree, If(u.guard, extra, Lit(0))), st)
        ELSE [st EXCEPT
                !.tree = TaggedIf(u.pos, InGuard(u.guard, tree, self), InValue(u.value, tree, self),
                                  IF IsLiteral(tree) /\ Mentions(u.guard, Col(self))
                                  THEN Col(self) ELSE tree),
                !.chain = [rules |-> RunsOf(u, self), passes |-> <<u>>, base |-> tree]]

(* The clamps wrap the finished total; one that another already covers is  *)
(* skipped, and a floor is MAX(total, 0).                                  *)
ApplyClamps(st) ==
    LET Covers(c, d) == /\ c.kind = d.kind /\ c.op = d.op /\ c.bound = d.bound
                        /\ Range(c.extras) \subseteq Range(d.extras)
        Apply(acc, c) ==
            IF \E i \in DOMAIN acc.kept : Covers(acc.kept[i], c) THEN acc
            ELSE [kept |-> Append(acc.kept, c),
                  tree |-> IF c.kind = "floor" THEN Fn("MAX", <<acc.tree, Lit(0)>>)
                           ELSE If(RebuildAnd(<<Op(c.op, acc.tree, c.bound)>> \o c.extras),
                                   c.bound, acc.tree)]
    IN  FoldLeft(Apply, [kept |-> <<>>, tree |-> st.tree], st.clamps).tree

(* Every arm of a procedural IF starts from the column before the IF and is *)
(* a formula of its own; a run of flat passes ends at the IF.              *)
FoldBranches(st, arms, formulas, self) ==
    LET base == st.tree
        Wrap(acc, i) ==
            LET result == InValue(formulas[i], base, self)
            IN  IF arms[i].cond = Absent THEN result
                ELSE PruneRedundant(If(InGuard(arms[i].cond, base, self), result, acc))
    IN  Plainly(FoldLeft(Wrap, base, Reverse([i \in DOMAIN arms |-> i])), st)
=============================================================================
