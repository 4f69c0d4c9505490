------------------------------ MODULE ExprRules ------------------------------
(***************************************************************************)
(* The expression trees of the derivation pipeline, one node at a time:    *)
(* what a node is, what it evaluates to when its children are evaluated,   *)
(* and what each pass of the optimizer that keeps the value of a formula   *)
(* does at a node.  The recursive calls are operator parameters, which     *)
(* ExprTree and AstOptimize tie to the operators themselves, and which the *)
(* proofs replace by any function that satisfies the same equation.        *)
(* XAt or XOf here is the body of the operator X there.                    *)
(*                                                                         *)
(* A tree is a dictionary that phase 3 builds from the SQL, the optimizer  *)
(* rewrites and the compiler prints: a record with its kind k, its label v *)
(* (operator, function, column or literal type), a number n (a literal's   *)
(* value; for an IF the source position of the UPDATE it came from, 0 when *)
(* untagged) and its children a.  Names, types and spellings are labels.   *)
(***************************************************************************)
EXTENDS Integers, Sequences, FiniteSets

CONSTANT NullValue      \* what NULL evaluates to

ASSUME NullIsNoNumber == NullValue \notin Int

Node(k, v, n, a) == [k |-> k, v |-> v, n |-> n, a |-> a]

Lit(x) == Node("lit", "num", x, <<>>)
Null == Node("lit", "null", NullValue, <<>>)
Bool(b) == Node("lit", "bool", IF b THEN 1 ELSE 0, <<>>)
Str(text) == Node("str", text, 0, <<>>)
Var(name) == Node("var", name, 0, <<>>)
Col(c) == Node("col", c, 0, <<>>)
Op(o, l, r) == Node("op", o, 0, <<l, r>>)
Fn(f, args) == Node("fn", f, 0, args)
If(c, t, e) == Node("if", "", 0, <<c, t, e>>)
TaggedIf(pos, c, t, e) == Node("if", "", pos, <<c, t, e>>)

(* A key the dictionary does not have, and None as a function's answer.    *)
Absent == Node("none", "", 0, <<>>)

EqOps == {"=="}
NeOps == {"!="}
OrderOps == {">", ">=", "<", "<="}
ComparisonOps == EqOps \cup NeOps \cup OrderOps
ArithmeticOps == {"+", "-", "*"}

IsIf(n) == n.k = "if"
IsOp(n, o) == n.k = "op" /\ n.v = o
IsComparison(n) == n.k = "op" /\ n.v \in ComparisonOps
IsArithmetic(n) == n.k = "op" /\ n.v \in ArithmeticOps
IsLiteral(n) == n.k \in {"lit", "str"}
IsFn(n, f) == n.k = "fn" /\ n.v = f
IsZero(n) == n.k = "lit" /\ n.v = "num" /\ n.n = 0
IsNull(n) == n.k = "lit" /\ n.v = "null"
IsBool(n) == n.k = "lit" /\ n.v = "bool"

CondOf(n) == n.a[1]
ThenOf(n) == n.a[2]
ElseOf(n) == n.a[3]

(* The node over its children as a pass leaves them.                       *)
Mapped(Pass(_), n) == [n EXCEPT !.a = [i \in DOMAIN n.a |-> Pass(n.a[i])]]

-----------------------------------------------------------------------------
(* What a node evaluates to, V giving the values of its children.  A       *)
(* comparison with NULL is never true and NOT is the complement, as the    *)
(* folding of literals and of boolean IFs in the optimizer assumes.        *)

Compare(o, x, y) ==
    /\ x # NullValue /\ y # NullValue
    /\ \/ o = "==" /\ x = y
       \/ o = "!=" /\ x # y
       \/ o = ">"  /\ x > y
       \/ o = ">=" /\ x >= y
       \/ o = "<"  /\ x < y
       \/ o = "<=" /\ x <= y

Arithmetic(o, x, y) ==
    CASE x = NullValue \/ y = NullValue -> NullValue
      [] o = "+" -> x + y
      [] o = "-" -> x - y
      [] o = "*" -> x * y

Larger(x, y) == IF x = NullValue THEN y
                  ELSE IF y = NullValue \/ x > y THEN x ELSE y

AsNumber(b) == IF b THEN 1 ELSE 0

Operation(o, x, y) ==
    CASE o \in ArithmeticOps -> Arithmetic(o, x, y)
      [] o = "AND" -> AsNumber(x = 1 /\ y = 1)
      [] o = "OR" -> AsNumber(x = 1 \/ y = 1)
      [] OTHER -> AsNumber(Compare(o, x, y))

CallValue(f, x, y) ==
    CASE f = "COALESCE" -> IF x = NullValue THEN y ELSE x
      [] f = "MAX" -> Larger(x, y)
      [] f = "NOT" -> AsNumber(x # 1)
      [] f = "ISEMPTY" -> AsNumber(x = NullValue)
      [] f = "ISNOTEMPTY" -> AsNumber(x # NullValue)

ValueOf(n, row, x, y, z) ==
    CASE n.k = "lit" -> n.n
      [] n.k \in {"col", "var", "str"} -> row[n.v]
      [] n.k = "op" -> Operation(n.v, x, y)
      [] n.k = "if" -> IF x = 1 THEN y ELSE z
      [] n.k = "fn" -> CallValue(n.v, x, y)
      [] n.k = "none" -> NullValue

-----------------------------------------------------------------------------
(* Patterns an UPDATE sequence leaves behind.                              *)

(* A rule applied above the rewritten children, and again to what it makes. *)
Reapplied(Pass(_), Rule(_), n) ==
    LET m == Mapped(Pass, n)
        f == IF IsIf(m) THEN Rule(m) ELSE Absent
    IN  IF f = Absent THEN m ELSE Pass(f)

EqualsZero(cond, x) == /\ IsOp(cond, "==")
                       /\ \/ IsZero(cond.a[2]) /\ cond.a[1] = x
                          \/ IsZero(cond.a[1]) /\ cond.a[2] = x

(* IF(prior == 0) THEN default ELSE IF(join) THEN src ELSE 0, directly or  *)
(* with the comparison already distributed over the prior value.           *)
JoinZeroDefault(n) ==
    LET inner == ElseOf(n) IN
    IF /\ IsIf(n) /\ IsIf(inner) /\ IsZero(ElseOf(inner)) /\ IsLiteral(ThenOf(n))
       /\ \/ EqualsZero(CondOf(n), inner)
          \/ /\ IsIf(CondOf(n)) /\ CondOf(CondOf(n)) = CondOf(inner)
             /\ EqualsZero(ThenOf(CondOf(n)), ThenOf(inner))
             /\ EqualsZero(ElseOf(CondOf(n)), Lit(0))
    THEN If(Op("AND", CondOf(inner), Op("!=", Fn("COALESCE", <<ThenOf(inner), Lit(0)>>), Lit(0))),
            ThenOf(inner), ThenOf(n))
    ELSE Absent

(* COALESCE(x, lit) == lit is read as x == lit.                            *)
DefaultsToLiteral(n) == /\ IsOp(n, "==") /\ IsFn(n.a[1], "COALESCE")
                        /\ IsLiteral(n.a[2]) /\ n.a[1].a[2] = n.a[2]

NormalizeGuardAt(Norm(_), n) ==
    CASE DefaultsToLiteral(n) -> Op("==", Norm(n.a[1].a[1]), n.a[2])
      [] /\ ~DefaultsToLiteral(n)
         /\ n.k = "fn" \/ (n.k = "op" /\ n.v \in {"AND", "OR", "=="}) -> Mapped(Norm, n)
      [] OTHER -> n

SelfEqualityOf(Norm(_), n) == IsOp(n, "==") /\ Norm(n.a[1]) = Norm(n.a[2])

(* How often each conjunct occurs.                                         *)
BagOf(parts) == [p \in {parts[i] : i \in DOMAIN parts} |-> Cardinality({i \in DOMAIN parts : parts[i] = p})]

SameValueAt(Same(_, _), Signature(_), x, y) ==
    \/ x = y
    \/ /\ IsIf(x) /\ IsIf(y) /\ Signature(CondOf(x)) = Signature(CondOf(y))
       /\ Same(ThenOf(x), ThenOf(y)) /\ Same(ElseOf(x), ElseOf(y))
    \/ /\ x.k \in {"op", "fn"} /\ x.k = y.k /\ x.v = y.v /\ Len(x.a) = Len(y.a)
       /\ \A i \in DOMAIN x.a : Same(x.a[i], y.a[i])

(* IF(g) THEN IF(c) THEN cap ELSE base ELSE base is IF(g AND c) ...        *)
CapOf(Same(_, _), MergeAnd(_, _), n) ==
    IF /\ IsIf(n) /\ IsIf(ThenOf(n)) /\ ElseOf(n) # Absent
       /\ Same(ElseOf(ThenOf(n)), ElseOf(n))
    THEN If(MergeAnd(CondOf(n), CondOf(ThenOf(n))), ThenOf(ThenOf(n)), ElseOf(n))
    ELSE Absent

(* The subject x of a comparison x < 0 that was distributed over an IF.    *)
ClampSubjectOf(Subject(_), n) ==
    IF n.k = "op" THEN IF n.v \in {"<", "<="} /\ IsZero(n.a[2]) THEN n.a[1] ELSE Absent
    ELSE IF ~IsIf(n) THEN Absent
    ELSE LET t == Subject(ThenOf(n))  e == Subject(ElseOf(n))
         IN  IF t = Absent \/ e = Absent THEN Absent ELSE If(CondOf(n), t, e)

(* IF(x < 0) THEN 0 ELSE x is MAX(x, 0).                                   *)
NegativeClampOf(Subject(_), n) ==
    LET subject == Subject(CondOf(n))
        inner == IF /\ IsFn(subject, "COALESCE") /\ ~IsIf(CondOf(n))
                    /\ IsZero(subject.a[2])
                 THEN subject.a[1] ELSE subject
    IN  IF IsIf(n) /\ IsZero(ThenOf(n)) /\ subject # Absent
           /\ ElseOf(n) = inner
        THEN Fn("MAX", <<ElseOf(n), Lit(0)>>) ELSE Absent

NeverNullOf(Never(_), n) ==
    \/ IsLiteral(n) /\ ~IsNull(n)
    \/ IsFn(n, "MAX") /\ \A i \in DOMAIN n.a : Never(n.a[i])
    \/ IsFn(n, "COALESCE") /\ Never(n.a[Len(n.a)])
    \/ IsArithmetic(n) /\ Never(n.a[1]) /\ Never(n.a[2])
    \/ IsIf(n) /\ Never(ThenOf(n)) /\ Never(ElseOf(n))

StripCoalesceAt(Pass(_), Never(_), n) ==
    LET m == Mapped(Pass, n)
    IN  IF IsFn(m, "COALESCE") /\ Never(m.a[1]) THEN m.a[1] ELSE m

-----------------------------------------------------------------------------
(* No conditional value inside a comparison: 4X has none.                  *)

(* x * IF(c) THEN(a) ELSE(b) is IF(c) THEN(x*a) ELSE(x*b).                 *)
HoistAt(Hoist(_), n) ==
    LET AsIf(side) == IF IsIf(side) /\ ElseOf(side) # Absent THEN side ELSE Hoist(side)
        Branch(x) == IF Hoist(x) = Absent THEN x ELSE Hoist(x)
        l == AsIf(n.a[1])
        r == AsIf(n.a[2])
    IN  CASE ~IsArithmetic(n) -> Absent
          [] IsArithmetic(n) /\ l # Absent ->
                If(CondOf(l), Branch(Op(n.v, ThenOf(l), n.a[2])), Branch(Op(n.v, ElseOf(l), n.a[2])))
          [] IsArithmetic(n) /\ l = Absent /\ r # Absent ->
                If(CondOf(r), Branch(Op(n.v, n.a[1], ThenOf(r))), Branch(Op(n.v, n.a[1], ElseOf(r))))
          [] OTHER -> Absent

(* (IF(c) THEN a ELSE b) > x is IF(c) THEN(a > x) ELSE(b > x), one level   *)
(* of nesting each time the pass runs.                                     *)
DistributeAt(Pass(_), Hoist(_), n) ==
    LET Surfaced(x) == IF Hoist(x) = Absent THEN x ELSE Hoist(x)
        l == Surfaced(n.a[1])
        r == Surfaced(n.a[2])
        Over(x, y) == Op(n.v, Pass(x), Pass(y))
    IN  CASE IsComparison(n) /\ IsIf(l) ->
                If(Pass(CondOf(l)), Over(ThenOf(l), r), Over(ElseOf(l), r))
          [] IsComparison(n) /\ ~IsIf(l) /\ IsIf(r) ->
                If(Pass(CondOf(r)), Over(l, ThenOf(r)), Over(l, ElseOf(r)))
          [] OTHER -> Mapped(Pass, n)

-----------------------------------------------------------------------------
(* Branches and conditions that are decided.                               *)

(* IF(c) THEN(x) ELSE(x) is x.                                             *)
CollapseDegenerateAt(Pass(_), n) ==
    LET m == Mapped(Pass, n)
    IN  IF IsIf(m) /\ ThenOf(m) = ElseOf(m) THEN ThenOf(m) ELSE m

Booleanish(n) == IsBool(n) \/ IsComparison(n) \/ IsOp(n, "AND") \/ IsOp(n, "OR")
                 \/ (n.k = "fn" /\ n.v \in {"ISEMPTY", "ISNOTEMPTY", "NOT"})

Negate(n) == Fn("NOT", <<n>>)

(* A comparison of two literals; strings by their text.                    *)
DecidedComparison(n) ==
    /\ IsComparison(n) /\ IsLiteral(n.a[1]) /\ IsLiteral(n.a[2])
    /\ ~IsBool(n.a[1]) /\ ~IsBool(n.a[2])
    /\ \/ IsNull(n.a[1]) \/ IsNull(n.a[2])
       \/ n.a[1].k = "lit" /\ n.a[2].k = "lit"
       \/ n.a[1].k = "str" /\ n.a[2].k = "str" /\ n.v \in {"==", "!="}

Decide(n) ==
    Bool(IF n.a[1].k = "str" /\ n.a[2].k = "str" THEN (n.v = "==") = (n.a[1] = n.a[2])
         ELSE ~IsNull(n.a[1]) /\ ~IsNull(n.a[2]) /\ Compare(n.v, n.a[1].n, n.a[2].n))

FoldLogical(n) ==
    LET neutral == Bool(n.v = "AND")
        Folded(literal, other) == IF literal = neutral THEN other ELSE literal
    IN  IF IsBool(n.a[1]) THEN Folded(n.a[1], n.a[2])
        ELSE IF IsBool(n.a[2]) THEN Folded(n.a[2], n.a[1]) ELSE n

FoldIf(n) ==
    LET c == CondOf(n)  t == ThenOf(n)  e == ElseOf(n) IN
    CASE IsBool(c) -> IF c = Bool(TRUE) THEN t ELSE e
      [] ~IsBool(c) /\ ~(Booleanish(t) /\ Booleanish(e)) -> n
      [] OTHER ->
            CASE ~IsBool(t) /\ ~IsBool(e) ->
                    Op("OR", Op("AND", c, t), Op("AND", Negate(c), e))
              [] IsBool(t) /\ IsBool(e) ->
                    IF t = e THEN t ELSE IF t = Bool(TRUE) THEN c ELSE Negate(c)
              [] t = Bool(TRUE) /\ ~IsBool(e) -> Op("OR", c, e)
              [] t = Bool(FALSE) /\ ~IsBool(e) -> Op("AND", Negate(c), e)
              [] e = Bool(TRUE) /\ ~IsBool(t) -> Op("OR", Negate(c), t)
              [] e = Bool(FALSE) /\ ~IsBool(t) -> Op("AND", c, t)

FoldBooleansAt(Pass(_), n) ==
    LET m == Mapped(Pass, n)
    IN  CASE DecidedComparison(m) -> Decide(m)
          [] IsOp(m, "AND") \/ IsOp(m, "OR") -> FoldLogical(m)
          [] IsIf(m) -> FoldIf(m)
          [] OTHER -> m

(* IF(c1) THEN v ELSE IF(c2) THEN v ELSE e is IF(OR(c1, c2)) THEN v ELSE e. *)
MergeAdjacentAt(Pass(_), n) ==
    CASE ~IsIf(n) -> n
      [] IsIf(n) /\ IsIf(ElseOf(n)) /\ ThenOf(ElseOf(n)) = ThenOf(n) ->
            If(Op("OR", CondOf(n), CondOf(ElseOf(n))), ThenOf(n),
               Pass(ElseOf(ElseOf(n))))
      [] OTHER -> If(CondOf(n), Pass(ThenOf(n)), Pass(ElseOf(n)))

-----------------------------------------------------------------------------
(* A disjunction of conjunctions, factored.                                *)

(* The column of an equality with a literal.                               *)
IsColumnEquality(p) == /\ IsOp(p, "==")
                       /\ \/ p.a[1].k = "col" /\ IsLiteral(p.a[2])
                          \/ p.a[2].k = "col" /\ IsLiteral(p.a[1])
EqualityColumn(p) == IF p.a[1].k = "col" THEN p.a[1] ELSE p.a[2]

(* (col == a OR col == b) AND rest.                                        *)
GroupOf(And(_), Or(_), group) ==
    CASE Len(group.values) < 2 -> And(group.values \o group.rest)
      [] Len(group.values) > 1 /\ group.rest = <<>> -> Or(group.values)
      [] OTHER -> Op("AND", Or(group.values), And(group.rest))

(* What was taken out of the disjuncts that have it, over the rests of     *)
(* these, next to the disjuncts that lack it.                              *)
TakenOutOf(Factor(_), And(_), Or(_), f) ==
    LET Ands(lists) == [i \in DOMAIN lists |-> And(lists[i])]
        factored == IF \E i \in DOMAIN f.rests : f.rests[i] = <<>> THEN And(f.taken)
                    ELSE Op("AND", And(f.taken), Factor(Or(Ands(f.rests))))
    IN  IF f.lacking = <<>> THEN factored ELSE Factor(Or(Append(Ands(f.lacking), factored)))

FactorOf(Factor(_), And(_), Or(_), f, n) ==
    LET grouped == Or([i \in DOMAIN f.groups |-> GroupOf(And, Or, f.groups[i])])
    IN  CASE f.taken # <<>> -> TakenOutOf(Factor, And, Or, f)
          [] f.taken = <<>> /\ f.groups # <<>> -> IF grouped = n THEN n ELSE Factor(grouped)
          [] OTHER -> Or([i \in DOMAIN f.terms |-> And(f.terms[i])])

-----------------------------------------------------------------------------
(* ELSEIF chains as lists of arms.                                         *)

ChainArm(n) == [cond |-> CondOf(n), then |-> ThenOf(n)]

PassedArms(Pass(_), arms) ==
    [i \in DOMAIN arms |-> [cond |-> Pass(arms[i].cond), then |-> Pass(arms[i].then)]]

LeastOf(S) == CHOOSE i \in S : \A j \in S : i <= j

(* The arms above that assign the same value; an arm that stays joins only  *)
(* the one directly above it.                                              *)
SameThen(merged, arm) == {i \in DOMAIN merged : merged[i].then = arm.then}
JoinsAbove(stays, merged, arm) ==
    LET same == SameThen(merged, arm)
    IN  same # {} /\ (LeastOf(same) = Len(merged) \/ ~stays)
JoinArm(OrOf(_, _), stays, merged, arm) ==
    IF JoinsAbove(stays, merged, arm)
    THEN [merged EXCEPT ![LeastOf(SameThen(merged, arm))].cond = OrOf(@, arm.cond)]
    ELSE Append(merged, arm)

(* An arm whose guard an arm above has goes, or replaces that arm when it  *)
(* is preferred; so does one that narrows the guard of an arm above.       *)
SameGuard(Signature(_), kept, arm) ==
    {i \in DOMAIN kept : Signature(kept[i].cond) = Signature(arm.cond)}
NarrowsAbove(Conjuncts(_), kept, arm) ==
    \E i \in DOMAIN kept : /\ Conjuncts(kept[i].cond) \subseteq Conjuncts(arm.cond)
                           /\ Conjuncts(kept[i].cond) # Conjuncts(arm.cond)
KeepArm(Signature(_), Conjuncts(_), Prefers(_, _), kept, arm) ==
    LET same == SameGuard(Signature, kept, arm)
    IN  CASE same # {} -> IF Prefers(arm.then, kept[LeastOf(same)].then)
                          THEN [kept EXCEPT ![LeastOf(same)] = arm] ELSE kept
          [] same = {} /\ NarrowsAbove(Conjuncts, kept, arm) -> kept
          [] OTHER -> Append(kept, arm)

-----------------------------------------------------------------------------
(* Guards repeated below an IF, in its THEN, where a NULL over an ELSE is   *)
(* taken for the folding's own, not for an assignment of NULL.             *)

RepeatsGuard(Signature(_), n, guard) == IsIf(n) /\ Signature(CondOf(n)) = Signature(guard)
IsPlaceholder(n) == IsNull(ThenOf(n)) /\ ElseOf(n) # Absent

UnwrappedAt(Below(_), Signature(_), n, guard) ==
    IF RepeatsGuard(Signature, n, guard) /\ IsPlaceholder(n) THEN Below(ElseOf(n)) ELSE n

PeeledAt(Below(_), Signature(_), n, guard) ==
    CASE ~RepeatsGuard(Signature, n, guard) -> n
      [] RepeatsGuard(Signature, n, guard) -> Below(IF IsPlaceholder(n) THEN ElseOf(n) ELSE ThenOf(n))

(* The column c of ISEMPTY(c) or ISNOTEMPTY(c).                            *)
PredicateColumn(n, f) == IF IsFn(n, f) /\ n.a[1].k = "col" THEN n.a[1] ELSE Absent

(* Where c is known not to be empty, an IF(ISEMPTY(c)) gives its ELSE.      *)
PrunedThen(Prune(_), cond, then) ==
    LET c == PredicateColumn(cond, "ISNOTEMPTY")
    IN  IF c # Absent /\ IsIf(then) /\ PredicateColumn(CondOf(then), "ISEMPTY") = c
        THEN Prune(ElseOf(then)) ELSE then

(* An arm that repeats the arm above goes, and so does an ELSE that is the  *)
(* column known to be empty.                                               *)
PrunedElse(cond, then, else) ==
    LET c == PredicateColumn(cond, "ISNOTEMPTY")
        rest == IF IsIf(else) /\ CondOf(else) = cond /\ ThenOf(else) = then THEN ElseOf(else) ELSE else
    IN  IF c # Absent /\ rest = c THEN Absent ELSE rest

PrunedAt(Prune(_), Peel(_, _), m) ==
    LET then == PrunedThen(Prune, CondOf(m), Peel(ThenOf(m), CondOf(m)))
    IN  If(CondOf(m), then, PrunedElse(CondOf(m), then, ElseOf(m)))

PruneAt(Prune(_), Peel(_, _), Flat(_), OneOfEach(_), n) ==
    LET cut == PrunedAt(Prune, Peel, Mapped(Prune, n))
    IN  CASE ~IsIf(n) -> Mapped(Prune, n)
          [] IsIf(n) /\ Flat(cut) # Absent -> Prune(Flat(cut))
          [] OTHER -> If(OneOfEach(CondOf(cut)), ThenOf(cut), ElseOf(cut))
=============================================================================
