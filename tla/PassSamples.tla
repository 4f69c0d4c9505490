----------------------------- MODULE PassSamples -----------------------------
(***************************************************************************)
(* A set of trees for which the recursive operators of AstOptimize satisfy *)
(* the equations of PassEquations: some formulas, what they are made of    *)
(* and what the passes make of them.  TLC evaluates the assumption at the  *)
(* end; the theorems of ExprRulesProofs are about any such set.            *)
(***************************************************************************)
EXTENDS AstCompile, PassEquations

X == Col("a")
Y == Col("b")
XIs1 == Op("==", X, Lit(1))
YIs1 == Op("==", Y, Lit(1))
XIs0 == Op("==", X, Lit(0))
XOverY == Op(">", X, Y)
YOver0 == Op(">", Y, Lit(0))
FlooredAt(x) == If(Op("<", x, Lit(0)), Lit(0), x)
DefaultIs1 == Op("==", Fn("COALESCE", <<X, Lit(1)>>), Lit(1))
Joined == If(YIs1, X, Lit(0))
Samples == {FlooredAt(X), FlooredAt(Fn("COALESCE", <<X, Lit(0)>>)),
            If(Op("<", If(YIs1, X, Lit(1)), Lit(0)), Lit(0), If(YIs1, X, Lit(1))),
            If(Op("==", Joined, Lit(0)), Lit(1), Joined),
            Op(">", Op("*", If(YIs1, X, Lit(1)), If(XIs1, Y, X)), Y),
            Fn("COALESCE", <<Fn("MAX", <<Fn("COALESCE", <<X, Lit(0)>>), Op("-", Lit(1), Lit(0))>>), Y>>),
            If(Op("OR", Op("==", Str("x"), Str("y")), If(XIs1, Bool(FALSE), YIs1)), X, If(YIs1, X, Y)),
            If(Op("==", Null, Lit(1)), X, If(XIs1, YIs1, Fn("ISEMPTY", <<Y>>))),
            If(YIs1, If(Op("AND", DefaultIs1, XIs1), Lit(0), X), X),
            Op("AND", Op("==", X, X), Op("AND", XIs1, DefaultIs1)),
            If(XIs1, X, If(Op("OR", YIs1, XIs1), Y, If(YIs1, Lit(0), Absent))),
            Op("OR", Op("AND", XIs1, XOverY), Op("AND", XIs1, YIs1)),
            Op("OR", XOverY, Op("AND", XOverY, YIs1)),
            Op("OR", Op("OR", Op("AND", XIs1, YIs1), Op("AND", XIs0, YIs1)), XOverY),
            Op("OR", Op("OR", Op("AND", XOverY, XIs1), Op("AND", XOverY, YOver0)), YIs1)}
SampleRows == [{"a", "b"} -> {NullValue, -1, 0, 1}]

(* Strings are numbered past the values of the columns.                    *)
WithStrings(row) == row @@ ("x" :> 7) @@ ("y" :> 8)

(* A weight that every rewriting of a node lowers: products and comparisons *)
(* weigh the product of their sides, as distribution copies one of them.    *)
RECURSIVE Weight(_)
Weight(n) == CASE n.a = <<>> -> 2
               [] IsArithmetic(n) \/ IsComparison(n) -> Weight(n.a[1]) * Weight(n.a[2])
               [] OTHER -> 1 + FoldLeft(LAMBDA w, child : w + Weight(child), 0, n.a)

Passes(n) == {CollapseDegenerate(n), StripCoalesce(n), FoldBooleans(n), MergeAdjacent(n),
              NegativeClamps(n), JoinZeroDefaults(n), Distribute(n),
              NormalizeGuard(n), DedupeGuards(n), CollapseCap(n), DropShadowed(n), FactorGuards(n)}

Images(n) == {Mapped(CollapseDegenerate, n), Mapped(StripCoalesce, n), Mapped(FoldBooleans, n),
              Mapped(NegativeClamps, n), Mapped(JoinZeroDefaults, n), Mapped(Distribute, n),
              Mapped(NormalizeGuard, n), Mapped(DedupeGuards, n), Mapped(CollapseCap, n),
              Mapped(DropShadowed, n), Mapped(FactorGuards, n)}

(* The products hoist makes of one.                                        *)
Products(n) ==
    LET Sides(x) == {y \in {x, Hoist(x)} : IsIf(y)}
    IN  IF ~IsArithmetic(n) THEN {}
        ELSE UNION {{Op(n.v, ThenOf(s), n.a[2]), Op(n.v, ElseOf(s), n.a[2])} : s \in Sides(n.a[1])}
             \cup UNION {{Op(n.v, n.a[1], ThenOf(s)), Op(n.v, n.a[1], ElseOf(s))} : s \in Sides(n.a[2])}

(* What is made of a disjunction that is factored.                         *)
Factorings(n) == IF IsOp(n, "OR") THEN {Factoring(n)} ELSE {}
ListOfAnds(lists) == [i \in DOMAIN lists |-> RebuildAnd(lists[i])]
FactoredAnd(f) == IF <<>> \in Range(f.rests) THEN RebuildAnd(f.taken)
                  ELSE Op("AND", RebuildAnd(f.taken), FactorOr(RebuildOr(ListOfAnds(f.rests))))
FactoredConjuncts(f) ==
    UNION {Prefixes(l) : l \in Range(f.terms) \cup Range(f.rests) \cup Range(f.lacking) \cup {f.taken}
                               \cup UNION {{g.rest, g.values \o g.rest} : g \in Range(f.groups)}}
FactoredDisjuncts(f) ==
    LET again == IF f.taken = <<>> THEN {}
                 ELSE {ListOfAnds(f.rests), Append(ListOfAnds(f.lacking), FactoredAnd(f))}
        grouped == [i \in DOMAIN f.groups |-> GroupOf(RebuildAnd, RebuildOr, f.groups[i])]
    IN  UNION {Prefixes(l) : l \in {ListOfAnds(f.terms), grouped} \cup again \cup {g.values : g \in Range(f.groups)}}

(* How often FactorOr runs.                                                *)
RECURSIVE Rounds(_)
Rounds(n) ==
    LET f == Factoring(n)
        grouped == RebuildOr([i \in DOMAIN f.groups |-> GroupOf(RebuildAnd, RebuildOr, f.groups[i])])
        over == IF <<>> \in Range(f.rests) THEN 0 ELSE Rounds(RebuildOr(ListOfAnds(f.rests)))
        beside == IF f.lacking = <<>> THEN 0 ELSE Rounds(RebuildOr(Append(ListOfAnds(f.lacking), FactoredAnd(f))))
    IN  IF ~IsOp(n, "OR") THEN 0
        ELSE 1 + (IF f.taken # <<>> THEN over + beside
                  ELSE IF f.groups = <<>> \/ grouped = n THEN 0 ELSE Rounds(grouped))

(* What the passes make of a condition, list by list.                      *)
MergedConjuncts(n) ==
    IF IsIf(n) /\ IsIf(ThenOf(n)) THEN {FlattenAnd(CondOf(n)) \o FlattenAnd(CondOf(ThenOf(n)))} ELSE {}
ConjunctLists(n) ==
    UNION {Prefixes(l) \cup Prefixes(DedupeAnd(l)) : l \in {FlattenAnd(n)} \cup MergedConjuncts(n)}
    \cup UNION {FactoredConjuncts(f) : f \in Factorings(n)}

RECURSIVE ChainsFrom(_, _)
ChainsFrom(n, seen) ==
    {<<n, seen>>} \cup IF ~IsIf(n) THEN {}
                      ELSE ChainsFrom(ElseOf(n), seen \cup Range(FlattenOr(DropShadowed(CondOf(n)))))
ChainsOf(n) == IF IsIf(n) THEN ChainsFrom(n, {}) ELSE {}
DisjunctLists(n) ==
    Prefixes(FlattenOr(n))
    \cup UNION {Prefixes(Without(FlattenOr(DropShadowed(CondOf(c[1]))), c[2])) : c \in {d \in ChainsOf(n) : IsIf(d[1])}}
    \cup UNION {FactoredDisjuncts(f) : f \in Factorings(n)}

Conditions(n) == {RebuildAnd(l) : l \in ConjunctLists(n)} \cup {RebuildOr(l) : l \in DisjunctLists(n)}

Made(n) == Range(n.a) \cup Passes(n) \cup Images(n) \cup Products(n) \cup Conditions(n)
           \cup {Unshadowed(c[1], c[2]) : c \in ChainsOf(n)}
           \cup {FactoredAnd(f) : f \in {g \in Factorings(n) : g.taken # <<>>}}
           \cup {FactorOr(n), Hoist(n), ClampSubject(n), NegativeClamp(n), JoinZeroDefault(n), RepeatedCap(n)}

RECURSIVE ClosedUnder(_, _)
ClosedUnder(new, T) ==
    IF new = {} THEN T
    ELSE ClosedUnder(UNION {Made(n) : n \in new} \ (T \cup new), T \cup new)

ASSUME OperatorsSatisfyTheEquations ==
    LET T == ClosedUnder(Samples, {Absent})
        weight == [n \in T |-> Weight(n)]
        never == [n \in T |-> NeverNull(n)]
        subject == [n \in T |-> ClampSubject(n)]
        hoist == [n \in T |-> Hoist(n)]
        norm == [n \in T |-> NormalizeGuard(n)]
        same == [x, y \in T |-> SameValue(x, y)]
        cap == [n \in T |-> RepeatedCap(n)]
        C == UNION {ConjunctLists(n) : n \in T}
        conjuncts == [n \in T |-> FlattenAnd(n)]
        every == [l \in C |-> RebuildAnd(l)]
        dedupe == [l \in C |-> DedupeAnd(l)]
        D == UNION {DisjunctLists(n) : n \in T}
        disjuncts == [n \in T |-> FlattenOr(n)]
        either == [l \in D |-> RebuildOr(l)]
        factoring == [n \in {m \in T : IsOp(m, "OR")} |-> Factoring(n)]
        factor == [n \in T |-> FactorOr(n)]
        Chains == UNION {ChainsOf(n) : n \in T}
        Taken == {c[2] : c \in Chains}
        without == [l \in D, seen \in Taken |-> Without(l, seen)]
    IN  /\ IsForest(T, weight)
        /\ \A row \in SampleRows :
              LET value == [n \in T |-> Value(n, WithStrings(row))]
              IN  IsMeaning(T, WithStrings(row), value) /\ HasConditions(T, value)
        /\ \A row \in [{"a", "b"} -> {-1, 0, 1}] :
              LET value == [n \in T |-> Value(n, WithStrings(row))]
              IN  /\ GivenWhere(T, [n \in T |-> NegativeClamp(n)], value)
                  /\ GivenWhere(T, [n \in T |-> JoinZeroDefault(n)], value)
                  /\ GivenGuards(T, norm, value)
        /\ IsCollapseDegenerate(T, [n \in T |-> CollapseDegenerate(n)])
        /\ IsNeverNull(T, never)
        /\ IsStripCoalesce(T, never, [n \in T |-> StripCoalesce(n)])
        /\ IsFoldBooleans(T, [n \in T |-> FoldBooleans(n)])
        /\ IsMergeAdjacent(T, [n \in T |-> MergeAdjacent(n)])
        /\ IsClampSubject(T, subject)
        /\ IsNegativeClamps(T, weight, subject, [n \in T |-> NegativeClamp(n)],
                            [n \in T |-> NegativeClamps(n)])
        /\ IsJoinZeroDefaults(T, weight, [n \in T |-> JoinZeroDefault(n)],
                              [n \in T |-> JoinZeroDefaults(n)])
        /\ IsHoist(T, weight, hoist)
        /\ IsDistribute(T, hoist, [n \in T |-> Distribute(n)])
        /\ IsLists(T, C) /\ IsFlatten(T, C, "AND", conjuncts) /\ IsRebuild(T, C, "AND", every)
        /\ IsLists(T, D) /\ IsFlatten(T, D, "OR", disjuncts) /\ IsRebuild(T, D, "OR", either)
        /\ IsNormalizeGuard(T, norm)
        /\ IsDedupeAnd(T, C, norm, dedupe)
        /\ IsDedupeGuards(T, conjuncts, every, dedupe, [n \in T |-> DedupeGuards(n)])
        /\ IsSameValue(T, norm, conjuncts, same)
        /\ IsCollapseCap(T, C, weight, conjuncts, every, dedupe, same, cap, [n \in T |-> CollapseCap(n)])
        /\ Chains \subseteq T \X SUBSET T
        /\ IsWithout(T, D, Taken, without)
        /\ IsDropShadowed(T, Chains, disjuncts, either, without, [n \in T |-> DropShadowed(n)],
                          [c \in Chains |-> Unshadowed(c[1], c[2])])
        /\ IsFactorOr(T, C, D, conjuncts, disjuncts, dedupe, every, either, factoring,
                      [n \in T |-> Rounds(n)], factor)
        /\ IsFactorGuards(T, factor, [n \in T |-> FactorGuards(n)])

-----------------------------------------------------------------------------
(* Chains, for the passes that make lists of their arms.                    *)

Npa == CustomerNpaDate
XNegative == Op("<", X, Lit(0))
XIsBoth == Op("AND", XIs1, XIs0)
Chained(arms, default) == RebuildChain([i \in DOMAIN arms |-> [cond |-> arms[i][1], then |-> arms[i][2]]], default)
ChainSamples ==
    {Chained(<<<<XIs1, Lit(0)>>, <<XIs0, Y>>, <<XNegative, Lit(0)>>>>, Absent),
     Chained(<<<<XIs1, Y>>, <<XIs0, X>>, <<XNegative, Y>>>>, Y),
     Chained(<<<<XIs1, X>>, <<XIs1, Lit(0)>>, <<Op("AND", YIs1, XIs1), Y>>, <<XIs0, X>>>>, Lit(1)),
     Chained(<<<<XIsBoth, Null>>, <<XIs0, Y>>, <<Op("AND", XIs0, XIs1), X>>>>, Y),
     Chained(<<<<XIs1, Npa>>, <<XIs0, If(XIs1, Y, Npa)>>, <<XNegative, Null>>>>, Y),
     TaggedIf(3, XIs1, X, TaggedIf(5, XIs0, Chained(<<<<YIs1, X>>, <<XIs1, X>>>>, Y), If(XNegative, Y, Absent))),
     TaggedIf(3, XIs1, Lit(0), TaggedIf(5, YIs1, Y, X)),
     Chained(<<<<XIs1, Npa>>, <<YIs1, Y>>>>, X),
     If(If(XIs1, YIs1, XIs0), X, Y)}
ChainRow(row) == WithStrings(row) @@ (Npa.v :> 5)

ChainPasses(n) == {NormalizeChain(n), MergeSameThen(n), DropSameGuard(n), DeferRollup(n), EnforcePrecedence(n)}

MovedArms(n) == [i \in DOMAIN ChainArms(n) |-> LET arm == Precedence(MetaArms(n, 1))[i]
                                               IN  [cond |-> arm.cond, then |-> arm.then]]
DoneArms(n) == {PassedArms(NormalizeChain, ChainArms(n)), PassedArms(MergeSameThen, ChainArms(n)),
                PassedArms(DropSameGuard, ChainArms(n))}
JoinedChain(n) == <<PassedArms(MergeSameThen, ChainArms(n)), ChainDefault(n)>>

RECURSIVE WithKept(_)
WithKept(lists) ==
    LET more == lists \cup UNION {Prefixes(KeepArms(l)) : l \in lists}
    IN  IF more = lists THEN lists ELSE WithKept(more)
ArmLists(n) ==
    WithKept(UNION {Prefixes(l) : l \in {ChainArms(n), MovedArms(n), Deferred(ChainArms(n))} \cup DoneArms(n)}
             \cup UNION {Prefixes(JoinArms(l, JoinedChain(n)[2])) : l \in Prefixes(JoinedChain(n)[1])})

(* The lists and defaults that chains are rebuilt from.                     *)
RECURSIVE Upward(_, _)
Upward(l, d) == {<<l, d>>} \cup IF l = <<>> THEN {}
                                ELSE Upward(Front(l), If(Last(l).cond, Last(l).then, d))
DeferredChains(n) == Upward(Deferred(ChainArms(n)), ChainDefault(n))
MovedChains(n) == Upward(MovedArms(n), EnforcePrecedence(ChainDefault(n)))
Rebuilt(n) ==
    LET d == ChainDefault(n) IN
    DeferredChains(n) \cup MovedChains(n) \cup
    UNION {Upward(PassedArms(NormalizeChain, ChainArms(n)), NormalizeChain(d)),
           Upward(JoinArms(JoinedChain(n)[1], d), MergeSameThen(d)),
           Upward(KeepArms(PassedArms(DropSameGuard, ChainArms(n))), DropSameGuard(d))}
Joinings(n) == {<<l, ChainDefault(n)>> : l \in Prefixes(JoinedChain(n)[1])}

(* Which arms the two sorting passes take before which.                     *)
Pairs(l) == (DOMAIN l) \X (DOMAIN l)
ArmsByPrecedence(n) ==
    LET l == MetaArms(n, 1) IN {p \in Pairs(l) : SortsBefore(l[p[1]], l[p[2]])}
(* The account arms, the customer's, and what a first NULL leads.           *)
RollupRank(l, i) ==
    CASE l[i].then = CustomerNpaDate -> 2
      [] \E k \in 1..i : IsNull(l[k].then) -> 3
      [] OTHER -> 1
ArmsByRollup(n) ==
    LET l == ChainArms(n)
    IN  {p \in Pairs(l) : \/ RollupRank(l, p[1]) < RollupRank(l, p[2])
                          \/ RollupRank(l, p[1]) = RollupRank(l, p[2]) /\ p[1] < p[2]}

(* The value of a tree whose chains take the arm that is before the others. *)
RECURSIVE ReadBy(_, _, _)
ReadBy(before, n, row) ==
    LET l == ChainArms(n)
        holding == {i \in DOMAIN l : ReadBy(before, l[i].cond, row) = 1}
        Below(i) == IF i \in DOMAIN n.a THEN ReadBy(before, n.a[i], row) ELSE NullValue
    IN  IF ~IsIf(n) THEN ValueOf(n, row, Below(1), Below(2), Below(3))
        ELSE IF holding = {} THEN ReadBy(before, ChainDefault(n), row)
        ELSE ReadBy(before, l[CHOOSE i \in holding :
                                \A j \in holding \ {i} : <<i, j>> \in before[n]].then, row)

JoinedDisjuncts(n) ==
    LET lists == {JoinArms(l, ChainDefault(n)) : l \in Prefixes(JoinedChain(n)[1])} \cup {JoinedChain(n)[1]}
        conds == UNION {{arm.cond : arm \in Range(l)} : l \in lists}
    IN  {FlattenOr(g) \o FlattenOr(c) : g, c \in conds}
ChainDisjuncts(n) == UNION {Prefixes(l) : l \in {FlattenOr(n)} \cup JoinedDisjuncts(n)}

MadeOfChain(n) ==
    Range(n.a) \cup ChainPasses(n) \cup {Mapped(NormalizeChain, n), Mapped(MergeSameThen, n),
        Mapped(DropSameGuard, n), Mapped(DeferRollup, n), Mapped(EnforcePrecedence, n),
        Mapped(NormalizeGuard, n), NormalizeGuard(n), ChainDefault(n)}
    \cup {chain[2] : chain \in Rebuilt(n)} \cup {RebuildOr(l) : l \in ChainDisjuncts(n)}
    \cup UNION {UNION {{arm.cond, arm.then} : arm \in Range(l)} : l \in ArmLists(n)}

RECURSIVE ChainClosure(_, _)
ChainClosure(new, T) ==
    IF new = {} THEN T
    ELSE ChainClosure(UNION {MadeOfChain(n) : n \in new} \ (T \cup new), T \cup new)

ASSUME ChainOperatorsSatisfyTheEquations ==
    LET T == ChainClosure(ChainSamples, {Absent})
        weight == [n \in T |-> Size(n)]
        norm == [n \in T |-> NormalizeGuard(n)]
        conjuncts == [n \in T |-> FlattenAnd(n)]
        C == UNION {Prefixes(conjuncts[n]) : n \in T}
        D == UNION {ChainDisjuncts(n) : n \in T}
        disjuncts == [n \in T |-> FlattenOr(n)]
        either == [l \in D |-> RebuildOr(l)]
        A == {<<>>} \cup UNION {ArmLists(n) : n \in T}
        R == UNION {Rebuilt(n) : n \in T}
        J == UNION {Joinings(n) : n \in T}
        arms == [n \in T |-> ChainArms(n)]
        default == [n \in T |-> ChainDefault(n)]
        rebuild == [chain \in R |-> RebuildChain(chain[1], chain[2])]
        stays == [t, d \in T |-> KeepsPlace(t, d)]
        join == [chain \in J |-> JoinArms(chain[1], chain[2])]
        prefers == [t, u \in T |-> PrefersLater(t, u)]
        keep == [l \in A |-> KeepArms(l)]
        later == [n \in T |-> Deferred(ChainArms(n))]
        LaterChains == UNION {DeferredChains(n) : n \in T}
        byRollup == [n \in T |-> ArmsByRollup(n)]
        sorted == [n \in T |-> MovedArms(n)]
        SortedChains == UNION {MovedChains(n) : n \in T}
        byPrecedence == [n \in T |-> ArmsByPrecedence(n)]
        defer == [n \in T |-> DeferRollup(n)]
        enforce == [n \in T |-> EnforcePrecedence(n)]
        On(chains) == [chain \in chains |-> rebuild[chain]]
    IN  /\ IsForest(T, weight)
        /\ \A row \in SampleRows :
              LET value == [n \in T |-> Value(n, ChainRow(row))]
              IN  IsMeaning(T, ChainRow(row), value) /\ HasConditions(T, value)
        /\ \A row \in SampleRows, before \in {byRollup, byPrecedence} :
              IsReading(T, ChainRow(row), arms, default, before, [n \in T |-> ReadBy(before, n, ChainRow(row))])
        /\ \A row \in [{"a", "b"} -> {-1, 0, 1}] :
              LET value == [n \in T |-> Value(n, ChainRow(row))]
              IN  /\ GivenGuards(T, norm, value)
                  /\ GivenJoins(J, value, stays, join)
                  /\ GivenPreference(A, value, norm, conjuncts, prefers, keep)
        /\ IsLists(T, C) /\ IsFlatten(T, C, "AND", conjuncts) /\ IsNormalizeGuard(T, norm)
        /\ IsLists(T, D) /\ IsFlatten(T, D, "OR", disjuncts) /\ IsRebuild(T, D, "OR", either)
        /\ IsChains(T, A, arms, default) /\ IsRebuildChain(T, A, R, rebuild)
        /\ IsNormalizeChain(T, A, R, arms, default, rebuild, [n \in T |-> NormalizeChain(n)])
        /\ IsJoinArms(T, A, J, D, disjuncts, either, stays, join)
        /\ IsMergeSameThen(T, A, R, J, arms, default, rebuild, join, [n \in T |-> MergeSameThen(n)])
        /\ IsKeepArms(A, norm, conjuncts, prefers, keep)
        /\ IsDropSameGuard(T, A, R, arms, default, rebuild, keep, [n \in T |-> DropSameGuard(n)])
        /\ IsArmSort(T, A, arms, byRollup, later)
        /\ IsRebuildChain(T, A, LaterChains, On(LaterChains))
        /\ IsReordering(T, LaterChains, weight, arms, default, On(LaterChains), later, defer)
        /\ GivenOrder(T, LaterChains, arms, later, On(LaterChains), defer)
        /\ IsArmSort(T, A, arms, byPrecedence, sorted)
        /\ IsRebuildChain(T, A, SortedChains, On(SortedChains))
        /\ IsReordering(T, SortedChains, weight, arms, default, On(SortedChains), sorted, enforce)
        /\ GivenOrder(T, SortedChains, arms, sorted, On(SortedChains), enforce)
        /\ \A row \in SampleRows : \A n \in T :
              /\ Value(defer[n], ChainRow(row)) = ReadBy(byRollup, n, ChainRow(row))
              /\ Value(enforce[n], ChainRow(row)) = ReadBy(byPrecedence, n, ChainRow(row))
        /\ \A pass \in {defer, enforce} : \E row \in SampleRows : \E n \in T :
              Value(pass[n], ChainRow(row)) # Value(n, ChainRow(row))

-----------------------------------------------------------------------------
(* Repeated guards and pruning.                                            *)

XIsFilled == Fn("ISNOTEMPTY", <<X>>)
XIsEmpty == Fn("ISEMPTY", <<X>>)
NeverBoth == Op("AND", XIs0, XIs1)
PruneSamples ==
    {If(XIs1, If(XIs1, Null, If(YIs1, Null, Null)), X),
     If(XIsBoth, If(NeverBoth, Null, If(XIsBoth, Y, Lit(0))), If(XIsBoth, Null, Y)),
     If(XIsFilled, If(XIsEmpty, Lit(0), If(XIs1, If(XIs1, Y, Null), Lit(1))), X),
     If(Op("OR", Op("OR", XIs1, YIs1), XIs1), Lit(0), If(Op("OR", XIs1, Op("OR", YIs1, XIs0)), Y, Null)),
     If(XIs1, Y, If(XIs1, Y, If(DefaultIs1, Y, Lit(0)))),
     If(XIs0, FlooredAt(X), If(Op("==", Joined, Lit(0)), Lit(1), Joined))}

(* What the THEN of an IF is looked into as, level by level.                *)
RECURSIVE NestsFrom(_, _)
NestsFrom(n, guard) ==
    {<<n, guard>>} \cup IF RepeatsGuard(GuardSignature, n, guard)
                        THEN NestsFrom(ThenOf(n), guard) \cup NestsFrom(ElseOf(n), guard) ELSE {}
NestsOf(m) == IF IsIf(m) THEN NestsFrom(ThenOf(m), CondOf(m)) ELSE {}
Nests(n) == NestsOf(Mapped(UnwrapGuards, n)) \cup NestsOf(Mapped(PruneTree, n))

Cuts(n) == IF IsIf(n) THEN {PrunedAt(PruneTree, Peeled, Mapped(PruneTree, n))} ELSE {}
PruneDisjuncts(n) == UNION {Prefixes(l) : l \in {FlattenOr(n), Distinct(FlattenOr(n))}}
MadeOfPruning(n) ==
    Range(n.a) \cup Cuts(n)
    \cup {UnwrapGuards(n), Mapped(UnwrapGuards, n), PruneTree(n), Mapped(PruneTree, n), NormalizeGuard(n),
          Mapped(NormalizeGuard, n), JoinZeroDefault(n), NegativeClamp(n), ClampSubject(n)}
    \cup {RebuildOr(l) : l \in PruneDisjuncts(n)}
    \cup UNION {{Unwrapped(nest[1], nest[2]), Peeled(nest[1], nest[2])} : nest \in Nests(n)}

RECURSIVE PruneClosure(_, _)
PruneClosure(new, T) ==
    IF new = {} THEN T
    ELSE PruneClosure(UNION {MadeOfPruning(n) : n \in new} \ (T \cup new), T \cup new)

ASSUME PruningSatisfiesTheEquations ==
    LET T == PruneClosure(PruneSamples, {Absent})
        weight == [n \in T |-> Weight(n)]
        norm == [n \in T |-> NormalizeGuard(n)]
        conjuncts == [n \in T |-> FlattenAnd(n)]
        L == UNION {Prefixes(conjuncts[n]) : n \in T}
        P == UNION {Nests(n) : n \in T}
        D == UNION {PruneDisjuncts(n) : n \in T}
        disjuncts == [n \in T |-> FlattenOr(n)]
        either == [l \in D |-> RebuildOr(l)]
        distinct == [l \in D |-> Distinct(l)]
        subject == [n \in T |-> ClampSubject(n)]
        joins == [n \in T |-> JoinZeroDefault(n)]
        clamps == [n \in T |-> NegativeClamp(n)]
        unwrapped == [nest \in P |-> Unwrapped(nest[1], nest[2])]
        peel == [nest \in P |-> Peeled(nest[1], nest[2])]
    IN  /\ IsForest(T, weight)
        /\ \A row \in SampleRows :
              LET value == [n \in T |-> Value(n, WithStrings(row))]
              IN  IsMeaning(T, WithStrings(row), value)
        /\ \A row \in [{"a", "b"} -> {-1, 0, 1}] :
              LET value == [n \in T |-> Value(n, WithStrings(row))]
              IN  /\ GivenGuards(T, norm, value) /\ GivenPlaceholders(P, norm, conjuncts, value)
                  /\ GivenWhere(T, joins, value) /\ GivenWhere(T, clamps, value)
        /\ IsLists(T, L) /\ IsFlatten(T, L, "AND", conjuncts) /\ IsNormalizeGuard(T, norm)
        /\ IsLists(T, D) /\ IsFlatten(T, D, "OR", disjuncts) /\ IsRebuild(T, D, "OR", either)
        /\ IsDistinct(D, distinct)
        /\ IsJoinZeroDefault(T, joins) /\ IsClampSubject(T, subject) /\ IsNegativeClamp(T, subject, clamps)
        /\ IsUnwrapped(T, P, norm, conjuncts, unwrapped)
        /\ IsUnwrapGuards(T, P, unwrapped, [n \in T |-> UnwrapGuards(n)])
        /\ IsPeeled(T, P, norm, conjuncts, peel)
        /\ IsPruneTree(T, P, weight, peel, joins, clamps, disjuncts, distinct, either, [n \in T |-> PruneTree(n)])
=============================================================================
