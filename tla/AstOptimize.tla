----------------------------- MODULE AstOptimize -----------------------------
(***************************************************************************)
(* derivation/v2/ast_optimize.py: the passes that shrink a folded formula  *)
(* before it is compiled, each an operator from trees to trees.  Native    *)
(* aggregates are enabled, so the lowering of MIN/MAX/SUM/COUNT is the     *)
(* identity there and has no pass here.                                    *)
(***************************************************************************)
EXTENDS ExprTree

-----------------------------------------------------------------------------
(* Order of the arms of a chain.                                           *)

ProcessDate == Var("PROCESSDATE")
CustomerNpaDate == Col("CUSTOMER.SYSNPA_DT")
ReferencePeriods == {Col("REFPERIODNPA"), Col("REFPERIODMAX")}

(* Which arm should be outer when no position is known: the NPA names.     *)
ArmPriority(cond, then) ==
    (IF Mentions(cond, Str("ALWYS_NPA")) /\ (Mentions(then, ProcessDate) \/ then = CustomerNpaDate)
     THEN 1000000 ELSE 0)
  + (IF Mentions(then, ProcessDate) THEN 800000 ELSE 0)
  + (IF Mentions(then, CustomerNpaDate) THEN 850000 ELSE 0)
  - (IF \E c \in ReferencePeriods : Mentions(cond, c) \/ Mentions(then, c)
     THEN 500000 ELSE 0)

RECURSIVE MetaArms(_, _)
MetaArms(n, i) ==
    IF ~IsIf(n) THEN <<>>
    ELSE <<[pos |-> n.n, idx |-> i, cond |-> CondOf(n), then |-> ThenOf(n)]>>
         \o MetaArms(ElseOf(n), i + 1)

(* Mutant: earlier positions first.                                        *)
MutSortsBefore(x, y) == x.pos < y.pos \/ (x.pos = y.pos /\ x.idx < y.idx)

SortsBefore(x, y) ==
    LET p == ArmPriority(x.cond, x.then)  q == ArmPriority(y.cond, y.then) IN
    CASE x.pos > 0 /\ y.pos > 0 -> x.pos > y.pos \/ (x.pos = y.pos /\ x.idx < y.idx)
      [] x.pos > 0 /\ y.pos = 0 -> TRUE
      [] x.pos = 0 /\ y.pos > 0 -> FALSE
      [] OTHER -> p > q \/ (p = q /\ x.idx < y.idx)

(* The arms as they are unless a position or a name orders them.           *)
Precedence(arms) ==
    LET ordered == \E i \in DOMAIN arms : \/ arms[i].pos > 0
                                         \/ ArmPriority(arms[i].cond, arms[i].then) # 0
    IN  IF ordered THEN SortSeq(arms, SortsBefore) ELSE arms

RECURSIVE EnforcePrecedence(_)
EnforcePrecedence(n) ==
    LET arms == MetaArms(n, 1)
        sorted == Precedence(arms)
        m == IF sorted = arms THEN n ELSE RebuildChain(sorted, EnforcePrecedence(ChainDefault(n)))
    IN  Mapped(EnforcePrecedence, m)

(* The customer write-back arm goes behind the account arms, ahead of the  *)
(* trailing NULL arms.                                                     *)
Deferred(arms) ==
    LET IsRollup(arm) == arm.then = CustomerNpaDate
        kept == SelectSeq(arms, LAMBDA arm : ~IsRollup(arm))
        late == SelectSeq(arms, IsRollup)
        nulls == {i \in DOMAIN kept : IsNull(kept[i].then)}
        cut == IF nulls = {} THEN Len(kept) ELSE Min(nulls) - 1
    IN  SubSeq(kept, 1, cut) \o late \o SubSeq(kept, cut + 1, Len(kept))

RECURSIVE DeferRollup(_)
DeferRollup(n) ==
    LET moved == Deferred(ChainArms(n))
        m == IF moved = ChainArms(n) THEN n ELSE RebuildChain(moved, ChainDefault(n))
    IN  Mapped(DeferRollup, m)

-----------------------------------------------------------------------------
(* Lists of conjuncts.                                                     *)

IsSelfEquality(n) == SelfEqualityOf(NormalizeGuard, n)

(* Without x == x, each conjunct (up to NormalizeGuard) at its first place. *)
DedupeAnd(parts) ==
    FoldLeft(LAMBDA acc, p :
                IF \/ IsSelfEquality(p)
                   \/ \E i \in DOMAIN acc : NormalizeGuard(acc[i]) = NormalizeGuard(p)
                THEN acc ELSE Append(acc, p),
             <<>>, parts)

RECURSIVE DedupeGuards(_)
DedupeGuards(n) ==
    LET m == Mapped(DedupeGuards, n)
    IN  IF IsOp(m, "AND") THEN RebuildAnd(DedupeAnd(FlattenAnd(m))) ELSE m

(* Mutant: the inner guard is lost.                                        *)
MutMergeAnd(l, r) == l

MergeAnd(l, r) == RebuildAnd(DedupeAnd(FlattenAnd(l) \o FlattenAnd(r)))

-----------------------------------------------------------------------------
(* Patterns an UPDATE sequence leaves behind.                              *)

RECURSIVE JoinZeroDefaults(_)
JoinZeroDefaults(n) == Reapplied(JoinZeroDefaults, JoinZeroDefault, n)

RECURSIVE ClampSubject(_)
ClampSubject(n) == ClampSubjectOf(ClampSubject, n)

NegativeClamp(n) == NegativeClampOf(ClampSubject, n)

(* Mutant: only at the root of a formula.                                  *)
MutNegativeClamps(n) == IF IsIf(n) /\ NegativeClamp(n) # Absent THEN NegativeClamp(n) ELSE n

RECURSIVE NegativeClamps(_)
NegativeClamps(n) == Reapplied(NegativeClamps, NegativeClamp, n)

RECURSIVE SameValue(_, _)
SameValue(x, y) == SameValueAt(SameValue, GuardSignature, x, y)

RepeatedCap(n) == CapOf(SameValue, MergeAnd, n)

RECURSIVE CollapseCap(_)
CollapseCap(n) == Reapplied(CollapseCap, RepeatedCap, n)

RECURSIVE NeverNull(_)
NeverNull(n) == NeverNullOf(NeverNull, n)

RECURSIVE StripCoalesce(_)
StripCoalesce(n) == StripCoalesceAt(StripCoalesce, NeverNull, n)

-----------------------------------------------------------------------------
(* No conditional value inside a comparison: 4X has none.                  *)

RECURSIVE Hoist(_)
Hoist(n) == HoistAt(Hoist, n)

(* Mutant: only a conditional on the right is distributed.                 *)
RECURSIVE MutDistribute(_)
MutDistribute(n) ==
    IF IsComparison(n) /\ IsIf(n.a[2])
    THEN If(CondOf(n.a[2]), Op(n.v, n.a[1], ThenOf(n.a[2])), Op(n.v, n.a[1], ElseOf(n.a[2])))
    ELSE Mapped(MutDistribute, n)

RECURSIVE Distribute(_)
Distribute(n) == DistributeAt(Distribute, Hoist, n)

RECURSIVE CollapseDegenerate(_)
CollapseDegenerate(n) == CollapseDegenerateAt(CollapseDegenerate, n)

RECURSIVE FoldBooleans(_)
FoldBooleans(n) == FoldBooleansAt(FoldBooleans, n)

-----------------------------------------------------------------------------
(* ELSEIF chains.                                                          *)

(* Nested else-branches as one chain: the tree is the same, tags apart.    *)
RECURSIVE NormalizeChain(_)
NormalizeChain(n) ==
    LET arms == PassedArms(NormalizeChain, ChainArms(n))
    IN  IF Len(arms) > 1 THEN RebuildChain(arms, NormalizeChain(ChainDefault(n)))
        ELSE Mapped(NormalizeChain, n)

MergeOr(g, c) == RebuildOr(FlattenOr(g) \o FlattenOr(c))

(* A value that reads the column of the final ELSE keeps its place.        *)
KeepsPlace(value, default) == default.k = "col" /\ Mentions(value, default)

JoinArms(arms, default) ==
    FoldLeft(LAMBDA merged, arm : JoinArm(MergeOr, KeepsPlace(arm.then, default), merged, arm), <<>>, arms)

(* Arms that assign the same value are OR-ed into the first of them.       *)
RECURSIVE MergeSameThen(_)
MergeSameThen(n) ==
    LET arms == PassedArms(MergeSameThen, ChainArms(n))
    IN  IF Len(arms) > 1
        THEN RebuildChain(JoinArms(arms, ChainDefault(n)), MergeSameThen(ChainDefault(n)))
        ELSE Mapped(MergeSameThen, n)

(* IF(G) THEN IF(G) THEN NULL ELSE x is IF(G) THEN x.                      *)
RECURSIVE Unwrapped(_, _)
Unwrapped(n, guard) == UnwrappedAt(LAMBDA x : Unwrapped(x, guard), GuardSignature, n, guard)

RECURSIVE UnwrapGuards(_)
UnwrapGuards(n) ==
    LET m == Mapped(UnwrapGuards, n)
    IN  IF IsIf(m) THEN [m EXCEPT !.a[2] = Unwrapped(@, CondOf(m))] ELSE m

(* Of two arms with one guard the later value wins over a NULL, and a       *)
(* process date over a value without one.                                   *)
PrefersLater(new, old) ==
    \/ IsNull(old) /\ ~IsNull(new)
    \/ Mentions(new, ProcessDate) /\ ~Mentions(old, ProcessDate)

Conjuncts(n) == {NormalizeGuard(p) : p \in Range(FlattenAnd(n))}

KeepArms(arms) ==
    FoldLeft(LAMBDA kept, arm : KeepArm(GuardSignature, Conjuncts, PrefersLater, kept, arm), <<>>, arms)

(* Arms whose guard an earlier arm already has, or only narrows, are dead.  *)
RECURSIVE DropSameGuard(_)
DropSameGuard(n) ==
    IF IsIf(n)
    THEN RebuildChain(KeepArms(PassedArms(DropSameGuard, ChainArms(n))), DropSameGuard(ChainDefault(n)))
    ELSE Mapped(DropSameGuard, n)

-----------------------------------------------------------------------------
(* Guards: disjuncts an earlier arm took, and OR-of-AND factoring.          *)

Without(list, S) == SelectSeq(list, LAMBDA p : p \notin S)

RECURSIVE DropShadowed(_)

(* The chain below arms that have taken these disjuncts.                   *)
RECURSIVE Unshadowed(_, _)
Unshadowed(n, seen) ==
    LET parts == FlattenOr(DropShadowed(CondOf(n)))
        left == Without(parts, seen)
        rest == Unshadowed(ElseOf(n), seen \cup Range(parts))
    IN  CASE ~IsIf(n) -> DropShadowed(ChainDefault(n))
          [] IsIf(n) /\ left = <<>> -> rest
          [] OTHER -> If(RebuildOr(left), DropShadowed(ThenOf(n)), rest)

DropShadowed(n) == IF IsIf(n) THEN Unshadowed(n, {}) ELSE Mapped(DropShadowed, n)

(* The conjuncts of each disjunct.                                         *)
Terms(n) == [i \in DOMAIN FlattenOr(n) |-> DedupeAnd(FlattenAnd(FlattenOr(n)[i]))]

Common(lists) == SelectSeq(Distinct(lists[1]), LAMBDA p : \A i \in DOMAIN lists : Contains(lists[i], p))

(* (col == a AND R) OR (col == b AND R) as (col == a OR col == b) AND R,    *)
(* for the first column that saves most; <<>> when none does.               *)
Groups(lists) ==
    LET Equalities(l, c) == SelectSeq(l, LAMBDA p : IsColumnEquality(p) /\ EqualityColumn(p) = c)
        all == SelectSeq(FlattenSeq(lists), IsColumnEquality)
        columns == Distinct([i \in DOMAIN all |-> EqualityColumn(all[i])])
        Alone(c) == {i \in DOMAIN lists : Len(Equalities(lists[i], c)) = 1}
        Rest(i, c) == Without(lists[i], Range(Equalities(lists[i], c)))
        Mates(i, c) == {j \in Alone(c) : Range(Rest(j, c)) = Range(Rest(i, c))}
        Leaders(c) == {i \in Alone(c) : i = Min(Mates(i, c))}
        Score(c) == Cardinality(Alone(c)) - Cardinality(Leaders(c))
        best == SelectSeq(columns, LAMBDA c : /\ Score(c) > 0
                                              /\ \A d \in Range(columns) : Score(d) <= Score(c))
        chosen == Head(best)
        Group(i, c) ==
            LET members == SetToSortSeq(Mates(i, c), <)
            IN  [values |-> [j \in DOMAIN members |-> Equalities(lists[members[j]], c)[1]],
                 rest |-> Rest(i, c)]
        leaders == SetToSortSeq(Leaders(chosen), <)
        others == SetToSortSeq(DOMAIN lists \ Alone(chosen), <)
    IN  IF best = <<>> THEN <<>>
        ELSE [i \in DOMAIN leaders |-> Group(leaders[i], chosen)]
             \o [i \in DOMAIN others |-> [values |-> <<>>, rest |-> lists[others[i]]]]

(* The first of the conjuncts that most disjuncts have, if two have it.     *)
MostCommon(lists) ==
    LET all == Distinct(FlattenSeq(lists))
        Count(p) == Cardinality({i \in DOMAIN lists : Contains(lists[i], p)})
        most == SelectSeq(all, LAMBDA p : Count(p) > 1 /\ \A q \in Range(all) : Count(q) <= Count(p))
    IN  IF most = <<>> THEN <<>> ELSE <<Head(most)>>

(* What all disjuncts have in common is taken out, or else they are grouped *)
(* by a column, or else what most of them have in common is taken out.      *)
Factoring(n) ==
    LET terms == Terms(n)
        common == Common(terms)
        groups == IF common = <<>> THEN Groups(terms) ELSE <<>>
        taken == IF common # <<>> THEN common
                 ELSE IF groups = <<>> THEN MostCommon(terms) ELSE <<>>
        Has(l) == Range(taken) \subseteq Range(l)
        sharing == SelectSeq(terms, Has)
    IN  [terms |-> terms, groups |-> groups, taken |-> taken,
         rests |-> [i \in DOMAIN sharing |-> Without(sharing[i], Range(taken))],
         lacking |-> SelectSeq(terms, LAMBDA l : ~Has(l))]

(* The rest is factored again until nothing changes any more (the code      *)
(* stops 32 levels down).                                                   *)
RECURSIVE FactorOr(_)
FactorOr(n) == IF IsOp(n, "OR") THEN FactorOf(FactorOr, RebuildAnd, RebuildOr, Factoring(n), n) ELSE n

RECURSIVE FactorGuards(_)
FactorGuards(n) ==
    LET m == Mapped(FactorGuards, n)
    IN  IF IsOp(m, "OR") THEN FactorOr(m) ELSE m

CompactGuards(n) == FactorGuards(DropShadowed(n))

-----------------------------------------------------------------------------
(* Repeated subtrees: a copy of an else-branch backbone, or a repeated IF,  *)
(* in a value slot becomes a read of the column itself.                     *)

MinCseDepth == 3

(* Subtrees seen twice and at least that deep.                              *)
Repeated(n, depth) ==
    LET all == Subtrees(n)
    IN  {s \in Range(all) : /\ Cardinality({i \in DOMAIN all : all[i] = s}) >= 2
                            /\ Depth(s) >= depth}

(* The else-branches of a formula; those inside conditions do not count.    *)
RECURSIVE Backbones(_)
Backbones(n) ==
    IF IsIf(n) THEN {ElseOf(n)} \cup Backbones(ThenOf(n)) \cup Backbones(ElseOf(n))
               ELSE UNION {Backbones(c) : c \in Range(n.a)}

(* Mutant: a repeated calculation is a backbone like any other.            *)
MutReadsAtEnd(n, self) == TRUE

ReadsAtEnd(n, self) == Mentions(ChainDefault(n), Col(self))

RECURSIVE ReplaceRepeated(_, _, _, _, _)
ReplaceRepeated(n, self, active, computedStay, isElse) ==
    LET Below(i) == ReplaceRepeated(n.a[i], self, active, computedStay, IsIf(n) /\ i = 3)
    IN  IF /\ ~isElse /\ n \in active /\ Depth(n) >= MinCseDepth
           /\ ~(n.k = "op" /\ n.v \in ComparisonOps \cup {"AND", "OR"})
           /\ computedStay => /\ ~IsArithmetic(n)
                              /\ IsIf(n) => ReadsAtEnd(n, self)
        THEN Col(self)
        ELSE [n EXCEPT !.a = [i \in DOMAIN n.a |-> Below(i)]]

ShareBackbone(n, self) ==
    LET active == {s \in Repeated(n, MinCseDepth) : IsIf(s)}
                  \cup (Repeated(n, MinCseDepth) \cap Backbones(n))
    IN  IF active = {} THEN n ELSE ReplaceRepeated(n, self, active, TRUE, FALSE)

-----------------------------------------------------------------------------
(* optimize_expression_ast: the passes in their order.  The first removes   *)
(* the position tags: every later pass rebuilds chains without them.        *)

ShrinkChain == <<"MergeSameThen", "UnwrapGuards", "DropSameGuard", "CompactGuards">>

Hygiene == <<"StripCoalesce", "Distribute", "JoinZeroDefaults", "NegativeClamps",
             "Distribute", "CollapseDegenerate", "FoldBooleans", "CollapseDegenerate",
             "CollapseCap", "DedupeGuards", "CollapseDegenerate", "DedupeGuards",
             "CompactGuards">>

OptimizePasses ==
    <<"Precedence", "DedupeGuards", "JoinZeroDefaults", "NegativeClamps", "CollapseCap",
      "StripCoalesce", "Distribute", "JoinZeroDefaults", "NegativeClamps",
      "CollapseDegenerate", "NormalizeChain">>
    \o ShrinkChain \o ShrinkChain
    \o <<"ShareBackbone", "CollapseDegenerate", "DeferRollup">> \o Hygiene

Pass(name, n, self) ==
    CASE name = "Precedence" -> Untag(EnforcePrecedence(n))
      [] name = "DedupeGuards" -> DedupeGuards(n)
      [] name = "JoinZeroDefaults" -> JoinZeroDefaults(n)
      [] name = "NegativeClamps" -> NegativeClamps(n)
      [] name = "CollapseCap" -> CollapseCap(n)
      [] name = "StripCoalesce" -> StripCoalesce(n)
      [] name = "Distribute" -> Distribute(n)
      [] name = "CollapseDegenerate" -> CollapseDegenerate(n)
      [] name = "NormalizeChain" -> NormalizeChain(n)
      [] name = "MergeSameThen" -> MergeSameThen(n)
      [] name = "UnwrapGuards" -> UnwrapGuards(n)
      [] name = "DropSameGuard" -> DropSameGuard(n)
      [] name = "CompactGuards" -> CompactGuards(n)
      [] name = "ShareBackbone" -> ShareBackbone(n, self)
      [] name = "DeferRollup" -> DeferRollup(n)
      [] name = "FoldBooleans" -> FoldBooleans(n)

RECURSIVE RunPasses(_, _, _)
RunPasses(names, n, self) ==
    IF names = <<>> THEN n ELSE Pass(Last(names), RunPasses(Front(names), n, self), self)

Optimize(n, self) == RunPasses(OptimizePasses, n, self)

-----------------------------------------------------------------------------
(* enforce_formula_budget: shrink until the formula fits the grammar's cap. *)
(* The length of the printed formula is its number of nodes.                *)

BudgetRounds == 8
MergeRounds == 6

(* A round replaces every repeated subtree, computed values included.       *)
ShrinkRound(n, self) ==
    RunPasses(ShrinkChain \o <<"NormalizeChain">> \o ShrinkChain,
              ReplaceRepeated(n, self, Repeated(n, MinCseDepth), FALSE, FALSE), self)

(* The formula that fits is returned before the next round, not after the   *)
(* last one.                                                                *)
RECURSIVE ShrinkRounds(_, _, _, _)
ShrinkRounds(n, self, cap, rounds) ==
    IF rounds = 0 \/ Size(n) <= cap \/ Repeated(n, MinCseDepth) = {}
    THEN [tree |-> n, fits |-> rounds > 0 /\ Size(n) <= cap]
    ELSE ShrinkRounds(ShrinkRound(n, self), self, cap, rounds - 1)

RECURSIVE MergeAdjacent(_)
MergeAdjacent(n) == MergeAdjacentAt(MergeAdjacent, n)

RECURSIVE MergeRoundsOf(_, _, _)
MergeRoundsOf(n, cap, rounds) ==
    IF rounds = 0 THEN n
    ELSE LET m == MergeAdjacent(n)
         IN  IF Size(m) <= cap THEN m ELSE MergeRoundsOf(m, cap, rounds - 1)

Passthrough(self) == If(Fn("ISEMPTY", <<Col(self)>>), Null, Col(self))

ReplaceShallow(n, shallow, self) ==
    IF shallow = {} THEN n
    ELSE RunPasses(<<"MergeSameThen", "CompactGuards", "CollapseDegenerate">>,
                   ReplaceRepeated(n, self, shallow, FALSE, FALSE), self)

(* Mutant: nothing is done when no shrinking helps.                        *)
MutOrPassthrough(n, self, cap) == n

OrPassthrough(n, self, cap) ==
    IF Size(n) > cap /\ Size(Passthrough(self)) <= cap THEN Passthrough(self) ELSE n

Shorten(n, self, cap) ==
    LET shallow == {s \in Repeated(n, MinCseDepth - 1) : IsIf(s)}
    IN  MergeRoundsOf(IF Size(n) <= cap THEN n ELSE ReplaceShallow(n, shallow, self),
                      cap, MergeRounds)

AfterRounds(result, self, cap) ==
    IF result.fits THEN result.tree
    ELSE OrPassthrough(Shorten(result.tree, self, cap), self, cap)

EnforceBudget(n, self, cap) ==
    RunPasses(Hygiene,
              AfterRounds(ShrinkRounds(Optimize(n, self), self, cap, BudgetRounds), self, cap),
              self)
=============================================================================
