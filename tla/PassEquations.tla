---------------------------- MODULE PassEquations ----------------------------
(***************************************************************************)
(* The recursive operators of ExprTree and AstOptimize, seen as functions  *)
(* on a set of trees: each definition below is the equation the operator   *)
(* satisfies, read off ExprRules.                                          *)
(***************************************************************************)
EXTENDS ExprRules

Values == Int \cup {NullValue}

Arity(n) == CASE n.k = "op" -> 2
              [] n.k = "if" -> 3
              [] n.k = "fn" -> IF n.v \in {"COALESCE", "MAX"} THEN 2 ELSE 1
              [] OTHER -> 0

(* A set of trees with the subtrees of each, and a rank that is smaller    *)
(* below a node: the depth, the size, or a bound on what a pass will do.   *)
WellFormed(n) ==
    /\ n = Node(n.k, n.v, n.n, n.a)
    /\ n.k \in {"lit", "none", "col", "var", "str", "op", "if", "fn"}
    /\ n.k = "op" => n.v \in ComparisonOps \cup ArithmeticOps \cup {"AND", "OR"}
    /\ n.k = "fn" => n.v \in {"COALESCE", "MAX", "NOT", "ISEMPTY", "ISNOTEMPTY"}
    /\ n.k = "lit" => n \in {Null, Bool(TRUE), Bool(FALSE)} \/ (n.v = "num" /\ n.n \in Int)
    /\ n.k \in {"none", "str"} => n.n = 0
    /\ n.k = "none" => n.v = ""
    /\ Len(n.a) = Arity(n)

IsForest(T, rank) ==
    /\ rank \in [T -> Nat]
    /\ \A n \in T : /\ n.a \in Seq(T)
                    /\ WellFormed(n)
                    /\ \A i \in DOMAIN n.a : rank[n.a[i]] < rank[n]

(* The value of each tree on a row.  A string literal is not NULL, and two  *)
(* of them are equal when they are the same.                               *)
IsMeaning(T, row, value) ==
    /\ value \in [T -> Values]
    /\ \A n \in T : value[n] = ValueOf(n, row, value[n.a[1]], value[n.a[2]], value[n.a[3]])
    /\ \A n, m \in T : n.k = "str" /\ m.k = "str" =>
            value[n] # NullValue /\ (value[n] = value[m] => n = m)

(* The conditions of a formula are conditions: they are true or false.     *)
HasConditions(T, value) ==
    \A n \in T :
       /\ IsIf(n) => value[CondOf(n)] \in {0, 1}
       /\ (IsOp(n, "AND") \/ IsOp(n, "OR")) => value[n.a[1]] \in {0, 1} /\ value[n.a[2]] \in {0, 1}

KeepsValue(T, value, pass) == \A n \in T : value[pass[n]] = value[n]

-----------------------------------------------------------------------------

(* The node over its children as the pass leaves them.                     *)
Image(pass, n) == Mapped(LAMBDA x : pass[x], n)

IsPass(T, pass) == /\ pass \in [T -> T]
                   /\ \A n \in T : Image(pass, n) \in T

IsCollapseDegenerate(T, pass) ==
    IsPass(T, pass) /\ \A n \in T : pass[n] = CollapseDegenerateAt(LAMBDA x : pass[x], n)

IsNeverNull(T, never) ==
    never \in [T -> BOOLEAN] /\ \A n \in T : never[n] = NeverNullOf(LAMBDA x : never[x], n)

IsStripCoalesce(T, never, pass) ==
    IsPass(T, pass) /\ \A n \in T : pass[n] = StripCoalesceAt(LAMBDA x : pass[x], LAMBDA x : never[x], n)

IsFoldBooleans(T, pass) ==
    IsPass(T, pass) /\ \A n \in T : pass[n] = FoldBooleansAt(LAMBDA x : pass[x], n)

IsMergeAdjacent(T, pass) ==
    pass \in [T -> T] /\ \A n \in T : pass[n] = MergeAdjacentAt(LAMBDA x : pass[x], n)

IsClampSubject(T, subject) ==
    subject \in [T -> T] /\ \A n \in T : subject[n] = ClampSubjectOf(LAMBDA x : subject[x], n)

(* A rule that is applied again to what it makes gets a smaller tree.      *)
ShrinksBy(T, rank, rule, pass) ==
    /\ rule \in [T -> T]
    /\ \A n \in T : LET f == rule[Image(pass, n)]
                    IN  f # Absent => rank[f] < rank[n]

(* Where the rule applies, the value it is about is not NULL.              *)
GivenWhere(T, rule, value) ==
    \A n \in T : rule[n] # Absent => value[ElseOf(n)] # NullValue

IsReapplied(T, rank, rule, pass) ==
    /\ IsPass(T, pass) /\ ShrinksBy(T, rank, rule, pass)
    /\ \A n \in T : pass[n] = Reapplied(LAMBDA x : pass[x], LAMBDA x : rule[x], n)

IsNegativeClamp(T, subject, rule) ==
    rule \in [T -> T] /\ \A n \in T : rule[n] = NegativeClampOf(LAMBDA x : subject[x], n)

IsNegativeClamps(T, rank, subject, rule, pass) ==
    IsNegativeClamp(T, subject, rule) /\ IsReapplied(T, rank, rule, pass)

IsJoinZeroDefault(T, rule) ==
    rule \in [T -> T] /\ \A n \in T : rule[n] = JoinZeroDefault(n)

IsJoinZeroDefaults(T, rank, rule, pass) ==
    IsJoinZeroDefault(T, rule) /\ IsReapplied(T, rank, rule, pass)

(* Hoist rewrites the two products it makes from one, each smaller than the  *)
(* one, and so is what it makes of them.                                   *)
IsHoist(T, rank, hoist) ==
    /\ Absent \in T /\ hoist \in [T -> T]
    /\ \A n \in T :
         /\ hoist[n] = HoistAt(LAMBDA x : hoist[x], n)
         /\ hoist[n] # Absent => rank[hoist[n]] < rank[n]
         /\ IsArithmetic(n) =>
               /\ \A side \in {n.a[1], hoist[n.a[1]]} : IsIf(side) =>
                     \A branch \in {ThenOf(side), ElseOf(side)} :
                        LET product == Op(n.v, branch, n.a[2])
                        IN  product \in T /\ rank[product] < rank[n]
               /\ \A side \in {n.a[2], hoist[n.a[2]]} : IsIf(side) =>
                     \A branch \in {ThenOf(side), ElseOf(side)} :
                        LET product == Op(n.v, n.a[1], branch)
                        IN  product \in T /\ rank[product] < rank[n]

IsDistribute(T, hoist, pass) ==
    /\ IsPass(T, pass)
    /\ \A n \in T : pass[n] = DistributeAt(LAMBDA x : pass[x], LAMBDA x : hoist[x], n)

-----------------------------------------------------------------------------
(* Conditions as lists.  L is a set of lists of trees, with their prefixes, *)
(* that the operators stay in.                                             *)

Members(l) == {l[i] : i \in DOMAIN l}

Begin(l) == SubSeq(l, 1, Len(l) - 1)
End(l) == l[Len(l)]

IsLists(T, L) ==
    /\ L \subseteq Seq(T) /\ <<>> \in L
    /\ \A l \in L : l # <<>> => Begin(l) \in L

IsFlatten(T, L, o, flatten) ==
    /\ flatten \in [T -> L]
    /\ \A n \in T : flatten[n] = IF IsOp(n, o) THEN flatten[n.a[1]] \o flatten[n.a[2]] ELSE <<n>>

IsRebuild(T, L, o, rebuild) ==
    /\ rebuild \in [L -> T]
    /\ rebuild[<<>>] = IF o = "AND" THEN Bool(TRUE) ELSE Null
    /\ \A l \in L : l # <<>> =>
          rebuild[l] = IF Begin(l) = <<>> THEN End(l) ELSE Op(o, rebuild[Begin(l)], End(l))

IsNormalizeGuard(T, norm) ==
    IsPass(T, norm) /\ \A n \in T : norm[n] = NormalizeGuardAt(LAMBDA x : norm[x], n)

IsDedupeAnd(T, L, norm, dedupe) ==
    /\ dedupe \in [L -> L]
    /\ dedupe[<<>>] = <<>>
    /\ \A l \in L : l # <<>> =>
          LET kept == dedupe[Begin(l)]
          IN  dedupe[l] = IF \/ SelfEqualityOf(LAMBDA y : norm[y], End(l))
                             \/ \E i \in DOMAIN kept : norm[kept[i]] = norm[End(l)]
                          THEN kept ELSE Append(kept, End(l))

(* What is compared with itself or through a default is not NULL.          *)
GivenGuards(T, norm, value) ==
    \A n \in T : /\ DefaultsToLiteral(n) => value[n.a[1].a[1]] # NullValue
                 /\ SelfEqualityOf(LAMBDA x : norm[x], n) => value[n.a[1]] # NullValue

IsDedupeGuards(T, conjuncts, every, dedupe, pass) ==
    /\ IsPass(T, pass)
    /\ \A n \in T : LET m == Image(pass, n)
                    IN  pass[n] = IF IsOp(m, "AND") THEN every[dedupe[conjuncts[m]]] ELSE m

IsSameValue(T, norm, conjuncts, same) ==
    /\ same \in [T \X T -> BOOLEAN]
    /\ \A x, y \in T :
          same[<<x, y>>] = SameValueAt(LAMBDA u, v : same[<<u, v>>], LAMBDA g : BagOf(conjuncts[norm[g]]), x, y)

IsCollapseCap(T, L, rank, conjuncts, every, dedupe, same, rule, pass) ==
    LET Both(g, c) == conjuncts[g] \o conjuncts[c]
    IN  /\ IsPass(T, pass) /\ ShrinksBy(T, rank, rule, pass)
        /\ \A n \in T :
              /\ IsIf(n) /\ IsIf(ThenOf(n)) => Both(CondOf(n), CondOf(ThenOf(n))) \in L
              /\ rule[n] = CapOf(LAMBDA x, y : same[<<x, y>>], LAMBDA g, c : every[dedupe[Both(g, c)]], n)
              /\ pass[n] = Reapplied(LAMBDA x : pass[x], LAMBDA x : rule[x], n)

IsWithout(T, L, Taken, without) ==
    /\ without \in [L \X Taken -> L]
    /\ \A seen \in Taken :
          /\ without[<<<<>>, seen>>] = <<>>
          /\ \A l \in L : l # <<>> =>
                LET rest == without[<<Begin(l), seen>>]
                IN  without[<<l, seen>>] = IF End(l) \notin seen THEN Append(rest, End(l)) ELSE rest

(* Chains: the chains the pass comes to, each with the disjuncts that the   *)
(* arms above it may have taken.                                           *)
IsDropShadowed(T, Chains, disjuncts, either, without, pass, below) ==
    LET Parts(n) == disjuncts[pass[CondOf(n)]]
        Rest(chain) == <<ElseOf(chain[1]), chain[2] \cup Members(Parts(chain[1]))>>
        Left(chain) == without[<<Parts(chain[1]), chain[2]>>]
    IN  /\ IsPass(T, pass) /\ below \in [Chains -> T]
        /\ \A n \in T : /\ IsIf(n) => <<n, {}>> \in Chains /\ pass[n] = below[<<n, {}>>]
                        /\ ~IsIf(n) => pass[n] = Image(pass, n)
        /\ \A chain \in Chains :
              LET n == chain[1] IN
              /\ IsIf(n) =>
                    /\ Rest(chain) \in Chains
                    /\ below[chain] = IF Left(chain) = <<>> THEN below[Rest(chain)]
                                      ELSE If(either[Left(chain)], pass[ThenOf(n)], below[Rest(chain)])
              /\ ~IsIf(n) => LET default == IF n = Absent THEN Null ELSE n
                             IN  default \in T /\ below[chain] = pass[default]

-----------------------------------------------------------------------------
(* Factoring.  A formula is a disjunction of terms, which are lists of      *)
(* conjuncts; C are the lists of conjuncts, D those of disjuncts.           *)

MemberSets(lists) == {Members(l) : l \in Members(lists)}
GroupSets(groups) == {<<Members(g.values), Members(g.rest)>> : g \in Members(groups)}

(* The groups are those of the terms by a column: of terms that have one    *)
(* equality with it and the same rest.                                      *)
IsGrouping(terms, c, groups) ==
    LET Equalities(t) == {p \in t : IsColumnEquality(p) /\ EqualityColumn(p) = c}
        Alone == {t \in terms : \E p \in t : Equalities(t) = {p}}
        Rest(t) == t \ Equalities(t)
        Mates(t) == {m \in Alone : Rest(m) = Rest(t)}
    IN  groups = {<<UNION {Equalities(m) : m \in Mates(t)}, Rest(t)>> : t \in Alone}
                 \cup {<<{}, t>> : t \in terms \ Alone}

(* What is taken out of the terms that have it, over what is left of them.  *)
IsTaking(terms, taken, rests, lacking) ==
    LET have == {t \in terms : taken \subseteq t}
    IN  rests = {t \ taken : t \in have} /\ lacking = terms \ have

Conjunctions(every, lists) == [i \in DOMAIN lists |-> every[lists[i]]]

Regrouped(every, either, groups) ==
    [i \in DOMAIN groups |-> GroupOf(LAMBDA l : every[l], LAMBDA l : either[l], groups[i])]

FactoredOut(every, either, factor, f) ==
    IF <<>> \in Members(f.rests) THEN every[f.taken]
    ELSE Op("AND", every[f.taken], factor[either[Conjunctions(every, f.rests)]])

(* What is factored again takes fewer steps.                                *)
Fewer(D, either, steps, l, n) == l \in D /\ steps[either[l]] < steps[n]

IsFactorOrAt(T, C, D, every, either, steps, factor, f, n) ==
    /\ factor[n] = FactorOf(LAMBDA x : factor[x], LAMBDA l : every[l], LAMBDA l : either[l], f, n)
    /\ f.taken \in C /\ f.rests \in Seq(C) /\ f.lacking \in Seq(C)
    /\ f.groups \in Seq([values : D, rest : C])
    /\ f.taken # <<>> =>
          LET factored == FactoredOut(every, either, factor, f)
          IN  /\ IsTaking(MemberSets(f.terms), Members(f.taken), MemberSets(f.rests), MemberSets(f.lacking))
              /\ factored \in T
              /\ <<>> \in Members(f.rests) \/ Fewer(D, either, steps, Conjunctions(every, f.rests), n)
              /\ f.lacking = <<>> \/ Fewer(D, either, steps, Append(Conjunctions(every, f.lacking), factored), n)
    /\ f.groups # <<>> =>
          LET l == Regrouped(every, either, f.groups)
          IN  /\ \E c \in T : IsGrouping(MemberSets(f.terms), c, GroupSets(f.groups))
              /\ \A g \in Members(f.groups) : g.values \o g.rest \in C
              /\ l \in D /\ (either[l] = n \/ Fewer(D, either, steps, l, n))
    /\ Conjunctions(every, f.terms) \in D

IsFactorOr(T, C, D, conjuncts, disjuncts, dedupe, every, either, factoring, steps, factor) ==
    /\ factor \in [T -> T] /\ steps \in [T -> Nat]
    /\ \A n \in T : ~IsOp(n, "OR") => factor[n] = n
    /\ \A n \in {m \in T : IsOp(m, "OR")} :
          /\ factoring[n].terms = [i \in DOMAIN disjuncts[n] |-> dedupe[conjuncts[disjuncts[n][i]]]]
          /\ IsFactorOrAt(T, C, D, every, either, steps, factor, factoring[n], n)

IsFactorGuards(T, factor, pass) ==
    /\ IsPass(T, pass)
    /\ \A n \in T : LET m == Image(pass, n)
                    IN  pass[n] = IF IsOp(m, "OR") THEN factor[m] ELSE m

-----------------------------------------------------------------------------
(* ELSEIF chains.  A is a set of lists of arms, with their prefixes; R are  *)
(* the lists and defaults that chains are rebuilt from.                     *)

Arms(T) == [cond : T, then : T]

IsChains(T, A, arms, default) ==
    /\ IsLists(Arms(T), A)
    /\ arms \in [T -> A] /\ default \in [T -> T]
    /\ \A n \in T :
          /\ arms[n] = IF IsIf(n) THEN <<ChainArm(n)>> \o arms[ElseOf(n)] ELSE <<>>
          /\ default[n] = IF IsIf(n) THEN default[ElseOf(n)] ELSE IF n = Absent THEN Null ELSE n

IsRebuildChain(T, A, R, rebuild) ==
    /\ R \subseteq A \X T /\ rebuild \in [R -> T]
    /\ \A l \in A, d \in T : <<l, d>> \in R =>
          LET above == <<Begin(l), If(End(l).cond, End(l).then, d)>>
          IN  /\ l = <<>> => rebuild[<<l, d>>] = d
              /\ l # <<>> => above \in R /\ rebuild[<<l, d>>] = rebuild[above]

Passed(pass, l) == PassedArms(LAMBDA x : pass[x], l)

(* A pass that rebuilds a chain of more than shortest arms from a list it   *)
(* makes of them.                                                          *)
IsChainPass(T, A, R, shortest, arms, default, rebuild, list, pass) ==
    /\ IsPass(T, pass)
    /\ \A n \in T : LET chain == <<list[n], pass[default[n]]>> IN
          /\ Passed(pass, arms[n]) \in A
          /\ Len(arms[n]) > shortest => chain \in R /\ pass[n] = rebuild[chain]
          /\ Len(arms[n]) <= shortest => pass[n] = Image(pass, n)

IsNormalizeChain(T, A, R, arms, default, rebuild, pass) ==
    IsChainPass(T, A, R, 1, arms, default, rebuild, [n \in T |-> Passed(pass, arms[n])], pass)

(* J are the lists that are joined, with the defaults of their chains.      *)
IsJoinArms(T, A, J, D, disjuncts, either, stays, join) ==
    /\ J \subseteq A \X T /\ join \in [J -> A] /\ stays \in [T \X T -> BOOLEAN]
    /\ \A l \in A, d \in T : <<l, d>> \in J =>
          LET arm == End(l)
              merged == join[<<Begin(l), d>>]
              stay == stays[<<arm.then, d>>]
          IN  /\ l = <<>> => join[<<l, d>>] = <<>>
              /\ l # <<>> =>
                    /\ <<Begin(l), d>> \in J
                    /\ JoinsAbove(stay, merged, arm) => \A i \in DOMAIN merged :
                          disjuncts[merged[i].cond] \o disjuncts[arm.cond] \in D
                    /\ join[<<l, d>>] =
                          JoinArm(LAMBDA g, c : either[disjuncts[g] \o disjuncts[c]], stay, merged, arm)

(* Where an arm that moves up holds, the arms it passes do not, or have its *)
(* value.                                                                  *)
GivenJoins(J, value, stays, join) ==
    \A chain \in J : chain[1] # <<>> =>
       LET arm == End(chain[1])
           merged == join[<<Begin(chain[1]), chain[2]>>]
       IN  JoinsAbove(stays[<<arm.then, chain[2]>>], merged, arm) /\ value[arm.cond] = 1 =>
              \A i \in DOMAIN merged :
                 i > LeastOf(SameThen(merged, arm)) /\ value[merged[i].cond] = 1 =>
                    value[merged[i].then] = value[arm.then]

IsMergeSameThen(T, A, R, J, arms, default, rebuild, join, pass) ==
    /\ \A n \in T : <<Passed(pass, arms[n]), default[n]>> \in J
    /\ IsChainPass(T, A, R, 1, arms, default, rebuild,
                   [n \in T |-> join[<<Passed(pass, arms[n]), default[n]>>]], pass)

SignatureIn(norm, conjuncts, g) == BagOf(conjuncts[norm[g]])
ConjunctsIn(norm, conjuncts, g) == {norm[p] : p \in Members(conjuncts[g])}
SameGuardAs(norm, conjuncts, kept, arm) ==
    SameGuard(LAMBDA g : SignatureIn(norm, conjuncts, g), kept, arm)

IsKeepArms(A, norm, conjuncts, prefers, keep) ==
    /\ keep \in [A -> A]
    /\ keep[<<>>] = <<>>
    /\ \A l \in A : l # <<>> =>
          keep[l] = KeepArm(LAMBDA g : SignatureIn(norm, conjuncts, g),
                            LAMBDA g : ConjunctsIn(norm, conjuncts, g),
                            LAMBDA t, u : prefers[<<t, u>>], keep[Begin(l)], End(l))

(* Where an arm that is preferred to an earlier one with its guard holds,   *)
(* it has the value of that one.                                           *)
GivenPreference(A, value, norm, conjuncts, prefers, keep) ==
    \A l \in A : l # <<>> =>
       LET kept == keep[Begin(l)]
           same == SameGuardAs(norm, conjuncts, kept, End(l))
           old == kept[LeastOf(same)]
       IN  same # {} /\ prefers[<<End(l).then, old.then>>] /\ value[End(l).cond] = 1 =>
              value[End(l).then] = value[old.then]

IsDropSameGuard(T, A, R, arms, default, rebuild, keep, pass) ==
    IsChainPass(T, A, R, 0, arms, default, rebuild, [n \in T |-> keep[Passed(pass, arms[n])]], pass)

(* A pass that sorts the arms of a chain: before[n] are the arms it takes   *)
(* one before another, moved[n] the arms in that order.                     *)
IsArmSort(T, A, arms, before, moved) ==
    /\ moved \in [T -> A]
    /\ \A n \in T : \E place \in [DOMAIN arms[n] -> DOMAIN moved[n]] :
          /\ \A k \in DOMAIN moved[n] : \E i \in DOMAIN arms[n] : place[i] = k
          /\ \A i \in DOMAIN arms[n] : moved[n][place[i]] = arms[n][i]
          /\ \A i, j \in DOMAIN arms[n] : <<i, j>> \in before[n] <=> place[i] < place[j]

(* It looks into what it has made: the default may have been looked into    *)
(* before.                                                                 *)
IsReordering(T, R, rank, arms, default, rebuild, moved, pass) ==
    /\ IsPass(T, pass)
    /\ \A n \in T :
          /\ moved[n] = arms[n] => pass[n] = Image(pass, n)
          /\ moved[n] # arms[n] => \E d \in {default[n], pass[default[n]]} :
                LET m == rebuild[<<moved[n], d>>]
                IN  /\ <<moved[n], d>> \in R /\ pass[n] = Image(pass, m)
                    /\ \A x \in Members(m.a) : rank[x] < rank[n]

(* A chain whose tail the order would change is not in order, and what is   *)
(* rebuilt in order, or has been looked into, is in order.                  *)
GivenOrder(T, R, arms, moved, rebuild, pass) ==
    LET InOrder(n) == moved[n] = arms[n]
    IN  /\ \A n \in T : InOrder(pass[n]) /\ (IsIf(n) /\ InOrder(n) => InOrder(ElseOf(n)))
        /\ \A chain \in R : InOrder(chain[2]) /\ InOrder(rebuild[chain])

(* The value of each tree when the order, and not its place, decides which  *)
(* of the arms that hold a chain takes: the one that is before the others.  *)
IsReading(T, row, arms, default, before, reading) ==
    /\ reading \in [T -> Values]
    /\ \A n \in T : ~IsIf(n) =>
          reading[n] = ValueOf(n, row, reading[n.a[1]], reading[n.a[2]], reading[n.a[3]])
    /\ \A n \in T : IsIf(n) =>
          LET holding == {i \in DOMAIN arms[n] : reading[arms[n][i].cond] = 1}
          IN  \/ holding = {} /\ reading[n] = reading[default[n]]
              \/ \E i \in holding : /\ reading[n] = reading[arms[n][i].then]
                                    /\ \A j \in holding \ {i} : <<i, j>> \in before[n]

-----------------------------------------------------------------------------
(* Repeated guards.  P are the trees looked into, each with the guard of    *)
(* the IF it is the THEN of.                                               *)

RepeatsGuardIn(norm, conjuncts, n, guard) ==
    RepeatsGuard(LAMBDA g : SignatureIn(norm, conjuncts, g), n, guard)

(* Where a guard and its repetition hold, a NULL taken for the folding's    *)
(* own stands over a NULL.                                                 *)
GivenPlaceholders(P, norm, conjuncts, value) ==
    \A nest \in P :
       /\ RepeatsGuardIn(norm, conjuncts, nest[1], nest[2]) /\ IsPlaceholder(nest[1])
       /\ value[nest[2]] = 1
       => value[ElseOf(nest[1])] = NullValue

IsNests(T, P, norm, conjuncts, inside) ==
    /\ P \subseteq T \X T /\ inside \in [P -> T]
    /\ \A n, g \in T : <<n, g>> \in P /\ RepeatsGuardIn(norm, conjuncts, n, g) =>
          /\ <<ElseOf(n), g>> \in P
          /\ <<ThenOf(n), g>> \in P

IsUnwrapped(T, P, norm, conjuncts, unwrapped) ==
    /\ IsNests(T, P, norm, conjuncts, unwrapped)
    /\ \A n, g \in T : <<n, g>> \in P =>
          unwrapped[<<n, g>>] = UnwrappedAt(LAMBDA x : unwrapped[<<x, g>>],
                                            LAMBDA c : SignatureIn(norm, conjuncts, c), n, g)

IsUnwrapGuards(T, P, unwrapped, pass) ==
    /\ IsPass(T, pass)
    /\ \A n \in T :
          LET m == Image(pass, n)
              nest == <<ThenOf(m), CondOf(m)>>
          IN  /\ IsIf(m) => nest \in P /\ pass[n] = [m EXCEPT !.a[2] = unwrapped[nest]]
              /\ ~IsIf(m) => pass[n] = m

IsPeeled(T, P, norm, conjuncts, peel) ==
    /\ IsNests(T, P, norm, conjuncts, peel)
    /\ \A n, g \in T : <<n, g>> \in P =>
          peel[<<n, g>>] = PeeledAt(LAMBDA x : peel[<<x, g>>],
                                    LAMBDA c : SignatureIn(norm, conjuncts, c), n, g)

IsDistinct(D, distinct) ==
    distinct \in [D -> D] /\ \A l \in D : Members(distinct[l]) = Members(l)

CutIn(pass, peel, m) == PrunedAt(LAMBDA x : pass[x], LAMBDA t, g : peel[<<t, g>>], m)
FlatIn(joins, clamps, x) == IF joins[x] # Absent THEN joins[x] ELSE clamps[x]
OneOfEachIn(disjuncts, distinct, either, c) ==
    IF IsOp(c, "OR") /\ distinct[disjuncts[c]] # disjuncts[c] THEN either[distinct[disjuncts[c]]] ELSE c

IsPruneAt(peel, joins, clamps, disjuncts, distinct, either, pass, n) ==
    pass[n] = PruneAt(LAMBDA x : pass[x], LAMBDA t, g : peel[<<t, g>>], LAMBDA x : FlatIn(joins, clamps, x),
                      LAMBDA c : OneOfEachIn(disjuncts, distinct, either, c), n)

(* What is pruned again is smaller.                                        *)
IsPruneTree(T, P, rank, peel, joins, clamps, disjuncts, distinct, either, pass) ==
    /\ IsPass(T, pass)
    /\ \A n \in T : IsPruneAt(peel, joins, clamps, disjuncts, distinct, either, pass, n)
    /\ \A n \in {x \in T : IsIf(x)} :
          LET m == Image(pass, n)
              nest == <<ThenOf(m), CondOf(m)>>
              flat == FlatIn(joins, clamps, CutIn(pass, peel, m))
          IN  /\ nest \in P /\ (IsIf(peel[nest]) => rank[ElseOf(peel[nest])] < rank[n])
              /\ CutIn(pass, peel, m) \in T /\ (flat # Absent => rank[flat] < rank[n])
=============================================================================
