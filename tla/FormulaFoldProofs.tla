------------------------- MODULE FormulaFoldProofs -------------------------
(***************************************************************************)
(* Theorems about FormulaFold, for any values, predicates and WHERE        *)
(* clauses, and any number of statements.                                  *)
(***************************************************************************)
EXTENDS FormulaFold, SequenceTheorems, WellFoundedInduction, TLAPS

\* The parts of a tree that the rules look at agree with what it means.
TreeShape(t) ==
    /\ t.kind = "self" => t.means = Own
    /\ (t.kind = "if" /\ t.shared # {}) =>
          \A r \in Row : t.means[r] = IF Matches(t.shared, r, r.col)
                                      THEN t.then[r] ELSE t.els[r]

AllLiterals(ps) == \A i \in DOMAIN ps : ps[i].set.form = "literal"
NoneReads(ps) == \A i \in DOMAIN ps : ~Reads(ps[i].guard)

\* The statements of chain c, run on what its base means, leave run: one that
\* assigned a literal on row r is the only word on r.
SameWord(c) ==
    \A r \in Row :
        /\ Hits(c.passes, r) = {} => run[r] = c.base.means[r]
        /\ \A i \in Hits(c.passes, r) :
              c.passes[i].set.form = "literal" => run[r] = c.passes[i].set.value
FirstWord(c) ==
    \A r \in Row :
        run[r] = IF Hits(c.passes, r) = {} THEN c.base.means[r]
                 ELSE c.passes[First(Hits(c.passes, r))].set.value

LiteralChainInv ==
    litChain.class = "literal" =>
        /\ AllLiterals(litChain.passes)
        /\ TreeShape(litChain.base)
        /\ (faithful /\ (litChain.base.kind = "self" \/ NoneReads(litChain.passes)))
              => SameWord(litChain)

ClassAInv ==
    selfChain.class = "A" =>
        /\ TreeShape(selfChain.base)
        /\ (faithful /\ selfChain.base.kind = "self") => SameWord(selfChain)

ClassBInv ==
    selfChain.class = "B" =>
        /\ TreeShape(selfChain.base)
        /\ selfChain.passes # <<>>
        /\ \A i \in DOMAIN selfChain.passes :
              /\ selfChain.passes[i].set.form = "literal"
              /\ selfChain.passes[i].set.value # Null
        /\ (faithful /\ selfChain.base.kind = "self") => FirstWord(selfChain)

\* Until a statement reads the column, no rule loses anything.
NoReadsYet ==
    ~reads => /\ faithful
              /\ selfChain.class = "none"
              /\ NoneReads(litChain.passes)

\* What holds of a row that no statement has matched: the chains have not
\* matched it either.
Quiet(r) ==
    /\ run[r] = r.col
    /\ tree.means[r] = r.col
    /\ \A c \in {selfChain, litChain} :
          c.class # "none" => /\ c.base.means[r] = r.col
                              /\ Hits(c.passes, r) = {}

FoldInv ==
    /\ TypeOK
    /\ TreeShape(tree)
    /\ LiteralChainInv
    /\ ClassAInv
    /\ ClassBInv
    /\ NoReadsYet
    /\ FaithfulFoldsExact
    /\ \A r \in Row \ matched : Quiet(r)

-----------------------------------------------------------------------------
(* Types of the operators. *)

LEMMA StatementType ==
    ASSUME NEW s \in Statement
    PROVE  /\ s.guard \in SUBSET Atoms
           /\ s.set \in Assigned
           /\ s.set.form \in {"literal", "keep", "column", "self", "lookup"}
           /\ s.set.form \in {"literal", "keep"} => s.set.value \in Values
           /\ s.set.form = "keep" => s.set.when \in Preds
BY GuardsAssumption DEF Statement, Assigned, Literal, Keep

LEMMA ValueOfType ==
    ASSUME NEW s \in Statement, NEW r \in Row, NEW v \in Values
    PROVE  ValueOf(s.set, r, v) \in Values
BY StatementType DEF ValueOf, Row

LEMMA PriorType ==
    ASSUME NEW t \in Tree
    PROVE  /\ Own \in Meaning
           /\ PriorValue(t) \in Meaning
           /\ PriorInGuard(t) \in Meaning
           /\ \A r \in Row : Own[r] = r.col
BY DEF PriorValue, PriorInGuard, Own, Meaning, Tree, Row

LEMMA SubstitutedType ==
    ASSUME NEW s \in Statement, NEW t \in Tree
    PROVE  /\ Substituted(s.set, t) \in Meaning
           /\ \A r \in Row : Substituted(s.set, t)[r] =
                                ValueOf(s.set, r, PriorValue(t)[r])
<1>1. \A r \in Row : ValueOf(s.set, r, PriorValue(t)[r]) \in Values
  BY PriorType, ValueOfType DEF Meaning
<1>. QED  BY <1>1 DEF Substituted, Meaning

LEMMA SelfRefType == SelfRef \in Tree /\ TreeShape(SelfRef)
BY PriorType DEF SelfRef, Leaf, Tree, TreeShape, Own, Meaning, Row

LEMMA LeafType ==
    ASSUME NEW k \in {"literal", "column"}, NEW m \in Meaning
    PROVE  Leaf(k, m) \in Tree /\ TreeShape(Leaf(k, m))
BY DEF Leaf, Tree, TreeShape

LEMMA IfType ==
    ASSUME NEW g \in SUBSET Atoms, NEW cond, NEW th \in Meaning,
           NEW isNull \in BOOLEAN, NEW e \in Tree
    PROVE  /\ If(g, cond, th, isNull, e) \in Tree
           /\ If(g, cond, th, isNull, e).kind = "if"
           /\ \A r \in Row : If(g, cond, th, isNull, e).means[r] =
                                IF cond[r] THEN th[r] ELSE e.means[r]
<1>1. \A r \in Row : (IF cond[r] THEN th[r] ELSE e.means[r]) \in Values
  BY DEF Meaning, Tree
<1>2. If(g, cond, th, isNull, e) \in Tree
  BY <1>1 DEF If, Tree, Meaning
<1>. QED  BY <1>2 DEF If

LEMMA IfShape ==
    ASSUME NEW g, NEW cond, NEW th, NEW isNull, NEW e,
           g = {} \/ \A r \in Row : cond[r] <=> Matches(g, r, r.col)
    PROVE  TreeShape(If(g, cond, th, isNull, e))
BY DEF If, TreeShape

-----------------------------------------------------------------------------
(* Chains and cascades. *)

LEMMA HitsOfAppend ==
    ASSUME NEW ps \in Seq(Statement), NEW s \in Statement, NEW r \in Row
    PROVE  /\ Append(ps, s) \in Seq(Statement)
           /\ Append(ps, s) # <<>>
           /\ Len(Append(ps, s)) = Len(ps) + 1
           /\ DOMAIN Append(ps, s) = DOMAIN ps \cup {Len(ps) + 1}
           /\ \A i \in DOMAIN ps : Append(ps, s)[i] = ps[i]
           /\ Append(ps, s)[Len(ps) + 1] = s
           /\ Hits(ps, r) \subseteq 1 .. Len(ps)
           /\ Hits(Append(ps, s), r) =
                 IF Matches(s.guard, r, r.col) THEN Hits(ps, r) \cup {Len(ps) + 1}
                 ELSE Hits(ps, r)
BY AppendProperties DEF Hits

LEMMA HitsOfOne ==
    ASSUME NEW s \in Statement, NEW r \in Row
    PROVE  /\ <<s>> \in Seq(Statement)
           /\ DOMAIN <<s>> = {1}
           /\ <<s>>[1] = s
           /\ Hits(<<s>>, r) = IF Matches(s.guard, r, r.col) THEN {1} ELSE {}
BY DEF Hits

LEMMA FirstIsLeast ==
    ASSUME NEW hits \in SUBSET Nat, hits # {}
    PROVE  First(hits) \in hits /\ \A j \in hits : First(hits) <= j
<1>1. PICK x \in hits : \A y \in hits : ~(<<y, x>> \in OpToRel(<, Nat))
  BY NatLessThanWellFounded, WFMin
<1>2. ASSUME NEW y \in hits
      PROVE  x <= y
  <2>1. x \in Nat /\ y \in Nat /\ ~(<<y, x>> \in OpToRel(<, Nat))
    BY <1>1
  <2>. QED  BY <2>1 DEF OpToRel
<1>. QED  BY <1>2 DEF First

LEMMA FirstIsUnique ==
    ASSUME NEW hits \in SUBSET Nat, NEW i \in hits, \A j \in hits : i <= j
    PROVE  First(hits) = i
<1>1. First(hits) \in hits /\ First(hits) <= i /\ i <= First(hits)
  BY FirstIsLeast
<1>2. First(hits) \in Nat /\ i \in Nat
  BY <1>1
<1>. QED  BY <1>1, <1>2

LEMMA CascadeType ==
    ASSUME NEW ps \in Seq(Statement), NEW b \in Tree, AllLiterals(ps)
    PROVE  Cascade(ps, b) \in Meaning
<1>1. ASSUME NEW r \in Row, Hits(ps, r) # {}
      PROVE  ps[First(Hits(ps, r))].set.value \in Values
  <2>1. Hits(ps, r) \in SUBSET Nat /\ Hits(ps, r) \subseteq DOMAIN ps
    BY DEF Hits
  <2>2. First(Hits(ps, r)) \in DOMAIN ps
    BY <1>1, <2>1, FirstIsLeast
  <2>3. ps[First(Hits(ps, r))] \in Statement
    BY <2>2
  <2>. QED  BY <2>2, <2>3, StatementType DEF AllLiterals
<1>. QED  BY <1>1 DEF Cascade, Meaning, Tree

\* A cascade is its first pass over the cascade of the others.
LEMMA CascadeUnfolds ==
    ASSUME NEW ps \in Seq(Statement), ps # <<>>, NEW b \in Tree, NEW r \in Row
    PROVE  Cascade(ps, b)[r] = IF Matches(ps[1].guard, r, r.col)
                               THEN ps[1].set.value
                               ELSE Cascade(Tail(ps), b)[r]
<1> DEFINE H == Hits(ps, r)
           T == Hits(Tail(ps), r)
<1>1. /\ Tail(ps) \in Seq(Statement)
      /\ Len(Tail(ps)) = Len(ps) - 1
      /\ Len(ps) \in Nat \ {0}
      /\ \A i \in 1 .. Len(Tail(ps)) : Tail(ps)[i] = ps[i + 1]
  BY HeadTailProperties, EmptySeq
<1>2. H \in SUBSET Nat /\ T \in SUBSET Nat
  BY DEF Hits
<1>3. CASE Matches(ps[1].guard, r, r.col)
  <2>1. 1 \in H /\ \A j \in H : 1 <= j
    BY <1>1, <1>3 DEF Hits
  <2>2. First(H) = 1
    BY <1>2, <2>1, FirstIsUnique
  <2>. QED  BY <1>3, <2>1, <2>2 DEF Cascade
<1>4. CASE ~Matches(ps[1].guard, r, r.col)
  <2>1. \A i \in Nat : i \in T <=> i + 1 \in H /\ i # 0
    BY <1>1 DEF Hits
  <2>2. \A j \in H : j # 1 /\ j - 1 \in T
    BY <1>1, <1>4 DEF Hits
  <2>3. CASE H = {}
    BY <1>4, <2>1, <2>3, <1>2 DEF Cascade
  <2>4. CASE H # {}
    <3>1. T # {}
      BY <2>2, <2>4
    <3>2. First(T) \in T /\ \A j \in T : First(T) <= j
      BY <1>2, <3>1, FirstIsLeast
    <3>3. First(T) + 1 \in H /\ \A j \in H : First(T) + 1 <= j
      BY <1>2, <2>1, <2>2, <3>2
    <3>4. First(H) = First(T) + 1
      BY <1>2, <3>3, FirstIsUnique
    <3>5. First(T) \in 1 .. Len(Tail(ps))
      <4>1. T \subseteq DOMAIN Tail(ps)
        BY DEF Hits
      <4>. QED  BY <1>1, <3>2, <4>1
    <3>6. Tail(ps)[First(T)] = ps[First(T) + 1]
      BY <1>1, <3>5
    <3>. QED  BY <1>4, <2>4, <3>1, <3>4, <3>6 DEF Cascade
  <2>. QED  BY <2>3, <2>4
<1>. QED  BY <1>3, <1>4

-----------------------------------------------------------------------------
(* Statements. *)

LEMMA SameMeaning ==
    ASSUME NEW m \in Meaning, NEW n \in Meaning, \A r \in Row : m[r] = n[r]
    PROVE  m = n
BY DEF Meaning

\* A guard that does not read the column does not see what it holds.
LEMMA BlindGuard ==
    ASSUME NEW g \in SUBSET Atoms, ~Reads(g), NEW r, NEW v, NEW w
    PROVE  Matches(g, r, v) <=> Matches(g, r, w)
<1>1. \A a \in g : a[1] = "pred"
  BY DEF Reads, Atoms
<1>. QED  BY <1>1 DEF Matches

LEMMA EmptyGuard ==
    ASSUME NEW r, NEW v
    PROVE  Matches({}, r, v) /\ ~Reads({})
BY DEF Matches, Reads

LEMMA ExecutedFacts ==
    ASSUME TypeOK, folded < MaxPasses, NEW s \in Statement, NEW exact \in BOOLEAN,
           Executed(s, exact)
    PROVE  /\ folded' \in 0 .. MaxPasses
           /\ run' \in Meaning
           /\ matched' \subseteq Row
           /\ reads' \in BOOLEAN
           /\ faithful' = exact
           /\ \A r \in Row : run'[r] = IF Matches(s.guard, r, run[r])
                                       THEN ValueOf(s.set, r, run[r]) ELSE run[r]
           /\ \A r \in Row \ matched' :
                 r \notin matched /\ ~Matches(s.guard, r, run[r])
           /\ ~reads' => /\ ~reads
                         /\ ~Reads(s.guard)
                         /\ s.set.form \notin {"keep", "lookup"}
<1>1. \A r \in Row : run[r] \in Values /\ ValueOf(s.set, r, run[r]) \in Values
  BY ValueOfType DEF TypeOK, Meaning
<1>2. /\ \A r \in Row : run'[r] = IF Matches(s.guard, r, run[r])
                                  THEN ValueOf(s.set, r, run[r]) ELSE run[r]
      /\ run' \in Meaning
  BY <1>1 DEF Executed, Meaning
<1>3. folded' \in 0 .. MaxPasses
  BY BoundAssumption DEF Executed, TypeOK
<1>4. /\ matched' \subseteq Row
      /\ \A r \in Row \ matched' : r \notin matched /\ ~Matches(s.guard, r, run[r])
  BY DEF Executed, TypeOK
<1>5. /\ reads' \in BOOLEAN
      /\ faithful' = exact
      /\ ~reads' => /\ ~reads
                    /\ ~Reads(s.guard)
                    /\ s.set.form \notin {"keep", "lookup"}
  BY DEF Executed, TypeOK, Reads
<1>. QED  BY <1>2, <1>3, <1>4, <1>5

LEMMA ChainTypes ==
    ASSUME NEW c \in Chains, NEW s \in Statement
    PROVE  /\ c.passes \in Seq(Statement)
           /\ c.base \in Tree
           /\ Extended(c, s) \in Chains
           /\ Extended(c, s).class = c.class
           /\ Extended(c, s).base = c.base
           /\ Extended(c, s).passes = Append(c.passes, s)
BY AppendProperties DEF Chains, Extended

LEMMA NoChainType ==
    /\ NoChain \in Chains
    /\ NoChain.class = "none"
    /\ NoneReads(NoChain.passes)
<1>1. <<>> \in Seq(Statement)
  OBVIOUS
<1>. QED  BY <1>1, SelfRefType DEF NoChain, Chains, NoneReads

\* No chain is left: nothing to say of one.
LEMMA ChainsEnd ==
    ASSUME selfChain' = NoChain, litChain' = NoChain
    PROVE  /\ LiteralChainInv' /\ ClassAInv' /\ ClassBInv'
           /\ selfChain' \in Chains /\ litChain' \in Chains
           /\ selfChain'.class = "none" /\ litChain'.class = "none"
           /\ NoneReads(litChain'.passes)
BY NoChainType DEF LiteralChainInv, ClassAInv, ClassBInv

\* The invariant after a step, from the parts a rule is about.
LEMMA Assembled ==
    ASSUME TypeOK, folded < MaxPasses, NEW s \in Statement, NEW exact \in BOOLEAN,
           Executed(s, exact),
           tree' \in Tree, TreeShape(tree'),
           selfChain' \in Chains, selfChain'.class \in {"none", "A", "B"},
           litChain' \in Chains, litChain'.class \in {"none", "literal"},
           LiteralChainInv', ClassAInv', ClassBInv', NoReadsYet',
           exact => \A r \in Row : tree'.means[r] = run'[r],
           \A r \in Row \ matched' : Quiet(r)'
    PROVE  FoldInv'
<1>1. TypeOK'
  BY ExecutedFacts DEF TypeOK
<1>2. FaithfulFoldsExact'
  <2>1. faithful' = exact /\ run' \in Meaning /\ tree'.means \in Meaning
    BY ExecutedFacts DEF Tree
  <2>. QED  BY <2>1, SameMeaning DEF FaithfulFoldsExact
<1>. QED  BY <1>1, <1>2 DEF FoldInv

-----------------------------------------------------------------------------
(* One lemma per rule. *)

LEMMA SkipStep ==
    ASSUME FoldInv, folded < MaxPasses, NEW s \in Statement, Skip(s)
    PROVE  FoldInv'
<1> DEFINE exact == faithful /\ s.set.form = "self"
<1>1. /\ TypeOK
      /\ exact \in BOOLEAN
      /\ Executed(s, exact)
      /\ tree' = tree /\ selfChain' = selfChain /\ litChain' = litChain
  BY DEF FoldInv, TypeOK, Skip, fold
<1>2. exact => run' = run
  <2>1. SUFFICES ASSUME exact PROVE \A r \in Row : run'[r] = run[r]
    BY <1>1, ExecutedFacts, SameMeaning DEF TypeOK
  <2>2. \A r \in Row : ValueOf(s.set, r, run[r]) = run[r]
    BY <2>1 DEF ValueOf
  <2>. QED  BY <1>1, <2>2, ExecutedFacts
<1>3. faithful' = exact
  BY <1>1, ExecutedFacts
<1>4. LiteralChainInv' /\ ClassAInv' /\ ClassBInv'
  BY <1>1, <1>2, <1>3 DEF FoldInv, LiteralChainInv, ClassAInv, ClassBInv,
                          SameWord, FirstWord
<1>5. NoReadsYet'
  <2>1. s.set.form \in {"lookup", "self"}
    BY DEF Skip, Folds
  <2>2. ~reads' => ~reads /\ s.set.form = "self"
    BY <1>1, <2>1, ExecutedFacts
  <2>. QED  BY <1>1, <1>3, <2>2 DEF FoldInv, NoReadsYet
<1>6. \A r \in Row \ matched' : Quiet(r)'
  <2>1. \A r \in Row \ matched' : Quiet(r) /\ run'[r] = run[r]
    BY <1>1, ExecutedFacts DEF FoldInv
  <2>. QED  BY <1>1, <2>1 DEF Quiet
<1>7. exact => \A r \in Row : tree'.means[r] = run'[r]
  BY <1>1, <1>2 DEF FoldInv, FaithfulFoldsExact
<1>8. /\ tree' \in Tree /\ TreeShape(tree')
      /\ selfChain' \in Chains /\ selfChain'.class \in {"none", "A", "B"}
      /\ litChain' \in Chains /\ litChain'.class \in {"none", "literal"}
  BY <1>1 DEF FoldInv, TypeOK
<1>. QED  BY <1>1, <1>4, <1>5, <1>6, <1>7, <1>8, Assembled

LEMMA WhenOfMeans ==
    ASSUME TypeOK, NEW s \in Statement, s.set.form = "keep"
    PROVE  /\ WhenOf(s.set, tree) \in Tree
           /\ TreeShape(WhenOf(s.set, tree))
           /\ ValueInlined(tree) =>
                 \A r \in Row : WhenOf(s.set, tree).means[r] =
                                   ValueOf(s.set, r, tree.means[r])
<1> DEFINE p == {<<"pred", s.set.when>>}
           e == IF ValueInlined(tree) THEN tree ELSE SelfRef
           th == [r \in Row |-> s.set.value]
<1>1. p \in SUBSET Atoms /\ th \in Meaning /\ e \in Tree
  BY StatementType, SelfRefType DEF Atoms, Meaning, TypeOK
<1>2. \A r \in Row : /\ Raw(p)[r] <=> Matches(p, r, r.col)
                     /\ Raw(p)[r] <=> s.set.when \in r.holds
  BY DEF Raw, Matches
<1>3. WhenOf(s.set, tree) = If(p, Raw(p), th, s.set.value = Null, e)
  BY DEF WhenOf
<1> DEFINE isNull == s.set.value = Null
           w == If(p, Raw(p), th, isNull, e)
<1>4. isNull \in BOOLEAN
  OBVIOUS
<1>5. \A r \in Row : Raw(p)[r] <=> Matches(p, r, r.col)
  BY <1>2
<1> HIDE DEF p, th, e, isNull
<1>6. /\ w \in Tree
      /\ \A r \in Row : w.means[r] = IF Raw(p)[r] THEN th[r] ELSE e.means[r]
  BY <1>1, <1>4, IfType
<1>7. TreeShape(w)
  BY <1>5, IfShape
<1>8. \A r \in Row : th[r] = s.set.value
  BY DEF th
<1>9. ValueInlined(tree) => e = tree
  BY DEF e
<1>. QED  BY <1>2, <1>3, <1>6, <1>8, <1>9, <1>7 DEF ValueOf, isNull

LEMMA ResetStep ==
    ASSUME FoldInv, folded < MaxPasses, NEW s \in Statement, Reset(s)
    PROVE  FoldInv'
<1> DEFINE exact == s.set.form = "keep" => faithful /\ ValueInlined(tree)
           new == Substituted(s.set, tree)
<1>1. /\ TypeOK
      /\ exact \in BOOLEAN
      /\ Executed(s, exact)
      /\ s.guard = {}
      /\ s.set.form \in {"literal", "column", "keep"}
  BY StatementType DEF FoldInv, Reset, Folds
<1>2. /\ LiteralChainInv' /\ ClassAInv' /\ ClassBInv'
      /\ selfChain' \in Chains /\ litChain' \in Chains
      /\ selfChain'.class = "none" /\ litChain'.class = "none"
      /\ NoneReads(litChain'.passes)
  BY ChainsEnd DEF Reset
<1>3. \A r \in Row : run'[r] = ValueOf(s.set, r, run[r]) /\ r \in matched'
  <2>1. \A r \in Row : Matches(s.guard, r, run[r])
    BY <1>1, EmptyGuard
  <2>2. /\ \A r \in Row : run'[r] = IF Matches(s.guard, r, run[r])
                                  THEN ValueOf(s.set, r, run[r]) ELSE run[r]
        /\ \A r \in Row \ matched' : ~Matches(s.guard, r, run[r])
    BY <1>1, ExecutedFacts
  <2>. QED  BY <2>1, <2>2
<1>4. /\ tree' \in Tree /\ TreeShape(tree')
      /\ exact => \A r \in Row : tree'.means[r] = run'[r]
  <2>1. CASE s.set.form = "keep"
    <3>1. tree' = WhenOf(s.set, tree)
      BY <2>1 DEF Reset
    <3>2. exact => tree.means = run
      BY <2>1 DEF FoldInv, FaithfulFoldsExact
    <3>. QED  BY <1>1, <1>3, <2>1, <3>1, <3>2, WhenOfMeans
  <2>2. CASE s.set.form # "keep"
    <3>1. /\ tree' = Leaf("literal", new) \/ tree' = Leaf("column", new)
          /\ new \in Meaning
      BY <1>1, <2>2, SubstitutedType DEF Reset, TypeOK
    <3>2. tree'.means = new /\ tree' \in Tree /\ TreeShape(tree')
      BY <3>1, LeafType DEF Leaf
    <3>3. \A r \in Row : new[r] = ValueOf(s.set, r, PriorValue(tree)[r])
      BY <1>1, SubstitutedType DEF TypeOK
    <3>4. \A r \in Row : ValueOf(s.set, r, PriorValue(tree)[r]) =
                            ValueOf(s.set, r, run[r])
      BY <1>1, <2>2 DEF ValueOf
    <3>. QED  BY <1>3, <3>2, <3>3, <3>4
  <2>. QED  BY <2>1, <2>2
<1>5. NoReadsYet'
  BY <1>1, <1>2, ExecutedFacts DEF NoReadsYet
<1>6. \A r \in Row \ matched' : Quiet(r)'
  BY <1>3
<1>. QED  BY <1>1, <1>2, <1>4, <1>5, <1>6, Assembled

LEMMA OrOfMeans ==
    ASSUME NEW c \in Chains, NEW s \in Statement, s.set.form = "literal"
    PROVE  /\ OrOf(c, s.set) \in Tree
           /\ TreeShape(OrOf(c, s.set))
           /\ \A r \in Row : OrOf(c, s.set).means[r] =
                 IF Hits(c.passes, r) = {} THEN c.base.means[r] ELSE s.set.value
<1> DEFINE cond == [r \in Row |-> Hits(c.passes, r) # {}]
           th == [r \in Row |-> s.set.value]
           isNull == NullLiteral(s.set)
<1>1. /\ {} \in SUBSET Atoms /\ th \in Meaning /\ c.base \in Tree
      /\ isNull \in BOOLEAN
      /\ OrOf(c, s.set) = If({}, cond, th, isNull, c.base)
  BY StatementType DEF Meaning, Chains, OrOf, NullLiteral
<1>2. \A r \in Row : /\ cond[r] <=> Hits(c.passes, r) # {}
                     /\ th[r] = s.set.value
  OBVIOUS
<1> HIDE DEF cond, th, isNull
<1>3. /\ OrOf(c, s.set) \in Tree
      /\ \A r \in Row : OrOf(c, s.set).means[r] =
                           IF cond[r] THEN th[r] ELSE c.base.means[r]
  BY <1>1, IfType
<1>4. TreeShape(OrOf(c, s.set))
  BY <1>1, IfShape
<1>. QED  BY <1>2, <1>3, <1>4

LEMMA CascadeOfMeans ==
    ASSUME NEW c \in Chains, c.passes # <<>>, AllLiterals(c.passes)
    PROVE  /\ CascadeOf(c) \in Tree
           /\ TreeShape(CascadeOf(c))
           /\ CascadeOf(c).means = Cascade(c.passes, c.base)
<1> DEFINE ps == c.passes
           lit == [r \in Row |-> ps[1].set.value]
<1>1. ps \in Seq(Statement) /\ ps # <<>> /\ c.base \in Tree
  BY DEF Chains
<1>2. /\ Len(ps) \in Nat \ {0}
      /\ ps[1] \in Statement
      /\ ps[1].set.form = "literal"
      /\ Tail(ps) \in Seq(Statement)
      /\ Len(Tail(ps)) = Len(ps) - 1
      /\ \A i \in 1 .. Len(Tail(ps)) : Tail(ps)[i] = ps[i + 1]
  BY <1>1, HeadTailProperties, EmptySeq DEF AllLiterals
<1>3. AllLiterals(Tail(ps))
  BY <1>1, <1>2 DEF AllLiterals
<1>4. /\ Cascade(ps, c.base) \in Meaning
      /\ Cascade(Tail(ps), c.base) \in Meaning
  BY <1>1, <1>2, <1>3, CascadeType
<1>5. lit \in Meaning /\ \A r \in Row : lit[r] = ps[1].set.value
  BY <1>2, StatementType DEF Meaning
<1>6. /\ ps[1].guard \in SUBSET Atoms
      /\ NullLiteral(ps[1].set) \in BOOLEAN
      /\ Len(ps) + c.base.depth \in Nat
  BY <1>1, <1>2, StatementType DEF NullLiteral, Tree
<1>7. CascadeOf(c) \in Tree
  BY <1>4, <1>5, <1>6 DEF CascadeOf, Tree
<1>8. TreeShape(CascadeOf(c))
  <2>1. \A r \in Row : Cascade(ps, c.base)[r] =
           IF Matches(ps[1].guard, r, r.col) THEN lit[r]
           ELSE Cascade(Tail(ps), c.base)[r]
    BY <1>1, <1>5, CascadeUnfolds
  <2>. QED  BY <2>1 DEF CascadeOf, TreeShape
<1>. QED  BY <1>7, <1>8 DEF CascadeOf

\* A row on which a chain of one literal says the same word goes on to do so.
LEMMA SameWordGoesOn ==
    ASSUME NEW c \in Chains, NEW s \in Statement, NEW r \in Row,
           s.set.form = "literal", AllSet(c.passes, s.set), SameWord(c),
           Hits(c.passes, r) = {} =>
              (Matches(s.guard, r, run[r]) <=> Matches(s.guard, r, r.col)),
           run'[r] = IF Matches(s.guard, r, run[r])
                     THEN ValueOf(s.set, r, run[r]) ELSE run[r]
    PROVE  run'[r] = IF Hits(Extended(c, s).passes, r) = {} THEN c.base.means[r]
                     ELSE s.set.value
<1>1. ValueOf(s.set, r, run[r]) = s.set.value
  BY DEF ValueOf
<1>2. Hits(Extended(c, s).passes, r) =
         IF Matches(s.guard, r, r.col) THEN Hits(c.passes, r) \cup {Len(c.passes) + 1}
         ELSE Hits(c.passes, r)
  <2>1. PICK ps \in Seq(Statement) : ps = c.passes
    BY ChainTypes
  <2>2. Hits(Append(ps, s), r) =
           IF Matches(s.guard, r, r.col) THEN Hits(ps, r) \cup {Len(ps) + 1}
           ELSE Hits(ps, r)
    BY HitsOfAppend
  <2>3. Extended(c, s).passes = Append(ps, s)
    BY <2>1, ChainTypes
  <2>. QED  BY <2>1, <2>2, <2>3
<1>3. CASE Hits(c.passes, r) = {}
  BY <1>1, <1>2, <1>3 DEF SameWord
<1>4. CASE Hits(c.passes, r) # {}
  <2>1. PICK i : i \in Hits(c.passes, r)
    BY <1>4
  <2>2. c.passes[i].set = s.set
    BY <2>1 DEF AllSet, Hits
  <2>3. run[r] = s.set.value
    BY <2>1, <2>2 DEF SameWord
  <2>. QED  BY <1>1, <1>2, <1>4, <2>3
<1>. QED  BY <1>3, <1>4

\* The passes of a longer chain of one literal all assign it.
LEMMA AllSetGoesOn ==
    ASSUME NEW ps \in Seq(Statement), NEW s \in Statement, AllSet(ps, s.set)
    PROVE  AllSet(Append(ps, s), s.set)
<1>1. /\ DOMAIN Append(ps, s) = 1 .. Len(ps) + 1
      /\ DOMAIN ps = 1 .. Len(ps)
      /\ \A i \in 1 .. Len(ps) : Append(ps, s)[i] = ps[i]
      /\ Append(ps, s)[Len(ps) + 1] = s
      /\ Len(ps) \in Nat
  BY AppendProperties
<1>. QED  BY <1>1 DEF AllSet

LEMMA CollapseLiteralStep ==
    ASSUME FoldInv, folded < MaxPasses, NEW s \in Statement, CollapseLiteral(s)
    PROVE  FoldInv'
<1> DEFINE c == litChain
           longer == Extended(c, s)
           blind == \A i \in DOMAIN longer.passes : ~Reads(longer.passes[i].guard)
           exact == faithful /\ (c.base.kind = "self" \/ blind)
<1>1. /\ TypeOK
      /\ exact \in BOOLEAN
      /\ Executed(s, exact)
      /\ c \in Chains
      /\ c.class = "literal"
      /\ s.set.form = "literal"
      /\ AllSet(c.passes, s.set)
      /\ tree' = OrOf(longer, s.set)
      /\ selfChain' = NoChain
      /\ litChain' = longer
  BY DEF FoldInv, TypeOK, CollapseLiteral, CollapsesLiteral
<1>2. /\ c.passes \in Seq(Statement) /\ c.base \in Tree
      /\ longer \in Chains /\ longer.class = "literal" /\ longer.base = c.base
      /\ longer.passes = Append(c.passes, s)
  BY <1>1, ChainTypes
<1>3. /\ tree' \in Tree /\ TreeShape(tree')
      /\ \A r \in Row : tree'.means[r] =
            IF Hits(longer.passes, r) = {} THEN c.base.means[r] ELSE s.set.value
  BY <1>1, <1>2, OrOfMeans
<1>4. AllSet(longer.passes, s.set)
  BY <1>1, <1>2, AllSetGoesOn
<1>5. /\ \A r \in Row : run'[r] = IF Matches(s.guard, r, run[r])
                                  THEN ValueOf(s.set, r, run[r]) ELSE run[r]
      /\ faithful' = exact
  BY <1>1, ExecutedFacts
<1>6. blind => NoneReads(c.passes) /\ ~Reads(s.guard)
  BY <1>2, HitsOfAppend, AppendProperties DEF NoneReads
<1>7. ASSUME exact, NEW r \in Row
      PROVE  run'[r] = IF Hits(longer.passes, r) = {} THEN c.base.means[r]
                       ELSE s.set.value
  <2>1. SameWord(c)
    BY <1>1, <1>6, <1>7 DEF FoldInv, LiteralChainInv
  <2>2. ASSUME Hits(c.passes, r) = {}
        PROVE  Matches(s.guard, r, run[r]) <=> Matches(s.guard, r, r.col)
    <3>1. CASE blind
      <4>1. s.guard \in SUBSET Atoms /\ ~Reads(s.guard)
        BY <1>6, <3>1, StatementType
      <4>. QED  BY <4>1, BlindGuard
    <3>2. CASE c.base.kind = "self"
      <4>1. c.base.means = Own
        BY <1>1, <3>2 DEF FoldInv, LiteralChainInv, TreeShape
      <4>2. run[r] = r.col
        BY <2>1, <2>2, <4>1 DEF SameWord, Own
      <4>. QED  BY <4>2
    <3>. QED  BY <1>7, <3>1, <3>2
  <2>. QED  BY <1>1, <1>5, <2>1, <2>2, SameWordGoesOn
<1>8. LiteralChainInv'
  <2>1. AllLiterals(longer.passes)
    BY <1>1, <1>4 DEF AllLiterals, AllSet
  <2>2. TreeShape(c.base)
    BY <1>1 DEF FoldInv, LiteralChainInv
  <2>3. ASSUME exact PROVE SameWord(litChain)'
    <3>1. \A r \in Row : \A i \in Hits(longer.passes, r) :
             longer.passes[i].set = s.set
      BY <1>4 DEF AllSet, Hits
    <3>. QED  BY <1>1, <1>2, <1>7, <2>3, <3>1 DEF SameWord
  <2>. QED  BY <1>1, <1>2, <1>5, <2>1, <2>2, <2>3 DEF LiteralChainInv
<1>9. ClassAInv' /\ ClassBInv' /\ selfChain' \in Chains /\ selfChain'.class = "none"
  BY <1>1, NoChainType DEF ClassAInv, ClassBInv
<1>10. NoReadsYet'
  <2>1. ASSUME ~reads' PROVE faithful' /\ NoneReads(longer.passes)
    <3>1. ~reads /\ ~Reads(s.guard)
      BY <1>1, <2>1, ExecutedFacts
    <3>2. faithful /\ NoneReads(c.passes)
      BY <3>1 DEF FoldInv, NoReadsYet
    <3>3. blind
      BY <1>2, <3>1, <3>2, AppendProperties DEF NoneReads
    <3>. QED  BY <1>5, <3>2, <3>3 DEF NoneReads
  <2>. QED  BY <1>1, <1>9, <2>1 DEF NoReadsYet
<1>11. \A r \in Row \ matched' : Quiet(r)'
  <2>1. SUFFICES ASSUME NEW r \in Row \ matched' PROVE Quiet(r)'
    OBVIOUS
  <2>2. Quiet(r) /\ ~Matches(s.guard, r, run[r])
    BY <1>1, ExecutedFacts DEF FoldInv
  <2>3. /\ run[r] = r.col /\ c.base.means[r] = r.col
        /\ Hits(c.passes, r) = {}
    BY <1>1, <2>2 DEF Quiet
  <2>4. Hits(longer.passes, r) = {}
    BY <1>2, <2>2, <2>3, HitsOfAppend
  <2>. QED  BY <1>1, <1>2, <1>3, <1>5, <1>9, <2>2, <2>3, <2>4 DEF Quiet
<1>12. exact => \A r \in Row : tree'.means[r] = run'[r]
  BY <1>3, <1>7
<1>. QED  BY <1>1, <1>2, <1>3, <1>8, <1>9, <1>10, <1>11, <1>12, Assembled

\* ISEMPTY(col) does not hold where the column holds something.
LEMMA FilledRow ==
    ASSUME NEW g \in SUBSET Atoms, Reads(g), ReadsOnlyIsEmpty(g), NEW r, NEW v,
           v # Null
    PROVE  ~Matches(g, r, v)
BY DEF Reads, ReadsOnlyIsEmpty, Matches, Atoms

LEMMA FirstOfMore ==
    ASSUME NEW ps \in Seq(Statement), NEW s \in Statement, NEW r \in Row
    PROVE  /\ Hits(ps, r) # {} =>
                 /\ First(Hits(ps, r)) \in DOMAIN ps
                 /\ First(Hits(Append(ps, s), r)) = First(Hits(ps, r))
                 /\ Append(ps, s)[First(Hits(ps, r))] = ps[First(Hits(ps, r))]
           /\ Hits(ps, r) = {} /\ Matches(s.guard, r, r.col) =>
                 Append(ps, s)[First(Hits(Append(ps, s), r))] = s
<1> DEFINE H == Hits(ps, r)
           n == Len(ps) + 1
           more == Hits(Append(ps, s), r)
<1>1. /\ H \subseteq 1 .. Len(ps)
      /\ Len(ps) \in Nat
      /\ DOMAIN ps = 1 .. Len(ps)
      /\ more = IF Matches(s.guard, r, r.col) THEN H \cup {n} ELSE H
      /\ \A i \in 1 .. Len(ps) : Append(ps, s)[i] = ps[i]
      /\ Append(ps, s)[n] = s
  BY HitsOfAppend
<1>4. Len(ps) \in Nat /\ \A j \in H : j \in Nat /\ j <= Len(ps)
  BY <1>1
<1> HIDE DEF H, more
<1>2. ASSUME H # {}
      PROVE  /\ First(H) \in DOMAIN ps
             /\ First(more) = First(H)
             /\ Append(ps, s)[First(H)] = ps[First(H)]
  <2>1. First(H) \in H /\ \A j \in H : First(H) <= j
    BY <1>1, <1>2, FirstIsLeast
  <2>2. more \subseteq H \cup {n} /\ H \subseteq more /\ n \in Nat
    BY <1>1
  <2>3. /\ more \in SUBSET Nat
        /\ First(H) \in more /\ \A j \in more : First(H) <= j
    <3>1. H \in SUBSET Nat
      BY <1>4
    <3>2. First(H) <= n
      BY <1>4, <2>1
    <3>3. more \in SUBSET Nat
      BY <2>2, <3>1
    <3>4. \A j \in more : j \in H \/ j = n
      BY <2>2
    <3> HIDE DEF n
    <3>. QED  BY <2>1, <2>2, <3>2, <3>3, <3>4
  <2>4. First(more) = First(H)
    BY <2>3, FirstIsUnique
  <2>. QED  BY <1>1, <2>1, <2>4
<1>3. ASSUME H = {}, Matches(s.guard, r, r.col)
      PROVE  Append(ps, s)[First(more)] = s
  <2>1. more = {n} /\ n \in Nat
    BY <1>1, <1>3
  <2>2. First(more) = n
    BY <2>1, FirstIsUnique
  <2>. QED  BY <1>1, <2>2
<1>. QED  BY <1>2, <1>3 DEF H, more

\* What both classes of self-referential chains have in common.
LEMMA CollapseSelfFacts ==
    ASSUME FoldInv, folded < MaxPasses, NEW s \in Statement, CollapseSelf(s)
    PROVE  /\ s.set.form = "literal"
           /\ selfChain \in Chains /\ selfChain.class \in {"A", "B"}
           /\ Extended(selfChain, s) \in Chains
           /\ selfChain' = Extended(selfChain, s)
           /\ selfChain'.class = selfChain.class
           /\ selfChain'.base = selfChain.base
           /\ selfChain'.passes = Append(selfChain.passes, s)
           /\ litChain' = NoChain
           /\ TreeShape(selfChain.base)
           /\ NoReadsYet' /\ LiteralChainInv'
           /\ \A r \in Row : run'[r] = IF Matches(s.guard, r, run[r])
                                       THEN ValueOf(s.set, r, run[r]) ELSE run[r]
           /\ faithful' => /\ faithful /\ Reads(s.guard)
                           /\ \A r \in Row : selfChain.base.means[r] = r.col
           /\ \A r \in Row \ matched' :
                 /\ run'[r] = r.col /\ selfChain.base.means[r] = r.col
                 /\ Hits(selfChain'.passes, r) = {}
<1> DEFINE c == selfChain
           exact == faithful /\ c.base.kind = "self" /\ Reads(s.guard)
<1>1. /\ TypeOK
      /\ exact \in BOOLEAN
      /\ Executed(s, exact)
      /\ c \in Chains /\ c.class \in {"A", "B"}
      /\ s.set.form = "literal"
      /\ selfChain' = Extended(c, s)
      /\ litChain' = NoChain
  BY DEF FoldInv, TypeOK, CollapseSelf, CollapsesSelf, Reads
<1>2. /\ c.passes \in Seq(Statement)
      /\ Extended(c, s) \in Chains
      /\ selfChain'.class = c.class /\ selfChain'.base = c.base
      /\ selfChain'.passes = Append(c.passes, s)
  BY <1>1, ChainTypes
<1>3. TreeShape(c.base)
  BY <1>1 DEF FoldInv, ClassAInv, ClassBInv
<1>4. /\ faithful' = exact
      /\ \A r \in Row : run'[r] = IF Matches(s.guard, r, run[r])
                                  THEN ValueOf(s.set, r, run[r]) ELSE run[r]
      /\ \A r \in Row \ matched' : r \notin matched /\ ~Matches(s.guard, r, run[r])
      /\ ~reads' => ~reads
  BY <1>1, ExecutedFacts
<1>5. faithful' => \A r \in Row : c.base.means[r] = r.col
  BY <1>3, <1>4 DEF TreeShape, Own
<1>6. NoReadsYet' /\ LiteralChainInv'
  BY <1>1, <1>4, NoChainType DEF FoldInv, NoReadsYet, LiteralChainInv
<1>7. ASSUME NEW r \in Row \ matched'
      PROVE  /\ run'[r] = r.col /\ c.base.means[r] = r.col
             /\ Hits(selfChain'.passes, r) = {}
  <2>1. Quiet(r) /\ ~Matches(s.guard, r, run[r])
    BY <1>4 DEF FoldInv
  <2>2. run[r] = r.col /\ c.base.means[r] = r.col /\ Hits(c.passes, r) = {}
    BY <1>1, <2>1 DEF Quiet
  <2>3. PICK ps \in Seq(Statement) : ps = c.passes
    BY <1>2
  <2>4. Hits(Append(ps, s), r) = {}
    BY <2>1, <2>2, <2>3, HitsOfAppend
  <2>. QED  BY <1>2, <1>4, <2>1, <2>2, <2>3, <2>4
<1>. QED  BY <1>1, <1>2, <1>3, <1>4, <1>5, <1>6, <1>7

LEMMA CollapseAStep ==
    ASSUME FoldInv, folded < MaxPasses, NEW s \in Statement, CollapseSelf(s),
           selfChain.class = "A"
    PROVE  FoldInv'
<1> DEFINE c == selfChain
           longer == Extended(c, s)
           exact == faithful /\ c.base.kind = "self" /\ Reads(s.guard)
<1>1. /\ TypeOK
      /\ exact \in BOOLEAN
      /\ Executed(s, exact)
      /\ AllSet(c.passes, s.set)
      /\ tree' = OrOf(longer, s.set)
      /\ faithful' = exact
  <2>1. TypeOK /\ exact \in BOOLEAN /\ Executed(s, exact)
    BY DEF FoldInv, TypeOK, CollapseSelf, Reads
  <2>. QED  BY <2>1, ExecutedFacts DEF CollapseSelf, CollapsesSelf
<1>2. /\ tree' \in Tree /\ TreeShape(tree')
      /\ \A r \in Row : tree'.means[r] =
            IF Hits(longer.passes, r) = {} THEN c.base.means[r] ELSE s.set.value
  <2>1. /\ longer \in Chains /\ longer.base = c.base
        /\ s.set.form = "literal"
    BY CollapseSelfFacts
  <2> HIDE DEF longer
  <2>. QED  BY <1>1, <2>1, OrOfMeans
<1>3. ASSUME exact, NEW r \in Row
      PROVE  run'[r] = IF Hits(longer.passes, r) = {} THEN c.base.means[r]
                       ELSE s.set.value
  <2>1. SameWord(c)
    BY <1>3 DEF FoldInv, ClassAInv
  <2>2. Hits(c.passes, r) = {} => run[r] = r.col
    BY <1>1, <1>3, <2>1, CollapseSelfFacts DEF SameWord
  <2>. QED  BY <1>1, <2>1, <2>2, CollapseSelfFacts, SameWordGoesOn
<1>4. ClassAInv'
  <2>1. AllSet(longer.passes, s.set)
    BY <1>1, CollapseSelfFacts, ChainTypes, AllSetGoesOn
  <2>2. \A r \in Row : \A i \in Hits(longer.passes, r) :
           longer.passes[i].set = s.set
    BY <2>1 DEF AllSet, Hits
  <2>3. exact => SameWord(selfChain)'
    BY <1>3, <2>2, CollapseSelfFacts DEF SameWord
  <2>. QED  BY <1>1, <2>3, CollapseSelfFacts DEF ClassAInv
<1>5. ClassBInv'
  BY CollapseSelfFacts DEF ClassBInv
<1>6. \A r \in Row \ matched' : Quiet(r)'
  BY <1>2, CollapseSelfFacts, NoChainType DEF Quiet
<1>7. exact => \A r \in Row : tree'.means[r] = run'[r]
  BY <1>2, <1>3
<1>8. /\ selfChain' \in Chains /\ selfChain'.class \in {"none", "A", "B"}
      /\ litChain' \in Chains /\ litChain'.class \in {"none", "literal"}
      /\ NoReadsYet' /\ LiteralChainInv'
  BY CollapseSelfFacts, NoChainType
<1>. QED  BY <1>1, <1>2, <1>4, <1>5, <1>6, <1>7, <1>8, Assembled

LEMMA CollapseBStep ==
    ASSUME FoldInv, folded < MaxPasses, NEW s \in Statement, CollapseSelf(s),
           selfChain.class = "B"
    PROVE  FoldInv'
<1> DEFINE c == selfChain
           longer == Extended(c, s)
           exact == faithful /\ c.base.kind = "self" /\ Reads(s.guard)
<1>1. /\ TypeOK
      /\ exact \in BOOLEAN
      /\ Executed(s, exact)
      /\ ReadsOnlyIsEmpty(s.guard)
      /\ s.set.form = "literal" /\ s.set.value # Null
      /\ tree' = CascadeOf(longer)
      /\ faithful' = exact
  <2>1. TypeOK /\ exact \in BOOLEAN /\ Executed(s, exact)
    BY DEF FoldInv, TypeOK, CollapseSelf, Reads
  <2>. QED  BY <2>1, ExecutedFacts DEF CollapseSelf, CollapsesSelf
<1>2. PICK ps \in Seq(Statement) : ps = c.passes
  BY CollapseSelfFacts, ChainTypes
<1>3. /\ longer \in Chains /\ longer.passes = Append(ps, s) /\ longer.base = c.base
      /\ selfChain' = longer
      /\ Append(ps, s) # <<>>
  BY <1>2, CollapseSelfFacts, HitsOfAppend
<1>4. \A i \in DOMAIN longer.passes : /\ longer.passes[i].set.form = "literal"
                                      /\ longer.passes[i].set.value # Null
  <2>1. \A i \in DOMAIN ps : ps[i].set.form = "literal" /\ ps[i].set.value # Null
    BY <1>2 DEF FoldInv, ClassBInv
  <2>. QED  BY <1>1, <1>3, <2>1, AppendProperties
<1>5. /\ tree' \in Tree /\ TreeShape(tree')
      /\ tree'.means = Cascade(longer.passes, c.base)
  BY <1>1, <1>3, <1>4, CascadeOfMeans DEF AllLiterals
<1>6. \A r \in Row : tree'.means[r] =
         IF Hits(longer.passes, r) = {} THEN c.base.means[r]
         ELSE longer.passes[First(Hits(longer.passes, r))].set.value
  BY <1>5 DEF Cascade
<1>7. ASSUME exact, NEW r \in Row
      PROVE  run'[r] = IF Hits(longer.passes, r) = {} THEN c.base.means[r]
                       ELSE longer.passes[First(Hits(longer.passes, r))].set.value
  <2>1. /\ run[r] = IF Hits(ps, r) = {} THEN c.base.means[r]
                    ELSE ps[First(Hits(ps, r))].set.value
        /\ \A i \in DOMAIN ps : ps[i].set.value # Null
    BY <1>2, <1>7 DEF FoldInv, ClassBInv, FirstWord
  <2>2. /\ c.base.means[r] = r.col
        /\ run'[r] = IF Matches(s.guard, r, run[r])
                     THEN ValueOf(s.set, r, run[r]) ELSE run[r]
    BY <1>1, <1>7, CollapseSelfFacts
  <2>3. ValueOf(s.set, r, run[r]) = s.set.value
    BY <1>1 DEF ValueOf
  <2>4. Hits(Append(ps, s), r) =
           IF Matches(s.guard, r, r.col) THEN Hits(ps, r) \cup {Len(ps) + 1}
           ELSE Hits(ps, r)
    BY HitsOfAppend
  <2>5. CASE Hits(ps, r) = {}
    <3>1. CASE Matches(s.guard, r, r.col)
      <4>1. Append(ps, s)[First(Hits(Append(ps, s), r))] = s
        BY <2>5, <3>1, FirstOfMore
      <4>. QED  BY <1>3, <2>1, <2>2, <2>3, <2>4, <2>5, <3>1, <4>1
    <3>2. CASE ~Matches(s.guard, r, r.col)
      BY <1>3, <2>1, <2>2, <2>4, <2>5, <3>2
    <3>. QED  BY <3>1, <3>2
  <2>6. CASE Hits(ps, r) # {}
    <3>1. /\ First(Hits(ps, r)) \in DOMAIN ps
          /\ First(Hits(Append(ps, s), r)) = First(Hits(ps, r))
          /\ Append(ps, s)[First(Hits(ps, r))] = ps[First(Hits(ps, r))]
      BY <2>6, FirstOfMore
    <3>2. run[r] # Null
      BY <2>1, <2>6, <3>1
    <3>3. ~Matches(s.guard, r, run[r])
      BY <1>1, <1>7, <3>2, FilledRow, StatementType
    <3>4. Hits(longer.passes, r) # {}
      BY <1>3, <2>4, <2>6
    <3>. QED  BY <1>3, <2>1, <2>2, <2>6, <3>1, <3>3, <3>4
  <2>. QED  BY <2>5, <2>6
<1>8. ClassBInv'
  <2>1. exact => FirstWord(selfChain)'
    BY <1>3, <1>7 DEF FirstWord
  <2>2. TreeShape(longer.base) /\ selfChain'.passes # <<>>
    BY <1>3, CollapseSelfFacts
  <2>. QED  BY <1>1, <1>3, <1>4, <2>1, <2>2 DEF ClassBInv
<1>9. ClassAInv'
  BY CollapseSelfFacts DEF ClassAInv
<1>10. \A r \in Row \ matched' : Quiet(r)'
  <2>1. SUFFICES ASSUME NEW r \in Row \ matched' PROVE Quiet(r)'
    OBVIOUS
  <2>2. /\ run'[r] = r.col /\ c.base.means[r] = r.col
        /\ Hits(longer.passes, r) = {}
    BY <1>3, CollapseSelfFacts
  <2>3. litChain'.class = "none"
    BY CollapseSelfFacts, NoChainType
  <2>. QED  BY <1>3, <1>6, <2>2, <2>3 DEF Quiet
<1>11. exact => \A r \in Row : tree'.means[r] = run'[r]
  BY <1>6, <1>7
<1>12. /\ selfChain' \in Chains /\ selfChain'.class \in {"none", "A", "B"}
       /\ litChain' \in Chains /\ litChain'.class \in {"none", "literal"}
       /\ NoReadsYet' /\ LiteralChainInv'
  BY CollapseSelfFacts, NoChainType
<1>. QED  BY <1>1, <1>5, <1>8, <1>9, <1>10, <1>11, <1>12, Assembled

\* A value that reads the column is inlined right where the tree is right; any
\* other value does not see what the column holds.
LEMMA SubstitutedIsRight ==
    ASSUME TypeOK, NEW s \in Statement, NEW r \in Row, tree.means[r] = run[r],
           s.set.form = "keep" => ValueInlined(tree), s.set.form # "self"
    PROVE  Substituted(s.set, tree)[r] = ValueOf(s.set, r, run[r])
<1>1. Substituted(s.set, tree)[r] = ValueOf(s.set, r, PriorValue(tree)[r])
  BY SubstitutedType DEF TypeOK
<1>2. s.set.form = "keep" => PriorValue(tree)[r] = run[r]
  BY DEF PriorValue
<1>. QED  BY <1>1, <1>2 DEF ValueOf

LEMMA NarrowStep ==
    ASSUME FoldInv, folded < MaxPasses, NEW s \in Statement, Narrow(s)
    PROVE  FoldInv'
<1> DEFINE exact == /\ faithful
                    /\ ~Reads(s.guard)
                    /\ s.set.form = "keep" => ValueInlined(tree)
           new == Substituted(s.set, tree)
           inner == [r \in Row |-> IF Raw(s.guard \ tree.shared)[r] THEN new[r]
                                   ELSE tree.then[r]]
           means == [r \in Row |-> IF Raw(tree.shared)[r] THEN inner[r]
                                   ELSE tree.els[r]]
<1>1. /\ TypeOK
      /\ exact \in BOOLEAN
      /\ Executed(s, exact)
      /\ s.set.form # "self"
      /\ tree.kind = "if" /\ tree.shared # {} /\ tree.shared \subseteq s.guard
      /\ tree' = [tree EXCEPT !.nullThen = FALSE, !.then = inner, !.means = means]
  BY DEF FoldInv, TypeOK, Narrow, Narrows, Guarded, Folds, Reads
<1>2. /\ LiteralChainInv' /\ ClassAInv' /\ ClassBInv'
      /\ selfChain' \in Chains /\ litChain' \in Chains
      /\ selfChain'.class = "none" /\ litChain'.class = "none"
      /\ NoneReads(litChain'.passes)
  BY ChainsEnd DEF Narrow
<1>3. /\ faithful' = exact
      /\ \A r \in Row : run'[r] = IF Matches(s.guard, r, run[r])
                                  THEN ValueOf(s.set, r, run[r]) ELSE run[r]
      /\ \A r \in Row \ matched' : r \notin matched /\ ~Matches(s.guard, r, run[r])
      /\ ~reads' => ~reads /\ ~Reads(s.guard) /\ s.set.form # "keep"
  BY <1>1, ExecutedFacts
<1>4. inner \in Meaning /\ means \in Meaning
  BY <1>1, SubstitutedType DEF TypeOK, Tree, Meaning
<1>5. /\ tree' \in Tree
      /\ tree'.kind = "if" /\ tree'.shared = tree.shared
      /\ tree'.then = inner /\ tree'.els = tree.els /\ tree'.means = means
  BY <1>1, <1>4 DEF TypeOK, Tree
<1>6. \A r \in Row : /\ Raw(tree.shared)[r] <=> Matches(tree.shared, r, r.col)
                     /\ Raw(s.guard \ tree.shared)[r] <=>
                           Matches(s.guard \ tree.shared, r, r.col)
  BY DEF Raw
<1>7. TreeShape(tree')
  BY <1>5, <1>6 DEF TreeShape
\* The shared conjuncts and the added ones are the guard as written.
<1>8. \A r \in Row : /\ Matches(s.guard, r, r.col) <=>
                           /\ Matches(tree.shared, r, r.col)
                           /\ Matches(s.guard \ tree.shared, r, r.col)
  BY <1>1 DEF Matches
<1>9. \A r \in Row : tree'.means[r] = IF Matches(s.guard, r, r.col) THEN new[r]
                                      ELSE tree.means[r]
  <2>1. SUFFICES ASSUME NEW r \in Row
                 PROVE  means[r] = IF Matches(s.guard, r, r.col) THEN new[r]
                                   ELSE tree.means[r]
    BY <1>5
  <2>2. tree.means[r] = IF Matches(tree.shared, r, r.col) THEN tree.then[r]
                        ELSE tree.els[r]
    BY <1>1 DEF FoldInv, TreeShape
  <2>3. means[r] = IF Matches(tree.shared, r, r.col)
                   THEN IF Matches(s.guard \ tree.shared, r, r.col) THEN new[r]
                        ELSE tree.then[r]
                   ELSE tree.els[r]
    BY <1>6
  <2>. QED  BY <1>8, <2>2, <2>3
<1>10. exact => \A r \in Row : tree'.means[r] = run'[r]
  <2>1. SUFFICES ASSUME exact, NEW r \in Row PROVE tree'.means[r] = run'[r]
    OBVIOUS
  <2>2. tree.means[r] = run[r]
    BY <2>1 DEF FoldInv, FaithfulFoldsExact
  <2>3. new[r] = ValueOf(s.set, r, run[r])
    BY <1>1, <2>1, <2>2, SubstitutedIsRight
  <2>4. Matches(s.guard, r, run[r]) <=> Matches(s.guard, r, r.col)
    BY <2>1, StatementType, BlindGuard
  <2>. QED  BY <1>3, <1>9, <2>2, <2>3, <2>4
<1>11. NoReadsYet'
  BY <1>2, <1>3 DEF FoldInv, NoReadsYet
<1>12. \A r \in Row \ matched' : Quiet(r)'
  <2>1. \A r \in Row \ matched' : /\ run'[r] = r.col
                                  /\ tree'.means[r] = r.col
    BY <1>3, <1>9 DEF FoldInv, Quiet
  <2>. QED  BY <1>2, <2>1 DEF Quiet
<1>. QED  BY <1>1, <1>2, <1>5, <1>7, <1>10, <1>11, <1>12, Assembled

LEMMA IndependentStep ==
    ASSUME FoldInv, folded < MaxPasses, NEW s \in Statement, Independent(s)
    PROVE  FoldInv'
<1> DEFINE new == Substituted(s.set, tree)
           isNull == NullLiteral(s.set)
<1>1. /\ TypeOK
      /\ faithful \in BOOLEAN
      /\ Executed(s, faithful)
      /\ ~Reads(s.guard)
      /\ s.set.form \in {"literal", "column"}
      /\ tree' = If(s.guard, Raw(s.guard), new, isNull, tree)
  BY StatementType DEF FoldInv, TypeOK, Independent, IsIndependent, Guarded, Folds
<1>2. /\ LiteralChainInv' /\ ClassAInv' /\ ClassBInv'
      /\ selfChain' \in Chains /\ litChain' \in Chains
      /\ selfChain'.class = "none" /\ litChain'.class = "none"
      /\ NoneReads(litChain'.passes)
  BY ChainsEnd DEF Independent
<1>3. /\ faithful' = faithful
      /\ \A r \in Row : run'[r] = IF Matches(s.guard, r, run[r])
                                  THEN ValueOf(s.set, r, run[r]) ELSE run[r]
      /\ \A r \in Row \ matched' : r \notin matched /\ ~Matches(s.guard, r, run[r])
      /\ ~reads' => ~reads
  BY <1>1, ExecutedFacts
<1>4. /\ s.guard \in SUBSET Atoms /\ new \in Meaning /\ tree \in Tree
      /\ isNull \in BOOLEAN
  BY <1>1, StatementType, SubstitutedType DEF TypeOK, NullLiteral
<1>5. \A r \in Row : Raw(s.guard)[r] <=> Matches(s.guard, r, r.col)
  BY DEF Raw
<1>6. /\ tree' \in Tree /\ TreeShape(tree')
      /\ \A r \in Row : tree'.means[r] = IF Matches(s.guard, r, r.col) THEN new[r]
                                         ELSE tree.means[r]
  <2> HIDE DEF new, isNull
  <2>1. TreeShape(tree')
    BY <1>1, <1>5, IfShape
  <2>2. /\ tree' \in Tree
        /\ \A r \in Row : tree'.means[r] = IF Raw(s.guard)[r] THEN new[r]
                                           ELSE tree.means[r]
    BY <1>1, <1>4, IfType
  <2>. QED  BY <1>5, <2>1, <2>2
<1>7. faithful => \A r \in Row : tree'.means[r] = run'[r]
  <2>1. SUFFICES ASSUME faithful, NEW r \in Row PROVE tree'.means[r] = run'[r]
    OBVIOUS
  <2>2. tree.means[r] = run[r]
    BY <2>1 DEF FoldInv, FaithfulFoldsExact
  <2>3. new[r] = ValueOf(s.set, r, run[r])
    BY <1>1, <2>2, SubstitutedIsRight
  <2>4. Matches(s.guard, r, run[r]) <=> Matches(s.guard, r, r.col)
    BY <1>1, StatementType, BlindGuard
  <2>. QED  BY <1>3, <1>6, <2>2, <2>3, <2>4
<1>8. NoReadsYet'
  BY <1>2, <1>3 DEF FoldInv, NoReadsYet
<1>9. \A r \in Row \ matched' : Quiet(r)'
  <2>1. \A r \in Row \ matched' : /\ run'[r] = r.col
                                  /\ tree'.means[r] = r.col
    BY <1>3, <1>6 DEF FoldInv, Quiet
  <2>. QED  BY <1>2, <2>1 DEF Quiet
<1>. QED  BY <1>1, <1>2, <1>6, <1>7, <1>8, <1>9, Assembled

\* The general rule: where the guard sees what the column holds, the new tree
\* is what the statement does; an unmatched row keeps its value in any case.
LEMMA LayerStep ==
    ASSUME FoldInv, folded < MaxPasses, NEW s \in Statement, Layer(s)
    PROVE  FoldInv'
<1> DEFINE exact == /\ faithful
                    /\ Reads(s.guard) => GuardInlined(tree)
                    /\ s.set.form = "keep" => ValueInlined(tree)
           new == Substituted(s.set, tree)
           isNull == NullLiteral(s.set)
           asWritten == ~Reads(s.guard) \/ ~GuardInlined(tree) \/ tree.kind = "self"
           shared == IF asWritten THEN s.guard ELSE {}
           cond == [r \in Row |-> Matches(s.guard, r, PriorInGuard(tree)[r])]
           e == IF tree.kind = "literal" /\ Reads(s.guard) THEN SelfRef ELSE tree
           k == Shape(s)
<1>1. /\ TypeOK
      /\ exact \in BOOLEAN
      /\ Executed(s, exact)
      /\ s.set.form \in {"literal", "column", "keep"}
      /\ tree' = If(shared, cond, new, isNull, e)
      /\ selfChain' = IF k = "none" THEN NoChain ELSE ChainOf(k, s, tree)
      /\ litChain' = IF s.set.form = "literal" THEN ChainOf("literal", s, tree)
                     ELSE NoChain
  BY StatementType DEF FoldInv, TypeOK, Layer, Guarded, Folds, Reads
<1>2. /\ faithful' = exact
      /\ \A r \in Row : run'[r] = IF Matches(s.guard, r, run[r])
                                  THEN ValueOf(s.set, r, run[r]) ELSE run[r]
      /\ \A r \in Row \ matched' : r \notin matched /\ ~Matches(s.guard, r, run[r])
      /\ ~reads' => ~reads /\ ~Reads(s.guard) /\ s.set.form # "keep"
  BY <1>1, ExecutedFacts
<1>3. /\ s.guard \in SUBSET Atoms /\ new \in Meaning /\ tree \in Tree
      /\ shared \in SUBSET Atoms
      /\ isNull \in BOOLEAN
      /\ e \in Tree
  BY <1>1, StatementType, SubstitutedType, SelfRefType DEF TypeOK, NullLiteral
<1>4. TreeShape(tree)
  BY DEF FoldInv
\* A condition kept as written reads the column before the procedure.
<1>5. ASSUME asWritten, NEW r \in Row
      PROVE  cond[r] <=> Matches(s.guard, r, r.col)
  <2>1. CASE ~Reads(s.guard)
    BY <1>3, <2>1, BlindGuard
  <2>2. CASE ~GuardInlined(tree) \/ tree.kind = "self"
    <3>1. PriorInGuard(tree)[r] = r.col
      BY <1>4, <2>2 DEF PriorInGuard, Own, TreeShape
    <3>. QED  BY <3>1
  <2>. QED  BY <1>5, <2>1, <2>2
<1>6. shared = {} \/ \A r \in Row : cond[r] <=> Matches(shared, r, r.col)
  BY <1>5
<1>7. \A r \in Row : cond[r] <=> Matches(s.guard, r, PriorInGuard(tree)[r])
  OBVIOUS
<1>8. /\ tree' \in Tree /\ TreeShape(tree')
      /\ \A r \in Row : tree'.means[r] =
            IF Matches(s.guard, r, PriorInGuard(tree)[r]) THEN new[r] ELSE e.means[r]
  <2> HIDE DEF shared, cond, new, isNull, e
  <2>1. TreeShape(tree')
    BY <1>1, <1>6, IfShape
  <2>2. /\ tree' \in Tree
        /\ \A r \in Row : tree'.means[r] = IF cond[r] THEN new[r] ELSE e.means[r]
    BY <1>1, <1>3, IfType
  <2>. QED  BY <1>7, <2>1, <2>2
<1>9. ASSUME exact, NEW r \in Row
      PROVE  /\ tree.means[r] = run[r]
             /\ tree'.means[r] = run'[r]
  <2>1. tree.means[r] = run[r]
    BY <1>9 DEF FoldInv, FaithfulFoldsExact
  <2>2. new[r] = ValueOf(s.set, r, run[r])
    BY <1>1, <1>9, <2>1, SubstitutedIsRight
  <2>3. e.means[r] = run[r]
    BY <1>9, <2>1 DEF GuardInlined
  <2>4. Matches(s.guard, r, PriorInGuard(tree)[r]) <=> Matches(s.guard, r, run[r])
    <3>1. CASE Reads(s.guard)
      BY <1>9, <2>1, <3>1 DEF PriorInGuard
    <3>2. CASE ~Reads(s.guard)
      BY <1>3, <3>2, BlindGuard
    <3>. QED  BY <3>1, <3>2
  <2>. QED  BY <1>2, <1>8, <2>1, <2>2, <2>3, <2>4
\* What is said of a chain of one statement over the tree.
<1>10. ASSUME exact, tree.kind = "self" \/ ~Reads(s.guard), NEW r \in Row
       PROVE  run'[r] = IF Matches(s.guard, r, r.col) THEN ValueOf(s.set, r, run[r])
                        ELSE tree.means[r]
  <2>1. tree.means[r] = run[r]
    BY <1>9, <1>10
  <2>2. Matches(s.guard, r, run[r]) <=> Matches(s.guard, r, r.col)
    <3>1. CASE tree.kind = "self"
      <4>1. run[r] = r.col
        BY <1>4, <2>1, <3>1 DEF TreeShape, Own
      <4>. QED  BY <4>1
    <3>2. CASE ~Reads(s.guard)
      BY <1>3, <3>2, BlindGuard
    <3>. QED  BY <1>10, <3>1, <3>2
  <2>. QED  BY <1>2, <2>1, <2>2
<1>11. \A c \in {"A", "B", "literal"} :
          LET one == ChainOf(c, s, tree) IN
          /\ one \in Chains /\ one.class = c /\ one.base = tree
          /\ one.passes = <<s>>
  BY <1>3, HitsOfOne DEF ChainOf, Chains
<1>12. /\ k \in {"none", "A", "B"}
       /\ k # "none" => Reads(s.guard)
       /\ k = "B" => s.set.form = "literal" /\ s.set.value # Null
  BY DEF Shape
<1>13. /\ selfChain' \in Chains /\ selfChain'.class = k
       /\ k # "none" => selfChain'.base = tree /\ selfChain'.passes = <<s>>
       /\ litChain' \in Chains
       /\ litChain'.class = IF s.set.form = "literal" THEN "literal" ELSE "none"
       /\ litChain'.class = "literal" =>
             litChain'.base = tree /\ litChain'.passes = <<s>>
       /\ litChain'.class # "literal" => NoneReads(litChain'.passes)
  BY <1>1, <1>11, <1>12, NoChainType
<1>14. LiteralChainInv'
  <2>1. ASSUME s.set.form = "literal", exact, NEW r \in Row,
               tree.kind = "self" \/ ~Reads(s.guard)
        PROVE  run'[r] = IF Matches(s.guard, r, r.col) THEN s.set.value
                         ELSE tree.means[r]
    BY <1>10, <2>1 DEF ValueOf
  <2>2. ASSUME s.set.form = "literal", exact,
               tree.kind = "self" \/ NoneReads(<<s>>)
        PROVE  SameWord(litChain)'
    <3>1. tree.kind = "self" \/ ~Reads(s.guard)
      BY <2>2, HitsOfOne DEF NoneReads
    <3>. QED  BY <1>13, <2>1, <2>2, <3>1, HitsOfOne DEF SameWord
  <2>3. s.set.form = "literal" => AllLiterals(<<s>>)
    BY HitsOfOne DEF AllLiterals
  <2>. QED  BY <1>2, <1>4, <1>13, <2>2, <2>3 DEF LiteralChainInv
<1>15. ClassAInv'
  <2>1. ASSUME k = "A", exact, tree.kind = "self", NEW r \in Row
        PROVE  /\ Hits(<<s>>, r) = {} => run'[r] = tree.means[r]
               /\ \A i \in Hits(<<s>>, r) :
                     <<s>>[i].set.form = "literal" => run'[r] = <<s>>[i].set.value
    BY <1>10, <2>1, HitsOfOne DEF ValueOf
  <2>. QED  BY <1>2, <1>4, <1>13, <2>1 DEF ClassAInv, SameWord
<1>16. ClassBInv'
  <2>1. ASSUME k = "B", exact, tree.kind = "self", NEW r \in Row
        PROVE  run'[r] = IF Hits(<<s>>, r) = {} THEN tree.means[r]
                         ELSE <<s>>[First(Hits(<<s>>, r))].set.value
    <3>1. First({1}) = 1
      BY FirstIsUnique
    <3>2. run'[r] = IF Matches(s.guard, r, r.col) THEN s.set.value ELSE tree.means[r]
      BY <1>10, <1>12, <2>1 DEF ValueOf
    <3>. QED  BY <3>1, <3>2, HitsOfOne
  <2>2. k = "B" => /\ <<s>> # <<>>
                   /\ \A i \in DOMAIN <<s>> : /\ <<s>>[i].set.form = "literal"
                                              /\ <<s>>[i].set.value # Null
    BY <1>12, HitsOfOne
  <2>. QED  BY <1>2, <1>4, <1>13, <2>1, <2>2 DEF ClassBInv, FirstWord
<1>17. NoReadsYet'
  <2>1. ASSUME ~reads' PROVE faithful' /\ k = "none" /\ NoneReads(litChain'.passes)
    <3>1. ~reads /\ ~Reads(s.guard) /\ s.set.form # "keep"
      BY <1>2, <2>1
    <3>2. NoneReads(<<s>>)
      BY <3>1, HitsOfOne DEF NoneReads
    <3>. QED  BY <1>2, <1>12, <1>13, <3>1, <3>2 DEF FoldInv, NoReadsYet
  <2>. QED  BY <1>13, <2>1 DEF NoReadsYet
<1>18. \A r \in Row \ matched' : Quiet(r)'
  <2>1. SUFFICES ASSUME NEW r \in Row \ matched' PROVE Quiet(r)'
    OBVIOUS
  <2>2. /\ run[r] = r.col /\ tree.means[r] = r.col
        /\ ~Matches(s.guard, r, r.col)
    BY <1>2, <2>1 DEF FoldInv, Quiet
  <2>3. PriorInGuard(tree)[r] = r.col /\ e.means[r] = r.col
    BY <2>2 DEF PriorInGuard, Own, SelfRef, Leaf
  <2>4. run'[r] = r.col /\ tree'.means[r] = r.col
    BY <1>2, <1>8, <2>2, <2>3
  <2>5. Hits(<<s>>, r) = {}
    BY <2>2, HitsOfOne
  <2>. QED  BY <1>13, <2>2, <2>4, <2>5 DEF Quiet
<1>19. /\ exact => \A r \in Row : tree'.means[r] = run'[r]
       /\ selfChain'.class \in {"none", "A", "B"}
       /\ litChain'.class \in {"none", "literal"}
  BY <1>9, <1>12, <1>13
<1>. QED  BY <1>1, <1>8, <1>13, <1>14, <1>15, <1>16, <1>17, <1>18, <1>19, Assembled

-----------------------------------------------------------------------------
LEMMA FoldInit == Init => FoldInv
<1> SUFFICES ASSUME Init PROVE FoldInv
  OBVIOUS
<1>1. /\ SelfRef \in Tree /\ TreeShape(SelfRef) /\ SelfRef.means = Own
      /\ Own \in Meaning /\ \A r \in Row : Own[r] = r.col
  BY SelfRefType, PriorType DEF SelfRef, Leaf
<1>2. TypeOK
  <2>1. folded \in 0 .. MaxPasses /\ matched \subseteq Row
    BY BoundAssumption DEF Init
  <2>2. /\ selfChain \in Chains /\ selfChain.class \in {"none", "A", "B"}
        /\ litChain \in Chains /\ litChain.class \in {"none", "literal"}
    BY NoChainType DEF Init
  <2>3. tree \in Tree /\ run \in Meaning /\ reads \in BOOLEAN /\ faithful \in BOOLEAN
    BY <1>1 DEF Init
  <2>. QED  BY <2>1, <2>2, <2>3 DEF TypeOK
<1>3. /\ LiteralChainInv /\ ClassAInv /\ ClassBInv /\ NoReadsYet
  BY NoChainType DEF Init, LiteralChainInv, ClassAInv, ClassBInv, NoReadsYet
<1>4. FaithfulFoldsExact /\ \A r \in Row \ matched : Quiet(r)
  BY <1>1, NoChainType DEF Init, FaithfulFoldsExact, Quiet
<1>. QED  BY <1>1, <1>2, <1>3, <1>4 DEF Init, FoldInv

LEMMA FoldStep == FoldInv /\ [Next]_vars => FoldInv'
<1> SUFFICES ASSUME FoldInv, [Next]_vars PROVE FoldInv'
  OBVIOUS
<1>1. ASSUME NEW s \in Statement, folded < MaxPasses, Pass(s)
      PROVE  FoldInv'
  <2>1. CASE Skip(s)  BY <1>1, <2>1, SkipStep
  <2>2. CASE Reset(s)  BY <1>1, <2>2, ResetStep
  <2>3. CASE CollapseSelf(s)
    <3>1. selfChain.class = "A" \/ selfChain.class = "B"
      BY <2>3 DEF CollapseSelf, CollapsesSelf
    <3>. QED  BY <1>1, <2>3, <3>1, CollapseAStep, CollapseBStep
  <2>4. CASE CollapseLiteral(s)  BY <1>1, <2>4, CollapseLiteralStep
  <2>5. CASE Narrow(s)  BY <1>1, <2>5, NarrowStep
  <2>6. CASE Independent(s)  BY <1>1, <2>6, IndependentStep
  <2>7. CASE Layer(s)  BY <1>1, <2>7, LayerStep
  <2>. QED  BY <1>1, <2>1, <2>2, <2>3, <2>4, <2>5, <2>6, <2>7 DEF Pass
<1>2. CASE UNCHANGED vars
  BY <1>2 DEF vars, fold, FoldInv, TypeOK, LiteralChainInv, ClassAInv, ClassBInv,
              SameWord, FirstWord, NoReadsYet, FaithfulFoldsExact, Quiet
<1>. QED  BY <1>1, <1>2 DEF Next

\* The inductive invariant: what the chains hold agrees with what the folded
\* statements do, wherever the fold is faithful.
THEOREM FoldInvariant == Spec => []FoldInv
BY FoldInit, FoldStep, PTL DEF Spec

\* A row that no statement matched keeps its value in the formula, for any
\* statements and any mixture of folding rules.
THEOREM UnmatchedKept == Spec => []UnmatchedRowsKeep
<1>1. FoldInv => UnmatchedRowsKeep
  BY DEF FoldInv, UnmatchedRowsKeep, Quiet
<1>. QED  BY <1>1, FoldInvariant, PTL

\* The formula of statements that neither read the column nor are left out is
\* what running them leaves, on every row.
THEOREM PlainExact == Spec => []PlainPassesExact
<1>1. FoldInv => PlainPassesExact
  BY DEF FoldInv, PlainPassesExact, NoReadsYet, FaithfulFoldsExact
<1>. QED  BY <1>1, FoldInvariant, PTL

\* So is that of statements that read the column, as long as every rule had
\* what it needs.
THEOREM FaithfulExact == Spec => []FaithfulFoldsExact
<1>1. FoldInv => FaithfulFoldsExact
  BY DEF FoldInv
<1>. QED  BY <1>1, FoldInvariant, PTL
=============================================================================
