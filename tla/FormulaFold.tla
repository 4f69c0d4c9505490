---------------------------- MODULE FormulaFold ----------------------------
(***************************************************************************)
(* The fold that turns the UPDATEs of one column into one formula          *)
(* (derivation/v2/phase3_ast_generator.py, build_ast_from_mutations).      *)
(*                                                                         *)
(* The fold takes the statements in source order and keeps a tree, which   *)
(* the formula is printed from.  A statement is folded by the first rule   *)
(* that applies; the rules look at the shape of the tree and at the run of *)
(* statements before it, not at what the tree means.  The model keeps of a *)
(* tree the shape the rules look at and its value on every row of the      *)
(* table, and runs the statements on the same rows as the database would,  *)
(* so that the two can be compared after every statement.                  *)
(*                                                                         *)
(* Left out: additive updates, caps and floors on totals, procedural IF    *)
(* branches, the rules for columns of particular names, and the passes     *)
(* over the finished tree.                                                 *)
(***************************************************************************)
EXTENDS Integers, Sequences

CONSTANTS
    Values,     \* what a column holds
    Null,       \* the value that ISEMPTY finds; the literal NULL
    Preds,      \* predicates over other columns
    Guards,     \* WHERE clauses, each the set of its conjuncts
    MaxPasses   \* bound: statements that write the column

\* A conjunct tests a predicate of the row, or compares the column itself with
\* a value; "is Null" is the ISEMPTY of the code.
Atoms == ({"pred"} \X Preds) \cup ({"is"} \X Values)

ASSUME ValuesAssumption == Null \in Values
ASSUME GuardsAssumption == Guards \subseteq SUBSET Atoms
ASSUME BoundAssumption == MaxPasses \in Nat

\* A row: the column before the procedure ran, what another table offers for
\* it, and the predicates that hold.
Row == [col : Values, other : Values, holds : SUBSET Preds]
Meaning == [Row -> Values]

\* What a statement assigns: a literal, a column of another table, the column
\* itself, "CASE WHEN p THEN literal ELSE col", or the result of a subquery
\* that no entity of the platform stands for.
Literal == [form : {"literal"}, value : Values]
Keep == [form : {"keep"}, value : Values, when : Preds]
Assigned == Literal \cup Keep \cup [form : {"column", "self", "lookup"}]
Statement == [guard : Guards, set : Assigned]

Reads(g) == \E a \in g : a[1] = "is"
ReadsOnlyIsEmpty(g) == \A a \in g : a[1] = "is" => a[2] = Null

\* Guard g and value e on row r where the column holds v.
Matches(g, r, v) ==
    \A a \in g : IF a[1] = "pred" THEN a[2] \in r.holds ELSE a[2] = v
ValueOf(e, r, v) ==
    IF e.form = "literal" \/ (e.form = "keep" /\ e.when \in r.holds) THEN e.value
    ELSE IF e.form \in {"keep", "self"} THEN v
    ELSE r.other

-----------------------------------------------------------------------------
(* Trees. "shared" is the condition of an IF when every conjunct of it is   *)
(* as a statement wrote it, and empty otherwise; "depth" counts the IFs     *)
(* along the ELSE branches.                                                 *)

Own == [r \in Row |-> r.col]
Tree == [kind : {"self", "literal", "column", "if"}, depth : Nat,
         nullThen : BOOLEAN, shared : SUBSET Atoms,
         then : Meaning, els : Meaning, means : Meaning]

Leaf(k, m) == [kind |-> k, depth |-> 0, nullThen |-> FALSE, shared |-> {},
               then |-> m, els |-> m, means |-> m]

SelfRef == Leaf("self", Own)

\* IF cond THEN then ELSE tree e; isNull says that "then" is the literal NULL.
If(shared, cond, then, isNull, e) ==
    [kind |-> "if", depth |-> 1 + e.depth, nullThen |-> isNull,
     shared |-> shared, then |-> then, els |-> e.means,
     means |-> [r \in Row |-> IF cond[r] THEN then[r] ELSE e.means[r]]]

Raw(g) == [r \in Row |-> Matches(g, r, r.col)]
NullLiteral(e) == e.form = "literal" /\ e.value = Null

\* What a value, and what a guard, that reads the column gets in its place:
\* the tree so far, or the column itself again.
ValueInlined(t) == t.kind # "literal" /\ ~t.nullThen /\ t.depth < 2
GuardInlined(t) == t.kind # "literal" /\ t.depth < 3
PriorValue(t) == IF ValueInlined(t) THEN t.means ELSE Own
PriorInGuard(t) == IF GuardInlined(t) THEN t.means ELSE Own

Substituted(e, t) == [r \in Row |-> ValueOf(e, r, PriorValue(t)[r])]

\* IF(p) THEN literal ELSE the tree so far, of a CASE without a WHERE clause.
WhenOf(e, t) ==
    LET p == {<<"pred", e.when>>} IN
    If(p, Raw(p), [r \in Row |-> e.value], e.value = Null,
       IF ValueInlined(t) THEN t ELSE SelfRef)

-----------------------------------------------------------------------------
(* Chains: runs of statements that are folded flat, over the tree as it was *)
(* before the first of them.                                                *)

Chains == [class : {"none", "A", "B", "literal"}, passes : Seq(Statement),
           base : Tree]
NoChain == [class |-> "none", passes |-> <<>>, base |-> SelfRef]
ChainOf(c, s, t) == [class |-> c, passes |-> <<s>>, base |-> t]
Extended(c, s) == [c EXCEPT !.passes = Append(c.passes, s)]

\* The class of a chain that statement s may start.
Shape(s) ==
    IF ~Reads(s.guard) \/ s.set.form = "keep" THEN "none"
    ELSE IF /\ ReadsOnlyIsEmpty(s.guard)
            /\ s.set.form = "literal"
            /\ s.set.value # Null
         THEN "B"
         ELSE "A"

AllSet(passes, e) == \A i \in DOMAIN passes : passes[i].set = e

\* The passes of a chain whose guard, as written, holds on row r.
Hits(passes, r) == {i \in DOMAIN passes : Matches(passes[i].guard, r, r.col)}
First(hits) == CHOOSE i \in hits : \A j \in hits : i <= j
Cascade(passes, base) ==
    [r \in Row |-> IF Hits(passes, r) = {} THEN base.means[r]
                   ELSE passes[First(Hits(passes, r))].set.value]

\* IF(guard OR guard OR ...) THEN literal ELSE base.
OrOf(c, e) ==
    If({}, [r \in Row |-> Hits(c.passes, r) # {}],
       [r \in Row |-> e.value], NullLiteral(e), c.base)

\* IF(guard 1) THEN literal 1 ELSEIF(guard 2) ... ELSE base.
CascadeOf(c) ==
    [kind |-> "if", depth |-> Len(c.passes) + c.base.depth,
     nullThen |-> NullLiteral(c.passes[1].set), shared |-> c.passes[1].guard,
     then |-> [r \in Row |-> c.passes[1].set.value],
     els |-> Cascade(Tail(c.passes), c.base),
     means |-> Cascade(c.passes, c.base)]

-----------------------------------------------------------------------------
VARIABLES
    tree,       \* ast: what the statements so far are folded into
    selfChain,  \* self_ref_chain: passes that read the column, class A or B
    litChain,   \* literal_chain: passes that write the same literal
    folded,     \* statements folded
    (* What the statements do, for the properties. *)
    run,        \* the column on every row after the statements so far
    matched,    \* rows that some statement has matched
    reads,      \* some statement has read the column or was left out
    faithful    \* every rule since the last reset had what it needs to be exact

fold == <<tree, selfChain, litChain>>
vars == <<fold, folded, run, matched, reads, faithful>>

TypeOK ==
    /\ tree \in Tree
    /\ selfChain \in Chains
    /\ selfChain.class \in {"none", "A", "B"}
    /\ litChain \in Chains
    /\ litChain.class \in {"none", "literal"}
    /\ folded \in 0 .. MaxPasses
    /\ run \in Meaning
    /\ matched \subseteq Row
    /\ reads \in BOOLEAN
    /\ faithful \in BOOLEAN

Init ==
    /\ tree = SelfRef
    /\ selfChain = NoChain
    /\ litChain = NoChain
    /\ folded = 0
    /\ run = Own
    /\ matched = {}
    /\ reads = FALSE
    /\ faithful = TRUE

\* What the database does with statement s, and what is said of its folding.
Executed(s, exact) ==
    LET hit == {r \in Row : Matches(s.guard, r, run[r])} IN
    /\ folded' = folded + 1
    /\ run' = [r \in Row |-> IF r \in hit THEN ValueOf(s.set, r, run[r])
                             ELSE run[r]]
    /\ matched' = matched \cup hit
    /\ reads' = (reads \/ Reads(s.guard) \/ s.set.form \in {"keep", "lookup"})
    /\ faithful' = exact

-----------------------------------------------------------------------------
(* The rules, in the order the code tries them. *)

\* NULL counts as a value that fills a row.
MutCollapsesSelf(s) ==
    \/ /\ selfChain.class = "A"
       /\ s.set.form = "literal"
       /\ Reads(s.guard)
       /\ AllSet(selfChain.passes, s.set)
    \/ /\ selfChain.class = "B"
       /\ ReadsOnlyIsEmpty(s.guard)
       /\ s.set.form = "literal"

CollapsesSelf(s) ==
    \/ /\ selfChain.class = "A"
       /\ s.set.form = "literal"
       /\ Reads(s.guard)
       /\ AllSet(selfChain.passes, s.set)
    \/ /\ selfChain.class = "B"
       /\ ReadsOnlyIsEmpty(s.guard)
       /\ s.set.form = "literal"
       /\ s.set.value # Null

\* Any literal goes on the chain.
MutCollapsesLiteral(s) ==
    /\ litChain.class = "literal"
    /\ s.set.form = "literal"

CollapsesLiteral(s) ==
    /\ litChain.class = "literal"
    /\ s.set.form = "literal"
    /\ AllSet(litChain.passes, s.set)
Narrows(s) ==
    /\ tree.kind = "if"
    /\ tree.shared # {}
    /\ tree.shared \subseteq s.guard
    /\ tree.shared # s.guard
IsIndependent(s) ==
    /\ ~Reads(s.guard)
    /\ s.set.form # "keep"
    /\ tree.kind # "if"

Folds(s) == s.set.form \notin {"lookup", "self"}
Guarded(s) == Folds(s) /\ s.guard # {}

\* A value of an unresolved subquery is left out, with a note; SET col = col
\* is passed over.  Neither ends a chain.
Skip(s) ==
    /\ ~Folds(s)
    /\ Executed(s, faithful /\ s.set.form = "self")
    /\ UNCHANGED fold

\* Without a WHERE clause the assigned value becomes the tree.
Reset(s) ==
    /\ Folds(s)
    /\ s.guard = {}
    /\ tree' = IF s.set.form = "literal"
               THEN Leaf("literal", Substituted(s.set, tree))
               ELSE IF s.set.form = "column"
               THEN Leaf("column", Substituted(s.set, tree))
               ELSE WhenOf(s.set, tree)
    /\ selfChain' = NoChain
    /\ litChain' = NoChain
    /\ Executed(s, s.set.form = "keep" => faithful /\ ValueInlined(tree))

CollapseSelf(s) ==
    LET longer == Extended(selfChain, s) IN
    /\ Guarded(s)
    /\ CollapsesSelf(s)
    /\ tree' = IF selfChain.class = "A" THEN OrOf(longer, s.set)
               ELSE CascadeOf(longer)
    /\ selfChain' = longer
    /\ litChain' = NoChain
    /\ Executed(s, /\ faithful
                   /\ selfChain.base.kind = "self"
                   /\ Reads(s.guard))

CollapseLiteral(s) ==
    LET longer == Extended(litChain, s) IN
    /\ Guarded(s)
    /\ ~CollapsesSelf(s)
    /\ CollapsesLiteral(s)
    /\ tree' = OrOf(longer, s.set)
    /\ selfChain' = NoChain
    /\ litChain' = longer
    /\ Executed(s, /\ faithful
                   /\ \/ litChain.base.kind = "self"
                      \/ \A i \in DOMAIN longer.passes :
                            ~Reads(longer.passes[i].guard))

\* Only the conjuncts that the tree's condition lacks are added, inside it.
Narrow(s) ==
    LET inner == [r \in Row |-> IF Raw(s.guard \ tree.shared)[r]
                                THEN Substituted(s.set, tree)[r]
                                ELSE tree.then[r]] IN
    /\ Guarded(s)
    /\ ~CollapsesSelf(s)
    /\ ~CollapsesLiteral(s)
    /\ Narrows(s)
    /\ tree' = [tree EXCEPT !.nullThen = FALSE,
                  !.then = inner,
                  !.means = [r \in Row |-> IF Raw(tree.shared)[r] THEN inner[r]
                                           ELSE tree.els[r]]]
    /\ selfChain' = NoChain
    /\ litChain' = NoChain
    /\ Executed(s, /\ faithful
                   /\ ~Reads(s.guard)
                   /\ s.set.form = "keep" => ValueInlined(tree))

Independent(s) ==
    /\ Guarded(s)
    /\ ~CollapsesSelf(s)
    /\ ~CollapsesLiteral(s)
    /\ ~Narrows(s)
    /\ IsIndependent(s)
    /\ tree' = If(s.guard, Raw(s.guard), Substituted(s.set, tree),
                  NullLiteral(s.set), tree)
    /\ selfChain' = NoChain
    /\ litChain' = NoChain
    /\ Executed(s, faithful)

\* The general rule: reads of the column become the tree so far, where it is
\* not too deep, and the statement becomes an IF over it.
Layer(s) ==
    LET asWritten == ~Reads(s.guard) \/ ~GuardInlined(tree) \/ tree.kind = "self"
        c == Shape(s) IN
    /\ Guarded(s)
    /\ ~CollapsesSelf(s)
    /\ ~CollapsesLiteral(s)
    /\ ~Narrows(s)
    /\ ~IsIndependent(s)
    /\ tree' = If(IF asWritten THEN s.guard ELSE {},
                  [r \in Row |-> Matches(s.guard, r, PriorInGuard(tree)[r])],
                  Substituted(s.set, tree), NullLiteral(s.set),
                  IF tree.kind = "literal" /\ Reads(s.guard) THEN SelfRef
                  ELSE tree)
    /\ selfChain' = IF c = "none" THEN NoChain ELSE ChainOf(c, s, tree)
    /\ litChain' = IF s.set.form = "literal" THEN ChainOf("literal", s, tree)
                   ELSE NoChain
    /\ Executed(s, /\ faithful
                   /\ Reads(s.guard) => GuardInlined(tree)
                   /\ s.set.form = "keep" => ValueInlined(tree))

Pass(s) ==
    \/ Skip(s)
    \/ Reset(s)
    \/ CollapseSelf(s)
    \/ CollapseLiteral(s)
    \/ Narrow(s)
    \/ Independent(s)
    \/ Layer(s)

Next == folded < MaxPasses /\ \E s \in Statement : Pass(s)
Spec == Init /\ [][Next]_vars

-----------------------------------------------------------------------------
\* A row that no statement has matched keeps its value: the formula never
\* nulls out what the UPDATEs left alone, whatever rules folded them.
UnmatchedRowsKeep ==
    \A r \in Row \ matched : tree.means[r] = r.col

\* While no statement reads the column and none is left out, the formula is
\* what running the statements leaves, on every row, the later one winning.
PlainPassesExact ==
    ~reads => tree.means = run

\* Statements that read the column are folded exactly too, as long as the tree
\* was inlined where they read it and flat chains started on the bare column.
FaithfulFoldsExact ==
    faithful => tree.means = run
=============================================================================
