------------------------------ MODULE ExprTree ------------------------------
(***************************************************************************)
(* Expression trees as a whole: walking them, their conditions and chains  *)
(* as sequences, the signatures the passes compare, and their value on a   *)
(* row.  The signature of a node (its dictionary without "_" metadata) is  *)
(* the node itself once the position tags are gone.                        *)
(***************************************************************************)
EXTENDS ExprRules, SequencesExt

-----------------------------------------------------------------------------
(* Walking a tree.                                                         *)

RECURSIVE Subtrees(_)
Subtrees(n) == <<n>> \o FlattenSeq([i \in DOMAIN n.a |-> Subtrees(n.a[i])])

RECURSIVE Depth(_)
Depth(n) == 1 + Max({0} \cup {Depth(c) : c \in Range(n.a)})

Size(n) == Len(Subtrees(n))

Mentions(n, sub) == Contains(Subtrees(n), sub)

RECURSIVE Untag(_)
Untag(n) == [k |-> n.k, v |-> n.v, n |-> IF IsIf(n) THEN 0 ELSE n.n,
             a |-> [i \in DOMAIN n.a |-> Untag(n.a[i])]]

-----------------------------------------------------------------------------
(* AND and OR trees, and ELSEIF chains, as sequences.                      *)

RECURSIVE FlattenLogical(_, _)
FlattenLogical(n, o) ==
    IF IsOp(n, o) THEN FlattenLogical(n.a[1], o) \o FlattenLogical(n.a[2], o)
                  ELSE <<n>>

FlattenOr(n) == FlattenLogical(n, "OR")
FlattenAnd(n) == FlattenLogical(n, "AND")

Rebuild(o, parts) == FoldLeft(LAMBDA acc, p : Op(o, acc, p), Head(parts), Tail(parts))
RebuildOr(parts) == IF parts = <<>> THEN Null ELSE Rebuild("OR", parts)

(* Mutant: the last conjunct first.                                        *)
MutRebuildAnd(parts) == IF parts = <<>> THEN Bool(TRUE) ELSE Rebuild("AND", Reverse(parts))

RebuildAnd(parts) == IF parts = <<>> THEN Bool(TRUE) ELSE Rebuild("AND", parts)

(* The arms of an IF ... ELSEIF chain, and the value of its last ELSE.     *)
RECURSIVE ChainArms(_)
ChainArms(n) ==
    IF IsIf(n) THEN <<[cond |-> CondOf(n), then |-> ThenOf(n)]>> \o ChainArms(ElseOf(n))
               ELSE <<>>

RECURSIVE ChainDefault(_)
ChainDefault(n) == IF IsIf(n) THEN ChainDefault(ElseOf(n))
                   ELSE IF n = Absent THEN Null ELSE n

RebuildChain(arms, default) ==
    FoldRight(LAMBDA arm, acc : If(arm.cond, arm.then, acc), arms, default)

(* The elements of a sequence, each at its first occurrence.               *)
Distinct(s) == FoldLeft(LAMBDA acc, x : IF Contains(acc, x) THEN acc ELSE Append(acc, x),
                        <<>>, s)

-----------------------------------------------------------------------------
(* Signatures of guards: the conjuncts of a guard form a bag.               *)

RECURSIVE NormalizeGuard(_)
NormalizeGuard(n) == NormalizeGuardAt(NormalizeGuard, n)

GuardSignature(n) == BagOf(FlattenAnd(NormalizeGuard(n)))

-----------------------------------------------------------------------------
(* What a tree means on a row: the value of each column, NullValue for     *)
(* NULL.  A condition holds when its value is that of TRUE.                *)

RECURSIVE Value(_, _)
Value(n, row) == 
    ValueOf(n, row, Value(n.a[1], row), Value(n.a[2], row), Value(n.a[3], row))

Holds(n, row) == Value(n, row) = 1

SameOn(rows, x, y) == \A row \in rows : Value(x, row) = Value(y, row)
=============================================================================
