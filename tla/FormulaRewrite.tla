--------------------------- MODULE FormulaRewrite ---------------------------
(***************************************************************************)
(* The way of one column from the UPDATEs that write it to its printed     *)
(* formula: build_ast_from_mutations folds the statements into a tree,     *)
(* puts later arms on top, optimizes, enforces the length budget, prunes,  *)
(* optimizes and enforces the budget again; the compiler optimizes once    *)
(* more and prints.  Each statement and each optimizer pass is a step.     *)
(*                                                                         *)
(* An arm of a procedural IF is a formula of its own, built by a call of   *)
(* the same function; "caller" keeps the fold that waits for the arms.     *)
(***************************************************************************)
EXTENDS UpdateFold

CONSTANTS
    Sources,    \* sequences of the column's UPDATEs and procedural IFs
    Own,        \* the column itself
    Rows,       \* the rows a formula is read on: values of columns and names
    Caps        \* length limits of the grammar for a printed formula

VARIABLES
    source,     \* the statements
    cap,        \* the limit
    fold,       \* the fold of the statements before "pending"
    caller,     \* <<>>, or the fold that waits: <<[fold, pending, built]>>
    tree,       \* the formula, once folded
    pending,    \* statements still to fold, then optimizer passes still to run
    round,      \* the optimizer runs: after the fold, after pruning, to compile
    phase,      \* "fold", "order", "optimize", "budget", "prune", "arm", "print", "printed"
    cut         \* history: the budget had to shorten the formula

vars == <<source, cap, fold, caller, tree, pending, round, phase, cut>>

Init == /\ source \in Sources
        /\ cap \in Caps
        /\ fold = Started(Own)
        /\ caller = <<>>
        /\ tree = Col(Own)
        /\ pending = source
        /\ round = 1
        /\ phase = "fold"
        /\ cut = FALSE

FoldNext == /\ phase = "fold" /\ pending # <<>> /\ Head(pending).kind = "update"
            /\ fold' = FoldUpdate(fold, Head(pending), Own)
            /\ pending' = Tail(pending)
            /\ UNCHANGED <<source, cap, caller, tree, round, phase, cut>>

ArmsOf(call) == Head(call.pending).arms

(* The next arm of the procedural IF, from the column as it is in the row. *)
StartArm(call) == /\ caller' = <<call>>
                  /\ fold' = Started(Own)
                  /\ pending' = ArmsOf(call)[Len(call.built) + 1].updates
                  /\ round' = 1
                  /\ phase' = "fold"

EnterIf == /\ phase = "fold" /\ pending # <<>> /\ Head(pending).kind = "branches"
           /\ StartArm([fold |-> fold, pending |-> pending, built |-> <<>>])
           /\ UNCHANGED <<source, cap, tree, cut>>

ArmBuilt == /\ phase = "arm"
            /\ LET call == [caller[1] EXCEPT !.built = Append(@, tree)]
               IN  IF Len(call.built) < Len(ArmsOf(call))
                   THEN StartArm(call)
                   ELSE /\ fold' = FoldBranches(call.fold, ArmsOf(call), call.built, Own)
                        /\ pending' = Tail(call.pending)
                        /\ caller' = <<>>
                        /\ round' = 1
                        /\ phase' = "fold"
            /\ UNCHANGED <<source, cap, tree, cut>>

(* The clamps that were put off come last.                                 *)
FoldEnds == /\ phase = "fold" /\ pending = <<>>
            /\ tree' = ApplyClamps(fold)
            /\ fold' = Started(Own)
            /\ phase' = "order"
            /\ UNCHANGED <<source, cap, caller, pending, round, cut>>

(* optimize_expression_ast starts.                                         *)
Optimizing(n) == pending' = OptimizePasses /\ round' = n /\ phase' = "optimize"

(* enforce_later_update_precedence, before the optimizer runs it again.    *)
Order == /\ phase = "order"
         /\ tree' = EnforcePrecedence(tree)
         /\ Optimizing(1)
         /\ UNCHANGED <<source, cap, fold, caller, cut>>

RunPass == /\ phase = "optimize"
           /\ tree' = Pass(Head(pending), tree, Own)
           /\ pending' = Tail(pending)
           /\ phase' = IF Len(pending) > 1 THEN "optimize"
                       ELSE IF round < 3 THEN "budget" ELSE "print"
           /\ UNCHANGED <<source, cap, fold, caller, round, cut>>

(* The second time ends build_ast_from_mutations.                          *)
FitBudget == /\ phase = "budget"
             /\ tree' = EnforceBudget(tree, Own, cap)
             /\ \/ round = 1 /\ phase' = "prune" /\ UNCHANGED <<pending, round>>
                \/ round = 2 /\ caller # <<>> /\ phase' = "arm" /\ UNCHANGED <<pending, round>>
                \/ round = 2 /\ caller = <<>> /\ Optimizing(3)
             /\ cut' = (cut \/ Size(Optimize(tree, Own)) > cap)
             /\ UNCHANGED <<source, cap, fold, caller>>

Prune == /\ phase = "prune"
         /\ tree' = PruneRedundant(tree)
         /\ Optimizing(2)
         /\ UNCHANGED <<source, cap, fold, caller, cut>>

PrintOut == /\ phase = "print"
            /\ tree' = Compile(tree)
            /\ phase' = "printed"
            /\ UNCHANGED <<source, cap, fold, caller, pending, round, cut>>

Next == FoldNext \/ EnterIf \/ ArmBuilt \/ FoldEnds \/ Order \/ RunPass \/ FitBudget
        \/ Prune \/ PrintOut

Spec == Init /\ [][Next]_vars

-----------------------------------------------------------------------------
(* Properties.                                                             *)

FullRows == {row \in Rows : \A c \in DOMAIN row : row[c] # NullValue}

UpdatesOf(item) == IF item.kind = "update" THEN {item}
                   ELSE UNION {Range(arm.updates) : arm \in Range(item.arms)}
Updates == UNION {UpdatesOf(item) : item \in Range(source)}

ReadsOwn(n) == Mentions(n, Col(Own))

SameAsStatements == \A row \in FullRows : Value(tree, row) = Executed(source, row, Own)

(* A NULL in a value slot is taken for a missing ELSE.                     *)
SetsNoNull == \A u \in Updates : ~IsNull(u.value)

(* No statement reads the column it sets, sets it to NULL or to a value    *)
(* that another statement sets.                                            *)
Assignments ==
    /\ \A u \in Updates : ~ReadsOwn(u.guard) /\ ~ReadsOwn(u.value)
    /\ SetsNoNull
    /\ \A u, w \in Updates : u.value = w.value => u = w

(* Whatever the order and overlap of the guards, WHERE clauses and          *)
(* procedural IF arms alike, the printed formula is what running the        *)
(* statements one after the other leaves in the column: no pass between     *)
(* the fold and the printer lets an earlier assignment win over a later one. *)
AssignmentsAreExact ==
    phase = "printed" /\ ~cut /\ Assignments => SameAsStatements

IsIncrement(u) == u.kind = "update" /\ u.guard # Absent /\ ~ReadsOwn(u.guard) /\ IsOp(u.value, "+")
IsClamp(u) == /\ u.kind = "update" /\ u.guard.v \in {"<", ">"}
              /\ u.guard.a[1] = Col(Own) /\ u.value = u.guard.a[2]

(* A column that filtered UPDATEs add to and that at most a cap or a floor  *)
(* at the end limits: the formula adds every increment once, in spite of    *)
(* the passes that replace repeated parts by the column.                    *)
Total == \A i \in DOMAIN source :
            IsIncrement(source[i]) \/ (i = Len(source) /\ IsClamp(source[i]))
TotalsAreExact == phase = "printed" /\ ~cut /\ Total => SameAsStatements

Running(names) == phase = "optimize" /\ Head(pending) \in names

(* These passes keep the value of the formula on every row, NULLs included. *)
ExactPasses == {"CollapseCap", "StripCoalesce", "Distribute", "CollapseDegenerate",
                "NormalizeChain", "CompactGuards", "FoldBooleans"}

(* These do on rows without NULL (x = x is dropped from a guard, a join     *)
(* that finds 0 is told from none by COALESCE, MAX(x, 0) is 0 on NULL) when *)
(* no statement assigns NULL, which the passes take for a missing ELSE.     *)
NumericPasses == {"DedupeGuards", "JoinZeroDefaults", "NegativeClamps", "DropSameGuard",
                  "UnwrapGuards"}

(* No pass changes what the formula says except those that merge or order   *)
(* arms and share subtrees; pruning and the compiler's repairs do not.      *)
PassesKeepValue ==
    [][/\ Running(ExactPasses) => SameOn(Rows, tree, tree')
       /\ \/ SetsNoNull /\ Running(NumericPasses)
          \/ phase = "prune"
          \/ phase = "print"
          => SameOn(FullRows, tree, tree')]_vars

(* The compiler never meets a conditional value in a comparison: some pass  *)
(* has distributed every one of them, those a later pass made included.     *)
AlwaysPrints == phase = "printed" => ~Raises(tree)

(* Pruning keeps results under id() of the node it was given; a subtree it  *)
(* rebuilds is freed and the next may get its id.  The optimizer leaves at  *)
(* most one subtree to rebuild, so no second one can be mistaken for it.    *)
NothingToFlatten == phase = "prune" => Len(ToFlatten(tree)) <= 1

(* The formula is in normal form when it reaches the compiler, which        *)
(* optimizes again: what was validated is what is printed.                  *)
CompilerPrintsWhatItGets == [][Running(Range(OptimizePasses)) /\ round = 3 => tree' = tree]_vars

(* The grammar's limit holds for what is printed, although pruning and two  *)
(* more optimizations follow the first shortening.                          *)
Fits == phase = "printed" => Size(tree) <= cap
=============================================================================
