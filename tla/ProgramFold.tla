---------------------------- MODULE ProgramFold ----------------------------
(***************************************************************************)
(* The fold of whole procedures against what the procedures do: the passes *)
(* that MutationFold collects from the text, run one after the other, and  *)
(* the statements of the procedure, run on the same row.                   *)
(***************************************************************************)
EXTENDS MutationFold, SqlProgram

CONSTANT Rows       \* the rows to compare them on

(* A formula reads the row as the procedure leaves it, and the column      *)
(* itself as it was before.                                                *)
Folded(row) == Executed(updates, [After(program, row) EXCEPT !["s"] = row["s"]], "s")
Agrees(row) == LET end == After(program, row) IN end["here"] = 1 => Folded(row) = end["s"]

(* The passes handed to the fold give every row that is there at the end   *)
(* the value the procedure gives it in a run that does not fail, for the   *)
(* procedures checked: UPDATEs, MERGEs and INSERTs, with joins, temps, CTEs, *)
(* handlers, resets and IFs whose arms are blocks of UPDATEs or a reload   *)
(* (no MERGE, no IF and no single statement without BEGIN in an arm;       *)
(* fold_column_mutations).                                                 *)
PassesAreTheProgram ==
    stage = "done" /\ MainPasses(passes) # <<>> =>
        \A row \in Rows : row["fails"] = 0 => Agrees(row)

(* A column that only handlers write has the value of a run that fails: "A *)
(* column written only inside CATCH keeps that handler as its formula"     *)
(* (pipeline.py:237).                                                      *)
HandlerAlone ==
    stage = "done" /\ MainPasses(passes) = <<>> =>
        \A row \in Rows : row["fails"] = 1 => Agrees(row)

(* What the lineage says of a column of a temp, a column of a root table   *)
(* or the text of an UPDATE's checkpoint, is what the temp ends up with for *)
(* every row that is in it (build_lineage_map).                            *)
TempsKnowTheirHistory ==
    stage = "done" =>
        \A key \in {k \in Range(lineage.order) : IsTemp(k[1])} :
            LET ref == lineage.refs[key]
                tree == Parse(OwnNames(IF ref.derived = <<>> THEN Qualify(ref) ELSE ref.derived), FALSE)
                name == Temps[key[1]]
            IN  \A row \in Rows : LET end == After(program, row)
                                  IN  end[name \o ".k"] # NullValue => Value(tree, row) = end[name \o "." \o key[2]]

(* "Inside an IF/ELSE chain, even an UPDATE without WHERE is 'guarded' by  *)
(* mutual exclusion" (phase2_mutation_folder.py:716): what stands in an    *)
(* ELSE arm leaves the rows of a run that takes another arm alone.         *)
ElseArmsStayGuarded ==
    stage = "done" /\ (\E p \in Range(passes) : p.kind = "ELSE") =>
        \A row \in Rows : row["@p"] = 1 /\ row["fails"] = 0 => Agrees(row)
=============================================================================
