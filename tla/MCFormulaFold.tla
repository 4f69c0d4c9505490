---------------------------- MODULE MCFormulaFold ----------------------------
(* Model-checking instances of FormulaFold: up to one test of the column and *)
(* any predicates in a WHERE clause.                                         *)
EXTENDS FormulaFold, FiniteSets

MCGuards ==
    {{<<"pred", p>> : p \in ps} \cup tests :
        ps \in SUBSET Preds,
        tests \in {{}} \cup {{<<"is", v>>} : v \in Values}}
=============================================================================
