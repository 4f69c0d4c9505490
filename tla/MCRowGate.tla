------------------------------ MODULE MCRowGate ------------------------------
(* Model-checking instance of RowGate.  A job is small in one of two ways: *)
(* only its first object writes and derives anything, or all of its rows   *)
(* are about one column, which one statement writes.  Columns have names   *)
(* of their own, or share one where a row may be linked by it.  An object  *)
(* fails the structural check or the inventory, not both, and neither      *)
(* where names are shared.  A row with an error vouches for nothing, so    *)
(* what it was folded from is left out, and what derivation advises is     *)
(* there for the only row of a job.  Objects are visited in order and are  *)
(* not interchangeable; columns, statements and dates are.                 *)
EXTENDS RowGate, TLC

Interchangeable ==
    Permutations(Columns) \cup Permutations(Writes) \cup Permutations(Dates)

\* A column's name is written as one of the columns that have it.
OwnNames == source.name = [c \in Columns |-> c]
OneName  == /\ \E d \in Columns : source.name = [c \in Columns |-> d]
            /\ \E c \in Columns : \A w \in Writes : c \notin source.columns[w]

OneObject ==
    /\ \A w \in Writes : source.owner[w] = 1
    /\ \/ OneName /\ source.structural \cup source.inventory = {}
       \/ OwnNames /\ <<source.structural, source.inventory>> \in {<<{}, {}>>, <<{1}, {}>>, <<{}, {1}>>}

OneColumn ==
    /\ OwnNames
    /\ source.structural \cup source.inventory = {}
    /\ \E c \in Columns, v \in Writes :
        /\ source.columns[v] \subseteq {c}
        /\ \A w \in Writes \ {v} : /\ source.owner[w] = 1
                                   /\ source.kind[w] = "status"
                                   /\ source.columns[w] = {}

\* Rows on slots S, each with one of the given dates.
RowsOn(S, dates) ==
    {[s \in Slots |-> IF s \in S THEN f[s] ELSE NoRow] :
        f \in {g \in [S -> {NoRow} \cup {x \in UNION {Candidates(s[1], s[2]) : s \in S} :
                                 x.date \in dates /\ (x.errors # {} => x.sources = {})}] :
                 \A s, t \in S : g[s] # NoRow /\ g[t] # NoRow /\ s # t => g[s].notes = {}}}

SmallRows ==
    IF OneObject
    THEN UNION {RowsOn({1} \X Columns, {d}) : d \in Dates}
    ELSE UNION {RowsOn(Objects \X {c}, Dates) : c \in Columns}

MCInit == Init /\ (OneObject \/ OneColumn)
MCNext == (stage = "generate" => rows' \in {rows} \cup SmallRows) /\ Next
MCSpec == MCInit /\ [][MCNext]_vars
=============================================================================
