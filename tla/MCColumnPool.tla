---------------------------- MODULE MCColumnPool ----------------------------
(* Model-checking instance of ColumnPool: shapes that tell the parts apart. *)
EXTENDS ColumnPool

MCShapes ==
    [writes : {"nothing"}, skipped : {{}}, raises : {"never", "early"}]
    \cup [writes : {"main"}, skipped : SUBSET {"main"},
          raises : {"never", "early", "midway"}]
    \cup [writes : {"both"}, skipped : {{"main"}, {"handler"}},
          raises : {"never", "midway", "late"}]
=============================================================================
