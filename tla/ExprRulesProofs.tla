-------------------------- MODULE ExprRulesProofs --------------------------
(***************************************************************************)
(* Theorems about the optimizer's passes: on any set of trees on which the *)
(* operators satisfy their equations (PassEquations), and on any row, a    *)
(* pass leaves the value of every tree as it was.                          *)
(***************************************************************************)
EXTENDS PassEquations, SequenceTheorems, NaturalsInduction, WellFoundedInduction, TLAPS

\* What holds of a tree whenever it holds of all trees of a smaller rank holds
\* of every tree.
LEMMA ByRank ==
  ASSUME NEW T, NEW rank \in [T -> Nat], NEW Good \in SUBSET T,
         \A n \in T : (\A x \in T : rank[x] < rank[n] => x \in Good) => n \in Good
  PROVE  T = Good
<1> DEFINE Bad == {rank[n] : n \in T \ Good}
<1>1. SUFFICES ASSUME NEW b \in T, b \notin Good PROVE FALSE
  OBVIOUS
<1>2. Bad \subseteq Nat /\ Bad # {}
  BY <1>1
<1>3. \E r \in Bad : \A q \in Bad : ~ (<<q, r>> \in OpToRel(<, Nat))
  BY <1>2, NatLessThanWellFounded, WFMin
<1>4. PICK n \in T \ Good : \A q \in Bad : ~ (<<q, rank[n]>> \in OpToRel(<, Nat))
  BY <1>3
<1>5. ASSUME NEW x \in T, rank[x] < rank[n] PROVE x \in Good
  <2>1. SUFFICES ASSUME x \notin Good PROVE FALSE
    OBVIOUS
  <2>2. rank[x] \in Bad /\ rank[n] \in Bad
    BY <2>1
  <2>3. <<rank[x], rank[n]>> \in OpToRel(<, Nat)
    BY <1>5 DEF OpToRel
  <2> QED
    BY <1>4, <2>2, <2>3
<1> QED
  BY <1>4, <1>5

\* What a tree of a forest looks like, and its children.
LEMMA Shape ==
  ASSUME NEW T, NEW rank, IsForest(T, rank), NEW n \in T
  PROVE  /\ WellFormed(n) /\ n.a \in Seq(T)
         /\ Len(n.a) = Arity(n) /\ DOMAIN n.a = 1..Len(n.a)
         /\ \A i \in DOMAIN n.a : n.a[i] \in T /\ rank[n.a[i]] < rank[n]
<1>1. n.a \in Seq(T) /\ WellFormed(n) /\ \A i \in DOMAIN n.a : rank[n.a[i]] < rank[n]
  BY DEF IsForest
<1>2. Len(n.a) = Arity(n)
  BY <1>1 DEF WellFormed
<1> QED
  BY <1>1, <1>2

LEMMA OpParts ==
  ASSUME NEW T, NEW rank, IsForest(T, rank), NEW n \in T, n.k = "op"
  PROVE  /\ DOMAIN n.a = 1..2
         /\ n.a[1] \in T /\ rank[n.a[1]] < rank[n]
         /\ n.a[2] \in T /\ rank[n.a[2]] < rank[n]
<1>1. DOMAIN n.a = 1..2
  BY Shape DEF Arity
<1>2. \A i \in DOMAIN n.a : n.a[i] \in T /\ rank[n.a[i]] < rank[n]
  BY Shape
<1> QED
  BY <1>1, <1>2

LEMMA IfParts ==
  ASSUME NEW T, NEW rank, IsForest(T, rank), NEW n \in T, IsIf(n)
  PROVE  /\ DOMAIN n.a = 1..3
         /\ CondOf(n) \in T /\ rank[CondOf(n)] < rank[n]
         /\ ThenOf(n) \in T /\ rank[ThenOf(n)] < rank[n]
         /\ ElseOf(n) \in T /\ rank[ElseOf(n)] < rank[n]
<1>1. DOMAIN n.a = 1..3
  BY Shape DEF Arity, IsIf
<1>2. \A i \in DOMAIN n.a : n.a[i] \in T /\ rank[n.a[i]] < rank[n]
  BY Shape
<1> QED
  BY <1>1, <1>2 DEF CondOf, ThenOf, ElseOf

LEMMA FnParts ==
  ASSUME NEW T, NEW rank, IsForest(T, rank), NEW n \in T, n.k = "fn"
  PROVE  /\ 1 \in DOMAIN n.a /\ n.a[1] \in T /\ rank[n.a[1]] < rank[n]
         /\ n.v \in {"COALESCE", "MAX"} =>
               DOMAIN n.a = 1..2 /\ n.a[2] \in T /\ rank[n.a[2]] < rank[n] /\ Len(n.a) = 2
<1>1. 1 \in DOMAIN n.a /\ (n.v \in {"COALESCE", "MAX"} => DOMAIN n.a = 1..2 /\ Len(n.a) = 2)
  <2>1. Len(n.a) = Arity(n) /\ DOMAIN n.a = 1..Len(n.a)
    BY Shape
  <2>2. Arity(n) = IF n.v \in {"COALESCE", "MAX"} THEN 2 ELSE 1
    BY DEF Arity
  <2> QED
    BY <2>1, <2>2
<1>2. \A i \in DOMAIN n.a : n.a[i] \in T /\ rank[n.a[i]] < rank[n]
  BY Shape
<1> QED
  BY <1>1, <1>2

LEMMA LeafParts ==
  ASSUME NEW T, NEW rank, IsForest(T, rank), NEW n \in T, n.k \notin {"op", "if", "fn"}
  PROVE  n.a = <<>> /\ n.k \in {"lit", "none", "col", "var", "str"}
<1>1. WellFormed(n) /\ n.a \in Seq(T) /\ Len(n.a) = Arity(n)
  BY Shape
<1>2. Arity(n) = 0
  BY DEF Arity
<1>3. n.k \in {"lit", "none", "col", "var", "str"}
  BY <1>1 DEF WellFormed
<1> QED
  BY <1>1, <1>2, <1>3

LEMMA NodeOfParts ==
  ASSUME NEW T, NEW rank, IsForest(T, rank), NEW n \in T
  PROVE  n = Node(n.k, n.v, n.n, n.a)
  BY Shape DEF WellFormed

\* What each kind of tree evaluates to.
LEMMA Evaluation ==
  ASSUME NEW T, NEW rank, NEW row, NEW value, NEW n \in T,
         IsForest(T, rank), IsMeaning(T, row, value)
  PROVE  /\ n.k = "lit" => value[n] = n.n
         /\ n.k = "none" => value[n] = NullValue
         /\ IsIf(n) => value[n] = IF value[CondOf(n)] = 1 THEN value[ThenOf(n)] ELSE value[ElseOf(n)]
         /\ IsArithmetic(n) => value[n] = Arithmetic(n.v, value[n.a[1]], value[n.a[2]])
         /\ IsComparison(n) => value[n] = AsNumber(Compare(n.v, value[n.a[1]], value[n.a[2]]))
         /\ IsOp(n, "AND") => value[n] = AsNumber(value[n.a[1]] = 1 /\ value[n.a[2]] = 1)
         /\ IsOp(n, "OR") => value[n] = AsNumber(value[n.a[1]] = 1 \/ value[n.a[2]] = 1)
         /\ IsFn(n, "COALESCE") => value[n] = IF value[n.a[1]] = NullValue THEN value[n.a[2]] ELSE value[n.a[1]]
         /\ IsFn(n, "MAX") => value[n] = Larger(value[n.a[1]], value[n.a[2]])
         /\ IsFn(n, "NOT") => value[n] = AsNumber(value[n.a[1]] # 1)
         /\ IsFn(n, "ISEMPTY") => value[n] = AsNumber(value[n.a[1]] = NullValue)
         /\ IsFn(n, "ISNOTEMPTY") => value[n] = AsNumber(value[n.a[1]] # NullValue)
<1> DEFINE x == value[n.a[1]]
           y == value[n.a[2]]
           z == value[n.a[3]]
<1>1. value[n] = ValueOf(n, row, x, y, z)
  BY DEF IsMeaning
<1>2. n.k = "op" => value[n] = Operation(n.v, x, y)
  BY <1>1 DEF ValueOf
<1>3. n.k = "fn" => value[n] = CallValue(n.v, x, y)
  BY <1>1 DEF ValueOf
<1>4. /\ IsIf(n) => value[n] = IF value[CondOf(n)] = 1 THEN value[ThenOf(n)] ELSE value[ElseOf(n)]
      /\ n.k = "lit" => value[n] = n.n
      /\ n.k = "none" => value[n] = NullValue
  BY <1>1 DEF ValueOf, IsIf, CondOf, ThenOf, ElseOf
<1> HIDE DEF x, y, z
<1>5. IsArithmetic(n) => value[n] = Arithmetic(n.v, x, y)
  BY <1>2 DEF Operation, IsArithmetic, ArithmeticOps
<1>6. IsComparison(n) => value[n] = AsNumber(Compare(n.v, x, y))
  BY <1>2 DEF Operation, IsComparison, ComparisonOps, EqOps, NeOps, OrderOps, ArithmeticOps
<1>7. /\ IsOp(n, "AND") => value[n] = AsNumber(x = 1 /\ y = 1)
      /\ IsOp(n, "OR") => value[n] = AsNumber(x = 1 \/ y = 1)
  BY <1>2 DEF Operation, IsOp, ArithmeticOps
<1>8. /\ IsFn(n, "COALESCE") => value[n] = IF x = NullValue THEN y ELSE x
      /\ IsFn(n, "MAX") => value[n] = Larger(x, y)
      /\ IsFn(n, "NOT") => value[n] = AsNumber(x # 1)
      /\ IsFn(n, "ISEMPTY") => value[n] = AsNumber(x = NullValue)
      /\ IsFn(n, "ISNOTEMPTY") => value[n] = AsNumber(x # NullValue)
  BY <1>3 DEF CallValue, IsFn
<1> QED
  BY <1>4, <1>5, <1>6, <1>7, <1>8 DEF x, y

\* The node over its rewritten children, with the parts by name.
LEMMA MappedParts ==
  ASSUME NEW T, NEW rank, NEW n \in T, NEW pass, IsForest(T, rank), IsPass(T, pass)
  PROVE  LET m == Image(pass, n)
         IN  /\ m \in T
             /\ m.k = n.k /\ m.v = n.v /\ m.n = n.n /\ DOMAIN m.a = DOMAIN n.a
             /\ \A i \in DOMAIN n.a : m.a[i] = pass[n.a[i]]
<1>1. n = Node(n.k, n.v, n.n, n.a)
  BY NodeOfParts
<1> DEFINE kids == [i \in DOMAIN n.a |-> pass[n.a[i]]]
<1>2. Image(pass, n) = [n EXCEPT !.a = kids]
  BY DEF Image, Mapped
<1> HIDE DEF kids
<1>3. [n EXCEPT !.a = kids] = Node(n.k, n.v, n.n, kids)
  BY <1>1 DEF Node
<1>4. Image(pass, n) \in T
  BY DEF IsPass
<1> QED
  BY <1>2, <1>3, <1>4 DEF Node, kids

\* A tree whose children are replaced by trees of the value they have under
\* another evaluation.
LEMMA CongruenceOf ==
  ASSUME NEW T, NEW rank, NEW row, NEW value, NEW other, NEW pass, NEW n \in T,
         IsForest(T, rank), IsPass(T, pass),
         LET m == Image(pass, n)
         IN  value[m] = ValueOf(m, row, value[m.a[1]], value[m.a[2]], value[m.a[3]]),
         other[n] = ValueOf(n, row, other[n.a[1]], other[n.a[2]], other[n.a[3]]),
         \A i \in DOMAIN n.a : value[pass[n.a[i]]] = other[n.a[i]]
  PROVE  value[Image(pass, n)] = other[n]
<1> DEFINE m == Image(pass, n)
<1>1. /\ m \in T
      /\ m.k = n.k /\ m.v = n.v /\ m.n = n.n /\ DOMAIN m.a = DOMAIN n.a
      /\ \A i \in DOMAIN n.a : m.a[i] = pass[n.a[i]]
  BY MappedParts
<1>2. value[m] = ValueOf(m, row, value[m.a[1]], value[m.a[2]], value[m.a[3]])
  OBVIOUS
<1> SUFFICES value[m] = other[n]
  OBVIOUS
<1> HIDE DEF m
<1>3. other[n] = ValueOf(n, row, other[n.a[1]], other[n.a[2]], other[n.a[3]])
  OBVIOUS
<1>4. \A i \in DOMAIN n.a : value[m.a[i]] = other[n.a[i]]
  BY <1>1
<1>5. WellFormed(n)
  BY Shape
<1>6. CASE n.k = "op"
  <2>1. value[m.a[1]] = other[n.a[1]] /\ value[m.a[2]] = other[n.a[2]]
    <3>1. DOMAIN n.a = 1..2
      BY <1>6, OpParts
    <3> QED
      BY <1>4, <3>1
  <2>2. value[m] = Operation(n.v, value[m.a[1]], value[m.a[2]])
    BY <1>1, <1>2, <1>6 DEF ValueOf
  <2>3. other[n] = Operation(n.v, other[n.a[1]], other[n.a[2]])
    BY <1>3, <1>6 DEF ValueOf
  <2> QED
    BY <2>1, <2>2, <2>3
<1>7. CASE n.k = "if"
  <2>1. value[m.a[1]] = other[n.a[1]] /\ value[m.a[2]] = other[n.a[2]] /\ value[m.a[3]] = other[n.a[3]]
    <3>1. DOMAIN n.a = 1..3
      BY <1>7, IfParts DEF IsIf
    <3> QED
      BY <1>4, <3>1
  <2>2. value[m] = IF value[m.a[1]] = 1 THEN value[m.a[2]] ELSE value[m.a[3]]
    BY <1>1, <1>2, <1>7 DEF ValueOf
  <2>3. other[n] = IF other[n.a[1]] = 1 THEN other[n.a[2]] ELSE other[n.a[3]]
    BY <1>3, <1>7 DEF ValueOf
  <2> QED
    BY <2>1, <2>2, <2>3
<1>8. CASE n.k = "fn"
  <2>0. 1 \in DOMAIN n.a /\ (n.v \in {"COALESCE", "MAX"} => DOMAIN n.a = 1..2)
    BY <1>8, FnParts
  <2>1. value[m.a[1]] = other[n.a[1]]
    BY <1>4, <2>0
  <2>2. n.v \in {"COALESCE", "MAX"} => value[m.a[2]] = other[n.a[2]]
    BY <1>4, <2>0
  <2>3. value[m] = CallValue(n.v, value[m.a[1]], value[m.a[2]]) /\ other[n] = CallValue(n.v, other[n.a[1]], other[n.a[2]])
    BY <1>1, <1>2, <1>3, <1>8 DEF ValueOf
  <2>4. n.v \in {"COALESCE", "MAX", "NOT", "ISEMPTY", "ISNOTEMPTY"}
    BY <1>5, <1>8 DEF WellFormed
  <2>5. CASE n.v \in {"COALESCE", "MAX"}
    BY <2>1, <2>2, <2>3, <2>5
  <2>6. CASE n.v \in {"NOT", "ISEMPTY", "ISNOTEMPTY"}
    BY <2>1, <2>3, <2>6 DEF CallValue
  <2> QED
    BY <2>4, <2>5, <2>6
<1>9. CASE n.k = "lit"
  <2>1. value[m] = m.n
    BY <1>1, <1>2, <1>9 DEF ValueOf
  <2>2. other[n] = n.n
    BY <1>3, <1>9 DEF ValueOf
  <2> QED
    BY <1>1, <2>1, <2>2
<1>10. CASE n.k = "none"
  BY <1>1, <1>2, <1>3, <1>10 DEF ValueOf
<1>11. CASE n.k \in {"col", "var", "str"}
  <2>1. value[m] = row[m.v]
    BY <1>1, <1>2, <1>11 DEF ValueOf
  <2>2. other[n] = row[n.v]
    BY <1>3, <1>11 DEF ValueOf
  <2> QED
    BY <1>1, <2>1, <2>2
<1> QED
  BY <1>5, <1>6, <1>7, <1>8, <1>9, <1>10, <1>11 DEF WellFormed

LEMMA Congruence ==
  ASSUME NEW T, NEW rank, NEW row, NEW value, NEW pass, NEW n \in T,
         IsForest(T, rank), IsMeaning(T, row, value), IsPass(T, pass),
         \A i \in DOMAIN n.a : value[pass[n.a[i]]] = value[n.a[i]]
  PROVE  value[Image(pass, n)] = value[n]
<1> DEFINE m == Image(pass, n)
<1>1. m \in T
  BY MappedParts
<1>2. value[m] = ValueOf(m, row, value[m.a[1]], value[m.a[2]], value[m.a[3]])
  BY <1>1 DEF IsMeaning
<1>3. value[n] = ValueOf(n, row, value[n.a[1]], value[n.a[2]], value[n.a[3]])
  BY DEF IsMeaning
<1> QED
  BY <1>2, <1>3, CongruenceOf

LEMMA ImageKeepsValue ==
  ASSUME NEW T, NEW rank, NEW row, NEW value, NEW pass,
         IsForest(T, rank), IsMeaning(T, row, value), IsPass(T, pass)
  PROVE  \A n \in T : (\A i \in DOMAIN n.a : value[pass[n.a[i]]] = value[n.a[i]]) =>
                       value[Image(pass, n)] = value[n]
  BY Congruence

\* What the rules build, when it is a tree of the forest, and its value.
LEMMA BuiltAnd ==
  ASSUME NEW T, NEW rank, NEW row, NEW value, IsForest(T, rank), IsMeaning(T, row, value),
         NEW x, NEW y, Op("AND", x, y) \in T
  PROVE  /\ x \in T /\ y \in T
         /\ value[Op("AND", x, y)] = IF value[x] = 1 /\ value[y] = 1 THEN 1 ELSE 0
<1>1. IsOp(Op("AND", x, y), "AND") /\ Op("AND", x, y).k = "op" /\ Op("AND", x, y).a = <<x, y>>
  BY DEF Op, Fn, Node, IsOp, IsFn
<1>2. x \in T /\ y \in T
  BY <1>1, OpParts
<1> QED
  BY <1>1, <1>2, Evaluation DEF AsNumber

LEMMA BuiltOr ==
  ASSUME NEW T, NEW rank, NEW row, NEW value, IsForest(T, rank), IsMeaning(T, row, value),
         NEW x, NEW y, Op("OR", x, y) \in T
  PROVE  /\ x \in T /\ y \in T
         /\ value[Op("OR", x, y)] = IF value[x] = 1 \/ value[y] = 1 THEN 1 ELSE 0
<1>1. IsOp(Op("OR", x, y), "OR") /\ Op("OR", x, y).k = "op" /\ Op("OR", x, y).a = <<x, y>>
  BY DEF Op, Fn, Node, IsOp, IsFn
<1>2. x \in T /\ y \in T
  BY <1>1, OpParts
<1> QED
  BY <1>1, <1>2, Evaluation DEF AsNumber

LEMMA BuiltMax ==
  ASSUME NEW T, NEW rank, NEW row, NEW value, IsForest(T, rank), IsMeaning(T, row, value),
         NEW x, NEW y, Fn("MAX", <<x, y>>) \in T
  PROVE  /\ x \in T /\ y \in T
         /\ value[Fn("MAX", <<x, y>>)] = Larger(value[x], value[y])
<1>1. IsFn(Fn("MAX", <<x, y>>), "MAX") /\ Fn("MAX", <<x, y>>).k = "fn" /\ Fn("MAX", <<x, y>>).a = <<x, y>> /\ Fn("MAX", <<x, y>>).v \in {"COALESCE", "MAX"}
  BY DEF Op, Fn, Node, IsOp, IsFn
<1>2. x \in T /\ y \in T
  BY <1>1, FnParts
<1> QED
  BY <1>1, <1>2, Evaluation DEF AsNumber

LEMMA BuiltCoalesce ==
  ASSUME NEW T, NEW rank, NEW row, NEW value, IsForest(T, rank), IsMeaning(T, row, value),
         NEW x, NEW y, Fn("COALESCE", <<x, y>>) \in T
  PROVE  /\ x \in T /\ y \in T
         /\ value[Fn("COALESCE", <<x, y>>)] = IF value[x] = NullValue THEN value[y] ELSE value[x]
<1>1. IsFn(Fn("COALESCE", <<x, y>>), "COALESCE") /\ Fn("COALESCE", <<x, y>>).k = "fn" /\ Fn("COALESCE", <<x, y>>).a = <<x, y>> /\ Fn("COALESCE", <<x, y>>).v \in {"COALESCE", "MAX"}
  BY DEF Op, Fn, Node, IsOp, IsFn
<1>2. x \in T /\ y \in T
  BY <1>1, FnParts
<1> QED
  BY <1>1, <1>2, Evaluation DEF AsNumber

LEMMA BuiltNot ==
  ASSUME NEW T, NEW rank, NEW row, NEW value, IsForest(T, rank), IsMeaning(T, row, value),
         NEW x, Negate(x) \in T
  PROVE  x \in T /\ value[Negate(x)] = IF value[x] # 1 THEN 1 ELSE 0
<1>1. IsFn(Negate(x), "NOT") /\ Negate(x).a = <<x>> /\ Negate(x).k = "fn"
  BY DEF Negate, Fn, Node, IsFn
<1> QED
  BY <1>1, Evaluation, FnParts DEF AsNumber

LEMMA BuiltIf ==
  ASSUME NEW T, NEW rank, NEW row, NEW value, IsForest(T, rank), IsMeaning(T, row, value),
         NEW c, NEW t, NEW e, If(c, t, e) \in T
  PROVE  /\ c \in T /\ t \in T /\ e \in T
         /\ value[If(c, t, e)] = IF value[c] = 1 THEN value[t] ELSE value[e]
         /\ IsIf(If(c, t, e))
         /\ CondOf(If(c, t, e)) = c /\ ThenOf(If(c, t, e)) = t /\ ElseOf(If(c, t, e)) = e
<1>1. IsIf(If(c, t, e)) /\ If(c, t, e).a = <<c, t, e>>
  BY DEF If, Node, IsIf
<1>2. CondOf(If(c, t, e)) = c /\ ThenOf(If(c, t, e)) = t /\ ElseOf(If(c, t, e)) = e
  BY <1>1 DEF CondOf, ThenOf, ElseOf
<1> QED
  BY <1>1, <1>2, IfParts, Evaluation

LEMMA BuiltOperation ==
  ASSUME NEW T, NEW rank, NEW row, NEW value, IsForest(T, rank), IsMeaning(T, row, value),
         NEW o, NEW x, NEW y, Op(o, x, y) \in T
  PROVE  /\ x \in T /\ y \in T
         /\ o \in ArithmeticOps => value[Op(o, x, y)] = Arithmetic(o, value[x], value[y])
         /\ o \in ComparisonOps => value[Op(o, x, y)] = AsNumber(Compare(o, value[x], value[y]))
<1> DEFINE n == Op(o, x, y)
<1>1. n.k = "op" /\ n.v = o /\ n.a = <<x, y>>
  BY DEF Op, Node
<1>2. (o \in ArithmeticOps => IsArithmetic(n)) /\ (o \in ComparisonOps => IsComparison(n))
  BY <1>1 DEF IsArithmetic, IsComparison
<1> HIDE DEF n
<1>3. n \in T
  BY DEF n
<1>4. x \in T /\ y \in T
  BY <1>1, <1>3, OpParts
<1>5. n.a[1] = x /\ n.a[2] = y
  BY <1>1
<1>6. (IsArithmetic(n) => value[n] = Arithmetic(n.v, value[n.a[1]], value[n.a[2]])) /\ (IsComparison(n) => value[n] = AsNumber(Compare(n.v, value[n.a[1]], value[n.a[2]])))
  BY <1>3, Evaluation
<1> QED
  BY <1>1, <1>2, <1>4, <1>5, <1>6 DEF n

\* A literal is NULL, a truth value or a number, and evaluates to it.
LEMMA LiteralValue ==
  ASSUME NEW T, NEW rank, NEW row, NEW value, IsForest(T, rank), IsMeaning(T, row, value),
         NEW n \in T, n.k = "lit"
  PROVE  /\ value[n] = n.n
         /\ n.v = "null" <=> value[n] = NullValue
         /\ n.v # "null" => value[n] \in Int
         /\ n.v = "bool" => value[n] \in {0, 1}
<1> DEFINE yes == Bool(TRUE)
           no == Bool(FALSE)
<1>1. n \in {Null, yes, no} \/ (n.v = "num" /\ n.n \in Int)
  BY Shape DEF WellFormed
<1>2. value[n] = n.n
  BY Evaluation
<1>3. /\ Null.n = NullValue /\ Null.v = "null"
      /\ yes.n = 1 /\ yes.v = "bool"
      /\ no.n = 0 /\ no.v = "bool"
  BY DEF Null, Bool, Node
<1> SUFFICES /\ n.v = "null" <=> value[n] = NullValue
             /\ n.v # "null" => value[n] \in Int
             /\ n.v = "bool" => value[n] \in {0, 1}
  BY <1>2
<1> HIDE DEF yes, no
<1>4. CASE n = Null
  BY <1>2, <1>3, <1>4, NullIsNoNumber
<1>5. CASE n = yes
  BY <1>2, <1>3, <1>5, NullIsNoNumber
<1>6. CASE n = no
  BY <1>2, <1>3, <1>6, NullIsNoNumber
<1>7. CASE n.v = "num" /\ n.n \in Int
  BY <1>2, <1>3, <1>7, NullIsNoNumber
<1> QED
  BY <1>1, <1>4, <1>5, <1>6, <1>7

LEMMA ZeroValue ==
  ASSUME NEW T, NEW rank, NEW row, NEW value, IsForest(T, rank), IsMeaning(T, row, value),
         NEW n \in T, IsZero(n)
  PROVE  value[n] = 0
  BY Evaluation DEF IsZero

\* A pass that rewrites a tree after its children, by a rule that keeps the
\* value of the trees it is applied to.
LEMMA BottomUp ==
  ASSUME NEW T, NEW rank, NEW row, NEW value, NEW pass,
         IsForest(T, rank), IsMeaning(T, row, value), IsPass(T, pass),
         \A n \in T : value[pass[n]] = value[Image(pass, n)]
  PROVE  KeepsValue(T, value, pass)
<1> DEFINE Good == {n \in T : value[pass[n]] = value[n]}
<1>1. ASSUME NEW n \in T, \A x \in T : rank[x] < rank[n] => x \in Good
      PROVE  n \in Good
  <2>1. \A i \in DOMAIN n.a : n.a[i] \in T /\ rank[n.a[i]] < rank[n]
    BY Shape
  <2>2. \A i \in DOMAIN n.a : value[pass[n.a[i]]] = value[n.a[i]]
    BY <2>1, <1>1
  <2>3. value[Image(pass, n)] = value[n]
    BY <2>2, Congruence
  <2> QED
    BY <2>3
<1>2. rank \in [T -> Nat]
  BY DEF IsForest
<1>3. T = Good
  <2>1. Good \in SUBSET T
    OBVIOUS
  <2> HIDE DEF Good
  <2> QED
    BY <1>1, <1>2, <2>1, ByRank
<1> QED
  BY <1>3 DEF KeepsValue

\* A pass that applies a rule above the rewritten children, and itself to what
\* the rule makes, when the rule keeps the value and makes smaller trees.
LEMMA Reapplication ==
  ASSUME NEW T, NEW rank, NEW row, NEW value, NEW rule, NEW pass,
         IsForest(T, rank), IsMeaning(T, row, value), IsPass(T, pass),
         ShrinksBy(T, rank, rule, pass),
         \A n \in T : pass[n] = Reapplied(LAMBDA x : pass[x], LAMBDA x : rule[x], n),
         \A n \in T : IsIf(n) /\ rule[n] # Absent => value[rule[n]] = value[n]
  PROVE  KeepsValue(T, value, pass)
<1> DEFINE Good == {n \in T : value[pass[n]] = value[n]}
<1>1. ASSUME NEW n \in T, \A x \in T : rank[x] < rank[n] => x \in Good
      PROVE  n \in Good
  <2> DEFINE m == Image(pass, n)
             f == IF IsIf(m) THEN rule[m] ELSE Absent
  <2>1. m \in T
    BY MappedParts
  <2>2. value[m] = value[n]
    <3>1. \A i \in DOMAIN n.a : n.a[i] \in T /\ rank[n.a[i]] < rank[n]
      BY Shape
    <3>2. \A i \in DOMAIN n.a : value[pass[n.a[i]]] = value[n.a[i]]
      BY <3>1, <1>1
    <3> QED
      BY <3>2, Congruence
  <2>3. pass[n] = IF f = Absent THEN m ELSE pass[f]
    <3>1. pass[n] = Reapplied(LAMBDA x : pass[x], LAMBDA x : rule[x], n)
      OBVIOUS
    <3> QED
      BY <3>1 DEF Reapplied, Image
  <2>4. ASSUME f # Absent PROVE f \in T /\ rank[f] < rank[n] /\ value[f] = value[m]
    <3>1. IsIf(m) /\ f = rule[m] /\ rule[m] # Absent
      BY <2>4
    <3>2. rule[m] \in T /\ (rule[m] # Absent => rank[rule[m]] < rank[n])
      BY <2>1 DEF ShrinksBy
    <3> QED
      BY <2>1, <3>1, <3>2
  <2> SUFFICES value[pass[n]] = value[n]
    OBVIOUS
  <2> HIDE DEF m, f
  <2>5. CASE f = Absent
    BY <2>2, <2>3, <2>5
  <2>6. CASE f # Absent
    <3>1. f \in Good
      BY <1>1, <2>4, <2>6
    <3> QED
      BY <2>2, <2>3, <2>4, <2>6, <3>1
  <2> QED
    BY <2>5, <2>6
<1>2. T = Good
  <2>1. Good \in SUBSET T /\ rank \in [T -> Nat]
    BY DEF IsForest
  <2> HIDE DEF Good
  <2> QED
    BY <1>1, <2>1, ByRank
<1> QED
  BY <1>2 DEF KeepsValue

-----------------------------------------------------------------------------
(* The passes.                                                             *)

\* IF(c) THEN(x) ELSE(x) is x, for any tree, nested as deep as it may be.
THEOREM CollapseDegenerateKeepsValue ==
  ASSUME NEW T, NEW rank, NEW row, NEW value, NEW pass,
         IsForest(T, rank), IsMeaning(T, row, value), IsCollapseDegenerate(T, pass)
  PROVE  KeepsValue(T, value, pass)
<1>1. IsPass(T, pass)
  BY DEF IsCollapseDegenerate
<1>2. ASSUME NEW n \in T PROVE value[pass[n]] = value[Image(pass, n)]
  <2> DEFINE m == Image(pass, n)
  <2>1. pass[n] = IF IsIf(m) /\ ThenOf(m) = ElseOf(m) THEN ThenOf(m) ELSE m
    BY DEF IsCollapseDegenerate, CollapseDegenerateAt, Image
  <2>2. m \in T
    BY <1>1, MappedParts
  <2> SUFFICES value[pass[n]] = value[m]
    OBVIOUS
  <2> HIDE DEF m
  <2>3. IsIf(m) => value[m] = IF value[CondOf(m)] = 1 THEN value[ThenOf(m)] ELSE value[ElseOf(m)]
    BY <2>2, Evaluation
  <2> QED
    BY <2>1, <2>3
<1> QED
  BY <1>1, <1>2, BottomUp

\* What the pass takes to be never NULL is not NULL.
LEMMA NeverNullIsNotNull ==
  ASSUME NEW T, NEW rank, NEW row, NEW value, NEW never,
         IsForest(T, rank), IsMeaning(T, row, value), IsNeverNull(T, never)
  PROVE  \A n \in T : never[n] => value[n] # NullValue
<1> DEFINE Good == {n \in T : never[n] => value[n] # NullValue}
<1>1. ASSUME NEW n \in T, never[n], \A x \in T : rank[x] < rank[n] => x \in Good
      PROVE  value[n] # NullValue
  <2>1. \/ IsLiteral(n) /\ ~IsNull(n)
        \/ IsFn(n, "MAX") /\ \A i \in DOMAIN n.a : never[n.a[i]]
        \/ IsFn(n, "COALESCE") /\ never[n.a[Len(n.a)]]
        \/ IsArithmetic(n) /\ never[n.a[1]] /\ never[n.a[2]]
        \/ IsIf(n) /\ never[ThenOf(n)] /\ never[ElseOf(n)]
    <3>1. never[n] = NeverNullOf(LAMBDA x : never[x], n)
      BY DEF IsNeverNull
    <3> QED
      BY <1>1, <3>1 DEF NeverNullOf
  <2>2. \A x \in T : value[x] \in Values
    BY DEF IsMeaning
  <2>3. CASE IsLiteral(n)
    <3>1. ~IsNull(n)
      BY <2>1, <2>3 DEF IsLiteral, IsFn, IsArithmetic, IsIf
    <3>2. CASE n.k = "lit"
      <4>0. n \in {Null, Bool(TRUE), Bool(FALSE)} \/ (n.v = "num" /\ n.n \in Int)
        BY <3>2, Shape DEF WellFormed
      <4>1. n.n \in Int
        BY <4>0, <3>1, <3>2 DEF IsNull, Null, Bool, Node
      <4>2. value[n] = n.n
        BY <3>2, Evaluation
      <4> QED
        BY <4>1, <4>2, NullIsNoNumber
    <3>3. CASE n.k = "str"
      BY <3>3 DEF IsMeaning
    <3> QED
      BY <2>3, <3>2, <3>3 DEF IsLiteral
  <2>4. CASE IsFn(n, "MAX")
    <3>1. /\ n.a[1] \in T /\ rank[n.a[1]] < rank[n]
          /\ n.a[2] \in T /\ rank[n.a[2]] < rank[n] /\ DOMAIN n.a = 1..2
      BY <2>4, FnParts DEF IsFn
    <3>2. \A i \in DOMAIN n.a : never[n.a[i]]
      BY <2>1, <2>4 DEF IsLiteral, IsFn, IsArithmetic, IsIf
    <3>3. value[n.a[1]] # NullValue /\ value[n.a[2]] # NullValue
      BY <1>1, <3>1, <3>2
    <3>4. value[n] = Larger(value[n.a[1]], value[n.a[2]])
      BY <2>4, Evaluation
    <3> QED
      BY <3>3, <3>4 DEF Larger
  <2>5. CASE IsFn(n, "COALESCE")
    <3>1. /\ n.a[2] \in T /\ rank[n.a[2]] < rank[n] /\ Len(n.a) = 2
      BY <2>5, FnParts DEF IsFn
    <3>2. never[n.a[2]]
      BY <2>1, <2>5, <3>1 DEF IsLiteral, IsFn, IsArithmetic, IsIf
    <3>3. value[n.a[2]] # NullValue
      BY <1>1, <3>1, <3>2
    <3>4. value[n] = IF value[n.a[1]] = NullValue THEN value[n.a[2]] ELSE value[n.a[1]]
      BY <2>5, Evaluation
    <3> QED
      BY <3>3, <3>4
  <2>6. CASE IsArithmetic(n)
    <3>1. /\ n.a[1] \in T /\ rank[n.a[1]] < rank[n]
          /\ n.a[2] \in T /\ rank[n.a[2]] < rank[n]
      BY <2>6, OpParts DEF IsArithmetic
    <3>2. never[n.a[1]] /\ never[n.a[2]]
      BY <2>1, <2>6 DEF IsLiteral, IsFn, IsArithmetic, IsIf
    <3>3. value[n.a[1]] \in Int /\ value[n.a[2]] \in Int
      BY <1>1, <2>2, <3>1, <3>2 DEF Values
    <3>4. value[n] = Arithmetic(n.v, value[n.a[1]], value[n.a[2]])
      BY <2>6, Evaluation
    <3>5. n.v \in {"+", "-", "*"}
      BY <2>6 DEF IsArithmetic, ArithmeticOps
    <3>6. value[n] \in Int
      BY <3>3, <3>4, <3>5, NullIsNoNumber DEF Arithmetic
    <3> QED
      BY <3>6, NullIsNoNumber
  <2>7. CASE IsIf(n)
    <3>1. /\ ThenOf(n) \in T /\ rank[ThenOf(n)] < rank[n]
          /\ ElseOf(n) \in T /\ rank[ElseOf(n)] < rank[n]
      BY <2>7, IfParts
    <3>2. never[ThenOf(n)] /\ never[ElseOf(n)]
      BY <2>1, <2>7 DEF IsLiteral, IsFn, IsArithmetic, IsIf
    <3>3. value[ThenOf(n)] # NullValue /\ value[ElseOf(n)] # NullValue
      BY <1>1, <3>1, <3>2
    <3>4. value[n] = IF value[CondOf(n)] = 1 THEN value[ThenOf(n)] ELSE value[ElseOf(n)]
      BY <2>7, Evaluation
    <3> QED
      BY <3>3, <3>4
  <2>8. \/ IsLiteral(n) \/ IsFn(n, "MAX") \/ IsFn(n, "COALESCE")
        \/ IsArithmetic(n) \/ IsIf(n)
    BY <2>1
  <2> QED
    BY <2>3, <2>4, <2>5, <2>6, <2>7, <2>8
<1>2. rank \in [T -> Nat]
  BY DEF IsForest
<1>3. T = Good
  <2>1. Good \in SUBSET T
    OBVIOUS
  <2>2. \A n \in T : (\A x \in T : rank[x] < rank[n] => x \in Good) => n \in Good
    BY <1>1
  <2> HIDE DEF Good
  <2> QED
    BY <1>2, <2>1, <2>2, ByRank
<1> QED
  BY <1>3

\* COALESCE(x, d) is x where x cannot be NULL.
THEOREM StripCoalesceKeepsValue ==
  ASSUME NEW T, NEW rank, NEW row, NEW value, NEW never, NEW pass,
         IsForest(T, rank), IsMeaning(T, row, value),
         IsNeverNull(T, never), IsStripCoalesce(T, never, pass)
  PROVE  KeepsValue(T, value, pass)
<1>1. IsPass(T, pass)
  BY DEF IsStripCoalesce
<1>2. ASSUME NEW n \in T PROVE value[pass[n]] = value[Image(pass, n)]
  <2> DEFINE m == Image(pass, n)
  <2>1. pass[n] = IF IsFn(m, "COALESCE") /\ never[m.a[1]] THEN m.a[1] ELSE m
    BY DEF IsStripCoalesce, StripCoalesceAt, Image
  <2>2. m \in T
    BY <1>1, MappedParts
  <2> SUFFICES value[pass[n]] = value[m]
    OBVIOUS
  <2> HIDE DEF m
  <2>3. CASE IsFn(m, "COALESCE") /\ never[m.a[1]]
    <3>1. m.a[1] \in T
      BY <2>2, <2>3, FnParts DEF IsFn
    <3>2. value[m.a[1]] # NullValue
      BY <2>3, <3>1, NeverNullIsNotNull
    <3>3. value[m] = IF value[m.a[1]] = NullValue THEN value[m.a[2]] ELSE value[m.a[1]]
      BY <2>2, <2>3, Evaluation
    <3> QED
      BY <2>1, <2>3, <3>2, <3>3
  <2> QED
    BY <2>1, <2>3
<1> QED
  BY <1>1, <1>2, BottomUp

\* A comparison of a tree with zero.
LEMMA EqualsZeroValue ==
  ASSUME NEW T, NEW rank, NEW row, NEW value, IsForest(T, rank), IsMeaning(T, row, value),
         NEW c \in T, NEW x \in T, EqualsZero(c, x)
  PROVE  value[c] = 1 <=> value[x] = 0
<1>1. c.k = "op" /\ c.v = "==" /\ IsComparison(c)
  BY DEF EqualsZero, IsOp, IsComparison, ComparisonOps, EqOps
<1>2. c.a[1] \in T /\ c.a[2] \in T
  BY <1>1, OpParts
<1>3. \A z \in T : IsZero(z) => value[z] = 0
  BY ZeroValue
<1>4. {value[c.a[1]], value[c.a[2]]} = {0, value[x]}
  BY <1>2, <1>3 DEF EqualsZero
<1>5. value[c] = AsNumber(Compare("==", value[c.a[1]], value[c.a[2]]))
  BY <1>1, Evaluation
<1> QED
  <2>1. value[c] = 1 <=> Compare("==", value[c.a[1]], value[c.a[2]])
    BY <1>5 DEF AsNumber
  <2>2. 0 # NullValue
    BY NullIsNoNumber
  <2> QED
    BY <2>1, <2>2, <1>4 DEF Compare

\* On a row where the joined value is not NULL, the test for the default may be
\* part of the condition of the join.
LEMMA JoinZeroDefaultValue ==
  ASSUME NEW T, NEW rank, NEW row, NEW value, NEW rule, NEW n \in T,
         IsForest(T, rank), IsMeaning(T, row, value), IsJoinZeroDefault(T, rule),
         GivenWhere(T, rule, value), IsIf(n), rule[n] # Absent
  PROVE  value[rule[n]] = value[n]
<1> DEFINE inner == ElseOf(n)
           join == CondOf(inner)
           src == ThenOf(inner)
           found == Op("!=", Fn("COALESCE", <<src, Lit(0)>>), Lit(0))
           test == Op("AND", join, found)
<1>2. /\ IsIf(inner) /\ IsZero(ElseOf(inner)) /\ IsLiteral(ThenOf(n))
      /\ \/ EqualsZero(CondOf(n), inner)
         \/ /\ IsIf(CondOf(n)) /\ CondOf(CondOf(n)) = join
            /\ EqualsZero(ThenOf(CondOf(n)), src)
            /\ EqualsZero(ElseOf(CondOf(n)), Lit(0))
      /\ rule[n] = If(test, src, ThenOf(n))
  BY DEF IsJoinZeroDefault, JoinZeroDefault
<1> HIDE DEF test
<1>4. test \in T /\ value[rule[n]] = IF value[test] = 1 THEN value[src] ELSE value[ThenOf(n)]
  BY <1>2, BuiltIf DEF IsJoinZeroDefault
<1>5. join \in T /\ found \in T /\ (value[test] = 1 <=> value[join] = 1 /\ value[found] = 1)
  <2>1. join \in T /\ found \in T /\ value[test] = IF value[join] = 1 /\ value[found] = 1 THEN 1 ELSE 0
    BY <1>4, BuiltAnd DEF test
  <2> QED
    BY <2>1
<1>6. CondOf(n) \in T /\ inner \in T /\ src \in T /\ ElseOf(inner) \in T
  BY <1>2, IfParts
<1>7. value[found] = 1 <=> value[src] # NullValue /\ value[src] # 0
  <2> DEFINE zero == Lit(0)
             given == Fn("COALESCE", <<src, zero>>)
  <2>1. given \in T /\ zero \in T /\ value[found] = AsNumber(Compare("!=", value[given], value[zero]))
    BY <1>5, BuiltOperation DEF ComparisonOps, NeOps
  <2>2. value[given] = IF value[src] = NullValue THEN value[zero] ELSE value[src]
    BY <2>1, BuiltCoalesce
  <2>3. value[zero] = 0
    BY <2>1, ZeroValue DEF IsZero, Lit, Node
  <2>4. 0 # NullValue
    BY NullIsNoNumber
  <2> QED
    BY <2>1, <2>2, <2>3, <2>4 DEF Compare, AsNumber
<1>8. /\ value[n] = IF value[CondOf(n)] = 1 THEN value[ThenOf(n)] ELSE value[inner]
      /\ value[inner] = IF value[join] = 1 THEN value[src] ELSE 0
  <2>1. value[ElseOf(inner)] = 0
    BY <1>2, <1>6, ZeroValue
  <2> QED
    BY <1>2, <1>6, <2>1, Evaluation
<1>9. value[CondOf(n)] = 1 <=> value[inner] = 0
  <2>1. CASE EqualsZero(CondOf(n), inner)
    BY <1>6, <2>1, EqualsZeroValue
  <2>2. CASE /\ IsIf(CondOf(n)) /\ CondOf(CondOf(n)) = join
             /\ EqualsZero(ThenOf(CondOf(n)), src)
             /\ EqualsZero(ElseOf(CondOf(n)), Lit(0))
    <3> DEFINE c == CondOf(n)
    <3>1. ThenOf(c) \in T /\ ElseOf(c) \in T
      BY <1>6, <2>2, IfParts
    <3>2. value[c] = IF value[join] = 1 THEN value[ThenOf(c)] ELSE value[ElseOf(c)]
      BY <1>6, <2>2, Evaluation
    <3>3. value[ThenOf(c)] = 1 <=> value[src] = 0
      BY <1>6, <2>2, <3>1, EqualsZeroValue
    <3>4. value[ElseOf(c)] = 1
      <4>1. ElseOf(c).k = "op" /\ Lit(0) \in {ElseOf(c).a[1], ElseOf(c).a[2]}
        BY <2>2 DEF EqualsZero, IsOp
      <4>2. Lit(0) \in T
        BY <3>1, <4>1, OpParts
      <4>3. value[Lit(0)] = 0
        BY <4>2, ZeroValue DEF IsZero, Lit, Node
      <4> QED
        BY <2>2, <3>1, <4>2, <4>3, EqualsZeroValue
    <3> QED
      BY <1>8, <3>2, <3>3, <3>4
  <2> QED
    BY <1>2, <2>1, <2>2
<1>10. value[inner] # NullValue
  BY DEF GivenWhere
<1> QED
  BY <1>4, <1>5, <1>7, <1>8, <1>9, <1>10

\* IF(prior == 0) THEN default ELSE prior, where prior is IF(join) THEN src
\* ELSE 0: the test for the default moves into the condition of the join.  On
\* every row where the joined source is not NULL.
THEOREM JoinZeroDefaultsKeepValue ==
  ASSUME NEW T, NEW rank, NEW row, NEW value, NEW rule, NEW pass,
         IsForest(T, rank), IsMeaning(T, row, value),
         IsJoinZeroDefaults(T, rank, rule, pass),
         GivenWhere(T, rule, value)
  PROVE  KeepsValue(T, value, pass)
<1>1. /\ IsPass(T, pass) /\ ShrinksBy(T, rank, rule, pass)
      /\ \A n \in T : pass[n] = Reapplied(LAMBDA x : pass[x], LAMBDA x : rule[x], n)
  BY DEF IsJoinZeroDefaults, IsReapplied
<1>2. ASSUME NEW n \in T, IsIf(n), rule[n] # Absent PROVE value[rule[n]] = value[n]
  BY <1>2, JoinZeroDefaultValue DEF IsJoinZeroDefaults
<1> QED
  BY <1>1, <1>2, Reapplication

\* IF(c1) THEN v ELSE IF(c2) THEN v ELSE e is IF(OR(c1, c2)) THEN v ELSE e, all
\* along a chain.
THEOREM MergeAdjacentKeepsValue ==
  ASSUME NEW T, NEW rank, NEW row, NEW value, NEW pass,
         IsForest(T, rank), IsMeaning(T, row, value), IsMergeAdjacent(T, pass)
  PROVE  KeepsValue(T, value, pass)
<1> DEFINE Good == {n \in T : value[pass[n]] = value[n]}
<1>1. ASSUME NEW n \in T, \A x \in T : rank[x] < rank[n] => x \in Good
      PROVE  n \in Good
  <2> SUFFICES value[pass[n]] = value[n]
    OBVIOUS
  <2>1. pass[n] \in T /\ pass[n] = MergeAdjacentAt(LAMBDA x : pass[x], n)
    BY DEF IsMergeAdjacent
  <2>2. CASE ~IsIf(n)
    <3>1. pass[n] = n
      BY <2>1, <2>2 DEF MergeAdjacentAt
    <3> QED
      BY <3>1
  <2>3. CASE IsIf(n) /\ IsIf(ElseOf(n)) /\ ThenOf(ElseOf(n)) = ThenOf(n)
    <3> DEFINE next == ElseOf(n)
               either == Op("OR", CondOf(n), CondOf(next))
    <3>1. pass[n] = If(either, ThenOf(n), pass[ElseOf(next)])
      BY <2>1, <2>3 DEF MergeAdjacentAt
    <3>2. either \in T /\ value[pass[n]] = IF value[either] = 1 THEN value[ThenOf(n)] ELSE value[pass[ElseOf(next)]]
      BY <2>1, <3>1, BuiltIf
    <3>3. value[either] = 1 <=> (value[CondOf(n)] = 1 \/ value[CondOf(next)] = 1)
      BY <3>2, BuiltOr
    <3>4. next \in T /\ ElseOf(next) \in T /\ rank[ElseOf(next)] < rank[n]
      <4>1. next \in T /\ rank[next] < rank[n] /\ rank[n] \in Nat /\ rank[next] \in Nat
        BY <2>3, IfParts DEF IsForest
      <4>2. ElseOf(next) \in T /\ rank[ElseOf(next)] < rank[next] /\ rank[ElseOf(next)] \in Nat
        BY <2>3, <4>1, IfParts DEF IsForest
      <4> QED
        BY <4>1, <4>2
    <3>5. value[pass[ElseOf(next)]] = value[ElseOf(next)]
      BY <1>1, <3>4
    <3>6. /\ value[n] = IF value[CondOf(n)] = 1 THEN value[ThenOf(n)] ELSE value[next]
          /\ value[next] = IF value[CondOf(next)] = 1 THEN value[ThenOf(n)] ELSE value[ElseOf(next)]
      BY <2>3, <3>4, Evaluation
    <3> QED
      BY <3>2, <3>3, <3>5, <3>6
  <2>4. CASE IsIf(n) /\ ~(IsIf(ElseOf(n)) /\ ThenOf(ElseOf(n)) = ThenOf(n))
    <3>1. pass[n] = If(CondOf(n), pass[ThenOf(n)], pass[ElseOf(n)])
      BY <2>1, <2>4 DEF MergeAdjacentAt
    <3>2. value[pass[n]] = IF value[CondOf(n)] = 1 THEN value[pass[ThenOf(n)]] ELSE value[pass[ElseOf(n)]]
      BY <2>1, <3>1, BuiltIf
    <3>3. value[pass[ThenOf(n)]] = value[ThenOf(n)] /\ value[pass[ElseOf(n)]] = value[ElseOf(n)]
      BY <1>1, <2>4, IfParts
    <3>4. value[n] = IF value[CondOf(n)] = 1 THEN value[ThenOf(n)] ELSE value[ElseOf(n)]
      BY <2>4, Evaluation
    <3> QED
      BY <3>2, <3>3, <3>4
  <2> QED
    BY <2>2, <2>3, <2>4
<1>2. T = Good
  <2>1. Good \in SUBSET T /\ rank \in [T -> Nat]
    BY DEF IsForest
  <2> HIDE DEF Good
  <2> QED
    BY <1>1, <2>1, ByRank
<1> QED
  BY <1>2 DEF KeepsValue

\* Where the condition of an IF has the subject x, it is true only of an x that
\* is not above zero, and false only of an x that is not below zero, or NULL.
LEMMA ClampSubjectIsBounded ==
  ASSUME NEW T, NEW rank, NEW row, NEW value, NEW subject,
         IsForest(T, rank), IsMeaning(T, row, value), IsClampSubject(T, subject)
  PROVE  \A n \in T : subject[n] # Absent =>
            LET x == value[subject[n]]
            IN  IF value[n] = 1 THEN x # NullValue /\ x <= 0 ELSE x = NullValue \/ x >= 0
<1> DEFINE Bounded(n) == LET x == value[subject[n]]
                         IN  IF value[n] = 1 THEN x # NullValue /\ x <= 0 ELSE x = NullValue \/ x >= 0
           Good == {n \in T : subject[n] # Absent => Bounded(n)}
<1>1. ASSUME NEW n \in T, subject[n] # Absent, \A x \in T : rank[x] < rank[n] => x \in Good
      PROVE  Bounded(n)
  <2>1. subject[n] \in T /\ subject[n] = ClampSubjectOf(LAMBDA x : subject[x], n)
    BY DEF IsClampSubject
  <2>2. CASE n.k = "op"
    <3>1. n.v \in {"<", "<="} /\ IsZero(n.a[2]) /\ subject[n] = n.a[1]
      BY <1>1, <2>1, <2>2 DEF ClampSubjectOf
    <3>2. n.a[1] \in T /\ n.a[2] \in T
      BY <2>2, OpParts
    <3>3. value[n.a[2]] = 0
      BY <3>1, <3>2, ZeroValue
    <3>4. value[n] = AsNumber(Compare(n.v, value[n.a[1]], 0))
      BY <2>2, <3>1, <3>3, Evaluation DEF IsComparison, ComparisonOps, OrderOps
    <3>5. value[n.a[1]] \in Int \cup {NullValue} /\ 0 # NullValue
      BY <3>2, NullIsNoNumber DEF IsMeaning, Values
    <3> DEFINE x == value[n.a[1]]
    <3> SUFFICES IF value[n] = 1 THEN x # NullValue /\ x <= 0 ELSE x = NullValue \/ x >= 0
      BY <3>1
    <3> HIDE DEF x
    <3>6. value[n] = 1 <=> x # NullValue /\ 0 # NullValue /\ ((n.v = "<" /\ x < 0) \/ (n.v = "<=" /\ x <= 0))
      <4>1. value[n] = 1 <=> Compare(n.v, x, 0)
        BY <3>4 DEF x, AsNumber
      <4> QED
        BY <3>1, <4>1 DEF Compare
    <3> QED
      BY <3>1, <3>5, <3>6 DEF x
  <2>3. CASE IsIf(n)
    <3> DEFINE t == subject[ThenOf(n)]
               e == subject[ElseOf(n)]
    <3>1. t # Absent /\ e # Absent /\ subject[n] = If(CondOf(n), t, e)
      BY <1>1, <2>1, <2>3 DEF ClampSubjectOf, IsIf
    <3>2. value[subject[n]] = IF value[CondOf(n)] = 1 THEN value[t] ELSE value[e]
      BY <2>1, <3>1, BuiltIf
    <3>3. Bounded(ThenOf(n)) /\ Bounded(ElseOf(n))
      <4>1. ThenOf(n) \in Good /\ ElseOf(n) \in Good
        BY <1>1, <2>3, IfParts
      <4> QED
        BY <3>1, <4>1
    <3>4. value[n] = IF value[CondOf(n)] = 1 THEN value[ThenOf(n)] ELSE value[ElseOf(n)]
      BY <2>3, Evaluation
    <3> QED
      BY <3>2, <3>3, <3>4
  <2>4. n.k = "op" \/ IsIf(n)
    BY <1>1, <2>1 DEF ClampSubjectOf
  <2> QED
    BY <2>2, <2>3, <2>4
<1>2. T = Good
  <2>1. Good \in SUBSET T /\ rank \in [T -> Nat]
    BY DEF IsForest
  <2>2. \A n \in T : (\A x \in T : rank[x] < rank[n] => x \in Good) => n \in Good
    BY <1>1
  <2> HIDE DEF Good
  <2> QED
    BY <2>1, <2>2, ByRank
<1> QED
  BY <1>2

\* On a row where x is not NULL, IF(x < 0) THEN 0 ELSE x is MAX(x, 0).
LEMMA NegativeClampValue ==
  ASSUME NEW T, NEW rank, NEW row, NEW value, NEW subject, NEW rule, NEW n \in T,
         IsForest(T, rank), IsMeaning(T, row, value), IsClampSubject(T, subject),
         IsNegativeClamp(T, subject, rule), GivenWhere(T, rule, value), IsIf(n), rule[n] # Absent
  PROVE  value[rule[n]] = value[n]
<1> DEFINE s == subject[CondOf(n)]
           zero == Lit(0)
           x == ElseOf(n)
<1>2. /\ IsZero(ThenOf(n)) /\ s # Absent
      /\ x = s \/ (IsFn(s, "COALESCE") /\ IsZero(s.a[2]) /\ x = s.a[1])
      /\ rule[n] = Fn("MAX", <<x, zero>>)
  BY DEF IsNegativeClamp, NegativeClampOf
<1>4. zero \in T /\ value[rule[n]] = Larger(value[x], value[zero])
  BY <1>2, BuiltMax DEF IsNegativeClamp
<1>5. value[zero] = 0
  BY <1>4, ZeroValue DEF IsZero, Lit, Node
<1>6. CondOf(n) \in T /\ ThenOf(n) \in T /\ x \in T /\ s \in T
  BY IfParts DEF IsClampSubject
<1>7. value[n] = IF value[CondOf(n)] = 1 THEN 0 ELSE value[x]
  <2>1. value[ThenOf(n)] = 0
    BY <1>2, <1>6, ZeroValue
  <2> QED
    BY <2>1, Evaluation
<1>8. value[x] \in Int
  <2>1. value[x] \in Int \cup {NullValue}
    BY <1>6 DEF IsMeaning, Values
  <2> QED
    BY <2>1 DEF GivenWhere
<1>9. value[s] = value[x]
  <2>1. ASSUME IsFn(s, "COALESCE"), x = s.a[1] PROVE value[s] = value[x]
    <3>1. value[s] = IF value[x] = NullValue THEN value[s.a[2]] ELSE value[x]
      BY <1>6, <2>1, Evaluation
    <3> QED
      BY <3>1, <1>8, NullIsNoNumber
  <2> QED
    BY <1>2, <2>1
<1>10. IF value[CondOf(n)] = 1 THEN value[x] <= 0 ELSE value[x] >= 0
  <2>1. IF value[CondOf(n)] = 1 THEN value[s] # NullValue /\ value[s] <= 0
                                ELSE value[s] = NullValue \/ value[s] >= 0
    BY <1>2, <1>6, ClampSubjectIsBounded
  <2> QED
    BY <2>1, <1>8, <1>9, NullIsNoNumber
<1> HIDE DEF x, zero
<1> QED
  BY <1>4, <1>5, <1>7, <1>8, <1>10, NullIsNoNumber DEF Larger

\* IF(x < 0) THEN 0 ELSE x is MAX(x, 0), the comparison distributed over the
\* branches of x or not.  On every row where the clamped value is not NULL.
THEOREM NegativeClampsKeepValue ==
  ASSUME NEW T, NEW rank, NEW row, NEW value, NEW subject, NEW rule, NEW pass,
         IsForest(T, rank), IsMeaning(T, row, value), IsClampSubject(T, subject),
         IsNegativeClamps(T, rank, subject, rule, pass),
         GivenWhere(T, rule, value)
  PROVE  KeepsValue(T, value, pass)
<1>1. /\ IsPass(T, pass) /\ ShrinksBy(T, rank, rule, pass)
      /\ \A n \in T : pass[n] = Reapplied(LAMBDA x : pass[x], LAMBDA x : rule[x], n)
  BY DEF IsNegativeClamps, IsReapplied
<1>2. ASSUME NEW n \in T, IsIf(n), rule[n] # Absent PROVE value[rule[n]] = value[n]
  BY <1>2, NegativeClampValue DEF IsNegativeClamps
<1> QED
  BY <1>1, <1>2, Reapplication

\* The value of a product of conditional values is that of the conditional
\* products hoist makes, and what hoist makes is conditional.
LEMMA HoistKeepsValue ==
  ASSUME NEW T, NEW rank, NEW row, NEW value, NEW hoist,
         IsForest(T, rank), IsMeaning(T, row, value), IsHoist(T, rank, hoist)
  PROVE  \A n \in T : hoist[n] # Absent => IsIf(hoist[n]) /\ value[hoist[n]] = value[n]
<1> DEFINE Good == {n \in T : hoist[n] # Absent => IsIf(hoist[n]) /\ value[hoist[n]] = value[n]}
           AsIf(side) == IF IsIf(side) /\ ElseOf(side) # Absent THEN side ELSE hoist[side]
           Branch(x) == IF hoist[x] = Absent THEN x ELSE hoist[x]
<1>1. ASSUME NEW n \in T, hoist[n] # Absent, \A x \in T : rank[x] < rank[n] => x \in Good
      PROVE  IsIf(hoist[n]) /\ value[hoist[n]] = value[n]
  <2> DEFINE l == AsIf(n.a[1])
             r == AsIf(n.a[2])
  <2>1. /\ IsArithmetic(n)
        /\ \/ /\ l # Absent
              /\ hoist[n] = If(CondOf(l), Branch(Op(n.v, ThenOf(l), n.a[2])),
                                          Branch(Op(n.v, ElseOf(l), n.a[2])))
           \/ /\ r # Absent
              /\ hoist[n] = If(CondOf(r), Branch(Op(n.v, n.a[1], ThenOf(r))),
                                          Branch(Op(n.v, n.a[1], ElseOf(r))))
    <3>1. hoist[n] = HoistAt(LAMBDA x : hoist[x], n)
      BY DEF IsHoist
    <3> QED
      BY <1>1, <3>1 DEF HoistAt
  <2>2. hoist[n] \in T
    BY DEF IsHoist
  <2>3. /\ n.a[1] \in T /\ rank[n.a[1]] < rank[n] /\ n.a[2] \in T /\ rank[n.a[2]] < rank[n]
        /\ n.v \in ArithmeticOps
        /\ value[n] = Arithmetic(n.v, value[n.a[1]], value[n.a[2]])
    BY <2>1, OpParts, Evaluation DEF IsArithmetic
  <2>4. ASSUME NEW side \in T, rank[side] < rank[n], AsIf(side) # Absent
        PROVE  /\ AsIf(side) \in {side, hoist[side]} /\ AsIf(side) \in T /\ IsIf(AsIf(side))
               /\ value[AsIf(side)] = value[side]
    <3>1. CASE IsIf(side) /\ ElseOf(side) # Absent
      BY <3>1
    <3>2. CASE ~(IsIf(side) /\ ElseOf(side) # Absent)
      <4>1. AsIf(side) = hoist[side] /\ hoist[side] \in T
        BY <3>2 DEF IsHoist
      <4>2. side \in Good
        BY <1>1, <2>4
      <4> QED
        BY <2>4, <4>1, <4>2
    <3> QED
      BY <3>1, <3>2
  <2>5. ASSUME NEW x \in T, rank[x] < rank[n] PROVE value[Branch(x)] = value[x]
    BY <1>1, <2>5
  <2>6. ASSUME l # Absent,
               hoist[n] = If(CondOf(l), Branch(Op(n.v, ThenOf(l), n.a[2])),
                                        Branch(Op(n.v, ElseOf(l), n.a[2])))
        PROVE  IsIf(hoist[n]) /\ value[hoist[n]] = value[n]
    <3> DEFINE p == Op(n.v, ThenOf(l), n.a[2])
               q == Op(n.v, ElseOf(l), n.a[2])
    <3>1. l \in {n.a[1], hoist[n.a[1]]} /\ l \in T /\ IsIf(l) /\ value[l] = value[n.a[1]]
      BY <2>3, <2>4, <2>6
    <3> HIDE DEF l
    <3>2. p \in T /\ rank[p] < rank[n] /\ q \in T /\ rank[q] < rank[n]
      BY <2>1, <3>1 DEF IsHoist
    <3>3. /\ value[p] = Arithmetic(n.v, value[ThenOf(l)], value[n.a[2]])
          /\ value[q] = Arithmetic(n.v, value[ElseOf(l)], value[n.a[2]])
      BY <2>3, <3>2, BuiltOperation
    <3>4. value[Branch(p)] = value[p] /\ value[Branch(q)] = value[q]
      BY <2>5, <3>2
    <3>5. value[l] = IF value[CondOf(l)] = 1 THEN value[ThenOf(l)] ELSE value[ElseOf(l)]
      BY <3>1, Evaluation
    <3> HIDE DEF p, q, Branch
    <3>6. /\ IsIf(hoist[n])
          /\ value[hoist[n]] = IF value[CondOf(l)] = 1 THEN value[Branch(p)] ELSE value[Branch(q)]
      BY <2>2, <2>6, BuiltIf DEF p, q
    <3> QED
      BY <2>3, <3>1, <3>3, <3>4, <3>5, <3>6
  <2>7. ASSUME r # Absent,
               hoist[n] = If(CondOf(r), Branch(Op(n.v, n.a[1], ThenOf(r))),
                                        Branch(Op(n.v, n.a[1], ElseOf(r))))
        PROVE  IsIf(hoist[n]) /\ value[hoist[n]] = value[n]
    <3> DEFINE p == Op(n.v, n.a[1], ThenOf(r))
               q == Op(n.v, n.a[1], ElseOf(r))
    <3>1. r \in {n.a[2], hoist[n.a[2]]} /\ r \in T /\ IsIf(r) /\ value[r] = value[n.a[2]]
      BY <2>3, <2>4, <2>7
    <3> HIDE DEF r
    <3>2. p \in T /\ rank[p] < rank[n] /\ q \in T /\ rank[q] < rank[n]
      BY <2>1, <3>1 DEF IsHoist
    <3>3. /\ value[p] = Arithmetic(n.v, value[n.a[1]], value[ThenOf(r)])
          /\ value[q] = Arithmetic(n.v, value[n.a[1]], value[ElseOf(r)])
      BY <2>3, <3>2, BuiltOperation
    <3>4. value[Branch(p)] = value[p] /\ value[Branch(q)] = value[q]
      BY <2>5, <3>2
    <3>5. value[r] = IF value[CondOf(r)] = 1 THEN value[ThenOf(r)] ELSE value[ElseOf(r)]
      BY <3>1, Evaluation
    <3> HIDE DEF p, q, Branch
    <3>6. /\ IsIf(hoist[n])
          /\ value[hoist[n]] = IF value[CondOf(r)] = 1 THEN value[Branch(p)] ELSE value[Branch(q)]
      BY <2>2, <2>7, BuiltIf DEF p, q
    <3> QED
      BY <2>3, <3>1, <3>3, <3>4, <3>5, <3>6
  <2> QED
    BY <2>1, <2>6, <2>7
<1>2. T = Good
  <2>1. Good \in SUBSET T /\ rank \in [T -> Nat]
    BY DEF IsForest
  <2>2. \A n \in T : (\A x \in T : rank[x] < rank[n] => x \in Good) => n \in Good
    BY <1>1
  <2> HIDE DEF Good
  <2> QED
    BY <2>1, <2>2, ByRank
<1> QED
  BY <1>2

\* A comparison of conditional values is the conditional of the comparisons.
THEOREM DistributeKeepsValue ==
  ASSUME NEW T, NEW rank, NEW row, NEW value, NEW hoist, NEW pass,
         IsForest(T, rank), IsMeaning(T, row, value),
         IsHoist(T, rank, hoist), IsDistribute(T, hoist, pass)
  PROVE  KeepsValue(T, value, pass)
<1> DEFINE Good == {n \in T : value[pass[n]] = value[n]}
           Surfaced(x) == IF hoist[x] = Absent THEN x ELSE hoist[x]
<1>1. ASSUME NEW n \in T, \A x \in T : rank[x] < rank[n] => x \in Good
      PROVE  value[pass[n]] = value[n]
  <2> DEFINE l == Surfaced(n.a[1])
             r == Surfaced(n.a[2])
             Over(x, y) == Op(n.v, pass[x], pass[y])
  <2>1. \/ /\ IsComparison(n) /\ IsIf(l)
           /\ pass[n] = If(pass[CondOf(l)], Over(ThenOf(l), r), Over(ElseOf(l), r))
        \/ /\ IsComparison(n) /\ IsIf(r)
           /\ pass[n] = If(pass[CondOf(r)], Over(l, ThenOf(r)), Over(l, ElseOf(r)))
        \/ pass[n] = Image(pass, n)
    <3>1. pass[n] = DistributeAt(LAMBDA x : pass[x], LAMBDA x : hoist[x], n)
      BY DEF IsDistribute
    <3> QED
      BY <3>1 DEF DistributeAt, Image
  <2>2. pass[n] \in T /\ IsPass(T, pass)
    BY DEF IsDistribute, IsPass
  <2>3. ASSUME NEW x \in T, rank[x] < rank[n]
        PROVE  Surfaced(x) \in T /\ rank[Surfaced(x)] < rank[n] /\ value[Surfaced(x)] = value[x]
    <3>1. CASE hoist[x] = Absent
      BY <2>3, <3>1
    <3>2. CASE hoist[x] # Absent
      <4>1. hoist[x] \in T /\ rank[hoist[x]] < rank[x]
        BY <3>2 DEF IsHoist
      <4>2. rank[hoist[x]] \in Nat /\ rank[x] \in Nat /\ rank[n] \in Nat
        BY <4>1 DEF IsForest
      <4> QED
        BY <2>3, <3>2, <4>1, <4>2, HoistKeepsValue
    <3> QED
      BY <3>1, <3>2
  <2>4. ASSUME IsComparison(n)
        PROVE  /\ l \in T /\ rank[l] < rank[n] /\ r \in T /\ rank[r] < rank[n]
               /\ n.v \in ComparisonOps
               /\ value[n] = AsNumber(Compare(n.v, value[l], value[r]))
    <3>1. /\ n.a[1] \in T /\ rank[n.a[1]] < rank[n] /\ n.a[2] \in T /\ rank[n.a[2]] < rank[n]
      BY <2>4, OpParts DEF IsComparison
    <3>2. value[n] = AsNumber(Compare(n.v, value[n.a[1]], value[n.a[2]]))
      BY <2>4, Evaluation
    <3>3. n.v \in ComparisonOps
      BY <2>4 DEF IsComparison
    <3>4. value[l] = value[n.a[1]] /\ value[r] = value[n.a[2]]
      BY <2>3, <3>1
    <3>5. l \in T /\ rank[l] < rank[n] /\ r \in T /\ rank[r] < rank[n]
      BY <2>3, <3>1
    <3> HIDE DEF l, r
    <3> QED
      BY <3>2, <3>3, <3>4, <3>5
  <2> HIDE DEF l, r
  <2>5. ASSUME NEW s \in T, IsIf(s), rank[s] < rank[n]
        PROVE  /\ CondOf(s) \in T /\ ThenOf(s) \in T /\ ElseOf(s) \in T
               /\ value[pass[CondOf(s)]] = value[CondOf(s)]
               /\ value[pass[ThenOf(s)]] = value[ThenOf(s)]
               /\ value[pass[ElseOf(s)]] = value[ElseOf(s)]
               /\ value[s] = IF value[CondOf(s)] = 1 THEN value[ThenOf(s)] ELSE value[ElseOf(s)]
    <3>1. /\ CondOf(s) \in T /\ rank[CondOf(s)] < rank[s]
          /\ ThenOf(s) \in T /\ rank[ThenOf(s)] < rank[s]
          /\ ElseOf(s) \in T /\ rank[ElseOf(s)] < rank[s]
      BY <2>5, IfParts
    <3>2. rank[CondOf(s)] < rank[n] /\ rank[ThenOf(s)] < rank[n] /\ rank[ElseOf(s)] < rank[n]
      <4>1. \A x \in T : rank[x] \in Nat
        BY DEF IsForest
      <4> QED
        BY <2>5, <3>1, <4>1
    <3> QED
      BY <1>1, <2>5, <3>1, <3>2, Evaluation
  <2>6. ASSUME NEW x \in T, NEW y \in T, n.v \in ComparisonOps, Over(x, y) \in T,
               value[pass[x]] = value[x], value[pass[y]] = value[y]
        PROVE  value[Over(x, y)] = AsNumber(Compare(n.v, value[x], value[y]))
    BY <2>6, BuiltOperation
  <2> HIDE DEF Over
  <2>7. ASSUME IsComparison(n), IsIf(l),
               pass[n] = If(pass[CondOf(l)], Over(ThenOf(l), r), Over(ElseOf(l), r))
        PROVE  value[pass[n]] = value[n]
    <3>1. /\ Over(ThenOf(l), r) \in T /\ Over(ElseOf(l), r) \in T
          /\ value[pass[n]] = IF value[pass[CondOf(l)]] = 1 THEN value[Over(ThenOf(l), r)]
                                                            ELSE value[Over(ElseOf(l), r)]
      BY <2>2, <2>7, BuiltIf
    <3>2. value[pass[r]] = value[r]
      BY <1>1, <2>4, <2>7
    <3>3. /\ value[Over(ThenOf(l), r)] = AsNumber(Compare(n.v, value[ThenOf(l)], value[r]))
          /\ value[Over(ElseOf(l), r)] = AsNumber(Compare(n.v, value[ElseOf(l)], value[r]))
      BY <2>4, <2>5, <2>6, <2>7, <3>1, <3>2
    <3> QED
      BY <2>4, <2>5, <2>7, <3>1, <3>3
  <2>8. ASSUME IsComparison(n), IsIf(r),
               pass[n] = If(pass[CondOf(r)], Over(l, ThenOf(r)), Over(l, ElseOf(r)))
        PROVE  value[pass[n]] = value[n]
    <3>1. /\ Over(l, ThenOf(r)) \in T /\ Over(l, ElseOf(r)) \in T
          /\ value[pass[n]] = IF value[pass[CondOf(r)]] = 1 THEN value[Over(l, ThenOf(r))]
                                                            ELSE value[Over(l, ElseOf(r))]
      BY <2>2, <2>8, BuiltIf
    <3>2. value[pass[l]] = value[l]
      BY <1>1, <2>4, <2>8
    <3>3. /\ value[Over(l, ThenOf(r))] = AsNumber(Compare(n.v, value[l], value[ThenOf(r)]))
          /\ value[Over(l, ElseOf(r))] = AsNumber(Compare(n.v, value[l], value[ElseOf(r)]))
      BY <2>4, <2>5, <2>6, <2>8, <3>1, <3>2
    <3> QED
      BY <2>4, <2>5, <2>8, <3>1, <3>3
  <2>9. ASSUME pass[n] = Image(pass, n) PROVE value[pass[n]] = value[n]
    <3>1. \A i \in DOMAIN n.a : n.a[i] \in T /\ rank[n.a[i]] < rank[n]
      BY Shape
    <3>2. \A i \in DOMAIN n.a : value[pass[n.a[i]]] = value[n.a[i]]
      BY <3>1, <1>1
    <3> QED
      BY <2>2, <2>9, <3>2, Congruence
  <2> QED
    BY <2>1, <2>7, <2>8, <2>9
<1>2. T = Good
  <2>1. Good \in SUBSET T /\ rank \in [T -> Nat]
    BY DEF IsForest
  <2>2. \A n \in T : (\A x \in T : rank[x] < rank[n] => x \in Good) => n \in Good
    BY <1>1
  <2> HIDE DEF Good
  <2> QED
    BY <2>1, <2>2, ByRank
<1> QED
  BY <1>2 DEF KeepsValue

\* What folding takes to be a truth value is one.
LEMMA BooleanishIsBoolean ==
  ASSUME NEW T, NEW rank, NEW row, NEW value,
         IsForest(T, rank), IsMeaning(T, row, value), NEW n \in T, Booleanish(n)
  PROVE  value[n] \in {0, 1}
<1>1. CASE IsBool(n)
  BY <1>1, LiteralValue DEF IsBool
<1>2. CASE IsComparison(n)
  BY <1>2, Evaluation DEF AsNumber
<1>3. CASE IsOp(n, "AND") \/ IsOp(n, "OR")
  BY <1>3, Evaluation DEF AsNumber
<1>4. CASE n.k = "fn" /\ n.v \in {"ISEMPTY", "ISNOTEMPTY", "NOT"}
  <2>1. IsFn(n, "ISEMPTY") \/ IsFn(n, "ISNOTEMPTY") \/ IsFn(n, "NOT")
    BY <1>4 DEF IsFn
  <2> QED
    BY <2>1, Evaluation DEF AsNumber
<1> QED
  BY <1>1, <1>2, <1>3, <1>4 DEF Booleanish

\* The literals TRUE and FALSE.
LEMMA TruthValues ==
  ASSUME NEW T, NEW rank, NEW row, NEW value, IsForest(T, rank), IsMeaning(T, row, value)
  PROVE  LET yes == Bool(TRUE)  no == Bool(FALSE) IN
         /\ yes # no /\ IsBool(yes) /\ IsBool(no)
         /\ yes \in T => value[yes] = 1
         /\ no \in T => value[no] = 0
         /\ \A n \in T : IsBool(n) => n \in {yes, no}
<1> DEFINE yes == Bool(TRUE)
           no == Bool(FALSE)
<1>1. /\ yes.n = 1 /\ yes.k = "lit" /\ yes.v = "bool"
      /\ no.n = 0 /\ no.k = "lit" /\ no.v = "bool"
  BY DEF Bool, Node
<1>2. ASSUME NEW n \in T, IsBool(n) PROVE n \in {yes, no}
  <2>1. n \in {Null, yes, no} \/ (n.v = "num" /\ n.n \in Int)
    BY <1>2, Shape DEF WellFormed, IsBool
  <2>2. Null.v = "null"
    BY DEF Null, Node
  <2> HIDE DEF yes, no
  <2> QED
    BY <1>2, <2>1, <2>2 DEF IsBool
<1> SUFFICES /\ yes # no /\ IsBool(yes) /\ IsBool(no)
             /\ yes \in T => value[yes] = 1
             /\ no \in T => value[no] = 0
  BY <1>2
<1> HIDE DEF yes, no
<1> QED
  BY <1>1, Evaluation DEF IsBool

LEMMA DecideKeepsValue ==
  ASSUME NEW T, NEW rank, NEW row, NEW value, IsForest(T, rank), IsMeaning(T, row, value),
         NEW m \in T, DecidedComparison(m), Decide(m) \in T
  PROVE  value[Decide(m)] = value[m]
<1> DEFINE x == m.a[1]
           y == m.a[2]
           bothText == x.k = "str" /\ y.k = "str"
           outcome == IF bothText THEN (m.v = "==") = (x = y)
                      ELSE ~IsNull(x) /\ ~IsNull(y) /\ Compare(m.v, x.n, y.n)
<1>1. /\ IsComparison(m) /\ IsLiteral(x) /\ IsLiteral(y)
      /\ \/ IsNull(x) \/ IsNull(y)
         \/ x.k = "lit" /\ y.k = "lit"
         \/ bothText /\ m.v \in {"==", "!="}
  BY DEF DecidedComparison
<1>2. x \in T /\ y \in T
  BY <1>1, OpParts DEF IsComparison
<1>3. value[m] = AsNumber(Compare(m.v, value[x], value[y]))
  BY <1>1, Evaluation
<1>4. value[Decide(m)] = IF outcome THEN 1 ELSE 0
  <2> DEFINE d == Decide(m)
  <2>1. d.k = "lit" /\ d.n = IF outcome THEN 1 ELSE 0
    BY DEF Decide, Bool, Node
  <2>2. value[d] = d.n
    <3> HIDE DEF d
    <3>1. d \in T
      BY DEF d
    <3> QED
      BY <2>1, <3>1, Evaluation
  <2> QED
    BY <2>1, <2>2
<1>5. outcome <=> Compare(m.v, value[x], value[y])
  <2>1. CASE bothText
    <3>1. ~IsNull(x) /\ ~IsNull(y) /\ m.v \in {"==", "!="}
      BY <1>1, <2>1 DEF IsNull
    <3>2. value[x] # NullValue /\ value[y] # NullValue /\ (value[x] = value[y] <=> x = y)
      BY <1>2, <2>1 DEF IsMeaning
    <3>3. Compare(m.v, value[x], value[y]) <=> IF m.v = "==" THEN value[x] = value[y] ELSE value[x] # value[y]
      BY <3>1, <3>2 DEF Compare
    <3>4. outcome <=> IF m.v = "==" THEN x = y ELSE x # y
      BY <2>1
    <3> QED
      BY <3>2, <3>3, <3>4
  <2>2. CASE ~bothText /\ (IsNull(x) \/ IsNull(y))
    <3>1. value[x] = NullValue \/ value[y] = NullValue
      BY <1>2, <2>2, LiteralValue DEF IsNull
    <3>2. ~Compare(m.v, value[x], value[y])
      BY <3>1 DEF Compare
    <3> QED
      BY <2>2, <3>2
  <2>3. CASE ~bothText /\ ~IsNull(x) /\ ~IsNull(y)
    <3>1. x.k = "lit" /\ y.k = "lit"
      BY <1>1, <2>3
    <3>2. value[x] = x.n /\ value[y] = y.n
      BY <1>2, <3>1, Evaluation
    <3> QED
      BY <2>3, <3>2
  <2> QED
    BY <2>1, <2>2, <2>3
<1> HIDE DEF outcome
<1> QED
  BY <1>3, <1>4, <1>5 DEF AsNumber

LEMMA FoldLogicalKeepsValue ==
  ASSUME NEW T, NEW rank, NEW row, NEW value, IsForest(T, rank), IsMeaning(T, row, value),
         HasConditions(T, value), NEW m \in T, IsOp(m, "AND") \/ IsOp(m, "OR")
  PROVE  value[FoldLogical(m)] = value[m]
<1> DEFINE yes == Bool(TRUE)
           no == Bool(FALSE)
           neutral == Bool(m.v = "AND")
           x == m.a[1]
           y == m.a[2]
           f == FoldLogical(m)
<1>1. x \in T /\ y \in T /\ value[x] \in {0, 1} /\ value[y] \in {0, 1}
  BY OpParts DEF HasConditions, IsOp
<1>2. /\ yes # no
      /\ yes \in T => value[yes] = 1
      /\ no \in T => value[no] = 0
      /\ \A n \in T : IsBool(n) => n \in {yes, no}
  BY TruthValues
<1>3. /\ IsOp(m, "AND") => value[m] = IF value[x] = 1 /\ value[y] = 1 THEN 1 ELSE 0
      /\ IsOp(m, "OR") => value[m] = IF value[x] = 1 \/ value[y] = 1 THEN 1 ELSE 0
  BY Evaluation DEF AsNumber
<1>4. /\ IsOp(m, "AND") => neutral = yes
      /\ IsOp(m, "OR") => neutral = no
  BY DEF IsOp, Bool
<1>5. f = IF IsBool(x) THEN IF x = neutral THEN y ELSE x
          ELSE IF IsBool(y) THEN IF y = neutral THEN x ELSE y ELSE m
  BY DEF FoldLogical
<1> SUFFICES value[f] = value[m]
  OBVIOUS
<1> HIDE DEF yes, no, neutral, x, y, f
<1> QED
  BY <1>1, <1>2, <1>3, <1>4, <1>5

LEMMA FoldIfKeepsValue ==
  ASSUME NEW T, NEW rank, NEW row, NEW value, IsForest(T, rank), IsMeaning(T, row, value),
         HasConditions(T, value), NEW m \in T, IsIf(m), FoldIf(m) \in T
  PROVE  value[FoldIf(m)] = value[m]
<1> DEFINE yes == Bool(TRUE)
           no == Bool(FALSE)
           c == CondOf(m)
           t == ThenOf(m)
           e == ElseOf(m)
           f == FoldIf(m)
<1>1. c \in T /\ t \in T /\ e \in T /\ value[c] \in {0, 1}
  BY IfParts DEF HasConditions
<1>2. /\ yes # no /\ IsBool(yes) /\ IsBool(no)
      /\ yes \in T => value[yes] = 1
      /\ no \in T => value[no] = 0
      /\ \A n \in T : IsBool(n) => n \in {yes, no}
  BY TruthValues
<1>3. value[m] = IF value[c] = 1 THEN value[t] ELSE value[e]
  BY Evaluation
<1>4. \/ IsBool(c) /\ f = IF c = yes THEN t ELSE e
      \/ f = m
      \/ /\ Booleanish(t) /\ Booleanish(e)
         /\ \/ ~IsBool(t) /\ ~IsBool(e) /\ f = Op("OR", Op("AND", c, t), Op("AND", Negate(c), e))
            \/ IsBool(t) /\ IsBool(e) /\ f = IF t = e THEN t ELSE IF t = yes THEN c ELSE Negate(c)
            \/ t = yes /\ f = Op("OR", c, e)
            \/ t = no /\ f = Op("AND", Negate(c), e)
            \/ e = yes /\ f = Op("OR", Negate(c), t)
            \/ e = no /\ f = Op("AND", c, t)
  <2>1. CASE IsBool(c)
    BY <2>1 DEF FoldIf
  <2>2. CASE ~IsBool(c) /\ ~(Booleanish(t) /\ Booleanish(e))
    BY <2>2 DEF FoldIf
  <2>3. CASE ~IsBool(c) /\ Booleanish(t) /\ Booleanish(e)
    <3>1. f = CASE ~IsBool(t) /\ ~IsBool(e) ->
                    Op("OR", Op("AND", c, t), Op("AND", Negate(c), e))
                [] IsBool(t) /\ IsBool(e) ->
                    IF t = e THEN t ELSE IF t = yes THEN c ELSE Negate(c)
                [] t = yes /\ ~IsBool(e) -> Op("OR", c, e)
                [] t = no /\ ~IsBool(e) -> Op("AND", Negate(c), e)
                [] e = yes /\ ~IsBool(t) -> Op("OR", Negate(c), t)
                [] e = no /\ ~IsBool(t) -> Op("AND", c, t)
      BY <2>3 DEF FoldIf
    <3> HIDE DEF yes, no, c, t, e, f
    <3> QED
      BY <1>1, <1>2, <2>3, <3>1
  <2> QED
    BY <2>1, <2>2, <2>3
<1>5. f \in T
  OBVIOUS
<1> SUFFICES value[f] = value[m]
  OBVIOUS
<1> HIDE DEF yes, no, c, t, e, f
<1>6. CASE IsBool(c) /\ f = IF c = yes THEN t ELSE e
  BY <1>1, <1>2, <1>3, <1>6
<1>7. CASE f = m
  BY <1>7
<1>8. ASSUME Booleanish(t), Booleanish(e) PROVE value[t] \in {0, 1} /\ value[e] \in {0, 1}
  BY <1>1, <1>8, BooleanishIsBoolean
<1>9. CASE Booleanish(t) /\ Booleanish(e) /\ f = Op("OR", Op("AND", c, t), Op("AND", Negate(c), e))
  <2>1. /\ Op("AND", c, t) \in T /\ Op("AND", Negate(c), e) \in T
        /\ value[f] = IF value[Op("AND", c, t)] = 1 \/ value[Op("AND", Negate(c), e)] = 1 THEN 1 ELSE 0
    BY <1>5, <1>9, BuiltOr
  <2>2. /\ value[Op("AND", c, t)] = IF value[c] = 1 /\ value[t] = 1 THEN 1 ELSE 0
        /\ Negate(c) \in T
        /\ value[Op("AND", Negate(c), e)] = IF value[Negate(c)] = 1 /\ value[e] = 1 THEN 1 ELSE 0
    BY <2>1, BuiltAnd
  <2>3. value[Negate(c)] = IF value[c] # 1 THEN 1 ELSE 0
    BY <2>2, BuiltNot
  <2> QED
    BY <1>1, <1>3, <1>8, <1>9, <2>1, <2>2, <2>3
<1>10. CASE IsBool(t) /\ IsBool(e) /\ f = IF t = e THEN t ELSE IF t = yes THEN c ELSE Negate(c)
  <2>1. f = Negate(c) => value[f] = IF value[c] # 1 THEN 1 ELSE 0
    BY <1>5, BuiltNot
  <2>2. t \in {yes, no} /\ e \in {yes, no}
    BY <1>1, <1>2, <1>10
  <2>3. ((t = yes \/ e = yes) => value[yes] = 1) /\ ((t = no \/ e = no) => value[no] = 0)
    BY <1>1, <1>2
  <2> QED
    BY <1>1, <1>2, <1>3, <1>10, <2>1, <2>2, <2>3
<1>11. CASE Booleanish(t) /\ Booleanish(e) /\ t = yes /\ f = Op("OR", c, e)
  <2>1. value[f] = IF value[c] = 1 \/ value[e] = 1 THEN 1 ELSE 0
    BY <1>5, <1>11, BuiltOr
  <2> QED
    BY <1>1, <1>2, <1>3, <1>8, <1>11, <2>1
<1>12. CASE Booleanish(t) /\ Booleanish(e) /\ t = no /\ f = Op("AND", Negate(c), e)
  <2>1. Negate(c) \in T /\ value[f] = IF value[Negate(c)] = 1 /\ value[e] = 1 THEN 1 ELSE 0
    BY <1>5, <1>12, BuiltAnd
  <2>2. value[Negate(c)] = IF value[c] # 1 THEN 1 ELSE 0
    BY <2>1, BuiltNot
  <2> QED
    BY <1>1, <1>2, <1>3, <1>8, <1>12, <2>1, <2>2
<1>13. CASE Booleanish(t) /\ Booleanish(e) /\ e = yes /\ f = Op("OR", Negate(c), t)
  <2>1. Negate(c) \in T /\ value[f] = IF value[Negate(c)] = 1 \/ value[t] = 1 THEN 1 ELSE 0
    BY <1>5, <1>13, BuiltOr
  <2>2. value[Negate(c)] = IF value[c] # 1 THEN 1 ELSE 0
    BY <2>1, BuiltNot
  <2> QED
    BY <1>1, <1>2, <1>3, <1>8, <1>13, <2>1, <2>2
<1>14. CASE Booleanish(t) /\ Booleanish(e) /\ e = no /\ f = Op("AND", c, t)
  <2>1. value[f] = IF value[c] = 1 /\ value[t] = 1 THEN 1 ELSE 0
    BY <1>5, <1>14, BuiltAnd
  <2> QED
    BY <1>1, <1>2, <1>3, <1>8, <1>14, <2>1
<1> QED
  BY <1>4, <1>6, <1>7, <1>9, <1>10, <1>11, <1>12, <1>13, <1>14

\* Comparisons of literals are decided, AND and OR with a truth value are the
\* other operand or the value, and an IF of truth values is their logic.
THEOREM FoldBooleansKeepsValue ==
  ASSUME NEW T, NEW rank, NEW row, NEW value, NEW pass,
         IsForest(T, rank), IsMeaning(T, row, value), HasConditions(T, value),
         IsFoldBooleans(T, pass)
  PROVE  KeepsValue(T, value, pass)
<1>1. IsPass(T, pass)
  BY DEF IsFoldBooleans
<1>2. ASSUME NEW n \in T PROVE value[pass[n]] = value[Image(pass, n)]
  <2> DEFINE m == Image(pass, n)
  <2>1. pass[n] = CASE DecidedComparison(m) -> Decide(m)
                    [] IsOp(m, "AND") \/ IsOp(m, "OR") -> FoldLogical(m)
                    [] IsIf(m) -> FoldIf(m)
                    [] OTHER -> m
    BY DEF IsFoldBooleans, FoldBooleansAt, Image
  <2>2. m \in T /\ pass[n] \in T
    BY <1>1, MappedParts DEF IsPass
  <2> SUFFICES value[pass[n]] = value[m]
    OBVIOUS
  <2> HIDE DEF m
  <2>3. \/ DecidedComparison(m) /\ pass[n] = Decide(m)
        \/ (IsOp(m, "AND") \/ IsOp(m, "OR")) /\ pass[n] = FoldLogical(m)
        \/ IsIf(m) /\ pass[n] = FoldIf(m)
        \/ pass[n] = m
    BY <2>1
  <2> QED
    BY <2>2, <2>3, DecideKeepsValue, FoldLogicalKeepsValue, FoldIfKeepsValue
<1> QED
  BY <1>1, <1>2, BottomUp

-----------------------------------------------------------------------------
(* Conditions as lists.                                                    *)

\* A list ends in an element or is empty, and what holds of the empty list and
\* of a list whenever it holds of the list without its end holds of every list.
LEMMA ListEnd ==
  ASSUME NEW T, NEW L, IsLists(T, L), NEW l \in L, l # <<>>
  PROVE  \E f \in L, x \in T :
            /\ l = Append(f, x) /\ Len(f) = Len(l) - 1
            /\ Members(l) = Members(f) \cup {x}
<1>1. l \in Seq(T)
  BY DEF IsLists
<1>2. PICK f \in Seq(T), x \in T : l = Append(f, x)
  BY <1>1, SequenceEmptyOrAppend
<1>3. /\ Len(l) = Len(f) + 1 /\ Len(f) \in Nat
      /\ \A i \in 1..Len(f) : l[i] = f[i]
      /\ l[Len(f) + 1] = x
  BY <1>2, AppendProperties
<1>4. f = Begin(l)
  BY <1>1, <1>2, <1>3 DEF Begin
<1>5. f \in L
  BY <1>4 DEF IsLists
<1>6. Members(l) = Members(f) \cup {x}
  <2>1. DOMAIN l = 1..Len(f) + 1 /\ DOMAIN f = 1..Len(f)
    BY <1>1, <1>2, <1>3
  <2> QED
    BY <1>3, <2>1 DEF Members
<1> QED
  BY <1>2, <1>3, <1>5, <1>6

LEMMA EndOfAppend ==
  ASSUME NEW T, NEW f \in Seq(T), NEW x \in T
  PROVE  Append(f, x) # <<>> /\ Begin(Append(f, x)) = f /\ End(Append(f, x)) = x
<1>1. /\ Append(f, x) \in Seq(T) /\ Len(Append(f, x)) = Len(f) + 1
      /\ \A i \in 1..Len(f) : Append(f, x)[i] = f[i]
      /\ Append(f, x)[Len(f) + 1] = x
  BY AppendProperties
<1>2. Begin(Append(f, x)) = f
  BY <1>1 DEF Begin
<1> QED
  BY <1>1, <1>2 DEF End

LEMMA ByEnd ==
  ASSUME NEW T, NEW L, IsLists(T, L), NEW Good \in SUBSET L, <<>> \in Good,
         \A f \in Good, x \in T : Append(f, x) \in L => Append(f, x) \in Good
  PROVE  L = Good
<1> DEFINE rank == [l \in L |-> Len(l)]
<1>1. rank \in [L -> Nat]
  BY DEF IsLists
<1>2. ASSUME NEW l \in L, \A f \in L : rank[f] < rank[l] => f \in Good PROVE l \in Good
  <2>1. CASE l = <<>>
    BY <2>1
  <2>2. CASE l # <<>>
    <3>1. PICK f \in L, x \in T : l = Append(f, x) /\ Len(f) = Len(l) - 1
      BY <2>2, ListEnd
    <3>2. rank[f] < rank[l]
      BY <1>1, <3>1
    <3> QED
      BY <1>2, <3>1, <3>2
  <2> QED
    BY <2>1, <2>2
<1> HIDE DEF rank
<1> QED
  BY <1>1, <1>2, ByRank

LEMMA MembersOfConcat ==
  ASSUME NEW T, NEW s \in Seq(T), NEW t \in Seq(T)
  PROVE  Members(s \o t) = Members(s) \cup Members(t)
<1>1. /\ s \o t \in Seq(T) /\ Len(s \o t) = Len(s) + Len(t)
      /\ \A i \in 1..Len(s) + Len(t) : (s \o t)[i] = IF i <= Len(s) THEN s[i] ELSE t[i - Len(s)]
  BY ConcatProperties
<1>2. DOMAIN (s \o t) = 1..Len(s) + Len(t) /\ DOMAIN s = 1..Len(s) /\ DOMAIN t = 1..Len(t)
  BY <1>1
<1>3. Len(s) \in Nat /\ Len(t) \in Nat
  OBVIOUS
<1>4. ASSUME NEW x \in Members(s \o t) PROVE x \in Members(s) \cup Members(t)
  <2>1. PICK i \in 1..Len(s) + Len(t) : x = (s \o t)[i]
    BY <1>2 DEF Members
  <2>2. CASE i <= Len(s)
    BY <1>1, <1>2, <1>3, <2>1, <2>2 DEF Members
  <2>3. CASE i > Len(s)
    <3>1. i - Len(s) \in 1..Len(t) /\ x = t[i - Len(s)]
      BY <1>1, <1>3, <2>1, <2>3
    <3> QED
      BY <1>2, <3>1 DEF Members
  <2> QED
    BY <1>3, <2>2, <2>3
<1>5. ASSUME NEW x \in Members(s) PROVE x \in Members(s \o t)
  <2>1. PICK i \in 1..Len(s) : x = s[i]
    BY <1>2 DEF Members
  <2> QED
    BY <1>1, <1>2, <1>3, <2>1 DEF Members
<1>6. ASSUME NEW x \in Members(t) PROVE x \in Members(s \o t)
  <2>1. PICK i \in 1..Len(t) : x = t[i]
    BY <1>2 DEF Members
  <2>2. Len(s) + i \in 1..Len(s) + Len(t) /\ (s \o t)[Len(s) + i] = x
    BY <1>1, <1>3, <2>1
  <2> QED
    BY <1>2, <2>2 DEF Members
<1> QED
  BY <1>4, <1>5, <1>6

LEMMA EmptyHasNoMembers == Members(<<>>) = {}
  BY DEF Members

LEMMA OneMember ==
  ASSUME NEW x PROVE Members(<<x>>) = {x}
  BY DEF Members

LEMMA MembersOfAppend ==
  ASSUME NEW T, NEW f \in Seq(T), NEW x \in T
  PROVE  Members(Append(f, x)) = Members(f) \cup {x}
<1>1. Append(f, x) = f \o <<x>> /\ <<x>> \in Seq(T)
  BY AppendIsConcat
<1>2. Members(f \o <<x>>) = Members(f) \cup Members(<<x>>)
  BY <1>1, MembersOfConcat
<1> QED
  BY <1>1, <1>2, OneMember

LEMMA ConcatMembers ==
  ASSUME NEW T, NEW L, IsLists(T, L), NEW s \in L, NEW t \in L
  PROVE  Members(s \o t) = Members(s) \cup Members(t)
  BY MembersOfConcat DEF IsLists

\* A conjunction holds when its conjuncts do, a disjunction when one disjunct
\* does, however they are nested.
LEMMA FlattenAndHolds ==
  ASSUME NEW T, NEW L, NEW rank, NEW row, NEW value, NEW conjuncts,
         IsForest(T, rank), IsMeaning(T, row, value), IsLists(T, L),
         IsFlatten(T, L, "AND", conjuncts), NEW c \in T
  PROVE  value[c] = 1 <=> \A p \in Members(conjuncts[c]) : value[p] = 1
<1> DEFINE Good == {n \in T : value[n] = 1 <=> \A p \in Members(conjuncts[n]) : value[p] = 1}
<1>1. ASSUME NEW n \in T, \A x \in T : rank[x] < rank[n] => x \in Good PROVE n \in Good
  <2>1. CASE IsOp(n, "AND")
    <3>1. n.k = "op"
      BY <2>1 DEF IsOp
    <3>2. /\ n.a[1] \in T /\ rank[n.a[1]] < rank[n]
          /\ n.a[2] \in T /\ rank[n.a[2]] < rank[n]
      BY <3>1, OpParts
    <3>3. conjuncts[n] = conjuncts[n.a[1]] \o conjuncts[n.a[2]]
          /\ conjuncts[n.a[1]] \in L /\ conjuncts[n.a[2]] \in L
      BY <2>1, <3>2 DEF IsFlatten
    <3>4. Members(conjuncts[n]) = Members(conjuncts[n.a[1]]) \cup Members(conjuncts[n.a[2]])
      BY <3>3, ConcatMembers
    <3>5. value[n] = AsNumber(value[n.a[1]] = 1 /\ value[n.a[2]] = 1)
      BY <2>1, Evaluation
    <3>6. value[n] = 1 <=> value[n.a[1]] = 1 /\ value[n.a[2]] = 1
      BY <3>5 DEF AsNumber
    <3>7. n.a[1] \in Good /\ n.a[2] \in Good
      BY <1>1, <3>2
    <3> QED
      BY <3>4, <3>6, <3>7
  <2>2. CASE ~IsOp(n, "AND")
    <3>1. conjuncts[n] = <<n>>
      BY <2>2 DEF IsFlatten
    <3> QED
      BY <3>1, OneMember
  <2> QED
    BY <2>1, <2>2
<1>2. Good \in SUBSET T /\ rank \in [T -> Nat]
  BY DEF IsForest
<1>3. T = Good
  <2> HIDE DEF Good
  <2> QED
    BY <1>1, <1>2, ByRank
<1> QED
  BY <1>3

LEMMA FlattenOrHolds ==
  ASSUME NEW T, NEW L, NEW rank, NEW row, NEW value, NEW disjuncts,
         IsForest(T, rank), IsMeaning(T, row, value), IsLists(T, L),
         IsFlatten(T, L, "OR", disjuncts), NEW c \in T
  PROVE  value[c] = 1 <=> \E p \in Members(disjuncts[c]) : value[p] = 1
<1> DEFINE Good == {n \in T : value[n] = 1 <=> \E p \in Members(disjuncts[n]) : value[p] = 1}
<1>1. ASSUME NEW n \in T, \A x \in T : rank[x] < rank[n] => x \in Good PROVE n \in Good
  <2>1. CASE IsOp(n, "OR")
    <3>1. n.k = "op"
      BY <2>1 DEF IsOp
    <3>2. /\ n.a[1] \in T /\ rank[n.a[1]] < rank[n]
          /\ n.a[2] \in T /\ rank[n.a[2]] < rank[n]
      BY <3>1, OpParts
    <3>3. disjuncts[n] = disjuncts[n.a[1]] \o disjuncts[n.a[2]]
          /\ disjuncts[n.a[1]] \in L /\ disjuncts[n.a[2]] \in L
      BY <2>1, <3>2 DEF IsFlatten
    <3>4. Members(disjuncts[n]) = Members(disjuncts[n.a[1]]) \cup Members(disjuncts[n.a[2]])
      BY <3>3, ConcatMembers
    <3>5. value[n] = AsNumber(value[n.a[1]] = 1 \/ value[n.a[2]] = 1)
      BY <2>1, Evaluation
    <3>6. value[n] = 1 <=> value[n.a[1]] = 1 \/ value[n.a[2]] = 1
      BY <3>5 DEF AsNumber
    <3>7. n.a[1] \in Good /\ n.a[2] \in Good
      BY <1>1, <3>2
    <3> QED
      BY <3>4, <3>6, <3>7
  <2>2. CASE ~IsOp(n, "OR")
    <3>1. disjuncts[n] = <<n>>
      BY <2>2 DEF IsFlatten
    <3> QED
      BY <3>1, OneMember
  <2> QED
    BY <2>1, <2>2
<1>2. Good \in SUBSET T /\ rank \in [T -> Nat]
  BY DEF IsForest
<1>3. T = Good
  <2> HIDE DEF Good
  <2> QED
    BY <1>1, <1>2, ByRank
<1> QED
  BY <1>3

\* What is rebuilt from a list.
LEMMA RebuildAndHolds ==
  ASSUME NEW T, NEW L, NEW rank, NEW row, NEW value, NEW every,
         IsForest(T, rank), IsMeaning(T, row, value), IsLists(T, L),
         IsRebuild(T, L, "AND", every), NEW parts \in L
  PROVE  value[every[parts]] = 1 <=> \A p \in Members(parts) : value[p] = 1
<1> DEFINE Good == {l \in L : value[every[l]] = 1 <=> \A p \in Members(l) : value[p] = 1}
<1>1. <<>> \in Good
  <2> DEFINE yes == Bool(TRUE)
  <2>1. <<>> \in L /\ every[<<>>] = yes /\ yes \in T
    BY DEF IsLists, IsRebuild
  <2>2. yes.k = "lit" /\ yes.n = 1
    BY DEF Bool, Lit, Node
  <2> HIDE DEF yes
  <2>3. value[yes] = 1
    BY <2>1, <2>2, Evaluation
  <2> QED
    BY <2>1, <2>3, EmptyHasNoMembers
<1>2. ASSUME NEW f \in Good, NEW x \in T, Append(f, x) \in L PROVE Append(f, x) \in Good
  <2>0. f \in L /\ (value[every[f]] = 1 <=> \A p \in Members(f) : value[p] = 1)
    OBVIOUS
  <2> DEFINE l == Append(f, x)
  <2>1. every[l] = (IF f = <<>> THEN x ELSE Op("AND", every[f], x)) /\ every[l] \in T
    <3>1. l # <<>> /\ Begin(l) = f /\ End(l) = x
      BY <2>0, EndOfAppend DEF IsLists
    <3> HIDE DEF l
    <3> QED
      BY <1>2, <3>1 DEF IsRebuild, l
  <2>2. Members(l) = Members(f) \cup {x}
    <3>1. f \in Seq(T)
      BY <2>0 DEF IsLists
    <3> QED
      BY <3>1, MembersOfAppend
  <2> HIDE DEF l
  <2>3. CASE f = <<>>
    BY <1>2, <2>1, <2>2, <2>3, EmptyHasNoMembers DEF l
  <2>4. CASE f # <<>>
    <3>1. value[every[l]] = IF value[every[f]] = 1 /\ value[x] = 1 THEN 1 ELSE 0
      BY <2>1, <2>4, BuiltAnd
    <3>2. value[every[l]] = 1 <=> \A p \in Members(l) : value[p] = 1
      BY <2>0, <2>2, <3>1
    <3> QED
      BY <1>2, <3>2 DEF l
  <2> QED
    BY <2>3, <2>4
<1>3. L = Good
  <2>1. Good \in SUBSET L
    OBVIOUS
  <2> HIDE DEF Good
  <2> QED
    BY <1>1, <1>2, <2>1, ByEnd
<1> QED
  BY <1>3

LEMMA RebuildOrHolds ==
  ASSUME NEW T, NEW L, NEW rank, NEW row, NEW value, NEW either,
         IsForest(T, rank), IsMeaning(T, row, value), IsLists(T, L),
         IsRebuild(T, L, "OR", either), NEW parts \in L
  PROVE  value[either[parts]] = 1 <=> \E p \in Members(parts) : value[p] = 1
<1> DEFINE Good == {l \in L : value[either[l]] = 1 <=> \E p \in Members(l) : value[p] = 1}
<1>1. <<>> \in Good
  <2>1. <<>> \in L /\ either[<<>>] = Null /\ Null \in T
    BY DEF IsLists, IsRebuild
  <2>2. Null.k = "lit" /\ Null.n = NullValue
    BY DEF Null, Node
  <2>3. value[Null] = NullValue
    BY <2>1, <2>2, Evaluation
  <2> QED
    BY <2>1, <2>3, EmptyHasNoMembers, NullIsNoNumber
<1>2. ASSUME NEW f \in Good, NEW x \in T, Append(f, x) \in L PROVE Append(f, x) \in Good
  <2>0. f \in L /\ (value[either[f]] = 1 <=> \E p \in Members(f) : value[p] = 1)
    OBVIOUS
  <2> DEFINE l == Append(f, x)
  <2>1. either[l] = (IF f = <<>> THEN x ELSE Op("OR", either[f], x)) /\ either[l] \in T
    <3>1. l # <<>> /\ Begin(l) = f /\ End(l) = x
      BY <2>0, EndOfAppend DEF IsLists
    <3> HIDE DEF l
    <3> QED
      BY <1>2, <3>1 DEF IsRebuild, l
  <2>2. Members(l) = Members(f) \cup {x}
    <3>1. f \in Seq(T)
      BY <2>0 DEF IsLists
    <3> QED
      BY <3>1, MembersOfAppend
  <2> HIDE DEF l
  <2>3. CASE f = <<>>
    BY <1>2, <2>1, <2>2, <2>3, EmptyHasNoMembers DEF l
  <2>4. CASE f # <<>>
    <3>1. value[either[l]] = IF value[either[f]] = 1 \/ value[x] = 1 THEN 1 ELSE 0
      BY <2>1, <2>4, BuiltOr
    <3>2. value[either[l]] = 1 <=> \E p \in Members(l) : value[p] = 1
      BY <2>0, <2>2, <3>1
    <3> QED
      BY <1>2, <3>2 DEF l
  <2> QED
    BY <2>3, <2>4
<1>3. L = Good
  <2>1. Good \in SUBSET L
    OBVIOUS
  <2> HIDE DEF Good
  <2> QED
    BY <1>1, <1>2, <2>1, ByEnd
<1> QED
  BY <1>3

-----------------------------------------------------------------------------
(* Chains without shadowed disjuncts.                                      *)

\* What is left of a list of disjuncts are those no arm above has taken.
LEMMA WithoutMembers ==
  ASSUME NEW T, NEW L, NEW Taken, NEW without, IsLists(T, L), IsWithout(T, L, Taken, without),
         NEW seen \in Taken, NEW parts \in L
  PROVE  /\ without[<<parts, seen>>] \in L
         /\ Members(without[<<parts, seen>>]) = Members(parts) \ seen
<1> DEFINE Good == {l \in L : Members(without[<<l, seen>>]) = Members(l) \ seen}
<1>1. <<>> \in Good
  BY EmptyHasNoMembers DEF IsLists, IsWithout
<1>2. ASSUME NEW f \in Good, NEW x \in T, Append(f, x) \in L PROVE Append(f, x) \in Good
  <2>1. f \in L /\ Members(without[<<f, seen>>]) = Members(f) \ seen
    OBVIOUS
  <2>2. f \in Seq(T) /\ without[<<f, seen>>] \in Seq(T)
    BY <2>1 DEF IsLists, IsWithout
  <2>3. without[<<Append(f, x), seen>>] = IF x \notin seen THEN Append(without[<<f, seen>>], x) ELSE without[<<f, seen>>]
    <3> DEFINE l == Append(f, x)
    <3>1. l \in L /\ l # <<>> /\ Begin(l) = f /\ End(l) = x
      BY <1>2, <2>2, EndOfAppend
    <3> HIDE DEF l
    <3>2. without[<<l, seen>>] = IF x \notin seen THEN Append(without[<<f, seen>>], x) ELSE without[<<f, seen>>]
      BY <3>1 DEF IsWithout
    <3> QED
      BY <3>2 DEF l
  <2>4. Members(Append(f, x)) = Members(f) \cup {x}
    BY <2>2, MembersOfAppend
  <2>5. Members(Append(without[<<f, seen>>], x)) = Members(without[<<f, seen>>]) \cup {x}
    BY <2>2, MembersOfAppend
  <2>6. Members(without[<<Append(f, x), seen>>]) = Members(Append(f, x)) \ seen
    BY <2>1, <2>3, <2>4, <2>5
  <2> QED
    BY <1>2, <2>6
<1>3. L = Good
  <2>1. Good \in SUBSET L
    OBVIOUS
  <2> HIDE DEF Good
  <2> QED
    BY <1>1, <1>2, <2>1, ByEnd
<1>4. without[<<parts, seen>>] \in L
  BY DEF IsWithout
<1> QED
  BY <1>3, <1>4

\* A list without members is empty.
LEMMA NoMembers ==
  ASSUME NEW T, NEW L, IsLists(T, L), NEW l \in L
  PROVE  l = <<>> <=> Members(l) = {}
<1>1. CASE l = <<>>
  BY <1>1, EmptyHasNoMembers
<1>2. CASE l # <<>>
  <2>1. \E f \in L, x \in T : Members(l) = Members(f) \cup {x}
    BY <1>2, ListEnd
  <2> QED
    BY <1>2, <2>1
<1> QED
  BY <1>1, <1>2

\* Dropping the disjuncts that an arm above has, and an arm left without any,
\* keeps the value of a chain of any length, and of chains inside its arms, on
\* every row: where a dropped disjunct holds, the arm above is taken.
THEOREM DropShadowedKeepsValue ==
  ASSUME NEW T, NEW L, NEW Chains, NEW rank, NEW row, NEW value, NEW disjuncts, NEW either,
         NEW without, NEW pass, NEW below,
         IsForest(T, rank), IsMeaning(T, row, value), IsLists(T, L),
         IsFlatten(T, L, "OR", disjuncts), IsRebuild(T, L, "OR", either),
         Chains \subseteq T \X SUBSET T, IsWithout(T, L, {chain[2] : chain \in Chains}, without),
         IsDropShadowed(T, Chains, disjuncts, either, without, pass, below)
  PROVE  KeepsValue(T, value, pass)
<1>0. pass \in [T -> T] /\ IsPass(T, pass)
  BY DEF IsDropShadowed, IsPass
<1>1. \A n \in T : (\A i \in DOMAIN n.a : value[pass[n.a[i]]] = value[n.a[i]]) => value[Image(pass, n)] = value[n]
  BY <1>0, ImageKeepsValue
<1> DEFINE Untaken(seen) == \A p \in seen : value[p] # 1
           Good == {n \in T : /\ value[pass[n]] = value[n]
                              /\ \A chain \in Chains :
                                    chain[1] = n /\ Untaken(chain[2]) => value[below[chain]] = value[n]}
           Parts(n) == disjuncts[pass[CondOf(n)]]
           Rest(chain) == <<ElseOf(chain[1]), chain[2] \cup Members(Parts(chain[1]))>>
           Left(chain) == without[<<Parts(chain[1]), chain[2]>>]
<1>2. ASSUME NEW n \in T, \A x \in T : rank[x] < rank[n] => x \in Good PROVE n \in Good
  <2>1. CASE ~IsIf(n)
    <3>1. pass[n] = Image(pass, n)
      BY <2>1 DEF IsDropShadowed
    <3>2. value[Image(pass, n)] = value[n]
      <4>1. \A i \in DOMAIN n.a : n.a[i] \in T /\ rank[n.a[i]] < rank[n]
        BY Shape
      <4>2. \A i \in DOMAIN n.a : value[pass[n.a[i]]] = value[n.a[i]]
        BY <4>1, <1>2
      <4> QED
        BY <1>1, <4>2
    <3>3. ASSUME NEW chain \in Chains, chain[1] = n PROVE value[below[chain]] = value[n]
      <4>1. /\ below[chain] = pass[IF n = Absent THEN Null ELSE n]
           /\ (IF n = Absent THEN Null ELSE n) \in T
        BY <2>1, <3>3 DEF IsDropShadowed
      <4>2. CASE n # Absent
        BY <3>1, <3>2, <4>1, <4>2
      <4>3. CASE n = Absent
        <5>1. n.k = "none" /\ Null.k = "lit" /\ Null.n = NullValue /\ Null.a = <<>> /\ ~IsIf(Null)
          BY <4>3 DEF Absent, Null, Node, IsIf
        <5>2. Null \in T /\ below[chain] = pass[Null]
          BY <4>1, <4>3
        <5>3. value[n] = NullValue /\ value[Null] = NullValue
          BY <5>1, <5>2, Evaluation
        <5>4. pass[Null] = Image(pass, Null)
          BY <5>1, <5>2 DEF IsDropShadowed
        <5>5. \A i \in DOMAIN Null.a : value[pass[Null.a[i]]] = value[Null.a[i]]
          BY <5>1
        <5>6. value[Image(pass, Null)] = value[Null]
          BY <1>1, <5>2, <5>5
        <5> QED
          BY <5>2, <5>3, <5>4, <5>6
      <4> QED
        BY <4>2, <4>3
    <3> QED
      BY <3>1, <3>2, <3>3
  <2>2. CASE IsIf(n)
    <3>1. /\ CondOf(n) \in Good /\ ThenOf(n) \in Good /\ ElseOf(n) \in Good
          /\ CondOf(n) \in T /\ ThenOf(n) \in T /\ ElseOf(n) \in T
      BY <1>2, <2>2, IfParts
    <3>2. value[n] = IF value[CondOf(n)] = 1 THEN value[ThenOf(n)] ELSE value[ElseOf(n)]
      BY <2>2, Evaluation
    <3>3. Parts(n) \in L /\ pass[CondOf(n)] \in T
      BY <1>0, <3>1 DEF IsFlatten
    <3>4. value[CondOf(n)] = 1 <=> \E p \in Members(Parts(n)) : value[p] = 1
      <4>1. value[pass[CondOf(n)]] = value[CondOf(n)]
        BY <3>1
      <4> QED
        BY <3>3, <4>1, FlattenOrHolds
    <3>5. ASSUME NEW chain \in Chains, chain[1] = n, Untaken(chain[2])
          PROVE  value[below[chain]] = value[n]
      <4>1. /\ Rest(chain) \in Chains
            /\ below[chain] = IF Left(chain) = <<>> THEN below[Rest(chain)]
                              ELSE If(either[Left(chain)], pass[ThenOf(n)], below[Rest(chain)])
            /\ below[chain] \in T
        BY <2>2, <3>5 DEF IsDropShadowed
      <4>2. Left(chain) \in L /\ Members(Left(chain)) = Members(Parts(n)) \ chain[2]
        BY <3>3, <3>5, WithoutMembers
      <4>3. value[CondOf(n)] = 1 <=> \E p \in Members(Left(chain)) : value[p] = 1
        BY <3>4, <3>5, <4>2
      <4>4. ASSUME value[CondOf(n)] # 1 PROVE value[below[Rest(chain)]] = value[ElseOf(n)]
        <5>1. Rest(chain)[1] = ElseOf(n) /\ Rest(chain)[2] = chain[2] \cup Members(Parts(n))
          BY <3>5
        <5>2. Untaken(Rest(chain)[2])
          BY <3>4, <3>5, <4>4, <5>1
        <5> QED
          BY <3>1, <4>1, <5>1, <5>2
      <4>5. value[pass[ThenOf(n)]] = value[ThenOf(n)]
        BY <3>1
      <4> DEFINE left == Left(chain)
                 rest == below[Rest(chain)]
      <4>6. below[chain] = IF left = <<>> THEN rest ELSE If(either[left], pass[ThenOf(n)], rest)
        BY <4>1
      <4>7. left \in L /\ (value[CondOf(n)] = 1 <=> \E p \in Members(left) : value[p] = 1)
        BY <4>2, <4>3
      <4>8. value[CondOf(n)] # 1 => value[rest] = value[ElseOf(n)]
        BY <4>4
      <4> HIDE DEF left, rest, Left, Rest, Parts
      <4>9. CASE left = <<>>
        BY <3>2, <4>6, <4>7, <4>8, <4>9, EmptyHasNoMembers
      <4>10. CASE left # <<>>
        <5>1. If(either[left], pass[ThenOf(n)], rest) \in T
          BY <4>1, <4>6, <4>10
        <5>2. value[below[chain]] = IF value[either[left]] = 1 THEN value[pass[ThenOf(n)]] ELSE value[rest]
          BY <4>6, <4>10, <5>1, BuiltIf
        <5>3. value[either[left]] = 1 <=> value[CondOf(n)] = 1
          BY <4>7, RebuildOrHolds
        <5> QED
          BY <3>2, <4>5, <4>8, <5>2, <5>3
      <4> QED
        BY <4>9, <4>10
    <3>6. <<n, {}>> \in Chains /\ pass[n] = below[<<n, {}>>]
      BY <2>2 DEF IsDropShadowed
    <3>7. value[pass[n]] = value[n]
      BY <3>5, <3>6
    <3> QED
      BY <3>5, <3>7
  <2> QED
    BY <2>1, <2>2
<1>3. Good \in SUBSET T /\ rank \in [T -> Nat]
  BY DEF IsForest
<1>4. T = Good
  <2> HIDE DEF Good
  <2> QED
    BY <1>2, <1>3, ByRank
<1> QED
  BY <1>4 DEF KeepsValue

-----------------------------------------------------------------------------
(* Guards in normal form, and without repeated conjuncts.                  *)

\* COALESCE(x, lit) == lit and x == lit agree where x is not NULL.
LEMMA NormalizeGuardKeepsValue ==
  ASSUME NEW T, NEW rank, NEW row, NEW value, NEW norm,
         IsForest(T, rank), IsMeaning(T, row, value),
         IsNormalizeGuard(T, norm), GivenGuards(T, norm, value)
  PROVE  KeepsValue(T, value, norm)
<1>0. norm \in [T -> T] /\ IsPass(T, norm)
  BY DEF IsNormalizeGuard, IsPass
<1>1. \A n \in T : (\A i \in DOMAIN n.a : value[norm[n.a[i]]] = value[n.a[i]]) => value[Image(norm, n)] = value[n]
  BY <1>0, ImageKeepsValue
<1> DEFINE Good == {n \in T : value[norm[n]] = value[n]}
<1>2. ASSUME NEW n \in T, \A x \in T : rank[x] < rank[n] => x \in Good PROVE n \in Good
  <2>1. norm[n] = NormalizeGuardAt(LAMBDA x : norm[x], n)
    BY DEF IsNormalizeGuard
  <2>2. CASE DefaultsToLiteral(n)
    <3>1. /\ n.k = "op" /\ n.v = "==" /\ IsFn(n.a[1], "COALESCE") /\ n.a[1].k = "fn"
          /\ n.a[1].v = "COALESCE" /\ n.a[1].a[2] = n.a[2] /\ IsComparison(n)
      BY <2>2 DEF DefaultsToLiteral, IsOp, IsFn, IsComparison, ComparisonOps, EqOps
    <3> DEFINE call == n.a[1]
               x == call.a[1]
               lit == n.a[2]
    <3>2. call \in T /\ rank[call] < rank[n] /\ lit \in T
      BY <3>1, OpParts
    <3>3. x \in T /\ rank[x] < rank[call]
      BY <3>1, <3>2, FnParts
    <3>4. rank[x] < rank[n]
      <4>1. rank[x] \in Nat /\ rank[call] \in Nat /\ rank[n] \in Nat
        BY <3>2, <3>3 DEF IsForest
      <4> QED
        BY <3>2, <3>3, <4>1
    <3>5. norm[n] = Op("==", norm[x], lit)
      BY <2>1, <2>2 DEF NormalizeGuardAt
    <3>6. value[x] # NullValue
      BY <2>2 DEF GivenGuards
    <3>7. value[call] = value[x]
      BY <3>1, <3>2, <3>6, Evaluation
    <3>8. value[n] = AsNumber(Compare("==", value[call], value[lit]))
      BY <3>1, Evaluation
    <3>9. Op("==", norm[x], lit) \in T
      BY <1>0, <3>5
    <3>10. "==" \in ComparisonOps
      BY DEF ComparisonOps, EqOps
    <3>11. value[Op("==", norm[x], lit)] = AsNumber(Compare("==", value[norm[x]], value[lit]))
      BY <3>9, <3>10, BuiltOperation
    <3>12. value[norm[x]] = value[x]
      BY <1>2, <3>3, <3>4
    <3> QED
      BY <3>5, <3>7, <3>8, <3>11, <3>12
  <2>3. CASE ~DefaultsToLiteral(n) /\ (n.k = "fn" \/ (n.k = "op" /\ n.v \in {"AND", "OR", "=="}))
    <3>1. norm[n] = Image(norm, n)
      BY <2>1, <2>3 DEF NormalizeGuardAt, Image
    <3>2. \A i \in DOMAIN n.a : n.a[i] \in T /\ rank[n.a[i]] < rank[n]
      BY Shape
    <3>3. \A i \in DOMAIN n.a : value[norm[n.a[i]]] = value[n.a[i]]
      BY <1>2, <3>2
    <3> QED
      BY <1>1, <3>1, <3>3
  <2>4. CASE ~DefaultsToLiteral(n) /\ ~(n.k = "fn" \/ (n.k = "op" /\ n.v \in {"AND", "OR", "=="}))
    BY <2>1, <2>4 DEF NormalizeGuardAt
  <2> QED
    BY <2>2, <2>3, <2>4
<1>3. Good \in SUBSET T /\ rank \in [T -> Nat]
  BY DEF IsForest
<1>4. T = Good
  <2> HIDE DEF Good
  <2> QED
    BY <1>2, <1>3, ByRank
<1> QED
  BY <1>4 DEF KeepsValue

\* A conjunct that is left out is x == x, or has the normal form of one that
\* stays: the ones that stay hold when all do.
LEMMA DedupeAndHolds ==
  ASSUME NEW T, NEW L, NEW rank, NEW row, NEW value, NEW norm, NEW dedupe,
         IsForest(T, rank), IsMeaning(T, row, value), IsLists(T, L),
         IsNormalizeGuard(T, norm), GivenGuards(T, norm, value), IsDedupeAnd(T, L, norm, dedupe),
         NEW parts \in L
  PROVE  /\ dedupe[parts] \in L
         /\ Members(dedupe[parts]) \subseteq Members(parts)
         /\ (\A p \in Members(dedupe[parts]) : value[p] = 1) <=> (\A p \in Members(parts) : value[p] = 1)
<1> DEFINE Holds(l) == \A p \in Members(l) : value[p] = 1
           Good == {l \in L : Members(dedupe[l]) \subseteq Members(l) /\ (Holds(dedupe[l]) <=> Holds(l))}
<1>0. \A n \in T : value[norm[n]] = value[n]
  BY NormalizeGuardKeepsValue DEF KeepsValue
<1>1. <<>> \in Good
  BY DEF IsLists, IsDedupeAnd
<1>2. ASSUME NEW f \in Good, NEW x \in T, Append(f, x) \in L PROVE Append(f, x) \in Good
  <2>1. f \in L /\ Members(dedupe[f]) \subseteq Members(f) /\ (Holds(dedupe[f]) <=> Holds(f))
    OBVIOUS
  <2>2. f \in Seq(T) /\ dedupe[f] \in Seq(T)
    BY <2>1 DEF IsLists, IsDedupeAnd
  <2> DEFINE self == SelfEqualityOf(LAMBDA y : norm[y], x)
             twice == \E i \in DOMAIN dedupe[f] : norm[dedupe[f][i]] = norm[x]
  <2>3. dedupe[Append(f, x)] = IF self \/ twice THEN dedupe[f] ELSE Append(dedupe[f], x)
    <3>1. Append(f, x) # <<>> /\ Begin(Append(f, x)) = f /\ End(Append(f, x)) = x
      BY <2>2, EndOfAppend
    <3> QED
      BY <1>2, <2>1, <3>1 DEF IsDedupeAnd, self, twice
  <2>4. Members(Append(f, x)) = Members(f) \cup {x}
    BY <2>2, MembersOfAppend
  <2>5. Members(Append(dedupe[f], x)) = Members(dedupe[f]) \cup {x}
    BY <2>2, MembersOfAppend
  <2>6. self => value[x] = 1
    <3>1. SUFFICES ASSUME self PROVE value[x] = 1
      OBVIOUS
    <3>2. /\ IsOp(x, "==") /\ x.k = "op" /\ x.v = "==" /\ IsComparison(x)
          /\ norm[x.a[1]] = norm[x.a[2]]
      BY <3>1 DEF SelfEqualityOf, IsOp, IsComparison, ComparisonOps, EqOps
    <3>3. x.a[1] \in T /\ x.a[2] \in T
      BY <3>2, OpParts
    <3>4. value[x.a[1]] = value[x.a[2]] /\ value[x.a[1]] # NullValue
      BY <1>0, <3>1, <3>2, <3>3 DEF GivenGuards
    <3>5. value[x] = AsNumber(Compare("==", value[x.a[1]], value[x.a[2]]))
      BY <3>2, Evaluation
    <3> QED
      BY <3>4, <3>5 DEF AsNumber, Compare, EqOps
  <2>7. twice => \E p \in Members(dedupe[f]) : value[p] = value[x]
    <3>1. SUFFICES ASSUME NEW i \in DOMAIN dedupe[f], norm[dedupe[f][i]] = norm[x]
                   PROVE  \E p \in Members(dedupe[f]) : value[p] = value[x]
      OBVIOUS
    <3>2. dedupe[f][i] \in T /\ dedupe[f][i] \in Members(dedupe[f])
      BY <2>2, <3>1 DEF Members
    <3> QED
      BY <1>0, <3>1, <3>2
  <2> HIDE DEF self, twice
  <2>8. CASE self \/ twice
    BY <1>2, <2>1, <2>3, <2>4, <2>6, <2>7, <2>8
  <2>9. CASE ~(self \/ twice)
    BY <1>2, <2>1, <2>3, <2>4, <2>5, <2>9
  <2> QED
    BY <2>8, <2>9
<1>3. L = Good
  <2>1. Good \in SUBSET L
    OBVIOUS
  <2> HIDE DEF Good
  <2> QED
    BY <1>1, <1>2, <2>1, ByEnd
<1>4. dedupe[parts] \in L
  BY DEF IsDedupeAnd
<1> QED
  BY <1>3, <1>4

\* Conjuncts of a condition are conditions.
LEMMA ConjunctsAreConditions ==
  ASSUME NEW T, NEW L, NEW rank, NEW row, NEW value, NEW conjuncts,
         IsForest(T, rank), IsMeaning(T, row, value), HasConditions(T, value), IsLists(T, L),
         IsFlatten(T, L, "AND", conjuncts), NEW c \in T, value[c] \in {0, 1}
  PROVE  \A p \in Members(conjuncts[c]) : value[p] \in {0, 1}
<1> DEFINE Good == {n \in T : value[n] \in {0, 1} => \A p \in Members(conjuncts[n]) : value[p] \in {0, 1}}
<1>1. ASSUME NEW n \in T, \A x \in T : rank[x] < rank[n] => x \in Good PROVE n \in Good
  <2>1. CASE IsOp(n, "AND")
    <3>1. n.k = "op" /\ value[n.a[1]] \in {0, 1} /\ value[n.a[2]] \in {0, 1}
      BY <2>1 DEF IsOp, HasConditions
    <3>2. /\ n.a[1] \in T /\ rank[n.a[1]] < rank[n]
          /\ n.a[2] \in T /\ rank[n.a[2]] < rank[n]
      BY <3>1, OpParts
    <3>3. conjuncts[n] = conjuncts[n.a[1]] \o conjuncts[n.a[2]]
          /\ conjuncts[n.a[1]] \in L /\ conjuncts[n.a[2]] \in L
      BY <2>1, <3>2 DEF IsFlatten
    <3>4. Members(conjuncts[n]) = Members(conjuncts[n.a[1]]) \cup Members(conjuncts[n.a[2]])
      BY <3>3, ConcatMembers
    <3>5. n.a[1] \in Good /\ n.a[2] \in Good
      BY <1>1, <3>2
    <3> QED
      BY <3>1, <3>4, <3>5
  <2>2. CASE ~IsOp(n, "AND")
    <3>1. conjuncts[n] = <<n>>
      BY <2>2 DEF IsFlatten
    <3> QED
      BY <3>1, OneMember
  <2> QED
    BY <2>1, <2>2
<1>2. Good \in SUBSET T /\ rank \in [T -> Nat]
  BY DEF IsForest
<1>3. T = Good
  <2> HIDE DEF Good
  <2> QED
    BY <1>1, <1>2, ByRank
<1> QED
  BY <1>3

LEMMA RebuiltIsCondition ==
  ASSUME NEW T, NEW L, NEW rank, NEW row, NEW value, NEW every,
         IsForest(T, rank), IsMeaning(T, row, value), IsLists(T, L),
         IsRebuild(T, L, "AND", every), NEW l \in L, \A p \in Members(l) : value[p] \in {0, 1}
  PROVE  value[every[l]] \in {0, 1}
<1>1. CASE l = <<>>
  <2>1. value[every[l]] = 1
    BY <1>1, RebuildAndHolds, EmptyHasNoMembers
  <2> QED
    BY <2>1
<1>2. CASE l # <<>>
  <2>1. PICK f \in L, x \in T : l = Append(f, x) /\ Members(l) = Members(f) \cup {x}
    BY <1>2, ListEnd
  <2>2. every[l] = (IF f = <<>> THEN x ELSE Op("AND", every[f], x)) /\ every[l] \in T
    <3>1. f \in Seq(T)
      BY DEF IsLists
    <3>2. Begin(l) = f /\ End(l) = x
      BY <2>1, <3>1, EndOfAppend
    <3> QED
      BY <1>2, <3>2 DEF IsRebuild
  <2>3. value[x] \in {0, 1}
    BY <2>1
  <2>4. CASE f = <<>>
    BY <2>2, <2>3, <2>4
  <2>5. CASE f # <<>>
    <3>1. value[every[l]] = IF value[every[f]] = 1 /\ value[x] = 1 THEN 1 ELSE 0
      BY <2>2, <2>5, BuiltAnd
    <3> QED
      BY <3>1
  <2> QED
    BY <2>4, <2>5
<1> QED
  BY <1>1, <1>2

\* A guard without its repeated conjuncts and without x == x is the same guard,
\* wherever it stands in a formula, on every row where nothing that is compared
\* with itself or through a default is NULL.
THEOREM DedupeGuardsKeepsValue ==
  ASSUME NEW T, NEW L, NEW rank, NEW row, NEW value, NEW conjuncts, NEW every, NEW norm,
         NEW dedupe, NEW pass,
         IsForest(T, rank), IsMeaning(T, row, value), HasConditions(T, value), IsLists(T, L),
         IsFlatten(T, L, "AND", conjuncts), IsRebuild(T, L, "AND", every),
         IsNormalizeGuard(T, norm), GivenGuards(T, norm, value), IsDedupeAnd(T, L, norm, dedupe),
         IsDedupeGuards(T, conjuncts, every, dedupe, pass)
  PROVE  KeepsValue(T, value, pass)
<1>1. IsPass(T, pass)
  BY DEF IsDedupeGuards
<1>2. ASSUME NEW m \in T, IsOp(m, "AND") PROVE value[every[dedupe[conjuncts[m]]]] = value[m]
  <2> DEFINE parts == conjuncts[m]
             kept == dedupe[parts]
  <2>1. parts \in L
    BY DEF IsFlatten
  <2>2. value[m] \in {0, 1}
    <3>1. value[m] = AsNumber(value[m.a[1]] = 1 /\ value[m.a[2]] = 1)
      BY <1>2, Evaluation
    <3> QED
      BY <3>1 DEF AsNumber
  <2>3. value[m] = 1 <=> \A p \in Members(parts) : value[p] = 1
    BY FlattenAndHolds
  <2>4. \A p \in Members(parts) : value[p] \in {0, 1}
    BY <2>2, ConjunctsAreConditions
  <2> HIDE DEF parts
  <2>5. /\ kept \in L /\ Members(kept) \subseteq Members(parts)
        /\ (\A p \in Members(kept) : value[p] = 1) <=> (\A p \in Members(parts) : value[p] = 1)
    BY <2>1, DedupeAndHolds
  <2> HIDE DEF kept
  <2>6. value[every[kept]] = 1 <=> \A p \in Members(kept) : value[p] = 1
    BY <2>5, RebuildAndHolds
  <2>7. value[every[kept]] \in {0, 1}
    BY <2>4, <2>5, RebuiltIsCondition
  <2> QED
    BY <2>2, <2>3, <2>5, <2>6, <2>7 DEF kept, parts
<1>3. \A n \in T : value[pass[n]] = value[Image(pass, n)]
  <2>1. TAKE n \in T
  <2>2. Image(pass, n) \in T
    BY <1>1 DEF IsPass
  <2>3. pass[n] = IF IsOp(Image(pass, n), "AND") THEN every[dedupe[conjuncts[Image(pass, n)]]] ELSE Image(pass, n)
    BY DEF IsDedupeGuards
  <2> QED
    BY <1>2, <2>2, <2>3
<1> QED
  BY <1>1, <1>3, BottomUp

-----------------------------------------------------------------------------
(* Caps repeated under a guard.                                            *)

\* Two guards with one bag of conjuncts hold on the same rows.
LEMMA SameBagSameGuard ==
  ASSUME NEW T, NEW L, NEW rank, NEW row, NEW value, NEW conjuncts, NEW norm,
         IsForest(T, rank), IsMeaning(T, row, value), IsLists(T, L),
         IsFlatten(T, L, "AND", conjuncts),
         IsNormalizeGuard(T, norm), GivenGuards(T, norm, value),
         NEW c \in T, NEW d \in T, BagOf(conjuncts[norm[c]]) = BagOf(conjuncts[norm[d]])
  PROVE  value[c] = 1 <=> value[d] = 1
<1>1. norm[c] \in T /\ norm[d] \in T
  BY DEF IsNormalizeGuard, IsPass
<1>2. value[norm[c]] = value[c] /\ value[norm[d]] = value[d]
  BY NormalizeGuardKeepsValue DEF KeepsValue
<1>3. DOMAIN BagOf(conjuncts[norm[c]]) = Members(conjuncts[norm[c]])
      /\ DOMAIN BagOf(conjuncts[norm[d]]) = Members(conjuncts[norm[d]])
  BY DEF BagOf, Members
<1>4. Members(conjuncts[norm[c]]) = Members(conjuncts[norm[d]])
  BY <1>3
<1>5. value[norm[c]] = 1 <=> \A p \in Members(conjuncts[norm[c]]) : value[p] = 1
  BY <1>1, FlattenAndHolds
<1>6. value[norm[d]] = 1 <=> \A p \in Members(conjuncts[norm[d]]) : value[p] = 1
  BY <1>1, FlattenAndHolds
<1> QED
  BY <1>2, <1>4, <1>5, <1>6

\* What the optimizer takes for one value is one value.
LEMMA SameValueIsEqual ==
  ASSUME NEW T, NEW L, NEW rank, NEW row, NEW value, NEW conjuncts, NEW norm, NEW same,
         IsForest(T, rank), IsMeaning(T, row, value), IsLists(T, L),
         IsFlatten(T, L, "AND", conjuncts),
         IsNormalizeGuard(T, norm), GivenGuards(T, norm, value),
         IsSameValue(T, norm, conjuncts, same)
  PROVE  \A x, y \in T : same[<<x, y>>] => value[x] = value[y]
<1> DEFINE Good == {x \in T : \A y \in T : same[<<x, y>>] => value[x] = value[y]}
<1>1. ASSUME NEW x \in T, \A z \in T : rank[z] < rank[x] => z \in Good PROVE x \in Good
  <2>1. SUFFICES ASSUME NEW y \in T, same[<<x, y>>] PROVE value[x] = value[y]
    OBVIOUS
  <2>2. SameValueAt(LAMBDA u, v : same[<<u, v>>], LAMBDA g : BagOf(conjuncts[norm[g]]), x, y)
    BY <2>1 DEF IsSameValue
  <2>3. \/ x = y
        \/ /\ IsIf(x) /\ IsIf(y) /\ BagOf(conjuncts[norm[CondOf(x)]]) = BagOf(conjuncts[norm[CondOf(y)]])
           /\ same[<<ThenOf(x), ThenOf(y)>>] /\ same[<<ElseOf(x), ElseOf(y)>>]
        \/ /\ x.k \in {"op", "fn"} /\ x.k = y.k /\ x.v = y.v /\ Len(x.a) = Len(y.a)
           /\ \A i \in DOMAIN x.a : same[<<x.a[i], y.a[i]>>]
    BY <2>2 DEF SameValueAt
  <2>4. CASE /\ IsIf(x) /\ IsIf(y) /\ BagOf(conjuncts[norm[CondOf(x)]]) = BagOf(conjuncts[norm[CondOf(y)]])
             /\ same[<<ThenOf(x), ThenOf(y)>>] /\ same[<<ElseOf(x), ElseOf(y)>>]
    <3>1. /\ CondOf(x) \in T /\ ThenOf(x) \in Good /\ ElseOf(x) \in Good
          /\ CondOf(y) \in T /\ ThenOf(y) \in T /\ ElseOf(y) \in T
      BY <1>1, <2>4, IfParts
    <3>2. value[ThenOf(x)] = value[ThenOf(y)] /\ value[ElseOf(x)] = value[ElseOf(y)]
      BY <2>4, <3>1
    <3>3. value[CondOf(x)] = 1 <=> value[CondOf(y)] = 1
      BY <2>4, <3>1, SameBagSameGuard
    <3>4. /\ value[x] = IF value[CondOf(x)] = 1 THEN value[ThenOf(x)] ELSE value[ElseOf(x)]
          /\ value[y] = IF value[CondOf(y)] = 1 THEN value[ThenOf(y)] ELSE value[ElseOf(y)]
      BY <2>4, Evaluation
    <3> QED
      BY <3>2, <3>3, <3>4
  <2>5. CASE /\ x.k \in {"op", "fn"} /\ x.k = y.k /\ x.v = y.v /\ Len(x.a) = Len(y.a)
             /\ \A i \in DOMAIN x.a : same[<<x.a[i], y.a[i]>>]
    <3>1. /\ DOMAIN x.a = 1..Len(x.a) /\ DOMAIN y.a = 1..Len(y.a)
          /\ \A i \in DOMAIN x.a : x.a[i] \in T /\ rank[x.a[i]] < rank[x]
          /\ \A i \in DOMAIN y.a : y.a[i] \in T
      BY Shape
    <3>2. \A i \in DOMAIN x.a : value[x.a[i]] = value[y.a[i]]
      <4>1. TAKE i \in DOMAIN x.a
      <4>2. x.a[i] \in Good /\ y.a[i] \in T /\ same[<<x.a[i], y.a[i]>>]
        BY <1>1, <2>5, <3>1
      <4> QED
        BY <4>2
    <3>3. /\ value[x] = ValueOf(x, row, value[x.a[1]], value[x.a[2]], value[x.a[3]])
          /\ value[y] = ValueOf(y, row, value[y.a[1]], value[y.a[2]], value[y.a[3]])
      BY DEF IsMeaning
    <3>4. CASE x.k = "op"
      <4>1. DOMAIN x.a = 1..2
        BY <3>4, OpParts
      <4>2. value[x] = Operation(x.v, value[x.a[1]], value[x.a[2]])
        BY <3>3, <3>4 DEF ValueOf
      <4>3. value[y] = Operation(x.v, value[y.a[1]], value[y.a[2]])
        BY <2>5, <3>3, <3>4 DEF ValueOf
      <4> QED
        BY <3>2, <4>1, <4>2, <4>3
    <3>5. CASE x.k = "fn"
      <4>1. 1 \in DOMAIN x.a /\ (x.v \in {"COALESCE", "MAX"} => DOMAIN x.a = 1..2)
        BY <3>5, FnParts
      <4>2. value[x.a[1]] = value[y.a[1]]
        BY <3>2, <4>1
      <4>3. x.v \in {"COALESCE", "MAX"} => value[x.a[2]] = value[y.a[2]]
        BY <3>2, <4>1
      <4>4. value[x] = CallValue(x.v, value[x.a[1]], value[x.a[2]])
        BY <3>3, <3>5 DEF ValueOf
      <4>5. value[y] = CallValue(x.v, value[y.a[1]], value[y.a[2]])
        BY <2>5, <3>3, <3>5 DEF ValueOf
      <4>6. x.v \in {"COALESCE", "MAX", "NOT", "ISEMPTY", "ISNOTEMPTY"}
        BY <3>5, Shape DEF WellFormed
      <4>7. CASE x.v \in {"COALESCE", "MAX"}
        BY <4>2, <4>3, <4>4, <4>5, <4>7
      <4>8. CASE x.v \in {"NOT", "ISEMPTY", "ISNOTEMPTY"}
        BY <4>2, <4>4, <4>5, <4>8 DEF CallValue
      <4> QED
        BY <4>6, <4>7, <4>8
    <3> QED
      BY <2>5, <3>4, <3>5
  <2> QED
    BY <2>3, <2>4, <2>5
<1>2. Good \in SUBSET T /\ rank \in [T -> Nat]
  BY DEF IsForest
<1>3. T = Good
  <2> HIDE DEF Good
  <2> QED
    BY <1>1, <1>2, ByRank
<1> QED
  BY <1>3

\* IF(g) THEN IF(c) THEN cap ELSE base ELSE base is IF(g AND c) THEN cap ELSE
\* base, however deep the caps are nested, where the two bases are one value up
\* to the order and repetition of conjuncts; again where nothing that is compared
\* with itself or through a default is NULL.
THEOREM CollapseCapKeepsValue ==
  ASSUME NEW T, NEW L, NEW rank, NEW row, NEW value, NEW conjuncts, NEW every, NEW norm,
         NEW dedupe, NEW same, NEW rule, NEW pass,
         IsForest(T, rank), IsMeaning(T, row, value), IsLists(T, L),
         IsFlatten(T, L, "AND", conjuncts), IsRebuild(T, L, "AND", every),
         IsNormalizeGuard(T, norm), GivenGuards(T, norm, value), IsDedupeAnd(T, L, norm, dedupe),
         IsSameValue(T, norm, conjuncts, same),
         IsCollapseCap(T, L, rank, conjuncts, every, dedupe, same, rule, pass)
  PROVE  KeepsValue(T, value, pass)
<1> DEFINE Both(g, c) == conjuncts[g] \o conjuncts[c]
           Merge(g, c) == every[dedupe[Both(g, c)]]
<1>1. IsPass(T, pass) /\ ShrinksBy(T, rank, rule, pass)
  BY DEF IsCollapseCap
<1>2. \A n \in T : pass[n] = Reapplied(LAMBDA x : pass[x], LAMBDA x : rule[x], n)
  BY DEF IsCollapseCap
<1>3. ASSUME NEW n \in T, IsIf(n), rule[n] # Absent PROVE value[rule[n]] = value[n]
  <2>1. rule[n] = CapOf(LAMBDA x, y : same[<<x, y>>], LAMBDA g, c : Merge(g, c), n)
    BY DEF IsCollapseCap
  <2> DEFINE inner == ThenOf(n)
             base == ElseOf(n)
             guard == Merge(CondOf(n), CondOf(inner))
  <2>2. /\ IsIf(inner) /\ same[<<ElseOf(inner), base>>]
        /\ rule[n] = If(guard, ThenOf(inner), base)
    BY <1>3, <2>1 DEF CapOf
  <2>3. /\ CondOf(n) \in T /\ inner \in T /\ base \in T
        /\ CondOf(inner) \in T /\ ThenOf(inner) \in T /\ ElseOf(inner) \in T
    BY <1>3, <2>2, IfParts
  <2>4. value[ElseOf(inner)] = value[base]
    BY <2>2, <2>3, SameValueIsEqual
  <2>5. /\ value[n] = IF value[CondOf(n)] = 1 THEN value[inner] ELSE value[base]
        /\ value[inner] = IF value[CondOf(inner)] = 1 THEN value[ThenOf(inner)] ELSE value[ElseOf(inner)]
    BY <1>3, <2>2, <2>3, Evaluation
  <2>6. value[guard] = 1 <=> value[CondOf(n)] = 1 /\ value[CondOf(inner)] = 1
    <3> DEFINE g == conjuncts[CondOf(n)]
               c == conjuncts[CondOf(inner)]
               both == g \o c
    <3>1. both \in L
      BY <1>3, <2>2 DEF IsCollapseCap
    <3>2. g \in L /\ c \in L
      BY <2>3 DEF IsFlatten
    <3>3. value[CondOf(n)] = 1 <=> \A p \in Members(g) : value[p] = 1
      BY <2>3, FlattenAndHolds
    <3>4. value[CondOf(inner)] = 1 <=> \A p \in Members(c) : value[p] = 1
      BY <2>3, FlattenAndHolds
    <3>5. guard = every[dedupe[both]]
      OBVIOUS
    <3> HIDE DEF g, c, guard
    <3>6. Members(both) = Members(g) \cup Members(c)
      BY <3>2, ConcatMembers
    <3> HIDE DEF both
    <3>7. /\ dedupe[both] \in L
          /\ (\A p \in Members(dedupe[both]) : value[p] = 1) <=> (\A p \in Members(both) : value[p] = 1)
      BY <3>1, DedupeAndHolds
    <3>8. value[every[dedupe[both]]] = 1 <=> \A p \in Members(dedupe[both]) : value[p] = 1
      BY <3>7, RebuildAndHolds
    <3> QED
      BY <3>3, <3>4, <3>5, <3>6, <3>7, <3>8
  <2>7. If(guard, ThenOf(inner), base) \in T
    BY <1>1, <2>2 DEF ShrinksBy
  <2> HIDE DEF inner, base, guard
  <2>8. value[rule[n]] = IF value[guard] = 1 THEN value[ThenOf(inner)] ELSE value[base]
    BY <2>2, <2>7, BuiltIf
  <2> QED
    BY <2>4, <2>5, <2>6, <2>8
<1> QED
  BY <1>1, <1>2, <1>3, Reapplication

-----------------------------------------------------------------------------
(* Disjunctions of conjunctions, factored.                                 *)

AllHold(value, t) == \A p \in t : value[p] = 1
SomeTermHolds(value, terms) == \E t \in terms : AllHold(value, t)
AreConditions(value, t) == \A p \in t : value[p] \in {0, 1}

\* The members of each list of a list of lists.
LEMMA MembersOfEach ==
  ASSUME NEW lists
  PROVE  MemberSets(lists) = {Members(lists[i]) : i \in DOMAIN lists}
<1>1. Members(lists) = {lists[i] : i \in DOMAIN lists}
  BY DEF Members
<1> QED
  BY <1>1 DEF MemberSets

\* A condition has disjuncts, and they are conditions.
LEMMA DisjunctsAreConditions ==
  ASSUME NEW T, NEW L, NEW rank, NEW row, NEW value, NEW disjuncts,
         IsForest(T, rank), IsMeaning(T, row, value), HasConditions(T, value), IsLists(T, L),
         IsFlatten(T, L, "OR", disjuncts), NEW c \in T, value[c] \in {0, 1}
  PROVE  AreConditions(value, Members(disjuncts[c])) /\ Members(disjuncts[c]) # {}
<1> DEFINE Good == {n \in T : /\ Members(disjuncts[n]) # {}
                              /\ value[n] \in {0, 1} => AreConditions(value, Members(disjuncts[n]))}
<1>1. ASSUME NEW n \in T, \A x \in T : rank[x] < rank[n] => x \in Good PROVE n \in Good
  <2>1. CASE IsOp(n, "OR")
    <3>1. n.k = "op" /\ value[n.a[1]] \in {0, 1} /\ value[n.a[2]] \in {0, 1}
      BY <2>1 DEF IsOp, HasConditions
    <3>2. /\ n.a[1] \in T /\ rank[n.a[1]] < rank[n]
          /\ n.a[2] \in T /\ rank[n.a[2]] < rank[n]
      BY <3>1, OpParts
    <3>3. disjuncts[n] = disjuncts[n.a[1]] \o disjuncts[n.a[2]]
          /\ disjuncts[n.a[1]] \in L /\ disjuncts[n.a[2]] \in L
      BY <2>1, <3>2 DEF IsFlatten
    <3>4. Members(disjuncts[n]) = Members(disjuncts[n.a[1]]) \cup Members(disjuncts[n.a[2]])
      BY <3>3, ConcatMembers
    <3>5. n.a[1] \in Good /\ n.a[2] \in Good
      BY <1>1, <3>2
    <3> QED
      BY <3>1, <3>4, <3>5 DEF AreConditions
  <2>2. CASE ~IsOp(n, "OR")
    <3>1. disjuncts[n] = <<n>>
      BY <2>2 DEF IsFlatten
    <3> QED
      BY <3>1, OneMember DEF AreConditions
  <2> QED
    BY <2>1, <2>2
<1>2. Good \in SUBSET T /\ rank \in [T -> Nat]
  BY DEF IsForest
<1>3. T = Good
  <2> HIDE DEF Good
  <2> QED
    BY <1>1, <1>2, ByRank
<1> QED
  BY <1>3

LEMMA RebuiltOrIsCondition ==
  ASSUME NEW T, NEW L, NEW rank, NEW row, NEW value, NEW either,
         IsForest(T, rank), IsMeaning(T, row, value), IsLists(T, L),
         IsRebuild(T, L, "OR", either), NEW l \in L, l # <<>>, AreConditions(value, Members(l))
  PROVE  value[either[l]] \in {0, 1}
<1>1. PICK f \in L, x \in T : l = Append(f, x) /\ Members(l) = Members(f) \cup {x}
  BY ListEnd
<1>2. either[l] = (IF f = <<>> THEN x ELSE Op("OR", either[f], x)) /\ either[l] \in T
  <2>1. f \in Seq(T)
    BY DEF IsLists
  <2>2. Begin(l) = f /\ End(l) = x
    BY <1>1, <2>1, EndOfAppend
  <2> QED
    BY <2>2 DEF IsRebuild
<1>3. value[x] \in {0, 1}
  BY <1>1 DEF AreConditions
<1>4. CASE f = <<>>
  BY <1>2, <1>3, <1>4
<1>5. CASE f # <<>>
  <2>1. value[either[l]] = IF value[either[f]] = 1 \/ value[x] = 1 THEN 1 ELSE 0
    BY <1>2, <1>5, BuiltOr
  <2> QED
    BY <2>1
<1> QED
  BY <1>4, <1>5

\* The terms of a disjunction: it holds when one of them does.
LEMMA TermsHold ==
  ASSUME NEW T, NEW C, NEW D, NEW rank, NEW row, NEW value, NEW conjuncts, NEW disjuncts,
         NEW norm, NEW dedupe,
         IsForest(T, rank), IsMeaning(T, row, value), HasConditions(T, value),
         IsLists(T, C), IsFlatten(T, C, "AND", conjuncts),
         IsLists(T, D), IsFlatten(T, D, "OR", disjuncts),
         IsNormalizeGuard(T, norm), GivenGuards(T, norm, value), IsDedupeAnd(T, C, norm, dedupe),
         NEW n \in T, IsOp(n, "OR"), NEW terms,
         terms = [i \in DOMAIN disjuncts[n] |-> dedupe[conjuncts[disjuncts[n][i]]]]
  PROVE  /\ terms \in Seq(C) /\ terms # <<>>
         /\ \A t \in MemberSets(terms) : AreConditions(value, t)
         /\ value[n] \in {0, 1} /\ (value[n] = 1 <=> SomeTermHolds(value, MemberSets(terms)))
<1> DEFINE parts == disjuncts[n]
<1>1. value[n] \in {0, 1}
  <2>1. value[n] = AsNumber(value[n.a[1]] = 1 \/ value[n.a[2]] = 1)
    BY Evaluation
  <2> QED
    BY <2>1 DEF AsNumber
<1>2. parts \in D /\ parts \in Seq(T)
  BY DEF IsFlatten, IsLists
<1>3. AreConditions(value, Members(parts)) /\ Members(parts) # {}
  BY <1>1, DisjunctsAreConditions
<1>4. value[n] = 1 <=> \E p \in Members(parts) : value[p] = 1
  BY FlattenOrHolds
<1> HIDE DEF parts
<1>5. terms = [i \in DOMAIN parts |-> dedupe[conjuncts[parts[i]]]]
  BY DEF parts
<1>6. \A p \in T : conjuncts[p] \in C /\ dedupe[conjuncts[p]] \in C
  BY DEF IsFlatten, IsDedupeAnd
<1>7. \A i \in DOMAIN parts : parts[i] \in T /\ parts[i] \in Members(parts)
  BY <1>2 DEF Members
<1>8. terms \in Seq(C) /\ DOMAIN terms = DOMAIN parts /\ \A i \in DOMAIN parts : terms[i] = dedupe[conjuncts[parts[i]]]
  <2>1. DOMAIN parts = 1..Len(parts) /\ Len(parts) \in Nat
    BY <1>2
  <2> QED
    BY <1>5, <1>6, <1>7, <2>1
<1>9. terms # <<>>
  <2>1. PICK i \in DOMAIN parts : TRUE
    BY <1>3 DEF Members
  <2> QED
    BY <1>8, <2>1
<1>10. MemberSets(terms) = {Members(terms[i]) : i \in DOMAIN parts}
  BY <1>8, MembersOfEach
<1>11. \A p \in T : (\A q \in Members(dedupe[conjuncts[p]]) : value[q] = 1) <=> value[p] = 1
  <2>1. TAKE p \in T
  <2>2. (\A q \in Members(dedupe[conjuncts[p]]) : value[q] = 1) <=> (\A q \in Members(conjuncts[p]) : value[q] = 1)
    BY <1>6, DedupeAndHolds
  <2> QED
    BY <2>2, FlattenAndHolds
<1>12. \A p \in T : value[p] \in {0, 1} => AreConditions(value, Members(dedupe[conjuncts[p]]))
  <2>1. SUFFICES ASSUME NEW p \in T, value[p] \in {0, 1}
                 PROVE  AreConditions(value, Members(dedupe[conjuncts[p]]))
    OBVIOUS
  <2>2. Members(dedupe[conjuncts[p]]) \subseteq Members(conjuncts[p])
    BY <1>6, DedupeAndHolds
  <2>3. \A q \in Members(conjuncts[p]) : value[q] \in {0, 1}
    BY <2>1, ConjunctsAreConditions
  <2> QED
    BY <2>2, <2>3 DEF AreConditions
<1>13. \A t \in MemberSets(terms) : AreConditions(value, t)
  <2>1. SUFFICES ASSUME NEW i \in DOMAIN parts PROVE AreConditions(value, Members(terms[i]))
    BY <1>10
  <2>2. value[parts[i]] \in {0, 1}
    BY <1>3, <1>7 DEF AreConditions
  <2> QED
    BY <1>7, <1>8, <1>12, <2>2
<1>14. \A i \in DOMAIN parts : AllHold(value, Members(terms[i])) <=> value[parts[i]] = 1
  <2>1. TAKE i \in DOMAIN parts
  <2>2. parts[i] \in T /\ terms[i] = dedupe[conjuncts[parts[i]]]
    BY <1>7, <1>8
  <2>3. (\A q \in Members(dedupe[conjuncts[parts[i]]]) : value[q] = 1) <=> value[parts[i]] = 1
    BY <1>11, <2>2
  <2> QED
    BY <2>2, <2>3 DEF AllHold
<1>15. (\E p \in Members(parts) : value[p] = 1) <=> SomeTermHolds(value, MemberSets(terms))
  <2>1. Members(parts) = {parts[i] : i \in DOMAIN parts}
    BY DEF Members
  <2>2. (\E p \in Members(parts) : value[p] = 1) <=> \E i \in DOMAIN parts : value[parts[i]] = 1
    BY <2>1
  <2>3. SomeTermHolds(value, MemberSets(terms)) <=> \E i \in DOMAIN parts : AllHold(value, Members(terms[i]))
    BY <1>10 DEF SomeTermHolds
  <2> QED
    BY <1>14, <2>2, <2>3
<1> QED
  BY <1>1, <1>4, <1>8, <1>9, <1>13, <1>15

(* What conjunctions and disjunctions rebuilt from lists mean.              *)
AndsMean(C, value, every) ==
    \A l \in C : /\ value[every[l]] = 1 <=> AllHold(value, Members(l))
                 /\ AreConditions(value, Members(l)) => value[every[l]] \in {0, 1}
OrsMean(D, value, either) ==
    \A l \in D : /\ value[either[l]] = 1 <=> \E x \in Members(l) : value[x] = 1
                 /\ l # <<>> /\ AreConditions(value, Members(l)) => value[either[l]] \in {0, 1}
AndMeans(T, value) ==
    \A x, y : Op("AND", x, y) \in T =>
                 value[Op("AND", x, y)] = IF value[x] = 1 /\ value[y] = 1 THEN 1 ELSE 0

LEMMA RebuiltMeaning ==
  ASSUME NEW T, NEW C, NEW D, NEW rank, NEW row, NEW value, NEW every, NEW either,
         IsForest(T, rank), IsMeaning(T, row, value),
         IsLists(T, C), IsRebuild(T, C, "AND", every),
         IsLists(T, D), IsRebuild(T, D, "OR", either)
  PROVE  AndsMean(C, value, every) /\ OrsMean(D, value, either) /\ AndMeans(T, value)
<1>1. ASSUME NEW l \in C
      PROVE  /\ value[every[l]] = 1 <=> AllHold(value, Members(l))
             /\ AreConditions(value, Members(l)) => value[every[l]] \in {0, 1}
  BY RebuildAndHolds, RebuiltIsCondition DEF AllHold, AreConditions
<1>2. ASSUME NEW l \in D
      PROVE  /\ value[either[l]] = 1 <=> \E x \in Members(l) : value[x] = 1
             /\ l # <<>> /\ AreConditions(value, Members(l)) => value[either[l]] \in {0, 1}
  BY RebuildOrHolds, RebuiltOrIsCondition
<1>3. ASSUME NEW x, NEW y, Op("AND", x, y) \in T
      PROVE  value[Op("AND", x, y)] = IF value[x] = 1 /\ value[y] = 1 THEN 1 ELSE 0
  BY <1>3, BuiltAnd
<1> QED
  BY <1>1, <1>2, <1>3 DEF AndsMean, OrsMean, AndMeans

\* The conjunctions of a list of terms: one of them holds when all members of a
\* term do, and each is a condition.
LEMMA AndsHold ==
  ASSUME NEW T, NEW C, NEW value, NEW every, AndsMean(C, value, every),
         NEW lists \in Seq(C), \A t \in MemberSets(lists) : AreConditions(value, t)
  PROVE  LET ands == Conjunctions(every, lists)
         IN  /\ AreConditions(value, Members(ands))
             /\ (\E x \in Members(ands) : value[x] = 1) <=> SomeTermHolds(value, MemberSets(lists))
<1> DEFINE ands == Conjunctions(every, lists)
<1>1. DOMAIN ands = DOMAIN lists /\ \A i \in DOMAIN lists : lists[i] \in C /\ ands[i] = every[lists[i]]
  BY DEF Conjunctions
<1> HIDE DEF ands
<1>2. MemberSets(lists) = {Members(lists[i]) : i \in DOMAIN lists}
  BY MembersOfEach
<1>3. Members(ands) = {ands[i] : i \in DOMAIN lists}
  BY <1>1 DEF Members
<1>4. \A i \in DOMAIN lists : /\ value[ands[i]] = 1 <=> AllHold(value, Members(lists[i]))
                              /\ value[ands[i]] \in {0, 1}
  BY <1>1, <1>2 DEF AndsMean
<1>5. AreConditions(value, Members(ands))
  BY <1>3, <1>4 DEF AreConditions
<1>6. (\E x \in Members(ands) : value[x] = 1) <=> SomeTermHolds(value, MemberSets(lists))
  <2>1. SomeTermHolds(value, MemberSets(lists)) <=> \E i \in DOMAIN lists : AllHold(value, Members(lists[i]))
    BY <1>2 DEF SomeTermHolds
  <2> QED
    BY <1>3, <1>4, <2>1
<1> QED
  BY <1>5, <1>6 DEF ands

\* What some terms have in common, taken out of these: a term holds when what
\* was taken does and one of the rests, or one of the others.
LEMMA TakingSplits ==
  ASSUME NEW value, NEW terms, NEW common, NEW left, NEW lack, IsTaking(terms, common, left, lack),
         \A t \in terms : AreConditions(value, t)
  PROVE  /\ \A t \in left : AreConditions(value, t)
         /\ \A t \in lack : AreConditions(value, t)
         /\ {} \in left => AreConditions(value, common)
         /\ SomeTermHolds(value, terms) <=>
               (AllHold(value, common) /\ SomeTermHolds(value, left)) \/ SomeTermHolds(value, lack)
<1> DEFINE have == {t \in terms : common \subseteq t}
<1>1. left = {t \ common : t \in have} /\ lack = terms \ have
  BY DEF IsTaking
<1>2. ASSUME NEW t \in have PROVE t \in terms /\ common \subseteq t /\ AreConditions(value, t)
  OBVIOUS
<1>3. terms = have \cup lack
  BY <1>1
<1> HIDE DEF have
<1>4. \A t \in left : AreConditions(value, t)
  BY <1>1, <1>2 DEF AreConditions
<1>5. \A t \in lack : AreConditions(value, t)
  BY <1>1
<1>6. {} \in left => AreConditions(value, common)
  <2>1. SUFFICES ASSUME NEW t \in have, {} = t \ common PROVE AreConditions(value, common)
    BY <1>1
  <2> QED
    BY <1>2, <2>1 DEF AreConditions
<1>7. \A t \in have : AllHold(value, t) <=> AllHold(value, common) /\ AllHold(value, t \ common)
  BY <1>2 DEF AllHold
<1>8. SomeTermHolds(value, left) <=> \E t \in have : AllHold(value, t \ common)
  BY <1>1 DEF SomeTermHolds
<1>9. SomeTermHolds(value, terms) <=> (\E t \in have : AllHold(value, t)) \/ SomeTermHolds(value, lack)
  BY <1>3 DEF SomeTermHolds
<1> QED
  BY <1>4, <1>5, <1>6, <1>7, <1>8, <1>9

\* What is taken out of the terms that have it, over their rests.
LEMMA FactoredHolds ==
  ASSUME NEW T, NEW C, NEW value, NEW every,
         AndsMean(C, value, every), AndMeans(T, value)
  PROVE  \A taken \in C, rests \in Seq(C), factored \in T : \A inner :
            /\ {} \in MemberSets(rests) => AreConditions(value, Members(taken))
            /\ <<>> \notin Members(rests) => (value[inner] = 1 <=> SomeTermHolds(value, MemberSets(rests)))
            /\ factored = IF <<>> \in Members(rests) THEN every[taken] ELSE Op("AND", every[taken], inner)
            => /\ value[factored] \in {0, 1}
               /\ value[factored] = 1 <=> AllHold(value, Members(taken)) /\ SomeTermHolds(value, MemberSets(rests))
<1> SUFFICES
      ASSUME NEW taken \in C, NEW rests \in Seq(C), NEW inner, NEW factored \in T,
             {} \in MemberSets(rests) => AreConditions(value, Members(taken)),
             <<>> \notin Members(rests) => (value[inner] = 1 <=> SomeTermHolds(value, MemberSets(rests))),
             factored = IF <<>> \in Members(rests) THEN every[taken] ELSE Op("AND", every[taken], inner)
      PROVE  /\ value[factored] \in {0, 1}
             /\ value[factored] = 1 <=> AllHold(value, Members(taken)) /\ SomeTermHolds(value, MemberSets(rests))
  OBVIOUS
<1>1. value[every[taken]] = 1 <=> AllHold(value, Members(taken))
  BY DEF AndsMean
<1>2. CASE <<>> \in Members(rests)
  <2>1. {} \in MemberSets(rests)
    BY <1>2, EmptyHasNoMembers DEF MemberSets
  <2>2. SomeTermHolds(value, MemberSets(rests))
    BY <2>1 DEF SomeTermHolds, AllHold
  <2>3. value[every[taken]] \in {0, 1}
    BY <2>1 DEF AndsMean
  <2> QED
    BY <1>1, <1>2, <2>2, <2>3
<1>3. CASE <<>> \notin Members(rests)
  <2>1. value[factored] = IF value[every[taken]] = 1 /\ value[inner] = 1 THEN 1 ELSE 0
    BY <1>3 DEF AndMeans
  <2> QED
    BY <1>1, <1>3, <2>1
<1> QED
  BY <1>2, <1>3

\* ... next to the terms that lack it.
LEMMA BesideHolds ==
  ASSUME NEW T, NEW D, NEW value, NEW either, OrsMean(D, value, either),
         NEW beside \in Seq(T), AreConditions(value, Members(beside)),
         NEW factored \in T, value[factored] \in {0, 1},
         Append(beside, factored) \in D
  PROVE  /\ value[either[Append(beside, factored)]] \in {0, 1}
         /\ value[either[Append(beside, factored)]] = 1 <=>
               (\E x \in Members(beside) : value[x] = 1) \/ value[factored] = 1
<1> DEFINE l == Append(beside, factored)
<1>1. l # <<>> /\ l \in D /\ Members(l) = Members(beside) \cup {factored}
  BY EndOfAppend, MembersOfAppend
<1> HIDE DEF l
<1>2. AreConditions(value, Members(l))
  BY <1>1 DEF AreConditions
<1>3. /\ value[either[l]] \in {0, 1}
      /\ value[either[l]] = 1 <=> \E x \in Members(l) : value[x] = 1
  BY <1>1, <1>2 DEF OrsMean
<1> QED
  BY <1>1, <1>3 DEF l

(* What the groups of the terms are rebuilt to means.                      *)
GroupsMean(T, C, D, value, every, either) ==
    \A values \in D, rest \in C : \A made \in T :
       /\ values \o rest \in C
       /\ AreConditions(value, Members(values)) /\ AreConditions(value, Members(rest))
       /\ made = IF Len(values) < 2 THEN every[values \o rest]
                 ELSE IF rest = <<>> THEN either[values]
                 ELSE Op("AND", either[values], every[rest])
       => /\ value[made] \in {0, 1}
          /\ value[made] = 1 <=> /\ Members(values) = {} \/ \E p \in Members(values) : value[p] = 1
                                 /\ AllHold(value, Members(rest))

\* The groups of the terms by a column: what each is rebuilt to holds when one
\* of its equalities holds, if it has any, and its rest does.
LEMMA GroupHolds ==
  ASSUME NEW T, NEW C, NEW D, NEW value, NEW every, NEW either,
         AndsMean(C, value, every), OrsMean(D, value, either), AndMeans(T, value),
         C \subseteq Seq(T), D \subseteq Seq(T)
  PROVE  GroupsMean(T, C, D, value, every, either)
<1> SUFFICES
      ASSUME NEW values \in D, NEW rest \in C, NEW made \in T, values \o rest \in C,
             AreConditions(value, Members(values)), AreConditions(value, Members(rest)),
             made = IF Len(values) < 2 THEN every[values \o rest]
                    ELSE IF rest = <<>> THEN either[values]
                    ELSE Op("AND", either[values], every[rest])
      PROVE  /\ value[made] \in {0, 1}
             /\ value[made] = 1 <=> /\ Members(values) = {} \/ \E p \in Members(values) : value[p] = 1
                                    /\ AllHold(value, Members(rest))
  BY DEF GroupsMean
<1>1. values \in Seq(T) /\ rest \in Seq(T) /\ Len(values) \in Nat
  OBVIOUS
<1>2. value[every[rest]] = 1 <=> AllHold(value, Members(rest))
  BY DEF AndsMean
<1>3. value[either[values]] = 1 <=> \E p \in Members(values) : value[p] = 1
  BY DEF OrsMean
<1>4. CASE Len(values) < 2
  <2>1. Members(values \o rest) = Members(values) \cup Members(rest)
    BY <1>1, MembersOfConcat
  <2>2. AreConditions(value, Members(values \o rest))
    BY <2>1 DEF AreConditions
  <2>3. /\ value[every[values \o rest]] \in {0, 1}
        /\ value[every[values \o rest]] = 1 <=> AllHold(value, Members(values \o rest))
    BY <2>2 DEF AndsMean
  <2>4. Members(values) = {} \/ Members(values) = {values[1]}
    <3>1. Len(values) = 0 \/ Len(values) = 1
      <4>1. \A k \in Nat : k < 2 => k = 0 \/ k = 1
        OBVIOUS
      <4> QED
        BY <1>1, <1>4, <4>1
    <3>2. DOMAIN values = 1..Len(values)
      BY <1>1
    <3>3. CASE Len(values) = 0
      BY <3>2, <3>3 DEF Members
    <3>4. CASE Len(values) = 1
      <4>1. DOMAIN values = {1}
        BY <3>2, <3>4
      <4> QED
        BY <4>1 DEF Members
    <3> QED
      BY <3>1, <3>3, <3>4
  <2>5. made = every[values \o rest]
    BY <1>4
  <2>6. AllHold(value, Members(values \o rest)) <=> AllHold(value, Members(values)) /\ AllHold(value, Members(rest))
    BY <2>1 DEF AllHold
  <2>7. AllHold(value, Members(values)) <=> Members(values) = {} \/ \E p \in Members(values) : value[p] = 1
    BY <2>4 DEF AllHold
  <2> QED
    BY <2>3, <2>5, <2>6, <2>7
<1>5. CASE Len(values) >= 2
  <2>1. Members(values) # {} /\ values # <<>> /\ ~(Len(values) < 2)
    <3>1. 1 \in DOMAIN values
      BY <1>1, <1>5
    <3> QED
      BY <1>1, <1>5, <3>1, EmptyHasNoMembers DEF Members
  <2>2. value[either[values]] \in {0, 1}
    BY <2>1 DEF OrsMean
  <2>3. CASE rest = <<>>
    <3>1. made = either[values]
      BY <2>1, <2>3
    <3>2. AllHold(value, Members(rest))
      BY <2>3, EmptyHasNoMembers DEF AllHold
    <3> QED
      BY <1>3, <2>1, <2>2, <3>1, <3>2
  <2>4. CASE rest # <<>>
    <3>1. made = Op("AND", either[values], every[rest])
      BY <2>1, <2>4
    <3>2. value[made] = IF value[either[values]] = 1 /\ value[every[rest]] = 1 THEN 1 ELSE 0
      BY <3>1 DEF AndMeans
    <3> QED
      BY <1>2, <1>3, <2>1, <3>2
  <2> QED
    BY <2>3, <2>4
<1> QED
  BY <1>1, <1>4, <1>5

\* The groups of the terms by a column hold when the terms do: in a group one of
\* the equalities, which stand alone in their terms, and the rest.
GroupSetHolds(value, g) == (g[1] = {} \/ \E p \in g[1] : value[p] = 1) /\ AllHold(value, g[2])

LEMMA GroupingHolds ==
  ASSUME NEW value, NEW terms, NEW c, NEW groups, IsGrouping(terms, c, groups),
         \A t \in terms : AreConditions(value, t)
  PROVE  /\ \A g \in groups : AreConditions(value, g[1]) /\ AreConditions(value, g[2])
         /\ (\E g \in groups : GroupSetHolds(value, g)) <=> SomeTermHolds(value, terms)
<1> DEFINE Equal(p) == IsColumnEquality(p) /\ EqualityColumn(p) = c
           Equalities(t) == {p \in t : Equal(p)}
           Alone == {t \in terms : \E p \in t : Equalities(t) = {p}}
           Rest(t) == t \ Equalities(t)
           Mates(t) == {m \in Alone : Rest(m) = Rest(t)}
           Group(t) == <<UNION {Equalities(m) : m \in Mates(t)}, Rest(t)>>
<1>1. groups = {Group(t) : t \in Alone} \cup {<<{}, t>> : t \in terms \ Alone}
  BY DEF IsGrouping
<1> HIDE DEF Equal
<1>2. \A t \in Alone : t \in terms /\ \E p \in t : Equalities(t) = {p}
  OBVIOUS
<1>3. \A t \in Alone : t \in Mates(t)
  OBVIOUS
<1>4. \A t \in Alone : \A m \in Mates(t) : m \in Alone /\ Rest(m) = Rest(t)
  OBVIOUS
<1>5. \A t : Equalities(t) \subseteq t /\ Rest(t) \subseteq t /\ t = Equalities(t) \cup Rest(t)
  OBVIOUS
<1>6. Alone \subseteq terms
  OBVIOUS
<1> HIDE DEF Equalities, Alone, Rest, Mates
<1>7. ASSUME NEW t \in Alone
      PROVE  /\ AreConditions(value, Group(t)[1]) /\ AreConditions(value, Group(t)[2])
             /\ AllHold(value, t) => GroupSetHolds(value, Group(t))
             /\ GroupSetHolds(value, Group(t)) => SomeTermHolds(value, terms)
  <2>1. Group(t)[1] = UNION {Equalities(m) : m \in Mates(t)} /\ Group(t)[2] = Rest(t)
    OBVIOUS
  <2> HIDE DEF Group
  <2>2. \A m \in Mates(t) : m \in terms /\ Equalities(m) \subseteq m
    BY <1>2, <1>4, <1>5
  <2>3. AreConditions(value, Group(t)[1])
    BY <2>1, <2>2 DEF AreConditions
  <2>4. AreConditions(value, Group(t)[2])
    BY <1>2, <1>5, <2>1 DEF AreConditions
  <2>5. ASSUME AllHold(value, t) PROVE GroupSetHolds(value, Group(t))
    <3>1. PICK p \in t : Equalities(t) = {p}
      BY <1>2
    <3>2. p \in Group(t)[1] /\ value[p] = 1
      BY <1>3, <2>1, <2>5, <3>1 DEF AllHold
    <3>3. AllHold(value, Group(t)[2])
      BY <1>5, <2>1, <2>5 DEF AllHold
    <3> QED
      BY <3>2, <3>3 DEF GroupSetHolds
  <2>6. ASSUME GroupSetHolds(value, Group(t)) PROVE SomeTermHolds(value, terms)
    <3>1. Group(t)[1] # {}
      BY <1>2, <1>3, <2>1
    <3>2. PICK p \in Group(t)[1] : value[p] = 1
      BY <2>6, <3>1 DEF GroupSetHolds
    <3>3. PICK m \in Mates(t) : p \in Equalities(m)
      BY <2>1
    <3>4. Equalities(m) = {p}
      BY <1>2, <1>4, <3>3
    <3>5. AllHold(value, Rest(m))
      BY <1>4, <2>1, <2>6 DEF GroupSetHolds
    <3>6. AllHold(value, m)
      BY <1>5, <3>2, <3>4, <3>5 DEF AllHold
    <3> QED
      BY <2>2, <3>6 DEF SomeTermHolds
  <2> QED
    BY <2>3, <2>4, <2>5, <2>6
<1>8. ASSUME NEW t \in terms \ Alone
      PROVE  /\ AreConditions(value, {}) /\ AreConditions(value, t)
             /\ GroupSetHolds(value, <<{}, t>>) <=> AllHold(value, t)
  BY DEF AreConditions, GroupSetHolds
<1>9. \A g \in groups : \/ \E t \in Alone : g = Group(t)
                        \/ \E t \in terms \ Alone : g = <<{}, t>>
  BY <1>1
<1>10. /\ \A t \in Alone : Group(t) \in groups
       /\ \A t \in terms \ Alone : <<{}, t>> \in groups
  BY <1>1
<1> HIDE DEF Group
<1>11. ASSUME NEW g \in groups
       PROVE  /\ AreConditions(value, g[1]) /\ AreConditions(value, g[2])
              /\ GroupSetHolds(value, g) => SomeTermHolds(value, terms)
  <2>1. CASE \E t \in Alone : g = Group(t)
    BY <1>7, <2>1
  <2>2. CASE \E t \in terms \ Alone : g = <<{}, t>>
    BY <1>8, <2>2 DEF SomeTermHolds
  <2> QED
    BY <1>9, <2>1, <2>2
<1>12. ASSUME SomeTermHolds(value, terms) PROVE \E g \in groups : GroupSetHolds(value, g)
  <2>1. PICK t \in terms : AllHold(value, t)
    BY <1>12 DEF SomeTermHolds
  <2>2. CASE t \in Alone
    BY <1>7, <1>10, <2>1, <2>2
  <2>3. CASE t \notin Alone
    BY <1>8, <1>10, <2>1, <2>3
  <2> QED
    BY <2>2, <2>3
<1> QED
  BY <1>11, <1>12


\* What FactorOr makes of a disjunction, case by case.
LEMMA FactorOfTaken ==
  ASSUME NEW T, NEW C, NEW D, NEW every, NEW either, NEW steps, NEW factor, NEW n, NEW f,
         IsFactorOrAt(T, C, D, every, either, steps, factor, f, n), f.taken # <<>>
  PROVE  LET factored == FactoredOut(every, either, factor, f)
             beside == Conjunctions(every, f.lacking)
         IN  factor[n] = IF f.lacking = <<>> THEN factored ELSE factor[either[Append(beside, factored)]]
<1>1. <<>> \in Members(f.rests) <=> \E i \in DOMAIN f.rests : f.rests[i] = <<>>
  BY DEF Members
<1>2. factor[n] = FactorOf(LAMBDA x : factor[x], LAMBDA l : every[l], LAMBDA l : either[l], f, n)
  BY DEF IsFactorOrAt
<1> QED
  BY <1>1, <1>2 DEF FactorOf, TakenOutOf, FactoredOut, Conjunctions

LEMMA FactorOfGroups ==
  ASSUME NEW T, NEW C, NEW D, NEW every, NEW either, NEW steps, NEW factor, NEW n, NEW f,
         IsFactorOrAt(T, C, D, every, either, steps, factor, f, n), f.taken = <<>>, f.groups # <<>>
  PROVE  LET l == Regrouped(every, either, f.groups)
         IN  factor[n] = IF either[l] = n THEN n ELSE factor[either[l]]
<1>1. factor[n] = FactorOf(LAMBDA x : factor[x], LAMBDA l : every[l], LAMBDA l : either[l], f, n)
  BY DEF IsFactorOrAt
<1> QED
  BY <1>1 DEF FactorOf, Regrouped

LEMMA FactorOfTerms ==
  ASSUME NEW T, NEW C, NEW D, NEW every, NEW either, NEW steps, NEW factor, NEW n, NEW f,
         IsFactorOrAt(T, C, D, every, either, steps, factor, f, n), f.taken = <<>>, f.groups = <<>>
  PROVE  factor[n] = either[Conjunctions(every, f.terms)]
<1>1. factor[n] = FactorOf(LAMBDA x : factor[x], LAMBDA l : every[l], LAMBDA l : either[l], f, n)
  BY DEF IsFactorOrAt
<1> QED
  BY <1>1 DEF FactorOf, Conjunctions

\* In each case the answer holds when one of the terms does.
LEMMA ConjunctionsInT ==
  ASSUME NEW T, NEW C, NEW every \in [C -> T], NEW lists \in Seq(C)
  PROVE  Conjunctions(every, lists) \in Seq(T)
<1>1. \A i \in 1..Len(lists) : every[lists[i]] \in T
  OBVIOUS
<1> QED
  BY <1>1 DEF Conjunctions

LEMMA FactoringTaken ==
  ASSUME NEW T, NEW C, NEW D, NEW value, NEW every \in [C -> T], NEW either \in [D -> T],
         NEW steps, NEW factor, NEW f, NEW n,
         AndsMean(C, value, every), OrsMean(D, value, either), AndMeans(T, value),
         IsFactorOrAt(T, C, D, every, either, steps, factor, f, n), f.taken # <<>>,
         \A t \in MemberSets(f.terms) : AreConditions(value, t),
         \A x \in T : steps[x] < steps[n] => value[factor[x]] = value[x]
  PROVE  value[factor[n]] \in {0, 1} /\ (value[factor[n]] = 1 <=> SomeTermHolds(value, MemberSets(f.terms)))
<1> DEFINE factored == FactoredOut(every, either, factor, f)
           over == Conjunctions(every, f.rests)
           beside == Conjunctions(every, f.lacking)
           all == Append(beside, factored)
<1>1. /\ f.taken \in C /\ f.rests \in Seq(C) /\ f.lacking \in Seq(C)
      /\ IsTaking(MemberSets(f.terms), Members(f.taken), MemberSets(f.rests), MemberSets(f.lacking))
      /\ factored \in T
      /\ <<>> \in Members(f.rests) \/ Fewer(D, either, steps, over, n)
      /\ f.lacking = <<>> \/ Fewer(D, either, steps, all, n)
  BY DEF IsFactorOrAt
<1>2. factor[n] = IF f.lacking = <<>> THEN factored ELSE factor[either[all]]
  BY FactorOfTaken
<1>3. factored = IF <<>> \in Members(f.rests) THEN every[f.taken]
                 ELSE Op("AND", every[f.taken], factor[either[over]])
  BY DEF FactoredOut
<1>4. \A lists \in Seq(C) : (\A t \in MemberSets(lists) : AreConditions(value, t)) =>
         LET ands == Conjunctions(every, lists)
         IN  /\ AreConditions(value, Members(ands))
             /\ (\E x \in Members(ands) : value[x] = 1) <=> SomeTermHolds(value, MemberSets(lists))
  BY AndsHold
<1>5. beside \in Seq(T)
  BY <1>1, ConjunctionsInT
<1>6. all = Append(beside, factored)
  OBVIOUS
<1> HIDE DEF factored, over, beside, all
<1>7. /\ \A t \in MemberSets(f.rests) : AreConditions(value, t)
      /\ \A t \in MemberSets(f.lacking) : AreConditions(value, t)
      /\ {} \in MemberSets(f.rests) => AreConditions(value, Members(f.taken))
      /\ SomeTermHolds(value, MemberSets(f.terms)) <=>
            \/ AllHold(value, Members(f.taken)) /\ SomeTermHolds(value, MemberSets(f.rests))
            \/ SomeTermHolds(value, MemberSets(f.lacking))
  BY <1>1, TakingSplits
<1>8. (\E x \in Members(over) : value[x] = 1) <=> SomeTermHolds(value, MemberSets(f.rests))
  BY <1>1, <1>4, <1>7 DEF over
<1>9. /\ AreConditions(value, Members(beside))
      /\ (\E x \in Members(beside) : value[x] = 1) <=> SomeTermHolds(value, MemberSets(f.lacking))
  BY <1>1, <1>4, <1>7 DEF beside
<1>10. \A l : Fewer(D, either, steps, l, n) => l \in D /\ value[factor[either[l]]] = value[either[l]]
  BY DEF Fewer
<1>11. ASSUME <<>> \notin Members(f.rests)
       PROVE  value[factor[either[over]]] = 1 <=> SomeTermHolds(value, MemberSets(f.rests))
  <2>1. over \in D /\ value[factor[either[over]]] = value[either[over]]
    BY <1>1, <1>10, <1>11
  <2>2. value[either[over]] = 1 <=> \E x \in Members(over) : value[x] = 1
    BY <2>1 DEF OrsMean
  <2> QED
    BY <1>8, <2>1, <2>2
<1>12. /\ value[factored] \in {0, 1}
       /\ value[factored] = 1 <=> AllHold(value, Members(f.taken)) /\ SomeTermHolds(value, MemberSets(f.rests))
  BY <1>1, <1>3, <1>7, <1>11, FactoredHolds
<1>13. CASE f.lacking = <<>>
  <2>1. MemberSets(f.lacking) = {}
    BY <1>13, EmptyHasNoMembers DEF MemberSets
  <2>2. ~SomeTermHolds(value, MemberSets(f.lacking))
    BY <2>1 DEF SomeTermHolds
  <2> QED
    BY <1>2, <1>7, <1>12, <1>13, <2>2
<1>14. CASE f.lacking # <<>>
  <2>1. all \in D /\ value[factor[either[all]]] = value[either[all]] /\ factor[n] = factor[either[all]]
    BY <1>1, <1>2, <1>10, <1>14
  <2>2. /\ value[either[all]] \in {0, 1}
        /\ value[either[all]] = 1 <=> (\E x \in Members(beside) : value[x] = 1) \/ value[factored] = 1
    BY <1>1, <1>5, <1>6, <1>9, <1>12, <2>1, BesideHolds
  <2> QED
    BY <1>7, <1>9, <1>12, <2>1, <2>2
<1> QED
  BY <1>13, <1>14

LEMMA FactoringGroups ==
  ASSUME NEW T, NEW C, NEW D, NEW value, NEW every \in [C -> T], NEW either \in [D -> T],
         NEW steps, NEW factor, NEW f, NEW n \in T,
         C \subseteq Seq(T), D \subseteq Seq(T),
         AndsMean(C, value, every), OrsMean(D, value, either), AndMeans(T, value),
         IsFactorOrAt(T, C, D, every, either, steps, factor, f, n), f.taken = <<>>, f.groups # <<>>,
         \A t \in MemberSets(f.terms) : AreConditions(value, t),
         \A x \in T : steps[x] < steps[n] => value[factor[x]] = value[x]
  PROVE  \/ factor[n] = n
         \/ /\ value[factor[n]] \in {0, 1}
            /\ value[factor[n]] = 1 <=> SomeTermHolds(value, MemberSets(f.terms))
<1>0. GroupsMean(T, C, D, value, every, either)
  BY GroupHolds
<1> DEFINE groups == f.groups
           l == Regrouped(every, either, groups)
<1>1. /\ groups \in Seq([values : D, rest : C])
      /\ \E c \in T : IsGrouping(MemberSets(f.terms), c, GroupSets(groups))
      /\ \A g \in Members(groups) : g.values \o g.rest \in C
      /\ l \in D /\ (either[l] = n \/ Fewer(D, either, steps, l, n))
  BY DEF IsFactorOrAt
<1>2. factor[n] = IF either[l] = n THEN n ELSE factor[either[l]]
  BY FactorOfGroups
<1>3. l = [i \in DOMAIN groups |-> GroupOf(LAMBDA x : every[x], LAMBDA x : either[x], groups[i])]
  BY DEF Regrouped
<1>4. groups # <<>>
  OBVIOUS
<1> HIDE DEF groups, l
<1>5. \A i \in DOMAIN groups : /\ groups[i] \in [values : D, rest : C] /\ groups[i] \in Members(groups)
                               /\ l[i] = GroupOf(LAMBDA x : every[x], LAMBDA x : either[x], groups[i])
  <2>1. TAKE i \in DOMAIN groups
  <2>2. groups[i] \in Members(groups)
    BY DEF Members
  <2>3. groups[i] \in [values : D, rest : C]
    <3> DEFINE Kinds == [values : D, rest : C]
    <3>1. groups \in Seq(Kinds)
      BY <1>1
    <3> HIDE DEF Kinds
    <3>2. groups[i] \in Kinds
      BY <3>1
    <3> QED
      BY <3>2 DEF Kinds
  <2> QED
    BY <1>3, <2>2, <2>3
<1>6. DOMAIN l = DOMAIN groups /\ DOMAIN groups = 1..Len(groups) /\ l \in Seq(T)
  BY <1>1, <1>3
<1>7. l # <<>>
  BY <1>1, <1>4, <1>6
<1>8. \A i \in DOMAIN groups : l[i] \in T
  BY <1>6
<1>9. Members(l) = {l[i] : i \in DOMAIN groups}
  BY <1>6 DEF Members
<1>10. GroupSets(groups) = {<<Members(groups[i].values), Members(groups[i].rest)>> : i \in DOMAIN groups}
  <2>1. Members(groups) = {groups[i] : i \in DOMAIN groups}
    BY DEF Members
  <2> QED
    BY <2>1 DEF GroupSets
<1>11. /\ \A g \in GroupSets(groups) : AreConditions(value, g[1]) /\ AreConditions(value, g[2])
       /\ (\E g \in GroupSets(groups) : GroupSetHolds(value, g)) <=> SomeTermHolds(value, MemberSets(f.terms))
  BY <1>1, GroupingHolds
<1>12. ASSUME NEW i \in DOMAIN groups
       PROVE  LET g == groups[i]
              IN  /\ value[l[i]] \in {0, 1}
                  /\ value[l[i]] = 1 <=> GroupSetHolds(value, <<Members(g.values), Members(g.rest)>>)
  <2>1. PICK values, rest : values = groups[i].values /\ rest = groups[i].rest
    OBVIOUS
  <2>2. values \in D /\ rest \in C /\ values \o rest \in C /\ Len(values) \in Nat
    <3>1. groups[i] \in [values : D, rest : C] /\ groups[i].values \o groups[i].rest \in C
      BY <1>1, <1>5
    <3> QED
      BY <2>1, <3>1
  <2>3. <<values, rest>>[1] = values /\ <<Members(values), Members(rest)>> \in GroupSets(groups)
    BY <1>10, <2>1
  <2>4. AreConditions(value, Members(values)) /\ AreConditions(value, Members(rest))
    BY <1>11, <2>3
  <2>5. l[i] = IF Len(values) < 2 THEN every[values \o rest]
               ELSE IF rest = <<>> THEN either[values]
               ELSE Op("AND", either[values], every[rest])
    BY <1>5, <2>1, <2>2 DEF GroupOf
  <2>6. /\ value[l[i]] \in {0, 1}
        /\ value[l[i]] = 1 <=> /\ Members(values) = {} \/ \E p \in Members(values) : value[p] = 1
                               /\ AllHold(value, Members(rest))
    BY <1>0, <1>8, <2>2, <2>4, <2>5 DEF GroupsMean
  <2> QED
    BY <2>1, <2>6 DEF GroupSetHolds
<1>13. AreConditions(value, Members(l))
  BY <1>9, <1>12 DEF AreConditions
<1>14. (\E x \in Members(l) : value[x] = 1) <=> SomeTermHolds(value, MemberSets(f.terms))
  <2>1. (\E x \in Members(l) : value[x] = 1) <=> \E i \in DOMAIN groups : value[l[i]] = 1
    BY <1>9
  <2>2. (\E g \in GroupSets(groups) : GroupSetHolds(value, g)) <=>
           \E i \in DOMAIN groups : GroupSetHolds(value, <<Members(groups[i].values), Members(groups[i].rest)>>)
    BY <1>10
  <2> QED
    BY <1>11, <1>12, <2>1, <2>2
<1>15. /\ value[either[l]] \in {0, 1}
       /\ value[either[l]] = 1 <=> \E x \in Members(l) : value[x] = 1
  BY <1>1, <1>7, <1>13 DEF OrsMean
<1>16. CASE either[l] = n
  BY <1>2, <1>16
<1>17. CASE either[l] # n
  <2>1. value[factor[either[l]]] = value[either[l]]
    BY <1>1, <1>17 DEF Fewer
  <2> QED
    BY <1>2, <1>14, <1>15, <1>17, <2>1
<1> QED
  BY <1>16, <1>17

LEMMA FactoringTerms ==
  ASSUME NEW T, NEW C, NEW D, NEW value, NEW every \in [C -> T], NEW either \in [D -> T],
         NEW steps, NEW factor, NEW f, NEW n,
         AndsMean(C, value, every), OrsMean(D, value, either),
         IsFactorOrAt(T, C, D, every, either, steps, factor, f, n), f.taken = <<>>, f.groups = <<>>,
         f.terms \in Seq(C), f.terms # <<>>,
         \A t \in MemberSets(f.terms) : AreConditions(value, t)
  PROVE  value[factor[n]] \in {0, 1} /\ (value[factor[n]] = 1 <=> SomeTermHolds(value, MemberSets(f.terms)))
<1> DEFINE l == Conjunctions(every, f.terms)
<1>1. l \in D
  BY DEF IsFactorOrAt
<1>2. factor[n] = either[l]
  BY FactorOfTerms
<1>3. l # <<>>
  BY DEF Conjunctions
<1>4. /\ AreConditions(value, Members(l))
      /\ (\E x \in Members(l) : value[x] = 1) <=> SomeTermHolds(value, MemberSets(f.terms))
  BY AndsHold
<1> HIDE DEF l
<1>5. /\ value[either[l]] \in {0, 1}
      /\ value[either[l]] = 1 <=> \E x \in Members(l) : value[x] = 1
  BY <1>1, <1>3, <1>4 DEF OrsMean
<1> QED
  BY <1>2, <1>4, <1>5

\* Factoring a disjunction, what all or most of its terms have in common taken
\* out or the equalities with a column grouped, again and again, keeps its value
\* on every row where nothing that is compared with itself or through a default
\* is NULL (dropping x == x from a term is a part of it).
LEMMA FactorOrKeepsValue ==
  ASSUME NEW T, NEW C, NEW D, NEW rank, NEW row, NEW value, NEW conjuncts, NEW disjuncts,
         NEW norm, NEW dedupe, NEW every, NEW either, NEW factoring, NEW steps, NEW factor,
         IsForest(T, rank), IsMeaning(T, row, value), HasConditions(T, value),
         IsLists(T, C), IsFlatten(T, C, "AND", conjuncts), IsRebuild(T, C, "AND", every),
         IsLists(T, D), IsFlatten(T, D, "OR", disjuncts), IsRebuild(T, D, "OR", either),
         IsNormalizeGuard(T, norm), GivenGuards(T, norm, value), IsDedupeAnd(T, C, norm, dedupe),
         IsFactorOr(T, C, D, conjuncts, disjuncts, dedupe, every, either, factoring, steps, factor)
  PROVE  KeepsValue(T, value, factor)
<1> DEFINE Good == {n \in T : value[factor[n]] = value[n]}
<1>1. AndsMean(C, value, every) /\ OrsMean(D, value, either) /\ AndMeans(T, value)
  BY RebuiltMeaning
<1>2. every \in [C -> T] /\ either \in [D -> T] /\ C \subseteq Seq(T) /\ D \subseteq Seq(T)
  BY DEF IsRebuild, IsLists
<1>3. factor \in [T -> T] /\ steps \in [T -> Nat] /\ \A n \in T : ~IsOp(n, "OR") => factor[n] = n
  BY DEF IsFactorOr
<1>4. ASSUME NEW n \in T, \A x \in T : steps[x] < steps[n] => x \in Good PROVE n \in Good
  <2>1. \A x \in T : steps[x] < steps[n] => value[factor[x]] = value[x]
    BY <1>4
  <2>2. CASE ~IsOp(n, "OR")
    BY <1>3, <2>2
  <2>3. CASE IsOp(n, "OR")
    <3>1. PICK f : f = factoring[n]
      OBVIOUS
    <3>2. IsFactorOrAt(T, C, D, every, either, steps, factor, f, n)
      BY <2>3, <3>1 DEF IsFactorOr
    <3>3. f.terms = [i \in DOMAIN disjuncts[n] |-> dedupe[conjuncts[disjuncts[n][i]]]]
      BY <2>3, <3>1 DEF IsFactorOr
    <3>4. PICK terms : terms = f.terms
      OBVIOUS
    <3>5. /\ terms \in Seq(C) /\ terms # <<>>
          /\ \A t \in MemberSets(terms) : AreConditions(value, t)
          /\ value[n] \in {0, 1} /\ (value[n] = 1 <=> SomeTermHolds(value, MemberSets(terms)))
      BY <2>3, <3>3, <3>4, TermsHold
    <3>6. \/ factor[n] = n
          \/ /\ value[factor[n]] \in {0, 1}
             /\ value[factor[n]] = 1 <=> SomeTermHolds(value, MemberSets(f.terms))
      <4>1. CASE f.taken # <<>>
        BY <1>1, <1>2, <2>1, <3>2, <3>4, <3>5, <4>1, FactoringTaken
      <4>2. CASE f.taken = <<>> /\ f.groups # <<>>
        BY <1>1, <1>2, <2>1, <3>2, <3>4, <3>5, <4>2, FactoringGroups
      <4>3. CASE f.taken = <<>> /\ f.groups = <<>>
        BY <1>1, <1>2, <3>2, <3>4, <3>5, <4>3, FactoringTerms
      <4> QED
        BY <4>1, <4>2, <4>3
    <3> QED
      BY <3>4, <3>5, <3>6
  <2> QED
    BY <2>2, <2>3
<1>5. T = Good
  <2>1. Good \in SUBSET T
    OBVIOUS
  <2> HIDE DEF Good
  <2> QED
    BY <1>3, <1>4, <2>1, ByRank
<1> QED
  BY <1>5 DEF KeepsValue

\* A formula keeps its value when each of its disjunctions is factored.
THEOREM FactorGuardsKeepsValue ==
  ASSUME NEW T, NEW C, NEW D, NEW rank, NEW row, NEW value, NEW conjuncts, NEW disjuncts,
         NEW norm, NEW dedupe, NEW every, NEW either, NEW factoring, NEW steps, NEW factor, NEW pass,
         IsForest(T, rank), IsMeaning(T, row, value), HasConditions(T, value),
         IsLists(T, C), IsFlatten(T, C, "AND", conjuncts), IsRebuild(T, C, "AND", every),
         IsLists(T, D), IsFlatten(T, D, "OR", disjuncts), IsRebuild(T, D, "OR", either),
         IsNormalizeGuard(T, norm), GivenGuards(T, norm, value), IsDedupeAnd(T, C, norm, dedupe),
         IsFactorOr(T, C, D, conjuncts, disjuncts, dedupe, every, either, factoring, steps, factor),
         IsFactorGuards(T, factor, pass)
  PROVE  KeepsValue(T, value, pass)
<1>1. KeepsValue(T, value, factor)
  BY FactorOrKeepsValue
<1>2. IsPass(T, pass)
  BY DEF IsFactorGuards
<1>3. \A n \in T : value[pass[n]] = value[Image(pass, n)]
  BY <1>1 DEF IsFactorGuards, IsPass, KeepsValue
<1> QED
  BY <1>2, <1>3, BottomUp

-----------------------------------------------------------------------------
(* The passes together.                                                    *)

\* The passes that follow every shortening of a formula (optimize_expression_ast
\* ends with them): together they keep its value on every row where no clamped or joined value is NULL, nor anything that is
\* compared with itself or through a default.
THEOREM HygieneKeepsValue ==
  ASSUME NEW T, NEW C, NEW D, NEW Chains, NEW rank, NEW row, NEW value,
         NEW never, NEW subject, NEW hoist, NEW joins, NEW clamps,
         NEW strip, NEW distribute, NEW join, NEW clamp, NEW collapse, NEW fold,
         NEW conjuncts, NEW every, NEW norm, NEW dedupe, NEW tidy, NEW same, NEW caps, NEW cap,
         NEW disjuncts, NEW either, NEW without, NEW unshadow, NEW below,
         NEW factoring, NEW steps, NEW factor, NEW guards,
         IsForest(T, rank), IsMeaning(T, row, value), HasConditions(T, value),
         IsNeverNull(T, never), IsStripCoalesce(T, never, strip),
         IsHoist(T, rank, hoist), IsDistribute(T, hoist, distribute),
         IsJoinZeroDefaults(T, rank, joins, join), GivenWhere(T, joins, value),
         IsClampSubject(T, subject), IsNegativeClamps(T, rank, subject, clamps, clamp),
         GivenWhere(T, clamps, value),
         IsCollapseDegenerate(T, collapse), IsFoldBooleans(T, fold),
         IsLists(T, C), IsFlatten(T, C, "AND", conjuncts), IsRebuild(T, C, "AND", every),
         IsNormalizeGuard(T, norm), GivenGuards(T, norm, value), IsDedupeAnd(T, C, norm, dedupe),
         IsDedupeGuards(T, conjuncts, every, dedupe, tidy), IsSameValue(T, norm, conjuncts, same),
         IsCollapseCap(T, C, rank, conjuncts, every, dedupe, same, caps, cap),
         IsLists(T, D), IsFlatten(T, D, "OR", disjuncts), IsRebuild(T, D, "OR", either),
         Chains \subseteq T \X SUBSET T, IsWithout(T, D, {chain[2] : chain \in Chains}, without),
         IsDropShadowed(T, Chains, disjuncts, either, without, unshadow, below),
         IsFactorOr(T, C, D, conjuncts, disjuncts, dedupe, every, either, factoring, steps, factor),
         IsFactorGuards(T, factor, guards)
  PROVE  \A n \in T :
            LET distributed == distribute[clamp[join[distribute[strip[n]]]]]
                folded == collapse[fold[collapse[distributed]]]
                tidied == tidy[collapse[tidy[cap[folded]]]]
            IN  value[guards[unshadow[tidied]]] = value[n]
<1>1. /\ strip \in [T -> T] /\ distribute \in [T -> T] /\ join \in [T -> T]
      /\ clamp \in [T -> T] /\ collapse \in [T -> T] /\ fold \in [T -> T]
  BY DEF IsStripCoalesce, IsDistribute, IsJoinZeroDefaults, IsNegativeClamps, IsReapplied,
         IsCollapseDegenerate, IsFoldBooleans, IsPass
<1>2. cap \in [T -> T] /\ unshadow \in [T -> T] /\ guards \in [T -> T]
  BY DEF IsCollapseCap, IsDropShadowed, IsFactorGuards, IsPass
<1>3. tidy \in [T -> T] /\ KeepsValue(T, value, tidy)
  BY DedupeGuardsKeepsValue DEF IsDedupeGuards, IsPass
<1>4. KeepsValue(T, value, strip)
  BY StripCoalesceKeepsValue
<1>5. KeepsValue(T, value, distribute)
  BY DistributeKeepsValue
<1>6. KeepsValue(T, value, join)
  BY JoinZeroDefaultsKeepValue
<1>7. KeepsValue(T, value, clamp)
  BY NegativeClampsKeepValue
<1>8. KeepsValue(T, value, collapse)
  BY CollapseDegenerateKeepsValue
<1>9. KeepsValue(T, value, fold)
  BY FoldBooleansKeepsValue
<1>10. KeepsValue(T, value, cap)
  BY CollapseCapKeepsValue
<1>11. KeepsValue(T, value, unshadow)
  BY DropShadowedKeepsValue
<1>12. KeepsValue(T, value, guards)
  BY FactorGuardsKeepsValue
<1>13. TAKE n \in T
<1> DEFINE a == distribute[strip[n]]
           b == clamp[join[a]]
           c == collapse[distribute[b]]
           d == collapse[fold[c]]
           e == tidy[cap[d]]
           f == tidy[collapse[e]]
<1>14. a \in T /\ value[a] = value[n]
  BY <1>1, <1>4, <1>5 DEF KeepsValue
<1> HIDE DEF a
<1>15. b \in T /\ value[b] = value[a]
  BY <1>1, <1>6, <1>7, <1>14 DEF KeepsValue
<1> HIDE DEF b
<1>16. c \in T /\ value[c] = value[b]
  BY <1>1, <1>5, <1>8, <1>15 DEF KeepsValue
<1> HIDE DEF c
<1>17. d \in T /\ value[d] = value[c]
  BY <1>1, <1>8, <1>9, <1>16 DEF KeepsValue
<1> HIDE DEF d
<1>18. e \in T /\ value[e] = value[d]
  BY <1>2, <1>10, <1>17, <1>3 DEF KeepsValue
<1> HIDE DEF e
<1>19. f \in T /\ value[f] = value[e]
  BY <1>1, <1>8, <1>18, <1>3 DEF KeepsValue
<1> HIDE DEF f
<1>20. value[guards[unshadow[f]]] = value[f]
  BY <1>2, <1>11, <1>12, <1>19 DEF KeepsValue
<1> QED
  BY <1>14, <1>15, <1>16, <1>17, <1>18, <1>19, <1>20 DEF a, b, c, d, e, f

-----------------------------------------------------------------------------
(* ELSEIF chains as lists of arms.                                         *)

\* What a chain of these arms has as its value, over a default of value w: the
\* value of the first arm that holds.
Says(value, l, w, v) ==
  \/ /\ \A i \in DOMAIN l : value[l[i].cond] # 1
     /\ v = w
  \/ \E i \in DOMAIN l : /\ value[l[i].cond] = 1 /\ v = value[l[i].then]
                         /\ \A j \in DOMAIN l : j < i => value[l[j].cond] # 1

LEMMA SaysOne ==
  ASSUME NEW T, NEW value, NEW l \in Seq(Arms(T)), NEW w, NEW v, NEW u,
         Says(value, l, w, v), Says(value, l, w, u)
  PROVE  v = u
<1>1. DOMAIN l = 1..Len(l) /\ Len(l) \in Nat
  OBVIOUS
<1>2. CASE \A i \in DOMAIN l : value[l[i].cond] # 1
  BY <1>2 DEF Says
<1>3. CASE ~ \A i \in DOMAIN l : value[l[i].cond] # 1
  <2>1. PICK i \in DOMAIN l : /\ value[l[i].cond] = 1 /\ v = value[l[i].then]
                              /\ \A j \in DOMAIN l : j < i => value[l[j].cond] # 1
    BY <1>3 DEF Says
  <2>2. PICK k \in DOMAIN l : /\ value[l[k].cond] = 1 /\ u = value[l[k].then]
                              /\ \A j \in DOMAIN l : j < k => value[l[j].cond] # 1
    BY <1>3 DEF Says
  <2>3. ~(i < k) /\ ~(k < i) /\ i \in Int /\ k \in Int
    BY <1>1, <2>1, <2>2
  <2>4. i = k
    BY <2>3
  <2> QED
    BY <2>1, <2>2, <2>4
<1> QED
  BY <1>2, <1>3

LEMMA SaysAppend ==
  ASSUME NEW T, NEW value, NEW f \in Seq(Arms(T)), NEW arm \in Arms(T), NEW w, NEW v
  PROVE  Says(value, Append(f, arm), w, v)
            <=> Says(value, f, IF value[arm.cond] = 1 THEN value[arm.then] ELSE w, v)
<1> DEFINE l == Append(f, arm)
<1>1. PICK n \in Nat : n = Len(f) /\ DOMAIN f = 1..n
  OBVIOUS
<1>2. DOMAIN l = 1..n+1 /\ l[n+1] = arm /\ \A i \in 1..n : l[i] = f[i]
  BY <1>1, AppendProperties
<1> HIDE DEF l
<1>3. \A i \in DOMAIN l : i \in DOMAIN f \/ i = n + 1
  BY <1>1, <1>2
<1>4. DOMAIN f \subseteq DOMAIN l /\ n + 1 \in DOMAIN l /\ \A i \in DOMAIN f : i < n + 1 /\ l[i] = f[i] /\ ~(n + 1 < i)
  BY <1>1, <1>2
<1>5. ASSUME Says(value, l, w, v) PROVE Says(value, f, IF value[arm.cond] = 1 THEN value[arm.then] ELSE w, v)
  <2>1. CASE \A i \in DOMAIN l : value[l[i].cond] # 1
    <3>1. value[arm.cond] # 1 /\ v = w /\ \A i \in DOMAIN f : value[f[i].cond] # 1
      BY <1>2, <1>4, <1>5, <2>1 DEF Says
    <3> QED
      BY <3>1 DEF Says
  <2>2. CASE ~ \A i \in DOMAIN l : value[l[i].cond] # 1
    <3>1. PICK i \in DOMAIN l : /\ value[l[i].cond] = 1 /\ v = value[l[i].then]
                                /\ \A j \in DOMAIN l : j < i => value[l[j].cond] # 1
      BY <1>5, <2>2 DEF Says
    <3>2. CASE i \in DOMAIN f
      BY <1>4, <3>1, <3>2 DEF Says
    <3>3. CASE i = n + 1
      <4>1. value[arm.cond] = 1 /\ v = value[arm.then] /\ \A j \in DOMAIN f : value[f[j].cond] # 1
        BY <1>2, <1>4, <3>1, <3>3
      <4> QED
        BY <4>1 DEF Says
    <3> QED
      BY <1>3, <3>2, <3>3
  <2> QED
    BY <2>1, <2>2
<1>6. ASSUME Says(value, f, IF value[arm.cond] = 1 THEN value[arm.then] ELSE w, v) PROVE Says(value, l, w, v)
  <2>1. CASE \A i \in DOMAIN f : value[f[i].cond] # 1
    <3>1. v = IF value[arm.cond] = 1 THEN value[arm.then] ELSE w
      BY <1>6, <2>1 DEF Says
    <3>2. CASE value[arm.cond] = 1
      <4>1. n + 1 \in DOMAIN l /\ value[l[n+1].cond] = 1 /\ v = value[l[n+1].then]
        BY <1>2, <1>4, <3>1, <3>2
      <4>2. \A j \in DOMAIN l : j < n + 1 => value[l[j].cond] # 1
        BY <1>2, <1>3, <1>4, <2>1
      <4> QED
        BY <4>1, <4>2 DEF Says
    <3>3. CASE value[arm.cond] # 1
      <4>1. \A j \in DOMAIN l : value[l[j].cond] # 1
        BY <1>2, <1>3, <1>4, <2>1, <3>3
      <4> QED
        BY <3>1, <3>3, <4>1 DEF Says
    <3> QED
      BY <3>2, <3>3
  <2>2. CASE ~ \A i \in DOMAIN f : value[f[i].cond] # 1
    <3>1. PICK i \in DOMAIN f : /\ value[f[i].cond] = 1 /\ v = value[f[i].then]
                                /\ \A j \in DOMAIN f : j < i => value[f[j].cond] # 1
      BY <1>6, <2>2 DEF Says
    <3>2. i \in DOMAIN l /\ value[l[i].cond] = 1 /\ v = value[l[i].then]
      BY <1>4, <3>1
    <3>3. \A j \in DOMAIN l : j < i => value[l[j].cond] # 1
      BY <1>3, <1>4, <3>1
    <3> QED
      BY <3>2, <3>3 DEF Says
  <2> QED
    BY <2>1, <2>2
<1> QED
  BY <1>5, <1>6 DEF l

LEMMA SaysFirst ==
  ASSUME NEW T, NEW value, NEW f \in Seq(Arms(T)), NEW arm \in Arms(T), NEW w, NEW v,
         IF value[arm.cond] = 1 THEN v = value[arm.then] ELSE Says(value, f, w, v)
  PROVE  Says(value, <<arm>> \o f, w, v)
<1> DEFINE l == <<arm>> \o f
<1>1. PICK n \in Nat : n = Len(f) /\ DOMAIN f = 1..n
  OBVIOUS
<1>2. DOMAIN l = 1..n+1 /\ l[1] = arm /\ \A i \in 1..n : l[i+1] = f[i]
  <2>1. <<arm>> \in Seq(Arms(T)) /\ Len(<<arm>>) = 1 /\ <<arm>>[1] = arm
    OBVIOUS
  <2> QED
    BY <1>1, <2>1, ConcatProperties
<1> HIDE DEF l
<1>3. \A i \in DOMAIN l : i = 1 \/ (i - 1 \in DOMAIN f /\ l[i] = f[i-1] /\ i \in Int)
  BY <1>1, <1>2
<1>4. 1 \in DOMAIN l /\ \A i \in DOMAIN f : i + 1 \in DOMAIN l /\ l[i+1] = f[i]
  BY <1>1, <1>2
<1>5. CASE value[arm.cond] = 1
  <2>1. \A j \in DOMAIN l : ~(j < 1)
    BY <1>2
  <2> QED
    BY <1>2, <1>4, <1>5, <2>1 DEF Says, l
<1>6. CASE value[arm.cond] # 1 /\ \A i \in DOMAIN f : value[f[i].cond] # 1
  <2>1. \A i \in DOMAIN l : value[l[i].cond] # 1
    BY <1>2, <1>3, <1>6
  <2>2. v = w
    BY <1>6 DEF Says
  <2> QED
    BY <2>1, <2>2 DEF Says, l
<1>7. CASE value[arm.cond] # 1 /\ ~ \A i \in DOMAIN f : value[f[i].cond] # 1
  <2>1. PICK i \in DOMAIN f : /\ value[f[i].cond] = 1 /\ v = value[f[i].then]
                              /\ \A j \in DOMAIN f : j < i => value[f[j].cond] # 1
    BY <1>7 DEF Says
  <2>2. i + 1 \in DOMAIN l /\ value[l[i+1].cond] = 1 /\ v = value[l[i+1].then]
    BY <1>4, <2>1
  <2>3. ASSUME NEW j \in DOMAIN l, j < i + 1 PROVE value[l[j].cond] # 1
    <3>1. CASE j = 1
      BY <1>2, <1>7, <3>1
    <3>2. CASE j - 1 \in DOMAIN f /\ l[j] = f[j-1] /\ j \in Int
      <4>1. j - 1 < i
        BY <1>1, <2>1, <2>3, <3>2
      <4> QED
        BY <2>1, <3>2, <4>1
    <3> QED
      BY <1>3, <3>1, <3>2
  <2> QED
    BY <2>2, <2>3 DEF Says, l
<1> QED
  BY <1>5, <1>6, <1>7

\* The arms of a tree lie below it, and with its default they have its value.
LEMMA ArmsBelow ==
  ASSUME NEW T, NEW A, NEW rank, NEW arms, NEW default,
         IsForest(T, rank), IsChains(T, A, arms, default)
  PROVE  \A n \in T :
            /\ arms[n] \in Seq(Arms(T)) /\ (arms[n] # <<>> <=> IsIf(n))
            /\ \A i \in DOMAIN arms[n] : rank[arms[n][i].cond] < rank[n] /\ rank[arms[n][i].then] < rank[n]
            /\ default[n] \in T /\ ~IsIf(default[n])
            /\ default[n] = Null \/ default[n] = n \/ rank[default[n]] < rank[n]
<1> DEFINE Good == {n \in T :
            /\ arms[n] \in Seq(Arms(T)) /\ (arms[n] # <<>> <=> IsIf(n))
            /\ \A i \in DOMAIN arms[n] : rank[arms[n][i].cond] < rank[n] /\ rank[arms[n][i].then] < rank[n]
            /\ default[n] \in T /\ ~IsIf(default[n])
            /\ default[n] = Null \/ default[n] = n \/ rank[default[n]] < rank[n]}
<1>0. rank \in [T -> Nat]
  BY DEF IsForest
<1>1. ASSUME NEW n \in T, \A x \in T : rank[x] < rank[n] => x \in Good PROVE n \in Good
  <2>0. default[n] \in T /\ arms[n] \in Seq(Arms(T))
    BY DEF IsChains, IsLists
  <2>1. CASE ~IsIf(n)
    <3>1. arms[n] = <<>> /\ default[n] = IF n = Absent THEN Null ELSE n
      BY <2>1 DEF IsChains
    <3>2. ~IsIf(Null)
      BY DEF IsIf, Null, Node
    <3>3. DOMAIN arms[n] = {}
      BY <3>1
    <3> QED
      BY <2>0, <2>1, <3>1, <3>2, <3>3
  <2>2. CASE IsIf(n)
    <3> DEFINE e == ElseOf(n)
               rest == arms[e]
               arm == ChainArm(n)
    <3>1. /\ CondOf(n) \in T /\ ThenOf(n) \in T /\ e \in T
          /\ rank[CondOf(n)] < rank[n] /\ rank[ThenOf(n)] < rank[n] /\ rank[e] < rank[n]
      BY <2>2, IfParts
    <3>2. e \in Good
      BY <1>1, <3>1
    <3>3. arms[n] = <<arm>> \o rest /\ default[n] = default[e]
      BY <2>2 DEF IsChains
    <3>4. arm \in Arms(T) /\ arm.cond = CondOf(n) /\ arm.then = ThenOf(n)
      BY <3>1 DEF ChainArm, Arms
    <3>5. /\ rest \in Seq(Arms(T)) /\ default[e] \in T /\ ~IsIf(default[e])
          /\ \A i \in DOMAIN rest : rank[rest[i].cond] < rank[e] /\ rank[rest[i].then] < rank[e]
          /\ default[e] = Null \/ default[e] = e \/ rank[default[e]] < rank[e]
      BY <3>2
    <3>6. rank[e] \in Nat /\ rank[n] \in Nat /\ rank[default[e]] \in Nat
      BY <1>0, <3>1, <3>5
    <3>7. default[n] = Null \/ rank[default[n]] < rank[n]
      BY <3>1, <3>3, <3>5, <3>6
    <3> HIDE DEF e, rest, arm
    <3>8. PICK k \in Nat : k = Len(rest) /\ DOMAIN rest = 1..k
      BY <3>5
    <3>9. DOMAIN arms[n] = 1..k+1 /\ arms[n][1] = arm /\ \A i \in 1..k : arms[n][i+1] = rest[i]
      <4>1. <<arm>> \in Seq(Arms(T)) /\ Len(<<arm>>) = 1 /\ <<arm>>[1] = arm
        BY <3>4
      <4> QED
        BY <3>3, <3>5, <3>8, <4>1, ConcatProperties
    <3>10. ASSUME NEW i \in DOMAIN arms[n]
           PROVE  rank[arms[n][i].cond] < rank[n] /\ rank[arms[n][i].then] < rank[n]
      <4>1. CASE i = 1
        BY <3>1, <3>4, <3>9, <4>1
      <4>2. CASE i # 1
        <5>1. i - 1 \in DOMAIN rest /\ arms[n][i] = rest[i-1]
          BY <3>8, <3>9, <3>10, <4>2
        <5>2. rest[i-1] \in Arms(T)
          BY <3>5, <5>1
        <5>3. rank[rest[i-1].cond] \in Nat /\ rank[rest[i-1].then] \in Nat
          BY <1>0, <5>2 DEF Arms
        <5>4. rank[rest[i-1].cond] < rank[e] /\ rank[rest[i-1].then] < rank[e]
          BY <3>5, <5>1
        <5>5. \A a, b, c \in Nat : a < b /\ b < c => a < c
          OBVIOUS
        <5> QED
          BY <3>1, <3>6, <5>1, <5>3, <5>4, <5>5
      <4> QED
        BY <4>1, <4>2
    <3>11. arms[n] # <<>>
      BY <3>9
    <3> QED
      BY <2>0, <2>2, <3>3, <3>5, <3>7, <3>10, <3>11
  <2> QED
    BY <2>1, <2>2
<1>2. Good \in SUBSET T
  OBVIOUS
<1>3. T = Good
  <2> HIDE DEF Good
  <2> QED
    BY <1>0, <1>1, <1>2, ByRank
<1> QED
  BY <1>3

LEMMA ChainSays ==
  ASSUME NEW T, NEW A, NEW rank, NEW row, NEW value, NEW arms, NEW default,
         IsForest(T, rank), IsMeaning(T, row, value), IsChains(T, A, arms, default)
  PROVE  \A n \in T : Says(value, arms[n], value[default[n]], value[n])
<1> DEFINE Good == {n \in T : Says(value, arms[n], value[default[n]], value[n])}
<1>1. ASSUME NEW n \in T, \A x \in T : rank[x] < rank[n] => x \in Good PROVE n \in Good
  <2>1. CASE ~IsIf(n)
    <3>1. arms[n] = <<>> /\ default[n] = (IF n = Absent THEN Null ELSE n) /\ default[n] \in T
      BY <2>1 DEF IsChains
    <3>2. value[n] = value[default[n]]
      <4>1. CASE n = Absent
        <5>1. n.k = "none" /\ Null.k = "lit" /\ Null.n = NullValue
          BY <4>1 DEF Absent, Null, Node
        <5> QED
          BY <3>1, <4>1, <5>1, Evaluation
      <4> QED
        BY <3>1, <4>1
    <3>3. Says(value, <<>>, value[default[n]], value[n])
      BY <3>2 DEF Says
    <3> QED
      BY <3>1, <3>3
  <2>2. CASE IsIf(n)
    <3> DEFINE e == ElseOf(n)
               arm == ChainArm(n)
    <3>1. CondOf(n) \in T /\ ThenOf(n) \in T /\ e \in T /\ rank[e] < rank[n]
      BY <2>2, IfParts
    <3>2. Says(value, arms[e], value[default[e]], value[e])
      BY <1>1, <3>1
    <3>3. arms[n] = <<arm>> \o arms[e] /\ default[n] = default[e]
      BY <2>2 DEF IsChains
    <3>4. arm \in Arms(T) /\ arm.cond = CondOf(n) /\ arm.then = ThenOf(n)
      BY <3>1 DEF ChainArm, Arms
    <3>5. arms[e] \in Seq(Arms(T))
      BY <3>1 DEF IsChains, IsLists
    <3>6. value[n] = IF value[arm.cond] = 1 THEN value[arm.then] ELSE value[e]
      BY <2>2, <3>4, Evaluation
    <3> HIDE DEF e, arm
    <3>7. Says(value, <<arm>> \o arms[e], value[default[e]], value[n])
      BY <3>2, <3>4, <3>5, <3>6, SaysFirst
    <3> QED
      BY <3>3, <3>7
  <2> QED
    BY <2>1, <2>2
<1>2. Good \in SUBSET T /\ rank \in [T -> Nat]
  BY DEF IsForest
<1>3. T = Good
  <2> HIDE DEF Good
  <2> QED
    BY <1>1, <1>2, ByRank
<1> QED
  BY <1>3

\* A rebuilt chain says what its list does, under an evaluation that takes the
\* IFs it is made of for what they are.
LEMMA RebuiltSaysOf ==
  ASSUME NEW T, NEW A, NEW R, NEW value, NEW rebuild,
         IsLists(Arms(T), A), IsRebuildChain(T, A, R, rebuild),
         \A c, t, e : (\E f \in A : <<f, If(c, t, e)>> \in R) =>
             value[If(c, t, e)] = IF value[c] = 1 THEN value[t] ELSE value[e]
  PROVE  \A l \in A, d \in T : <<l, d>> \in R => Says(value, l, value[d], value[rebuild[<<l, d>>]])
<1> DEFINE Good == {l \in A : \A d \in T : <<l, d>> \in R => Says(value, l, value[d], value[rebuild[<<l, d>>]])}
<1>1. <<>> \in Good
  <2>1. <<>> \in A
    BY DEF IsLists
  <2>2. \A d \in T : <<<<>>, d>> \in R => rebuild[<<<<>>, d>>] = d
    BY <2>1 DEF IsRebuildChain
  <2>3. \A d \in T : Says(value, <<>>, value[d], value[d])
    BY DEF Says
  <2> QED
    BY <2>1, <2>2, <2>3
<1>2. ASSUME NEW f \in Good, NEW arm \in Arms(T), Append(f, arm) \in A PROVE Append(f, arm) \in Good
  <2> DEFINE l == Append(f, arm)
  <2>1. f \in A /\ f \in Seq(Arms(T))
    BY DEF IsLists
  <2>2. l \in A /\ l # <<>> /\ Begin(l) = f /\ End(l) = arm
    BY <1>2, <2>1, EndOfAppend
  <2>3. ASSUME NEW d \in T, <<l, d>> \in R PROVE Says(value, l, value[d], value[rebuild[<<l, d>>]])
    <3> DEFINE m == If(arm.cond, arm.then, d)
    <3> HIDE DEF l
    <3>1. <<f, m>> \in R /\ rebuild[<<l, d>>] = rebuild[<<f, m>>]
      BY <2>2, <2>3 DEF IsRebuildChain
    <3>2. m \in T
      BY <3>1 DEF IsRebuildChain
    <3>3. value[m] = IF value[arm.cond] = 1 THEN value[arm.then] ELSE value[d]
      BY <2>1, <3>1
    <3> HIDE DEF m
    <3>4. Says(value, f, value[m], value[rebuild[<<f, m>>]])
      BY <3>1, <3>2
    <3>5. Says(value, l, value[d], value[rebuild[<<l, d>>]])
      BY <2>1, <3>1, <3>3, <3>4, SaysAppend DEF l
    <3> QED
      BY <3>5
  <2> QED
    BY <2>2, <2>3
<1>3. A = Good
  <2>1. Good \in SUBSET A
    OBVIOUS
  <2> HIDE DEF Good
  <2> QED
    BY <1>1, <1>2, <2>1, ByEnd
<1> QED
  BY <1>3

LEMMA RebuiltSays ==
  ASSUME NEW T, NEW A, NEW R, NEW rank, NEW row, NEW value, NEW rebuild,
         IsForest(T, rank), IsMeaning(T, row, value), IsLists(Arms(T), A), IsRebuildChain(T, A, R, rebuild)
  PROVE  \A l \in A, d \in T : <<l, d>> \in R => Says(value, l, value[d], value[rebuild[<<l, d>>]])
<1>1. ASSUME NEW c, NEW t, NEW e, \E f \in A : <<f, If(c, t, e)>> \in R
      PROVE  value[If(c, t, e)] = IF value[c] = 1 THEN value[t] ELSE value[e]
  <2>1. If(c, t, e) \in T
    BY <1>1 DEF IsRebuildChain
  <2> QED
    BY <2>1, BuiltIf
<1> QED
  BY <1>1, RebuiltSaysOf

\* Arms that a pass has left with the values they had.
LEMMA PassedArmsParts ==
  ASSUME NEW pass, NEW l
  PROVE  /\ DOMAIN Passed(pass, l) = DOMAIN l
         /\ \A i \in DOMAIN l : /\ Passed(pass, l)[i].cond = pass[l[i].cond]
                                /\ Passed(pass, l)[i].then = pass[l[i].then]
  BY DEF Passed, PassedArms

LEMMA PassedSays ==
  ASSUME NEW value, NEW pass, NEW l, NEW w, NEW v, Says(value, l, w, v),
         \A i \in DOMAIN l : /\ value[pass[l[i].cond]] = value[l[i].cond]
                             /\ value[pass[l[i].then]] = value[l[i].then]
  PROVE  Says(value, Passed(pass, l), w, v)
<1> DEFINE p == Passed(pass, l)
<1>1. DOMAIN p = DOMAIN l
  BY PassedArmsParts
<1>2. \A i \in DOMAIN l : value[p[i].cond] = value[l[i].cond] /\ value[p[i].then] = value[l[i].then]
  BY PassedArmsParts
<1> HIDE DEF p
<1> SUFFICES Says(value, p, w, v)
  BY DEF p
<1>3. CASE \A i \in DOMAIN l : value[l[i].cond] # 1
  BY <1>1, <1>2, <1>3 DEF Says
<1>4. CASE ~ \A i \in DOMAIN l : value[l[i].cond] # 1
  <2>1. PICK i \in DOMAIN l : /\ value[l[i].cond] = 1 /\ v = value[l[i].then]
                              /\ \A j \in DOMAIN l : j < i => value[l[j].cond] # 1
    BY <1>4 DEF Says
  <2> QED
    BY <1>1, <1>2, <2>1 DEF Says
<1> QED
  BY <1>3, <1>4

\* A pass over chains keeps the value when the list it makes of the arms, once
\* they are passed, has the value that they have over every default.
LEMMA ChainPassKeepsValue ==
  ASSUME NEW T, NEW A, NEW R, NEW shortest \in Nat, NEW rank, NEW row, NEW value,
         NEW arms, NEW default, NEW rebuild, NEW list, NEW pass,
         IsForest(T, rank), IsMeaning(T, row, value),
         IsChains(T, A, arms, default), IsRebuildChain(T, A, R, rebuild),
         IsChainPass(T, A, R, shortest, arms, default, rebuild, list, pass),
         \A n \in T, w, v \in Values :
            Says(value, Passed(pass, arms[n]), w, v) => Says(value, list[n], w, v)
  PROVE  KeepsValue(T, value, pass)
<1> DEFINE Good == {n \in T : value[pass[n]] = value[n]}
<1>0. IsPass(T, pass) /\ pass \in [T -> T] /\ rank \in [T -> Nat]
  BY DEF IsChainPass, IsPass, IsForest
<1>1. \A n \in T : (\A i \in DOMAIN n.a : value[pass[n.a[i]]] = value[n.a[i]]) => value[Image(pass, n)] = value[n]
  BY <1>0, ImageKeepsValue
<1>2. \A n \in T : (\A x \in T : rank[x] < rank[n] => x \in Good) /\ pass[n] = Image(pass, n) => n \in Good
  <2> SUFFICES ASSUME NEW n \in T, \A x \in T : rank[x] < rank[n] => x \in Good, pass[n] = Image(pass, n)
               PROVE  n \in Good
    OBVIOUS
  <2>1. \A i \in DOMAIN n.a : n.a[i] \in T /\ rank[n.a[i]] < rank[n]
    BY Shape
  <2> QED
    BY <1>1, <2>1
<1>3. \A n \in T : n.a = <<>> /\ ~IsIf(n) => n \in Good
  <2> SUFFICES ASSUME NEW n \in T, n.a = <<>>, ~IsIf(n) PROVE n \in Good
    OBVIOUS
  <2>1. Len(arms[n]) <= shortest
    <3>1. arms[n] = <<>>
      BY DEF IsChains
    <3>2. Len(arms[n]) = 0
      BY <3>1
    <3> QED
      BY <3>2
  <2>2. pass[n] = Image(pass, n)
    BY <2>1 DEF IsChainPass
  <2> QED
    BY <1>1, <2>2
<1>4. ASSUME NEW n \in T, \A x \in T : rank[x] < rank[n] => x \in Good PROVE n \in Good
  <2>1. /\ arms[n] \in Seq(Arms(T)) /\ (arms[n] # <<>> <=> IsIf(n))
        /\ \A i \in DOMAIN arms[n] : rank[arms[n][i].cond] < rank[n] /\ rank[arms[n][i].then] < rank[n]
        /\ default[n] \in T /\ ~IsIf(default[n])
        /\ default[n] = Null \/ default[n] = n \/ rank[default[n]] < rank[n]
    BY ArmsBelow
  <2>2. CASE Len(arms[n]) <= shortest
    <3>1. pass[n] = Image(pass, n)
      BY <2>2 DEF IsChainPass
    <3> QED
      BY <1>2, <1>4, <3>1
  <2>3. CASE Len(arms[n]) > shortest
    <3> DEFINE d == pass[default[n]]
    <3>1. <<list[n], d>> \in R /\ pass[n] = rebuild[<<list[n], d>>]
      BY <2>3 DEF IsChainPass
    <3>2. list[n] \in A /\ d \in T
      BY <3>1 DEF IsRebuildChain
    <3>3. arms[n] # <<>> /\ IsIf(n)
      <4>1. arms[n] = <<>> => Len(arms[n]) = 0
        OBVIOUS
      <4> QED
        BY <2>1, <2>3, <4>1
    <3>4. value[d] = value[default[n]]
      <4>1. CASE default[n] = Null
        <5>1. Null.a = <<>>
          BY DEF Null, Node
        <5> QED
          BY <1>3, <2>1, <4>1, <5>1
      <4>2. CASE default[n] # Null
        <5>1. rank[default[n]] < rank[n]
          BY <2>1, <3>3, <4>2
        <5> QED
          BY <1>4, <2>1, <5>1
      <4> QED
        BY <4>1, <4>2
    <3>5. Says(value, arms[n], value[d], value[n])
      BY <3>4, ChainSays
    <3>6. \A i \in DOMAIN arms[n] : /\ value[pass[arms[n][i].cond]] = value[arms[n][i].cond]
                                    /\ value[pass[arms[n][i].then]] = value[arms[n][i].then]
      <4>1. \A i \in DOMAIN arms[n] : arms[n][i] \in Arms(T)
        BY <2>1
      <4>2. \A arm \in Arms(T) : arm.cond \in T /\ arm.then \in T
        BY DEF Arms
      <4> QED
        BY <1>4, <2>1, <4>1, <4>2
    <3>7. Says(value, Passed(pass, arms[n]), value[d], value[n])
      BY <3>5, <3>6, PassedSays
    <3>8. value[d] \in Values /\ value[n] \in Values /\ value[pass[n]] \in Values
      BY <1>0, <3>2 DEF IsMeaning
    <3> HIDE DEF d
    <3>9. Says(value, list[n], value[d], value[n])
      BY <3>7, <3>8
    <3>10. IsLists(Arms(T), A)
      BY DEF IsChains
    <3>11. Says(value, list[n], value[d], value[rebuild[<<list[n], d>>]])
      BY <3>1, <3>2, <3>10, RebuiltSays
    <3>12. list[n] \in Seq(Arms(T))
      BY <3>2, <3>10 DEF IsLists
    <3> QED
      BY <3>1, <3>9, <3>11, <3>12, SaysOne
  <2> QED
    <3>1. Len(arms[n]) \in Nat
      BY <2>1
    <3> QED
      BY <2>2, <2>3, <3>1
<1>5. Good \in SUBSET T
  OBVIOUS
<1>6. T = Good
  <2> HIDE DEF Good
  <2> QED
    BY <1>0, <1>4, <1>5, ByRank
<1> QED
  BY <1>6 DEF KeepsValue

\* Rebuilding nested else-branches as one chain keeps the value of every tree,
\* on every row.
THEOREM NormalizeChainKeepsValue ==
  ASSUME NEW T, NEW A, NEW R, NEW rank, NEW row, NEW value, NEW arms, NEW default, NEW rebuild, NEW pass,
         IsForest(T, rank), IsMeaning(T, row, value),
         IsChains(T, A, arms, default), IsRebuildChain(T, A, R, rebuild),
         IsNormalizeChain(T, A, R, arms, default, rebuild, pass)
  PROVE  KeepsValue(T, value, pass)
<1> DEFINE list == [n \in T |-> Passed(pass, arms[n])]
<1>1. IsChainPass(T, A, R, 1, arms, default, rebuild, list, pass)
  BY DEF IsNormalizeChain
<1>2. \A n \in T, w, v \in Values :
         Says(value, Passed(pass, arms[n]), w, v) => Says(value, list[n], w, v)
  OBVIOUS
<1> HIDE DEF list
<1> QED
  BY <1>1, <1>2, ChainPassKeepsValue

-----------------------------------------------------------------------------
(* Arms that go because an arm above has their guard.                      *)

LEMMA LeastOfIsIn ==
  ASSUME NEW S \in SUBSET Nat, S # {}
  PROVE  LeastOf(S) \in S /\ \A j \in S : LeastOf(S) <= j
<1>1. \E i \in S : \A j \in S : ~ (<<j, i>> \in OpToRel(<, Nat))
  BY NatLessThanWellFounded, WFMin
<1>2. \E i \in S : \A j \in S : i <= j
  <2>1. PICK i \in S : \A j \in S : ~ (<<j, i>> \in OpToRel(<, Nat))
    BY <1>1
  <2>2. \A j \in S : ~(j < i) /\ i \in Nat /\ j \in Nat
    BY <2>1 DEF OpToRel
  <2>3. \A j \in S : i <= j
    BY <2>2
  <2> QED
    BY <2>3
<1> QED
  BY <1>2 DEF LeastOf

\* A guard whose normal form has the conjuncts of another one, and perhaps
\* more, holds only where the other one does.
LEMMA NarrowerHolds ==
  ASSUME NEW T, NEW L, NEW rank, NEW row, NEW value, NEW norm, NEW conjuncts,
         IsForest(T, rank), IsMeaning(T, row, value), GivenGuards(T, norm, value),
         IsNormalizeGuard(T, norm), IsLists(T, L), IsFlatten(T, L, "AND", conjuncts)
  PROVE  \A g, c \in T : ConjunctsIn(norm, conjuncts, g) \subseteq ConjunctsIn(norm, conjuncts, c)
                         /\ value[c] = 1 => value[g] = 1
<1>1. KeepsValue(T, value, norm)
  BY NormalizeGuardKeepsValue
<1> SUFFICES ASSUME NEW g \in T, NEW c \in T, value[c] = 1,
                    ConjunctsIn(norm, conjuncts, g) \subseteq ConjunctsIn(norm, conjuncts, c)
             PROVE  value[g] = 1
  OBVIOUS
<1>2. /\ value[g] = 1 <=> \A p \in Members(conjuncts[g]) : value[p] = 1
      /\ value[c] = 1 <=> \A p \in Members(conjuncts[c]) : value[p] = 1
  BY FlattenAndHolds
<1>3. Members(conjuncts[g]) \subseteq T /\ Members(conjuncts[c]) \subseteq T
  <2>1. conjuncts[g] \in Seq(T) /\ conjuncts[c] \in Seq(T)
    BY DEF IsFlatten, IsLists
  <2> QED
    BY <2>1 DEF Members
<1>4. ASSUME NEW p \in Members(conjuncts[g]) PROVE value[p] = 1
  <2>1. norm[p] \in ConjunctsIn(norm, conjuncts, c)
    BY <1>4 DEF ConjunctsIn
  <2>2. PICK q \in Members(conjuncts[c]) : norm[p] = norm[q]
    BY <2>1 DEF ConjunctsIn
  <2>3. value[norm[p]] = value[p] /\ value[norm[q]] = value[q]
    BY <1>1, <1>3 DEF KeepsValue
  <2> QED
    BY <1>2, <2>2, <2>3
<1> QED
  BY <1>2, <1>4

LEMMA SameSignatureHolds ==
  ASSUME NEW T, NEW L, NEW rank, NEW row, NEW value, NEW norm, NEW conjuncts,
         IsForest(T, rank), IsMeaning(T, row, value), GivenGuards(T, norm, value),
         IsNormalizeGuard(T, norm), IsLists(T, L), IsFlatten(T, L, "AND", conjuncts)
  PROVE  \A g, c \in T : SignatureIn(norm, conjuncts, g) = SignatureIn(norm, conjuncts, c)
                         => (value[g] = 1 <=> value[c] = 1)
<1> SUFFICES ASSUME NEW g \in T, NEW c \in T, SignatureIn(norm, conjuncts, g) = SignatureIn(norm, conjuncts, c)
             PROVE  value[g] = 1 <=> value[c] = 1
  OBVIOUS
<1>1. BagOf(conjuncts[norm[g]]) = BagOf(conjuncts[norm[c]])
  BY DEF SignatureIn
<1> QED
  BY <1>1, SameBagSameGuard

\* Over an arm that holds the default does not matter.
LEMMA SaysAboveDefault ==
  ASSUME NEW value, NEW l, NEW w, NEW v, NEW u, Says(value, l, w, v),
         NEW i \in DOMAIN l, value[l[i].cond] = 1
  PROVE  Says(value, l, u, v)
  BY DEF Says

\* Two lists of arms, arm by arm: the same hold, and have the same value.
LEMMA SaysAlike ==
  ASSUME NEW value, NEW l, NEW m, NEW w, NEW v, Says(value, l, w, v), DOMAIN m = DOMAIN l,
         \A i \in DOMAIN l : /\ value[m[i].cond] = 1 <=> value[l[i].cond] = 1
                             /\ value[l[i].cond] = 1 => value[m[i].then] = value[l[i].then]
  PROVE  Says(value, m, w, v)
<1>1. CASE \A i \in DOMAIN l : value[l[i].cond] # 1
  BY <1>1 DEF Says
<1>2. CASE ~ \A i \in DOMAIN l : value[l[i].cond] # 1
  <2>1. PICK i \in DOMAIN l : /\ value[l[i].cond] = 1 /\ v = value[l[i].then]
                              /\ \A j \in DOMAIN l : j < i => value[l[j].cond] # 1
    BY <1>2 DEF Says
  <2>2. i \in DOMAIN m /\ value[m[i].cond] = 1 /\ v = value[m[i].then]
    BY <2>1
  <2>3. \A j \in DOMAIN m : j < i => value[m[j].cond] # 1
    BY <2>1
  <2> QED
    BY <2>2, <2>3 DEF Says
<1> QED
  BY <1>1, <1>2

LEMMA KeptSays ==
  ASSUME NEW T, NEW A, NEW L, NEW rank, NEW row, NEW value, NEW norm, NEW conjuncts, NEW prefers, NEW keep,
         IsForest(T, rank), IsMeaning(T, row, value), GivenGuards(T, norm, value),
         IsNormalizeGuard(T, norm), IsLists(T, L), IsFlatten(T, L, "AND", conjuncts),
         IsLists(Arms(T), A), IsKeepArms(A, norm, conjuncts, prefers, keep),
         GivenPreference(A, value, norm, conjuncts, prefers, keep)
  PROVE  \A l \in A : \A w, v : Says(value, l, w, v) => Says(value, keep[l], w, v)
<1> DEFINE Good == {l \in A : \A w, v : Says(value, l, w, v) => Says(value, keep[l], w, v)}
<1>1. <<>> \in Good
  <2>1. <<>> \in A /\ keep[<<>>] = <<>>
    BY DEF IsLists, IsKeepArms
  <2> QED
    BY <2>1
<1>2. ASSUME NEW f \in Good, NEW arm \in Arms(T), Append(f, arm) \in A PROVE Append(f, arm) \in Good
  <2> DEFINE l == Append(f, arm)
             kept == keep[f]
             same == SameGuardAs(norm, conjuncts, kept, arm)
             old == LeastOf(same)
  <2>1. f \in A /\ f \in Seq(Arms(T)) /\ kept \in Seq(Arms(T)) /\ keep[l] \in Seq(Arms(T))
    BY <1>2 DEF IsLists, IsKeepArms
  <2>2. l \in A /\ l # <<>> /\ Begin(l) = f /\ End(l) = arm
    BY <1>2, <2>1, EndOfAppend
  <2>3. same = {i \in DOMAIN kept : SignatureIn(norm, conjuncts, kept[i].cond) = SignatureIn(norm, conjuncts, arm.cond)}
    BY DEF SameGuardAs, SameGuard
  <2>4. keep[l] = CASE same # {} -> IF prefers[<<arm.then, kept[old].then>>]
                                    THEN [kept EXCEPT ![old] = arm] ELSE kept
                    [] /\ same = {}
                       /\ \E i \in DOMAIN kept :
                             /\ ConjunctsIn(norm, conjuncts, kept[i].cond) \subseteq ConjunctsIn(norm, conjuncts, arm.cond)
                             /\ ConjunctsIn(norm, conjuncts, kept[i].cond) # ConjunctsIn(norm, conjuncts, arm.cond) -> kept
                    [] OTHER -> Append(kept, arm)
    <3> HIDE DEF l
    <3>1. keep[l] = KeepArm(LAMBDA g : SignatureIn(norm, conjuncts, g),
                            LAMBDA g : ConjunctsIn(norm, conjuncts, g),
                            LAMBDA t, u : prefers[<<t, u>>], kept, arm)
      BY <2>2 DEF IsKeepArms
    <3> QED
      BY <3>1 DEF KeepArm, NarrowsAbove, SameGuardAs
  <2>5. same # {} => /\ old \in same /\ old \in DOMAIN kept
                     /\ value[kept[old].cond] = 1 <=> value[arm.cond] = 1
    <3> SUFFICES ASSUME same # {} PROVE /\ old \in same /\ old \in DOMAIN kept
                                        /\ value[kept[old].cond] = 1 <=> value[arm.cond] = 1
      OBVIOUS
    <3>1. same \in SUBSET Nat /\ same \subseteq DOMAIN kept
      BY <2>1, <2>3
    <3> HIDE DEF same
    <3>2. old \in same /\ old \in DOMAIN kept
      BY <3>1, LeastOfIsIn
    <3>3. SignatureIn(norm, conjuncts, kept[old].cond) = SignatureIn(norm, conjuncts, arm.cond)
      BY <2>3, <3>2
    <3>4. kept[old] \in Arms(T)
      BY <2>1, <3>2
    <3>5. kept[old].cond \in T /\ arm.cond \in T
      BY <3>4 DEF Arms
    <3> QED
      BY <3>2, <3>3, <3>5, SameSignatureHolds
  <2>6. same # {} /\ prefers[<<arm.then, kept[old].then>>] /\ value[arm.cond] = 1
        => value[arm.then] = value[kept[old].then]
    <3> HIDE DEF l
    <3>1. l \in A /\ l # <<>> /\ keep[Begin(l)] = kept /\ End(l) = arm
      BY <2>2
    <3> QED
      BY <3>1 DEF GivenPreference
  <2> HIDE DEF l, same, old, kept
  <2>7. ASSUME NEW w, NEW v, Says(value, l, w, v) PROVE Says(value, keep[l], w, v)
    <3> DEFINE u == IF value[arm.cond] = 1 THEN value[arm.then] ELSE w
    <3>1. Says(value, f, u, v)
      BY <2>1, <2>7, SaysAppend DEF l
    <3>2. Says(value, kept, u, v)
      BY <3>1 DEF kept
    <3>3. ASSUME NEW i \in DOMAIN kept, value[arm.cond] = 1 => value[kept[i].cond] = 1
          PROVE  Says(value, kept, w, v)
      <4>1. CASE value[arm.cond] = 1
        BY <3>2, <3>3, <4>1, SaysAboveDefault
      <4>2. CASE value[arm.cond] # 1
        BY <3>2, <4>2
      <4> QED
        BY <4>1, <4>2
    <3>4. CASE same # {} /\ ~prefers[<<arm.then, kept[old].then>>]
      <4>1. keep[l] = kept
        BY <2>4, <3>4
      <4> QED
        BY <2>5, <3>3, <3>4, <4>1
    <3>5. CASE same # {} /\ prefers[<<arm.then, kept[old].then>>]
      <4> DEFINE new == [kept EXCEPT ![old] = arm]
      <4>1. keep[l] = new
        BY <2>4, <3>5
      <4>2. DOMAIN new = DOMAIN kept /\ new[old] = arm /\ \A i \in DOMAIN kept : i # old => new[i] = kept[i]
        BY <2>1, <2>5, <3>5
      <4>3. Says(value, kept, w, v)
        BY <2>5, <3>3, <3>5
      <4> HIDE DEF new
      <4>4. \A i \in DOMAIN kept : /\ value[new[i].cond] = 1 <=> value[kept[i].cond] = 1
                                   /\ value[kept[i].cond] = 1 => value[new[i].then] = value[kept[i].then]
        BY <2>5, <2>6, <3>5, <4>2
      <4>5. Says(value, new, w, v)
        BY <4>2, <4>3, <4>4, SaysAlike
      <4> QED
        BY <4>1, <4>5
    <3>6. CASE /\ same = {}
               /\ \E i \in DOMAIN kept :
                    /\ ConjunctsIn(norm, conjuncts, kept[i].cond) \subseteq ConjunctsIn(norm, conjuncts, arm.cond)
                    /\ ConjunctsIn(norm, conjuncts, kept[i].cond) # ConjunctsIn(norm, conjuncts, arm.cond)
      <4>1. keep[l] = kept
        BY <2>4, <3>6
      <4>2. PICK i \in DOMAIN kept :
              ConjunctsIn(norm, conjuncts, kept[i].cond) \subseteq ConjunctsIn(norm, conjuncts, arm.cond)
        BY <3>6
      <4>3. kept[i] \in Arms(T)
        BY <2>1, <4>2 DEF kept
      <4>4. kept[i].cond \in T /\ arm.cond \in T
        BY <4>3 DEF Arms
      <4>5. value[arm.cond] = 1 => value[kept[i].cond] = 1
        BY <4>2, <4>4, NarrowerHolds
      <4> QED
        BY <3>3, <4>1, <4>5
    <3>7. CASE /\ same = {}
               /\ ~ \E i \in DOMAIN kept :
                    /\ ConjunctsIn(norm, conjuncts, kept[i].cond) \subseteq ConjunctsIn(norm, conjuncts, arm.cond)
                    /\ ConjunctsIn(norm, conjuncts, kept[i].cond) # ConjunctsIn(norm, conjuncts, arm.cond)
      <4>1. keep[l] = Append(kept, arm)
        BY <2>4, <3>7
      <4>2. kept \in Seq(Arms(T))
        BY <2>1 DEF kept
      <4>3. Says(value, Append(kept, arm), w, v)
        BY <3>2, <4>2, SaysAppend
      <4> QED
        BY <4>1, <4>3
    <3> QED
      BY <3>4, <3>5, <3>6, <3>7
  <2> QED
    BY <2>2, <2>7 DEF l
<1>3. A = Good
  <2>1. Good \in SUBSET A
    OBVIOUS
  <2> HIDE DEF Good
  <2> QED
    BY <1>1, <1>2, <2>1, ByEnd
<1> QED
  BY <1>3

\* Dropping arms whose guard an arm above has, or whose guard narrows it, keeps
\* the value of every chain, and of chains inside its arms, on every row where
\* no arm is preferred to the one above that has its guard, unless it has the
\* same value, and nothing that is compared with itself or through a default is
\* NULL.
THEOREM DropSameGuardKeepsValue ==
  ASSUME NEW T, NEW A, NEW R, NEW L, NEW rank, NEW row, NEW value, NEW norm, NEW conjuncts, NEW prefers,
         NEW keep, NEW arms, NEW default, NEW rebuild, NEW pass,
         IsForest(T, rank), IsMeaning(T, row, value), GivenGuards(T, norm, value),
         IsNormalizeGuard(T, norm), IsLists(T, L), IsFlatten(T, L, "AND", conjuncts),
         IsChains(T, A, arms, default), IsRebuildChain(T, A, R, rebuild),
         IsKeepArms(A, norm, conjuncts, prefers, keep),
         GivenPreference(A, value, norm, conjuncts, prefers, keep),
         IsDropSameGuard(T, A, R, arms, default, rebuild, keep, pass)
  PROVE  KeepsValue(T, value, pass)
<1> DEFINE list == [n \in T |-> keep[Passed(pass, arms[n])]]
<1>1. IsChainPass(T, A, R, 0, arms, default, rebuild, list, pass)
  BY DEF IsDropSameGuard
<1>2. \A n \in T, w, v \in Values :
         Says(value, Passed(pass, arms[n]), w, v) => Says(value, list[n], w, v)
  <2>1. IsLists(Arms(T), A)
    BY DEF IsChains
  <2>2. \A l \in A : \A w, v : Says(value, l, w, v) => Says(value, keep[l], w, v)
    BY <2>1, KeptSays
  <2>3. \A n \in T : Passed(pass, arms[n]) \in A
    BY <1>1 DEF IsChainPass
  <2> QED
    BY <2>2, <2>3
<1> HIDE DEF list
<1> QED
  BY <1>1, <1>2, ChainPassKeepsValue

-----------------------------------------------------------------------------
(* Arms in another order.                                                  *)

LEMMA NoDomain ==
  ASSUME NEW S, NEW l \in Seq(S), DOMAIN l = {}
  PROVE  l = <<>>
<1>1. Len(l) \in Nat /\ DOMAIN l = 1..Len(l)
  OBVIOUS
<1>2. Len(l) = 0
  <2>1. CASE Len(l) # 0
    <3>1. 1 \in 1..Len(l)
      BY <1>1, <2>1
    <3> QED
      BY <1>1, <3>1
  <2> QED
    BY <2>1
<1> QED
  BY <1>2

\* What a chain reads as is the value of the first arm that holds of its sorted
\* list.
LEMMA SortedSays ==
  ASSUME NEW T, NEW A, NEW rank, NEW row, NEW arms, NEW default, NEW before, NEW moved, NEW reading,
         IsForest(T, rank), IsChains(T, A, arms, default), IsArmSort(T, A, arms, before, moved),
         IsReading(T, row, arms, default, before, reading)
  PROVE  \A n \in T : IsIf(n) => Says(reading, moved[n], reading[default[n]], reading[n])
<1> SUFFICES ASSUME NEW n \in T, IsIf(n)
             PROVE  Says(reading, moved[n], reading[default[n]], reading[n])
  OBVIOUS
<1> DEFINE l == arms[n]
           m == moved[n]
<1>1. l \in Seq(Arms(T)) /\ m \in Seq(Arms(T))
  BY DEF IsChains, IsArmSort, IsLists
<1>2. PICK place \in [DOMAIN l -> DOMAIN m] :
          /\ \A k \in DOMAIN m : \E i \in DOMAIN l : place[i] = k
          /\ \A i \in DOMAIN l : m[place[i]] = l[i]
          /\ \A i, j \in DOMAIN l : <<i, j>> \in before[n] <=> place[i] < place[j]
  BY DEF IsArmSort
<1> DEFINE holding == {i \in DOMAIN l : reading[l[i].cond] = 1}
<1>3. \/ holding = {} /\ reading[n] = reading[default[n]]
      \/ \E i \in holding : /\ reading[n] = reading[l[i].then]
                            /\ \A j \in holding \ {i} : <<i, j>> \in before[n]
  BY DEF IsReading
<1>4. DOMAIN m \subseteq Int
  BY <1>1
<1> SUFFICES Says(reading, m, reading[default[n]], reading[n])
  OBVIOUS
<1> HIDE DEF l, m
<1>5. CASE holding = {} /\ reading[n] = reading[default[n]]
  <2>1. \A k \in DOMAIN m : reading[m[k].cond] # 1
    BY <1>2, <1>5
  <2> QED
    BY <1>5, <2>1 DEF Says
<1>6. CASE \E i \in holding : /\ reading[n] = reading[l[i].then]
                              /\ \A j \in holding \ {i} : <<i, j>> \in before[n]
  <2>1. PICK i \in holding : /\ reading[n] = reading[l[i].then]
                             /\ \A j \in holding \ {i} : <<i, j>> \in before[n]
    BY <1>6
  <2>2. place[i] \in DOMAIN m /\ reading[m[place[i]].cond] = 1 /\ reading[n] = reading[m[place[i]].then]
    BY <1>2, <2>1
  <2>3. ASSUME NEW k \in DOMAIN m, k < place[i] PROVE reading[m[k].cond] # 1
    <3>1. PICK j \in DOMAIN l : place[j] = k
      BY <1>2
    <3>2. j # i
      BY <1>4, <2>2, <2>3, <3>1
    <3>3. CASE j \in holding
      <4>1. place[i] < place[j]
        BY <1>2, <2>1, <3>2, <3>3
      <4> QED
        BY <1>4, <2>2, <2>3, <3>1, <4>1
    <3>4. CASE j \notin holding
      BY <1>2, <3>1, <3>4
    <3> QED
      BY <3>3, <3>4
  <2> QED
    BY <2>2, <2>3 DEF Says
<1> QED
  BY <1>3, <1>5, <1>6

\* A chain in order reads as it stands.
LEMMA InOrderReads ==
  ASSUME NEW T, NEW A, NEW rank, NEW row, NEW arms, NEW default, NEW before, NEW moved, NEW reading,
         IsForest(T, rank), IsChains(T, A, arms, default), IsArmSort(T, A, arms, before, moved),
         IsReading(T, row, arms, default, before, reading)
  PROVE  \A n \in T : IsIf(n) /\ moved[n] = arms[n] /\ moved[ElseOf(n)] = arms[ElseOf(n)] =>
            reading[n] = IF reading[CondOf(n)] = 1 THEN reading[ThenOf(n)] ELSE reading[ElseOf(n)]
<1> SUFFICES ASSUME NEW n \in T, IsIf(n), moved[n] = arms[n], moved[ElseOf(n)] = arms[ElseOf(n)]
             PROVE  reading[n] = IF reading[CondOf(n)] = 1 THEN reading[ThenOf(n)] ELSE reading[ElseOf(n)]
  OBVIOUS
<1> DEFINE e == ElseOf(n)
           arm == ChainArm(n)
           v == IF reading[CondOf(n)] = 1 THEN reading[ThenOf(n)] ELSE reading[e]
<1>1. CondOf(n) \in T /\ ThenOf(n) \in T /\ e \in T
  BY IfParts
<1>2. arms[n] = <<arm>> \o arms[e] /\ default[n] = default[e]
  BY DEF IsChains
<1>3. arm \in Arms(T) /\ arm.cond = CondOf(n) /\ arm.then = ThenOf(n)
  BY <1>1 DEF ChainArm, Arms
<1>4. arms[e] \in Seq(Arms(T)) /\ arms[n] \in Seq(Arms(T))
  BY <1>1 DEF IsChains, IsLists
<1>5. Says(reading, arms[e], reading[default[e]], reading[e])
  <2>1. CASE IsIf(e)
    <3>1. Says(reading, moved[e], reading[default[e]], reading[e])
      BY <1>1, <2>1, SortedSays
    <3> QED
      BY <3>1
  <2>2. CASE ~IsIf(e)
    <3>1. arms[e] = <<>> /\ default[e] = (IF e = Absent THEN Null ELSE e) /\ default[e] \in T
      BY <1>1, <2>2 DEF IsChains
    <3>2. reading[e] = reading[default[e]]
      <4>1. CASE e = Absent
        <5>1. Absent.k = "none" /\ Null.k = "lit" /\ Null.n = NullValue
          BY DEF Absent, Null, Node
        <5>4. ~IsIf(Null)
          BY DEF IsIf, Null, Node
        <5>2. reading[Absent] = NullValue
          <6>1. Absent \in T /\ ~IsIf(Absent)
            BY <1>1, <2>2, <4>1
          <6> QED
            BY <5>1, <6>1 DEF IsReading, ValueOf
        <5>3. reading[Null] = NullValue
          BY <3>1, <4>1, <5>1, <5>4 DEF IsReading, ValueOf
        <5> QED
          BY <3>1, <4>1, <5>2, <5>3
      <4> QED
        BY <3>1, <4>1
    <3>3. Says(reading, <<>>, reading[default[e]], reading[e])
      BY <3>2 DEF Says
    <3> QED
      BY <3>1, <3>3
  <2> QED
    BY <2>1, <2>2
<1>6. IF reading[arm.cond] = 1 THEN v = reading[arm.then] ELSE Says(reading, arms[e], reading[default[e]], v)
  BY <1>3, <1>5
<1> HIDE DEF e, arm, v
<1>7. Says(reading, arms[n], reading[default[n]], v)
  BY <1>2, <1>3, <1>4, <1>6, SaysFirst
<1>8. Says(reading, arms[n], reading[default[n]], reading[n])
  BY SortedSays
<1>9. v = reading[n]
  BY <1>4, <1>7, <1>8, SaysOne
<1> QED
  BY <1>9 DEF v, e

\* A pass that sorts the arms of every chain, and of the chains inside its arms,
\* makes trees whose value is what the order says of the trees it is given: of
\* the arms that hold, however many do, the one that comes before the others.
\* So does putting the arms of later UPDATEs first (enforce_later_update_precedence)
\* and the write-back to the customer behind the account arms, ahead of the NULLs
\* (_defer_customer_rollup_arms), where the order keeps its mind about what was
\* sorted once.
THEOREM ReorderingKeepsReading ==
  ASSUME NEW T, NEW A, NEW R, NEW rank, NEW row, NEW value, NEW arms, NEW default, NEW rebuild,
         NEW before, NEW moved, NEW reading, NEW pass,
         IsForest(T, rank), IsMeaning(T, row, value),
         IsChains(T, A, arms, default), IsRebuildChain(T, A, R, rebuild),
         IsArmSort(T, A, arms, before, moved),
         IsReordering(T, R, rank, arms, default, rebuild, moved, pass),
         GivenOrder(T, R, arms, moved, rebuild, pass),
         IsReading(T, row, arms, default, before, reading)
  PROVE  \A n \in T : value[pass[n]] = reading[n]
<1> DEFINE Good == {n \in T : value[pass[n]] = reading[n] /\ reading[pass[n]] = reading[n]}
<1>0. IsPass(T, pass) /\ pass \in [T -> T] /\ rank \in [T -> Nat] /\ IsLists(Arms(T), A)
  BY DEF IsReordering, IsPass, IsForest, IsChains
<1>1. \A n \in T : moved[n] = arms[n] /\ IsIf(n) =>
         /\ moved[ElseOf(n)] = arms[ElseOf(n)]
         /\ reading[n] = IF reading[CondOf(n)] = 1 THEN reading[ThenOf(n)] ELSE reading[ElseOf(n)]
  BY InOrderReads DEF GivenOrder
<1>2. \A n \in T : moved[n] = arms[n] =>
         reading[n] = ValueOf(n, row, reading[n.a[1]], reading[n.a[2]], reading[n.a[3]])
  <2> SUFFICES ASSUME NEW n \in T, moved[n] = arms[n]
               PROVE  reading[n] = ValueOf(n, row, reading[n.a[1]], reading[n.a[2]], reading[n.a[3]])
    OBVIOUS
  <2>1. CASE ~IsIf(n)
    BY <2>1 DEF IsReading
  <2>2. CASE IsIf(n)
    <3>1. reading[n] = IF reading[n.a[1]] = 1 THEN reading[n.a[2]] ELSE reading[n.a[3]]
      BY <1>1, <2>2 DEF CondOf, ThenOf, ElseOf
    <3> QED
      BY <2>2, <3>1 DEF ValueOf, IsIf
  <2> QED
    BY <2>1, <2>2
\* A tree in order over children that are as they should be.
<1>3. ASSUME NEW m \in T, moved[m] = arms[m], moved[Image(pass, m)] = arms[Image(pass, m)],
             \A i \in DOMAIN m.a : m.a[i] \in Good
      PROVE  value[Image(pass, m)] = reading[m] /\ reading[Image(pass, m)] = reading[m]
  <2> DEFINE p == Image(pass, m)
  <2>1. p \in T
    BY <1>0 DEF IsPass
  <2>2. /\ reading[m] = ValueOf(m, row, reading[m.a[1]], reading[m.a[2]], reading[m.a[3]])
        /\ reading[p] = ValueOf(p, row, reading[p.a[1]], reading[p.a[2]], reading[p.a[3]])
        /\ value[p] = ValueOf(p, row, value[p.a[1]], value[p.a[2]], value[p.a[3]])
    BY <1>2, <1>3, <2>1 DEF IsMeaning
  <2>3. \A i \in DOMAIN m.a : value[pass[m.a[i]]] = reading[m.a[i]] /\ reading[pass[m.a[i]]] = reading[m.a[i]]
    BY <1>3
  <2>4. value[Image(pass, m)] = reading[m]
    BY <1>0, <2>2, <2>3, CongruenceOf
  <2>5. reading[Image(pass, m)] = reading[m]
    <3>1. reading[p] = ValueOf(p, row, reading[p.a[1]], reading[p.a[2]], reading[p.a[3]])
      BY <2>2
    <3>2. reading[m] = ValueOf(m, row, reading[m.a[1]], reading[m.a[2]], reading[m.a[3]])
      BY <2>2
    <3>3. \A i \in DOMAIN m.a : reading[pass[m.a[i]]] = reading[m.a[i]]
      BY <2>3
    <3> QED
      BY <1>0, <3>1, <3>2, <3>3, CongruenceOf
  <2> QED
    BY <2>4, <2>5
<1>4. ASSUME NEW n \in T, \A x \in T : rank[x] < rank[n] => x \in Good PROVE n \in Good
  <2>0. moved[pass[n]] = arms[pass[n]]
    BY DEF GivenOrder
  <2>1. CASE moved[n] = arms[n]
    <3>1. pass[n] = Image(pass, n)
      BY <2>1 DEF IsReordering
    <3>2. \A i \in DOMAIN n.a : n.a[i] \in Good
      BY <1>4, Shape
    <3> HIDE DEF Good
    <3>3. value[Image(pass, n)] = reading[n] /\ reading[Image(pass, n)] = reading[n]
      BY <1>3, <2>0, <2>1, <3>1, <3>2
    <3> QED
      BY <3>1, <3>3 DEF Good
  <2>2. CASE moved[n] # arms[n]
    <3>1. PICK d \in {default[n], pass[default[n]]} :
            LET m == rebuild[<<moved[n], d>>]
            IN  /\ <<moved[n], d>> \in R /\ pass[n] = Image(pass, m)
                /\ \A x \in Members(m.a) : rank[x] < rank[n]
      BY <2>2 DEF IsReordering
    <3> DEFINE m == rebuild[<<moved[n], d>>]
    <3>2. <<moved[n], d>> \in R /\ m \in T /\ pass[n] = Image(pass, m) /\ \A x \in Members(m.a) : rank[x] < rank[n]
      BY <3>1 DEF IsRebuildChain
    <3>3. moved[n] \in A /\ d \in T
      BY <3>2 DEF IsRebuildChain
    <3>4. default[n] \in T /\ moved[n] \in Seq(Arms(T))
      BY <1>0, <3>3 DEF IsChains, IsLists
    <3>5. IsIf(n)
      <4>1. CASE ~IsIf(n)
        <5>1. arms[n] = <<>>
          BY <4>1 DEF IsChains
        <5>2. DOMAIN moved[n] = {}
          BY <5>1 DEF IsArmSort
        <5>3. moved[n] = <<>>
          BY <3>4, <5>2, NoDomain
        <5> QED
          BY <2>2, <5>1, <5>3
      <4> QED
        BY <4>1
    <3>6. reading[d] = reading[default[n]]
      <4>1. ~IsIf(default[n]) /\ (default[n] = Null \/ default[n] = n \/ rank[default[n]] < rank[n])
        BY ArmsBelow
      <4>2. CASE default[n] = Null
        <5>1. Null.a = <<>> /\ ~IsIf(Null)
          BY DEF Null, Node, IsIf
        <5>2. arms[Null] = <<>> /\ moved[Null] = <<>>
          <6>1. arms[Null] = <<>>
            BY <3>4, <4>2, <5>1 DEF IsChains
          <6>2. moved[Null] \in Seq(Arms(T)) /\ DOMAIN moved[Null] = {}
            BY <1>0, <3>4, <4>2, <6>1 DEF IsArmSort, IsLists
          <6> QED
            BY <6>1, <6>2, NoDomain
        <5>3. pass[Null] = Image(pass, Null) /\ moved[pass[Null]] = arms[pass[Null]]
          BY <3>4, <4>2, <5>2 DEF IsReordering, GivenOrder
        <5> HIDE DEF Good
        <5>4. reading[Image(pass, Null)] = reading[Null]
          BY <1>3, <3>4, <4>2, <5>1, <5>2, <5>3
        <5> QED
          BY <4>2, <5>3, <5>4
      <4>3. CASE default[n] # Null
        <5>1. rank[default[n]] < rank[n]
          BY <3>5, <4>1, <4>3
        <5> QED
          BY <1>4, <3>4, <5>1
      <4> QED
        BY <4>2, <4>3
    <3>7. Says(reading, moved[n], reading[default[n]], reading[n])
      BY <3>5, SortedSays
    <3>8. Says(reading, moved[n], reading[d], reading[m])
      <4>1. ASSUME NEW c, NEW t, NEW e, \E f \in A : <<f, If(c, t, e)>> \in R
            PROVE  reading[If(c, t, e)] = IF reading[c] = 1 THEN reading[t] ELSE reading[e]
        <5>1. PICK f \in A : <<f, If(c, t, e)>> \in R
          BY <4>1
        <5> DEFINE y == If(c, t, e)
        <5>2. y \in T
          BY <5>1 DEF IsRebuildChain
        <5>3. moved[y] = arms[y]
          <6> DEFINE chain == <<f, y>>
          <6>1. chain \in R /\ chain[2] = y
            BY <5>1
          <6> HIDE DEF chain, y
          <6> QED
            BY <6>1 DEF GivenOrder
        <5>4. IsIf(y) /\ CondOf(y) = c /\ ThenOf(y) = t /\ ElseOf(y) = e
          BY <5>2, BuiltIf
        <5> HIDE DEF y
        <5>5. reading[y] = IF reading[CondOf(y)] = 1 THEN reading[ThenOf(y)] ELSE reading[ElseOf(y)]
          BY <1>1, <5>2, <5>3, <5>4
        <5> QED
          BY <5>4, <5>5 DEF y
      <4> QED
        BY <1>0, <3>2, <3>3, <4>1, RebuiltSaysOf
    <3>9. reading[m] = reading[n]
      <4> HIDE DEF m
      <4> QED
        BY <3>4, <3>6, <3>7, <3>8, SaysOne
    <3>10. moved[m] = arms[m]
      BY <3>2 DEF GivenOrder
    <3> HIDE DEF m
    <3>11. \A i \in DOMAIN m.a : m.a[i] \in Good
      <4>1. \A i \in DOMAIN m.a : m.a[i] \in T /\ m.a[i] \in Members(m.a)
        BY <3>2, Shape DEF Members
      <4> QED
        BY <1>4, <3>2, <4>1
    <3>12. value[Image(pass, m)] = reading[m] /\ reading[Image(pass, m)] = reading[m]
      <4> HIDE DEF Good
      <4> QED
        BY <1>3, <2>0, <3>2, <3>10, <3>11
    <3> QED
      BY <3>2, <3>9, <3>12
  <2> QED
    BY <2>1, <2>2
<1>5. Good \in SUBSET T
  OBVIOUS
<1>6. T = Good
  <2> HIDE DEF Good
  <2> QED
    BY <1>0, <1>4, <1>5, ByRank
<1> QED
  BY <1>6

-----------------------------------------------------------------------------
(* Arms that assign the same value.                                        *)

\* An arm OR-ed into one above: where the arm holds, the arms between them do
\* not, or have its value.
LEMMA OredSay ==
  ASSUME NEW T, NEW value, NEW l \in Seq(Arms(T)), NEW arm \in Arms(T), NEW o \in DOMAIN l, NEW g, NEW w, NEW v,
         l[o].then = arm.then,
         value[g] = 1 <=> (value[l[o].cond] = 1 \/ value[arm.cond] = 1),
         \A i \in DOMAIN l : i > o /\ value[l[i].cond] = 1 /\ value[arm.cond] = 1 => value[l[i].then] = value[arm.then],
         Says(value, l, IF value[arm.cond] = 1 THEN value[arm.then] ELSE w, v)
  PROVE  Says(value, [l EXCEPT ![o].cond = g], w, v)
<1> DEFINE m == [l EXCEPT ![o].cond = g]
<1>1. /\ DOMAIN m = DOMAIN l /\ m[o].cond = g /\ m[o].then = arm.then
      /\ \A i \in DOMAIN l : i # o => m[i] = l[i]
  <2>1. l[o] \in Arms(T)
    OBVIOUS
  <2>2. l[o] = [cond |-> l[o].cond, then |-> l[o].then]
    BY <2>1 DEF Arms
  <2>3. m[o] = [l[o] EXCEPT !.cond = g]
    OBVIOUS
  <2> QED
    BY <2>2, <2>3
<1> HIDE DEF m
<1>2. DOMAIN l \subseteq Int
  OBVIOUS
<1>3. CASE value[arm.cond] # 1
  <2>1. Says(value, l, w, v)
    BY <1>3
  <2>2. \A i \in DOMAIN l : /\ value[m[i].cond] = 1 <=> value[l[i].cond] = 1
                            /\ value[l[i].cond] = 1 => value[m[i].then] = value[l[i].then]
    BY <1>1, <1>3
  <2> QED
    BY <1>1, <2>1, <2>2, SaysAlike DEF m
<1>4. CASE value[arm.cond] = 1
  <2>1. value[m[o].cond] = 1 /\ o \in DOMAIN m
    BY <1>1, <1>4
  <2>2. CASE \E i \in DOMAIN l : i < o /\ value[l[i].cond] = 1
    <3>1. PICK i \in DOMAIN l : i < o /\ value[l[i].cond] = 1
      BY <2>2
    <3>2. PICK k \in DOMAIN l : /\ value[l[k].cond] = 1 /\ v = value[l[k].then]
                                /\ \A j \in DOMAIN l : j < k => value[l[j].cond] # 1
      BY <3>1 DEF Says
    <3>3. ~(i < k)
      BY <3>1, <3>2
    <3>4. k < o
      BY <1>2, <3>1, <3>2, <3>3
    <3>5. k # o /\ \A j \in DOMAIN l : j < k => j # o
      BY <1>2, <3>2, <3>4
    <3>6. k \in DOMAIN m /\ value[m[k].cond] = 1 /\ v = value[m[k].then] /\ \A j \in DOMAIN m : j < k => value[m[j].cond] # 1
      BY <1>1, <3>2, <3>5
    <3> QED
      BY <3>6 DEF Says, m
  <2>3. CASE ~ \E i \in DOMAIN l : i < o /\ value[l[i].cond] = 1
    <3>1. v = value[arm.then]
      <4>1. CASE \A i \in DOMAIN l : value[l[i].cond] # 1
        BY <1>4, <4>1 DEF Says
      <4>2. CASE ~ \A i \in DOMAIN l : value[l[i].cond] # 1
        <5>1. PICK k \in DOMAIN l : /\ value[l[k].cond] = 1 /\ v = value[l[k].then]
                                    /\ \A j \in DOMAIN l : j < k => value[l[j].cond] # 1
          BY <4>2 DEF Says
        <5>2. k = o \/ k > o
          BY <1>2, <2>3, <5>1
        <5> QED
          BY <1>4, <5>1, <5>2
      <4> QED
        BY <4>1, <4>2
    <3>2. \A j \in DOMAIN m : j < o => value[m[j].cond] # 1
      <4>1. \A j \in DOMAIN l : j < o => j # o
        BY <1>2
      <4> QED
        BY <1>1, <2>3, <4>1
    <3> QED
      BY <1>1, <2>1, <3>1, <3>2 DEF Says, m
  <2> QED
    BY <2>2, <2>3
<1> QED
  BY <1>3, <1>4

LEMMA JoinedSay ==
  ASSUME NEW T, NEW A, NEW J, NEW D, NEW rank, NEW row, NEW value, NEW disjuncts, NEW either, NEW stays, NEW join,
         IsForest(T, rank), IsMeaning(T, row, value), IsLists(T, D),
         IsFlatten(T, D, "OR", disjuncts), IsRebuild(T, D, "OR", either),
         IsLists(Arms(T), A), IsJoinArms(T, A, J, D, disjuncts, either, stays, join),
         GivenJoins(J, value, stays, join)
  PROVE  \A l \in A : \A d \in T : <<l, d>> \in J =>
            \A w, v : Says(value, l, w, v) => Says(value, join[<<l, d>>], w, v)
<1> DEFINE Good == {l \in A : \A d \in T : <<l, d>> \in J =>
                       \A w, v : Says(value, l, w, v) => Says(value, join[<<l, d>>], w, v)}
<1>1. <<>> \in Good
  <2>1. <<>> \in A
    BY DEF IsLists
  <2>2. \A d \in T : <<<<>>, d>> \in J => join[<<<<>>, d>>] = <<>>
    BY <2>1 DEF IsJoinArms
  <2> QED
    BY <2>1, <2>2
<1>2. ASSUME NEW f \in Good, NEW arm \in Arms(T), Append(f, arm) \in A PROVE Append(f, arm) \in Good
  <2> DEFINE l == Append(f, arm)
  <2>1. f \in A /\ f \in Seq(Arms(T))
    BY DEF IsLists
  <2>2. l \in A /\ l # <<>> /\ Begin(l) = f /\ End(l) = arm
    BY <1>2, <2>1, EndOfAppend
  <2>3. ASSUME NEW d \in T, <<l, d>> \in J, NEW w, NEW v, Says(value, l, w, v)
        PROVE  Says(value, join[<<l, d>>], w, v)
    <3> DEFINE merged == join[<<f, d>>]
               stay == stays[<<arm.then, d>>]
               same == SameThen(merged, arm)
               o == LeastOf(same)
               u == IF value[arm.cond] = 1 THEN value[arm.then] ELSE w
               Both(i) == disjuncts[merged[i].cond] \o disjuncts[arm.cond]
    <3>1. Says(value, f, u, v)
      BY <2>1, <2>3, SaysAppend
    <3> HIDE DEF l
    <3>2. /\ <<f, d>> \in J
          /\ JoinsAbove(stay, merged, arm) => \A i \in DOMAIN merged : Both(i) \in D
          /\ join[<<l, d>>] = JoinArm(LAMBDA g, c : either[disjuncts[g] \o disjuncts[c]], stay, merged, arm)
      BY <2>2, <2>3 DEF IsJoinArms
    <3>3. join[<<l, d>>] = IF JoinsAbove(stay, merged, arm)
                           THEN [merged EXCEPT ![o].cond = either[disjuncts[@] \o disjuncts[arm.cond]]]
                           ELSE Append(merged, arm)
      BY <3>2 DEF JoinArm
    <3>4. merged \in Seq(Arms(T))
      BY <3>2 DEF IsJoinArms, IsLists
    <3>5. Says(value, merged, u, v)
      BY <2>3, <3>1, <3>2
    <3>6. CASE ~JoinsAbove(stay, merged, arm)
      <4>1. join[<<l, d>>] = Append(merged, arm)
        BY <3>3, <3>6
      <4> QED
        BY <3>4, <3>5, <4>1, SaysAppend
    <3>7. CASE JoinsAbove(stay, merged, arm)
      <4>1. same \in SUBSET Nat /\ same # {} /\ same = {i \in DOMAIN merged : merged[i].then = arm.then}
        BY <3>4, <3>7 DEF JoinsAbove, SameThen
      <4>2. o \in DOMAIN merged /\ merged[o].then = arm.then
        <5> HIDE DEF same
        <5>1. o \in same
          BY <4>1, LeastOfIsIn
        <5> QED
          BY <4>1, <5>1
      <4> DEFINE both == Both(o)
                 g == either[both]
      <4>3. both \in D
        BY <3>2, <3>7, <4>2
      <4>4. join[<<l, d>>] = [merged EXCEPT ![o].cond = g]
        <5>1. join[<<l, d>>] = [merged EXCEPT ![o].cond = either[disjuncts[@] \o disjuncts[arm.cond]]]
          BY <3>3, <3>7
        <5> HIDE DEF o, merged
        <5> QED
          BY <5>1
      <4>5. merged[o].cond \in T /\ arm.cond \in T
        <5>1. merged[o] \in Arms(T)
          BY <3>4, <4>2
        <5> HIDE DEF merged, o
        <5> QED
          BY <5>1 DEF Arms
      <4>6. value[g] = 1 <=> (value[merged[o].cond] = 1 \/ value[arm.cond] = 1)
        <5> DEFINE c == merged[o].cond
        <5>1. c \in T
          BY <4>5
        <5>2. both = disjuncts[c] \o disjuncts[arm.cond]
          OBVIOUS
        <5> HIDE DEF both, g, c
        <5>3. value[either[both]] = 1 <=> \E p \in Members(both) : value[p] = 1
          BY <4>3, RebuildOrHolds
        <5>4. disjuncts[c] \in Seq(T) /\ disjuncts[arm.cond] \in Seq(T)
          BY <4>5, <5>1 DEF IsFlatten, IsLists
        <5>5. Members(both) = Members(disjuncts[c]) \cup Members(disjuncts[arm.cond])
          BY <5>2, <5>4, MembersOfConcat
        <5>6. /\ value[c] = 1 <=> \E p \in Members(disjuncts[c]) : value[p] = 1
              /\ value[arm.cond] = 1 <=> \E p \in Members(disjuncts[arm.cond]) : value[p] = 1
          BY <4>5, <5>1, FlattenOrHolds
        <5> QED
          BY <5>3, <5>5, <5>6 DEF g, c
      <4>7. \A i \in DOMAIN merged : i > o /\ value[merged[i].cond] = 1 /\ value[arm.cond] = 1
                                     => value[merged[i].then] = value[arm.then]
        <5> DEFINE chain == <<l, d>>
        <5>1. chain \in J /\ chain[1] = l /\ chain[2] = d
          BY <2>3
        <5> HIDE DEF chain
        <5>2. JoinsAbove(stays[<<arm.then, d>>], join[<<f, d>>], arm) /\ value[arm.cond] = 1 =>
                \A i \in DOMAIN join[<<f, d>>] :
                   i > LeastOf(SameThen(join[<<f, d>>], arm)) /\ value[join[<<f, d>>][i].cond] = 1 =>
                      value[join[<<f, d>>][i].then] = value[arm.then]
          BY <2>2, <5>1 DEF GivenJoins
        <5> QED
          BY <3>7, <5>2
      <4> HIDE DEF g, o, u, merged
      <4>8. Says(value, [merged EXCEPT ![o].cond = g], w, v)
        BY <3>4, <3>5, <4>2, <4>6, <4>7, OredSay DEF u
      <4> QED
        BY <4>4, <4>8
    <3> QED
      BY <3>6, <3>7
  <2> QED
    BY <2>2, <2>3
<1>3. A = Good
  <2>1. Good \in SUBSET A
    OBVIOUS
  <2> HIDE DEF Good
  <2> QED
    BY <1>1, <1>2, <2>1, ByEnd
<1> QED
  BY <1>3

\* OR-ing the arms of a chain that assign the same value into the first of them
\* keeps the value of every chain, and of chains inside its arms, on every row
\* where an arm that moves up and holds passes only arms that do not hold or
\* have its value; which arms stay where they are does not matter.
THEOREM MergeSameThenKeepsValue ==
  ASSUME NEW T, NEW A, NEW R, NEW J, NEW D, NEW rank, NEW row, NEW value, NEW disjuncts, NEW either,
         NEW stays, NEW join, NEW arms, NEW default, NEW rebuild, NEW pass,
         IsForest(T, rank), IsMeaning(T, row, value), IsLists(T, D),
         IsFlatten(T, D, "OR", disjuncts), IsRebuild(T, D, "OR", either),
         IsChains(T, A, arms, default), IsRebuildChain(T, A, R, rebuild),
         IsJoinArms(T, A, J, D, disjuncts, either, stays, join), GivenJoins(J, value, stays, join),
         IsMergeSameThen(T, A, R, J, arms, default, rebuild, join, pass)
  PROVE  KeepsValue(T, value, pass)
<1> DEFINE list == [n \in T |-> join[<<Passed(pass, arms[n]), default[n]>>]]
<1>1. IsChainPass(T, A, R, 1, arms, default, rebuild, list, pass)
  BY DEF IsMergeSameThen
<1>2. \A n \in T, w, v \in Values :
         Says(value, Passed(pass, arms[n]), w, v) => Says(value, list[n], w, v)
  <2>1. IsLists(Arms(T), A)
    BY DEF IsChains
  <2>2. \A l \in A : \A d \in T : <<l, d>> \in J =>
            \A w, v : Says(value, l, w, v) => Says(value, join[<<l, d>>], w, v)
    BY <2>1, JoinedSay
  <2>3. \A n \in T : Passed(pass, arms[n]) \in A /\ default[n] \in T /\ <<Passed(pass, arms[n]), default[n]>> \in J
    BY <1>1 DEF IsChainPass, IsChains, IsMergeSameThen
  <2> QED
    BY <2>2, <2>3
<1> HIDE DEF list
<1> QED
  BY <1>1, <1>2, ChainPassKeepsValue

-----------------------------------------------------------------------------
(* Repeated guards, and pruning.                                           *)

\* Where the guard of the IF around it holds, and no NULL that is taken for the
\* folding's own stands over anything else than NULL, what is left of the THEN
\* has the value of the THEN.
LEMMA UnwrappedValue ==
  ASSUME NEW T, NEW L, NEW P, NEW rank, NEW row, NEW value, NEW norm, NEW conjuncts, NEW unwrapped,
         IsForest(T, rank), IsMeaning(T, row, value), GivenGuards(T, norm, value),
         IsNormalizeGuard(T, norm), IsLists(T, L), IsFlatten(T, L, "AND", conjuncts),
         IsUnwrapped(T, P, norm, conjuncts, unwrapped), GivenPlaceholders(P, norm, conjuncts, value),
         NEW g \in T, value[g] = 1
  PROVE  \A n \in T : <<n, g>> \in P => value[unwrapped[<<n, g>>]] = value[n]
<1> DEFINE Good == {n \in T : <<n, g>> \in P => value[unwrapped[<<n, g>>]] = value[n]}
<1>1. ASSUME NEW n \in T, \A x \in T : rank[x] < rank[n] => x \in Good PROVE n \in Good
  <2> SUFFICES ASSUME <<n, g>> \in P PROVE value[unwrapped[<<n, g>>]] = value[n]
    OBVIOUS
  <2> DEFINE Again == RepeatsGuardIn(norm, conjuncts, n, g) /\ IsPlaceholder(n)
  <2>1. unwrapped[<<n, g>>] = IF Again THEN unwrapped[<<ElseOf(n), g>>] ELSE n
    BY DEF IsUnwrapped, UnwrappedAt, RepeatsGuardIn, RepeatsGuard
  <2>2. CASE ~Again
    BY <2>1, <2>2
  <2>3. CASE Again
    <3>1. IsIf(n) /\ SignatureIn(norm, conjuncts, CondOf(n)) = SignatureIn(norm, conjuncts, g)
      BY <2>3 DEF RepeatsGuardIn, RepeatsGuard
    <3>2. CondOf(n) \in T /\ ThenOf(n) \in T /\ ElseOf(n) \in T /\ ElseOf(n) \in Good
      BY <1>1, <3>1, IfParts
    <3>3. value[CondOf(n)] = 1
      BY <3>1, <3>2, SameSignatureHolds
    <3>4. value[n] = value[ThenOf(n)]
      BY <3>1, <3>3, Evaluation
    <3>5. value[ThenOf(n)] = NullValue
      BY <2>3, <3>2, LiteralValue DEF IsPlaceholder, IsNull
    <3>6. value[ElseOf(n)] = NullValue
      BY <2>3 DEF GivenPlaceholders
    <3>7. <<ElseOf(n), g>> \in P
      BY <2>3 DEF IsUnwrapped, IsNests
    <3> QED
      BY <2>1, <2>3, <3>2, <3>4, <3>5, <3>6, <3>7
  <2> QED
    BY <2>2, <2>3
<1>2. T = Good
  <2>1. Good \in SUBSET T /\ rank \in [T -> Nat]
    BY DEF IsForest
  <2> HIDE DEF Good
  <2> QED
    BY <1>1, <2>1, ByRank
<1> QED
  BY <1>2

\* The same when an IF that is no such NULL gives its THEN.
LEMMA PeeledValue ==
  ASSUME NEW T, NEW L, NEW P, NEW rank, NEW row, NEW value, NEW norm, NEW conjuncts, NEW peel,
         IsForest(T, rank), IsMeaning(T, row, value), GivenGuards(T, norm, value),
         IsNormalizeGuard(T, norm), IsLists(T, L), IsFlatten(T, L, "AND", conjuncts),
         IsPeeled(T, P, norm, conjuncts, peel), GivenPlaceholders(P, norm, conjuncts, value),
         NEW g \in T, value[g] = 1
  PROVE  \A n \in T : <<n, g>> \in P => value[peel[<<n, g>>]] = value[n]
<1> DEFINE Good == {n \in T : <<n, g>> \in P => value[peel[<<n, g>>]] = value[n]}
<1>1. ASSUME NEW n \in T, \A x \in T : rank[x] < rank[n] => x \in Good PROVE n \in Good
  <2> SUFFICES ASSUME <<n, g>> \in P PROVE value[peel[<<n, g>>]] = value[n]
    OBVIOUS
  <2> DEFINE Again == RepeatsGuardIn(norm, conjuncts, n, g)
             below == IF IsPlaceholder(n) THEN ElseOf(n) ELSE ThenOf(n)
  <2>1. peel[<<n, g>>] = IF Again THEN peel[<<below, g>>] ELSE n
    BY DEF IsPeeled, PeeledAt, RepeatsGuardIn, RepeatsGuard
  <2>2. CASE ~Again
    BY <2>1, <2>2
  <2>3. CASE Again
    <3>1. IsIf(n) /\ SignatureIn(norm, conjuncts, CondOf(n)) = SignatureIn(norm, conjuncts, g)
      BY <2>3 DEF RepeatsGuardIn, RepeatsGuard
    <3>2. CondOf(n) \in T /\ ThenOf(n) \in T /\ below \in T /\ below \in Good
      BY <1>1, <3>1, IfParts
    <3>3. value[CondOf(n)] = 1
      BY <3>1, <3>2, SameSignatureHolds
    <3>4. value[n] = value[ThenOf(n)]
      BY <3>1, <3>3, Evaluation
    <3>5. value[below] = value[ThenOf(n)]
      <4>1. ASSUME IsPlaceholder(n) PROVE value[ThenOf(n)] = NullValue /\ value[ElseOf(n)] = NullValue
        BY <2>3, <3>2, <4>1, LiteralValue DEF IsPlaceholder, IsNull, GivenPlaceholders
      <4> QED
        BY <4>1
    <3>6. <<below, g>> \in P
      BY <2>3 DEF IsPeeled, IsNests
    <3> HIDE DEF below
    <3> QED
      BY <2>1, <2>3, <3>2, <3>4, <3>5, <3>6
  <2> QED
    BY <2>2, <2>3
<1>2. T = Good
  <2>1. Good \in SUBSET T /\ rank \in [T -> Nat]
    BY DEF IsForest
  <2> HIDE DEF Good
  <2> QED
    BY <1>1, <2>1, ByRank
<1> QED
  BY <1>2

\* Dropping IF(G) THEN NULL inside IF(G) keeps the value of every tree, on every
\* row where a NULL that is dropped stands over a NULL or its guard does not
\* hold: no other assignment of NULL is lost.
THEOREM UnwrapGuardsKeepsValue ==
  ASSUME NEW T, NEW L, NEW P, NEW rank, NEW row, NEW value, NEW norm, NEW conjuncts, NEW unwrapped, NEW pass,
         IsForest(T, rank), IsMeaning(T, row, value), GivenGuards(T, norm, value),
         IsNormalizeGuard(T, norm), IsLists(T, L), IsFlatten(T, L, "AND", conjuncts),
         IsUnwrapped(T, P, norm, conjuncts, unwrapped), GivenPlaceholders(P, norm, conjuncts, value),
         IsUnwrapGuards(T, P, unwrapped, pass)
  PROVE  KeepsValue(T, value, pass)
<1>1. IsPass(T, pass)
  BY DEF IsUnwrapGuards
<1>2. ASSUME NEW n \in T PROVE value[pass[n]] = value[Image(pass, n)]
  <2> DEFINE m == Image(pass, n)
             kept == unwrapped[<<ThenOf(m), CondOf(m)>>]
  <2>1. m \in T /\ pass[n] \in T
    BY <1>1, MappedParts DEF IsPass
  <2>2. /\ IsIf(m) => <<ThenOf(m), CondOf(m)>> \in P /\ pass[n] = [m EXCEPT !.a[2] = kept]
        /\ ~IsIf(m) => pass[n] = m
    BY DEF IsUnwrapGuards
  <2> HIDE DEF m
  <2>3. CASE ~IsIf(m)
    BY <2>2, <2>3 DEF m
  <2>4. CASE IsIf(m)
    <3>1. DOMAIN m.a = 1..3 /\ CondOf(m) \in T /\ ThenOf(m) \in T /\ ElseOf(m) \in T
      BY <2>1, <2>4, IfParts
    <3> DEFINE u == pass[n]
    <3>2. IsIf(u) /\ CondOf(u) = CondOf(m) /\ ThenOf(u) = kept /\ ElseOf(u) = ElseOf(m)
      <4>1. m = Node(m.k, m.v, m.n, m.a)
        BY <2>1, NodeOfParts
      <4>2. u.k = m.k /\ u.a = [m.a EXCEPT ![2] = kept]
        BY <2>2, <2>4, <4>1 DEF Node
      <4> QED
        BY <2>4, <3>1, <4>2 DEF IsIf, CondOf, ThenOf, ElseOf
    <3>3. value[u] = IF value[CondOf(m)] = 1 THEN value[kept] ELSE value[ElseOf(m)]
      BY <2>1, <3>2, Evaluation
    <3>4. value[m] = IF value[CondOf(m)] = 1 THEN value[ThenOf(m)] ELSE value[ElseOf(m)]
      BY <2>1, <2>4, Evaluation
    <3>5. ASSUME value[CondOf(m)] = 1 PROVE value[kept] = value[ThenOf(m)]
      BY <2>2, <2>4, <3>1, <3>5, UnwrappedValue
    <3> QED
      BY <3>3, <3>4, <3>5 DEF m
  <2> QED
    BY <2>3, <2>4
<1> QED
  BY <1>1, <1>2, BottomUp

\* A guard without repeated disjuncts holds where the guard does.
LEMMA OneOfEachHolds ==
  ASSUME NEW T, NEW D, NEW rank, NEW row, NEW value, NEW disjuncts, NEW distinct, NEW either,
         IsForest(T, rank), IsMeaning(T, row, value), IsLists(T, D),
         IsFlatten(T, D, "OR", disjuncts), IsRebuild(T, D, "OR", either), IsDistinct(D, distinct),
         NEW c \in T
  PROVE  value[either[distinct[disjuncts[c]]]] = 1 <=> value[c] = 1
<1>1. disjuncts[c] \in D /\ distinct[disjuncts[c]] \in D
  BY DEF IsFlatten, IsDistinct
<1>2. Members(distinct[disjuncts[c]]) = Members(disjuncts[c])
  BY <1>1 DEF IsDistinct
<1>3. value[c] = 1 <=> \E p \in Members(disjuncts[c]) : value[p] = 1
  BY FlattenOrHolds
<1>4. value[either[distinct[disjuncts[c]]]] = 1 <=> \E p \in Members(distinct[disjuncts[c]]) : value[p] = 1
  BY <1>1, RebuildOrHolds
<1> QED
  BY <1>2, <1>3, <1>4

\* What the guard of an IF says of a column.
LEMMA PredicateValue ==
  ASSUME NEW T, NEW rank, NEW row, NEW value, IsForest(T, rank), IsMeaning(T, row, value), NEW n \in T
  PROVE  /\ PredicateColumn(n, "ISNOTEMPTY") # Absent =>
               /\ PredicateColumn(n, "ISNOTEMPTY") \in T
               /\ value[n] = 1 <=> value[PredicateColumn(n, "ISNOTEMPTY")] # NullValue
         /\ PredicateColumn(n, "ISEMPTY") # Absent =>
               (value[n] = 1 <=> value[PredicateColumn(n, "ISEMPTY")] = NullValue)
<1>1. ASSUME NEW f, PredicateColumn(n, f) # Absent
      PROVE  IsFn(n, f) /\ n.k = "fn" /\ PredicateColumn(n, f) = n.a[1] /\ n.a[1] \in T
  <2>1. IsFn(n, f) /\ PredicateColumn(n, f) = n.a[1]
    BY <1>1 DEF PredicateColumn
  <2> QED
    BY <2>1, FnParts DEF IsFn
<1>2. IsFn(n, "ISNOTEMPTY") => (value[n] = 1 <=> value[n.a[1]] # NullValue)
  BY Evaluation DEF AsNumber
<1>3. IsFn(n, "ISEMPTY") => (value[n] = 1 <=> value[n.a[1]] = NullValue)
  BY Evaluation DEF AsNumber
<1> QED
  BY <1>1, <1>2, <1>3

CutsKeepValue(T, P, value, peel, pass) ==
    \A m \in T :
       LET nest == <<ThenOf(m), CondOf(m)>>
           again == ElseOf(peel[nest])
           cut == CutIn(pass, peel, m)
       IN  /\ IsIf(m) /\ nest \in P /\ cut \in T
           /\ IsIf(peel[nest]) => value[pass[again]] = value[again]
           => /\ value[cut] = value[m] /\ IsIf(cut)
              /\ CondOf(cut) \in T /\ ThenOf(cut) \in T /\ ElseOf(cut) \in T

\* The IF over pruned branches, before a pattern in it is looked for, when what
\* is pruned once more keeps its value.
LEMMA PrunedValue ==
  ASSUME NEW T, NEW L, NEW P, NEW rank, NEW row, NEW value, NEW norm, NEW conjuncts, NEW peel, NEW pass,
         IsForest(T, rank), IsMeaning(T, row, value), GivenGuards(T, norm, value),
         IsNormalizeGuard(T, norm), IsLists(T, L), IsFlatten(T, L, "AND", conjuncts),
         IsPeeled(T, P, norm, conjuncts, peel), GivenPlaceholders(P, norm, conjuncts, value)
  PROVE  CutsKeepValue(T, P, value, peel, pass)
<1> SUFFICES ASSUME NEW m \in T, IsIf(m), <<ThenOf(m), CondOf(m)>> \in P, CutIn(pass, peel, m) \in T,
                    LET again == ElseOf(peel[<<ThenOf(m), CondOf(m)>>])
                    IN  IsIf(peel[<<ThenOf(m), CondOf(m)>>]) => value[pass[again]] = value[again]
             PROVE  LET cut == CutIn(pass, peel, m)
                    IN  /\ value[cut] = value[m] /\ IsIf(cut)
                        /\ CondOf(cut) \in T /\ ThenOf(cut) \in T /\ ElseOf(cut) \in T
  BY DEF CutsKeepValue
<1> DEFINE cut == CutIn(pass, peel, m)
           g == CondOf(m)
           peeled == peel[<<ThenOf(m), g>>]
           then == IF PredicateColumn(g, "ISNOTEMPTY") # Absent /\ IsIf(peeled)
                      /\ PredicateColumn(CondOf(peeled), "ISEMPTY") = PredicateColumn(g, "ISNOTEMPTY")
                   THEN pass[ElseOf(peeled)] ELSE peeled
           else == PrunedElse(g, then, ElseOf(m))
           col == PredicateColumn(g, "ISNOTEMPTY")
<1>0. cut \in T
  OBVIOUS
<1>1. cut = If(g, then, else)
  BY DEF CutIn, PrunedAt, PrunedThen
<1>2. g \in T /\ ThenOf(m) \in T /\ ElseOf(m) \in T /\ peeled \in T
  BY IfParts DEF IsPeeled, IsNests
<1>3. value[m] = IF value[g] = 1 THEN value[ThenOf(m)] ELSE value[ElseOf(m)]
  BY Evaluation
<1>4. value[g] = 1 => value[peeled] = value[ThenOf(m)]
  BY <1>2, PeeledValue
<1>5. then = IF col # Absent /\ IsIf(peeled) /\ PredicateColumn(CondOf(peeled), "ISEMPTY") = col
             THEN pass[ElseOf(peeled)] ELSE peeled
  OBVIOUS
<1>6. else = LET rest == IF IsIf(ElseOf(m)) /\ CondOf(ElseOf(m)) = g /\ ThenOf(ElseOf(m)) = then
                         THEN ElseOf(ElseOf(m)) ELSE ElseOf(m)
             IN  IF col # Absent /\ rest = col THEN Absent ELSE rest
  BY DEF PrunedElse
<1>7. col # Absent => col \in T /\ (value[g] = 1 <=> value[col] # NullValue)
  BY <1>2, PredicateValue
<1> HIDE DEF cut, then, else, col
<1>8. /\ then \in T /\ else \in T /\ IsIf(cut) /\ CondOf(cut) = g /\ ThenOf(cut) = then /\ ElseOf(cut) = else
      /\ value[cut] = IF value[g] = 1 THEN value[then] ELSE value[else]
  BY <1>0, <1>1, BuiltIf
<1>9. ASSUME value[g] = 1 PROVE value[then] = value[peeled]
  <2>1. CASE col # Absent /\ IsIf(peeled) /\ PredicateColumn(CondOf(peeled), "ISEMPTY") = col
    <3>1. CondOf(peeled) \in T
      BY <1>2, <2>1, IfParts
    <3>2. value[CondOf(peeled)] = 1 <=> value[col] = NullValue
      BY <2>1, <3>1, PredicateValue
    <3>3. value[peeled] = value[ElseOf(peeled)]
      BY <1>2, <1>7, <1>9, <2>1, <3>2, Evaluation
    <3> QED
      BY <1>5, <2>1, <3>3
  <2> QED
    BY <1>5, <2>1
<1>10. ASSUME value[g] # 1 PROVE value[else] = value[ElseOf(m)]
  <2> DEFINE rest == IF IsIf(ElseOf(m)) /\ CondOf(ElseOf(m)) = g /\ ThenOf(ElseOf(m)) = then
                     THEN ElseOf(ElseOf(m)) ELSE ElseOf(m)
  <2>1. value[rest] = value[ElseOf(m)]
    BY <1>2, <1>10, Evaluation
  <2>2. else = IF col # Absent /\ rest = col THEN Absent ELSE rest
    BY <1>6
  <2> HIDE DEF rest
  <2>3. CASE col # Absent /\ rest = col
    <3>1. value[rest] = NullValue
      BY <1>7, <1>10, <2>3
    <3>2. else = Absent
      BY <2>2, <2>3
    <3>3. else.k = "none"
      BY <3>2 DEF Absent, Node
    <3>4. value[else] = NullValue
      BY <1>8, <3>3, Evaluation
    <3> QED
      BY <2>1, <3>1, <3>4
  <2> QED
    BY <2>1, <2>2, <2>3
<1>11. value[cut] = value[m]
  BY <1>3, <1>4, <1>8, <1>9, <1>10
<1> QED
  BY <1>2, <1>8, <1>11 DEF cut

\* Pruning a folded formula keeps the value of every tree, on every row where a
\* NULL under a repeated guard stands over a NULL or its guard does not hold,
\* and where nothing that is joined, clamped, compared with itself or through a
\* default is NULL.
THEOREM PruneTreeKeepsValue ==
  ASSUME NEW T, NEW L, NEW P, NEW D, NEW rank, NEW row, NEW value, NEW norm, NEW conjuncts, NEW peel,
         NEW subject, NEW joins, NEW clamps, NEW disjuncts, NEW distinct, NEW either, NEW pass,
         IsForest(T, rank), IsMeaning(T, row, value), GivenGuards(T, norm, value),
         IsNormalizeGuard(T, norm), IsLists(T, L), IsFlatten(T, L, "AND", conjuncts),
         IsPeeled(T, P, norm, conjuncts, peel), GivenPlaceholders(P, norm, conjuncts, value),
         IsJoinZeroDefault(T, joins), GivenWhere(T, joins, value),
         IsClampSubject(T, subject), IsNegativeClamp(T, subject, clamps), GivenWhere(T, clamps, value),
         IsLists(T, D), IsFlatten(T, D, "OR", disjuncts), IsRebuild(T, D, "OR", either),
         IsDistinct(D, distinct),
         IsPruneTree(T, P, rank, peel, joins, clamps, disjuncts, distinct, either, pass)
  PROVE  KeepsValue(T, value, pass)
<1> DEFINE Good == {n \in T : value[pass[n]] = value[n]}
           Flat(x) == FlatIn(joins, clamps, x)
           One(c) == OneOfEachIn(disjuncts, distinct, either, c)
<1>0. IsPass(T, pass) /\ pass \in [T -> T] /\ rank \in [T -> Nat]
  BY DEF IsPruneTree, IsPass, IsForest
<1>1. \A n \in T : (\A i \in DOMAIN n.a : value[pass[n.a[i]]] = value[n.a[i]]) => value[Image(pass, n)] = value[n]
  BY <1>0, ImageKeepsValue
<1>2. CutsKeepValue(T, P, value, peel, pass)
  BY PrunedValue
<1>3. ASSUME NEW n \in T, \A x \in T : rank[x] < rank[n] => x \in Good PROVE n \in Good
  <2> DEFINE m == Image(pass, n)
             peeled == peel[<<ThenOf(m), CondOf(m)>>]
             cut == CutIn(pass, peel, m)
  <2>1. m \in T /\ m.k = n.k
    BY <1>0, MappedParts
  <2>2. value[m] = value[n]
    <3>1. \A i \in DOMAIN n.a : n.a[i] \in Good
      BY <1>3, Shape
    <3> QED
      BY <1>1, <3>1
  <2>3. /\ ~IsIf(n) => pass[n] = m
        /\ IsIf(n) /\ Flat(cut) # Absent => pass[n] = pass[Flat(cut)]
        /\ IsIf(n) /\ Flat(cut) = Absent => pass[n] = If(One(CondOf(cut)), ThenOf(cut), ElseOf(cut))
    <3>1. IsPruneAt(peel, joins, clamps, disjuncts, distinct, either, pass, n)
      BY DEF IsPruneTree
    <3> QED
      BY <3>1 DEF IsPruneAt, PruneAt, CutIn, PrunedAt, PrunedThen, Image, Mapped
  <2>4. ASSUME IsIf(n)
        PROVE  /\ <<ThenOf(m), CondOf(m)>> \in P /\ (IsIf(peeled) => rank[ElseOf(peeled)] < rank[n])
               /\ cut \in T /\ (Flat(cut) # Absent => rank[Flat(cut)] < rank[n])
    BY <2>4 DEF IsPruneTree
    <2>5. ASSUME IsIf(n)
        PROVE  value[cut] = value[m] /\ IsIf(cut) /\ CondOf(cut) \in T /\ ThenOf(cut) \in T /\ ElseOf(cut) \in T
    <3>1. IsIf(m)
      BY <2>1, <2>5 DEF IsIf
    <3>2. ASSUME IsIf(peeled) PROVE value[pass[ElseOf(peeled)]] = value[ElseOf(peeled)]
      <4>1. peeled \in T
        BY <2>4, <2>5 DEF IsPeeled, IsNests
      <4>2. ElseOf(peeled) \in T
        BY <3>2, <4>1, IfParts
      <4> QED
        BY <1>3, <2>4, <2>5, <3>2, <4>2
    <3> QED
      BY <1>2, <2>1, <2>4, <2>5, <3>1, <3>2 DEF CutsKeepValue
  <2> HIDE DEF m, cut, peeled, Flat, One
  <2> SUFFICES value[pass[n]] = value[m]
    BY <2>2
  <2>6. CASE ~IsIf(n)
    BY <2>3, <2>6
  <2>7. CASE IsIf(n) /\ Flat(cut) # Absent
    <3>1. Flat(cut) \in T
      BY <2>4, <2>7 DEF Flat, FlatIn, IsJoinZeroDefault, IsNegativeClamp
    <3>2. value[Flat(cut)] = value[cut]
      <4>1. CASE joins[cut] # Absent
        BY <2>4, <2>5, <2>7, <4>1, JoinZeroDefaultValue DEF Flat, FlatIn
      <4>2. CASE joins[cut] = Absent
        BY <2>4, <2>5, <2>7, <4>2, NegativeClampValue DEF Flat, FlatIn
      <4> QED
        BY <4>1, <4>2
    <3>3. Flat(cut) \in Good
      BY <1>3, <2>4, <2>7, <3>1
    <3> QED
      BY <2>3, <2>5, <2>7, <3>2, <3>3
  <2>8. CASE IsIf(n) /\ Flat(cut) = Absent
    <3>1. value[One(CondOf(cut))] = 1 <=> value[CondOf(cut)] = 1
      <4>1. value[either[distinct[disjuncts[CondOf(cut)]]]] = 1 <=> value[CondOf(cut)] = 1
        BY <2>5, <2>8, OneOfEachHolds
      <4> QED
        BY <4>1 DEF One, OneOfEachIn
    <3>2. pass[n] \in T
      BY <1>0
    <3>3. value[pass[n]] = IF value[One(CondOf(cut))] = 1 THEN value[ThenOf(cut)] ELSE value[ElseOf(cut)]
      BY <2>3, <2>8, <3>2, BuiltIf
    <3>4. value[cut] = IF value[CondOf(cut)] = 1 THEN value[ThenOf(cut)] ELSE value[ElseOf(cut)]
      BY <2>4, <2>5, <2>8, Evaluation
    <3> QED
      BY <2>5, <2>8, <3>1, <3>3, <3>4
  <2> QED
    BY <2>6, <2>7, <2>8
<1>4. T = Good
  <2>1. Good \in SUBSET T
    OBVIOUS
  <2> HIDE DEF Good
  <2> QED
    BY <1>0, <1>3, <2>1, ByRank
<1> QED
  BY <1>4 DEF KeepsValue
=============================================================================
