---------------------------- MODULE PhraseReader ----------------------------
(***************************************************************************)
(* The parser at work on one phrase of an UPDATE, the value of SET or the   *)
(* condition of WHERE, next to the tree that SQL's grammar gives it.       *)
(***************************************************************************)
EXTENDS ExprParse

CONSTANT Phrases    \* texts, with the tree that SQL's grammar gives them

VARIABLES phrase, parsed

Init == phrase \in Phrases /\ parsed = Absent

ReadValue == /\ parsed = Absent /\ phrase.kind # "test"
             /\ parsed' = SumsOfNumbers(Parse(phrase.text, FALSE))
             /\ UNCHANGED phrase

ReadCondition == /\ parsed = Absent /\ phrase.kind = "test"
                 /\ parsed' = Parse(phrase.text, TRUE)
                 /\ UNCHANGED phrase

Next == ReadValue \/ ReadCondition

Spec == Init /\ [][Next]_<<phrase, parsed>>

(* Operands the parser cannot read become a call the compiler refuses.     *)
Refused(n) == Mentions(n, Unsupported) \/ Mentions(n, UnresolvedSubquery)

(* However operators, CASEs, calls and subqueries are nested, a phrase gets *)
(* the tree that SQL's precedence gives it: no shape claims the text of     *)
(* another one and every cut is made at the right place.                   *)
ReadsAsSql == parsed # Absent /\ ~phrase.buried => parsed = phrase.tree

(* A BETWEEN or IN that is buried in an operand is cut at the wrong place,  *)
(* parentheses or not; but no such phrase gets a formula that is not its own. *)
NeverMisread == parsed # Absent => parsed = phrase.tree \/ Refused(parsed)

(* _extract_matching_case_body "correctly stops at the END that closes THIS *)
(* CASE, not wherever the next END substring happens to be".               *)
CaseStopsAtItsEnd ==
    parsed # Absent /\ phrase.text[1] = "CASE" => parsed = phrase.tree \/ Refused(parsed)
=============================================================================
