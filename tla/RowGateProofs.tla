---------------------------- MODULE RowGateProofs ----------------------------
(***************************************************************************)
(* What RowGate keeps for any number of objects, columns, statements and   *)
(* dates.                                                                  *)
(*                                                                         *)
(* The guardrails share one discipline: each only makes a row stricter     *)
(* (RowStep), and enforce_completeness changes the rows of one object,     *)
(* whose coverage depends on nothing but those rows.                       *)
(***************************************************************************)
EXTENDS RowGate, TLAPS

\* A row without errors is ACTIVE and not for review, a withheld one is empty.
RowOK(r) ==
    /\ r \in RowType
    /\ r.errors = {} => r.status = "ACTIVE" /\ r.review = "GENERATED"
    /\ r.review = "UNSUPPORTED" => r.formula = ""

Stricter(r, q) ==
    /\ r.errors \subseteq q.errors
    /\ r.status = "PENDING_REVIEW" => q.status = "PENDING_REVIEW"
    /\ r.review = "UNSUPPORTED" => q.review = "UNSUPPORTED"
    /\ q.sources = r.sources
    /\ Vouches(q) => Vouches(r)

SlotStep(x, y) ==
    \/ x = NoRow /\ y = NoRow
    \/ RowOK(x) /\ RowOK(y) /\ Stricter(x, y)

RowStep == \A s \in Slots : SlotStep(rows[s], rows'[s])

RowsOK == rows \in [Slots -> RowType \cup {NoRow}]
          /\ \A s \in Slots : rows[s] = NoRow \/ RowOK(rows[s])

Fresh == stage = "generate" => \A s \in Slots : rows[s] = NoRow

Unwritten == stage \in {"generate", "check", "duplicates", "writes"} =>
               \A o \in Objects : evidence[o].blockers = {}

\* The verdict on an object that the gate has seen.
Passed(o) == \A s \in Slots : s[1] = o /\ rows[s] # NoRow /\ rows[s].status = "ACTIVE"
                                => ObjectBlockers(o) = {}

GateVerdicts ==
    /\ stage = "completeness" => \A o \in Objects : o < at => Passed(o)
    /\ stage \in {"report", "done"} => \A o \in Objects : Passed(o)

\* What the evidence holds against an object can still be said of it.
Kept(o) == evidence[o].blockers \subseteq ObjectBlockers(o) \cup RowBlockers(RowsOf(o))

EvidenceKept == \A o \in Objects : Kept(o)

Reported == stage = "done" =>
              \A o \in Objects : ObjectBlockers(o) \cup RowBlockers(RowsOf(o)) \subseteq qa

ControlOK ==
    /\ source \in SourceType
    /\ stage \in {"generate", "check", "duplicates", "writes", "completeness",
                  "report", "done"}
    /\ at \in 1..(NumObjects + 1)
    /\ evidence \in [Objects -> [ready : BOOLEAN, written : BOOLEAN,
                                 blockers : SUBSET UNION {
                                    {"inventory", "structural"} \X Objects,
                                    {"write"} \X Writes, {"row"} \X Slots}]]
    /\ qa \subseteq UNION {{"inventory", "structural"} \X Objects,
                           {"write"} \X Writes, {"row", "review", "note"} \X Slots}
    /\ exported \subseteq Slots

GateInv ==
    /\ ControlOK /\ RowsOK /\ Fresh /\ Unwritten
    /\ GateVerdicts /\ EvidenceKept /\ Reported

-----------------------------------------------------------------------------
(* Rows. *)

\* A row is not the absence of one.
LEMMA RowIsRow == \A r : RowOK(r) => r # NoRow
  BY DEF RowOK, RowType, NoRow, Formulas

\* The edits of the guardrails keep a row well formed and make it stricter; a
\* failed check concerns rows with a formula only.
LEMMA EditsAreStrict ==
  ASSUME NEW r, RowOK(r)
  PROVE  /\ r.formula # "" => RowOK(Failed(r)) /\ Stricter(r, Failed(r))
         /\ RowOK(Waved(r)) /\ Stricter(r, Waved(r))
         /\ RowOK(Flagged(r)) /\ Stricter(r, Flagged(r))
         /\ RowOK(Advised(r)) /\ Stricter(r, Advised(r))
         /\ RowOK(Withheld(r)) /\ Stricter(r, Withheld(r))
         /\ RowOK(Gated(r)) /\ Stricter(r, Gated(r))
         /\ RowOK(Unchanged(r)) /\ Stricter(r, Unchanged(r))
<1> USE DEF RowOK, RowType, Stricter, Vouches, NoRow, Errors, Notes, Formulas
<1>1. r.formula # "" => RowOK(Failed(r)) /\ Stricter(r, Failed(r))
  BY DEF Failed
<1>2. RowOK(Waved(r)) /\ Stricter(r, Waved(r))
  BY DEF Waved
<1>3. RowOK(Flagged(r)) /\ Stricter(r, Flagged(r))
  BY DEF Flagged
<1>4. RowOK(Advised(r)) /\ Stricter(r, Advised(r))
  BY DEF Advised
<1>5. RowOK(Withheld(r)) /\ Stricter(r, Withheld(r))
  BY DEF Withheld
<1>6. RowOK(Gated(r)) /\ Stricter(r, Gated(r))
  BY DEF Gated
<1>7. RowOK(Unchanged(r)) /\ Stricter(r, Unchanged(r))
  BY DEF Unchanged
<1> QED BY <1>1, <1>2, <1>3, <1>4, <1>5, <1>6, <1>7

\* What formula generation hands over is well formed.
LEMMA CandidatesOK ==
  ASSUME GateInv, NEW o \in Objects, NEW c \in Columns, NEW r \in Candidates(o, c)
  PROVE  RowOK(r)
<1>1. PICK x \in Derived(o, c) : r = Generated(x)
  BY DEF Candidates
<1>2. Assigning(o, c) \subseteq Writes
  BY DEF Assigning, WritesOf
<1>3. x \in [formula : Formulas, valid : BOOLEAN, dependent : BOOLEAN, advised : BOOLEAN,
             sources : SUBSET Writes, date : Dates]
  BY <1>2 DEF Derived
<1>4. r \in RowType
  BY <1>1, <1>3 DEF Generated, RowType, Formulas, Errors, Notes
<1> QED BY <1>1, <1>3, <1>4 DEF Generated, RowOK

\* The actions that edit rows edit each of them as the lemma above says.
LEMMA RowActionsAreStrict ==
  ASSUME GateInv, CheckRows \/ FlagDuplicates \/ FlagWrites \/ Enforce
  PROVE  RowStep /\ RowsOK'
<1>1. ASSUME NEW s \in Slots
      PROVE  SlotStep(rows[s], rows'[s])
  <2>1. rows[s] = NoRow \/ RowOK(rows[s])
    BY DEF GateInv, RowsOK
  <2>2. CASE CheckRows
    <3>1. rows'[s] \in Checked(rows[s])
      BY <2>2 DEF CheckRows
    <3>2. CASE rows[s] = NoRow
      BY <3>1, <3>2 DEF Checked, SlotStep
    <3>3. CASE rows[s] # NoRow /\ rows[s].formula = ""
      BY <2>1, <3>1, <3>3, EditsAreStrict DEF Checked, SlotStep, Unchanged
    <3>4. CASE rows[s] # NoRow /\ rows[s].formula # ""
      BY <2>1, <3>1, <3>4, EditsAreStrict DEF Checked, SlotStep
    <3> QED BY <3>2, <3>3, <3>4
  <2>3. CASE FlagDuplicates
    <3>1. rows'[s] \in {rows[s], Flagged(rows[s])} /\ (rows[s] = NoRow => rows'[s] = rows[s])
      BY <2>3 DEF FlagDuplicates
    <3> QED BY <2>1, <3>1, EditsAreStrict DEF SlotStep, Unchanged
  <2>4. CASE FlagWrites
    <3>1. /\ rows'[s] \in {rows[s], Advised(rows[s]), Withheld(rows[s])}
          /\ rows[s] = NoRow => rows'[s] = rows[s]
      BY <2>4 DEF FlagWrites, RowsOf, Present
    <3> QED BY <2>1, <3>1, EditsAreStrict DEF SlotStep, Unchanged
  <2>5. CASE Enforce
    <3>1. rows'[s] \in {rows[s], Gated(rows[s])} /\ (rows[s] = NoRow => rows'[s] = rows[s])
      BY <2>5 DEF Enforce, RowsOf, Present
    <3> QED BY <2>1, <3>1, EditsAreStrict DEF SlotStep, Unchanged
  <2> QED BY <2>2, <2>3, <2>4, <2>5
<1>2. RowStep
  BY <1>1 DEF RowStep
<1>3. rows' = [s \in Slots |-> rows'[s]]
  BY DEF CheckRows, FlagDuplicates, FlagWrites, Enforce
<1>4. RowsOK'
  BY <1>2, <1>3 DEF RowStep, SlotStep, RowsOK, RowOK
<1> QED BY <1>2, <1>4

-----------------------------------------------------------------------------
(* The ledger. *)

\* The slot a statement needs for one of its columns belongs to its owner.
LEMMA SlotsOfWrites ==
  ASSUME source \in SourceType, NEW w \in Writes, NEW c \in source.columns[w]
  PROVE  <<source.owner[w], c>> \in Slots
  BY DEF SourceType, Slots

\* Making rows stricter uncovers statements and never covers one: what is
\* said against an object stays true.
LEMMA BlockersStay ==
  ASSUME GateInv, RowStep, UNCHANGED source, NEW o \in Objects
  PROVE  /\ ObjectBlockers(o) \subseteq ObjectBlockers(o)'
         /\ RowBlockers(RowsOf(o)) \subseteq RowBlockers(RowsOf(o))'
<1>1. source \in SourceType
  BY DEF GateInv, ControlOK
<1>2. ASSUME NEW w \in Writes, Covered(w)'
      PROVE  Covered(w)
  <2>1. ASSUME NEW c \in source.columns[w]
        PROVE  /\ Vouches(rows[<<source.owner[w], c>>])
               /\ w \in rows[<<source.owner[w], c>>].sources
    <3>1. <<source.owner[w], c>> \in Slots
      BY <1>1, SlotsOfWrites
    <3>2. /\ Vouches(rows'[<<source.owner[w], c>>])
          /\ w \in rows'[<<source.owner[w], c>>].sources
      BY <1>2 DEF Covered
    <3>3. SlotStep(rows[<<source.owner[w], c>>], rows'[<<source.owner[w], c>>])
      BY <3>1 DEF RowStep
    <3> QED BY <3>2, <3>3 DEF SlotStep, Stricter, Vouches
  <2> QED BY <1>2, <2>1 DEF Covered
<1>3. LedgerBlockers(o) \subseteq LedgerBlockers(o)'
  BY <1>2 DEF LedgerBlockers, WritesOf
<1>4. StructuralBlockers(o) = StructuralBlockers(o)'
  BY DEF StructuralBlockers
<1>5. ASSUME NEW s \in Slots, s \in RowsOf(o), rows[s].errors # {}
      PROVE  s \in RowsOf(o)' /\ rows'[s].errors # {}
  BY <1>5, RowIsRow DEF RowStep, SlotStep, Stricter, RowsOf, Present
<1>6. RowBlockers(RowsOf(o)) \subseteq RowBlockers(RowsOf(o))'
  BY <1>5 DEF RowBlockers, RowsOf, Present
<1> QED BY <1>3, <1>4, <1>6 DEF ObjectBlockers

\* The ledger of an object looks at the rows of that object only.
LEMMA BlockersAreLocal ==
  ASSUME GateInv, UNCHANGED source, NEW o \in Objects,
         \A s \in Slots : s[1] = o => rows'[s] = rows[s]
  PROVE  /\ ObjectBlockers(o)' = ObjectBlockers(o)
         /\ RowBlockers(RowsOf(o))' = RowBlockers(RowsOf(o))
<1>1. source \in SourceType
  BY DEF GateInv, ControlOK
<1>2. ASSUME NEW w \in WritesOf(o)
      PROVE  Covered(w)' <=> Covered(w)
  <2>1. w \in Writes /\ source.owner[w] = o
    BY DEF WritesOf
  <2>2. \A c \in source.columns[w] :
          rows'[<<source.owner[w], c>>] = rows[<<source.owner[w], c>>]
    BY <1>1, <2>1, SlotsOfWrites
  <2> QED BY <2>2 DEF Covered
<1>3. WritesOf(o)' = WritesOf(o)
  BY DEF WritesOf
<1>4. LedgerBlockers(o)' = LedgerBlockers(o)
  BY <1>2, <1>3 DEF LedgerBlockers
<1>5. StructuralBlockers(o)' = StructuralBlockers(o)
  BY DEF StructuralBlockers
<1>6. RowsOf(o)' = RowsOf(o)
  BY DEF RowsOf, Present
<1>7. \A s \in RowsOf(o) : rows'[s] = rows[s]
  BY DEF RowsOf, Present
<1>8. RowBlockers(RowsOf(o))' = RowBlockers(RowsOf(o))
  BY <1>6, <1>7 DEF RowBlockers
<1> QED BY <1>4, <1>5, <1>8 DEF ObjectBlockers

-----------------------------------------------------------------------------
(* The invariant. *)

LEMMA InitGate == Init => GateInv
<1> SUFFICES ASSUME Init PROVE GateInv
  OBVIOUS
<1> USE DEF Init
<1>1. ControlOK
  BY GateAssumption DEF ControlOK, NoEvidence
<1>2. RowsOK /\ Fresh /\ Unwritten
  BY DEF RowsOK, Fresh, Unwritten, NoEvidence
<1>3. GateVerdicts /\ Reported
  BY DEF GateVerdicts, Reported
<1>4. EvidenceKept
  BY DEF EvidenceKept, Kept, NoEvidence
<1> QED BY <1>1, <1>2, <1>3, <1>4 DEF GateInv

\* Where rows and source stay, so do the verdicts.
LEMMA Unedited ==
  ASSUME GateInv, UNCHANGED <<source, rows>>, NEW o \in Objects
  PROVE  /\ ObjectBlockers(o)' = ObjectBlockers(o)
         /\ RowBlockers(RowsOf(o))' = RowBlockers(RowsOf(o))
         /\ Passed(o) => Passed(o)'
<1>1. /\ ObjectBlockers(o)' = ObjectBlockers(o)
      /\ RowBlockers(RowsOf(o))' = RowBlockers(RowsOf(o))
  BY BlockersAreLocal
<1> QED BY <1>1 DEF Passed

\* A guardrail before the gate makes rows stricter and writes nothing else.
LEMMA EarlyStep ==
  ASSUME GateInv, RowStep, RowsOK', ControlOK', UNCHANGED <<source, evidence>>,
         stage \in {"check", "duplicates", "writes"},
         stage' \in {"duplicates", "writes"}
  PROVE  GateInv'
<1>1. Fresh' /\ Reported' /\ GateVerdicts'
  BY DEF Fresh, Reported, GateVerdicts
<1>2. Unwritten'
  BY DEF GateInv, Unwritten
<1>3. EvidenceKept'
  BY DEF GateInv, Unwritten, EvidenceKept, Kept
<1> QED BY <1>1, <1>2, <1>3 DEF GateInv

\* What is said against objects and rows is well typed.
LEMMA BlockersTyped ==
  ASSUME GateInv
  PROVE  /\ \A o \in Objects : RowBlockers(RowsOf(o)) \subseteq {"row"} \X Slots
         /\ \A o \in Objects : ObjectBlockers(o) \subseteq
              UNION {{"inventory", "structural"} \X Objects, {"write"} \X Writes}
         /\ RowBlockers(Present) \subseteq {"row"} \X Slots
         /\ ReviewBlockers \subseteq {"review"} \X Slots
         /\ NoteBlockers \subseteq {"note"} \X Slots
<1>1. \A o \in Objects : RowBlockers(RowsOf(o)) \subseteq {"row"} \X Slots
  BY DEF RowBlockers, RowsOf, Present
<1>2. \A o \in Objects : ObjectBlockers(o) \subseteq
        UNION {{"inventory", "structural"} \X Objects, {"write"} \X Writes}
  BY DEF ObjectBlockers, LedgerBlockers, StructuralBlockers, WritesOf
<1>3. RowBlockers(Present) \subseteq {"row"} \X Slots
  BY DEF RowBlockers, Present
<1>4. ReviewBlockers \subseteq {"review"} \X Slots /\ NoteBlockers \subseteq {"note"} \X Slots
  BY DEF ReviewBlockers, NoteBlockers, Present
<1> QED BY <1>1, <1>2, <1>3, <1>4

\* Passing an object through the gate decides it.
LEMMA GateDecides ==
  ASSUME GateInv, Enforce
  PROVE  GateInv'
<1> USE DEF Enforce
<1>1. RowStep /\ RowsOK'
  BY RowActionsAreStrict
<1>2. at \in Objects /\ stage = "completeness" /\ stage' = "completeness" /\ at' = at + 1
  OBVIOUS
<1>3. NumObjects \in Nat /\ source \in SourceType /\ source' = source
  BY GateAssumption DEF GateInv, ControlOK
<1>6. ControlOK'
  <2>1. at' \in 1..(NumObjects + 1)
    BY <1>2, <1>3 DEF Objects
  <2>2. ObjectBlockers(at) \cup RowBlockers(RowsOf(at)) \in
          SUBSET UNION {{"inventory", "structural"} \X Objects,
                        {"write"} \X Writes, {"row"} \X Slots}
    BY <1>2, BlockersTyped
  <2> QED BY <2>1, <2>2, <1>2, <1>3 DEF GateInv, ControlOK
<1>7. Fresh' /\ Unwritten' /\ Reported'
  BY <1>2 DEF Fresh, Unwritten, Reported
<1>8. ASSUME NEW o \in Objects, o # at
      PROVE  /\ ObjectBlockers(o)' = ObjectBlockers(o)
             /\ RowBlockers(RowsOf(o))' = RowBlockers(RowsOf(o))
             /\ \A s \in Slots : s[1] = o => rows'[s] = rows[s]
  <2>1. \A s \in Slots : s[1] = o => rows'[s] = rows[s]
    BY <1>8 DEF RowsOf
  <2> QED BY <2>1, <1>3, BlockersAreLocal
<1>9. GateVerdicts'
  <2>1. ASSUME NEW o \in Objects, o < at
        PROVE  Passed(o)'
    <3>1. Passed(o) /\ o # at
      BY <2>1, <1>2 DEF GateInv, GateVerdicts, Objects
    <3> QED BY <3>1, <1>8 DEF Passed
  <2>2. ASSUME NEW o \in Objects, o = at
        PROVE  Passed(o)'
    <3>1. CASE ObjectBlockers(o) = {}
      <4>1. \A s \in Slots : s[1] = o => rows'[s] = rows[s]
        BY <2>2, <3>1
      <4>2. ObjectBlockers(o)' = {}
        BY <4>1, <3>1, <1>3, BlockersAreLocal
      <4> QED BY <4>2 DEF Passed
    <3>2. CASE ObjectBlockers(o) # {}
      <4>1. ASSUME NEW s \in Slots, s[1] = o, rows[s] # NoRow
            PROVE  rows'[s].status = "PENDING_REVIEW"
        <5>1. rows'[s] = Gated(rows[s])
          BY <2>2, <3>2, <4>1 DEF RowsOf, Present
        <5>2. RowOK(rows[s])
          BY <4>1 DEF GateInv, RowsOK
        <5> QED BY <5>1, <5>2 DEF Gated, RowOK, RowType
      <4>2. \A s \in Slots : s[1] = o /\ rows[s] = NoRow => rows'[s] = NoRow
        BY <2>2 DEF RowsOf, Present
      <4> QED BY <4>1, <4>2 DEF Passed
    <3> QED BY <3>1, <3>2
  <2>3. \A o \in Objects : o < at' => o < at \/ o = at
    BY <1>2 DEF Objects
  <2> QED BY <2>1, <2>2, <2>3, <1>2 DEF GateVerdicts
<1>10. EvidenceKept'
  <2>1. ASSUME NEW o \in Objects, o # at
        PROVE  Kept(o)'
    BY <2>1, <1>8 DEF GateInv, ControlOK, EvidenceKept, Kept
  <2>2. ASSUME NEW o \in Objects, o = at
        PROVE  Kept(o)'
    <3>1. evidence'[o].blockers = ObjectBlockers(o) \cup RowBlockers(RowsOf(o))
      BY <2>2 DEF GateInv, ControlOK
    <3>2. /\ ObjectBlockers(o) \subseteq ObjectBlockers(o)'
          /\ RowBlockers(RowsOf(o)) \subseteq RowBlockers(RowsOf(o))'
      BY <1>1, <1>3, BlockersStay
    <3> QED BY <3>1, <3>2 DEF Kept
  <2> QED BY <2>1, <2>2 DEF EvidenceKept
<1> QED BY <1>1, <1>6, <1>7, <1>9, <1>10 DEF GateInv

\* The QA report says everything the ledgers and the rows say.
LEMMA ReportSays ==
  ASSUME GateInv, Report
  PROVE  Reported'
<1>1. ASSUME NEW o \in Objects
      PROVE  ObjectBlockers(o)' \cup RowBlockers(RowsOf(o))' \subseteq qa'
  <2>1. /\ ObjectBlockers(o)' = ObjectBlockers(o)
        /\ RowBlockers(RowsOf(o))' = RowBlockers(RowsOf(o))
    BY Unedited DEF Report
  <2>2. RowBlockers(RowsOf(o)) \subseteq RowBlockers(Present)
    BY DEF RowBlockers, RowsOf
  <2> QED BY <2>1, <2>2 DEF Report
<1> QED BY <1>1 DEF Reported

\* Every step of the pipeline keeps the invariant.
LEMMA NextGate ==
  ASSUME GateInv, [Next]_vars
  PROVE  GateInv'
<1>0. NumObjects \in Nat
  BY GateAssumption
<1>1. CASE Generate
  <2>1. RowsOK'
    <3>1. ASSUME NEW s \in Slots
          PROVE  rows'[s] = NoRow \/ RowOK(rows'[s])
      <4>1. s[1] \in Objects /\ s[2] \in Columns
        BY DEF Slots
      <4>2. rows'[s] \in {NoRow} \cup Candidates(s[1], s[2])
        BY <1>1 DEF Generate
      <4> QED BY <4>1, <4>2, CandidatesOK
    <3>2. rows' = [s \in Slots |-> rows'[s]]
      BY <1>1 DEF Generate
    <3> QED BY <3>1, <3>2 DEF RowsOK, RowOK
  <2>2. ControlOK' /\ Fresh' /\ Reported' /\ GateVerdicts' /\ Unwritten'
    BY <1>1 DEF Generate, GateInv, ControlOK, Fresh, Reported, GateVerdicts, Unwritten
  <2>3. EvidenceKept'
    BY <1>1 DEF Generate, GateInv, Unwritten, EvidenceKept, Kept
  <2> QED BY <2>1, <2>2, <2>3 DEF GateInv
<1>2. CASE SkipGeneration
  <2> USE <1>2 DEF SkipGeneration
  <2>1. RowsOK' /\ ControlOK' /\ Fresh' /\ Reported' /\ Unwritten'
    BY DEF GateInv, RowsOK, ControlOK, Fresh, Reported, Unwritten
  <2>2. GateVerdicts'
    BY DEF GateInv, Fresh, GateVerdicts, Passed
  <2>3. EvidenceKept'
    BY Unedited DEF GateInv, EvidenceKept, Kept
  <2> QED BY <2>1, <2>2, <2>3 DEF GateInv
<1>3. CASE CheckRows
  <2>1. ControlOK'
    BY <1>3 DEF CheckRows, GateInv, ControlOK
  <2> QED BY <1>3, <2>1, RowActionsAreStrict, EarlyStep DEF CheckRows
<1>4. CASE FlagDuplicates
  <2>1. ControlOK'
    BY <1>4, <1>0 DEF FlagDuplicates, GateInv, ControlOK
  <2> QED BY <1>4, <2>1, RowActionsAreStrict, EarlyStep DEF FlagDuplicates
<1>5. CASE FlagWrites
  <2>a. at \in 1..NumObjects /\ at' = at + 1
    BY <1>5 DEF FlagWrites, Objects
  <2>0. at' \in 1..(NumObjects + 1)
    BY <2>a, <1>0
  <2>1. ControlOK'
    BY <1>5, <2>0 DEF FlagWrites, GateInv, ControlOK
  <2> QED BY <1>5, <2>1, RowActionsAreStrict, EarlyStep DEF FlagWrites
<1>6. CASE WritesFlagged
  <2> USE <1>6 DEF WritesFlagged
  <2>1. RowsOK' /\ ControlOK' /\ Fresh' /\ Reported' /\ Unwritten'
    BY <1>0 DEF GateInv, RowsOK, ControlOK, Fresh, Reported, Unwritten
  <2>2. GateVerdicts'
    BY <1>0 DEF GateVerdicts, Objects
  <2>3. EvidenceKept'
    BY Unedited DEF GateInv, EvidenceKept, Kept
  <2> QED BY <2>1, <2>2, <2>3 DEF GateInv
<1>7. CASE Enforce
  BY <1>7, GateDecides
<1>8. CASE Enforced
  <2> USE <1>8 DEF Enforced
  <2>1. RowsOK' /\ ControlOK' /\ Fresh' /\ Reported' /\ Unwritten'
    BY DEF GateInv, RowsOK, ControlOK, Fresh, Reported, Unwritten
  <2>2. \A o \in Objects : o < at
    BY <1>0 DEF GateInv, ControlOK, Objects
  <2>3. GateVerdicts'
    BY <2>2, Unedited DEF GateInv, GateVerdicts
  <2>4. EvidenceKept'
    BY Unedited DEF GateInv, EvidenceKept, Kept
  <2> QED BY <2>1, <2>3, <2>4 DEF GateInv
<1>9. CASE Report
  <2> USE <1>9
  <2>1. RowsOK' /\ Fresh' /\ Unwritten'
    BY DEF Report, GateInv, RowsOK, Fresh, Unwritten
  <2>4. ControlOK'
    <3>1. qa' \subseteq UNION {{"inventory", "structural"} \X Objects,
                              {"write"} \X Writes, {"row", "review", "note"} \X Slots}
      BY BlockersTyped DEF Report
    <3>2. exported' \subseteq Slots
      BY DEF Report, Present
    <3> QED BY <3>1, <3>2 DEF Report, GateInv, ControlOK
  <2>2. GateVerdicts'
    BY Unedited DEF Report, GateInv, GateVerdicts
  <2>3. EvidenceKept'
    BY Unedited DEF Report, GateInv, EvidenceKept, Kept
  <2> QED BY <2>1, <2>2, <2>3, <2>4, ReportSays DEF GateInv
<1>10. CASE UNCHANGED vars
  <2> USE <1>10 DEF vars
  <2>1. RowsOK' /\ ControlOK' /\ Fresh' /\ Unwritten'
    BY DEF GateInv, RowsOK, ControlOK, Fresh, Unwritten
  <2>2. GateVerdicts' /\ Reported'
    BY Unedited DEF GateInv, GateVerdicts, Reported
  <2>3. EvidenceKept'
    BY Unedited DEF GateInv, EvidenceKept, Kept
  <2> QED BY <2>1, <2>2, <2>3 DEF GateInv
<1> QED BY <1>1, <1>2, <1>3, <1>4, <1>5, <1>6, <1>7, <1>8, <1>9, <1>10 DEF Next

-----------------------------------------------------------------------------
(* The theorems. *)

\* For any number of objects, columns, statements and dates.
THEOREM GateInvariant == Spec => []GateInv
<1>1. Init => GateInv
  BY InitGate
<1>2. GateInv /\ [Next]_vars => GateInv'
  BY NextGate
<1> QED BY <1>1, <1>2, PTL DEF Spec

\* Rows, verdicts and reports keep their types.
THEOREM GateTypes == Spec => []TypeOK
<1>1. GateInv => TypeOK
  BY DEF GateInv, ControlOK, RowsOK, TypeOK
<1> QED BY <1>1, GateInvariant, PTL

\* ACTIVE means that the whole procedure is accounted for.  A covered statement
\* has a valid row for each column, and a valid row past the gate is ACTIVE.
THEOREM GateActive == Spec => []ActiveNeedsWholeObject
<1>1. ASSUME GateInv
      PROVE  ActiveNeedsWholeObject
  <2> SUFFICES ASSUME stage \in {"report", "done"},
                      NEW s \in Present, rows[s].status = "ACTIVE"
               PROVE  /\ s[1] \notin source.structural \cup source.inventory
                      /\ \A w \in WritesOf(s[1]) : source.kind[w] # "status" =>
                           /\ source.columns[w] # {}
                           /\ \A c \in source.columns[w] :
                                LET r == rows[<<s[1], c>>]
                                IN  /\ r # NoRow
                                    /\ r.status = "ACTIVE" /\ r.errors = {}
                                    /\ w \in r.sources
    BY DEF ActiveNeedsWholeObject
  <2>1. s \in Slots /\ s[1] \in Objects /\ rows[s] # NoRow
    BY DEF Present, Slots
  <2>2. ObjectBlockers(s[1]) = {}
    BY <1>1, <2>1 DEF GateInv, GateVerdicts, Passed
  <2>3. s[1] \notin source.structural \cup source.inventory
    BY <2>2 DEF ObjectBlockers, StructuralBlockers, LedgerBlockers
  <2>4. ASSUME NEW w \in WritesOf(s[1]), source.kind[w] # "status"
        PROVE  Covered(w)
    BY <2>2, <2>4 DEF ObjectBlockers, LedgerBlockers
  <2>5. ASSUME NEW w \in WritesOf(s[1]), source.kind[w] # "status",
               NEW c \in source.columns[w]
        PROVE  /\ rows[<<s[1], c>>] # NoRow
               /\ rows[<<s[1], c>>].status = "ACTIVE"
               /\ rows[<<s[1], c>>].errors = {}
               /\ w \in rows[<<s[1], c>>].sources
    <3>1. w \in Writes /\ source.owner[w] = s[1]
      BY DEF WritesOf
    <3>2. Vouches(rows[<<s[1], c>>]) /\ w \in rows[<<s[1], c>>].sources
      BY <2>4, <2>5, <3>1 DEF Covered
    <3>3. <<s[1], c>> \in Slots
      BY <1>1, <3>1, SlotsOfWrites DEF GateInv, ControlOK
    <3>4. RowOK(rows[<<s[1], c>>])
      BY <1>1, <3>2, <3>3 DEF GateInv, RowsOK, Vouches
    <3> QED BY <3>2, <3>4 DEF Vouches, RowOK
  <2>6. \A w \in WritesOf(s[1]) : source.kind[w] # "status" => source.columns[w] # {}
    BY <2>4 DEF Covered
  <2> QED BY <2>3, <2>5, <2>6
<1> QED BY <1>1, GateInvariant, PTL

\* The QA report repeats every blocker of completeness.json, although the
\* ledger behind it is computed from other rows.
THEOREM GateBlockers == Spec => []BlockersReachReport
<1>1. GateInv => BlockersReachReport
  BY DEF GateInv, EvidenceKept, Kept, Reported, BlockersReachReport
<1> QED BY <1>1, GateInvariant, PTL

\* No guardrail takes back an error or a demotion, and a row that is withheld
\* has lost its formula for good.
THEOREM GateVerdictsStand == Spec => VerdictsStand
<1> DEFINE Stands == \A s \in Present :
         /\ rows[s].errors \subseteq rows'[s].errors
         /\ rows[s].status = "PENDING_REVIEW" => rows'[s].status = "PENDING_REVIEW"
         /\ rows'[s].review = "UNSUPPORTED" => rows'[s].formula = ""
         /\ rows[s].review = "UNSUPPORTED" => rows'[s].review = "UNSUPPORTED"
<1>1. ASSUME GateInv, [Next]_vars
      PROVE  [Stands]_rows
  <2>1. CASE CheckRows \/ FlagDuplicates \/ FlagWrites \/ Enforce
    BY <1>1, <2>1, RowActionsAreStrict DEF RowStep, SlotStep, Stricter, RowOK, Present
  <2>2. CASE Generate
    BY <1>1, <2>2 DEF Generate, GateInv, Fresh, Present
  <2>3. CASE SkipGeneration \/ WritesFlagged \/ Enforced \/ Report \/ UNCHANGED vars
    BY <2>3 DEF SkipGeneration, WritesFlagged, Enforced, Report, vars
  <2> QED BY <1>1, <2>1, <2>2, <2>3 DEF Next
<1> QED BY <1>1, GateInvariant, PTL DEF Spec, VerdictsStand

-----------------------------------------------------------------------------
(* What the reports say. *)

\* Neither ledger nor rows hold anything against object o.
Clear(o) == ObjectBlockers(o) \cup RowBlockers(RowsOf(o)) = {}

\* The gate records an object as ready before it edits its rows; what it
\* recorded is true of the rows that it leaves.
Judged ==
    /\ stage = "completeness" =>
         \A o \in Objects : o < at => (evidence[o].ready <=> Clear(o))
    /\ stage \in {"report", "done"} /\ source.generates =>
         \A o \in Objects : evidence[o].ready <=> Clear(o)

\* The report is made from the rows as they stay.
Final == stage = "done" =>
    /\ qa = (UNION {ObjectBlockers(o) : o \in Objects})
              \cup RowBlockers(Present) \cup ReviewBlockers \cup NoteBlockers
    /\ exported = {s \in Present : Exportable(s)}

LEMMA InitJudged == Init => Judged /\ Final
BY DEF Init, Judged, Final

\* What the gate records of an object stays true of it: an object without
\* blockers keeps its rows, and blockers stay.
LEMMA GateJudges ==
  ASSUME GateInv, Judged, Enforce
  PROVE  Judged'
<1> USE DEF Enforce
<1>1. at \in 1..NumObjects /\ stage = "completeness" /\ stage' = "completeness"
      /\ at' = at + 1 /\ source' = source
  BY DEF Objects
<1>2. NumObjects \in Nat /\ source \in SourceType
  BY GateAssumption DEF GateInv, ControlOK
<1>3. RowStep
  BY RowActionsAreStrict
<1>4. ASSUME NEW o \in Objects, o # at, evidence[o].ready <=> Clear(o)
      PROVE  evidence'[o].ready <=> Clear(o)'
  <2>1. \A s \in Slots : s[1] = o => rows'[s] = rows[s]
    BY <1>4 DEF RowsOf
  <2>2. Clear(o)' <=> Clear(o)
    BY <2>1, <1>1, BlockersAreLocal DEF Clear
  <2>3. evidence'[o] = evidence[o]
    BY <1>4 DEF GateInv, ControlOK
  <2> QED BY <2>2, <2>3, <1>4
<1>5. ASSUME NEW o \in Objects, o = at
      PROVE  evidence'[o].ready <=> Clear(o)'
  <2>1. evidence'[o].ready <=> /\ ObjectBlockers(o) = {}
                               /\ \A s \in RowsOf(o) : rows[s].errors = {}
    BY <1>5 DEF GateInv, ControlOK
  <2>2. (\A s \in RowsOf(o) : rows[s].errors = {}) <=> RowBlockers(RowsOf(o)) = {}
    BY DEF RowBlockers
  <2>3. evidence'[o].ready <=> Clear(o)
    BY <2>1, <2>2 DEF Clear
  <2>4. CASE Clear(o)
    <3>1. \A s \in Slots : s[1] = o => rows'[s] = rows[s]
      BY <1>5, <2>4 DEF Clear
    <3> QED BY <2>3, <2>4, <3>1, <1>1, BlockersAreLocal DEF Clear
  <2>5. CASE ~Clear(o)
    <3>1. /\ ObjectBlockers(o) \subseteq ObjectBlockers(o)'
          /\ RowBlockers(RowsOf(o)) \subseteq RowBlockers(RowsOf(o))'
      BY <1>1, <1>3, BlockersStay
    <3> QED BY <2>3, <2>5, <3>1 DEF Clear
  <2> QED BY <2>4, <2>5
<1>6. ASSUME NEW o \in Objects, o < at'
      PROVE  evidence'[o].ready <=> Clear(o)'
  <2>1. o = at \/ (o # at /\ o < at)
    BY <1>1, <1>6 DEF Objects
  <2> QED BY <2>1, <1>1, <1>4, <1>5 DEF Judged
<1> QED BY <1>1, <1>6 DEF Judged

LEMMA NextJudged ==
  ASSUME GateInv, Judged, Final, [Next]_vars
  PROVE  Judged' /\ Final'
<1>0. NumObjects \in Nat
  BY GateAssumption
<1>1. CASE Generate \/ CheckRows \/ FlagDuplicates \/ FlagWrites
  BY <1>1 DEF Generate, CheckRows, FlagDuplicates, FlagWrites, Judged, Final
<1>2. CASE SkipGeneration
  BY <1>2 DEF SkipGeneration, Judged, Final
<1>3. CASE WritesFlagged
  BY <1>3, <1>0 DEF WritesFlagged, Judged, Final, Objects
<1>4. CASE Enforce
  <2>1. Final'
    BY <1>4 DEF Enforce, Final
  <2> QED BY <1>4, <2>1, GateJudges
<1>5. ASSUME UNCHANGED <<source, rows, evidence>>
      PROVE  \A o \in Objects : /\ Clear(o)' <=> Clear(o)
                                /\ ObjectBlockers(o)' = ObjectBlockers(o)
                                /\ evidence'[o].ready = evidence[o].ready
  BY <1>5, Unedited DEF Clear
<1>6. CASE Enforced
  <2>1. \A o \in Objects : o < at
    BY <1>0, <1>6 DEF Enforced, GateInv, ControlOK, Objects
  <2> QED BY <1>5, <1>6, <2>1 DEF Enforced, Judged, Final
<1>7. ASSUME UNCHANGED <<source, rows>>
      PROVE  /\ (UNION {ObjectBlockers(o) : o \in Objects})'
                   = UNION {ObjectBlockers(o) : o \in Objects}
             /\ RowBlockers(Present)' = RowBlockers(Present)
             /\ ReviewBlockers' = ReviewBlockers /\ NoteBlockers' = NoteBlockers
             /\ {s \in Present : Exportable(s)}' = {s \in Present : Exportable(s)}
  <2>1. \A o \in Objects : ObjectBlockers(o)' = ObjectBlockers(o)
    BY <1>7, Unedited
  <2>2. Present' = Present
    BY <1>7 DEF Present
  <2> QED BY <1>7, <2>1, <2>2 DEF RowBlockers, ReviewBlockers, NoteBlockers, Exportable
<1>8. CASE Report
  <2>1. Judged'
    BY <1>5, <1>8 DEF Report, Judged
  <2>2. Final'
    BY <1>7, <1>8 DEF Report, Final
  <2> QED BY <2>1, <2>2
<1>9. CASE UNCHANGED vars
  <2>1. Judged'
    BY <1>5, <1>9 DEF vars, Judged
  <2>2. Final'
    BY <1>7, <1>9 DEF vars, Final
  <2> QED BY <2>1, <2>2
<1> QED BY <1>1, <1>2, <1>3, <1>4, <1>6, <1>8, <1>9 DEF Next

LEMMA Judgement == Spec => [](GateInv /\ Judged /\ Final)
BY InitGate, InitJudged, NextGate, NextJudged, PTL DEF Spec

\* What the report says of an object is what can be said of it: the tags keep
\* the kinds of blockers apart.
LEMMA ReportOf ==
  ASSUME GateInv, Final, stage = "done", NEW o \in Objects
  PROVE  /\ <<"structural", o>> \in qa <=> o \in source.structural
         /\ <<"inventory", o>> \in qa <=> o \in source.inventory
         /\ \A w \in WritesOf(o) :
              <<"write", w>> \in qa <=> source.kind[w] # "status" /\ ~Covered(w)
         /\ \A s \in RowsOf(o) : /\ <<"row", s>> \in qa <=> rows[s].errors # {}
                                 /\ <<"review", s>> \in qa <=> rows[s].review # "GENERATED"
<1> DEFINE said == UNION {ObjectBlockers(p) : p \in Objects}
<1>1. qa = said \cup RowBlockers(Present) \cup ReviewBlockers \cup NoteBlockers
  BY DEF Final
<1>2. /\ \A x \in RowBlockers(Present) : x[1] = "row"
      /\ \A x \in ReviewBlockers : x[1] = "review"
      /\ \A x \in NoteBlockers : x[1] = "note"
      /\ \A p \in Objects : \A x \in ObjectBlockers(p) :
           x[1] \in {"structural", "inventory", "write"}
  BY DEF RowBlockers, ReviewBlockers, NoteBlockers, ObjectBlockers, StructuralBlockers,
         LedgerBlockers
<1>3. <<"structural", o>> \in qa <=> o \in source.structural
  <2>1. \A p \in Objects : <<"structural", o>> \in ObjectBlockers(p)
                             <=> p = o /\ o \in source.structural
    BY DEF ObjectBlockers, StructuralBlockers, LedgerBlockers
  <2> QED BY <1>1, <1>2, <2>1
<1>4. <<"inventory", o>> \in qa <=> o \in source.inventory
  <2>1. \A p \in Objects : <<"inventory", o>> \in ObjectBlockers(p)
                             <=> p = o /\ o \in source.inventory
    BY DEF ObjectBlockers, StructuralBlockers, LedgerBlockers
  <2> QED BY <1>1, <1>2, <2>1
<1>5. ASSUME NEW w \in WritesOf(o)
      PROVE  <<"write", w>> \in qa <=> source.kind[w] # "status" /\ ~Covered(w)
  <2>1. \A p \in Objects : <<"write", w>> \in ObjectBlockers(p)
                             <=> w \in WritesOf(p) /\ source.kind[w] # "status" /\ ~Covered(w)
    BY DEF ObjectBlockers, StructuralBlockers, LedgerBlockers
  <2> QED BY <1>1, <1>2, <2>1
<1>6. ASSUME NEW s \in RowsOf(o)
      PROVE  /\ <<"row", s>> \in qa <=> rows[s].errors # {}
             /\ <<"review", s>> \in qa <=> rows[s].review # "GENERATED"
  <2>0. s \in Present
    BY DEF RowsOf
  <2>1. <<"row", s>> \in RowBlockers(Present) <=> rows[s].errors # {}
    BY <2>0 DEF RowBlockers
  <2>2. <<"review", s>> \in ReviewBlockers <=> rows[s].review # "GENERATED"
    BY <2>0 DEF ReviewBlockers
  <2>3. <<"row", s>> \in qa <=> <<"row", s>> \in RowBlockers(Present)
    BY <1>1, <1>2
  <2>4. <<"review", s>> \in qa <=> <<"review", s>> \in ReviewBlockers
    BY <1>1, <1>2
  <2> QED BY <2>1, <2>2, <2>3, <2>4
<1> QED BY <1>3, <1>4, <1>5, <1>6

\* completeness.json calls an object ready exactly if the QA report, computed
\* later from rows the gate has edited, holds nothing but notes against it.
THEOREM GateReadiness == Spec => []ReadinessAgrees
<1>1. ASSUME GateInv, Judged, Final
      PROVE  ReadinessAgrees
  <2> SUFFICES ASSUME stage = "done", source.generates, NEW o \in Objects
               PROVE  evidence[o].ready <=>
          /\ <<"structural", o>> \notin qa /\ <<"inventory", o>> \notin qa
          /\ \A w \in WritesOf(o) : <<"write", w>> \notin qa
          /\ \A s \in RowsOf(o) : <<"row", s>> \notin qa /\ <<"review", s>> \notin qa
    BY DEF ReadinessAgrees
  <2>1. evidence[o].ready <=> Clear(o)
    BY <1>1 DEF Judged
  <2>2. RowBlockers(RowsOf(o)) = {} <=> \A s \in RowsOf(o) : rows[s].errors = {}
    BY DEF RowBlockers
  <2>3. ObjectBlockers(o) = {} <=>
          /\ o \notin source.structural /\ o \notin source.inventory
          /\ \A w \in WritesOf(o) : source.kind[w] = "status" \/ Covered(w)
    BY DEF ObjectBlockers, StructuralBlockers, LedgerBlockers
  <2>4. \A s \in RowsOf(o) : rows[s].errors = {} => rows[s].review = "GENERATED"
    BY <1>1 DEF GateInv, RowsOK, RowOK, RowsOf, Present
  <2> QED BY <1>1, <2>1, <2>2, <2>3, <2>4, ReportOf DEF Clear
<1> QED BY <1>1, Judgement, PTL

\* A per-row write that the QA report does not name has, for each column, a row
\* folded from it that is exported or a bare constant.
THEOREM GateSurfaces == Spec => []EveryWriteSurfaces
<1>1. ASSUME GateInv, Final
      PROVE  EveryWriteSurfaces
  <2> SUFFICES ASSUME stage = "done", NEW w \in Writes, source.kind[w] = "formula",
                      <<"write", w>> \notin qa, NEW c \in source.columns[w]
               PROVE  LET s == <<source.owner[w], c>>
                      IN  /\ rows[s] # NoRow
                          /\ w \in rows[s].sources
                          /\ s \in exported \/ rows[s].formula = "constant"
    BY DEF EveryWriteSurfaces
  <2> DEFINE s == <<source.owner[w], c>>
  <2>1. source \in SourceType
    BY <1>1 DEF GateInv, ControlOK
  <2>2. source.owner[w] \in Objects /\ w \in WritesOf(source.owner[w])
    BY <2>1 DEF SourceType, WritesOf
  <2>3. Covered(w)
    BY <1>1, <2>2, ReportOf
  <2>4. Vouches(rows[s]) /\ w \in rows[s].sources
    BY <2>3 DEF Covered
  <2>5. s \in Slots
    BY <2>1, SlotsOfWrites
  <2>6. s \in Present /\ RowOK(rows[s])
    BY <1>1, <2>4, <2>5 DEF Vouches, Present, GateInv, RowsOK
  <2>7. rows[s].formula \in {"constant", "formula"} /\ rows[s].review = "GENERATED"
    BY <2>4, <2>6 DEF Vouches, RowOK, RowType, Formulas
  <2>8. rows[s].formula = "formula" => s \in exported
    BY <1>1, <2>6, <2>7 DEF Final, Exportable
  <2> QED BY <2>4, <2>7, <2>8 DEF Vouches
<1> QED BY <1>1, Judgement, PTL
=============================================================================
