---------------------------- MODULE DDMergeProofs ----------------------------
(***************************************************************************)
(* What merging keeps for any columns, contents and dates, and any order   *)
(* of the dates, in the calendar and as text.                              *)
(*                                                                         *)
(* Only RerunIsIdle and DictionaryAsPromised need that a least date exists *)
(* (DedupeCovers); the others follow from a dictionary being a subset of   *)
(* what was merged.                                                        *)
(***************************************************************************)
EXTENDS DDMerge, WellFoundedInduction, TLAPS

\* A job is a set of DD rows.
LEMMA JobsAreRows == Jobs \subseteq SUBSET JobRow
  BY DEF Jobs

LEMMA PresentableRows ==
  ASSUME NEW rows \in SUBSET JobRow
  PROVE  Presentable(rows) \subseteq RowType
  BY DEF Presentable, JobRow

LEMMA KeyTypes ==
  ASSUME NEW r \in RowType
  PROVE  Key(r) \in Columns \X Days
  BY DEF Key, RowType

LEMMA ContestedTypes ==
  ASSUME NEW rows \in SUBSET JobRow
  PROVE  Contested(rows) \subseteq Columns \X Days
  BY PresentableRows, KeyTypes DEF Contested

\* Dedupe and Merge invent no row.
LEMMA DedupeShrinks ==
  ASSUME NEW S
  PROVE  Dedupe(S) \subseteq S
  BY DEF Dedupe

LEMMA ExportedRows ==
  ASSUME NEW existing, NEW rows, NEW r \in Exported(existing, rows)
  PROVE  \/ r \in Presentable(rows)
         \/ /\ r \in existing
            /\ Key(r) \notin KeysOf(Presentable(rows))
            /\ Key(r) \notin WithheldKeys(rows)
  BY DEF Exported, Merge, Dedupe

\* Only rows can be redated.
LEMMA RedatableRows ==
  ASSUME NEW S
  PROVE  Redatable(S) \subseteq S
  BY DEF Redatable

LEMMA KeptRows ==
  ASSUME NEW S, NEW rows
  PROVE  Kept(S, rows) \subseteq S
  BY DEF Kept

-----------------------------------------------------------------------------

\* Rows, job and conflicts keep their types.
THEOREM MergeTypes == Spec => []TypeOK
<1>1. Init => TypeOK
  BY DEF Init, TypeOK
<1>2. TypeOK /\ [Next]_vars => TypeOK'
  <2> SUFFICES ASSUME TypeOK, [Next]_vars PROVE TypeOK'
    OBVIOUS
  <2>1. CASE UNCHANGED vars
    BY <2>1 DEF TypeOK, vars
  <2>2. ASSUME NEW rows \in Jobs, ExportAlone(rows) PROVE TypeOK'
    <3>1. /\ dictionary' \subseteq RowType
          /\ job' \subseteq JobRow
          /\ conflicts' \subseteq Columns \X Days
      BY <2>2, JobsAreRows, PresentableRows, ContestedTypes, DedupeShrinks
         DEF ExportAlone
    <3>2. promised' \subseteq RowType /\ redated' \subseteq promised'
      BY <2>2, JobsAreRows, PresentableRows, RedatableRows DEF ExportAlone
    <3> QED
      BY <3>1, <3>2 DEF TypeOK
  <2>3. ASSUME NEW rows \in Jobs, ExportInto(rows) PROVE TypeOK'
    <3>1. rows \in SUBSET JobRow
      BY JobsAreRows
    <3>2. dictionary' \subseteq RowType
      BY <2>3, <3>1, ExportedRows, PresentableRows DEF ExportInto, TypeOK
    <3>3. conflicts' \subseteq Columns \X Days
      BY <2>3, <3>1, ContestedTypes DEF ExportInto, TypeOK
    <3>4. Kept(promised, rows) \subseteq RowType
      BY KeptRows DEF TypeOK
    <3>5. Kept(redated, rows) \subseteq Kept(promised, rows)
      BY DEF TypeOK, Kept
    <3>6. promised' \subseteq RowType /\ redated' \subseteq promised'
      BY <2>3, <3>1, <3>4, <3>5, PresentableRows, RedatableRows DEF ExportInto
    <3> QED
      BY <2>3, <3>1, <3>2, <3>3, <3>6 DEF ExportInto, TypeOK
  <2> QED
    BY <2>1, <2>2, <2>3 DEF Next
<1> QED
  BY <1>1, <1>2, PTL DEF Spec

\* No formula that the last job withheld is in the dictionary, unless the job
\* presents a row for its key: every run decides it anew.
THEOREM MergeWithholds == Spec => []WithheldStaysOut
<1>1. Init => WithheldStaysOut
  BY DEF Init, WithheldStaysOut, KeysOf
<1>2. WithheldStaysOut /\ [Next]_vars => WithheldStaysOut'
  <2> SUFFICES ASSUME WithheldStaysOut, [Next]_vars PROVE WithheldStaysOut'
    OBVIOUS
  <2>1. CASE UNCHANGED vars
    BY <2>1 DEF WithheldStaysOut, vars
  <2>2. ASSUME NEW rows \in Jobs, ExportAlone(rows) PROVE WithheldStaysOut'
    <3>1. dictionary' \subseteq Presentable(rows)
      BY <2>2, DedupeShrinks DEF ExportAlone
    <3>2. KeysOf(dictionary') \subseteq KeysOf(Presentable(rows))
      BY <3>1 DEF KeysOf
    <3> QED
      BY <2>2, <3>2 DEF ExportAlone, WithheldStaysOut
  <2>3. ASSUME NEW rows \in Jobs, ExportInto(rows) PROVE WithheldStaysOut'
    <3>1. dictionary' = Exported(dictionary, rows) /\ job' = rows
      BY <2>3 DEF ExportInto
    <3>2. ASSUME NEW k \in WithheldKeys(rows), k \in KeysOf(dictionary')
          PROVE  k \in KeysOf(Presentable(rows))
      <4>1. PICK r \in dictionary' : k = Key(r)
        BY <3>2 DEF KeysOf
      <4>2. r \in Presentable(rows)
        BY <3>1, <3>2, <4>1, ExportedRows
      <4> QED
        BY <4>1, <4>2 DEF KeysOf
    <3> QED
      BY <3>1, <3>2 DEF WithheldStaysOut
  <2> QED
    BY <2>1, <2>2, <2>3 DEF Next
<1> QED
  BY <1>1, <1>2, PTL DEF Spec

\* Two rows of one job with one key are the same row or contested.
LEMMA PresentedOnce ==
  ASSUME NEW rows \in SUBSET JobRow,
         NEW r \in Presentable(rows), NEW t \in Presentable(rows),
         Key(r) = Key(t), r # t
  PROVE  Key(r) \in Contested(rows)
<1>1. r \in RowType /\ t \in RowType
  BY PresentableRows
<1>2. r.content # t.content
  BY <1>1 DEF Key, RowType
<1> QED
  BY <1>2 DEF Contested

\* A key has two rows in the dictionary only if one run presented both.
THEOREM MergeKeys == Spec => []OneRowPerKey
<1>1. Init => OneRowPerKey
  BY DEF Init, OneRowPerKey
<1>2. OneRowPerKey /\ [Next]_vars => OneRowPerKey'
  <2> SUFFICES ASSUME OneRowPerKey, [Next]_vars PROVE OneRowPerKey'
    OBVIOUS
  <2>1. CASE UNCHANGED vars
    BY <2>1 DEF OneRowPerKey, vars
  <2>2. ASSUME NEW rows \in Jobs, ExportAlone(rows) PROVE OneRowPerKey'
    BY <2>2, JobsAreRows, PresentedOnce, DedupeShrinks DEF ExportAlone, OneRowPerKey
  <2>3. ASSUME NEW rows \in Jobs, ExportInto(rows) PROVE OneRowPerKey'
    <3>1. dictionary' = Exported(dictionary, rows)
          /\ conflicts' = conflicts \cup Contested(rows)
      BY <2>3 DEF ExportInto
    <3>2. ASSUME NEW r \in dictionary', NEW t \in dictionary',
                 Key(r) = Key(t), r # t
          PROVE  Key(r) \in conflicts'
      <4>1. CASE r \in Presentable(rows)
        <5>1. Key(t) \in KeysOf(Presentable(rows))
          BY <3>2, <4>1 DEF KeysOf
        <5>2. t \in Presentable(rows)
          BY <3>1, <5>1, ExportedRows
        <5> QED
          BY <3>1, <3>2, <4>1, <5>2, JobsAreRows, PresentedOnce
      <4>2. CASE r \notin Presentable(rows)
        <5>1. r \in dictionary /\ Key(r) \notin KeysOf(Presentable(rows))
          BY <3>1, <4>2, ExportedRows
        <5>2. t \notin Presentable(rows)
          BY <3>2, <5>1 DEF KeysOf
        <5>3. t \in dictionary
          BY <3>1, <5>2, ExportedRows
        <5> QED
          BY <3>1, <3>2, <5>1, <5>3 DEF OneRowPerKey
      <4> QED
        BY <4>1, <4>2
    <3> QED
      BY <3>2 DEF OneRowPerKey
  <2> QED
    BY <2>1, <2>2, <2>3 DEF Next
<1> QED
  BY <1>1, <1>2, PTL DEF Spec

-----------------------------------------------------------------------------

\* A set of natural numbers that is not empty has a least one.
LEMMA LeastNumber ==
  ASSUME NEW T \in SUBSET Nat, T # {}
  PROVE  \E n \in T : \A m \in T : n <= m
<1>1. \E n \in T : \A m \in T : ~ (<<m, n>> \in OpToRel(<, Nat))
  BY NatLessThanWellFounded, WFMin
<1>2. PICK n \in T : \A m \in T : ~ (<<m, n>> \in OpToRel(<, Nat))
  BY <1>1
<1>3. ASSUME NEW m \in T PROVE n <= m
  <2>1. ~ (m < n)
    BY <1>2 DEF OpToRel
  <2> QED
    BY <2>1
<1> QED
  BY <1>3

\* Of every row something is left: itself, or the same under a smaller date.
LEMMA DedupeCovers ==
  ASSUME NEW S \in SUBSET RowType, NEW r \in S
  PROVE  \E t \in Dedupe(S) : SameButDate(r, t) /\ Text[t.day] <= Text[r.day]
<1> DEFINE Same == {t \in S : SameButDate(r, t)}
           Dates == {Text[t.day] : t \in Same}
<1>1. \A t \in S : Text[t.day] \in Nat
  BY MergeAssumption DEF RowType
<1>2. r \in Same
  BY DEF SameButDate
<1>3. Dates \in SUBSET Nat /\ Dates # {}
  BY <1>1, <1>2
<1>4. PICK n \in Dates : \A m \in Dates : n <= m
  BY <1>3, LeastNumber
<1>5. PICK t \in Same : n = Text[t.day]
  BY <1>4
<1>6. \A u \in S : SameButDate(t, u) => u \in Same
  BY <1>5 DEF SameButDate
<1>7. \A u \in S : SameButDate(t, u) => Text[t.day] <= Text[u.day]
  BY <1>4, <1>5, <1>6
<1>8. t \in Dedupe(S)
  BY <1>5, <1>7 DEF Dedupe
<1> QED
  BY <1>2, <1>4, <1>5, <1>8

\* What stands between the rows of a set and what Dedupe leaves of them does
\* not change the outcome.
LEMMA DedupeBetween ==
  ASSUME NEW U \in SUBSET RowType, NEW V \in SUBSET U, Dedupe(U) \subseteq V
  PROVE  Dedupe(V) = Dedupe(U)
<1>1. \A r \in RowType : Text[r.day] \in Nat
  BY MergeAssumption DEF RowType
<1>2. Dedupe(U) \subseteq Dedupe(V)
  BY DEF Dedupe
<1>3. ASSUME NEW r \in Dedupe(V) PROVE r \in Dedupe(U)
  <2>1. r \in V /\ \A t \in V : SameButDate(r, t) => Text[r.day] <= Text[t.day]
    BY <1>3 DEF Dedupe
  <2>2. ASSUME NEW u \in U, SameButDate(r, u) PROVE Text[r.day] <= Text[u.day]
    <3>1. PICK t \in Dedupe(U) : SameButDate(u, t) /\ Text[t.day] <= Text[u.day]
      BY DedupeCovers
    <3>2. SameButDate(r, t)
      BY <2>2, <3>1 DEF SameButDate
    <3>3. t \in V /\ Text[r.day] <= Text[t.day]
      BY <2>1, <3>1, <3>2
    <3>4. r \in RowType /\ u \in RowType /\ t \in RowType
      BY <2>1, <3>3
    <3> QED
      BY <1>1, <3>1, <3>3, <3>4
  <2> QED
    BY <2>1, <2>2 DEF Dedupe
<1> QED
  BY <1>2, <1>3

\* The rows that Exported makes distinct.
United(existing, rows) == Kept(existing, rows) \cup Presentable(rows)

LEMMA ExportedUnited ==
  ASSUME NEW existing, NEW rows
  PROVE  Exported(existing, rows) = Dedupe(United(existing, rows))
<1>1. {r \in {q \in existing : Key(q) \notin WithheldKeys(rows)} :
         Key(r) \notin KeysOf(Presentable(rows))} \cup Presentable(rows)
      = United(existing, rows)
  BY DEF United, Kept
<1> QED
  BY <1>1 DEF Exported, Merge

\* Exporting a job into its own output gives that output.
LEMMA ExportTwice ==
  ASSUME NEW existing \in SUBSET RowType, NEW rows \in SUBSET JobRow
  PROVE  Exported(Exported(existing, rows), rows) = Exported(existing, rows)
<1> DEFINE U == United(existing, rows)
           D == Exported(existing, rows)
           V == United(D, rows)
<1>1. D = Dedupe(U)
  BY ExportedUnited
<1>2. U \in SUBSET RowType
  BY PresentableRows, KeptRows DEF United
<1>3. D \subseteq V
  BY <1>1, ExportedRows DEF United, Kept
<1>4. V \in SUBSET U
  BY <1>1, DedupeShrinks DEF United, Kept
<1>5. Dedupe(V) = Dedupe(U)
  <2> HIDE DEF U, V, D
  <2> QED
    BY <1>1, <1>2, <1>3, <1>4, DedupeBetween
<1> QED
  BY <1>1, <1>5, ExportedUnited

\* A fresh export is an export into an empty dictionary.
LEMMA AloneIsIntoNothing ==
  ASSUME NEW rows
  PROVE  Exported({}, rows) = Dedupe(Presentable(rows))
<1>1. United({}, rows) = Presentable(rows)
  BY DEF United, Kept
<1> QED
  BY <1>1, ExportedUnited

-----------------------------------------------------------------------------

\* The dictionary is the export of its last job into some rows.
IsExport == /\ TypeOK
            /\ \E existing \in SUBSET RowType : dictionary = Exported(existing, job)

LEMMA InitIsExport == Init => IsExport
<1> SUFFICES ASSUME Init PROVE IsExport
  OBVIOUS
<1>1. dictionary = {} /\ job = {} /\ TypeOK
  BY DEF Init, TypeOK
<1>2. Presentable({}) = {}
  BY DEF Presentable
<1>3. Exported({}, {}) = {}
  BY <1>2, AloneIsIntoNothing DEF Dedupe
<1> QED
  BY <1>1, <1>3 DEF IsExport

LEMMA StepIsExport == IsExport /\ TypeOK' /\ [Next]_vars => IsExport'
<1> SUFFICES ASSUME IsExport, TypeOK', [Next]_vars PROVE IsExport'
  OBVIOUS
<1>1. CASE UNCHANGED vars
  BY <1>1 DEF IsExport, vars
<1>2. ASSUME NEW rows \in Jobs, ExportAlone(rows) PROVE IsExport'
  <2>1. dictionary' = Exported({}, job')
    BY <1>2, AloneIsIntoNothing DEF ExportAlone
  <2> QED
    BY <2>1 DEF IsExport
<1>3. ASSUME NEW rows \in Jobs, ExportInto(rows) PROVE IsExport'
  <2>1. dictionary' = Exported(dictionary, job') /\ dictionary \in SUBSET RowType
    BY <1>3 DEF ExportInto, IsExport, TypeOK
  <2> QED
    BY <2>1 DEF IsExport
<1> QED
  BY <1>1, <1>2, <1>3 DEF Next

\* The dictionary is always an export of the last job.
THEOREM MergeInvariant == Spec => []IsExport
  BY InitIsExport, StepIsExport, MergeTypes, PTL DEF Spec

\* A run that repeats the last job on its own output changes nothing.
THEOREM MergeIdempotent == Spec => []RerunIsIdle
<1>1. IsExport => RerunIsIdle
  BY ExportTwice DEF IsExport, TypeOK, RerunIsIdle
<1> QED
  BY <1>1, MergeInvariant, PTL

\* Of each row the last job presents something is there, under a date that is
\* not later in both orders.
LEMMA ExportShows ==
  ASSUME IsExport, NEW r \in Presentable(job)
  PROVE  \E t \in dictionary : SameButDate(r, t) /\ ~Precedes(r, t)
<1>1. PICK existing \in SUBSET RowType : dictionary = Exported(existing, job)
  BY DEF IsExport
<1>2. job \in SUBSET JobRow
  BY DEF IsExport, TypeOK
<1>3. United(existing, job) \in SUBSET RowType /\ r \in United(existing, job)
  BY <1>2, PresentableRows, KeptRows DEF United
<1>4. PICK t \in dictionary : SameButDate(r, t) /\ Text[t.day] <= Text[r.day]
  BY <1>1, <1>3, DedupeCovers, ExportedUnited
<1>5. r \in RowType /\ t \in RowType
  BY <1>3, <1>4 DEF IsExport, TypeOK
<1>6. Text[r.day] \in Nat /\ Text[t.day] \in Nat
  BY <1>5, MergeAssumption DEF RowType
<1> QED
  BY <1>4, <1>6 DEF Precedes

\* What an export keeps of promised rows: nothing is in its output that is not
\* promised, and a promised row is missing only if it may be redated.
Promises == dictionary \subseteq promised /\ promised \ redated \subseteq dictionary

\* Rows that nothing can redate stay.
LEMMA FirmRowsStay ==
  ASSUME NEW S \in SUBSET RowType, NEW U \in SUBSET S, NEW r \in U,
         r \notin Redatable(S)
  PROVE  r \in Dedupe(U)
<1>1. ASSUME NEW t \in U, SameButDate(r, t) PROVE Text[r.day] <= Text[t.day]
  <2>1. r \in RowType /\ t \in RowType
    OBVIOUS
  <2>2. Text[r.day] \in Nat /\ Text[t.day] \in Nat
    BY <2>1, MergeAssumption DEF RowType
  <2>3. t = r \/ Precedes(r, t)
    BY <1>1 DEF Redatable
  <2> QED
    BY <2>2, <2>3 DEF Precedes
<1> QED
  BY <1>1 DEF Dedupe

LEMMA StepKeepsPromises == TypeOK /\ TypeOK' /\ Promises /\ [Next]_vars => Promises'
<1> SUFFICES ASSUME TypeOK, TypeOK', Promises, [Next]_vars PROVE Promises'
  OBVIOUS
<1>1. CASE UNCHANGED vars
  BY <1>1 DEF Promises, vars
<1>2. ASSUME NEW rows \in Jobs, ExportAlone(rows) PROVE Promises'
  <2>1. /\ dictionary' = Dedupe(promised')
        /\ redated' = Redatable(promised')
    BY <1>2 DEF ExportAlone
  <2>2. promised' \in SUBSET RowType
    BY DEF TypeOK
  <2> QED
    BY <2>1, <2>2, DedupeShrinks, FirmRowsStay DEF Promises
<1>3. ASSUME NEW rows \in Jobs, ExportInto(rows) PROVE Promises'
  <2> DEFINE U == United(dictionary, rows)
  <2>1. /\ dictionary' = Dedupe(U)
        /\ promised' = Kept(promised, rows) \cup Presentable(rows)
        /\ redated' = Kept(redated, rows) \cup Redatable(promised')
    BY <1>3, ExportedUnited DEF ExportInto
  <2>2. promised' \in SUBSET RowType
    BY DEF TypeOK
  <2>3. U \in SUBSET promised'
    BY <2>1 DEF United, Kept, Promises
  <2>4. dictionary' \subseteq promised'
    BY <2>1, <2>3, DedupeShrinks
  <2>5. ASSUME NEW r \in promised' \ redated' PROVE r \in dictionary'
    <3>1. r \in U
      BY <2>1, <2>5 DEF United, Kept, Promises
    <3>2. r \notin Redatable(promised')
      BY <2>1, <2>5
    <3> HIDE DEF U
    <3> QED
      BY <2>1, <2>2, <2>3, <3>1, <3>2, FirmRowsStay
  <2> QED
    BY <2>4, <2>5 DEF Promises
<1> QED
  BY <1>1, <1>2, <1>3 DEF Next

\* After any runs the dictionary is what they presented, each key as the last
\* run left it, but for rows whose equal has, or seems to have, the earlier
\* date.
THEOREM MergeAsPromised == Spec => []DictionaryAsPromised
<1>1. Init => Promises
  BY DEF Init, Promises
<1>2. Promises /\ IsExport => DictionaryAsPromised
  BY ExportShows DEF Promises, DictionaryAsPromised
<1> QED
  BY <1>1, <1>2, StepKeepsPromises, MergeTypes, MergeInvariant, PTL DEF Spec
=============================================================================
