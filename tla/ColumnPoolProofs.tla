-------------------------- MODULE ColumnPoolProofs --------------------------
(***************************************************************************)
(* Theorems about ColumnPool, for any number of columns and threads.       *)
(***************************************************************************)
EXTENDS ColumnPool, TLAPS

\* What a thread still knows about columns is older than what it works on.
ContextsAreEarlier ==
    \A t \in Workers : \A n, m \in context[t] :
      /\ n[1] = m[1]
      /\ n[1] < next
      /\ worker[t] # 0 => n[1] < worker[t]

\* A future holds the row of its own column.
FuturesAreRight ==
    \A j \in ColumnJobs : finished[j] # NoRow =>
      /\ finished[j].job = j
      /\ Disowned(finished[j]) = Columns!OwnRow(j)

PoolInv ==
    /\ TypeOK
    /\ \A t \in Workers : worker[t] < next
    /\ ContextsAreEarlier
    /\ NotesAreInherited
    /\ FuturesAreRight

-----------------------------------------------------------------------------
(* What the operators of a thread return. *)

LEMMA NotesOfType ==
    ASSUME TypeOK, NEW j \in ColumnJobs, NEW p \in {"main", "handler"}
    PROVE  /\ Columns!NotesOf(j, p) \in SUBSET NoteType
           /\ \A n \in Columns!NotesOf(j, p) : n[1] = j
BY DEF TypeOK, Columns!NotesOf, NoteType

\* What a thread knows after column j, and what the row of j tells, is either
\* what the thread knew before or about j itself.
LEMMA ContextAfterCases ==
    ASSUME TypeOK, NEW j \in ColumnJobs, NEW c
    PROVE  \/ ContextAfter(j, c) = c
           \/ /\ ContextAfter(j, c) \in SUBSET NoteType
              /\ \A n \in ContextAfter(j, c) : n[1] = j
BY NotesOfType DEF ContextAfter

LEMMA DerivedCases ==
    ASSUME TypeOK, NEW j \in ColumnJobs, NEW c
    PROVE  /\ Derived(j, c).job = j
           /\ Derived(j, c).failed \in BOOLEAN
           /\ Derived(j, c) = [job |-> j, failed |-> Derived(j, c).failed,
                               notes |-> Derived(j, c).notes]
           /\ \/ Derived(j, c).notes = c
              \/ /\ Derived(j, c).notes \in SUBSET NoteType
                 /\ \A n \in Derived(j, c).notes : n[1] = j
BY NotesOfType DEF Derived, NotesRead, Columns!FailedRow

LEMMA DerivedType ==
    ASSUME TypeOK, NEW j \in ColumnJobs, NEW c \in SUBSET NoteType
    PROVE  Derived(j, c) \in RowType
<1>1. Derived(j, c).notes \in SUBSET NoteType
  BY DerivedCases
<1> QED
  BY <1>1, DerivedCases DEF RowType

\* Apart from inherited notes, the row of a column does not depend on the
\* context it is derived in.
LEMMA DerivedIsOwn ==
    ASSUME TypeOK, NEW j \in ColumnJobs, NEW c
    PROVE  Disowned(Derived(j, c)) = Columns!OwnRow(j)
<1>1. CASE plan[j].raises = "never"
  <2>1. Derived(j, c) = [job |-> j, failed |-> FALSE, notes |-> NotesRead(j, c)]
    BY <1>1 DEF Derived
  <2>2. Columns!OwnRow(j) =
          [job |-> j, failed |-> FALSE,
           notes |-> IF plan[j].writes = "nothing" THEN {} ELSE Columns!NotesOf(j, "main")]
    BY <1>1 DEF Columns!OwnRow
  <2> QED
    BY <2>1, <2>2 DEF Disowned, NotesRead
<1>2. CASE plan[j].raises # "never"
  BY <1>2 DEF Disowned, Derived, Columns!OwnRow, Columns!FailedRow
<1> QED
  BY <1>1, <1>2

-----------------------------------------------------------------------------
(* The inductive invariant. *)

LEMMA PoolInvInit == Init => PoolInv
<1> SUFFICES ASSUME Init PROVE PoolInv
  OBVIOUS
<1> USE PoolAssumption
<1>1. TypeOK
  BY DEF Init, TypeOK, ColumnJobs
<1>2. \A t \in Workers : worker[t] < next
  BY DEF Init
<1>3. ContextsAreEarlier
  BY DEF Init, ContextsAreEarlier
<1>4. NotesAreInherited
  BY DEF Init, NotesAreInherited, NoRow
<1>5. FuturesAreRight
  BY DEF Init, FuturesAreRight
<1> QED
  BY <1>1, <1>2, <1>3, <1>4, <1>5 DEF PoolInv

LEMMA TakeKeepsInv ==
    ASSUME PoolInv, NEW t \in Workers, Take(t)
    PROVE  PoolInv'
<1> USE PoolAssumption DEF Take, PoolInv
<1>1. TypeOK'
  BY DEF TypeOK, ColumnJobs, Columns!ShapeType
<1>2. \A u \in Workers : worker'[u] < next'
  BY DEF TypeOK, ColumnJobs
<1>3. ContextsAreEarlier'
  <2> SUFFICES ASSUME NEW u \in Workers, NEW n \in context[u], NEW m \in context[u]
               PROVE  /\ n[1] = m[1]
                      /\ n[1] < next'
                      /\ worker'[u] # 0 => n[1] < worker'[u]
    BY DEF ContextsAreEarlier
  <2>1. n[1] \in ColumnJobs /\ n[1] = m[1] /\ n[1] < next
    BY DEF ContextsAreEarlier, TypeOK, NoteType
  <2>2. worker'[u] # 0 => n[1] < worker'[u]
    BY <2>1 DEF ContextsAreEarlier, TypeOK
  <2> QED
    BY <2>1, <2>2 DEF TypeOK, ColumnJobs
<1>4. NotesAreInherited'
  BY DEF NotesAreInherited
<1>5. FuturesAreRight'
  BY DEF FuturesAreRight, Disowned, Columns!OwnRow, Columns!FailedRow, Columns!NotesOf
<1> QED
  BY <1>1, <1>2, <1>3, <1>4, <1>5

LEMMA RunJobKeepsInv ==
    ASSUME PoolInv, NEW t \in Workers, RunJob(t)
    PROVE  PoolInv'
<1> DEFINE j == worker[t]
           c == context[t]
<1>1. /\ j \in ColumnJobs
      /\ c \in SUBSET NoteType
      /\ j < next
      /\ \A n \in c : n[1] < j
      /\ \A n, m \in c : n[1] = m[1]
  BY DEF PoolInv, TypeOK, ColumnJobs, RunJob, ContextsAreEarlier
<1>2. TypeOK
  BY DEF PoolInv
<1>3. /\ finished' = [finished EXCEPT ![j] = Derived(j, c)]
      /\ context' = [context EXCEPT ![t] = ContextAfter(j, c)]
      /\ worker' = [worker EXCEPT ![t] = 0]
      /\ UNCHANGED <<plan, next, results>>
  BY DEF RunJob
<1> HIDE DEF j, c
<1>4. ContextAfter(j, c) \in SUBSET NoteType
  BY <1>1, <1>2, ContextAfterCases
<1>5. Derived(j, c) \in RowType
  BY <1>1, <1>2, DerivedType
<1>6. TypeOK'
  BY <1>1, <1>2, <1>3, <1>4, <1>5, PoolAssumption DEF TypeOK, ColumnJobs
<1>7. \A u \in Workers : worker'[u] < next'
  BY <1>3, <1>2 DEF PoolInv, TypeOK
<1>8. ContextsAreEarlier'
  <2>1. \A n, m \in ContextAfter(j, c) : n[1] = m[1] /\ n[1] < next
    <3>1. CASE ContextAfter(j, c) = c
      <4>1. \A n \in c : n[1] \in ColumnJobs
        BY <1>1 DEF NoteType
      <4> QED
        BY <3>1, <4>1, <1>1, <1>2 DEF ColumnJobs, TypeOK
    <3>2. CASE \A n \in ContextAfter(j, c) : n[1] = j
      BY <3>2, <1>1
    <3> QED
      BY <3>1, <3>2, <1>1, <1>2, ContextAfterCases
  <2> QED
    BY <2>1, <1>2, <1>3 DEF ContextsAreEarlier, PoolInv, TypeOK
<1>9. NotesAreInherited'
  <2>1. \A n, m \in Derived(j, c).notes : n[1] <= j /\ n[1] = m[1]
    <3>1. CASE Derived(j, c).notes = c
      <4>1. \A n \in c : n[1] \in ColumnJobs
        BY <1>1 DEF NoteType
      <4> QED
        BY <3>1, <4>1, <1>1 DEF ColumnJobs
    <3>2. CASE \A n \in Derived(j, c).notes : n[1] = j
      BY <3>2, <1>1 DEF ColumnJobs
    <3> QED
      BY <3>1, <3>2, <1>1, <1>2, DerivedCases
  <2> QED
    BY <2>1, <1>1, <1>2, <1>3 DEF NotesAreInherited, PoolInv, TypeOK
<1>10. FuturesAreRight'
  <2> SUFFICES ASSUME NEW k \in ColumnJobs, finished'[k] # NoRow
               PROVE  (/\ finished[k].job = k
                       /\ Disowned(finished[k]) = Columns!OwnRow(k))'
    BY DEF FuturesAreRight
  <2>1. plan' = plan
    BY <1>3
  <2>2. finished'[k].job = k /\ Disowned(finished'[k]) = Columns!OwnRow(k)
    <3>1. CASE k = j
      BY <3>1, <1>1, <1>2, <1>3, DerivedCases, DerivedIsOwn DEF TypeOK
    <3>2. CASE k # j
      BY <3>2, <1>2, <1>3 DEF TypeOK, PoolInv, FuturesAreRight
    <3> QED
      BY <3>1, <3>2
  <2> QED
    BY <2>1, <2>2 DEF Disowned, Columns!OwnRow, Columns!FailedRow, Columns!NotesOf
<1> QED
  BY <1>6, <1>7, <1>8, <1>9, <1>10 DEF PoolInv

LEMMA CollectKeepsInv ==
    ASSUME PoolInv, Collect
    PROVE  PoolInv'
<1> USE PoolAssumption DEF Collect, PoolInv
<1>1. TypeOK'
  <2>1. finished[Len(results) + 1] \in RowType
    BY DEF TypeOK, ColumnJobs
  <2> QED
    BY <2>1 DEF TypeOK, ColumnJobs
<1>2. (\A t \in Workers : worker[t] < next)'
  OBVIOUS
<1>3. ContextsAreEarlier'
  BY DEF ContextsAreEarlier
<1>4. NotesAreInherited'
  BY DEF NotesAreInherited
<1>5. FuturesAreRight'
  BY DEF FuturesAreRight, Disowned, Columns!OwnRow, Columns!FailedRow, Columns!NotesOf
<1> QED
  BY <1>1, <1>2, <1>3, <1>4, <1>5

LEMMA PoolInvStep == PoolInv /\ [Next]_vars => PoolInv'
<1> SUFFICES ASSUME PoolInv, [Next]_vars PROVE PoolInv'
  OBVIOUS
<1>1. ASSUME NEW t \in Workers, Take(t) PROVE PoolInv'
  BY <1>1, TakeKeepsInv
<1>2. ASSUME NEW t \in Workers, RunJob(t) PROVE PoolInv'
  BY <1>2, RunJobKeepsInv
<1>3. CASE Collect
  BY <1>3, CollectKeepsInv
<1>4. CASE UNCHANGED vars
  <2>1. FuturesAreRight'
    BY <1>4 DEF vars, PoolInv, FuturesAreRight, Disowned, Columns!OwnRow,
                Columns!FailedRow, Columns!NotesOf
  <2> QED
    BY <1>4, <2>1 DEF vars, PoolInv, TypeOK, ContextsAreEarlier, NotesAreInherited
<1> QED
  BY <1>1, <1>2, <1>3, <1>4 DEF Next

\* PoolInv holds in every reachable state: of any pool, over any columns.
THEOREM PoolInvariant == Spec => []PoolInv
<1> QED
  BY PoolInvInit, PoolInvStep, PTL DEF Spec

\* A row's notes come from one column that was not submitted after it, however
\* the threads are scheduled (_FOLD_SKIP_NOTES is a context of one thread).
THEOREM PoolNotesAreInherited == Spec => []NotesAreInherited
<1>1. PoolInv => NotesAreInherited
  BY DEF PoolInv
<1> QED
  BY <1>1, PoolInvariant, PTL

-----------------------------------------------------------------------------
(* The pool implements the loop. *)

\* The pool returns the rows of the loop over independent columns, in its
\* order, for any number of columns and threads (generate_dd_rows_for_chains).
THEOREM PoolImplementsLoop == Spec => RowsOfColumns
<1>1. Init => Loop!Init
  BY DEF Init, Loop!Init, ColumnJobs, Loop!ColumnJobs
<1>2. PoolInv /\ [Next]_vars => [Loop!Return]_<<plan, [i \in 1..Len(results) |-> Disowned(results[i])]>>
  <2> SUFFICES ASSUME PoolInv, [Next]_vars
               PROVE  [Loop!Return]_<<plan, [i \in 1..Len(results) |-> Disowned(results[i])]>>
    OBVIOUS
  <2>1. CASE Collect
    <3> DEFINE n   == Len(results)
               row == finished[n + 1]
               old == [i \in 1..n |-> Disowned(results[i])]
    <3>1. /\ results \in Seq(RowType) /\ n \in Nat /\ n < NumJobs
          /\ plan' = plan
          /\ results' = Append(results, row)
          /\ n + 1 \in ColumnJobs
      BY <2>1, PoolAssumption DEF Collect, PoolInv, TypeOK, ColumnJobs
    <3>2. Disowned(row) = Columns!OwnRow(n + 1)
      BY <2>1, <3>1 DEF Collect, PoolInv, FuturesAreRight
    <3>3. Len(old) = n
      BY <3>1
    <3>4. ([i \in 1..Len(results) |-> Disowned(results[i])])'
            = Append(old, Disowned(row))
      <4>1. \A i \in 1..(n + 1) :
               Disowned(results[i])' = IF i <= n THEN Disowned(results[i]) ELSE Disowned(row)
        <5>1. \A i \in 1..(n + 1) : results'[i] = IF i <= n THEN results[i] ELSE row
          BY <3>1
        <5> QED
          BY <3>1, <5>1 DEF Disowned
      <4>2. Len(results') = n + 1
        BY <3>1
      <4>3. ([i \in 1..Len(results) |-> Disowned(results[i])])'
              = [i \in 1..(n + 1) |-> IF i <= n THEN Disowned(results[i]) ELSE Disowned(row)]
        BY <4>1, <4>2
      <4>4. Append(old, Disowned(row))
              = [i \in 1..(n + 1) |-> IF i <= n THEN Disowned(results[i]) ELSE Disowned(row)]
        BY <3>1, <3>3
      <4> QED
        BY <4>3, <4>4
    <3>5. Columns!OwnRow(n + 1) = Loop!OwnRow(n + 1)
      BY DEF Columns!OwnRow, Loop!OwnRow, Columns!FailedRow, Loop!FailedRow,
             Columns!NotesOf, Loop!NotesOf
    <3>6. Loop!Return
      BY <3>1, <3>2, <3>3, <3>4, <3>5 DEF Loop!Return
    <3> QED
      BY <3>6
  <2>2. CASE UNCHANGED <<plan, results>>
    BY <2>2 DEF Disowned
  <2> QED
    BY <2>1, <2>2 DEF Next, Take, RunJob, vars
<1> QED
  BY <1>1, <1>2, PoolInvariant, PTL DEF Spec, RowsOfColumns, Loop!Spec
=============================================================================
