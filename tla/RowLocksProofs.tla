-------------------------- MODULE RowLocksProofs --------------------------
(***************************************************************************)
(* No set of transactions about a receipt waits for itself, however many   *)
(* are open, as long as convert_to_manual is not among them.               *)
(*                                                                         *)
(* Whoever holds a row and still wants another holds the purchase row, so  *)
(* two transactions that wait for each other would both hold it.           *)
(***************************************************************************)
EXTENDS RowLocks, TLAPS

Rows == {"purchase", "job", "lines"}

\* Two transactions never hold the same row.
OneHolderPerRow ==
  \A r, s \in Requests : \A row \in Rows : Holds(r, row) /\ Holds(s, row) => r = s

LEMMA ProgramShape ==
  \A k \in AllKinds : /\ Len(Program[k]) \in 1 .. 3
                      /\ \A i \in 1 .. Len(Program[k]) : Program[k][i] \in Rows
                      /\ k # "convert" /\ Len(Program[k]) > 1 => Program[k][1] = "purchase"
  BY DEF AllKinds, Program, RemoveFailed, Rows

\* Initially nothing is held, and a step changes the kinds and counts as typed.
LEMMA TypeInductive == (Init => TypeOK) /\ (TypeOK /\ [Next]_vars => TypeOK')
<1> USE ProgramShape, KindsAreKnown DEF TypeOK
<1>1. Init => TypeOK
  BY DEF Init
<1>2. ASSUME TypeOK, [Next]_vars PROVE TypeOK'
  <2>1. CASE UNCHANGED vars
    BY <1>2, <2>1 DEF vars
  <2>2. ASSUME NEW r \in Requests, NEW k \in Kinds, Begin(r, k) PROVE TypeOK'
    BY <1>2, <2>2 DEF Begin
  <2>3. ASSUME NEW r \in Requests, Take(r) PROVE TypeOK'
    <3>1. kind[r] \in AllKinds /\ kind[r] # "idle" /\ taken[r] \in 0 .. 3
      BY <1>2, <2>3 DEF Take, HasNext
    <3>2. Len(Program[kind[r]]) \in 1 .. 3
      BY <3>1
    <3>3. taken[r] + 1 <= Len(Program[kind[r]])
      BY <2>3, <3>1, <3>2 DEF Take, HasNext
    <3>4. taken' = [taken EXCEPT ![r] = taken[r] + 1] /\ kind' = kind
      BY <2>3 DEF Take
    <3>5. taken' \in [Requests -> 0 .. 3]
      BY <1>2, <3>1, <3>2, <3>3, <3>4
    <3> QED
      BY <1>2, <3>1, <3>3, <3>4, <3>5
  <2>4. ASSUME NEW r \in Requests, Released(r) PROVE TypeOK'
    BY <1>2, <2>4 DEF Released
  <2> QED
    BY <1>2, <2>1, <2>2, <2>3, <2>4 DEF Next, End, Fail
<1> QED
  BY <1>1, <1>2

\* A step lets no one take a row that another holds.
LEMMA HolderInductive ==
  (Init => OneHolderPerRow) /\ (TypeOK /\ OneHolderPerRow /\ [Next]_vars => OneHolderPerRow')
<1>1. Init => OneHolderPerRow
  BY DEF Init, OneHolderPerRow, Holds
<1>2. ASSUME TypeOK, OneHolderPerRow, [Next]_vars PROVE OneHolderPerRow'
  <2>1. ASSUME NEW r \in Requests, Take(r) PROVE OneHolderPerRow'
    <3>1. \A row \in Rows : Holds(r, row)' => Holds(r, row) \/ row = Wanted(r)
      BY <1>2, <2>1 DEF TypeOK, Take, HasNext, Holds, Wanted
    <3>2. \A s \in Requests \ {r} : \A row \in Rows : Holds(s, row)' <=> Holds(s, row)
      BY <1>2, <2>1 DEF TypeOK, Take, Holds
    <3>3. \A s \in Requests \ {r} : ~Holds(s, Wanted(r))
      BY <2>1 DEF Take, WaitsFor
    <3> QED
      BY <1>2, <3>1, <3>2, <3>3 DEF OneHolderPerRow
  <2>2. ASSUME \A s \in Requests : \A row \in Rows : Holds(s, row)' => Holds(s, row)
        PROVE OneHolderPerRow'
    BY <1>2, <2>2 DEF OneHolderPerRow
  <2>3. CASE UNCHANGED vars
    BY <2>2, <2>3 DEF vars, Holds
  <2>4. ASSUME NEW r \in Requests, NEW k \in Kinds, Begin(r, k) PROVE OneHolderPerRow'
    BY <1>2, <2>2, <2>4 DEF Begin, Holds, TypeOK
  <2>5. ASSUME NEW r \in Requests, Released(r) PROVE OneHolderPerRow'
    BY <1>2, <2>2, <2>5 DEF Released, Holds, TypeOK
  <2> QED
    BY <1>2, <2>1, <2>3, <2>4, <2>5 DEF Next, End, Fail
<1> QED
  BY <1>1, <1>2

\* Whoever holds a row and still wants another holds the purchase row.
LEMMA PurchaseFirst ==
  ASSUME TypeOK, "convert" \notin Kinds, NEW r \in Requests, NEW row, Holds(r, row), HasNext(r)
  PROVE  Holds(r, "purchase")
<1>1. kind[r] \in AllKinds /\ kind[r] # "convert"
  BY KindsAreKnown DEF TypeOK, Holds
<1>2. taken[r] \in 1 .. 3
  BY DEF TypeOK, Holds
<1>3. Len(Program[kind[r]]) > 1
  BY <1>1, <1>2, ProgramShape DEF HasNext
<1> QED
  BY <1>1, <1>2, <1>3, ProgramShape DEF Holds

LEMMA NoCycle ==
  ASSUME TypeOK, OneHolderPerRow, "convert" \notin Kinds
  PROVE  NoCircularWait
<1> SUFFICES ASSUME NEW waiting \in SUBSET Requests, waiting # {},
                    \A r \in waiting : WaitsFor(r) \cap waiting # {}
             PROVE  FALSE
  BY DEF NoCircularWait
<1>1. \A r \in waiting : HasNext(r) /\ \E s \in waiting : s # r /\ Holds(s, Wanted(r))
  BY DEF WaitsFor
<1>2. PICK r \in waiting, s \in waiting : Holds(s, Wanted(r))
  BY <1>1
<1>3. PICK t \in waiting : t # s /\ Holds(t, Wanted(s))
  BY <1>1
<1>4. Holds(s, "purchase") /\ Holds(t, "purchase")
  BY <1>1, <1>2, <1>3, PurchaseFirst
<1> QED
  BY <1>3, <1>4 DEF OneHolderPerRow, Rows

\* Kinds and counts stay typed.
THEOREM TypeCorrect == Spec => []TypeOK
  BY TypeInductive, PTL DEF Spec

\* Removing, restoring, committing, reviewing and reading never deadlock: the
\* promise removal.py makes for remove_failed_job, which convert_to_manual alone
\* breaks.
THEOREM NeverDeadlock ==
  ASSUME "convert" \notin Kinds
  PROVE  Spec => []NoCircularWait
<1>1. TypeOK /\ OneHolderPerRow => NoCircularWait
  BY NoCycle
<1> QED
  BY <1>1, TypeInductive, HolderInductive, PTL DEF Spec
=============================================================================
