----------------------------- MODULE RowLocks -----------------------------
(***************************************************************************)
(* The rows that requests about one receipt lock, and the order they lock  *)
(* them in: backend/app/services/removal.py, resolution.py, review.py,     *)
(* ingest.py, purchases.py and backend/app/worker.py.                      *)
(*                                                                         *)
(* A transaction locks a row with SELECT ... FOR UPDATE, or by updating or *)
(* deleting it, and keeps it until it commits or fails.  These modes all   *)
(* exclude one another.  The rows are the receipt's purchase, its          *)
(* ingest_job and its purchase_lines.  What a transaction reads or writes  *)
(* there is left out.                                                      *)
(*                                                                         *)
(* An operator that is used nowhere and stands before another with the     *)
(* same parameters is a plausible mistake in it.                           *)
(***************************************************************************)
EXTENDS Naturals, Sequences

CONSTANTS
  Requests,  \* transactions that may be open at once, the worker's among them
  Kinds      \* the kinds of them that run

VARIABLES
  kind,      \* kind[r]: what transaction r does, or "idle"
  taken      \* taken[r]: how many of its locks it holds

vars == <<kind, taken>>

-----------------------------------------------------------------------------

RemoveFromJob == <<"job", "purchase", "lines">>

\* remove_failed_job reads the job, then locks the purchase before it.
RemoveFailed == <<"purchase", "job", "lines">>

AllKinds == {"remove", "removeFailed", "restore", "commit", "review", "job", "convert"}

\* The rows each kind locks, in order: remove_purchase, remove_failed_job,
\* restore_purchase, commit_purchase; adding, editing, deciding and resolving
\* lines; what touches a job alone (upload, retry_job, claim_job, run_stage,
\* delete_photo); convert_to_manual of a receipt that has a draft.
Program ==
  [k \in AllKinds |->
     CASE k = "remove"       -> <<"purchase", "job", "lines">>
       [] k = "removeFailed" -> RemoveFailed
       [] k = "restore"      -> <<"purchase", "job">>
       [] k = "commit"       -> <<"purchase", "lines", "job">>
       [] k = "review"       -> <<"purchase", "lines">>
       [] k = "job"          -> <<"job">>
       [] k = "convert"      -> <<"job", "lines", "purchase">>]

ASSUME KindsAreKnown == Kinds \subseteq AllKinds

TypeOK ==
  /\ kind \in [Requests -> Kinds \cup {"idle"}]
  /\ taken \in [Requests -> 0 .. 3]
  /\ \A r \in Requests : IF kind[r] = "idle" THEN taken[r] = 0 ELSE taken[r] <= Len(Program[kind[r]])

Init ==
  /\ kind = [r \in Requests |-> "idle"]
  /\ taken = [r \in Requests |-> 0]

Holds(r, row) == kind[r] # "idle" /\ \E i \in 1 .. taken[r] : Program[kind[r]][i] = row

\* r has a lock still to take, and which.
HasNext(r) == kind[r] # "idle" /\ taken[r] < Len(Program[kind[r]])
Wanted(r) == Program[kind[r]][taken[r] + 1]

\* The transactions r waits for.
WaitsFor(r) == IF HasNext(r) THEN {s \in Requests \ {r} : Holds(s, Wanted(r))} ELSE {}

Begin(r, k) ==
  /\ kind[r] = "idle"
  /\ kind' = [kind EXCEPT ![r] = k]
  /\ UNCHANGED taken

Take(r) ==
  /\ HasNext(r)
  /\ WaitsFor(r) = {}
  /\ taken' = [taken EXCEPT ![r] = @ + 1]
  /\ UNCHANGED kind

Released(r) ==
  /\ kind' = [kind EXCEPT ![r] = "idle"]
  /\ taken' = [taken EXCEPT ![r] = 0]

\* db.commit
End(r) ==
  /\ kind[r] # "idle"
  /\ ~HasNext(r)
  /\ Released(r)

\* An ApiError or a lost connection: rolled back with what it holds.
Fail(r) ==
  /\ kind[r] # "idle"
  /\ taken[r] > 0
  /\ WaitsFor(r) = {}
  /\ Released(r)

Next ==
  \E r \in Requests : (\E k \in Kinds : Begin(r, k)) \/ Take(r) \/ End(r) \/ Fail(r)

Spec == Init /\ [][Next]_vars

-----------------------------------------------------------------------------
(* Properties.                                                             *)

\* Never does a set of transactions each wait for another of them ("so two can
\* never deadlock", removal.py).
NoCircularWait ==
  \A waiting \in SUBSET Requests :
    waiting # {} => \E r \in waiting : WaitsFor(r) \cap waiting = {}
=============================================================================
