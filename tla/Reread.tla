------------------------------- MODULE Reread -------------------------------
(***************************************************************************)
(* Re-reading the lines of a receipt that was read before:                 *)
(* services/reread.py, and what else people do with its purchase meanwhile *)
(* (services/purchases.py, review.py and removal.py).                      *)
(*                                                                         *)
(* A re-read makes a proposal and changes no line until a person applies   *)
(* it.  What a proposal says is left out: it is known by the purchase as   *)
(* it was when the proposal was made (made), beside what the row records   *)
(* of it (saw), the status and the fingerprint apply compares.  A          *)
(* fingerprint stands for the lines, and those for a count of changes.     *)
(* Both are kept while the proposal is ready; nothing looks at them later. *)
(*                                                                         *)
(* A worker's reading is three steps: it claims a row, loads the purchase, *)
(* and writes its answer once the model has given one, looking at neither  *)
(* again.  A dismissal reads the row and then writes it, without a lock.   *)
(*                                                                         *)
(* An operator that is used nowhere and stands just before another with    *)
(* the same parameters is a plausible mistake in it.                       *)
(***************************************************************************)
EXTENDS Naturals

CONSTANTS
  Purchases,    \* purchases read from a receipt
  Rereads,      \* ids of line_reread rows
  Workers,      \* worker processes
  None,         \* no re-read, no purchase, no proposal
  MaxAttempts,  \* INGEST_MAX_ATTEMPTS
  MaxChanges,   \* bound on changes of a purchase's lines before ChangeLines stops
  MaxFaults     \* bound on crashes and unanswered calls of the model server

ASSUME MaxAttemptsAssumption == MaxAttempts \in Nat \ {0}
ASSUME NoneAssumption == None \notin Purchases /\ None \notin Rereads

VARIABLES
  purchase,    \* purchase[p]: status, change count of its lines, ever recorded
  reread,      \* reread[n]: a line_reread row
  worker,      \* worker[w]: the re-read it holds and the purchase as it loaded it
  dismissing,  \* re-reads a request has read as open and is about to dismiss
  faults

vars == <<purchase, reread, worker, dismissing, faults>>

-----------------------------------------------------------------------------
(* The rows.                                                               *)

Statuses == {"pending", "running", "ready", "no_changes", "failed", "applied", "dismissed"}

\* REREAD_OPEN
Open == {"pending", "running", "ready"}

PurchaseStatuses == {"draft", "reviewed", "committed", "voided", "deleted"}

Seen == [status: PurchaseStatuses, lines: Nat]

RereadRows == [purchase: Purchases \cup {None}, status: Statuses \cup {"absent", "gone"},
               saw: Seen \cup {None}, made: Seen \cup {None}, attempts: 0 .. MaxAttempts, due: BOOLEAN]

\* The purchase as a proposal sees it: its status and its lines' fingerprint.
AsSeen(p) == [status |-> purchase[p].status, lines |-> purchase[p].lines]

Absent == [purchase |-> None, status |-> "absent", saw |-> None, made |-> None,
           attempts |-> 0, due |-> TRUE]

NewReread(p) == [Absent EXCEPT !.purchase = p, !.status = "pending"]

\* A row with a proposal made from the purchase as seen, and one without.
Ready(row, saw, made) == [row EXCEPT !.status = "ready", !.saw = saw, !.made = made]

WithStatus(row, status) == [row EXCEPT !.status = status, !.saw = None, !.made = None]

\* Ids are never used again: a deleted row stays behind as "gone".
Stored(n) == reread[n].status \in Statuses

OpenOf(p) == {n \in Rereads : reread[n].purchase = p /\ reread[n].status \in Open}

NotVoided(p) == purchase[p].status \in {"draft", "reviewed", "committed"}

Idle == [reread |-> None, loaded |-> None, step |-> "idle"]

Init ==
  /\ purchase = [p \in Purchases |-> [status |-> "draft", lines |-> 0, recorded |-> FALSE]]
  /\ reread = [n \in Rereads |-> Absent]
  /\ worker = [w \in Workers |-> Idle]
  /\ dismissing = {}
  /\ faults = 0

-----------------------------------------------------------------------------
(* A person asks for a re-read and decides on its proposal.                *)

\* request, also for each receipt of request_many: the purchase is locked.
\* Re-check answers at once, Read again waits for a worker.
Request(p, n) ==
  /\ NotVoided(p) /\ OpenOf(p) = {}
  /\ reread[n].status = "absent"
  /\ \E row \in {NewReread(p), WithStatus(NewReread(p), "no_changes"),
                 Ready(NewReread(p), AsSeen(p), AsSeen(p))} :
       reread' = [reread EXCEPT ![n] = row]
  /\ UNCHANGED <<purchase, worker, dismissing, faults>>

LoadDismiss(n) ==
  /\ reread[n].status \in Open
  /\ dismissing' = dismissing \cup {n}
  /\ UNCHANGED <<purchase, reread, worker, faults>>

\* dismiss: whatever has become of the row; a row that is gone is not written.
Dismiss(n) ==
  /\ n \in dismissing
  /\ dismissing' = dismissing \ {n}
  /\ reread' = IF ~Stored(n) THEN reread ELSE [reread EXCEPT ![n] = WithStatus(@, "dismissed")]
  /\ UNCHANGED <<purchase, worker, faults>>

\* apply: the row is refreshed once the purchase and the row are locked, and the
\* lines are replaced under those locks; a committed purchase is reopened.
Apply(n) ==
  LET p == reread[n].purchase IN
  /\ reread[n].status = "ready"
  /\ NotVoided(p) /\ AsSeen(p) = reread[n].saw
  /\ purchase' = [purchase EXCEPT ![p].lines = @ + 1,
                    ![p].status = IF @ = "committed" THEN "reviewed" ELSE @]
  /\ reread' = [reread EXCEPT ![n] = WithStatus(@, "applied")]
  /\ UNCHANGED <<worker, dismissing, faults>>

-----------------------------------------------------------------------------
(* What else happens to the purchase.                                      *)

ChangesPurchase(p, row) ==
  /\ purchase' = [purchase EXCEPT ![p] = row]
  /\ UNCHANGED <<reread, worker, dismissing, faults>>

\* A line is corrected, matched, added, merged or deleted.
ChangeLines(p) ==
  /\ NotVoided(p) /\ purchase[p].lines < MaxChanges
  /\ ChangesPurchase(p, [purchase[p] EXCEPT !.lines = @ + 1])

Commit(p) ==
  /\ purchase[p].status \in {"draft", "reviewed"}
  /\ \E priced \in BOOLEAN :
       ChangesPurchase(p, [purchase[p] EXCEPT !.status = "committed", !.recorded = @ \/ priced])

Reopen(p) ==
  /\ purchase[p].status = "committed"
  /\ ChangesPurchase(p, [purchase[p] EXCEPT !.status = "reviewed"])

Restore(p) ==
  /\ purchase[p].status = "voided"
  /\ ChangesPurchase(p, [purchase[p] EXCEPT !.status = "reviewed"])

Void(p) ==
  /\ NotVoided(p) /\ purchase[p].recorded
  /\ ChangesPurchase(p, [purchase[p] EXCEPT !.status = "voided"])

\* A purchase that was never recorded is deleted, and its re-reads with it.
Delete(p) ==
  /\ NotVoided(p) /\ ~purchase[p].recorded
  /\ purchase' = [purchase EXCEPT ![p].status = "deleted"]
  /\ reread' = [n \in Rereads |-> IF reread[n].purchase = p THEN WithStatus(reread[n], "gone") ELSE reread[n]]
  /\ UNCHANGED <<worker, dismissing, faults>>

-----------------------------------------------------------------------------
(* Read again, in the worker.                                              *)

LapsesNever(n) == FALSE

LapsesWhileRead(n) == TRUE

\* A row stays running when its worker stops.  A reading ends before its lock
\* lapses: the model's time is bounded to 0.8 of the lock's.
LockLapsed(n) == \A w \in Workers : worker[w].reread # n

Claimable(n) ==
  \/ reread[n].status = "pending" /\ reread[n].due
  \/ reread[n].status = "running" /\ LockLapsed(n)

Claim(w, n) ==
  /\ worker[w] = Idle /\ Claimable(n)
  /\ worker' = [worker EXCEPT ![w] = [reread |-> n, loaded |-> None, step |-> "claimed"]]
  /\ reread' = [reread EXCEPT ![n] = WithStatus(@, "running")]
  /\ UNCHANGED <<purchase, dismissing, faults>>

\* The purchase and its lines, as they are before the model is asked.
Load(w) ==
  LET n == worker[w].reread IN
  /\ worker[w].step = "claimed"
  /\ Stored(n) /\ NotVoided(reread[n].purchase)
  /\ worker' = [worker EXCEPT ![w].step = "reading", ![w].loaded = AsSeen(reread[n].purchase)]
  /\ UNCHANGED <<purchase, reread, dismissing, faults>>

\* uq_line_reread_open, for a row n that is written with an open status.
NothingTaken(n) == TRUE

IndexAllows(n) == OpenOf(reread[n].purchase) \subseteq {n}

SeenAnew(w) == AsSeen(reread[worker[w].reread].purchase)

SeenWhenRead(w) == worker[w].loaded

\* The rows a worker lets go of: written, refused by the index, or gone.
Writes(w, row) ==
  LET n == worker[w].reread IN
  /\ worker' = [worker EXCEPT ![w] = Idle]
  /\ reread' = IF ~Stored(n) \/ (row.status \in Open /\ ~IndexAllows(n)) THEN reread ELSE [reread EXCEPT ![n] = row]

\* The end of _read and of run_read_once.
Answer(w) ==
  /\ worker[w].step = "reading"
  /\ LET row == reread[worker[w].reread] IN
       Writes(w, WithStatus(row, "no_changes")) \/ Writes(w, Ready(row, SeenWhenRead(w), worker[w].loaded))
  /\ UNCHANGED <<purchase, dismissing, faults>>

Capped(n) == IF n < MaxAttempts THEN n ELSE MaxAttempts

\* The model answered, and never with lines that validate.
NeverValid(w) ==
  /\ worker[w].step = "reading"
  /\ Writes(w, [WithStatus(reread[worker[w].reread], "failed") EXCEPT !.attempts = Capped(@ + 1)])
  /\ UNCHANGED <<purchase, dismissing, faults>>

Voided(p) == p \in Purchases /\ purchase[p].status = "voided"

\* Anything else fails: the row is loaded again and tried again later, or given
\* up on after MaxAttempts, and at once when the purchase was voided.
Fails(w) ==
  LET row == reread[worker[w].reread]
      attempts == Capped(row.attempts + 1)
      givenUp == attempts = MaxAttempts \/ (worker[w].step = "claimed" /\ Voided(row.purchase))
  IN
  /\ worker[w] # Idle
  /\ Writes(w, [WithStatus(row, IF givenUp THEN "failed" ELSE "pending") EXCEPT
                   !.attempts = attempts, !.due = givenUp])
  /\ UNCHANGED <<purchase, dismissing, faults>>

\* An unreachable model server is retried for ever.
ModelUnreachable(w) ==
  /\ worker[w].step = "reading" /\ faults < MaxFaults
  /\ Writes(w, [WithStatus(reread[worker[w].reread], "pending") EXCEPT !.attempts = Capped(@ + 1), !.due = FALSE])
  /\ faults' = faults + 1
  /\ UNCHANGED <<purchase, dismissing>>

Crash(w) ==
  /\ worker[w] # Idle /\ faults < MaxFaults
  /\ worker' = [worker EXCEPT ![w] = Idle]
  /\ faults' = faults + 1
  /\ UNCHANGED <<purchase, reread, dismissing>>

BackoffPasses(n) ==
  /\ ~reread[n].due
  /\ reread' = [reread EXCEPT ![n].due = TRUE]
  /\ UNCHANGED <<purchase, worker, dismissing, faults>>

-----------------------------------------------------------------------------
Person ==
  \/ \E p \in Purchases, n \in Rereads : Request(p, n)
  \/ \E n \in Rereads : LoadDismiss(n) \/ Dismiss(n) \/ Apply(n)
  \/ \E p \in Purchases :
       ChangeLines(p) \/ Commit(p) \/ Reopen(p) \/ Restore(p) \/ Void(p) \/ Delete(p)

Reads(w) == Answer(w) \/ NeverValid(w) \/ Fails(w) \/ ModelUnreachable(w)

Claims(w) == \E n \in Rereads : Claim(w, n)

Working == \E w \in Workers : Claims(w) \/ Load(w) \/ Reads(w) \/ Crash(w)

Next == Person \/ Working \/ \E n \in Rereads : BackoffPasses(n)

Spec == Init /\ [][Next]_vars

\* Some worker runs, its calls end, and a backoff passes.
FairSpec ==
  /\ Spec
  /\ \A w \in Workers : WF_vars(Claims(w)) /\ WF_vars(Load(w) \/ Reads(w))
  /\ \A n \in Rereads : WF_vars(BackoffPasses(n))

-----------------------------------------------------------------------------
(* Properties.                                                             *)

TypeOK ==
  /\ purchase \in [Purchases -> [status: PurchaseStatuses, lines: Nat, recorded: BOOLEAN]]
  /\ reread \in [Rereads -> RereadRows]
  /\ \A n \in Rereads :
       /\ reread[n].status # "absent" => reread[n].purchase \in Purchases
       /\ reread[n].status = "ready" => reread[n].saw \in Seen
  /\ worker \in [Workers -> [reread: Rereads \cup {None}, loaded: Seen \cup {None},
                             step: {"idle", "claimed", "reading"}]]
  /\ dismissing \subseteq Rereads
  /\ faults \in Nat

\* "One open re-read per purchase", also when a worker answers one that was
\* dismissed while it read and a new one has been asked for since.
OneOpenReread ==
  \A m, n \in Rereads : m # n /\ reread[m].status \in Open /\ reread[n].status \in Open
    => reread[m].purchase # reread[n].purchase

\* No two workers read for the same row, whatever stops and is claimed again.
OneReader ==
  \A v, w \in Workers : v # w /\ worker[v] # Idle => worker[v].reread # worker[w].reread

\* A proposal is applied only to the lines and the status it was made from,
\* however long the model took and whatever was corrected meanwhile.
AppliedToWhatItSaw ==
  [][\A n \in Rereads : reread[n].status # "applied" /\ reread'[n].status = "applied"
        => AsSeen(reread[n].purchase) = reread[n].made]_vars

\* What a person decided stands, whatever a worker answers late: a proposal that
\* was applied is never offered or applied again, though a dismissal that read it
\* before may still mark it as dismissed; and a dismissed row is written again by
\* nothing but the end of a reading that was under way when it was dismissed.
DecidedStands ==
  /\ \A n \in Rereads :
       [](reread[n].status = "applied" => [](reread[n].status \in {"applied", "dismissed", "gone"}))
  /\ [][\A n \in Rereads : reread[n].status = "dismissed" =>
            \/ reread'[n].status \in {"dismissed", "gone"}
            \/ \E w \in Workers : worker[w].reread = n /\ worker'[w] = Idle]_vars

\* Read again comes to an end, through crashes, failures and an unreachable
\* model server, for a receipt removed meanwhile too.
ReadEnds ==
  \A n \in Rereads : reread[n].status = "pending" ~> reread[n].status \notin {"pending", "running"}
=============================================================================
