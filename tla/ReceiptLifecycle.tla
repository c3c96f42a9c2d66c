------------------------- MODULE ReceiptLifecycle -------------------------
(***************************************************************************)
(* A receipt's photo, its ingest job, the workers that read it and the     *)
(* purchases made from it: backend/app/worker.py, ingest/stages.py,        *)
(* ingest/draft.py, services/ingest.py, services/removal.py and the parts  *)
(* of services/resolution.py and services/review.py that change a          *)
(* purchase's standing.                                                    *)
(*                                                                         *)
(* An operator that is used nowhere and stands just before another with    *)
(* the same parameters is a plausible mistake in it; PROJECT.json names    *)
(* the property that notices when the one takes the place of the other.    *)
(*                                                                         *)
(* One action is one database transaction.  A request that runs in several *)
(* transactions (a worker's stage, a removal and the deletion of its       *)
(* photo) is several actions, and anything may happen in between.  What a  *)
(* purchase's lines say is kept only as far as removal and the price book  *)
(* tell it apart: whether a line names a product, whether a price was ever *)
(* recorded and whether one still counts.  PriceBook has the lines.        *)
(***************************************************************************)
EXTENDS Naturals, FiniteSets

CONSTANTS
  Docs,          \* receipt documents, one per distinct photo
  Purchases,     \* purchase ids, taken in increasing order (uuid7)
  Workers,       \* kerp worker processes
  None,          \* SQL NULL
  MaxAttempts,   \* ingest_max_attempts
  MaxFaults,     \* bound on crashes and model-server outages together
  MaxUploads,    \* bound on how often files are sent in
  SlowResolve,   \* may the resolve stage outlast ingest_lock_timeout_seconds?
  EarlyCommits   \* may a person commit a draft whose job is still open?

ASSUME PurchasesAreOrdered == Purchases \subseteq Nat
ASSUME AttemptsArePositive == MaxAttempts \in Nat \ {0}
ASSUME BoundsAreNaturals == MaxFaults \in Nat /\ MaxUploads \in Nat
ASSUME NoneIsNoId == None \notin Docs /\ None \notin Purchases /\ None \notin Workers
ASSUME SwitchesAreBoolean == SlowResolve \in BOOLEAN /\ EarlyCommits \in BOOLEAN

VARIABLES
  photo,      \* photo[d]: the image file is in the receipt store
  job,        \* job[d]: the ingest_job row of document d
  purchase,   \* purchase[p]: a purchase row
  worker,     \* worker[w]: the job a worker loaded when it claimed it
  unlinking,  \* unlinking[d]: removals committed whose photo is not yet deleted
  faults,     \* crashes and outages so far
  uploads     \* files sent in so far

vars == <<photo, job, purchase, worker, unlinking, faults, uploads>>

-----------------------------------------------------------------------------
(* The rows.                                                               *)

Stages == {"captured", "ocr", "header", "lines", "resolve", "review", "committed"}
RunnableStages == {"captured", "ocr", "header", "lines", "resolve"}
Reading == {"pending", "running"}
JobStatuses == Reading \cup {"absent", "needs_review", "failed", "done", "discarded"}

StageNamedByStatus == [captured |-> "ocr", ocr |-> "header", header |-> "lines",
                       lines |-> "resolve", resolve |-> "needs_review"]

NextStage == [captured |-> "ocr", ocr |-> "header", header |-> "lines",
              lines |-> "resolve", resolve |-> "review"]

Jobs == [stage: Stages, status: JobStatuses, attempts: 0..MaxAttempts,
         due: BOOLEAN, purchase: Purchases \cup {None}]

NoJob == [stage |-> "captured", status |-> "absent", attempts |-> 0,
          due |-> TRUE, purchase |-> None]

NewJob == [NoJob EXCEPT !.status = "pending"]

Statuses == {"unborn", "draft", "reviewed", "committed", "voided", "deleted"}

\* resolved: some item line names a product; recorded: some line was ever in
\* the price book; live: some line's price counts now.
PurchaseRows == [status: Statuses, doc: Docs \cup {None}, byHand: BOOLEAN,
                 resolved: BOOLEAN, recorded: BOOLEAN, live: BOOLEAN]

Unborn == [status |-> "unborn", doc |-> None, byHand |-> FALSE,
           resolved |-> FALSE, recorded |-> FALSE, live |-> FALSE]

Draft(d, manual) == [Unborn EXCEPT !.status = "draft", !.doc = d, !.byHand = manual]

Exists(p) == purchase[p].status \notin {"unborn", "deleted"}

\* new_id(): the next purchase id.
Fresh(p) ==
  /\ purchase[p].status = "unborn"
  /\ \A q \in Purchases : q < p => purchase[q].status # "unborn"

\* ensure_not_voided: a purchase that may still be changed.
NotVoided(p) == purchase[p].status \in {"draft", "reviewed", "committed"}

\* Some line of p, removed ones included, was ever in the price book.
RecordedIfLive(p) == purchase[p].live

Recorded(p) == purchase[p].recorded

\* The document whose job points at p, as _job_for finds it.
JobOf(p) == {d \in Docs : job[d].purchase = p}

Idle == [doc |-> None, seen |-> NoJob, step |-> "idle"]
WorkerStates == [doc: Docs \cup {None}, seen: Jobs, step: {"idle", "working", "resolved"}]

At(w, stage) == worker[w].step = "working" /\ worker[w].seen.stage = stage

Init ==
  /\ photo = [d \in Docs |-> FALSE]
  /\ job = [d \in Docs |-> NoJob]
  /\ purchase = [p \in Purchases |-> Unborn]
  /\ worker = [w \in Workers |-> Idle]
  /\ unlinking = [d \in Docs |-> 0]
  /\ faults = 0
  /\ uploads = 0

TypeOK ==
  /\ photo \in [Docs -> BOOLEAN]
  /\ job \in [Docs -> Jobs]
  /\ purchase \in [Purchases -> PurchaseRows]
  /\ worker \in [Workers -> WorkerStates]
  /\ unlinking \in [Docs -> Nat]
  /\ faults \in Nat
  /\ uploads \in Nat

-----------------------------------------------------------------------------
(* Uploading a photo.                                                      *)

NeverWasRemoved(d) == FALSE

\* _purchase_was_removed: a finished read whose purchase was voided since.
PurchaseWasRemoved(d) ==
  /\ job[d].status = "done"
  /\ job[d].purchase # None
  /\ purchase[job[d].purchase].status = "voided"

Removed(d) == job[d].status = "discarded" \/ PurchaseWasRemoved(d)

\* The job of a receipt sent in again starts over, whatever it was.
RevivedWithPurchase(d) == [NewJob EXCEPT !.purchase = job[d].purchase]

Revived(d) == NewJob

\* A file sent in for the first time, or again after its receipt was removed,
\* is stored and read from the start.  Any other upload changes nothing here.
Upload(d) ==
  /\ uploads < MaxUploads
  /\ job[d].status = "absent" \/ Removed(d)
  /\ photo' = [photo EXCEPT ![d] = TRUE]
  /\ job' = [job EXCEPT ![d] = Revived(d)]
  /\ uploads' = uploads + 1
  /\ UNCHANGED <<purchase, worker, unlinking, faults>>

\* The file is written before the rows commit; the request dies in between.
UploadLost(d) ==
  /\ faults < MaxFaults
  /\ job[d].status = "absent" \/ Removed(d)
  /\ photo' = [photo EXCEPT ![d] = TRUE]
  /\ faults' = faults + 1
  /\ UNCHANGED <<job, purchase, worker, unlinking, uploads>>

-----------------------------------------------------------------------------
(* The worker.                                                             *)

\* A running job may be claimed again once its lock is older than the timeout.
\* Reading the text and the lines is bounded to less than that (the header and
\* lines stages to 0.8 of it, the converters and the transcriber to 550 s of
\* 600).  Resolving is not: it asks the model about each line in turn.
LockNeverLapses(d) == FALSE

LockLapsed(d) ==
  \A w \in Workers : worker[w].doc = d => SlowResolve /\ worker[w].seen.stage = "resolve"

Claimable(d) ==
  /\ job[d].stage \in RunnableStages
  /\ \/ job[d].status = "pending" /\ job[d].due
     \/ job[d].status = "running" /\ LockLapsed(d)

\* A receipt already part-read is claimed before one not yet started.
Claim(w, d) ==
  /\ worker[w].step = "idle"
  /\ Claimable(d)
  /\ job[d].stage = "captured" =>
       \A e \in Docs : Claimable(e) => job[e].stage = "captured"
  /\ job' = [job EXCEPT ![d].status = "running"]
  /\ worker' = [worker EXCEPT ![w] = [doc |-> d, seen |-> job'[d], step |-> "working"]]
  /\ UNCHANGED <<photo, purchase, unlinking, faults, uploads>>

\* What run_stage writes when a stage succeeds.  The session writes only the
\* columns it changed, so a count already 0 and a next_attempt_at already NULL
\* when the job was loaded (they go together) are left as they are; whose lock
\* the row now carries is not looked at.
Advanced(w, p) ==
  LET d == worker[w].doc
      seen == worker[w].seen
  IN [job[d] EXCEPT
        !.stage = NextStage[seen.stage],
        !.status = IF seen.stage = "resolve" THEN "needs_review" ELSE "pending",
        !.attempts = IF seen.attempts = 0 THEN @ ELSE 0,
        !.due = IF seen.attempts = 0 THEN @ ELSE TRUE,
        !.purchase = p]

Finish(w, p) ==
  /\ job' = [job EXCEPT ![worker[w].doc] = Advanced(w, p)]
  /\ worker' = [worker EXCEPT ![w] = Idle]
  /\ UNCHANGED <<photo, unlinking, faults, uploads>>

\* captured needs the stored image; ocr and header write only stage results.
ReadText(w) ==
  /\ \E stage \in {"captured", "ocr", "header"} : At(w, stage)
  /\ At(w, "captured") => photo[worker[w].doc]
  /\ Finish(w, job[worker[w].doc].purchase)
  /\ UNCHANGED purchase

\* The lines stage makes a draft of what it read.  (It would rewrite one its job
\* already led to; ReadsIntoNewDraft says there is none.)
CreateDraft(w, p) ==
  /\ At(w, "lines")
  /\ worker[w].seen.purchase = None
  /\ Fresh(p)
  /\ purchase' = [purchase EXCEPT ![p] = Draft(worker[w].doc, FALSE)]
  /\ Finish(w, p)

\* resolve_purchase commits on its own, before the stage does.  It records no
\* price and does not look at the purchase's status.
ResolveLines(w) ==
  LET p == worker[w].seen.purchase IN
  /\ At(w, "resolve")
  /\ p # None /\ Exists(p)
  /\ \E match \in BOOLEAN : purchase' = [purchase EXCEPT ![p].resolved = match]
  /\ worker' = [worker EXCEPT ![w].step = "resolved"]
  /\ UNCHANGED <<photo, job, unlinking, faults, uploads>>

ResolveDone(w) ==
  /\ worker[w].step = "resolved"
  /\ Finish(w, job[worker[w].doc].purchase)
  /\ UNCHANGED purchase

Capped(n) == IF n < MaxAttempts THEN n ELSE MaxAttempts

\* A stage raised: its writes are rolled back, the row is loaded again and the
\* attempt is counted.  Only an unreachable model server is retried for ever.
StageFails(w) ==
  LET d == worker[w].doc
      attempts == Capped(job[d].attempts + 1)
      givenUp == attempts >= MaxAttempts
  IN
  /\ worker[w].step = "working"
  /\ job' = [job EXCEPT ![d].attempts = attempts,
                        ![d].status = IF givenUp THEN "failed" ELSE "pending",
                        ![d].due = givenUp]
  /\ worker' = [worker EXCEPT ![w] = Idle]
  /\ UNCHANGED <<photo, purchase, unlinking, faults, uploads>>

\* The transcriber of the ocr stage, and the text model of the other two.
ModelUnreachable(w) ==
  LET d == worker[w].doc IN
  /\ \E stage \in {"ocr", "header", "lines"} : At(w, stage)
  /\ faults < MaxFaults
  /\ faults' = faults + 1
  /\ job' = [job EXCEPT ![d].attempts = Capped(@ + 1),
                        ![d].status = "pending", ![d].due = FALSE]
  /\ worker' = [worker EXCEPT ![w] = Idle]
  /\ UNCHANGED <<photo, purchase, unlinking, uploads>>

\* The worker process stops; its job stays running until its lock lapses.
Crash(w) ==
  /\ worker[w].step # "idle"
  /\ faults < MaxFaults
  /\ faults' = faults + 1
  /\ worker' = [worker EXCEPT ![w] = Idle]
  /\ UNCHANGED <<photo, job, purchase, unlinking, uploads>>

BackoffPasses(d) ==
  /\ ~job[d].due
  /\ job' = [job EXCEPT ![d].due = TRUE]
  /\ UNCHANGED <<photo, purchase, worker, unlinking, faults, uploads>>

-----------------------------------------------------------------------------
(* What a person does with a job.                                          *)

Retry(d) ==
  /\ job[d].status = "failed"
  /\ job[d].stage \in RunnableStages
  /\ job' = [job EXCEPT ![d].status = "pending", ![d].attempts = 0, ![d].due = TRUE]
  /\ UNCHANGED <<photo, purchase, worker, unlinking, faults, uploads>>

NeverReused(d) == FALSE

HasDraft(d) == job[d].purchase # None /\ purchase[job[d].purchase].status = "draft"

ConvertibleRunning(d) == job[d].status \notin {"absent", "discarded", "done"}

Convertible(d) == job[d].status \notin {"absent", "discarded", "done", "running"}

SettledBy(d, p) == [job EXCEPT ![d].stage = "committed", ![d].status = "done",
                               ![d].due = TRUE, ![d].purchase = p]

\* "Enter by hand": the draft the reader made becomes the manual one, its lines
\* dropped ...
ConvertDraft(d) ==
  LET p == job[d].purchase IN
  /\ Convertible(d)
  /\ HasDraft(d)
  /\ purchase' = [purchase EXCEPT ![p].byHand = TRUE, ![p].resolved = FALSE]
  /\ job' = SettledBy(d, p)
  /\ UNCHANGED <<photo, worker, unlinking, faults, uploads>>

\* ... and without a draft, whatever else the job points at, a new one is made.
ConvertNew(d, p) ==
  /\ Convertible(d)
  /\ ~HasDraft(d)
  /\ Fresh(p)
  /\ purchase' = [purchase EXCEPT ![p] = Draft(d, TRUE)]
  /\ job' = SettledBy(d, p)
  /\ UNCHANGED <<photo, worker, unlinking, faults, uploads>>

-----------------------------------------------------------------------------
(* What a person does with a purchase.                                     *)

\* A purchase whose receipt has been read: what Home offers for review.
Ready(p) == \A d \in JobOf(p) : job[d].status \notin Reading \cup {"failed"}

\* Adding, editing, deleting, merging and replacing lines of an open purchase;
\* deleting a line voids its price, editing one leaves the price for recommit.
EditLines(p) ==
  /\ purchase[p].status \in {"draft", "reviewed"}
  /\ \E names \in BOOLEAN, live \in {FALSE, purchase[p].live} :
       purchase' = [purchase EXCEPT ![p].resolved = names, ![p].live = live]
  /\ UNCHANGED <<photo, job, worker, unlinking, faults, uploads>>

\* A decided line's price is recorded at once only on a committed purchase.
Emits(p, names) == names /\ purchase[p].status = "committed"

\* decide_line: the line's price is voided, and perhaps recorded again.
DecideLine(p) ==
  /\ NotVoided(p)
  /\ \E names \in BOOLEAN, live \in {FALSE, purchase[p].live} :
       purchase' = [purchase EXCEPT ![p].resolved = names,
                                    ![p].live = live \/ Emits(p, names),
                                    ![p].recorded = @ \/ Emits(p, names)]
  /\ UNCHANGED <<photo, job, worker, unlinking, faults, uploads>>

\* update_manual: the entry form of a purchase entered by hand, whatever its
\* standing; it names a product on every line and records each price at once.
UpdateManual(p) ==
  /\ NotVoided(p)
  /\ purchase[p].byHand
  /\ purchase' = [purchase EXCEPT ![p].resolved = TRUE, ![p].recorded = TRUE, ![p].live = TRUE]
  /\ UNCHANGED <<photo, job, worker, unlinking, faults, uploads>>

FinishesNothing(p) == {}

\* The job a commit finishes: the purchase's, when it waits for review.
FinishedBy(p) == {d \in JobOf(p) : job[d].status = "needs_review"}

\* Committing records a price for every line that names a product, voids the
\* prices of those that no longer do, and finishes a job waiting for review.
Commit(p) ==
  /\ NotVoided(p)
  /\ EarlyCommits \/ Ready(p)
  /\ purchase' = [purchase EXCEPT ![p].status = "committed",
                                  ![p].live = purchase[p].resolved,
                                  ![p].recorded = @ \/ purchase[p].resolved]
  /\ job' = [d \in Docs |->
               IF d \in FinishedBy(p)
               THEN [job[d] EXCEPT !.status = "done", !.stage = "committed"]
               ELSE job[d]]
  /\ UNCHANGED <<photo, worker, unlinking, faults, uploads>>

Reopen(p) ==
  /\ purchase[p].status = "committed"
  /\ purchase' = [purchase EXCEPT ![p].status = "reviewed"]
  /\ UNCHANGED <<photo, job, worker, unlinking, faults, uploads>>

-----------------------------------------------------------------------------
(* Removing and restoring.                                                 *)

\* _photo_to_delete: the photo, when no other purchase row still shows it.
PhotoToDelete(d, leaving) ==
  /\ photo[d]
  /\ \A q \in Purchases \ {leaving} : Exists(q) => purchase[q].doc # d

Discarded(d) == [job[d] EXCEPT !.status = "discarded", !.purchase = None, !.due = TRUE]

DiscardJobs(ds) == job' = [d \in Docs |-> IF d \in ds THEN Discarded(d) ELSE job[d]]

DeletePurchases(ps) ==
  purchase' = [p \in Purchases |->
                 IF p \in ps THEN [Unborn EXCEPT !.status = "deleted"] ELSE purchase[p]]

\* The document whose photo the request will delete once it has committed.
ScheduleUnlink(ds, leaving) ==
  unlinking' = [d \in Docs |->
                  IF d \in ds /\ PhotoToDelete(d, leaving) THEN unlinking[d] + 1
                                                           ELSE unlinking[d]]

StillRunning(p) == \E d \in JobOf(p) : job[d].status = "running"

StillReading(p) == \E d \in JobOf(p) : job[d].status \in Reading

Removable(p) == NotVoided(p) /\ ~StillReading(p)

\* A purchase with prices behind it is voided and kept, with its photo.
RemoveVoiding(p) ==
  /\ Removable(p)
  /\ Recorded(p)
  /\ purchase' = [purchase EXCEPT ![p].status = "voided", ![p].live = FALSE]
  /\ UNCHANGED <<photo, job, worker, unlinking, faults, uploads>>

\* One that never reached the price book is deleted, its job discarded.
RemoveDeleting(p) ==
  /\ Removable(p)
  /\ ~Recorded(p)
  /\ DeletePurchases({p})
  /\ DiscardJobs(JobOf(p))
  /\ ScheduleUnlink({purchase[p].doc}, p)
  /\ UNCHANGED <<photo, worker, faults, uploads>>

\* remove_failed_job: a receipt that could not be read, with its draft.
RemoveFailed(d) ==
  LET p == job[d].purchase IN
  /\ job[d].status = "failed"
  /\ p # None => ~Recorded(p)
  /\ DeletePurchases({p} \cap Purchases)
  /\ DiscardJobs({d})
  /\ ScheduleUnlink({d}, p)
  /\ UNCHANGED <<photo, worker, faults, uploads>>

DiscardedOnce(d) == TRUE

StillDiscarded(d) == job[d].status = "discarded"

\* delete_photo, after the removal committed: the job is locked and looked at
\* again, and the photo goes only while it is still discarded.
Unlink(d) ==
  /\ unlinking[d] > 0
  /\ unlinking' = [unlinking EXCEPT ![d] = @ - 1]
  /\ photo' = [photo EXCEPT ![d] = @ /\ ~StillDiscarded(d)]
  /\ UNCHANGED <<job, purchase, worker, faults, uploads>>

\* The request dies between the commit and the deletion: the file stays.
UnlinkLost(d) ==
  /\ unlinking[d] > 0
  /\ faults < MaxFaults
  /\ faults' = faults + 1
  /\ unlinking' = [unlinking EXCEPT ![d] = @ - 1]
  /\ UNCHANGED <<photo, job, purchase, worker, uploads>>

NeverReadAgain(p) == FALSE

\* restore_blocked: the receipt's job has gone to a newer purchase.
ReadAgain(p) == purchase[p].doc # None /\ job[purchase[p].doc].purchase # p

Restore(p) ==
  /\ purchase[p].status = "voided"
  /\ ~ReadAgain(p)
  /\ purchase' = [purchase EXCEPT ![p].status = "reviewed"]
  /\ UNCHANGED <<photo, job, worker, unlinking, faults, uploads>>

-----------------------------------------------------------------------------

WorkerStep(w) ==
  \/ ReadText(w)
  \/ \E p \in Purchases : CreateDraft(w, p)
  \/ ResolveLines(w)
  \/ ResolveDone(w)
  \/ StageFails(w)

\* What people do, and time: nothing here touches a worker.
Outside ==
  \/ \E d \in Docs : Upload(d) \/ UploadLost(d) \/ BackoffPasses(d) \/ Retry(d)
                     \/ ConvertDraft(d) \/ RemoveFailed(d) \/ Unlink(d) \/ UnlinkLost(d)
  \/ \E d \in Docs, p \in Purchases : ConvertNew(d, p)
  \/ \E p \in Purchases : EditLines(p) \/ DecideLine(p) \/ UpdateManual(p) \/ Commit(p)
                          \/ Reopen(p) \/ RemoveVoiding(p) \/ RemoveDeleting(p) \/ Restore(p)

Next ==
  \/ Outside
  \/ \E w \in Workers, d \in Docs : Claim(w, d)
  \/ \E w \in Workers : WorkerStep(w) \/ ModelUnreachable(w) \/ Crash(w)

Spec == Init /\ [][Next]_vars

\* The worker polls for ever, every stage ends (each model request, converter
\* and OCR run has a timeout) and backoff is a wall-clock time.  Claiming is
\* oldest first, so a job claimable again and again is claimed.
Fairness ==
  /\ \A w \in Workers : WF_vars(WorkerStep(w))
  /\ \A d \in Docs : WF_vars(BackoffPasses(d)) /\ SF_vars(\E w \in Workers : Claim(w, d))

FairSpec == Spec /\ Fairness

-----------------------------------------------------------------------------
(* Properties.                                                             *)

\* A job being read is changed by nobody but the worker reading it: it is still
\* running, at the stage and with the purchase the worker loaded, and no second
\* worker has it (worker.py: "several workers never collide").
OneReaderPerJob ==
  \A w \in Workers : worker[w].doc # None =>
    /\ job[worker[w].doc].status = "running"
    /\ job[worker[w].doc].stage = worker[w].seen.stage
    /\ job[worker[w].doc].purchase = worker[w].seen.purchase
    /\ \A v \in Workers \ {w} : worker[v].doc # worker[w].doc

\* A draft a reader wrote is the one its receipt's job leads to, so it can be
\* reviewed, rewritten and removed with the job (no orphan draft is left).
NoOrphanDraft ==
  \A p \in Purchases : purchase[p].status = "draft" => job[purchase[p].doc].purchase = p

\* A receipt is read into a new draft, never into the purchase an earlier reading
\* made: until its lines are read, its job leads to no purchase.
ReadsIntoNewDraft ==
  \A d \in Docs : job[d].stage \in {"captured", "ocr", "header", "lines"} => job[d].purchase = None

\* A draft a reader wrote has never reached the price book, so the removal of a
\* failed receipt can delete it (removal.py: "A draft cannot have reached the
\* price book").
ReadDraftIsUnrecorded ==
  \A p \in Purchases : purchase[p].status = "draft" /\ ~purchase[p].byHand => ~purchase[p].recorded

\* A removed purchase has no price that counts, and nothing done to its receipt
\* afterwards gives it one.
VoidedCountsNothing == \A p \in Purchases : purchase[p].status = "voided" => ~purchase[p].live

\* A receipt that is being read, or has been and was not discarded, has its
\* photo: deleting a removed receipt's photo late never takes the photo of a
\* receipt sent in again.
PhotoOfLiveReceipt ==
  \A d \in Docs : job[d].status \notin {"absent", "discarded"} => photo[d]

\* A purchase whose prices ever reached the price book is never deleted: the
\* observations are append-only and keep it as where they came from.
RecordedIsNeverDeleted ==
  [][\A p \in Purchases : purchase[p].recorded => purchase'[p].status # "deleted"]_vars

\* The price book takes a receipt once: two purchases made from one photo never
\* both have prices that count.
OncePerReceipt ==
  \A p, q \in Purchases :
    purchase[p].live /\ purchase[q].live /\ purchase[p].doc = purchase[q].doc => p = q

\* A receipt is offered for review only until its purchase is committed.
CommittedIsNotOffered ==
  \A d \in Docs : job[d].status = "needs_review" =>
    job[d].purchase # None /\ purchase[job[d].purchase].status = "draft"

\* A receipt whose purchase was removed can be read again: its job is where an
\* upload of the same file takes it up.
RemovedCanBeReadAgain ==
  \A d \in Docs : job[d].purchase # None /\ purchase[job[d].purchase].status = "voided" =>
    Removed(d)

\* Reading ends: a receipt being read is read, given up on, or taken over by a
\* person; it does not stay "being read" for ever.
ReadingEnds == \A d \in Docs : (job[d].status \in Reading) ~> (job[d].status \notin Reading)

-----------------------------------------------------------------------------
(* The promise this module keeps.                                          *)

Standing(d) ==
  CASE job[d].status = "absent" -> "unsent"
    [] job[d].status \in Reading -> "reading"
    [] job[d].status = "failed" -> "unreadable"
    [] job[d].status = "needs_review" -> "review"
    [] Removed(d) -> "removed"
    [] OTHER -> "kept"

Promise == INSTANCE ReceiptPromise WITH
  standing <- [d \in Docs |-> Standing(d)],
  counting <- [d \in Docs |-> Cardinality({p \in Purchases : purchase[p].doc = d /\ purchase[p].live})]

\* Each transaction moves one receipt along the promised path, or none.
KeepsPromise == Promise!Spec
=============================================================================
