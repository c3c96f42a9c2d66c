---------------------- MODULE ReceiptLifecycleProofs ----------------------
(***************************************************************************)
(* What is proved about ReceiptLifecycle for any number of receipts,       *)
(* purchases and workers: what holds of a row or a worker alone, and, from *)
(* one reader per job on, what ties a receipt's job, its photo and its     *)
(* purchases together; then that it implements ReceiptPromise.             *)
(***************************************************************************)
EXTENDS ReceiptLifecycle, FiniteSetTheorems, TLAPS

\* A busy worker has a job, at a stage a worker runs; an idle one has none.
WorkersHoldJobs ==
  \A w \in Workers :
    /\ (worker[w].doc = None) <=> (worker[w].step = "idle")
    /\ worker[w].step # "idle" => worker[w].seen.stage \in RunnableStages
    /\ worker[w].step = "resolved" => worker[w].seen.stage = "resolve"

-----------------------------------------------------------------------------
(* The rows have their types.                                              *)

LEMMA RowTypes ==
  /\ NoJob \in Jobs
  /\ NewJob \in Jobs
  /\ Idle \in WorkerStates
  /\ Unborn \in PurchaseRows
  /\ \A d \in Docs, manual \in BOOLEAN : Draft(d, manual) \in PurchaseRows
<1> USE AttemptsArePositive DEF Jobs, PurchaseRows, Stages, Reading, JobStatuses, Statuses
<1>1. NoJob \in Jobs
  BY DEF NoJob
<1>2. NewJob \in Jobs
  BY <1>1 DEF NewJob
<1>3. Idle \in WorkerStates
  BY <1>1 DEF Idle, WorkerStates
<1>4. Unborn \in PurchaseRows
  BY DEF Unborn
<1>5. \A d \in Docs, manual \in BOOLEAN : Draft(d, manual) \in PurchaseRows
  BY <1>4 DEF Draft
<1> QED BY <1>1, <1>2, <1>3, <1>4, <1>5

\* Counting one more failed attempt stays within the bound.
LEMMA CappedType == \A n \in 0..MaxAttempts : Capped(n + 1) \in 0..MaxAttempts
  BY AttemptsArePositive DEF Capped

\* What a finished stage writes is a job row.
LEMMA AdvancedType ==
  ASSUME TypeOK, WorkersHoldJobs, NEW w \in Workers, worker[w].step # "idle",
         NEW p \in Purchases \cup {None}
  PROVE  worker[w].doc \in Docs /\ Advanced(w, p) \in Jobs
<1> DEFINE d == worker[w].doc
           seen == worker[w].seen
<1>1. d \in Docs /\ seen \in Jobs /\ seen.stage \in RunnableStages
  BY DEF TypeOK, WorkersHoldJobs, WorkerStates
<1>2. NextStage[seen.stage] \in Stages
  BY <1>1 DEF NextStage, RunnableStages, Stages
<1>3. job[d] \in Jobs
  BY <1>1 DEF TypeOK
<1> DEFINE status == IF seen.stage = "resolve" THEN "needs_review" ELSE "pending"
           attempts == IF seen.attempts = 0 THEN job[d].attempts ELSE 0
           due == IF seen.attempts = 0 THEN job[d].due ELSE TRUE
<1>4. status \in JobStatuses /\ attempts \in 0..MaxAttempts /\ due \in BOOLEAN
  <2>1. status \in JobStatuses
    BY DEF JobStatuses, Reading
  <2>2. job[d].attempts \in 0..MaxAttempts /\ job[d].due \in BOOLEAN
    BY <1>3 DEF Jobs
  <2>3. attempts \in 0..MaxAttempts
    BY <2>2, AttemptsArePositive
  <2>4. due \in BOOLEAN
    BY <2>2
  <2> QED BY <2>1, <2>3, <2>4
<1>5. Advanced(w, p) = [job[d] EXCEPT !.stage = NextStage[seen.stage], !.status = status,
                                      !.attempts = attempts, !.due = due, !.purchase = p]
  BY DEF Advanced
<1> HIDE DEF d, seen, status, attempts, due
<1>6. Advanced(w, p) \in Jobs
  BY <1>2, <1>3, <1>4, <1>5 DEF Jobs
<1> QED BY <1>1, <1>6 DEF d

LEMMA TypeStep == TypeOK /\ WorkersHoldJobs /\ [Next]_vars => TypeOK'
<1> SUFFICES ASSUME TypeOK, WorkersHoldJobs, [Next]_vars
             PROVE  TypeOK'
  OBVIOUS
<1>1. ASSUME NEW d \in Docs, Upload(d) \/ UploadLost(d)
      PROVE  TypeOK'
  <2>1. [photo EXCEPT ![d] = TRUE] \in [Docs -> BOOLEAN]
    BY DEF TypeOK
  <2>2. [job EXCEPT ![d] = NewJob] \in [Docs -> Jobs]
    BY RowTypes DEF TypeOK
  <2>3. CASE Upload(d)
    BY <2>1, <2>2, <2>3 DEF Upload, Revived, TypeOK
  <2>4. CASE UploadLost(d)
    BY <2>1, <2>4 DEF UploadLost, TypeOK
  <2> QED BY <1>1, <2>3, <2>4
<1>2. ASSUME NEW d \in Docs, NEW w \in Workers, Claim(w, d)
      PROVE  TypeOK'
  <2>1. [job[d] EXCEPT !.status = "running"] \in Jobs
    BY DEF TypeOK, Jobs, JobStatuses, Reading
  <2>2. job' = [job EXCEPT ![d] = [job[d] EXCEPT !.status = "running"]]
    BY <1>2 DEF Claim
  <2>3. job' \in [Docs -> Jobs]
    BY <2>1, <2>2 DEF TypeOK
  <2>4. [doc |-> d, seen |-> job'[d], step |-> "working"] \in WorkerStates
    BY <2>3 DEF WorkerStates
  <2>5. worker' \in [Workers -> WorkerStates]
    BY <1>2, <2>4 DEF Claim, TypeOK
  <2> QED BY <1>2, <2>3, <2>5 DEF Claim, TypeOK
<1>3. ASSUME NEW w \in Workers, NEW p \in Purchases \cup {None},
             worker[w].step # "idle", Finish(w, p), purchase' \in [Purchases -> PurchaseRows]
      PROVE  TypeOK'
  <2>1. worker[w].doc \in Docs /\ Advanced(w, p) \in Jobs
    BY <1>3, AdvancedType
  <2> QED BY <1>3, <2>1, RowTypes DEF Finish, TypeOK
<1>4. ASSUME NEW w \in Workers, worker[w].step # "idle"
      PROVE  worker[w].doc \in Docs /\ job[worker[w].doc].purchase \in Purchases \cup {None}
  BY <1>4 DEF TypeOK, WorkersHoldJobs, WorkerStates, Jobs
<1>5. ASSUME NEW w \in Workers, ReadText(w) \/ ResolveDone(w)
      PROVE  TypeOK'
  BY <1>3, <1>4, <1>5 DEF ReadText, ResolveDone, At, TypeOK
<1>6. ASSUME NEW p \in Purchases, NEW match \in BOOLEAN
      PROVE  [purchase EXCEPT ![p].resolved = match] \in [Purchases -> PurchaseRows]
  BY DEF TypeOK, PurchaseRows
<1>8. ASSUME NEW w \in Workers, NEW p \in Purchases, CreateDraft(w, p)
      PROVE  TypeOK'
  <2>1. worker[w].step # "idle" /\ worker[w].doc \in Docs
    BY <1>4, <1>8 DEF CreateDraft, At
  <2>2. purchase' \in [Purchases -> PurchaseRows]
    BY <1>8, <2>1, RowTypes DEF CreateDraft, TypeOK
  <2> QED BY <1>3, <1>8, <2>1, <2>2 DEF CreateDraft
<1>9. ASSUME NEW w \in Workers, ResolveLines(w)
      PROVE  TypeOK'
  <2>1. worker[w].seen.purchase \in Purchases
    BY <1>9 DEF ResolveLines, TypeOK, WorkerStates, Jobs
  <2>2. purchase' \in [Purchases -> PurchaseRows]
    BY <1>6, <1>9, <2>1 DEF ResolveLines
  <2>3. worker' \in [Workers -> WorkerStates]
    BY <1>9 DEF ResolveLines, TypeOK, WorkerStates
  <2> QED BY <1>9, <2>2, <2>3 DEF ResolveLines, TypeOK
<1>10. ASSUME NEW d \in Docs, NEW row \in Jobs
       PROVE  [job EXCEPT ![d] = row] \in [Docs -> Jobs]
  BY DEF TypeOK
<1>11. ASSUME NEW w \in Workers
       PROVE  [worker EXCEPT ![w] = Idle] \in [Workers -> WorkerStates]
  BY RowTypes DEF TypeOK
<1>12. ASSUME NEW w \in Workers, StageFails(w)
       PROVE  TypeOK'
  <2> DEFINE d == worker[w].doc
             attempts == Capped(job[d].attempts + 1)
             status == IF attempts >= MaxAttempts THEN "failed" ELSE "pending"
             row == [job[d] EXCEPT !.attempts = attempts, !.status = status,
                                   !.due = attempts >= MaxAttempts]
  <2>1. d \in Docs
    BY <1>4, <1>12 DEF StageFails
  <2>2. job[d] \in Jobs /\ attempts \in 0..MaxAttempts
    BY <2>1, CappedType DEF TypeOK, Jobs
  <2>3. status \in JobStatuses
    BY DEF JobStatuses, Reading
  <2>4. (attempts >= MaxAttempts) \in BOOLEAN
    OBVIOUS
  <2>5. row \in Jobs
    <3> HIDE DEF attempts, status
    <3> QED BY <2>2, <2>3, <2>4 DEF Jobs
  <2>6. job' = [job EXCEPT ![d] = row]
    BY <1>12, <2>1 DEF StageFails, TypeOK
  <2>7. job' \in [Docs -> Jobs]
    BY <1>10, <2>1, <2>5, <2>6
  <2> QED BY <1>11, <1>12, <2>7 DEF StageFails, TypeOK
<1>13. ASSUME NEW w \in Workers, ModelUnreachable(w)
       PROVE  TypeOK'
  <2> DEFINE d == worker[w].doc
             attempts == Capped(job[d].attempts + 1)
             row == [job[d] EXCEPT !.attempts = attempts, !.status = "pending", !.due = FALSE]
  <2>1. d \in Docs
    BY <1>4, <1>13 DEF ModelUnreachable, At
  <2>2. job[d] \in Jobs /\ attempts \in 0..MaxAttempts
    BY <2>1, CappedType DEF TypeOK, Jobs
  <2>3. row \in Jobs
    <3> HIDE DEF attempts
    <3> QED BY <2>2 DEF Jobs, JobStatuses, Reading
  <2>4. job' = [job EXCEPT ![d] = row]
    BY <1>13, <2>1 DEF ModelUnreachable, TypeOK
  <2>5. job' \in [Docs -> Jobs]
    BY <1>10, <2>1, <2>3, <2>4
  <2> QED BY <1>11, <1>13, <2>5 DEF ModelUnreachable, TypeOK
<1>14. ASSUME NEW w \in Workers, Crash(w)
       PROVE  TypeOK'
  BY <1>11, <1>14 DEF Crash, TypeOK
<1>15. ASSUME NEW d \in Docs, BackoffPasses(d) \/ Retry(d)
       PROVE  TypeOK'
  <2>1. [job[d] EXCEPT !.due = TRUE] \in Jobs
    BY DEF TypeOK, Jobs
  <2>2. [job[d] EXCEPT !.status = "pending", !.attempts = 0, !.due = TRUE] \in Jobs
    <3>1. job[d] \in Jobs /\ 0 \in 0..MaxAttempts
      BY AttemptsArePositive DEF TypeOK
    <3> QED BY <3>1 DEF Jobs, JobStatuses, Reading
  <2>3. CASE BackoffPasses(d)
    BY <1>10, <2>1, <2>3 DEF BackoffPasses, TypeOK
  <2>4. CASE Retry(d)
    BY <1>10, <2>2, <2>4 DEF Retry, TypeOK
  <2> QED BY <1>15, <2>3, <2>4
<1>16. ASSUME NEW d \in Docs, NEW p \in Purchases
       PROVE  SettledBy(d, p) \in [Docs -> Jobs]
  <2>1. [job[d] EXCEPT !.stage = "committed", !.status = "done",
                       !.due = TRUE, !.purchase = p] \in Jobs
    BY DEF TypeOK, Jobs, Stages, JobStatuses, Reading
  <2>2. SettledBy(d, p) = [job EXCEPT ![d] = [job[d] EXCEPT
                             !.stage = "committed", !.status = "done",
                             !.due = TRUE, !.purchase = p]]
    BY DEF SettledBy, TypeOK
  <2> QED BY <1>10, <2>1, <2>2
<1>17. ASSUME NEW d \in Docs, ConvertDraft(d)
       PROVE  TypeOK'
  <2>1. job[d].purchase \in Purchases
    BY <1>17 DEF ConvertDraft, HasDraft, TypeOK, Jobs
  <2>2. purchase' \in [Purchases -> PurchaseRows]
    <3> DEFINE row == [purchase[job[d].purchase] EXCEPT !.byHand = TRUE, !.resolved = FALSE]
    <3>1. row \in PurchaseRows
      <4>1. PICK old \in PurchaseRows : old = purchase[job[d].purchase]
        BY <2>1 DEF TypeOK
      <4>2. [old EXCEPT !.byHand = TRUE, !.resolved = FALSE] \in PurchaseRows
        BY DEF PurchaseRows
      <4> QED
        BY <4>1, <4>2
    <3>2. purchase' = [purchase EXCEPT ![job[d].purchase] = row]
      BY <1>17, <2>1 DEF ConvertDraft, TypeOK
    <3> HIDE DEF row
    <3> QED BY <2>1, <3>1, <3>2 DEF TypeOK
  <2> QED BY <1>16, <1>17, <2>1, <2>2 DEF ConvertDraft, TypeOK
<1>18. ASSUME NEW d \in Docs, NEW p \in Purchases, ConvertNew(d, p)
       PROVE  TypeOK'
  <2>1. purchase' \in [Purchases -> PurchaseRows]
    BY <1>18, RowTypes DEF ConvertNew, TypeOK
  <2> QED BY <1>16, <1>18, <2>1 DEF ConvertNew, TypeOK
<1>19. ASSUME NEW p \in Purchases, EditLines(p) \/ DecideLine(p) \/ UpdateManual(p)
                                   \/ Reopen(p) \/ RemoveVoiding(p) \/ Restore(p)
       PROVE  TypeOK'
  <2>1. purchase[p] \in PurchaseRows
    BY DEF TypeOK
  <2>2. ASSUME NEW row \in PurchaseRows
        PROVE  [purchase EXCEPT ![p] = row] \in [Purchases -> PurchaseRows]
    BY DEF TypeOK
  <2>3. CASE EditLines(p)
    <3>1. PICK names \in BOOLEAN, live \in {FALSE, purchase[p].live} :
            purchase' = [purchase EXCEPT ![p].resolved = names, ![p].live = live]
      BY <2>3 DEF EditLines
    <3>2. live \in BOOLEAN
      BY <2>1 DEF PurchaseRows
    <3>3. [purchase[p] EXCEPT !.resolved = names, !.live = live] \in PurchaseRows
      BY <2>1, <3>2 DEF PurchaseRows
    <3>4. purchase' = [purchase EXCEPT ![p] =
                         [purchase[p] EXCEPT !.resolved = names, !.live = live]]
      BY <3>1 DEF TypeOK
    <3> QED BY <2>2, <2>3, <3>3, <3>4 DEF EditLines, TypeOK
  <2>4. CASE DecideLine(p)
    <3>1. PICK names \in BOOLEAN, live \in {FALSE, purchase[p].live} :
            purchase' = [purchase EXCEPT ![p].resolved = names,
                                         ![p].live = live \/ Emits(p, names),
                                         ![p].recorded = @ \/ Emits(p, names)]
      BY <2>4 DEF DecideLine
    <3> DEFINE counts == live \/ Emits(p, names)
               ever == purchase[p].recorded \/ Emits(p, names)
               row == [purchase[p] EXCEPT !.resolved = names, !.live = counts, !.recorded = ever]
    <3>2. counts \in BOOLEAN /\ ever \in BOOLEAN
      OBVIOUS
    <3>3. row \in PurchaseRows
      <4> HIDE DEF counts, ever
      <4> QED BY <2>1, <3>2 DEF PurchaseRows
    <3>4. purchase' = [purchase EXCEPT ![p] = row]
      BY <3>1 DEF TypeOK
    <3> HIDE DEF row
    <3> QED BY <2>2, <2>4, <3>3, <3>4 DEF DecideLine, TypeOK
  <2>5. CASE UpdateManual(p)
    BY <2>1, <2>5 DEF UpdateManual, TypeOK, PurchaseRows
  <2>6. CASE Reopen(p)
    BY <2>1, <2>6 DEF Reopen, TypeOK, PurchaseRows, Statuses
  <2>7. CASE RemoveVoiding(p)
    BY <2>1, <2>7 DEF RemoveVoiding, TypeOK, PurchaseRows, Statuses
  <2>8. CASE Restore(p)
    BY <2>1, <2>8 DEF Restore, TypeOK, PurchaseRows, Statuses
  <2> QED BY <1>19, <2>3, <2>4, <2>5, <2>6, <2>7, <2>8
<1>20. ASSUME NEW p \in Purchases, Commit(p)
       PROVE  TypeOK'
  <2>1. purchase' \in [Purchases -> PurchaseRows]
    <3> DEFINE ever == purchase[p].recorded \/ purchase[p].resolved
               row == [purchase[p] EXCEPT !.status = "committed", !.live = purchase[p].resolved,
                                          !.recorded = ever]
    <3>1. purchase[p] \in PurchaseRows /\ ever \in BOOLEAN
      BY DEF TypeOK
    <3>2. row \in PurchaseRows
      <4> HIDE DEF ever
      <4> QED BY <3>1 DEF PurchaseRows, Statuses
    <3>3. purchase' = [purchase EXCEPT ![p] = row]
      BY <1>20 DEF Commit, TypeOK
    <3> HIDE DEF row
    <3> QED BY <3>2, <3>3 DEF TypeOK
  <2>2. \A d \in Docs : [job[d] EXCEPT !.status = "done", !.stage = "committed"] \in Jobs
    BY DEF TypeOK, Jobs, Stages, JobStatuses, Reading
  <2>3. job' \in [Docs -> Jobs]
    BY <1>20, <2>2 DEF Commit, TypeOK
  <2> QED BY <1>20, <2>1, <2>3 DEF Commit, TypeOK
<1>21. ASSUME NEW ds, DiscardJobs(ds)
       PROVE  job' \in [Docs -> Jobs]
  <2>1. \A d \in Docs : Discarded(d) \in Jobs
    BY DEF Discarded, TypeOK, Jobs, JobStatuses, Reading
  <2> QED BY <1>21, <2>1 DEF DiscardJobs, TypeOK
<1>22. ASSUME NEW ps, DeletePurchases(ps)
       PROVE  purchase' \in [Purchases -> PurchaseRows]
  <2>1. [Unborn EXCEPT !.status = "deleted"] \in PurchaseRows
    BY RowTypes DEF PurchaseRows, Statuses
  <2> QED BY <1>22, <2>1 DEF DeletePurchases, TypeOK
<1>23. ASSUME NEW ds, NEW p, ScheduleUnlink(ds, p)
       PROVE  unlinking' \in [Docs -> Nat]
  BY <1>23 DEF ScheduleUnlink, TypeOK
<1>24. ASSUME NEW p \in Purchases, RemoveDeleting(p)
       PROVE  TypeOK'
  BY <1>21, <1>22, <1>23, <1>24 DEF RemoveDeleting, TypeOK
<1>25. ASSUME NEW d \in Docs, RemoveFailed(d)
       PROVE  TypeOK'
  BY <1>21, <1>22, <1>23, <1>25 DEF RemoveFailed, TypeOK
<1>26. ASSUME NEW d \in Docs, Unlink(d) \/ UnlinkLost(d)
       PROVE  TypeOK'
  <2>1. [unlinking EXCEPT ![d] = unlinking[d] - 1] \in [Docs -> Nat]
    BY <1>26 DEF Unlink, UnlinkLost, TypeOK
  <2>2. [photo EXCEPT ![d] = photo[d] /\ ~StillDiscarded(d)] \in [Docs -> BOOLEAN]
    BY DEF TypeOK
  <2>3. CASE Unlink(d)
    BY <2>1, <2>2, <2>3 DEF Unlink, TypeOK
  <2>4. CASE UnlinkLost(d)
    BY <2>1, <2>4 DEF UnlinkLost, TypeOK
  <2> QED BY <1>26, <2>3, <2>4
<1>27. CASE UNCHANGED vars
  BY <1>27 DEF vars, TypeOK
<1> QED
  BY <1>1, <1>2, <1>5, <1>8, <1>9, <1>12, <1>13, <1>14, <1>15, <1>17, <1>18, <1>19,
     <1>20, <1>24, <1>25, <1>26, <1>27 DEF Next, Outside, WorkerStep

-----------------------------------------------------------------------------
(* One reader per job.                                                     *)

\* A busy worker's document is a document.
LEMMA BusyDoc ==
  ASSUME TypeOK, WorkersHoldJobs, NEW w \in Workers
  PROVE  worker[w].step # "idle" => worker[w].doc \in Docs
  BY DEF TypeOK, WorkersHoldJobs, WorkerStates

LEMMA WorkersStep == TypeOK /\ WorkersHoldJobs /\ [Next]_vars => WorkersHoldJobs'
<1> SUFFICES ASSUME TypeOK, WorkersHoldJobs, [Next]_vars
             PROVE  WorkersHoldJobs'
  OBVIOUS
<1>1. CASE Outside \/ UNCHANGED vars
  <2>1. worker' = worker
    BY <1>1 DEF Outside, vars, Upload, UploadLost, BackoffPasses, Retry, ConvertDraft,
                RemoveFailed, Unlink, UnlinkLost, ConvertNew, EditLines, DecideLine,
                UpdateManual, Commit, Reopen, RemoveVoiding, RemoveDeleting, Restore
  <2> QED BY <2>1 DEF WorkersHoldJobs
<1>2. ASSUME NEW w \in Workers, NEW d \in Docs, Claim(w, d)
      PROVE  WorkersHoldJobs'
  <2>1. worker' = [worker EXCEPT ![w] = [doc |-> d, seen |-> job'[d], step |-> "working"]]
    BY <1>2 DEF Claim
  <2>2. job'[d].stage \in RunnableStages
    BY <1>2 DEF Claim, Claimable, TypeOK, Jobs
  <2>3. d # None
    BY NoneIsNoId
  <2> QED BY <2>1, <2>2, <2>3 DEF WorkersHoldJobs, TypeOK
<1>3. ASSUME NEW w \in Workers, worker' = [worker EXCEPT ![w] = Idle]
      PROVE  WorkersHoldJobs'
  BY <1>3 DEF WorkersHoldJobs, TypeOK, Idle
<1>4. ASSUME NEW w \in Workers, ResolveLines(w)
      PROVE  WorkersHoldJobs'
  BY <1>4 DEF ResolveLines, At, WorkersHoldJobs, TypeOK, WorkerStates
<1>5. ASSUME NEW w \in Workers, ReadText(w) \/ ResolveDone(w) \/ StageFails(w)
                                \/ ModelUnreachable(w) \/ Crash(w)
                                \/ \E p \in Purchases : CreateDraft(w, p)
      PROVE  worker' = [worker EXCEPT ![w] = Idle]
  BY <1>5 DEF ReadText, ResolveDone, StageFails, ModelUnreachable, Crash,
              CreateDraft, Finish
<1> QED BY <1>1, <1>2, <1>3, <1>4, <1>5 DEF Next, WorkerStep

\* The part of a job a worker goes by.
Untouched(d) ==
  /\ job'[d].status = job[d].status
  /\ job'[d].stage = job[d].stage
  /\ job'[d].purchase = job[d].purchase

\* People and the clock never touch a running job.
LEMMA OutsideLeavesRunning ==
  ASSUME TypeOK, Outside \/ UNCHANGED vars
  PROVE  worker' = worker /\ \A d \in Docs : job[d].status = "running" => Untouched(d)
<1>1. worker' = worker
  BY DEF Outside, vars, Upload, UploadLost, BackoffPasses, Retry, ConvertDraft,
         RemoveFailed, Unlink, UnlinkLost, ConvertNew, EditLines, DecideLine,
         UpdateManual, Commit, Reopen, RemoveVoiding, RemoveDeleting, Restore
<1>2. SUFFICES ASSUME NEW d \in Docs, job[d].status = "running"
               PROVE  Untouched(d)
  BY <1>1
<1>3. ASSUME NEW e \in Docs, Upload(e)
      PROVE  Untouched(d)
  BY <1>2, <1>3 DEF Upload, Removed, PurchaseWasRemoved, Untouched, TypeOK
<1>4. ASSUME NEW e \in Docs, BackoffPasses(e) \/ Retry(e)
      PROVE  Untouched(d)
  BY <1>2, <1>4 DEF BackoffPasses, Retry, Untouched, TypeOK, Jobs
<1>5. ASSUME NEW e \in Docs, NEW p \in Purchases, Convertible(e), job' = SettledBy(e, p)
      PROVE  Untouched(d)
  BY <1>2, <1>5 DEF Convertible, SettledBy, Untouched, TypeOK
<1>6. ASSUME NEW e \in Docs, ConvertDraft(e)
      PROVE  Untouched(d)
  <2>1. job[e].purchase \in Purchases
    BY <1>6 DEF ConvertDraft, HasDraft, TypeOK, Jobs
  <2> QED BY <1>5, <1>6, <2>1 DEF ConvertDraft
<1>7. ASSUME NEW p \in Purchases, Commit(p)
      PROVE  Untouched(d)
  BY <1>2, <1>7 DEF Commit, FinishedBy, Untouched
<1>8. ASSUME NEW p \in Purchases, RemoveDeleting(p)
      PROVE  Untouched(d)
  BY <1>2, <1>8 DEF RemoveDeleting, Removable, StillReading, Reading, DiscardJobs, Untouched
<1>9. ASSUME NEW e \in Docs, RemoveFailed(e)
      PROVE  Untouched(d)
  BY <1>2, <1>9 DEF RemoveFailed, DiscardJobs, Untouched
<1>10. CASE job' = job
  BY <1>10 DEF Untouched
<1> QED
  BY <1>3, <1>4, <1>5, <1>6, <1>7, <1>8, <1>9, <1>10
  DEF Outside, vars, UploadLost, Unlink, UnlinkLost, ConvertNew, EditLines, DecideLine,
      UpdateManual, Reopen, RemoveVoiding, Restore

\* Only SlowResolve lets a second worker take a job that is being read.
LEMMA ReaderStep ==
  ASSUME ~SlowResolve
  PROVE  TypeOK /\ WorkersHoldJobs /\ OneReaderPerJob /\ [Next]_vars => OneReaderPerJob'
<1> SUFFICES ASSUME TypeOK, WorkersHoldJobs, OneReaderPerJob, [Next]_vars
             PROVE  OneReaderPerJob'
  OBVIOUS
<1>1. CASE Outside \/ UNCHANGED vars
  <2>1. worker' = worker /\ \A d \in Docs : job[d].status = "running" => Untouched(d)
    BY <1>1, OutsideLeavesRunning
  <2>2. \A w \in Workers : worker[w].doc # None => worker[w].doc \in Docs
    BY BusyDoc DEF WorkersHoldJobs
  <2> QED BY <2>1, <2>2 DEF OneReaderPerJob, Untouched
<1>2. ASSUME NEW w \in Workers, NEW d \in Docs, Claim(w, d)
      PROVE  OneReaderPerJob'
  <2>1. \A v \in Workers : worker[v].doc # d
    <3>1. SUFFICES ASSUME NEW v \in Workers, worker[v].doc = d
                   PROVE  FALSE
      OBVIOUS
    <3>2. job[d].status = "running"
      BY <3>1, NoneIsNoId DEF OneReaderPerJob
    <3>3. LockLapsed(d)
      BY <1>2, <3>2 DEF Claim, Claimable
    <3> QED BY <3>1, <3>3 DEF LockLapsed
  <2>2. worker' = [worker EXCEPT ![w] = [doc |-> d, seen |-> job'[d], step |-> "working"]]
    BY <1>2 DEF Claim
  <2>3. job'[d].status = "running" /\ \A e \in Docs \ {d} : job'[e] = job[e]
    BY <1>2 DEF Claim, TypeOK, Jobs
  <2>4. \A v \in Workers : worker[v].doc \in Docs \cup {None}
    BY DEF TypeOK, WorkerStates
  <2> QED BY <2>1, <2>2, <2>3, <2>4, NoneIsNoId DEF OneReaderPerJob, TypeOK
<1>3. ASSUME NEW w \in Workers, worker' = [worker EXCEPT ![w] = Idle], worker[w].doc # None,
             \A e \in Docs : e # worker[w].doc => job'[e] = job[e]
      PROVE  OneReaderPerJob'
  <2>1. \A v \in Workers : worker[v].doc \in Docs \cup {None}
    BY DEF TypeOK, WorkerStates
  <2> QED BY <1>3, <2>1 DEF OneReaderPerJob, TypeOK, Idle
<1>4. ASSUME NEW w \in Workers, ResolveLines(w)
      PROVE  OneReaderPerJob'
  BY <1>4 DEF ResolveLines, OneReaderPerJob, TypeOK, WorkerStates
<1>5. ASSUME NEW w \in Workers, ReadText(w) \/ ResolveDone(w)
                                \/ \E p \in Purchases : CreateDraft(w, p)
      PROVE  worker[w].step # "idle" /\ \E p : Finish(w, p)
  BY <1>5 DEF ReadText, ResolveDone, CreateDraft, At
<1>6. ASSUME NEW w \in Workers, StageFails(w) \/ ModelUnreachable(w) \/ Crash(w)
                                \/ (worker[w].step # "idle" /\ \E p : Finish(w, p))
      PROVE  OneReaderPerJob'
  <2>1. worker' = [worker EXCEPT ![w] = Idle] /\ worker[w].step # "idle"
    BY <1>6 DEF StageFails, ModelUnreachable, Crash, Finish, At
  <2>2. \A e \in Docs : e # worker[w].doc => job'[e] = job[e]
    BY <1>6 DEF StageFails, ModelUnreachable, Crash, Finish, TypeOK
  <2> QED BY <1>3, <2>1, <2>2 DEF WorkersHoldJobs
<1> QED BY <1>1, <1>2, <1>4, <1>5, <1>6 DEF Next, WorkerStep

-----------------------------------------------------------------------------
(* What the standing of a purchase promises about its prices.              *)

StandingHonest == VoidedCountsNothing /\ ReadDraftIsUnrecorded

\* A purchase row that a step leaves alone, or gives a standing that says
\* nothing about prices, or makes anew, stays honest.
LEMMA RowStep ==
  ASSUME TypeOK, StandingHonest, NEW p \in Purchases, NEW row \in PurchaseRows,
         purchase' = [purchase EXCEPT ![p] = row],
         row.status = "voided" => ~row.live,
         row.status = "draft" /\ ~row.byHand => ~row.recorded
  PROVE  StandingHonest'
  BY DEF StandingHonest, VoidedCountsNothing, ReadDraftIsUnrecorded, TypeOK

LEMMA StandingStep == TypeOK /\ TypeOK' /\ WorkersHoldJobs /\ StandingHonest /\ [Next]_vars => StandingHonest'
<1> SUFFICES ASSUME TypeOK, TypeOK', WorkersHoldJobs, StandingHonest, [Next]_vars
             PROVE  StandingHonest'
  OBVIOUS
<1>1. CASE purchase' = purchase
  BY <1>1 DEF StandingHonest, VoidedCountsNothing, ReadDraftIsUnrecorded
<1>2. ASSUME NEW p \in Purchases, purchase' = [purchase EXCEPT ![p] = purchase'[p]],
             purchase'[p].status = "voided" => ~purchase'[p].live,
             purchase'[p].status = "draft" /\ ~purchase'[p].byHand => ~purchase'[p].recorded
      PROVE  StandingHonest'
  BY <1>2, RowStep DEF TypeOK
<1>3. \A p \in Purchases :
        /\ purchase[p].status = "voided" => ~purchase[p].live
        /\ purchase[p].status = "draft" /\ ~purchase[p].byHand => ~purchase[p].recorded
        /\ purchase[p] \in PurchaseRows
  BY DEF TypeOK, StandingHonest, VoidedCountsNothing, ReadDraftIsUnrecorded
<1>4. ASSUME NEW w \in Workers, ~(purchase' = purchase),
             ResolveLines(w) \/ \E p \in Purchases : CreateDraft(w, p)
      PROVE  StandingHonest'
  <2>1. CASE ResolveLines(w)
    <3> DEFINE p == worker[w].seen.purchase
    <3>1. p \in Purchases
      BY <2>1 DEF ResolveLines, TypeOK, WorkerStates, Jobs
    <3>2. PICK match \in BOOLEAN : purchase' = [purchase EXCEPT ![p].resolved = match]
      BY <2>1 DEF ResolveLines
    <3> HIDE DEF p
    <3> QED BY <1>2, <1>3, <3>1, <3>2 DEF TypeOK, PurchaseRows
  <2>2. ASSUME NEW p \in Purchases, CreateDraft(w, p)
        PROVE  StandingHonest'
    <3>1. purchase' = [purchase EXCEPT ![p] = Draft(worker[w].doc, FALSE)]
      BY <2>2 DEF CreateDraft
    <3>2. purchase'[p] = Draft(worker[w].doc, FALSE)
      BY <3>1 DEF TypeOK
    <3> QED BY <1>2, <3>1, <3>2 DEF Draft, Unborn
  <2> QED BY <1>4, <2>1, <2>2
<1>5. ASSUME NEW d \in Docs, ConvertDraft(d)
      PROVE  StandingHonest'
  <2>1. job[d].purchase \in Purchases
    BY <1>5 DEF ConvertDraft, HasDraft, TypeOK, Jobs
  <2>2. purchase'[job[d].purchase].byHand /\ purchase'[job[d].purchase].status = "draft"
    BY <1>5, <2>1 DEF ConvertDraft, HasDraft, TypeOK, PurchaseRows
  <2>3. purchase' = [purchase EXCEPT ![job[d].purchase] = purchase'[job[d].purchase]]
    BY <1>5, <2>1 DEF ConvertDraft, TypeOK
  <2> QED BY <1>2, <2>1, <2>2, <2>3
<1>6. ASSUME NEW d \in Docs, NEW p \in Purchases, ConvertNew(d, p)
      PROVE  StandingHonest'
  <2>1. purchase' = [purchase EXCEPT ![p] = Draft(d, TRUE)]
    BY <1>6 DEF ConvertNew
  <2>2. purchase'[p] = Draft(d, TRUE)
    BY <2>1 DEF TypeOK
  <2> QED BY <1>2, <2>1, <2>2 DEF Draft, Unborn
<1>7. ASSUME NEW p \in Purchases, EditLines(p) \/ Commit(p) \/ Reopen(p) \/ UpdateManual(p)
                                  \/ RemoveVoiding(p) \/ Restore(p)
      PROVE  StandingHonest'
  <2>1. CASE EditLines(p)
    <3>1. PICK names \in BOOLEAN, live \in {FALSE, purchase[p].live} :
            purchase' = [purchase EXCEPT ![p].resolved = names, ![p].live = live]
      BY <2>1 DEF EditLines
    <3> QED BY <1>2, <1>3, <2>1, <3>1 DEF EditLines, TypeOK, PurchaseRows
  <2>2. CASE Commit(p)
    <3> DEFINE ever == purchase[p].recorded \/ purchase[p].resolved
               row == [purchase[p] EXCEPT !.status = "committed", !.live = purchase[p].resolved,
                                          !.recorded = ever]
    <3>1. purchase' = [purchase EXCEPT ![p] = row]
      BY <2>2 DEF Commit, TypeOK
    <3>2. row.status = "committed"
      <4> HIDE DEF ever
      <4> QED BY <1>3 DEF PurchaseRows
    <3>3. purchase'[p] = row
      <4> HIDE DEF row
      <4> QED BY <3>1 DEF TypeOK
    <3> HIDE DEF row
    <3> QED BY <1>2, <3>1, <3>2, <3>3
  <2>3. CASE Reopen(p)
    BY <1>2, <1>3, <2>3 DEF Reopen, TypeOK, PurchaseRows
  <2>4. CASE UpdateManual(p)
    <3> DEFINE row == [purchase[p] EXCEPT !.resolved = TRUE, !.recorded = TRUE, !.live = TRUE]
    <3>1. purchase' = [purchase EXCEPT ![p] = row]
      BY <2>4 DEF UpdateManual, TypeOK
    <3>2. row.status = purchase[p].status /\ row.byHand
      BY <1>3, <2>4 DEF UpdateManual, PurchaseRows
    <3>3. purchase'[p] = row
      <4> HIDE DEF row
      <4> QED BY <3>1 DEF TypeOK
    <3>4. row.status # "voided"
      BY <2>4, <3>2 DEF UpdateManual, NotVoided
    <3> HIDE DEF row
    <3> QED BY <1>2, <3>1, <3>2, <3>3, <3>4
  <2>5. CASE RemoveVoiding(p)
    BY <1>2, <1>3, <2>5 DEF RemoveVoiding, TypeOK, PurchaseRows
  <2>6. CASE Restore(p)
    BY <1>2, <1>3, <2>6 DEF Restore, TypeOK, PurchaseRows
  <2> QED BY <1>7, <2>1, <2>2, <2>3, <2>4, <2>5, <2>6
<1>8. ASSUME NEW p \in Purchases, DecideLine(p)
      PROVE  StandingHonest'
  <2>1. PICK names \in BOOLEAN, live \in {FALSE, purchase[p].live} :
          purchase' = [purchase EXCEPT ![p].resolved = names,
                                       ![p].live = live \/ Emits(p, names),
                                       ![p].recorded = @ \/ Emits(p, names)]
    BY <1>8 DEF DecideLine
  <2> DEFINE counts == live \/ Emits(p, names)
             ever == purchase[p].recorded \/ Emits(p, names)
             row == [purchase[p] EXCEPT !.resolved = names, !.live = counts, !.recorded = ever]
  <2>2. purchase' = [purchase EXCEPT ![p] = row]
    BY <2>1 DEF TypeOK
  <2>3. purchase'[p] = row
    <3> HIDE DEF row
    <3> QED BY <2>2 DEF TypeOK
  <2>4. row.status = purchase[p].status /\ row.byHand = purchase[p].byHand /\ row.recorded = ever
    <3> HIDE DEF ever, counts
    <3> QED BY <1>3 DEF PurchaseRows
  <2>5. row.status # "voided"
    BY <1>8, <2>4 DEF DecideLine, NotVoided
  <2>6. row.status = "draft" => ever = purchase[p].recorded
    BY <1>3, <2>4 DEF Emits, PurchaseRows
  <2> HIDE DEF row, ever
  <2> QED BY <1>2, <1>3, <2>2, <2>3, <2>4, <2>5, <2>6
<1>9. ASSUME NEW ps, DeletePurchases(ps)
      PROVE  StandingHonest'
  BY <1>9 DEF DeletePurchases, StandingHonest, VoidedCountsNothing, ReadDraftIsUnrecorded, Unborn
<1>10. ASSUME NEW w \in Workers, NEW d \in Docs, Claim(w, d)
       PROVE  purchase' = purchase
  BY <1>10 DEF Claim
<1>11. ASSUME NEW w \in Workers, ReadText(w) \/ ResolveDone(w) \/ StageFails(w)
                                 \/ ModelUnreachable(w) \/ Crash(w)
       PROVE  purchase' = purchase
  BY <1>11 DEF ReadText, ResolveDone, StageFails, ModelUnreachable, Crash
<1>12. CASE Outside
  <2>1. \A e \in Docs : Upload(e) \/ UploadLost(e) \/ BackoffPasses(e) \/ Retry(e)
                        \/ Unlink(e) \/ UnlinkLost(e) => purchase' = purchase
    BY DEF Upload, UploadLost, BackoffPasses, Retry, Unlink, UnlinkLost
  <2> QED BY <1>1, <1>5, <1>6, <1>7, <1>8, <1>9, <1>12, <2>1 DEF Outside, RemoveDeleting, RemoveFailed
<1>13. CASE UNCHANGED vars
  BY <1>1, <1>13 DEF vars
<1> QED BY <1>1, <1>4, <1>10, <1>11, <1>12, <1>13 DEF Next, WorkerStep

-----------------------------------------------------------------------------
(* The theorems.                                                           *)

LEMMA InitHolds == Init => TypeOK /\ WorkersHoldJobs /\ OneReaderPerJob
<1> SUFFICES ASSUME Init
             PROVE  TypeOK /\ WorkersHoldJobs /\ OneReaderPerJob
  OBVIOUS
<1>1. TypeOK
  BY RowTypes DEF Init, TypeOK
<1>2. \A w \in Workers : worker[w].doc = None /\ worker[w].step = "idle"
  BY DEF Init, Idle
<1> QED BY <1>1, <1>2 DEF WorkersHoldJobs, OneReaderPerJob

LEMMA TypesAlways == Spec => [](TypeOK /\ WorkersHoldJobs)
<1>1. Init => TypeOK /\ WorkersHoldJobs
  BY InitHolds
<1>2. TypeOK /\ WorkersHoldJobs /\ [Next]_vars => (TypeOK /\ WorkersHoldJobs)'
  BY TypeStep, WorkersStep
<1> QED BY <1>1, <1>2, PTL DEF Spec

\* Every row keeps its type, whatever people, workers and crashes do: a stage
\* name written where a status belongs (both are plain strings in the code) or
\* an attempt count past its limit would break it.
THEOREM TypeCorrect == Spec => []TypeOK
  BY TypesAlways, PTL

\* While only the bounded stages can be slow, two workers never hold one job,
\* and no request changes the status, stage or purchase of a job under the
\* worker reading it.
THEOREM WorkersNeverCollide ==
  ASSUME ~SlowResolve
  PROVE  Spec => []OneReaderPerJob
<1>1. Init => OneReaderPerJob
  BY InitHolds
<1>2. TypeOK /\ WorkersHoldJobs /\ OneReaderPerJob /\ [Next]_vars => OneReaderPerJob'
  BY ReaderStep
<1> QED BY <1>1, <1>2, TypesAlways, PTL DEF Spec

\* A voided purchase has no price that counts, and a draft a reader wrote has
\* none on record at all: the removal of a failed receipt deletes nothing the
\* price book came from.
THEOREM StandingsAreHonest == Spec => [](VoidedCountsNothing /\ ReadDraftIsUnrecorded)
<1>1. Init => StandingHonest
  BY DEF Init, Unborn, StandingHonest, VoidedCountsNothing, ReadDraftIsUnrecorded
<1>2. TypeOK /\ TypeOK' /\ WorkersHoldJobs /\ StandingHonest /\ [Next]_vars => StandingHonest'
  BY StandingStep
<1>3. StandingHonest <=> VoidedCountsNothing /\ ReadDraftIsUnrecorded
  BY DEF StandingHonest
<1> QED BY <1>1, <1>2, <1>3, TypesAlways, PTL DEF Spec
-----------------------------------------------------------------------------
(* A receipt's job, its photo and its purchases.                           *)
(*                                                                         *)
(* Kept is the inductive invariant.  Its part Settled is what holds when   *)
(* people commit only what Home offers.                                    *)

Early == {"captured", "ocr", "header", "lines"}

Gone == {"absent", "discarded"}

\* A job leads to a purchase of its own receipt once its lines are read, and to
\* none before; and a receipt that was not discarded has its photo.
JobKept(d) ==
  LET p == job[d].purchase IN
  /\ job[d].stage \in Early \/ job[d].status \in Gone => p = None
  /\ job[d].status \notin Gone => photo[d] /\ (job[d].stage \notin Early => p # None)
  /\ job[d].status = "needs_review" => job[d].stage = "review"
  /\ p # None => purchase[p].doc = d /\ Exists(p)

\* A draft is where its receipt's job leads.
PurchaseKept(p) ==
  /\ ~Exists(p) => ~purchase[p].live /\ ~purchase[p].recorded
  /\ Exists(p) => purchase[p].doc \in Docs
  /\ purchase[p].status = "draft" => job[purchase[p].doc].purchase = p

\* A purchase row that is more than what a reader has drafted.
Past(row) == row.status # "draft" \/ row.recorded \/ row.byHand

\* A job whose purchase has gone on is done, and a receipt has one open purchase.
Settled ==
  ~EarlyCommits =>
    /\ \A d \in Docs : job[d].purchase # None /\ Past(purchase[job[d].purchase]) => job[d].status = "done"
    /\ \A p \in Purchases : NotVoided(p) => job[purchase[p].doc].purchase = p

Kept == (\A d \in Docs : JobKept(d)) /\ (\A p \in Purchases : PurchaseKept(p)) /\ Settled

Sound == TypeOK /\ WorkersHoldJobs /\ OneReaderPerJob

-----------------------------------------------------------------------------
(* The kinds of step.                                                      *)

\* A job is being read, fails, is retried or comes to review.
LEMMA JobMoves ==
  ASSUME TypeOK, Kept, NEW d \in Docs, UNCHANGED <<photo, purchase>>,
         \A e \in Docs \ {d} : job'[e] = job[e],
         job'[d].purchase = job[d].purchase,
         job[d].status \notin Gone \cup {"done"}, job'[d].status \notin Gone \cup {"done"},
         job[d].stage \in Early <=> job'[d].stage \in Early,
         job'[d].status = "needs_review" => job'[d].stage = "review"
  PROVE  Kept'
<1>1. ASSUME NEW e \in Docs PROVE JobKept(e)'
  BY <1>1 DEF Kept, JobKept, Exists
<1>2. ASSUME NEW p \in Purchases PROVE PurchaseKept(p)'
  BY DEF Kept, PurchaseKept, Exists
<1>3. Settled'
  <2>1. \A e \in Docs : job'[e].purchase = job[e].purchase /\ (job[e].status = "done" => job'[e].status = "done")
    OBVIOUS
  <2>2. \A p \in Purchases : NotVoided(p) => purchase[p].doc \in Docs
    BY DEF Kept, PurchaseKept, Exists, NotVoided
  <2> QED
    BY <2>1, <2>2 DEF Kept, Settled, NotVoided
<1> QED
  BY <1>1, <1>2, <1>3 DEF Kept

\* Nothing about jobs changes, and a row that is there stays there.
LEMMA RowMoves ==
  ASSUME TypeOK, Kept, NEW p \in Purchases, NEW row, purchase' = [purchase EXCEPT ![p] = row],
         UNCHANGED <<photo, job>>, Exists(p), row.status \notin {"unborn", "deleted"},
         row.doc = purchase[p].doc, row.status = "draft" => purchase[p].status = "draft",
         ~EarlyCommits /\ Past(row)
           => Past(purchase[p]) \/ job[row.doc].purchase # p \/ job[row.doc].status = "done",
         ~EarlyCommits /\ row.status \in {"draft", "reviewed", "committed"}
           => NotVoided(p) \/ job[row.doc].purchase = p
  PROVE  Kept'
<1>1. purchase'[p] = row /\ \A q \in Purchases \ {p} : purchase'[q] = purchase[q]
  BY DEF TypeOK
<1>2. \A d \in Docs : job[d].purchase \in Purchases \cup {None}
  BY DEF TypeOK, Jobs
<1>3. ASSUME NEW d \in Docs PROVE JobKept(d)'
  BY <1>1, <1>2 DEF Kept, JobKept, Exists
<1>4. ASSUME NEW q \in Purchases PROVE PurchaseKept(q)'
  BY <1>1 DEF Kept, PurchaseKept, Exists
<1>5. Settled'
  <2> SUFFICES ASSUME ~EarlyCommits
               PROVE  /\ \A d \in Docs : job[d].purchase # None /\ Past(purchase'[job[d].purchase]) => job[d].status = "done"
                      /\ \A q \in Purchases : NotVoided(q)' => job[purchase'[q].doc].purchase = q
    BY DEF Settled
  <2>1. ASSUME NEW d \in Docs, job[d].purchase # None, Past(purchase'[job[d].purchase]) PROVE job[d].status = "done"
    <3>1. CASE job[d].purchase = p
      BY <1>1, <2>1, <3>1 DEF Kept, Settled, JobKept
    <3>2. CASE job[d].purchase # p
      BY <1>1, <1>2, <2>1, <3>2 DEF Kept, Settled
    <3> QED
      BY <3>1, <3>2
  <2>2. ASSUME NEW q \in Purchases, NotVoided(q)' PROVE job[purchase'[q].doc].purchase = q
    BY <1>1, <2>2 DEF Kept, Settled, NotVoided
  <2> QED
    BY <2>1, <2>2
<1> QED
  BY <1>3, <1>4, <1>5 DEF Kept

\* The rows a step changes: one purchase, one job.
LEMMA NewPurchase ==
  ASSUME TypeOK, Kept, NEW d \in Docs, NEW p \in Purchases, purchase[p].status = "unborn",
         NEW manual \in BOOLEAN, purchase' = [purchase EXCEPT ![p] = Draft(d, manual)],
         UNCHANGED photo, \A e \in Docs \ {d} : job'[e] = job[e],
         ~HasDraft(d), job[d].status \notin Gone \cup {"done"},
         job'[d].purchase = p, job'[d].status \notin Gone \cup {"needs_review"},
         job'[d].stage \notin Early, manual => job'[d].status = "done"
  PROVE  Kept'
<1>1. /\ Draft(d, manual).status = "draft" /\ Draft(d, manual).doc = d
      /\ Draft(d, manual).byHand = manual /\ ~Draft(d, manual).recorded
  BY DEF Draft, Unborn
<1>2. purchase'[p] = Draft(d, manual) /\ \A q \in Purchases \ {p} : purchase'[q] = purchase[q]
  BY DEF TypeOK
<1>3. \A e \in Docs : job[e].purchase \in Purchases \cup {None} /\ job[e].purchase # p
  BY NoneIsNoId DEF TypeOK, Jobs, Kept, JobKept, Exists
<1>4. p # None
  BY NoneIsNoId
<1>5. ASSUME NEW e \in Docs PROVE JobKept(e)'
  <2>1. CASE e = d
    BY <1>1, <1>2, <1>4, <2>1 DEF Kept, JobKept, Exists
  <2>2. CASE e # d
    BY <1>2, <1>3, <2>2 DEF Kept, JobKept, Exists
  <2> QED
    BY <2>1, <2>2
\* The receipt had no draft.
<1>6. ASSUME NEW q \in Purchases \ {p}, purchase[q].doc = d PROVE purchase[q].status # "draft"
  BY <1>6, NoneIsNoId DEF Kept, PurchaseKept, HasDraft
<1>7. ASSUME NEW q \in Purchases PROVE PurchaseKept(q)'
  <2>1. CASE q = p
    BY <1>1, <1>2, <2>1 DEF PurchaseKept, Exists
  <2>2. CASE q # p
    BY <1>2, <1>6, <2>2 DEF Kept, PurchaseKept, Exists
  <2> QED
    BY <2>1, <2>2
<1>8. Settled'
  <2> SUFFICES ASSUME ~EarlyCommits
               PROVE  /\ \A e \in Docs : job'[e].purchase # None /\ Past(purchase'[job'[e].purchase]) => job'[e].status = "done"
                      /\ \A q \in Purchases : NotVoided(q)' => job'[purchase'[q].doc].purchase = q
    BY DEF Settled
  <2>1. ASSUME NEW e \in Docs, job'[e].purchase # None, Past(purchase'[job'[e].purchase]) PROVE job'[e].status = "done"
    <3>1. CASE e = d
      BY <1>1, <1>2, <2>1, <3>1 DEF Past
    <3>2. CASE e # d
      BY <1>2, <1>3, <2>1, <3>2 DEF Kept, Settled
    <3> QED
      BY <3>1, <3>2
  <2>2. ASSUME NEW q \in Purchases, NotVoided(q)' PROVE job'[purchase'[q].doc].purchase = q
    <3>1. CASE q = p
      BY <1>1, <1>2, <3>1
    <3>2. CASE q # p
      <4>1. NotVoided(q) /\ job[purchase[q].doc].purchase = q /\ purchase[q].doc \in Docs
        BY <1>2, <2>2, <3>2 DEF NotVoided, Kept, Settled, PurchaseKept, Exists
      <4>2. purchase[q].doc # d
        <5> SUFFICES ASSUME purchase[q].doc = d PROVE FALSE
          OBVIOUS
        <5>1. Past(purchase[q])
          BY <1>6, <3>2 DEF Past
        <5> QED
          BY <4>1, <5>1, NoneIsNoId DEF Kept, Settled
      <4> QED
        BY <1>2, <3>2, <4>1, <4>2
    <3> QED
      BY <3>1, <3>2
  <2> QED
    BY <2>1, <2>2
<1> QED
  BY <1>5, <1>7, <1>8 DEF Kept

\* A receipt is discarded with its purchase, or starts over after that.
LEMMA JobEmptied ==
  ASSUME TypeOK, Kept, NEW d \in Docs, \A e \in Docs \ {d} : job'[e] = job[e] /\ photo'[e] = photo[e],
         job'[d].purchase = None,
         job'[d].status = "discarded" \/ (job'[d].status = "pending" /\ job'[d].stage = "captured" /\ photo'[d]),
         \/ UNCHANGED purchase
            /\ (job[d].purchase # None => purchase[job[d].purchase].status = "voided")
         \/ DeletePurchases({job[d].purchase} \cap Purchases)
  PROVE  Kept'
<1>1. \A e \in Docs : job[e].purchase \in Purchases \cup {None}
  BY DEF TypeOK, Jobs
<1>2. \A e \in Docs \ {d} : job[e].purchase # None => job[e].purchase # job[d].purchase
  BY DEF Kept, JobKept
<1>3. ASSUME NEW q \in Purchases
      PROVE  \/ purchase'[q] = purchase[q] /\ (q = job[d].purchase => purchase[q].status = "voided")
             \/ q = job[d].purchase /\ purchase'[q] = [Unborn EXCEPT !.status = "deleted"]
  <2>1. CASE UNCHANGED purchase /\ (job[d].purchase # None => purchase[job[d].purchase].status = "voided")
    BY <2>1, NoneIsNoId
  <2>2. CASE DeletePurchases({job[d].purchase} \cap Purchases)
    BY <2>2 DEF DeletePurchases
  <2> QED
    BY <2>1, <2>2
<1>4. LET row == [Unborn EXCEPT !.status = "deleted"]
      IN row.status = "deleted" /\ ~row.live /\ ~row.recorded
  BY DEF Unborn
<1>5. ASSUME NEW e \in Docs PROVE JobKept(e)'
  <2>1. CASE e = d
    BY <2>1 DEF JobKept, Early, Gone
  <2>2. CASE e # d
    BY <1>1, <1>2, <1>3, <2>2 DEF Kept, JobKept, Exists
  <2> QED
    BY <2>1, <2>2
<1>6. ASSUME NEW q \in Purchases PROVE PurchaseKept(q)'
  <2>1. CASE purchase'[q] = purchase[q] /\ (q = job[d].purchase => purchase[q].status = "voided")
    BY <2>1 DEF Kept, PurchaseKept, Exists
  <2>2. CASE purchase'[q] = [Unborn EXCEPT !.status = "deleted"]
    BY <1>4, <2>2 DEF PurchaseKept, Exists
  <2> QED
    BY <1>3, <2>1, <2>2
<1>7. Settled'
  <2> SUFFICES ASSUME ~EarlyCommits
               PROVE  /\ \A e \in Docs : job'[e].purchase # None /\ Past(purchase'[job'[e].purchase]) => job'[e].status = "done"
                      /\ \A q \in Purchases : NotVoided(q)' => job'[purchase'[q].doc].purchase = q
    BY DEF Settled
  <2>1. ASSUME NEW e \in Docs, job'[e].purchase # None, Past(purchase'[job'[e].purchase]) PROVE job'[e].status = "done"
    <3>1. e # d /\ purchase'[job[e].purchase] = purchase[job[e].purchase]
      BY <1>1, <1>2, <1>3, <2>1
    <3> QED
      BY <2>1, <3>1 DEF Kept, Settled
  <2>2. ASSUME NEW q \in Purchases, NotVoided(q)' PROVE job'[purchase'[q].doc].purchase = q
    <3>1. purchase'[q] = purchase[q] /\ NotVoided(q) /\ q # job[d].purchase
      BY <1>3, <1>4, <2>2 DEF NotVoided
    <3>2. job[purchase[q].doc].purchase = q /\ purchase[q].doc \in Docs
      BY <3>1 DEF NotVoided, Kept, Settled, PurchaseKept, Exists
    <3> QED
      BY <3>1, <3>2
  <2> QED
    BY <2>1, <2>2
<1> QED
  BY <1>5, <1>6, <1>7 DEF Kept

\* A purchase that no receipt leads to any more is deleted.
LEMMA StrayDeleted ==
  ASSUME TypeOK, Kept, NEW p \in Purchases, \A e \in Docs : job[e].purchase # p,
         DeletePurchases({p}), UNCHANGED <<job, photo>>
  PROVE  Kept'
<1>1. /\ purchase'[p] = [Unborn EXCEPT !.status = "deleted"]
      /\ \A q \in Purchases \ {p} : purchase'[q] = purchase[q]
  BY DEF DeletePurchases
<1>2. LET row == [Unborn EXCEPT !.status = "deleted"]
      IN row.status = "deleted" /\ ~row.live /\ ~row.recorded
  BY DEF Unborn
<1>3. \A e \in Docs : job[e].purchase \in Purchases \cup {None}
  BY DEF TypeOK, Jobs
<1>4. ASSUME NEW e \in Docs PROVE JobKept(e)'
  BY <1>1, <1>3 DEF Kept, JobKept, Exists
<1>5. ASSUME NEW q \in Purchases PROVE PurchaseKept(q)'
  BY <1>1, <1>2 DEF Kept, PurchaseKept, Exists
<1>6. Settled'
  BY <1>1, <1>2, <1>3 DEF Kept, Settled, NotVoided
<1> QED
  BY <1>4, <1>5, <1>6 DEF Kept

\* A photo is stored or deleted, and nothing else.
LEMMA PhotoMoves ==
  ASSUME Kept, UNCHANGED <<job, purchase>>, \A d \in Docs : job[d].status \notin Gone => photo'[d]
  PROVE  Kept'
<1>1. ASSUME NEW d \in Docs PROVE JobKept(d)'
  BY DEF Kept, JobKept, Exists
<1>2. ASSUME NEW p \in Purchases PROVE PurchaseKept(p)'
  BY DEF Kept, PurchaseKept, Exists
<1>3. Settled'
  BY DEF Kept, Settled, NotVoided
<1> QED
  BY <1>1, <1>2, <1>3 DEF Kept

-----------------------------------------------------------------------------
(* The worker's steps.                                                     *)

\* The job a worker is at is running, where the worker thinks it is.
LEMMA AtItsJob ==
  ASSUME Sound, NEW w \in Workers, worker[w].step # "idle"
  PROVE  LET d == worker[w].doc IN
         /\ d \in Docs /\ job[d].status = "running" /\ job[d].stage = worker[w].seen.stage
         /\ job[d].purchase = worker[w].seen.purchase /\ job[d] \in Jobs
         /\ job[d].stage \in RunnableStages
  BY BusyDoc DEF Sound, OneReaderPerJob, WorkersHoldJobs, TypeOK

LEMMA AdvancedFields ==
  ASSUME Sound, NEW w \in Workers, worker[w].step # "idle", NEW p \in Purchases \cup {None}, Finish(w, p)
  PROVE  LET d == worker[w].doc IN
         /\ \A e \in Docs \ {d} : job'[e] = job[e]
         /\ job'[d].stage = NextStage[job[d].stage] /\ job'[d].purchase = p
         /\ job'[d].status = IF job[d].stage = "resolve" THEN "needs_review" ELSE "pending"
         /\ UNCHANGED photo
<1> DEFINE d == worker[w].doc
           seen == worker[w].seen
           status == IF seen.stage = "resolve" THEN "needs_review" ELSE "pending"
           attempts == IF seen.attempts = 0 THEN job[d].attempts ELSE 0
           due == IF seen.attempts = 0 THEN job[d].due ELSE TRUE
           row == [job[d] EXCEPT !.stage = NextStage[seen.stage], !.status = status,
                                 !.attempts = attempts, !.due = due, !.purchase = p]
<1>1. d \in Docs /\ job[d] \in Jobs /\ job[d].stage = seen.stage
  BY AtItsJob
<1>2. job' = [job EXCEPT ![d] = row] /\ UNCHANGED photo
  BY DEF Finish, Advanced
<1>3. row.stage = NextStage[seen.stage] /\ row.status = status /\ row.purchase = p
  <2> HIDE DEF status, attempts, due, d, seen
  <2> QED
    BY <1>1 DEF Jobs
<1>4. job'[d] = row /\ \A e \in Docs \ {d} : job'[e] = job[e]
  <2> HIDE DEF row, d
  <2> QED
    BY <1>1, <1>2 DEF Sound, TypeOK
<1> QED
  BY <1>1, <1>2, <1>3, <1>4

LEMMA FinishKeeps ==
  ASSUME Sound, Kept, NEW w \in Workers, ReadText(w) \/ ResolveDone(w)
  PROVE  Kept'
<1> DEFINE d == worker[w].doc
<1>1. /\ worker[w].step # "idle" /\ Finish(w, job[d].purchase) /\ UNCHANGED purchase
      /\ worker[w].seen.stage \in {"captured", "ocr", "header", "resolve"}
  BY DEF ReadText, ResolveDone, At, Sound, WorkersHoldJobs
<1>2. d \in Docs /\ job[d].status = "running" /\ job[d].stage = worker[w].seen.stage /\ job[d] \in Jobs
  BY <1>1, AtItsJob
<1>3. job[d].purchase \in Purchases \cup {None}
  BY <1>2 DEF Jobs
<1>4. /\ \A e \in Docs \ {d} : job'[e] = job[e]
      /\ job'[d].stage = NextStage[job[d].stage] /\ job'[d].purchase = job[d].purchase
      /\ job'[d].status = IF job[d].stage = "resolve" THEN "needs_review" ELSE "pending"
      /\ UNCHANGED photo
  BY <1>1, <1>3, AdvancedFields
<1>5. /\ job[d].stage \in Early <=> job'[d].stage \in Early
      /\ job'[d].status = "needs_review" => job'[d].stage = "review"
      /\ job'[d].status \notin Gone \cup {"done"}
  BY <1>1, <1>2, <1>4 DEF NextStage, Early, Gone
<1> HIDE DEF d
<1> QED
  BY <1>1, <1>2, <1>4, <1>5, JobMoves DEF Sound, Gone

LEMMA CreateKeeps ==
  ASSUME Sound, Kept, NEW w \in Workers, NEW p \in Purchases, CreateDraft(w, p)
  PROVE  Kept'
<1> DEFINE d == worker[w].doc
<1>1. /\ worker[w].step # "idle" /\ Finish(w, p) /\ purchase[p].status = "unborn"
      /\ worker[w].seen.purchase = None /\ worker[w].seen.stage = "lines"
      /\ purchase' = [purchase EXCEPT ![p] = Draft(d, FALSE)]
  BY DEF CreateDraft, At, Fresh
<1>2. /\ d \in Docs /\ job[d].status = "running" /\ job[d].stage = "lines" /\ job[d].purchase = None
  BY <1>1, AtItsJob
<1>3. /\ \A e \in Docs \ {d} : job'[e] = job[e]
      /\ job'[d].stage = "resolve" /\ job'[d].purchase = p /\ job'[d].status = "pending"
      /\ UNCHANGED photo
  BY <1>1, <1>2, AdvancedFields DEF NextStage
<1> HIDE DEF d
<1> QED
  BY <1>1, <1>2, <1>3, NewPurchase DEF Sound, HasDraft, Early, Gone

\* A claim, a failure, an outage, a retry and the passing of time.
LEMMA OpenJobKeeps ==
  ASSUME Sound, Kept,
         \/ \E w \in Workers, d \in Docs : Claim(w, d)
         \/ \E w \in Workers : StageFails(w) \/ ModelUnreachable(w)
         \/ \E d \in Docs : Retry(d) \/ BackoffPasses(d)
  PROVE  Kept'
<1>1. ASSUME NEW d \in Docs, UNCHANGED <<photo, purchase>>,
             \A e \in Docs \ {d} : job'[e] = job[e],
             job'[d].purchase = job[d].purchase, job'[d].stage = job[d].stage,
             job[d].status \in {"pending", "running", "failed"}, job'[d].status \in {"pending", "running", "failed"}
      PROVE  Kept'
  BY <1>1, JobMoves DEF Sound, Gone
<1>2. \A d \in Docs : job[d] \in Jobs
  BY DEF Sound, TypeOK
<1>3. ASSUME NEW w \in Workers, NEW d \in Docs, Claim(w, d) PROVE Kept'
  <2>1. job' = [job EXCEPT ![d] = [job[d] EXCEPT !.status = "running"]] /\ job[d].status \in Reading
    BY <1>3 DEF Claim, Claimable, Reading
  <2> QED
    BY <1>1, <1>2, <1>3, <2>1 DEF Claim, Sound, TypeOK, Jobs, Reading
<1>4. ASSUME NEW w \in Workers, StageFails(w) PROVE Kept'
  <2> DEFINE d == worker[w].doc
             attempts == Capped(job[d].attempts + 1)
             status == IF attempts >= MaxAttempts THEN "failed" ELSE "pending"
             row == [job[d] EXCEPT !.attempts = attempts, !.status = status, !.due = attempts >= MaxAttempts]
  <2>1. d \in Docs /\ job[d].status = "running"
    BY <1>4, AtItsJob DEF StageFails
  <2>2. job' = [job EXCEPT ![d] = row] /\ UNCHANGED <<photo, purchase>>
    BY <1>4, <2>1 DEF StageFails, Sound, TypeOK
  <2>3. row.status = status /\ row.stage = job[d].stage /\ row.purchase = job[d].purchase
    <3> HIDE DEF attempts, status
    <3> QED
      BY <1>2, <2>1 DEF Jobs
  <2> HIDE DEF row, attempts
  <2> QED
    BY <1>1, <2>1, <2>2, <2>3 DEF Sound, TypeOK
<1>5. ASSUME NEW w \in Workers, ModelUnreachable(w) PROVE Kept'
  <2> DEFINE d == worker[w].doc
             attempts == Capped(job[d].attempts + 1)
             row == [job[d] EXCEPT !.attempts = attempts, !.status = "pending", !.due = FALSE]
  <2>1. d \in Docs /\ job[d].status = "running"
    BY <1>5, AtItsJob DEF ModelUnreachable, At
  <2>2. job' = [job EXCEPT ![d] = row] /\ UNCHANGED <<photo, purchase>>
    BY <1>5, <2>1 DEF ModelUnreachable, Sound, TypeOK
  <2>3. row.status = "pending" /\ row.stage = job[d].stage /\ row.purchase = job[d].purchase
    <3> HIDE DEF attempts
    <3> QED
      BY <1>2, <2>1 DEF Jobs
  <2> HIDE DEF row
  <2> QED
    BY <1>1, <2>1, <2>2, <2>3 DEF Sound, TypeOK
<1>6. ASSUME NEW d \in Docs, Retry(d) PROVE Kept'
  <2>1. job' = [job EXCEPT ![d] = [job[d] EXCEPT !.status = "pending", !.attempts = 0, !.due = TRUE]]
    BY <1>6 DEF Retry, Sound, TypeOK
  <2>2. /\ job'[d].status = "pending" /\ job'[d].stage = job[d].stage /\ job'[d].purchase = job[d].purchase
        /\ \A e \in Docs \ {d} : job'[e] = job[e]
    BY <1>2, <2>1 DEF Sound, TypeOK, Jobs
  <2> QED
    BY <1>1, <1>6, <2>2 DEF Retry
<1>7. ASSUME NEW d \in Docs, BackoffPasses(d) PROVE Kept'
  <2>1. \A e \in Docs : job'[e].status = job[e].status /\ job'[e].stage = job[e].stage
                        /\ job'[e].purchase = job[e].purchase
    BY <1>2, <1>7 DEF BackoffPasses, Sound, TypeOK, Jobs
  <2>2. ASSUME NEW e \in Docs PROVE JobKept(e)'
    BY <1>7, <2>1 DEF BackoffPasses, Kept, JobKept, Exists
  <2>3. ASSUME NEW p \in Purchases PROVE PurchaseKept(p)'
    BY <1>7, <2>1 DEF BackoffPasses, Kept, PurchaseKept, Exists
  <2>4. \A p \in Purchases : NotVoided(p) => purchase[p].doc \in Docs
    BY DEF Kept, PurchaseKept, Exists, NotVoided
  <2>5. Settled'
    BY <1>7, <2>1, <2>4 DEF BackoffPasses, Kept, Settled, NotVoided
  <2> QED
    BY <2>2, <2>3, <2>5 DEF Kept
<1> QED
  BY <1>3, <1>4, <1>5, <1>6, <1>7

-----------------------------------------------------------------------------
(* What people do with a purchase.                                         *)

\* Resolving names products on the draft's lines.
LEMMA ResolveKeeps ==
  ASSUME Sound, Kept, NEW w \in Workers, ResolveLines(w)
  PROVE  Kept'
<1> DEFINE p == worker[w].seen.purchase
<1>1. p \in Purchases /\ Exists(p) /\ UNCHANGED <<photo, job>>
  BY DEF ResolveLines, Sound, TypeOK, WorkerStates, Jobs
<1>2. PICK match \in BOOLEAN : purchase' = [purchase EXCEPT ![p].resolved = match]
  BY DEF ResolveLines
<1> DEFINE row == [purchase[p] EXCEPT !.resolved = match]
<1>3. purchase' = [purchase EXCEPT ![p] = row] /\ purchase[p] \in PurchaseRows
  BY <1>1, <1>2 DEF Sound, TypeOK
<1>4. /\ row.status = purchase[p].status /\ row.doc = purchase[p].doc
      /\ row.byHand = purchase[p].byHand /\ row.recorded = purchase[p].recorded
  BY <1>3 DEF PurchaseRows
<1> HIDE DEF p, row
<1> QED
  BY <1>1, <1>3, <1>4, RowMoves DEF Sound, Exists, Past, NotVoided

\* Editing and deciding lines, the entry form, reopening, voiding and restoring.
LEMMA PurchaseKeeps ==
  ASSUME Sound, Kept, NEW p \in Purchases,
         EditLines(p) \/ DecideLine(p) \/ UpdateManual(p) \/ Reopen(p) \/ RemoveVoiding(p) \/ Restore(p)
  PROVE  Kept'
<1>1. /\ TypeOK /\ purchase[p] \in PurchaseRows /\ Exists(p) /\ UNCHANGED <<photo, job>>
      /\ purchase[p].doc \in Docs
  <2>1. Exists(p) /\ UNCHANGED <<photo, job>>
    BY DEF EditLines, DecideLine, UpdateManual, Reopen, RemoveVoiding, Restore, Removable, NotVoided, Exists
  <2> QED
    BY <2>1 DEF Sound, TypeOK, Kept, PurchaseKept
\* A row whose standing and provenance stay what they are.
<1>2. ASSUME NEW row, purchase' = [purchase EXCEPT ![p] = row],
             row.status = purchase[p].status, row.doc = purchase[p].doc, row.byHand = purchase[p].byHand,
             row.recorded = purchase[p].recorded \/ Past(purchase[p]), NotVoided(p)
      PROVE  Kept'
  BY <1>1, <1>2, RowMoves DEF Exists, Past, NotVoided
<1>3. CASE EditLines(p)
  <2>1. PICK names \in BOOLEAN, live \in {FALSE, purchase[p].live} :
          purchase' = [purchase EXCEPT ![p].resolved = names, ![p].live = live]
    BY <1>3 DEF EditLines
  <2> DEFINE row == [purchase[p] EXCEPT !.resolved = names, !.live = live]
  <2>2. purchase' = [purchase EXCEPT ![p] = row]
    BY <1>1, <2>1 DEF TypeOK
  <2>3. /\ row.status = purchase[p].status /\ row.doc = purchase[p].doc
        /\ row.byHand = purchase[p].byHand /\ row.recorded = purchase[p].recorded
    BY <1>1 DEF PurchaseRows
  <2> HIDE DEF row
  <2> QED
    BY <1>1, <1>2, <1>3, <2>2, <2>3 DEF EditLines, NotVoided
<1>4. CASE DecideLine(p)
  <2>1. PICK names \in BOOLEAN, live \in {FALSE, purchase[p].live} :
          purchase' = [purchase EXCEPT ![p].resolved = names,
                                       ![p].live = live \/ Emits(p, names),
                                       ![p].recorded = @ \/ Emits(p, names)]
    BY <1>4 DEF DecideLine
  <2> DEFINE counts == live \/ Emits(p, names)
             ever == purchase[p].recorded \/ Emits(p, names)
             row == [purchase[p] EXCEPT !.resolved = names, !.live = counts, !.recorded = ever]
  <2>2. purchase' = [purchase EXCEPT ![p] = row]
    BY <1>1, <2>1 DEF TypeOK
  <2>3. /\ row.status = purchase[p].status /\ row.doc = purchase[p].doc
        /\ row.byHand = purchase[p].byHand /\ row.recorded = ever
    <3> HIDE DEF counts, ever
    <3> QED
      BY <1>1 DEF PurchaseRows
  <2>4. purchase[p].status = "committed" => Past(purchase[p])
    BY DEF Past
  <2>5. CASE Emits(p, names)
    BY <1>1, <1>4, <2>2, <2>3, <2>4, <2>5, RowMoves DEF DecideLine, Emits, Exists, NotVoided
  <2>6. CASE ~Emits(p, names)
    <3>1. Past(row) <=> Past(purchase[p])
      BY <2>3, <2>6 DEF Past
    <3> HIDE DEF row
    <3> QED
      BY <1>1, <1>4, <2>2, <2>3, <3>1, RowMoves DEF DecideLine, Exists, NotVoided
  <2> QED
    BY <2>5, <2>6
<1>5. CASE UpdateManual(p)
  <2> DEFINE row == [purchase[p] EXCEPT !.resolved = TRUE, !.recorded = TRUE, !.live = TRUE]
  <2>1. purchase' = [purchase EXCEPT ![p] = row]
    BY <1>1, <1>5 DEF UpdateManual, TypeOK
  <2>2. row.status = purchase[p].status /\ row.doc = purchase[p].doc
    BY <1>1 DEF PurchaseRows
  <2>3. Past(purchase[p]) /\ NotVoided(p)
    BY <1>5 DEF UpdateManual, Past
  <2> HIDE DEF row
  <2> QED
    BY <1>1, <2>1, <2>2, <2>3, RowMoves DEF Exists
<1>6. CASE Reopen(p) \/ RemoveVoiding(p)
  <2>1. Past(purchase[p]) /\ NotVoided(p)
    BY <1>6 DEF Reopen, RemoveVoiding, Removable, Recorded, Past, NotVoided
  <2>2. PICK row : /\ purchase' = [purchase EXCEPT ![p] = row] /\ row.status \in {"reviewed", "voided"}
                   /\ row.doc = purchase[p].doc
    <3>1. CASE Reopen(p)
      <4> DEFINE row == [purchase[p] EXCEPT !.status = "reviewed"]
      <4>1. purchase' = [purchase EXCEPT ![p] = row] /\ row.status = "reviewed" /\ row.doc = purchase[p].doc
        BY <1>1, <3>1 DEF Reopen, PurchaseRows, TypeOK
      <4> HIDE DEF row
      <4> QED
        BY <4>1
    <3>2. CASE RemoveVoiding(p)
      <4> DEFINE row == [purchase[p] EXCEPT !.status = "voided", !.live = FALSE]
      <4>1. purchase' = [purchase EXCEPT ![p] = row] /\ row.status = "voided" /\ row.doc = purchase[p].doc
        BY <1>1, <3>2 DEF RemoveVoiding, PurchaseRows, TypeOK
      <4> HIDE DEF row
      <4> QED
        BY <4>1
    <3> QED
      BY <1>6, <3>1, <3>2
  <2> QED
    BY <1>1, <2>1, <2>2, RowMoves
<1>7. CASE Restore(p)
  <2> DEFINE row == [purchase[p] EXCEPT !.status = "reviewed"]
  <2>1. purchase' = [purchase EXCEPT ![p] = row] /\ row.status = "reviewed" /\ row.doc = purchase[p].doc
    BY <1>1, <1>7 DEF Restore, PurchaseRows, TypeOK
  <2>2. Past(purchase[p]) /\ job[purchase[p].doc].purchase = p
    BY <1>1, <1>7, NoneIsNoId DEF Restore, ReadAgain, Past
  <2> HIDE DEF row
  <2> QED
    BY <1>1, <2>1, <2>2, RowMoves
<1> QED
  BY <1>3, <1>4, <1>5, <1>6, <1>7

\* Committing finishes the job that waits for review.
LEMMA CommitKeeps ==
  ASSUME Sound, Kept, NEW p \in Purchases, Commit(p)
  PROVE  Kept'
<1> DEFINE ever == purchase[p].recorded \/ purchase[p].resolved
           row == [purchase[p] EXCEPT !.status = "committed", !.live = purchase[p].resolved, !.recorded = ever]
<1>1. TypeOK /\ purchase[p] \in PurchaseRows /\ NotVoided(p) /\ Exists(p) /\ UNCHANGED photo
  BY DEF Sound, TypeOK, Commit, NotVoided, Exists
<1>2. purchase' = [purchase EXCEPT ![p] = row]
  BY <1>1 DEF Commit, TypeOK
<1>3. row.status = "committed" /\ row.doc = purchase[p].doc
  <2> HIDE DEF ever
  <2> QED
    BY <1>1 DEF PurchaseRows
<1> HIDE DEF row
<1>4. purchase'[p] = row /\ \A q \in Purchases \ {p} : purchase'[q] = purchase[q]
  BY <1>1, <1>2 DEF TypeOK
<1>5. ASSUME NEW d \in Docs
      PROVE  /\ job'[d].purchase = job[d].purchase
             /\ \/ job'[d].status = job[d].status /\ job'[d].stage = job[d].stage
                   /\ (job[d].purchase = p => job[d].status # "needs_review")
                \/ /\ job[d].purchase = p /\ job[d].status = "needs_review"
                   /\ job'[d].status = "done" /\ job'[d].stage = "committed"
  <2>1. job[d] \in Jobs
    BY <1>1 DEF TypeOK
  <2>2. job'[d] = IF d \in FinishedBy(p) THEN [job[d] EXCEPT !.status = "done", !.stage = "committed"]
                                          ELSE job[d]
    BY DEF Commit
  <2>3. d \in FinishedBy(p) <=> job[d].purchase = p /\ job[d].status = "needs_review"
    BY DEF FinishedBy, JobOf
  <2> QED
    BY <2>1, <2>2, <2>3 DEF Jobs
<1>6. \A d \in Docs : job[d].purchase \in Purchases \cup {None}
  BY <1>1 DEF TypeOK, Jobs
<1>7. ASSUME NEW d \in Docs PROVE JobKept(d)'
  <2>1. JobKept(d) /\ (job[d].purchase # None => job[d].purchase \in Purchases)
    BY <1>6 DEF Kept
  <2>2. job[d].purchase # None => purchase'[job[d].purchase].doc = d /\ Exists(job[d].purchase)'
    <3>1. CASE job[d].purchase = p
      BY <1>1, <1>3, <1>4, <1>5, <2>1, <3>1 DEF JobKept, Exists
    <3>2. CASE job[d].purchase # p
      BY <1>4, <1>5, <2>1, <3>2 DEF JobKept, Exists
    <3> QED
      BY <3>1, <3>2
  <2>3. CASE job'[d].status = job[d].status /\ job'[d].stage = job[d].stage
    BY <1>1, <1>5, <2>1, <2>2, <2>3 DEF JobKept
  <2>4. CASE job[d].purchase = p /\ job[d].status = "needs_review"
             /\ job'[d].status = "done" /\ job'[d].stage = "committed"
    BY <1>1, <1>5, <2>1, <2>2, <2>4, NoneIsNoId DEF JobKept, Early, Gone
  <2> QED
    BY <1>5, <2>3, <2>4
<1>8. ASSUME NEW q \in Purchases PROVE PurchaseKept(q)'
  <2>1. CASE q = p
    BY <1>1, <1>3, <1>4, <2>1 DEF Kept, PurchaseKept, Exists
  <2>2. CASE q # p
    <3>1. purchase'[q] = purchase[q] /\ PurchaseKept(q)
      BY <1>4, <2>2 DEF Kept
    <3>2. Exists(q) => job'[purchase[q].doc].purchase = job[purchase[q].doc].purchase
      BY <1>5, <3>1 DEF PurchaseKept
    <3> QED
      BY <3>1, <3>2 DEF PurchaseKept, Exists
  <2> QED
    BY <2>1, <2>2
<1>9. Settled'
  <2> SUFFICES ASSUME ~EarlyCommits
               PROVE  /\ \A d \in Docs : job'[d].purchase # None /\ Past(purchase'[job'[d].purchase]) => job'[d].status = "done"
                      /\ \A q \in Purchases : NotVoided(q)' => job'[purchase'[q].doc].purchase = q
    BY DEF Settled
  <2>1. ASSUME NEW d \in Docs, job'[d].purchase # None, Past(purchase'[job'[d].purchase]) PROVE job'[d].status = "done"
    <3>1. CASE job[d].purchase = p
      <4>1. job[d].status \notin Reading \cup {"failed"}
        BY <3>1 DEF Commit, Ready, JobOf
      <4>2. job[d].status \notin Gone
        BY <1>5, <2>1 DEF Kept, JobKept
      <4>3. job[d].status \in {"needs_review", "done"}
        BY <1>1, <4>1, <4>2 DEF TypeOK, Jobs, JobStatuses, Gone
      <4> QED
        BY <1>5, <3>1, <4>3
    <3>2. CASE job[d].purchase # p
      <4>1. job[d].purchase # None /\ Past(purchase[job[d].purchase])
        BY <1>4, <1>5, <1>6, <2>1, <3>2
      <4>2. job[d].status = "done"
        BY <4>1 DEF Kept, Settled
      <4> QED
        BY <1>5, <4>2
    <3> QED
      BY <3>1, <3>2
  <2>2. ASSUME NEW q \in Purchases, NotVoided(q)' PROVE job'[purchase'[q].doc].purchase = q
    <3>1. NotVoided(q) /\ purchase'[q].doc = purchase[q].doc
      BY <1>1, <1>3, <1>4, <2>2 DEF NotVoided
    <3>2. job[purchase[q].doc].purchase = q /\ purchase[q].doc \in Docs
      BY <3>1 DEF Kept, Settled, PurchaseKept, Exists, NotVoided
    <3> QED
      BY <1>5, <3>1, <3>2
  <2> QED
    BY <2>1, <2>2
<1> QED
  BY <1>7, <1>8, <1>9 DEF Kept

-----------------------------------------------------------------------------
(* Uploading, entering by hand, removing.                                  *)

\* A receipt sent in again starts over with its photo stored.
LEMMA UploadKeeps ==
  ASSUME Sound, Kept, NEW d \in Docs, Upload(d)
  PROVE  Kept'
<1>1. job' = [job EXCEPT ![d] = NewJob] /\ photo' = [photo EXCEPT ![d] = TRUE] /\ UNCHANGED purchase
  BY DEF Upload, Revived
<1>2. NewJob.status = "pending" /\ NewJob.stage = "captured" /\ NewJob.purchase = None
  BY DEF NewJob, NoJob
<1>3. /\ \A e \in Docs \ {d} : job'[e] = job[e] /\ photo'[e] = photo[e]
      /\ job'[d] = NewJob /\ photo'[d]
  BY <1>1 DEF Sound, TypeOK
<1>4. job[d].purchase # None => purchase[job[d].purchase].status = "voided"
  BY DEF Upload, Removed, PurchaseWasRemoved, Kept, JobKept, Gone
<1> QED
  BY <1>1, <1>2, <1>3, <1>4, JobEmptied DEF Sound

\* A photo is stored before its rows are, and deleted only once its receipt is
\* still discarded.
LEMMA PhotoKeeps ==
  ASSUME Sound, Kept, NEW d \in Docs, UploadLost(d) \/ Unlink(d) \/ UnlinkLost(d)
  PROVE  Kept'
<1>1. UNCHANGED <<job, purchase>>
  BY DEF UploadLost, Unlink, UnlinkLost
<1>2. ASSUME NEW e \in Docs, job[e].status \notin Gone PROVE photo'[e]
  <2>1. photo[e]
    BY <1>2 DEF Kept, JobKept
  <2> QED
    BY <1>2, <2>1 DEF UploadLost, Unlink, UnlinkLost, StillDiscarded, Gone, Sound, TypeOK
<1> QED
  BY <1>1, <1>2, PhotoMoves

\* The reader's draft becomes the one entered by hand.
LEMMA ConvertDraftKeeps ==
  ASSUME Sound, Kept, NEW d \in Docs, ConvertDraft(d)
  PROVE  Kept'
<1> DEFINE p == job[d].purchase
           row == [purchase[p] EXCEPT !.byHand = TRUE, !.resolved = FALSE]
           settled == [job[d] EXCEPT !.stage = "committed", !.status = "done", !.due = TRUE, !.purchase = p]
<1>1. /\ p \in Purchases /\ p # None /\ purchase[p].status = "draft" /\ UNCHANGED photo
      /\ job[d].status \notin Gone
      /\ job[d] \in Jobs /\ purchase[p] \in PurchaseRows
  BY DEF ConvertDraft, Convertible, HasDraft, Gone, Sound, TypeOK, Jobs
<1>2. purchase' = [purchase EXCEPT ![p] = row] /\ job' = [job EXCEPT ![d] = settled]
  BY <1>1 DEF ConvertDraft, SettledBy, Sound, TypeOK
<1>3. /\ row.status = "draft" /\ row.doc = purchase[p].doc
      /\ row.live = purchase[p].live /\ row.recorded = purchase[p].recorded
      /\ settled.stage = "committed" /\ settled.status = "done" /\ settled.purchase = p
  BY <1>1 DEF Jobs, PurchaseRows
<1> HIDE DEF row, settled
<1>4. /\ purchase'[p] = row /\ \A q \in Purchases \ {p} : purchase'[q] = purchase[q]
      /\ job'[d] = settled /\ \A e \in Docs \ {d} : job'[e] = job[e]
  BY <1>1, <1>2 DEF Sound, TypeOK
<1>5. \A e \in Docs : /\ job'[e].purchase = job[e].purchase
                      /\ job[e].purchase \in Purchases \cup {None}
                      /\ e # d => job[e].purchase # p
  BY <1>1, <1>3, <1>4 DEF Kept, JobKept, Sound, TypeOK, Jobs
<1> HIDE DEF p
<1>6. ASSUME NEW e \in Docs PROVE JobKept(e)'
  <2>1. CASE e = d
    BY <1>1, <1>3, <1>4, <2>1 DEF p, Kept, JobKept, Early, Gone, Exists
  <2>2. CASE e # d
    BY <1>4, <1>5, <1>1, <2>2 DEF Kept, JobKept, Exists
  <2> QED
    BY <2>1, <2>2
<1>7. ASSUME NEW q \in Purchases PROVE PurchaseKept(q)'
  <2>1. PurchaseKept(q) /\ purchase'[q].doc = purchase[q].doc /\ purchase'[q].status = purchase[q].status
        /\ purchase'[q].live = purchase[q].live /\ purchase'[q].recorded = purchase[q].recorded
    BY <1>1, <1>3, <1>4 DEF Kept
  <2>2. Exists(q) => job'[purchase[q].doc].purchase = job[purchase[q].doc].purchase
    BY <1>5, <2>1 DEF PurchaseKept
  <2>3. purchase[q].status = "draft" => Exists(q)
    BY DEF Exists
  <2> QED
    BY <2>1, <2>2, <2>3 DEF PurchaseKept, Exists
<1>8. Settled'
  <2> SUFFICES ASSUME ~EarlyCommits
               PROVE  /\ \A e \in Docs : job'[e].purchase # None /\ Past(purchase'[job'[e].purchase]) => job'[e].status = "done"
                      /\ \A q \in Purchases : NotVoided(q)' => job'[purchase'[q].doc].purchase = q
    BY DEF Settled
  <2>1. ASSUME NEW e \in Docs, job'[e].purchase # None, Past(purchase'[job'[e].purchase]) PROVE job'[e].status = "done"
    <3>1. CASE e = d
      BY <1>3, <1>4, <3>1
    <3>2. CASE e # d
      BY <1>4, <1>5, <2>1, <3>2 DEF Kept, Settled
    <3> QED
      BY <3>1, <3>2
  <2>2. ASSUME NEW q \in Purchases, NotVoided(q)' PROVE job'[purchase'[q].doc].purchase = q
    <3>1. NotVoided(q) /\ purchase'[q].doc = purchase[q].doc
      BY <1>1, <1>3, <1>4, <2>2 DEF NotVoided
    <3>2. job[purchase[q].doc].purchase = q /\ purchase[q].doc \in Docs
      BY <3>1 DEF Kept, Settled, PurchaseKept, Exists, NotVoided
    <3> QED
      BY <1>5, <3>1, <3>2
  <2> QED
    BY <2>1, <2>2
<1> QED
  BY <1>6, <1>7, <1>8 DEF Kept

\* Without a draft, a new purchase is made.
LEMMA ConvertNewKeeps ==
  ASSUME Sound, Kept, NEW d \in Docs, NEW p \in Purchases, ConvertNew(d, p)
  PROVE  Kept'
<1>1. /\ purchase[p].status = "unborn" /\ purchase' = [purchase EXCEPT ![p] = Draft(d, TRUE)]
      /\ UNCHANGED photo /\ ~HasDraft(d) /\ job[d].status \notin Gone \cup {"done"} /\ job[d] \in Jobs
  BY DEF ConvertNew, Convertible, Fresh, Gone, Sound, TypeOK
<1> DEFINE settled == [job[d] EXCEPT !.stage = "committed", !.status = "done", !.due = TRUE, !.purchase = p]
<1>2. job' = [job EXCEPT ![d] = settled]
  BY DEF ConvertNew, SettledBy, Sound, TypeOK
<1>3. settled.stage = "committed" /\ settled.status = "done" /\ settled.purchase = p
  BY <1>1 DEF Jobs
<1> HIDE DEF settled
<1>4. job'[d] = settled /\ \A e \in Docs \ {d} : job'[e] = job[e]
  BY <1>2 DEF Sound, TypeOK
<1>5. job'[d].stage \notin Early /\ job'[d].status \notin Gone \cup {"needs_review"}
  BY <1>3, <1>4 DEF Early, Gone
<1> QED
  BY <1>1, <1>3, <1>4, <1>5, NewPurchase DEF Sound

LEMMA DiscardedFields ==
  ASSUME Sound, NEW ds, DiscardJobs(ds), NEW e \in Docs
  PROVE  IF e \in ds THEN job'[e].status = "discarded" /\ job'[e].purchase = None ELSE job'[e] = job[e]
<1>1. job[e] \in Jobs /\ job'[e] = IF e \in ds THEN Discarded(e) ELSE job[e]
  BY DEF DiscardJobs, Sound, TypeOK
<1> QED
  BY <1>1 DEF Discarded, Jobs

\* Deleting a purchase discards the one job that leads to it, if any does.
LEMMA RemoveDeletingKeeps ==
  ASSUME Sound, Kept, NEW p \in Purchases, RemoveDeleting(p)
  PROVE  Kept'
<1>1. DeletePurchases({p}) /\ DiscardJobs(JobOf(p)) /\ UNCHANGED photo /\ p # None
  BY NoneIsNoId DEF RemoveDeleting
<1>2. CASE \E d \in Docs : job[d].purchase = p
  <2>1. PICK d \in Docs : job[d].purchase = p
    BY <1>2
  <2>2. JobOf(p) = {d}
    BY <1>1, <2>1 DEF JobOf, Kept, JobKept
  <2>3. {job[d].purchase} \cap Purchases = {p}
    BY <2>1
  <2>4. job'[d].status = "discarded" /\ job'[d].purchase = None /\ \A e \in Docs \ {d} : job'[e] = job[e]
    BY <1>1, <2>2, DiscardedFields
  <2> QED
    BY <1>1, <2>3, <2>4, JobEmptied DEF Sound
<1>3. CASE \A d \in Docs : job[d].purchase # p
  <2>1. JobOf(p) = {}
    BY <1>3 DEF JobOf
  <2>2. job' = job
    BY <1>1, <2>1 DEF DiscardJobs, Sound, TypeOK
  <2> QED
    BY <1>1, <1>3, <2>2, StrayDeleted DEF Sound
<1> QED
  BY <1>2, <1>3

LEMMA RemoveFailedKeeps ==
  ASSUME Sound, Kept, NEW d \in Docs, RemoveFailed(d)
  PROVE  Kept'
<1>1. DeletePurchases({job[d].purchase} \cap Purchases) /\ DiscardJobs({d}) /\ UNCHANGED photo
  BY DEF RemoveFailed
<1>2. job'[d].status = "discarded" /\ job'[d].purchase = None /\ \A e \in Docs \ {d} : job'[e] = job[e]
  BY <1>1, DiscardedFields
<1> QED
  BY <1>1, <1>2, JobEmptied DEF Sound

-----------------------------------------------------------------------------
(* The invariant.                                                          *)

LEMMA KeptInit == Init => Kept
<1> SUFFICES ASSUME Init PROVE Kept
  OBVIOUS
<1>1. /\ \A d \in Docs : job[d].status = "absent" /\ job[d].stage = "captured" /\ job[d].purchase = None
      /\ \A p \in Purchases : purchase[p].status = "unborn" /\ ~purchase[p].live /\ ~purchase[p].recorded
  BY DEF Init, NoJob, Unborn
<1>2. \A d \in Docs : JobKept(d)
  BY <1>1 DEF JobKept, Early, Gone
<1>3. \A p \in Purchases : PurchaseKept(p)
  BY <1>1 DEF PurchaseKept, Exists
<1>4. Settled
  BY <1>1 DEF Settled, NotVoided
<1> QED
  BY <1>2, <1>3, <1>4 DEF Kept

LEMMA KeptStep ==
  ASSUME Sound, Kept, [Next]_vars
  PROVE  Kept'
<1>1. CASE UNCHANGED vars
  BY <1>1, PhotoMoves DEF vars, Kept, JobKept
<1>2. ASSUME NEW w \in Workers, Crash(w) PROVE Kept'
  <2>1. UNCHANGED <<photo, job, purchase>>
    BY <1>2 DEF Crash
  <2> QED
    BY <2>1, PhotoMoves DEF Kept, JobKept
<1>3. ASSUME NEW w \in Workers, WorkerStep(w) PROVE Kept'
  BY <1>3, FinishKeeps, CreateKeeps, ResolveKeeps, OpenJobKeeps DEF WorkerStep
<1>4. CASE Outside
  BY <1>4, UploadKeeps, PhotoKeeps, OpenJobKeeps, ConvertDraftKeeps, ConvertNewKeeps,
     RemoveFailedKeeps, RemoveDeletingKeeps, PurchaseKeeps, CommitKeeps DEF Outside
<1> QED
  BY <1>1, <1>2, <1>3, <1>4, OpenJobKeeps DEF Next

LEMMA KeptAlways ==
  ASSUME ~SlowResolve
  PROVE  Spec => [](Sound /\ Kept)
<1>1. Init => Sound /\ Kept
  BY InitHolds, KeptInit DEF Sound
<1>2. Sound /\ Kept /\ [Next]_vars => (Sound /\ Kept)'
  BY KeptStep, TypeStep, WorkersStep, ReaderStep DEF Sound
<1> QED
  BY <1>1, <1>2, PTL DEF Spec

-----------------------------------------------------------------------------
(* The theorems.                                                           *)

LEMMA KeptSays == Kept => ReadsIntoNewDraft /\ NoOrphanDraft /\ PhotoOfLiveReceipt
  BY DEF Kept, JobKept, PurchaseKept, Early, Gone, ReadsIntoNewDraft, NoOrphanDraft, PhotoOfLiveReceipt

\* A job whose lines are not read yet leads to no purchase, whatever crashes,
\* retries and removals came before: reading a receipt again never writes into a
\* purchase somebody has worked on, as long as no resolve stage outlasts its lock.
THEOREM ReceiptsAreReadAfresh ==
  ASSUME ~SlowResolve
  PROVE  Spec => []ReadsIntoNewDraft
  BY KeptSays, KeptAlways, PTL

\* Every draft is where its receipt's job leads, so none is left that nobody is
\* shown, as long as no resolve stage outlasts its lock.
THEOREM DraftsAreReached ==
  ASSUME ~SlowResolve
  PROVE  Spec => []NoOrphanDraft
  BY KeptSays, KeptAlways, PTL

\* A receipt that was not discarded has its photo, however late the deletion of
\* an earlier removal comes, as long as no resolve stage outlasts its lock.
THEOREM PhotosAreThere ==
  ASSUME ~SlowResolve
  PROVE  Spec => []PhotoOfLiveReceipt
  BY KeptSays, KeptAlways, PTL

\* A commit never leaves two purchases of one photo counting, a receipt whose
\* purchase went on is not offered for review, and one whose purchase was removed
\* can be read again: as long as people commit only what Home offers.
LEMMA SettledSays ==
  ASSUME ~EarlyCommits, TypeOK, VoidedCountsNothing, Kept
  PROVE  OncePerReceipt /\ CommittedIsNotOffered /\ RemovedCanBeReadAgain
<1>1. OncePerReceipt
  <2> SUFFICES ASSUME NEW p \in Purchases, NEW q \in Purchases,
                      purchase[p].live, purchase[q].live, purchase[p].doc = purchase[q].doc
               PROVE  p = q
    BY DEF OncePerReceipt
  <2>1. ASSUME NEW r \in Purchases, purchase[r].live PROVE NotVoided(r)
    BY <2>1 DEF VoidedCountsNothing, Kept, PurchaseKept, Exists, NotVoided, TypeOK, PurchaseRows, Statuses
  <2> QED
    BY <2>1 DEF Kept, Settled
<1>2. CommittedIsNotOffered
  <2> SUFFICES ASSUME NEW d \in Docs, job[d].status = "needs_review"
               PROVE  job[d].purchase # None /\ purchase[job[d].purchase].status = "draft"
    BY DEF CommittedIsNotOffered
  <2>1. job[d].purchase # None
    BY DEF Kept, JobKept, Early, Gone
  <2> QED
    BY <2>1 DEF Kept, Settled, Past
<1>3. RemovedCanBeReadAgain
  BY DEF Kept, Settled, Past, RemovedCanBeReadAgain, Removed, PurchaseWasRemoved
<1> QED
  BY <1>1, <1>2, <1>3

LEMMA SettledAlways ==
  ASSUME ~SlowResolve, ~EarlyCommits
  PROVE  Spec => [](OncePerReceipt /\ CommittedIsNotOffered /\ RemovedCanBeReadAgain)
<1>1. Sound /\ Kept /\ VoidedCountsNothing => OncePerReceipt /\ CommittedIsNotOffered /\ RemovedCanBeReadAgain
  BY SettledSays DEF Sound
<1> QED
  BY <1>1, KeptAlways, StandingsAreHonest, PTL

\* The price book never takes a receipt twice, as long as no resolve stage outlasts
\* its lock and nobody commits a draft whose job is still open: of the purchases of
\* one photo at most one has prices that count.  Neither can be left out: a late
\* ResolveDone offers a committed receipt for review again, where entering it by
\* hand makes a second purchase of it; and an early commit leaves an open job.
THEOREM BookTakesReceiptOnce ==
  ASSUME ~SlowResolve, ~EarlyCommits
  PROVE  Spec => []OncePerReceipt
  BY SettledAlways, PTL

\* What Home offers for review leads to a draft, under the same two assumptions.
THEOREM OnlyDraftsAreOffered ==
  ASSUME ~SlowResolve, ~EarlyCommits
  PROVE  Spec => []CommittedIsNotOffered
  BY SettledAlways, PTL

\* A receipt whose purchase was removed is not left waiting for a reader or a
\* review: taking its photo in again reads it from the start, under the same two
\* assumptions.
THEOREM RemovedAreReadAgain ==
  ASSUME ~SlowResolve, ~EarlyCommits
  PROVE  Spec => []RemovedCanBeReadAgain
  BY SettledAlways, PTL

\* A step that deletes a purchase deletes one that was never in the price book.
LEMMA DeletesUnrecorded ==
  ASSUME Sound, Kept, [Next]_vars, NEW p \in Purchases, purchase[p].recorded
  PROVE  purchase'[p].status # "deleted"
<1>1. purchase[p].status \notin {"unborn", "deleted"} /\ purchase[p] \in PurchaseRows
  BY DEF Sound, TypeOK, Kept, PurchaseKept, Exists
<1>2. CASE purchase' = purchase
  BY <1>1, <1>2
<1>3. ASSUME NEW q \in Purchases, NEW row, purchase' = [purchase EXCEPT ![q] = row],
             q = p => row.status # "deleted"
      PROVE  purchase'[p].status # "deleted"
  BY <1>1, <1>3 DEF Sound, TypeOK
<1>4. ASSUME NEW q \in Purchases, NEW d \in Docs \cup {None}, NEW manual \in BOOLEAN,
             purchase' = [purchase EXCEPT ![q] = Draft(d, manual)]
      PROVE  purchase'[p].status # "deleted"
  <2>1. Draft(d, manual).status # "deleted"
    BY DEF Draft, Unborn
  <2> QED
    BY <1>3, <1>4, <2>1
\* Updating fields other than the standing.
<1>5. ASSUME NEW w \in Workers, ResolveLines(w) PROVE purchase'[p].status = purchase[p].status
  BY <1>1, <1>5 DEF ResolveLines, Sound, TypeOK, PurchaseRows
<1>6. ASSUME NEW q \in Purchases, RemoveDeleting(q) PROVE purchase'[p] = purchase[p]
  BY <1>6 DEF RemoveDeleting, Recorded, DeletePurchases
<1>7. ASSUME NEW d \in Docs, RemoveFailed(d) PROVE purchase'[p] = purchase[p]
  BY <1>7, NoneIsNoId DEF RemoveFailed, Recorded, DeletePurchases
<1>8. ASSUME NEW d \in Docs, ConvertDraft(d) PROVE purchase'[p].status # "deleted"
  BY <1>1, <1>8 DEF ConvertDraft, HasDraft, Sound, TypeOK, PurchaseRows
<1>9. ASSUME NEW q \in Purchases,
             EditLines(q) \/ DecideLine(q) \/ UpdateManual(q) \/ Commit(q) \/ Reopen(q)
               \/ RemoveVoiding(q) \/ Restore(q)
      PROVE  purchase'[p].status # "deleted"
  <2>1. \A r \in Purchases : r # q => purchase'[r] = purchase[r]
    BY <1>9 DEF EditLines, DecideLine, UpdateManual, Commit, Reopen, RemoveVoiding, Restore, Sound, TypeOK
  <2>2. CASE q = p
    <3>1. CASE EditLines(p)
      BY <1>1, <3>1 DEF EditLines, Sound, TypeOK, PurchaseRows
    <3>2. CASE DecideLine(p)
      <4>1. PICK names \in BOOLEAN, live \in {FALSE, purchase[p].live} :
              purchase' = [purchase EXCEPT ![p].resolved = names,
                                           ![p].live = live \/ Emits(p, names),
                                           ![p].recorded = @ \/ Emits(p, names)]
        BY <3>2 DEF DecideLine
      <4> DEFINE counts == live \/ Emits(p, names)
                 ever == purchase[p].recorded \/ Emits(p, names)
                 row == [purchase[p] EXCEPT !.resolved = names, !.live = counts, !.recorded = ever]
      <4>2. purchase' = [purchase EXCEPT ![p] = row]
        BY <4>1 DEF Sound, TypeOK
      <4>3. row.status = purchase[p].status
        <5> HIDE DEF counts, ever
        <5> QED
          BY <1>1 DEF PurchaseRows
      <4> HIDE DEF row
      <4> QED
        BY <1>1, <1>3, <4>2, <4>3
    <3>3. CASE UpdateManual(p)
      BY <1>1, <3>3 DEF UpdateManual, Sound, TypeOK, PurchaseRows
    <3>4. CASE Commit(p)
      <4> DEFINE ever == purchase[p].recorded \/ purchase[p].resolved
                 row == [purchase[p] EXCEPT !.status = "committed", !.live = purchase[p].resolved,
                                            !.recorded = ever]
      <4>1. purchase' = [purchase EXCEPT ![p] = row]
        BY <3>4 DEF Commit, Sound, TypeOK
      <4>2. row.status = "committed"
        <5> HIDE DEF ever
        <5> QED
          BY <1>1 DEF PurchaseRows
      <4> HIDE DEF row
      <4> QED
        BY <1>3, <4>1, <4>2
    <3>5. CASE Reopen(p) \/ RemoveVoiding(p) \/ Restore(p)
      BY <1>1, <3>5 DEF Reopen, RemoveVoiding, Restore, Sound, TypeOK, PurchaseRows
    <3> QED
      BY <1>9, <2>2, <3>1, <3>2, <3>3, <3>4, <3>5
  <2> QED
    BY <1>1, <2>1, <2>2
<1>10. ASSUME NEW w \in Workers, NEW q \in Purchases, CreateDraft(w, q) PROVE purchase'[p].status # "deleted"
  <2>1. worker[w].doc \in Docs \cup {None}
    BY DEF Sound, TypeOK, WorkerStates
  <2> QED
    BY <1>4, <1>10, <2>1 DEF CreateDraft
<1>11. ASSUME NEW d \in Docs, NEW q \in Purchases, ConvertNew(d, q) PROVE purchase'[p].status # "deleted"
  BY <1>4, <1>11 DEF ConvertNew
<1>12. ASSUME NEW w \in Workers,
              \/ \E d \in Docs : Claim(w, d)
              \/ ReadText(w) \/ ResolveDone(w) \/ StageFails(w) \/ ModelUnreachable(w) \/ Crash(w)
       PROVE  purchase' = purchase
  BY <1>12 DEF Claim, ReadText, ResolveDone, StageFails, ModelUnreachable, Crash
<1>13. ASSUME NEW d \in Docs,
              Upload(d) \/ UploadLost(d) \/ BackoffPasses(d) \/ Retry(d) \/ Unlink(d) \/ UnlinkLost(d)
       PROVE  purchase' = purchase
  BY <1>13 DEF Upload, UploadLost, BackoffPasses, Retry, Unlink, UnlinkLost
<1>14. UNCHANGED vars => purchase' = purchase
  BY DEF vars
<1>15. CASE Outside
  BY <1>1, <1>2, <1>6, <1>7, <1>8, <1>9, <1>11, <1>13, <1>15 DEF Outside
<1> QED
  BY <1>1, <1>2, <1>5, <1>10, <1>12, <1>14, <1>15 DEF Next, WorkerStep

\* No removal deletes the purchase a price on record came from, as long as no
\* resolve stage outlasts its lock.
THEOREM RecordsKeepTheirPurchase ==
  ASSUME ~SlowResolve
  PROVE  Spec => RecordedIsNeverDeleted
<1>1. Sound /\ Kept /\ [Next]_vars
        => [\A p \in Purchases : purchase[p].recorded => purchase'[p].status # "deleted"]_vars
  BY DeletesUnrecorded
<1> QED
  BY <1>1, KeptAlways, PTL DEF Spec, RecordedIsNeverDeleted

-----------------------------------------------------------------------------
(* ReceiptLifecycle implements ReceiptPromise: each transaction moves one  *)
(* receipt along the promised path, or none.                               *)

\* How many of a receipt's purchases have prices that count ...
Counting(d) == Cardinality({p \in Purchases : purchase[p].doc = d /\ purchase[p].live})

\* ... and whether the one its job leads to has.
Counts(d) == job[d].purchase # None /\ purchase[job[d].purchase].live

\* A price that counts is on record.
LiveIsRecorded == \A p \in Purchases : purchase[p].live => purchase[p].recorded

\* What a transaction finds.
Good == Sound /\ Kept /\ VoidedCountsNothing /\ LiveIsRecorded

-----------------------------------------------------------------------------
(* A price that counts is on record.                                       *)

LEMMA RecordStep ==
  ASSUME Sound, LiveIsRecorded, [Next]_vars
  PROVE  LiveIsRecorded'
<1>1. \A p \in Purchases : purchase[p] \in PurchaseRows /\ (purchase[p].live => purchase[p].recorded)
  BY DEF Sound, TypeOK, LiveIsRecorded
<1>2. ASSUME NEW q, NEW row, purchase' = [purchase EXCEPT ![q] = row], row.live => row.recorded
      PROVE  LiveIsRecorded'
  BY <1>2 DEF LiveIsRecorded, Sound, TypeOK
<1>3. CASE purchase' = purchase
  BY <1>3 DEF LiveIsRecorded
<1>4. ASSUME NEW w \in Workers, ResolveLines(w) PROVE LiveIsRecorded'
  BY <1>1, <1>4 DEF ResolveLines, LiveIsRecorded, Sound, TypeOK, PurchaseRows
<1>5. ASSUME NEW q, NEW d, NEW manual, purchase' = [purchase EXCEPT ![q] = Draft(d, manual)] PROVE LiveIsRecorded'
  <2>1. ~Draft(d, manual).live
    BY DEF Draft, Unborn
  <2> QED
    BY <1>2, <1>5, <2>1
<1>6. ASSUME NEW ps, DeletePurchases(ps) PROVE LiveIsRecorded'
  BY <1>1, <1>6 DEF DeletePurchases, LiveIsRecorded, Unborn
<1>7. ASSUME NEW d \in Docs, ConvertDraft(d) PROVE LiveIsRecorded'
  BY <1>1, <1>7 DEF ConvertDraft, LiveIsRecorded, Sound, TypeOK, PurchaseRows
<1>8. ASSUME NEW p \in Purchases, EditLines(p) PROVE LiveIsRecorded'
  <2>1. PICK names \in BOOLEAN, live \in {FALSE, purchase[p].live} :
          purchase' = [purchase EXCEPT ![p].resolved = names, ![p].live = live]
    BY <1>8 DEF EditLines
  <2> DEFINE row == [purchase[p] EXCEPT !.resolved = names, !.live = live]
  <2>2. purchase' = [purchase EXCEPT ![p] = row]
    BY <2>1 DEF Sound, TypeOK
  <2>3. row.live = live /\ row.recorded = purchase[p].recorded
    BY <1>1 DEF PurchaseRows
  <2>4. live => purchase[p].recorded
    BY <1>1
  <2> HIDE DEF row
  <2> QED
    BY <1>2, <2>2, <2>3, <2>4
<1>9. ASSUME NEW p \in Purchases, DecideLine(p) PROVE LiveIsRecorded'
  <2>1. PICK names \in BOOLEAN, live \in {FALSE, purchase[p].live} :
          purchase' = [purchase EXCEPT ![p].resolved = names,
                                       ![p].live = live \/ Emits(p, names),
                                       ![p].recorded = @ \/ Emits(p, names)]
    BY <1>9 DEF DecideLine
  <2> DEFINE counts == live \/ Emits(p, names)
             ever == purchase[p].recorded \/ Emits(p, names)
             row == [purchase[p] EXCEPT !.resolved = names, !.live = counts, !.recorded = ever]
  <2>2. purchase' = [purchase EXCEPT ![p] = row]
    BY <2>1 DEF Sound, TypeOK
  <2>3. row.live = counts /\ row.recorded = ever
    <3> HIDE DEF counts, ever
    <3> QED
      BY <1>1 DEF PurchaseRows
  <2>4. counts => ever
    BY <1>1
  <2> HIDE DEF row, counts, ever
  <2> QED
    BY <1>2, <2>2, <2>3, <2>4
<1>10. ASSUME NEW p \in Purchases, Commit(p) PROVE LiveIsRecorded'
  <2> DEFINE ever == purchase[p].recorded \/ purchase[p].resolved
             row == [purchase[p] EXCEPT !.status = "committed", !.live = purchase[p].resolved, !.recorded = ever]
  <2>1. purchase' = [purchase EXCEPT ![p] = row]
    BY <1>10 DEF Commit, Sound, TypeOK
  <2>2. row.live = purchase[p].resolved /\ row.recorded = ever
    <3> HIDE DEF ever
    <3> QED
      BY <1>1 DEF PurchaseRows
  <2> HIDE DEF row
  <2> QED
    BY <1>2, <2>1, <2>2
<1>11. ASSUME NEW p \in Purchases, UpdateManual(p) \/ Reopen(p) \/ RemoveVoiding(p) \/ Restore(p) PROVE LiveIsRecorded'
  BY <1>1, <1>11 DEF UpdateManual, Reopen, RemoveVoiding, Restore, LiveIsRecorded, Sound, TypeOK, PurchaseRows
<1>12. CASE Outside
  <2>1. \A d \in Docs : Upload(d) \/ UploadLost(d) \/ BackoffPasses(d) \/ Retry(d) \/ Unlink(d) \/ UnlinkLost(d)
                        => purchase' = purchase
    BY DEF Upload, UploadLost, BackoffPasses, Retry, Unlink, UnlinkLost
  <2> QED
    BY <1>3, <1>5, <1>6, <1>7, <1>8, <1>9, <1>10, <1>11, <1>12, <2>1
    DEF Outside, ConvertNew, RemoveDeleting, RemoveFailed
<1>13. ASSUME NEW w \in Workers, WorkerStep(w) \/ ModelUnreachable(w) \/ Crash(w) \/ \E d \in Docs : Claim(w, d)
       PROVE  LiveIsRecorded'
  <2>1. ReadText(w) \/ ResolveDone(w) \/ StageFails(w) \/ ModelUnreachable(w) \/ Crash(w) \/ (\E d \in Docs : Claim(w, d))
        => purchase' = purchase
    BY DEF ReadText, ResolveDone, StageFails, ModelUnreachable, Crash, Claim
  <2> QED
    BY <1>3, <1>4, <1>5, <1>13, <2>1 DEF WorkerStep, CreateDraft
<1> QED
  BY <1>3, <1>12, <1>13 DEF Next, vars

LEMMA GoodAlways ==
  ASSUME ~SlowResolve
  PROVE  Spec => []Good
<1>1. Init => LiveIsRecorded
  BY DEF Init, Unborn, LiveIsRecorded
<1>2. Sound /\ LiveIsRecorded /\ [Next]_vars => LiveIsRecorded'
  BY RecordStep
<1> QED
  BY <1>1, <1>2, KeptAlways, StandingsAreHonest, PTL DEF Spec, Good

-----------------------------------------------------------------------------
(* A receipt as the promise sees it.                                       *)

\* Of a receipt's purchases only the one its job leads to can count.
LEMMA CountingIs ==
  ASSUME ~EarlyCommits, Good, NEW d \in Docs
  PROVE  Counting(d) = IF Counts(d) THEN 1 ELSE 0
<1>1. ASSUME NEW p \in Purchases, purchase[p].live PROVE job[purchase[p].doc].purchase = p
  <2>1. NotVoided(p)
    BY <1>1 DEF Good, Sound, VoidedCountsNothing, Kept, PurchaseKept, Exists, NotVoided, TypeOK, PurchaseRows, Statuses
  <2> QED
    BY <2>1 DEF Good, Kept, Settled
<1>2. job[d].purchase \in Purchases \cup {None}
  BY DEF Good, Sound, TypeOK, Jobs
<1>3. CASE Counts(d)
  <2>1. {p \in Purchases : purchase[p].doc = d /\ purchase[p].live} = {job[d].purchase}
    BY <1>1, <1>2, <1>3 DEF Counts, Good, Kept, JobKept
  <2> QED
    BY <1>3, <2>1, FS_Singleton DEF Counting
<1>4. CASE ~Counts(d)
  <2>1. {p \in Purchases : purchase[p].doc = d /\ purchase[p].live} = {}
    BY <1>1, <1>4, NoneIsNoId DEF Counts
  <2> QED
    BY <1>4, <2>1, FS_EmptySet DEF Counting
<1> QED
  BY <1>3, <1>4

\* What the promise sees of a receipt.
Seen ==
  \A d \in Docs :
    /\ Counting(d) = IF Counts(d) THEN 1 ELSE 0
    /\ job[d].status = "absent" => Standing(d) = "unsent"
    /\ job[d].status \in Reading => Standing(d) = "reading"
    /\ job[d].status = "failed" => Standing(d) = "unreadable"
    /\ job[d].status = "needs_review" => Standing(d) = "review"
    /\ Removed(d) => Standing(d) = "removed"
    /\ job[d].status = "done" /\ ~PurchaseWasRemoved(d) => Standing(d) = "kept"

LEMMA SeenIs ==
  ASSUME ~EarlyCommits
  PROVE  (Good => Seen) /\ (Good' => Seen')
<1>1. Good => Seen
  BY CountingIs DEF Seen, Standing, Removed, PurchaseWasRemoved, Reading
<1> QED
  BY <1>1, PTL

\* A receipt whose job and whose job's purchase stay as they are stands as it did.
Alike(d) == Standing(d)' = Standing(d) /\ Counting(d)' = Counting(d)

LEMMA SameIsAlike ==
  ASSUME ~EarlyCommits, Good, Good', NEW d \in Docs,
         job'[d].purchase = job[d].purchase,
         job'[d].status = job[d].status \/ {job[d].status, job'[d].status} \subseteq Reading,
         job[d].purchase # None => /\ purchase'[job[d].purchase].live = purchase[job[d].purchase].live
                                   /\ \/ purchase'[job[d].purchase].status = purchase[job[d].purchase].status
                                      \/ /\ purchase'[job[d].purchase].status # "voided"
                                         /\ purchase[job[d].purchase].status # "voided"
  PROVE  Alike(d)
<1>1. Counts(d)' <=> Counts(d)
  BY DEF Counts
<1>2. Counting(d)' = Counting(d)
  BY <1>1, SeenIs DEF Seen
<1>3. PurchaseWasRemoved(d)' <=> PurchaseWasRemoved(d)
  BY DEF PurchaseWasRemoved, Reading
<1>4. Standing(d)' = Standing(d)
  BY <1>3 DEF Standing, Removed, Reading
<1> QED
  BY <1>2, <1>4 DEF Alike

LEMMA NothingMoves ==
  ASSUME \A d \in Docs : Alike(d)
  PROVE  UNCHANGED Promise!promise
BY DEF Alike, Promise!promise, Counting

\* One receipt goes from a standing to another.
LEMMA OneMoves ==
  ASSUME NEW d \in Docs, \A e \in Docs \ {d} : Alike(e),
         \/ /\ Counting(d)' = Counting(d)
            /\ \/ Standing(d) \in {"unsent", "removed"} /\ Standing(d)' = "reading"
               \/ Standing(d) = "reading" /\ Standing(d)' \in {"review", "unreadable"}
               \/ Standing(d) = "unreadable" /\ Standing(d)' = "reading"
               \/ Standing(d) \in {"reading", "unreadable", "review", "removed"} /\ Standing(d)' = "kept"
         \/ /\ Standing(d) \in {"review", "kept"} /\ Standing(d)' = "kept" /\ Counting(d)' \in {0, 1}
         \/ /\ Standing(d) \in {"unreadable", "review", "kept"} /\ Standing(d)' = "removed" /\ Counting(d)' = 0
  PROVE  Promise!Next
<1> DEFINE stands == [e \in Docs |-> Standing(e)]
           counts == [e \in Docs |-> Counting(e)]
<1>1. stands' = [stands EXCEPT ![d] = Standing(d)'] /\ counts' = [counts EXCEPT ![d] = Counting(d)']
  BY DEF Alike
<1>2. Counting(d)' = Counting(d) => counts' = counts
  BY DEF Alike
<1>3. stands[d] = Standing(d)
  OBVIOUS
<1>4. /\ Promise!Send(d) <=> stands[d] \in {"unsent", "removed"} /\ stands' = [stands EXCEPT ![d] = "reading"] /\ counts' = counts
      /\ Promise!Read(d) <=> stands[d] \in {"reading"} /\ stands' = [stands EXCEPT ![d] = "review"] /\ counts' = counts
      /\ Promise!GiveUp(d) <=> stands[d] \in {"reading"} /\ stands' = [stands EXCEPT ![d] = "unreadable"] /\ counts' = counts
      /\ Promise!TryAgain(d) <=> stands[d] \in {"unreadable"} /\ stands' = [stands EXCEPT ![d] = "reading"] /\ counts' = counts
      /\ Promise!EnterByHand(d) <=> /\ stands[d] \in {"reading", "unreadable", "review"}
                                    /\ stands' = [stands EXCEPT ![d] = "kept"] /\ counts' = counts
      /\ Promise!Restore(d) <=> stands[d] \in {"removed"} /\ stands' = [stands EXCEPT ![d] = "kept"] /\ counts' = counts
      /\ Promise!Record(d) <=> /\ stands[d] \in {"review", "kept"} /\ stands' = [stands EXCEPT ![d] = "kept"]
                               /\ \E n \in {0, 1} : counts' = [counts EXCEPT ![d] = n]
      /\ Promise!Remove(d) <=> /\ stands[d] \in {"unreadable", "review", "kept"}
                               /\ stands' = [stands EXCEPT ![d] = "removed"] /\ counts' = [counts EXCEPT ![d] = 0]
  BY DEF Counting, Promise!Send, Promise!Read, Promise!GiveUp, Promise!TryAgain, Promise!EnterByHand,
         Promise!Restore, Promise!Record, Promise!Remove, Promise!Moves
<1> HIDE DEF stands, counts
<1>5. \/ Promise!Send(d) \/ Promise!Read(d) \/ Promise!GiveUp(d) \/ Promise!TryAgain(d)
      \/ Promise!EnterByHand(d) \/ Promise!Restore(d) \/ Promise!Record(d) \/ Promise!Remove(d)
  BY <1>1, <1>2, <1>3, <1>4
<1> QED
  BY <1>5 DEF Promise!Next

-----------------------------------------------------------------------------
(* The steps.                                                              *)

\* A step of the job of receipt d that leaves its purchase's standing alone.
LEMMA JobStepMaps ==
  ASSUME ~EarlyCommits, Good, Good', NEW d \in Docs, \A e \in Docs \ {d} : job'[e] = job[e],
         UNCHANGED purchase, job'[d].purchase = job[d].purchase,
         \/ job[d].status \in Reading /\ job'[d].status \in Reading \cup {"needs_review", "failed"}
         \/ job[d].status = "failed" /\ job'[d].status = "pending"
  PROVE  [Promise!Next]_Promise!promise
<1>1. \A e \in Docs \ {d} : Alike(e)
  BY SameIsAlike
<1>2. Counting(d)' = Counting(d)
  BY SeenIs DEF Seen, Counts
<1>3. CASE job[d].status \in Reading /\ job'[d].status \in Reading
  BY <1>1, <1>3, SameIsAlike, NothingMoves
<1>4. CASE job[d].status \in Reading /\ job'[d].status \in {"needs_review", "failed"}
  <2>1. Standing(d) = "reading" /\ Standing(d)' \in {"review", "unreadable"}
    BY <1>4, SeenIs DEF Seen
  <2> QED
    BY <1>1, <1>2, <2>1, OneMoves
<1>5. CASE job[d].status = "failed" /\ job'[d].status = "pending"
  <2>1. Standing(d) = "unreadable" /\ Standing(d)' = "reading"
    BY <1>5, SeenIs DEF Seen, Reading
  <2> QED
    BY <1>1, <1>2, <2>1, OneMoves
<1> QED
  BY <1>3, <1>4, <1>5

\* A job that is not taken over, and purchases' lines that are resolved.
LEMMA WorkerMaps ==
  ASSUME ~EarlyCommits, Good, Good', NEW w \in Workers, WorkerStep(w) \/ ModelUnreachable(w)
  PROVE  [Promise!Next]_Promise!promise
<1>1. worker[w].step # "idle"
  BY DEF WorkerStep, ReadText, CreateDraft, ResolveLines, ResolveDone, StageFails, ModelUnreachable, At
<1>2. PICK d \in Docs : /\ d = worker[w].doc /\ job[d].status = "running"
                        /\ job[d].purchase = worker[w].seen.purchase /\ job[d] \in Jobs
  BY <1>1, AtItsJob DEF Good
<1>3. job[d].purchase \in Purchases \cup {None}
  BY <1>2 DEF Jobs
<1>4. CASE ReadText(w) \/ ResolveDone(w)
  <2>1. Finish(w, job[d].purchase) /\ UNCHANGED purchase
    BY <1>2, <1>4 DEF ReadText, ResolveDone
  <2>2. /\ \A e \in Docs \ {d} : job'[e] = job[e]
        /\ job'[d].purchase = job[d].purchase /\ job'[d].status \in {"needs_review", "pending"}
    BY <1>1, <1>2, <1>3, <2>1, AdvancedFields DEF Good
  <2> QED
    BY <1>2, <2>1, <2>2, JobStepMaps DEF Reading
<1>5. CASE StageFails(w) \/ ModelUnreachable(w)
  <2> DEFINE attempts == Capped(job[d].attempts + 1)
             givenUp == attempts >= MaxAttempts
             status == IF givenUp THEN "failed" ELSE "pending"
             row(to, due) == [job[d] EXCEPT !.attempts = attempts, !.status = to, !.due = due]
  <2>1. /\ UNCHANGED purchase
        /\ \/ job' = [job EXCEPT ![d] = row(status, givenUp)]
           \/ job' = [job EXCEPT ![d] = row("pending", FALSE)]
    BY <1>2, <1>5 DEF StageFails, ModelUnreachable, Good, Sound, TypeOK
  <2>2. ASSUME NEW to, NEW due
        PROVE  row(to, due).status = to /\ row(to, due).purchase = job[d].purchase
    <3> HIDE DEF attempts
    <3> QED
      BY <1>2 DEF Jobs
  <2> HIDE DEF row
  <2>3. PICK new : /\ job' = [job EXCEPT ![d] = new]
                   /\ new.status \in {"pending", "failed"} /\ new.purchase = job[d].purchase
    <3>1. CASE job' = [job EXCEPT ![d] = row(status, givenUp)]
      <4>1. row(status, givenUp).status \in {"pending", "failed"} /\ row(status, givenUp).purchase = job[d].purchase
        BY <2>2
      <4> QED
        BY <3>1, <4>1
    <3>2. CASE job' = [job EXCEPT ![d] = row("pending", FALSE)]
      <4>1. row("pending", FALSE).status = "pending" /\ row("pending", FALSE).purchase = job[d].purchase
        BY <2>2
      <4> QED
        BY <3>2, <4>1
    <3> QED
      BY <2>1, <3>1, <3>2
  <2>4. /\ \A e \in Docs \ {d} : job'[e] = job[e]
        /\ job'[d].purchase = job[d].purchase /\ job'[d].status \in {"pending", "failed"}
    BY <2>3 DEF Good, Sound, TypeOK
  <2> QED
    BY <1>2, <2>1, <2>4, JobStepMaps DEF Reading
<1>6. ASSUME NEW p \in Purchases, CreateDraft(w, p) PROVE [Promise!Next]_Promise!promise
  <2>1. /\ Finish(w, p) /\ purchase' = [purchase EXCEPT ![p] = Draft(d, FALSE)]
        /\ job[d].purchase = None /\ purchase[p].status = "unborn" /\ worker[w].seen.stage = "lines"
    BY <1>2, <1>6 DEF CreateDraft, Fresh, At
  <2>2. job[d].stage # "resolve"
    BY <1>1, <1>2, <2>1, AtItsJob DEF Good
  <2>3. /\ \A e \in Docs \ {d} : job'[e] = job[e]
        /\ job'[d].purchase = p /\ job'[d].status = "pending"
    BY <1>1, <1>2, <2>1, <2>2, AdvancedFields DEF Good
  <2>4. /\ ~purchase'[p].live /\ \A q \in Purchases \ {p} : purchase'[q] = purchase[q]
    BY <2>1 DEF Good, Sound, TypeOK, Draft, Unborn
  <2>5. \A e \in Docs : job[e].purchase # p /\ job[e].purchase \in Purchases \cup {None}
    BY <2>1, NoneIsNoId DEF Good, Sound, TypeOK, Jobs, Kept, JobKept, Exists
  <2>6. \A e \in Docs \ {d} : Alike(e)
    BY <2>3, <2>4, <2>5, SameIsAlike
  <2>7. Alike(d)
    <3>1. ~Counts(d) /\ ~Counts(d)'
      BY <2>1, <2>3, <2>4 DEF Counts
    <3>2. Counting(d)' = Counting(d)
      BY <3>1, SeenIs DEF Seen
    <3> QED
      BY <1>2, <2>3, <3>2, SeenIs DEF Alike, Seen, Reading
  <2> QED
    BY <2>6, <2>7, NothingMoves
<1>7. CASE ResolveLines(w)
  <2>1. PICK match \in BOOLEAN : purchase' = [purchase EXCEPT ![job[d].purchase].resolved = match]
    BY <1>2, <1>7 DEF ResolveLines
  <2>2. job' = job
    BY <1>7 DEF ResolveLines
  <2> DEFINE p == job[d].purchase
  <2>3. \A q \in Purchases : purchase'[q].status = purchase[q].status /\ purchase'[q].live = purchase[q].live
    <3> HIDE DEF p
    <3> QED
      BY <2>1 DEF p, Good, Sound, TypeOK, PurchaseRows
  <2>4. \A e \in Docs : job[e].purchase \in Purchases \cup {None}
    BY DEF Good, Sound, TypeOK, Jobs
  <2> QED
    BY <2>2, <2>3, <2>4, SameIsAlike, NothingMoves
<1> QED
  BY <1>4, <1>5, <1>6, <1>7 DEF WorkerStep

\* A step that changes neither a job's standing nor a purchase.
LEMMA ClaimMaps ==
  ASSUME ~EarlyCommits, Good, Good', NEW d \in Docs,
         \/ \E w \in Workers : Claim(w, d)
         \/ Retry(d) \/ BackoffPasses(d)
         \/ UNCHANGED <<job, purchase>>
  PROVE  [Promise!Next]_Promise!promise
<1>1. job[d] \in Jobs
  BY DEF Good, Sound, TypeOK
<1>2. CASE Retry(d)
  <2>1. job' = [job EXCEPT ![d] = [job[d] EXCEPT !.status = "pending", !.attempts = 0, !.due = TRUE]]
    BY <1>2 DEF Retry, Good, Sound, TypeOK
  <2>2. /\ job'[d].status = "pending" /\ job'[d].purchase = job[d].purchase
        /\ \A e \in Docs \ {d} : job'[e] = job[e]
    BY <1>1, <2>1 DEF Good, Sound, TypeOK, Jobs
  <2> QED
    BY <1>2, <2>2, JobStepMaps DEF Retry
<1>3. CASE (\E w \in Workers : Claim(w, d)) \/ BackoffPasses(d) \/ UNCHANGED <<job, purchase>>
  <2>1. /\ UNCHANGED purchase
        /\ \A e \in Docs : /\ job'[e].purchase = job[e].purchase
                           /\ job'[e].status = job[e].status \/ {job[e].status, job'[e].status} \subseteq Reading
    BY <1>1, <1>3 DEF Claim, Claimable, BackoffPasses, Good, Sound, TypeOK, Jobs, Reading
  <2> QED
    BY <2>1, SameIsAlike, NothingMoves
<1> QED
  BY <1>2, <1>3

\* A purchase that may be changed is the one its receipt's job leads to; once it
\* is more than a reader's draft, its receipt is kept.
LEMMA OpenPurchase ==
  ASSUME ~EarlyCommits, Good, NEW p \in Purchases, NotVoided(p)
  PROVE  LET d == purchase[p].doc IN
         /\ d \in Docs /\ job[d].purchase = p /\ p # None
         /\ purchase[p].live => Past(purchase[p])
         /\ Past(purchase[p]) => job[d].status = "done"
         /\ job[d].status = "done" => Standing(d) = "kept"
<1>1. purchase[p].doc \in Docs /\ job[purchase[p].doc].purchase = p /\ p # None
  BY NoneIsNoId DEF Good, Kept, Settled, PurchaseKept, Exists, NotVoided
<1>2. Past(purchase[p]) => job[purchase[p].doc].status = "done"
  BY <1>1 DEF Good, Kept, Settled
<1>3. purchase[p].live => Past(purchase[p])
  BY DEF Good, LiveIsRecorded, Past
<1>4. ~PurchaseWasRemoved(purchase[p].doc)
  BY <1>1 DEF PurchaseWasRemoved, NotVoided
<1> QED
  BY <1>1, <1>2, <1>3, <1>4, SeenIs DEF Seen

\* Receipts other than the one whose job and purchase a step changes.
LEMMA OthersAlike ==
  ASSUME ~EarlyCommits, Good, Good', NEW d \in Docs, \A e \in Docs \ {d} : job'[e] = job[e],
         NEW p, \A q \in Purchases \ {p} : purchase'[q] = purchase[q],
         \A e \in Docs \ {d} : job[e].purchase = p => p = None
  PROVE  \A e \in Docs \ {d} : Alike(e)
<1>1. \A e \in Docs : job[e].purchase \in Purchases \cup {None}
  BY DEF Good, Sound, TypeOK, Jobs
<1>2. ASSUME NEW e \in Docs \ {d}, job[e].purchase # None
      PROVE  purchase'[job[e].purchase] = purchase[job[e].purchase]
  BY <1>1, <1>2
<1> QED
  BY <1>2, SameIsAlike

\* A job leads to a purchase of its own receipt, so no two lead to one.
LEMMA OwnPurchase ==
  ASSUME Good, NEW p \in Purchases, NEW d \in Docs, purchase[p].doc = d
  PROVE  \A e \in Docs \ {d} : job[e].purchase # p
BY NoneIsNoId DEF Good, Kept, JobKept

\* Its lines are edited or decided, its form is saved, or it is reopened.
LEMMA LinesMap ==
  ASSUME ~EarlyCommits, Good, Good', NEW p \in Purchases,
         EditLines(p) \/ DecideLine(p) \/ UpdateManual(p) \/ Reopen(p)
  PROVE  [Promise!Next]_Promise!promise
<1>1. PICK d \in Docs : /\ d = purchase[p].doc /\ job[d].purchase = p /\ p # None
                        /\ Past(purchase[p]) => job[d].status = "done" /\ Standing(d) = "kept"
                        /\ purchase[p].live => Past(purchase[p])
                        /\ NotVoided(p)
  <2>1. NotVoided(p)
    BY DEF EditLines, DecideLine, UpdateManual, Reopen, NotVoided
  <2> QED
    BY <2>1, OpenPurchase
<1>2. UNCHANGED job /\ \A q \in Purchases \ {p} : purchase'[q] = purchase[q]
  BY DEF EditLines, DecideLine, UpdateManual, Reopen, Good, Sound, TypeOK
<1>3. \A e \in Docs \ {d} : Alike(e)
  BY <1>1, <1>2, OwnPurchase, OthersAlike
<1>4. purchase[p].status # "voided" /\ purchase'[p].status # "voided"
  <2>1. purchase[p] \in PurchaseRows /\ purchase[p].status # "voided"
    BY <1>1 DEF Good, Sound, TypeOK, NotVoided
  <2>2. CASE DecideLine(p)
    <3>1. PICK names, live :
            purchase' = [purchase EXCEPT ![p].resolved = names,
                                         ![p].live = live \/ Emits(p, names),
                                         ![p].recorded = @ \/ Emits(p, names)]
      BY <2>2 DEF DecideLine
    <3> DEFINE counts == live \/ Emits(p, names)
               ever == purchase[p].recorded \/ Emits(p, names)
               row == [purchase[p] EXCEPT !.resolved = names, !.live = counts, !.recorded = ever]
    <3>2. purchase' = [purchase EXCEPT ![p] = row]
      BY <3>1 DEF Good, Sound, TypeOK
    <3>3. row.status = purchase[p].status
      <4> HIDE DEF counts, ever
      <4> QED
        BY <2>1 DEF PurchaseRows
    <3> HIDE DEF row
    <3> QED
      BY <2>1, <3>2, <3>3 DEF Good, Sound, TypeOK
  <2>3. CASE EditLines(p)
    BY <2>1, <2>3 DEF EditLines, Good, Sound, TypeOK, PurchaseRows
  <2>4. CASE UpdateManual(p)
    BY <2>1, <2>4 DEF UpdateManual, Good, Sound, TypeOK, PurchaseRows
  <2>5. CASE Reopen(p)
    BY <2>1, <2>5 DEF Reopen, Good, Sound, TypeOK, PurchaseRows
  <2> QED
    BY <2>1, <2>2, <2>3, <2>4, <2>5
<1>5. CASE purchase'[p].live = purchase[p].live
  BY <1>1, <1>2, <1>3, <1>4, <1>5, SameIsAlike, NothingMoves
<1>6. CASE Past(purchase[p])
  <2>1. ~PurchaseWasRemoved(d)'
    BY <1>1, <1>2, <1>4 DEF PurchaseWasRemoved
  <2>2. Standing(d)' = "kept" /\ Counting(d)' \in {0, 1}
    BY <1>1, <1>2, <1>6, <2>1, SeenIs DEF Seen
  <2> QED
    BY <1>1, <1>3, <1>6, <2>2, OneMoves
\* Only a committed purchase, or one entered by hand, is given a price.
<1>7. purchase'[p].live = purchase[p].live \/ Past(purchase[p])
  <2>1. CASE purchase[p].live
    BY <1>1, <2>1
  <2>2. CASE purchase[p].status # "draft" \/ purchase[p].byHand
    BY <2>2 DEF Past
  <2>3. CASE ~purchase[p].live /\ purchase[p].status = "draft" /\ ~purchase[p].byHand
    <3>1. purchase[p] \in PurchaseRows
      BY DEF Good, Sound, TypeOK
    <3>2. purchase[p].live = FALSE
      BY <2>3, <3>1 DEF PurchaseRows
    <3>3. CASE EditLines(p)
      BY <3>1, <3>2, <3>3 DEF EditLines, Good, Sound, TypeOK, PurchaseRows
    <3>4. CASE DecideLine(p)
      <4>1. PICK names \in BOOLEAN, live \in {FALSE, purchase[p].live} :
              purchase' = [purchase EXCEPT ![p].resolved = names,
                                           ![p].live = live \/ Emits(p, names),
                                           ![p].recorded = @ \/ Emits(p, names)]
        BY <3>4 DEF DecideLine
      <4> DEFINE counts == live \/ Emits(p, names)
                 ever == purchase[p].recorded \/ Emits(p, names)
                 row == [purchase[p] EXCEPT !.resolved = names, !.live = counts, !.recorded = ever]
      <4>2. purchase' = [purchase EXCEPT ![p] = row]
        BY <4>1 DEF Good, Sound, TypeOK
      <4>3. row.live = counts
        <5> HIDE DEF counts, ever
        <5> QED
          BY <3>1 DEF PurchaseRows
      <4>4. counts = FALSE
        BY <2>3, <3>2 DEF Emits
      <4> HIDE DEF row, counts
      <4> QED
        BY <3>2, <4>2, <4>3, <4>4 DEF Good, Sound, TypeOK
    <3> QED
      BY <2>3, <3>3, <3>4 DEF UpdateManual, Reopen
  <2> QED
    BY <2>1, <2>2, <2>3
<1> QED
  BY <1>5, <1>6, <1>7

\* A receipt's prices enter the book with its commit.
LEMMA CommitMaps ==
  ASSUME ~EarlyCommits, Good, Good', NEW p \in Purchases, Commit(p)
  PROVE  [Promise!Next]_Promise!promise
<1>1. PICK d \in Docs : /\ d = purchase[p].doc /\ job[d].purchase = p /\ p # None
                        /\ job[d].status = "done" => Standing(d) = "kept"
  BY OpenPurchase DEF Commit
<1>2. /\ purchase[p] \in PurchaseRows /\ \A e \in Docs : job[e] \in Jobs
      /\ \A q \in Purchases \ {p} : purchase'[q] = purchase[q]
  BY DEF Commit, Good, Sound, TypeOK
<1>3. \A e \in Docs \ {d} : job'[e] = job[e]
  BY <1>1, OwnPurchase DEF Commit, FinishedBy, JobOf
<1>4. \A e \in Docs \ {d} : Alike(e)
  BY <1>1, <1>2, <1>3, OwnPurchase, OthersAlike
<1>5. job[d].status \in {"needs_review", "done"}
  <2>1. job[d].status \notin Reading \cup {"failed"}
    BY <1>1 DEF Commit, Ready, JobOf
  <2>2. job[d].status \notin Gone
    BY <1>1 DEF Good, Kept, JobKept
  <2> QED
    BY <1>2, <2>1, <2>2 DEF Jobs, JobStatuses, Gone
<1>6. Standing(d) \in {"review", "kept"}
  BY <1>1, <1>5, SeenIs DEF Seen
<1>7. job'[d].status = "done" /\ job'[d].purchase = p
  BY <1>1, <1>2, <1>5 DEF Commit, FinishedBy, JobOf, Jobs
<1>8. purchase'[p].status = "committed"
  <2> DEFINE ever == purchase[p].recorded \/ purchase[p].resolved
             row == [purchase[p] EXCEPT !.status = "committed", !.live = purchase[p].resolved, !.recorded = ever]
  <2>1. purchase' = [purchase EXCEPT ![p] = row]
    BY DEF Commit, Good, Sound, TypeOK
  <2>2. row.status = "committed"
    <3> HIDE DEF ever
    <3> QED
      BY <1>2 DEF PurchaseRows
  <2> HIDE DEF row
  <2> QED
    BY <2>1, <2>2 DEF Good, Sound, TypeOK
<1>9. Standing(d)' = "kept" /\ Counting(d)' \in {0, 1}
  <2>1. ~PurchaseWasRemoved(d)'
    BY <1>7, <1>8 DEF PurchaseWasRemoved
  <2> QED
    BY <1>7, <2>1, SeenIs DEF Seen
<1> QED
  BY <1>4, <1>6, <1>9, OneMoves

\* A purchase is voided with its prices, and restored without them.
LEMMA VoidingMaps ==
  ASSUME ~EarlyCommits, Good, Good', NEW p \in Purchases, RemoveVoiding(p) \/ Restore(p)
  PROVE  [Promise!Next]_Promise!promise
<1>1. /\ purchase[p] \in PurchaseRows /\ UNCHANGED job /\ Past(purchase[p])
      /\ \A q \in Purchases \ {p} : purchase'[q] = purchase[q]
  BY DEF RemoveVoiding, Restore, Recorded, Past, Good, Sound, TypeOK
<1>2. CASE RemoveVoiding(p)
  <2>1. PICK d \in Docs : d = purchase[p].doc /\ job[d].purchase = p /\ p # None
                          /\ job[d].status = "done" /\ Standing(d) = "kept"
    BY <1>1, <1>2, OpenPurchase DEF RemoveVoiding, Removable
  <2>2. \A e \in Docs \ {d} : Alike(e)
    BY <1>1, <2>1, OwnPurchase, OthersAlike
  <2>3. purchase'[p].status = "voided" /\ ~purchase'[p].live
    BY <1>1, <1>2 DEF RemoveVoiding, Good, Sound, TypeOK, PurchaseRows
  <2>4. Removed(d)' /\ ~Counts(d)'
    BY <1>1, <2>1, <2>3 DEF Removed, PurchaseWasRemoved, Counts
  <2>5. Standing(d)' = "removed" /\ Counting(d)' = 0
    BY <2>4, SeenIs DEF Seen
  <2> QED
    BY <2>1, <2>2, <2>5, OneMoves
<1>3. CASE Restore(p)
  <2>1. PICK d \in Docs : d = purchase[p].doc /\ job[d].purchase = p /\ p # None
    BY <1>3, NoneIsNoId DEF Restore, ReadAgain, Good, Kept, PurchaseKept, Exists
  <2>2. \A e \in Docs \ {d} : Alike(e)
    BY <1>1, <2>1, OwnPurchase, OthersAlike
  <2>3. job[d].status = "done"
    BY <1>1, <2>1 DEF Good, Kept, Settled
  <2>4. purchase[p].status = "voided" /\ purchase'[p].status = "reviewed" /\ purchase'[p].live = purchase[p].live
    BY <1>1, <1>3 DEF Restore, Good, Sound, TypeOK, PurchaseRows
  <2>5. Removed(d) /\ ~PurchaseWasRemoved(d)' /\ (Counts(d)' <=> Counts(d))
    BY <1>1, <2>1, <2>3, <2>4 DEF Removed, PurchaseWasRemoved, Counts
  <2>6. Standing(d) = "removed" /\ Standing(d)' = "kept" /\ Counting(d)' = Counting(d)
    BY <1>1, <2>3, <2>5, SeenIs DEF Seen
  <2> QED
    BY <2>2, <2>6, OneMoves
<1> QED
  BY <1>2, <1>3

\* A receipt is sent in for the first time, or again after it was removed.
LEMMA UploadMaps ==
  ASSUME ~EarlyCommits, Good, Good', NEW d \in Docs, Upload(d)
  PROVE  [Promise!Next]_Promise!promise
<1>1. /\ job' = [job EXCEPT ![d] = NewJob] /\ UNCHANGED purchase
      /\ job[d].status = "absent" \/ Removed(d)
  BY DEF Upload, Revived
<1>2. /\ job'[d].status = "pending" /\ job'[d].purchase = None
      /\ \A e \in Docs \ {d} : job'[e] = job[e]
  BY <1>1 DEF Good, Sound, TypeOK, NewJob, NoJob
<1>3. \A e \in Docs \ {d} : Alike(e)
  BY <1>1, <1>2, OthersAlike
<1>4. ~Counts(d)
  <2>1. job[d].purchase \in Purchases \cup {None}
    BY DEF Good, Sound, TypeOK, Jobs
  <2>2. job[d].status \in Gone => job[d].purchase = None
    BY DEF Good, Kept, JobKept
  <2> QED
    BY <1>1, <2>1, <2>2 DEF Removed, PurchaseWasRemoved, Counts, Gone, Good, VoidedCountsNothing
<1>5. ~Counts(d)'
  BY <1>2 DEF Counts
<1>6. Standing(d) \in {"unsent", "removed"} /\ Standing(d)' = "reading" /\ Counting(d)' = Counting(d)
  BY <1>1, <1>2, <1>4, <1>5, SeenIs DEF Seen, Reading
<1> QED
  BY <1>3, <1>6, OneMoves

\* A person takes a receipt over, with the draft it has or a new one.
LEMMA ConvertMaps ==
  ASSUME ~EarlyCommits, Good, Good', NEW d \in Docs,
         ConvertDraft(d) \/ \E p \in Purchases : ConvertNew(d, p)
  PROVE  [Promise!Next]_Promise!promise
<1>1. job[d] \in Jobs /\ \A p \in Purchases : purchase[p] \in PurchaseRows
  BY DEF Good, Sound, TypeOK
<1>2. job[d].status \in {"pending", "failed", "needs_review"}
  BY <1>1 DEF ConvertDraft, ConvertNew, Convertible, Jobs, JobStatuses, Reading
<1>3. Standing(d) \in {"reading", "unreadable", "review"}
  BY <1>2, SeenIs DEF Seen, Reading
<1>4. ASSUME NEW p \in Purchases, job' = SettledBy(d, p)
      PROVE  /\ job'[d].status = "done" /\ job'[d].purchase = p
             /\ \A e \in Docs \ {d} : job'[e] = job[e]
  <2> DEFINE settled == [job[d] EXCEPT !.stage = "committed", !.status = "done", !.due = TRUE, !.purchase = p]
  <2>1. job' = [job EXCEPT ![d] = settled]
    BY <1>4 DEF SettledBy, Good, Sound, TypeOK
  <2>2. settled.status = "done" /\ settled.purchase = p
    BY <1>1 DEF Jobs
  <2> HIDE DEF settled
  <2> QED
    BY <2>1, <2>2 DEF Good, Sound, TypeOK
\* The purchase it ends with is a draft, and counts as much as what it had.
<1>5. ASSUME NEW p \in Purchases, job' = SettledBy(d, p), purchase'[p].status = "draft",
             \A q \in Purchases \ {p} : purchase'[q] = purchase[q],
             \A e \in Docs \ {d} : job[e].purchase # p,
             Counts(d) <=> purchase'[p].live
      PROVE  [Promise!Next]_Promise!promise
  <2>1. \A e \in Docs \ {d} : Alike(e)
    BY <1>4, <1>5, OthersAlike
  <2>2. Counts(d)' <=> Counts(d)
    BY <1>4, <1>5, NoneIsNoId DEF Counts
  <2>3. ~PurchaseWasRemoved(d)'
    BY <1>4, <1>5 DEF PurchaseWasRemoved
  <2>4. Standing(d)' = "kept" /\ Counting(d)' = Counting(d)
    BY <1>4, <1>5, <2>2, <2>3, SeenIs DEF Seen
  <2> QED
    BY <1>3, <2>1, <2>4, OneMoves
<1>6. CASE ConvertDraft(d)
  <2> DEFINE p == job[d].purchase
             row == [purchase[p] EXCEPT !.byHand = TRUE, !.resolved = FALSE]
  <2>1. p \in Purchases /\ purchase[p].status = "draft" /\ p # None /\ job' = SettledBy(d, p)
    BY <1>1, <1>6 DEF ConvertDraft, HasDraft, Jobs
  <2>2. purchase' = [purchase EXCEPT ![p] = row]
    BY <1>6, <2>1 DEF ConvertDraft, Good, Sound, TypeOK
  <2>3. row.status = purchase[p].status /\ row.live = purchase[p].live
    BY <1>1, <2>1 DEF PurchaseRows
  <2>4. \A e \in Docs \ {d} : job[e].purchase # p
    BY <2>1 DEF Good, Kept, JobKept
  <2> HIDE DEF row
  <2>5. purchase'[p].status = "draft" /\ purchase'[p].live = purchase[p].live
        /\ \A q \in Purchases \ {p} : purchase'[q] = purchase[q]
    BY <2>1, <2>2, <2>3 DEF Good, Sound, TypeOK
  <2>6. Counts(d) <=> purchase[p].live
    BY <2>1 DEF Counts
  <2> QED
    BY <1>5, <2>1, <2>4, <2>5, <2>6
<1>7. ASSUME NEW p \in Purchases, ConvertNew(d, p) PROVE [Promise!Next]_Promise!promise
  <2>1. /\ purchase[p].status = "unborn" /\ purchase' = [purchase EXCEPT ![p] = Draft(d, TRUE)]
        /\ ~HasDraft(d) /\ job' = SettledBy(d, p)
    BY <1>7 DEF ConvertNew, Fresh
  <2>2. /\ purchase'[p].status = "draft" /\ ~purchase'[p].live
        /\ \A q \in Purchases \ {p} : purchase'[q] = purchase[q]
    BY <2>1 DEF Good, Sound, TypeOK, Draft, Unborn
  <2>3. \A e \in Docs \ {d} : job[e].purchase # p
    BY <2>1, NoneIsNoId DEF Good, Kept, JobKept, Exists
  <2>4. ~Counts(d)
    <3>1. job[d].purchase # None => Past(purchase[job[d].purchase])
      BY <2>1 DEF HasDraft, Past
    <3> QED
      BY <1>2, <3>1 DEF Counts, Good, Kept, Settled
  <2> QED
    BY <1>5, <2>1, <2>2, <2>3, <2>4
<1> QED
  BY <1>6, <1>7

\* A receipt is removed with a purchase that never reached the book.
LEMMA DeletingMaps ==
  ASSUME ~EarlyCommits, Good, Good', NEW d \in Docs,
         RemoveFailed(d) \/ \E p \in Purchases : purchase[p].doc = d /\ RemoveDeleting(p)
  PROVE  [Promise!Next]_Promise!promise
<1>1. job[d] \in Jobs /\ \A e \in Docs : job[e].purchase \in Purchases \cup {None}
  BY DEF Good, Sound, TypeOK, Jobs
<1>2. /\ DeletePurchases({job[d].purchase} \cap Purchases) /\ DiscardJobs({d})
      /\ Standing(d) \in {"unreadable", "review", "kept"}
  <2>1. CASE RemoveFailed(d)
    BY <2>1, SeenIs DEF RemoveFailed, Seen
  <2>2. ASSUME NEW p \in Purchases, purchase[p].doc = d, RemoveDeleting(p)
        PROVE  /\ DeletePurchases({job[d].purchase} \cap Purchases) /\ DiscardJobs({d})
               /\ Standing(d) \in {"unreadable", "review", "kept"}
    <3>1. job[d].purchase = p /\ p # None /\ (job[d].status = "done" => Standing(d) = "kept")
      BY <2>2, OpenPurchase DEF RemoveDeleting, Removable
    <3>2. JobOf(p) = {d}
      BY <2>2, <3>1, OwnPurchase DEF JobOf
    <3>3. {job[d].purchase} \cap Purchases = {p}
      BY <3>1
    <3>4. job[d].status \in {"failed", "needs_review", "done"}
      <4>1. job[d].status \notin Reading
        BY <2>2, <3>2 DEF RemoveDeleting, Removable, StillReading
      <4>2. job[d].status \notin Gone
        BY <3>1 DEF Good, Kept, JobKept
      <4> QED
        BY <1>1, <4>1, <4>2 DEF Jobs, JobStatuses, Gone
    <3> QED
      BY <2>2, <3>1, <3>2, <3>3, <3>4, SeenIs DEF RemoveDeleting, Seen
  <2> QED
    BY <2>1, <2>2
<1>3. job'[d].status = "discarded" /\ job'[d].purchase = None /\ \A e \in Docs \ {d} : job'[e] = job[e]
  BY <1>2, DiscardedFields DEF Good
<1>4. \A q \in Purchases \ {job[d].purchase} : purchase'[q] = purchase[q]
  BY <1>2 DEF DeletePurchases
<1>5. \A e \in Docs \ {d} : job[e].purchase = job[d].purchase => job[d].purchase = None
  BY <1>1 DEF Good, Kept, JobKept
<1>6. \A e \in Docs \ {d} : Alike(e)
  BY <1>3, <1>4, <1>5, OthersAlike
<1>7. Standing(d)' = "removed" /\ Counting(d)' = 0
  <2>1. Removed(d)' /\ ~Counts(d)'
    BY <1>3 DEF Removed, Counts
  <2> QED
    BY <2>1, SeenIs DEF Seen
<1> QED
  BY <1>2, <1>6, <1>7, OneMoves

-----------------------------------------------------------------------------
(* The theorem.                                                            *)

LEMMA PromiseInit == Init => Promise!Init
<1> SUFFICES ASSUME Init PROVE Promise!Init
  OBVIOUS
<1>1. ASSUME NEW d \in Docs PROVE Standing(d) = "unsent" /\ Counting(d) = 0
  <2>1. job[d].status = "absent"
    BY DEF Init, NoJob
  <2>2. {p \in Purchases : purchase[p].doc = d /\ purchase[p].live} = {}
    BY DEF Init, Unborn
  <2> QED
    BY <2>1, <2>2, FS_EmptySet DEF Standing, Counting, Removed, PurchaseWasRemoved, Reading
<1> QED
  BY <1>1 DEF Promise!Init, Counting

LEMMA PromiseStep ==
  ASSUME ~EarlyCommits, Good, Good', [Next]_vars
  PROVE  [Promise!Next]_Promise!promise
<1>1. CASE UNCHANGED <<job, purchase>>
  BY <1>1, SameIsAlike, NothingMoves
<1>2. CASE UNCHANGED vars \/ (\E w \in Workers : Crash(w))
           \/ (\E d \in Docs : UploadLost(d) \/ Unlink(d) \/ UnlinkLost(d))
  BY <1>1, <1>2 DEF vars, Crash, UploadLost, Unlink, UnlinkLost
<1>3. ASSUME NEW p \in Purchases, RemoveDeleting(p) PROVE [Promise!Next]_Promise!promise
  <2>1. purchase[p].doc \in Docs
    BY <1>3, OpenPurchase DEF RemoveDeleting, Removable
  <2> QED
    BY <1>3, <2>1, DeletingMaps
<1>4. CASE Outside
  BY <1>2, <1>3, <1>4, UploadMaps, ClaimMaps, ConvertMaps, DeletingMaps, LinesMap, CommitMaps, VoidingMaps DEF Outside
<1> QED
  BY <1>2, <1>4, WorkerMaps, ClaimMaps DEF Next

\* What people are promised about a receipt is what jobs, workers and purchase rows
\* do: it goes from one standing to the next as ReceiptPromise says, its prices
\* count at most once and only while it is kept; as long as no resolve stage outlasts
\* its lock and nobody commits a draft whose job is still open.
THEOREM PromiseIsKept ==
  ASSUME ~SlowResolve, ~EarlyCommits
  PROVE  Spec => KeepsPromise
<1>1. Init => Promise!Init
  BY PromiseInit
<1>2. Good /\ Good' /\ [Next]_vars => [Promise!Next]_Promise!promise
  BY PromiseStep
<1> QED
  BY <1>1, <1>2, GoodAlways, PTL DEF Spec, KeepsPromise, Promise!Spec
=============================================================================
