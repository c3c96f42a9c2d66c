---------------------------- MODULE RereadProofs ----------------------------
(***************************************************************************)
(* What is proved about Reread for any number of receipts, re-reads and    *)
(* workers and any bounds.                                                 *)
(*                                                                         *)
(* A row that a worker holds is running, dismissed or gone, so no other    *)
(* worker can claim it; and a ready row records what its proposal was made *)
(* from, so apply compares the right thing.  No worker holds an applied    *)
(* row, so no answer reopens it, whoever dismisses it late; and nobody     *)
(* claims a dismissed one, so only who held it then can write it again.    *)
(***************************************************************************)
EXTENDS Reread, TLAPS

\* A busy worker holds a row that nobody else may claim, and has loaded the
\* purchase once it reads.
HeldRows ==
  \A w \in Workers :
    /\ worker[w] = Idle \/ (worker[w].reread \in Rereads /\ worker[w].step # "idle")
    /\ worker[w] # Idle => reread[worker[w].reread].status \in {"running", "dismissed", "gone"}
    /\ worker[w].step = "reading" => worker[w].loaded \in Seen

\* What a ready row records is what its proposal was made from.
Measured == \A n \in Rereads : reread[n].status = "ready" => reread[n].saw = reread[n].made

-----------------------------------------------------------------------------
(* The rows have their types.                                              *)

LEMMA IdleFields == Idle.step = "idle" /\ Idle.reread = None /\ Idle.loaded = None
  BY DEF Idle

LEMMA AsSeenType == ASSUME TypeOK, NEW p \in Purchases PROVE AsSeen(p) \in Seen
  BY DEF TypeOK, AsSeen, Seen

LEMMA RowTypes ==
  /\ Absent \in RereadRows
  /\ \A p \in Purchases : NewReread(p) \in RereadRows /\ NewReread(p).purchase = p
                          /\ NewReread(p).status = "pending"
  /\ \A row \in RereadRows, status \in Statuses \cup {"gone"} :
       /\ WithStatus(row, status) \in RereadRows
       /\ WithStatus(row, status).status = status /\ WithStatus(row, status).purchase = row.purchase
  /\ \A row \in RereadRows, saw, made \in Seen :
       /\ Ready(row, saw, made) \in RereadRows
       /\ Ready(row, saw, made).status = "ready" /\ Ready(row, saw, made).purchase = row.purchase
       /\ Ready(row, saw, made).saw = saw /\ Ready(row, saw, made).made = made
<1> USE MaxAttemptsAssumption DEF RereadRows, Statuses
<1>1. Absent \in RereadRows
  BY DEF Absent
<1>2. \A p \in Purchases : NewReread(p) \in RereadRows /\ NewReread(p).purchase = p
                           /\ NewReread(p).status = "pending"
  BY <1>1 DEF NewReread, Absent
<1>3. \A row \in RereadRows, status \in Statuses \cup {"gone"} :
        /\ WithStatus(row, status) \in RereadRows
        /\ WithStatus(row, status).status = status /\ WithStatus(row, status).purchase = row.purchase
  BY DEF WithStatus
<1>4. \A row \in RereadRows, saw, made \in Seen :
        /\ Ready(row, saw, made) \in RereadRows
        /\ Ready(row, saw, made).status = "ready" /\ Ready(row, saw, made).purchase = row.purchase
        /\ Ready(row, saw, made).saw = saw /\ Ready(row, saw, made).made = made
  BY DEF Ready
<1> QED
  BY <1>1, <1>2, <1>3, <1>4

LEMMA CappedType == \A n \in 0 .. MaxAttempts : Capped(n + 1) \in 0 .. MaxAttempts
  BY MaxAttemptsAssumption DEF Capped

-----------------------------------------------------------------------------
(* What a step does to the rows.                                           *)

\* row may be written to n: a ready one records what it was made from, an open
\* one is the only one of its purchase.
Sound(n, row) ==
  /\ row \in RereadRows /\ row.status # "absent" /\ row.purchase \in Purchases
  /\ row.status = "ready" => row.saw \in Seen /\ row.saw = row.made
  /\ row.status \in Open => OpenOf(row.purchase) \subseteq {n}

\* Nothing else of the state loses its type.
RestTyped ==
  /\ purchase \in [Purchases -> [status: PurchaseStatuses, lines: Nat, recorded: BOOLEAN]]
  /\ worker \in [Workers -> [reread: Rereads \cup {None}, loaded: Seen \cup {None},
                             step: {"idle", "claimed", "reading"}]]
  /\ dismissing \subseteq Rereads
  /\ faults \in Nat

RowsOk == TypeOK /\ Measured /\ OneOpenReread

\* Writing one row keeps what holds of the rows.
LEMMA OneRow ==
  ASSUME RowsOk, RestTyped', NEW n \in Rereads, NEW row, Sound(n, row),
         reread' = [reread EXCEPT ![n] = row]
  PROVE  RowsOk'
<1>1. \A m \in Rereads : reread'[m] = IF m = n THEN row ELSE reread[m]
  BY DEF RowsOk, TypeOK
<1>2. TypeOK'
  <2>1. reread' \in [Rereads -> RereadRows]
    BY DEF RowsOk, TypeOK, Sound
  <2> QED
    BY <1>1, <2>1 DEF RowsOk, TypeOK, Sound, RestTyped
<1>3. Measured'
  BY <1>1 DEF RowsOk, Measured, Sound
<1>4. OneOpenReread'
  <2> SUFFICES ASSUME NEW m \in Rereads, NEW o \in Rereads, m # o,
                      reread'[m].status \in Open, reread'[o].status \in Open,
                      reread'[m].purchase = reread'[o].purchase
               PROVE  FALSE
    BY DEF OneOpenReread
  <2>1. CASE m # n /\ o # n
    BY <1>1, <2>1 DEF RowsOk, OneOpenReread
  <2>2. CASE m = n
    BY <1>1, <2>2 DEF Sound, OpenOf
  <2>3. CASE o = n
    BY <1>1, <2>3 DEF Sound, OpenOf
  <2> QED
    BY <2>1, <2>2, <2>3
<1> QED
  BY <1>2, <1>3, <1>4 DEF RowsOk

LEMMA NoRow == ASSUME RowsOk, RestTyped', reread' = reread PROVE RowsOk'
  BY DEF RowsOk, TypeOK, RestTyped, Measured, OneOpenReread

\* A row whose purchase is not open elsewhere may be rewritten with any status
\* that is not open, and with any if it is open itself.
LEMMA SoundRow ==
  ASSUME RowsOk, NEW n \in Rereads, Stored(n), NEW row \in RereadRows,
         row.purchase = reread[n].purchase, row.status # "absent",
         row.status = "ready" => row.saw \in Seen /\ row.saw = row.made,
         row.status \in Open => reread[n].status \in Open \/ IndexAllows(n)
  PROVE  Sound(n, row)
<1>1. row.purchase \in Purchases
  BY DEF RowsOk, TypeOK, Stored, Statuses
<1>2. row.status \in Open => OpenOf(row.purchase) \subseteq {n}
  BY DEF RowsOk, OneOpenReread, IndexAllows, OpenOf
<1> QED
  BY <1>1, <1>2 DEF Sound

\* A worker's write keeps what holds of the rows, and lets go of its own row.
LEMMA WritesRow ==
  ASSUME RowsOk, HeldRows, NEW w \in Workers, worker[w] # Idle, NEW row \in RereadRows,
         row.purchase = reread[worker[w].reread].purchase, row.status \in Statuses,
         row.status = "ready" => row.saw \in Seen /\ row.saw = row.made,
         Writes(w, row), RestTyped'
  PROVE  /\ RowsOk'
         /\ worker' = [worker EXCEPT ![w] = Idle]
         /\ \A m \in Rereads : m # worker[w].reread => reread'[m] = reread[m]
<1> DEFINE n == worker[w].reread
<1>1. n \in Rereads
  BY DEF HeldRows
<1>2. reread \in [Rereads -> RereadRows]
  BY DEF RowsOk, TypeOK
<1>3. CASE reread' = reread
  BY <1>3, NoRow DEF Writes
<1>4. CASE reread' = [reread EXCEPT ![n] = row] /\ Stored(n) /\ (row.status \in Open => IndexAllows(n))
  <2>1. row.status # "absent"
    BY DEF Statuses
  <2>2. Sound(n, row)
    BY <1>1, <1>4, <2>1, SoundRow
  <2> QED
    BY <1>1, <1>2, <1>4, <2>2, OneRow DEF Writes
<1> QED
  BY <1>3, <1>4 DEF Writes

\* What a reading ends with.
LEMMA ReadsRow ==
  ASSUME TypeOK, HeldRows, NEW w \in Workers, Reads(w)
  PROVE  /\ worker[w] # Idle
         /\ \E row \in RereadRows :
              /\ row.purchase = reread[worker[w].reread].purchase
              /\ row.status \in Statuses \ {"applied", "dismissed"}
              /\ row.status = "ready" => row.saw \in Seen /\ row.saw = row.made
              /\ Writes(w, row)
         /\ UNCHANGED <<purchase, dismissing>>
<1> DEFINE n == worker[w].reread
<1>1. worker[w] # Idle /\ n \in Rereads
  BY IdleFields DEF HeldRows, Reads, Answer, NeverValid, Fails, ModelUnreachable
<1>2. reread[n] \in RereadRows /\ Capped(reread[n].attempts + 1) \in 0 .. MaxAttempts
  BY <1>1, CappedType DEF TypeOK, RereadRows
<1>3. \A status \in Statuses : status # "ready" =>
        /\ WithStatus(reread[n], status) \in RereadRows
        /\ WithStatus(reread[n], status).status = status
        /\ WithStatus(reread[n], status).purchase = reread[n].purchase
  BY <1>2, RowTypes
<1>4. \A status \in Statuses \ {"ready"}, due \in BOOLEAN :
        LET row == [WithStatus(reread[n], status) EXCEPT !.attempts = Capped(reread[n].attempts + 1), !.due = due]
        IN row \in RereadRows /\ row.status = status /\ row.purchase = reread[n].purchase
  BY <1>2, <1>3 DEF RereadRows
<1>5. CASE Answer(w)
  <2>1. worker[w].loaded \in Seen
    BY <1>5 DEF Answer, HeldRows
  <2>2. /\ Ready(reread[n], SeenWhenRead(w), worker[w].loaded) \in RereadRows
        /\ Ready(reread[n], SeenWhenRead(w), worker[w].loaded).purchase = reread[n].purchase
        /\ Ready(reread[n], SeenWhenRead(w), worker[w].loaded).status = "ready"
        /\ Ready(reread[n], SeenWhenRead(w), worker[w].loaded).saw = worker[w].loaded
        /\ Ready(reread[n], SeenWhenRead(w), worker[w].loaded).made = worker[w].loaded
    BY <1>2, <2>1, RowTypes DEF SeenWhenRead
  <2>3. UNCHANGED <<purchase, dismissing>>
    BY <1>5 DEF Answer
  <2>4. CASE Writes(w, WithStatus(reread[n], "no_changes"))
    BY <1>1, <1>3, <2>3, <2>4 DEF Statuses
  <2>5. CASE Writes(w, Ready(reread[n], SeenWhenRead(w), worker[w].loaded))
    BY <1>1, <2>1, <2>2, <2>3, <2>5 DEF Statuses
  <2> QED
    BY <1>5, <2>4, <2>5 DEF Answer
<1>6. CASE NeverValid(w)
  <2> DEFINE row == [WithStatus(reread[n], "failed") EXCEPT !.attempts = Capped(WithStatus(reread[n], "failed").attempts + 1)]
  <2>1. WithStatus(reread[n], "failed").attempts = reread[n].attempts
    BY <1>2 DEF WithStatus, RereadRows
  <2>2. row \in RereadRows /\ row.status = "failed" /\ row.purchase = reread[n].purchase
    BY <1>2, <1>3, <2>1 DEF RereadRows, Statuses
  <2>3. Writes(w, row) /\ UNCHANGED <<purchase, dismissing>>
    BY <1>6 DEF NeverValid
  <2> HIDE DEF row
  <2> QED
    BY <1>1, <2>2, <2>3 DEF Statuses
<1>7. CASE Fails(w)
  <2> DEFINE attempts == Capped(reread[n].attempts + 1)
             givenUp == attempts = MaxAttempts \/ (worker[w].step = "claimed" /\ Voided(reread[n].purchase))
             status == IF givenUp THEN "failed" ELSE "pending"
             row == [WithStatus(reread[n], status) EXCEPT !.attempts = attempts, !.due = givenUp]
  <2>1. Writes(w, row) /\ UNCHANGED <<purchase, dismissing>>
    BY <1>7 DEF Fails
  <2>2. status \in Statuses \ {"ready", "applied", "dismissed"} /\ givenUp \in BOOLEAN
    BY DEF Statuses
  <2> HIDE DEF givenUp, status
  <2>3. row \in RereadRows /\ row.status = status /\ row.purchase = reread[n].purchase
    BY <1>4, <2>2
  <2> HIDE DEF row
  <2> QED
    BY <1>1, <2>1, <2>2, <2>3
<1>8. CASE ModelUnreachable(w)
  <2> DEFINE row == [WithStatus(reread[n], "pending") EXCEPT !.attempts = Capped(WithStatus(reread[n], "pending").attempts + 1),
                                                             !.due = FALSE]
  <2>1. WithStatus(reread[n], "pending").attempts = reread[n].attempts
    BY <1>2 DEF WithStatus, RereadRows
  <2>2. row \in RereadRows /\ row.status = "pending" /\ row.purchase = reread[n].purchase
    BY <1>2, <1>3, <2>1 DEF RereadRows, Statuses
  <2>3. Writes(w, row) /\ UNCHANGED <<purchase, dismissing>>
    BY <1>8 DEF ModelUnreachable
  <2> HIDE DEF row
  <2> QED
    BY <1>1, <2>2, <2>3 DEF Statuses
<1> QED
  BY <1>5, <1>6, <1>7, <1>8 DEF Reads

-----------------------------------------------------------------------------
(* The invariant.                                                          *)

Inv == RowsOk /\ HeldRows /\ OneReader

\* While the workers stand still, a row that one of them holds stays as it is,
\* or is dismissed or deleted.
LEMMA WorkersStand ==
  ASSUME HeldRows, OneReader, worker' = worker,
         \A w \in Workers : worker[w] # Idle => LET n == worker[w].reread IN
           reread'[n].status \in {reread[n].status, "dismissed", "gone"}
  PROVE  HeldRows' /\ OneReader'
  BY DEF HeldRows, OneReader

LEMMA InitInv == Init => Inv
<1> SUFFICES ASSUME Init PROVE Inv
  OBVIOUS
<1>1. TypeOK
  BY RowTypes, IdleFields DEF Init, TypeOK, PurchaseStatuses, Absent, Idle
<1>2. Measured /\ OneOpenReread /\ HeldRows /\ OneReader
  BY IdleFields DEF Init, Measured, OneOpenReread, HeldRows, OneReader, Absent, Open
<1> QED
  BY <1>1, <1>2 DEF Inv, RowsOk

LEMMA PersonInv == ASSUME Inv, Person PROVE Inv'
<1> USE DEF Inv
<1>1. TypeOK /\ reread \in [Rereads -> RereadRows]
  BY DEF RowsOk, TypeOK
<1>2. \A n \in Rereads : reread[n].status \notin {"running", "dismissed", "gone"}
        => \A w \in Workers : worker[w] # Idle => worker[w].reread # n
  BY DEF HeldRows
<1>3. ASSUME NEW p \in Purchases, NEW n \in Rereads, Request(p, n) PROVE Inv'
  <2>1. PICK row \in {NewReread(p), WithStatus(NewReread(p), "no_changes"),
                      Ready(NewReread(p), AsSeen(p), AsSeen(p))} :
          reread' = [reread EXCEPT ![n] = row]
    BY <1>3 DEF Request
  <2>2. AsSeen(p) \in Seen
    BY <1>1, AsSeenType
  <2>3. /\ row \in RereadRows /\ row.purchase = p /\ row.status \in Statuses
        /\ row.status = "ready" => row.saw \in Seen /\ row.saw = row.made
    BY <2>1, <2>2, RowTypes DEF Statuses
  <2>4. Sound(n, row)
    BY <1>3, <2>3 DEF Sound, Request, Statuses
  <2>5. RestTyped'
    BY <1>1, <1>3 DEF Request, TypeOK, RestTyped
  <2>6. RowsOk'
    BY <2>1, <2>4, <2>5, OneRow
  <2>7. worker' = worker /\ \A m \in Rereads : m # n => reread'[m] = reread[m]
    BY <1>1, <1>3, <2>1 DEF Request
  <2>8. \A w \in Workers : worker[w] # Idle => worker[w].reread # n /\ worker[w].reread \in Rereads
    BY <1>2, <1>3 DEF Request, HeldRows
  <2> QED
    BY <2>6, <2>7, <2>8, WorkersStand
<1>4. ASSUME NEW n \in Rereads, LoadDismiss(n) PROVE Inv'
  <2>1. RestTyped' /\ reread' = reread /\ worker' = worker
    BY <1>1, <1>4 DEF LoadDismiss, TypeOK, RestTyped
  <2> QED
    BY <2>1, NoRow, WorkersStand
<1>5. ASSUME NEW n \in Rereads, Dismiss(n) PROVE Inv'
  <2>1. RestTyped' /\ worker' = worker
    BY <1>1, <1>5 DEF Dismiss, TypeOK, RestTyped
  <2>2. CASE reread' = reread
    BY <2>1, <2>2, NoRow, WorkersStand
  <2>3. CASE Stored(n) /\ reread' = [reread EXCEPT ![n] = WithStatus(reread[n], "dismissed")]
    <3>1. /\ WithStatus(reread[n], "dismissed") \in RereadRows
          /\ WithStatus(reread[n], "dismissed").status = "dismissed"
          /\ WithStatus(reread[n], "dismissed").purchase = reread[n].purchase
      BY <1>1, RowTypes DEF Statuses
    <3>2. Sound(n, WithStatus(reread[n], "dismissed"))
      BY <2>3, <3>1, SoundRow DEF Open
    <3>3. RowsOk'
      BY <2>1, <2>3, <3>2, OneRow
    <3>4. \A m \in Rereads : reread'[m].status \in {reread[m].status, "dismissed"}
      BY <1>1, <2>3, <3>1
    <3>5. \A w \in Workers : worker[w] # Idle => worker[w].reread \in Rereads
      BY DEF HeldRows
    <3> QED
      BY <2>1, <3>3, <3>4, <3>5, WorkersStand
  <2> QED
    BY <1>5, <2>2, <2>3 DEF Dismiss
<1>6. ASSUME NEW n \in Rereads, Apply(n) PROVE Inv'
  <2> DEFINE row == WithStatus(reread[n], "applied")
             p == reread[n].purchase
  <2>1. row \in RereadRows /\ row.status = "applied" /\ row.purchase = reread[n].purchase
    BY <1>1, RowTypes DEF Statuses
  <2>2. reread' = [reread EXCEPT ![n] = row] /\ worker' = worker /\ reread[n].status = "ready"
    BY <1>6 DEF Apply
  <2>3. Stored(n) /\ p \in Purchases
    BY <1>1, <2>2 DEF Stored, Statuses, TypeOK
  <2>4. purchase' \in [Purchases -> [status: PurchaseStatuses, lines: Nat, recorded: BOOLEAN]]
    BY <1>1, <1>6, <2>3 DEF Apply, TypeOK, PurchaseStatuses
  <2>5. RestTyped'
    BY <1>1, <1>6, <2>4 DEF Apply, TypeOK, RestTyped
  <2>6. Sound(n, row)
    BY <2>1, <2>3, SoundRow DEF Open
  <2>7. RowsOk'
    BY <2>2, <2>5, <2>6, OneRow
  <2>8. \A w \in Workers : worker[w] # Idle => worker[w].reread # n /\ worker[w].reread \in Rereads
    BY <1>2, <2>2 DEF HeldRows
  <2>9. \A m \in Rereads : m # n => reread'[m] = reread[m]
    BY <1>1, <2>2
  <2> QED
    BY <2>2, <2>7, <2>8, <2>9, WorkersStand
<1>7. ASSUME NEW p \in Purchases, Delete(p) PROVE Inv'
  <2>1. RestTyped' /\ worker' = worker
    BY <1>1, <1>7 DEF Delete, TypeOK, RestTyped, PurchaseStatuses
  <2>2. \A n \in Rereads : /\ WithStatus(reread[n], "gone") \in RereadRows
                           /\ WithStatus(reread[n], "gone").status = "gone"
                           /\ WithStatus(reread[n], "gone").purchase = reread[n].purchase
    BY <1>1, RowTypes
  <2>3. /\ reread' \in [Rereads -> RereadRows]
        /\ \A n \in Rereads : \/ reread'[n] = reread[n]
                              \/ reread'[n].status = "gone" /\ reread'[n].purchase = p
    BY <1>1, <1>7, <2>2 DEF Delete
  <2>4. RowsOk'
    BY <1>1, <2>1, <2>3 DEF RowsOk, TypeOK, RestTyped, Measured, OneOpenReread, Open
  <2>5. \A w \in Workers : worker[w] # Idle => worker[w].reread \in Rereads
    BY DEF HeldRows
  <2> QED
    BY <2>1, <2>3, <2>4, <2>5, WorkersStand
<1>8. ASSUME NEW p \in Purchases, NEW row, ChangesPurchase(p, row),
             row \in [status: PurchaseStatuses, lines: Nat, recorded: BOOLEAN]
      PROVE  Inv'
  <2>1. RestTyped' /\ reread' = reread /\ worker' = worker
    BY <1>1, <1>8 DEF ChangesPurchase, TypeOK, RestTyped
  <2> QED
    BY <2>1, NoRow, WorkersStand
<1>9. ASSUME NEW p \in Purchases,
             ChangeLines(p) \/ Commit(p) \/ Reopen(p) \/ Restore(p) \/ Void(p)
      PROVE  Inv'
  <2>1. purchase[p] \in [status: PurchaseStatuses, lines: Nat, recorded: BOOLEAN]
    BY <1>1 DEF TypeOK
  <2>2. CASE ChangeLines(p)
    BY <1>8, <2>1, <2>2 DEF ChangeLines
  <2>3. CASE Commit(p)
    BY <1>8, <2>1, <2>3 DEF Commit, PurchaseStatuses
  <2>4. CASE Reopen(p) \/ Restore(p) \/ Void(p)
    BY <1>8, <2>1, <2>4 DEF Reopen, Restore, Void, PurchaseStatuses
  <2> QED
    BY <1>9, <2>2, <2>3, <2>4
<1> QED
  BY <1>3, <1>4, <1>5, <1>6, <1>7, <1>9 DEF Person

LEMMA WorkingInv == ASSUME Inv, Working PROVE Inv'
<1> USE DEF Inv
<1>1. TypeOK /\ reread \in [Rereads -> RereadRows]
  BY DEF RowsOk, TypeOK
<1>2. ASSUME NEW w \in Workers, NEW n \in Rereads, Claim(w, n) PROVE Inv'
  <2> DEFINE row == WithStatus(reread[n], "running")
             held == [reread |-> n, loaded |-> None, step |-> "claimed"]
  <2>1. row \in RereadRows /\ row.status = "running" /\ row.purchase = reread[n].purchase
    BY <1>1, RowTypes DEF Statuses
  <2>2. /\ reread' = [reread EXCEPT ![n] = row] /\ worker' = [worker EXCEPT ![w] = held]
        /\ reread[n].status \in {"pending", "running"} /\ \A v \in Workers : worker[v] # Idle => worker[v].reread # n
    BY <1>2 DEF Claim, Claimable, LockLapsed, HeldRows
  <2>3. RestTyped'
    BY <1>1, <1>2, <2>2 DEF Claim, TypeOK, RestTyped
  <2>4. Stored(n) /\ reread[n].status \in Open
    BY <2>2 DEF Stored, Statuses, Open
  <2>5. Sound(n, row)
    BY <2>1, <2>4, SoundRow
  <2>6. RowsOk'
    BY <2>2, <2>3, <2>5, OneRow
  <2>7. \A v \in Workers : worker'[v] = IF v = w THEN held ELSE worker[v]
    BY <1>1, <2>2 DEF TypeOK
  <2>8. \A m \in Rereads : reread'[m] = IF m = n THEN row ELSE reread[m]
    BY <1>1, <2>2
  <2>9. held # Idle /\ held.step = "claimed" /\ held.reread = n
    BY IdleFields
  <2> HIDE DEF held, row
  <2>10. HeldRows'
    BY <2>1, <2>2, <2>7, <2>8, <2>9 DEF HeldRows
  <2>11. OneReader'
    BY <2>2, <2>7, <2>9, NoneAssumption, IdleFields DEF OneReader, HeldRows
  <2> QED
    BY <2>6, <2>10, <2>11
<1>3. ASSUME NEW w \in Workers, Load(w) PROVE Inv'
  <2> DEFINE n == worker[w].reread
             held == [worker[w] EXCEPT !.step = "reading", !.loaded = AsSeen(reread[n].purchase)]
  <2>1. n \in Rereads /\ reread[n].purchase \in Purchases
    BY <1>1, <1>3, IdleFields DEF Load, HeldRows, TypeOK, Stored, Statuses
  <2>2. AsSeen(reread[n].purchase) \in Seen
    BY <1>1, <2>1, AsSeenType
  <2>3. worker' = [worker EXCEPT ![w] = held] /\ reread' = reread
    BY <1>1, <1>3 DEF Load, TypeOK
  <2>4. /\ held \in [reread: Rereads \cup {None}, loaded: Seen \cup {None}, step: {"idle", "claimed", "reading"}]
        /\ held.step = "reading" /\ held.loaded \in Seen /\ held.reread = n
    BY <1>1, <2>1, <2>2 DEF TypeOK
  <2> HIDE DEF held
  <2>5. RestTyped'
    BY <1>1, <1>3, <2>3, <2>4 DEF Load, TypeOK, RestTyped
  <2>6. RowsOk'
    BY <2>3, <2>5, NoRow
  <2>7. \A v \in Workers : worker'[v] = IF v = w THEN held ELSE worker[v]
    BY <1>1, <2>3 DEF TypeOK
  <2>8. worker[w] # Idle /\ held # Idle
    BY <1>3, <2>4, IdleFields DEF Load
  <2> QED
    BY <2>1, <2>3, <2>4, <2>6, <2>7, <2>8, NoneAssumption, IdleFields DEF HeldRows, OneReader
<1>4. ASSUME NEW w \in Workers, worker' = [worker EXCEPT ![w] = Idle],
             \A m \in Rereads : (worker[w] # Idle /\ m = worker[w].reread) \/ reread'[m] = reread[m]
      PROVE  HeldRows' /\ OneReader'
  <2>1. \A v \in Workers : worker'[v] = IF v = w THEN Idle ELSE worker[v]
    BY <1>1, <1>4 DEF TypeOK
  <2>2. \A v \in Workers : v # w /\ worker[v] # Idle => reread'[worker[v].reread] = reread[worker[v].reread]
    BY <1>4 DEF HeldRows, OneReader
  <2> QED
    BY <2>1, <2>2, NoneAssumption, IdleFields DEF HeldRows, OneReader
<1>5. ASSUME NEW w \in Workers, Reads(w) PROVE Inv'
  <2>1. PICK row \in RereadRows :
          /\ row.purchase = reread[worker[w].reread].purchase /\ row.status \in Statuses
          /\ row.status = "ready" => row.saw \in Seen /\ row.saw = row.made
          /\ Writes(w, row)
    BY <1>1, <1>5, ReadsRow
  <2>2. worker[w] # Idle /\ UNCHANGED <<purchase, dismissing>>
    BY <1>1, <1>5, ReadsRow
  <2>3. Idle \in [reread: Rereads \cup {None}, loaded: Seen \cup {None}, step: {"idle", "claimed", "reading"}]
    BY DEF Idle
  <2>4. RestTyped'
    BY <1>1, <1>5, <2>1, <2>2, <2>3
       DEF RestTyped, TypeOK, Writes, Reads, Answer, NeverValid, Fails, ModelUnreachable
  <2>5. RowsOk' /\ worker' = [worker EXCEPT ![w] = Idle]
        /\ \A m \in Rereads : m # worker[w].reread => reread'[m] = reread[m]
    BY <2>1, <2>2, <2>4, WritesRow
  <2> QED
    BY <1>4, <2>2, <2>5
<1>6. ASSUME NEW w \in Workers, Crash(w) PROVE Inv'
  <2>1. RestTyped' /\ reread' = reread /\ worker' = [worker EXCEPT ![w] = Idle]
    BY <1>1, <1>6 DEF Crash, TypeOK, RestTyped, Idle
  <2> QED
    BY <1>4, <2>1, NoRow
<1> QED
  BY <1>2, <1>3, <1>5, <1>6 DEF Working, Claims

LEMMA NextInv == Inv /\ [Next]_vars => Inv'
<1> SUFFICES ASSUME Inv, [Next]_vars PROVE Inv'
  OBVIOUS
<1>1. ASSUME NEW n \in Rereads, BackoffPasses(n) PROVE Inv'
  <2>1. TypeOK /\ reread \in [Rereads -> RereadRows]
    BY DEF Inv, RowsOk, TypeOK
  <2>2. RestTyped' /\ worker' = worker
    BY <1>1, <2>1 DEF BackoffPasses, TypeOK, RestTyped
  <2>3. /\ reread' \in [Rereads -> RereadRows]
        /\ \A m \in Rereads :
             /\ reread'[m].status = reread[m].status /\ reread'[m].purchase = reread[m].purchase
             /\ reread'[m].saw = reread[m].saw /\ reread'[m].made = reread[m].made
    BY <1>1, <2>1 DEF BackoffPasses, RereadRows
  <2>4. RowsOk'
    <3>1. TypeOK'
      BY <2>1, <2>2, <2>3 DEF TypeOK, RestTyped
    <3>2. Measured'
      BY <2>3 DEF Inv, RowsOk, Measured
    <3>3. OneOpenReread'
      BY <2>3 DEF Inv, RowsOk, OneOpenReread
    <3> QED
      BY <3>1, <3>2, <3>3 DEF RowsOk
  <2>5. \A w \in Workers : worker[w] # Idle => worker[w].reread \in Rereads
    BY DEF Inv, HeldRows
  <2> QED
    BY <2>2, <2>3, <2>4, <2>5, WorkersStand DEF Inv
<1>2. CASE UNCHANGED vars
  BY <1>2 DEF vars, Inv, RowsOk, TypeOK, Measured, OneOpenReread, HeldRows, OneReader, Seen
<1> QED
  BY <1>1, <1>2, PersonInv, WorkingInv DEF Next

-----------------------------------------------------------------------------
(* The theorems.                                                           *)

LEMMA Invariant == Spec => []Inv
  BY InitInv, NextInv, PTL DEF Spec

\* Rows, workers and counters keep their types, and a ready row records what it
\* was made from.
THEOREM TypeCorrect == Spec => []TypeOK
  BY Invariant, PTL DEF Inv, RowsOk

\* One re-read of a purchase is open, however dismissals, new requests and late
\* answers overlap.
THEOREM OneIsOpen == Spec => []OneOpenReread
  BY Invariant, PTL DEF Inv, RowsOk

\* No two workers read for one row, through crashes and claims of what they left.
THEOREM OneReads == Spec => []OneReader
  BY Invariant, PTL DEF Inv

\* A step applies a proposal only if it was made from the lines it replaces.
LEMMA AppliedStep ==
  ASSUME Inv, [Next]_vars, NEW n \in Rereads,
         reread[n].status # "applied", reread'[n].status = "applied"
  PROVE  AsSeen(reread[n].purchase) = reread[n].made
<1>1. TypeOK /\ reread \in [Rereads -> RereadRows]
  BY DEF Inv, RowsOk, TypeOK
<1>2. reread' # reread /\ reread'[n] # reread[n]
  BY DEF vars
<1>3. CASE Apply(n)
  BY <1>3 DEF Apply, Inv, RowsOk, Measured
<1>4. ASSUME NEW m \in Rereads, m # n, Apply(m) PROVE FALSE
  BY <1>1, <1>2, <1>4 DEF Apply
<1>5. ASSUME NEW p \in Purchases, NEW m \in Rereads, Request(p, m) PROVE FALSE
  <2>1. \A row \in {NewReread(p), WithStatus(NewReread(p), "no_changes"),
                    Ready(NewReread(p), AsSeen(p), AsSeen(p))} : row.status # "applied"
    BY <1>1, RowTypes, AsSeenType DEF Statuses
  <2> QED
    BY <1>1, <1>5, <2>1 DEF Request
<1>6. \A m \in Rereads : \A status \in {"dismissed", "gone", "running"} :
        WithStatus(reread[m], status).status = status
  BY <1>1, RowTypes DEF Statuses
<1>7. ASSUME NEW m \in Rereads, LoadDismiss(m) \/ Dismiss(m) \/ BackoffPasses(m) PROVE FALSE
  BY <1>1, <1>2, <1>6, <1>7 DEF LoadDismiss, Dismiss, BackoffPasses, RereadRows
<1>8. ASSUME NEW p \in Purchases,
             ChangeLines(p) \/ Commit(p) \/ Reopen(p) \/ Restore(p) \/ Void(p) \/ Delete(p)
      PROVE  FALSE
  BY <1>1, <1>2, <1>6, <1>8
     DEF ChangeLines, Commit, Reopen, Restore, Void, Delete, ChangesPurchase
<1>9. ASSUME NEW w \in Workers, Claims(w) \/ Load(w) \/ Crash(w) PROVE FALSE
  BY <1>1, <1>2, <1>6, <1>9 DEF Claims, Claim, Load, Crash
<1>10. ASSUME NEW w \in Workers, Reads(w) PROVE FALSE
  <2>1. PICK row \in RereadRows : row.status # "applied" /\ Writes(w, row)
    BY <1>1, <1>10, ReadsRow DEF Inv
  <2> QED
    BY <1>1, <1>2, <2>1 DEF Writes
<1> QED
  BY <1>2, <1>3, <1>4, <1>5, <1>7, <1>8, <1>9, <1>10 DEF Next, Person, Working, vars

\* What a person applies was made from the lines and the status it changes,
\* however long the model took and whatever was changed meanwhile.
THEOREM AppliesWhatItSaw == Spec => AppliedToWhatItSaw
<1>1. Inv /\ [Next]_vars
        => [\A n \in Rereads : reread[n].status # "applied" /\ reread'[n].status = "applied"
              => AsSeen(reread[n].purchase) = reread[n].made]_vars
  BY AppliedStep
<1> QED
  BY <1>1, Invariant, PTL DEF Spec, AppliedToWhatItSaw

-----------------------------------------------------------------------------
(* What was decided.                                                       *)

\* Row n was applied, or was and is now marked as dismissed or gone.
Applied(n) ==
  \/ reread[n].status \in {"applied", "gone"}
  \/ reread[n].status = "dismissed" /\ \A w \in Workers : worker[w].reread # n

\* What a step makes of a row that was decided or is gone: a dismissal may mark
\* it, and the end of a reading writes it if it was dismissed under that reading.
Stands(n) ==
  \/ reread'[n].status \in {reread[n].status, "gone"}
  \/ reread[n].status # "gone" /\ reread'[n].status = "dismissed"
  \/ reread[n].status = "dismissed" /\ \E w \in Workers : worker[w].reread = n /\ worker'[w] = Idle

\* Nobody takes up row n who does not hold it.
NotClaimed(n) == \A w \in Workers : worker'[w].reread = n => worker[w].reread = n

LEMMA PersonStands ==
  ASSUME Inv, Person, NEW n \in Rereads, reread[n].status \in {"applied", "dismissed", "gone"}
  PROVE  Stands(n) /\ worker' = worker
<1>1. TypeOK /\ reread \in [Rereads -> RereadRows]
  BY DEF Inv, RowsOk, TypeOK
<1>2. \A m \in Rereads, status \in {"dismissed", "applied", "gone"} :
        WithStatus(reread[m], status).status = status
  BY <1>1, RowTypes DEF Statuses
<1>3. ASSUME NEW p \in Purchases, NEW m \in Rereads, Request(p, m) PROVE Stands(n) /\ worker' = worker
  BY <1>1, <1>3 DEF Request, Stands
<1>4. ASSUME NEW m \in Rereads, LoadDismiss(m) PROVE Stands(n) /\ worker' = worker
  BY <1>4 DEF LoadDismiss, Stands
<1>5. ASSUME NEW m \in Rereads, Dismiss(m) PROVE Stands(n) /\ worker' = worker
  BY <1>1, <1>2, <1>5 DEF Dismiss, Stored, Statuses, Stands
<1>6. ASSUME NEW m \in Rereads, Apply(m) PROVE Stands(n) /\ worker' = worker
  BY <1>1, <1>6 DEF Apply, Stands
<1>7. ASSUME NEW p \in Purchases, Delete(p) PROVE Stands(n) /\ worker' = worker
  BY <1>1, <1>2, <1>7 DEF Delete, Stands
<1>8. ASSUME NEW p \in Purchases,
             ChangeLines(p) \/ Commit(p) \/ Reopen(p) \/ Restore(p) \/ Void(p)
      PROVE  Stands(n) /\ worker' = worker
  BY <1>8 DEF ChangeLines, Commit, Reopen, Restore, Void, ChangesPurchase, Stands
<1> QED
  BY <1>3, <1>4, <1>5, <1>6, <1>7, <1>8 DEF Person

LEMMA WorkingStands ==
  ASSUME Inv, Working, NEW n \in Rereads, reread[n].status \in {"applied", "dismissed", "gone"}
  PROVE  Stands(n) /\ NotClaimed(n)
<1>1. TypeOK /\ reread \in [Rereads -> RereadRows] /\ HeldRows
  BY DEF Inv, RowsOk, TypeOK
<1>2. ASSUME NEW w \in Workers, NEW m \in Rereads, Claim(w, m) PROVE Stands(n) /\ NotClaimed(n)
  <2>1. reread[m].status \in {"pending", "running"}
    BY <1>2 DEF Claim, Claimable
  <2>2. Stands(n)
    BY <1>1, <1>2, <2>1 DEF Claim, Stands
  <2>3. \A v \in Workers : IF v = w THEN worker'[v].reread = m ELSE worker'[v] = worker[v]
    BY <1>1, <1>2 DEF Claim, TypeOK
  <2> QED
    BY <2>1, <2>2, <2>3 DEF NotClaimed
<1>3. ASSUME NEW w \in Workers, Load(w) PROVE Stands(n) /\ NotClaimed(n)
  BY <1>1, <1>3 DEF Load, TypeOK, Stands, NotClaimed
<1>4. ASSUME NEW w \in Workers, worker' = [worker EXCEPT ![w] = Idle] PROVE NotClaimed(n)
  <2>1. Idle.reread # n
    BY IdleFields, NoneAssumption
  <2>2. \A v \in Workers : IF v = w THEN worker'[v] = Idle ELSE worker'[v] = worker[v]
    BY <1>1, <1>4 DEF TypeOK
  <2> QED
    BY <2>1, <2>2 DEF NotClaimed
<1>5. ASSUME NEW w \in Workers, Reads(w) PROVE Stands(n) /\ NotClaimed(n)
  <2>1. PICK row \in RereadRows : Writes(w, row)
    BY <1>1, <1>5, ReadsRow
  <2> DEFINE m == worker[w].reread
  <2>2. m \in Rereads /\ reread[m].status \in {"running", "dismissed", "gone"}
    BY <1>1, <1>5, ReadsRow DEF HeldRows
  <2>3. worker' = [worker EXCEPT ![w] = Idle] /\ worker'[w] = Idle
    BY <1>1, <2>1 DEF Writes, TypeOK
  <2>4. reread' = reread \/ (reread[m].status # "gone" /\ reread' = [reread EXCEPT ![m] = row])
    BY <2>1 DEF Writes, Stored, Statuses
  <2>5. Stands(n)
    BY <1>1, <2>2, <2>3, <2>4 DEF Stands
  <2> QED
    BY <1>4, <2>3, <2>5
<1>6. ASSUME NEW w \in Workers, Crash(w) PROVE Stands(n) /\ NotClaimed(n)
  BY <1>4, <1>6 DEF Crash, Stands
<1> QED
  BY <1>2, <1>3, <1>5, <1>6 DEF Working, Claims

LEMMA DecidedStep ==
  ASSUME Inv, [Next]_vars, NEW n \in Rereads, reread[n].status \in {"applied", "dismissed", "gone"}
  PROVE  Stands(n) /\ NotClaimed(n)
<1>1. ASSUME NEW m \in Rereads, BackoffPasses(m) PROVE Stands(n) /\ worker' = worker
  <2>1. reread[n] \in RereadRows
    BY DEF Inv, RowsOk, TypeOK
  <2>2. reread'[n].status = reread[n].status
    BY <1>1, <2>1 DEF BackoffPasses, RereadRows, Inv, RowsOk, TypeOK
  <2> QED
    BY <1>1, <2>2 DEF BackoffPasses, Stands
<1>2. CASE UNCHANGED vars
  BY <1>2 DEF vars, Stands, NotClaimed
<1>3. worker' = worker => NotClaimed(n)
  BY DEF NotClaimed
<1> QED
  BY <1>1, <1>2, <1>3, PersonStands, WorkingStands DEF Next

\* A row that was applied is held by nobody, so it stays what a person made of it.
LEMMA AppliedStays == ASSUME NEW n \in Rereads PROVE Inv /\ Applied(n) /\ [Next]_vars => Applied(n)'
<1> SUFFICES ASSUME Inv, Applied(n), [Next]_vars PROVE Applied(n)'
  OBVIOUS
<1>1. Stands(n) /\ NotClaimed(n)
  BY DecidedStep DEF Applied
<1>2. \A w \in Workers : worker[w].reread = n => reread[n].status \in {"running", "dismissed", "gone"}
  BY IdleFields, NoneAssumption DEF Inv, HeldRows
<1>3. reread[n].status # "gone" => \A w \in Workers : worker[w].reread # n
  BY <1>2 DEF Applied
<1> QED
  BY <1>1, <1>3 DEF Applied, Stands, NotClaimed

LEMMA DismissedStep ==
  Inv /\ [Next]_vars =>
    [\A n \in Rereads : reread[n].status = "dismissed" =>
        \/ reread'[n].status \in {"dismissed", "gone"}
        \/ \E w \in Workers : worker[w].reread = n /\ worker'[w] = Idle]_vars
  BY DecidedStep DEF Stands

\* What a person decided on a re-read stands, through late answers, late
\* dismissals, crashes and whatever happens to its purchase: an applied proposal
\* is never offered again, and only the reading that was under way when its row
\* was dismissed can still write it.
THEOREM DecisionsStand == Spec => DecidedStands
<1>1. ASSUME NEW n \in Rereads
      PROVE  Spec => [](reread[n].status = "applied" => [](reread[n].status \in {"applied", "dismissed", "gone"}))
  <2>1. reread[n].status = "applied" => Applied(n)
    BY DEF Applied
  <2>2. Inv /\ Applied(n) /\ [Next]_vars => Applied(n)'
    BY AppliedStays
  <2>3. Applied(n) => reread[n].status \in {"applied", "dismissed", "gone"}
    BY DEF Applied
  <2> QED
    BY <2>1, <2>2, <2>3, Invariant, PTL DEF Spec
<1>2. Spec => \A n \in Rereads :
        [](reread[n].status = "applied" => [](reread[n].status \in {"applied", "dismissed", "gone"}))
  BY <1>1
<1> QED
  BY <1>2, DismissedStep, Invariant, PTL DEF Spec, DecidedStands
=============================================================================
