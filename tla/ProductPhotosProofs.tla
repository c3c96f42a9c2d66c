------------------------ MODULE ProductPhotosProofs ------------------------
(***************************************************************************)
(* What is proved about the photos of products, for any number of photos,  *)
(* masks, jobs, faults and workers, and whatever may overlap (mix).        *)
(*                                                                         *)
(* First what each step does to rows and jobs; then the types; then, one   *)
(* after the other, the main photo, hidden photos, photos left behind, and *)
(* masks, each with the strengthening that is kept by every step.          *)
(***************************************************************************)
EXTENDS ProductPhotos, WellFoundedInduction, TLAPS

-----------------------------------------------------------------------------
(* Sets of numbers have a least and a greatest element.                    *)

LEMMA LeastNat ==
  ASSUME NEW S, S \subseteq Nat, S # {}
  PROVE  \E m \in S : \A k \in S : m <= k
<1>1. PICK m \in S : \A k \in S : ~ (<<k, m>> \in OpToRel(<, Nat))
  BY NatLessThanWellFounded, WFMin
<1>2. ASSUME NEW k \in S PROVE m <= k
  <2>1. <<k, m>> \in Nat \X Nat /\ <<k, m>>[1] = k /\ <<k, m>>[2] = m
    OBVIOUS
  <2>2. ~(k < m)
    BY <1>1, <2>1 DEF OpToRel
  <2> QED
    BY <2>2
<1> QED
  BY <1>2

LEMMA GreatestNat ==
  ASSUME NEW n \in Nat, NEW S, S \subseteq 0 .. n, S # {}
  PROVE  \E m \in S : \A k \in S : k <= m
<1> DEFINE T == {n - k : k \in S}
<1>1. \A k \in S : n - k \in Nat /\ n - k \in T
  OBVIOUS
<1>2. T \subseteq Nat /\ T # {}
  BY <1>1
<1>3. PICK t \in T : \A k \in T : t <= k
  BY <1>2, LeastNat
<1>4. PICK m \in S : t = n - m
  BY <1>3
<1>5. \A k \in S : n - m <= n - k
  BY <1>1, <1>3, <1>4
<1> QED
  BY <1>5

\* select_primary finds a main photo among those that can be shown, if there are any.
LEMMA PrimaryIs ==
  ASSUME NEW rows \in Seq(Rows), NEW x
  PROVE  LET shown == {i \in ImagesOf(rows, x) : Eligible(rows[i])} IN
         IF shown = {} THEN Primary(rows, x) = 0 ELSE Primary(rows, x) \in shown
<1> DEFINE shown == {i \in ImagesOf(rows, x) : Eligible(rows[i])}
           chosen == {i \in shown : rows[i].pinned}
           best == {i \in shown : \A k \in shown : Rank(rows[i]) <= Rank(rows[k])}
           newest(s) == CHOOSE i \in s : \A k \in s : k <= i
           ranks == {Rank(rows[i]) : i \in shown}
<1>1. shown \subseteq 1 .. Len(rows) /\ Len(rows) \in Nat
  BY DEF ImagesOf
<1>2. ASSUME NEW s, s \subseteq shown, s # {} PROVE newest(s) \in s
  <2>1. s \subseteq 0 .. Len(rows)
    BY <1>1, <1>2
  <2>2. \E m \in s : \A k \in s : k <= m
    BY <1>1, <1>2, <2>1, GreatestNat
  <2> QED
    BY <2>2
<1>3. ASSUME shown # {} PROVE best # {}
  <2>1. \A i \in shown : Rank(rows[i]) \in Nat /\ Rank(rows[i]) \in ranks
    BY DEF Rank
  <2>2. ranks \subseteq Nat /\ ranks # {}
    BY <1>3, <2>1
  <2>3. PICK r \in ranks : \A k \in ranks : r <= k
    BY <2>2, LeastNat
  <2>4. PICK i \in shown : r = Rank(rows[i])
    BY <2>3
  <2>5. i \in best
    BY <2>1, <2>3, <2>4
  <2> QED
    BY <2>5
<1>4. Primary(rows, x) = IF shown = {} THEN 0 ELSE IF chosen # {} THEN newest(chosen) ELSE newest(best)
  BY DEF Primary
<1>5. chosen \subseteq shown /\ best \subseteq shown
  OBVIOUS
<1> HIDE DEF shown, chosen, best, newest
<1>6. IF shown = {} THEN Primary(rows, x) = 0 ELSE Primary(rows, x) \in shown
  BY <1>2, <1>3, <1>4, <1>5
<1> QED
  BY <1>6 DEF shown
-----------------------------------------------------------------------------
(* Rows and jobs.                                                          *)

LEMMA Replaced ==
  ASSUME NEW S, NEW s \in Seq(S), NEW n \in DOMAIN s, NEW x \in S
  PROVE  LET t == [s EXCEPT ![n] = x] IN
         /\ t \in Seq(S) /\ Len(t) = Len(s) /\ DOMAIN t = DOMAIN s
         /\ t[n] = x /\ \A k \in DOMAIN s : k # n => t[k] = s[k]
<1> DEFINE t == [s EXCEPT ![n] = x]
<1>1. s \in [1 .. Len(s) -> S] /\ Len(s) \in Nat /\ n \in 1 .. Len(s)
  OBVIOUS
<1>2. t \in [1 .. Len(s) -> S]
  BY <1>1
<1>3. t[n] = x /\ \A k \in DOMAIN s : k # n => t[k] = s[k]
  BY <1>1
<1> HIDE DEF t
<1>4. t \in Seq(S)
  BY <1>1, <1>2
<1>5. DOMAIN t = 1 .. Len(s)
  BY <1>2
<1>6. Len(t) = Len(s)
  BY <1>1, <1>4, <1>5
<1> QED
  BY <1>1, <1>3, <1>4, <1>5, <1>6 DEF t

LEMMA Mapped ==
  ASSUME NEW S, NEW s \in Seq(S), NEW t, t = [k \in DOMAIN s |-> t[k]], \A k \in DOMAIN s : t[k] \in S
  PROVE  t \in Seq(S) /\ Len(t) = Len(s) /\ DOMAIN t = DOMAIN s
<1>1. DOMAIN s = 1 .. Len(s) /\ Len(s) \in Nat
  OBVIOUS
<1>2. t \in [1 .. Len(s) -> S]
  BY <1>1
<1>3. t \in Seq(S) /\ DOMAIN t = 1 .. Len(s)
  BY <1>1, <1>2
<1>4. Len(t) = Len(s)
  BY <1>1, <1>3
<1> QED
  BY <1>1, <1>3, <1>4

LEMMA Added ==
  ASSUME NEW S, NEW s \in Seq(S), NEW x \in S
  PROVE  LET t == Append(s, x) IN
         /\ t \in Seq(S) /\ Len(t) = Len(s) + 1 /\ DOMAIN t = DOMAIN s \cup {Len(s) + 1}
         /\ t[Len(s) + 1] = x /\ Len(s) + 1 \notin DOMAIN s /\ \A k \in DOMAIN s : t[k] = s[k]
OBVIOUS

Statuses == {"processing", "candidate", "active", "hidden", "failed"}

Kinds == {"user_photo", "vendor_listing"}

\* Only photo i changes, and becomes row.
Becomes(i, row) ==
  /\ i \in Photos /\ row \in Rows
  /\ image' \in Seq(Rows) /\ Len(image') = Len(image) /\ Photos' = Photos
  /\ image'[i] = row /\ \A k \in Photos : k # i => image'[k] = image[k]

LEMMA Becoming ==
  ASSUME image \in Seq(Rows), NEW i \in Photos, NEW row \in Rows, image' = [image EXCEPT ![i] = row]
  PROVE  Becomes(i, row)
<1>1. /\ [image EXCEPT ![i] = row] \in Seq(Rows) /\ Len([image EXCEPT ![i] = row]) = Len(image)
      /\ DOMAIN [image EXCEPT ![i] = row] = DOMAIN image
      /\ [image EXCEPT ![i] = row][i] = row
      /\ \A k \in DOMAIN image : k # i => [image EXCEPT ![i] = row][k] = image[k]
  BY Replaced DEF Photos
<1> QED
  BY <1>1 DEF Becomes, Photos

\* What may change in a row, once it is there.
RowChange(row, new) ==
  /\ new \in Rows /\ new.upload = row.upload /\ new.proposed = row.proposed
  /\ row.prepared => new.prepared

LEMMA RowIs ==
  ASSUME NEW row \in Rows
  PROVE  /\ row.upload \in Uploads /\ row.product \in Products \cup {None}
         /\ row.proposed \in BOOLEAN /\ row.kind \in Kinds
         /\ row.role \in {"product", "label_front"} /\ row.status \in Statuses
         /\ row.prepared \in BOOLEAN /\ row.mask \in 0 .. MaxMasks /\ row.pinned \in BOOLEAN
         /\ row.given \in 0 .. MaxMasks /\ row.hid \in BOOLEAN
BY DEF Rows, Kinds, Statuses

\* A row as it is stored.
Starts(row, u, n) ==
  /\ row \in Rows /\ row.upload = u /\ row.status = "processing"
  /\ ~row.prepared /\ row.mask = 0 /\ row.given = n /\ ~row.hid

LEMMA AddedRow ==
  ASSUME NEW u \in Uploads, NEW x \in Products
  PROVE  /\ Starts(NewImage(u, x, FALSE, "user_photo"), u, 0)
         /\ NewImage(u, x, FALSE, "user_photo").product # None
<1>1. 0 \in 0 .. MaxMasks
  BY BoundsAssumption
<1> QED
  BY <1>1, NoneAssumption DEF NewImage, Rows, Starts

LEMMA ProposedRow ==
  ASSUME NEW u \in Uploads, NEW kind \in Kinds
  PROVE  Starts(NewImage(u, None, TRUE, kind), u, 0) /\ NewImage(u, None, TRUE, kind).proposed
<1>1. 0 \in 0 .. MaxMasks
  BY BoundsAssumption
<1> QED
  BY <1>1 DEF NewImage, Rows, Kinds, Starts

LEMMA AnsweredRow ==
  ASSUME NEW u \in Uploads, NEW n \in 0 .. MaxMasks
  PROVE  LET row == [NewImage(u, None, TRUE, "vendor_listing") EXCEPT !.given = n] IN
         Starts(row, u, n) /\ row.proposed
<1>1. 0 \in 0 .. MaxMasks
  BY BoundsAssumption
<1> QED
  BY <1>1 DEF NewImage, Rows, Starts

\* All but the named fields stay: SameBut(row, new, {"status"}).
SameBut(row, new, fields) ==
  /\ new \in Rows /\ new.upload = row.upload /\ new.proposed = row.proposed
  /\ "product" \in fields \/ new.product = row.product
  /\ "role" \in fields \/ new.role = row.role
  /\ "status" \in fields \/ new.status = row.status
  /\ "prepared" \in fields \/ new.prepared = row.prepared
  /\ "mask" \in fields \/ new.mask = row.mask
  /\ "given" \in fields \/ new.given = row.given
  /\ "hid" \in fields \/ new.hid = row.hid

LEMMA GivenRow ==
  ASSUME NEW row \in Rows, NEW n \in 0 .. MaxMasks
  PROVE  /\ SameBut(row, [row EXCEPT !.given = n], {"given"}) /\ [row EXCEPT !.given = n].given = n
         /\ [row EXCEPT !.kind = "vendor_listing"] \in Rows
         /\ SameBut(row, [row EXCEPT !.kind = "vendor_listing"], {})
         /\ SameBut(row, [row EXCEPT !.kind = "vendor_listing", !.given = n], {"given"})
         /\ [row EXCEPT !.kind = "vendor_listing", !.given = n].given = n
BY DEF Rows, SameBut

LEMMA StatusRow ==
  ASSUME NEW row \in Rows, NEW s \in Statuses
  PROVE  SameBut(row, [row EXCEPT !.status = s], {"status"}) /\ [row EXCEPT !.status = s].status = s
BY DEF Rows, Statuses, SameBut

LEMMA PreparedRow ==
  ASSUME NEW row \in Rows, NEW b \in BOOLEAN, NEW s \in Statuses
  PROVE  /\ SameBut(row, [row EXCEPT !.prepared = b], {"prepared"}) /\ [row EXCEPT !.prepared = b].prepared = b
         /\ SameBut(row, [row EXCEPT !.status = s, !.prepared = b], {"status", "prepared"})
         /\ [row EXCEPT !.status = s, !.prepared = b].prepared = b
         /\ [row EXCEPT !.status = s, !.prepared = b].status = s
BY DEF Rows, Statuses, SameBut

LEMMA PinnedRow ==
  ASSUME NEW row \in Rows, NEW b \in BOOLEAN
  PROVE  SameBut(row, [row EXCEPT !.pinned = b], {})
BY DEF Rows, SameBut
-----------------------------------------------------------------------------
(* Types, with what a worker and a request hold.                           *)

WorkerFits(v, J) ==
  /\ v.at \in {"idle", "files", "write", "unlink"}
  /\ v.at # "idle" => v.job \in J
  /\ v.at \in {"files", "write"} => v.product \in Products \cup {None} /\ v.prepared \in BOOLEAN
  /\ v.at = "files" => v.was \in Statuses
  /\ v.at = "write" => v.given \in 0 .. MaxMasks
  /\ v.at \in {"write", "unlink"} => v.usedMasks \in SUBSET Sources
  /\ v.at = "unlink" => v.upload \in BOOLEAN

WorkerRight(v) == WorkerFits(v, Jobs)

RequestRight ==
  /\ request.kind \in {"none", "accept"} \cup Choices
  /\ request.kind # "none" => request.product \in Products
  /\ request.kind \in Choices => request.image \in Photos
  /\ request.kind = "accept" => /\ DOMAIN request.read \subseteq Photos
                                /\ \A i \in DOMAIN request.read : request.read[i] \in Statuses

Asked == [1 .. MaxImages -> {"no", "open", "sent"}]

\* Only where retries may overlap does one read what it does not read again.
RetryingRight == retrying \subseteq Photos /\ (retrying = {} \/ "retry" \in mix.overlap)

Typed ==
  /\ TypeOK /\ mix \in Mixes
  /\ DOMAIN worker = Workers /\ \A w \in Workers : WorkerRight(worker[w])
  /\ RequestRight /\ RetryingRight

\* Worker w is at, and the photo of its job.
At(w) == worker[w].at

Its(w) == jobs[worker[w].job].image

LEMMA ItsPhoto ==
  ASSUME Typed, NEW w \in Workers, At(w) # "idle"
  PROVE  worker[w].job \in Jobs /\ Its(w) \in Photos /\ image[Its(w)] \in Rows
<1>1. worker[w].job \in Jobs /\ jobs \in Seq(JobRows) /\ image \in Seq(Rows)
  BY DEF Typed, TypeOK, WorkerRight, WorkerFits, At
<1>2. jobs[worker[w].job] \in JobRows
  BY <1>1 DEF Jobs
<1>3. Its(w) \in Photos
  BY <1>2 DEF JobRows, Its
<1> QED
  BY <1>1, <1>3 DEF Photos

\* One more job, for photo i.
Queued(i) ==
  /\ jobs' \in Seq(JobRows') /\ Len(jobs') <= MaxJobs
  /\ Len(jobs) + 1 \notin Jobs /\ Jobs' = Jobs \cup {Len(jobs) + 1}
  /\ jobs'[Len(jobs) + 1] = NewJob(i) /\ \A j \in Jobs : jobs'[j] = jobs[j]

\* Only job j changes, and only how it ended.
JobEnds(j, status, error) ==
  /\ j \in Jobs /\ Jobs' = Jobs /\ jobs' \in Seq(JobRows') /\ Len(jobs') <= MaxJobs
  /\ jobs'[j].image = jobs[j].image /\ jobs'[j].status = status /\ jobs'[j].error = error
  /\ \A k \in Jobs : k # j => jobs'[k] = jobs[k]

WorkerBecomes(w, v) ==
  /\ DOMAIN worker' = Workers /\ worker'[w] = v
  /\ \A u \in Workers : u # w => worker'[u] = worker[u]

LEMMA MoreJobs ==
  ASSUME Typed, NEW i \in Photos', Photos \subseteq Photos', Len(jobs) < MaxJobs, jobs' = Append(jobs, NewJob(i))
  PROVE  Queued(i)
<1> DEFINE S == JobRows'
<1>1. jobs \in Seq(S) /\ NewJob(i) \in S
  <2>1. JobRows \subseteq S
    BY DEF JobRows
  <2>2. NewJob(i) \in S
    BY DEF JobRows, NewJob
  <2> QED
    BY <2>1, <2>2 DEF Typed, TypeOK
<1>2. Len(jobs) \in Nat /\ MaxJobs \in Nat
  BY BoundsAssumption DEF Typed, TypeOK
<1> HIDE DEF S
<1>3. /\ jobs' \in Seq(S) /\ Len(jobs') = Len(jobs) + 1 /\ DOMAIN jobs' = DOMAIN jobs \cup {Len(jobs) + 1}
      /\ jobs'[Len(jobs) + 1] = NewJob(i) /\ Len(jobs) + 1 \notin DOMAIN jobs
      /\ \A j \in DOMAIN jobs : jobs'[j] = jobs[j]
  BY <1>1, Added
<1>4. Len(jobs') <= MaxJobs
  BY <1>2, <1>3
<1> QED
  BY <1>3, <1>4 DEF Queued, Jobs, S

LEMMA EndedJob ==
  ASSUME Typed, Photos' = Photos, NEW j \in Jobs,
         NEW s \in {"pending", "running", "done", "failed"},
         NEW e \in {"none", "io_error", "unreadable", "upload_missing"},
         jobs' = [jobs EXCEPT ![j].status = s, ![j].error = e]
  PROVE  JobEnds(j, s, e)
<1> DEFINE row == [jobs[j] EXCEPT !.status = s, !.error = e]
<1>0. JobRows' = JobRows
  BY DEF JobRows
<1>1. jobs \in Seq(JobRows) /\ jobs[j] \in JobRows /\ Len(jobs) <= MaxJobs
  BY DEF Typed, TypeOK, Jobs
<1>2. row \in JobRows /\ row.image = jobs[j].image /\ row.status = s /\ row.error = e
  BY <1>1 DEF JobRows
<1>3. jobs' = [jobs EXCEPT ![j] = row]
  OBVIOUS
<1> HIDE DEF row
<1> DEFINE S == JobRows
           t == [jobs EXCEPT ![j] = row]
<1> HIDE DEF S
<1>4. /\ t \in Seq(S) /\ Len(t) = Len(jobs) /\ DOMAIN t = DOMAIN jobs
      /\ t[j] = row /\ \A k \in DOMAIN jobs : k # j => t[k] = jobs[k]
  BY <1>1, <1>2, Replaced DEF Jobs, S
<1> HIDE DEF t
<1>5. jobs' = t
  BY <1>3 DEF t
<1> QED
  BY <1>0, <1>1, <1>2, <1>4, <1>5 DEF JobEnds, Jobs, S

LEMMA WorkerMoves ==
  ASSUME Typed, NEW w \in Workers, NEW v, worker' = [worker EXCEPT ![w] = v]
  PROVE  WorkerBecomes(w, v)
BY DEF Typed, WorkerBecomes

\* Photos that are not there have no masks.
MasksOfPhotos == \A i \in 1 .. MaxImages : i \in Photos \/ \A s \in Sources : waiting[i][s] = 0

\* A photo is stored with its job, and n is its mask or 0.
PhotoSent(row, n) ==
  LET new == Len(image) + 1 IN
  /\ row \in Rows /\ row.status = "processing" /\ ~row.prepared /\ row.mask = 0 /\ ~row.hid /\ row.given = n
  /\ row.product # None \/ row.proposed
  /\ new \notin Photos /\ new \in 1 .. MaxImages /\ Photos' = Photos \cup {new}
  /\ image' \in Seq(Rows) /\ Len(image') <= MaxImages
  /\ image'[new] = row /\ \A i \in Photos : image'[i] = image[i]
  /\ Queued(new)
  /\ incoming' = incoming \cup {row.upload}
  /\ \/ n = 0 /\ UNCHANGED <<waiting, masks>>
     \/ /\ n = masks + 1 /\ masks' = n /\ masks < mix.masks
        /\ waiting' = [waiting EXCEPT ![new].tool = n]
  /\ proposal' \in {proposal, "pending"}
  /\ UNCHANGED <<main, asked, gone, worker, request, faults, retrying, mix>>

LEMMA Storing ==
  ASSUME Typed, NEW row \in Rows, Stored(row)
  PROVE  LET new == Len(image) + 1 IN
         /\ new \notin Photos /\ new \in 1 .. MaxImages /\ Photos' = Photos \cup {new}
         /\ image' \in Seq(Rows) /\ Len(image') <= MaxImages
         /\ image'[new] = row /\ \A i \in Photos : image'[i] = image[i]
         /\ Queued(new)
         /\ incoming' = incoming \cup {row.upload}
<1>1. image \in Seq(Rows) /\ Len(image) \in Nat /\ mix.images \in 0 .. MaxImages /\ MaxImages \in Nat
  BY BoundsAssumption DEF Typed, TypeOK
<1>2. Len(image) < mix.images /\ Len(jobs) < MaxJobs /\ image' = Append(image, row)
      /\ jobs' = Append(jobs, NewJob(Len(image) + 1)) /\ incoming' = incoming \cup {row.upload}
  BY DEF Stored, Room
<1>3. /\ image' \in Seq(Rows) /\ Len(image') = Len(image) + 1
      /\ DOMAIN image' = DOMAIN image \cup {Len(image) + 1} /\ Len(image) + 1 \notin DOMAIN image
      /\ image'[Len(image) + 1] = row /\ \A i \in DOMAIN image : image'[i] = image[i]
  BY <1>1, <1>2, Added
<1>4. Queued(Len(image) + 1)
  BY <1>2, <1>3, MoreJobs DEF Photos
<1>5. Len(image) + 1 \in 1 .. MaxImages /\ Len(image') <= MaxImages
  BY <1>1, <1>2, <1>3
<1> QED
  BY <1>2, <1>3, <1>4, <1>5 DEF Photos

LEMMA Adding ==
  ASSUME Typed, NEW x \in Products, NEW u \in Uploads, AddPhoto(x, u)
  PROVE  \E row : PhotoSent(row, 0)
<1> DEFINE row == NewImage(u, x, FALSE, "user_photo")
<1>1. Starts(row, u, 0) /\ row \in Rows /\ row.product # None
  BY AddedRow DEF Starts
<1>2. Stored(row) /\ UNCHANGED <<waiting, asked, masks, main, proposal, gone, worker, request, faults, retrying, mix>>
  BY DEF AddPhoto, KeepRest
<1> HIDE DEF row
<1> QED
  BY <1>1, <1>2, Storing DEF PhotoSent, Starts

LEMMA Proposing ==
  ASSUME Typed, NEW u \in Uploads, NEW kind \in Kinds, Propose(u, kind)
  PROVE  \E row : PhotoSent(row, 0)
<1> DEFINE row == NewImage(u, None, TRUE, kind)
<1>1. Starts(row, u, 0) /\ row \in Rows /\ row.proposed
  BY ProposedRow DEF Starts
<1>2. /\ Stored(row) /\ proposal' = "pending"
      /\ UNCHANGED <<waiting, asked, masks, main, gone, worker, request, faults, retrying, mix>>
  BY DEF Propose
<1> HIDE DEF row
<1> QED
  BY <1>1, <1>2, Storing DEF PhotoSent, Starts

LEMMA Answering ==
  ASSUME Typed, NEW u \in Uploads, AnswerPhoto(u)
  PROVE  \E row : PhotoSent(row, masks + 1)
<1> DEFINE row == [NewImage(u, None, TRUE, "vendor_listing") EXCEPT !.given = masks + 1]
<1>1. masks < mix.masks /\ masks + 1 \in 0 .. MaxMasks
  BY BoundsAssumption DEF AnswerPhoto, Typed, TypeOK
<1>2. Starts(row, u, masks + 1) /\ row \in Rows /\ row.proposed
  BY <1>1, AnsweredRow DEF Starts
<1>3. /\ Stored(row) /\ masks' = masks + 1 /\ waiting' = [waiting EXCEPT ![Len(image) + 1].tool = masks + 1]
      /\ UNCHANGED <<asked, main, proposal, gone, worker, request, faults, retrying, mix>>
  BY DEF AnswerPhoto, KeepRest
<1> HIDE DEF row
<1> QED
  BY <1>1, <1>2, <1>3, Storing DEF PhotoSent, Starts

\* A mask is sent for photo i, and a job queued that will find it, or not.
MaskFor(i, source, row) ==
  /\ source \in Sources /\ Becomes(i, row) /\ SameBut(image[i], row, {"given"}) /\ row.given = masks + 1
  /\ masks' = masks + 1 /\ masks < mix.masks
  /\ waiting' = [waiting EXCEPT ![i][source] = masks + 1]
  /\ \/ Queued(i) /\ MayMask(i)
     \/ UNCHANGED jobs /\ "again" \in mix.overlap
  /\ asked' \in Asked
  /\ UNCHANGED <<incoming, main, proposal, gone, worker, request, faults, retrying, mix>>

LEMMA Masking ==
  ASSUME Typed, NEW i \in Photos, AddMask(i) \/ AnswerCutout(i) \/ AnswerAgain(i)
  PROVE  \E source, row : MaskFor(i, source, row)
<1>1. image \in Seq(Rows) /\ image[i] \in Rows /\ masks \in 0 .. MaxMasks
  BY DEF Typed, TypeOK, Photos
<1>2. masks < mix.masks => masks + 1 \in 0 .. MaxMasks
  BY BoundsAssumption, <1>1 DEF Typed
<1>3. CASE AddMask(i) \/ AnswerCutout(i)
  <2> DEFINE row == [image[i] EXCEPT !.given = masks + 1]
  <2>1. /\ masks < mix.masks /\ masks' = masks + 1 /\ image' = [image EXCEPT ![i] = row]
        /\ \E source \in Sources : waiting' = [waiting EXCEPT ![i][source] = masks + 1]
        /\ jobs' = Append(jobs, NewJob(i)) /\ Len(jobs) < MaxJobs /\ MayMask(i)
        /\ asked' \in Asked
        /\ UNCHANGED <<incoming, main, proposal, gone, worker, request, faults, retrying, mix>>
    BY <1>3 DEF AddMask, AnswerCutout, MaskSent, KeepRest, Sources, Typed, TypeOK, Asked
  <2>2. SameBut(image[i], row, {"given"}) /\ row.given = masks + 1
    BY <1>1, <1>2, <2>1, GivenRow
  <2> HIDE DEF row
  <2>3. Becomes(i, row)
    BY <1>1, <2>1, <2>2, Becoming DEF SameBut
  <2>4. Queued(i)
    BY <2>1, <2>3, MoreJobs DEF Becomes
  <2> QED
    BY <2>1, <2>2, <2>3, <2>4 DEF MaskFor
<1>4. CASE AnswerAgain(i)
  <2> DEFINE row == [image[i] EXCEPT !.kind = "vendor_listing", !.given = masks + 1]
  <2>1. /\ masks < mix.masks /\ masks' = masks + 1 /\ "again" \in mix.overlap
        /\ image' = [[image EXCEPT ![i].kind = "vendor_listing"] EXCEPT ![i].given = masks + 1]
        /\ waiting' = [waiting EXCEPT ![i]["tool"] = masks + 1]
        /\ asked' \in Asked
        /\ UNCHANGED <<jobs, incoming, main, proposal, gone, worker, request, faults, retrying, mix>>
    BY <1>4 DEF AnswerAgain, MaskSent, KeepRest, Typed, TypeOK, Asked
  <2>2. image' = [image EXCEPT ![i] = row]
    BY <1>1, <2>1
  <2>3. SameBut(image[i], row, {"given"}) /\ row.given = masks + 1
    BY <1>1, <1>2, <2>1, GivenRow
  <2> HIDE DEF row
  <2>4. Becomes(i, row)
    BY <1>1, <2>2, <2>3, Becoming DEF SameBut
  <2> QED
    BY <2>1, <2>3, <2>4 DEF MaskFor, Sources
<1> QED
  BY <1>3, <1>4
\* A photo that failed is to be prepared again.
Retried(i, row) ==
  /\ Becomes(i, row) /\ SameBut(image[i], row, {"status"})
  /\ image[i].status = "failed" \/ "retry" \in mix.overlap
  /\ row.status = "processing" /\ Queued(i)
  /\ UNCHANGED <<incoming, waiting, asked, masks, main, proposal, gone, worker, request, faults, retrying, mix>>

LEMMA Retrying ==
  ASSUME Typed, NEW i \in Photos, Retry(i)
  PROVE  \E row : Retried(i, row)
<1> DEFINE row == [image[i] EXCEPT !.status = "processing"]
<1>1. image \in Seq(Rows) /\ image[i] \in Rows
  BY DEF Typed, TypeOK, Photos
<1>2. /\ image[i].status = "failed" \/ "retry" \in mix.overlap
      /\ image' = [image EXCEPT ![i] = row]
      /\ jobs' = Append(jobs, NewJob(i)) /\ Len(jobs) < MaxJobs
      /\ UNCHANGED <<incoming, waiting, asked, masks, main, proposal, gone, worker, request, faults, retrying, mix>>
  BY DEF Retry, KeepRest, Typed, RetryingRight
<1>3. SameBut(image[i], row, {"status"}) /\ row.status = "processing"
  BY <1>1, StatusRow DEF Statuses
<1> HIDE DEF row
<1>4. Becomes(i, row)
  BY <1>1, <1>2, <1>3, Becoming DEF SameBut
<1>5. Queued(i)
  BY <1>2, <1>4, MoreJobs DEF Becomes
<1> QED
  BY <1>2, <1>3, <1>4, <1>5 DEF Retried

-----------------------------------------------------------------------------
(* What a worker's steps do.                                               *)

Reading(j, p) ==
  [at |-> "files", job |-> j, product |-> image[jobs[j].image].product,
   was |-> image[jobs[j].image].status, prepared |-> p]

\* Worker w claims job j and reads its photo; p is whether it takes it to be prepared.
Claimed(w, j, p) ==
  /\ At(w) = "idle" /\ j \in Jobs /\ MayClaim(jobs[j].image)
  /\ p \in BOOLEAN
  /\ image[jobs[j].image].prepared => p
  /\ ~p => jobs[j].image \in Photos /\ (image[jobs[j].image].upload \in incoming \/ ~TwinPrepared(jobs[j].image))
  /\ JobEnds(j, "running", jobs[j].error)
  /\ WorkerBecomes(w, Reading(j, p))
  /\ UNCHANGED <<image, main, incoming, waiting, asked, faults, proposal, gone, request, masks, retrying, mix>>

LEMMA JobRunning ==
  ASSUME NEW row \in JobRows, NEW n \in Nat
  PROVE  LET new == [row EXCEPT !.status = "running", !.attempts = n] IN
         new \in JobRows /\ new.image = row.image /\ new.status = "running" /\ new.error = row.error
BY DEF JobRows

LEMMA TriedAgain ==
  ASSUME NEW row \in JobRows
  PROVE  LET new == [row EXCEPT !.status = "running", !.attempts = row.attempts + 1] IN
         new \in JobRows /\ new.image = row.image /\ new.status = "running" /\ new.error = row.error
<1> DEFINE n == row.attempts + 1
<1>1. n \in Nat
  BY DEF JobRows
<1> HIDE DEF n
<1>2. LET new == [row EXCEPT !.status = "running", !.attempts = n] IN
      new \in JobRows /\ new.image = row.image /\ new.status = "running" /\ new.error = row.error
  BY <1>1, JobRunning
<1> QED
  BY <1>2 DEF n

LEMMA Claiming ==
  ASSUME Typed, NEW w \in Workers, Claim(w)
  PROVE  \E j, p : Claimed(w, j, p)
<1>1. PICK j \in Jobs :
        /\ ~Busy(w) /\ MayClaim(jobs[j].image)
        /\ jobs' = [jobs EXCEPT ![j].status = "running", ![j].attempts = @ + 1]
        /\ worker' = [worker EXCEPT ![w] =
             [at |-> "files", job |-> j, product |-> image[jobs[j].image].product,
              was |-> image[jobs[j].image].status,
              prepared |-> image[jobs[j].image].prepared
                            \/ (image[jobs[j].image].upload \notin incoming /\ TwinPrepared(jobs[j].image))]]
        /\ UNCHANGED <<image, main, incoming, waiting, asked, faults, proposal, gone, request, masks, retrying, mix>>
  BY DEF Claim, KeepSent
<1> DEFINE i == jobs[j].image
           p == image[i].prepared \/ (image[i].upload \notin incoming /\ TwinPrepared(i))
           row == [jobs[j] EXCEPT !.status = "running", !.attempts = @ + 1]
           t == [jobs EXCEPT ![j] = row]
           S == JobRows
<1>2. jobs \in Seq(S) /\ jobs[j] \in S /\ S' = S /\ Len(jobs) <= MaxJobs
  <2>1. S' = S
    BY <1>1 DEF JobRows, Photos
  <2> HIDE DEF S
  <2> QED
    BY <2>1 DEF Typed, TypeOK, Jobs, S
<1>3. row \in S /\ row.image = i /\ row.status = "running" /\ row.error = jobs[j].error
  <2>1. jobs[j] \in JobRows
    BY <1>2
  <2> QED
    BY <2>1, TriedAgain
<1>4. jobs' = t
  BY <1>1
<1>5. i \in Photos
  BY <1>2 DEF JobRows
<1> HIDE DEF S, row
<1>6. /\ t \in Seq(S) /\ Len(t) = Len(jobs) /\ DOMAIN t = DOMAIN jobs
      /\ t[j] = row /\ \A k \in DOMAIN jobs : k # j => t[k] = jobs[k]
  BY <1>2, <1>3, Replaced DEF Jobs
<1> HIDE DEF t
<1>7. JobEnds(j, "running", jobs[j].error)
  BY <1>2, <1>3, <1>4, <1>6 DEF JobEnds, Jobs, S
<1>8. worker' = [worker EXCEPT ![w] = Reading(j, p)]
  BY <1>1 DEF Reading
<1>9. p \in BOOLEAN
  OBVIOUS
<1> HIDE DEF p
<1>10. WorkerBecomes(w, Reading(j, p))
  BY <1>8, WorkerMoves
<1>11. At(w) = "idle"
  BY <1>1 DEF Busy, At
<1>12. (image[i].prepared => p) /\ (~p => image[i].upload \in incoming \/ ~TwinPrepared(i))
  BY DEF p
<1>13. Claimed(w, j, p)
  BY <1>1, <1>5, <1>7, <1>9, <1>10, <1>11, <1>12 DEF Claimed
<1> QED
  BY <1>13

Working(v, n, used) ==
  [at |-> "write", job |-> v.job, product |-> v.product, prepared |-> v.prepared,
   given |-> n, usedMasks |-> used]

\* Worker w has read the files of its photo.
HasRead(w) ==
  LET v == worker[w] i == Its(w) IN
  /\ At(w) = "files"
  /\ WorkerBecomes(w, Working(v, waiting[i][Newest(i)], {s \in Sources : waiting[i][s] # 0}))
  /\ UNCHANGED <<image, main, jobs, incoming, waiting, asked, faults, proposal, gone, request, masks, retrying, mix>>

LEMMA ReadingFiles ==
  ASSUME Typed, NEW w \in Workers, ReadFiles(w)
  PROVE  HasRead(w)
BY WorkerMoves DEF ReadFiles, HasRead, KeepSent, Working, At, Its

\* The job of w fails, or is to be tried again.
Failed(w, row, error) ==
  LET v == worker[w] i == Its(w) IN
  /\ At(w) = "files" /\ MayFail(v)
  /\ Becomes(i, row) /\ SameBut(image[i], row, {"status", "prepared"})
  /\ row.status = IF v.was = "processing" THEN "failed" ELSE image[i].status
  /\ row.prepared <=> image[i].prepared \/ v.prepared
  /\ error = "upload_missing" => ~v.prepared /\ image[i].upload \notin incoming
  /\ JobEnds(v.job, "failed", error)
  /\ WorkerBecomes(w, Idle)
  /\ faults' \in {faults, faults + 1} /\ (faults' # faults => faults < mix.faults)
  /\ UNCHANGED <<main, incoming, waiting, asked, proposal, gone, request, masks, retrying, mix>>

PutBack(w, row) ==
  LET v == worker[w] i == Its(w) IN
  /\ At(w) = "files"
  /\ Becomes(i, row) /\ SameBut(image[i], row, {"prepared"})
  /\ row.prepared <=> image[i].prepared \/ v.prepared
  /\ JobEnds(v.job, "pending", "io_error")
  /\ WorkerBecomes(w, Idle)
  /\ faults' = faults + 1 /\ faults < mix.faults
  /\ UNCHANGED <<main, incoming, waiting, asked, proposal, gone, request, masks, retrying, mix>>

LEMMA FailingRows ==
  ASSUME Typed, NEW w \in Workers, At(w) = "files", NEW error \in {"io_error", "unreadable", "upload_missing"},
         Failing(worker[w], error)
  PROVE  \E row :
           /\ MayFail(worker[w])
           /\ Becomes(Its(w), row) /\ SameBut(image[Its(w)], row, {"status", "prepared"})
           /\ row.status = IF worker[w].was = "processing" THEN "failed" ELSE image[Its(w)].status
           /\ row.prepared <=> image[Its(w)].prepared \/ worker[w].prepared
           /\ JobEnds(worker[w].job, "failed", error)
<1> DEFINE v == worker[w]
           i == Its(w)
           status == IF v.was = "processing" THEN "failed" ELSE image[i].status
           b == image[i].prepared \/ v.prepared
           row == [image[i] EXCEPT !.status = status, !.prepared = b]
<1>1. i \in Photos /\ image[i] \in Rows /\ v.job \in Jobs /\ image \in Seq(Rows)
  BY ItsPhoto DEF Typed, TypeOK
<1>2. status \in Statuses
  BY <1>1, RowIs DEF Statuses
<1>3. /\ image' = [image EXCEPT ![i] = row]
      /\ jobs' = [jobs EXCEPT ![v.job].status = "failed", ![v.job].error = error]
      /\ MayFail(v)
  BY <1>1 DEF Failing, Its
<1>4. SameBut(image[i], row, {"status", "prepared"}) /\ row.status = status /\ (row.prepared <=> b)
  <2> DEFINE old == image[i]
  <2>1. b \in BOOLEAN /\ old \in Rows
    BY <1>1
  <2> HIDE DEF status, b, old
  <2>3. SameBut(old, [old EXCEPT !.status = status, !.prepared = b], {"status", "prepared"})
    BY <1>2, <2>1, PreparedRow
  <2>2. /\ [old EXCEPT !.status = status, !.prepared = b].prepared = b
        /\ [old EXCEPT !.status = status, !.prepared = b].status = status
    BY <2>1 DEF Rows
  <2> QED
    BY <2>2, <2>3 DEF old
<1> HIDE DEF row
<1>5. Becomes(i, row)
  BY <1>1, <1>3, <1>4, Becoming DEF SameBut
<1>6. JobEnds(v.job, "failed", error)
  BY <1>1, <1>3, <1>5, EndedJob DEF Becomes
<1> QED
  BY <1>3, <1>4, <1>5, <1>6

LEMMA NotReading ==
  ASSUME Typed, NEW w \in Workers, CannotRead(w)
  PROVE  \E row, error : Failed(w, row, error)
<1> DEFINE missing == ~worker[w].prepared /\ image[Its(w)].upload \notin incoming
           error == IF missing THEN "upload_missing" ELSE "unreadable"
<1>1. /\ At(w) = "files" /\ Failing(worker[w], error)
      /\ missing \/ faults < mix.faults
      /\ faults' = IF missing THEN faults ELSE faults + 1
      /\ worker' = [worker EXCEPT ![w] = Idle]
      /\ UNCHANGED <<main, incoming, waiting, asked, proposal, gone, request, masks, retrying, mix>>
  BY DEF CannotRead, KeepSent, At, Its
<1>2. WorkerBecomes(w, Idle)
  BY <1>1, WorkerMoves
<1>3. error \in {"io_error", "unreadable", "upload_missing"} /\ (error = "upload_missing" => missing)
  OBVIOUS
<1> HIDE DEF error
<1>4. \E row :
           /\ MayFail(worker[w])
           /\ Becomes(Its(w), row) /\ SameBut(image[Its(w)], row, {"status", "prepared"})
           /\ row.status = IF worker[w].was = "processing" THEN "failed" ELSE image[Its(w)].status
           /\ row.prepared <=> image[Its(w)].prepared \/ worker[w].prepared
           /\ JobEnds(worker[w].job, "failed", error)
  BY <1>1, <1>3, FailingRows
<1>5. faults' \in {faults, faults + 1} /\ (faults' # faults => faults < mix.faults)
  BY <1>1
<1> QED
  BY <1>1, <1>2, <1>3, <1>4, <1>5 DEF Failed

LEMMA DiskFailing ==
  ASSUME Typed, NEW w \in Workers, DiskFails(w)
  PROVE  (\E row : PutBack(w, row)) \/ (\E row, error : Failed(w, row, error))
<1>1. /\ At(w) = "files" /\ faults < mix.faults /\ faults' = faults + 1
      /\ worker' = [worker EXCEPT ![w] = Idle]
      /\ UNCHANGED <<main, incoming, waiting, asked, proposal, gone, request, masks, retrying, mix>>
  BY DEF DiskFails, KeepSent, At
<1>2. WorkerBecomes(w, Idle)
  BY <1>1, WorkerMoves
<1>3. CASE Failing(worker[w], "io_error")
  BY <1>1, <1>2, <1>3, FailingRows DEF Failed
<1>4. CASE /\ jobs' = [jobs EXCEPT ![worker[w].job].status = "pending", ![worker[w].job].error = "io_error"]
           /\ image' = [image EXCEPT ![Its(w)].prepared = @ \/ worker[w].prepared]
  <2> DEFINE v == worker[w]
             i == Its(w)
             b == image[i].prepared \/ v.prepared
             row == [image[i] EXCEPT !.prepared = b]
  <2>1. i \in Photos /\ image[i] \in Rows /\ v.job \in Jobs /\ image \in Seq(Rows)
    BY <1>1, ItsPhoto DEF Typed, TypeOK
  <2>2. image' = [image EXCEPT ![i] = row]
    BY <1>4
  <2>3. SameBut(image[i], row, {"prepared"}) /\ (row.prepared <=> b)
    <3>1. b \in BOOLEAN
      OBVIOUS
    <3> HIDE DEF b
    <3> QED
      BY <2>1, <3>1, PreparedRow DEF Statuses
  <2> HIDE DEF row
  <2>4. Becomes(i, row)
    BY <2>1, <2>2, <2>3, Becoming DEF SameBut
  <2>5. JobEnds(v.job, "pending", "io_error")
    BY <1>4, <2>1, <2>4, EndedJob DEF Becomes
  <2> QED
    BY <1>1, <1>2, <2>3, <2>4, <2>5 DEF PutBack
<1> QED
  BY <1>3, <1>4 DEF DiskFails, Its
\* The mask a photo has once the last one sent for it is applied.
Due(row) == IF row.given \in PoorMasks THEN 0 ELSE row.given

LEMMA WroteRow ==
  ASSUME NEW row \in Rows, NEW v, v.given \in 0 .. MaxMasks
  PROVE  LET new == Wrote(v, row) IN
         /\ SameBut(row, new, {"status", "prepared", "mask"}) /\ new.prepared
         /\ new.status = Ready(row)
         /\ new.mask = IF v.given = 0 THEN row.mask ELSE IF v.given \in PoorMasks THEN 0 ELSE v.given
<1> DEFINE m == IF v.given = 0 THEN row.mask ELSE IF v.given \in PoorMasks THEN 0 ELSE v.given
           s == Ready(row)
           new == [row EXCEPT !.prepared = TRUE, !.status = s, !.mask = m]
<1>1. m \in 0 .. MaxMasks
  <2>1. row.mask \in 0 .. MaxMasks /\ 0 \in 0 .. MaxMasks
    BY RowIs, BoundsAssumption
  <2> QED
    BY <2>1
<1>2. s \in Statuses
  BY RowIs DEF Ready, Statuses
<1>3. Wrote(v, row) = new
  BY DEF Wrote
<1> HIDE DEF m, s
<1>4. SameBut(row, new, {"status", "prepared", "mask"}) /\ new.prepared /\ new.status = s /\ new.mask = m
  BY <1>1, <1>2 DEF Rows, Statuses, SameBut
<1> QED
  BY <1>3, <1>4 DEF m, s

Unlinking(v) == [at |-> "unlink", job |-> v.job, upload |-> ~v.prepared, usedMasks |-> v.usedMasks]

\* Worker w writes its photo, and product x shows what it should.
Writes(w, row) ==
  LET v == worker[w] i == Its(w) x == LockedFor(v, image[i]) IN
  /\ At(w) = "write" /\ MayWrite(i)
  /\ Becomes(i, row) /\ SameBut(image[i], row, {"status", "prepared", "mask"}) /\ row.prepared
  /\ row.status = Ready(image[i])
  /\ row.mask = IF v.given = 0 THEN image[i].mask ELSE IF v.given \in PoorMasks THEN 0 ELSE v.given
  /\ main' = IF x = None THEN main ELSE Reselected(image', x)
  /\ JobEnds(v.job, "done", "none")
  /\ WorkerBecomes(w, Unlinking(v))
  /\ UNCHANGED <<incoming, waiting, asked, faults, proposal, gone, request, masks, retrying, mix>>

LEMMA Writing ==
  ASSUME Typed, NEW w \in Workers, Write(w)
  PROVE  \E row : Writes(w, row)
<1> DEFINE v == worker[w]
           i == Its(w)
           row == Wrote(v, image[i])
<1>1. At(w) = "write"
  BY DEF Write, At
<1>2. i \in Photos /\ image[i] \in Rows /\ v.job \in Jobs /\ image \in Seq(Rows) /\ v.given \in 0 .. MaxMasks
  BY <1>1, ItsPhoto DEF Typed, TypeOK, WorkerRight, WorkerFits, At
<1>3. /\ image' = [image EXCEPT ![i] = row]
      /\ jobs' = [jobs EXCEPT ![v.job].status = "done", ![v.job].error = "none"]
      /\ worker' = [worker EXCEPT ![w] = Unlinking(v)]
      /\ main' = IF LockedFor(v, image[i]) = None THEN main ELSE Reselected(image', LockedFor(v, image[i]))
      /\ MayWrite(i)
      /\ UNCHANGED <<incoming, waiting, asked, faults, proposal, gone, request, masks, retrying, mix>>
  BY DEF Write, Its, Unlinking, KeepSent
<1>4. /\ SameBut(image[i], row, {"status", "prepared", "mask"}) /\ row.prepared
      /\ row.status = Ready(image[i])
      /\ row.mask = IF v.given = 0 THEN image[i].mask ELSE IF v.given \in PoorMasks THEN 0 ELSE v.given
  BY <1>2, WroteRow
<1> HIDE DEF row
<1>5. Becomes(i, row)
  BY <1>2, <1>3, <1>4, Becoming DEF SameBut
<1>6. JobEnds(v.job, "done", "none")
  BY <1>2, <1>3, <1>5, EndedJob DEF Becomes
<1>7. WorkerBecomes(w, Unlinking(v))
  BY <1>3, WorkerMoves
<1>8. Writes(w, row)
  BY <1>1, <1>3, <1>4, <1>5, <1>6, <1>7 DEF Writes
<1> QED
  BY <1>8

\* Worker w deletes the files it used.
Unlinks(w) ==
  LET v == worker[w] i == Its(w) IN
  /\ At(w) = "unlink"
  /\ incoming' = IF v.upload THEN incoming \ {image[i].upload} ELSE incoming
  /\ waiting' = [waiting EXCEPT ![i] = [s \in Sources |-> IF s \in v.usedMasks THEN 0 ELSE waiting[i][s]]]
  /\ asked' \in Asked
  /\ WorkerBecomes(w, Idle)
  /\ UNCHANGED <<image, main, jobs, faults, proposal, gone, request, masks, retrying, mix>>

LEMMA UnlinkingFiles ==
  ASSUME Typed, NEW w \in Workers, Unlink(w)
  PROVE  Unlinks(w)
BY WorkerMoves DEF Unlink, Unlinks, KeepSent, At, Its, Typed, TypeOK, Asked

\* Worker w is killed.
Dies(w) ==
  /\ faults < mix.faults /\ faults' = faults + 1
  /\ WorkerBecomes(w, Idle)
  /\ UNCHANGED <<image, main, jobs, incoming, waiting, asked, proposal, gone, request, masks, retrying, mix>>

LEMMA Dying ==
  ASSUME Typed, NEW w \in Workers, Crash(w)
  PROVE  Dies(w)
BY WorkerMoves DEF Crash, Dies, KeepSent

-----------------------------------------------------------------------------
(* What people's requests do.                                              *)

\* No photo comes or goes, and each keeps all but the named fields.
Rewritten(fields) ==
  /\ image' \in Seq(Rows) /\ Len(image') = Len(image) /\ Photos' = Photos
  /\ \A k \in Photos : SameBut(image[k], image'[k], fields)

LEMMA Unpinning ==
  ASSUME NEW rows \in Seq(Rows), NEW x
  PROVE  /\ Unpinned(rows, x) \in Seq(Rows) /\ Len(Unpinned(rows, x)) = Len(rows)
         /\ DOMAIN Unpinned(rows, x) = DOMAIN rows
         /\ \A k \in DOMAIN rows : SameBut(rows[k], Unpinned(rows, x)[k], {})
<1> DEFINE t == Unpinned(rows, x)
<1>1. t = [k \in DOMAIN rows |-> t[k]]
  BY DEF Unpinned
<1>2. ASSUME NEW k \in DOMAIN rows PROVE t[k] \in Rows /\ SameBut(rows[k], t[k], {})
  <2> DEFINE row == rows[k]
  <2>1. row \in Rows
    OBVIOUS
  <2>2. t[k] = IF row.product = x THEN [row EXCEPT !.pinned = FALSE] ELSE row
    BY DEF Unpinned
  <2>3. SameBut(row, row, {})
    BY <2>1 DEF SameBut
  <2>4. SameBut(row, [row EXCEPT !.pinned = FALSE], {})
    BY <2>1, PinnedRow
  <2> HIDE DEF t, row
  <2>5. SameBut(row, t[k], {})
    BY <2>2, <2>3, <2>4
  <2> QED
    BY <2>5 DEF SameBut, row
<1> HIDE DEF t
<1>3. t \in Seq(Rows) /\ Len(t) = Len(rows) /\ DOMAIN t = DOMAIN rows
  BY <1>1, <1>2, Mapped
<1> QED
  BY <1>2, <1>3 DEF t

LEMMA Pinning ==
  ASSUME NEW rows \in Seq(Rows), NEW i \in DOMAIN rows, NEW x
  PROVE  /\ Pinned(rows, i, x) \in Seq(Rows) /\ Len(Pinned(rows, i, x)) = Len(rows)
         /\ DOMAIN Pinned(rows, i, x) = DOMAIN rows
         /\ \A k \in DOMAIN rows : SameBut(rows[k], Pinned(rows, i, x)[k], {})
<1> DEFINE s == Unpinned(rows, x)
           row == [s[i] EXCEPT !.pinned = TRUE]
           t == [s EXCEPT ![i] = row]
<1>1. /\ s \in Seq(Rows) /\ Len(s) = Len(rows) /\ DOMAIN s = DOMAIN rows
      /\ \A k \in DOMAIN rows : SameBut(rows[k], s[k], {})
  BY Unpinning
<1>2. Pinned(rows, i, x) = t
  BY DEF Pinned
<1> HIDE DEF s
<1>3. s[i] \in Rows /\ row \in Rows /\ SameBut(s[i], row, {})
  BY <1>1, PinnedRow DEF SameBut
<1> HIDE DEF row
<1>4. /\ t \in Seq(Rows) /\ Len(t) = Len(s) /\ DOMAIN t = DOMAIN s
      /\ t[i] = row /\ \A k \in DOMAIN s : k # i => t[k] = s[k]
  BY <1>1, <1>3, Replaced
<1> HIDE DEF t
<1>5. \A k \in DOMAIN rows : SameBut(rows[k], t[k], {})
  BY <1>1, <1>3, <1>4 DEF SameBut
<1> QED
  BY <1>1, <1>2, <1>4, <1>5
\* A choice for photo i of product x is written.
Chose(i, x) ==
  /\ request.kind \in Choices /\ i = request.image /\ x = request.product
  /\ Rewritten({"status", "hid"})
  /\ \A k \in Photos : k # i => SameBut(image[k], image'[k], {})
  /\ \/ image'[i].status = image[i].status /\ (image'[i].hid <=> image[i].hid)
     \/ image[i].status = "active" /\ image'[i].status = "hidden" /\ image'[i].hid
     \/ image[i].status = "hidden" /\ image'[i].status = "active" /\ ~image'[i].hid
  /\ main' = Reselected(image', x)
  /\ request' = NoRequest
  /\ UNCHANGED <<proposal, gone, jobs, incoming, waiting, asked, worker, masks, faults, retrying, mix>>

LEMMA HidingRow ==
  ASSUME NEW row \in Rows
  PROVE  /\ SameBut(row, [row EXCEPT !.status = "hidden", !.pinned = FALSE, !.hid = TRUE], {"status", "hid"})
         /\ [row EXCEPT !.status = "hidden", !.pinned = FALSE, !.hid = TRUE].status = "hidden"
         /\ [row EXCEPT !.status = "hidden", !.pinned = FALSE, !.hid = TRUE].hid
         /\ SameBut(row, [row EXCEPT !.status = "active", !.hid = FALSE], {"status", "hid"})
         /\ [row EXCEPT !.status = "active", !.hid = FALSE].status = "active"
         /\ ~[row EXCEPT !.status = "active", !.hid = FALSE].hid
BY DEF Rows, SameBut

LEMMA RowStays == \A row \in Rows : SameBut(row, row, {})
BY DEF SameBut

LEMMA OneRewritten ==
  ASSUME image \in Seq(Rows), NEW i \in Photos, NEW row, SameBut(image[i], row, {"status", "hid"}),
         image' = [image EXCEPT ![i] = row]
  PROVE  /\ Rewritten({"status", "hid"}) /\ image'[i] = row
         /\ \A k \in Photos : k # i => SameBut(image[k], image'[k], {})
<1>1. Becomes(i, row)
  BY Becoming DEF SameBut
<1>2. \A k \in Photos : k # i => SameBut(image[k], image'[k], {})
  BY <1>1, RowStays DEF Becomes, Photos
<1>3. \A k \in Photos : SameBut(image[k], image'[k], {"status", "hid"})
  BY <1>1, <1>2 DEF Becomes, SameBut
<1> QED
  BY <1>1, <1>2, <1>3 DEF Becomes, Rewritten

LEMMA Choosing ==
  ASSUME Typed, ChooseWrites
  PROVE  Chose(request.image, request.product)
<1> DEFINE i == request.image
           x == request.product
           row == image[i]
<1>1. /\ request.kind \in Choices /\ MayChoose(request.kind, row)
      /\ image' = Chosen(request.kind, image, i, x)
      /\ main' = Reselected(image', x) /\ request' = NoRequest
      /\ UNCHANGED <<proposal, gone, jobs, incoming, waiting, asked, worker, masks, faults, retrying, mix>>
  BY DEF ChooseWrites, KeepQueue
<1>2. image \in Seq(Rows) /\ i \in Photos /\ row \in Rows /\ DOMAIN image = Photos
  BY <1>1 DEF Typed, TypeOK, RequestRight, Photos
<1>3. CASE request.kind = "use_as_main"
  <2>1. image' = Pinned(image, i, x)
    BY <1>1, <1>3 DEF Chosen, Pinned
  <2>2. /\ image' \in Seq(Rows) /\ Len(image') = Len(image) /\ DOMAIN image' = DOMAIN image
        /\ \A k \in DOMAIN image : SameBut(image[k], image'[k], {})
    BY <1>2, <2>1, Pinning
  <2>3. \A k \in Photos : SameBut(image[k], image'[k], {"status", "hid"})
    BY <1>2, <2>2 DEF SameBut
  <2>4. image'[i].status = image[i].status /\ (image'[i].hid <=> image[i].hid)
    BY <1>2, <2>2 DEF SameBut
  <2> QED
    BY <1>1, <1>2, <2>2, <2>3, <2>4 DEF Chose, Rewritten, Photos
<1>4. CASE request.kind = "unset_main"
  <2>1. image' = [image EXCEPT ![i] = [row EXCEPT !.pinned = FALSE]]
    BY <1>1, <1>4 DEF Chosen
  <2>2. SameBut(row, [row EXCEPT !.pinned = FALSE], {})
    BY <1>2, PinnedRow
  <2> DEFINE new == [row EXCEPT !.pinned = FALSE]
  <2> HIDE DEF new
  <2>3. SameBut(row, new, {"status", "hid"}) /\ new.status = row.status /\ (new.hid <=> row.hid)
    BY <2>2 DEF SameBut, new
  <2>4. image' = [image EXCEPT ![i] = new]
    BY <2>1 DEF new
  <2> QED
    BY <1>1, <1>2, <2>3, <2>4, OneRewritten DEF Chose
<1>5. CASE request.kind = "hide"
  <2> DEFINE new == [row EXCEPT !.status = "hidden", !.pinned = FALSE, !.hid = TRUE]
  <2>1. image' = [image EXCEPT ![i] = new] /\ row.status = "active"
    BY <1>1, <1>5 DEF Chosen, MayChoose
  <2>2. SameBut(row, new, {"status", "hid"}) /\ new.status = "hidden" /\ new.hid
    BY <1>2, HidingRow
  <2> HIDE DEF new
  <2> QED
    BY <1>1, <1>2, <2>1, <2>2, OneRewritten DEF Chose
<1>6. CASE request.kind = "show"
  <2> DEFINE new == [row EXCEPT !.status = "active", !.hid = FALSE]
  <2>1. image' = [image EXCEPT ![i] = new] /\ row.status = "hidden"
    BY <1>1, <1>6 DEF Chosen, MayChoose
  <2>2. SameBut(row, new, {"status", "hid"}) /\ new.status = "active" /\ ~new.hid
    BY <1>2, HidingRow
  <2> HIDE DEF new
  <2> QED
    BY <1>1, <1>2, <2>1, <2>2, OneRewritten DEF Chose
<1> QED
  BY <1>1, <1>3, <1>4, <1>5, <1>6 DEF Choices

\* The status of a photo an acceptance brings to its product.
AcceptedAs(was, status, hides) ==
  IF hides /\ was \in {"candidate", "active"} THEN "hidden"
  ELSE IF was = "candidate" THEN "active" ELSE status

\* The proposal is accepted for product x; its photos in hides are to be hidden.
Accepted(x, hides) ==
  /\ request.kind = "accept" /\ x = request.product
  /\ hides \subseteq DOMAIN request.read /\ MayHide(hides)
  /\ Rewritten({"product", "role", "status", "hid"})
  /\ \A k \in Photos \ DOMAIN request.read : SameBut(image[k], image'[k], {})
  /\ \A k \in DOMAIN request.read :
       /\ image'[k].product = x /\ (image'[k].hid <=> k \in hides)
       /\ image'[k].status = AcceptedAs(request.read[k], image[k].status, k \in hides)
  /\ main' = Reselected(image', x)
  /\ request' = NoRequest /\ proposal' = "decided"
  /\ UNCHANGED <<gone, jobs, incoming, waiting, asked, worker, masks, faults, retrying, mix>>

LEMMA AttachedRow ==
  ASSUME NEW row \in Rows, NEW was \in Statuses, NEW x \in Products, NEW h \in BOOLEAN
  PROVE  LET new == Attached(was, row, x, h) IN
         /\ SameBut(row, new, {"product", "status", "hid"})
         /\ new.product = x /\ (new.hid <=> h) /\ new.status = AcceptedAs(was, row.status, h)
         /\ SameBut(row, [new EXCEPT !.role = "label_front"], {"product", "role", "status", "hid"})
         /\ [new EXCEPT !.role = "label_front"].product = x
         /\ ([new EXCEPT !.role = "label_front"].hid <=> h)
         /\ [new EXCEPT !.role = "label_front"].status = AcceptedAs(was, row.status, h)
<1> DEFINE s == AcceptedAs(was, row.status, h)
           new == [row EXCEPT !.product = x, !.status = s, !.hid = h]
           label == [new EXCEPT !.role = "label_front"]
<1>1. s \in Statuses
  BY RowIs DEF AcceptedAs, Statuses
<1>2. Attached(was, row, x, h) = new
  BY DEF Attached, AcceptedAs
<1> HIDE DEF s
<1>3. /\ SameBut(row, new, {"product", "status", "hid"})
      /\ new.product = x /\ (new.hid <=> h) /\ new.status = s
  BY <1>1 DEF Rows, Statuses, SameBut
<1> HIDE DEF new
<1>4. /\ SameBut(new, label, {"role"}) /\ label.role = "label_front"
  BY <1>3 DEF Rows, SameBut
<1> HIDE DEF label
<1>5. SameBut(row, label, {"product", "role", "status", "hid"}) /\ label.product = x /\ (label.hid <=> h) /\ label.status = s
  BY <1>3, <1>4 DEF SameBut
<1> QED
  BY <1>2, <1>3, <1>5 DEF s, label
LEMMA Accepting ==
  ASSUME Typed, request.kind = "accept", NEW hides \in SUBSET DOMAIN request.read,
         NEW labels \in SUBSET DOMAIN request.read, NEW chosen \in Photos \cup {0},
         AcceptWrites(hides, labels, chosen)
  PROVE  Accepted(request.product, hides)
<1> DEFINE x == request.product
           new == DOMAIN request.read
           made(i) == Attached(request.read[i], image[i], x, i \in hides)
           rows == [i \in Photos |-> IF i \notin new THEN image[i]
                      ELSE IF i \in labels THEN [made(i) EXCEPT !.role = "label_front"] ELSE made(i)]
           pinned == IF chosen \in new /\ rows[chosen].role = "product" THEN Pinned(rows, chosen, x) ELSE rows
           fields == {"product", "role", "status", "hid"}
           Right(r) == /\ r \in Seq(Rows) /\ Len(r) = Len(image) /\ DOMAIN r = Photos
                       /\ \A k \in Photos : SameBut(image[k], r[k], fields)
                       /\ \A k \in Photos \ new : SameBut(image[k], r[k], {})
                       /\ \A k \in new : /\ r[k].product = x /\ (r[k].hid <=> k \in hides)
                                         /\ r[k].status = AcceptedAs(request.read[k], image[k].status, k \in hides)
<1>1. image \in Seq(Rows) /\ DOMAIN image = Photos /\ x \in Products /\ new \subseteq Photos
      /\ \A i \in new : request.read[i] \in Statuses
  BY DEF Typed, TypeOK, RequestRight, Photos
<1>2. /\ MayHide(hides)
      /\ image' = IF (chosen # 0 /\ chosen = main[x]) /\ Primary(pinned, x) # chosen
                    THEN Pinned(pinned, chosen, x) ELSE pinned
      /\ main' = Reselected(image', x) /\ proposal' = "decided" /\ request' = NoRequest
      /\ UNCHANGED <<gone, jobs, incoming, waiting, asked, worker, masks, faults, retrying, mix>>
  BY DEF AcceptWrites, KeepQueue
<1>3. Right(rows)
  <2>1. ASSUME NEW k \in Photos \ new PROVE rows[k] \in Rows /\ SameBut(image[k], rows[k], {})
    <3>1. rows[k] = image[k] /\ image[k] \in Rows
      BY <1>1, <2>1
    <3> QED
      BY <3>1, RowStays
  <2>2. ASSUME NEW k \in new
        PROVE  /\ rows[k] \in Rows /\ SameBut(image[k], rows[k], fields)
               /\ rows[k].product = x /\ (rows[k].hid <=> k \in hides)
               /\ rows[k].status = AcceptedAs(request.read[k], image[k].status, k \in hides)
    <3> DEFINE h == k \in hides
               row == image[k]
               was == request.read[k]
               att == Attached(was, row, x, h)
    <3>1. row \in Rows /\ was \in Statuses /\ h \in BOOLEAN /\ k \in Photos
      BY <1>1, <2>2
    <3>2. rows[k] = IF k \in labels THEN [att EXCEPT !.role = "label_front"] ELSE att
      BY <3>1, <2>2
    <3> HIDE DEF h, row, was, rows
    <3>3. /\ SameBut(row, att, {"product", "status", "hid"})
          /\ att.product = x /\ (att.hid <=> h) /\ att.status = AcceptedAs(was, row.status, h)
          /\ SameBut(row, [att EXCEPT !.role = "label_front"], {"product", "role", "status", "hid"})
          /\ [att EXCEPT !.role = "label_front"].product = x
          /\ ([att EXCEPT !.role = "label_front"].hid <=> h)
          /\ [att EXCEPT !.role = "label_front"].status = AcceptedAs(was, row.status, h)
      BY <1>1, <3>1, AttachedRow
    <3> HIDE DEF att
    <3>4. SameBut(row, att, fields)
      BY <3>3 DEF SameBut
    <3>5. /\ SameBut(row, rows[k], fields)
          /\ rows[k].product = x /\ (rows[k].hid <=> h) /\ rows[k].status = AcceptedAs(was, row.status, h)
      BY <3>2, <3>3, <3>4
    <3> QED
      BY <3>5 DEF SameBut, h, row, was
  <2>3. rows = [k \in DOMAIN image |-> rows[k]]
    BY <1>1
  <2> HIDE DEF rows
  <2>4. \A k \in DOMAIN image : rows[k] \in Rows
    BY <1>1, <2>1, <2>2
  <2>5. rows \in Seq(Rows) /\ Len(rows) = Len(image) /\ DOMAIN rows = Photos
    BY <1>1, <2>3, <2>4, Mapped
  <2>6. \A k \in Photos : SameBut(image[k], rows[k], fields)
    BY <2>1, <2>2 DEF SameBut
  <2> QED
    BY <2>1, <2>2, <2>5, <2>6
<1>4. ASSUME NEW r, NEW i \in Photos, Right(r) PROVE Right(Pinned(r, i, x))
  <2> DEFINE t == Pinned(r, i, x)
  <2>1. /\ t \in Seq(Rows) /\ Len(t) = Len(r) /\ DOMAIN t = DOMAIN r
        /\ \A k \in DOMAIN r : SameBut(r[k], t[k], {})
    BY <1>4, Pinning
  <2> HIDE DEF t
  <2>2. ASSUME NEW k \in Photos
        PROVE  /\ SameBut(image[k], t[k], fields)
               /\ k \notin new => SameBut(image[k], t[k], {})
               /\ t[k].product = r[k].product /\ t[k].hid = r[k].hid /\ t[k].status = r[k].status
    BY <1>4, <2>1, <2>2 DEF SameBut
  <2>3. Right(t)
    BY <1>1, <1>4, <2>1, <2>2
  <2> QED
    BY <2>3 DEF t
<1> HIDE DEF rows, Right
<1>5. Right(pinned)
  BY <1>1, <1>3, <1>4
<1> HIDE DEF pinned
<1>6. Right(image')
  BY <1>2, <1>4, <1>5
<1>7. Photos' = DOMAIN image'
  BY DEF Photos
<1> QED
  BY <1>2, <1>6, <1>7 DEF Right, Accepted, Rewritten

\* Product l is merged into s.
Merged(s, l) ==
  /\ s \in Products /\ l \in Products /\ s # l /\ MayMerge(l)
  /\ Rewritten({"product"})
  /\ \A k \in Photos : image'[k].product \in {image[k].product, s} /\ (image[k].product # l => image'[k].product = image[k].product)
  /\ main' = [main EXCEPT ![s] = IF main[s] = 0 THEN Primary(image', s) ELSE main[s], ![l] = Primary(image', l)]
  /\ gone' = gone \cup {l}
  /\ UNCHANGED <<proposal, request, jobs, incoming, waiting, asked, worker, masks, faults, retrying, mix>>

LEMMA Merging ==
  ASSUME Typed, NEW s \in Products, NEW l \in Products, Merge(s, l)
  PROVE  Merged(s, l)
<1> DEFINE chosen == \E i \in ImagesOf(image, s) : image[i].pinned
           moving == {i \in ImagesOf(image, l) : Unseen(image[i].upload, s, FALSE)}
           t == Moved(image, s, l)
<1>1. /\ s # l /\ MayMerge(l) /\ image' = t
      /\ main' = [main EXCEPT ![s] = IF main[s] = 0 THEN Primary(image', s) ELSE main[s], ![l] = Primary(image', l)]
      /\ gone' = gone \cup {l}
      /\ UNCHANGED <<proposal, request, jobs, incoming, waiting, asked, worker, masks, faults, retrying, mix>>
  BY DEF Merge, KeepQueue
<1>2. image \in Seq(Rows) /\ DOMAIN image = Photos
  BY DEF Typed, TypeOK, Photos
<1>3. t = [i \in DOMAIN image |-> IF i \notin moving THEN image[i]
             ELSE [image[i] EXCEPT !.product = s, !.pinned = image[i].pinned /\ ~chosen]]
  BY DEF Moved
<1>4. \A i \in moving : image[i].product = l
  BY DEF ImagesOf
<1> HIDE DEF t, moving, chosen
<1>5. t = [i \in DOMAIN image |-> t[i]]
  BY <1>3
<1>6. ASSUME NEW k \in Photos
      PROVE  /\ t[k] \in Rows /\ SameBut(image[k], t[k], {"product"})
             /\ t[k].product \in {image[k].product, s}
             /\ image[k].product # l => t[k].product = image[k].product
  <2> DEFINE row == image[k]
             p == row.pinned /\ ~chosen
             new == [row EXCEPT !.product = s, !.pinned = p]
  <2>1. row \in Rows /\ p \in BOOLEAN
    BY <1>2
  <2>2. t[k] = IF k \notin moving THEN row ELSE new
    BY <1>2, <1>3
  <2> HIDE DEF row, p
  <2>3. SameBut(row, new, {"product"}) /\ new.product = s
    BY <2>1 DEF Rows, SameBut
  <2>4. SameBut(row, row, {"product"})
    BY <2>1 DEF SameBut
  <2> HIDE DEF new
  <2>5. SameBut(row, t[k], {"product"}) /\ t[k].product \in {row.product, s} /\ (k \notin moving => t[k] = row)
    BY <2>2, <2>3, <2>4
  <2>6. t[k] \in Rows
    BY <2>5 DEF SameBut
  <2> QED
    BY <1>4, <2>5, <2>6 DEF row
<1>7. t \in Seq(Rows) /\ Len(t) = Len(image) /\ DOMAIN t = DOMAIN image
  BY <1>2, <1>5, <1>6, Mapped
<1>8. Photos' = Photos
  BY <1>1, <1>7 DEF Photos
<1>9. image' = t /\ main' = [main EXCEPT ![s] = IF main[s] = 0 THEN Primary(image', s) ELSE main[s], ![l] = Primary(image', l)]
  BY <1>1
<1> QED
  BY <1>1, <1>6, <1>7, <1>8 DEF Merged, Rewritten

\* A request that has only read, or that comes to nothing.
Requests ==
  /\ \/ UNCHANGED request
     \/ /\ RequestRight'
        /\ request'.kind \in Choices => image[request'.image].product = request'.product
        /\ request'.kind = "accept" => \A i \in DOMAIN request'.read :
                                         image[i].product = None /\ request'.read[i] = image[i].status
  /\ proposal' \in {proposal, "decided"}
  /\ asked' \in Asked /\ RetryingRight'
  /\ UNCHANGED <<image, main, gone, jobs, incoming, waiting, worker, masks, faults, mix>>

LEMMA RetryingSame ==
  ASSUME RetryingRight, Photos \subseteq Photos', UNCHANGED <<retrying, mix>>
  PROVE  RetryingRight'
BY DEF RetryingRight

LEMMA AskingOnly ==
  ASSUME Typed,
         \/ \E i \in Photos, choice \in Choices : ChooseReads(i, choice)
         \/ \E x \in Products : AcceptReads(x)
         \/ \E i \in Photos : CloseCutout(i) \/ RetryReads(i)
         \/ Reject \/ RequestFails
  PROVE  Requests
<1>0. asked \in Asked /\ RetryingRight
  BY DEF Typed, TypeOK, Asked
<1>1. image \in Seq(Rows) /\ DOMAIN image = Photos /\ Choices = {"use_as_main", "unset_main", "hide", "show"}
      /\ \A i \in Photos : image[i] \in Rows
  BY DEF Typed, TypeOK, Photos, Choices
<1>2. ASSUME NEW i \in Photos, NEW choice \in Choices, ChooseReads(i, choice) PROVE Requests
  <2>1. /\ request = NoRequest /\ image[i].product # None
        /\ request' = [kind |-> choice, image |-> i, product |-> image[i].product]
        /\ UNCHANGED <<image, main, proposal, gone, jobs, incoming, waiting, asked, worker, masks, faults, retrying, mix>>
    BY <1>2 DEF ChooseReads, KeepQueue
  <2>2. image[i].product \in Products
    BY <1>1, <2>1, RowIs
  <2>3. Photos' = Photos /\ choice # "accept" /\ choice # "none"
    BY <1>1, <2>1 DEF Photos
  <2>4. RequestRight'
    BY <1>1, <2>1, <2>2, <2>3 DEF RequestRight
  <2> QED
    BY <1>0, <1>1, <2>1, <2>3, <2>4, RetryingSame DEF Requests, NoRequest
<1>3. ASSUME NEW x \in Products, AcceptReads(x) PROVE Requests
  <2>1. PICK new \in SUBSET Photos :
          /\ request = NoRequest
          /\ \A i \in new : image[i].product = None
          /\ request' = [kind |-> "accept", product |-> x, read |-> [i \in new |-> image[i].status]]
          /\ UNCHANGED <<image, main, proposal, gone, jobs, incoming, waiting, asked, worker, masks, faults, retrying, mix>>
    <3> DEFINE new == {i \in Photos : /\ image[i].proposed /\ image[i].product = None
                                      /\ Unseen(image[i].upload, x, FALSE)}
    <3>1. new \in SUBSET Photos /\ \A i \in new : image[i].product = None
      OBVIOUS
    <3>2. /\ request = NoRequest
          /\ request' = [kind |-> "accept", product |-> x, read |-> [i \in new |-> image[i].status]]
          /\ UNCHANGED <<image, main, proposal, gone, jobs, incoming, waiting, asked, worker, masks, faults, retrying, mix>>
      BY <1>3 DEF AcceptReads, KeepQueue
    <3> HIDE DEF new
    <3> QED
      BY <3>1, <3>2
  <2>2. Photos' = Photos
    BY <2>1 DEF Photos
  <2>3. \A i \in new : image[i].status \in Statuses
    BY <1>1, RowIs
  <2>4. /\ request'.kind = "accept" /\ request'.product = x /\ DOMAIN request'.read = new
        /\ \A i \in new : request'.read[i] = image[i].status
    BY <2>1
  <2>5. RequestRight'
    BY <1>1, <1>3, <2>2, <2>3, <2>4 DEF RequestRight
  <2> QED
    BY <1>0, <1>1, <2>1, <2>2, <2>4, <2>5, RetryingSame DEF Requests, NoRequest
<1>4. CASE Reject
  <2>1. UNCHANGED request /\ proposal' = "decided"
        /\ UNCHANGED <<image, main, gone, jobs, incoming, waiting, asked, worker, masks, faults, retrying, mix>>
    BY <1>4 DEF Reject, Answerable, KeepQueue
  <2> QED
    BY <1>0, <2>1, RetryingSame DEF Requests, Photos
<1>5. CASE RequestFails
  <2>1. request' = NoRequest
        /\ UNCHANGED <<image, main, proposal, gone, jobs, incoming, waiting, asked, worker, masks, faults, retrying, mix>>
    BY <1>5 DEF RequestFails, KeepQueue
  <2> QED
    BY <1>0, <1>1, <2>1, RetryingSame DEF Requests, RequestRight, NoRequest, Photos
<1>6. ASSUME NEW i \in Photos, CloseCutout(i) PROVE Requests
  <2>1. /\ asked' = [asked EXCEPT ![i] = "no"]
        /\ UNCHANGED <<image, main, proposal, gone, jobs, incoming, waiting, worker, request, masks, faults, retrying, mix>>
    BY <1>6 DEF CloseCutout, KeepRest
  <2>2. asked' \in Asked
    BY <1>0, <2>1 DEF Asked
  <2> QED
    BY <1>0, <2>1, <2>2, RetryingSame DEF Requests, Photos
<1>7. ASSUME NEW i \in Photos, RetryReads(i) PROVE Requests
  <2>1. /\ "retry" \in mix.overlap /\ retrying' = retrying \cup {i}
        /\ UNCHANGED <<image, main, proposal, gone, jobs, incoming, waiting, asked, worker, request, masks, faults, mix>>
    BY <1>7 DEF RetryReads
  <2>2. RetryingRight'
    BY <1>0, <2>1 DEF RetryingRight, Photos
  <2> QED
    BY <1>0, <2>1, <2>2 DEF Requests
<1> QED
  BY <1>2, <1>3, <1>4, <1>5, <1>6, <1>7
-----------------------------------------------------------------------------
(* Every step is one of these, and keeps the types.                        *)

ByWorker(w) ==
  \/ \E j, p : Claimed(w, j, p)
  \/ HasRead(w)
  \/ \E row, error : Failed(w, row, error)
  \/ \E row : PutBack(w, row)
  \/ \E row : Writes(w, row)
  \/ Unlinks(w)
  \/ Dies(w)

ByPeople ==
  \/ Requests
  \/ Chose(request.image, request.product)
  \/ \E hides : Accepted(request.product, hides)
  \/ \E s, l : Merged(s, l)

BySender ==
  \/ \E row, n : PhotoSent(row, n)
  \/ \E i, source, row : MaskFor(i, source, row)
  \/ \E i, row : Retried(i, row)

LEMMA Steps ==
  ASSUME Typed, [Next]_vars
  PROVE  UNCHANGED vars \/ BySender \/ ByPeople \/ \E w \in Workers : ByWorker(w)
<1>1. CASE Sends
  <2>1. ASSUME NEW u \in Uploads, NEW x \in Products, AddPhoto(x, u) PROVE BySender
    BY <2>1, Adding DEF BySender
  <2>2. ASSUME NEW u \in Uploads, NEW kind \in Kinds, Propose(u, kind) PROVE BySender
    BY <2>2, Proposing DEF BySender
  <2>3. ASSUME NEW u \in Uploads, AnswerPhoto(u) PROVE BySender
    BY <2>3, Answering DEF BySender
  <2>4. ASSUME NEW i \in Photos, AddMask(i) \/ AnswerCutout(i) \/ AnswerAgain(i) PROVE BySender
    BY <2>4, Masking DEF BySender
  <2>5. ASSUME NEW i \in Photos, Retry(i) PROVE BySender
    BY <2>5, Retrying DEF BySender
  <2>6. ASSUME NEW i \in Photos, CloseCutout(i) \/ RetryReads(i) PROVE ByPeople
    BY <2>6, AskingOnly DEF ByPeople
  <2> QED
    BY <1>1, <2>1, <2>2, <2>3, <2>4, <2>5, <2>6 DEF Sends, Kinds
<1>2. CASE Asks
  BY <1>2, AskingOnly, Merging DEF Asks, ByPeople
<1>3. CASE Answers
  BY <1>3, AskingOnly, Choosing, Accepting DEF Answers, ByPeople
<1>4. ASSUME NEW w \in Workers, WorkerStep(w) \/ Crash(w) PROVE ByWorker(w)
  BY <1>4, Claiming, ReadingFiles, NotReading, DiskFailing, Writing, UnlinkingFiles, Dying DEF WorkerStep, ByWorker
<1> QED
  BY <1>1, <1>2, <1>3, <1>4 DEF Next

LEMMA PrimaryType ==
  ASSUME NEW rows \in Seq(Rows), NEW x
  PROVE  Primary(rows, x) \in DOMAIN rows \cup {0}
BY PrimaryIs DEF ImagesOf

LEMMA MainType ==
  ASSUME Typed, image' \in Seq(Rows), Photos \subseteq Photos', NEW x, main' = Reselected(image', x)
  PROVE  main' \in [Products -> Photos' \cup {0}]
<1>1. Primary(image', x) \in Photos' \cup {0}
  BY PrimaryType DEF Photos
<1>2. main \in [Products -> Photos' \cup {0}]
  BY DEF Typed, TypeOK
<1> QED
  BY <1>1, <1>2 DEF Reselected

LEMMA WorkersRight ==
  ASSUME Typed, Jobs \subseteq Jobs', NEW w \in Workers, NEW v, WorkerBecomes(w, v), WorkerFits(v, Jobs')
  PROVE  DOMAIN worker' = Workers /\ \A u \in Workers : WorkerFits(worker'[u], Jobs')
<1>1. ASSUME NEW u \in Workers PROVE WorkerFits(worker'[u], Jobs')
  <2>1. CASE u = w
    BY <2>1 DEF WorkerBecomes
  <2>2. CASE u # w
    <3> DEFINE old == worker[u]
    <3>1. worker'[u] = old /\ WorkerFits(old, Jobs)
      BY <2>2 DEF WorkerBecomes, Typed, WorkerRight
    <3> HIDE DEF old
    <3> QED
      BY <3>1 DEF WorkerFits
  <2> QED
    BY <2>1, <2>2
<1> QED
  BY <1>1 DEF WorkerBecomes

LEMMA IdleFits == \A J : WorkerFits(Idle, J)
BY DEF WorkerFits, Idle

LEMMA WorkersStay ==
  ASSUME Typed, Jobs \subseteq Jobs', UNCHANGED worker
  PROVE  DOMAIN worker' = Workers /\ \A u \in Workers : WorkerFits(worker'[u], Jobs')
<1>1. ASSUME NEW u \in Workers PROVE WorkerFits(worker'[u], Jobs')
  <2> DEFINE old == worker[u]
  <2>1. worker'[u] = old /\ WorkerFits(old, Jobs)
    BY DEF Typed, WorkerRight
  <2> HIDE DEF old
  <2> QED
    BY <2>1 DEF WorkerFits
<1> QED
  BY <1>1 DEF Typed

\* The types of what a step leaves, put together.
LEMMA TypedIs ==
  ASSUME image' \in Seq(Rows), Len(image') <= MaxImages,
         \A i \in Photos' : image'[i].product # None \/ image'[i].proposed,
         main' \in [Products -> Photos' \cup {0}],
         jobs' \in Seq(JobRows'), Len(jobs') <= MaxJobs,
         incoming' \subseteq Uploads, asked' \in Asked, RetryingRight', gone' \subseteq Products,
         waiting' \in [1 .. MaxImages -> [Sources -> 0 .. MaxMasks]],
         proposal' \in {"none", "pending", "decided"},
         masks' \in 0 .. MaxMasks, faults' \in 0 .. MaxFaults, mix' \in Mixes,
         DOMAIN worker' = Workers, \A w \in Workers : WorkerFits(worker'[w], Jobs'), RequestRight'
  PROVE  Typed'
<1>1. TypeOK'
  BY DEF TypeOK, Asked, RetryingRight
<1> QED
  BY <1>1 DEF Typed, WorkerRight

\* The product of a photo is named, or it belongs to a proposal.
LEMMA StillNamed ==
  ASSUME Typed, Photos' = Photos, \A k \in Photos : image'[k].proposed = image[k].proposed,
         \A k \in Photos : image[k].product # None => image'[k].product # None
  PROVE  \A i \in Photos' : image'[i].product # None \/ image'[i].proposed
BY DEF Typed, TypeOK

LEMMA BecomesTyped ==
  ASSUME Typed, NEW i, NEW row, Becomes(i, row), NEW fields, SameBut(image[i], row, fields), "product" \notin fields
  PROVE  /\ image' \in Seq(Rows) /\ Len(image') <= MaxImages /\ Photos' = Photos
         /\ \A k \in Photos' : image'[k].product # None \/ image'[k].proposed
         /\ main \in [Products -> Photos' \cup {0}]
<1>1. \A k \in Photos : image'[k].proposed = image[k].proposed /\ image'[k].product = image[k].product
  BY DEF Becomes, SameBut
<1>2. \A k \in Photos' : image'[k].product # None \/ image'[k].proposed
  BY <1>1, StillNamed DEF Becomes
<1> QED
  BY <1>2 DEF Becomes, Typed, TypeOK

LEMMA JobEndsTyped ==
  ASSUME NEW j, NEW s, NEW e, JobEnds(j, s, e)
  PROVE  Jobs' = Jobs /\ jobs' \in Seq(JobRows') /\ Len(jobs') <= MaxJobs
BY DEF JobEnds

LEMMA RequestStays ==
  ASSUME Typed, Photos \subseteq Photos', UNCHANGED request
  PROVE  RequestRight'
BY DEF Typed, RequestRight

LEMMA NothingRequested == request' = NoRequest => RequestRight'
BY DEF RequestRight, NoRequest, Choices

LEMMA WaitingRight ==
  ASSUME Typed, NEW i \in 1 .. MaxImages, NEW new \in [Sources -> 0 .. MaxMasks],
         waiting' = [waiting EXCEPT ![i] = new]
  PROVE  waiting' \in [1 .. MaxImages -> [Sources -> 0 .. MaxMasks]]
BY DEF Typed, TypeOK

LEMMA WaitingGiven ==
  ASSUME Typed, NEW i \in 1 .. MaxImages, NEW s \in Sources, NEW n \in 0 .. MaxMasks
  PROVE  [waiting[i] EXCEPT ![s] = n] \in [Sources -> 0 .. MaxMasks]
BY DEF Typed, TypeOK

LEMMA PhotosBound ==
  ASSUME Typed
  PROVE  Photos \subseteq 1 .. MaxImages /\ Photos = 1 .. Len(image) /\ Len(image) \in Nat
BY BoundsAssumption DEF Typed, TypeOK, Photos

\* The newest of the masks that wait is none older than another.
LEMMA NewestIs ==
  ASSUME Typed, NEW i \in Photos
  PROVE  /\ Newest(i) \in Sources /\ waiting[i][Newest(i)] \in 0 .. MaxMasks
         /\ \A z \in Sources : waiting[i][z] <= waiting[i][Newest(i)]
<1>1. i \in 1 .. MaxImages
  BY PhotosBound
<1>2. \A s \in Sources : waiting[i][s] \in 0 .. MaxMasks /\ waiting[i][s] \in Nat
  BY <1>1, BoundsAssumption DEF Typed, TypeOK
<1> DEFINE d == waiting[i]["device"]
           t == waiting[i]["tool"]
<1>3. d \in Nat /\ t \in Nat
  BY <1>2 DEF Sources
<1>4. \E s \in Sources : \A z \in Sources : waiting[i][z] <= waiting[i][s]
  <2>1. CASE d <= t
    BY <1>3, <2>1 DEF Sources
  <2>2. CASE ~(d <= t)
    BY <1>3, <2>2 DEF Sources
  <2> QED
    BY <2>1, <2>2
<1>5. Newest(i) \in Sources /\ \A z \in Sources : waiting[i][z] <= waiting[i][Newest(i)]
  BY <1>4 DEF Newest
<1> QED
  BY <1>2, <1>5

LEMMA SentTyped ==
  ASSUME Typed, NEW row, NEW n, PhotoSent(row, n)
  PROVE  Typed'
<1> DEFINE new == Len(image) + 1
<1>1. /\ row \in Rows /\ (row.product # None \/ row.proposed)
      /\ new \in 1 .. MaxImages /\ Photos' = Photos \cup {new}
      /\ image' \in Seq(Rows) /\ Len(image') <= MaxImages
      /\ image'[new] = row /\ \A i \in Photos : image'[i] = image[i]
      /\ Queued(new) /\ incoming' = incoming \cup {row.upload}
      /\ proposal' \in {proposal, "pending"}
      /\ UNCHANGED <<main, asked, gone, worker, request, faults, retrying, mix>>
  BY DEF PhotoSent
<1>2. \A i \in Photos' : image'[i].product # None \/ image'[i].proposed
  BY <1>1 DEF Typed, TypeOK
<1>3. main' \in [Products -> Photos' \cup {0}] /\ asked' \in Asked /\ RetryingRight' /\ gone' \subseteq Products
  BY <1>1 DEF Typed, TypeOK, Asked, RetryingRight
<1>4. incoming' \subseteq Uploads /\ proposal' \in {"none", "pending", "decided"} /\ faults' \in 0 .. MaxFaults /\ mix' \in Mixes
  BY <1>1, RowIs DEF Typed, TypeOK
<1>5. waiting' \in [1 .. MaxImages -> [Sources -> 0 .. MaxMasks]] /\ masks' \in 0 .. MaxMasks
  <2>1. CASE n = 0 /\ UNCHANGED <<waiting, masks>>
    BY <2>1 DEF Typed, TypeOK
  <2>2. CASE n = masks + 1 /\ masks' = n /\ masks < mix.masks /\ waiting' = [waiting EXCEPT ![new].tool = n]
    <3>1. n \in 0 .. MaxMasks
      BY <2>2, BoundsAssumption DEF Typed, TypeOK
    <3>2. [waiting[new] EXCEPT !["tool"] = n] \in [Sources -> 0 .. MaxMasks]
      BY <1>1, <3>1, WaitingGiven DEF Sources
    <3>3. waiting' = [waiting EXCEPT ![new] = [waiting[new] EXCEPT !["tool"] = n]]
      BY <2>2
    <3> QED
      BY <1>1, <2>2, <3>1, <3>2, <3>3, WaitingRight
  <2> QED
    BY <2>1, <2>2 DEF PhotoSent
<1>6. Jobs \subseteq Jobs' /\ jobs' \in Seq(JobRows') /\ Len(jobs') <= MaxJobs
  BY <1>1 DEF Queued
<1>7. DOMAIN worker' = Workers /\ \A w \in Workers : WorkerFits(worker'[w], Jobs')
  BY <1>1, <1>6, WorkersStay
<1>8. RequestRight'
  BY <1>1, RequestStays
<1> HIDE DEF new
<1> QED
  BY <1>1, <1>2, <1>3, <1>4, <1>5, <1>6, <1>7, <1>8, TypedIs

LEMMA MaskTyped ==
  ASSUME Typed, NEW i, NEW source, NEW row, MaskFor(i, source, row)
  PROVE  Typed'
<1>1. /\ source \in Sources /\ Becomes(i, row) /\ SameBut(image[i], row, {"given"})
      /\ masks' = masks + 1 /\ masks < mix.masks /\ waiting' = [waiting EXCEPT ![i][source] = masks + 1]
      /\ Queued(i) \/ UNCHANGED jobs
      /\ asked' \in Asked
      /\ UNCHANGED <<incoming, main, proposal, gone, worker, request, faults, retrying, mix>>
  BY DEF MaskFor
<1>2. /\ image' \in Seq(Rows) /\ Len(image') <= MaxImages /\ Photos' = Photos
      /\ \A k \in Photos' : image'[k].product # None \/ image'[k].proposed
      /\ main \in [Products -> Photos' \cup {0}]
  BY <1>1, BecomesTyped
<1>3. i \in 1 .. MaxImages
  BY <1>1, PhotosBound DEF Becomes
<1>4. masks' \in 0 .. MaxMasks
  BY <1>1, BoundsAssumption DEF Typed, TypeOK
<1>5. waiting' \in [1 .. MaxImages -> [Sources -> 0 .. MaxMasks]]
  <2>1. [waiting[i] EXCEPT ![source] = masks + 1] \in [Sources -> 0 .. MaxMasks]
    BY <1>1, <1>3, <1>4, WaitingGiven
  <2>2. waiting' = [waiting EXCEPT ![i] = [waiting[i] EXCEPT ![source] = masks + 1]]
    BY <1>1
  <2> QED
    BY <1>3, <2>1, <2>2, WaitingRight
<1>6. Jobs \subseteq Jobs' /\ jobs' \in Seq(JobRows') /\ Len(jobs') <= MaxJobs
  <2>1. CASE UNCHANGED jobs
    <3>1. JobRows' = JobRows /\ Jobs' = Jobs
      BY <1>2, <2>1 DEF JobRows, Jobs
    <3> QED
      BY <2>1, <3>1 DEF Typed, TypeOK
  <2> QED
    BY <1>1, <2>1 DEF Queued
<1>7. DOMAIN worker' = Workers /\ \A w \in Workers : WorkerFits(worker'[w], Jobs')
  BY <1>1, <1>6, WorkersStay
<1>8. RequestRight'
  BY <1>1, <1>2, RequestStays
<1>9. /\ incoming' \subseteq Uploads /\ asked' \in Asked /\ RetryingRight' /\ gone' \subseteq Products
      /\ proposal' \in {"none", "pending", "decided"} /\ faults' \in 0 .. MaxFaults /\ mix' \in Mixes
      /\ main' \in [Products -> Photos' \cup {0}]
  BY <1>1, <1>2 DEF Typed, TypeOK, Asked, RetryingRight
<1> QED
  BY <1>2, <1>4, <1>5, <1>6, <1>7, <1>8, <1>9, TypedIs

LEMMA RetriedTyped ==
  ASSUME Typed, NEW i, NEW row, Retried(i, row)
  PROVE  Typed'
<1>1. /\ Becomes(i, row) /\ SameBut(image[i], row, {"status"}) /\ Queued(i)
      /\ UNCHANGED <<incoming, waiting, asked, masks, main, proposal, gone, worker, request, faults, retrying, mix>>
  BY DEF Retried
<1>2. /\ image' \in Seq(Rows) /\ Len(image') <= MaxImages /\ Photos' = Photos
      /\ \A k \in Photos' : image'[k].product # None \/ image'[k].proposed
      /\ main \in [Products -> Photos' \cup {0}]
  BY <1>1, BecomesTyped
<1>3. Jobs \subseteq Jobs' /\ jobs' \in Seq(JobRows') /\ Len(jobs') <= MaxJobs
  BY <1>1 DEF Queued
<1>4. DOMAIN worker' = Workers /\ \A w \in Workers : WorkerFits(worker'[w], Jobs')
  BY <1>1, <1>3, WorkersStay
<1>5. RequestRight'
  BY <1>1, <1>2, RequestStays
<1>6. /\ incoming' \subseteq Uploads /\ asked' \in Asked /\ RetryingRight' /\ gone' \subseteq Products
      /\ proposal' \in {"none", "pending", "decided"} /\ faults' \in 0 .. MaxFaults /\ mix' \in Mixes
      /\ main' \in [Products -> Photos' \cup {0}] /\ masks' \in 0 .. MaxMasks
      /\ waiting' \in [1 .. MaxImages -> [Sources -> 0 .. MaxMasks]]
  BY <1>1, <1>2 DEF Typed, TypeOK, Asked, RetryingRight
<1> QED
  BY <1>2, <1>3, <1>4, <1>5, <1>6, TypedIs

\* A worker's step that changes neither rows nor jobs.
LEMMA WorkerTyped ==
  ASSUME Typed, NEW w \in Workers, NEW v, WorkerBecomes(w, v), WorkerFits(v, Jobs),
         UNCHANGED <<image, main, jobs, gone, request, proposal, masks, retrying, mix>>,
         incoming' \subseteq incoming, asked' \in Asked, faults' \in 0 .. MaxFaults,
         waiting' \in [1 .. MaxImages -> [Sources -> 0 .. MaxMasks]]
  PROVE  Typed'
<1>1. Photos' = Photos /\ Jobs' = Jobs /\ JobRows' = JobRows
  BY DEF Photos, Jobs, JobRows
<1>2. DOMAIN worker' = Workers /\ \A u \in Workers : WorkerFits(worker'[u], Jobs')
  BY <1>1, WorkersRight
<1>3. RequestRight'
  BY <1>1, RequestStays
<1>4. /\ image' \in Seq(Rows) /\ Len(image') <= MaxImages
      /\ \A i \in Photos' : image'[i].product # None \/ image'[i].proposed
      /\ main' \in [Products -> Photos' \cup {0}]
      /\ jobs' \in Seq(JobRows') /\ Len(jobs') <= MaxJobs
  BY <1>1 DEF Typed, TypeOK
<1>5. /\ incoming' \subseteq Uploads /\ asked' \in Asked /\ RetryingRight' /\ gone' \subseteq Products
      /\ proposal' \in {"none", "pending", "decided"} /\ masks' \in 0 .. MaxMasks /\ mix' \in Mixes
  BY <1>1 DEF Typed, TypeOK, Asked, RetryingRight
<1> QED
  BY <1>2, <1>3, <1>4, <1>5, TypedIs

LEMMA ClaimedTyped ==
  ASSUME Typed, NEW w \in Workers, NEW j, NEW p, Claimed(w, j, p)
  PROVE  Typed'
<1>1. /\ j \in Jobs /\ p \in BOOLEAN /\ JobEnds(j, "running", jobs[j].error)
      /\ WorkerBecomes(w, Reading(j, p))
      /\ UNCHANGED <<image, main, incoming, waiting, asked, faults, proposal, gone, request, masks, retrying, mix>>
  BY DEF Claimed
<1>2. Photos' = Photos /\ Jobs' = Jobs /\ jobs' \in Seq(JobRows') /\ Len(jobs') <= MaxJobs
  BY <1>1, JobEndsTyped DEF Photos
<1>3. WorkerFits(Reading(j, p), Jobs')
  <2> DEFINE row == image[jobs[j].image]
  <2>1. row \in Rows
    <3>1. jobs \in Seq(JobRows) /\ image \in Seq(Rows) /\ j \in DOMAIN jobs
      BY <1>1 DEF Typed, TypeOK, Jobs
    <3>2. jobs[j] \in JobRows
      BY <3>1
    <3>3. jobs[j].image \in Photos
      BY <3>2 DEF JobRows
    <3> QED
      BY <3>1, <3>3 DEF Photos
  <2>2. row.product \in Products \cup {None} /\ row.status \in Statuses
    BY <2>1, RowIs
  <2> QED
    BY <1>1, <1>2, <2>2 DEF WorkerFits, Reading
<1>4. DOMAIN worker' = Workers /\ \A u \in Workers : WorkerFits(worker'[u], Jobs')
  BY <1>1, <1>2, <1>3, WorkersRight
<1>5. RequestRight'
  BY <1>1, <1>2, RequestStays
<1>6. /\ image' \in Seq(Rows) /\ Len(image') <= MaxImages
      /\ \A i \in Photos' : image'[i].product # None \/ image'[i].proposed
      /\ main' \in [Products -> Photos' \cup {0}]
      /\ incoming' \subseteq Uploads /\ asked' \in Asked /\ RetryingRight' /\ gone' \subseteq Products
      /\ waiting' \in [1 .. MaxImages -> [Sources -> 0 .. MaxMasks]]
      /\ proposal' \in {"none", "pending", "decided"}
      /\ masks' \in 0 .. MaxMasks /\ faults' \in 0 .. MaxFaults /\ mix' \in Mixes
  BY <1>1, <1>2 DEF Typed, TypeOK, Asked, RetryingRight
<1> QED
  BY <1>2, <1>4, <1>5, <1>6, TypedIs

\* A worker's step that changes the row and the job of its photo.
LEMMA RowWorkTyped ==
  ASSUME Typed, NEW w \in Workers, NEW i, NEW row, NEW fields, NEW j, NEW s, NEW e, NEW v,
         Becomes(i, row), SameBut(image[i], row, fields), "product" \notin fields,
         JobEnds(j, s, e), WorkerBecomes(w, v), WorkerFits(v, Jobs),
         main' = main \/ \E x : main' = Reselected(image', x),
         faults' \in 0 .. MaxFaults,
         UNCHANGED <<incoming, waiting, asked, proposal, gone, request, masks, retrying, mix>>
  PROVE  Typed'
<1>1. /\ image' \in Seq(Rows) /\ Len(image') <= MaxImages /\ Photos' = Photos
      /\ \A k \in Photos' : image'[k].product # None \/ image'[k].proposed
      /\ main \in [Products -> Photos' \cup {0}]
  BY BecomesTyped
<1>2. Jobs' = Jobs /\ jobs' \in Seq(JobRows') /\ Len(jobs') <= MaxJobs
  BY JobEndsTyped
<1>3. DOMAIN worker' = Workers /\ \A u \in Workers : WorkerFits(worker'[u], Jobs')
  BY <1>2, WorkersRight
<1>4. RequestRight'
  BY <1>1, RequestStays
<1>5. main' \in [Products -> Photos' \cup {0}]
  BY <1>1, MainType
<1>6. /\ incoming' \subseteq Uploads /\ asked' \in Asked /\ RetryingRight' /\ gone' \subseteq Products
      /\ waiting' \in [1 .. MaxImages -> [Sources -> 0 .. MaxMasks]]
      /\ proposal' \in {"none", "pending", "decided"}
      /\ masks' \in 0 .. MaxMasks /\ mix' \in Mixes
  BY <1>1 DEF Typed, TypeOK, Asked, RetryingRight
<1> QED
  BY <1>1, <1>2, <1>3, <1>4, <1>5, <1>6, TypedIs

LEMMA OneMoreFault ==
  ASSUME Typed, faults' \in {faults, faults + 1}, faults' # faults => faults < mix.faults
  PROVE  faults' \in 0 .. MaxFaults
BY BoundsAssumption DEF Typed, TypeOK

LEMMA WorkerStepTyped ==
  ASSUME Typed, NEW w \in Workers, ByWorker(w)
  PROVE  Typed'
<1>0. WorkerFits(Idle, Jobs) /\ WorkerFits(worker[w], Jobs)
  BY IdleFits DEF Typed, WorkerRight
<1>1. ASSUME NEW j, NEW p, Claimed(w, j, p) PROVE Typed'
  BY <1>1, ClaimedTyped
<1>2. CASE HasRead(w)
  <2> DEFINE v == worker[w]
             n == waiting[Its(w)][Newest(Its(w))]
             used == {s \in Sources : waiting[Its(w)][s] # 0}
  <2>1. /\ At(w) = "files" /\ WorkerBecomes(w, Working(v, n, used))
        /\ UNCHANGED <<image, main, jobs, incoming, waiting, asked, faults, proposal, gone, request, masks, retrying, mix>>
    BY <1>2 DEF HasRead
  <2>2. n \in 0 .. MaxMasks /\ used \in SUBSET Sources
    BY <2>1, ItsPhoto, NewestIs
  <2>3. v.job \in Jobs /\ v.product \in Products \cup {None} /\ v.prepared \in BOOLEAN
    BY <1>0, <2>1 DEF WorkerFits, At
  <2> HIDE DEF n, used, v
  <2>4. WorkerFits(Working(v, n, used), Jobs)
    BY <2>2, <2>3 DEF WorkerFits, Working
  <2>5. /\ incoming' \subseteq incoming /\ asked' \in Asked /\ faults' \in 0 .. MaxFaults
        /\ waiting' \in [1 .. MaxImages -> [Sources -> 0 .. MaxMasks]]
    BY <2>1 DEF Typed, TypeOK, Asked, RetryingRight
  <2> QED
    BY <2>1, <2>4, <2>5, WorkerTyped
<1>3. ASSUME NEW row, NEW error, Failed(w, row, error) PROVE Typed'
  <2>1. /\ Becomes(Its(w), row) /\ SameBut(image[Its(w)], row, {"status", "prepared"})
        /\ JobEnds(worker[w].job, "failed", error) /\ WorkerBecomes(w, Idle)
        /\ faults' \in {faults, faults + 1} /\ (faults' # faults => faults < mix.faults)
        /\ UNCHANGED <<main, incoming, waiting, asked, proposal, gone, request, masks, retrying, mix>>
    BY <1>3 DEF Failed
  <2>2. faults' \in 0 .. MaxFaults
    BY <2>1, OneMoreFault
  <2>3. "product" \notin {"status", "prepared"}
    OBVIOUS
  <2> QED
    BY <1>0, <2>1, <2>2, <2>3, RowWorkTyped
<1>4. ASSUME NEW row, PutBack(w, row) PROVE Typed'
  <2>1. /\ Becomes(Its(w), row) /\ SameBut(image[Its(w)], row, {"prepared"})
        /\ JobEnds(worker[w].job, "pending", "io_error") /\ WorkerBecomes(w, Idle)
        /\ faults' \in {faults, faults + 1} /\ (faults' # faults => faults < mix.faults)
        /\ UNCHANGED <<main, incoming, waiting, asked, proposal, gone, request, masks, retrying, mix>>
    BY <1>4 DEF PutBack
  <2>2. faults' \in 0 .. MaxFaults
    BY <2>1, OneMoreFault
  <2>3. "product" \notin {"prepared"}
    OBVIOUS
  <2> QED
    BY <1>0, <2>1, <2>2, <2>3, RowWorkTyped
<1>5. ASSUME NEW row, Writes(w, row) PROVE Typed'
  <2> DEFINE v == worker[w]
  <2>1. /\ At(w) = "write"
        /\ Becomes(Its(w), row) /\ SameBut(image[Its(w)], row, {"status", "prepared", "mask"})
        /\ JobEnds(v.job, "done", "none") /\ WorkerBecomes(w, Unlinking(v))
        /\ UNCHANGED <<incoming, waiting, asked, faults, proposal, gone, request, masks, retrying, mix>>
    BY <1>5 DEF Writes
  <2>2. main' = main \/ \E x : main' = Reselected(image', x)
    BY <1>5 DEF Writes
  <2>3. faults' \in 0 .. MaxFaults
    BY <2>1 DEF Typed, TypeOK
  <2>4. WorkerFits(Unlinking(v), Jobs)
    BY <1>0, <2>1 DEF WorkerFits, Unlinking, At
  <2>5. "product" \notin {"status", "prepared", "mask"}
    OBVIOUS
  <2> HIDE DEF v
  <2> QED
    BY <2>1, <2>2, <2>3, <2>4, <2>5, RowWorkTyped
<1>6. CASE Unlinks(w)
  <2> DEFINE v == worker[w]
             i == Its(w)
             new == [s \in Sources |-> IF s \in v.usedMasks THEN 0 ELSE waiting[i][s]]
  <2>1. /\ At(w) = "unlink" /\ incoming' \subseteq incoming
        /\ waiting' = [waiting EXCEPT ![i] = new]
        /\ asked' \in Asked
        /\ WorkerBecomes(w, Idle)
        /\ UNCHANGED <<image, main, jobs, faults, proposal, gone, request, masks, retrying, mix>>
    BY <1>6 DEF Unlinks
  <2>2. i \in Photos /\ i \in 1 .. MaxImages
    BY <2>1, ItsPhoto, PhotosBound
  <2>3. new \in [Sources -> 0 .. MaxMasks]
    BY <2>2, BoundsAssumption DEF Typed, TypeOK
  <2>4. waiting' \in [1 .. MaxImages -> [Sources -> 0 .. MaxMasks]]
    BY <2>1, <2>2, <2>3, WaitingRight
  <2>5. asked' \in Asked /\ faults' \in 0 .. MaxFaults
    BY <2>1, <2>2 DEF Typed, TypeOK, Asked, RetryingRight
  <2> QED
    BY <1>0, <2>1, <2>4, <2>5, WorkerTyped
<1>7. CASE Dies(w)
  <2>1. /\ WorkerBecomes(w, Idle) /\ faults' \in {faults, faults + 1} /\ (faults' # faults => faults < mix.faults)
        /\ UNCHANGED <<image, main, jobs, incoming, waiting, asked, proposal, gone, request, masks, retrying, mix>>
    BY <1>7 DEF Dies
  <2>2. faults' \in 0 .. MaxFaults
    BY <2>1, OneMoreFault
  <2>3. /\ incoming' \subseteq incoming /\ asked' \in Asked
        /\ waiting' \in [1 .. MaxImages -> [Sources -> 0 .. MaxMasks]]
    BY <2>1 DEF Typed, TypeOK, Asked, RetryingRight
  <2> QED
    BY <1>0, <2>1, <2>2, <2>3, WorkerTyped
<1> QED
  BY <1>1, <1>2, <1>3, <1>4, <1>5, <1>6, <1>7 DEF ByWorker

\* A request that rewrites rows.
LEMMA RewrittenTyped ==
  ASSUME Typed, NEW fields, Rewritten(fields),
         \A k \in Photos : image[k].product # None => image'[k].product # None,
         main' \in [Products -> Photos \cup {0}], RequestRight', gone' \subseteq Products,
         proposal' \in {"none", "pending", "decided"}, asked' \in Asked, RetryingRight',
         UNCHANGED <<jobs, incoming, waiting, worker, masks, faults, mix>>
  PROVE  Typed'
<1>1. /\ image' \in Seq(Rows) /\ Len(image') <= MaxImages /\ Photos' = Photos
      /\ \A k \in Photos : image'[k].proposed = image[k].proposed
  BY DEF Rewritten, SameBut, Typed, TypeOK
<1>2. \A i \in Photos' : image'[i].product # None \/ image'[i].proposed
  BY <1>1, StillNamed
<1>3. Jobs' = Jobs /\ JobRows' = JobRows
  BY <1>1 DEF Jobs, JobRows
<1>4. DOMAIN worker' = Workers /\ \A u \in Workers : WorkerFits(worker'[u], Jobs')
  BY <1>3, WorkersStay
<1>5. /\ main' \in [Products -> Photos' \cup {0}]
      /\ jobs' \in Seq(JobRows') /\ Len(jobs') <= MaxJobs
      /\ incoming' \subseteq Uploads /\ asked' \in Asked /\ RetryingRight'
      /\ waiting' \in [1 .. MaxImages -> [Sources -> 0 .. MaxMasks]]
      /\ masks' \in 0 .. MaxMasks /\ faults' \in 0 .. MaxFaults /\ mix' \in Mixes
  BY <1>1, <1>3 DEF Typed, TypeOK, Asked, RetryingRight
<1> QED
  BY <1>1, <1>2, <1>4, <1>5, TypedIs

LEMMA PeopleTyped ==
  ASSUME Typed, ByPeople
  PROVE  Typed'
<1>0. /\ image \in Seq(Rows) /\ main \in [Products -> Photos \cup {0}] /\ gone \subseteq Products
      /\ proposal \in {"none", "pending", "decided"}
  BY DEF Typed, TypeOK
<1>r. asked \in Asked /\ RetryingRight
  BY DEF Typed, TypeOK, Asked
<1>1. CASE Requests
  <2>1. UNCHANGED image /\ Photos' = Photos /\ UNCHANGED main /\ UNCHANGED gone /\ proposal' \in {proposal, "decided"}
        /\ asked' \in Asked /\ RetryingRight'
        /\ UNCHANGED <<jobs, incoming, waiting, worker, masks, faults, mix>>
    BY <1>1 DEF Requests, Photos
  <2>2. Rewritten({})
    BY <1>0, <2>1, RowStays DEF Rewritten, Photos
  <2>3. RequestRight'
    BY <1>1, <2>1, RequestStays DEF Requests
  <2> QED
    BY <1>0, <2>1, <2>2, <2>3, RewrittenTyped
<1>2. CASE Chose(request.image, request.product)
  <2>1. /\ Rewritten({"status", "hid"}) /\ main' = Reselected(image', request.product) /\ request' = NoRequest
        /\ UNCHANGED <<proposal, gone, jobs, incoming, waiting, asked, worker, masks, faults, retrying, mix>>
    BY <1>2 DEF Chose
  <2>2. /\ image' \in Seq(Rows) /\ Photos' = Photos
        /\ \A k \in Photos : image'[k].product = image[k].product
    BY <2>1 DEF Rewritten, SameBut
  <2>3. main' \in [Products -> Photos \cup {0}]
    BY <2>1, <2>2, MainType
  <2> QED
    BY <1>0, <1>r, <2>1, <2>2, <2>3, NothingRequested, RetryingSame, RewrittenTyped
<1>3. ASSUME NEW hides, Accepted(request.product, hides) PROVE Typed'
  <2>1. /\ Rewritten({"product", "role", "status", "hid"}) /\ main' = Reselected(image', request.product)
        /\ request' = NoRequest /\ proposal' = "decided" /\ request.kind = "accept"
        /\ \A k \in Photos \ DOMAIN request.read : SameBut(image[k], image'[k], {})
        /\ \A k \in DOMAIN request.read : image'[k].product = request.product
        /\ UNCHANGED <<gone, jobs, incoming, waiting, asked, worker, masks, faults, retrying, mix>>
    BY <1>3 DEF Accepted
  <2>2. image' \in Seq(Rows) /\ Photos' = Photos
    BY <2>1 DEF Rewritten
  <2>3. request.product \in Products
    BY <2>1 DEF Typed, RequestRight
  <2>4. \A k \in Photos : image[k].product # None => image'[k].product # None
    BY <2>1, <2>3, NoneAssumption DEF SameBut
  <2>5. main' \in [Products -> Photos \cup {0}]
    BY <2>1, <2>2, MainType
  <2> QED
    BY <1>0, <1>r, <2>1, <2>2, <2>4, <2>5, NothingRequested, RetryingSame, RewrittenTyped
<1>4. ASSUME NEW s, NEW l, Merged(s, l) PROVE Typed'
  <2>1. /\ s \in Products /\ l \in Products /\ Rewritten({"product"}) /\ gone' = gone \cup {l}
        /\ \A k \in Photos : image'[k].product \in {image[k].product, s}
        /\ main' = [main EXCEPT ![s] = IF main[s] = 0 THEN Primary(image', s) ELSE main[s], ![l] = Primary(image', l)]
        /\ UNCHANGED <<proposal, request, jobs, incoming, waiting, asked, worker, masks, faults, retrying, mix>>
    BY <1>4 DEF Merged
  <2>2. image' \in Seq(Rows) /\ Photos' = Photos /\ DOMAIN image' = Photos
    BY <2>1 DEF Rewritten, Photos
  <2>3. \A k \in Photos : image[k].product # None => image'[k].product # None
    BY <2>1, NoneAssumption
  <2>4. Primary(image', s) \in Photos \cup {0} /\ Primary(image', l) \in Photos \cup {0}
    BY <2>2, PrimaryType
  <2> DEFINE ps == IF main[s] = 0 THEN Primary(image', s) ELSE main[s]
             pl == Primary(image', l)
  <2>5. ps \in Photos \cup {0} /\ pl \in Photos \cup {0}
    BY <1>0, <2>1, <2>4
  <2> HIDE DEF ps, pl
  <2>6. main' = [main EXCEPT ![s] = ps, ![l] = pl]
    BY <2>1 DEF ps, pl
  <2>7. main' \in [Products -> Photos \cup {0}]
    BY <1>0, <2>5, <2>6
  <2>8. RequestRight'
    BY <2>1, <2>2, RequestStays
  <2>9. gone' \subseteq Products /\ proposal' \in {"none", "pending", "decided"}
    BY <1>0, <2>1
  <2> QED
    BY <1>r, <2>1, <2>2, <2>3, <2>7, <2>8, <2>9, RetryingSame, RewrittenTyped
<1> QED
  BY <1>1, <1>2, <1>3, <1>4 DEF ByPeople

LEMMA StutterTyped ==
  ASSUME Typed, UNCHANGED vars
  PROVE  Typed'
BY DEF vars, Typed, TypeOK, WorkerRight, WorkerFits, RequestRight, RetryingRight, Photos, Jobs, JobRows

LEMMA TypedStep ==
  ASSUME Typed, [Next]_vars
  PROVE  Typed'
BY Steps, SentTyped, MaskTyped, RetriedTyped, PeopleTyped, WorkerStepTyped, StutterTyped DEF BySender

LEMMA TypedInit ==
  ASSUME Init
  PROVE  Typed
<1>1. Photos = {} /\ Jobs = {} /\ image \in Seq(Rows) /\ jobs \in Seq(JobRows) /\ Len(image) = 0 /\ Len(jobs) = 0
  BY DEF Init, Photos, Jobs
<1>2. 0 \in 0 .. MaxMasks /\ 0 \in 0 .. MaxFaults /\ 0 <= MaxImages /\ 0 <= MaxJobs
  BY BoundsAssumption
<1>3. TypeOK
  BY <1>1, <1>2 DEF Init, TypeOK
<1>4. DOMAIN worker = Workers /\ \A w \in Workers : WorkerRight(worker[w])
  BY IdleFits DEF Init, WorkerRight
<1>5. RequestRight
  BY <1>1 DEF Init, RequestRight, NoRequest, Choices
<1> QED
  BY <1>3, <1>4, <1>5 DEF Typed, Init, RetryingRight

\* Every variable keeps its type, with what each worker and a request hold.
LEMMA AlwaysTyped == Spec => []Typed
<1>1. Init => Typed
  BY TypedInit
<1>2. Typed /\ [Next]_vars => Typed'
  BY TypedStep
<1> QED
  BY <1>1, <1>2, PTL DEF Spec

\* Rows, jobs, files and masks are what their tables and directories hold: no photo is
\* named that is not stored, and no bound on photos, jobs, masks or faults is passed.
THEOREM TypeCorrect == Spec => []TypeOK
<1>1. Typed => TypeOK
  BY DEF Typed
<1> QED
  BY <1>1, AlwaysTyped, PTL

-----------------------------------------------------------------------------
(* What every step keeps.                                                  *)

\* A job stays the job of its photo.
JobsStay == Jobs \subseteq Jobs' /\ \A j \in Jobs : jobs'[j].image = jobs[j].image

LEMMA JobsKept ==
  ASSUME Typed, UNCHANGED vars \/ BySender \/ ByPeople \/ \E w \in Workers : ByWorker(w)
  PROVE  JobsStay
<1>1. ASSUME NEW i, Queued(i) PROVE JobsStay
  BY <1>1 DEF Queued, JobsStay
<1>2. ASSUME NEW j, NEW s, NEW e, JobEnds(j, s, e) PROVE JobsStay
  BY <1>2 DEF JobEnds, JobsStay
<1>3. CASE UNCHANGED jobs
  BY <1>3 DEF JobsStay, Jobs
<1>4. CASE UNCHANGED vars
  BY <1>3, <1>4 DEF vars
<1>5. CASE BySender
  BY <1>1, <1>3, <1>5 DEF BySender, PhotoSent, MaskFor, Retried
<1>6. CASE ByPeople
  BY <1>3, <1>6 DEF ByPeople, Requests, Chose, Accepted, Merged
<1>7. ASSUME NEW w \in Workers, ByWorker(w) PROVE JobsStay
  BY <1>2, <1>3, <1>7 DEF ByWorker, Claimed, HasRead, Failed, PutBack, Writes, Unlinks, Dies
<1> QED
  BY <1>4, <1>5, <1>6, <1>7

LEMMA ItsStays ==
  ASSUME Typed, JobsStay, NEW w \in Workers, At(w) # "idle", worker'[w].job = worker[w].job
  PROVE  Its(w)' = Its(w)
BY ItsPhoto DEF JobsStay, Its

\* A photo stays, and keeps its product once it has one.
ProductsStay ==
  /\ Photos \subseteq Photos'
  /\ \A k \in Photos : image[k].product # None => image'[k].product = image[k].product

\* No photo an acceptance has read has a product.
ReadsNew == request.kind = "accept" => \A i \in DOMAIN request.read : image[i].product = None

LEMMA SenderKeeps ==
  ASSUME Typed, BySender
  PROVE  ProductsStay /\ UNCHANGED <<worker, request, mix, main>>
<1>1. ASSUME NEW row, NEW n, PhotoSent(row, n) PROVE ProductsStay /\ UNCHANGED <<worker, request, mix, main>>
  BY <1>1 DEF PhotoSent, ProductsStay
<1>2. ASSUME NEW i, NEW source, NEW row, MaskFor(i, source, row)
      PROVE ProductsStay /\ UNCHANGED <<worker, request, mix, main>>
  BY <1>2 DEF MaskFor, ProductsStay, Becomes, SameBut
<1>3. ASSUME NEW i, NEW row, Retried(i, row) PROVE ProductsStay /\ UNCHANGED <<worker, request, mix, main>>
  BY <1>3 DEF Retried, ProductsStay, Becomes, SameBut
<1> QED
  BY <1>1, <1>2, <1>3 DEF BySender

\* A worker changes at most the row of its photo, and never whose it is.
LEMMA WorkerKeeps ==
  ASSUME Typed, NEW w \in Workers, ByWorker(w)
  PROVE  /\ Photos' = Photos /\ \A k \in Photos : image'[k].product = image[k].product
         /\ UNCHANGED <<request, retrying, mix>> /\ \A u \in Workers : u # w => worker'[u] = worker[u]
<1>1. ASSUME NEW i, NEW row, NEW fields, Becomes(i, row), SameBut(image[i], row, fields), "product" \notin fields
      PROVE  Photos' = Photos /\ \A k \in Photos : image'[k].product = image[k].product
  BY <1>1 DEF Becomes, SameBut
<1>2. ASSUME UNCHANGED image PROVE Photos' = Photos /\ \A k \in Photos : image'[k].product = image[k].product
  BY <1>2 DEF Photos
<1>3. UNCHANGED <<request, retrying, mix>> /\ \A u \in Workers : u # w => worker'[u] = worker[u]
  BY DEF ByWorker, Claimed, HasRead, Failed, PutBack, Writes, Unlinks, Dies, WorkerBecomes
<1>4. "product" \notin {"status", "prepared"} /\ "product" \notin {"prepared"} /\ "product" \notin {"status", "prepared", "mask"}
  OBVIOUS
<1>5. CASE \E row, error : Failed(w, row, error)
  BY <1>1, <1>3, <1>4, <1>5 DEF Failed
<1>6. CASE \E row : PutBack(w, row)
  BY <1>1, <1>3, <1>4, <1>6 DEF PutBack
<1>7. CASE \E row : Writes(w, row)
  BY <1>1, <1>3, <1>4, <1>7 DEF Writes
<1>8. UNCHANGED image \/ (\E row, error : Failed(w, row, error)) \/ (\E row : PutBack(w, row)) \/ (\E row : Writes(w, row))
  BY DEF ByWorker, Claimed, HasRead, Unlinks, Dies
<1> QED
  BY <1>2, <1>3, <1>5, <1>6, <1>7, <1>8

LEMMA ReadsNewStep ==
  ASSUME Typed, ReadsNew, UNCHANGED vars \/ BySender \/ ByPeople \/ \E w \in Workers : ByWorker(w)
  PROVE  ReadsNew'
<1>0. /\ request.kind = "accept" => \A i \in DOMAIN request.read : i \in Photos /\ image[i].product = None
      /\ \A i \in Photos : image[i] \in Rows
  BY DEF Typed, TypeOK, RequestRight, ReadsNew, Photos
<1>1. CASE UNCHANGED vars
  BY <1>1 DEF vars, ReadsNew
<1>2. ASSUME NEW row, NEW n, PhotoSent(row, n) PROVE ReadsNew'
  BY <1>0, <1>2 DEF PhotoSent, ReadsNew
<1>3. ASSUME NEW i, NEW source, NEW row, MaskFor(i, source, row) PROVE ReadsNew'
  BY <1>0, <1>3 DEF MaskFor, ReadsNew, Becomes, SameBut
<1>4. ASSUME NEW i, NEW row, Retried(i, row) PROVE ReadsNew'
  BY <1>0, <1>4 DEF Retried, ReadsNew, Becomes, SameBut
<1>5. ASSUME NEW w \in Workers, ByWorker(w) PROVE ReadsNew'
  BY <1>0, <1>5, WorkerKeeps DEF ReadsNew
<1>6. CASE Requests
  <2>1. CASE UNCHANGED request
    BY <1>6, <2>1 DEF Requests, ReadsNew
  <2>2. CASE request'.kind = "accept" => \A i \in DOMAIN request'.read : image[i].product = None /\ request'.read[i] = image[i].status
    BY <1>6, <2>2 DEF Requests, ReadsNew
  <2> QED
    BY <1>6, <2>1, <2>2 DEF Requests
<1>7. CASE request' = NoRequest
  BY <1>7 DEF NoRequest, ReadsNew
<1>8. ASSUME NEW s, NEW l, Merged(s, l) PROVE ReadsNew'
  <2>1. ASSUME NEW i \in Photos, image[i].product = None PROVE image'[i].product = None
    BY <1>8, <2>1, NoneAssumption DEF Merged
  <2> QED
    BY <1>0, <1>8, <2>1 DEF Merged, ReadsNew
<1> QED
  BY <1>1, <1>2, <1>3, <1>4, <1>5, <1>6, <1>7, <1>8 DEF BySender, ByPeople, Chose, Accepted

LEMMA PeopleKeep ==
  ASSUME Typed, ReadsNew, ByPeople
  PROVE  ProductsStay \/ \E s, l : Merged(s, l)
<1>1. CASE Requests
  BY <1>1 DEF Requests, ProductsStay, Photos
<1>2. CASE Chose(request.image, request.product)
  BY <1>2 DEF Chose, ProductsStay, Rewritten, SameBut
<1>3. ASSUME NEW hides, Accepted(request.product, hides) PROVE ProductsStay
  <2>1. Photos' = Photos /\ \A k \in Photos \ DOMAIN request.read : image'[k].product = image[k].product
    BY <1>3 DEF Accepted, Rewritten, SameBut
  <2>2. \A k \in DOMAIN request.read : image[k].product = None
    BY <1>3 DEF Accepted, ReadsNew
  <2> QED
    BY <2>1, <2>2 DEF ProductsStay
<1> QED
  BY <1>1, <1>2, <1>3 DEF ByPeople

-----------------------------------------------------------------------------
(* The main photo.                                                         *)

\* While its photo is prepared, a product a worker read stays its photo's.
ReadRight(w) ==
  At(w) \in {"files", "write"} /\ worker[w].product # None => image[Its(w)].product = worker[w].product

ChoiceRight == request.kind \in Choices => image[request.image].product = request.product

LEMMA ReadRightKept ==
  ASSUME Typed, NEW w \in Workers, ReadRight(w), JobsStay, ProductsStay,
         worker'[w] = worker[w] \/ worker'[w].at \in {"idle", "unlink"}
           \/ (At(w) = "files" /\ worker'[w].job = worker[w].job /\ worker'[w].product = worker[w].product)
  PROVE  ReadRight(w)'
<1>1. CASE worker'[w].at \in {"idle", "unlink"}
  BY <1>1 DEF ReadRight, At
<1>2. ASSUME At(w) \in {"files", "write"}, worker'[w].job = worker[w].job, worker'[w].product = worker[w].product
      PROVE  ReadRight(w)'
  <2>1. Its(w)' = Its(w) /\ Its(w) \in Photos
    BY <1>2, ItsStays, ItsPhoto
  <2> QED
    BY <1>2, <2>1 DEF ReadRight, ProductsStay
<1>3. CASE worker'[w] = worker[w] /\ At(w) \notin {"files", "write"}
  BY <1>3 DEF ReadRight, At
<1> QED
  BY <1>1, <1>2, <1>3

LEMMA ReadRightStep ==
  ASSUME Typed, ReadsNew, "merge" \notin mix.overlap, \A w \in Workers : ReadRight(w), ChoiceRight,
         UNCHANGED vars \/ BySender \/ ByPeople \/ \E w \in Workers : ByWorker(w)
  PROVE  (\A w \in Workers : ReadRight(w)') /\ ChoiceRight'
<1>0. JobsStay
  BY JobsKept
<1>00. ASSUME ProductsStay, UNCHANGED request PROVE ChoiceRight'
  BY <1>00, NoneAssumption DEF ProductsStay, ChoiceRight, Typed, RequestRight, Choices
<1>1. CASE UNCHANGED vars
  <2>1. ProductsStay /\ UNCHANGED worker /\ UNCHANGED request
    BY <1>1 DEF vars, ProductsStay, Photos
  <2> QED
    BY <1>0, <1>00, <2>1, ReadRightKept
<1>2. CASE BySender
  <2>1. ProductsStay /\ UNCHANGED worker /\ UNCHANGED request
    BY <1>2, SenderKeeps
  <2> QED
    BY <1>0, <1>00, <2>1, ReadRightKept
<1>3. ASSUME NEW s, NEW l, Merged(s, l) PROVE (\A w \in Workers : ReadRight(w)') /\ ChoiceRight'
  <2>1. /\ Photos' = Photos /\ UNCHANGED worker /\ UNCHANGED request /\ UNCHANGED jobs
        /\ \A k \in Photos : image[k].product # l => image'[k].product = image[k].product
        /\ \A w \in Workers : worker[w].at \in {"files", "write"} => worker[w].product # l
        /\ request.kind \in Choices => request.product # l
    BY <1>3 DEF Merged, Rewritten, MayMerge
  <2>2. ASSUME NEW w \in Workers PROVE ReadRight(w)'
    BY <2>1, ItsPhoto DEF ReadRight, At, Its
  <2>3. ChoiceRight'
    BY <2>1 DEF ChoiceRight, Typed, RequestRight
  <2> QED
    BY <2>2, <2>3
<1>4. CASE ByPeople /\ ProductsStay
  <2>1. UNCHANGED worker
    BY <1>4 DEF ByPeople, Requests, Chose, Accepted, Merged
  <2>2. \A w \in Workers : ReadRight(w)'
    BY <1>0, <1>4, <2>1, ReadRightKept
  <2>3. UNCHANGED request \/ request' = NoRequest \/ Requests
    BY <1>4 DEF ByPeople, Chose, Accepted, Merged
  <2>4. ASSUME Requests PROVE ChoiceRight'
    <3>1. CASE UNCHANGED request
      BY <1>00, <1>4, <3>1
    <3>2. CASE request'.kind \in Choices => image[request'.image].product = request'.product
      BY <2>4, <3>2 DEF Requests, ChoiceRight
    <3> QED
      BY <2>4, <3>1, <3>2 DEF Requests
  <2>5. ASSUME request' = NoRequest PROVE ChoiceRight'
    BY <2>5 DEF NoRequest, ChoiceRight, Choices
  <2> QED
    BY <1>00, <1>4, <2>2, <2>3, <2>4, <2>5
<1>5. ASSUME NEW w \in Workers, ByWorker(w) PROVE (\A u \in Workers : ReadRight(u)') /\ ChoiceRight'
  <2>1. /\ ProductsStay /\ UNCHANGED request /\ \A u \in Workers : u # w => worker'[u] = worker[u]
        /\ Photos' = Photos /\ \A k \in Photos : image'[k].product = image[k].product
    BY <1>5, WorkerKeeps DEF ProductsStay
  <2>2. ASSUME NEW j, NEW p, Claimed(w, j, p) PROVE ReadRight(w)'
    <3>1. j \in Jobs /\ jobs'[j].image = jobs[j].image /\ UNCHANGED image /\ worker'[w] = Reading(j, p)
      BY <2>2 DEF Claimed, JobEnds, WorkerBecomes
    <3>2. worker'[w].product = image[jobs[j].image].product /\ worker'[w].job = j
      BY <3>1 DEF Reading
    <3> QED
      BY <3>1, <3>2 DEF ReadRight, Its
  <2>3. ASSUME HasRead(w) PROVE ReadRight(w)'
    <3>1. /\ At(w) = "files" /\ worker'[w].job = worker[w].job /\ worker'[w].product = worker[w].product
      BY <2>3 DEF HasRead, WorkerBecomes, Working
    <3> QED
      BY <1>0, <2>1, <3>1, ReadRightKept
  <2>4. ASSUME NEW row, Writes(w, row) PROVE ReadRight(w)'
    <3>1. worker'[w].at = "unlink"
      BY <2>4 DEF Writes, WorkerBecomes, Unlinking
    <3> QED
      BY <1>0, <2>1, <3>1, ReadRightKept
  <2>5. ASSUME worker'[w] = Idle PROVE ReadRight(w)'
    BY <1>0, <2>1, <2>5, ReadRightKept DEF Idle
  <2>6. ReadRight(w)'
    BY <1>5, <2>2, <2>3, <2>4, <2>5 DEF ByWorker, Failed, PutBack, Unlinks, Dies, WorkerBecomes
  <2>7. \A u \in Workers : u # w => ReadRight(u)'
    BY <1>0, <2>1, ReadRightKept
  <2> QED
    BY <1>00, <2>1, <2>6, <2>7
<1>6. CASE ByPeople
  BY <1>3, <1>4, <1>6, PeopleKeep
<1> QED
  BY <1>1, <1>2, <1>5, <1>6

Shown(rows, x) == {i \in ImagesOf(rows, x) : Eligible(rows[i])}

Shows(rows, m, x) == IF Shown(rows, x) = {} THEN m = 0 ELSE m \in Shown(rows, x)

MainRight == \A x \in Products : Shows(image, main[x], x)

LEMMA PrimaryShows ==
  ASSUME NEW rows \in Seq(Rows), NEW x
  PROVE  Shows(rows, Primary(rows, x), x)
BY PrimaryIs DEF Shows, Shown

\* Whether photo k is shown for product x stays.
ShownStays(k, x) ==
  image'[k].product = x /\ Eligible(image'[k]) <=> k \in Photos /\ image[k].product = x /\ Eligible(image[k])

LEMMA StillShows ==
  ASSUME NEW x \in Products, Photos \subseteq Photos', \A k \in Photos' : ShownStays(k, x),
         main'[x] = main[x], Shows(image, main[x], x)
  PROVE  Shows(image', main'[x], x)
<1>1. Shown(image', x) = Shown(image, x)
  BY DEF Shown, ImagesOf, ShownStays, Photos
<1> QED
  BY <1>1 DEF Shows

LEMMA AllStillShow ==
  ASSUME MainRight, Photos \subseteq Photos', UNCHANGED main,
         \A k \in Photos' : \A x \in Products : ShownStays(k, x)
  PROVE  MainRight'
BY StillShows DEF MainRight

\* One product's main photo is selected again, and the others show what they did.
LEMMA SelectedAgain ==
  ASSUME Typed, MainRight, Photos' = Photos, image' \in Seq(Rows), NEW x, main' = Reselected(image', x),
         \A y \in Products \ {x} : \A k \in Photos : ShownStays(k, y)
  PROVE  MainRight'
<1>1. ASSUME NEW y \in Products PROVE Shows(image', main'[y], y)
  <2>1. main \in [Products -> Photos \cup {0}]
    BY DEF Typed, TypeOK
  <2>2. CASE y = x
    <3>1. main'[y] = Primary(image', y)
      BY <2>1, <2>2 DEF Reselected
    <3> QED
      BY <3>1, PrimaryShows
  <2>3. CASE y # x
    <3>1. main'[y] = main[y]
      BY <2>1, <2>3 DEF Reselected
    <3> QED
      BY <2>3, <3>1, StillShows DEF MainRight
  <2> QED
    BY <2>2, <2>3
<1> QED
  BY <1>1 DEF MainRight

LEMMA SameShown ==
  ASSUME NEW row, NEW new, NEW fields, SameBut(row, new, fields),
         fields \cap {"role", "status", "product"} = {}
  PROVE  new.product = row.product /\ (Eligible(new) <=> Eligible(row))
BY DEF SameBut, Eligible

\* Photo i changes, and not whether it is shown.
LEMMA OneStillShown ==
  ASSUME NEW i, NEW row, Becomes(i, row), row.product = image[i].product, Eligible(row) <=> Eligible(image[i])
  PROVE  Photos' = Photos /\ \A k \in Photos' : \A x \in Products : ShownStays(k, x)
BY DEF Becomes, ShownStays

LEMMA MainByWorker ==
  ASSUME Typed, MainRight, mix.overlap \cap {"merge", "fails", "retry"} = {}, NEW w \in Workers, ReadRight(w), ByWorker(w)
  PROVE  MainRight'
<1>1. ASSUME UNCHANGED <<image, main>> PROVE MainRight'
  BY <1>1 DEF MainRight
<1>2. ASSUME NEW row, NEW error, Failed(w, row, error) PROVE MainRight'
  <2>1. /\ Becomes(Its(w), row) /\ SameBut(image[Its(w)], row, {"status", "prepared"}) /\ MayFail(worker[w])
        /\ row.status = IF worker[w].was = "processing" THEN "failed" ELSE image[Its(w)].status
        /\ UNCHANGED main
    BY <1>2 DEF Failed
  <2>2. row.product = image[Its(w)].product /\ row.role = image[Its(w)].role
    BY <2>1 DEF SameBut
  <2>3. Eligible(row) <=> Eligible(image[Its(w)])
    BY <2>1, <2>2 DEF MayFail, Eligible, Its
  <2> QED
    BY <2>1, <2>2, <2>3, OneStillShown, AllStillShow
<1>3. ASSUME NEW row, PutBack(w, row) PROVE MainRight'
  <2>1. Becomes(Its(w), row) /\ SameBut(image[Its(w)], row, {"prepared"}) /\ UNCHANGED main
    BY <1>3 DEF PutBack
  <2>2. {"prepared"} \cap {"role", "status", "product"} = {}
    OBVIOUS
  <2>3. row.product = image[Its(w)].product /\ (Eligible(row) <=> Eligible(image[Its(w)]))
    BY <2>1, <2>2, SameShown
  <2> QED
    BY <2>1, <2>3, OneStillShown, AllStillShow
<1>4. ASSUME NEW row, Writes(w, row) PROVE MainRight'
  <2> DEFINE v == worker[w]
             i == Its(w)
             x == LockedFor(v, image[i])
  <2>1. /\ At(w) = "write" /\ Becomes(i, row) /\ SameBut(image[i], row, {"status", "prepared", "mask"})
        /\ main' = IF x = None THEN main ELSE Reselected(image', x)
    BY <1>4 DEF Writes
  <2>2. row.product = image[i].product
    BY <2>1 DEF SameBut
  <2>3. x = image[i].product
    BY <2>1 DEF ReadRight, LockedFor
  <2>4. image' \in Seq(Rows) /\ Photos' = Photos
    BY <2>1 DEF Becomes
  <2> HIDE DEF v, i, x
  <2>5. \A y \in Products \ {x} : \A k \in Photos : ShownStays(k, y)
    BY <2>1, <2>2, <2>3 DEF Becomes, ShownStays
  <2>6. CASE x = None
    BY <2>1, <2>4, <2>5, <2>6, NoneAssumption, AllStillShow
  <2>7. CASE x # None
    BY <2>1, <2>4, <2>5, <2>7, SelectedAgain
  <2> QED
    BY <2>6, <2>7
<1> QED
  BY <1>1, <1>2, <1>3, <1>4 DEF ByWorker, Claimed, HasRead, Unlinks, Dies

LEMMA MainBySender ==
  ASSUME Typed, MainRight, BySender, "retry" \notin mix.overlap
  PROVE  MainRight'
<1>1. ASSUME NEW row, NEW n, PhotoSent(row, n) PROVE MainRight'
  <2> DEFINE new == Len(image) + 1
  <2>1. /\ row.status = "processing" /\ new \notin Photos /\ Photos' = Photos \cup {new}
        /\ image'[new] = row /\ (\A i \in Photos : image'[i] = image[i]) /\ UNCHANGED main
    BY <1>1 DEF PhotoSent
  <2> HIDE DEF new
  <2>2. \A k \in Photos' : \A x \in Products : ShownStays(k, x)
    BY <2>1 DEF ShownStays, Eligible
  <2> QED
    BY <2>1, <2>2, AllStillShow
<1>2. ASSUME NEW i, NEW source, NEW row, MaskFor(i, source, row) PROVE MainRight'
  <2>1. Becomes(i, row) /\ SameBut(image[i], row, {"given"}) /\ UNCHANGED main
    BY <1>2 DEF MaskFor
  <2>2. {"given"} \cap {"role", "status", "product"} = {}
    OBVIOUS
  <2>3. row.product = image[i].product /\ (Eligible(row) <=> Eligible(image[i]))
    BY <2>1, <2>2, SameShown
  <2> QED
    BY <2>1, <2>3, OneStillShown, AllStillShow
<1>3. ASSUME NEW i, NEW row, Retried(i, row) PROVE MainRight'
  <2>1. /\ Becomes(i, row) /\ SameBut(image[i], row, {"status"}) /\ UNCHANGED main
        /\ image[i].status = "failed" /\ row.status = "processing"
    BY <1>3 DEF Retried
  <2>2. row.product = image[i].product /\ (Eligible(row) <=> Eligible(image[i]))
    BY <2>1 DEF SameBut, Eligible
  <2> QED
    BY <2>1, <2>2, OneStillShown, AllStillShow
<1> QED
  BY <1>1, <1>2, <1>3 DEF BySender

LEMMA MainByPeople ==
  ASSUME Typed, MainRight, ReadsNew, ChoiceRight, ByPeople
  PROVE  MainRight'
<1>1. CASE Requests
  <2>1. UNCHANGED <<image, main>>
    BY <1>1 DEF Requests
  <2> QED
    BY <2>1 DEF MainRight
<1>2. CASE Chose(request.image, request.product)
  <2> DEFINE i == request.image
             x == request.product
  <2>1. /\ request.kind \in Choices /\ Rewritten({"status", "hid"}) /\ main' = Reselected(image', x)
        /\ \A k \in Photos : k # i => SameBut(image[k], image'[k], {})
    BY <1>2 DEF Chose
  <2>2. image[i].product = x
    BY <2>1 DEF ChoiceRight
  <2>3. \A k \in Photos : image'[k].product = image[k].product
    BY <2>1 DEF Rewritten, SameBut
  <2>4. \A k \in Photos : k # i => (Eligible(image'[k]) <=> Eligible(image[k]))
    BY <2>1 DEF SameBut, Eligible
  <2> HIDE DEF i, x
  <2>5. \A y \in Products \ {x} : \A k \in Photos : ShownStays(k, y)
    BY <2>2, <2>3, <2>4 DEF ShownStays
  <2> QED
    BY <2>1, <2>5, SelectedAgain DEF Rewritten
<1>3. ASSUME NEW hides, Accepted(request.product, hides) PROVE MainRight'
  <2> DEFINE x == request.product
  <2>1. /\ request.kind = "accept" /\ Rewritten({"product", "role", "status", "hid"})
        /\ \A k \in Photos \ DOMAIN request.read : SameBut(image[k], image'[k], {})
        /\ \A k \in DOMAIN request.read : image'[k].product = x
        /\ main' = Reselected(image', x)
    BY <1>3 DEF Accepted
  <2>2. \A k \in DOMAIN request.read : image[k].product = None
    BY <2>1 DEF ReadsNew
  <2>3. \A k \in Photos \ DOMAIN request.read :
          image'[k].product = image[k].product /\ (Eligible(image'[k]) <=> Eligible(image[k]))
    BY <2>1 DEF SameBut, Eligible
  <2> HIDE DEF x
  <2>4. \A y \in Products \ {x} : \A k \in Photos : ShownStays(k, y)
    BY <2>1, <2>2, <2>3, NoneAssumption DEF ShownStays
  <2> QED
    BY <2>1, <2>4, SelectedAgain DEF Rewritten
<1>4. ASSUME NEW s, NEW l, Merged(s, l) PROVE MainRight'
  <2>1. /\ s \in Products /\ l \in Products /\ s # l /\ image' \in Seq(Rows) /\ Photos' = Photos
        /\ \A k \in Photos : SameBut(image[k], image'[k], {"product"})
        /\ \A k \in Photos : image'[k].product \in {image[k].product, s} /\ (image[k].product # l => image'[k].product = image[k].product)
        /\ main' = [main EXCEPT ![s] = IF main[s] = 0 THEN Primary(image', s) ELSE main[s], ![l] = Primary(image', l)]
    BY <1>4 DEF Merged, Rewritten
  <2>2. \A k \in Photos : Eligible(image'[k]) <=> Eligible(image[k])
    BY <2>1 DEF SameBut, Eligible
  <2>3. main \in [Products -> Photos \cup {0}]
    BY DEF Typed, TypeOK
  <2>4. /\ main'[l] = Primary(image', l) /\ main'[s] = IF main[s] = 0 THEN Primary(image', s) ELSE main[s]
        /\ \A y \in Products \ {s, l} : main'[y] = main[y]
    BY <2>1, <2>3
  <2>5. Shows(image', main'[l], l)
    BY <2>1, <2>4, PrimaryShows
  <2>6. Shows(image', main'[s], s)
    <3>1. CASE main[s] = 0
      BY <2>1, <2>4, <3>1, PrimaryShows
    <3>2. CASE main[s] # 0
      <4>1. main[s] \in Shown(image, s)
        BY <2>1, <3>2 DEF MainRight, Shows
      <4>2. Shown(image, s) \subseteq Shown(image', s)
        BY <2>1, <2>2 DEF Shown, ImagesOf, Photos
      <4> QED
        BY <2>4, <3>2, <4>1, <4>2 DEF Shows
    <3> QED
      BY <3>1, <3>2
  <2>7. ASSUME NEW y \in Products \ {s, l} PROVE Shows(image', main'[y], y)
    <3>1. \A k \in Photos : ShownStays(k, y)
      BY <2>1, <2>2 DEF ShownStays
    <3> QED
      BY <2>1, <2>4, <3>1, StillShows DEF MainRight
  <2> QED
    BY <2>5, <2>6, <2>7 DEF MainRight
<1> QED
  BY <1>1, <1>2, <1>3, <1>4 DEF ByPeople

\* What is kept while no merge meets a photo being prepared or chosen, no job fails
\* late and no retry is overtaken by another: every product shows a photo if it can, and the product a worker or a choice
\* has read is still its photo's, so it is that product's main photo that is renewed.
MainKept ==
  /\ Typed /\ ReadsNew
  /\ "merge" \notin mix.overlap => (\A w \in Workers : ReadRight(w)) /\ ChoiceRight
  /\ mix.overlap \cap {"merge", "fails", "retry"} = {} => MainRight

LEMMA MixStays == UNCHANGED vars \/ BySender \/ ByPeople \/ (\E w \in Workers : ByWorker(w)) => UNCHANGED mix
BY DEF vars, BySender, PhotoSent, MaskFor, Retried, ByPeople, Requests, Chose, Accepted, Merged,
       ByWorker, Claimed, HasRead, Failed, PutBack, Writes, Unlinks, Dies

LEMMA MainKeptStep ==
  ASSUME MainKept, [Next]_vars
  PROVE  MainKept'
<1>1. UNCHANGED vars \/ BySender \/ ByPeople \/ \E w \in Workers : ByWorker(w)
  BY Steps DEF MainKept
<1>2. Typed /\ Typed' /\ ReadsNew /\ ReadsNew' /\ mix' = mix
  BY <1>1, TypedStep, ReadsNewStep, MixStays DEF MainKept
<1>3. ASSUME "merge" \notin mix.overlap PROVE (\A w \in Workers : ReadRight(w)') /\ ChoiceRight'
  BY <1>1, <1>2, <1>3, ReadRightStep DEF MainKept
<1>4. ASSUME mix.overlap \cap {"merge", "fails", "retry"} = {} PROVE MainRight'
  <2>1. MainRight /\ (\A w \in Workers : ReadRight(w)) /\ ChoiceRight
    BY <1>4 DEF MainKept
  <2>2. CASE UNCHANGED vars
    BY <2>1, <2>2 DEF vars, MainRight
  <2> QED
    BY <1>1, <1>2, <1>4, <2>1, <2>2, MainByWorker, MainBySender, MainByPeople
<1> QED
  BY <1>2, <1>3, <1>4 DEF MainKept

\* A product shows a photo if it has one to show, and only one of its own that is
\* shown: select_primary is run after whatever workers, choices, acceptances and merges
\* do to its photos, and for the product that they really are of.  In the mixes where no
\* merge, failing job or retry meets what MainIsShown names.
THEOREM MainShown == Spec => []MainIsShown
<1>1. Init => MainKept
  <2> SUFFICES ASSUME Init PROVE MainKept
    OBVIOUS
  <2>1. Typed
    BY TypedInit
  <2>2. ReadsNew /\ ChoiceRight /\ \A w \in Workers : ReadRight(w)
    BY DEF Init, ReadsNew, ChoiceRight, ReadRight, NoRequest, Choices, At, Idle
  <2>3. MainRight
    BY DEF Init, MainRight, Shows, Shown, ImagesOf
  <2> QED
    BY <2>1, <2>2, <2>3 DEF MainKept
<1>2. MainKept /\ [Next]_vars => MainKept'
  BY MainKeptStep
<1>3. MainKept => MainIsShown
  BY DEF MainKept, MainRight, MainIsShown, Shows, Shown
<1> QED
  BY <1>1, <1>2, <1>3, PTL DEF Spec

-----------------------------------------------------------------------------
(* Hidden photos.                                                          *)

\* Stronger than not active: neither being prepared nor failed, so that no job and no
\* retry makes it active.
Hidden(row) == row.hid => row.status = "hidden"

HiddenRight == \A i \in Photos : Hidden(image[i])

LEMMA OneHidden ==
  ASSUME HiddenRight, NEW i, NEW row, Becomes(i, row), Hidden(row)
  PROVE  HiddenRight'
BY DEF HiddenRight, Becomes

LEMMA HiddenStep ==
  ASSUME Typed, HiddenRight, mix.overlap \cap {"hide", "fails", "retry"} = {},
         UNCHANGED vars \/ BySender \/ ByPeople \/ \E w \in Workers : ByWorker(w)
  PROVE  HiddenRight'
<1>1. ASSUME UNCHANGED image PROVE HiddenRight'
  BY <1>1 DEF HiddenRight, Photos
<1>2. ASSUME NEW row, NEW n, PhotoSent(row, n) PROVE HiddenRight'
  BY <1>2 DEF PhotoSent, HiddenRight, Hidden
<1>3. ASSUME NEW i, NEW source, NEW row, MaskFor(i, source, row) PROVE HiddenRight'
  <2>1. Becomes(i, row) /\ SameBut(image[i], row, {"given"}) /\ Hidden(image[i])
    BY <1>3 DEF MaskFor, Becomes, HiddenRight
  <2>2. Hidden(row)
    BY <2>1 DEF SameBut, Hidden
  <2> QED
    BY <2>1, <2>2, OneHidden
<1>4. ASSUME NEW i, NEW row, Retried(i, row) PROVE HiddenRight'
  <2>1. Becomes(i, row) /\ SameBut(image[i], row, {"status"}) /\ Hidden(image[i]) /\ image[i].status = "failed"
    BY <1>4 DEF Retried, Becomes, HiddenRight
  <2>2. Hidden(row)
    BY <2>1 DEF SameBut, Hidden
  <2> QED
    BY <2>1, <2>2, OneHidden
<1>5. ASSUME NEW w \in Workers, NEW row, NEW error, Failed(w, row, error) PROVE HiddenRight'
  <2>1. /\ Becomes(Its(w), row) /\ SameBut(image[Its(w)], row, {"status", "prepared"}) /\ MayFail(worker[w])
        /\ row.status = IF worker[w].was = "processing" THEN "failed" ELSE image[Its(w)].status
        /\ Hidden(image[Its(w)])
    BY <1>5 DEF Failed, Becomes, HiddenRight
  <2>2. Hidden(row)
    BY <2>1 DEF SameBut, Hidden, MayFail, Its
  <2> QED
    BY <2>1, <2>2, OneHidden
<1>6. ASSUME NEW w \in Workers, NEW row, PutBack(w, row) PROVE HiddenRight'
  <2>1. Becomes(Its(w), row) /\ SameBut(image[Its(w)], row, {"prepared"}) /\ Hidden(image[Its(w)])
    BY <1>6 DEF PutBack, Becomes, HiddenRight
  <2>2. Hidden(row)
    BY <2>1 DEF SameBut, Hidden
  <2> QED
    BY <2>1, <2>2, OneHidden
<1>7. ASSUME NEW w \in Workers, NEW row, Writes(w, row) PROVE HiddenRight'
  <2>1. /\ Becomes(Its(w), row) /\ SameBut(image[Its(w)], row, {"status", "prepared", "mask"})
        /\ row.status = Ready(image[Its(w)]) /\ Hidden(image[Its(w)])
    BY <1>7 DEF Writes, Becomes, HiddenRight
  <2>2. Hidden(row)
    BY <2>1 DEF SameBut, Hidden, Ready
  <2> QED
    BY <2>1, <2>2, OneHidden
<1>8. ASSUME NEW w \in Workers, ByWorker(w) PROVE HiddenRight'
  BY <1>1, <1>5, <1>6, <1>7, <1>8 DEF ByWorker, Claimed, HasRead, Unlinks, Dies
<1>9. ASSUME Chose(request.image, request.product) PROVE HiddenRight'
  BY <1>9 DEF Chose, Rewritten, SameBut, HiddenRight, Hidden
<1>10. ASSUME NEW hides, Accepted(request.product, hides) PROVE HiddenRight'
  <2>1. /\ Photos' = Photos /\ MayHide(hides)
        /\ \A k \in Photos \ DOMAIN request.read : SameBut(image[k], image'[k], {})
        /\ \A k \in DOMAIN request.read :
             /\ image'[k].hid <=> k \in hides
             /\ image'[k].status = AcceptedAs(request.read[k], image[k].status, k \in hides)
    BY <1>10 DEF Accepted, Rewritten
  <2>2. \A k \in hides : request.read[k] \in {"candidate", "active"}
    BY <2>1 DEF MayHide
  <2>3. ASSUME NEW k \in DOMAIN request.read PROVE Hidden(image'[k])
    BY <2>1, <2>2 DEF Hidden, AcceptedAs
  <2>4. ASSUME NEW k \in Photos \ DOMAIN request.read PROVE Hidden(image'[k])
    BY <2>1 DEF Hidden, SameBut, HiddenRight
  <2> QED
    BY <2>1, <2>3, <2>4 DEF HiddenRight
<1>11. ASSUME NEW s, NEW l, Merged(s, l) PROVE HiddenRight'
  BY <1>11 DEF Merged, Rewritten, SameBut, HiddenRight, Hidden
<1> QED
  BY <1>1, <1>2, <1>3, <1>4, <1>8, <1>9, <1>10, <1>11 DEF vars, BySender, ByPeople, Requests

\* A photo a person hid is not shown until a person shows it again: no job, retry,
\* mask, acceptance or merge that follows makes it active, in the mixes where nobody hides
\* while accepting, and no job fails late and no retry is overtaken.
THEOREM HiddenStays == Spec => []HiddenIsNotShown
<1> DEFINE Kept == mix.overlap \cap {"hide", "fails", "retry"} = {} => HiddenRight
<1>1. Init => Kept
  BY DEF Init, HiddenRight, Photos
<1>2. Typed /\ Kept /\ [Next]_vars => Kept'
  BY Steps, HiddenStep, MixStays
<1>3. Kept => HiddenIsNotShown
  BY DEF HiddenRight, Hidden, HiddenIsNotShown
<1> QED
  BY <1>1, <1>2, <1>3, AlwaysTyped, PTL DEF Spec

-----------------------------------------------------------------------------
(* Photos left behind.  First, a photo being prepared has a job to come.   *)

\* Job m will make photo i something else than being prepared: it waits or runs, and
\* a worker at it has seen that.
Serves(m, i) ==
  /\ jobs[m].image = i /\ jobs[m].status \in {"pending", "running"}
  /\ \A w \in Workers : At(w) = "files" /\ worker[w].job = m => worker[w].was = "processing"

JobToCome == \A i \in Photos : image[i].status = "processing" => \E m \in Jobs : Serves(m, i)

LEMMA StillServes ==
  ASSUME JobToCome, Photos' = Photos, Jobs \subseteq Jobs',
         \A i \in Photos : image'[i].status = "processing" => image[i].status = "processing",
         \A i \in Photos : \A m \in Jobs : image'[i].status = "processing" /\ Serves(m, i) => Serves(m, i)'
  PROVE  JobToCome'
BY DEF JobToCome

LEMMA SameJobs ==
  ASSUME JobToCome, Photos' = Photos, UNCHANGED <<jobs, worker>>,
         \A i \in Photos : image'[i].status = "processing" => image[i].status = "processing"
  PROVE  JobToCome'
<1>1. \A i : \A m \in Jobs : Serves(m, i) => Serves(m, i)'
  BY DEF Serves, At
<1>2. Jobs' = Jobs
  BY DEF Jobs
<1> QED
  BY <1>1, <1>2, StillServes

\* A job is queued, and no worker is at it yet.
LEMMA NewServes ==
  ASSUME Typed, NEW i, Queued(i), UNCHANGED worker
  PROVE  /\ Jobs \subseteq Jobs' /\ \E m \in Jobs' : Serves(m, i)'
         /\ \A k : \A m \in Jobs : Serves(m, k) => Serves(m, k)'
<1>1. PICK new : /\ new \notin Jobs /\ Jobs' = Jobs \cup {new} /\ jobs'[new] = NewJob(i)
                 /\ \A j \in Jobs : jobs'[j] = jobs[j]
  BY DEF Queued
<1>2. \A w \in Workers : At(w) = "files" => worker[w].job # new
  BY <1>1, ItsPhoto DEF At
<1>3. Serves(new, i)'
  BY <1>1, <1>2 DEF Serves, NewJob, At
<1>4. \A k : \A m \in Jobs : Serves(m, k) => Serves(m, k)'
  BY <1>1 DEF Serves, At
<1> QED
  BY <1>1, <1>3, <1>4

LEMMA JobToComeBySender ==
  ASSUME Typed, JobToCome, BySender
  PROVE  JobToCome'
<1>1. ASSUME NEW row, NEW n, PhotoSent(row, n) PROVE JobToCome'
  <2> DEFINE new == Len(image) + 1
  <2>1. /\ Photos' = Photos \cup {new} /\ (\A i \in Photos : image'[i] = image[i])
        /\ Queued(new) /\ UNCHANGED worker
    BY <1>1 DEF PhotoSent
  <2> HIDE DEF new
  <2> QED
    BY <2>1, NewServes DEF JobToCome
<1>2. ASSUME NEW i, NEW source, NEW row, MaskFor(i, source, row) PROVE JobToCome'
  <2>1. Photos' = Photos /\ (\A k \in Photos : image'[k].status = image[k].status) /\ UNCHANGED worker
    BY <1>2 DEF MaskFor, Becomes, SameBut
  <2>2. CASE UNCHANGED jobs
    BY <2>1, <2>2, SameJobs
  <2>3. CASE Queued(i)
    BY <2>1, <2>3, NewServes DEF JobToCome
  <2> QED
    BY <1>2, <2>2, <2>3 DEF MaskFor
<1>3. ASSUME NEW i, NEW row, Retried(i, row) PROVE JobToCome'
  <2>1. Photos' = Photos /\ (\A k \in Photos : k # i => image'[k] = image[k]) /\ Queued(i) /\ UNCHANGED worker
    BY <1>3 DEF Retried, Becomes
  <2> QED
    BY <2>1, NewServes DEF JobToCome
<1> QED
  BY <1>1, <1>2, <1>3 DEF BySender

LEMMA JobToComeByPeople ==
  ASSUME Typed, JobToCome, ByPeople
  PROVE  JobToCome'
<1>1. CASE Requests
  <2>1. Photos' = Photos /\ UNCHANGED <<image, jobs, worker>>
    BY <1>1 DEF Requests, Photos
  <2> QED
    BY <2>1, SameJobs
<1>2. CASE Chose(request.image, request.product)
  <2>1. Photos' = Photos /\ UNCHANGED <<jobs, worker>>
    BY <1>2 DEF Chose, Rewritten
  <2>2. \A i \in Photos : image'[i].status = "processing" => image[i].status = "processing"
    BY <1>2 DEF Chose, SameBut
  <2> QED
    BY <2>1, <2>2, SameJobs
<1>3. ASSUME NEW hides, Accepted(request.product, hides) PROVE JobToCome'
  <2>1. Photos' = Photos /\ UNCHANGED <<jobs, worker>>
    BY <1>3 DEF Accepted, Rewritten
  <2>2. \A i \in Photos \ DOMAIN request.read : image'[i].status = image[i].status
    BY <1>3 DEF Accepted, SameBut
  <2>3. \A i \in DOMAIN request.read : image'[i].status \in {"hidden", "active", image[i].status}
    BY <1>3 DEF Accepted, AcceptedAs
  <2> QED
    BY <2>1, <2>2, <2>3, SameJobs
<1>4. ASSUME NEW s, NEW l, Merged(s, l) PROVE JobToCome'
  <2>1. Photos' = Photos /\ UNCHANGED <<jobs, worker>>
    BY <1>4 DEF Merged, Rewritten
  <2>2. \A i \in Photos : image'[i].status = image[i].status
    BY <1>4 DEF Merged, Rewritten, SameBut
  <2> QED
    BY <2>1, <2>2, SameJobs
<1> QED
  BY <1>1, <1>2, <1>3, <1>4 DEF ByPeople

\* Workers other than w, and jobs other than its own.
LEMMA OtherServes ==
  ASSUME NEW w \in Workers, NEW v, WorkerBecomes(w, v), NEW j, NEW s, NEW e, JobEnds(j, s, e),
         NEW i, NEW m \in Jobs, m # j, Serves(m, i), v.at = "files" => v.job = j
  PROVE  Serves(m, i)'
BY DEF WorkerBecomes, JobEnds, Serves, At

LEMMA JobToComeByWorker ==
  ASSUME Typed, JobToCome, NEW w \in Workers, ByWorker(w)
  PROVE  JobToCome'
<1>1. ASSUME NEW j, NEW p, Claimed(w, j, p) PROVE JobToCome'
  <2>1. /\ At(w) = "idle" /\ j \in Jobs /\ JobEnds(j, "running", jobs[j].error) /\ WorkerBecomes(w, Reading(j, p))
        /\ UNCHANGED image
    BY <1>1 DEF Claimed
  <2>2. Photos' = Photos /\ Jobs' = Jobs
    BY <2>1 DEF Photos, JobEnds
  <2>3. Reading(j, p).job = j /\ Reading(j, p).at = "files" /\ Reading(j, p).was = image[jobs[j].image].status
    BY DEF Reading
  <2>4. ASSUME NEW i \in Photos, image[i].status = "processing", Serves(j, i) PROVE Serves(j, i)'
    BY <2>1, <2>3, <2>4 DEF Serves, JobEnds, WorkerBecomes, At
  <2>5. ASSUME NEW i \in Photos, NEW m \in Jobs, m # j, Serves(m, i) PROVE Serves(m, i)'
    BY <2>1, <2>3, <2>5, OtherServes
  <2> QED
    BY <2>1, <2>2, <2>4, <2>5, StillServes
<1>2. ASSUME NEW v, WorkerBecomes(w, v), v.at # "files", UNCHANGED <<image, jobs>> PROVE JobToCome'
  <2>1. Photos' = Photos /\ Jobs' = Jobs
    BY <1>2 DEF Photos, Jobs
  <2>2. \A i : \A m \in Jobs : Serves(m, i) => Serves(m, i)'
    BY <1>2 DEF Serves, At, WorkerBecomes
  <2> QED
    BY <1>2, <2>1, <2>2, StillServes
<1>3. ASSUME NEW row, NEW s, NEW e, NEW v,
             Becomes(Its(w), row), JobEnds(worker[w].job, s, e), WorkerBecomes(w, v), v.at # "files",
             row.status = "processing" =>
               /\ image[Its(w)].status = "processing"
               /\ s = "pending" \/ (At(w) = "files" /\ worker[w].was # "processing")
      PROVE  JobToCome'
  <2> DEFINE j == worker[w].job
             i == Its(w)
  <2>1. /\ Photos' = Photos /\ Jobs' = Jobs /\ jobs[j].image = i
        /\ image'[i] = row /\ \A k \in Photos : k # i => image'[k] = image[k]
    BY <1>3 DEF Becomes, JobEnds, Its
  <2>2. ASSUME NEW k \in Photos, NEW m \in Jobs, image'[k].status = "processing", Serves(m, k) PROVE Serves(m, k)'
    <3>1. CASE m # j
      BY <1>3, <2>2, <3>1, OtherServes
    <3>2. CASE m = j
      <4>1. k = i /\ row.status = "processing"
        BY <2>1, <2>2, <3>2 DEF Serves
      <4>2. s = "pending"
        BY <1>3, <2>2, <3>2, <4>1 DEF Serves
      <4> QED
        BY <1>3, <2>2, <3>2, <4>2 DEF Serves, JobEnds, WorkerBecomes, At
    <3> QED
      BY <3>1, <3>2
  <2>3. \A k \in Photos : image'[k].status = "processing" => image[k].status = "processing"
    BY <1>3, <2>1
  <2> QED
    BY <2>1, <2>2, <2>3, StillServes
<1>4. CASE HasRead(w)
  <2>1. \E n, used : WorkerBecomes(w, Working(worker[w], n, used)) /\ UNCHANGED <<image, jobs>>
    BY <1>4 DEF HasRead
  <2> QED
    BY <1>2, <2>1 DEF Working
<1>5. CASE Unlinks(w) \/ Dies(w)
  BY <1>2, <1>5 DEF Unlinks, Dies, Idle
<1>6. ASSUME NEW row, NEW error, Failed(w, row, error) PROVE JobToCome'
  <2>1. /\ At(w) = "files" /\ Becomes(Its(w), row) /\ JobEnds(worker[w].job, "failed", error) /\ WorkerBecomes(w, Idle)
        /\ row.status = IF worker[w].was = "processing" THEN "failed" ELSE image[Its(w)].status
    BY <1>6 DEF Failed
  <2> QED
    BY <1>3, <2>1 DEF Idle
<1>7. ASSUME NEW row, PutBack(w, row) PROVE JobToCome'
  <2>1. /\ Becomes(Its(w), row) /\ JobEnds(worker[w].job, "pending", "io_error") /\ WorkerBecomes(w, Idle)
        /\ row.status = image[Its(w)].status
    BY <1>7 DEF PutBack, SameBut
  <2> QED
    BY <1>3, <2>1 DEF Idle
<1>8. ASSUME NEW row, Writes(w, row) PROVE JobToCome'
  <2>1. /\ Becomes(Its(w), row) /\ JobEnds(worker[w].job, "done", "none") /\ WorkerBecomes(w, Unlinking(worker[w]))
        /\ row.status = Ready(image[Its(w)])
    BY <1>8 DEF Writes
  <2>2. row.status # "processing" /\ Unlinking(worker[w]).at # "files"
    BY <2>1 DEF Ready, Unlinking
  <2> QED
    BY <1>3, <2>1, <2>2
<1> QED
  BY <1>1, <1>4, <1>5, <1>6, <1>7, <1>8 DEF ByWorker

\* Then, no photo of a product is a candidate: an acceptance has read as a candidate
\* every photo it attaches that is one.
Candidates ==
  /\ \A i \in Photos : image[i].status = "candidate" => image[i].product = None
  /\ request.kind = "accept" => \A i \in DOMAIN request.read : image[i].status = "candidate" => request.read[i] = "candidate"

LEMMA SameCandidates ==
  ASSUME Typed, Candidates, Photos' = Photos, UNCHANGED request,
         \A i \in Photos : image'[i].product = image[i].product,
         \A i \in Photos : image'[i].status = "candidate" => image[i].status = "candidate"
  PROVE  Candidates'
BY DEF Candidates, Typed, RequestRight

LEMMA OneCandidate ==
  ASSUME Typed, Candidates, NEW i, NEW row, Becomes(i, row), row.product = image[i].product, UNCHANGED request,
         row.status = "candidate" => image[i].status = "candidate"
  PROVE  Candidates'
<1>1. /\ Photos' = Photos /\ \A k \in Photos : image'[k].product = image[k].product
      /\ \A k \in Photos : image'[k].status = "candidate" => image[k].status = "candidate"
  BY DEF Becomes
<1> QED
  BY <1>1, SameCandidates

LEMMA CandidatesStep ==
  ASSUME Typed, ReadsNew, Candidates, "accept" \notin mix.overlap,
         UNCHANGED vars \/ BySender \/ ByPeople \/ \E w \in Workers : ByWorker(w)
  PROVE  Candidates'
<1>1. ASSUME UNCHANGED <<image, request>> PROVE Candidates'
  BY <1>1 DEF Candidates, Photos
<1>2. ASSUME NEW row, NEW n, PhotoSent(row, n) PROVE Candidates'
  <2>1. PICK new : /\ Photos' = Photos \cup {new} /\ new \notin Photos
                   /\ (\A i \in Photos : image'[i] = image[i]) /\ image'[new].status = "processing"
                   /\ UNCHANGED request
    BY <1>2 DEF PhotoSent
  <2> QED
    BY <2>1 DEF Candidates, Typed, RequestRight
<1>3. ASSUME NEW i, NEW source, NEW row, MaskFor(i, source, row) PROVE Candidates'
  <2>1. Becomes(i, row) /\ row.product = image[i].product /\ row.status = image[i].status /\ UNCHANGED request
    BY <1>3 DEF MaskFor, SameBut
  <2> QED
    BY <2>1, OneCandidate
<1>4. ASSUME NEW i, NEW row, Retried(i, row) PROVE Candidates'
  <2>1. Becomes(i, row) /\ row.product = image[i].product /\ row.status = "processing" /\ UNCHANGED request
    BY <1>4 DEF Retried, SameBut
  <2> QED
    BY <2>1, OneCandidate
<1>5. ASSUME NEW w \in Workers, NEW row, NEW error, Failed(w, row, error) PROVE Candidates'
  <2>1. /\ Becomes(Its(w), row) /\ row.product = image[Its(w)].product
        /\ row.status \in {"failed", image[Its(w)].status} /\ UNCHANGED request
    BY <1>5 DEF Failed, SameBut
  <2> QED
    BY <2>1, OneCandidate
<1>6. ASSUME NEW w \in Workers, NEW row, PutBack(w, row) PROVE Candidates'
  <2>1. /\ Becomes(Its(w), row) /\ row.product = image[Its(w)].product
        /\ row.status = image[Its(w)].status /\ UNCHANGED request
    BY <1>6 DEF PutBack, SameBut
  <2> QED
    BY <2>1, OneCandidate
<1>7. ASSUME NEW w \in Workers, NEW row, Writes(w, row) PROVE Candidates'
  <2> DEFINE i == Its(w)
  <2>1. /\ Becomes(i, row) /\ row.product = image[i].product
        /\ row.status = Ready(image[i]) /\ UNCHANGED request
        /\ ~(request.kind = "accept" /\ image[i].product = None)
    BY <1>7 DEF Writes, SameBut, MayWrite
  <2> HIDE DEF i
  <2>2. CASE row.status = "candidate" => image[i].status = "candidate"
    BY <2>1, <2>2, OneCandidate
  <2>3. CASE row.status = "candidate" /\ image[i].status # "candidate"
    <3>1. row.product = None /\ request.kind # "accept"
      BY <2>1, <2>3 DEF Ready
    <3> QED
      BY <2>1, <3>1 DEF Candidates, Becomes
  <2> QED
    BY <2>2, <2>3
<1>8. ASSUME Requests PROVE Candidates'
  <2>1. UNCHANGED image /\ Photos' = Photos
    BY <1>8 DEF Requests, Photos
  <2>2. CASE UNCHANGED request
    BY <1>1, <2>1, <2>2
  <2>3. CASE request'.kind = "accept" => \A i \in DOMAIN request'.read : image[i].product = None /\ request'.read[i] = image[i].status
    BY <2>1, <2>3 DEF Candidates
  <2> QED
    BY <1>8, <2>2, <2>3 DEF Requests
<1>9. ASSUME Chose(request.image, request.product) PROVE Candidates'
  <2>1. /\ Photos' = Photos /\ request'.kind # "accept"
        /\ \A k \in Photos : image'[k].product = image[k].product
    BY <1>9 DEF Chose, Rewritten, SameBut, NoRequest
  <2>2. \A k \in Photos : image'[k].status = "candidate" => image[k].status = "candidate"
    BY <1>9 DEF Chose, SameBut
  <2> QED
    BY <2>1, <2>2 DEF Candidates
<1>10. ASSUME NEW hides, Accepted(request.product, hides) PROVE Candidates'
  <2>1. /\ Photos' = Photos /\ request'.kind # "accept" /\ request.kind = "accept"
        /\ \A k \in Photos \ DOMAIN request.read : image'[k].product = image[k].product /\ image'[k].status = image[k].status
        /\ \A k \in DOMAIN request.read : image'[k].status = AcceptedAs(request.read[k], image[k].status, k \in hides)
    BY <1>10 DEF Accepted, Rewritten, SameBut, NoRequest
  <2>2. \A k \in DOMAIN request.read : image'[k].status # "candidate"
    BY <2>1 DEF Candidates, AcceptedAs
  <2> QED
    BY <2>1, <2>2 DEF Candidates
<1>11. ASSUME NEW s, NEW l, Merged(s, l) PROVE Candidates'
  <2>1. /\ Photos' = Photos /\ UNCHANGED request /\ l \in Products
        /\ \A k \in Photos : image'[k].status = image[k].status
        /\ \A k \in Photos : image[k].product # l => image'[k].product = image[k].product
    BY <1>11 DEF Merged, Rewritten, SameBut
  <2>2. \A k \in Photos : image[k].product = None => image'[k].product = None
    BY <2>1, NoneAssumption
  <2>3. \A k \in Photos : image'[k].status = "candidate" => image'[k].product = None
    BY <2>1, <2>2 DEF Candidates
  <2>4. request.kind = "accept" => DOMAIN request.read \subseteq Photos
    BY DEF Typed, RequestRight
  <2>5. request'.kind = "accept" =>
          \A i \in DOMAIN request'.read : image'[i].status = "candidate" => request'.read[i] = "candidate"
    BY <2>1, <2>4 DEF Candidates
  <2> QED
    BY <2>1, <2>3, <2>5 DEF Candidates
<1>12. ASSUME NEW w \in Workers, ByWorker(w) PROVE Candidates'
  BY <1>1, <1>5, <1>6, <1>7, <1>12 DEF ByWorker, Claimed, HasRead, Unlinks, Dies
<1>13. CASE UNCHANGED vars
  BY <1>1, <1>13 DEF vars
<1> QED
  BY <1>2, <1>3, <1>4, <1>8, <1>9, <1>10, <1>11, <1>12, <1>13 DEF BySender, ByPeople

\* Then, the file of a photo not prepared yet is there, or that of a twin was.

\* A photo keeps its file, and stays prepared.
RowsKeep ==
  /\ Photos \subseteq Photos'
  /\ \A k \in Photos : image'[k].upload = image[k].upload /\ (image[k].prepared => image'[k].prepared)

LEMMA RowsKept ==
  ASSUME Typed, UNCHANGED vars \/ BySender \/ ByPeople \/ \E w \in Workers : ByWorker(w)
  PROVE  RowsKeep
<1>1. ASSUME UNCHANGED image PROVE RowsKeep
  BY <1>1 DEF RowsKeep, Photos
<1>2. ASSUME NEW i, NEW row, Becomes(i, row), row.upload = image[i].upload, image[i].prepared => row.prepared
      PROVE  RowsKeep
  BY <1>2 DEF RowsKeep, Becomes
<1>3. ASSUME NEW fields, Rewritten(fields), "prepared" \notin fields PROVE RowsKeep
  BY <1>3 DEF RowsKeep, Rewritten, SameBut
<1>4. ASSUME BySender PROVE RowsKeep
  <2>1. ASSUME NEW row, NEW n, PhotoSent(row, n) PROVE RowsKeep
    BY <2>1 DEF PhotoSent, RowsKeep
  <2>2. ASSUME NEW i, NEW source, NEW row, MaskFor(i, source, row) PROVE RowsKeep
    BY <1>2, <2>2 DEF MaskFor, SameBut
  <2>3. ASSUME NEW i, NEW row, Retried(i, row) PROVE RowsKeep
    BY <1>2, <2>3 DEF Retried, SameBut
  <2> QED
    BY <1>4, <2>1, <2>2, <2>3 DEF BySender
<1>5. ASSUME ByPeople PROVE RowsKeep
  BY <1>1, <1>3, <1>5 DEF ByPeople, Requests, Chose, Accepted, Merged
<1>6. ASSUME NEW w \in Workers, ByWorker(w) PROVE RowsKeep
  <2>1. ASSUME NEW row, NEW error, Failed(w, row, error) PROVE RowsKeep
    BY <1>2, <2>1 DEF Failed, SameBut
  <2>2. ASSUME NEW row, PutBack(w, row) PROVE RowsKeep
    BY <1>2, <2>2 DEF PutBack, SameBut
  <2>3. ASSUME NEW row, Writes(w, row) PROVE RowsKeep
    BY <1>2, <2>3 DEF Writes, SameBut
  <2> QED
    BY <1>1, <1>6, <2>1, <2>2, <2>3 DEF ByWorker, Claimed, HasRead, Unlinks, Dies
<1> QED
  BY <1>1, <1>4, <1>5, <1>6 DEF vars

LEMMA OthersLeaveFiles ==
  ASSUME UNCHANGED vars \/ BySender \/ ByPeople
  PROVE  UNCHANGED worker /\ incoming \subseteq incoming'
BY DEF vars, BySender, PhotoSent, MaskFor, Retried, ByPeople, Requests, Chose, Accepted, Merged

HasFile(i) ==
  \/ image[i].prepared \/ image[i].upload \in incoming
  \/ \E k \in Photos : image[k].upload = image[i].upload /\ image[k].prepared

\* Whoever deletes a photo's file has prepared the photo.
FilesKept ==
  /\ \A i \in Photos : HasFile(i)
  /\ \A w \in Workers : At(w) = "unlink" => image[Its(w)].prepared

LEMMA FileStays ==
  ASSUME RowsKeep, NEW i \in Photos, HasFile(i),
         \/ image[i].upload \in incoming => image[i].upload \in incoming'
         \/ \E k \in Photos : image[k].upload = image[i].upload /\ image[k].prepared
  PROVE  HasFile(i)'
BY DEF RowsKeep, HasFile

LEMMA UnlinkStays ==
  ASSUME Typed, RowsKeep, JobsStay, NEW w \in Workers, At(w) = "unlink" => image[Its(w)].prepared, worker'[w] = worker[w]
  PROVE  (At(w) = "unlink" => image[Its(w)].prepared)'
<1>1. CASE At(w) = "unlink"
  <2>1. Its(w)' = Its(w) /\ Its(w) \in Photos
    BY <1>1, ItsStays, ItsPhoto
  <2> QED
    BY <1>1, <2>1 DEF RowsKeep
<1>2. CASE At(w) # "unlink"
  BY <1>2 DEF At
<1> QED
  BY <1>1, <1>2

\* Where its step takes a worker.
LEMMA AfterWork ==
  ASSUME NEW w \in Workers, ByWorker(w)
  PROVE  \/ worker'[w].at = "files" /\ \E j, p : Claimed(w, j, p)
         \/ worker'[w].at = "write" /\ HasRead(w)
         \/ worker'[w].at = "unlink" /\ \E row : Writes(w, row)
         \/ worker'[w] = Idle /\ worker'[w].at = "idle"
<1>1. ASSUME NEW j, NEW p, Claimed(w, j, p) PROVE worker'[w].at = "files"
  <2>1. worker'[w] = Reading(j, p)
    BY <1>1 DEF Claimed, WorkerBecomes
  <2> QED
    BY <2>1 DEF Reading
<1>2. ASSUME HasRead(w) PROVE worker'[w].at = "write"
  <2>1. \E n, used : worker'[w] = Working(worker[w], n, used)
    BY <1>2 DEF HasRead, WorkerBecomes
  <2> QED
    BY <2>1 DEF Working
<1>3. ASSUME NEW row, Writes(w, row) PROVE worker'[w].at = "unlink"
  <2>1. worker'[w] = Unlinking(worker[w])
    BY <1>3 DEF Writes, WorkerBecomes
  <2> QED
    BY <2>1 DEF Unlinking
<1>4. Idle.at = "idle"
  BY DEF Idle
<1> QED
  BY <1>1, <1>2, <1>3, <1>4 DEF ByWorker, Failed, PutBack, Unlinks, Dies, WorkerBecomes

LEMMA FilesKeptStep ==
  ASSUME Typed, FilesKept, UNCHANGED vars \/ BySender \/ ByPeople \/ \E w \in Workers : ByWorker(w)
  PROVE  FilesKept'
<1>0. RowsKeep /\ JobsStay
  BY RowsKept, JobsKept
<1>1. ASSUME NEW row, NEW n, PhotoSent(row, n) PROVE FilesKept'
  <2>1. PICK new : /\ Photos' = Photos \cup {new} /\ image'[new] = row
                   /\ incoming' = incoming \cup {row.upload} /\ UNCHANGED worker
    BY <1>1 DEF PhotoSent
  <2>2. HasFile(new)'
    BY <2>1 DEF HasFile
  <2>3. \A i \in Photos : HasFile(i)'
    BY <1>0, <2>1, FileStays DEF FilesKept
  <2>4. \A w \in Workers : (At(w) = "unlink" => image[Its(w)].prepared)'
    BY <1>0, <2>1, UnlinkStays DEF FilesKept
  <2> QED
    BY <2>1, <2>2, <2>3, <2>4 DEF FilesKept
<1>2. ASSUME Photos' = Photos, UNCHANGED worker, incoming \subseteq incoming' PROVE FilesKept'
  <2>1. \A i \in Photos : HasFile(i)'
    BY <1>0, <1>2, FileStays DEF FilesKept
  <2>2. \A w \in Workers : (At(w) = "unlink" => image[Its(w)].prepared)'
    BY <1>0, <1>2, UnlinkStays DEF FilesKept
  <2> QED
    BY <1>2, <2>1, <2>2 DEF FilesKept
<1>3. ASSUME NEW i, NEW source, NEW row, MaskFor(i, source, row) PROVE FilesKept'
  BY <1>2, <1>3 DEF MaskFor, Becomes
<1>4. ASSUME NEW i, NEW row, Retried(i, row) PROVE FilesKept'
  BY <1>2, <1>4 DEF Retried, Becomes
<1>5. ASSUME ByPeople PROVE FilesKept'
  <2>1. Photos' = Photos
    BY <1>5 DEF ByPeople, Requests, Chose, Accepted, Merged, Rewritten, Photos
  <2> QED
    BY <1>2, <1>5, <2>1, OthersLeaveFiles
<1>6. ASSUME NEW w \in Workers, ByWorker(w) PROVE FilesKept'
  <2>1. Photos' = Photos /\ \A u \in Workers : u # w => worker'[u] = worker[u]
    BY <1>6, WorkerKeeps
  <2>2. \A u \in Workers : u # w => (At(u) = "unlink" => image[Its(u)].prepared)'
    BY <1>0, <2>1, UnlinkStays DEF FilesKept
  <2>3. ASSUME NEW i \in Photos PROVE HasFile(i)'
    <3>1. CASE incoming' = incoming
      BY <1>0, <3>1, FileStays DEF FilesKept
    <3>2. CASE Unlinks(w)
      <4>1. /\ At(w) = "unlink" /\ Its(w) \in Photos /\ image[Its(w)].prepared
            /\ incoming' \in {incoming, incoming \ {image[Its(w)].upload}}
        BY <3>2, ItsPhoto DEF Unlinks, FilesKept
      <4> QED
        BY <1>0, <4>1, FileStays DEF FilesKept
    <3> QED
      BY <1>6, <3>1, <3>2 DEF ByWorker, Claimed, HasRead, Failed, PutBack, Writes, Dies
  <2>4. (At(w) = "unlink" => image[Its(w)].prepared)'
    <3>1. ASSUME NEW row, Writes(w, row) PROVE (image[Its(w)].prepared)'
      <4>1. /\ Becomes(Its(w), row) /\ row.prepared /\ WorkerBecomes(w, Unlinking(worker[w]))
            /\ JobEnds(worker[w].job, "done", "none")
        BY <3>1 DEF Writes
      <4>2. worker'[w].job = worker[w].job /\ At(w) # "idle"
        BY <3>1, <4>1 DEF WorkerBecomes, Unlinking, Writes
      <4>3. Its(w)' = Its(w)
        BY <1>0, <4>2, ItsStays
      <4> QED
        BY <4>1, <4>3 DEF Becomes
    <3>2. (\E row : Writes(w, row)) \/ worker'[w].at # "unlink"
      BY <1>6, AfterWork
    <3> QED
      BY <3>1, <3>2 DEF At
  <2> QED
    BY <2>1, <2>2, <2>3, <2>4 DEF FilesKept
<1>7. CASE UNCHANGED vars
  <2>1. Photos' = Photos
    BY <1>7 DEF vars, Photos
  <2> QED
    BY <1>2, <1>7, <2>1 DEF vars
<1> QED
  BY <1>1, <1>3, <1>4, <1>5, <1>6, <1>7 DEF BySender

\* Worker w is to read the file of its photo, has read it, or is to delete it.
First(w) ==
  \/ At(w) \in {"files", "write"} /\ ~worker[w].prepared
  \/ At(w) = "unlink" /\ worker[w].upload

\* One worker at a time has to do with a file, so that it is there until that one
\* deletes it.
OneReader ==
  /\ \A w, u \in Workers : First(w) /\ First(u) /\ image[Its(w)].upload = image[Its(u)].upload => w = u
  /\ \A w \in Workers : At(w) = "files" /\ ~worker[w].prepared => image[Its(w)].upload \in incoming
  /\ \A j \in Jobs : jobs[j].error # "upload_missing"

\* Worker u is at the same photo as before, with a file it had to do with.
LEMMA FirstStays ==
  ASSUME Typed, RowsKeep, JobsStay, NEW u \in Workers, worker'[u] = worker[u], First(u)'
  PROVE  First(u) /\ image'[Its(u)'].upload = image[Its(u)].upload
<1>1. First(u) /\ At(u) # "idle"
  BY DEF First, At
<1>2. Its(u)' = Its(u) /\ Its(u) \in Photos
  BY <1>1, ItsStays, ItsPhoto
<1> QED
  BY <1>1, <1>2 DEF RowsKeep

\* A step of w after which it has to do with no other file than before.
LEMMA OneReaderStays ==
  ASSUME Typed, OneReader, RowsKeep, JobsStay, NEW w \in Workers,
         \A u \in Workers : u # w => worker'[u] = worker[u],
         First(w)' => First(w) /\ image'[Its(w)'].upload = image[Its(w)].upload,
         worker'[w] = worker[w] \/ worker'[w].at # "files",
         incoming \subseteq incoming' \/ (First(w) /\ incoming' = incoming \ {image[Its(w)].upload} /\ worker'[w].at # "files"),
         \A j \in Jobs' : jobs'[j].error # "upload_missing"
  PROVE  OneReader'
<1>1. \A u \in Workers : First(u)' => First(u) /\ image'[Its(u)'].upload = image[Its(u)].upload
  BY FirstStays
<1>2. \A u, v \in Workers : First(u)' /\ First(v)' /\ image'[Its(u)'].upload = image'[Its(v)'].upload => u = v
  BY <1>1 DEF OneReader
<1>3. ASSUME NEW u \in Workers, worker'[u].at = "files", ~worker'[u].prepared PROVE image'[Its(u)'].upload \in incoming'
  <2>1. worker'[u] = worker[u]
    BY <1>3
  <2>2. First(u)' /\ At(u) = "files" /\ ~worker[u].prepared
    BY <1>3, <2>1 DEF First, At
  <2>3. image'[Its(u)'].upload = image[Its(u)].upload /\ First(u)
    BY <1>1, <2>2
  <2>4. image[Its(u)].upload \in incoming
    BY <2>2 DEF OneReader
  <2>5. u = w \/ ~First(w) \/ image[Its(u)].upload # image[Its(w)].upload
    BY <2>3 DEF OneReader
  <2> QED
    BY <1>3, <2>3, <2>4, <2>5
<1> QED
  BY <1>2, <1>3 DEF OneReader, At

LEMMA OneReaderByOthers ==
  ASSUME Typed, OneReader, UNCHANGED vars \/ BySender \/ ByPeople
  PROVE  OneReader'
<1>1. /\ RowsKeep /\ JobsStay /\ incoming \subseteq incoming' /\ UNCHANGED worker
  BY RowsKept, JobsKept, OthersLeaveFiles
<1>2. \A j \in Jobs' : jobs'[j].error # "upload_missing"
  <2>1. ASSUME NEW i, Queued(i) PROVE \A j \in Jobs' : jobs'[j].error # "upload_missing"
    <3>1. PICK new : /\ Jobs' = Jobs \cup {new} /\ jobs'[new] = NewJob(i) /\ \A j \in Jobs : jobs'[j] = jobs[j]
      BY <2>1 DEF Queued
    <3> QED
      BY <3>1 DEF NewJob, OneReader
  <2>2. ASSUME UNCHANGED jobs PROVE \A j \in Jobs' : jobs'[j].error # "upload_missing"
    BY <2>2 DEF OneReader, Jobs
  <2> QED
    BY <2>1, <2>2 DEF vars, BySender, PhotoSent, MaskFor, Retried, ByPeople, Requests, Chose, Accepted, Merged
<1>3. CASE Workers = {}
  BY <1>2, <1>3 DEF OneReader
<1>4. CASE Workers # {}
  <2>1. PICK w \in Workers : TRUE
    BY <1>4
  <2>2. First(w)' => First(w) /\ image'[Its(w)'].upload = image[Its(w)].upload
    BY <1>1, FirstStays
  <2> QED
    BY <1>1, <1>2, <2>2, OneReaderStays
<1> QED
  BY <1>3, <1>4

\* A worker that claims a job has to do with the file of its photo if the photo is not
\* prepared; then the file is there, and no other worker has to do with it.
LEMMA OneReaderByClaim ==
  ASSUME Typed, FilesKept, OneReader, "twin" \notin mix.overlap, NEW w \in Workers, NEW j, NEW p, Claimed(w, j, p)
  PROVE  OneReader'
<1> DEFINE i == jobs[j].image
<1>1. /\ At(w) = "idle" /\ j \in Jobs /\ MayClaim(i) /\ p \in BOOLEAN /\ (image[i].prepared => p)
      /\ ~p => i \in Photos /\ (image[i].upload \in incoming \/ ~TwinPrepared(i))
      /\ JobEnds(j, "running", jobs[j].error)
      /\ worker'[w] = Reading(j, p) /\ \A u \in Workers : u # w => worker'[u] = worker[u]
      /\ UNCHANGED <<image, incoming>>
  BY DEF Claimed, WorkerBecomes
<1>2. /\ worker'[w].at = "files" /\ worker'[w].job = j /\ worker'[w].prepared = p
      /\ jobs'[j].image = i
  BY <1>1 DEF Reading, JobEnds
<1>3. RowsKeep /\ JobsStay
  BY RowsKept, JobsKept DEF ByWorker
<1>4. (First(w)' => ~p) /\ Its(w)' = i
  BY <1>2 DEF First, At, Its
<1>5. ~p => image[i].upload \in incoming
  <2>1. ~p => i \in Photos /\ ~image[i].prepared
    BY <1>1
  <2>2. ~p => image[i].upload \in incoming \/ \E k \in Photos \ {i} : image[k].upload = image[i].upload /\ image[k].prepared
    BY <2>1 DEF FilesKept, HasFile
  <2> QED
    BY <1>1, <2>2 DEF TwinPrepared
<1>6. ~p => \A k \in Photos : image[k].upload = image[i].upload => Works(k) = {}
  BY <1>1 DEF MayClaim
<1> HIDE DEF i
<1>7. ASSUME NEW u \in Workers, u # w, First(u)', ~p PROVE image'[Its(u)'].upload # image[i].upload
  <2>1. First(u) /\ image'[Its(u)'].upload = image[Its(u)].upload
    BY <1>1, <1>3, <1>7, FirstStays
  <2>2. At(u) # "idle" /\ Its(u) \in Photos
    BY <2>1, ItsPhoto DEF First
  <2>3. u \in Works(Its(u))
    BY <2>2 DEF Works, Busy, At, Its
  <2> QED
    BY <1>6, <1>7, <2>1, <2>2, <2>3
<1>8. \A u, v \in Workers : First(u)' /\ First(v)' /\ image'[Its(u)'].upload = image'[Its(v)'].upload => u = v
  <2>1. ASSUME NEW u \in Workers, NEW v \in Workers, u # v, First(u)', First(v)',
               image'[Its(u)'].upload = image'[Its(v)'].upload
        PROVE  FALSE
    <3>1. CASE u = w
      BY <1>1, <1>4, <1>7, <2>1, <3>1
    <3>2. CASE v = w
      BY <1>1, <1>4, <1>7, <2>1, <3>2
    <3>3. CASE u # w /\ v # w
      BY <1>1, <1>3, <2>1, <3>3, FirstStays DEF OneReader
    <3> QED
      BY <3>1, <3>2, <3>3
  <2> QED
    BY <2>1
<1>9. ASSUME NEW u \in Workers, worker'[u].at = "files", ~worker'[u].prepared PROVE image'[Its(u)'].upload \in incoming'
  <2>1. CASE u = w
    BY <1>1, <1>2, <1>4, <1>5, <1>9, <2>1
  <2>2. CASE u # w
    <3>1. worker'[u] = worker[u]
      BY <1>1, <2>2
    <3>2. At(u) = "files" /\ ~worker[u].prepared /\ First(u)'
      BY <1>9, <3>1 DEF First, At
    <3> QED
      BY <1>1, <1>3, <3>1, <3>2, FirstStays DEF OneReader
  <2> QED
    BY <2>1, <2>2
<1>10. \A k \in Jobs' : jobs'[k].error # "upload_missing"
  BY <1>1 DEF JobEnds, OneReader
<1> QED
  BY <1>8, <1>9, <1>10 DEF OneReader, At

LEMMA OneReaderByWorker ==
  ASSUME Typed, FilesKept, OneReader, "twin" \notin mix.overlap, NEW w \in Workers, ByWorker(w)
  PROVE  OneReader'
<1>0. RowsKeep /\ JobsStay /\ \A u \in Workers : u # w => worker'[u] = worker[u]
  BY RowsKept, JobsKept, WorkerKeeps
<1>1. ASSUME NEW j, NEW s, NEW e, JobEnds(j, s, e), e # "upload_missing"
      PROVE  Jobs' = Jobs /\ \A k \in Jobs' : jobs'[k].error # "upload_missing"
  BY <1>1 DEF JobEnds, OneReader
<1>2. ASSUME UNCHANGED jobs PROVE Jobs' = Jobs /\ \A k \in Jobs' : jobs'[k].error # "upload_missing"
  BY <1>2 DEF OneReader, Jobs
<1>3. ASSUME At(w) # "idle", worker'[w].job = worker[w].job
      PROVE  Its(w)' = Its(w) /\ image'[Its(w)'].upload = image[Its(w)].upload
  BY <1>0, <1>3, ItsStays, ItsPhoto DEF RowsKeep
<1>4. ASSUME worker'[w] = Idle PROVE ~First(w)' /\ worker'[w].at # "files"
  BY <1>4 DEF First, At, Idle
<1>5. ASSUME NEW j, NEW p, Claimed(w, j, p) PROVE OneReader'
  BY <1>5, OneReaderByClaim
<1>6. CASE HasRead(w)
  <2>1. /\ At(w) = "files" /\ UNCHANGED jobs /\ incoming \subseteq incoming'
        /\ worker'[w].at = "write" /\ worker'[w].job = worker[w].job /\ worker'[w].prepared = worker[w].prepared
    BY <1>6 DEF HasRead, WorkerBecomes, Working
  <2>2. First(w)' => First(w)
    BY <2>1 DEF First, At
  <2>3. image'[Its(w)'].upload = image[Its(w)].upload
    BY <1>3, <2>1
  <2>4. Jobs' = Jobs /\ \A k \in Jobs' : jobs'[k].error # "upload_missing"
    BY <1>2, <2>1
  <2> QED
    BY <1>0, <2>1, <2>2, <2>3, <2>4, OneReaderStays
<1>7. ASSUME NEW row, NEW error, Failed(w, row, error) PROVE OneReader'
  <2>1. /\ At(w) = "files" /\ JobEnds(worker[w].job, "failed", error) /\ worker'[w] = Idle
        /\ error = "upload_missing" => ~worker[w].prepared /\ image[Its(w)].upload \notin incoming
        /\ incoming \subseteq incoming'
    BY <1>7 DEF Failed, WorkerBecomes
  <2>2. error # "upload_missing"
    BY <2>1 DEF OneReader
  <2>3. Jobs' = Jobs /\ \A k \in Jobs' : jobs'[k].error # "upload_missing"
    BY <1>1, <2>1, <2>2
  <2> QED
    BY <1>0, <1>4, <2>1, <2>3, OneReaderStays
<1>8. ASSUME NEW row, PutBack(w, row) PROVE OneReader'
  <2>1. JobEnds(worker[w].job, "pending", "io_error") /\ worker'[w] = Idle /\ incoming \subseteq incoming'
    BY <1>8 DEF PutBack, WorkerBecomes
  <2>2. Jobs' = Jobs /\ \A k \in Jobs' : jobs'[k].error # "upload_missing"
    BY <1>1, <2>1
  <2> QED
    BY <1>0, <1>4, <2>1, <2>2, OneReaderStays
<1>9. ASSUME NEW row, Writes(w, row) PROVE OneReader'
  <2>1. /\ At(w) = "write" /\ JobEnds(worker[w].job, "done", "none") /\ worker'[w] = Unlinking(worker[w])
        /\ incoming \subseteq incoming'
    BY <1>9 DEF Writes, WorkerBecomes
  <2>2. worker'[w].at = "unlink" /\ worker'[w].job = worker[w].job /\ worker'[w].upload = ~worker[w].prepared
    BY <2>1 DEF Unlinking
  <2>3. First(w)' => First(w)
    BY <2>1, <2>2 DEF First, At
  <2>4. image'[Its(w)'].upload = image[Its(w)].upload
    BY <1>3, <2>1, <2>2
  <2>5. Jobs' = Jobs /\ \A k \in Jobs' : jobs'[k].error # "upload_missing"
    BY <1>1, <2>1
  <2>6. worker'[w].at # "files"
    BY <2>2
  <2> QED
    BY <1>0, <2>1, <2>3, <2>4, <2>5, <2>6, OneReaderStays
<1>10. CASE Unlinks(w)
  <2>1. /\ At(w) = "unlink" /\ UNCHANGED jobs /\ worker'[w] = Idle
        /\ incoming' = IF worker[w].upload THEN incoming \ {image[Its(w)].upload} ELSE incoming
    BY <1>10 DEF Unlinks, WorkerBecomes
  <2>2. incoming \subseteq incoming' \/ (First(w) /\ incoming' = incoming \ {image[Its(w)].upload} /\ worker'[w].at # "files")
    BY <1>4, <2>1 DEF First
  <2>3. Jobs' = Jobs /\ \A k \in Jobs' : jobs'[k].error # "upload_missing"
    BY <1>2, <2>1
  <2> QED
    BY <1>0, <1>4, <2>1, <2>2, <2>3, OneReaderStays
<1>11. CASE Dies(w)
  <2>1. UNCHANGED jobs /\ worker'[w] = Idle /\ incoming \subseteq incoming'
    BY <1>11 DEF Dies, WorkerBecomes
  <2>2. Jobs' = Jobs /\ \A k \in Jobs' : jobs'[k].error # "upload_missing"
    BY <1>2, <2>1
  <2> QED
    BY <1>0, <1>4, <2>1, <2>2, OneReaderStays
<1> QED
  BY <1>5, <1>6, <1>7, <1>8, <1>9, <1>10, <1>11 DEF ByWorker

\* What is kept whatever may overlap, and what is kept but for two workers at a file
\* at once, and but for an acceptance of a photo being written.
NoneLeftKept ==
  /\ Typed /\ ReadsNew /\ JobToCome /\ FilesKept
  /\ "accept" \notin mix.overlap => Candidates
  /\ "twin" \notin mix.overlap => OneReader

LEMMA NoneLeftStep ==
  ASSUME NoneLeftKept, [Next]_vars
  PROVE  NoneLeftKept'
<1>1. UNCHANGED vars \/ BySender \/ ByPeople \/ \E w \in Workers : ByWorker(w)
  BY Steps DEF NoneLeftKept
<1>2. Typed /\ Typed' /\ ReadsNew /\ ReadsNew' /\ FilesKept /\ FilesKept' /\ mix' = mix
  BY <1>1, TypedStep, ReadsNewStep, FilesKeptStep, MixStays DEF NoneLeftKept
<1>3. JobToCome'
  <2>1. JobToCome
    BY DEF NoneLeftKept
  <2>2. CASE UNCHANGED vars
    <3>1. UNCHANGED <<image, jobs, worker>> /\ Photos' = Photos
      BY <2>2 DEF vars, Photos
    <3> QED
      BY <2>1, <3>1, SameJobs
  <2> QED
    BY <1>1, <1>2, <2>1, <2>2, JobToComeBySender, JobToComeByPeople, JobToComeByWorker
<1>4. "accept" \notin mix.overlap => Candidates'
  BY <1>1, <1>2, CandidatesStep DEF NoneLeftKept
<1>5. "twin" \notin mix.overlap => OneReader'
  BY <1>1, <1>2, OneReaderByOthers, OneReaderByWorker DEF NoneLeftKept
<1> QED
  BY <1>2, <1>3, <1>4, <1>5 DEF NoneLeftKept

\* No photo is left behind: one being prepared has a job that will be run and will make
\* it something else, a photo of a product is not still a candidate, and no job finds
\* its file gone, through crashes, disk errors and jobs that outlast their lock.
THEOREM NoPhotoLeft == Spec => []NoneLeftBehind
<1>1. Init => NoneLeftKept
  <2> SUFFICES ASSUME Init PROVE NoneLeftKept
    OBVIOUS
  <2>1. Typed
    BY TypedInit
  <2>2. Photos = {} /\ Jobs = {} /\ request.kind = "none" /\ \A w \in Workers : At(w) = "idle"
    BY DEF Init, Photos, Jobs, NoRequest, At, Idle
  <2>3. ReadsNew /\ JobToCome /\ FilesKept /\ Candidates /\ OneReader
    BY <2>2 DEF ReadsNew, JobToCome, FilesKept, Candidates, OneReader, First
  <2> QED
    BY <2>1, <2>3 DEF NoneLeftKept
<1>2. NoneLeftKept /\ [Next]_vars => NoneLeftKept'
  BY NoneLeftStep
<1>3. NoneLeftKept => NoneLeftBehind
  <2> SUFFICES ASSUME NoneLeftKept, mix.overlap \cap {"twin", "accept"} = {}
               PROVE  /\ \A i \in Photos :
                           /\ image[i].status = "processing"
                                => \E j \in Jobs : jobs[j].image = i /\ jobs[j].status \in {"pending", "running"}
                           /\ image[i].status = "candidate" => image[i].product = None
                      /\ \A j \in Jobs : jobs[j].error # "upload_missing"
    BY DEF NoneLeftBehind
  <2>1. JobToCome /\ Candidates /\ OneReader
    BY DEF NoneLeftKept
  <2> QED
    BY <2>1 DEF JobToCome, Serves, Candidates, OneReader
<1> QED
  BY <1>1, <1>2, <1>3, PTL DEF Spec

-----------------------------------------------------------------------------
(* Masks.                                                                  *)

Open(j, i) == jobs[j].image = i /\ jobs[j].status # "done"

\* No mask is newer than the last one sent; while any waits, the last one sent does,
\* and once none waits it is applied; and until then a job is to come.
MaskRight(i) ==
  /\ image[i].given <= masks
  /\ \A s \in Sources : waiting[i][s] <= image[i].given
  /\ \/ image[i].mask = Due(image[i])
     \/ \E s \in Sources : waiting[i][s] # 0
  /\ (\E s \in Sources : waiting[i][s] # 0) => \E s \in Sources : waiting[i][s] = image[i].given
  /\ image[i].mask = Due(image[i]) \/ \E j \in Jobs : Open(j, i)

\* A worker about to write has read the last mask sent, or it is applied; and one that
\* has written has applied it, and has read every mask it is to delete.
WorkerMaskRight(w) ==
  /\ At(w) = "write" => IF worker[w].given = 0 THEN image[Its(w)].mask = Due(image[Its(w)])
                        ELSE worker[w].given = image[Its(w)].given
  /\ At(w) = "unlink" => image[Its(w)].mask = Due(image[Its(w)])
  /\ At(w) \in {"write", "unlink"} => \A s \in Sources : waiting[Its(w)][s] # 0 => s \in worker[w].usedMasks

MasksRight ==
  /\ \A i \in Photos : MaskRight(i)
  /\ \A w \in Workers : WorkerMaskRight(w)

KeepsMasks(k) ==
  image'[k].mask = image[k].mask /\ image'[k].given = image[k].given /\ waiting'[k] = waiting[k]

LEMMA DueIs ==
  ASSUME NEW row, NEW new, new.given = row.given
  PROVE  Due(new) = Due(row)
BY DEF Due

LEMMA MaskTypes ==
  ASSUME Typed, NEW i \in Photos
  PROVE  image[i].given \in Nat /\ masks \in Nat /\ \A s \in Sources : waiting[i][s] \in Nat
<1>1. image[i] \in Rows /\ i \in 1 .. MaxImages
  BY PhotosBound DEF Typed, TypeOK, Photos
<1>2. image[i].given \in 0 .. MaxMasks
  BY <1>1, RowIs
<1> QED
  BY <1>1, <1>2, BoundsAssumption DEF Typed, TypeOK

LEMMA MaskStays ==
  ASSUME Typed, NEW k \in Photos, MaskRight(k), KeepsMasks(k), masks' \in {masks, masks + 1},
         Jobs \subseteq Jobs', \A j \in Jobs : Open(j, k) => Open(j, k)'
  PROVE  MaskRight(k)'
<1>1. Due(image'[k]) = Due(image[k])
  BY DueIs DEF KeepsMasks
<1>2. image[k].given <= masks'
  BY MaskTypes DEF MaskRight
<1> QED
  BY <1>1, <1>2 DEF MaskRight, KeepsMasks

LEMMA WorkerMaskStays ==
  ASSUME Typed, JobsStay, NEW w \in Workers, WorkerMaskRight(w), worker'[w] = worker[w],
         At(w) # "idle" => KeepsMasks(Its(w))
  PROVE  WorkerMaskRight(w)'
<1>1. CASE At(w) = "idle"
  BY <1>1 DEF WorkerMaskRight, At
<1>2. CASE At(w) # "idle"
  <2>1. Its(w)' = Its(w)
    BY <1>2, ItsStays
  <2>2. Due(image'[Its(w)]) = Due(image[Its(w)])
    BY <1>2, DueIs DEF KeepsMasks
  <2> QED
    BY <1>2, <2>1, <2>2 DEF WorkerMaskRight, KeepsMasks, At
<1> QED
  BY <1>1, <1>2

\* Rows keep their masks, and at most one job is queued.
LEMMA MasksStay ==
  ASSUME Typed, MasksRight, Photos' = Photos, \A k \in Photos : KeepsMasks(k), UNCHANGED <<worker, masks>>,
         UNCHANGED jobs \/ \E i : Queued(i)
  PROVE  MasksRight'
<1>1. JobsStay /\ Jobs \subseteq Jobs' /\ \A j \in Jobs : jobs'[j] = jobs[j]
  BY DEF JobsStay, Queued, Jobs
<1>2. \A k \in Photos : MaskRight(k)'
  BY <1>1, MaskStays DEF MasksRight, Open
<1>3. \A w \in Workers : WorkerMaskRight(w)'
  BY <1>1, ItsPhoto, WorkerMaskStays DEF MasksRight
<1> QED
  BY <1>2, <1>3 DEF MasksRight

LEMMA MasksByPeople ==
  ASSUME Typed, MasksRight, ByPeople
  PROVE  MasksRight'
<1>1. UNCHANGED <<waiting, worker, masks, jobs>>
  BY DEF ByPeople, Requests, Chose, Accepted, Merged
<1>2. ASSUME NEW fields, Rewritten(fields), "mask" \notin fields, "given" \notin fields PROVE MasksRight'
  <2>1. Photos' = Photos /\ \A k \in Photos : KeepsMasks(k)
    BY <1>1, <1>2 DEF Rewritten, SameBut, KeepsMasks
  <2> QED
    BY <1>1, <2>1, MasksStay
<1>3. CASE Requests
  <2>1. Photos' = Photos /\ \A k \in Photos : KeepsMasks(k)
    BY <1>3 DEF Requests, KeepsMasks, Photos
  <2> QED
    BY <1>1, <2>1, MasksStay
<1>4. ASSUME Chose(request.image, request.product) PROVE MasksRight'
  BY <1>2, <1>4 DEF Chose
<1>5. ASSUME NEW hides, Accepted(request.product, hides) PROVE MasksRight'
  BY <1>2, <1>5 DEF Accepted
<1>6. ASSUME NEW s, NEW l, Merged(s, l) PROVE MasksRight'
  BY <1>2, <1>6 DEF Merged
<1> QED
  BY <1>3, <1>4, <1>5, <1>6 DEF ByPeople

LEMMA QueuedOpen ==
  ASSUME NEW i, Queued(i)
  PROVE  /\ JobsStay /\ Jobs \subseteq Jobs' /\ \A j \in Jobs : jobs'[j] = jobs[j]
         /\ \E j \in Jobs' : Open(j, i)'
<1>1. PICK new : /\ Jobs' = Jobs \cup {new} /\ jobs'[new] = NewJob(i) /\ \A j \in Jobs : jobs'[j] = jobs[j]
  BY DEF Queued
<1>2. Open(new, i)'
  BY <1>1 DEF Open, NewJob
<1> QED
  BY <1>1, <1>2 DEF JobsStay

\* Photo i has the mask just sent, waiting, and a job that will find it.
LEMMA MaskArrives ==
  ASSUME NEW i, image'[i].given = masks', NEW source \in Sources, waiting'[i][source] = masks',
         \A s \in Sources : waiting'[i][s] \in Nat, masks' \in Nat \ {0},
         \A s \in Sources : waiting'[i][s] <= masks', \E j \in Jobs' : Open(j, i)'
  PROVE  MaskRight(i)'
BY DEF MaskRight

LEMMA MasksBySender ==
  ASSUME Typed, MasksOfPhotos, MasksRight, BySender, mix.overlap \cap {"mask", "again"} = {}
  PROVE  MasksRight'
<1>1. ASSUME NEW row, NEW n, PhotoSent(row, n) PROVE MasksRight'
  <2>1. PICK new : /\ new = Len(image) + 1 /\ row.mask = 0 /\ row.given = n
                   /\ new \notin Photos /\ new \in 1 .. MaxImages /\ Photos' = Photos \cup {new}
                   /\ image'[new] = row /\ \A i \in Photos : image'[i] = image[i]
                   /\ Queued(new) /\ UNCHANGED worker
    BY <1>1 DEF PhotoSent
  <2>2. JobsStay /\ Jobs \subseteq Jobs' /\ (\A j \in Jobs : jobs'[j] = jobs[j]) /\ \E j \in Jobs' : Open(j, new)'
    BY <2>1, QueuedOpen
  <2>3. masks \in Nat /\ masks' \in {masks, masks + 1} /\ \A s \in Sources : waiting[new][s] = 0
    BY <1>1, <2>1, BoundsAssumption DEF PhotoSent, Typed, TypeOK, MasksOfPhotos
  <2>4. \A k \in Photos : KeepsMasks(k)
    <3>1. \A k \in Photos : waiting'[k] = waiting[k]
      BY <1>1, <2>1, PhotosBound DEF PhotoSent, Typed, TypeOK
    <3> QED
      BY <2>1, <3>1 DEF KeepsMasks
  <2>5. ASSUME NEW k \in Photos PROVE MaskRight(k)'
    BY <2>2, <2>3, <2>4, MaskStays DEF MasksRight, Open
  <2>6. MaskRight(new)'
    <3>1. CASE n = 0 /\ UNCHANGED <<waiting, masks>>
      <4>1. image'[new].mask = 0 /\ image'[new].given = 0 /\ Due(image'[new]) = 0
        BY <2>1, <3>1 DEF Due
      <4> QED
        BY <2>2, <2>3, <3>1, <4>1 DEF MaskRight
    <3>2. CASE n = masks + 1 /\ masks' = n /\ waiting' = [waiting EXCEPT ![new].tool = n]
      <4>1. waiting'[new] = [waiting[new] EXCEPT !["tool"] = n] /\ waiting[new] \in [Sources -> 0 .. MaxMasks]
        BY <2>1, <3>2 DEF Typed, TypeOK
      <4>2. waiting'[new]["tool"] = masks' /\ waiting'[new]["device"] = 0 /\ masks' \in Nat \ {0} /\ "tool" \in Sources
        BY <2>3, <3>2, <4>1 DEF Sources
      <4>3. \A s \in Sources : waiting'[new][s] \in Nat /\ waiting'[new][s] <= masks'
        BY <4>2 DEF Sources
      <4>4. image'[new].given = masks'
        BY <2>1, <3>2
      <4> QED
        BY <2>2, <4>2, <4>3, <4>4, MaskArrives
    <3> QED
      BY <1>1, <2>1, <3>1, <3>2 DEF PhotoSent
  <2>7. \A w \in Workers : WorkerMaskRight(w)'
    BY <2>1, <2>2, <2>4, ItsPhoto, WorkerMaskStays DEF MasksRight
  <2> QED
    BY <2>1, <2>5, <2>6, <2>7 DEF MasksRight
<1>2. ASSUME NEW i, NEW source, NEW row, MaskFor(i, source, row) PROVE MasksRight'
  <2>1. /\ source \in Sources /\ Becomes(i, row) /\ SameBut(image[i], row, {"given"}) /\ row.given = masks + 1
        /\ masks' = masks + 1 /\ waiting' = [waiting EXCEPT ![i][source] = masks + 1]
        /\ Queued(i) /\ MayMask(i) /\ UNCHANGED worker
    BY <1>2 DEF MaskFor
  <2>2. JobsStay /\ Jobs \subseteq Jobs' /\ (\A j \in Jobs : jobs'[j] = jobs[j]) /\ \E j \in Jobs' : Open(j, i)'
    BY <2>1, QueuedOpen
  <2>3. /\ i \in Photos /\ i \in 1 .. MaxImages /\ Photos' = Photos /\ image'[i] = row
        /\ \A k \in Photos : k # i => image'[k] = image[k]
    BY <2>1, PhotosBound DEF Becomes
  <2>4. masks \in Nat /\ masks' \in {masks, masks + 1} /\ waiting[i] \in [Sources -> 0 .. MaxMasks]
    BY <2>1, <2>3, MaskTypes DEF Typed, TypeOK
  <2>5. \A k \in Photos : k # i => KeepsMasks(k)
    <3>1. \A k \in Photos : k # i => waiting'[k] = waiting[k]
      BY <2>1, PhotosBound DEF Typed, TypeOK
    <3> QED
      BY <2>3, <3>1 DEF KeepsMasks
  <2>6. ASSUME NEW k \in Photos, k # i PROVE MaskRight(k)'
    BY <2>2, <2>4, <2>5, <2>6, MaskStays DEF MasksRight, Open
  <2>7. MaskRight(i)'
    <3>1. waiting'[i] = [waiting[i] EXCEPT ![source] = masks + 1]
      BY <2>1, <2>3 DEF Typed, TypeOK
    <3>2. waiting'[i][source] = masks' /\ \A s \in Sources : s # source => waiting'[i][s] = waiting[i][s]
      BY <2>1, <2>4, <3>1
    <3>3. \A s \in Sources : waiting[i][s] \in Nat /\ waiting[i][s] <= masks
      BY <2>3, MaskTypes DEF MasksRight, MaskRight
    <3>4. masks' \in Nat \ {0} /\ \A s \in Sources : waiting'[i][s] \in Nat /\ waiting'[i][s] <= masks'
      BY <2>1, <2>4, <3>2, <3>3
    <3>5. image'[i].given = masks'
      BY <2>1, <2>3
    <3> QED
      BY <2>1, <2>2, <3>2, <3>4, <3>5, MaskArrives
  <2>8. ASSUME NEW w \in Workers PROVE WorkerMaskRight(w)'
    <3>1. Works(i) = {}
      BY <2>1 DEF MayMask
    <3>2. At(w) # "idle" => Its(w) # i
      BY <3>1 DEF Works, Busy, At, Its
    <3> QED
      BY <2>1, <2>2, <2>5, <3>2, ItsPhoto, WorkerMaskStays DEF MasksRight
  <2> QED
    BY <2>3, <2>6, <2>7, <2>8 DEF MasksRight
<1>3. ASSUME NEW i, NEW row, Retried(i, row) PROVE MasksRight'
  <2>1. Becomes(i, row) /\ SameBut(image[i], row, {"status"}) /\ Queued(i) /\ UNCHANGED <<waiting, masks, worker>>
    BY <1>3 DEF Retried
  <2>2. Photos' = Photos /\ \A k \in Photos : KeepsMasks(k)
    BY <2>1 DEF Becomes, SameBut, KeepsMasks
  <2> QED
    BY <2>1, <2>2, MasksStay
<1> QED
  BY <1>1, <1>2, <1>3 DEF BySender

\* Workers other than w, whose photo keeps its masks.
LEMMA OthersMasks ==
  ASSUME Typed, MasksRight, JobsStay, NEW w \in Workers, \A u \in Workers : u # w => worker'[u] = worker[u],
         \A k \in Photos : KeepsMasks(k)
  PROVE  \A u \in Workers : u # w => WorkerMaskRight(u)'
BY ItsPhoto, WorkerMaskStays DEF MasksRight

LEMMA MasksByWorker ==
  ASSUME Typed, MasksRight, NEW w \in Workers, ByWorker(w)
  PROVE  MasksRight'
<1> DEFINE i == Its(w)
           v == worker[w]
<1>0. /\ JobsStay /\ (\A u \in Workers : u # w => worker'[u] = worker[u]) /\ Photos' = Photos
  BY JobsKept, WorkerKeeps
<1>00. UNCHANGED masks
  BY DEF ByWorker, Claimed, HasRead, Failed, PutBack, Writes, Unlinks, Dies
<1>1. ASSUME \A k \in Photos : KeepsMasks(k), WorkerMaskRight(w)',
             UNCHANGED jobs \/ \E j, s, e : JobEnds(j, s, e) /\ s # "done"
      PROVE  MasksRight'
  <2>1. Jobs \subseteq Jobs' /\ \A j \in Jobs : \A k \in Photos : Open(j, k) => Open(j, k)'
    BY <1>1 DEF JobEnds, Open, Jobs
  <2>2. \A k \in Photos : MaskRight(k)'
    BY <1>00, <1>1, <2>1, MaskStays DEF MasksRight
  <2> QED
    BY <1>0, <1>1, <2>2, OthersMasks DEF MasksRight
<1>2. ASSUME worker'[w].at \in {"idle", "files"} PROVE WorkerMaskRight(w)'
  BY <1>2 DEF WorkerMaskRight, At
<1>3. ASSUME UNCHANGED <<image, waiting>> PROVE \A k \in Photos : KeepsMasks(k)
  BY <1>3 DEF KeepsMasks
<1>4. ASSUME NEW row, NEW fields, Becomes(i, row), SameBut(image[i], row, fields), UNCHANGED waiting,
             "mask" \notin fields, "given" \notin fields
      PROVE  \A k \in Photos : KeepsMasks(k)
  BY <1>4 DEF KeepsMasks, Becomes, SameBut
<1>5. ASSUME NEW j, NEW p, Claimed(w, j, p) PROVE MasksRight'
  <2>1. worker'[w].at = "files" /\ UNCHANGED <<image, waiting>> /\ JobEnds(j, "running", jobs[j].error)
    BY <1>5 DEF Claimed, WorkerBecomes, Reading
  <2> QED
    BY <1>1, <1>2, <1>3, <2>1
<1>6. CASE HasRead(w)
  <2>1. /\ At(w) = "files" /\ UNCHANGED <<image, waiting, jobs>>
        /\ worker'[w] = Working(v, waiting[i][Newest(i)], {s \in Sources : waiting[i][s] # 0})
    BY <1>6 DEF HasRead, WorkerBecomes
  <2>2. /\ worker'[w].at = "write" /\ worker'[w].job = v.job /\ worker'[w].given = waiting[i][Newest(i)]
        /\ worker'[w].usedMasks = {s \in Sources : waiting[i][s] # 0}
    BY <2>1 DEF Working
  <2>3. i \in Photos /\ Its(w)' = i
    BY <1>0, <2>1, <2>2, ItsPhoto, ItsStays
  <2>4. MaskRight(i) /\ (\A s \in Sources : waiting[i][s] \in Nat) /\ image[i].given \in Nat
        /\ Newest(i) \in Sources /\ \A z \in Sources : waiting[i][z] <= waiting[i][Newest(i)]
    BY <2>3, MaskTypes, NewestIs DEF MasksRight
  <2>5. IF waiting[i][Newest(i)] = 0 THEN image[i].mask = Due(image[i]) ELSE waiting[i][Newest(i)] = image[i].given
    <3>1. CASE waiting[i][Newest(i)] = 0
      <4>1. \A s \in Sources : waiting[i][s] = 0
        BY <2>4, <3>1
      <4> QED
        BY <2>4, <3>1, <4>1 DEF MaskRight
    <3>2. CASE waiting[i][Newest(i)] # 0
      <4>1. PICK s \in Sources : waiting[i][s] = image[i].given
        BY <2>4, <3>2 DEF MaskRight
      <4>2. waiting[i][s] <= waiting[i][Newest(i)] /\ waiting[i][Newest(i)] <= image[i].given
        BY <2>4, <4>1 DEF MaskRight
      <4> QED
        BY <2>4, <3>2, <4>1, <4>2
    <3> QED
      BY <3>1, <3>2
  <2> HIDE DEF i, v
  <2>6. WorkerMaskRight(w)'
    BY <2>1, <2>2, <2>3, <2>5 DEF WorkerMaskRight, At
  <2> QED
    BY <1>1, <1>3, <2>1, <2>6
<1>7. ASSUME NEW row, NEW error, Failed(w, row, error) PROVE MasksRight'
  <2>1. /\ Becomes(i, row) /\ SameBut(image[i], row, {"status", "prepared"}) /\ UNCHANGED waiting
        /\ JobEnds(v.job, "failed", error) /\ worker'[w] = Idle
    BY <1>7 DEF Failed, WorkerBecomes
  <2>2. worker'[w].at = "idle"
    BY <2>1 DEF Idle
  <2>3. "mask" \notin {"status", "prepared"} /\ "given" \notin {"status", "prepared"} /\ "failed" # "done"
    OBVIOUS
  <2> QED
    BY <1>1, <1>2, <1>4, <2>1, <2>2, <2>3
<1>8. ASSUME NEW row, PutBack(w, row) PROVE MasksRight'
  <2>1. /\ Becomes(i, row) /\ SameBut(image[i], row, {"prepared"}) /\ UNCHANGED waiting
        /\ JobEnds(v.job, "pending", "io_error") /\ worker'[w] = Idle
    BY <1>8 DEF PutBack, WorkerBecomes
  <2>2. worker'[w].at = "idle"
    BY <2>1 DEF Idle
  <2>3. "mask" \notin {"prepared"} /\ "given" \notin {"prepared"} /\ "pending" # "done"
    OBVIOUS
  <2> QED
    BY <1>1, <1>2, <1>4, <2>1, <2>2, <2>3
<1>9. ASSUME NEW row, Writes(w, row) PROVE MasksRight'
  <2>1. /\ At(w) = "write" /\ Becomes(i, row) /\ SameBut(image[i], row, {"status", "prepared", "mask"})
        /\ row.mask = IF v.given = 0 THEN image[i].mask ELSE IF v.given \in PoorMasks THEN 0 ELSE v.given
        /\ JobEnds(v.job, "done", "none") /\ worker'[w] = Unlinking(v) /\ UNCHANGED waiting
    BY <1>9 DEF Writes, WorkerBecomes
  <2>2. worker'[w].at = "unlink" /\ worker'[w].job = v.job /\ worker'[w].usedMasks = v.usedMasks
    BY <2>1 DEF Unlinking
  <2>3. i \in Photos /\ Its(w)' = i /\ image'[i] = row /\ \A k \in Photos : k # i => image'[k] = image[k]
    BY <1>0, <2>1, <2>2, ItsPhoto, ItsStays DEF Becomes
  <2>4. WorkerMaskRight(w) /\ MaskRight(i)
    BY <2>3 DEF MasksRight
  <2>5. row.given = image[i].given /\ Due(row) = Due(image[i])
    BY <2>1, DueIs DEF SameBut
  <2>6. row.mask = Due(row)
    <3>1. CASE v.given = 0
      BY <2>1, <2>4, <2>5, <3>1 DEF WorkerMaskRight
    <3>2. CASE v.given # 0
      BY <2>1, <2>4, <2>5, <3>2 DEF WorkerMaskRight, Due
    <3> QED
      BY <3>1, <3>2
  <2> HIDE DEF i, v
  <2>7. ASSUME NEW k \in Photos, k = i PROVE MaskRight(k)'
    BY <1>00, <2>1, <2>3, <2>4, <2>5, <2>6, <2>7 DEF MaskRight
  <2>8. ASSUME NEW k \in Photos, k # i PROVE MaskRight(k)'
    <3>1. KeepsMasks(k)
      BY <2>1, <2>3, <2>8 DEF KeepsMasks
    <3>2. Jobs \subseteq Jobs' /\ \A j \in Jobs : Open(j, k) => Open(j, k)'
      <4>1. jobs[v.job].image = i
        BY DEF Its, i, v
      <4> QED
        BY <2>1, <2>8, <4>1 DEF JobEnds, Open
    <3> QED
      BY <1>00, <3>1, <3>2, MaskStays DEF MasksRight
  <2>9. WorkerMaskRight(w)'
    BY <2>1, <2>2, <2>3, <2>4, <2>6 DEF WorkerMaskRight, At, i, v
  <2>10. ASSUME NEW u \in Workers, u # w PROVE WorkerMaskRight(u)'
    <3>1. WorkerMaskRight(u) /\ worker'[u] = worker[u]
      BY <1>0, <2>10 DEF MasksRight
    <3>2. CASE At(u) = "idle"
      BY <1>0, <3>1, <3>2, WorkerMaskStays
    <3>3. CASE At(u) # "idle" /\ Its(u) # i
      <4>1. KeepsMasks(Its(u))
        BY <2>1, <2>3, <3>3, ItsPhoto DEF KeepsMasks
      <4> QED
        BY <1>0, <3>1, <4>1, WorkerMaskStays
    <3>4. CASE At(u) # "idle" /\ Its(u) = i
      <4>1. Its(u)' = i
        BY <1>0, <3>1, <3>4, ItsStays
      <4>2. image'[i].mask = Due(image'[i]) /\ image'[i].given = image[i].given
        BY <2>3, <2>5, <2>6
      <4> QED
        BY <2>1, <3>1, <3>4, <4>1, <4>2 DEF WorkerMaskRight, At
    <3> QED
      BY <3>2, <3>3, <3>4
  <2> QED
    BY <1>0, <2>7, <2>8, <2>9, <2>10 DEF MasksRight
<1>10. CASE Unlinks(w)
  <2>1. /\ At(w) = "unlink" /\ UNCHANGED <<image, jobs>> /\ worker'[w] = Idle
        /\ waiting' = [waiting EXCEPT ![i] = [s \in Sources |-> IF s \in v.usedMasks THEN 0 ELSE waiting[i][s]]]
    BY <1>10 DEF Unlinks, WorkerBecomes
  <2>2. i \in Photos /\ i \in 1 .. MaxImages /\ WorkerMaskRight(w) /\ MaskRight(i)
    BY <2>1, ItsPhoto, PhotosBound DEF MasksRight
  <2>3. image[i].mask = Due(image[i]) /\ \A s \in Sources : waiting[i][s] # 0 => s \in v.usedMasks
    BY <2>1, <2>2 DEF WorkerMaskRight
  <2>4. (\A s \in Sources : waiting'[i][s] = 0) /\ \A k \in Photos : k # i => waiting'[k] = waiting[k]
    BY <2>1, <2>2, <2>3, PhotosBound DEF Typed, TypeOK
  <2> HIDE DEF i, v
  <2>5. ASSUME NEW k \in Photos, k = i PROVE MaskRight(k)'
    <3>1. image[i].given \in Nat
      BY <2>2, MaskTypes
    <3>2. Jobs' = Jobs
      BY <2>1 DEF Jobs
    <3> QED
      BY <1>00, <2>1, <2>2, <2>3, <2>4, <2>5, <3>1, <3>2 DEF MaskRight, Open
  <2>6. ASSUME NEW k \in Photos, k # i PROVE MaskRight(k)'
    <3>1. KeepsMasks(k)
      BY <2>1, <2>4, <2>6 DEF KeepsMasks
    <3>2. Jobs \subseteq Jobs' /\ \A j \in Jobs : Open(j, k) => Open(j, k)'
      BY <2>1 DEF Jobs, Open
    <3> QED
      BY <1>00, <3>1, <3>2, MaskStays DEF MasksRight
  <2>7. WorkerMaskRight(w)'
    BY <1>2, <2>1 DEF Idle
  <2>8. ASSUME NEW u \in Workers, u # w PROVE WorkerMaskRight(u)'
    <3>1. WorkerMaskRight(u) /\ worker'[u] = worker[u]
      BY <1>0, <2>8 DEF MasksRight
    <3>2. CASE At(u) = "idle"
      BY <1>0, <3>1, <3>2, WorkerMaskStays
    <3>3. CASE At(u) # "idle" /\ Its(u) # i
      <4>1. KeepsMasks(Its(u))
        BY <2>1, <2>4, <3>3, ItsPhoto DEF KeepsMasks
      <4> QED
        BY <1>0, <3>1, <4>1, WorkerMaskStays
    <3>4. CASE At(u) # "idle" /\ Its(u) = i
      <4>1. Its(u)' = i
        BY <1>0, <3>1, <3>4, ItsStays
      <4> QED
        BY <2>1, <2>4, <3>1, <3>4, <4>1 DEF WorkerMaskRight, At
    <3> QED
      BY <3>2, <3>3, <3>4
  <2> QED
    BY <1>0, <2>5, <2>6, <2>7, <2>8 DEF MasksRight
<1>11. CASE Dies(w)
  <2>1. UNCHANGED <<image, jobs, waiting>> /\ worker'[w].at = "idle"
    BY <1>11 DEF Dies, WorkerBecomes, Idle
  <2> QED
    BY <1>1, <1>2, <1>3, <2>1
<1> QED
  BY <1>5, <1>6, <1>7, <1>8, <1>9, <1>10, <1>11 DEF ByWorker

LEMMA MasksOfPhotosStep ==
  ASSUME Typed, MasksOfPhotos, UNCHANGED vars \/ BySender \/ ByPeople \/ \E w \in Workers : ByWorker(w)
  PROVE  MasksOfPhotos'
<1>1. ASSUME UNCHANGED waiting, Photos \subseteq Photos' PROVE MasksOfPhotos'
  BY <1>1 DEF MasksOfPhotos
<1>2. ASSUME NEW k, k \in Photos', Photos \subseteq Photos', \A i \in 1 .. MaxImages : i # k => waiting'[i] = waiting[i]
      PROVE  MasksOfPhotos'
  BY <1>2 DEF MasksOfPhotos
<1>3. waiting \in [1 .. MaxImages -> [Sources -> 0 .. MaxMasks]]
  BY DEF Typed, TypeOK
<1>4. CASE UNCHANGED vars
  BY <1>1, <1>4 DEF vars, Photos
<1>5. ASSUME NEW row, NEW n, PhotoSent(row, n) PROVE MasksOfPhotos'
  <2>1. PICK new : /\ new \in 1 .. MaxImages /\ Photos' = Photos \cup {new}
                   /\ UNCHANGED waiting \/ waiting' = [waiting EXCEPT ![new].tool = n]
    BY <1>5 DEF PhotoSent
  <2> QED
    BY <1>1, <1>2, <1>3, <2>1
<1>6. ASSUME NEW i, NEW source, NEW row, MaskFor(i, source, row) PROVE MasksOfPhotos'
  <2>1. Photos' = Photos /\ i \in Photos /\ waiting' = [waiting EXCEPT ![i][source] = masks + 1]
    BY <1>6 DEF MaskFor, Becomes
  <2> QED
    BY <1>2, <1>3, <2>1
<1>7. ASSUME NEW i, NEW row, Retried(i, row) PROVE MasksOfPhotos'
  BY <1>1, <1>7 DEF Retried, Becomes
<1>8. ASSUME ByPeople PROVE MasksOfPhotos'
  <2>1. Photos' = Photos /\ UNCHANGED waiting
    BY <1>8 DEF ByPeople, Requests, Chose, Accepted, Merged, Rewritten, Photos
  <2> QED
    BY <1>1, <2>1
<1>9. ASSUME NEW w \in Workers, ByWorker(w) PROVE MasksOfPhotos'
  <2>1. Photos' = Photos
    BY <1>9, WorkerKeeps
  <2>2. CASE Unlinks(w)
    <3>1. Its(w) \in Photos /\ \A i \in 1 .. MaxImages : i # Its(w) => waiting'[i] = waiting[i]
      BY <1>3, <2>2, ItsPhoto DEF Unlinks
    <3> QED
      BY <1>2, <2>1, <3>1
  <2>3. UNCHANGED waiting \/ Unlinks(w)
    BY <1>9 DEF ByWorker, Claimed, HasRead, Failed, PutBack, Writes, Dies
  <2> QED
    BY <1>1, <2>1, <2>2, <2>3
<1> QED
  BY <1>4, <1>5, <1>6, <1>7, <1>8, <1>9 DEF BySender

\* What is kept while no mask is sent for a photo being worked on, nor for one that its
\* proposal has already.
MasksKept ==
  /\ Typed /\ MasksOfPhotos
  /\ mix.overlap \cap {"mask", "again"} = {} => MasksRight

LEMMA MasksKeptStep ==
  ASSUME MasksKept, [Next]_vars
  PROVE  MasksKept'
<1>1. UNCHANGED vars \/ BySender \/ ByPeople \/ \E w \in Workers : ByWorker(w)
  BY Steps DEF MasksKept
<1>2. Typed /\ Typed' /\ MasksOfPhotos /\ MasksOfPhotos' /\ mix' = mix
  BY <1>1, TypedStep, MasksOfPhotosStep, MixStays DEF MasksKept
<1>3. ASSUME mix.overlap \cap {"mask", "again"} = {} PROVE MasksRight'
  <2>1. MasksRight
    BY <1>3 DEF MasksKept
  <2>2. CASE UNCHANGED vars
    <3>1. Photos' = Photos /\ (\A k \in Photos : KeepsMasks(k)) /\ UNCHANGED <<worker, masks, jobs>>
      BY <2>2 DEF vars, Photos, KeepsMasks
    <3> QED
      BY <1>2, <2>1, <3>1, MasksStay
  <2> QED
    BY <1>1, <1>2, <1>3, <2>1, <2>2, MasksBySender, MasksByPeople, MasksByWorker
<1> QED
  BY <1>2, <1>3 DEF MasksKept

\* The newest mask wins: once the jobs of a photo are done, its cutout is made from the
\* last mask sent for it, whichever source sent it and however many waited, after any
\* crashes, disk errors and jobs that outlast their lock.
THEOREM NewestMask == Spec => []NewestMaskWins
<1>1. Init => MasksKept
  <2> SUFFICES ASSUME Init PROVE MasksKept
    OBVIOUS
  <2>1. Typed
    BY TypedInit
  <2>2. Photos = {} /\ \A w \in Workers : At(w) = "idle"
    BY DEF Init, Photos, At, Idle
  <2>3. MasksRight
    BY <2>2 DEF MasksRight, WorkerMaskRight
  <2>4. MasksOfPhotos
    BY DEF Init, MasksOfPhotos
  <2> QED
    BY <2>1, <2>3, <2>4 DEF MasksKept
<1>2. MasksKept /\ [Next]_vars => MasksKept'
  BY MasksKeptStep
<1>3. MasksKept => NewestMaskWins
  BY DEF MasksKept, MasksRight, MaskRight, NewestMaskWins, Open, Due
<1> QED
  BY <1>1, <1>2, <1>3, PTL DEF Spec
=============================================================================
