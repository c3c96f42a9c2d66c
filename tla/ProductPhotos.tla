---------------------------- MODULE ProductPhotos ----------------------------
(***************************************************************************)
(* The photos of products: services/product_photos.py and product_jobs.py, *)
(* with what accepting a proposal (services/proposals.py), a merge         *)
(* (services/product_merge.py) and the products helper (services/          *)
(* lookups.py) do to them.                                                 *)
(*                                                                         *)
(* A photo is stored by a request and prepared by a worker in four steps:  *)
(* it claims the job and reads the photo's row; it does the file work,     *)
(* holding no lock; it locks the product and then the photo, writes and    *)
(* chooses the main photo; it deletes the files it used.  A choice of a    *)
(* person and an acceptance read before they write, too.                   *)
(*                                                                         *)
(* Bytes are left out: an upload is a value, so is a mask, numbered in the *)
(* order masks were sent.  All photos are the same size, and none is a     *)
(* likely stock photo, so a later photo of the same rank is preferred.     *)
(*                                                                         *)
(* A mix says which requests there are, how many, and in overlap which of  *)
(* them may meet a photo being prepared in a way the code does not guard   *)
(* against; each property names those it excludes.                         *)
(*                                                                         *)
(* An operator that is used nowhere and stands just before another with    *)
(* the same parameters is a plausible mistake in it.                       *)
(***************************************************************************)
EXTENDS Naturals, Sequences, FiniteSets

CONSTANTS
  Products,
  Uploads,      \* files by their sha256
  PoorMasks,    \* numbers of masks that cover under 5% or over 95% of their photo
  Workers,      \* worker processes
  None,
  Mixes,        \* what may be asked for, what may overlap, and the bounds on photos,
                \* masks sent, and faults (crashes, disk errors, unreadable photos)
  MaxImages, MaxMasks, MaxFaults,  \* the largest of those bounds
  MaxJobs       \* bound on jobs

\* MAX_ATTEMPTS
MaxAttempts == 3

ASSUME NoneAssumption == None \notin Products

ASSUME BoundsAssumption ==
  /\ MaxImages \in Nat /\ MaxMasks \in Nat /\ MaxFaults \in Nat /\ MaxJobs \in Nat
  /\ \A m \in Mixes : m.images \in 0 .. MaxImages /\ m.masks \in 0 .. MaxMasks /\ m.faults \in 0 .. MaxFaults

VARIABLES
  image,     \* the product_image rows, in the order of their ids
  main,      \* main[x]: product.primary_image_id
  jobs,      \* the image_process rows of product_job, oldest first
  incoming,  \* uploads whose file is in incoming/
  waiting,   \* waiting[i]: the mask files of photo i there, by source
  asked,     \* asked[i]: the cutout request of photo i: "no", "open", or "sent" when
             \* its answer's mask is stored and the request is open still
  proposal,  \* the proposal: "none", "pending" or "decided"
  gone,      \* products merged away
  worker,    \* worker[w]: the job it runs and how far it is
  request,   \* a person's choice or acceptance that has read and not yet written
  retrying,  \* photos a retry has read as failed and may write yet
  masks,     \* masks sent so far
  faults,
  mix        \* what may happen, and what may overlap

vars == <<image, main, jobs, incoming, waiting, asked, proposal, gone, worker, request,
          retrying, masks, faults, mix>>

Photos == DOMAIN image
Jobs == DOMAIN jobs
Sources == {"device", "tool"}

-----------------------------------------------------------------------------
(* Rows.  given and hid remember the last mask sent for a photo and that a *)
(* person wants it hidden; no code reads them.                             *)

NewImage(u, x, proposed, kind) ==
  [upload |-> u, product |-> x, proposed |-> proposed, kind |-> kind, role |-> "product",
   status |-> "processing", prepared |-> FALSE, mask |-> 0, pinned |-> FALSE,
   given |-> 0, hid |-> FALSE]

NewJob(i) == [image |-> i, status |-> "pending", attempts |-> 0, error |-> "none"]

NoRequest == [kind |-> "none"]
Idle == [at |-> "idle"]

ImagesOf(rows, x) == {i \in DOMAIN rows : rows[i].product = x}

Eligible(row) == row.role = "product" /\ row.status = "active"

Rank(row) == IF row.kind = "user_photo" THEN IF row.mask # 0 THEN 0 ELSE 1 ELSE 3

\* select_primary
Primary(rows, x) ==
  LET shown == {i \in ImagesOf(rows, x) : Eligible(rows[i])}
      chosen == {i \in shown : rows[i].pinned}
      best == {i \in shown : \A k \in shown : Rank(rows[i]) <= Rank(rows[k])}
      newest(s) == CHOOSE i \in s : \A k \in s : k <= i
  IN IF shown = {} THEN 0 ELSE IF chosen # {} THEN newest(chosen) ELSE newest(best)

Reselected(rows, x) == [main EXCEPT ![x] = Primary(rows, x)]

Unpinned(rows, x) == [i \in DOMAIN rows |-> IF rows[i].product = x THEN [rows[i] EXCEPT !.pinned = FALSE] ELSE rows[i]]

Busy(w) == worker[w].at # "idle"
Works(i) == {w \in Workers : Busy(w) /\ jobs[worker[w].job].image = i}

\* Accepting holds the product's row from its first read to its commit.
Free(x) == ~(request.kind = "accept" /\ request.product = x)

-----------------------------------------------------------------------------
(* Sending photos and masks.                                               *)

Init ==
  /\ image = <<>> /\ jobs = <<>>
  /\ main = [x \in Products |-> 0]
  /\ incoming = {} /\ waiting = [i \in 1 .. MaxImages |-> [s \in Sources |-> 0]]
  /\ asked = [i \in 1 .. MaxImages |-> "no"] /\ proposal = "none" /\ gone = {}
  /\ worker = [w \in Workers |-> Idle] /\ request = NoRequest /\ retrying = {}
  /\ masks = 0 /\ faults = 0 /\ mix \in Mixes

KeepRest == UNCHANGED <<main, proposal, gone, worker, request, retrying, faults, mix>>

Room == Len(image) < mix.images /\ Len(jobs) < MaxJobs

\* Neither the product nor the proposal has this file already.
Unseen(u, x, proposed) ==
  ~\E i \in Photos : /\ image[i].upload = u
                     /\ IF proposed THEN image[i].proposed ELSE image[i].product = x

\* The file is there before the row and its job are committed.
Stored(row) ==
  /\ Room /\ Unseen(row.upload, row.product, row.proposed)
  /\ incoming' = incoming \cup {row.upload}
  /\ image' = Append(image, row)
  /\ jobs' = Append(jobs, NewJob(Len(image) + 1))

\* POST /product-photos.
AddPhoto(x, u) ==
  /\ Stored(NewImage(u, x, FALSE, "user_photo"))
  /\ UNCHANGED <<waiting, asked, masks>> /\ KeepRest

\* A proposal is made with a photo: taken by the household or from a store's page.
Propose(u, kind) ==
  /\ proposal = "none" /\ proposal' = "pending"
  /\ Stored(NewImage(u, None, TRUE, kind))
  /\ UNCHANGED <<waiting, asked, masks, main, gone, worker, request, retrying, faults, mix>>

\* The mask is written to incoming/ under its photo and source.
MaskSent(i, source, rows) ==
  /\ masks < mix.masks
  /\ masks' = masks + 1
  /\ waiting' = [waiting EXCEPT ![i][source] = masks + 1]
  /\ image' = [rows EXCEPT ![i].given = masks + 1]

\* A mask while a worker has read the masks before it.
MayMask(i) == "mask" \in mix.overlap \/ Works(i) = {}

\* add_mask
AddMask(i) ==
  /\ image[i].prepared /\ MayMask(i) /\ Len(jobs) < MaxJobs
  /\ MaskSent(i, "device", image)
  /\ jobs' = Append(jobs, NewJob(i))
  /\ UNCHANGED <<incoming, asked>> /\ KeepRest

\* The helper answers a cutout request: the mask and its job are committed first.
AnswerCutout(i) ==
  /\ asked[i] # "no" /\ image[i].prepared /\ MayMask(i) /\ Len(jobs) < MaxJobs
  /\ MaskSent(i, "tool", image)
  /\ jobs' = Append(jobs, NewJob(i))
  /\ asked' = [asked EXCEPT ![i] = "sent"]
  /\ UNCHANGED incoming /\ KeepRest

\* Then the request is closed, unless the server dies in between.
CloseCutout(i) ==
  /\ asked[i] = "sent"
  /\ asked' = [asked EXCEPT ![i] = "no"]
  /\ UNCHANGED <<image, jobs, incoming, waiting, masks>> /\ KeepRest

\* The proposal, which an acceptance under way holds.
Answerable == proposal = "pending" /\ request.kind # "accept"

\* The helper answers a lookup with a photo and its mask.  No job is queued for the
\* mask: the photo's own is to find it.
AnswerPhoto(u) ==
  /\ Answerable /\ masks < mix.masks
  /\ Stored([NewImage(u, None, TRUE, "vendor_listing") EXCEPT !.given = masks + 1])
  /\ masks' = masks + 1
  /\ waiting' = [waiting EXCEPT ![Len(image) + 1].tool = masks + 1]
  /\ UNCHANGED asked /\ KeepRest

\* The same for a photo the proposal has already.
AnswerAgain(i) ==
  /\ "again" \in mix.overlap
  /\ Answerable /\ image[i].proposed
  /\ MaskSent(i, "tool", [image EXCEPT ![i].kind = "vendor_listing"])
  /\ UNCHANGED <<jobs, incoming, asked>> /\ KeepRest

\* retry reads the status, and does not read it again when it writes: another retry and
\* its job may have come in between.
RetryReads(i) ==
  /\ "retry" \in mix.overlap /\ image[i].status = "failed"
  /\ retrying' = retrying \cup {i}
  /\ UNCHANGED <<image, main, jobs, incoming, waiting, asked, proposal, gone, worker, request,
                 masks, faults, mix>>

Retry(i) ==
  /\ image[i].status = "failed" \/ i \in retrying
  /\ Len(jobs) < MaxJobs
  /\ image' = [image EXCEPT ![i].status = "processing"]
  /\ jobs' = Append(jobs, NewJob(i))
  /\ UNCHANGED <<incoming, waiting, asked, masks>> /\ KeepRest

-----------------------------------------------------------------------------
(* The worker.                                                             *)

KeepSent == UNCHANGED <<proposal, gone, request, retrying, masks, mix>>

\* locked_at is older than the lock timeout.  No job outlasts it unless "lapse".
LockLapsed(j) ==
  /\ jobs[j].status = "running"
  /\ "lapse" \in mix.overlap \/ \A w \in Workers : Busy(w) => worker[w].job # j

Claimable(j) == jobs[j].status = "pending" \/ LockLapsed(j)

TwinNever(i) == FALSE

\* Another photo with these bytes that was prepared.
TwinPrepared(i) ==
  \E k \in Photos \ {i} : image[k].upload = image[i].upload /\ image[k].prepared

\* A photo not prepared yet, while a worker is at another with the same bytes.
MayClaim(i) ==
  \/ "twin" \in mix.overlap \/ image[i].prepared
  \/ \A k \in Photos : image[k].upload = image[i].upload => Works(k) = {}

\* claim_job, and the reading of the row with which run_job begins.
Claim(w) ==
  \E j \in Jobs : LET i == jobs[j].image IN
    /\ ~Busy(w) /\ Claimable(j) /\ (\A k \in 1 .. (j - 1) : ~Claimable(k)) /\ MayClaim(i)
    /\ jobs' = [jobs EXCEPT ![j].status = "running", ![j].attempts = @ + 1]
    /\ worker' = [worker EXCEPT ![w] =
         [at |-> "files", job |-> j, product |-> image[i].product,
          was |-> image[i].status,
          prepared |-> image[i].prepared \/ (image[i].upload \notin incoming /\ TwinPrepared(i))]]
    /\ UNCHANGED <<image, main, incoming, waiting, asked, faults>> /\ KeepSent

DeviceFirst(i) == CHOOSE s \in Sources : waiting[i]["device"] # 0 => s = "device"

Newest(i) == CHOOSE s \in Sources : \A z \in Sources : waiting[i][z] <= waiting[i][s]

\* _process_files: the upload, if the photo is not prepared yet, and the newest mask.
ReadFiles(w) ==
  LET v == worker[w] i == jobs[v.job].image n == waiting[i][Newest(i)] IN
  /\ v.at = "files"
  /\ v.prepared \/ image[i].upload \in incoming
  /\ worker' = [worker EXCEPT ![w] =
       [at |-> "write", job |-> v.job, product |-> v.product, prepared |-> v.prepared,
        given |-> n, usedMasks |-> {s \in Sources : waiting[i][s] # 0}]]
  /\ UNCHANGED <<image, main, jobs, incoming, waiting, asked, faults>> /\ KeepSent

\* Another worker has prepared the photo, which this one read as being prepared.
MayFail(v) ==
  "fails" \in mix.overlap \/ v.was # "processing" \/ image[jobs[v.job].image].status \in {"processing", "failed"}

\* The photo cannot be prepared.
Failing(v, error) ==
  LET i == jobs[v.job].image IN
  /\ MayFail(v)
  /\ jobs' = [jobs EXCEPT ![v.job].status = "failed", ![v.job].error = error]
  /\ image' = [image EXCEPT ![i].status = IF v.was = "processing" THEN "failed" ELSE @,
                            ![i].prepared = @ \/ v.prepared]

\* StageFailure: its file is gone, or (a fault) nobody can read it.
CannotRead(w) ==
  LET v == worker[w] missing == ~v.prepared /\ image[jobs[v.job].image].upload \notin incoming IN
  /\ v.at = "files"
  /\ missing \/ faults < mix.faults
  /\ Failing(v, IF missing THEN "upload_missing" ELSE "unreadable")
  /\ faults' = IF missing THEN faults ELSE faults + 1
  /\ worker' = [worker EXCEPT ![w] = Idle]
  /\ UNCHANGED <<main, incoming, waiting, asked>> /\ KeepSent

\* OSError: again, up to a limit.
DiskFails(w) ==
  LET v == worker[w] i == jobs[v.job].image IN
  /\ v.at = "files" /\ faults < mix.faults
  /\ \/ /\ jobs[v.job].attempts < MaxAttempts
        /\ jobs' = [jobs EXCEPT ![v.job].status = "pending", ![v.job].error = "io_error"]
        /\ image' = [image EXCEPT ![i].prepared = @ \/ v.prepared]
     \/ jobs[v.job].attempts >= MaxAttempts /\ Failing(v, "io_error")
  /\ faults' = faults + 1
  /\ worker' = [worker EXCEPT ![w] = Idle]
  /\ UNCHANGED <<main, incoming, waiting, asked>> /\ KeepSent

ShownAnyhow(row) == IF row.product # None THEN "active" ELSE "candidate"

\* A proposal's photo is a candidate until the proposal is accepted.
Ready(row) == IF row.status \notin {"processing", "failed"} THEN row.status
              ELSE IF row.product # None THEN "active" ELSE "candidate"

Wrote(v, row) ==
  [row EXCEPT !.prepared = TRUE, !.status = Ready(row),
              !.mask = IF v.given = 0 THEN @ ELSE IF v.given \in PoorMasks THEN 0 ELSE v.given]

LockedAsRead(v, row) == v.product

\* The product locked is the one read at the start; one attached since is read under
\* the photo's lock.
LockedFor(v, row) == IF v.product # None THEN v.product ELSE row.product

\* An acceptance that has read the photo as it was and is about to attach it.
MayWrite(i) == "accept" \in mix.overlap \/ ~(request.kind = "accept" /\ image[i].product = None)

Write(w) ==
  LET v == worker[w] i == jobs[v.job].image x == LockedFor(v, image[i]) IN
  /\ v.at = "write" /\ MayWrite(i) /\ Free(x)
  /\ image' = [image EXCEPT ![i] = Wrote(v, @)]
  /\ main' = IF x = None THEN main ELSE Reselected(image', x)
  /\ jobs' = [jobs EXCEPT ![v.job].status = "done", ![v.job].error = "none"]
  /\ worker' = [worker EXCEPT ![w] =
       [at |-> "unlink", job |-> v.job, upload |-> ~v.prepared, usedMasks |-> v.usedMasks]]
  /\ UNCHANGED <<incoming, waiting, asked, faults>> /\ KeepSent

\* queue_cutout: the household's photo of a product without a mask.
WantsCutout(row) ==
  row.kind = "user_photo" /\ row.role = "product" /\ row.mask = 0 /\ row.product # None

\* The files are deleted by name, whatever is in them now.
Unlink(w) ==
  LET v == worker[w] i == jobs[v.job].image IN
  /\ v.at = "unlink"
  /\ incoming' = IF v.upload THEN incoming \ {image[i].upload} ELSE incoming
  /\ waiting' = [waiting EXCEPT ![i] = [s \in Sources |-> IF s \in v.usedMasks THEN 0 ELSE @[s]]]
  /\ asked' = [asked EXCEPT ![i] = IF @ = "no" /\ WantsCutout(image[i]) THEN "open" ELSE @]
  /\ worker' = [worker EXCEPT ![w] = Idle]
  /\ UNCHANGED <<image, main, jobs, faults>> /\ KeepSent

Crash(w) ==
  /\ Busy(w) /\ faults < mix.faults
  /\ faults' = faults + 1
  /\ worker' = [worker EXCEPT ![w] = Idle]
  /\ UNCHANGED <<image, main, jobs, incoming, waiting, asked>> /\ KeepSent

-----------------------------------------------------------------------------
(* A person's choice of main photo (_choose): which product the photo is   *)
(* of is read before that product is locked.                               *)

KeepQueue == UNCHANGED <<jobs, incoming, waiting, asked, worker, retrying, masks, faults, mix>>

Choices == {"use_as_main", "unset_main", "hide", "show"}

ChooseReads(i, choice) ==
  /\ request = NoRequest /\ image[i].product # None
  /\ request' = [kind |-> choice, image |-> i, product |-> image[i].product]
  /\ UNCHANGED <<image, main, proposal, gone>> /\ KeepQueue

MayChoose(choice, row) ==
  CASE choice = "use_as_main" -> Eligible(row)
    [] choice = "unset_main" -> TRUE
    [] choice = "hide" -> row.status = "active"
    [] choice = "show" -> row.status = "hidden"

Chosen(choice, rows, i, x) ==
  CASE choice = "use_as_main" -> [Unpinned(rows, x) EXCEPT ![i].pinned = TRUE]
    [] choice = "unset_main" -> [rows EXCEPT ![i].pinned = FALSE]
    [] choice = "hide" -> [rows EXCEPT ![i].status = "hidden", ![i].pinned = FALSE, ![i].hid = TRUE]
    [] choice = "show" -> [rows EXCEPT ![i].status = "active", ![i].hid = FALSE]

\* uq_product_image_one_pinned
OnePinnedEach(rows) ==
  \A i, k \in DOMAIN rows :
    rows[i].pinned /\ rows[k].pinned /\ rows[i].product = rows[k].product => i = k

ChooseWrites ==
  LET i == request.image x == request.product IN
  /\ request.kind \in Choices
  /\ MayChoose(request.kind, image[i])
  /\ image' = Chosen(request.kind, image, i, x)
  /\ OnePinnedEach(image')
  /\ main' = Reselected(image', x)
  /\ request' = NoRequest
  /\ UNCHANGED <<proposal, gone>> /\ KeepQueue

\* The request is refused, or fails.
RequestFails ==
  /\ request # NoRequest
  /\ request' = NoRequest
  /\ UNCHANGED <<image, main, proposal, gone>> /\ KeepQueue

-----------------------------------------------------------------------------
(* Accepting the proposal for a product.                                   *)

AcceptReads(x) ==
  /\ request = NoRequest /\ proposal = "pending" /\ x \notin gone
  /\ LET new == {i \in Photos : /\ image[i].proposed /\ image[i].product = None
                                 /\ Unseen(image[i].upload, x, FALSE)}
     IN request' = [kind |-> "accept", product |-> x, read |-> [i \in new |-> image[i].status]]
  /\ UNCHANGED <<image, main, proposal, gone>> /\ KeepQueue

\* What it was read as decides the status, and a column it does not set stays.
Attached(was, row, x, hides) ==
  [row EXCEPT !.product = x,
              !.status = IF hides /\ was \in {"candidate", "active"} THEN "hidden"
                         ELSE IF was = "candidate" THEN "active" ELSE @,
              !.hid = hides]

Pinned(rows, i, x) == [Unpinned(rows, x) EXCEPT ![i].pinned = TRUE]

\* Photos a reviewer hides are prepared by then.
MayHide(hides) == "hide" \in mix.overlap \/ \A i \in hides : request.read[i] \in {"candidate", "active"}

\* hides, labels and chosen are the reviewer's: photos to hide, photos that show a
\* label, and the main photo.
AcceptWrites(hides, labels, chosen) ==
  LET x == request.product
      new == DOMAIN request.read
      rows == [i \in Photos |-> IF i \notin new THEN image[i]
                 ELSE LET row == Attached(request.read[i], image[i], x, i \in hides)
                      IN IF i \in labels THEN [row EXCEPT !.role = "label_front"] ELSE row]
      pinned == IF chosen \in new /\ rows[chosen].role = "product" THEN Pinned(rows, chosen, x) ELSE rows
      kept == chosen # 0 /\ chosen = main[x]
  IN
  /\ request.kind = "accept" /\ MayHide(hides)
  /\ image' = IF kept /\ Primary(pinned, x) # chosen THEN Pinned(pinned, chosen, x) ELSE pinned
  /\ main' = Reselected(image', x)
  /\ proposal' = "decided"
  /\ request' = NoRequest
  /\ UNCHANGED gone /\ KeepQueue

Reject ==
  /\ Answerable
  /\ proposal' = "decided"
  /\ UNCHANGED <<image, main, gone, request>> /\ KeepQueue

-----------------------------------------------------------------------------
(* Merging product l into s (_move_photos).                                *)

\* A photo of l is being prepared, or chosen, by someone who read it as l's.
MayMerge(l) ==
  \/ "merge" \in mix.overlap
  \/ /\ \A w \in Workers : worker[w].at \in {"files", "write"} => worker[w].product # l
     /\ request.kind \in Choices => request.product # l

Moved(rows, s, l) ==
  LET chosen == \E i \in ImagesOf(rows, s) : rows[i].pinned
      moving == {i \in ImagesOf(rows, l) : Unseen(rows[i].upload, s, FALSE)}
  IN [i \in DOMAIN rows |-> IF i \notin moving THEN rows[i]
        ELSE [rows[i] EXCEPT !.product = s, !.pinned = @ /\ ~chosen]]

Merge(s, l) ==
  /\ s # l /\ s \notin gone /\ l \notin gone /\ Free(s) /\ Free(l) /\ MayMerge(l)
  /\ image' = Moved(image, s, l)
  /\ main' = [main EXCEPT ![s] = IF @ = 0 THEN Primary(image', s) ELSE @, ![l] = Primary(image', l)]
  /\ gone' = gone \cup {l}
  /\ UNCHANGED <<proposal, request>> /\ KeepQueue

-----------------------------------------------------------------------------
May(kind) == kind \in mix.kinds

Sends ==
  \/ \E u \in Uploads :
        \/ May("add") /\ \E x \in Products : AddPhoto(x, u)
        \/ May("propose") /\ \E kind \in {"user_photo", "vendor_listing"} : Propose(u, kind)
        \/ May("answer") /\ AnswerPhoto(u)
  \/ \E i \in Photos :
        \/ May("mask") /\ (AddMask(i) \/ AnswerCutout(i) \/ CloseCutout(i))
        \/ May("answer") /\ AnswerAgain(i)
        \/ May("retry") /\ (RetryReads(i) \/ Retry(i))

Asks ==
  \/ May("choose") /\ \E i \in Photos, choice \in Choices : ChooseReads(i, choice)
  \/ May("propose") /\ (Reject \/ \E x \in Products : AcceptReads(x))
  \/ May("merge") /\ \E s, l \in Products : Merge(s, l)

Answers ==
  \/ ChooseWrites
  \/ request.kind = "accept" /\ \E hides, labels \in SUBSET DOMAIN request.read, chosen \in Photos \cup {0} :
        AcceptWrites(hides, labels, chosen)
  \/ RequestFails

WorkerStep(w) == Claim(w) \/ ReadFiles(w) \/ CannotRead(w) \/ DiskFails(w) \/ Write(w) \/ Unlink(w)

Next == Sends \/ Asks \/ Answers \/ \E w \in Workers : WorkerStep(w) \/ Crash(w)

Spec == Init /\ [][Next]_vars

-----------------------------------------------------------------------------
(* Properties.                                                             *)

Rows == [upload : Uploads, product : Products \cup {None}, proposed : BOOLEAN,
         kind : {"user_photo", "vendor_listing"}, role : {"product", "label_front"},
         status : {"processing", "candidate", "active", "hidden", "failed"}, prepared : BOOLEAN,
         mask : 0 .. MaxMasks, pinned : BOOLEAN, given : 0 .. MaxMasks, hid : BOOLEAN]

JobRows == [image : Photos, status : {"pending", "running", "done", "failed"},
            attempts : Nat, error : {"none", "io_error", "unreadable", "upload_missing"}]

TypeOK ==
  /\ image \in Seq(Rows) /\ Len(image) <= MaxImages
  /\ \A i \in Photos : image[i].product # None \/ image[i].proposed
  /\ main \in [Products -> Photos \cup {0}]
  /\ jobs \in Seq(JobRows) /\ Len(jobs) <= MaxJobs
  /\ incoming \subseteq Uploads /\ retrying \subseteq Photos /\ gone \subseteq Products
  /\ waiting \in [1 .. MaxImages -> [Sources -> 0 .. MaxMasks]]
  /\ asked \in [1 .. MaxImages -> {"no", "open", "sent"}]
  /\ proposal \in {"none", "pending", "decided"}
  /\ masks \in 0 .. MaxMasks /\ faults \in 0 .. MaxFaults

\* A product shows a photo if it has one to show, and only one of its own that is
\* shown, whatever workers, choices, acceptances and merges do to its photos at
\* once; but for a merge of a product one of whose photos is being prepared or chosen,
\* for a job that fails after another has prepared its photo, and for a retry that
\* another retry and its job overtake.
MainIsShown ==
  mix.overlap \cap {"merge", "fails", "retry"} = {} =>
    \A x \in Products : LET shown == {i \in ImagesOf(image, x) : Eligible(image[i])} IN
      IF shown = {} THEN main[x] = 0 ELSE main[x] \in shown

\* "The newest mask wins": once a photo's jobs are done, its cutout is made from the
\* last mask sent, from whichever source and however many waited; but for a mask sent
\* while the photo is being worked on, or with a photo its proposal has already.
NewestMaskWins ==
  mix.overlap \cap {"mask", "again"} = {} =>
    \A i \in Photos :
      (\A j \in Jobs : jobs[j].image = i => jobs[j].status = "done")
        => image[i].mask = IF image[i].given \in PoorMasks THEN 0 ELSE image[i].given

\* A photo a person hid, on its product's page or while accepting, is not shown until
\* a person shows it again, whatever jobs, masks and merges follow; but for one hidden
\* while accepting that was not prepared by then, a job that fails after another has
\* prepared its photo, and a retry that another retry and its job overtake.
HiddenIsNotShown ==
  mix.overlap \cap {"hide", "fails", "retry"} = {} =>
    \A i \in Photos : image[i].hid => image[i].status # "active"

\* No photo is left behind: one being prepared has a job that will be run, one a
\* proposal brought to a product is not still a candidate, and none fails because its
\* file is gone, through crashes and disk errors, also when the same file was sent
\* for two products and the first job removed it; but for two workers at the same
\* file at once, and an acceptance of a photo while a worker writes it.
NoneLeftBehind ==
  mix.overlap \cap {"twin", "accept"} = {} =>
    /\ \A i \in Photos :
         /\ image[i].status = "processing" => \E j \in Jobs : jobs[j].image = i /\ jobs[j].status \in {"pending", "running"}
         /\ image[i].status = "candidate" => image[i].product = None
    /\ \A j \in Jobs : jobs[j].error # "upload_missing"
=============================================================================
