# kitchen-erp: verification of receipts, the price book and what lives off them

kitchen-erp keeps a household's groceries: photos of receipts become purchases,
purchases put prices in an append-only price book, and recipes, shopping lists
and trip plans live off those prices. This directory holds TLA+ specifications of
its stateful core (receipts and their reading, the price book, re-reads, shopping
lists and trips, product proposals and photos, derived prices), the TLC
configurations that check them on small instances, and proofs that TLAPS checks
for every value of the constants.

Paths are relative to the repository's `backend/app/` unless they start with
`docs/` or `backend/`.

## 1. The system

### Components

| Component | State it keeps | Operations | Modelled by |
|---|---|---|---|
| Receipt intake, ingest queue, removal (`worker.py`, `ingest/stages.py`, `ingest/draft.py`, `services/ingest.py`, `services/removal.py`) | photo files; `receipt_document`, `ingest_job` (stage, status, attempts, lock, purchase) and stage results | upload and revive; claim, five stages, retry with backoff, lock lapse; retry, enter by hand; remove, restore, late photo deletion | `ReceiptLifecycle` |
| Review and price book (`services/resolution.py`, `review.py`, `purchases.py`, `pricebook.py`, `waiting_lines.py`) | `purchase`, `purchase_line`, `price_observation` and its voids | draft, resolve, edit, decide, commit, reopen, entry form, withdraw, match waiting lines | `PriceBook` |
| Row locks of requests (all of the above) | which transaction holds which row | every `SELECT ... FOR UPDATE`, update and delete of a purchase, job or line | `RowLocks` |
| Product merge (`services/product_merge.py`) | `product.merged_into_id` | merge, one level deep | `PriceBook` (links and lines), `ProductPhotos` (photos), `DerivedPrices` (norms and costs) |
| CSV importer (`services/importer.py`) | purchases of source `import` | draft, resolve, commit | `PriceBook` (`ImportDraft`, `Commit`) |
| Re-reading older receipts (`services/reread.py`, `ingest/reread.py`) | `line_reread` | request, claim, propose, apply, dismiss | `Reread` |
| Shopping lists (`services/shopping_lists.py`, list routes of `api/plan.py`) | lists, items, claims | open, add, add a recipe's, edit, check, claim, remove, archive and renew | `ShoppingList` |
| Trip planner and stops (`services/trip_planner.py`, `trip_stops.py`) | plans, variants, stops, stop items | plan, choose, abandon, delete, edit a price, get here, done here | `TripStops` |
| Product proposals and captures (`services/proposals.py`, `page_captures.py`, `identify.py`) | `product_proposal`, `product_identifier` | capture, edit, accept, reject, page job, lookup answer, scan | `ProductProposals` |
| Product photos (`services/product_photos.py`, `product_jobs.py`) | `product_image`, `product_job`, files under `incoming/`, a product's main photo | add, prepare, mask, choose, hide, retry, accept, merge | `ProductPhotos` |
| Recipes and costing (`services/recipe_costing.py`, `recipe_cost_triggers.py`) | cost lines, pins, snapshots | recost on every change that reaches a recipe | `DerivedPrices` |
| Units and conversion (`units/convert.py`, `services/units.py`, `packs.py`), normalised prices (`services/pricebook.py`) | `price_norm` | convert, recompute | `Conversion`, `DerivedPrices` |
| Lookups (`services/lookups.py`) | `lookup_request` | queue, offer, answer | the answers only: `ProductProposals!Answer`, `ProductPhotos!AnswerCutout`, `AnswerPhoto` |
| Catalog, brands, vocabulary | products, ingredients | edit, merge | `DerivedPrices`, as far as it reaches derived figures |
| Naming, flyers, batches, identity, maps, backup, OCR and model prompts, HTTP routes, frontend | reference data, I/O | | not modelled (section 9) |

### How they interact

Everything meets in PostgreSQL. A request runs in one or several transactions;
`kerp worker` processes poll the `ingest_job`, `line_reread` and `product_job`
tables, mark a row `running` in one transaction, work outside any lock, and write
what came of it in a second one. A purchase is changed under its row lock
(`get_purchase(..., lock=True)`), a job under its own; lists and items are read
and written without locks, and proposals found before they are locked. These
links tie the components together:

- `ingest_job.purchase_id`: which purchase a receipt was read into. Upload clears
  it (a revived receipt starts over), the lines stage and entering by hand set it,
  a removal that deletes clears it.
- `line_reread.purchase_id` with a fingerprint of the lines it was made from: what
  a proposal of a re-read may be applied to.
- `price_observation.purchase_line_id`: where a price came from. Observations are
  append-only: a price is taken out by a void row, never deleted, so a line and a
  purchase with an observation behind them must stay.
- `product.merged_into_id`: the views report a price under the product its own
  product was merged into, following one link. Photos, norms and costs move with
  the merge.
- `price_norm` and `recipe_cost_snapshot`: what is worked out from the price book
  and stored; each change of a price, product, ingredient or recipe has to find
  the rows it reaches.
- `trip_plan_stop_item.shopping_list_item_id`: what "Done here" checks off.
- `product_proposal` to `product_image`: photos a proposal brought, which accepting
  attaches to a product while a worker may be preparing them.

### What is hard here

1. **Between the transactions.** A stage, a re-read and a photo's preparation run
   for seconds or minutes on rows loaded before; removal deletes the photo after
   its commit; a product that gains a code matches waiting lines in three
   transactions. Whatever happens in between must be seen by the second half.
2. **Leases.** A running row whose lock is older than its timeout is claimed
   again; nothing renews the lock.
3. **Paths to the same rows.** A purchase can be a draft of a reader, of a person
   or of an import; be committed early, reopened, removed, restored, and its
   receipt sent in again. Each service checks the few conditions it thought of.
4. **Append-only records.** Commit must void and re-record what changed and
   nothing else, after any history of edits, decisions, withdrawals and merges.
5. **Reads without locks.** Two phones share a list and a plan; two captures share
   a page or barcode. Unique indexes, `updated_at` and retries are what is left.
6. **Reaching what is stored.** A derived figure that no trigger reaches stays
   wrong for ever.
7. **Lock order.** Two requests about one receipt lock the same three rows.
8. **Crashes.** A worker or request may stop between any two transactions, and
   files are not part of a transaction.

`PROJECT.json` lists each of these as hazards at the line where it bites, with the
properties that would notice it, or the reason there is none.

### What makes each component correct

- *Receipts*: one reader per job; a draft is always reachable from its job; a
  receipt that was not discarded has its photo; a receipt reaches the price book
  once; a committed one is no longer offered, a removed one can be read again; a
  receipt being read does not stay that way for ever.
- *Price book*: at most one live price per line, none for a line or purchase taken
  out; a committed purchase's prices say what its lines say; untouched lines keep
  their prices on recommit; what was recorded keeps its provenance; merges stay
  one level deep.
- *Locks*: no set of transactions waits for itself.
- *Re-reads*: one open per purchase, one reader per row; a proposal is applied only
  to the lines it was made from; a decision stands; every reading ends.
- *Lists and trips*: a kitchen has one open list; archiving carries every unchecked
  row over once; an edit replaces what its author saw; an item is bought once per
  plan, an edited price is recorded, a plan ends with its last stop, a chosen plan
  is kept.
- *Proposals*: one pending per page or barcode; a decision stands; what is
  superseded is superseded for another; an accepted barcode has one owner.
- *Photos*: a product with photos shows one of its own; the newest mask is used;
  what was hidden stays hidden; no photo is left half prepared.
- *Derived figures*: each is what rebuilding everything would give.

## 2. The modules

| Module | What it is |
|---|---|
| `ReceiptLifecycle` | the detailed specification of receipts, jobs, workers and purchases' standing |
| `ReceiptPromise` | what a person is promised about each receipt; `ReceiptLifecycle` implements it (`KeepsPromise`) |
| `PriceBook` | lines and observations of one purchase, product links, waiting-line match |
| `RowLocks` | two-phase locking of the rows behind one receipt |
| `Reread` | re-reads of purchases, their workers, and what people do meanwhile |
| `ShoppingList` | one kitchen's lists and items, requests that load and then write |
| `TripStops` | extends `ShoppingList` with plans, stops and what they record |
| `ProductProposals` | proposals, barcodes and overlapping transactions |
| `ProductPhotos` | photos, their jobs, workers, masks and the main photo |
| `Conversion` | pure operators: a quantity in the unit its ingredient is counted in |
| `DerivedPrices` | extends `Conversion`: the facts, `price_norm` and cost snapshots, every trigger |
| `MC...` | constants, symmetry sets and mixes for TLC |
| `...Proofs` | theorems and proofs |

`ReceiptLifecycle` and `PriceBook` look at the same purchase from two sides. The
first keeps several purchases and jobs and reduces the lines to three bits
(`resolved`: some line names a product; `recorded`: some line ever had a price;
`live`: some price counts). The second keeps one purchase with its lines and
prices and reduces the receipt's job to where it stands (`job`). An action that
appears in both (Commit, RemoveVoiding, Restore, DecideLine, ...) has the same
guards on the shared part. `Reread` sees a purchase as its status, whether it was
ever recorded, and a count of changes of its lines, which stands for their
fingerprint.

An operator that is used nowhere and stands directly before another one with the
same parameters (`NeverWasRemoved` before `PurchaseWasRemoved`) is a plausible
mistake in it. `PROJECT.json` pairs each with the property that notices it, which
shows that the property can fail.

### ReceiptLifecycle

| Variable | In the code |
|---|---|
| `photo[d]` | the file under `receipts_path` |
| `job[d]` | the `ingest_job` row: `stage`, `status` (`absent` before the first upload), `attempts`, `due` (`next_attempt_at` has passed), `purchase` |
| `purchase[p]` | the `purchase` row: status, its document, source `manual` or not, and the three bits |
| `worker[w]` | the process: the job it claimed, the row as it loaded it (`seen`), and where it is |
| `unlinking[d]` | removals of d that have committed and not yet deleted the photo |
| `faults`, `uploads` | bounds |

One action is one transaction. A worker's stage is `Claim`, then one of
`ReadText` (stages captured, ocr, header), `CreateDraft` (lines), `ResolveLines`
followed by `ResolveDone` (`resolve_purchase` commits before the stage does),
`StageFails`, `ModelUnreachable` or `Crash`. `Advanced` is the row as `run_stage`
writes it: the ORM writes only the columns that changed since the worker loaded
the job, and the purchase and lock columns are not compared with anything, so
`seen` matters. `Upload` covers both a first upload and a revival. `UploadLost`
and `UnlinkLost` are the request that dies with the file written or kept.
`EditLines` stands for the review operations that change only the three bits.

### PriceBook

| Variable | In the code |
|---|---|
| `status`, `byHand`, `header` | the `purchase` row; header is vendor location and date as one value |
| `job` | the receipt's job as far as it can still run the resolve stage |
| `line[l]` | the `purchase_line` row: on, removed or not there; product; how it came to it (`choice`); amount; whether it has words to match (`worded`); the `no_price` flag (`unpriced`) |
| `book[l]` | the line's observations in order, each live, voided, or withdrawn by hand |
| `mergedInto[x]` | `product.merged_into_id` |
| `match` | the `match_waiting` request under way: lines found, or matched and not recommitted |

`Matched` is `resolve_line`: which product a line's code or words lead to is a
choice, but a product it cannot find again is dropped only if it had found it
itself. `Emit` voids what was live and appends. `Committed` is what
`commit_purchase` makes of one line, `Unchanged` its comparison (product followed
through the merge, price, header). `UpdateManual` is the whole entry form: every
line may stay, change, go or appear in one transaction.

### RowLocks

`kind[r]` is what transaction r does, `taken[r]` how many of its locks it holds;
`Program` lists the rows each kind of request locks, in order. `Take` is granted
only when nobody else holds the row, `End` commits, `Fail` rolls back.

### Reread

| Variable | In the code |
|---|---|
| `purchase[p]` | status, the count of changes of its lines, whether a price of its was ever recorded |
| `reread[n]` | the `line_reread` row: status, attempts, `due`; `saw` is the status and fingerprint it records, `made` the purchase its proposal was really made from |
| `worker[w]` | the re-read it holds and the purchase as it loaded it |
| `dismissing` | re-reads a request has read as open and is about to dismiss |
| `faults` | a bound |

A reading is `Claim`, `Load` (the purchase, in a session of its own) and `Answer`,
`NeverValid`, `Fails` or `ModelUnreachable`; the answer is written without a look at
the row or the purchase. `LoadDismiss` and `Dismiss` are two steps, `Apply` one (it
locks the purchase and compares). `ChangeLines`, `Commit`, `Reopen`, `Void`,
`Delete` and `Restore` are what happens to the purchase meanwhile, with what each
does to its open re-reads.

### ShoppingList and TripStops

| Variable | In the code |
|---|---|
| `lists`, `items` | the rows in the order of their ids; a deleted item is `gone`, an item's amounts the set of sources they add up, its claim a person or none |
| `request[u]` | the open request of u: its kind and what it loaded |
| `phone[u]` | the row u is editing, and whether its `updated_at` still holds |
| `plans` | the `trip_plan` row with two variants: each item's stop, stops done, prices edited |
| `recorded` | what "Done here" recorded: lines of purchases, prices off the shelf |
| `mix` | which requests are made and which pairs may overlap |

A request is a `Load...` and a write (`OpenList`, `AddItem`, `UpdateItem`,
`ChangeItem`, `AddFromRecipe`, `ArchiveAndRenew`, `CreatePlan`, `Choose`, `Abandon`,
`DeletePlan`, `EditPrice`, `GetHere`, `Done`), since the code reads its rows without
locking them; a second refusal or a missing row ends in `Refused`. `IndexAllows` is
the partial unique index on open lists. `Done` locks its plan's row before it loads
(`PlanUnlocked`). A recipe has finitely many lines (`LinesAreTargets`), whose items are
added one after the other. Which item is bought where is any choice the planner could
make.

### ProductProposals

| Variable | In the code |
|---|---|
| `proposal[q]` | the committed `product_proposal` row: status, the page and barcode its keys come from, whether a person chose the barcode, its product, `superseded_by` |
| `codeOwner[c]` | the product whose `product_identifier` c is |
| `txn[r]` | a transaction: its kind, step, the row it writes, those it found and supersedes |
| `mix` | which kinds of transactions there are |
| `rewritten` | decided rows an answer or a scan was written to after their decision; for the properties, read by no action |

The steps are the ones of `_supersede_others` and the write after it: `Load` (lock
and look again), `Find`, `Supersede` (wait for the locks, and keep those that are
still pending), `Write` (the unique indexes, one more try), `Commit`. What a
transaction holds locked is `Locked`; what the index waits for is `IndexWaits`.
`Abort` is any failure, a deadlock found by the database included.

### ProductPhotos

| Variable | In the code |
|---|---|
| `image`, `main` | the `product_image` rows in order; `product.primary_image_id` |
| `jobs` | the `image_process` rows of `product_job`, oldest first |
| `incoming`, `waiting`, `asked` | uploaded files; mask files by photo and source; cutout requests, open or with their mask sent and not yet closed |
| `proposal`, `gone` | the proposal's standing; products merged away |
| `worker[w]` | the job it runs, the rows it read, and how far it is |
| `request`, `retrying` | a person's choice or acceptance that has read and not yet written; failed photos a retry has read and not yet written |
| `masks`, `faults`, `mix` | bounds; which requests there are and which may overlap |

A photo is prepared in four steps: `Claim` (with the first read), `ReadFiles`,
`CannotRead` or `DiskFails`, `Write` (locks the product as it was read, then the
photo, and chooses the main photo), `Unlink` (deletes the files by name). Choices of
a person (`ChooseReads`, `ChooseWrites`), acceptances (`AcceptReads`,
`AcceptWrites`) and retries (`RetryReads`, `Retry`) are two steps, and so is a mask
that answers a request, which a second transaction closes (`AnswerCutout`,
`CloseCutout`); everything else is one. Pixels are left out: all photos
are the same size and none is a likely stock photo. A job may outlast its lock
(`lapse`); then a second worker prepares the photo meanwhile, and the first, which
still holds the status it read, may fail a photo that is on show (`MayFail`, `fails`).
`BoundsAssumption` says that the bounds are numbers and that no mix exceeds them.

### Conversion and DerivedPrices

`Conversion` is `convert` with its bridges (units alone, packs, pieces, measures of
an ingredient and their labels, density) over small fractions, with its failures.
`DerivedPrices` keeps the facts (`ingredient`, `product`, `price`, `committed`,
`spelling`, `recipe`), what is derived (`norm`, `cost`) and `due`, the catalog changes
that are committed and whose recompute, a transaction of its own, has not run. `today` is
the day an average looks back from; `DayPasses` works nothing out again.
`Norm(o)` and `CostOf(r, b)` are what a rebuild would give; each action works out
only the rows the code's own query finds (`recompute_for_product`,
`recompute_for_ingredient`, the functions of `recipe_cost_triggers`). `MixesAssumption`
types what a mix may choose from (`Sightings(m)` are the rows of the price book there
may be). `Foreseen(m)` says what the triggers take for granted of a mix to keep norms
right, `CostsForeseen(m)` what they take for granted besides to keep costs right; TLC
evaluates both of each mix of the run `derived` (`AllAreForeseen`).

## 3. Switches and mixes

Some behaviours are disagreements between the code and its documents, or are
overlaps that nothing in the code guards against (section 6). Each has a switch, so
that a run can state what holds *but for* it; the switch is on in the runs whose
properties hold anyway.

| Constant | TRUE means |
|---|---|
| `SlowResolve` | the resolve stage may outlast the lock. The other stages are bounded below it: the header and lines stages to 0.8 of it, the converters and the transcriber to 550 s of 600 |
| `EarlyCommits` | a person may commit a draft whose job is still being read or has failed; Home does not offer it, the route allows it |
| `StaleChoices` | a product merged away meanwhile may still be picked |
| `LateMatches` | a committed purchase's line may be matched outside a commit (a late resolve stage, re-resolve, a waiting-line match that stops halfway) |
| `Imports` | there are imported purchases, some lines of which have no price |
| `Kinds` | the kinds of transactions in `RowLocks`; without `"convert"` the lock order holds |

The later modules make this choice inside a behaviour. `mix` is chosen once from
`Mixes` and says which requests are made and, in `racing` or `overlap`, which may meet
in a way the code does not guard against. A property names the overlaps it does not
survive, and is checked in every mix that has none of them; so each is stated with
its own exceptions, and every other overlap stays in. `Reread` and `ProductProposals`
leave no overlap out: their properties say what of a decision survives them all.

## 4. Runs

| Run | Instance | Shows |
|---|---|---|
| `receipt_one` | 1 receipt, 2 workers, 3 purchases, 3 uploads, 2 attempts, 1 fault, early commits | types and the five lifecycle properties that hold with nothing but `SlowResolve = FALSE` |
| `receipt_settled` | 2 receipts, 1 worker, 2 purchases, 3 uploads, 1 attempt, 1 fault, no early commits, fairness | once per receipt, not offered after commit, readable after removal, `KeepsPromise`, and reading ends |
| `book_all` | 2 lines, 1 product, 1 observation each, all switches on | live means bought; provenance, also when only one of two lines was recorded |
| `book_kept` | 1 line, 3 products, 2 prices, 2 headers, 2 observations, switches off | one live price, merges, committed prices agree, untouched prices stay |
| `locks` | 4 transactions, all kinds but convert; deadlock checked | no circular wait |
| `reread` | 1 purchase, 2 re-reads, 2 workers, 2 attempts, 1 change, 1 fault, fairness | one open, one reader, applied to what it saw, what was applied is never offered again and what was dismissed only by a reading under way, reading ends |
| `trips` | 2 people, 2 things to buy, 1 recipe, 1 plan of 2 variants with up to 2 stops, 7 mixes | one open list, carrying over, edits, buying once, edited prices, the end of a plan |
| `proposals` | 2 transactions, 3 proposals, 1 page, 2 barcodes, 2 products, 9 mixes | one pending per key, decisions, superseding, ownership of barcodes |
| `photos` | 2 products, 2 files, 2 workers, up to 3 photos, 4 jobs, 2 masks, 1 fault, 12 mixes | a main photo, the newest mask, hidden stays hidden, nothing left behind |
| `derived` | 2 ingredients, 2 products, 2 prices, 2 days, 1 recipe, 7 mixes | norms and costs are what a rebuild would give |
| `receipt_twice_in_book`, `figures_left_behind` | | section 6 |

**Why the bounds are enough.** Three purchases and three uploads let one receipt go
through read, remove, send in again, read, restore attempt, and enter by hand. Two
workers is what a collision takes. Two attempts give a failure that is retried and
one that is final. One fault can be put anywhere: each property is about one
interrupted request at a time. In `PriceBook` two observations are a price and its
replacement, three products are a merge into a merged product; two prices and two
headers are needed for a change and a change back. A line depends on the others
only through the purchase's standing and the lines matched with it, which the two
lines of `book_all` cover; there one observation each is enough, since being
recorded is what its properties turn on. In `RowLocks` a circle over three rows
needs at most three transactions. In `Reread` two re-reads are one dismissed and a
new one, and one change of the lines is what a fingerprint has to notice. In
`TripStops` two stops are a first and a last, three rows a list archived while
another is made (four where archivings overlap). Three proposals are one that is
written, one it supersedes and one that comes between. Three photos of two products
are a product with a choice and a survivor of a merge; two masks an older and a
newer, the poor one being either. In `DerivedPrices` two ingredients and products are
a merge or a move, two prices an average and a latest.

The mixes keep each instance small. They leave out the meeting of kinds of requests
that touch no common state in the code, and each includes what a property's
exception names or the property would never be tried without it. The values in the
mixes of `derived` are the ones on which `convert` takes a path of its own.

No run but `locks` checks for deadlock: uploads, purchases, rows and observations are
bounded, so the models stop where the bounds do.

**Symmetry** is used for workers, lines, products, prices, headers, people, ids of
proposals, barcodes, uploads and ingredients, only in runs without liveness.
Purchases are ordered ids and are not symmetric.

## 5. Fairness

`ReceiptLifecycle` assumes that a worker that has claimed a job goes on with it or
fails (every model request, converter and OCR run has a timeout), that backoff
passes (it is wall-clock time), and, strongly, that a job claimable again and again
is claimed (the claim takes the oldest of those part-read first). Nothing is
assumed about people, and crashes are allowed. `ReadingEnds` then holds although a
receipt part-read is always preferred to a new one: the preferred one ends too.

`Reread` assumes the same of its workers: each goes on claiming while something can
be claimed, and ends what it claimed; backoff passes. A worker turns to re-reads
only when no receipt waits (`worker.py` runs receipts first), so this assumes that
receipts do not arrive faster than they are read for ever, which is what
`ReadingEnds` and a household's pace give. The other modules state no liveness.

## 6. Where code and documents disagree

Two runs in which TLC finds the property violated; `PROJECT.json` quotes the
documents.

| Run | Property | What happens |
|---|---|---|
| `receipt_twice_in_book` | `OncePerReceipt` | a draft is committed while its job is still resolving; the job fails or waits for review; Enter by hand makes a second purchase, and both count |
| `figures_left_behind`, mix `across` | `FiguresRebuild` (norms) | a product priced by weight is merged into one whose ingredient is measured by volume; the recompute skips prices observed in a canonical dimension, and their norms stay per gram |
| `figures_left_behind`, mix `alike` | `FiguresRebuild` (norms) | an ingredient counted in ml is given a measure named "cup"; `convert` tries measures before units, but the recompute skips prices seen per cup, which crossed no bridge ("Same-dimension observations depend on nothing", `services/pricebook.py:157`) |
| `figures_left_behind`, mix `pieces` | `FiguresRebuild` (norms) | the pieces of a pack, counted before, are given a name by a request that says nothing else; `piece_name` is not among the fields after which `update_product` recomputes, and a price seen per piece keeps its row without a norm |
| `figures_left_behind`, mix `retired` | `FiguresRebuild` (costs) | a product that has prices is deactivated; prices of inactive products do not qualify, but `set_product_active` recomputes no recipe |
| `figures_left_behind`, mix `strayed` | `FiguresRebuild` (costs) | a product whose price is in an average, and not its latest, moves to another ingredient; the recompute finds the recipes of the new ingredient and those whose snapshot names the product, and an average names the product of its latest price only |
| `figures_left_behind`, mix `aged` | `FiguresRebuild` (costs) | an average is over the prices of a window counted back from the day it is worked out (`services/recipe_costing.py:173-183`); days pass, nothing works a stored average out again, and a rebuild leaves out a price grown too old |

Each of the six mixes violates the property on its own; TLC reports a shortest
behaviour when it has them all. The first three are what `Foreseen` excludes, the last
three what `CostsForeseen` excludes besides, and they are all that is excluded.

The switches and mixes show more, which no run states on its own. With the switch or
overlap let in, TLC finds each of these.

*Receipts and the price book.*
- `EarlyCommits` also breaks `CommittedIsNotOffered` (the job of a draft committed
  early becomes ready for review) and `RemovedCanBeReadAgain` (after a removal, an
  upload of that file is answered as already seen).
- `SlowResolve` breaks `OneReaderPerJob`, and through it most of what a receipt is
  promised: `ReadsIntoNewDraft`, `PhotoOfLiveReceipt`, `OncePerReceipt`,
  `CommittedIsNotOffered`, `RemovedCanBeReadAgain` and `KeepsPromise`. A resolve stage
  that outlasts its lock ends after another worker has taken the job on and a person
  has committed the draft; its late `ResolveDone` puts the job of the committed
  purchase back to `needs_review`, and entering by hand then makes a second purchase
  of that receipt. `NoOrphanDraft` was not seen to break; `VoidedCountsNothing` is
  proved with the switch on.
- `LateMatches` breaks `CommittedAgrees`: a line matched after its purchase was
  committed has a product, no price, and is in no queue. `match_waiting` looks at a
  purchase's status in another transaction than it writes in, so it may also commit
  a purchase a person reopened, or change the lines of one removed meanwhile.
- `Imports` breaks `UnchangedKeeps`: the entry form records a price for a line
  flagged as having none, and the next commit voids it. So does `StaleChoices`: a
  line decided with a merged-away product is voided and recorded again by every
  recommit.
- A product chosen while adding a line does not survive correcting its wording.
- `"convert"` breaks `NoCircularWait`: entering by hand locks job, lines, purchase; a
  removal locks purchase, job, lines (`services/removal.py:247-249` says they agree).

*Re-reads.* `dismiss` reads the status without a lock, and a worker writes its answer
without looking at it. So the answer of a reading under way overwrites a dismissal, and
the dismissed re-read is offered after all; and a dismissal that read the status before
an apply committed marks the applied proposal as dismissed, though its lines were
replaced ("Discarding closes the proposal (`dismissed`) and changes nothing",
`docs/spec/04-phase-2-purchases-and-price-book.md:626`). `DecidedStands` says that
nothing else happens to a decision.

*Lists and trips.* Folding a recipe into a row changes its amounts and not its
`updated_at`, so a PATCH made before drops them (`docs/spec/17` lines 166-167). A row
added, removed or checked while its list is archived is left behind or comes back.
"Done here" checks off items of an archived list, not their copies. "Get here"
overlapping "Done here" buys an item twice or loses its edited price; a plan chosen
twice at once loses the first choice.

*Proposals.* `lookups.answer` looks at a proposal's status before it locks it and
not after: an answer may be written to a proposal decided meanwhile, and likewise a
barcode found in a photo. `DecidedStands` bounds what it does: the row keeps its status,
page and product, and only its barcode changes. Two things follow, which
`SupersededForAnother` and `AcceptedIsCatalogued` name: pending proposals of that
barcode may be superseded for the decided one, and an accepted proposal may name a
barcode its product does not have.

*Photos.* Eight overlaps, by the name they have in `mix.overlap`: a product merged away
while one of its photos is prepared or chosen leaves the survivor without a main
photo (`merge`); a mask sent while its photo is worked on is deleted unread (`mask`),
and one that comes with a photo the proposal has already is never applied (`again`);
a photo hidden while accepting, not yet prepared, is shown later (`hide`); two
workers at two photos of one file fail the second (`twin`); a photo that a worker
writes as a candidate while an acceptance that read it as being prepared commits stays
a candidate (`accept`). A job that fails after another worker has prepared its photo
makes the photo on show a failed one (`fails`): `run_job` compares the status it read
when it began. It takes a job that outlasts its lock (`lapse`), or a disk error followed
by a mask; the proof of `MainIsShown` turned it up, since the step of a failing job
keeps nothing without that assumption. Jobs take seconds and the lock minutes. Two
retries of one failed photo may overlap (`retry`): `retry` reads the status and writes
it later, so the second puts a photo that the first one's job has prepared, and that
may be on show or hidden by now, back to being prepared. A crash between the two
transactions of `answer_cutout` leaves a request open whose mask is there; a mask sent
again is one mask more.

*Derived figures.* Besides the six mixes, these leave a stale cost too, by changes the
model has not: activating a location, a quality, a yield, and
`confirm_density_override`.

## 7. What is proved

For any number of receipts, purchases, workers, lines, products, prices, re-reads,
proposals, photos, lists, plans, requests and transactions and any bounds, checked by `tlapm`:

| Theorem | Statement |
|---|---|
| `ReceiptLifecycleProofs!TypeCorrect` | `Spec => []TypeOK` |
| `ReceiptLifecycleProofs!WorkersNeverCollide` | `Spec => []OneReaderPerJob`, assuming `SlowResolve = FALSE` |
| `ReceiptLifecycleProofs!StandingsAreHonest` | `Spec => []VoidedCountsNothing` together with the fact that a reader's draft was never recorded |
| `ReceiptLifecycleProofs!ReceiptsAreReadAfresh` | `Spec => []ReadsIntoNewDraft`, assuming `SlowResolve = FALSE` |
| `ReceiptLifecycleProofs!DraftsAreReached` | `Spec => []NoOrphanDraft`, assuming `SlowResolve = FALSE` |
| `ReceiptLifecycleProofs!PhotosAreThere` | `Spec => []PhotoOfLiveReceipt`, assuming `SlowResolve = FALSE` |
| `ReceiptLifecycleProofs!BookTakesReceiptOnce` | `Spec => []OncePerReceipt`, assuming `SlowResolve = FALSE` and `EarlyCommits = FALSE` |
| `ReceiptLifecycleProofs!OnlyDraftsAreOffered` | `Spec => []CommittedIsNotOffered`, assuming `SlowResolve = FALSE` and `EarlyCommits = FALSE` |
| `ReceiptLifecycleProofs!RemovedAreReadAgain` | `Spec => []RemovedCanBeReadAgain`, assuming `SlowResolve = FALSE` and `EarlyCommits = FALSE` |
| `ReceiptLifecycleProofs!RecordsKeepTheirPurchase` | `Spec => RecordedIsNeverDeleted`, assuming `SlowResolve = FALSE` |
| `ReceiptLifecycleProofs!PromiseIsKept` | `Spec => KeepsPromise`, assuming `SlowResolve = FALSE` and `EarlyCommits = FALSE`: the refinement of `ReceiptPromise` |
| `PriceBookProofs!TypeCorrect` | `Spec => []TypeOK` |
| `PriceBookProofs!OnePricePerLine` | `Spec => []OneLivePerLine` |
| `PriceBookProofs!OnlyBoughtCounts` | `Spec => []LiveIsBought` |
| `PriceBookProofs!ProvenanceStays` | `Spec => []ProvenanceKept` |
| `PriceBookProofs!MergesOneDeep` | `Spec => []MergedOneLevel` |
| `PriceBookProofs!RecommitKeeps` | `Spec => UnchangedKeeps`, assuming `StaleChoices` and `Imports` are `FALSE` |
| `PriceBookProofs!BookSaysWhatLinesSay` | `Spec => []CommittedAgrees`, assuming all three switches `FALSE` |
| `RowLocksProofs!TypeCorrect` | `Spec => []TypeOK` |
| `RowLocksProofs!NeverDeadlock` | `Spec => []NoCircularWait`, assuming `"convert" \notin Kinds` |
| `RereadProofs!TypeCorrect` | `Spec => []TypeOK` |
| `RereadProofs!OneIsOpen` | `Spec => []OneOpenReread` |
| `RereadProofs!OneReads` | `Spec => []OneReader` |
| `RereadProofs!AppliesWhatItSaw` | `Spec => AppliedToWhatItSaw` |
| `RereadProofs!DecisionsStand` | `Spec => DecidedStands` |
| `ProductProposalsProofs!TypeCorrect` | `Spec => []TypeOK` |
| `ProductProposalsProofs!OneIsPending` | `Spec => []OnePendingPerKey` |
| `ProductProposalsProofs!DecisionsStay` | `Spec => DecidedStands` |
| `ProductProposalsProofs!NothingIsLost` | `Spec => SupersededForAnother` |
| `ProductProposalsProofs!AcceptedKeepTheirCode` | `Spec => []AcceptedIsCatalogued` |
| `TripStopsProofs!OneListIsOpen` | `TripSpec => []OneOpenList` |
| `TripStopsProofs!ItemsAreBoughtOnce` | `TripSpec => []OncePerPlan` |
| `TripStopsProofs!PlansEndWithStops` | `TripSpec => []PlanEndsWithStops` |
| `TripStopsProofs!EditsAreRecorded` | `TripSpec => []EditedIsRecorded` |
| `TripStopsProofs!ChosenPlansAreKept` | `TripSpec => ChosenIsKept` |
| `TripStopsProofs!NothingIsLeftOnTheList` | `TripSpec => []CarriedForward` |
| `TripStopsProofs!EditsKnowTheirRow` | `TripSpec => PatchKnowsRow` |
| `ProductPhotosProofs!TypeCorrect` | `Spec => []TypeOK` |
| `ProductPhotosProofs!MainShown` | `Spec => []MainIsShown` |
| `ProductPhotosProofs!HiddenStays` | `Spec => []HiddenIsNotShown` |
| `ProductPhotosProofs!NoPhotoLeft` | `Spec => []NoneLeftBehind` |
| `ProductPhotosProofs!NewestMask` | `Spec => []NewestMaskWins` |
| `DerivedPricesProofs!NormsAreRebuilt` | `Spec => []NormsRebuild`, assuming that every mix is `Foreseen` |
| `DerivedPricesProofs!CostsAreRebuilt` | `Spec => []CostsRebuild`, assuming that every mix is `CostsForeseen` |

*Assumptions.* The named `ASSUME`s of the modules (purchase ids are numbers, the
attempt limit is positive, a line may have at least one observation, days are numbers
and prices are bounded in number, `None` is no id or row), which TLC evaluates in every run, and the switch named in the theorem. The first five
`PriceBook` theorems name none: they hold with late matches, stale choices and
imports.

*Arguments.* `OneReaderPerJob` is not inductive on its own. The strengthening says
that a busy worker's job row still has the stage, status and purchase the worker
loaded. Each request that changes a job is refused while it runs, except a claim,
which needs the lock to have lapsed; without `SlowResolve` it lapses only when no
worker holds the job. A purchase reaches a job only through its own worker.
`VoidedCountsNothing` needs that whatever sets `live` sets `recorded` and is
refused on a removed purchase.

The other lifecycle theorems share one strengthening (`Kept`): a job leads to a
purchase of its own receipt once its lines are read and to none before, the photo is
stored unless the receipt is discarded, a reader's draft is where its receipt's job
leads, and a purchase that is gone has no record. It needs one reader per job,
because a worker writes back what it loaded. Without early commits also `Settled`: a
job whose purchase went past a reader's draft is done, and every open purchase is
where its receipt's job leads. `PromiseIsKept` then rests on one fact: of a
receipt's purchases only the one its job leads to can have prices that count. The
promised count is thus 0 or 1, and every transaction is one promised step of one
receipt, or none.

The `PriceBook` theorems but `MergesOneDeep` rest on one inductive invariant, `Kept`.
`ProvenanceKept` alone is not inductive: entering by hand deletes a draft's lines
outright, which is safe only because a reader's draft has nothing in the book
(`DraftUnrecorded`), a fact no line of the code states. Type correctness needs that
a line on a purchase has an amount and a chosen one a product (`Sound`), and that
a committed purchase has a header, since deciding a line there records a price
without looking. Every action is then shown to do one of three things to the
prices of each line (`Moved`): leave them, end those that count, or append one to a
record none of which counts. `OneLivePerLine` and `LiveIsBought` follow from that
alone. `MergedOneLevel` depends on nothing but `MergeProducts`.

`RecommitKeeps` needs one fact more, that no line names a merged product and none
lacks a price (`LinesPlain`): a merge moves every line of the product it merges away,
and nobody chooses one. `BookSaysWhatLinesSay` is inductive with two more: the price
that counts is the last of its line (`LiveIsLast`), and no worker resolves lines of a
purchase that is committed or about to be committed again (`JobSettled`), which a
commit ensures by its guard and the start of a match by the commit before it. The
step that needs thought is a merge: what led to the loser leads to the survivor and
all else where it led before (`MergedRoots`, from `MergedOneLevel`), so a price
and its line still lead to one product.

`NeverDeadlock` rests on locks being exclusive
(`OneHolderPerRow`, itself an invariant) and on the programs: in all but convert
the purchase comes before the job and the lines, so a circle would need a
transaction that holds the job and waits for the lines and one that holds the lines
and waits for the job. Removals hold the purchase while doing the one, commits
while doing the other, and only one of them can.

The `Reread` theorems come from one inductive invariant: the rows are well typed, a
ready one was made from what it recorded (`Measured`), `OneOpenReread`, the row a
worker holds is running, dismissed or gone, so that nobody else may claim it
(`HeldRows`), and `OneReader`. The database's
unique index is what keeps a late answer from opening a row a second time;
`Measured` is what turns `apply`'s comparison with the recorded fingerprint into
`AppliedToWhatItSaw`. For `DecidedStands`: an applied row is held by no worker
(`HeldRows`), and none claims it again whatever a late dismissal makes of it
(`Applied`); and nobody but a worker that holds a dismissed row writes it (`Stands`).

The `ProductProposals` theorems come from one inductive invariant, stated of one
transaction and of two. Of one: what it will write fits the rows it found, and once
it has written, nothing pending has a key of its row but what it supersedes. Of two:
they lock different rows, what both have written shares no key, and a row one of
them is inserting is no row of the other. A transaction that looked again once it had
the lock holds a row that still waits, and any other one holds what the row says of its
decision (`Agrees`), so that a late one changes a barcode and nothing else. The partial
unique index lets a write through only when nothing pending or written has one of
its keys, which gives `OnePendingPerKey`; a decided row is changed only by who
locks it, which gives `DecidedStands`. While no late answer or scan was written to a row
(`rewritten`), its barcode is the one its acceptance gave the product (`Catalogued`).

The `TripStops` theorems on plans come from one inductive invariant: every two
open requests may meet (`Meets`), "Done here" holds its plan (`Locks`), and what a
request loaded of its plan is still true when it writes (`StillTrue`): a plan being
chosen has no choice yet; an item being edited or moved is at a stop still to do; a
stop being finished is not done, the plan is as far as it was, and nothing bought
there was bought before. Only `Done` locks, so `StillTrue` has the exceptions the
properties have: two choices meeting, or a move or an edit meeting "Done here". Items
carry no type: the proofs need that a plan's rows have their columns and no more.
`OneOpenList` needs the index alone.

`CarriedForward` comes from a second one (`ItemsInv`). Of the rows: a copy is of a row
that lives, on an earlier list that is archived, and an open list has not been carried
over. Of each request that will write (`Fits`): what it loaded are rows of its list, an
archiving's copies are of rows that were there, and, unless something may overlap an
archiving, the list an addition or a change was loaded from is still open and an
archiving has loaded every unchecked row (`StillOpen`). The copies are appended in the
order of a `CHOOSE` over a finite set; that such an order exists, and gives every row a
place of its own, is proved from well-foundedness of the naturals (`Enumerated`,
`Ordered`), by taking the least counterexample. `PatchKnowsRow` needs that
what a phone shows of a row it believes current is what the row has, and the same of
a PATCH that has loaded its row (`PatchInv`); every other request is shown to leave
amounts alone or to touch the row's `updated_at` (`Quiet`).

The `ProductPhotos` theorems rest on one description of the steps (`Steps`): what each
request, worker step and crash does to rows, jobs and files, stated once without the
code's order of assignments. `Typed` adds to the types what workers and the open request
hold. Each property then has its own strengthening, of which only the part that
needs it is conditional on the mix.
- `MainIsShown`: what a worker or a choice read of a photo's product is still so
  (`ReadRight`, `ChoiceRight`), because only an acceptance gives a photo a product and
  only a merge takes it to another. `select_primary` is a `CHOOSE` of the best rank,
  which exists since ranks are numbers below a bound (`PrimaryIs`).
- `HiddenIsNotShown`: a photo a person hid has exactly the status hidden, so that
  neither a job nor a retry has anything to bring back.
- `NoneLeftBehind`: each photo being prepared has a job to come, and a worker already at
  that job has read it as being prepared (`JobToCome`). Each photo has its file or is
  prepared, or another photo of the same file is (`FilesKept`). One worker at a time
  has to do with a file (`OneReader`); an acceptance knows which photos are candidates
  (`Candidates`).
- `NewestMaskWins`: by photo, the newest mask given is applied, or it waits and a job of
  the photo is not done; while any mask waits, the newest does. By worker, what it
  holds is the newest, and what it will delete is what waits (`MasksRight`).

`NormsAreRebuilt` begins with `Conversion`: a result that is "ok" and crossed no bridge
came from units of one dimension (or a size grade), and stays the same whatever is found
out of density, measures and packs, but for the pack of a count (`ConvertedStays`). So
the two conditions by which the recomputes select rows, "crossed a bridge or failed" and
"is a count", are enough. The invariant is then that each row is right or a recompute to
come will work it out (`RowRight`). It must say of a row to come that its condition holds
now, since a recompute looks at the row as it is, and that what is known of products and
ingredients is what the mix lets be found out (`Foreknown`). Each action either leaves a
row's context alone (`SameContext`), or covers the row by what it makes due, or works it
out. The hypothesis is what the findings of section 6 violate: no measure named like a
unit of its ingredient's dimension, merges and moves of products within one unit, no
pieces named on their own.

`CostsAreRebuilt` rests on the norms' invariant, because the rows under a snapshot that
no recompute will reach must be right already, or working them out would change it
(`RowsAreRight`), and on a second invariant, `CostsRight`, of what a stale snapshot
still names. A snapshot was not asked for; or a recompute to come will reach its recipe
(`CostToCome`), since it or its line names a product that changed, or the line is for an
ingredient that changed or for the ingredient of such a product; or it is what the
prices that are settled give (`Settled`). Where products move, the prices of a product
whose recompute is due are left out of these, because a price has then left one
ingredient and come to another before any cost is worked out. A recompute finds the
snapshots that name the product, hence those it does not find were right over the other
prices: the latest of some prices stays the latest of fewer that still include it
(`LatestOfFewer`, `CostOfFewer`). That is not so of an average, which names one product
and counts all, and which grows old by itself; hence the hypothesis about averages: none
where products move or days pass, and elsewhere the day stays the same (`SameDay`). That there is a latest price at all
(the code's `ORDER BY ... LIMIT 1`, a `CHOOSE` here) is proved by a least counterexample
over a bounded number of prices on days that are numbers. `CostTyped` carries the rest:
what a line may be known for, that merges of products are one level deep, and that a mix
without averages or with retired products has no such snapshot or no bought price.

## 8. What is only model-checked

- *Liveness* (`ReadingEnds`, `ReadEnds`): temporal properties under fairness are beyond
  TLAPS.

Every other property that a passing run checks is a theorem.

## 9. What is not modelled

- *Contents.* OCR, prompts, parsers, matching by words, amounts, quantities and
  units: what a stage reads and which product a line leads to are choices. Rounding
  of decimals.
- *What was paid*, in `DerivedPrices`: a price per canonical unit keeps the quantity it is
  per. With it goes the cheapest basis, which compares what was paid; its snapshots are
  found by the same triggers, under a key of their own.
- *Two first uploads of one file at once*, which the unique digest decides.
- *Inside one transaction.* Requests of `ReceiptLifecycle` and `PriceBook` that read a
  row without its lock and then write (a few statements of `convert_to_manual`,
  `remove_failed_job`, `void_observation`) are one step, and so are a price and its
  recost in `DerivedPrices`; the hazards list has each.
- *The optimiser* of the trip planner: its plan is a choice.
- *Lookups*' queue with pauses and backoff, *naming* suggestions, idempotency keys.
- *Flyers*, whose prices live outside purchases; *batches*, a grouping of uploads;
  *identity, maps, backup, HTTP routes, frontend*: edits of reference data by one
  request, file formats, or no state of record.

## 10. Plan

1. `LeasedQueue`: the claim rule shared by the ingest, re-read, photo and naming
   queues as an abstract module that `ReceiptLifecycle`, `Reread` and `ProductPhotos`
   implement.
2. Lookups: one open request per owner, pauses and backoff, late answers.
3. `RowLocks` with products (merge and decide) and with the unlocked reads of
   `convert_to_manual` and `remove_failed_job` as steps of their own.
4. The trip planner's choice of stops against a reference definition; two
   transactions recosting one recipe at once.
