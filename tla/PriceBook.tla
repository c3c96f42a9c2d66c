---------------------------- MODULE PriceBook ----------------------------
(***************************************************************************)
(* The lines of one purchase and the prices they put in the price book:    *)
(* backend/app/services/resolution.py, review.py, purchases.py,            *)
(* pricebook.py, removal.py, waiting_lines.py, product_merge.py and        *)
(* importer.py.                                                            *)
(*                                                                         *)
(* One action is one transaction; every one of them locks the purchase     *)
(* row first.  Two things take several: a receipt is resolved by a worker  *)
(* while it is still being read, and a product that gains a code finds the *)
(* lines waiting for it, matches them and recommits their purchase in      *)
(* three transactions (match_waiting).  Which product a line's words or    *)
(* codes lead to is a choice; amount, quantity, unit and attached savings  *)
(* are one price; vendor location and date are one header.                 *)
(*                                                                         *)
(* As in ReceiptLifecycle, an operator that is used nowhere and stands     *)
(* before another with the same parameters is a plausible mistake in it.   *)
(***************************************************************************)
EXTENDS Naturals, Sequences, SequencesExt

CONSTANTS
  Lines,         \* purchase line ids
  Products,      \* catalog products
  Prices,        \* amounts a line may be priced at
  Headers,       \* vendor location and date of the purchase
  None,          \* SQL NULL
  MaxPrices,     \* bound on the observations of one line
  StaleChoices,  \* may a product merged away meanwhile still be chosen?
  LateMatches,   \* may a committed purchase's line be matched outside its commit?
  Imports        \* are there imported purchases, some lines of which have no price?

ASSUME NoneIsNoValue == None \notin Products /\ None \notin Headers
ASSUME MaxPricesIsPositive == MaxPrices \in Nat \ {0}
ASSUME SwitchesAreBoolean == {StaleChoices, LateMatches, Imports} \subseteq BOOLEAN

VARIABLES
  status,      \* the purchase's standing
  byHand,      \* its source is manual or import
  job,         \* where its receipt's ingest job is, once it has lines to resolve
  header,      \* its vendor location and date
  line,        \* line[l]: a purchase_line row
  book,        \* book[l]: the price observations of line l, oldest first
  mergedInto,  \* mergedInto[x]: the product x was merged into
  match        \* the match_waiting request under way

vars == <<status, byHand, job, header, line, book, mergedInto, match>>

-----------------------------------------------------------------------------
(* The rows.                                                               *)

Statuses == {"none", "draft", "reviewed", "committed", "voided", "deleted"}

\* "read" is needs_review and done.
Jobs == {"none", "reading", "failed", "read"}

\* How a line came to its product: by code or alias; added with one; a
\* suggestion accepted; chosen by a person; marked as no product.
ChoiceKinds == {"none", "auto", "added", "accepted", "chosen", "ignored"}

\* resolved_by is set: add_line alone leaves it empty.
Signed == {"accepted", "chosen", "ignored"}

\* worded: an item with words or a code on it, which the ladder can match.
\* unpriced: flagged as having no price to record.
LineRows == [state: {"none", "on", "removed"}, product: Products \cup {None},
             choice: ChoiceKinds, price: Prices \cup {None},
             worded: BOOLEAN, unpriced: BOOLEAN]

NoLine == [state |-> "none", product |-> None, choice |-> "none",
           price |-> None, worded |-> FALSE, unpriced |-> FALSE]

NewLine(p, w) == [NoLine EXCEPT !.state = "on", !.price = p, !.worded = w]
NewLines == {NewLine(p, w) : p \in Prices, w \in BOOLEAN}

Observations == [product: Products, price: Prices, header: Headers,
                 void: {"live", "void", "withdrawn"}]

IdleMatch == [step |-> "idle", lines |-> {}]
Matches == [step: {"idle", "found", "matched"}, lines: SUBSET Lines]

TypeOK ==
  /\ status \in Statuses
  /\ byHand \in BOOLEAN
  /\ job \in Jobs
  /\ header \in Headers \cup {None}
  /\ line \in [Lines -> LineRows]
  /\ book \in [Lines -> Seq(Observations)]
  /\ \A l \in Lines : Len(book[l]) <= MaxPrices
  /\ mergedInto \in [Products -> Products \cup {None}]
  /\ match \in Matches

Init ==
  /\ status = "none"
  /\ byHand = FALSE
  /\ job = "none"
  /\ header = None
  /\ line = [l \in Lines |-> NoLine]
  /\ book = [l \in Lines |-> <<>>]
  /\ mergedInto = [x \in Products |-> None]
  /\ match = IdleMatch

ChangedAnyhow == status \notin {"none", "deleted"}

\* ensure_not_voided
NotVoided == status \in {"draft", "reviewed", "committed"}
Editable == status \in {"draft", "reviewed"}

OnPurchase == {l \in Lines : line[l].state = "on"}

\* The product the views report x under.
Root(x) == IF mergedInto[x] = None THEN x ELSE mergedInto[x]

\* The products a person or the ladder may pick.
Choosable == {x \in Products : StaleChoices \/ mergedInto[x] = None}

\* _resolved_item: a line whose price belongs in the price book.
Priced(row) == row.state = "on" /\ row.product # None /\ ~row.unpriced

-----------------------------------------------------------------------------
(* The price book.                                                         *)

LivePrices(l) == {i \in DOMAIN book[l] : book[l][i].void = "live"}
IsLive(l) == LivePrices(l) # {}
Live(l) == book[l][CHOOSE i \in LivePrices(l) : TRUE]

\* live_observations looks at the lines on the purchase; recorded_lines and
\* _observations at every observation there ever was.
RecordedByLive(l) == IsLive(l)

Recorded(l) == book[l] # <<>>

Ended(prices, how) ==
  [i \in DOMAIN prices |->
     IF prices[i].void = "live" THEN [prices[i] EXCEPT !.void = how] ELSE prices[i]]

Void(prices) == Ended(prices, "void")

Observation(row, h) == [product |-> row.product, price |-> row.price, header |-> h, void |-> "live"]

EmitsAgain(l, row, h) == Append(book[l], Observation(row, h))

\* A line's price is recorded once what it had before no longer counts.
Emit(l, row, h) == Append(Void(book[l]), Observation(row, h))

HasRoom(ls) == \A l \in ls : Len(book[l]) < MaxPrices

-----------------------------------------------------------------------------
(* Where purchases come from.                                              *)

\* upsert_draft_purchase: what the reader made of a receipt; the store may not
\* be known yet.
CreateDraft ==
  /\ status = "none"
  /\ status' = "draft"
  /\ job' = "reading"
  /\ header' \in Headers \cup {None}
  /\ \E rows \in [Lines -> {NoLine} \cup NewLines] : line' = rows
  /\ UNCHANGED <<byHand, book, mergedInto, match>>

\* What the ladder (codes, then aliases) makes of a line: a product, a known
\* non-product, or nothing, when only a product it had found itself is dropped.
Unmatched(row) ==
  IF row.choice = "auto" THEN [row EXCEPT !.product = None, !.choice = "none"] ELSE row

Laddered(row) == {[row EXCEPT !.product = x, !.choice = "auto"] : x \in Choosable \cup {None}}

Matched(row) == {Unmatched(row)} \cup (IF row.worded THEN Laddered(row) ELSE {})

ImportedRow(p, u) == [NewLine(p, TRUE) EXCEPT !.unpriced = u]
ImportedRows == {ImportedRow(p, u) : p \in Prices, u \in BOOLEAN}

\* import_export creates and resolves a purchase in one transaction and commits
\* it in the next (Commit).
ImportDraft ==
  /\ Imports
  /\ status = "none"
  /\ status' = "draft"
  /\ byHand' = TRUE
  /\ header' \in Headers
  /\ \E rows \in [Lines -> UNION {Matched(row) : row \in ImportedRows}] : line' = rows
  /\ UNCHANGED <<job, book, mergedInto, match>>

ByHandRow(x, p) == [NewLine(p, FALSE) EXCEPT !.product = x, !.choice = "chosen"]

\* create_manual: committed at once, every line with its price.
CreateManual ==
  /\ status = "none"
  /\ status' = "committed"
  /\ byHand' = TRUE
  /\ header' \in Headers
  /\ \E rows \in [Lines -> {NoLine} \cup {ByHandRow(x, p) : x \in Choosable, p \in Prices}] :
       /\ line' = rows
       /\ \E l \in Lines : rows[l] # NoLine
       /\ book' = [l \in Lines |-> IF Priced(rows[l]) THEN Emit(l, rows[l], header') ELSE <<>>]
  /\ UNCHANGED <<job, mergedInto, match>>

Undecided(row) == row.choice \notin {"added", "chosen", "ignored"}

\* resolve_purchase, run by a worker and again if it stopped in between: what a
\* person decided stands.  It does not look at the purchase's standing.
ResolvePurchase ==
  /\ job = "reading"
  /\ \E rows \in [Lines -> UNION {Matched(line[l]) \cup {line[l]} : l \in Lines}] :
       /\ \A l \in Lines : rows[l] \in IF l \in OnPurchase /\ Undecided(line[l])
                                       THEN Matched(line[l]) ELSE {line[l]}
       /\ line' = rows
  /\ UNCHANGED <<status, byHand, job, header, book, mergedInto, match>>

ReadingEnds ==
  /\ job = "reading"
  /\ job' \in {"read", "failed"}
  /\ UNCHANGED <<status, byHand, header, line, book, mergedInto, match>>

\* retry_job, whatever became of the purchase meanwhile.
Retry ==
  /\ job = "failed"
  /\ job' = "reading"
  /\ UNCHANGED <<status, byHand, header, line, book, mergedInto, match>>

\* convert_to_manual: the reader's lines are deleted outright.
TakenByHand ==
  /\ status = "draft"
  /\ ~byHand
  /\ byHand' = TRUE
  /\ job' = "read"
  /\ line' = [l \in Lines |-> NoLine]
  /\ UNCHANGED <<status, header, book, mergedInto, match>>

-----------------------------------------------------------------------------
(* Reviewing.                                                              *)

EditHeader ==
  /\ Editable
  /\ header' \in Headers \ {header}
  /\ UNCHANGED <<status, byHand, job, line, book, mergedInto, match>>

AddLine(l) ==
  /\ Editable
  /\ line[l].state = "none"
  /\ \E row \in NewLines, x \in Choosable \cup {None} :
       line' = [line EXCEPT ![l] =
                  [row EXCEPT !.product = x, !.choice = IF x = None THEN "none" ELSE "added"]]
  /\ UNCHANGED <<status, byHand, job, header, book, mergedInto, match>>

Edited(row, p, w, u) == [row EXCEPT !.price = p, !.worded = w, !.unpriced = u]
NotItem(row) == [row EXCEPT !.product = None, !.choice = "none", !.worded = FALSE]

\* edit_line, and a saving attached, detached or changed: another price or other
\* words, and perhaps a kind that is no product.  A quantity makes a line without
\* a price one with.
EditLine(l) ==
  /\ Editable
  /\ l \in OnPurchase
  /\ \E p \in Prices, worded \in BOOLEAN, unpriced \in {FALSE, line[l].unpriced} :
       LET edited == Edited(line[l], p, worded, unpriced) IN
       \E row \in {edited, NotItem(edited)} : line' = [line EXCEPT ![l] = row]
  /\ UNCHANGED <<status, byHand, job, header, book, mergedInto, match>>

\* remove_line: a line that reached the price book is kept as its price's
\* provenance, one that never did is deleted.
TakenOff(l) == IF Recorded(l) THEN [line[l] EXCEPT !.state = "removed"] ELSE NoLine

\* delete_line, and the weight row merge_line takes off.
DeleteLine(l) ==
  /\ Editable
  /\ l \in OnPurchase
  /\ line' = [line EXCEPT ![l] = TakenOff(l)]
  /\ book' = [book EXCEPT ![l] = Void(@)]
  /\ UNCHANGED <<status, byHand, job, header, mergedInto, match>>

Reworded(row, p, w) == [row EXCEPT !.price = p, !.worded = w]
Repriced(row) == {Reworded(row, p, w) : p \in Prices, w \in BOOLEAN}

\* What a line may be after "Correct the lines" or a re-read: taken off, with
\* another price, reworded and resolved again, or new.
Corrected(l) ==
  IF l \in OnPurchase
  THEN Repriced(line[l]) \cup {TakenOff(l)} \cup
       (IF line[l].choice \in Signed THEN {}
        ELSE UNION {Matched(row) : row \in Repriced(line[l])})
  ELSE {line[l]} \cup
       (IF line[l].state = "none" THEN UNION {Matched(row) : row \in NewLines} ELSE {})

\* apply_rows, all lines in one transaction.
ReplaceLines ==
  /\ Editable
  /\ \E rows \in [Lines -> UNION {Corrected(l) : l \in Lines}] :
       /\ \A l \in Lines : rows[l] \in Corrected(l)
       /\ line' = rows
       /\ book' = [l \in Lines |-> IF rows[l].state = "on" THEN book[l] ELSE Void(book[l])]
  /\ UNCHANGED <<status, byHand, job, header, mergedInto, match>>

\* re_resolve_line gives up a person's choice; what the ladder cannot replace
\* stays, unsigned.
Unsigned(row) ==
  [row EXCEPT !.choice = IF row.choice = "chosen" THEN "added"
                         ELSE IF row.choice \in Signed THEN "auto" ELSE row.choice]

ReResolveLine(l) ==
  /\ NotVoided
  /\ LateMatches \/ status # "committed"
  /\ l \in OnPurchase
  /\ \E row \in Matched(line[l]) \cup {Unsigned(line[l])} : line' = [line EXCEPT ![l] = row]
  /\ UNCHANGED <<status, byHand, job, header, book, mergedInto, match>>

-----------------------------------------------------------------------------
(* Deciding, committing and reopening.                                     *)

\* The row of a line a person decided on.
Choice(row, x, c) == [row EXCEPT !.product = x, !.choice = c]
Decided(l) ==
  {Choice(line[l], x, c) : x \in Choosable, c \in {"chosen", "accepted"}}
  \cup {Choice(line[l], None, "ignored")}

DecideLine(l) ==
  /\ NotVoided
  /\ l \in OnPurchase
  /\ HasRoom({l})
  /\ \E row \in Decided(l) :
       /\ line' = [line EXCEPT ![l] = row]
       /\ book' = [book EXCEPT ![l] =
                     IF status = "committed" /\ Priced(row) THEN Emit(l, row, header) ELSE Void(@)]
  /\ UNCHANGED <<status, byHand, job, header, mergedInto, match>>

SameProduct(x, y) == x = y

\* commit_purchase follows the observation's product to what it was merged into.
Follows(x, y) == Root(x) = y

UnchangedButDate(l) ==
  IsLive(l) /\ Follows(Live(l).product, line[l].product) /\ Live(l).price = line[l].price

\* The line's price is on record as it stands.
Unchanged(l) ==
  /\ IsLive(l)
  /\ Follows(Live(l).product, line[l].product)
  /\ Live(l).price = line[l].price
  /\ Live(l).header = header

\* commit_purchase, for the lines on the purchase.
Committed(l) ==
  IF l \in OnPurchase /\ Priced(line[l])
  THEN IF Unchanged(l) THEN book[l] ELSE Emit(l, line[l], header)
  ELSE IF l \in OnPurchase THEN Void(book[l]) ELSE book[l]

CommitPurchase ==
  /\ NotVoided
  /\ header # None
  /\ HasRoom({l \in OnPurchase : Priced(line[l]) /\ ~Unchanged(l)})
  /\ status' = "committed"
  /\ book' = [l \in Lines |-> Committed(l)]
  /\ UNCHANGED <<byHand, job, header, line, mergedInto>>

Commit ==
  /\ LateMatches \/ job \notin {"reading", "failed"}
  /\ CommitPurchase
  /\ UNCHANGED match

Reopen ==
  /\ status = "committed"
  /\ status' = "reviewed"
  /\ UNCHANGED <<byHand, job, header, line, book, mergedInto, match>>

\* A line as the form sends it; its words and the flag of a line without a price
\* stay.
FormRow(row, x, p) ==
  [ByHandRow(x, p) EXCEPT !.worded = row.worded, !.unpriced = row.unpriced]
OnForm(row) == {FormRow(row, x, p) : x \in Choosable, p \in Prices}

\* What the entry form may make of a line: the same or another product and
\* price, taken off, or new.
Entered(l) ==
  IF l \in OnPurchase
  THEN {TakenOff(l), line[l]} \cup OnForm(line[l])
  ELSE {line[l]} \cup (IF line[l].state = "none" THEN OnForm(NoLine) ELSE {})

\* _same: the same product and price on the same header, with a price that counts.
SameEntry(l, row, h) ==
  /\ IsLive(l)
  /\ h = header
  /\ row.product = line[l].product /\ row.price = line[l].price

\* update_manual: every line named on the form; a changed one records its price
\* anew, at any standing but voided.
UpdateManual ==
  /\ NotVoided
  /\ byHand
  /\ \E h \in Headers, rows \in [Lines -> UNION {Entered(l) : l \in Lines}] :
       LET onForm == {l \in Lines : rows[l].state = "on"}
           emitted == {l \in onForm : ~SameEntry(l, rows[l], h)}
       IN
       /\ \A l \in Lines : rows[l] \in Entered(l)
       /\ \A l \in emitted : rows[l].choice = "chosen"
       /\ onForm # {} /\ (OnPurchase # {} => onForm \cap OnPurchase # {})
       /\ HasRoom(emitted)
       /\ header' = h
       /\ line' = rows
       /\ book' = [l \in Lines |-> IF l \in emitted THEN Emit(l, rows[l], h)
                                   ELSE IF l \in onForm THEN book[l] ELSE Void(book[l])]
  /\ UNCHANGED <<status, byHand, job, mergedInto, match>>

\* POST /price-observations/{id}/void, without the purchase's lock.
WithdrawPrice(l) ==
  /\ IsLive(l)
  /\ book' = [book EXCEPT ![l] = Ended(@, "withdrawn")]
  /\ UNCHANGED <<status, byHand, job, header, line, mergedInto, match>>

-----------------------------------------------------------------------------
(* Removing and restoring.                                                 *)

RemoveVoiding ==
  /\ NotVoided
  /\ job # "reading"
  /\ \E l \in Lines : Recorded(l)
  /\ status' = "voided"
  /\ book' = [l \in Lines |-> Void(book[l])]
  /\ UNCHANGED <<byHand, job, header, line, mergedInto, match>>

RemoveDeleting ==
  /\ NotVoided
  /\ job # "reading"
  /\ \A l \in Lines : ~Recorded(l)
  /\ status' = "deleted"
  /\ line' = [l \in Lines |-> NoLine]
  /\ job' = "none"
  /\ UNCHANGED <<byHand, header, book, mergedInto, match>>

Restore ==
  /\ status = "voided"
  /\ status' = "reviewed"
  /\ UNCHANGED <<byHand, job, header, line, book, mergedInto, match>>

-----------------------------------------------------------------------------
(* Merging products, and lines that waited for one.                        *)

EarlierMergersStay(x, loser) == x = loser

\* The products that name the survivor afterwards: the loser and whatever was
\* merged into it before.
FollowsLoser(x, loser) == x = loser \/ mergedInto[x] = loser

MergeProducts(loser, survivor) ==
  /\ loser # survivor
  /\ mergedInto[loser] = None /\ mergedInto[survivor] = None
  /\ mergedInto' = [x \in Products |-> IF FollowsLoser(x, loser) THEN survivor ELSE mergedInto[x]]
  /\ line' = [l \in Lines |-> IF line[l].product = loser
                              THEN [line[l] EXCEPT !.product = survivor] ELSE line[l]]
  /\ UNCHANGED <<status, byHand, job, header, book, match>>

Waiting == {l \in OnPurchase : line[l].choice = "none" /\ line[l].worded}

\* A product gains a code that lines of a committed purchase print.
FindWaiting ==
  /\ match.step = "idle"
  /\ status = "committed"
  /\ \E found \in SUBSET Waiting \ {{}} : match' = [step |-> "found", lines |-> found]
  /\ UNCHANGED <<status, byHand, job, header, line, book, mergedInto>>

\* The lines still waiting are matched, whatever became of their purchase ...
MatchWaiting ==
  /\ match.step = "found"
  /\ status # "deleted"
  /\ \E x \in Choosable, matched \in SUBSET (match.lines \cap Waiting) :
       /\ line' = [l \in Lines |-> IF l \in matched
                                   THEN [line[l] EXCEPT !.product = x, !.choice = "auto"] ELSE line[l]]
       /\ match' = IF matched = {} THEN IdleMatch ELSE [match EXCEPT !.step = "matched"]
  /\ UNCHANGED <<status, byHand, job, header, book, mergedInto>>

\* ... and the purchase is committed again.
RecommitMatched ==
  /\ match.step = "matched"
  /\ CommitPurchase
  /\ match' = IdleMatch

\* The purchase was removed meanwhile, or the process dies in between.
MatchEnds ==
  /\ \/ match.step = "found" /\ status = "deleted"
     \/ match.step = "matched" /\ (~NotVoided \/ header = None \/ LateMatches)
  /\ match' = IdleMatch
  /\ UNCHANGED <<status, byHand, job, header, line, book, mergedInto>>

-----------------------------------------------------------------------------

Next ==
  \/ CreateDraft \/ ImportDraft \/ CreateManual
  \/ ResolvePurchase \/ ReadingEnds \/ Retry \/ TakenByHand
  \/ EditHeader \/ ReplaceLines
  \/ \E l \in Lines : AddLine(l) \/ EditLine(l) \/ DeleteLine(l) \/ ReResolveLine(l)
                      \/ DecideLine(l) \/ WithdrawPrice(l)
  \/ Commit \/ Reopen \/ UpdateManual
  \/ RemoveVoiding \/ RemoveDeleting \/ Restore
  \/ \E loser, survivor \in Products : MergeProducts(loser, survivor)
  \/ FindWaiting \/ MatchWaiting \/ RecommitMatched \/ MatchEnds

Spec == Init /\ [][Next]_vars

-----------------------------------------------------------------------------
(* Properties.                                                             *)

\* A line never has two prices that count: the code alone sees to it, and the
\* database trigger that would refuse the second is never reached.
OneLivePerLine == \A l \in Lines : \A i, j \in LivePrices(l) : i = j

\* A price that counts belongs to a line still on a purchase that was not
\* removed.
LiveIsBought == \A l \in Lines : IsLive(l) => line[l].state = "on" /\ status # "voided"

\* A line that ever reached the price book keeps its row, and its purchase its
\* own, as where the price came from.
ProvenanceKept ==
  \A l \in Lines : book[l] # <<>> => line[l].state # "none" /\ status \notin {"none", "deleted"}

\* Merges stay one level deep: what a product was merged into is itself unmerged.
MergedOneLevel == \A x \in Products : mergedInto[x] # None => mergedInto[mergedInto[x]] = None

\* What the price book says of line l is what the line says.
Agrees(l, price) ==
  /\ Root(price.product) = Root(line[l].product)
  /\ price.price = line[l].price
  /\ price.header = header

\* In a committed purchase the price book holds what the lines say: each line
\* with a product and a price has one that agrees, or whose withdrawal was the
\* last word, and no other line has any.
CommittedAgrees ==
  status = "committed" /\ match.step # "matched" =>
    \A l \in OnPurchase :
      IF Priced(line[l])
      THEN Recorded(l) /\ Last(book[l]).void # "void" /\ Agrees(l, Last(book[l]))
      ELSE ~IsLive(l)

\* Committing again leaves alone a line nobody changed, also when its product
\* was merged since ("On recommit, only changed lines void and re-emit").
UnchangedKeeps ==
  [][CommitPurchase => \A l \in OnPurchase :
       IsLive(l) /\ line[l].product # None /\ Agrees(l, Live(l)) => book'[l] = book[l]]_vars
=============================================================================
