-------------------------- MODULE ProductProposals --------------------------
(***************************************************************************)
(* What captures say products are, and what people decide of it:           *)
(* services/proposals.py, with the background jobs and the helper whose    *)
(* answers join a proposal that waits (page_captures.py, identify.py and   *)
(* lookups.answer).                                                        *)
(*                                                                         *)
(* A proposal is known by its keys, the page it was captured from and the  *)
(* barcode it names; its other fields, photos and price go the way of the  *)
(* barcode.  At most one proposal with a key may be pending, so whoever    *)
(* writes keys first supersedes the others: find them, lock them, write,   *)
(* commit.  Each of those is a step here, since other transactions run     *)
(* between them and rows stay locked from one to the next.  A row that is  *)
(* not committed yet is in the transaction that writes it.                 *)
(*                                                                         *)
(* An answer, and a barcode found in a photo, look at the proposal before  *)
(* they lock it and not after, so they may be written to one that was      *)
(* decided meanwhile.  rewritten remembers those for the properties; no    *)
(* action reads it.                                                        *)
(*                                                                         *)
(* An operator that is used nowhere and stands just before another with    *)
(* the same parameters is a plausible mistake in it.                       *)
(***************************************************************************)
EXTENDS Naturals, FiniteSets

CONSTANTS
  Proposals,   \* ids of product_proposal rows
  Pages,       \* vendor and address of a page: listing keys
  Codes,       \* barcodes: gtin keys
  Products,    \* catalog products
  Requests,    \* transactions under way at a time
  Mixes,       \* kinds of transaction to look at together, and the proposals they may make
  None         \* SQL NULL

ASSUME NoneAssumption == None \notin Pages \cup Codes \cup Products \cup Proposals
ASSUME KeysAssumption == Pages \cap Codes = {}

VARIABLES
  proposal,   \* proposal[q]: a committed product_proposal row
  codeOwner,  \* codeOwner[c]: the product whose identifier c is
  txn,        \* txn[r]: a transaction under way
  mix,        \* the kinds of transaction there are, and how many proposals
  rewritten   \* proposals an answer or a scan was written to after their decision

vars == <<proposal, codeOwner, txn, mix, rewritten>>

-----------------------------------------------------------------------------
(* The rows.                                                               *)

Decided == {"accepted", "rejected", "superseded"}

\* byPerson: the barcode is a person's edit.  for: superseded_by.
Rows == [status: {"none", "pending"} \cup Decided, page: Pages \cup {None}, code: Codes \cup {None},
         byPerson: BOOLEAN, product: Products \cup {None}, for: Proposals \cup {None}]

NoRow == [status |-> "none", page |-> None, code |-> None, byPerson |-> FALSE,
          product |-> None, for |-> None]

NewRow(page, code, product) ==
  [NoRow EXCEPT !.status = "pending", !.page = page, !.code = code, !.product = product]

IsPending(q) == proposal[q].status = "pending"

\* listing_key and gtin_key: a barcode counts only for a proposal with no page.
Keys(row) == (IF row.page = None THEN {row.code} ELSE {row.page}) \ {None}

ShareKey(row, other) == Keys(row) \cap Keys(other) # {}

\* A code a person chose outranks every source.
Merged(row, code) ==
  IF row.byPerson THEN {row}
  ELSE {[row EXCEPT !.code = c] : c \in {code} \cup ({row.code} \ {None})}

WithPerson(row, code) == [row EXCEPT !.code = code, !.byPerson = TRUE]

-----------------------------------------------------------------------------
(* Transactions.                                                           *)

AllKinds == {"capture", "edit", "accept", "page", "answer", "scan"}

Steps == {"idle", "load", "find", "supersede", "write", "commit"}

\* own: the proposal it writes; row: what it writes there; found: pending
\* proposals with its keys; takes: those it supersedes; tried: it has met a
\* concurrent writer; to: the product an accept goes to.
Txns == [kind: AllKinds \cup {"none"}, step: Steps, own: Proposals \cup {None}, row: Rows,
         found: SUBSET Proposals, takes: SUBSET Proposals, tried: BOOLEAN,
         to: Products \cup {None}]

Idle == [kind |-> "none", step |-> "idle", own |-> None, row |-> NoRow, found |-> {},
         takes |-> {}, tried |-> FALSE, to |-> None]

Begun(kind, q, step) == [Idle EXCEPT !.kind = kind, !.own = q, !.step = step]

Goes(r, t) == txn' = [txn EXCEPT ![r] = t]

\* The rows a transaction holds locked.  A barcode found in a photo is written
\* to a row that was never locked before.
Locked(r) ==
  LET t == txn[r]
      own == IF t.step = "commit" \/ (t.step \in {"find", "supersede", "write"} /\ t.kind # "scan")
             THEN {t.own} ELSE {}
  IN own \cup t.takes

FreeFor(r, q) == \A s \in Requests \ {r} : q \notin Locked(s)

\* Written and not committed.
Unseen(s) == txn[s].step = "commit" /\ txn[s].row.status = "pending"

May(r, kind) == txn[r] = Idle /\ kind \in mix.kinds

Init ==
  /\ proposal = [q \in Proposals |-> NoRow]
  /\ codeOwner = [c \in Codes |-> None]
  /\ txn = [r \in Requests |-> Idle]
  /\ mix \in Mixes
  /\ rewritten = {}

Keeps == UNCHANGED <<proposal, codeOwner, mix, rewritten>>

-----------------------------------------------------------------------------
(* What starts a transaction.                                              *)

Used == {q \in Proposals : proposal[q].status # "none" \/ \E s \in Requests : txn[s].own = q}

Unused(q) == q \notin Used /\ Cardinality(Used) < mix.proposals

\* create_capture for a page, a scanned barcode or photos, which name neither.
\* The same capture again while its proposal waits changes nothing.
Capture(r, q) ==
  /\ May(r, "capture") /\ Unused(q)
  /\ \E page \in Pages \cup {None}, code \in Codes \cup {None} :
       Goes(r, [Begun("capture", q, "find") EXCEPT !.row = NewRow(page, code, None)])
  /\ Keeps

\* edit, and accept with or without edits.
Edit(r, q) == May(r, "edit") /\ proposal[q].status # "none" /\ Goes(r, Begun("edit", q, "load")) /\ Keeps

Accept(r, q) ==
  /\ May(r, "accept") /\ proposal[q].status # "none"
  /\ \E x \in Products : Goes(r, [Begun("accept", q, "load") EXCEPT !.to = x])
  /\ Keeps

Reject(q) ==
  /\ IsPending(q) /\ \A r \in Requests : q \notin Locked(r)
  /\ proposal' = [proposal EXCEPT ![q].status = "rejected"]
  /\ UNCHANGED <<codeOwner, txn, mix, rewritten>>

\* The extract job has the page's text read, by the model if it must.
ReadPage(r, q) == May(r, "page") /\ IsPending(q) /\ Goes(r, Begun("page", q, "load")) /\ Keeps

\* lookups.answer looks at the proposal before it locks it.  An answer to an
\* accepted proposal opens a Product update, with its page when that is new.
Answer(r, q) ==
  /\ May(r, "answer")
  /\ \/ IsPending(q) /\ Goes(r, Begun("answer", q, "load"))
     \/ /\ Unused(q)
        /\ \E done \in Proposals, page \in Pages \cup {None}, code \in Codes \cup {None} :
             /\ proposal[done].status = "accepted"
             /\ Goes(r, [Begun("answer", q, "find") EXCEPT !.row = NewRow(page, code, proposal[done].product)])
  /\ Keeps

\* _as_barcode: the proposal is as it was before the photos were searched.
Scan(r, q) ==
  /\ May(r, "scan") /\ IsPending(q) /\ proposal[q].page = None
  /\ \E code \in Codes : \E row \in Merged(proposal[q], code) :
       Goes(r, [Begun("scan", q, "find") EXCEPT !.row = row])
  /\ Keeps

-----------------------------------------------------------------------------
(* The steps of a transaction.                                             *)

RecheckedByPeople(kind) == kind \in {"edit", "accept"}

Rechecked(kind) == kind \in {"edit", "accept", "page"}

\* The rows a transaction goes on to write, from the row as it is once locked.
Changed(t, row) ==
  CASE t.kind \in {"edit", "accept"} -> {WithPerson(row, c) : c \in Codes}
    [] OTHER -> UNION {Merged(row, c) : c \in Codes}

\* The row is locked and looked at again, by all but an answer.
Load(r) ==
  LET t == txn[r] row == proposal[t.own] IN
  /\ t.step = "load" /\ FreeFor(r, t.own)
  /\ IF Rechecked(t.kind) /\ ~IsPending(t.own) THEN Goes(r, Idle)
     ELSE \/ \E new \in Changed(t, row) : Goes(r, [t EXCEPT !.step = "find", !.row = new])
          \/ t.kind = "accept" /\ Goes(r, [t EXCEPT !.step = "commit", !.row = row])
  /\ Keeps

Others(t) == {q \in Proposals \ {t.own} : IsPending(q) /\ ShareKey(proposal[q], t.row)}

\* _supersede_others: the rows as the query first sees them ...
Find(r) ==
  /\ txn[r].step = "find"
  /\ Goes(r, [txn[r] EXCEPT !.step = "supersede", !.found = Others(txn[r])])
  /\ Keeps

FoundPending(t) == t.found

StillPending(t) == t.found \cap Others(t)

\* ... and as they are once it has waited for their locks.
Supersede(r) ==
  LET t == txn[r] IN
  /\ t.step = "supersede" /\ \A q \in t.found : FreeFor(r, q)
  /\ Goes(r, [t EXCEPT !.step = "write", !.found = {}, !.takes = StillPending(t)])
  /\ Keeps

\* The columns an update writes; a decision is never taken back.
Written(t) == IF t.kind = "scan" THEN [proposal[t.own] EXCEPT !.code = t.row.code, !.byPerson = t.row.byPerson] ELSE t.row

\* uq_product_proposal_pending_listing and _gtin, against what is committed ...
NothingTaken(t) == TRUE

IndexAllows(t) == Written(t).status = "pending" => Others(t) \subseteq t.takes

\* ... and what is not: the write waits for a transaction that has written or
\* changed a row with one of its keys.
IndexWaits(r) ==
  \E s \in Requests \ {r} :
    \/ Unseen(s) /\ ShareKey(txn[s].row, txn[r].row)
    \/ Locked(s) \cap Others(txn[r]) # {}

\* The write, once more from the start when a concurrent writer was first.  A
\* row that is only locked is in its way at once.
Write(r) ==
  LET t == txn[r] IN
  /\ t.step = "write" /\ FreeFor(r, t.own)
  /\ \/ /\ IndexAllows(t) /\ ~IndexWaits(r)
        /\ Goes(r, [t EXCEPT !.step = "commit", !.row = Written(t)])
     \/ /\ ~IndexAllows(t)
        /\ Goes(r, IF t.tried THEN Idle ELSE [t EXCEPT !.step = "find", !.takes = {}, !.tried = TRUE])
  /\ Keeps

\* _add_identifier, and the unique identifier when two accepts add it at once.
OwnedAnyhow(c, x) == TRUE

OwnerAllows(c, x) == c \in Codes => codeOwner[c] \in {None, x}

Superseded(q, t) == [proposal[q] EXCEPT !.status = "superseded", !.for = t.own]

Committed(t) == IF t.kind = "accept" THEN [t.row EXCEPT !.status = "accepted", !.product = t.to] ELSE t.row

\* What was looked at before it was locked is written, whatever was decided since.
Late(t) == t.kind \in {"answer", "scan"} /\ proposal[t.own].status \in Decided

\* The rest of accept, and the commit.
Commit(r) ==
  LET t == txn[r] accepts == t.kind = "accept" IN
  /\ t.step = "commit"
  /\ accepts => OwnerAllows(t.row.code, t.to)
  /\ proposal' = [q \in Proposals |-> IF q = t.own THEN Committed(t)
                                     ELSE IF q \in t.takes THEN Superseded(q, t) ELSE proposal[q]]
  /\ codeOwner' = [c \in Codes |-> IF accepts /\ c = t.row.code THEN t.to ELSE codeOwner[c]]
  /\ rewritten' = rewritten \cup (IF Late(t) THEN {t.own} ELSE {})
  /\ Goes(r, Idle)
  /\ UNCHANGED mix

\* Anything fails, two transactions wait for one another, or the process stops.
Abort(r) == txn[r] # Idle /\ Goes(r, Idle) /\ Keeps

-----------------------------------------------------------------------------
Begins(r) ==
  \E q \in Proposals :
    Capture(r, q) \/ Edit(r, q) \/ Accept(r, q) \/ ReadPage(r, q) \/ Answer(r, q) \/ Scan(r, q)

Continues(r) == Load(r) \/ Find(r) \/ Supersede(r) \/ Write(r) \/ Commit(r) \/ Abort(r)

Next == (\E r \in Requests : Begins(r) \/ Continues(r)) \/ \E q \in Proposals : Reject(q)

Spec == Init /\ [][Next]_vars

-----------------------------------------------------------------------------
(* Properties.                                                             *)

TypeOK ==
  /\ proposal \in [Proposals -> Rows]
  /\ \A q \in Proposals : proposal[q].status = "superseded" => proposal[q].for \in Proposals
  /\ codeOwner \in [Codes -> Products \cup {None}]
  /\ txn \in [Requests -> Txns]
  /\ \A r \in Requests : txn[r] # Idle => txn[r].own \in Proposals
  /\ mix \in Mixes /\ rewritten \subseteq Proposals

\* "One pending proposal per page or barcode", however captures, edits, accepts,
\* jobs and answers overlap and whichever of them has to write twice.
OnePendingPerKey ==
  \A p, q \in Proposals : p # q /\ IsPending(p) /\ IsPending(q) => ~ShareKey(proposal[p], proposal[q])

\* What a decision is about: all of the row but its barcode and who chose that.
SameDecision(row, old) ==
  row.status = old.status /\ row.page = old.page /\ row.product = old.product /\ row.for = old.for

\* This step commits an answer or a scan to q, which was decided before it.
LateTo(q) ==
  \E r \in Requests : txn[r].step = "commit" /\ txn[r].own = q /\ Late(txn[r]) /\ txn'[r] = Idle

\* A decided proposal stays as it was decided, whatever was about to supersede,
\* edit, accept or read it.  Only a late answer or scan touches it, and that the
\* barcode alone: it reopens nothing and moves nothing to another product.
DecidedStands ==
  [][\A q \in Proposals : proposal[q].status \in Decided =>
       \/ proposal'[q] = proposal[q]
       \/ LateTo(q) /\ SameDecision(proposal'[q], proposal[q])]_vars

\* What is superseded is superseded for a proposal that waits or is accepted with
\* it, so that no barcode or page is lost from review; but a late answer or scan
\* supersedes for the decided row it is written to.
SupersededForAnother ==
  [][\A q \in Proposals : IsPending(q) /\ proposal'[q].status = "superseded" =>
       \/ proposal'[proposal'[q].for].status \in {"pending", "accepted"}
       \/ LateTo(proposal'[q].for)]_vars

\* The code of an accepted proposal is its product's and no other's, also when
\* two people accept two proposals with that code at the same time, unless a late
\* answer or scan has been written to the accepted row.
AcceptedIsCatalogued ==
  \A q \in Proposals \ rewritten : proposal[q].status = "accepted" /\ proposal[q].code # None
    => codeOwner[proposal[q].code] = proposal[q].product
=============================================================================
