----------------------- MODULE ProductProposalsProofs -----------------------
(***************************************************************************)
(* Theorems about ProductProposals, for any number of proposals, pages,    *)
(* barcodes, products and overlapping transactions.                        *)
(*                                                                         *)
(* A step but a commit and a rejection moves one transaction and nothing   *)
(* else, so the invariant is stated of one transaction (Fits, Sees) and of *)
(* two (Apart), and OneMoves says what such a step has to show.            *)
(***************************************************************************)
EXTENDS ProductProposals, TLAPS

\* Steps at which the row is known.
Knows == {"find", "supersede", "write", "commit"}

\* The rows a transaction t holds: Locked, of a transaction and not of its name.
Held(t) ==
  (IF t.step = "commit" \/ (t.step \in {"find", "supersede", "write"} /\ t.kind # "scan")
   THEN {t.own} ELSE {}) \cup t.takes

\* Written and not committed: Unseen, of a transaction.
Writes(t) == t.step = "commit" /\ t.row.status = "pending"

Fits(t) ==
  /\ t = Idle \/ (t.step \in {"load"} \cup Knows /\ t.own \in Proposals /\ t.kind \in AllKinds)
  /\ t.step = "load" => t.kind \in {"edit", "accept", "page", "answer"}
  /\ \A q \in t.takes : IsPending(q)
  /\ t.own \in Proposals /\ proposal[t.own].status = "none"
       => t.kind \in {"capture", "answer"} /\ t.step \in Knows
  /\ t.own \in Proposals /\ proposal[t.own].status # "none" /\ t.step \in Knows
       => t.row.page = proposal[t.own].page
  /\ t.step \in Knows => t.row.status # "none"
  /\ t.row.status = "superseded" => t.row.for \in Proposals
  /\ t.kind = "accept" => t.to \in Products

\* A new row waits; a row that was looked at again once it was locked still waits;
\* and what is held says of the decision what the row says.
Agrees(t) ==
  t.own \in Proposals /\ t.step \in Knows =>
    /\ proposal[t.own].status = "none" => t.row.status = "pending"
    /\ t.kind = "capture" => proposal[t.own].status = "none"
    /\ Rechecked(t.kind) => proposal[t.own].status = "pending"
    /\ proposal[t.own].status # "none" /\ (t.kind # "scan" \/ t.step = "commit")
         => SameDecision(t.row, proposal[t.own])

\* Nothing pending has a key of what t has written but what it supersedes.
Sees(t) == Writes(t) => Others(t) \subseteq t.takes

Apart(t, u) ==
  /\ Held(t) \cap Held(u) = {}
  /\ Writes(t) /\ Writes(u) => ~ShareKey(t.row, u.row)
  /\ t.own \in Proposals /\ u.own = t.own => proposal[t.own].status # "none"

AllApart == \A r, s \in Requests : r # s => Apart(txn[r], txn[s])

Inv ==
  /\ TypeOK
  /\ \A r \in Requests : Fits(txn[r]) /\ Agrees(txn[r]) /\ Sees(txn[r])
  /\ AllApart
  /\ OnePendingPerKey

-----------------------------------------------------------------------------
(* Of transactions.                                                        *)

LEMMA IdleTyped ==
  /\ Idle \in Txns /\ NoRow \in Rows
  /\ Idle.step = "idle" /\ Idle.kind = "none" /\ Idle.own = None /\ Idle.takes = {}
  /\ Idle.row = NoRow /\ NoRow.status = "none" /\ None \notin Proposals
  BY NoneAssumption DEF Idle, Txns, NoRow, Rows, AllKinds, Steps, Decided

LEMMA LockedIsHeld == \A r \in Requests : Locked(r) = Held(txn[r])
  BY DEF Locked, Held

LEMMA IdleFits == Fits(Idle) /\ Agrees(Idle) /\ Sees(Idle) /\ \A u : Held(Idle) = {} /\ ~Writes(Idle)
  BY IdleTyped DEF Fits, Agrees, Sees, Held, Writes, Knows

LEMMA ApartIsMutual == ASSUME NEW t, NEW u, Apart(t, u) PROVE Apart(u, t)
  BY DEF Apart, ShareKey

LEMMA IdleIsApart == \A u : Apart(Idle, u) /\ Apart(u, Idle)
  BY IdleTyped, IdleFits DEF Apart

\* A step of one transaction that writes nothing.
LEMMA OneMoves ==
  ASSUME Inv, Keeps, NEW r \in Requests, NEW t \in Txns, txn' = [txn EXCEPT ![r] = t],
         Fits(t), Agrees(t), Sees(t), \A s \in Requests \ {r} : Apart(t, txn[s])
  PROVE  Inv'
<1> USE DEF Keeps
<1>1. /\ txn \in [Requests -> Txns] /\ txn' \in [Requests -> Txns]
      /\ txn'[r] = t /\ \A s \in Requests \ {r} : txn'[s] = txn[s]
  BY DEF Inv, TypeOK
<1>2. TypeOK'
  BY <1>1 DEF Inv, TypeOK, Fits
<1>3. ASSUME NEW s \in Requests PROVE Fits(txn[s])' /\ Agrees(txn[s])' /\ Sees(txn[s])'
  <2>1. Fits(txn'[s]) /\ Agrees(txn'[s]) /\ Sees(txn'[s])
    BY <1>1 DEF Inv
  <2> QED
    BY <2>1 DEF Fits, Agrees, Sees, Writes, Others, IsPending
<1>4. ASSUME NEW s \in Requests, NEW u \in Requests, s # u PROVE Apart(txn[s], txn[u])'
  <2>1. Apart(txn'[s], txn'[u])
    BY <1>1, <1>4, ApartIsMutual DEF Inv, AllApart
  <2> QED
    BY <2>1 DEF Apart, Held, Writes
<1>5. OnePendingPerKey'
  BY DEF Inv, OnePendingPerKey, IsPending
<1> QED
  BY <1>2, <1>3, <1>4, <1>5 DEF Inv, AllApart

\* A transaction that ends without writing.
LEMMA OneStops ==
  ASSUME Inv, Keeps, NEW r \in Requests, Goes(r, Idle)
  PROVE  Inv'
  BY OneMoves, IdleTyped, IdleFits, IdleIsApart DEF Goes

-----------------------------------------------------------------------------
(* Transactions begin.                                                     *)

LEMMA BegunTyped ==
  ASSUME NEW kind \in AllKinds, NEW q \in Proposals, NEW step \in Steps
  PROVE  /\ Begun(kind, q, step) \in Txns
         /\ Begun(kind, q, step).kind = kind /\ Begun(kind, q, step).own = q
         /\ Begun(kind, q, step).step = step /\ Begun(kind, q, step).row = NoRow
         /\ Begun(kind, q, step).takes = {}
  BY IdleTyped DEF Begun, Idle, Txns

\* A capture, or an answer to an accepted proposal, makes a new row.
LEMMA NewRowBegins ==
  ASSUME Inv, NEW r \in Requests, NEW q \in Proposals, NEW kind \in {"capture", "answer"},
         May(r, kind), Unused(q), NEW page \in Pages \cup {None}, NEW code \in Codes \cup {None},
         NEW x \in Products \cup {None},
         Goes(r, [Begun(kind, q, "find") EXCEPT !.row = NewRow(page, code, x)]), Keeps
  PROVE  Inv'
<1> DEFINE t == [Begun(kind, q, "find") EXCEPT !.row = NewRow(page, code, x)]
<1>1. NewRow(page, code, x) \in Rows /\ NewRow(page, code, x).status = "pending"
  BY IdleTyped DEF NewRow, Rows, NoRow
<1>2. /\ t \in Txns /\ t.kind = kind /\ t.own = q /\ t.step = "find" /\ t.takes = {}
      /\ t.row = NewRow(page, code, x)
  BY <1>1, BegunTyped DEF AllKinds, Steps, Txns
<1>3. proposal[q].status = "none" /\ \A s \in Requests : txn[s].own # q
  BY DEF Unused, Used
<1>4. Fits(t) /\ Agrees(t) /\ Sees(t)
  BY <1>1, <1>2, <1>3 DEF Fits, Agrees, Sees, Writes, Knows, AllKinds, Rechecked
<1>5. ASSUME NEW s \in Requests \ {r} PROVE Apart(t, txn[s])
  <2>1. Held(t) = {q}
    BY <1>2 DEF Held
  <2>2. q \notin Held(txn[s])
    BY <1>3 DEF Held, Inv, Fits, IsPending
  <2> QED
    BY <1>2, <1>3, <2>1, <2>2 DEF Apart, Writes
<1> HIDE DEF t
<1> QED
  BY <1>2, <1>4, <1>5, OneMoves DEF Goes, t

\* Any other transaction is about a row that is there, and locks it later.
LEMMA RowBegins ==
  ASSUME Inv, NEW r \in Requests, NEW q \in Proposals, NEW t \in Txns, May(r, t.kind),
         t.own = q, t.takes = {}, txn' = [txn EXCEPT ![r] = t], Keeps,
         proposal[q].status # "none",
         t.kind = "accept" => t.to \in Products,
         \/ t.step = "load" /\ t.row = NoRow /\ t.kind \in {"edit", "accept", "page", "answer"}
         \/ t.step = "find" /\ t.kind = "scan" /\ t.row.page = proposal[q].page /\ t.row.status = "pending"
  PROVE  Inv'
<1>1. Fits(t) /\ Agrees(t) /\ Sees(t)
  BY IdleTyped DEF Fits, Agrees, Sees, Writes, Knows, AllKinds, Rechecked
<1>2. ASSUME NEW s \in Requests \ {r} PROVE Apart(t, txn[s])
  <2>1. Held(t) = {} /\ ~Writes(t)
    BY DEF Held, Writes
  <2> QED
    BY <2>1 DEF Apart
<1> QED
  BY <1>1, <1>2, OneMoves

LEMMA BeginsKeeps == ASSUME Inv, NEW r \in Requests, Begins(r) PROVE Inv'
<1> PICK q \in Proposals :
      Capture(r, q) \/ Edit(r, q) \/ Accept(r, q) \/ ReadPage(r, q) \/ Answer(r, q) \/ Scan(r, q)
  BY DEF Begins
<1>1. CASE Capture(r, q)
  BY <1>1, NewRowBegins DEF Capture
<1>2. CASE Edit(r, q)
  <2> DEFINE t == Begun("edit", q, "load")
  <2>1. t \in Txns /\ t.kind = "edit" /\ t.own = q /\ t.step = "load" /\ t.row = NoRow /\ t.takes = {}
    BY BegunTyped DEF AllKinds, Steps
  <2> HIDE DEF t
  <2>2. txn' = [txn EXCEPT ![r] = t] /\ Keeps /\ May(r, "edit") /\ proposal[q].status # "none"
    BY <1>2 DEF Edit, Goes, t
  <2> QED
    BY <2>1, <2>2, RowBegins
<1>3. CASE Accept(r, q)
  <2> PICK x \in Products : Goes(r, [Begun("accept", q, "load") EXCEPT !.to = x])
    BY <1>3 DEF Accept
  <2> DEFINE t == [Begun("accept", q, "load") EXCEPT !.to = x]
  <2>1. /\ t \in Txns /\ t.kind = "accept" /\ t.own = q /\ t.step = "load" /\ t.row = NoRow
        /\ t.takes = {} /\ t.to = x
    BY BegunTyped DEF AllKinds, Steps, Txns
  <2>2. txn' = [txn EXCEPT ![r] = t] /\ Keeps /\ May(r, "accept") /\ proposal[q].status # "none"
    BY <1>3 DEF Accept, Goes
  <2> HIDE DEF t
  <2> QED
    BY <2>1, <2>2, RowBegins
<1>4. CASE ReadPage(r, q)
  <2> DEFINE t == Begun("page", q, "load")
  <2>1. t \in Txns /\ t.kind = "page" /\ t.own = q /\ t.step = "load" /\ t.row = NoRow /\ t.takes = {}
    BY BegunTyped DEF AllKinds, Steps
  <2> HIDE DEF t
  <2>2. txn' = [txn EXCEPT ![r] = t] /\ Keeps /\ May(r, "page") /\ IsPending(q)
    BY <1>4 DEF ReadPage, Goes, t
  <2> QED
    BY <2>1, <2>2, RowBegins DEF IsPending
<1>5. CASE Answer(r, q)
  <2>1. CASE IsPending(q) /\ Goes(r, Begun("answer", q, "load"))
    <3> DEFINE t == Begun("answer", q, "load")
    <3>1. t \in Txns /\ t.kind = "answer" /\ t.own = q /\ t.step = "load" /\ t.row = NoRow /\ t.takes = {}
      BY BegunTyped DEF AllKinds, Steps
    <3> HIDE DEF t
    <3>2. txn' = [txn EXCEPT ![r] = t] /\ Keeps /\ May(r, "answer") /\ IsPending(q)
      BY <1>5, <2>1 DEF Answer, Goes, t
    <3> QED
      BY <3>1, <3>2, RowBegins DEF IsPending
  <2>2. CASE ~(IsPending(q) /\ Goes(r, Begun("answer", q, "load")))
    <3> PICK done \in Proposals, page \in Pages \cup {None}, code \in Codes \cup {None} :
          Goes(r, [Begun("answer", q, "find") EXCEPT !.row = NewRow(page, code, proposal[done].product)])
      BY <1>5, <2>2 DEF Answer
    <3>1. proposal[done].product \in Products \cup {None}
      BY DEF Inv, TypeOK, Rows
    <3> QED
      BY <1>5, <2>2, <3>1, NewRowBegins DEF Answer
  <2> QED
    BY <2>1, <2>2
<1>6. CASE Scan(r, q)
  <2> PICK code \in Codes :
        \E row \in Merged(proposal[q], code) : Goes(r, [Begun("scan", q, "find") EXCEPT !.row = row])
    BY <1>6 DEF Scan
  <2> PICK row \in Merged(proposal[q], code) : Goes(r, [Begun("scan", q, "find") EXCEPT !.row = row])
    OBVIOUS
  <2> DEFINE t == [Begun("scan", q, "find") EXCEPT !.row = row]
  <2>1. row \in Rows /\ row.page = proposal[q].page /\ row.status = "pending"
    BY <1>6 DEF Scan, Merged, Inv, TypeOK, Rows, IsPending
  <2>2. /\ t \in Txns /\ t.kind = "scan" /\ t.own = q /\ t.step = "find" /\ t.row = row
        /\ t.takes = {}
    BY <2>1, BegunTyped DEF AllKinds, Steps, Txns
  <2>3. txn' = [txn EXCEPT ![r] = t] /\ Keeps /\ May(r, "scan") /\ IsPending(q)
    BY <1>6 DEF Scan, Goes
  <2> HIDE DEF t
  <2> QED
    BY <2>1, <2>2, <2>3, RowBegins DEF IsPending
<1> QED
  BY <1>1, <1>2, <1>3, <1>4, <1>5, <1>6

-----------------------------------------------------------------------------
(* Transactions go on.                                                     *)

\* What every step of one that has begun starts from.
LEMMA Underway ==
  ASSUME Inv, NEW r \in Requests, txn[r] # Idle
  PROVE  /\ txn[r] \in Txns /\ txn[r].own \in Proposals /\ proposal[txn[r].own] \in Rows
         /\ Fits(txn[r]) /\ Agrees(txn[r]) /\ Sees(txn[r])
         /\ \A s \in Requests \ {r} : Apart(txn[r], txn[s])
  BY DEF Inv, TypeOK, AllApart

LEMMA ChangedKeeps ==
  ASSUME NEW t \in Txns, NEW row \in Rows, NEW new \in Changed(t, row)
  PROVE  /\ new \in Rows /\ new.page = row.page /\ new.status = row.status /\ new.for = row.for
         /\ new.product = row.product
<1>1. CASE t.kind \in {"edit", "accept"}
  <2> PICK c \in Codes : new = WithPerson(row, c)
    BY <1>1 DEF Changed
  <2> QED
    BY DEF WithPerson, Rows
<1>2. CASE t.kind \notin {"edit", "accept"}
  <2>1. Changed(t, row) = UNION {Merged(row, c) : c \in Codes}
    BY <1>2 DEF Changed
  <2> PICK c \in Codes : new \in Merged(row, c)
    BY <2>1
  <2> QED
    BY DEF Merged, Rows
<1> QED
  BY <1>1, <1>2

\* The row is locked; it waits, unless an answer has come to a decided one.
LEMMA LoadKeeps == ASSUME Inv, NEW r \in Requests, Load(r) PROVE Inv'
<1> DEFINE t == txn[r]
           row == proposal[t.own]
<1>1. t # Idle /\ t.step = "load" /\ FreeFor(r, t.own) /\ Keeps
  BY IdleTyped DEF Load
<1>2. /\ t \in Txns /\ t.own \in Proposals /\ row \in Rows /\ Fits(t) /\ Agrees(t)
      /\ \A s \in Requests \ {r} : Apart(t, txn[s])
  BY <1>1, Underway
<1>3. row.status # "none" /\ (row.status = "superseded" => row.for \in Proposals)
  BY <1>1, <1>2 DEF Fits, Knows, Inv, TypeOK
<1>4. \A s \in Requests \ {r} : t.own \notin Held(txn[s])
  BY <1>1, LockedIsHeld DEF FreeFor
<1>5. CASE Goes(r, Idle)
  BY <1>1, <1>5, OneStops
<1>6. CASE /\ Rechecked(t.kind) => IsPending(t.own)
           /\ \E new \in Changed(t, row) : Goes(r, [t EXCEPT !.step = "find", !.row = new])
  <2> PICK new \in Changed(t, row) : Goes(r, [t EXCEPT !.step = "find", !.row = new])
    BY <1>6
  <2> DEFINE u == [t EXCEPT !.step = "find", !.row = new]
  <2>1. /\ new \in Rows /\ new.page = row.page /\ new.status = row.status /\ new.for = row.for
        /\ new.product = row.product
    BY <1>2, ChangedKeeps
  <2>2. /\ u \in Txns /\ u.own = t.own /\ u.kind = t.kind /\ u.step = "find" /\ u.row = new
        /\ u.takes = t.takes /\ u.to = t.to
    BY <1>2, <2>1 DEF Txns, Steps
  <2>3. t.kind # "capture" /\ (Rechecked(t.kind) => row.status = "pending")
    BY <1>1, <1>2, <1>6 DEF IsPending, Fits
  <2>4. Fits(u) /\ Agrees(u) /\ Sees(u)
    BY <1>2, <1>3, <2>1, <2>2, <2>3, IdleTyped DEF Fits, Agrees, Sees, Writes, Knows, SameDecision
  <2>5. ASSUME NEW s \in Requests \ {r} PROVE Apart(u, txn[s])
    BY <1>1, <1>2, <1>3, <1>4, <2>2 DEF Apart, Held, Writes
  <2> HIDE DEF u
  <2> QED
    BY <1>1, <2>2, <2>4, <2>5, OneMoves DEF Goes, u
<1>7. CASE t.kind = "accept" /\ IsPending(t.own) /\ Goes(r, [t EXCEPT !.step = "commit", !.row = row])
  <2> DEFINE u == [t EXCEPT !.step = "commit", !.row = row]
  <2>1. /\ u \in Txns /\ u.own = t.own /\ u.kind = t.kind /\ u.step = "commit" /\ u.row = row
        /\ u.takes = t.takes /\ u.to = t.to
    BY <1>2 DEF Txns, Steps
  <2>2. Others(u) = {}
    BY <1>2, <1>7, <2>1 DEF Others, Inv, OnePendingPerKey, ShareKey, IsPending
  <2>3. Fits(u) /\ Agrees(u) /\ Sees(u)
    BY <1>2, <1>3, <1>7, <2>1, <2>2, IdleTyped DEF Fits, Agrees, Sees, Knows, IsPending, SameDecision
  <2>4. ASSUME NEW s \in Requests \ {r} PROVE Apart(u, txn[s])
    <3>1. Held(u) \cap Held(txn[s]) = {}
      BY <1>2, <1>4, <2>1 DEF Apart, Held
    <3>2. Writes(txn[s]) => ~ShareKey(row, txn[s].row)
      <4> SUFFICES ASSUME Writes(txn[s]), ShareKey(row, txn[s].row) PROVE FALSE
        OBVIOUS
      <4>1. t.own # txn[s].own
        BY <1>4 DEF Held, Writes
      <4>2. t.own \in Others(txn[s])
        BY <1>2, <1>7, <4>1 DEF Others, ShareKey
      <4>3. t.own \in txn[s].takes
        BY <4>2 DEF Inv, Sees
      <4> QED
        BY <1>4, <4>3 DEF Held
    <3> QED
      BY <1>1, <1>2, <1>3, <2>1, <3>1, <3>2 DEF Apart
  <2> HIDE DEF u
  <2> QED
    BY <1>1, <1>7, <2>1, <2>3, <2>4, OneMoves DEF Goes, u
<1>8. \/ Goes(r, Idle)
      \/ /\ Rechecked(t.kind) => IsPending(t.own)
         /\ \E new \in Changed(t, row) : Goes(r, [t EXCEPT !.step = "find", !.row = new])
      \/ t.kind = "accept" /\ IsPending(t.own) /\ Goes(r, [t EXCEPT !.step = "commit", !.row = row])
  BY DEF Load, Rechecked
<1> QED
  BY <1>5, <1>6, <1>7, <1>8

LEMMA FindKeeps == ASSUME Inv, NEW r \in Requests, Find(r) PROVE Inv'
<1> DEFINE t == txn[r]
           u == [t EXCEPT !.step = "supersede", !.found = Others(t)]
<1>1. t # Idle /\ t.step = "find" /\ Keeps /\ Goes(r, u)
  BY IdleTyped DEF Find
<1>2. t \in Txns /\ Fits(t) /\ Agrees(t) /\ Sees(t) /\ \A s \in Requests \ {r} : Apart(t, txn[s])
  BY <1>1, Underway
<1>3. /\ u \in Txns /\ u.own = t.own /\ u.kind = t.kind /\ u.step = "supersede" /\ u.row = t.row
      /\ u.takes = t.takes /\ u.to = t.to
  BY <1>2 DEF Txns, Steps, Others
<1>4. Fits(u) /\ Agrees(u) /\ Sees(u)
  BY <1>1, <1>2, <1>3 DEF Fits, Agrees, Sees, Writes, Knows
<1>5. ASSUME NEW s \in Requests \ {r} PROVE Apart(u, txn[s])
  <2>1. Held(u) = Held(t) /\ ~Writes(u) /\ txn[s] # Idle => txn[s].step # "idle"
    BY <1>1, <1>3 DEF Held, Writes, Inv, Fits, Knows
  <2> QED
    BY <1>1, <1>2, <1>3, <2>1 DEF Apart, Held, Writes
<1> HIDE DEF u
<1> QED
  BY <1>1, <1>3, <1>4, <1>5, OneMoves DEF Goes

\* It takes what it can lock and what still waits.
LEMMA SupersedeKeeps == ASSUME Inv, NEW r \in Requests, Supersede(r) PROVE Inv'
<1> DEFINE t == txn[r]
           u == [t EXCEPT !.step = "write", !.found = {}, !.takes = StillPending(t)]
<1>1. t # Idle /\ t.step = "supersede" /\ Keeps /\ Goes(r, u) /\ \A q \in t.found : FreeFor(r, q)
  BY IdleTyped DEF Supersede
<1>2. t \in Txns /\ Fits(t) /\ Agrees(t) /\ Sees(t) /\ \A s \in Requests \ {r} : Apart(t, txn[s])
  BY <1>1, Underway
<1>3. /\ u \in Txns /\ u.own = t.own /\ u.kind = t.kind /\ u.step = "write" /\ u.row = t.row
      /\ u.takes = StillPending(t) /\ u.to = t.to
  BY <1>2 DEF Txns, Steps, StillPending, Others
<1>4. Fits(u) /\ Agrees(u) /\ Sees(u)
  BY <1>1, <1>2, <1>3 DEF Fits, Agrees, Sees, Writes, Knows, StillPending, Others
<1>5. ASSUME NEW s \in Requests \ {r} PROVE Apart(u, txn[s])
  <2>1. \A q \in u.takes : q \notin Held(txn[s])
    BY <1>1, <1>3, LockedIsHeld DEF FreeFor, StillPending
  <2>2. Held(u) \cap Held(txn[s]) = {}
    BY <1>1, <1>2, <1>3, <2>1 DEF Apart, Held
  <2> QED
    BY <1>1, <1>2, <1>3, <2>2 DEF Apart, Writes
<1> HIDE DEF u
<1> QED
  BY <1>1, <1>3, <1>4, <1>5, OneMoves DEF Goes

\* The indexes let it write what nothing pending and nothing written has a key of.
LEMMA WriteKeeps == ASSUME Inv, NEW r \in Requests, Write(r) PROVE Inv'
<1> DEFINE t == txn[r]
           w == Written(t)
<1>1. t # Idle /\ t.step = "write" /\ Keeps /\ FreeFor(r, t.own)
  BY IdleTyped DEF Write
<1>2. /\ t \in Txns /\ t.own \in Proposals /\ proposal[t.own] \in Rows /\ Fits(t) /\ Agrees(t)
      /\ \A s \in Requests \ {r} : Apart(t, txn[s])
  BY <1>1, Underway
<1>3. w \in Rows /\ w.page = t.row.page /\ w.code = t.row.code
  <2>1. t.kind = "scan" => proposal[t.own].page = t.row.page
    BY <1>1, <1>2 DEF Fits, Knows
  <2>2. t.row \in Rows
    BY <1>2 DEF Txns
  <2>3. CASE t.kind = "scan"
    <3>1. w = [proposal[t.own] EXCEPT !.code = t.row.code, !.byPerson = t.row.byPerson]
      BY <2>3 DEF Written
    <3> QED
      BY <1>2, <2>1, <2>2, <2>3, <3>1 DEF Rows
  <2>4. CASE t.kind # "scan"
    BY <2>2, <2>4 DEF Written
  <2> QED
    BY <2>3, <2>4
<1>4. /\ w.status = "superseded" => w.for \in Proposals
      /\ w.status # "none"
      /\ proposal[t.own].status = "none" => w.status = "pending"
      /\ proposal[t.own].status # "none" => SameDecision(w, proposal[t.own])
  <2>1. CASE t.kind = "scan"
    <3>1. proposal[t.own].status # "none"
      BY <1>1, <1>2, <2>1 DEF Fits
    <3>2. SameDecision(w, proposal[t.own])
      BY <1>2, <2>1 DEF Written, SameDecision, Rows
    <3> QED
      BY <1>2, <3>1, <3>2 DEF SameDecision, Inv, TypeOK
  <2>2. CASE t.kind # "scan"
    BY <1>1, <1>2, <2>2 DEF Written, Fits, Agrees, Knows
  <2> QED
    BY <2>1, <2>2
<1>5. CASE IndexAllows(t) /\ ~IndexWaits(r) /\ Goes(r, [t EXCEPT !.step = "commit", !.row = w])
  <2> DEFINE u == [t EXCEPT !.step = "commit", !.row = w]
  <2>1. /\ u \in Txns /\ u.own = t.own /\ u.kind = t.kind /\ u.step = "commit" /\ u.row = w
        /\ u.takes = t.takes /\ u.to = t.to
    BY <1>2, <1>3 DEF Txns, Steps
  <2>2. Others(u) = Others(t)
    BY <1>3, <2>1 DEF Others, ShareKey, Keys
  <2>3. Fits(u) /\ Agrees(u) /\ Sees(u)
    BY <1>1, <1>2, <1>3, <1>4, <1>5, <2>1, <2>2 DEF Fits, Agrees, Sees, Writes, Knows, IndexAllows
  <2>4. ASSUME NEW s \in Requests \ {r} PROVE Apart(u, txn[s])
    <3>1. Held(u) \cap Held(txn[s]) = {}
      BY <1>1, <1>2, <2>1, LockedIsHeld DEF Apart, Held, FreeFor
    <3>2. Writes(txn[s]) => ~ShareKey(w, txn[s].row)
      BY <1>3, <1>5 DEF IndexWaits, Unseen, Writes, ShareKey, Keys
    <3> QED
      BY <1>1, <1>2, <2>1, <3>1, <3>2 DEF Apart
  <2> HIDE DEF u
  <2> QED
    BY <1>1, <1>5, <2>1, <2>3, <2>4, OneMoves DEF Goes, u
<1>6. CASE Goes(r, Idle)
  BY <1>1, <1>6, OneStops
<1>7. CASE Goes(r, [t EXCEPT !.step = "find", !.takes = {}, !.tried = TRUE])
  <2> DEFINE u == [t EXCEPT !.step = "find", !.takes = {}, !.tried = TRUE]
  <2>1. /\ u \in Txns /\ u.own = t.own /\ u.kind = t.kind /\ u.step = "find" /\ u.row = t.row
        /\ u.takes = {} /\ u.to = t.to
    BY <1>2 DEF Txns, Steps
  <2>2. Fits(u) /\ Agrees(u) /\ Sees(u)
    BY <1>1, <1>2, <2>1 DEF Fits, Agrees, Sees, Writes, Knows
  <2>3. ASSUME NEW s \in Requests \ {r} PROVE Apart(u, txn[s])
    BY <1>1, <1>2, <2>1 DEF Apart, Held, Writes
  <2> HIDE DEF u
  <2> QED
    BY <1>1, <1>7, <2>1, <2>2, <2>3, OneMoves DEF Goes, u
<1> QED
  BY <1>5, <1>6, <1>7 DEF Write

-----------------------------------------------------------------------------
(* Rows change.                                                            *)

\* A rejected row was pending, and nobody holds it.
LEMMA RejectKeeps == ASSUME Inv, NEW q \in Proposals, Reject(q) PROVE Inv'
<1>1. /\ IsPending(q) /\ \A r \in Requests : q \notin Held(txn[r])
      /\ proposal' = [proposal EXCEPT ![q].status = "rejected"]
      /\ UNCHANGED <<codeOwner, txn, mix, rewritten>>
  BY LockedIsHeld DEF Reject
<1>2. proposal \in [Proposals -> Rows] /\ proposal' \in [Proposals -> Rows]
  BY <1>1 DEF Inv, TypeOK, Rows, Decided
<1>3. /\ \A p \in Proposals \ {q} : proposal'[p] = proposal[p]
      /\ proposal'[q].status = "rejected" /\ proposal'[q].page = proposal[q].page
  BY <1>1, <1>2 DEF Rows
<1>4. TypeOK'
  BY <1>1, <1>2, <1>3 DEF Inv, TypeOK
<1>5. ASSUME NEW r \in Requests PROVE Fits(txn[r])' /\ Agrees(txn[r])' /\ Sees(txn[r])'
  <2>1. Fits(txn[r]) /\ Agrees(txn[r]) /\ Sees(txn[r]) /\ q \notin Held(txn[r])
    BY <1>1 DEF Inv
  <2>2. Fits(txn[r])'
    BY <1>1, <1>3, <2>1 DEF Fits, Held, IsPending
  <2>3. txn[r].step \in Knows /\ txn[r].kind # "scan" => txn[r].own # q
    BY <2>1 DEF Held, Knows
  <2>4. Agrees(txn[r])'
    <3>1. txn[r].own = q /\ txn[r].step \in Knows => txn[r].kind = "scan" /\ txn[r].step # "commit"
      BY <2>1, <2>3 DEF Held
    <3>2. CASE txn[r].own = q
      BY <1>1, <1>3, <3>1, <3>2 DEF Agrees, Rechecked
    <3>3. CASE txn[r].own # q
      BY <1>1, <1>3, <2>1, <3>3 DEF Agrees
    <3> QED
      BY <3>2, <3>3
  <2>5. Sees(txn[r])'
    BY <1>1, <1>3, <2>1 DEF Sees, Writes, Others, IsPending
  <2> QED
    BY <2>2, <2>4, <2>5
<1>6. AllApart'
  BY <1>1, <1>3 DEF Inv, AllApart, Apart, Held, Writes, IsPending
<1>7. OnePendingPerKey'
  BY <1>1, <1>3 DEF Inv, OnePendingPerKey, IsPending
<1> QED
  BY <1>4, <1>5, <1>6, <1>7 DEF Inv

LEMMA CommittedTyped ==
  ASSUME NEW t \in Txns, t.kind = "accept" => t.to \in Products
  PROVE  /\ Committed(t) \in Rows /\ Committed(t).page = t.row.page
         /\ Committed(t).code = t.row.code /\ Committed(t).for = t.row.for
         /\ t.kind # "accept" => Committed(t) = t.row
         /\ Committed(t).status = IF t.kind = "accept" THEN "accepted" ELSE t.row.status
         /\ t.kind = "accept" => Committed(t).product = t.to
<1>1. t.row \in Rows
  BY DEF Txns
<1>2. CASE t.kind = "accept"
  BY <1>1, <1>2 DEF Committed, Rows, Decided
<1>3. CASE t.kind # "accept"
  BY <1>1, <1>3 DEF Committed
<1> QED
  BY <1>2, <1>3

\* What a commit does to each row, and to each other transaction.
LEMMA CommitWrites ==
  ASSUME Inv, NEW r \in Requests, Commit(r)
  PROVE  /\ txn[r].step = "commit" /\ txn[r] \in Txns /\ txn[r].own \in Proposals
         /\ txn' = [txn EXCEPT ![r] = Idle] /\ UNCHANGED mix
         /\ proposal' \in [Proposals -> Rows]
         /\ proposal'[txn[r].own] = Committed(txn[r])
         /\ \A q \in txn[r].takes \ {txn[r].own} :
              proposal'[q] = Superseded(q, txn[r]) /\ IsPending(q)
         /\ \A q \in Proposals : q # txn[r].own /\ q \notin txn[r].takes => proposal'[q] = proposal[q]
<1> DEFINE t == txn[r]
<1>1. t.step = "commit" /\ t # Idle
  BY IdleTyped DEF Commit
<1>2. t \in Txns /\ t.own \in Proposals /\ Fits(t)
  BY <1>1, Underway
<1>3. t.takes \subseteq Proposals /\ \A q \in t.takes : IsPending(q)
  BY <1>2 DEF Txns, Fits
<1>4. proposal' = [q \in Proposals |-> IF q = t.own THEN Committed(t)
                                       ELSE IF q \in t.takes THEN Superseded(q, t) ELSE proposal[q]]
  BY DEF Commit
<1>5. Committed(t) \in Rows
  BY <1>2, CommittedTyped DEF Fits
<1>6. ASSUME NEW q \in Proposals PROVE Superseded(q, t) \in Rows
  <2>1. proposal[q] \in Rows /\ t.own \in Proposals
    BY <1>2 DEF Inv, TypeOK
  <2> QED
    BY <2>1 DEF Superseded, Rows, Decided
<1>7. proposal' \in [Proposals -> Rows]
  BY <1>4, <1>5, <1>6 DEF Inv, TypeOK
<1> QED
  BY <1>1, <1>2, <1>3, <1>4, <1>7 DEF Commit, Goes

LEMMA CommitKeeps == ASSUME Inv, NEW r \in Requests, Commit(r) PROVE Inv'
<1> DEFINE t == txn[r]
<1>1. /\ t.step = "commit" /\ t \in Txns /\ t.own \in Proposals /\ t # Idle
      /\ txn' = [txn EXCEPT ![r] = Idle] /\ UNCHANGED mix
      /\ proposal' \in [Proposals -> Rows]
      /\ proposal'[t.own] = Committed(t)
      /\ \A q \in t.takes \ {t.own} : proposal'[q] = Superseded(q, t) /\ IsPending(q)
      /\ \A q \in Proposals : q # t.own /\ q \notin t.takes => proposal'[q] = proposal[q]
  BY CommitWrites, IdleTyped
<1>2. /\ Fits(t) /\ Agrees(t) /\ Sees(t) /\ t.takes \subseteq Proposals
      /\ \A s \in Requests \ {r} : Apart(t, txn[s])
  BY <1>1, Underway DEF Txns
<1>3. /\ Committed(t).page = t.row.page /\ Committed(t).code = t.row.code
      /\ Committed(t).for = t.row.for
      /\ Committed(t).status = IF t.kind = "accept" THEN "accepted" ELSE t.row.status
  BY <1>1, <1>2, CommittedTyped DEF Fits
<1>4. \A q \in Proposals : Superseded(q, t).status = "superseded" /\ Superseded(q, t).for = t.own
                           /\ Superseded(q, t).page = proposal[q].page
  BY DEF Superseded, Inv, TypeOK, Rows
<1>5. /\ txn \in [Requests -> Txns] /\ txn' \in [Requests -> Txns]
      /\ txn'[r] = Idle /\ \A s \in Requests \ {r} : txn'[s] = txn[s]
  BY <1>1, IdleTyped DEF Inv, TypeOK
\* It leaves alone what another transaction holds.
<1>6. ASSUME NEW s \in Requests \ {r}, NEW q \in Held(txn[s]) \cap Proposals PROVE proposal'[q] = proposal[q]
  BY <1>1, <1>2 DEF Apart, Held
\* What becomes pending is what it wrote.
<1>7. ASSUME NEW q \in Proposals, proposal'[q].status = "pending"
      PROVE  \/ q # t.own /\ q \notin t.takes /\ proposal'[q] = proposal[q]
             \/ q = t.own /\ Writes(t) /\ Keys(proposal'[q]) = Keys(t.row)
  BY <1>1, <1>2, <1>3, <1>4, <1>7 DEF Writes, Keys
<1>8. TypeOK'
  <2>1. codeOwner' \in [Codes -> Products \cup {None}]
    BY <1>2, <1>1 DEF Commit, Inv, TypeOK, Fits
  <2>3. rewritten' \subseteq Proposals
    BY <1>1 DEF Commit, Inv, TypeOK
  <2>2. ASSUME NEW q \in Proposals, proposal'[q].status = "superseded" PROVE proposal'[q].for \in Proposals
    <3>1. CASE q = t.own
      BY <1>1, <1>2, <1>3, <2>2, <3>1 DEF Fits
    <3>2. CASE q # t.own /\ q \in t.takes
      BY <1>1, <1>4, <3>2
    <3>3. CASE q # t.own /\ q \notin t.takes
      BY <1>1, <2>2, <3>3 DEF Inv, TypeOK
    <3> QED
      BY <3>1, <3>2, <3>3
  <2> QED
    BY <1>1, <1>5, <2>1, <2>2, <2>3 DEF Inv, TypeOK
<1>9. ASSUME NEW s \in Requests PROVE Fits(txn[s])' /\ Agrees(txn[s])' /\ Sees(txn[s])'
  <2>1. CASE s = r
    BY <1>5, <2>1, IdleTyped DEF Fits, Agrees, Sees, Writes, Knows
  <2>2. CASE s # r
    <3> DEFINE u == txn[s]
    <3>1. u \in Txns /\ txn'[s] = u /\ Fits(u) /\ Agrees(u) /\ Sees(u) /\ Apart(t, u) /\ u.takes \subseteq Proposals
      BY <1>2, <1>5, <2>2 DEF Inv, Txns
    <3>2. \A q \in u.takes : proposal'[q] = proposal[q]
      BY <1>6, <2>2, <3>1 DEF Held
    <3>3. ASSUME u.own \in Proposals
          PROVE  /\ proposal'[u.own].status = "none" => proposal[u.own].status = "none"
                 /\ proposal[u.own].status # "none" /\ u.step \in Knows => proposal'[u.own].page = proposal[u.own].page
                 /\ proposal[u.own].status = "none" => proposal'[u.own] = proposal[u.own]
      <4>1. CASE u.own = t.own
        BY <1>1, <1>2, <1>3, <3>1, <3>3, <4>1 DEF Apart, Fits, Knows
      <4>2. CASE u.own # t.own /\ u.own \in t.takes
        BY <1>1, <1>4, <3>3, <4>2 DEF IsPending
      <4>3. CASE u.own # t.own /\ u.own \notin t.takes
        BY <1>1, <3>3, <4>3
      <4> QED
        BY <4>1, <4>2, <4>3
    <3>4. Fits(u)'
      BY <3>1, <3>2, <3>3 DEF Fits, IsPending
    <3>5. Agrees(u)'
      <4> SUFFICES ASSUME u.own \in Proposals, u.step \in Knows PROVE Agrees(u)'
        BY <3>1 DEF Agrees
      <4>1. CASE u.kind # "scan" \/ u.step = "commit"
        <5>1. proposal'[u.own] = proposal[u.own]
          BY <1>6, <2>2, <4>1 DEF Held, Knows
        <5> QED
          BY <3>1, <5>1 DEF Agrees
      <4>2. CASE u.kind = "scan" /\ u.step # "commit"
        <5>1. proposal'[u.own].status # "none"
          BY <3>1, <3>3, <4>2 DEF Fits
        <5> QED
          BY <3>1, <4>2, <5>1 DEF Agrees, Rechecked
      <4> QED
        BY <4>1, <4>2
    <3>6. Sees(u)'
      <4> SUFFICES ASSUME Writes(u), NEW q \in Others(u)' PROVE q \in u.takes
        BY <3>1 DEF Sees, Writes
      <4>1. q \in Proposals /\ q # u.own /\ proposal'[q].status = "pending" /\ ShareKey(proposal'[q], u.row)
        BY <3>1 DEF Others, IsPending, ShareKey, Keys
      <4>2. CASE proposal'[q] = proposal[q]
        BY <3>1, <4>1, <4>2 DEF Sees, Others, IsPending
      <4>3. CASE Writes(t) /\ Keys(proposal'[q]) = Keys(t.row)
        BY <3>1, <4>1, <4>3 DEF Apart, ShareKey
      <4> QED
        BY <1>7, <4>1, <4>2, <4>3
    <3> QED
      BY <3>1, <3>4, <3>5, <3>6 DEF Fits, Agrees, Sees, Writes, Others
  <2> QED
    BY <2>1, <2>2
<1>10. ASSUME NEW s \in Requests, NEW u \in Requests, s # u PROVE Apart(txn[s], txn[u])'
  <2>1. CASE s = r \/ u = r
    BY <1>5, <2>1, <1>10, IdleTyped DEF Apart, Held, Writes
  <2>2. CASE s # r /\ u # r
    <3>1. Apart(txn[s], txn[u]) /\ txn'[s] = txn[s] /\ txn'[u] = txn[u] /\ Fits(txn[s])
      BY <1>5, <1>10, <2>2 DEF Inv, AllApart
    <3>2. ASSUME txn[s].own \in Proposals, txn[u].own = txn[s].own PROVE proposal'[txn[s].own].status # "none"
      <4>1. proposal[txn[s].own].status # "none"
        BY <3>1, <3>2 DEF Apart
      <4>2. CASE txn[s].own = t.own
        <5>1. t.row.status # "none"
          BY <1>1, <1>2, <4>1, <4>2 DEF Fits
        <5> QED
          BY <1>1, <1>3, <4>2, <5>1
      <4> QED
        BY <1>1, <1>4, <3>2, <4>1, <4>2
    <3> QED
      BY <1>1, <3>1, <3>2 DEF Apart, Held, Writes
  <2> QED
    BY <2>1, <2>2
<1>11. OnePendingPerKey'
  <2> SUFFICES ASSUME NEW p \in Proposals, NEW q \in Proposals, p # q,
                      proposal'[p].status = "pending", proposal'[q].status = "pending"
               PROVE  Keys(proposal'[p]) \cap Keys(proposal'[q]) = {}
    BY DEF OnePendingPerKey, IsPending, ShareKey, Keys
  <2>1. ASSUME NEW o \in Proposals \ {t.own}, Writes(t), proposal'[o] = proposal[o], o \notin t.takes,
               proposal[o].status = "pending"
        PROVE  Keys(proposal[o]) \cap Keys(t.row) = {}
    BY <1>2, <2>1 DEF Sees, Others, IsPending, ShareKey
  <2>2. CASE proposal'[p] = proposal[p] /\ proposal'[q] = proposal[q]
    BY <2>2 DEF Inv, OnePendingPerKey, IsPending, ShareKey
  <2> QED
    BY <1>7, <2>1, <2>2
<1> QED
  BY <1>8, <1>9, <1>10, <1>11 DEF Inv, AllApart

-----------------------------------------------------------------------------
(* The theorems.                                                           *)

LEMMA InitHolds == Init => Inv
<1> SUFFICES ASSUME Init PROVE Inv
  OBVIOUS
<1>1. \A r \in Requests : txn[r] = Idle
  BY DEF Init
<1>2. TypeOK
  BY IdleTyped DEF Init, TypeOK
<1>3. OnePendingPerKey
  BY IdleTyped DEF Init, OnePendingPerKey, IsPending
<1> QED
  BY <1>1, <1>2, <1>3, IdleFits, IdleIsApart DEF Inv, AllApart

LEMMA StepKeeps == Inv /\ [Next]_vars => Inv'
<1> SUFFICES ASSUME Inv, [Next]_vars PROVE Inv'
  OBVIOUS
<1>1. CASE UNCHANGED vars
  BY <1>1 DEF vars, Inv, TypeOK, Fits, Agrees, Sees, AllApart, Apart, Held, Writes, Others,
              IsPending, OnePendingPerKey
<1>2. ASSUME NEW q \in Proposals, Reject(q) PROVE Inv'
  BY <1>2, RejectKeeps
<1>3. ASSUME NEW r \in Requests, Begins(r) PROVE Inv'
  BY <1>3, BeginsKeeps
<1>4. ASSUME NEW r \in Requests, Continues(r) PROVE Inv'
  BY <1>4, LoadKeeps, FindKeeps, SupersedeKeeps, WriteKeeps, CommitKeeps, OneStops DEF Continues, Abort
<1> QED
  BY <1>1, <1>2, <1>3, <1>4 DEF Next

LEMMA Invariant == Spec => []Inv
  BY InitHolds, StepKeeps, PTL DEF Spec

\* Rows, transactions and barcodes keep their types.
THEOREM TypeCorrect == Spec => []TypeOK
  BY Invariant, PTL DEF Inv

\* One proposal of a page or barcode is pending, however many transactions find,
\* lock and write at once, and whichever of them has to write twice.
THEOREM OneIsPending == Spec => []OnePendingPerKey
  BY Invariant, PTL DEF Inv

\* A commit or a rejection is all that changes a row.
LEMMA WhatChangesRows ==
  ASSUME Inv, [Next]_vars
  PROVE  \/ UNCHANGED <<proposal, codeOwner, rewritten>>
         \/ \E q \in Proposals : Reject(q)
         \/ \E r \in Requests : Commit(r)
<1>1. ASSUME NEW r \in Requests, Begins(r) PROVE Keeps
  BY <1>1 DEF Begins, Capture, Edit, Accept, ReadPage, Answer, Scan
<1>2. ASSUME NEW r \in Requests, Continues(r), ~Commit(r) PROVE Keeps
  BY <1>2 DEF Continues, Load, Find, Supersede, Write, Abort
<1> QED
  BY <1>1, <1>2 DEF Next, Keeps, vars

\* What a commit makes of its row: a row that was new or waited is pending after,
\* or accepted if that is what the commit does; the decision of any other is left.
LEMMA CommitLeaves ==
  ASSUME Inv, NEW r \in Requests, Commit(r)
  PROVE  LET t == txn[r] own == proposal[t.own] new == proposal'[t.own] IN
         /\ t.own \in Proposals /\ new.code = t.row.code
         /\ \/ /\ own.status \in {"none", "pending"} /\ new.status \in {"pending", "accepted"}
               /\ new.status = "accepted" <=> t.kind = "accept"
               /\ t.kind = "accept" => new.product = t.to /\ t.to \in Products
            \/ /\ own.status \in Decided /\ SameDecision(new, own) /\ t.kind # "accept"
               /\ Late(t) /\ LateTo(t.own) /\ t.own \in rewritten'
<1> DEFINE t == txn[r]
           own == proposal[t.own]
<1>1. /\ t.step = "commit" /\ t \in Txns /\ t.own \in Proposals /\ t # Idle
      /\ proposal'[t.own] = Committed(t) /\ Fits(t) /\ Agrees(t)
      /\ own \in Rows /\ txn'[r] = Idle
  BY CommitWrites, IdleTyped DEF Inv, TypeOK
<1>2. /\ Committed(t).code = t.row.code /\ (t.kind # "accept" => Committed(t) = t.row)
      /\ Committed(t).status = IF t.kind = "accept" THEN "accepted" ELSE t.row.status
      /\ t.kind = "accept" => Committed(t).product = t.to /\ t.to \in Products
  BY <1>1, CommittedTyped DEF Fits
<1>3. own.status \in {"none", "pending"} \cup Decided
  BY <1>1 DEF Rows
<1>4. CASE own.status = "none"
  BY <1>1, <1>2, <1>4 DEF Agrees, Knows, Rechecked
<1>5. CASE own.status = "pending"
  BY <1>1, <1>2, <1>5 DEF Agrees, Knows, SameDecision
<1>6. CASE own.status \in Decided
  <2>1. t.kind \in {"answer", "scan"}
    BY <1>1, <1>6 DEF Fits, Agrees, Knows, AllKinds, Rechecked, Decided
  <2>2. SameDecision(proposal'[t.own], own)
    BY <1>1, <1>2, <1>6, <2>1 DEF Agrees, Knows, Decided
  <2>3. Late(t)
    BY <1>6, <2>1 DEF Late
  <2>4. LateTo(t.own)
    BY <1>1, <2>3 DEF LateTo
  <2>5. t.own \in rewritten'
    BY <2>3 DEF Commit
  <2> QED
    BY <1>1, <1>2, <1>6, <2>1, <2>2, <2>3, <2>4, <2>5
<1> QED
  BY <1>3, <1>4, <1>5, <1>6

\* Decided proposals stay as they are, but for the barcode that an answer or a
\* scan looked at too early writes to one; whoever else writes at once.
THEOREM DecisionsStay == Spec => DecidedStands
<1>1. Inv /\ [Next]_vars
        => [\A q \in Proposals : proposal[q].status \in Decided =>
              \/ proposal'[q] = proposal[q]
              \/ LateTo(q) /\ SameDecision(proposal'[q], proposal[q])]_vars
  <2> SUFFICES ASSUME Inv, [Next]_vars, NEW q \in Proposals, proposal[q].status \in Decided
               PROVE  \/ proposal'[q] = proposal[q]
                      \/ LateTo(q) /\ SameDecision(proposal'[q], proposal[q])
    OBVIOUS
  <2>1. CASE \E p \in Proposals : Reject(p)
    BY <2>1 DEF Reject, IsPending, Decided, Inv, TypeOK
  <2>2. ASSUME NEW r \in Requests, Commit(r)
        PROVE  \/ proposal'[q] = proposal[q]
               \/ LateTo(q) /\ SameDecision(proposal'[q], proposal[q])
    <3>1. CASE q = txn[r].own
      BY <2>2, <3>1, CommitLeaves DEF Decided
    <3>2. CASE q # txn[r].own
      <4>1. q \notin txn[r].takes
        BY <2>2, <3>2, CommitWrites DEF IsPending, Decided
      <4> QED
        BY <2>2, <3>2, <4>1, CommitWrites
    <3> QED
      BY <3>1, <3>2
  <2> QED
    BY <2>1, <2>2, WhatChangesRows
<1> QED
  BY <1>1, Invariant, PTL DEF Spec, DecidedStands

\* Nothing is superseded for nothing: the one it went to waits or is accepted, or
\* an answer or a scan came to it after it was decided.
THEOREM NothingIsLost == Spec => SupersededForAnother
<1>1. Inv /\ [Next]_vars
        => [\A q \in Proposals : IsPending(q) /\ proposal'[q].status = "superseded" =>
              \/ proposal'[proposal'[q].for].status \in {"pending", "accepted"}
              \/ LateTo(proposal'[q].for)]_vars
  <2> SUFFICES ASSUME Inv, [Next]_vars, NEW q \in Proposals, IsPending(q),
                      proposal'[q].status = "superseded"
               PROVE  \/ proposal'[proposal'[q].for].status \in {"pending", "accepted"}
                      \/ LateTo(proposal'[q].for)
    OBVIOUS
  <2>1. CASE \E p \in Proposals : Reject(p)
    BY <2>1 DEF Reject, IsPending, Inv, TypeOK
  <2>2. ASSUME NEW r \in Requests, Commit(r)
        PROVE  \/ proposal'[proposal'[q].for].status \in {"pending", "accepted"}
               \/ LateTo(proposal'[q].for)
    <3>1. q # txn[r].own
      BY <2>2, CommitLeaves DEF IsPending, Decided
    <3>2. q \in txn[r].takes
      BY <2>2, <3>1, CommitWrites DEF IsPending
    <3>3. proposal'[q] = Superseded(q, txn[r])
      BY <2>2, <3>1, <3>2, CommitWrites
    <3>4. Superseded(q, txn[r]).for = txn[r].own
      BY DEF Superseded, Inv, TypeOK, Rows
    <3> QED
      BY <2>2, <3>3, <3>4, CommitLeaves
  <2> QED
    BY <2>1, <2>2, WhatChangesRows DEF IsPending
<1> QED
  BY <1>1, Invariant, PTL DEF Spec, SupersededForAnother

\* The code of an accepted proposal is its product's, and the product is there.
Catalogued ==
  AcceptedIsCatalogued /\ \A q \in Proposals : proposal[q].status = "accepted" => proposal[q].product \in Products

\* A barcode belongs to the product it was accepted for, whoever accepts, answers
\* or scans at once, unless an answer or scan was written to the row afterwards.
THEOREM AcceptedKeepTheirCode == Spec => []AcceptedIsCatalogued
<1>1. Init => Catalogued
  BY IdleTyped DEF Init, Catalogued, AcceptedIsCatalogued
<1>2. Inv /\ Inv' /\ Catalogued /\ [Next]_vars => Catalogued'
  <2> SUFFICES ASSUME Inv, Inv', Catalogued, [Next]_vars PROVE Catalogued'
    OBVIOUS
  <2>1. CASE UNCHANGED <<proposal, codeOwner, rewritten>>
    BY <2>1 DEF Catalogued, AcceptedIsCatalogued
  <2>2. CASE \E p \in Proposals : Reject(p)
    BY <2>2 DEF Reject, IsPending, Inv, TypeOK, Rows, Catalogued, AcceptedIsCatalogued
  <2>3. ASSUME NEW r \in Requests, Commit(r) PROVE Catalogued'
    <3> SUFFICES ASSUME NEW q \in Proposals, proposal'[q].status = "accepted"
                 PROVE  /\ q \notin rewritten' /\ proposal'[q].code # None
                             => codeOwner'[proposal'[q].code] = proposal'[q].product
                        /\ proposal'[q].product \in Products
      BY DEF Catalogued, AcceptedIsCatalogued
    <3>1. rewritten \subseteq rewritten'
      BY <2>3 DEF Commit
    <3>2. \A c \in Codes : codeOwner'[c] = IF txn[r].kind = "accept" /\ c = txn[r].row.code
                                           THEN txn[r].to ELSE codeOwner[c]
      BY <2>3 DEF Commit
    <3>3. proposal'[q].code # None => proposal'[q].code \in Codes
      BY DEF Inv, TypeOK, Rows
    <3>4. CASE q = txn[r].own
      <4>1. CASE proposal[q].status \in Decided /\ SameDecision(proposal'[q], proposal[q]) /\ q \in rewritten'
        BY <4>1 DEF SameDecision, Catalogued
      <4>2. CASE txn[r].kind = "accept" /\ proposal'[q].product = txn[r].to /\ txn[r].to \in Products
        BY <2>3, <3>2, <3>3, <3>4, <4>2, CommitLeaves
      <4> QED
        BY <2>3, <3>4, <4>1, <4>2, CommitLeaves
    <3>5. CASE q # txn[r].own
      <4>1. q \notin txn[r].takes
        <5> SUFFICES ASSUME q \in txn[r].takes PROVE FALSE
          OBVIOUS
        <5>1. proposal'[q] = Superseded(q, txn[r])
          BY <2>3, <3>5, CommitWrites
        <5> QED
          BY <5>1 DEF Superseded, Inv, TypeOK, Rows
      <4>2. proposal'[q] = proposal[q]
        BY <2>3, <3>5, <4>1, CommitWrites
      <4>3. /\ proposal[q].product \in Products
            /\ q \notin rewritten' /\ proposal[q].code # None
                 => codeOwner[proposal[q].code] = proposal[q].product
        BY <3>1, <4>2 DEF Catalogued, AcceptedIsCatalogued
      <4>4. q \notin rewritten' /\ txn[r].kind = "accept" /\ proposal[q].code # None
                /\ proposal[q].code = txn[r].row.code
              => proposal[q].product = txn[r].to
        BY <2>3, <3>3, <4>2, <4>3, NoneAssumption DEF Commit, OwnerAllows
      <4> QED
        BY <3>2, <3>3, <4>2, <4>3, <4>4
    <3> QED
      BY <3>4, <3>5
  <2> QED
    BY <2>1, <2>2, <2>3, WhatChangesRows
<1> QED
  BY <1>1, <1>2, Invariant, PTL DEF Spec, Catalogued
=============================================================================
