-------------------------- MODULE PriceBookProofs --------------------------
(***************************************************************************)
(* What is proved about PriceBook for any number of lines, products and    *)
(* prices, whatever the switches are but where a theorem names one.        *)
(*                                                                         *)
(* The inductive invariant Kept adds to the properties what the code       *)
(* relies on without saying so: a line on a purchase has a price, a chosen *)
(* one has a product, a committed purchase has a header, and a reader's    *)
(* draft, whose lines "Enter by hand" deletes, has nothing in the book.    *)
(* Settled adds what a commit relies on: a line's product is unmerged, its *)
(* price that counts is the last one, and nothing is still being read.     *)
(***************************************************************************)
EXTENDS PriceBook, TLAPS

\* A line row as the services leave it.
Sound(row) ==
  /\ row \in LineRows
  /\ row.state = "on" => row.price \in Prices
  /\ row.choice = "chosen" => row.product \in Products

RowsSound == \A l \in Lines : Sound(line[l])

CommittedHasHeader == status = "committed" => header \in Headers

DraftUnrecorded == status = "draft" /\ ~byHand => \A l \in Lines : book[l] = <<>>

\* What every proof below starts from.
Kept ==
  TypeOK /\ RowsSound /\ CommittedHasHeader /\ DraftUnrecorded /\ LiveIsBought /\ ProvenanceKept

-----------------------------------------------------------------------------
(* Rows.                                                                   *)

LEMMA NewRows ==
  /\ Sound(NoLine) /\ NoLine.state = "none"
  /\ \A row \in NewLines : Sound(row) /\ row.state = "on"
  /\ \A p \in Prices, w \in BOOLEAN : Sound(NewLine(p, w)) /\ NewLine(p, w).state = "on"
  /\ \A x \in Products, p \in Prices :
       Sound(ByHandRow(x, p)) /\ ByHandRow(x, p).state = "on"
<1>1. Sound(NoLine) /\ NoLine.state = "none"
  BY DEF Sound, NoLine, LineRows, ChoiceKinds
<1>2. ASSUME NEW p \in Prices, NEW w \in BOOLEAN
      PROVE  Sound(NewLine(p, w)) /\ NewLine(p, w).state = "on"
  BY DEF Sound, NewLine, NoLine, LineRows, ChoiceKinds
<1>3. ASSUME NEW x \in Products, NEW p \in Prices
      PROVE  Sound(ByHandRow(x, p)) /\ ByHandRow(x, p).state = "on"
  BY <1>2 DEF Sound, ByHandRow, LineRows, ChoiceKinds
<1>4. ASSUME NEW row \in NewLines PROVE Sound(row) /\ row.state = "on"
  BY <1>2 DEF NewLines
<1> QED
  BY <1>1, <1>2, <1>3, <1>4

LEMMA ChoosableAreProducts == Choosable \subseteq Products
  BY DEF Choosable

\* What the ladder makes of a sound row is one, and it stays where it is.
LEMMA MatchedRows ==
  ASSUME NEW row, Sound(row), NEW m \in Matched(row)
  PROVE  Sound(m) /\ m.state = row.state
<1>1. CASE m = Unmatched(row)
  BY <1>1 DEF Unmatched, Sound, LineRows, ChoiceKinds
<1>2. CASE m \in Laddered(row)
  <2>1. PICK x \in Choosable \cup {None} : m = [row EXCEPT !.product = x, !.choice = "auto"]
    BY <1>2 DEF Laddered
  <2> QED
    BY <2>1, ChoosableAreProducts DEF Sound, LineRows, ChoiceKinds
<1> QED
  BY <1>1, <1>2 DEF Matched

LEMMA RepricedRows ==
  ASSUME NEW row, Sound(row), NEW r \in Repriced(row)
  PROVE  Sound(r) /\ r.state = row.state
<1>1. PICK p \in Prices, w \in BOOLEAN : r = Reworded(row, p, w)
  BY DEF Repriced
<1> QED
  BY <1>1 DEF Reworded, Sound, LineRows

LEMMA OnFormRows ==
  ASSUME NEW row, Sound(row), NEW r \in OnForm(row)
  PROVE  Sound(r) /\ r.state = "on"
<1>1. PICK x \in Choosable, p \in Prices : r = FormRow(row, x, p)
  BY DEF OnForm
<1>2. Sound(ByHandRow(x, p)) /\ ByHandRow(x, p).state = "on"
  BY ChoosableAreProducts, NewRows
<1>3. row.worded \in BOOLEAN /\ row.unpriced \in BOOLEAN
  BY DEF Sound, LineRows
<1> QED
  BY <1>1, <1>2, <1>3 DEF FormRow, Sound, LineRows

LEMMA TakenOffRows ==
  ASSUME RowsSound, NEW l \in Lines
  PROVE  Sound(TakenOff(l)) /\ TakenOff(l).state # "on" /\ (Recorded(l) => TakenOff(l).state = "removed")
  BY NewRows DEF RowsSound, TakenOff, Sound, LineRows

\* Correcting the lines, or filling in the form, keeps rows sound and loses none
\* that was ever recorded.
LEMMA CorrectedRows ==
  ASSUME RowsSound, NEW l \in Lines, NEW row \in Corrected(l)
  PROVE  Sound(row) /\ (Recorded(l) /\ line[l].state # "none" => row.state # "none")
<1>1. Sound(line[l])
  BY DEF RowsSound
<1>2. CASE row \in Repriced(line[l]) \/ row = TakenOff(l) \/ row = line[l]
  BY <1>1, <1>2, RepricedRows, TakenOffRows
<1>3. CASE row \in UNION {Matched(r) : r \in Repriced(line[l])}
  <2>1. PICK r \in Repriced(line[l]) : row \in Matched(r)
    BY <1>3
  <2> QED
    BY <1>1, <2>1, RepricedRows, MatchedRows
<1>4. CASE line[l].state = "none" /\ row \in UNION {Matched(r) : r \in NewLines}
  <2>1. PICK r \in NewLines : row \in Matched(r)
    BY <1>4
  <2> QED
    BY <2>1, NewRows, MatchedRows
<1> QED
  BY <1>2, <1>3, <1>4 DEF Corrected

LEMMA EnteredRows ==
  ASSUME RowsSound, NEW l \in Lines, NEW row \in Entered(l)
  PROVE  Sound(row) /\ (Recorded(l) /\ line[l].state # "none" => row.state # "none")
<1>1. Sound(line[l])
  BY DEF RowsSound
<1> QED
  BY <1>1, NewRows, OnFormRows, TakenOffRows DEF Entered

-----------------------------------------------------------------------------
(* The prices of one line.                                                 *)

\* Ending the prices that count keeps the record and leaves none that counts.
LEMMA EndedPrices ==
  ASSUME NEW prices \in Seq(Observations), NEW how \in {"void", "withdrawn"}
  PROVE  /\ Ended(prices, how) \in Seq(Observations)
         /\ Len(Ended(prices, how)) = Len(prices)
         /\ \A i \in DOMAIN Ended(prices, how) : Ended(prices, how)[i].void # "live"
<1>1. DOMAIN prices = 1 .. Len(prices) /\ Len(prices) \in Nat
  OBVIOUS
<1>2. ASSUME NEW i \in DOMAIN prices
      PROVE  Ended(prices, how)[i] \in Observations /\ Ended(prices, how)[i].void # "live"
  <2>1. prices[i] \in Observations
    BY <1>1, <1>2
  <2> QED
    BY <2>1 DEF Ended, Observations
<1>3. Ended(prices, how) \in [1 .. Len(prices) -> Observations]
  BY <1>1, <1>2 DEF Ended
<1> HIDE DEF Ended
<1> QED
  BY <1>1, <1>2, <1>3

\* Recording a price appends it to a record none of which counts any more.
LEMMA AppendedPrice ==
  ASSUME NEW prices \in Seq(Observations), NEW o \in Observations
  PROVE  /\ Append(Void(prices), o) \in Seq(Observations)
         /\ Len(Append(Void(prices), o)) = Len(prices) + 1
         /\ \A i \in DOMAIN Append(Void(prices), o) :
              Append(Void(prices), o)[i].void = "live" => i = Len(prices) + 1
<1> DEFINE old == Void(prices)
<1>1. old \in Seq(Observations) /\ Len(old) = Len(prices)
      /\ \A i \in DOMAIN old : old[i].void # "live"
  BY EndedPrices DEF Void
<1> HIDE DEF old
<1>2. /\ Append(old, o) \in Seq(Observations)
      /\ Len(Append(old, o)) = Len(prices) + 1
      /\ \A i \in DOMAIN Append(old, o) : Append(old, o)[i].void = "live" => i = Len(prices) + 1
  BY <1>1
<1> QED
  BY <1>2 DEF old

\* A sound row with a product has a price to record.
LEMMA PricedObservation ==
  ASSUME NEW row, Sound(row), row.state = "on", row.product # None, NEW h \in Headers
  PROVE  Observation(row, h) \in Observations
  BY DEF Sound, LineRows, Observation, Observations

-----------------------------------------------------------------------------
(* What a step makes of a line and its prices.                             *)

\* The three things that happen to a line's prices: nothing, none counts any
\* more, or one more is recorded, on a line that is there.
Moved(l) ==
  /\ \/ book'[l] = book[l] /\ (IsLive(l) => line'[l].state = "on" /\ status' # "voided")
     \/ \E how \in {"void", "withdrawn"} : book'[l] = Ended(book[l], how)
     \/ \E o \in Observations :
          /\ book'[l] = Append(Void(book[l]), o)
          /\ Len(book[l]) < MaxPrices
          /\ line'[l].state = "on" /\ status' # "voided"
  /\ book'[l] # <<>> => line'[l].state # "none" /\ status' \notin {"none", "deleted"}

StepOK ==
  /\ line' \in [Lines -> LineRows] /\ \A l \in Lines : Sound(line'[l])
  /\ book' = [l \in Lines |-> book'[l]] /\ \A l \in Lines : Moved(l)

\* An empty record stays empty when its prices are ended.
LEMMA EndedEmpty ==
  ASSUME NEW prices \in Seq(Observations), NEW how \in {"void", "withdrawn"}
  PROVE  Ended(prices, how) # <<>> => prices # <<>>
  BY EndedPrices

\* The price of a sound row on the purchase is one more in the book.
LEMMA Emitted ==
  ASSUME Kept, NEW l \in Lines, NEW row, Sound(row), row.state = "on", row.product # None,
         NEW h \in Headers, Len(book[l]) < MaxPrices,
         book'[l] = Emit(l, row, h), line'[l].state = "on",
         status' \notin {"none", "deleted", "voided"}
  PROVE  Moved(l)
  BY PricedObservation DEF Emit, Moved, Observation

LEMMA KeptBook == ASSUME Kept PROVE book = [l \in Lines |-> book[l]]
  BY DEF Kept, TypeOK

\* A step that leaves the book alone and takes no line with a record away.
LEMMA BookKept ==
  ASSUME Kept, UNCHANGED book, line' \in [Lines -> LineRows],
         \A l \in Lines : Sound(line'[l]),
         \A l \in Lines : Recorded(l) => /\ line'[l].state = line[l].state
                                        /\ status' \notin {"none", "deleted"}
                                        /\ (IsLive(l) => status' # "voided")
  PROVE  StepOK
<1>1. \A l \in Lines : IsLive(l) => Recorded(l)
  BY DEF IsLive, LivePrices, Recorded
<1> QED
  BY <1>1, KeptBook DEF StepOK, Moved, Kept, LiveIsBought, ProvenanceKept, Recorded

LEMMA SourceSteps ==
  ASSUME Kept, CreateDraft \/ ImportDraft \/ CreateManual \/ ResolvePurchase \/ TakenByHand
  PROVE  StepOK
<1>1. \A l \in Lines : Sound(line[l])
  BY DEF Kept, RowsSound
<1>2. CASE CreateDraft
  <2>1. PICK rows \in [Lines -> {NoLine} \cup NewLines] : line' = rows
    BY <1>2 DEF CreateDraft
  <2>2. \A l \in Lines : Sound(rows[l])
    BY <2>1, NewRows
  <2>3. \A l \in Lines : ~Recorded(l)
    BY <1>2 DEF CreateDraft, Kept, ProvenanceKept, Recorded
  <2> QED
    BY <1>2, <2>1, <2>2, <2>3, BookKept DEF CreateDraft, Sound
<1>3. CASE ImportDraft
  <2> DEFINE new == UNION {Matched(row) : row \in ImportedRows}
  <2>1. PICK rows \in [Lines -> new] : line' = rows
    BY <1>3 DEF ImportDraft
  <2>2. \A row \in new : Sound(row)
    <3>1. ASSUME NEW row \in ImportedRows PROVE Sound(row)
      <4>1. PICK p \in Prices, u \in BOOLEAN : row = ImportedRow(p, u)
        BY <3>1 DEF ImportedRows
      <4> QED
        BY <4>1, NewRows DEF ImportedRow, Sound, LineRows
    <3>2. ASSUME NEW row \in new PROVE \E imported \in ImportedRows : row \in Matched(imported)
      BY <3>2
    <3> QED
      BY <3>1, <3>2, MatchedRows
  <2> HIDE DEF new
  <2>3. \A l \in Lines : ~Recorded(l)
    BY <1>3 DEF ImportDraft, Kept, ProvenanceKept, Recorded
  <2> QED
    BY <1>3, <2>1, <2>2, <2>3, BookKept DEF ImportDraft, Sound
<1>4. CASE CreateManual
  <2>1. PICK rows \in [Lines -> {NoLine} \cup {ByHandRow(x, p) : x \in Choosable, p \in Prices}] :
          /\ line' = rows
          /\ book' = [l \in Lines |-> IF Priced(rows[l]) THEN Emit(l, rows[l], header') ELSE <<>>]
    BY <1>4 DEF CreateManual
  <2>2. \A l \in Lines : Sound(rows[l])
    BY <2>1, NewRows, ChoosableAreProducts
  <2>3. status' = "committed" /\ header' \in Headers
    BY <1>4 DEF CreateManual
  <2>4. ASSUME NEW l \in Lines PROVE Moved(l)
    <3>1. book[l] = <<>>
      BY <1>4 DEF CreateManual, Kept, ProvenanceKept
    <3>2. CASE Priced(rows[l])
      <4>1. rows[l].state = "on" /\ rows[l].product # None
        BY <3>2 DEF Priced
      <4>2. Len(book[l]) < MaxPrices
        BY <3>1, MaxPricesIsPositive
      <4>3. book'[l] = Emit(l, rows[l], header')
        BY <2>1, <3>2
      <4> QED
        BY <2>1, <2>2, <2>3, <4>1, <4>2, <4>3, Emitted
    <3>3. CASE ~Priced(rows[l])
      BY <2>1, <3>1, <3>3 DEF Moved, IsLive, LivePrices
    <3> QED
      BY <3>2, <3>3
  <2> QED
    BY <2>1, <2>2, <2>4 DEF StepOK, Sound
<1>5. CASE ResolvePurchase
  <2>1. PICK rows \in [Lines -> UNION {Matched(line[l]) \cup {line[l]} : l \in Lines}] :
          /\ \A l \in Lines : rows[l] \in IF l \in OnPurchase /\ Undecided(line[l])
                                          THEN Matched(line[l]) ELSE {line[l]}
          /\ line' = rows
    BY <1>5 DEF ResolvePurchase
  <2>2. \A l \in Lines : Sound(rows[l]) /\ rows[l].state = line[l].state
    BY <1>1, <2>1, MatchedRows
  <2>3. line' \in [Lines -> LineRows]
    BY <2>1, <2>2 DEF Sound
  <2> QED
    BY <1>5, <2>1, <2>2, <2>3, BookKept DEF ResolvePurchase, Kept, LiveIsBought, ProvenanceKept, Recorded
<1>6. CASE TakenByHand
  <2>1. \A l \in Lines : ~Recorded(l)
    BY <1>6 DEF TakenByHand, Kept, DraftUnrecorded, Recorded
  <2>2. line' \in [Lines -> LineRows] /\ \A l \in Lines : Sound(line'[l])
    BY <1>6, NewRows DEF TakenByHand, Sound
  <2> QED
    BY <1>6, <2>1, <2>2, BookKept DEF TakenByHand
<1> QED
  BY <1>2, <1>3, <1>4, <1>5, <1>6

\* Changing one row of an open or committed purchase, and no price.
LEMMA RowChanged ==
  ASSUME Kept, UNCHANGED <<status, book>>, NotVoided, NEW l \in Lines, NEW row,
         Sound(row), row.state = line[l].state \/ ~Recorded(l),
         line' = [line EXCEPT ![l] = row]
  PROVE  StepOK
<1>1. line' \in [Lines -> LineRows] /\ \A k \in Lines : Sound(line'[k])
  BY DEF Kept, TypeOK, RowsSound, Sound
<1>2. \A k \in Lines : Recorded(k) => line'[k].state = line[k].state
  BY DEF Kept, TypeOK
<1> QED
  BY <1>1, <1>2, BookKept DEF NotVoided

LEMMA ReviewSteps ==
  ASSUME Kept, NEW l \in Lines, AddLine(l) \/ EditLine(l) \/ DeleteLine(l) \/ ReResolveLine(l)
  PROVE  StepOK
<1>1. Sound(line[l]) /\ \A k \in Lines : Sound(line[k])
  BY DEF Kept, RowsSound
<1>2. CASE AddLine(l)
  <2>1. PICK row \in NewLines, x \in Choosable \cup {None} :
          line' = [line EXCEPT ![l] =
                     [row EXCEPT !.product = x, !.choice = IF x = None THEN "none" ELSE "added"]]
    BY <1>2 DEF AddLine
  <2> DEFINE added == [row EXCEPT !.product = x, !.choice = IF x = None THEN "none" ELSE "added"]
  <2>2. Sound(added)
    BY NewRows, ChoosableAreProducts DEF Sound, LineRows, ChoiceKinds
  <2>3. ~Recorded(l)
    BY <1>2 DEF AddLine, Kept, ProvenanceKept, Recorded
  <2>4. NotVoided /\ UNCHANGED <<status, book>>
    BY <1>2 DEF AddLine, Editable, NotVoided
  <2> HIDE DEF added
  <2> QED
    BY <2>1, <2>2, <2>3, <2>4, RowChanged DEF added
<1>3. CASE EditLine(l)
  <2>1. PICK p \in Prices, worded \in BOOLEAN, unpriced \in {FALSE, line[l].unpriced} :
          LET edited == Edited(line[l], p, worded, unpriced) IN
          \E row \in {edited, NotItem(edited)} : line' = [line EXCEPT ![l] = row]
    BY <1>3 DEF EditLine
  <2> DEFINE edited == Edited(line[l], p, worded, unpriced)
  <2>2. PICK row \in {edited, NotItem(edited)} : line' = [line EXCEPT ![l] = row]
    BY <2>1
  <2>3. Sound(edited) /\ edited.state = line[l].state
    BY <1>1 DEF Edited, Sound, LineRows
  <2>4. Sound(row) /\ row.state = line[l].state
    BY <2>2, <2>3 DEF NotItem, Sound, LineRows, ChoiceKinds
  <2>5. NotVoided /\ UNCHANGED <<status, book>>
    BY <1>3 DEF EditLine, Editable, NotVoided
  <2> HIDE DEF edited
  <2> QED
    BY <2>2, <2>4, <2>5, RowChanged
<1>4. CASE DeleteLine(l)
  <2>1. Sound(TakenOff(l)) /\ (Recorded(l) => TakenOff(l).state = "removed")
    BY TakenOffRows DEF Kept
  <2>2. /\ line' = [line EXCEPT ![l] = TakenOff(l)] /\ book' = [book EXCEPT ![l] = Void(book[l])]
        /\ status' = status /\ status \notin {"none", "deleted", "voided"}
    BY <1>4 DEF DeleteLine, Editable
  <2>3. line' \in [Lines -> LineRows] /\ \A k \in Lines : Sound(line'[k])
    BY <1>1, <2>1, <2>2 DEF Kept, TypeOK, Sound
  <2>4. book[l] \in Seq(Observations) /\ book' = [k \in Lines |-> book'[k]]
    BY <2>2 DEF Kept, TypeOK
  <2>5. Moved(l)
    <3>1. book'[l] = Ended(book[l], "void") /\ line'[l] = TakenOff(l)
      BY <2>2 DEF Kept, TypeOK, Void
    <3>2. book'[l] # <<>> => Recorded(l)
      BY <2>4, <3>1, EndedEmpty DEF Recorded
    <3> QED
      BY <2>1, <2>2, <3>1, <3>2 DEF Moved
  <2>6. ASSUME NEW k \in Lines \ {l} PROVE Moved(k)
    BY <2>2 DEF Moved, Kept, TypeOK, LiveIsBought, ProvenanceKept
  <2> QED
    BY <2>3, <2>4, <2>5, <2>6 DEF StepOK
<1>5. CASE ReResolveLine(l)
  <2>1. PICK row \in Matched(line[l]) \cup {Unsigned(line[l])} : line' = [line EXCEPT ![l] = row]
    BY <1>5 DEF ReResolveLine
  <2>2. Sound(Unsigned(line[l])) /\ Unsigned(line[l]).state = line[l].state
    BY <1>1 DEF Unsigned, Sound, LineRows, ChoiceKinds
  <2>3. Sound(row) /\ row.state = line[l].state
    BY <1>1, <2>1, <2>2, MatchedRows
  <2>4. NotVoided /\ UNCHANGED <<status, book>>
    BY <1>5 DEF ReResolveLine
  <2> QED
    BY <2>1, <2>3, <2>4, RowChanged
<1> QED
  BY <1>2, <1>3, <1>4, <1>5

\* Steps that give every line a row and end the prices of those not on it.
LEMMA RowsReplaced ==
  ASSUME Kept, NotVoided, status' = status, NEW rows, line' = rows,
         \A l \in Lines : Sound(rows[l]) /\ (Recorded(l) => rows[l].state # "none"),
         DOMAIN rows = Lines, rows = [l \in Lines |-> rows[l]],
         book' = [l \in Lines |-> book'[l]],
         \A l \in Lines : rows[l].state # "on" => book'[l] = Void(book[l]),
         \A l \in Lines : rows[l].state = "on" => book'[l] = book[l] \/ Moved(l)
  PROVE  StepOK
<1>1. line' \in [Lines -> LineRows]
  BY DEF Sound
<1>2. status \notin {"none", "deleted", "voided"}
  BY DEF NotVoided
<1>3. ASSUME NEW l \in Lines PROVE Moved(l)
  <2>1. CASE rows[l].state = "on"
    BY <1>2, <2>1 DEF Moved
  <2>2. CASE rows[l].state # "on"
    <3>1. book[l] \in Seq(Observations) /\ book'[l] = Ended(book[l], "void")
      BY <2>2 DEF Kept, TypeOK, Void
    <3>2. book'[l] # <<>> => Recorded(l)
      BY <3>1, EndedEmpty DEF Recorded
    <3> QED
      BY <1>2, <3>1, <3>2 DEF Moved
  <2> QED
    BY <2>1, <2>2
<1> QED
  BY <1>1, <1>3 DEF StepOK

LEMMA ReplaceStep == ASSUME Kept, ReplaceLines PROVE StepOK
<1>1. PICK rows \in [Lines -> UNION {Corrected(l) : l \in Lines}] :
        /\ \A l \in Lines : rows[l] \in Corrected(l)
        /\ line' = rows
        /\ book' = [l \in Lines |-> IF rows[l].state = "on" THEN book[l] ELSE Void(book[l])]
  BY DEF ReplaceLines
<1>2. \A l \in Lines : Sound(rows[l]) /\ (Recorded(l) => rows[l].state # "none")
  BY <1>1, CorrectedRows DEF Kept, ProvenanceKept, Recorded
<1>3. NotVoided /\ status' = status
  BY DEF ReplaceLines, Editable, NotVoided
<1> QED
  BY <1>1, <1>2, <1>3, RowsReplaced

LEMMA DecideStep == ASSUME Kept, NEW l \in Lines, DecideLine(l) PROVE StepOK
<1>1. Sound(line[l]) /\ \A k \in Lines : Sound(line[k])
  BY DEF Kept, RowsSound
<1>2. PICK row \in Decided(l) :
        /\ line' = [line EXCEPT ![l] = row]
        /\ book' = [book EXCEPT ![l] = IF status = "committed" /\ Priced(row)
                                       THEN Emit(l, row, header) ELSE Void(book[l])]
  BY DEF DecideLine
<1>3. Sound(row) /\ row.state = line[l].state
  <2>1. row = Choice(line[l], None, "ignored") \/
        \E x \in Choosable, c \in {"chosen", "accepted"} : row = Choice(line[l], x, c)
    BY <1>2 DEF Decided
  <2> QED
    BY <1>1, <2>1, ChoosableAreProducts DEF Choice, Sound, LineRows, ChoiceKinds
<1>4. line' \in [Lines -> LineRows] /\ \A k \in Lines : Sound(line'[k])
  BY <1>1, <1>2, <1>3 DEF Kept, TypeOK, Sound
<1>5. status' = status /\ status \notin {"none", "deleted", "voided"} /\ row.state = "on"
  BY <1>3 DEF DecideLine, NotVoided, OnPurchase
<1>6. line'[l] = row /\ book[l] \in Seq(Observations) /\ book' = [k \in Lines |-> book'[k]]
  BY <1>2 DEF Kept, TypeOK
<1>7. Moved(l)
  <2>1. CASE status = "committed" /\ Priced(row)
    <3>1. header \in Headers
      BY <2>1 DEF Kept, CommittedHasHeader
    <3>2. book'[l] = Emit(l, row, header)
      BY <1>2, <2>1 DEF Kept, TypeOK
    <3>3. Len(book[l]) < MaxPrices /\ row.product # None
      BY <2>1 DEF DecideLine, HasRoom, Priced
    <3> QED
      BY <1>3, <1>5, <1>6, <3>1, <3>2, <3>3, Emitted
  <2>2. CASE ~(status = "committed" /\ Priced(row))
    <3>1. book'[l] = Ended(book[l], "void")
      BY <1>2, <2>2 DEF Kept, TypeOK, Void
    <3> QED
      BY <1>5, <1>6, <3>1 DEF Moved
  <2> QED
    BY <2>1, <2>2
<1>8. ASSUME NEW k \in Lines \ {l} PROVE Moved(k)
  BY <1>2, <1>5 DEF Moved, Kept, TypeOK, LiveIsBought, ProvenanceKept
<1> QED
  BY <1>4, <1>6, <1>7, <1>8 DEF StepOK

LEMMA CommitStep == ASSUME Kept, CommitPurchase PROVE StepOK
<1>1. line' = line /\ status' = "committed" /\ header \in Headers
      /\ book' = [l \in Lines |-> Committed(l)]
  BY DEF CommitPurchase, Kept, TypeOK
<1>2. line \in [Lines -> LineRows] /\ \A l \in Lines : Sound(line[l])
  BY DEF Kept, TypeOK, RowsSound
<1>3. ASSUME NEW l \in Lines PROVE Moved(l)
  <2>1. book'[l] = Committed(l) /\ book[l] \in Seq(Observations)
    BY <1>1 DEF Kept, TypeOK
  <2>2. Recorded(l) => line[l].state # "none"
    BY DEF Kept, ProvenanceKept, Recorded
  <2>3. CASE book'[l] = book[l]
    BY <1>1, <2>2, <2>3 DEF Moved, Kept, LiveIsBought, Recorded
  <2>4. CASE book'[l] = Void(book[l])
    <3>1. book'[l] = Ended(book[l], "void")
      BY <2>4 DEF Void
    <3>2. book'[l] # <<>> => Recorded(l)
      BY <2>1, <3>1, EndedEmpty DEF Recorded
    <3> QED
      BY <1>1, <2>2, <3>1, <3>2 DEF Moved
  <2>5. CASE l \in OnPurchase /\ Priced(line[l]) /\ ~Unchanged(l)
    <3>1. book'[l] = Emit(l, line[l], header)
      BY <2>1, <2>5 DEF Committed
    <3>2. Len(book[l]) < MaxPrices
      BY <2>5 DEF CommitPurchase, HasRoom
    <3> QED
      BY <1>1, <1>2, <2>5, <3>1, <3>2, Emitted DEF Priced
  <2> QED
    BY <2>1, <2>3, <2>4, <2>5 DEF Committed
<1> QED
  BY <1>1, <1>2, <1>3 DEF StepOK

LEMMA EntryStep == ASSUME Kept, UpdateManual PROVE StepOK
<1>1. PICK h \in Headers, rows \in [Lines -> UNION {Entered(l) : l \in Lines}] :
        LET onForm == {l \in Lines : rows[l].state = "on"}
            emitted == {l \in onForm : ~SameEntry(l, rows[l], h)}
        IN
        /\ \A l \in Lines : rows[l] \in Entered(l)
        /\ \A l \in emitted : rows[l].choice = "chosen"
        /\ HasRoom(emitted)
        /\ line' = rows
        /\ book' = [l \in Lines |-> IF l \in emitted THEN Emit(l, rows[l], h)
                                    ELSE IF l \in onForm THEN book[l] ELSE Void(book[l])]
  BY DEF UpdateManual
<1> DEFINE emitted == {l \in {k \in Lines : rows[k].state = "on"} : ~SameEntry(l, rows[l], h)}
<1>2. \A l \in Lines : Sound(rows[l]) /\ (Recorded(l) => rows[l].state # "none")
  BY <1>1, EnteredRows DEF Kept, ProvenanceKept, Recorded
<1>3. NotVoided /\ status' = status
  BY DEF UpdateManual
<1>4. ASSUME NEW l \in Lines, rows[l].state = "on" PROVE book'[l] = book[l] \/ Moved(l)
  <2>1. CASE l \notin emitted
    BY <1>1, <1>4, <2>1
  <2>2. CASE l \in emitted
    <3>1. book'[l] = Emit(l, rows[l], h) /\ Len(book[l]) < MaxPrices /\ rows[l].choice = "chosen"
      BY <1>1, <2>2 DEF HasRoom
    <3>2. rows[l].product # None
      BY <1>2, <3>1, NoneIsNoValue DEF Sound
    <3>3. line'[l].state = "on" /\ status' \notin {"none", "deleted", "voided"}
      BY <1>1, <1>3, <1>4 DEF NotVoided
    <3> QED
      BY <1>2, <1>4, <3>1, <3>2, <3>3, Emitted
  <2> QED
    BY <2>1, <2>2
<1>5. \A l \in Lines : rows[l].state # "on" => book'[l] = Void(book[l])
  BY <1>1
<1>6. line' = rows /\ book' = [l \in Lines |-> book'[l]]
  BY <1>1
<1> QED
  BY <1>2, <1>3, <1>4, <1>5, <1>6, RowsReplaced

LEMMA WithdrawStep == ASSUME Kept, NEW l \in Lines, WithdrawPrice(l) PROVE StepOK
<1>1. /\ line' = line /\ status' = status /\ book' = [book EXCEPT ![l] = Ended(book[l], "withdrawn")]
      /\ line \in [Lines -> LineRows] /\ \A k \in Lines : Sound(line[k])
  BY DEF WithdrawPrice, Kept, TypeOK, RowsSound
<1>2. book' = [k \in Lines |-> book'[k]] /\ book'[l] = Ended(book[l], "withdrawn")
      /\ book[l] \in Seq(Observations)
  BY <1>1 DEF Kept, TypeOK
<1>3. book'[l] # <<>> => book[l] # <<>>
  BY <1>2, EndedEmpty
<1>4. Moved(l)
  BY <1>1, <1>2, <1>3 DEF Moved, Kept, ProvenanceKept
<1>5. ASSUME NEW k \in Lines \ {l} PROVE Moved(k)
  BY <1>1 DEF Moved, Kept, TypeOK, LiveIsBought, ProvenanceKept
<1> QED
  BY <1>1, <1>2, <1>4, <1>5 DEF StepOK

LEMMA RemoveSteps == ASSUME Kept, RemoveVoiding \/ RemoveDeleting PROVE StepOK
<1>1. line \in [Lines -> LineRows] /\ \A l \in Lines : Sound(line[l])
  BY DEF Kept, TypeOK, RowsSound
<1>2. CASE RemoveVoiding
  <2>1. line' = line /\ status' = "voided" /\ book' = [l \in Lines |-> Void(book[l])]
    BY <1>2 DEF RemoveVoiding
  <2>2. ASSUME NEW l \in Lines PROVE Moved(l)
    <3>1. book[l] \in Seq(Observations) /\ book'[l] = Ended(book[l], "void")
      BY <2>1 DEF Kept, TypeOK, Void
    <3>2. book'[l] # <<>> => book[l] # <<>>
      BY <3>1, EndedEmpty
    <3> QED
      BY <2>1, <3>1, <3>2 DEF Moved, Kept, ProvenanceKept
  <2> QED
    BY <1>1, <2>1, <2>2 DEF StepOK
<1>3. CASE RemoveDeleting
  <2>1. UNCHANGED book /\ line' = [l \in Lines |-> NoLine] /\ \A l \in Lines : ~Recorded(l)
    BY <1>3 DEF RemoveDeleting
  <2>2. line' \in [Lines -> LineRows] /\ \A l \in Lines : Sound(line'[l])
    BY <2>1, NewRows DEF Sound
  <2> QED
    BY <2>1, <2>2, BookKept
<1> QED
  BY <1>2, <1>3

LEMMA ProductSteps ==
  ASSUME Kept, MatchWaiting \/ \E loser, survivor \in Products : MergeProducts(loser, survivor)
  PROVE  StepOK
<1>1. line \in [Lines -> LineRows] /\ \A l \in Lines : Sound(line[l])
  BY DEF Kept, TypeOK, RowsSound
<1>2. ASSUME NEW loser \in Products, NEW survivor \in Products, MergeProducts(loser, survivor)
      PROVE  StepOK
  <2>1. /\ UNCHANGED <<status, book>>
        /\ line' = [l \in Lines |-> IF line[l].product = loser
                                    THEN [line[l] EXCEPT !.product = survivor] ELSE line[l]]
    BY <1>2 DEF MergeProducts
  <2>2. \A l \in Lines : Sound(line'[l]) /\ line'[l].state = line[l].state
    BY <1>1, <2>1 DEF Sound, LineRows
  <2>3. line' \in [Lines -> LineRows]
    BY <2>1, <2>2 DEF Sound
  <2> QED
    BY <2>1, <2>2, <2>3, BookKept DEF Kept, LiveIsBought, ProvenanceKept, Recorded
<1>3. CASE MatchWaiting
  <2>1. PICK x \in Choosable, matched \in SUBSET Lines :
          line' = [l \in Lines |-> IF l \in matched
                                   THEN [line[l] EXCEPT !.product = x, !.choice = "auto"] ELSE line[l]]
    BY <1>3 DEF MatchWaiting, Waiting, OnPurchase
  <2>2. \A l \in Lines : Sound(line'[l]) /\ line'[l].state = line[l].state
    BY <1>1, <2>1, ChoosableAreProducts DEF Sound, LineRows, ChoiceKinds
  <2>3. line' \in [Lines -> LineRows]
    BY <2>1, <2>2 DEF Sound
  <2>4. UNCHANGED <<status, book>>
    BY <1>3 DEF MatchWaiting
  <2> QED
    BY <2>2, <2>3, <2>4, BookKept DEF Kept, LiveIsBought, ProvenanceKept, Recorded
<1> QED
  BY <1>2, <1>3

-----------------------------------------------------------------------------
(* Every step.                                                             *)

LEMMA StepKeeps == Kept /\ [Next]_vars => StepOK
<1> SUFFICES ASSUME Kept, [Next]_vars PROVE StepOK
  OBVIOUS
<1>1. ASSUME UNCHANGED <<line, book>>, status' = status \/ (NotVoided /\ status' \notin {"none", "deleted", "voided"})
                                       \/ (status = "voided" /\ status' = "reviewed")
      PROVE  StepOK
  <2>1. \A l \in Lines : IsLive(l) => Recorded(l)
    BY DEF IsLive, LivePrices, Recorded
  <2>2. line' \in [Lines -> LineRows] /\ \A l \in Lines : Sound(line'[l])
    BY <1>1 DEF Kept, TypeOK, RowsSound
  <2> QED
    BY <1>1, <2>1, <2>2, BookKept DEF Kept, LiveIsBought, ProvenanceKept, Recorded, NotVoided
<1>2. CASE UNCHANGED vars
  BY <1>1, <1>2 DEF vars
<1>3. CASE ReadingEnds \/ Retry \/ EditHeader \/ Reopen \/ Restore \/ FindWaiting \/ MatchEnds
  BY <1>1, <1>3 DEF ReadingEnds, Retry, EditHeader, Reopen, Restore, FindWaiting, MatchEnds, NotVoided
<1>4. CASE CreateDraft \/ ImportDraft \/ CreateManual \/ ResolvePurchase \/ TakenByHand
  BY <1>4, SourceSteps
<1>5. CASE Commit \/ RecommitMatched
  BY <1>5, CommitStep DEF Commit, RecommitMatched
<1>6. ASSUME NEW l \in Lines,
             AddLine(l) \/ EditLine(l) \/ DeleteLine(l) \/ ReResolveLine(l) \/ DecideLine(l) \/ WithdrawPrice(l)
      PROVE  StepOK
  BY <1>6, ReviewSteps, DecideStep, WithdrawStep
<1> QED
  BY <1>2, <1>3, <1>4, <1>5, <1>6, ReplaceStep, EntryStep, RemoveSteps, ProductSteps DEF Next

Others ==
  /\ status \in Statuses /\ byHand \in BOOLEAN /\ job \in Jobs
  /\ header \in Headers \cup {None}
  /\ mergedInto \in [Products -> Products \cup {None}] /\ match \in Matches

\* The other variables keep their types, and a committed purchase its header.
LEMMA OthersKept == Kept /\ [Next]_vars => Others' /\ CommittedHasHeader'
<1> SUFFICES ASSUME Kept, [Next]_vars PROVE Others' /\ CommittedHasHeader'
  OBVIOUS
<1>1. Others /\ CommittedHasHeader
  BY DEF Kept, TypeOK, Others
<1>2. IdleMatch \in Matches
  BY DEF IdleMatch, Matches
<1>3. CASE UNCHANGED vars
  BY <1>1, <1>3 DEF vars, Others, CommittedHasHeader
<1>4. CASE CreateDraft \/ ImportDraft \/ CreateManual \/ TakenByHand \/ ResolvePurchase
  <2>1. CASE CreateDraft
    BY <1>1, <2>1 DEF Others, CommittedHasHeader, Statuses, Jobs, CreateDraft
  <2>2. CASE ImportDraft
    BY <1>1, <2>2 DEF Others, CommittedHasHeader, Statuses, ImportDraft
  <2>3. CASE CreateManual
    BY <1>1, <2>3 DEF Others, CommittedHasHeader, Statuses, CreateManual
  <2>4. CASE TakenByHand \/ ResolvePurchase
    BY <1>1, <2>4 DEF Others, CommittedHasHeader, Jobs, TakenByHand, ResolvePurchase
  <2> QED
    BY <1>4, <2>1, <2>2, <2>3, <2>4
<1>5. CASE ReadingEnds \/ Retry \/ EditHeader \/ ReplaceLines \/ Reopen \/ Restore
  BY <1>1, <1>5 DEF Others, CommittedHasHeader, Statuses, Jobs, ReadingEnds, Retry, EditHeader,
                    ReplaceLines, Reopen, Restore, Editable
<1>6. CASE UpdateManual
  BY <1>1, <1>6 DEF Others, CommittedHasHeader, UpdateManual
<1>7. CASE RemoveVoiding \/ RemoveDeleting
  BY <1>1, <1>7 DEF Others, CommittedHasHeader, Statuses, Jobs, RemoveVoiding, RemoveDeleting
<1>8. ASSUME NEW l \in Lines, AddLine(l) \/ EditLine(l) \/ DeleteLine(l) \/ ReResolveLine(l)
                              \/ DecideLine(l) \/ WithdrawPrice(l)
      PROVE  Others' /\ CommittedHasHeader'
  BY <1>1, <1>8 DEF Others, CommittedHasHeader, AddLine, EditLine, DeleteLine, ReResolveLine,
                    DecideLine, WithdrawPrice
<1>9. CASE Commit \/ RecommitMatched
  BY <1>1, <1>2, <1>9 DEF Others, CommittedHasHeader, Statuses, Commit, RecommitMatched, CommitPurchase
<1>10. ASSUME NEW loser \in Products, NEW survivor \in Products, MergeProducts(loser, survivor)
       PROVE  Others' /\ CommittedHasHeader'
  BY <1>1, <1>10 DEF Others, CommittedHasHeader, MergeProducts
<1>11. CASE FindWaiting
  <2>1. PICK found \in SUBSET Waiting \ {{}} : match' = [step |-> "found", lines |-> found]
    BY <1>11 DEF FindWaiting
  <2>2. match' \in Matches
    BY <2>1 DEF Matches, Waiting, OnPurchase
  <2> QED
    BY <1>1, <1>11, <2>2 DEF FindWaiting, Others, CommittedHasHeader
<1>12. CASE MatchWaiting \/ MatchEnds
  <2>1. [match EXCEPT !.step = "matched"] \in Matches
    BY <1>1 DEF Others, Matches
  <2>2. match' \in Matches
    BY <1>2, <1>12, <2>1 DEF MatchWaiting, MatchEnds
  <2> QED
    BY <1>1, <1>12, <2>2 DEF MatchWaiting, MatchEnds, Others, CommittedHasHeader
<1> QED
  BY <1>3, <1>4, <1>5, <1>6, <1>7, <1>8, <1>9, <1>10, <1>11, <1>12 DEF Next

\* A reader's draft still has nothing in the book: prices are recorded only
\* when a purchase is committed, or entered by hand.
LEMMA DraftsKept == Kept /\ [Next]_vars => DraftUnrecorded'
<1> SUFFICES ASSUME Kept, [Next]_vars, status' = "draft", ~byHand', NEW l \in Lines
             PROVE  book'[l] = <<>>
  BY DEF DraftUnrecorded
<1> DEFINE Ends == book'[l] \in {book[l], Ended(book[l], "void"), Ended(book[l], "withdrawn")}
<1>1. CASE CreateDraft
  BY <1>1 DEF CreateDraft, Kept, ProvenanceKept
<1>2. ASSUME status = "draft", ~byHand, Ends PROVE book'[l] = <<>>
  <2>1. book[l] = <<>> /\ book[l] \in Seq(Observations)
    BY <1>2 DEF Kept, TypeOK, DraftUnrecorded
  <2>2. Ended(book[l], "void") = <<>> /\ Ended(book[l], "withdrawn") = <<>>
    BY <2>1, EndedEmpty
  <2> QED
    BY <1>2, <2>1, <2>2
<1> HIDE DEF Ends
<1>3. ASSUME UNCHANGED <<status, byHand, book>> PROVE book'[l] = <<>>
  BY <1>2, <1>3 DEF Ends
<1>4. CASE UNCHANGED vars
  BY <1>3, <1>4 DEF vars
<1>5. ~(ImportDraft \/ CreateManual \/ TakenByHand \/ Reopen \/ Restore \/ RemoveVoiding \/ RemoveDeleting)
  BY DEF ImportDraft, CreateManual, TakenByHand, Reopen, Restore, RemoveVoiding, RemoveDeleting
<1>6. ~(UpdateManual \/ Commit \/ RecommitMatched)
  BY DEF UpdateManual, Commit, RecommitMatched, CommitPurchase
<1>7. CASE ResolvePurchase \/ ReadingEnds \/ Retry \/ EditHeader \/ FindWaiting \/ MatchWaiting \/ MatchEnds
  BY <1>3, <1>7 DEF ResolvePurchase, ReadingEnds, Retry, EditHeader, FindWaiting, MatchWaiting, MatchEnds
<1>8. ASSUME NEW k \in Lines, AddLine(k) \/ EditLine(k) \/ ReResolveLine(k) PROVE book'[l] = <<>>
  BY <1>3, <1>8 DEF AddLine, EditLine, ReResolveLine
<1>9. ASSUME NEW k \in Lines, DeleteLine(k) \/ DecideLine(k) \/ WithdrawPrice(k) PROVE book'[l] = <<>>
  <2>1. status = "draft" /\ ~byHand
    BY <1>9 DEF DeleteLine, DecideLine, WithdrawPrice
  <2>2. book' = [book EXCEPT ![k] = Void(book[k])] \/ book' = [book EXCEPT ![k] = Ended(book[k], "withdrawn")]
    <3>1. CASE DeleteLine(k)
      BY <3>1 DEF DeleteLine
    <3>2. CASE DecideLine(k)
      BY <2>1, <3>2 DEF DecideLine
    <3>3. CASE WithdrawPrice(k)
      BY <3>3 DEF WithdrawPrice
    <3> QED
      BY <1>9, <3>1, <3>2, <3>3
  <2>3. Ends
    BY <2>2 DEF Ends, Void, Kept, TypeOK
  <2> QED
    BY <1>2, <2>1, <2>3
<1>10. CASE ReplaceLines
  <2>1. status = "draft" /\ ~byHand
    BY <1>10 DEF ReplaceLines
  <2>2. Ends
    BY <1>10 DEF ReplaceLines, Ends, Void
  <2> QED
    BY <1>2, <2>1, <2>2
<1>11. ASSUME NEW loser \in Products, NEW survivor \in Products, MergeProducts(loser, survivor)
       PROVE  book'[l] = <<>>
  BY <1>3, <1>11 DEF MergeProducts
<1> QED
  BY <1>1, <1>4, <1>5, <1>6, <1>7, <1>8, <1>9, <1>10, <1>11 DEF Next

-----------------------------------------------------------------------------
(* The invariant, and what it gives.                                       *)

LEMMA KeptInitially == Init => Kept
<1> SUFFICES ASSUME Init PROVE Kept
  OBVIOUS
<1>1. ASSUME NEW l \in Lines PROVE line[l] = NoLine /\ book[l] = <<>> /\ ~IsLive(l)
  BY DEF Init, IsLive, LivePrices
<1>2. line \in [Lines -> LineRows] /\ RowsSound
  <2>1. Sound(NoLine)
    BY NewRows
  <2> QED
    BY <1>1, <2>1 DEF Init, RowsSound, Sound
<1>3. book \in [Lines -> Seq(Observations)] /\ \A l \in Lines : Len(book[l]) <= MaxPrices
  <2>1. <<>> \in Seq(Observations) /\ Len(<<>>) = 0 /\ 0 <= MaxPrices
    BY MaxPricesIsPositive
  <2> QED
    BY <1>1, <2>1 DEF Init
<1>4. match \in Matches
  BY DEF Init, IdleMatch, Matches
<1>5. mergedInto \in [Products -> Products \cup {None}]
  BY DEF Init
<1>6. TypeOK
  BY <1>2, <1>3, <1>4, <1>5 DEF Init, TypeOK, Statuses, Jobs
<1>7. LiveIsBought /\ ProvenanceKept /\ CommittedHasHeader /\ DraftUnrecorded
  BY <1>1 DEF Init, LiveIsBought, ProvenanceKept, CommittedHasHeader, DraftUnrecorded
<1> QED
  BY <1>2, <1>6, <1>7 DEF Kept

LEMMA KeptStep == Kept /\ [Next]_vars => Kept'
<1> SUFFICES ASSUME Kept, [Next]_vars PROVE Kept'
  OBVIOUS
<1>1. StepOK /\ Others' /\ CommittedHasHeader' /\ DraftUnrecorded'
  BY StepKeeps, OthersKept, DraftsKept
<1>2. RowsSound'
  BY <1>1 DEF StepOK, RowsSound
<1>3. ASSUME NEW l \in Lines PROVE book'[l] \in Seq(Observations) /\ Len(book'[l]) <= MaxPrices
  <2>1. book[l] \in Seq(Observations) /\ Len(book[l]) <= MaxPrices
    BY DEF Kept, TypeOK
  <2>2. MaxPrices \in Nat /\ Len(book[l]) \in Nat
    BY <2>1, MaxPricesIsPositive
  <2>3. Moved(l)
    BY <1>1 DEF StepOK
  <2>4. CASE UNCHANGED book[l]
    BY <2>1, <2>4
  <2>5. ASSUME NEW how \in {"void", "withdrawn"}, book'[l] = Ended(book[l], how)
        PROVE  book'[l] \in Seq(Observations) /\ Len(book'[l]) <= MaxPrices
    BY <2>1, <2>5, EndedPrices
  <2>6. ASSUME NEW o \in Observations, Len(book[l]) < MaxPrices, book'[l] = Append(Void(book[l]), o)
        PROVE  book'[l] \in Seq(Observations) /\ Len(book'[l]) <= MaxPrices
    BY <2>1, <2>2, <2>6, AppendedPrice
  <2> QED
    BY <2>3, <2>4, <2>5, <2>6 DEF Moved
<1>4. TypeOK'
  BY <1>1, <1>3 DEF StepOK, Others, TypeOK
<1>5. ASSUME NEW l \in Lines, IsLive(l)' PROVE line'[l].state = "on" /\ status' # "voided"
  <2>1. Moved(l) /\ book[l] \in Seq(Observations)
    BY <1>1 DEF StepOK, Kept, TypeOK
  <2>2. CASE book'[l] = book[l] /\ (IsLive(l) => line'[l].state = "on" /\ status' # "voided")
    BY <1>5, <2>2 DEF IsLive, LivePrices
  <2>3. ASSUME NEW how \in {"void", "withdrawn"}, book'[l] = Ended(book[l], how) PROVE FALSE
    BY <1>5, <2>1, <2>3, EndedPrices DEF IsLive, LivePrices
  <2> QED
    BY <2>1, <2>2, <2>3 DEF Moved
<1>6. LiveIsBought'
  BY <1>5 DEF LiveIsBought
<1>7. ProvenanceKept'
  BY <1>1 DEF StepOK, Moved, ProvenanceKept
<1> QED
  BY <1>1, <1>2, <1>4, <1>6, <1>7 DEF Kept

LEMMA KeptAlways == Spec => []Kept
  BY KeptInitially, KeptStep, PTL DEF Spec

\* Rows, prices and the other variables keep their types.
THEOREM TypeCorrect == Spec => []TypeOK
<1>1. Kept => TypeOK
  BY DEF Kept
<1> QED
  BY <1>1, KeptAlways, PTL

\* No price counts for a line taken off its purchase or for a removed purchase,
\* by whatever way either came about.
THEOREM OnlyBoughtCounts == Spec => []LiveIsBought
<1>1. Kept => LiveIsBought
  BY DEF Kept
<1> QED
  BY <1>1, KeptAlways, PTL

\* Whatever reached the price book keeps its line and its purchase.
THEOREM ProvenanceStays == Spec => []ProvenanceKept
<1>1. Kept => ProvenanceKept
  BY DEF Kept
<1> QED
  BY <1>1, KeptAlways, PTL

\* A line never has two prices that count: every way to record one ends the
\* others first.
THEOREM OnePricePerLine == Spec => []OneLivePerLine
<1>1. Init => OneLivePerLine
  BY DEF Init, OneLivePerLine, LivePrices
<1>2. ASSUME Kept, OneLivePerLine, [Next]_vars PROVE OneLivePerLine'
  <2> SUFFICES ASSUME NEW l \in Lines PROVE \A i, j \in LivePrices(l)' : i = j
    BY DEF OneLivePerLine
  <2>1. Moved(l) /\ book[l] \in Seq(Observations)
    BY <1>2, StepKeeps DEF StepOK, Kept, TypeOK
  <2>2. CASE book'[l] = book[l]
    BY <1>2, <2>2 DEF OneLivePerLine, LivePrices
  <2>3. ASSUME NEW how \in {"void", "withdrawn"}, book'[l] = Ended(book[l], how)
        PROVE  \A i, j \in LivePrices(l)' : i = j
    BY <2>1, <2>3, EndedPrices DEF LivePrices
  <2>4. ASSUME NEW o \in Observations, book'[l] = Append(Void(book[l]), o)
        PROVE  \A i, j \in LivePrices(l)' : i = j
    BY <2>1, <2>4, AppendedPrice DEF LivePrices
  <2> QED
    BY <2>1, <2>2, <2>3, <2>4 DEF Moved
<1> QED
  BY <1>1, <1>2, KeptAlways, PTL DEF Spec

\* What a product was merged into is itself unmerged, so following one link
\* is enough.
THEOREM MergesOneDeep == Spec => []MergedOneLevel
<1> DEFINE Deep == MergedOneLevel /\ mergedInto \in [Products -> Products \cup {None}]
<1>1. Init => Deep
  BY DEF Init, MergedOneLevel
<1>2. ASSUME Deep, [Next]_vars PROVE Deep'
  <2>1. ASSUME UNCHANGED mergedInto PROVE Deep'
    BY <1>2, <2>1 DEF MergedOneLevel
  <2>2. ASSUME NEW loser \in Products, NEW survivor \in Products, MergeProducts(loser, survivor)
        PROVE  Deep'
    BY <1>2, <2>2, NoneIsNoValue DEF MergeProducts, FollowsLoser, MergedOneLevel
  <2>3. CASE CreateDraft \/ ImportDraft \/ CreateManual \/ ResolvePurchase \/ ReadingEnds
             \/ Retry \/ TakenByHand
    BY <2>1, <2>3 DEF CreateDraft, ImportDraft, CreateManual, ResolvePurchase, ReadingEnds, Retry, TakenByHand
  <2>4. CASE EditHeader \/ ReplaceLines \/ Reopen
    BY <2>1, <2>4 DEF EditHeader, ReplaceLines, Reopen
  <2>5. ASSUME NEW l \in Lines, AddLine(l) \/ EditLine(l) \/ DeleteLine(l) \/ ReResolveLine(l)
                               \/ DecideLine(l) \/ WithdrawPrice(l)
        PROVE  Deep'
    <3>1. UNCHANGED mergedInto
      BY <2>5 DEF AddLine, EditLine, DeleteLine, ReResolveLine, DecideLine, WithdrawPrice
    <3> QED
      BY <2>1, <3>1
  <2>6. CASE Commit \/ RecommitMatched
    BY <2>1, <2>6 DEF Commit, RecommitMatched, CommitPurchase
  <2>7. CASE UpdateManual
    <3>1. UNCHANGED mergedInto
      BY <2>7 DEF UpdateManual
    <3> QED
      BY <2>1, <3>1
  <2>8. CASE RemoveVoiding \/ RemoveDeleting \/ Restore \/ FindWaiting \/ MatchWaiting \/ MatchEnds
    BY <2>1, <2>8 DEF RemoveVoiding, RemoveDeleting, Restore, FindWaiting, MatchWaiting, MatchEnds
  <2>9. CASE UNCHANGED vars
    BY <2>1, <2>9 DEF vars
  <2> QED
    BY <1>2, <2>2, <2>3, <2>4, <2>5, <2>6, <2>7, <2>8, <2>9 DEF Next
<1> QED
  BY <1>1, <1>2, PTL DEF Spec

-----------------------------------------------------------------------------
(* Rows that name no merged product and always have a price.  Both are so   *)
(* only while nobody chooses a product merged meanwhile and no line is      *)
(* imported without a price.                                                *)

Plain(row) ==
  /\ ~row.unpriced
  /\ row.product # None => row.product \in Products /\ mergedInto[row.product] = None

LinesPlain == \A l \in Lines : Plain(line[l])

Unmerged == ~StaleChoices /\ ~Imports

LEMMA ChoosableUnmerged ==
  ASSUME Unmerged
  PROVE  \A x \in Choosable : x \in Products /\ mergedInto[x] = None
  BY DEF Unmerged, Choosable

LEMMA PlainNew ==
  /\ Plain(NoLine) /\ \A row \in NewLines : Plain(row)
  /\ Unmerged => \A x \in Choosable, p \in Prices : Plain(ByHandRow(x, p))
<1>1. Plain(NoLine)
  BY DEF Plain, NoLine
<1>2. ASSUME NEW p \in Prices, NEW w \in BOOLEAN PROVE Plain(NewLine(p, w))
  BY DEF Plain, NewLine, NoLine
<1>3. ASSUME Unmerged, NEW x \in Choosable, NEW p \in Prices PROVE Plain(ByHandRow(x, p))
  <2>1. x \in Products /\ mergedInto[x] = None
    BY <1>3, ChoosableUnmerged
  <2> QED
    BY <2>1 DEF Plain, ByHandRow, NewLine, NoLine
<1> QED
  BY <1>1, <1>2, <1>3 DEF NewLines

LEMMA PlainMatched ==
  ASSUME Unmerged, NEW row, Sound(row), Plain(row), NEW m \in Matched(row)
  PROVE  Plain(m)
<1>1. CASE m = Unmatched(row)
  BY <1>1 DEF Unmatched, Sound, LineRows, Plain
<1>2. CASE m \in Laddered(row)
  <2>1. PICK x \in Choosable \cup {None} : m = [row EXCEPT !.product = x, !.choice = "auto"]
    BY <1>2 DEF Laddered
  <2>2. m.product = x /\ m.unpriced = row.unpriced
    BY <2>1 DEF Sound, LineRows
  <2> QED
    BY <2>1, <2>2, ChoosableUnmerged DEF Plain
<1> QED
  BY <1>1, <1>2 DEF Matched

LEMMA PlainRepriced ==
  ASSUME NEW row, Sound(row), Plain(row), NEW r \in Repriced(row)
  PROVE  Plain(r)
<1>1. PICK p \in Prices, w \in BOOLEAN : r = Reworded(row, p, w)
  BY DEF Repriced
<1> QED
  BY <1>1 DEF Reworded, Sound, LineRows, Plain

LEMMA PlainOnForm ==
  ASSUME Unmerged, NEW row, Sound(row), Plain(row), NEW r \in OnForm(row)
  PROVE  Plain(r) /\ r.product # None
<1>1. PICK x \in Choosable, p \in Prices : r = FormRow(row, x, p)
  BY DEF OnForm
<1>2. x \in Products /\ mergedInto[x] = None
  BY ChoosableUnmerged
<1>3. r.product = x /\ r.unpriced = row.unpriced
  BY <1>1 DEF FormRow, ByHandRow, NewLine, NoLine
<1> QED
  BY <1>2, <1>3, NoneIsNoValue DEF Plain

LEMMA PlainTakenOff ==
  ASSUME RowsSound, NEW l \in Lines, Plain(line[l])
  PROVE  Plain(TakenOff(l))
  BY PlainNew DEF TakenOff, RowsSound, Sound, LineRows, Plain

LEMMA PlainCorrected ==
  ASSUME Unmerged, RowsSound, LinesPlain, NEW l \in Lines, NEW row \in Corrected(l)
  PROVE  Plain(row)
<1>1. Sound(line[l]) /\ Plain(line[l])
  BY DEF RowsSound, LinesPlain
<1>2. CASE row \in Repriced(line[l]) \/ row = TakenOff(l) \/ row = line[l]
  BY <1>1, <1>2, PlainRepriced, PlainTakenOff
<1>3. CASE row \in UNION {Matched(r) : r \in Repriced(line[l])}
  <2>1. PICK r \in Repriced(line[l]) : row \in Matched(r)
    BY <1>3
  <2>2. Sound(r) /\ Plain(r)
    BY <1>1, RepricedRows, PlainRepriced
  <2> QED
    BY <2>1, <2>2, PlainMatched
<1>4. CASE row \in UNION {Matched(r) : r \in NewLines}
  <2>1. PICK r \in NewLines : row \in Matched(r)
    BY <1>4
  <2> QED
    BY <2>1, NewRows, PlainNew, PlainMatched
<1> QED
  BY <1>2, <1>3, <1>4 DEF Corrected

LEMMA PlainEntered ==
  ASSUME Unmerged, RowsSound, LinesPlain, NEW l \in Lines, NEW row \in Entered(l)
  PROVE  Plain(row)
<1>1. Sound(line[l]) /\ Plain(line[l])
  BY DEF RowsSound, LinesPlain
<1> QED
  BY <1>1, NewRows, PlainNew, PlainOnForm, PlainTakenOff DEF Entered

\* Changing one row, or rows that are plain, without a merge.
LEMMA PlainRows ==
  ASSUME UNCHANGED mergedInto, NEW rows, line' = rows, \A l \in Lines : Plain(rows[l])
  PROVE  LinesPlain'
  BY DEF LinesPlain, Plain

LEMMA PlainRow ==
  ASSUME TypeOK, LinesPlain, UNCHANGED mergedInto, NEW l \in Lines, NEW row, Plain(row),
         line' = [line EXCEPT ![l] = row]
  PROVE  LinesPlain'
<1>1. \A k \in Lines : line'[k] = IF k = l THEN row ELSE line[k]
  BY DEF TypeOK
<1> QED
  BY <1>1 DEF LinesPlain, Plain

LEMMA PlainSources ==
  ASSUME Unmerged, Kept, LinesPlain, CreateDraft \/ ImportDraft \/ CreateManual \/ ResolvePurchase \/ TakenByHand
  PROVE  LinesPlain'
<1>1. UNCHANGED mergedInto
  BY DEF CreateDraft, ImportDraft, CreateManual, ResolvePurchase, TakenByHand
<1>2. CASE CreateDraft
  <2>1. PICK rows \in [Lines -> {NoLine} \cup NewLines] : line' = rows
    BY <1>2 DEF CreateDraft
  <2>2. \A l \in Lines : Plain(rows[l])
    BY <2>1, PlainNew
  <2> QED
    BY <1>1, <2>1, <2>2, PlainRows
<1>3. CASE ImportDraft
  BY <1>3 DEF ImportDraft, Unmerged
<1>4. CASE CreateManual
  <2>1. PICK rows \in [Lines -> {NoLine} \cup {ByHandRow(x, p) : x \in Choosable, p \in Prices}] :
          line' = rows
    BY <1>4 DEF CreateManual
  <2>2. \A l \in Lines : Plain(rows[l])
    BY <2>1, PlainNew
  <2> QED
    BY <1>1, <2>1, <2>2, PlainRows
<1>5. CASE ResolvePurchase
  <2>1. PICK rows \in [Lines -> UNION {Matched(line[l]) \cup {line[l]} : l \in Lines}] :
          /\ \A l \in Lines : rows[l] \in IF l \in OnPurchase /\ Undecided(line[l])
                                          THEN Matched(line[l]) ELSE {line[l]}
          /\ line' = rows
    BY <1>5 DEF ResolvePurchase
  <2>2. ASSUME NEW l \in Lines PROVE Plain(rows[l])
    <3>1. Plain(line[l]) /\ Sound(line[l])
      BY DEF LinesPlain, Kept, RowsSound
    <3>2. rows[l] \in Matched(line[l]) \/ rows[l] = line[l]
      BY <2>1
    <3> QED
      BY <3>1, <3>2, PlainMatched
  <2> QED
    BY <1>1, <2>1, <2>2, PlainRows
<1>6. CASE TakenByHand
  <2>1. line' = [l \in Lines |-> NoLine]
    BY <1>6 DEF TakenByHand
  <2> QED
    BY <1>1, <2>1, PlainNew, PlainRows
<1> QED
  BY <1>2, <1>3, <1>4, <1>5, <1>6

LEMMA PlainReviews ==
  ASSUME Unmerged, Kept, LinesPlain, NEW l \in Lines,
         AddLine(l) \/ EditLine(l) \/ DeleteLine(l) \/ ReResolveLine(l) \/ DecideLine(l)
  PROVE  LinesPlain'
<1>1. Sound(line[l]) /\ Plain(line[l]) /\ RowsSound /\ TypeOK
  BY DEF Kept, RowsSound, LinesPlain
<1>2. UNCHANGED mergedInto
  BY DEF AddLine, EditLine, DeleteLine, ReResolveLine, DecideLine
<1>3. SUFFICES \E row : Plain(row) /\ line' = [line EXCEPT ![l] = row]
  BY <1>1, <1>2, PlainRow
<1>4. CASE AddLine(l)
  <2>1. PICK row \in NewLines, x \in Choosable \cup {None} :
          line' = [line EXCEPT ![l] =
                     [row EXCEPT !.product = x, !.choice = IF x = None THEN "none" ELSE "added"]]
    BY <1>4 DEF AddLine
  <2> DEFINE added == [row EXCEPT !.product = x, !.choice = IF x = None THEN "none" ELSE "added"]
  <2>2. Sound(row) /\ Plain(row)
    BY NewRows, PlainNew
  <2>3. added.product = x /\ added.unpriced = row.unpriced
    BY <2>2 DEF Sound, LineRows
  <2>4. Plain(added)
    BY <2>2, <2>3, ChoosableUnmerged DEF Plain
  <2> QED
    BY <2>1, <2>4
<1>5. CASE EditLine(l)
  <2>1. PICK p \in Prices, worded \in BOOLEAN, unpriced \in {FALSE, line[l].unpriced} :
          LET edited == Edited(line[l], p, worded, unpriced) IN
          \E row \in {edited, NotItem(edited)} : line' = [line EXCEPT ![l] = row]
    BY <1>5 DEF EditLine
  <2> DEFINE edited == Edited(line[l], p, worded, unpriced)
  <2>2. edited \in LineRows /\ Plain(edited)
    BY <1>1 DEF Edited, Sound, LineRows, Plain
  <2>3. Plain(NotItem(edited))
    BY <2>2 DEF NotItem, LineRows, Plain
  <2> QED
    BY <2>1, <2>2, <2>3
<1>6. CASE DeleteLine(l)
  BY <1>1, <1>6, PlainTakenOff DEF DeleteLine
<1>7. CASE ReResolveLine(l)
  <2>1. PICK row \in Matched(line[l]) \cup {Unsigned(line[l])} : line' = [line EXCEPT ![l] = row]
    BY <1>7 DEF ReResolveLine
  <2>2. Plain(Unsigned(line[l]))
    BY <1>1 DEF Unsigned, Sound, LineRows, Plain
  <2> QED
    BY <1>1, <2>1, <2>2, PlainMatched
<1>8. CASE DecideLine(l)
  <2>1. PICK row \in Decided(l) : line' = [line EXCEPT ![l] = row]
    BY <1>8 DEF DecideLine
  <2>2. row = Choice(line[l], None, "ignored") \/
        \E x \in Choosable, c \in {"chosen", "accepted"} : row = Choice(line[l], x, c)
    BY <2>1 DEF Decided
  <2>3. PICK x \in Choosable \cup {None}, c \in ChoiceKinds : row = Choice(line[l], x, c)
    BY <2>2 DEF ChoiceKinds
  <2>4. row.product = x /\ row.unpriced = line[l].unpriced
    BY <1>1, <2>3 DEF Choice, Sound, LineRows
  <2>5. x # None => x \in Products /\ mergedInto[x] = None
    BY ChoosableUnmerged
  <2>6. Plain(row)
    BY <1>1, <2>4, <2>5 DEF Plain
  <2> QED
    BY <2>1, <2>6
<1> QED
  BY <1>4, <1>5, <1>6, <1>7, <1>8

\* A merge moves every line of the product it merges away.
LEMMA PlainMerge ==
  ASSUME TypeOK, LinesPlain, NEW loser \in Products, NEW survivor \in Products,
         MergeProducts(loser, survivor)
  PROVE  LinesPlain'
<1>1. \A x \in Products : mergedInto'[x] = IF FollowsLoser(x, loser) THEN survivor ELSE mergedInto[x]
  BY DEF MergeProducts
<1>2. loser # survivor /\ mergedInto[survivor] = None /\ None \notin Products
  BY NoneIsNoValue DEF MergeProducts
<1>3. ASSUME NEW l \in Lines PROVE Plain(line[l])'
  <2>1. Plain(line[l]) /\ line[l] \in LineRows
    BY DEF LinesPlain, TypeOK
  <2>2. line'[l] = IF line[l].product = loser THEN [line[l] EXCEPT !.product = survivor] ELSE line[l]
    BY DEF MergeProducts
  <2>3. CASE line[l].product = loser
    <3>1. line'[l].product = survivor /\ line'[l].unpriced = line[l].unpriced
      BY <2>1, <2>2, <2>3 DEF LineRows
    <3>2. mergedInto'[survivor] = None
      BY <1>1, <1>2 DEF FollowsLoser
    <3> QED
      BY <2>1, <3>1, <3>2 DEF Plain
  <2>4. CASE line[l].product # loser
    BY <1>1, <1>2, <2>1, <2>2, <2>4 DEF Plain, FollowsLoser
  <2> QED
    BY <2>3, <2>4
<1> QED
  BY <1>3 DEF LinesPlain

LEMMA PlainStep == Unmerged /\ Kept /\ LinesPlain /\ [Next]_vars => LinesPlain'
<1> SUFFICES ASSUME Unmerged, Kept, LinesPlain, [Next]_vars PROVE LinesPlain'
  OBVIOUS
<1>1. TypeOK /\ RowsSound
  BY DEF Kept
<1>2. ASSUME UNCHANGED <<line, mergedInto>> PROVE LinesPlain'
  BY <1>2 DEF LinesPlain, Plain
<1>3. CASE UNCHANGED vars \/ ReadingEnds \/ Retry \/ EditHeader \/ Reopen \/ Restore \/ FindWaiting \/ MatchEnds
  BY <1>2, <1>3 DEF vars, ReadingEnds, Retry, EditHeader, Reopen, Restore, FindWaiting, MatchEnds
<1>4. CASE Commit \/ RecommitMatched \/ RemoveVoiding
  BY <1>2, <1>4 DEF Commit, RecommitMatched, CommitPurchase, RemoveVoiding
<1>5. CASE CreateDraft \/ ImportDraft \/ CreateManual \/ ResolvePurchase \/ TakenByHand
  BY <1>5, PlainSources
<1>6. ASSUME NEW l \in Lines, AddLine(l) \/ EditLine(l) \/ DeleteLine(l) \/ ReResolveLine(l) \/ DecideLine(l)
      PROVE  LinesPlain'
  BY <1>6, PlainReviews
<1>7. ASSUME NEW l \in Lines, WithdrawPrice(l) PROVE LinesPlain'
  BY <1>2, <1>7 DEF WithdrawPrice
<1>8. CASE ReplaceLines
  <2>1. PICK rows \in [Lines -> UNION {Corrected(l) : l \in Lines}] :
          (\A l \in Lines : rows[l] \in Corrected(l)) /\ line' = rows
    BY <1>8 DEF ReplaceLines
  <2>2. \A l \in Lines : Plain(rows[l])
    BY <1>1, <2>1, PlainCorrected
  <2>3. UNCHANGED mergedInto
    BY <1>8 DEF ReplaceLines
  <2> QED
    BY <2>1, <2>2, <2>3, PlainRows
<1>9. CASE UpdateManual
  <2>1. PICK rows \in [Lines -> UNION {Entered(l) : l \in Lines}] :
          (\A l \in Lines : rows[l] \in Entered(l)) /\ line' = rows
    BY <1>9 DEF UpdateManual
  <2>2. \A l \in Lines : Plain(rows[l])
    BY <1>1, <2>1, PlainEntered
  <2>3. UNCHANGED mergedInto
    BY <1>9 DEF UpdateManual
  <2> QED
    BY <2>1, <2>2, <2>3, PlainRows
<1>10. CASE RemoveDeleting
  <2>1. line' = [l \in Lines |-> NoLine] /\ UNCHANGED mergedInto
    BY <1>10 DEF RemoveDeleting
  <2> QED
    BY <2>1, PlainNew, PlainRows
<1>11. CASE MatchWaiting
  <2>1. PICK x \in Choosable, matched \in SUBSET Lines :
          line' = [l \in Lines |-> IF l \in matched
                                   THEN [line[l] EXCEPT !.product = x, !.choice = "auto"] ELSE line[l]]
    BY <1>11 DEF MatchWaiting, Waiting, OnPurchase
  <2>2. ASSUME NEW l \in Lines PROVE Plain(line'[l])
    <3>1. Plain(line[l]) /\ line[l] \in LineRows
      BY <1>1 DEF LinesPlain, TypeOK
    <3>2. x \in Products /\ mergedInto[x] = None
      BY ChoosableUnmerged
    <3> QED
      BY <2>1, <3>1, <3>2 DEF LineRows, Plain
  <2>3. UNCHANGED mergedInto
    BY <1>11 DEF MatchWaiting
  <2> QED
    BY <2>2, <2>3 DEF LinesPlain, Plain
<1> QED
  BY <1>1, <1>3, <1>4, <1>5, <1>6, <1>7, <1>8, <1>9, <1>10, <1>11, PlainMerge DEF Next

LEMMA PlainAlways ==
  ASSUME Unmerged
  PROVE  Spec => []LinesPlain
<1>1. Init => LinesPlain
  BY PlainNew DEF Init, LinesPlain
<1>2. Kept /\ LinesPlain /\ [Next]_vars => LinesPlain'
  BY PlainStep
<1> QED
  BY <1>1, <1>2, KeptAlways, PTL DEF Spec

\* Committing again leaves alone what nobody changed, also under a product
\* merged since and when lines were matched late: no line is voided and
\* recorded again for nothing.
THEOREM RecommitKeeps ==
  ASSUME ~StaleChoices, ~Imports
  PROVE  Spec => UnchangedKeeps
<1>1. ASSUME Kept, LinesPlain, CommitPurchase, NEW l \in OnPurchase, IsLive(l),
             line[l].product # None, Agrees(l, Live(l))
      PROVE  book'[l] = book[l]
  <2>1. Plain(line[l]) /\ l \in Lines /\ line[l].state = "on"
    BY <1>1 DEF LinesPlain, OnPurchase
  <2>2. Priced(line[l])
    BY <1>1, <2>1 DEF Priced, Plain
  <2>3. Unchanged(l)
    BY <1>1, <2>1 DEF Unchanged, Agrees, Follows, Root, Plain
  <2>4. book'[l] = Committed(l)
    BY <1>1, <2>1 DEF CommitPurchase
  <2> QED
    BY <1>1, <2>2, <2>3, <2>4 DEF Committed
<1>2. Kept /\ LinesPlain /\ [Next]_vars =>
        [CommitPurchase => \A l \in OnPurchase :
           IsLive(l) /\ line[l].product # None /\ Agrees(l, Live(l)) => book'[l] = book[l]]_vars
  BY <1>1
<1>3. Spec => []LinesPlain
  BY PlainAlways DEF Unmerged
<1> QED
  BY <1>2, <1>3, KeptAlways, PTL DEF Spec, UnchangedKeeps

-----------------------------------------------------------------------------
(* The price that counts is the last one, and nobody resolves the lines of a *)
(* committed purchase.                                                       *)

LiveIsLast == \A l \in Lines : \A i \in LivePrices(l) : i = Len(book[l])

LEMMA LastStep == Kept /\ LiveIsLast /\ [Next]_vars => LiveIsLast'
<1> SUFFICES ASSUME Kept, LiveIsLast, [Next]_vars, NEW l \in Lines
             PROVE  \A i \in LivePrices(l)' : i = Len(book'[l])
  BY DEF LiveIsLast
<1>1. Moved(l) /\ book[l] \in Seq(Observations)
  BY StepKeeps DEF StepOK, Kept, TypeOK
<1>2. CASE book'[l] = book[l]
  BY <1>2 DEF LiveIsLast, LivePrices
<1>3. ASSUME NEW how \in {"void", "withdrawn"}, book'[l] = Ended(book[l], how)
      PROVE  \A i \in LivePrices(l)' : i = Len(book'[l])
  BY <1>1, <1>3, EndedPrices DEF LivePrices
<1>4. ASSUME NEW o \in Observations, book'[l] = Append(Void(book[l]), o)
      PROVE  \A i \in LivePrices(l)' : i = Len(book'[l])
  BY <1>1, <1>4, AppendedPrice DEF LivePrices
<1> QED
  BY <1>1, <1>2, <1>3, <1>4 DEF Moved

\* Nothing is resolved, and no match under way, where a commit would be undone.
JobSettled ==
  /\ status = "committed" \/ match.step # "idle" => job \notin {"reading", "failed"}
  /\ status = "none" => job = "none" /\ match.step = "idle"

LEMMA JobStep == ~LateMatches /\ ~Imports /\ Kept /\ JobSettled /\ [Next]_vars => JobSettled'
<1> SUFFICES ASSUME ~LateMatches, ~Imports, Kept, JobSettled, [Next]_vars PROVE JobSettled'
  OBVIOUS
<1>1. match \in Matches
  BY DEF Kept, TypeOK
<1>2. ASSUME UNCHANGED <<job, match>>, status' = status \/ (status # "none" /\ status' \notin {"none", "committed"})
      PROVE  JobSettled'
  BY <1>2 DEF JobSettled
<1>3. CASE UNCHANGED vars \/ EditHeader \/ ReplaceLines \/ Reopen \/ Restore \/ RemoveVoiding
  BY <1>2, <1>3 DEF vars, EditHeader, ReplaceLines, Reopen, Restore, RemoveVoiding, Editable, NotVoided
<1>4. ASSUME NEW l \in Lines, AddLine(l) \/ EditLine(l) \/ DeleteLine(l) \/ ReResolveLine(l)
                              \/ DecideLine(l) \/ WithdrawPrice(l)
      PROVE  JobSettled'
  BY <1>2, <1>4 DEF AddLine, EditLine, DeleteLine, ReResolveLine, DecideLine, WithdrawPrice
<1>5. CASE UpdateManual
  BY <1>2, <1>5 DEF UpdateManual
<1>6. ASSUME NEW loser \in Products, NEW survivor \in Products, MergeProducts(loser, survivor)
      PROVE  JobSettled'
  BY <1>2, <1>6 DEF MergeProducts
<1>7. CASE ImportDraft
  BY <1>7 DEF ImportDraft
<1>8. CASE CreateDraft \/ CreateManual
  BY <1>8 DEF CreateDraft, CreateManual, JobSettled
<1>9. CASE ResolvePurchase \/ ReadingEnds \/ Retry
  BY <1>9 DEF ResolvePurchase, ReadingEnds, Retry, JobSettled
<1>10. CASE TakenByHand \/ RemoveDeleting
  BY <1>10 DEF TakenByHand, RemoveDeleting, NotVoided, JobSettled
<1>11. CASE Commit
  BY <1>11 DEF Commit, CommitPurchase, NotVoided, JobSettled
<1>12. CASE RecommitMatched
  BY <1>12 DEF RecommitMatched, CommitPurchase, IdleMatch, JobSettled
<1>13. CASE FindWaiting \/ MatchEnds
  BY <1>1, <1>13 DEF FindWaiting, MatchEnds, IdleMatch, JobSettled
<1>14. CASE MatchWaiting
  BY <1>1, <1>14 DEF MatchWaiting, IdleMatch, JobSettled
<1> QED
  BY <1>3, <1>4, <1>5, <1>6, <1>7, <1>8, <1>9, <1>10, <1>11, <1>12, <1>13, <1>14 DEF Next

-----------------------------------------------------------------------------
(* What a committed purchase says of its lines.                            *)

AgreesOn(l) ==
  IF Priced(line[l])
  THEN Recorded(l) /\ Last(book[l]).void # "void" /\ Agrees(l, Last(book[l]))
  ELSE ~IsLive(l)

LEMMA LastOf ==
  ASSUME NEW l \in Lines, book[l] \in Seq(Observations), LiveIsLast, IsLive(l)
  PROVE  /\ Live(l) = Last(book[l]) /\ Last(book[l]) \in Observations
         /\ Last(book[l]).void = "live" /\ Recorded(l)
<1>1. PICK i \in LivePrices(l) : TRUE
  BY DEF IsLive
<1>2. \A j \in LivePrices(l) : j = Len(book[l])
  BY DEF LiveIsLast
<1>3. (CHOOSE j \in LivePrices(l) : TRUE) = Len(book[l])
  BY <1>1, <1>2
<1>4. Len(book[l]) \in DOMAIN book[l] /\ book[l][Len(book[l])].void = "live"
  BY <1>1, <1>2 DEF LivePrices
<1>5. book[l] # <<>> /\ book[l][Len(book[l])] \in Observations
  BY <1>4
<1>6. Last(book[l]) = book[l][Len(book[l])]
  BY DEF Last
<1>7. Live(l) = book[l][Len(book[l])]
  BY <1>3 DEF Live
<1> QED
  BY <1>4, <1>5, <1>6, <1>7 DEF Recorded

\* A price just recorded agrees with the line it was recorded for.
LEMMA AgreesOnceEmitted ==
  ASSUME NEW l \in Lines, book[l] \in Seq(Observations), NEW row, NEW h \in Headers,
         Sound(row), row.state = "on", row.product # None,
         book'[l] = Emit(l, row, h), line'[l] = row, header' = h, ~row.unpriced
  PROVE  AgreesOn(l)'
<1> DEFINE o == Observation(row, h)
<1>1. o \in Observations
  BY PricedObservation
<1>2. Void(book[l]) \in Seq(Observations)
  BY EndedPrices DEF Void
<1>3. o.product = row.product /\ o.price = row.price /\ o.header = h /\ o.void = "live"
  BY DEF Observation
<1> HIDE DEF o
<1>4. book'[l] = Append(Void(book[l]), o)
  BY DEF Emit, o
<1>5. book'[l] # <<>> /\ Last(book'[l]) = o
  <2> DEFINE old == Void(book[l])
  <2>1. old \in Seq(Observations)
    BY <1>2
  <2> HIDE DEF old
  <2>2. Append(old, o) # <<>> /\ Append(old, o)[Len(Append(old, o))] = o
    BY <1>1, <2>1
  <2>3. Last(Append(old, o)) = Append(old, o)[Len(Append(old, o))]
    BY DEF Last
  <2> QED
    BY <1>4, <2>2, <2>3 DEF old
<1>6. Priced(row)
  BY DEF Priced
<1> QED
  BY <1>3, <1>5, <1>6 DEF AgreesOn, Recorded, Agrees, Root, Priced

\* So it does for a line the book says nothing of, and one nothing happened to.
LEMMA AgreesOnceEnded ==
  ASSUME NEW l \in Lines, book[l] \in Seq(Observations), ~Priced(line[l])', book'[l] = Void(book[l])
  PROVE  AgreesOn(l)'
<1>1. ~IsLive(l)'
  BY EndedPrices DEF Void, IsLive, LivePrices
<1> QED
  BY <1>1 DEF AgreesOn, Priced

LEMMA AgreesStill ==
  ASSUME NEW l \in Lines, AgreesOn(l),
         UNCHANGED <<line[l], book[l], header, mergedInto>>
  PROVE  AgreesOn(l)'
  BY DEF AgreesOn, Priced, Recorded, Agrees, Root, IsLive, LivePrices

\* CommittedAgrees with what it rests on.
Settled ==
  Kept /\ MergedOneLevel /\ LinesPlain /\ LiveIsLast /\ JobSettled /\ CommittedAgrees

LEMMA AgreesNow ==
  ASSUME CommittedAgrees, status = "committed", match.step # "matched", NEW l \in OnPurchase
  PROVE  AgreesOn(l)
  BY DEF CommittedAgrees, AgreesOn

LEMMA ManualAgrees == ASSUME Unmerged, Settled, CreateManual, NEW l \in Lines PROVE AgreesOn(l)'
<1>1. PICK rows \in [Lines -> {NoLine} \cup {ByHandRow(x, p) : x \in Choosable, p \in Prices}] :
        /\ line' = rows
        /\ book' = [k \in Lines |-> IF Priced(rows[k]) THEN Emit(k, rows[k], header') ELSE <<>>]
  BY DEF CreateManual
<1>2. Sound(rows[l]) /\ Plain(rows[l]) /\ header' \in Headers
  BY <1>1, NewRows, PlainNew, ChoosableAreProducts DEF CreateManual
<1>3. CASE Priced(rows[l])
  BY <1>1, <1>2, <1>3, AgreesOnceEmitted DEF Priced, Plain, Settled, Kept, TypeOK
<1>4. CASE ~Priced(rows[l])
  <2>1. line'[l] = rows[l] /\ book'[l] = <<>>
    BY <1>1, <1>4
  <2>2. ~IsLive(l)'
    BY <2>1 DEF IsLive, LivePrices
  <2> QED
    BY <1>4, <2>1, <2>2 DEF AgreesOn, Priced
<1> QED
  BY <1>3, <1>4

LEMMA CommitAgrees == ASSUME Settled, CommitPurchase, NEW l \in OnPurchase PROVE AgreesOn(l)'
<1>1. l \in Lines /\ line' = line /\ mergedInto' = mergedInto /\ header' = header /\ header \in Headers
      /\ book' = [k \in Lines |-> Committed(k)]
  BY DEF CommitPurchase, Settled, Kept, TypeOK, OnPurchase
<1>2. Sound(line[l]) /\ Plain(line[l]) /\ book[l] \in Seq(Observations) /\ book'[l] = Committed(l)
  BY <1>1 DEF Settled, Kept, TypeOK, RowsSound, LinesPlain
<1>3. CASE Priced(line[l]) /\ Unchanged(l)
  <2>1. book'[l] = book[l]
    BY <1>2, <1>3 DEF Committed
  <2>2. IsLive(l) /\ Live(l) = Last(book[l]) /\ Last(book[l]).void = "live" /\ Recorded(l)
    BY <1>1, <1>2, <1>3, LastOf DEF Unchanged, Settled
  <2>3. Root(line[l].product) = line[l].product
    BY <1>2, <1>3 DEF Priced, Plain, Root
  <2>4. Agrees(l, Last(book[l]))
    BY <1>3, <2>2, <2>3 DEF Unchanged, Follows, Agrees
  <2>5. AgreesOn(l)
    BY <1>3, <2>2, <2>4 DEF AgreesOn
  <2> QED
    BY <1>1, <2>1, <2>5, AgreesStill
<1>4. CASE Priced(line[l]) /\ ~Unchanged(l)
  <2>1. book'[l] = Emit(l, line[l], header)
    BY <1>2, <1>4 DEF Committed
  <2> QED
    BY <1>1, <1>2, <1>4, <2>1, AgreesOnceEmitted DEF Priced, Plain
<1>5. CASE ~Priced(line[l])
  <2>1. book'[l] = Void(book[l]) /\ ~Priced(line[l])'
    BY <1>1, <1>2, <1>5 DEF Committed, Priced
  <2> QED
    BY <1>1, <1>2, <2>1, AgreesOnceEnded
<1> QED
  BY <1>3, <1>4, <1>5

\* A line the form leaves as it is keeps its price, one it changes gets another.
LEMMA EntryAgrees ==
  ASSUME Unmerged, Settled, UpdateManual, status = "committed", match.step # "matched",
         NEW l \in Lines, line'[l].state = "on"
  PROVE  AgreesOn(l)'
<1>1. PICK h \in Headers, rows \in [Lines -> UNION {Entered(k) : k \in Lines}] :
        LET onForm == {k \in Lines : rows[k].state = "on"}
            emitted == {k \in onForm : ~SameEntry(k, rows[k], h)}
        IN
        /\ \A k \in Lines : rows[k] \in Entered(k)
        /\ \A k \in emitted : rows[k].choice = "chosen"
        /\ header' = h
        /\ line' = rows
        /\ book' = [k \in Lines |-> IF k \in emitted THEN Emit(k, rows[k], h)
                                    ELSE IF k \in onForm THEN book[k] ELSE Void(book[k])]
  BY DEF UpdateManual
<1>2. UNCHANGED mergedInto /\ book[l] \in Seq(Observations) /\ rows[l].state = "on"
  BY <1>1 DEF UpdateManual, Settled, Kept, TypeOK
<1>3. Sound(rows[l]) /\ Plain(rows[l])
  BY <1>1, EnteredRows, PlainEntered DEF Settled, Kept
<1>4. CASE ~SameEntry(l, rows[l], h)
  <2>1. book'[l] = Emit(l, rows[l], h) /\ rows[l].choice = "chosen"
    BY <1>1, <1>2, <1>4
  <2>2. rows[l].product # None
    BY <1>3, <2>1, NoneIsNoValue DEF Sound
  <2> QED
    BY <1>1, <1>2, <1>3, <2>1, <2>2, AgreesOnceEmitted DEF Plain
<1>5. CASE SameEntry(l, rows[l], h)
  <2>1. /\ book'[l] = book[l] /\ header' = header /\ line'[l] = rows[l]
        /\ IsLive(l) /\ rows[l].product = line[l].product /\ rows[l].price = line[l].price
    BY <1>1, <1>2, <1>5 DEF SameEntry
  <2>2. l \in OnPurchase
    BY <2>1 DEF Settled, Kept, LiveIsBought, OnPurchase
  <2>3. AgreesOn(l)
    BY <2>2, AgreesNow DEF Settled
  <2>4. Priced(line[l]) /\ Recorded(l) /\ Last(book[l]).void # "void" /\ Agrees(l, Last(book[l]))
    BY <2>1, <2>3 DEF AgreesOn
  <2>5. Priced(rows[l])
    BY <1>2, <1>3, <2>1, <2>4 DEF Priced, Plain
  <2> QED
    BY <1>2, <2>1, <2>4, <2>5 DEF AgreesOn, Priced, Recorded, Agrees, Root
<1> QED
  BY <1>4, <1>5

LEMMA DecideAgrees ==
  ASSUME Unmerged, Settled, NEW k \in Lines, DecideLine(k), status = "committed",
         match.step # "matched", NEW l \in Lines, line'[l].state = "on"
  PROVE  AgreesOn(l)'
<1>1. PICK row \in Decided(k) :
        /\ line' = [line EXCEPT ![k] = row]
        /\ book' = [book EXCEPT ![k] = IF Priced(row) THEN Emit(k, row, header) ELSE Void(book[k])]
  BY DEF DecideLine
<1>2. UNCHANGED <<mergedInto, header>> /\ header \in Headers /\ book[l] \in Seq(Observations)
  BY DEF DecideLine, Settled, Kept, CommittedHasHeader, TypeOK
<1>3. CASE l # k
  <2>1. line'[l] = line[l] /\ book'[l] = book[l]
    BY <1>1, <1>3 DEF Settled, Kept, TypeOK
  <2>2. AgreesOn(l)
    BY <2>1, AgreesNow DEF Settled, OnPurchase
  <2> QED
    BY <1>2, <2>1, <2>2, AgreesStill
<1>4. CASE l = k
  <2>1. line'[l] = row /\ book'[l] = IF Priced(row) THEN Emit(l, row, header) ELSE Void(book[l])
    BY <1>1, <1>4 DEF Settled, Kept, TypeOK
  <2>2. Sound(row) /\ Plain(row)
    <3>1. StepOK /\ LinesPlain'
      BY DecideStep, PlainReviews DEF Settled
    <3> QED
      BY <1>2, <2>1, <3>1 DEF StepOK, LinesPlain, Plain
  <2>3. CASE Priced(row)
    BY <1>2, <2>1, <2>2, <2>3, AgreesOnceEmitted DEF Priced, Plain
  <2>4. CASE ~Priced(row)
    <3>1. book'[l] = Void(book[l]) /\ ~Priced(line[l])'
      BY <2>1, <2>4 DEF Priced
    <3> QED
      BY <1>2, <3>1, AgreesOnceEnded
  <2> QED
    BY <2>3, <2>4
<1> QED
  BY <1>3, <1>4

\* A price withdrawn is still what the line said, and nothing else counts.
LEMMA WithdrawAgrees ==
  ASSUME Settled, NEW k \in Lines, WithdrawPrice(k), status = "committed",
         match.step # "matched", NEW l \in OnPurchase
  PROVE  AgreesOn(l)'
<1>1. /\ UNCHANGED <<line, header, mergedInto>> /\ l \in Lines /\ book[l] \in Seq(Observations)
      /\ book' = [book EXCEPT ![k] = Ended(book[k], "withdrawn")]
  BY DEF WithdrawPrice, Settled, Kept, TypeOK, OnPurchase
<1>2. AgreesOn(l)
  BY AgreesNow DEF Settled
<1>3. CASE l # k
  BY <1>1, <1>2, <1>3, AgreesStill DEF Settled, Kept, TypeOK
<1>4. CASE l = k
  <2>1. IsLive(l) /\ Priced(line[l])
    BY <1>2, <1>4 DEF WithdrawPrice, AgreesOn
  <2>2. Recorded(l) /\ Agrees(l, Last(book[l]))
    BY <1>2, <2>1 DEF AgreesOn
  <2>3. Last(book[l]) \in Observations /\ Last(book[l]).void = "live" /\ Last(book[l]) = book[l][Len(book[l])]
    BY <1>1, <2>1, LastOf DEF Settled, Last
  <2>4. book'[l] = Ended(book[l], "withdrawn")
    BY <1>1, <1>4 DEF Settled, Kept, TypeOK
  <2>5. Len(book'[l]) = Len(book[l])
    BY <1>1, <2>4, EndedPrices
  <2>6. Len(book[l]) \in DOMAIN book[l]
    BY <1>1, <2>2 DEF Recorded
  <2>7. book'[l][Len(book[l])] = [Last(book[l]) EXCEPT !.void = "withdrawn"]
    BY <2>3, <2>4, <2>6 DEF Ended
  <2>8. Last(book'[l]) = book'[l][Len(book'[l])]
    BY DEF Last
  <2>9. /\ Last(book'[l]).product = Last(book[l]).product /\ Last(book'[l]).price = Last(book[l]).price
        /\ Last(book'[l]).header = Last(book[l]).header /\ Last(book'[l]).void = "withdrawn"
    BY <2>3, <2>5, <2>7, <2>8 DEF Observations
  <2>10. book'[l] # <<>>
    BY <1>1, <2>2, <2>5, <2>6
  <2> QED
    BY <1>1, <2>1, <2>2, <2>9, <2>10 DEF AgreesOn, Priced, Recorded, Agrees, Root
<1> QED
  BY <1>3, <1>4

\* After a merge what led to the loser leads to the survivor, and all else where
\* it led before.
LEMMA MergedRoots ==
  ASSUME MergedOneLevel, TypeOK, NEW loser \in Products, NEW survivor \in Products,
         MergeProducts(loser, survivor), NEW x \in Products
  PROVE  Root(x)' = IF Root(x) = loser THEN survivor ELSE Root(x)
<1>1. mergedInto'[x] = IF FollowsLoser(x, loser) THEN survivor ELSE mergedInto[x]
  BY DEF MergeProducts
<1>2. mergedInto[loser] = None /\ loser # None /\ survivor # None
  BY NoneIsNoValue DEF MergeProducts
<1> QED
  BY <1>1, <1>2 DEF Root, FollowsLoser

LEMMA MergeAgrees ==
  ASSUME Settled, NEW loser \in Products, NEW survivor \in Products,
         MergeProducts(loser, survivor), NEW l \in Lines, AgreesOn(l)
  PROVE  AgreesOn(l)'
<1>1. line[l] \in LineRows /\ Plain(line[l]) /\ TypeOK /\ MergedOneLevel /\ UNCHANGED <<book, header>>
      /\ book[l] \in Seq(Observations)
  BY DEF Settled, Kept, TypeOK, LinesPlain, MergeProducts
<1>2. line'[l] = IF line[l].product = loser THEN [line[l] EXCEPT !.product = survivor] ELSE line[l]
  BY DEF MergeProducts
<1>3. /\ line'[l].state = line[l].state /\ line'[l].price = line[l].price
      /\ line'[l].unpriced = line[l].unpriced
      /\ line'[l].product = IF line[l].product = loser THEN survivor ELSE line[l].product
  BY <1>1, <1>2 DEF LineRows
<1>4. survivor # None /\ loser # None /\ loser # survivor /\ mergedInto[survivor] = None
  BY NoneIsNoValue DEF MergeProducts
<1>5. Priced(line[l])' = Priced(line[l])
  BY <1>3, <1>4 DEF Priced
<1>6. CASE ~Priced(line[l])
  BY <1>1, <1>5, <1>6 DEF AgreesOn, IsLive, LivePrices
<1>7. CASE Priced(line[l])
  <2>1. Recorded(l) /\ Last(book[l]).void # "void" /\ Agrees(l, Last(book[l]))
    BY <1>7 DEF AgreesOn
  <2>2. Last(book[l]).product \in Products
    <3>1. book[l][Len(book[l])] \in Observations
      BY <1>1, <2>1 DEF Recorded
    <3> QED
      BY <3>1 DEF Last, Observations
  <2>3. line[l].product \in Products /\ Root(line[l].product) = line[l].product
    BY <1>1, <1>7 DEF Priced, Plain, Root
  <2>4. Root(Last(book[l]).product) = line[l].product
    BY <2>1, <2>3 DEF Agrees
  <2>5. Root(Last(book[l]).product)' = line'[l].product
    <3> DEFINE x == Last(book[l]).product
    <3>1. x \in Products /\ Root(x) = line[l].product /\ x' = x
      BY <1>1, <2>2, <2>4
    <3> HIDE DEF x
    <3>2. Root(x)' = IF Root(x) = loser THEN survivor ELSE Root(x)
      BY <1>1, <3>1, MergedRoots DEF Root
    <3> QED
      BY <1>3, <3>1, <3>2 DEF x
  <2>6. Root(line[l].product)' = line'[l].product
    <3>1. Plain(line[l])'
      BY <1>1, PlainMerge DEF Settled, LinesPlain
    <3>2. line'[l].product # None
      BY <1>5, <1>7 DEF Priced
    <3> QED
      BY <3>1, <3>2 DEF Plain, Root
  <2>7. Agrees(l, Last(book[l]))'
    BY <1>1, <1>3, <2>1, <2>5, <2>6 DEF Agrees
  <2>8. (Recorded(l) /\ Last(book[l]).void # "void")'
    BY <1>1, <2>1 DEF Recorded
  <2> QED
    BY <1>5, <1>7, <2>7, <2>8 DEF AgreesOn
<1> QED
  BY <1>6, <1>7

LEMMA SettledAgrees ==
  ASSUME Unmerged, ~LateMatches, Settled, [Next]_vars,
         status' = "committed", match'.step # "matched", NEW l \in OnPurchase'
  PROVE  AgreesOn(l)'
<1>1. l \in Lines /\ line'[l].state = "on" /\ match \in Matches /\ TypeOK
  BY DEF OnPurchase, Settled, Kept, TypeOK
<1>2. ASSUME UNCHANGED <<line, book, header, mergedInto>>, status = "committed", match.step # "matched"
      PROVE  AgreesOn(l)'
  <2>1. l \in OnPurchase
    BY <1>1, <1>2 DEF OnPurchase
  <2>2. AgreesOn(l)
    BY <1>2, <2>1, AgreesNow DEF Settled
  <2> QED
    BY <1>1, <1>2, <2>2, AgreesStill
<1>3. CASE UNCHANGED vars \/ ReadingEnds \/ Retry \/ FindWaiting
  BY <1>2, <1>3 DEF vars, ReadingEnds, Retry, FindWaiting
<1>4. ~(CreateDraft \/ ImportDraft \/ TakenByHand \/ EditHeader \/ ReplaceLines \/ Reopen
        \/ RemoveVoiding \/ RemoveDeleting \/ Restore)
  BY DEF CreateDraft, ImportDraft, TakenByHand, EditHeader, ReplaceLines, Editable, Reopen,
         RemoveVoiding, RemoveDeleting, Restore
<1>5. ~ResolvePurchase
  BY DEF ResolvePurchase, Settled, JobSettled
<1>6. CASE CreateManual
  BY <1>1, <1>6, ManualAgrees
<1>7. CASE Commit \/ RecommitMatched
  <2>1. CommitPurchase
    BY <1>7 DEF Commit, RecommitMatched
  <2>2. l \in OnPurchase
    BY <1>1, <2>1 DEF CommitPurchase, OnPurchase
  <2> QED
    BY <2>1, <2>2, CommitAgrees
<1>8. CASE UpdateManual
  <2>1. UNCHANGED <<status, match>>
    BY <1>8 DEF UpdateManual
  <2> QED
    BY <1>1, <1>8, <2>1, EntryAgrees
<1>9. ASSUME NEW k \in Lines, AddLine(k) \/ EditLine(k) \/ DeleteLine(k) \/ ReResolveLine(k) PROVE FALSE
  BY <1>9 DEF AddLine, EditLine, DeleteLine, ReResolveLine, Editable
<1>10. ASSUME NEW k \in Lines, DecideLine(k) PROVE AgreesOn(l)'
  <2>1. UNCHANGED <<status, match>>
    BY <1>10 DEF DecideLine
  <2> QED
    BY <1>1, <1>10, <2>1, DecideAgrees
<1>11. ASSUME NEW k \in Lines, WithdrawPrice(k) PROVE AgreesOn(l)'
  <2>1. UNCHANGED <<status, match, line>>
    BY <1>11 DEF WithdrawPrice
  <2>2. l \in OnPurchase
    BY <1>1, <2>1 DEF OnPurchase
  <2> QED
    BY <1>11, <2>1, <2>2, WithdrawAgrees
<1>12. ASSUME NEW loser \in Products, NEW survivor \in Products, MergeProducts(loser, survivor)
       PROVE  AgreesOn(l)'
  <2>1. UNCHANGED <<status, match>> /\ line'[l].state = line[l].state
    BY <1>1, <1>12 DEF MergeProducts, TypeOK, LineRows
  <2>2. AgreesOn(l)
    BY <1>1, <2>1, AgreesNow DEF Settled, OnPurchase
  <2> QED
    BY <1>1, <1>12, <2>2, MergeAgrees
<1>13. CASE MatchWaiting
  <2>1. PICK x \in Choosable, matched \in SUBSET (match.lines \cap Waiting) :
          /\ line' = [k \in Lines |-> IF k \in matched
                                      THEN [line[k] EXCEPT !.product = x, !.choice = "auto"] ELSE line[k]]
          /\ match' = IF matched = {} THEN IdleMatch ELSE [match EXCEPT !.step = "matched"]
    BY <1>13 DEF MatchWaiting
  <2>2. matched = {}
    BY <1>1, <2>1 DEF Matches
  <2>3. line' = line
    BY <1>1, <2>1, <2>2 DEF TypeOK
  <2> QED
    BY <1>2, <1>13, <2>3 DEF MatchWaiting
<1>14. CASE MatchEnds
  BY <1>14, NoneIsNoValue DEF MatchEnds, NotVoided, Settled, Kept, CommittedHasHeader
<1> QED
  BY <1>3, <1>4, <1>5, <1>6, <1>7, <1>8, <1>9, <1>10, <1>11, <1>12, <1>13, <1>14 DEF Next

\* In a committed purchase the price book holds what the lines say, after any
\* mix of decisions, merges, withdrawals, reopening, entry forms and lines
\* matched while it is committed, each with its commit.
THEOREM BookSaysWhatLinesSay ==
  ASSUME ~StaleChoices, ~LateMatches, ~Imports
  PROVE  Spec => []CommittedAgrees
<1> DEFINE Rest == LiveIsLast /\ JobSettled /\ CommittedAgrees
<1>1. Init => Rest
  BY DEF Init, LiveIsLast, LivePrices, JobSettled, IdleMatch, CommittedAgrees
<1>2. ASSUME Kept, MergedOneLevel, LinesPlain, Rest, [Next]_vars PROVE Rest'
  <2>1. LiveIsLast' /\ JobSettled'
    BY <1>2, LastStep, JobStep
  <2>2. CommittedAgrees'
    BY <1>2, SettledAgrees DEF Settled, Unmerged, CommittedAgrees, AgreesOn
  <2> QED
    BY <2>1, <2>2
<1>3. Spec => []LinesPlain
  BY PlainAlways DEF Unmerged
<1>4. Rest => CommittedAgrees
  OBVIOUS
<1> HIDE DEF Rest
<1> QED
  BY <1>1, <1>2, <1>3, <1>4, KeptAlways, MergesOneDeep, PTL DEF Spec

=============================================================================
