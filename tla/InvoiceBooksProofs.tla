------------------------- MODULE InvoiceBooksProofs -------------------------
(***************************************************************************)
(* Invoices, payments, credit notes and customer credit, in four parts:    *)
(* the arithmetic of Money; what every transaction of InvoiceTables keeps  *)
(* when it is handed the figures as they stand, and so what InvoiceDesk    *)
(* keeps for ever; that the handlers of InvoiceBooks, whatever they read   *)
(* and however they overlap, commit nothing the desk could not have done   *)
(* alone, so that what the desk keeps, they keep; and that the liability   *)
(* is what the customers hold.  All of it for any invoices, notes,         *)
(* customers, requests, amounts and rates.                                 *)
(***************************************************************************)
EXTENDS InvoiceBooks, InvoiceDesk, FiniteSetTheorems, WellFoundedInduction,
        TLAPS

-----------------------------------------------------------------------------
(* A conversion is a whole number of cents. *)
LEMMA ToBaseCentsType ==
  ASSUME NEW amount \in Int, NEW rate \in Nat
  PROVE  ToBaseCents(amount, rate) \in Int
BY DEF ToBaseCents, RATE_SCALE

(* A document in the base currency converts to itself. *)
LEMMA ToBaseCentsAtPar ==
  ASSUME NEW amount \in Int
  PROVE  ToBaseCents(amount, RATE_SCALE) = amount
BY DEF ToBaseCents, RATE_SCALE

(* Nothing converts to nothing, whatever the rate. *)
LEMMA ToBaseCentsOfNothing ==
  ASSUME NEW rate \in Nat
  PROVE  ToBaseCents(0, rate) = 0
BY DEF ToBaseCents, RATE_SCALE

(* A larger amount is never worth less: the receipt's worth of an overpayment
   is not negative. *)
LEMMA ToBaseCentsMonotone ==
  ASSUME NEW a \in Int, NEW b \in Int, NEW rate \in Nat, a <= b
  PROVE  ToBaseCents(a, rate) <= ToBaseCents(b, rate)
<1> DEFINE p == a * rate
           q == b * rate
<1>1. p \in Int /\ q \in Int
  OBVIOUS
<1>2. p <= q
  <2>1. q - p = (b - a) * rate
    OBVIOUS
  <2>2. (b - a) * rate \in Nat
    OBVIOUS
  <2> HIDE DEF p, q
  <2> QED BY <1>1, <2>1, <2>2
<1>3. ToBaseCents(a, rate) = (2 * p + 1000000) \div 2000000
  BY DEF ToBaseCents, RATE_SCALE
<1>4. ToBaseCents(b, rate) = (2 * q + 1000000) \div 2000000
  BY DEF ToBaseCents, RATE_SCALE
<1> HIDE DEF p, q
<1> QED BY <1>1, <1>2, <1>3, <1>4

(* The status of a document is one a settlement can follow. *)
LEMMA InvoiceStatusType ==
  ASSUME NEW t, NEW p, NEW c
  PROVE  InvoiceStatus(t, p, c) \in {"open", "partial", "paid", "credited"}
BY DEF InvoiceStatus

-----------------------------------------------------------------------------
(* The inductive invariant, invoice by invoice. *)

(* A live note names an invoice; a note not raised yet names none. *)
NotesInv ==
  \A n \in Notes :
    /\ note[n].status = "none" => note[n].of = NoInvoice
    /\ note[n].status = "open" => note[n].of \in Invoices /\ note[n].amount > 0

(* The notes raised are finitely many, so what they credit is a number. *)
CentsInv == \A i \in Invoices : IsFiniteSet(CreditedCents(i))

(* Only an issued invoice is credited, and a void has no live note left; in
   the base currency a note cleared what it is for. *)
CreditedInv(i) ==
  \A n \in Notes : note[n].of = i =>
    /\ status[i] \notin {"none", "draft"}
    /\ note[n].status = "open" =>
         /\ status[i] \in Settling
         /\ Rate[i] = RATE_SCALE => note[n].cleared = note[n].amount

(* Nothing has happened to an invoice that was never issued. *)
UnissuedInv(i) ==
  status[i] \in {"none", "draft"} =>
    /\ paid[i] = 0 /\ taken[i] = 0 /\ fee[i] = 0
    /\ receivable[i] = 0 /\ issued[i] = 0 /\ charged[i] = 0

(* What stands in the ledger under an invoice's sources is what it was issued
   for and charged; with the settlements' steps it makes its receivable. *)
StandingInv(i) ==
  status[i] \in Settling =>
    /\ issued[i] = ToBaseCents(total[i] - fee[i], Rate[i])
    /\ charged[i] = fee[i]
    /\ NoCentLeftOver(i) =>
         receivable[i] = issued[i] + charged[i]
                           - ToBaseCents(Settled(Figures(i)), Rate[i])
    /\ fee[i] = 0 /\ total[i] > 0 =>
         status[i] = InvoiceStatus(total[i] - taken[i], paid[i], Credited(i))

VoidInv(i) ==
  status[i] = "void" =>
    /\ paid[i] = 0 /\ taken[i] = 0
    /\ NoCentLeftOver(i) => receivable[i] = charged[i]

InvoiceInv(i) ==
  /\ CreditedInv(i)
  /\ UnissuedInv(i)
  /\ StandingInv(i)
  /\ VoidInv(i)
  /\ fee[i] = 0 => charged[i] = 0
  /\ taken[i] > 0 => everPaid[i]
  /\ Credited(i) <= total[i]
  /\ paid[i] <= total[i]

TablesInv ==
  /\ TablesOK
  /\ NotesInv
  /\ CentsInv
  /\ CreditNeverOverspent
  /\ \A i \in Invoices : InvoiceInv(i)

-----------------------------------------------------------------------------
(* What the notes of an invoice credit. *)

(* The notes that say the same of an invoice credit the same. *)
LEMMA CreditedUnchanged ==
  ASSUME NEW i \in Invoices,
         \A n \in Notes : note[n].of = i \/ note'[n].of = i => note'[n] = note[n]
  PROVE  /\ LiveNotes(i)' = LiveNotes(i)
         /\ CreditedCents(i)' = CreditedCents(i)
         /\ Credited(i)' = Credited(i)
<1>1. LiveNotes(i)' = LiveNotes(i)
  BY DEF LiveNotes
<1>2. \A n \in LiveNotes(i) : note'[n] = note[n]
  BY DEF LiveNotes
<1>3. CreditedCents(i)' = CreditedCents(i)
  BY <1>1, <1>2 DEF CreditedCents, NoteCents
<1> QED BY <1>1, <1>3 DEF Credited

(* A pair for each of a cents: as many as the cents. *)
LEMMA CentsOfOne ==
  ASSUME NEW n, NEW a \in Nat
  PROVE  /\ IsFiniteSet({n} \X (1 .. a))
         /\ Cardinality({n} \X (1 .. a)) = a
<1>1. IsFiniteSet({n}) /\ Cardinality({n}) = 1
  BY FS_Singleton
<1>2. IsFiniteSet(1 .. a) /\ Cardinality(1 .. a) = a
  BY FS_Interval
<1>3. /\ IsFiniteSet({n} \X (1 .. a))
      /\ Cardinality({n} \X (1 .. a)) = Cardinality({n}) * Cardinality(1 .. a)
  BY <1>1, <1>2, FS_Product, Zenon
<1> QED BY <1>1, <1>2, <1>3

(* Sets with nothing in common add up. *)
LEMMA DisjointUnion ==
  ASSUME NEW S, IsFiniteSet(S), NEW T, IsFiniteSet(T), S \cap T = {}
  PROVE  /\ IsFiniteSet(S \cup T)
         /\ Cardinality(S \cup T) = Cardinality(S) + Cardinality(T)
<1>1. /\ IsFiniteSet(S \cup T)
      /\ Cardinality(S \cup T)
           = Cardinality(S) + Cardinality(T) - Cardinality(S \cap T)
  BY FS_Union, Zenon
<1>2. Cardinality(S \cap T) = 0
  BY FS_EmptySet
<1>3. Cardinality(S) \in Nat /\ Cardinality(T) \in Nat
  BY FS_CardinalityType
<1> QED BY <1>1, <1>2, <1>3

(* The cents one note holds are as many as its amount. *)
LEMMA NoteCentsCount ==
  ASSUME NEW n \in Notes, note[n].amount \in Nat
  PROVE  /\ IsFiniteSet(NoteCents(n))
         /\ Cardinality(NoteCents(n)) = note[n].amount
BY CentsOfOne DEF NoteCents

(* What is credited is a natural number, and nothing exactly when no note is
   live. *)
LEMMA CreditedType ==
  ASSUME NEW i \in Invoices, TablesOK, NotesInv, CentsInv
  PROVE  /\ Credited(i) \in Nat
         /\ Credited(i) = 0 => LiveNotes(i) = {}
         /\ LiveNotes(i) = {} => Credited(i) = 0
<1>1. IsFiniteSet(CreditedCents(i))
  BY DEF CentsInv
<1>2. Credited(i) \in Nat
  BY <1>1, FS_CardinalityType DEF Credited
<1>3. Credited(i) = 0 <=> CreditedCents(i) = {}
  BY <1>1, FS_EmptySet DEF Credited
<1>4. ASSUME NEW n \in LiveNotes(i) PROVE CreditedCents(i) # {}
  <2>1. note[n].amount > 0 /\ note[n].amount \in Nat
    BY DEF LiveNotes, NotesInv, TablesOK, NoteRecord
  <2>2. <<n, 1>> \in NoteCents(n)
    BY <2>1 DEF NoteCents
  <2> QED BY <2>2 DEF CreditedCents
<1>5. LiveNotes(i) = {} => CreditedCents(i) = {}
  BY DEF CreditedCents
<1> QED BY <1>2, <1>3, <1>4, <1>5

(* A note raised adds its amount. *)
LEMMA CreditedRaised ==
  ASSUME NEW i \in Invoices, NEW n \in Notes, NEW amount \in Nat, NEW cleared,
         TablesOK, CentsInv,
         note[n].status = "none",
         note' = [note EXCEPT ![n] = [status |-> "open", of |-> i,
                                      amount |-> amount, cleared |-> cleared]]
  PROVE  /\ IsFiniteSet(CreditedCents(i)')
         /\ Credited(i)' = Credited(i) + amount
<1>1. note \in [Notes -> NoteRecord]
  BY DEF TablesOK
<1>2. LiveNotes(i)' = LiveNotes(i) \cup {n} /\ n \notin LiveNotes(i)
  BY <1>1 DEF LiveNotes
<1>3. \A m \in LiveNotes(i) : NoteCents(m)' = NoteCents(m)
  BY <1>1, <1>2 DEF LiveNotes, NoteCents
<1>4. CreditedCents(i)' = CreditedCents(i) \cup NoteCents(n)'
  BY <1>2, <1>3 DEF CreditedCents
<1>5. note'[n].amount = amount
  BY <1>1
<1>6. IsFiniteSet(NoteCents(n)') /\ Cardinality(NoteCents(n)') = amount
  <2>1. /\ IsFiniteSet({n} \X (1 .. amount))
        /\ Cardinality({n} \X (1 .. amount)) = amount
    BY CentsOfOne
  <2> QED BY <1>5, <2>1 DEF NoteCents
<1>7. CreditedCents(i) \cap NoteCents(n)' = {}
  <2> SUFFICES ASSUME NEW x, x \in CreditedCents(i), x \in NoteCents(n)'
               PROVE  FALSE
    OBVIOUS
  <2>1. PICK m \in LiveNotes(i) : x \in NoteCents(m)
    BY DEF CreditedCents
  <2>2. x[1] = m /\ x[1] = n
    BY <2>1 DEF NoteCents
  <2> QED BY <1>2, <2>2
<1>8. IsFiniteSet(CreditedCents(i))
  BY DEF CentsInv
<1>9. /\ IsFiniteSet(CreditedCents(i)')
      /\ Cardinality(CreditedCents(i)')
           = Cardinality(CreditedCents(i)) + Cardinality(NoteCents(n)')
  BY <1>4, <1>6, <1>7, <1>8, DisjointUnion
<1>10. Cardinality(CreditedCents(i)) \in Nat
  BY <1>8, FS_CardinalityType
<1> QED BY <1>6, <1>9, <1>10 DEF Credited

(* A note voided takes its amount away. *)
LEMMA CreditedVoided ==
  ASSUME NEW i \in Invoices, NEW n \in Notes,
         TablesOK, CentsInv,
         note[n].status = "open", note[n].of = i,
         note' = [note EXCEPT ![n].status = "void"]
  PROVE  /\ IsFiniteSet(CreditedCents(i)')
         /\ Credited(i)' = Credited(i) - note[n].amount
         /\ LiveNotes(i)' \subseteq LiveNotes(i)
<1>1. note \in [Notes -> NoteRecord]
  BY DEF TablesOK
<1>2. /\ LiveNotes(i)' = LiveNotes(i) \ {n}
      /\ n \in LiveNotes(i)
  BY <1>1 DEF LiveNotes
<1>3. \A m \in Notes : NoteCents(m)' = NoteCents(m)
  BY <1>1 DEF NoteCents, NoteRecord
<1>4. CreditedCents(i)' \cap NoteCents(n) = {}
  <2> SUFFICES ASSUME NEW x, x \in CreditedCents(i)', x \in NoteCents(n)
               PROVE  FALSE
    OBVIOUS
  <2>1. PICK m \in LiveNotes(i)' : x \in NoteCents(m)'
    BY DEF CreditedCents
  <2>2. x[1] = m /\ x[1] = n
    BY <2>1 DEF NoteCents
  <2> QED BY <1>2, <2>1, <2>2
<1>5. CreditedCents(i) = CreditedCents(i)' \cup NoteCents(n)
  <2>1. LiveNotes(i) \subseteq Notes
    BY DEF LiveNotes
  <2> QED BY <1>2, <1>3, <2>1 DEF CreditedCents
<1>6. /\ IsFiniteSet(NoteCents(n)) /\ Cardinality(NoteCents(n)) = note[n].amount
      /\ note[n].amount \in Nat
  BY <1>1, NoteCentsCount DEF NoteRecord
<1>7. IsFiniteSet(CreditedCents(i)')
  <2>1. IsFiniteSet(CreditedCents(i))
    BY DEF CentsInv
  <2>2. CreditedCents(i)' \in SUBSET CreditedCents(i)
    BY <1>5
  <2> QED BY <2>1, <2>2, FS_Subset
<1>8. Cardinality(CreditedCents(i))
        = Cardinality(CreditedCents(i)') + Cardinality(NoteCents(n))
  BY <1>4, <1>5, <1>6, <1>7, DisjointUnion
<1>9. Cardinality(CreditedCents(i)') \in Nat
  BY <1>7, FS_CardinalityType
<1> QED BY <1>2, <1>6, <1>7, <1>8, <1>9 DEF Credited
-----------------------------------------------------------------------------
(* What the invariant says of the tables. *)

LEMMA TablesInvIsSound ==
  ASSUME TablesInv
  PROVE  /\ TablesOK
         /\ ReceivableIsWhatIsOwed
         /\ OnlyStandingInvoicesAreInTheBooks
         /\ VoidSettlesNothing
         /\ CreditedWithinTotal
         /\ PaidWithinTotal
         /\ CreditNeverOverspent
         /\ StatusTellsTheBalance
<1> USE DEF TablesInv, InvoiceInv
<1>1. ReceivableIsWhatIsOwed
  BY DEF ReceivableIsWhatIsOwed, StandingInv
<1>2. OnlyStandingInvoicesAreInTheBooks
  BY DEF OnlyStandingInvoicesAreInTheBooks, UnissuedInv, VoidInv
<1>3. VoidSettlesNothing
  BY DEF VoidSettlesNothing, VoidInv, CreditedInv, LiveNotes, Settling
<1>4. CreditedWithinTotal /\ PaidWithinTotal
  BY DEF CreditedWithinTotal, PaidWithinTotal
<1>5. StatusTellsTheBalance
  BY DEF StatusTellsTheBalance, StandingInv
<1> QED BY <1>1, <1>2, <1>3, <1>4, <1>5

(* At the start there is nothing. *)
LEMMA InitIsSound ==
  ASSUME Init
  PROVE  TablesInv
<1>1. TablesOK
  BY DEF Init, TablesOK, Statuses, NoNote, NoteRecord
<1>2. NotesInv
  BY DEF Init, NotesInv, NoNote
<1>3. \A i \in Invoices : LiveNotes(i) = {}
  BY DEF Init, LiveNotes, NoNote
<1>4. \A i \in Invoices : CreditedCents(i) = {}
  BY <1>3 DEF CreditedCents
<1>5. CentsInv /\ \A i \in Invoices : Credited(i) = 0
  BY <1>4, FS_EmptySet DEF CentsInv, Credited
<1>6. CreditNeverOverspent
  BY DEF Init, CreditNeverOverspent
<1>7. ASSUME NEW i \in Invoices PROVE InvoiceInv(i)
  <2>1. status[i] = "none"
    BY DEF Init
  <2>2. CreditedInv(i)
    BY InvoicesAssumption DEF Init, CreditedInv, NoNote
  <2>3. UnissuedInv(i) /\ StandingInv(i) /\ VoidInv(i)
    BY <2>1 DEF Init, UnissuedInv, StandingInv, VoidInv, Settling
  <2> QED BY <1>5, <2>2, <2>3 DEF Init, InvoiceInv
<1> QED BY <1>1, <1>2, <1>5, <1>6, <1>7 DEF TablesInv

-----------------------------------------------------------------------------
(* A transaction that touches one invoice. *)

(* The columns of an invoice other than those nothing here reads. *)
Columns(i) ==
  <<status[i], total[i], taken[i], fee[i], paid[i], everPaid[i],
    receivable[i], issued[i], charged[i]>>

(* What is said of an invoice is said by its own columns and notes. *)
LEMMA FrameOne ==
  ASSUME NEW i \in Invoices, InvoiceInv(i),
         Columns(i)' = Columns(i),
         \A n \in Notes : note[n].of = i \/ note'[n].of = i => note'[n] = note[n]
  PROVE  InvoiceInv(i)'
<1>1. /\ status'[i] = status[i] /\ total'[i] = total[i]
      /\ taken'[i] = taken[i] /\ fee'[i] = fee[i] /\ paid'[i] = paid[i]
      /\ everPaid'[i] = everPaid[i] /\ receivable'[i] = receivable[i]
      /\ issued'[i] = issued[i] /\ charged'[i] = charged[i]
  BY DEF Columns
<1>2. Credited(i)' = Credited(i)
  BY CreditedUnchanged
<1>3. NoCentLeftOver(i)' <=> NoCentLeftOver(i)
  BY DEF NoCentLeftOver
<1>4. CreditedInv(i)'
  BY <1>1 DEF CreditedInv, InvoiceInv
<1>5. UnissuedInv(i)'
  BY <1>1 DEF UnissuedInv, InvoiceInv
<1>6. Figures(i)' = Figures(i)
  BY <1>1, <1>2 DEF Figures
<1>7. StandingInv(i)'
  BY <1>1, <1>2, <1>3, <1>6 DEF StandingInv, InvoiceInv, Settled
<1>8. VoidInv(i)'
  BY <1>1, <1>3 DEF VoidInv, InvoiceInv
<1> QED BY <1>1, <1>2, <1>4, <1>5, <1>7, <1>8 DEF InvoiceInv

LEMMA Frame ==
  ASSUME TablesInv, NEW i \in Invoices,
         TablesOK', NotesInv', CreditNeverOverspent',
         IsFiniteSet(CreditedCents(i)'),
         InvoiceInv(i)',
         \A j \in Invoices \ {i} : Columns(j)' = Columns(j),
         \A j \in Invoices \ {i}, n \in Notes :
           note[n].of = j \/ note'[n].of = j => note'[n] = note[n]
  PROVE  TablesInv'
<1>1. ASSUME NEW j \in Invoices \ {i}
      PROVE  InvoiceInv(j)' /\ IsFiniteSet(CreditedCents(j)')
  <2>1. \A n \in Notes : note[n].of = j \/ note'[n].of = j => note'[n] = note[n]
    OBVIOUS
  <2>2. InvoiceInv(j) /\ IsFiniteSet(CreditedCents(j))
    BY DEF TablesInv, CentsInv
  <2>3. CreditedCents(j)' = CreditedCents(j)
    BY <2>1, CreditedUnchanged
  <2> QED BY <2>1, <2>2, <2>3, FrameOne
<1>2. CentsInv'
  BY <1>1 DEF CentsInv
<1> QED BY <1>1, <1>2 DEF TablesInv
-----------------------------------------------------------------------------
(* The transactions, each on the figures as they stand. *)

(* Figures are numbers, and a receipt has a rate. *)
LEMMA FiguresType ==
  ASSUME TablesInv, NEW i \in Invoices
  PROVE  /\ Credited(i) \in Nat /\ Rate[i] \in Nat
         /\ Figures(i).total = total[i] /\ Figures(i).taken = taken[i]
         /\ Figures(i).paid = paid[i] /\ Figures(i).credited = Credited(i)
         /\ Settled(Figures(i)) = paid[i] + Credited(i) + taken[i]
         /\ Settled(Figures(i)) \in Nat
         /\ Owed(Figures(i)) = AtLeastZero(total[i] - Settled(Figures(i)))
         /\ {total[i], taken[i], fee[i], paid[i], charged[i]} \subseteq Nat
         /\ {receivable[i], issued[i]} \subseteq Int
<1>1. Credited(i) \in Nat
  BY CreditedType DEF TablesInv
<1>2. {total[i], taken[i], fee[i], paid[i], charged[i]} \subseteq Nat
  BY DEF TablesInv, TablesOK
<1>3. {receivable[i], issued[i]} \subseteq Int
  BY DEF TablesInv, TablesOK
<1> QED BY <1>1, <1>2, <1>3, RatesAssumption DEF Figures, Settled, Owed

(* Nothing of the notes moves when the notes do not. *)
LEMMA NotesUnmoved ==
  ASSUME TablesInv, note' = note
  PROVE  /\ NotesInv'
         /\ \A i \in Invoices :
              /\ Credited(i)' = Credited(i)
              /\ LiveNotes(i)' = LiveNotes(i)
              /\ IsFiniteSet(CreditedCents(i)')
              /\ NoCentLeftOver(i)' <=> NoCentLeftOver(i)
<1>1. NotesInv'
  BY DEF TablesInv, NotesInv
<1>2. ASSUME NEW i \in Invoices
      PROVE  /\ Credited(i)' = Credited(i)
             /\ LiveNotes(i)' = LiveNotes(i)
             /\ IsFiniteSet(CreditedCents(i)')
             /\ NoCentLeftOver(i)' <=> NoCentLeftOver(i)
  <2>1. NoCentLeftOver(i)' <=> NoCentLeftOver(i)
    BY DEF NoCentLeftOver
  <2>2. IsFiniteSet(CreditedCents(i))
    BY DEF TablesInv, CentsInv
  <2> QED BY <2>1, <2>2, CreditedUnchanged
<1> QED BY <1>1, <1>2

(* A void invoice that is credited stays one. *)
LEMMA CreditedInvUnmoved ==
  ASSUME NEW i \in Invoices, CreditedInv(i), note' = note,
         status[i] \notin {"none", "draft"} => status'[i] \notin {"none", "draft"},
         status[i] \in Settling => status'[i] \in Settling
  PROVE  CreditedInv(i)'
BY DEF CreditedInv

LEMMA PayKeeps ==
  ASSUME TablesInv, NEW i \in Invoices, status[i] \in Settling,
         NEW amount \in Nat, NEW discounted \in BOOLEAN, NEW rate \in Nat,
         Pay(i, Figures(i), amount, discounted, rate)
  PROVE  TablesInv'
<1> DEFINE saving   == EarlySaving(EarlyDiscount[i], total[i])
           forgiven == IF discounted THEN saving ELSE taken[i]
           owed     == AtLeastZero(total[i] - forgiven - paid[i] - Credited(i))
           applied  == Lesser(amount, owed)
           over     == ToBaseCents(amount, rate) - ToBaseCents(applied, rate)
           before   == paid[i] + Credited(i) + taken[i]
           cleared  == ClearedInBase(Rate[i], before, applied)
           saved    == IF discounted
                       THEN ClearedInBase(Rate[i], before + applied, saving)
                       ELSE 0
<1>1. /\ Credited(i) \in Nat /\ Rate[i] \in Nat
      /\ total[i] \in Nat /\ taken[i] \in Nat /\ paid[i] \in Nat
      /\ receivable[i] \in Int
  BY FiguresType
<1>2. /\ discounted => taken[i] = 0
      /\ amount > owed => CustomerOf[i] # NoCustomer
      /\ InsertPayment(i, applied)
      /\ taken' = [taken EXCEPT ![i] = forgiven]
      /\ status' = [status EXCEPT ![i] =
                      InvoiceStatus(total[i] - forgiven, paid[i] + applied,
                                    Credited(i))]
      /\ receivable' = [receivable EXCEPT ![i] = @ - cleared - saved]
      /\ RecordCreditMovement(i, over)
      /\ liability' = liability + over
      /\ UNCHANGED <<total, billed, fee, filed, mergedFrom, note, issued, charged>>
  BY FiguresType DEF Pay
<1>3. saving \in Nat
  BY <1>1, AmountsAssumption DEF EarlySaving, AtLeastZero, Lesser
<1>4. forgiven \in Nat
  BY <1>1, <1>3
<1>5. /\ owed \in Nat /\ applied \in Nat /\ applied <= amount /\ applied <= owed
      /\ applied # amount => applied = owed /\ amount > owed
      /\ owed > 0 => owed = total[i] - forgiven - paid[i] - Credited(i)
  <2>1. owed \in Nat
        /\ (owed > 0 => owed = total[i] - forgiven - paid[i] - Credited(i))
    BY <1>1, <1>4 DEF AtLeastZero
  <2>2. /\ applied \in Nat /\ applied <= amount /\ applied <= owed
        /\ applied # amount => applied = owed /\ amount > owed
    <3> HIDE DEF owed
    <3> QED BY <2>1 DEF Lesser
  <2> QED BY <2>1, <2>2
<1>6. over \in Nat /\ (amount <= owed => over = 0)
  <2>1. /\ ToBaseCents(amount, rate) \in Int
        /\ ToBaseCents(applied, rate) \in Int
        /\ ToBaseCents(applied, rate) <= ToBaseCents(amount, rate)
    <3> HIDE DEF applied, owed
    <3>1. applied \in Int /\ amount \in Int /\ applied <= amount
      BY <1>5
    <3>2. ToBaseCents(applied, rate) <= ToBaseCents(amount, rate)
      BY <3>1, ToBaseCentsMonotone
    <3> QED BY <3>1, <3>2, ToBaseCentsType
  <2> HIDE DEF applied, owed
  <2> QED BY <1>5, <2>1
<1>6a. /\ before \in Int /\ before + applied \in Int
       /\ before + applied + saving \in Int
       /\ before + applied + (forgiven - taken[i]) \in Int
  BY <1>1, <1>3, <1>4, <1>5
<1>7. cleared + saved = ToBaseCents(before + applied + (forgiven - taken[i]), Rate[i])
                          - ToBaseCents(before, Rate[i])
      /\ cleared \in Int /\ saved \in Int
  <2>1. /\ ToBaseCents(before, Rate[i]) \in Int
        /\ ToBaseCents(before + applied, Rate[i]) \in Int
        /\ ToBaseCents(before + applied + saving, Rate[i]) \in Int
    <3> HIDE DEF saving, applied, before
    <3> QED BY <1>1, <1>6a, ToBaseCentsType
  <2>2. CASE discounted
    <3>1. forgiven - taken[i] = saving
      BY <1>2, <1>3, <2>2
    <3> HIDE DEF saving, forgiven, applied, before
    <3> QED BY <2>1, <2>2, <3>1 DEF ClearedInBase
  <2>3. CASE ~discounted
    <3>1. before + applied + (forgiven - taken[i]) = before + applied
      BY <1>1, <1>5, <2>3
    <3> HIDE DEF forgiven, applied, before
    <3> QED BY <2>1, <2>3, <3>1 DEF ClearedInBase
  <2> QED BY <2>2, <2>3
<1> HIDE DEF saving, forgiven, owed, applied, over, before, cleared, saved
<1>8. /\ status'[i] = InvoiceStatus(total'[i] - taken'[i], paid'[i], Credited(i))
      /\ total'[i] = total[i] /\ fee'[i] = fee[i]
      /\ taken'[i] = forgiven /\ paid'[i] = paid[i] + applied /\ everPaid'[i]
      /\ receivable'[i] = receivable[i] - cleared - saved
      /\ issued'[i] = issued[i] /\ charged'[i] = charged[i]
      /\ \A j \in Invoices \ {i} : Columns(j)' = Columns(j)
  BY <1>2 DEF TablesInv, TablesOK, InsertPayment, Columns
<1>9. status'[i] \in Settling
  BY <1>8, InvoiceStatusType DEF Settling
<1>10. CreditNeverOverspent' /\ credit' \in [Customers -> Int]
  <2>1. CASE over = 0
    BY <1>2, <2>1 DEF RecordCreditMovement, TablesInv, TablesOK, CreditNeverOverspent
  <2>2. CASE over # 0
    <3>1. CustomerOf[i] \in Customers
      BY <1>2, <1>5, <1>6, <2>2, CustomersAssumption
    <3> QED BY <1>2, <1>6, <2>2, <3>1
            DEF RecordCreditMovement, TablesInv, TablesOK, CreditNeverOverspent
  <2> QED BY <2>1, <2>2
<1>11. TablesOK'
  BY <1>1, <1>2, <1>4, <1>5, <1>6, <1>7, <1>8, <1>9, <1>10
     DEF TablesInv, TablesOK, InsertPayment, Statuses
<1>12. /\ NotesInv' /\ Credited(i)' = Credited(i)
       /\ IsFiniteSet(CreditedCents(i)')
       /\ NoCentLeftOver(i)' <=> NoCentLeftOver(i)
  BY <1>2, NotesUnmoved
<1>13. CreditedInv(i)'
  BY <1>2, <1>9, CreditedInvUnmoved DEF TablesInv, InvoiceInv, Settling
<1>14. StandingInv(i)'
  <2>1. Settled(Figures(i))' = before + applied + (forgiven - taken[i])
    BY <1>1, <1>4, <1>5, <1>8, <1>12 DEF Figures, Settled, before
  <2>2. StandingInv(i) /\ Settled(Figures(i)) = before
    BY FiguresType DEF TablesInv, InvoiceInv, before
  <2>3. /\ ToBaseCents(before, Rate[i]) \in Int
        /\ ToBaseCents(before + applied + (forgiven - taken[i]), Rate[i]) \in Int
    BY <1>1, <1>6a, ToBaseCentsType
  <2>4. issued[i] \in Int /\ charged[i] \in Int
    BY FiguresType
  <2>5. NoCentLeftOver(i) =>
          receivable'[i] = issued[i] + charged[i]
            - ToBaseCents(before + applied + (forgiven - taken[i]), Rate[i])
    BY <1>1, <1>7, <1>8, <2>2, <2>3, <2>4 DEF StandingInv
  <2> QED BY <1>8, <1>12, <2>1, <2>2, <2>5 DEF StandingInv
<1>15. UnissuedInv(i)' /\ VoidInv(i)'
  BY <1>9 DEF UnissuedInv, VoidInv, Settling
<1>16. paid'[i] <= total'[i]
  <2>1. paid[i] <= total[i] /\ Credited(i) \in Nat
    BY <1>1 DEF TablesInv, InvoiceInv
  <2>2. applied <= owed
    BY <1>5
  <2>3. owed > 0 => owed = total[i] - forgiven - paid[i] - Credited(i)
    BY <1>5
  <2> QED BY <1>1, <1>4, <1>5, <1>8, <2>1, <2>2, <2>3
<1>17. InvoiceInv(i)'
  BY <1>8, <1>12, <1>13, <1>14, <1>15, <1>16 DEF InvoiceInv, TablesInv
<1> QED BY <1>2, <1>8, <1>10, <1>11, <1>12, <1>17, Frame

LEMMA ApplyCreditKeeps ==
  ASSUME TablesInv, NEW i \in Invoices, status[i] \in Settling,
         ApplyCredit(i, Figures(i), credit[CustomerOf[i]])
  PROVE  TablesInv'
<1> DEFINE held    == credit[CustomerOf[i]]
           before  == paid[i] + Credited(i) + taken[i]
           applied == Lesser(held, AtLeastZero(total[i] - before))
<1>1. /\ Credited(i) \in Nat /\ Rate[i] = RATE_SCALE
      /\ total[i] \in Nat /\ taken[i] \in Nat /\ paid[i] \in Nat
      /\ receivable[i] \in Int /\ before \in Nat
  BY FiguresType, RatesAssumption DEF ApplyCredit
<1>2. CustomerOf[i] \in Customers /\ held \in Int
  BY CustomersAssumption DEF ApplyCredit, TablesInv, TablesOK
<1>3. /\ applied > 0
      /\ InsertPayment(i, applied)
      /\ status' = [status EXCEPT ![i] =
                      InvoiceStatus(total[i] - taken[i], paid[i] + applied,
                                    Credited(i))]
      /\ receivable' = [receivable EXCEPT ![i] = @ - applied]
      /\ RecordCreditMovement(i, -applied)
      /\ liability' = liability - applied
      /\ UNCHANGED <<total, billed, taken, fee, filed, mergedFrom, note, issued,
                     charged>>
  BY FiguresType DEF ApplyCredit
<1>4. /\ applied \in Nat /\ applied <= held
      /\ applied <= total[i] - before
  <2> HIDE DEF before, held
  <2> QED BY <1>1, <1>2, <1>3 DEF AtLeastZero, Lesser
<1> HIDE DEF held, applied
<1>5. /\ status'[i] = InvoiceStatus(total'[i] - taken'[i], paid'[i], Credited(i))
      /\ total'[i] = total[i] /\ fee'[i] = fee[i]
      /\ taken'[i] = taken[i] /\ paid'[i] = paid[i] + applied /\ everPaid'[i]
      /\ receivable'[i] = receivable[i] - applied
      /\ issued'[i] = issued[i] /\ charged'[i] = charged[i]
      /\ \A j \in Invoices \ {i} : Columns(j)' = Columns(j)
  BY <1>3 DEF TablesInv, TablesOK, InsertPayment, Columns
<1>6. status'[i] \in Settling
  BY <1>5, InvoiceStatusType DEF Settling
<1>7. CreditNeverOverspent' /\ credit' \in [Customers -> Int]
  <2>1. credit' = [credit EXCEPT ![CustomerOf[i]] = @ + (-applied)]
    BY <1>3, <1>4 DEF RecordCreditMovement
  <2>2. credit' \in [Customers -> Int]
    BY <1>2, <1>4, <2>1 DEF TablesInv, TablesOK
  <2>3. credit'[CustomerOf[i]] >= 0
    BY <1>2, <1>4, <2>1 DEF TablesInv, TablesOK, held
  <2>4. \A c \in Customers : credit'[c] = credit[c] \/ c = CustomerOf[i]
    BY <2>1 DEF TablesInv, TablesOK
  <2> QED BY <2>2, <2>3, <2>4 DEF CreditNeverOverspent, TablesInv
<1>8. TablesOK'
  BY <1>1, <1>3, <1>4, <1>5, <1>6, <1>7
     DEF TablesInv, TablesOK, InsertPayment, Statuses
<1>9. /\ NotesInv' /\ Credited(i)' = Credited(i)
      /\ IsFiniteSet(CreditedCents(i)')
      /\ NoCentLeftOver(i)' <=> NoCentLeftOver(i)
  BY <1>3, NotesUnmoved
<1>10. CreditedInv(i)'
  BY <1>3, <1>6, CreditedInvUnmoved DEF TablesInv, InvoiceInv, Settling
<1>11. StandingInv(i)'
  <2>1. Settled(Figures(i))' = before + applied
    BY <1>1, <1>4, <1>5, <1>9 DEF Figures, Settled
  <2>2. StandingInv(i) /\ Settled(Figures(i)) = before
    BY FiguresType DEF TablesInv, InvoiceInv
  <2>3. /\ ToBaseCents(before, Rate[i]) = before
        /\ ToBaseCents(before + applied, Rate[i]) = before + applied
    <3> HIDE DEF before
    <3>1. before \in Int /\ before + applied \in Int
      BY <1>1, <1>4
    <3> QED BY <1>1, <3>1, ToBaseCentsAtPar
  <2>4. issued[i] \in Int /\ charged[i] \in Int
    BY FiguresType
  <2>5. NoCentLeftOver(i) =>
          receivable'[i] = issued[i] + charged[i] - (before + applied)
    <3> HIDE DEF before
    <3> QED BY <1>1, <1>4, <1>5, <2>2, <2>3, <2>4 DEF StandingInv
  <2> QED BY <1>5, <1>9, <2>1, <2>2, <2>3, <2>5 DEF StandingInv
<1>12. UnissuedInv(i)' /\ VoidInv(i)'
  BY <1>6 DEF UnissuedInv, VoidInv, Settling
<1>13. paid'[i] <= total'[i]
  BY <1>1, <1>4, <1>5
<1>14. InvoiceInv(i)'
  BY <1>5, <1>9, <1>10, <1>11, <1>12, <1>13 DEF InvoiceInv, TablesInv
<1> QED BY <1>3, <1>5, <1>7, <1>8, <1>9, <1>14, Frame

LEMMA RaiseCreditNoteKeeps ==
  ASSUME TablesInv, NEW i \in Invoices, NEW n \in Notes, status[i] \in Settling,
         NEW amount \in Nat, RaiseCreditNote(i, n, Figures(i), amount)
  PROVE  TablesInv'
<1> DEFINE before  == paid[i] + Credited(i) + taken[i]
           cleared == ClearedInBase(Rate[i], before, amount)
<1>1. /\ Credited(i) \in Nat /\ Rate[i] \in Nat
      /\ total[i] \in Nat /\ taken[i] \in Nat /\ paid[i] \in Nat
      /\ receivable[i] \in Int /\ before \in Nat
  BY FiguresType
<1>2. /\ amount > 0 /\ Credited(i) + amount <= total[i]
      /\ note[n] = NoNote
      /\ note' = [note EXCEPT ![n] = [status |-> "open", of |-> i,
                                      amount |-> amount, cleared |-> cleared]]
      /\ receivable' = [receivable EXCEPT ![i] = @ - cleared]
      /\ status' = [status EXCEPT ![i] =
                      InvoiceStatus(total[i] - taken[i], paid[i],
                                    Credited(i) + amount)]
      /\ UNCHANGED <<total, billed, taken, fee, filed, mergedFrom, paid, everPaid,
                     customerVars, issued, charged>>
  BY FiguresType DEF RaiseCreditNote
<1>3. /\ ToBaseCents(before, Rate[i]) \in Int
      /\ ToBaseCents(before + amount, Rate[i]) \in Int
      /\ cleared = ToBaseCents(before + amount, Rate[i]) - ToBaseCents(before, Rate[i])
      /\ cleared \in Int
      /\ Rate[i] = RATE_SCALE => cleared = amount
  <2> HIDE DEF before
  <2>1. before \in Int /\ before + amount \in Int
    BY <1>1
  <2>2. /\ ToBaseCents(before, Rate[i]) \in Int
        /\ ToBaseCents(before + amount, Rate[i]) \in Int
    BY <1>1, <2>1, ToBaseCentsType
  <2>3. Rate[i] = RATE_SCALE => /\ ToBaseCents(before, Rate[i]) = before
                                /\ ToBaseCents(before + amount, Rate[i]) = before + amount
    BY <2>1, ToBaseCentsAtPar
  <2> QED BY <1>1, <2>1, <2>2, <2>3 DEF ClearedInBase
<1> HIDE DEF cleared
<1>4. note \in [Notes -> NoteRecord] /\ note[n].status = "none"
  BY <1>2 DEF TablesInv, TablesOK, NoNote
<1>5. /\ \A m \in Notes : m # n => note'[m] = note[m]
      /\ note'[n] = [status |-> "open", of |-> i, amount |-> amount,
                     cleared |-> cleared]
      /\ note' \in [Notes -> NoteRecord]
  BY <1>2, <1>3, <1>4 DEF NoteRecord
<1>6. /\ IsFiniteSet(CreditedCents(i)')
      /\ Credited(i)' = Credited(i) + amount
  BY <1>2, <1>4, CreditedRaised DEF TablesInv
<1>7. NotesInv'
  BY <1>2, <1>5 DEF NotesInv, TablesInv
<1>8. NoCentLeftOver(i)' => NoCentLeftOver(i)
  BY <1>4, <1>5 DEF NoCentLeftOver
<1>9. /\ status'[i] = InvoiceStatus(total'[i] - taken'[i], paid'[i], Credited(i)')
      /\ total'[i] = total[i] /\ fee'[i] = fee[i]
      /\ taken'[i] = taken[i] /\ paid'[i] = paid[i] /\ everPaid'[i] = everPaid[i]
      /\ receivable'[i] = receivable[i] - cleared
      /\ issued'[i] = issued[i] /\ charged'[i] = charged[i]
      /\ \A j \in Invoices \ {i} : Columns(j)' = Columns(j)
  BY <1>2, <1>6 DEF TablesInv, TablesOK, Columns
<1>10. status'[i] \in Settling
  BY <1>9, InvoiceStatusType DEF Settling
<1>11. TablesOK'
  BY <1>1, <1>2, <1>3, <1>5, <1>9, <1>10
     DEF TablesInv, TablesOK, Statuses, customerVars
<1>12. CreditedInv(i)'
  BY <1>3, <1>5, <1>10 DEF TablesInv, InvoiceInv, CreditedInv, Settling
<1>13. StandingInv(i)'
  <2>1. Settled(Figures(i))' = before + amount
    BY <1>1, <1>6, <1>9 DEF Figures, Settled
  <2>2. StandingInv(i) /\ Settled(Figures(i)) = before
    BY FiguresType DEF TablesInv, InvoiceInv
  <2>3. issued[i] \in Int /\ charged[i] \in Int
    BY FiguresType
  <2>4. NoCentLeftOver(i) =>
          receivable'[i] = issued[i] + charged[i]
                             - ToBaseCents(before + amount, Rate[i])
    <3> HIDE DEF before
    <3> QED BY <1>1, <1>3, <1>9, <2>2, <2>3 DEF StandingInv
  <2> QED BY <1>8, <1>9, <2>1, <2>2, <2>4 DEF StandingInv
<1>14. UnissuedInv(i)' /\ VoidInv(i)'
  BY <1>10 DEF UnissuedInv, VoidInv, Settling
<1>15. InvoiceInv(i)'
  BY <1>1, <1>2, <1>6, <1>9, <1>12, <1>13, <1>14 DEF InvoiceInv, TablesInv
<1>16. CreditNeverOverspent'
  BY <1>2 DEF CreditNeverOverspent, TablesInv, customerVars
<1>17. \A j \in Invoices \ {i}, m \in Notes :
         note[m].of = j \/ note'[m].of = j => note'[m] = note[m]
  BY <1>2, <1>5, InvoicesAssumption DEF NoNote
<1> QED BY <1>6, <1>7, <1>9, <1>11, <1>15, <1>16, <1>17, Frame

LEMMA VoidNoteKeeps ==
  ASSUME TablesInv, NEW n \in Notes, VoidNote(n)
  PROVE  /\ TablesInv'
         /\ note[n].of \in Invoices /\ status[note[n].of] \in Settling
<1>0. PICK i \in Invoices : i = note[n].of
  BY DEF VoidNote, TablesInv, NotesInv
<1>1. /\ note \in [Notes -> NoteRecord]
      /\ note[n].status = "open" /\ note[n].of = i
      /\ note[n].amount \in Nat /\ note[n].cleared \in Int
  BY <1>0 DEF VoidNote, TablesInv, TablesOK, NotesInv, NoteRecord
<1>2. /\ status[i] \in Settling
      /\ Rate[i] = RATE_SCALE => note[n].cleared = note[n].amount
  BY <1>1 DEF TablesInv, InvoiceInv, CreditedInv
<1>3. /\ note' = [note EXCEPT ![n].status = "void"]
      /\ receivable' = [receivable EXCEPT ![i] = @ + note[n].cleared]
      /\ UNCHANGED <<total, billed, taken, fee, filed, mergedFrom, paid, everPaid,
                     customerVars, issued, charged>>
  BY <1>1 DEF VoidNote
<1>4. /\ \A m \in Notes : m # n => note'[m] = note[m]
      /\ note'[n] = [note[n] EXCEPT !.status = "void"]
  BY <1>1, <1>3
<1>5. /\ note'[n].status = "void" /\ note'[n].of = i
      /\ note'[n].amount = note[n].amount /\ note'[n].cleared = note[n].cleared
      /\ note'[n] \in NoteRecord
  BY <1>1, <1>4 DEF NoteRecord
<1>6. note' \in [Notes -> NoteRecord]
  BY <1>1, <1>3, <1>4, <1>5
<1>7. status' = [status EXCEPT ![i] = InvoiceStatus(total[i] - taken[i], paid[i],
                                                    Credited(i)')]
  BY <1>1, <1>5 DEF VoidNote
<1>8. /\ IsFiniteSet(CreditedCents(i)')
      /\ Credited(i)' = Credited(i) - note[n].amount
  BY <1>1, <1>3, CreditedVoided DEF TablesInv
<1>9. /\ Credited(i) \in Nat /\ Rate[i] \in Nat
      /\ total[i] \in Nat /\ taken[i] \in Nat /\ paid[i] \in Nat
      /\ receivable[i] \in Int
  BY <1>1, FiguresType
<1>10. NotesInv'
  BY <1>1, <1>4, <1>5 DEF NotesInv, TablesInv
<1>11. NoCentLeftOver(i)' => Rate[i] = RATE_SCALE
  BY <1>5 DEF NoCentLeftOver
<1>12. /\ status'[i] = InvoiceStatus(total'[i] - taken'[i], paid'[i], Credited(i)')
      /\ total'[i] = total[i] /\ fee'[i] = fee[i]
      /\ taken'[i] = taken[i] /\ paid'[i] = paid[i] /\ everPaid'[i] = everPaid[i]
      /\ receivable'[i] = receivable[i] + note[n].cleared
      /\ issued'[i] = issued[i] /\ charged'[i] = charged[i]
      /\ \A j \in Invoices \ {i} : Columns(j)' = Columns(j)
  BY <1>1, <1>3, <1>7 DEF TablesInv, TablesOK, Columns
<1>13. status'[i] \in Settling
  BY <1>12, InvoiceStatusType DEF Settling
<1>14. TablesOK'
  BY <1>1, <1>3, <1>6, <1>7, <1>9, <1>12, <1>13
     DEF TablesInv, TablesOK, Statuses, customerVars
<1>15. CreditedInv(i)'
  <2>1. CreditedInv(i)
    BY DEF TablesInv, InvoiceInv
  <2> QED BY <1>4, <1>5, <1>13, <2>1 DEF CreditedInv, Settling
<1>16. StandingInv(i)'
  <2> DEFINE before == paid[i] + Credited(i) + taken[i]
  <2>1. Settled(Figures(i))' = before - note[n].amount
    BY <1>1, <1>8, <1>9, <1>12 DEF Figures, Settled
  <2>2. StandingInv(i) /\ Settled(Figures(i)) = before
    BY <1>1, FiguresType DEF TablesInv, InvoiceInv
  <2>3. Rate[i] = RATE_SCALE =>
          /\ NoCentLeftOver(i)
          /\ ToBaseCents(before, Rate[i]) = before
          /\ ToBaseCents(before - note[n].amount, Rate[i]) = before - note[n].amount
    <3>1. before \in Int /\ before - note[n].amount \in Int
      BY <1>1, <1>9
    <3> HIDE DEF before
    <3> QED BY <3>1, ToBaseCentsAtPar DEF NoCentLeftOver
  <2>4. issued[i] \in Int /\ charged[i] \in Int /\ before \in Int
    BY <1>1, <1>9, FiguresType
  <2>5. Rate[i] = RATE_SCALE =>
          receivable'[i] = issued[i] + charged[i] - (before - note[n].amount)
    <3> HIDE DEF before
    <3> QED BY <1>1, <1>2, <1>9, <1>12, <2>2, <2>3, <2>4 DEF StandingInv
  <2> QED BY <1>2, <1>11, <1>12, <2>1, <2>2, <2>3, <2>5 DEF StandingInv
<1>17. UnissuedInv(i)' /\ VoidInv(i)'
  BY <1>13 DEF UnissuedInv, VoidInv, Settling
<1>18. InvoiceInv(i)'
  BY <1>1, <1>8, <1>9, <1>12, <1>15, <1>16, <1>17 DEF InvoiceInv, TablesInv
<1>19. CreditNeverOverspent'
  BY <1>3 DEF CreditNeverOverspent, TablesInv, customerVars
<1>20. \A j \in Invoices \ {i}, m \in Notes :
         note[m].of = j \/ note'[m].of = j => note'[m] = note[m]
  BY <1>1, <1>4, <1>5
<1>21. TablesInv'
  BY <1>1, <1>8, <1>10, <1>12, <1>14, <1>18, <1>19, <1>20, Frame
<1> QED BY <1>1, <1>2, <1>21

LEMMA VoidKeeps ==
  ASSUME TablesInv, NEW i \in Invoices, status[i] \notin {"none", "void"},
         paid[i] = 0, taken[i] = 0, Credited(i) = 0, Void(i)
  PROVE  TablesInv'
<1>1. /\ status' = [status EXCEPT ![i] = "void"]
      /\ UNCHANGED <<total, billed, taken, fee, filed, mergedFrom, paid, everPaid,
                     note, customerVars>>
  BY DEF Void
<1>2. /\ status[i] = "draft" => UNCHANGED ledgerVars
      /\ status[i] # "draft" =>
           /\ receivable' = [receivable EXCEPT ![i] = @ - issued[i] - charged[i]]
           /\ issued' = [issued EXCEPT ![i] = 0]
           /\ charged' = [charged EXCEPT ![i] = 0]
  BY DEF Void
<1>3. /\ status'[i] = "void" /\ total'[i] = total[i] /\ fee'[i] = fee[i]
      /\ taken'[i] = 0 /\ paid'[i] = 0 /\ everPaid'[i] = everPaid[i]
      /\ \A j \in Invoices \ {i} : Columns(j)' = Columns(j)
  BY <1>1, <1>2 DEF TablesInv, TablesOK, Columns, ledgerVars
<1>4. TablesOK'
  <2>1. {receivable[i], issued[i], charged[i]} \subseteq Int
    BY FiguresType
  <2>2. /\ receivable' \in [Invoices -> Int] /\ issued' \in [Invoices -> Int]
        /\ charged' \in [Invoices -> Nat]
    BY <1>2, <2>1 DEF TablesInv, TablesOK, ledgerVars
  <2> QED BY <1>1, <2>2 DEF TablesInv, TablesOK, Statuses, customerVars
<1>5. /\ NotesInv' /\ Credited(i)' = Credited(i)
      /\ IsFiniteSet(CreditedCents(i)')
      /\ NoCentLeftOver(i)' <=> NoCentLeftOver(i)
  BY <1>1, NotesUnmoved
<1>6. LiveNotes(i) = {}
  BY CreditedType DEF TablesInv
<1>7. CreditedInv(i)'
  BY <1>1, <1>3, <1>6 DEF CreditedInv, LiveNotes
<1>8. VoidInv(i)' /\ (fee'[i] = 0 => charged'[i] = 0)
  <2>1. CASE status[i] = "draft"
    BY <1>1, <1>2, <1>3, <2>1 DEF VoidInv, UnissuedInv, InvoiceInv, TablesInv, ledgerVars
  <2>2. CASE status[i] # "draft"
    <3>1. status[i] \in Settling
      BY <2>2 DEF TablesInv, TablesOK, Statuses
    <3>2. Settled(Figures(i)) = 0 /\ ToBaseCents(0, Rate[i]) = 0
      BY FiguresType, ToBaseCentsOfNothing
    <3>3. {receivable[i], issued[i], charged[i]} \subseteq Int
      BY FiguresType
    <3>4. NoCentLeftOver(i) => receivable[i] = issued[i] + charged[i]
      BY <3>1, <3>2, <3>3 DEF StandingInv, InvoiceInv, TablesInv
    <3>5. /\ charged'[i] = 0
          /\ receivable'[i] = receivable[i] - issued[i] - charged[i]
      BY <1>2, <2>2 DEF TablesInv, TablesOK
    <3> QED BY <1>3, <1>5, <3>3, <3>4, <3>5 DEF VoidInv
  <2> QED BY <2>1, <2>2
<1>9. UnissuedInv(i)' /\ StandingInv(i)'
  BY <1>3 DEF UnissuedInv, StandingInv, Settling
<1>10. InvoiceInv(i)'
  BY <1>3, <1>5, <1>7, <1>8, <1>9 DEF InvoiceInv, TablesInv, TablesOK
<1>11. CreditNeverOverspent'
  BY <1>1 DEF CreditNeverOverspent, TablesInv, customerVars
<1> QED BY <1>1, <1>3, <1>4, <1>5, <1>10, <1>11, Frame

(* An invoice nothing has settled starts to stand: a draft issued, or an
   invoice written "open". *)
LEMMA PostedKeeps ==
  ASSUME TablesInv, NEW i \in Invoices, status[i] \in {"none", "draft"},
         TablesOK', note' = note, credit' = credit,
         status'[i] = "open",
         UNCHANGED <<taken, fee, paid, everPaid, charged>>,
         total'[i] \in Nat,
         issued'[i] = ToBaseCents(total'[i], Rate[i]),
         receivable'[i] = receivable[i] + ToBaseCents(total'[i], Rate[i]),
         \A j \in Invoices \ {i} : Columns(j)' = Columns(j)
  PROVE  TablesInv'
<1>1. /\ paid[i] = 0 /\ taken[i] = 0 /\ fee[i] = 0
      /\ receivable[i] = 0 /\ issued[i] = 0 /\ charged[i] = 0
  BY DEF TablesInv, InvoiceInv, UnissuedInv
<1>2. \A n \in Notes : note[n].of # i
  BY DEF TablesInv, InvoiceInv, CreditedInv
<1>3. Credited(i) = 0
  BY <1>2, CreditedType DEF TablesInv, LiveNotes
<1>4. /\ NotesInv' /\ Credited(i)' = 0
      /\ IsFiniteSet(CreditedCents(i)')
      /\ NoCentLeftOver(i)' <=> NoCentLeftOver(i)
  BY <1>3, NotesUnmoved
<1>5. CreditedInv(i)'
  BY <1>2 DEF CreditedInv
<1>6. UnissuedInv(i)' /\ VoidInv(i)'
  BY DEF UnissuedInv, VoidInv
<1>7. StandingInv(i)'
  <2>1. /\ Settled(Figures(i))' = 0 /\ ToBaseCents(0, Rate[i]) = 0
    <3>1. paid'[i] = 0 /\ taken'[i] = 0
      BY <1>1
    <3>2. Settled(Figures(i))' = 0
      BY <1>4, <3>1 DEF Figures, Settled
    <3> QED BY <3>2, FiguresType, ToBaseCentsOfNothing
  <2>2. ToBaseCents(total'[i], Rate[i]) \in Int
    <3>1. total'[i] \in Int /\ Rate[i] \in Nat
      BY FiguresType
    <3> QED BY <3>1, ToBaseCentsType
  <2>3. issued'[i] = ToBaseCents(total'[i] - fee'[i], Rate[i])
    BY <1>1
  <2>4. total'[i] > 0 => InvoiceStatus(total'[i] - taken'[i], paid'[i], Credited(i)')
                          = "open"
    BY <1>1, <1>4 DEF InvoiceStatus
  <2> QED BY <1>1, <2>1, <2>2, <2>3, <2>4 DEF StandingInv
<1>8. InvoiceInv(i)'
  BY <1>1, <1>4, <1>5, <1>6, <1>7 DEF InvoiceInv
<1>9. CreditNeverOverspent'
  BY DEF CreditNeverOverspent, TablesInv
<1> QED BY <1>4, <1>8, <1>9, Frame

LEMMA IssueKeeps ==
  ASSUME TablesInv, NEW i \in Invoices, Issue(i)
  PROVE  TablesInv'
<1>1. /\ status[i] = "draft" /\ status' = [status EXCEPT ![i] = "open"]
      /\ PostInvoiceIssued(i, total[i])
      /\ UNCHANGED <<total, billed, taken, fee, filed, mergedFrom, paid, everPaid,
                     note, customerVars, charged>>
  BY DEF Issue
<1>2. ToBaseCents(total[i], Rate[i]) \in Int
  <2>1. total[i] \in Int /\ Rate[i] \in Nat
    BY FiguresType
  <2> QED BY <2>1, ToBaseCentsType
<1>3. TablesOK'
  BY <1>1, <1>2 DEF TablesInv, TablesOK, PostInvoiceIssued, Statuses, Settling,
                    customerVars
<1>4. /\ status'[i] = "open" /\ total'[i] = total[i]
      /\ issued'[i] = ToBaseCents(total'[i], Rate[i])
      /\ receivable'[i] = receivable[i] + ToBaseCents(total'[i], Rate[i])
      /\ \A j \in Invoices \ {i} : Columns(j)' = Columns(j)
  BY <1>1 DEF TablesInv, TablesOK, PostInvoiceIssued, Columns
<1> QED BY <1>1, <1>3, <1>4, PostedKeeps DEF customerVars, TablesOK

LEMMA CreateKeeps ==
  ASSUME TablesInv, NEW i \in Invoices, NEW cents \in Nat, Create(i, cents)
  PROVE  TablesInv'
<1>1. /\ status[i] = "none" /\ status' = [status EXCEPT ![i] = "open"]
      /\ total' = [total EXCEPT ![i] = cents]
      /\ billed' = [billed EXCEPT ![i] = cents]
      /\ mergedFrom' = [mergedFrom EXCEPT ![i] = {}]
      /\ PostInvoiceIssued(i, cents)
      /\ UNCHANGED <<taken, fee, paid, everPaid, note, customerVars, charged, filed>>
  BY DEF Create, InsertInvoice
<1>2. ToBaseCents(cents, Rate[i]) \in Int
  <2>1. Rate[i] \in Nat
    BY FiguresType
  <2> QED BY <2>1, ToBaseCentsType
<1>3. TablesOK'
  BY <1>1, <1>2 DEF TablesInv, TablesOK, PostInvoiceIssued, Statuses, Settling,
                    customerVars
<1>4. /\ status'[i] = "open" /\ total'[i] = cents
      /\ issued'[i] = ToBaseCents(total'[i], Rate[i])
      /\ receivable'[i] = receivable[i] + ToBaseCents(total'[i], Rate[i])
      /\ \A j \in Invoices \ {i} : Columns(j)' = Columns(j)
  BY <1>1 DEF TablesInv, TablesOK, PostInvoiceIssued, Columns
<1> QED BY <1>1, <1>3, <1>4, PostedKeeps DEF customerVars

LEMMA ChargeLateFeeKeeps ==
  ASSUME TablesInv, NEW i \in Invoices, status[i] \notin {"none", "draft"},
         NEW cents \in Nat, ChargeLateFee(i, cents)
  PROVE  TablesInv'
<1>1. /\ fee[i] = 0 /\ cents > 0
      /\ fee' = [fee EXCEPT ![i] = cents]
      /\ total' = [total EXCEPT ![i] = @ + cents]
      /\ receivable' = [receivable EXCEPT ![i] = @ + cents]
      /\ charged' = [charged EXCEPT ![i] = cents]
      /\ UNCHANGED <<status, billed, taken, filed, mergedFrom, paid, everPaid, note,
                     customerVars, issued>>
  BY DEF ChargeLateFee
<1>2. /\ {total[i], taken[i], paid[i]} \subseteq Nat
      /\ {receivable[i], issued[i]} \subseteq Int
      /\ Credited(i) \in Nat /\ charged[i] = 0 /\ InvoiceInv(i)
  BY <1>1, FiguresType DEF TablesInv, InvoiceInv
<1>3. TablesOK'
  BY <1>1, <1>2 DEF TablesInv, TablesOK, customerVars
<1>4. /\ status'[i] = status[i] /\ total'[i] = total[i] + cents /\ fee'[i] = cents
      /\ taken'[i] = taken[i] /\ paid'[i] = paid[i] /\ everPaid'[i] = everPaid[i]
      /\ receivable'[i] = receivable[i] + cents
      /\ issued'[i] = issued[i] /\ charged'[i] = cents
      /\ \A j \in Invoices \ {i} : Columns(j)' = Columns(j)
  BY <1>1 DEF TablesInv, TablesOK, Columns
<1>5. /\ NotesInv' /\ Credited(i)' = Credited(i)
      /\ IsFiniteSet(CreditedCents(i)')
      /\ NoCentLeftOver(i)' <=> NoCentLeftOver(i)
  BY <1>1, NotesUnmoved
<1>6. CreditedInv(i)'
  BY <1>1, <1>2, CreditedInvUnmoved DEF InvoiceInv
<1>7. Settled(Figures(i))' = Settled(Figures(i))
  BY <1>2, <1>4, <1>5 DEF Figures, Settled
<1>8. StandingInv(i)'
  <2>1. total'[i] - fee'[i] = total[i] - fee[i]
    BY <1>1, <1>2, <1>4
  <2>2. Settled(Figures(i)) \in Nat /\ Rate[i] \in Nat
    BY FiguresType
  <2>3. ToBaseCents(Settled(Figures(i)), Rate[i]) \in Int
    BY <2>2, ToBaseCentsType
  <2>4. StandingInv(i)
    BY <1>2 DEF InvoiceInv
  <2>5. ASSUME status[i] \in Settling, NoCentLeftOver(i)
        PROVE  receivable'[i] = issued'[i] + charged'[i]
                                  - ToBaseCents(Settled(Figures(i)), Rate[i])
    BY <1>1, <1>2, <1>4, <2>3, <2>4, <2>5 DEF StandingInv
  <2> QED BY <1>1, <1>4, <1>5, <1>7, <2>1, <2>4, <2>5 DEF StandingInv
<1>9. UnissuedInv(i)' /\ VoidInv(i)'
  BY <1>1, <1>2, <1>4, <1>5 DEF UnissuedInv, VoidInv, InvoiceInv
<1>10. InvoiceInv(i)'
  BY <1>1, <1>2, <1>4, <1>5, <1>6, <1>8, <1>9 DEF InvoiceInv
<1>11. CreditNeverOverspent'
  BY <1>1 DEF CreditNeverOverspent, TablesInv, customerVars
<1> QED BY <1>1, <1>3, <1>4, <1>5, <1>10, <1>11, Frame
-----------------------------------------------------------------------------
(* The desk. *)

LEMMA DraftWorkKeeps ==
  ASSUME TablesInv, DraftWork
  PROVE  TablesInv'
<1>1. /\ status' \in [Invoices -> Statuses] /\ total' \in [Invoices -> Nat]
      /\ UNCHANGED <<taken, fee, paid, everPaid, note, customerVars, ledgerVars>>
  BY DEF DraftWork
<1>2. TablesOK'
  BY <1>1 DEF DraftWork, TablesInv, TablesOK, customerVars, ledgerVars
<1>3. NotesInv' /\ CentsInv'
  BY <1>1, NotesUnmoved DEF CentsInv
<1>4. CreditNeverOverspent'
  BY <1>1 DEF CreditNeverOverspent, TablesInv, customerVars
<1>5. ASSUME NEW i \in Invoices PROVE InvoiceInv(i)'
  <2>1. /\ status'[i] # status[i] => status[i] = "none" /\ status'[i] = "draft"
        /\ total'[i] # total[i] => status'[i] = "draft"
    BY DEF DraftWork
  <2>2. InvoiceInv(i)
    BY DEF TablesInv
  <2>3. /\ taken'[i] = taken[i] /\ fee'[i] = fee[i] /\ paid'[i] = paid[i]
        /\ everPaid'[i] = everPaid[i] /\ receivable'[i] = receivable[i]
        /\ issued'[i] = issued[i] /\ charged'[i] = charged[i]
    BY <1>1 DEF ledgerVars
  <2>4. CASE status'[i] = "draft"
    <3>1. status[i] \in {"none", "draft"}
      BY <2>1, <2>4
    <3>2. UnissuedInv(i)'
      BY <2>2, <2>3, <3>1 DEF InvoiceInv, UnissuedInv
    <3>3. \A n \in Notes : note[n].of # i
      BY <2>2, <3>1 DEF InvoiceInv, CreditedInv
    <3>4. CreditedInv(i)'
      BY <1>1, <3>3 DEF CreditedInv
    <3>5. Credited(i)' = 0
      BY <1>1, <3>3, CreditedType, NotesUnmoved DEF TablesInv, LiveNotes
    <3>6. StandingInv(i)' /\ VoidInv(i)'
      BY <2>4 DEF StandingInv, VoidInv, Settling
    <3>7. total'[i] \in Nat /\ paid[i] = 0
      BY <1>1, <2>2, <3>1 DEF InvoiceInv, UnissuedInv
    <3> QED BY <2>2, <2>3, <3>2, <3>4, <3>5, <3>6, <3>7 DEF InvoiceInv
  <2>5. CASE status'[i] # "draft"
    <3>1. Columns(i)' = Columns(i)
      BY <2>1, <2>3, <2>5 DEF Columns
    <3> QED BY <1>1, <2>2, <3>1, FrameOne
  <2> QED BY <2>4, <2>5
<1> QED BY <1>2, <1>3, <1>4, <1>5 DEF TablesInv

LEMMA StutterKeeps ==
  ASSUME TablesInv, UNCHANGED tables
  PROVE  TablesInv'
<1>1. /\ UNCHANGED <<rowVars, paid, everPaid, note, customerVars, ledgerVars>>
  BY DEF tables
<1>2. ASSUME NEW i \in Invoices PROVE InvoiceInv(i)'
  <2>1. Columns(i)' = Columns(i)
    BY <1>1 DEF Columns, rowVars, ledgerVars
  <2> QED BY <1>1, <2>1, FrameOne DEF TablesInv
<1>3. TablesOK'
  BY <1>1 DEF TablesInv, TablesOK, rowVars, customerVars, ledgerVars
<1>4. NotesInv' /\ CentsInv'
  BY <1>1, NotesUnmoved DEF CentsInv
<1>5. CreditNeverOverspent'
  BY <1>1 DEF CreditNeverOverspent, TablesInv, customerVars
<1> QED BY <1>2, <1>3, <1>4, <1>5 DEF TablesInv

LEMMA DeskKeeps ==
  ASSUME TablesInv, [DeskNext]_tables
  PROVE  TablesInv'
<1>1. CASE DraftWork
  BY <1>1, DraftWorkKeeps
<1>2. ASSUME NEW i \in Invoices, NEW cents \in Amounts, Create(i, cents)
      PROVE  TablesInv'
  BY <1>2, CreateKeeps, AmountsAssumption
<1>3. ASSUME NEW i \in Invoices, Issue(i) PROVE TablesInv'
  BY <1>3, IssueKeeps
<1>4. ASSUME NEW i \in Invoices, PayAtDesk(i) PROVE TablesInv'
  <2>1. PICK amount \in Amounts, discounted \in BOOLEAN, rate \in RatesOn(i) :
          Pay(i, Figures(i), amount, discounted, rate)
    BY <1>4 DEF PayAtDesk
  <2>2. amount \in Nat /\ rate \in Nat
    BY AmountsAssumption, RatesAssumption DEF RatesOn, RATE_SCALE
  <2> QED BY <1>4, <2>1, <2>2, PayKeeps DEF PayAtDesk
<1>5. ASSUME NEW i \in Invoices, SpendCreditAtDesk(i) PROVE TablesInv'
  BY <1>5, ApplyCreditKeeps DEF SpendCreditAtDesk
<1>6. ASSUME NEW i \in Invoices, VoidAtDesk(i) PROVE TablesInv'
  BY <1>6, VoidKeeps DEF VoidAtDesk
<1>7. ASSUME NEW i \in Invoices, ChargeFeeAtDesk(i) PROVE TablesInv'
  <2>1. PICK cents \in 1 .. LateFee : ChargeLateFee(i, cents)
    BY <1>7 DEF ChargeFeeAtDesk
  <2>2. cents \in Nat
    BY AmountsAssumption
  <2> QED BY <1>7, <2>1, <2>2, ChargeLateFeeKeeps DEF ChargeFeeAtDesk
<1>8. ASSUME NEW i \in Invoices, NEW n \in Notes, CreditAtDesk(i, n)
      PROVE  TablesInv'
  <2>1. PICK amount \in Amounts \cup {total[i]} :
          RaiseCreditNote(i, n, Figures(i), amount)
    BY <1>8 DEF CreditAtDesk
  <2>2. amount \in Nat
    BY AmountsAssumption, FiguresType
  <2> QED BY <1>8, <2>1, <2>2, RaiseCreditNoteKeeps DEF CreditAtDesk
<1>9. ASSUME NEW n \in Notes, VoidNote(n) PROVE TablesInv'
  BY <1>9, VoidNoteKeeps
<1>10. CASE UNCHANGED tables
  BY <1>10, StutterKeeps
<1> QED BY <1>1, <1>2, <1>3, <1>4, <1>5, <1>6, <1>7, <1>8, <1>9, <1>10 DEF DeskNext

(* Served one at a time, the tables are sound for ever. *)
THEOREM DeskIsSound == DeskSpec => []TablesInv
<1>1. Init => TablesInv
  BY InitIsSound
<1>2. TablesInv /\ [DeskNext]_tables => TablesInv'
  BY DeskKeeps
<1> QED BY <1>1, <1>2, PTL DEF DeskSpec

(* A step of the desk that leaves an invoice void, or issued, leaves it so;
   it takes no payment away; and what an issued invoice asks for moves by one
   late fee at most. *)
LEMMA DeskNeverGoesBack ==
  ASSUME TablesInv, [DeskNext]_tables, NEW i \in Invoices
  PROVE  /\ status[i] = "void" => status'[i] = "void"
         /\ status[i] \notin {"none", "draft"} => status'[i] \notin {"none", "draft"}
         /\ status[i] # "none" => status'[i] # "none"
         /\ everPaid[i] => everPaid'[i]
         /\ status[i] \notin {"none", "draft"} =>
              \/ total'[i] = total[i] /\ fee'[i] = fee[i]
              \/ fee[i] = 0 /\ total'[i] = total[i] + fee'[i]
<1> DEFINE Kept ==
      /\ status[i] = "void" => status'[i] = "void"
      /\ status[i] \notin {"none", "draft"} => status'[i] \notin {"none", "draft"}
      /\ status[i] # "none" => status'[i] # "none"
      /\ everPaid[i] => everPaid'[i]
      /\ status[i] \notin {"none", "draft"} =>
           \/ total'[i] = total[i] /\ fee'[i] = fee[i]
           \/ fee[i] = 0 /\ total'[i] = total[i] + fee'[i]
<1>0. /\ status \in [Invoices -> Statuses] /\ everPaid \in [Invoices -> BOOLEAN]
      /\ total \in [Invoices -> Nat] /\ fee \in [Invoices -> Nat]
  BY DEF TablesInv, TablesOK
<1>1. CASE DraftWork
  BY <1>1 DEF DraftWork
<1>2. ASSUME NEW j \in Invoices, NEW cents \in Amounts, Create(j, cents)
      PROVE  Kept
  BY <1>0, <1>2 DEF Create, InsertInvoice
<1>3. ASSUME NEW j \in Invoices, Issue(j) PROVE Kept
  BY <1>0, <1>3 DEF Issue
<1>4. ASSUME NEW j \in Invoices, PayAtDesk(j) PROVE Kept
  BY <1>0, <1>4, InvoiceStatusType DEF PayAtDesk, Pay, InsertPayment, Settling
<1>5. ASSUME NEW j \in Invoices, SpendCreditAtDesk(j) PROVE Kept
  BY <1>0, <1>5, InvoiceStatusType
     DEF SpendCreditAtDesk, ApplyCredit, InsertPayment, Settling
<1>6. ASSUME NEW j \in Invoices, VoidAtDesk(j) PROVE Kept
  BY <1>0, <1>6 DEF VoidAtDesk, Void
<1>7. ASSUME NEW j \in Invoices, ChargeFeeAtDesk(j) PROVE Kept
  BY <1>0, <1>7 DEF ChargeFeeAtDesk, ChargeLateFee
<1>8. ASSUME NEW j \in Invoices, NEW n \in Notes, CreditAtDesk(j, n) PROVE Kept
  BY <1>0, <1>8, InvoiceStatusType DEF CreditAtDesk, RaiseCreditNote, Settling
<1>9. ASSUME NEW n \in Notes, VoidNote(n) PROVE Kept
  <2>1. PICK j \in Invoices : j = note[n].of /\ status[j] \in Settling
    BY <1>9, VoidNoteKeeps
  <2>2. /\ UNCHANGED <<total, fee, everPaid>>
        /\ \A k \in Invoices : k # j => status'[k] = status[k]
        /\ status'[j] \in {"open", "partial", "paid", "credited"}
    BY <1>0, <1>9, <2>1, InvoiceStatusType DEF VoidNote
  <2> QED BY <2>1, <2>2 DEF Settling
<1>10. CASE UNCHANGED tables
  BY <1>10 DEF tables, rowVars
<1> QED BY <1>1, <1>2, <1>3, <1>4, <1>5, <1>6, <1>7, <1>8, <1>9, <1>10 DEF DeskNext

-----------------------------------------------------------------------------
(* What an open handler has read still says enough of the tables when it
   commits. *)

(* A handler that may move money read an invoice that stood. *)
ReadStanding(r) ==
  req[r].route \in {"pay", "apply", "credit"} => req[r].status \in Settling

(* Only issued invoices are swept, and an issued invoice stays issued. *)
SweptIsIssued(r) ==
  req[r].route = "sweep" => status[req[r].inv] \notin {"none", "draft"}

(* The void read an invoice that exists; a saving it read was taken by a
   payment, which is still there when it looks for payments. *)
VoidReadsNoSaving(r) ==
  req[r].route = "void" =>
    /\ req[r].status \notin {"none", "void"}
    /\ req[r].taken > 0 => everPaid[req[r].inv]
    /\ req[r].stage # "row" => req[r].taken = 0

(* A handler that is open names an invoice, a merge two of them; credit is
   spent on an invoice that names a customer. *)
NamesInvoices(r) ==
  /\ req[r].route = "idle" => req[r].stage = "idle"
  /\ req[r].route # "idle" => req[r].inv \in Invoices
  /\ req[r].route = "merge" => req[r].other \in Invoices
  /\ req[r].route = "apply" => CustomerOf[req[r].inv] # NoCustomer

RequestInv(r) ==
  /\ ReadStanding(r)
  /\ SweptIsIssued(r)
  /\ VoidReadsNoSaving(r)
  /\ NamesInvoices(r)

RequestsInv == \A r \in Requests : RequestInv(r)

BooksInv == TypeOK /\ RequestsInv /\ TablesInv

-----------------------------------------------------------------------------
(* Each commit is a step of the desk. *)

(* What the comparison under the lock buys: the figures read are the figures
   as they stand. *)
LEMMA UnmovedIsCurrent ==
  ASSUME BooksInv, NEW r \in Requests, req[r].inv \in Invoices,
         Unmoved(req[r].inv, req[r], req[r].paid, req[r].credited)
  PROVE  /\ Figures(req[r].inv).total = req[r].total
         /\ Figures(req[r].inv).taken = req[r].taken
         /\ Figures(req[r].inv).paid = req[r].paid
         /\ Figures(req[r].inv).credited = req[r].credited
         /\ status[req[r].inv] = req[r].status
BY DEF Unmoved, Figures

LEMMA RecordPaymentAtDesk ==
  ASSUME BooksInv, NEW r \in Requests, RecordPayment(r)
  PROVE  DeskNext
<1> DEFINE i == req[r].inv
<1>1. /\ i \in Invoices /\ req[r].status \in Settling
  BY DEF RecordPayment, At, BooksInv, RequestsInv, RequestInv, ReadStanding,
         NamesInvoices
<1>2. PICK amount \in Amounts, discounted \in BOOLEAN, rate \in RatesOn(i) :
        Pay(i, req[r], amount, discounted, rate)
  BY DEF RecordPayment
<1>3. /\ Figures(i).total = req[r].total /\ Figures(i).taken = req[r].taken
      /\ Figures(i).paid = req[r].paid /\ Figures(i).credited = req[r].credited
      /\ status[i] = req[r].status
  BY <1>1, UnmovedIsCurrent DEF RecordPayment
<1>4. Pay(i, Figures(i), amount, discounted, rate)
  BY <1>2, <1>3 DEF Pay, Settled
<1> QED BY <1>1, <1>3, <1>4 DEF PayAtDesk, DeskNext

LEMMA SpendCreditIsAtDesk ==
  ASSUME BooksInv, NEW r \in Requests, SpendCredit(r)
  PROVE  DeskNext
<1> DEFINE i == req[r].inv
<1>1. /\ i \in Invoices /\ req[r].status \in Settling
  BY DEF SpendCredit, At, BooksInv, RequestsInv, RequestInv, ReadStanding,
         NamesInvoices
<1>2. /\ ApplyCredit(i, req[r], req[r].available)
      /\ credit[CustomerOf[i]] = req[r].available
  BY DEF SpendCredit
<1>3. /\ Figures(i).total = req[r].total /\ Figures(i).taken = req[r].taken
      /\ Figures(i).paid = req[r].paid /\ Figures(i).credited = req[r].credited
      /\ status[i] = req[r].status
  BY <1>1, UnmovedIsCurrent DEF SpendCredit
<1>4. ApplyCredit(i, Figures(i), credit[CustomerOf[i]])
  BY <1>2, <1>3 DEF ApplyCredit, Owed, Settled
<1> QED BY <1>1, <1>3, <1>4 DEF SpendCreditAtDesk, DeskNext

LEMMA CreditInvoiceAtDesk ==
  ASSUME BooksInv, NEW r \in Requests, NEW n \in Notes, CreditInvoice(r, n)
  PROVE  DeskNext
<1> DEFINE i == req[r].inv
           read == [req[r] EXCEPT !.paid = paid[i]]
<1>1. /\ i \in Invoices /\ req[r].status \in Settling
      /\ req[r] \in RequestRecord
  BY DEF CreditInvoice, At, BooksInv, RequestsInv, RequestInv, ReadStanding,
         NamesInvoices, TypeOK
<1>2. /\ status[i] = req[r].status /\ total[i] = req[r].total
      /\ taken[i] = req[r].taken /\ Credited(i) = req[r].credited
  BY DEF CreditInvoice, Unmoved
<1>3. PICK amount \in Amounts \cup {total[i]} : RaiseCreditNote(i, n, read, amount)
  BY <1>2 DEF CreditInvoice
<1>4. /\ read.total = req[r].total /\ read.taken = req[r].taken
      /\ read.credited = req[r].credited /\ read.paid = paid[i]
  BY <1>1 DEF RequestRecord
<1>5. /\ Figures(i).total = read.total /\ Figures(i).taken = read.taken
      /\ Figures(i).paid = read.paid /\ Figures(i).credited = read.credited
  BY <1>2, <1>4 DEF Figures
<1> HIDE DEF read
<1>6. RaiseCreditNote(i, n, Figures(i), amount)
  BY <1>3, <1>5 DEF RaiseCreditNote, Settled
<1> QED BY <1>1, <1>2, <1>6 DEF CreditAtDesk, DeskNext

LEMMA VoidInvoiceAtDesk ==
  ASSUME BooksInv, NEW r \in Requests, VoidInvoice(r)
  PROVE  DeskNext
<1> DEFINE i == req[r].inv
<1>1. /\ i \in Invoices /\ req[r].status \notin {"none", "void"}
      /\ req[r].taken = 0
  BY DEF VoidInvoice, At, BooksInv, RequestsInv, RequestInv, VoidReadsNoSaving,
         NamesInvoices
<1>2. /\ status[i] = req[r].status /\ taken[i] = req[r].taken
      /\ paid[i] = 0 /\ Credited(i) = 0 /\ Void(i)
  BY DEF VoidInvoice, Unmoved
<1> QED BY <1>1, <1>2 DEF VoidAtDesk, DeskNext

LEMMA ApplyLateFeeAtDesk ==
  ASSUME BooksInv, NEW r \in Requests, ApplyLateFee(r)
  PROVE  DeskNext
<1> DEFINE i == req[r].inv
           balance == BalanceDue(req[r].status, req[r].total - req[r].taken,
                                 req[r].paid, req[r].credited)
           cents == LateFeeFor(LateFee, balance)
<1>1. /\ i \in Invoices /\ status[i] \notin {"none", "draft"}
      /\ req[r] \in RequestRecord
  BY DEF ApplyLateFee, At, BooksInv, RequestsInv, RequestInv, SweptIsIssued,
         NamesInvoices, TypeOK
<1>2. ChargeLateFee(i, cents) /\ cents > 0
  BY DEF ApplyLateFee, ChargeLateFee
<1>3. balance \in Int
  BY <1>1 DEF RequestRecord, BalanceDue, AtLeastZero
<1>4. cents \in Nat /\ cents <= LateFee
  <2> HIDE DEF balance
  <2> QED BY <1>3, AmountsAssumption DEF LateFeeFor, AtLeastZero, Lesser
<1>5. cents \in 1 .. LateFee
  <2> HIDE DEF cents
  <2> QED BY <1>2, <1>4, AmountsAssumption
<1> HIDE DEF cents
<1> QED BY <1>1, <1>2, <1>5 DEF ChargeFeeAtDesk, DeskNext

(* Work on drafts and on the lists. *)
LEMMA DraftsAtDesk ==
  ASSUME BooksInv,
         \/ WriteDraft \/ SaveDraft \/ RestoreInvoice
         \/ \E r \in Requests : \/ FileInvoice(r)
                                \/ \E i \in Invoices : SaveCopy(r, i) \/ SaveMerged(r, i)
  PROVE  DraftWork
<1> USE DEF DraftWork
<1>1. /\ status \in [Invoices -> Statuses] /\ total \in [Invoices -> Nat]
      /\ billed \in [Invoices -> Nat] /\ filed \in [Invoices -> BOOLEAN]
      /\ mergedFrom \in [Invoices -> SUBSET Invoices]
  BY DEF BooksInv, TablesInv, TablesOK
<1>2. ASSUME NEW i \in Invoices, NEW cents \in Nat, NEW lines \in Nat,
             NEW from \in SUBSET Invoices,
             InsertInvoice(i, "draft", cents, lines, from),
             filed' \in [Invoices -> BOOLEAN],
             UNCHANGED <<receivable, issued>>
      PROVE  DraftWork
  BY <1>1, <1>2 DEF InsertInvoice, Statuses, ledgerVars
<1>3. CASE WriteDraft
  <2>1. PICK i \in Invoices, cents \in Amounts : CreateDraft(i, cents)
    BY <1>3 DEF WriteDraft
  <2> QED BY <1>1, <1>2, <2>1, AmountsAssumption DEF CreateDraft
<1>4. CASE SaveDraft
  <2>1. PICK i \in Invoices, cents \in Amounts : EditDraft(i, cents)
    BY <1>4 DEF SaveDraft
  <2> QED BY <1>1, <2>1, AmountsAssumption DEF EditDraft
<1>5. CASE RestoreInvoice
  BY <1>1, <1>5 DEF RestoreInvoice, Restore
<1>6. ASSUME NEW r \in Requests, FileInvoice(r) PROVE DraftWork
  BY <1>1, <1>6 DEF FileInvoice, FileAway
<1>7. ASSUME NEW r \in Requests, NEW i \in Invoices, SaveCopy(r, i)
      PROVE  DraftWork
  <2>1. req[r].total \in Nat /\ req[r].lines \in Nat
    BY DEF BooksInv, TypeOK, RequestRecord
  <2> QED BY <1>1, <1>2, <1>7, <2>1 DEF SaveCopy, CopyInvoice
<1>8. ASSUME NEW r \in Requests, NEW i \in Invoices, SaveMerged(r, i)
      PROVE  DraftWork
  <2>1. req[r].lines \in Nat /\ {req[r].inv, req[r].other} \subseteq Invoices
    BY <1>8 DEF SaveMerged, At, BooksInv, TypeOK, RequestRecord, RequestsInv,
                RequestInv, NamesInvoices
  <2>2. filed' \in [Invoices -> BOOLEAN]
    BY <1>1, <1>8 DEF SaveMerged, MergeDrafts
  <2> QED BY <1>2, <1>8, <2>1, <2>2 DEF SaveMerged, MergeDrafts
<1> QED BY <1>3, <1>4, <1>5, <1>6, <1>7, <1>8

(* Every step of the handlers is a step of the desk, or leaves the tables as
   they are. *)
LEMMA BooksStepAtDesk ==
  ASSUME BooksInv, [Next]_vars
  PROVE  [DeskNext]_tables
<1>1. CASE UNCHANGED vars
  BY <1>1 DEF vars
<1>2. ASSUME NEW r \in Requests, NEW i \in Invoices, Begin(r, i)
      PROVE  UNCHANGED tables
  BY <1>2 DEF Begin, BeginPayment, BeginApplyCredit, BeginCredit, BeginVoid,
              BeginIssue, BeginFile, BeginSweep, BeginCopy, BeginMerge, ReadRow
<1>3. ASSUME NEW r \in Requests, Read(r) PROVE UNCHANGED tables
  BY <1>3 DEF Read, ReadPayments, ReadCredited, ReadCreditBalance, ReadLines
<1>4. ASSUME NEW r \in Requests, GiveUp(r) PROVE UNCHANGED tables
  BY <1>4 DEF GiveUp
<1>5. ASSUME NEW r \in Requests, Commit(r) PROVE DeskNext
  <2>1. CASE IssueInvoice(r)
    <3>1. req[r].inv \in Invoices
      BY <2>1 DEF IssueInvoice, At, BooksInv, RequestsInv, RequestInv, NamesInvoices
    <3> QED BY <2>1, <3>1 DEF IssueInvoice, DeskNext
  <2>2. CASE FileInvoice(r) \/ \E i \in Invoices : SaveCopy(r, i) \/ SaveMerged(r, i)
    BY <2>2, DraftsAtDesk DEF DeskNext
  <2> QED BY <1>5, <2>1, <2>2, RecordPaymentAtDesk, SpendCreditIsAtDesk,
             CreditInvoiceAtDesk, VoidInvoiceAtDesk, ApplyLateFeeAtDesk DEF Commit
<1>6. CASE CreateInvoice
  BY <1>6 DEF CreateInvoice, DeskNext
<1>7. CASE VoidCreditNote
  BY <1>7 DEF VoidCreditNote, DeskNext
<1>8. CASE WriteDraft \/ SaveDraft \/ RestoreInvoice
  BY <1>8, DraftsAtDesk DEF DeskNext
<1> QED BY <1>1, <1>2, <1>3, <1>4, <1>5, <1>6, <1>7, <1>8 DEF Next
-----------------------------------------------------------------------------
(* What an open handler has read goes on being enough. *)

(* Whatever the others do meanwhile. *)
LEMMA WaitingKeeps ==
  ASSUME BooksInv, [DeskNext]_tables, NEW r \in Requests, req'[r] = req[r]
  PROVE  RequestInv(r)'
<1>1. RequestInv(r)
  BY DEF BooksInv, RequestsInv
<1>2. ReadStanding(r)' /\ NamesInvoices(r)'
  BY <1>1 DEF RequestInv, ReadStanding, NamesInvoices
<1>3. SweptIsIssued(r)'
  <2>1. CASE req[r].route = "sweep"
    <3>1. PICK i \in Invoices : i = req[r].inv
      BY <1>1, <2>1 DEF RequestInv, NamesInvoices
    <3>2. status[i] \notin {"none", "draft"} => status'[i] \notin {"none", "draft"}
      BY DeskNeverGoesBack DEF BooksInv
    <3> QED BY <1>1, <2>1, <3>1, <3>2 DEF RequestInv, SweptIsIssued
  <2>2. CASE req[r].route # "sweep"
    BY <2>2 DEF SweptIsIssued
  <2> QED BY <2>1, <2>2
<1>4. VoidReadsNoSaving(r)'
  <2>1. CASE req[r].route = "void"
    <3>1. PICK i \in Invoices : i = req[r].inv
      BY <1>1, <2>1 DEF RequestInv, NamesInvoices
    <3>2. everPaid[i] => everPaid'[i]
      BY DeskNeverGoesBack DEF BooksInv
    <3> QED BY <1>1, <2>1, <3>1, <3>2 DEF RequestInv, VoidReadsNoSaving
  <2>2. CASE req[r].route # "void"
    BY <2>2 DEF VoidReadsNoSaving
  <2> QED BY <2>1, <2>2
<1> QED BY <1>2, <1>3, <1>4 DEF RequestInv

LEMMA IdleIsSound ==
  ASSUME NEW r \in Requests, req'[r] = Idle
  PROVE  RequestInv(r)' /\ req'[r] \in RequestRecord
<1>1. RequestInv(r)'
  BY DEF RequestInv, ReadStanding, SweptIsIssued, VoidReadsNoSaving,
         NamesInvoices, Idle
<1>2. req'[r] \in RequestRecord
  BY DEF Idle, RequestRecord, Statuses
<1> QED BY <1>1, <1>2

(* A handler's first read. *)
LEMMA FirstReadIsSound ==
  ASSUME BooksInv, NEW r \in Requests, NEW i \in Invoices, NEW route \in RouteNames,
         ReadRow(r, route, i),
         route \in {"pay", "apply", "credit"} => status[i] \in Settling,
         route = "sweep" => status[i] \notin {"none", "draft"},
         route = "void" => status[i] \notin {"none", "void"},
         route = "apply" => CustomerOf[i] # NoCustomer,
         route # "merge"
  PROVE  RequestInv(r)' /\ req'[r] \in RequestRecord
<1>1. req'[r] = [Idle EXCEPT !.route = route, !.stage = "row", !.inv = i,
                             !.status = status[i], !.total = total[i],
                             !.taken = taken[i]]
  BY DEF ReadRow, BooksInv, TypeOK
<1>2. /\ req'[r].route = route /\ req'[r].stage = "row" /\ req'[r].inv = i
      /\ req'[r].status = status[i] /\ req'[r].taken = taken[i]
  BY <1>1 DEF Idle
<1>3. req'[r] \in RequestRecord
  <2>1. status[i] \in Statuses /\ total[i] \in Nat /\ taken[i] \in Nat
    BY DEF BooksInv, TablesInv, TablesOK
  <2>2. req'[r] = [Idle EXCEPT !.route = route, !.stage = "row", !.inv = i,
                               !.status = status[i], !.total = total[i],
                               !.taken = taken[i]]
    BY <1>1
  <2>3. Idle \in RequestRecord
    BY DEF Idle, RequestRecord, Statuses
  <2> QED BY <2>1, <2>2, <2>3 DEF RequestRecord
<1>4. status' = status /\ everPaid' = everPaid
  BY DEF ReadRow, tables, rowVars
<1>5. taken[i] > 0 => everPaid[i]
  BY DEF BooksInv, TablesInv, InvoiceInv
<1>6. ReadStanding(r)' /\ SweptIsIssued(r)' /\ VoidReadsNoSaving(r)' /\ NamesInvoices(r)'
  BY <1>2, <1>4, <1>5
     DEF ReadStanding, SweptIsIssued, VoidReadsNoSaving, NamesInvoices, RouteNames
<1> QED BY <1>3, <1>6 DEF RequestInv

LEMMA BeginIsSound ==
  ASSUME BooksInv, NEW r \in Requests, NEW i \in Invoices, Begin(r, i)
  PROVE  RequestInv(r)' /\ req'[r] \in RequestRecord
<1> USE DEF RouteNames
<1>1. CASE BeginPayment(r, i)
  BY <1>1, FirstReadIsSound DEF BeginPayment
<1>2. CASE BeginApplyCredit(r, i)
  BY <1>2, FirstReadIsSound DEF BeginApplyCredit
<1>3. CASE BeginCredit(r, i)
  BY <1>3, FirstReadIsSound DEF BeginCredit
<1>4. CASE BeginVoid(r, i)
  BY <1>4, FirstReadIsSound DEF BeginVoid
<1>5. CASE BeginIssue(r, i)
  BY <1>5, FirstReadIsSound DEF BeginIssue
<1>6. CASE BeginFile(r, i)
  BY <1>6, FirstReadIsSound DEF BeginFile
<1>7. CASE BeginSweep(r, i)
  BY <1>7, FirstReadIsSound DEF BeginSweep
<1>8. CASE BeginCopy(r, i)
  BY <1>8, FirstReadIsSound DEF BeginCopy
<1>9. ASSUME NEW j \in Invoices, BeginMerge(r, i, j)
      PROVE  RequestInv(r)' /\ req'[r] \in RequestRecord
  <2>1. req'[r] = [Idle EXCEPT !.route = "merge", !.stage = "row", !.inv = i,
                               !.other = j]
    BY <1>9 DEF BeginMerge, BooksInv, TypeOK
  <2>2. /\ req'[r].route = "merge" /\ req'[r].inv = i /\ req'[r].other = j
    BY <2>1 DEF Idle
  <2>3. req'[r] \in RequestRecord
    <3>1. Idle \in RequestRecord
      BY DEF Idle, RequestRecord, Statuses
    <3> QED BY <2>1, <3>1 DEF RequestRecord
  <2>4. RequestInv(r)'
    BY <2>2 DEF RequestInv, ReadStanding, SweptIsIssued, VoidReadsNoSaving,
                NamesInvoices
  <2> QED BY <2>3, <2>4
<1> QED BY <1>1, <1>2, <1>3, <1>4, <1>5, <1>6, <1>7, <1>8, <1>9 DEF Begin

(* The reads that follow. *)
LEMMA ReadIsSound ==
  ASSUME BooksInv, NEW r \in Requests, Read(r)
  PROVE  RequestInv(r)' /\ req'[r] \in RequestRecord
<1>1. req[r] \in RequestRecord /\ RequestInv(r) /\ req \in [Requests -> RequestRecord]
  BY DEF BooksInv, TypeOK, RequestsInv
<1>2. status' = status /\ everPaid' = everPaid
  BY DEF Read, ReadPayments, ReadCredited, ReadCreditBalance, ReadLines, tables, rowVars
<1>3. req[r].route # "idle" => req[r].inv \in Invoices
  BY <1>1 DEF RequestInv, NamesInvoices
<1>4. /\ req'[r] \in RequestRecord
      /\ req'[r].route = req[r].route /\ req[r].route # "idle"
      /\ req'[r].inv = req[r].inv /\ req'[r].other = req[r].other
      /\ req'[r].status = req[r].status /\ req'[r].taken = req[r].taken
      /\ req[r].route = "void" /\ req[r].stage = "row" => ~everPaid[req[r].inv]
  <2>1. CASE ReadPayments(r)
    <3>1. /\ req[r].inv \in Invoices /\ paid[req[r].inv] \in Nat
          /\ req' = [req EXCEPT ![r] = [req[r] EXCEPT !.stage = "payments",
                                                      !.paid = paid[req[r].inv]]]
      BY <1>1, <1>3, <2>1 DEF ReadPayments, BooksInv, TablesInv, TablesOK
    <3>2. req'[r] = [req[r] EXCEPT !.stage = "payments", !.paid = paid[req[r].inv]]
      BY <1>1, <3>1
    <3> QED BY <1>1, <2>1, <3>1, <3>2 DEF RequestRecord, ReadPayments
  <2>2. CASE ReadCredited(r)
    <3>1. /\ req[r].stage \in {"row", "payments"}
          /\ req[r].stage = "row" => req[r].route = "credit"
          /\ req[r].route # "idle"
      BY <1>1, <2>2 DEF ReadCredited, RequestInv, NamesInvoices
    <3>2. PICK i \in Invoices : i = req[r].inv
      BY <1>1, <3>1 DEF RequestInv, NamesInvoices
    <3>3. Credited(i) \in Nat
      BY FiguresType DEF BooksInv
    <3>4. req'[r] = [req[r] EXCEPT !.stage = "credited", !.credited = Credited(i)]
      BY <1>1, <2>2, <3>2 DEF ReadCredited
    <3> QED BY <1>1, <3>1, <3>3, <3>4 DEF RequestRecord
  <2>3. CASE ReadCreditBalance(r)
    <3>1. req[r].route = "apply" /\ req[r].stage = "credited"
      BY <2>3 DEF ReadCreditBalance, At
    <3>2. CustomerOf[req[r].inv] \in Customers
      BY <1>1, <3>1, CustomersAssumption DEF RequestInv, NamesInvoices
    <3> DEFINE held == credit[CustomerOf[req[r].inv]]
    <3>3. held \in Int
      BY <3>2 DEF BooksInv, TablesInv, TablesOK
    <3>4. req'[r] = [req[r] EXCEPT !.stage = "balance", !.available = held]
      BY <1>1, <2>3 DEF ReadCreditBalance
    <3> HIDE DEF held
    <3> QED BY <1>1, <3>1, <3>3, <3>4 DEF RequestRecord
  <2>4. CASE ReadLines(r)
    <3>1. /\ req[r].route \in {"copy", "merge"} /\ req[r].stage = "row"
          /\ req[r].inv \in Invoices
          /\ req[r].route = "merge" => req[r].other \in Invoices
      BY <1>1, <2>4 DEF ReadLines, RequestInv, NamesInvoices
    <3> DEFINE read == billed[req[r].inv] + IF req[r].route = "merge"
                                            THEN billed[req[r].other] ELSE 0
    <3>2. read \in Nat
      BY <3>1 DEF BooksInv, TablesInv, TablesOK
    <3>3. req'[r] = [req[r] EXCEPT !.stage = "lines", !.lines = read]
      BY <1>1, <2>4 DEF ReadLines
    <3> HIDE DEF read
    <3> QED BY <1>1, <3>1, <3>2, <3>3 DEF RequestRecord
  <2> QED BY <2>1, <2>2, <2>3, <2>4 DEF Read
<1>5. ReadStanding(r)' /\ SweptIsIssued(r)' /\ NamesInvoices(r)'
  BY <1>1, <1>2, <1>4
     DEF RequestInv, ReadStanding, SweptIsIssued, NamesInvoices
<1>6. VoidReadsNoSaving(r)'
  <2>1. req[r].taken \in Nat
    BY <1>1 DEF RequestRecord
  <2> QED BY <1>1, <1>2, <1>4, <2>1 DEF RequestInv, VoidReadsNoSaving
<1> QED BY <1>4, <1>5, <1>6 DEF RequestInv

LEMMA CommitAnswers ==
  ASSUME NEW r \in Requests, Commit(r) \/ GiveUp(r)
  PROVE  Answer(r)
BY DEF Commit, GiveUp, RecordPayment, SpendCredit, CreditInvoice, VoidInvoice,
       IssueInvoice, FileInvoice, ApplyLateFee, SaveCopy, SaveMerged

(* A step of one handler leaves the others' readings as they are. *)
LEMMA OneHandlerMoves ==
  ASSUME BooksInv, NEW r \in Requests,
         \/ \E i \in Invoices : Begin(r, i)
         \/ Read(r) \/ Commit(r) \/ GiveUp(r)
  PROVE  \E x : req' = [req EXCEPT ![r] = x]
<1>1. ASSUME NEW i \in Invoices, NEW route, ReadRow(r, route, i)
      PROVE  \E x : req' = [req EXCEPT ![r] = x]
  BY <1>1 DEF ReadRow
<1>2. ASSUME NEW i \in Invoices, Begin(r, i)
      PROVE  \E x : req' = [req EXCEPT ![r] = x]
  <2>1. ASSUME NEW j \in Invoices, BeginMerge(r, i, j)
        PROVE  \E x : req' = [req EXCEPT ![r] = x]
    BY <2>1 DEF BeginMerge
  <2> QED BY <1>1, <1>2, <2>1
          DEF Begin, BeginPayment, BeginApplyCredit, BeginCredit, BeginVoid,
              BeginIssue, BeginFile, BeginSweep, BeginCopy
<1>3. CASE Read(r)
  <2>1. CASE ReadPayments(r)
    BY <2>1 DEF ReadPayments
  <2>2. CASE ReadCredited(r)
    BY <2>2 DEF ReadCredited
  <2>3. CASE ReadCreditBalance(r)
    BY <2>3 DEF ReadCreditBalance
  <2>4. CASE ReadLines(r)
    BY <2>4 DEF ReadLines
  <2> QED BY <1>3, <2>1, <2>2, <2>3, <2>4 DEF Read
<1>4. CASE Commit(r) \/ GiveUp(r)
  BY <1>4, CommitAnswers DEF Answer
<1> QED BY <1>2, <1>3, <1>4

LEMMA RequestsKeep ==
  ASSUME BooksInv, [Next]_vars
  PROVE  RequestsInv' /\ req' \in [Requests -> RequestRecord]
<1>1. [DeskNext]_tables
  BY BooksStepAtDesk
<1>2. req \in [Requests -> RequestRecord]
  BY DEF BooksInv, TypeOK
<1>3. ASSUME NEW r \in Requests, req'[r] = req[r]
      PROVE  RequestInv(r)' /\ req'[r] \in RequestRecord
  BY <1>1, <1>2, <1>3, WaitingKeeps
<1>4. ASSUME NEW r \in Requests,
             \/ \E i \in Invoices : Begin(r, i)
             \/ Read(r) \/ Commit(r) \/ GiveUp(r)
      PROVE  RequestInv(r)' /\ req'[r] \in RequestRecord
  <2>1. CASE \E i \in Invoices : Begin(r, i)
    BY <2>1, BeginIsSound
  <2>2. CASE Read(r)
    BY <2>2, ReadIsSound
  <2>3. CASE Commit(r) \/ GiveUp(r)
    <3>1. req'[r] = Idle
      BY <1>2, <2>3, CommitAnswers DEF Answer
    <3> QED BY <3>1, IdleIsSound
  <2> QED BY <1>4, <2>1, <2>2, <2>3
<1>5. CASE \E s \in Requests :
             \/ \E i \in Invoices : Begin(s, i)
             \/ Read(s) \/ Commit(s) \/ GiveUp(s)
  <2>1. PICK s \in Requests : \/ \E i \in Invoices : Begin(s, i)
                              \/ Read(s) \/ Commit(s) \/ GiveUp(s)
    BY <1>5
  <2>2. PICK x : req' = [req EXCEPT ![s] = x]
    BY <2>1, OneHandlerMoves
  <2>3. RequestInv(s)' /\ req'[s] \in RequestRecord
    BY <1>4, <2>1
  <2>4. ASSUME NEW r \in Requests, r # s
        PROVE  RequestInv(r)' /\ req'[r] \in RequestRecord
    <3>1. req'[r] = req[r]
      BY <1>2, <2>2, <2>4
    <3> QED BY <1>3, <3>1
  <2> QED BY <1>2, <2>2, <2>3, <2>4 DEF RequestsInv
<1>6. CASE req' = req
  BY <1>2, <1>3, <1>6 DEF RequestsInv
<1> QED BY <1>5, <1>6 DEF Next, vars, CreateInvoice, WriteDraft, SaveDraft,
                          RestoreInvoice, VoidCreditNote

-----------------------------------------------------------------------------
(* The theorems. *)

LEMMA BooksInvInit == BooksInit => BooksInv
<1> SUFFICES ASSUME BooksInit PROVE BooksInv
  OBVIOUS
<1>1. TablesInv
  BY InitIsSound DEF BooksInit
<1>2. Idle \in RequestRecord
  BY DEF Idle, RequestRecord, Statuses
<1>3. req \in [Requests -> RequestRecord]
  BY <1>2 DEF BooksInit
<1>4. RequestsInv
  BY DEF BooksInit, RequestsInv, RequestInv, ReadStanding, SweptIsIssued,
         VoidReadsNoSaving, NamesInvoices, Idle
<1> QED BY <1>1, <1>3, <1>4 DEF BooksInv, TypeOK, TablesInv

LEMMA BooksInvKept == BooksInv /\ [Next]_vars => BooksInv'
<1> SUFFICES ASSUME BooksInv, [Next]_vars PROVE BooksInv'
  OBVIOUS
<1>1. TablesInv'
  BY BooksStepAtDesk, DeskKeeps DEF BooksInv
<1> QED BY <1>1, RequestsKeep DEF BooksInv, TypeOK, TablesInv

THEOREM BooksAreSound == Spec => []BooksInv
<1>1. Spec => []BooksInv
  BY BooksInvInit, BooksInvKept, PTL DEF Spec
<1> QED BY <1>1

(* Every table and every handler's reading stays what its column holds:
   balances of notes, fees and totals never go below nothing. *)
THEOREM TypesHold == Spec => []TypeOK
<1>1. BooksInv => TypeOK
  BY DEF BooksInv
<1> QED BY <1>1, BooksAreSound, PTL

(* However the handlers overlap, they have the effects of the desk. *)
THEOREM ServedLikeTheDesk == Spec => ServedOneAtATime
<1>1. BooksInit => Init
  BY DEF BooksInit
<1>2. BooksInv /\ [Next]_vars => [DeskNext]_tables
  BY BooksStepAtDesk
<1> QED BY <1>1, <1>2, BooksAreSound, PTL DEF Spec, ServedOneAtATime, DeskSpec

(* What the ledger carries for an invoice that stands is what it was issued
   for and charged, less what settled it, at any rate and however its payments,
   its credit and its notes interleaved (postInvoiceIssued, clearedInBase). *)
THEOREM ReceivableIsOwed == Spec => []ReceivableIsWhatIsOwed
<1>1. BooksInv => ReceivableIsWhatIsOwed
  BY TablesInvIsSound DEF BooksInv
<1> QED BY <1>1, BooksAreSound, PTL

(* A draft is not in the books, and a void is reversed whole but for a fee
   charged after it (reverseStanding). *)
THEOREM OnlyStandingAreInTheBooks == Spec => []OnlyStandingInvoicesAreInTheBooks
<1>1. BooksInv => OnlyStandingInvoicesAreInTheBooks
  BY TablesInvIsSound DEF BooksInv
<1> QED BY <1>1, BooksAreSound, PTL

(* No payment and no live note is left on a void invoice (voidInvoice,
   holdInvoice, unmoved). *)
THEOREM NothingSettlesAVoid == Spec => []VoidSettlesNothing
<1>1. BooksInv => VoidSettlesNothing
  BY TablesInvIsSound DEF BooksInv
<1> QED BY <1>1, BooksAreSound, PTL

(* Payments, and credit notes, raised at once do not go past the total between
   them. *)
THEOREM SettlementsStayWithin == Spec => []SettledWithinTotal
<1>1. BooksInv => SettledWithinTotal
  BY TablesInvIsSound DEF BooksInv, SettledWithinTotal
<1> QED BY <1>1, BooksAreSound, PTL

(* A customer's held credit is never spent twice (holdCreditBalance), nor made
   negative by what an overpayment is worth in the base currency. *)
THEOREM CreditIsSpentOnce == Spec => []CreditNeverOverspent
<1>1. BooksInv => CreditNeverOverspent
  BY TablesInvIsSound DEF BooksInv
<1> QED BY <1>1, BooksAreSound, PTL

(* The status column agrees with the payments and notes beside it. *)
THEOREM StatusIsTheBalance == Spec => []StatusTellsTheBalance
<1>1. BooksInv => StatusTellsTheBalance
  BY TablesInvIsSound DEF BooksInv
<1> QED BY <1>1, BooksAreSound, PTL

(* No handler brings a void invoice back. *)
THEOREM VoidStaysVoid == Spec => VoidIsFinal
<1> DEFINE A == \A i \in Invoices : status[i] = "void" => status'[i] = "void"
<1>1. BooksInv /\ [Next]_vars => [A]_tables
  BY BooksStepAtDesk, DeskNeverGoesBack DEF BooksInv
<1> QED BY <1>1, BooksAreSound, PTL DEF Spec, VoidIsFinal

(* No handler changes what an issued invoice asks for, but for one late fee:
   an edit and an issue cannot both have their way. *)
THEOREM IssuedTotalsStay == Spec => IssuedTotalsAreFixed
<1> DEFINE A == \A i \in Invoices : status[i] \notin {"none", "draft"} =>
                  \/ total'[i] = total[i] /\ fee'[i] = fee[i]
                  \/ fee[i] = 0 /\ total'[i] = total[i] + fee'[i]
<1>1. BooksInv /\ [Next]_vars => [A]_tables
  BY BooksStepAtDesk, DeskNeverGoesBack DEF BooksInv
<1> QED BY <1>1, BooksAreSound, PTL DEF Spec, IssuedTotalsAreFixed

-----------------------------------------------------------------------------
(* Merging. *)

(* A draft a merge claimed lies in the Deleted tab, and no other merge claimed
   it. *)
MergedInv ==
  \A j \in Invoices :
    /\ \A d \in mergedFrom[j] : filed[d]
    /\ \A i \in Invoices : i # j => mergedFrom[i] \cap mergedFrom[j] = {}

(* Nothing but a restore takes a filed draft out again, and a merge takes only
   drafts that are not filed. *)
LEMMA MergedKept ==
  ASSUME BooksInv, MergedInv, "restore" \notin Routes, [Next]_vars
  PROVE  MergedInv'
<1>1. /\ filed \in [Invoices -> BOOLEAN]
      /\ mergedFrom \in [Invoices -> SUBSET Invoices]
  BY DEF BooksInv, TablesInv, TablesOK
<1>2. ASSUME UNCHANGED <<filed, mergedFrom>> PROVE MergedInv'
  BY <1>2 DEF MergedInv
<1>3. ASSUME NEW i \in Invoices, UNCHANGED filed,
             mergedFrom' = [mergedFrom EXCEPT ![i] = {}]
      PROVE  MergedInv'
  BY <1>1, <1>3 DEF MergedInv
<1>4. ASSUME NEW r \in Requests, NEW i \in Invoices, SaveMerged(r, i)
      PROVE  MergedInv'
  <2> DEFINE drafts == {req[r].inv, req[r].other}
  <2>1. /\ \A d \in drafts : ~filed[d]
        /\ filed' = [d \in Invoices |-> filed[d] \/ d \in drafts]
        /\ mergedFrom' = [mergedFrom EXCEPT ![i] = drafts]
    BY <1>4 DEF SaveMerged, MergeDrafts, InsertInvoice
  <2>2. drafts \subseteq Invoices
    BY <1>4 DEF SaveMerged, At, BooksInv, RequestsInv, RequestInv, NamesInvoices
  <2> HIDE DEF drafts
  <2>3. \A j \in Invoices : mergedFrom[j] \cap drafts = {}
    BY <2>1 DEF MergedInv
  <2> QED BY <1>1, <2>1, <2>2, <2>3 DEF MergedInv
<1>5. CASE UNCHANGED tables
  BY <1>2, <1>5 DEF tables, rowVars
<1>6. ASSUME NEW r \in Requests, NEW i \in Invoices, SaveCopy(r, i)
      PROVE  MergedInv'
  BY <1>3, <1>6 DEF SaveCopy, CopyInvoice, InsertInvoice
<1>7. ASSUME NEW r \in Requests, FileInvoice(r) PROVE MergedInv'
  BY <1>1, <1>7 DEF FileInvoice, FileAway, MergedInv
<1>8. ASSUME NEW r \in Requests,
             \/ RecordPayment(r) \/ SpendCredit(r) \/ VoidInvoice(r)
             \/ IssueInvoice(r) \/ ApplyLateFee(r)
             \/ \E n \in Notes : CreditInvoice(r, n)
      PROVE  UNCHANGED <<filed, mergedFrom>>
  <2>1. CASE RecordPayment(r)
    BY <2>1 DEF RecordPayment, Pay
  <2>2. CASE SpendCredit(r)
    BY <2>2 DEF SpendCredit, ApplyCredit
  <2>3. CASE VoidInvoice(r)
    BY <2>3 DEF VoidInvoice, Void
  <2>4. CASE IssueInvoice(r)
    BY <2>4 DEF IssueInvoice, Issue
  <2>5. CASE ApplyLateFee(r)
    BY <2>5 DEF ApplyLateFee, ChargeLateFee
  <2>6. CASE \E n \in Notes : CreditInvoice(r, n)
    BY <2>6 DEF CreditInvoice, RaiseCreditNote
  <2> QED BY <1>8, <2>1, <2>2, <2>3, <2>4, <2>5, <2>6
<1>9. CASE CreateInvoice
  BY <1>3, <1>9 DEF CreateInvoice, Create, InsertInvoice
<1>10. CASE WriteDraft
  BY <1>3, <1>10 DEF WriteDraft, CreateDraft, InsertInvoice
<1>11. CASE SaveDraft \/ VoidCreditNote
  BY <1>2, <1>11 DEF SaveDraft, EditDraft, VoidCreditNote, VoidNote
<1>12. ASSUME NEW r \in Requests,
              (\E i \in Invoices : Begin(r, i)) \/ Read(r) \/ GiveUp(r)
       PROVE  UNCHANGED tables
  BY <1>12 DEF Begin, BeginPayment, BeginApplyCredit, BeginCredit, BeginVoid,
     BeginIssue, BeginFile, BeginSweep, BeginCopy, BeginMerge, ReadRow, Read,
     ReadPayments, ReadCredited, ReadCreditBalance, ReadLines, GiveUp
<1>13. ~RestoreInvoice
  BY DEF RestoreInvoice
<1>14. CASE UNCHANGED vars
  BY <1>5, <1>14 DEF vars
<1> QED BY <1>2, <1>4, <1>5, <1>6, <1>7, <1>8, <1>9, <1>10, <1>11, <1>12, <1>13, <1>14
        DEF Next, Commit

(* However many requests merge the same drafts, one merge alone claims each
   (the claim on `status = 'draft' and deletedAt is null`). *)
THEOREM DraftsAreMergedOnce == Spec => []DraftsMergedOnce
<1>1. CASE "restore" \notin Routes
  <2>1. BooksInit => MergedInv
    BY DEF BooksInit, Init, MergedInv
  <2>2. BooksInv /\ MergedInv /\ [Next]_vars => MergedInv'
    BY <1>1, MergedKept
  <2>3. MergedInv => DraftsMergedOnce
    BY DEF MergedInv, DraftsMergedOnce
  <2> QED BY <2>1, <2>2, <2>3, BooksAreSound, PTL DEF Spec
<1>2. CASE "restore" \in Routes
  <2>1. DraftsMergedOnce
    BY <1>2 DEF DraftsMergedOnce
  <2> QED BY <2>1, PTL
<1> QED BY <1>1, <1>2

-----------------------------------------------------------------------------
(* The customers' balances, added up. *)

(* What every set of customers holds, one taken away at a time. *)
AddsUp(g) ==
  g = [s \in SUBSET Customers |->
         IF s = {} THEN 0
         ELSE credit[CHOOSE c \in s : TRUE] + g[s \ {CHOOSE c \in s : TRUE}]]

LEMMA SubledgerIsTheSum ==
  LiabilityIsTheSubledger <=> liability = (CHOOSE g : AddsUp(g))[Customers]
BY Zenon DEF LiabilityIsTheSubledger, MapThenSumSet, MapThenFoldSet, AddsUp

LEMMA NatMin ==
  ASSUME NEW S, S \subseteq Nat, S # {}
  PROVE  \E x \in S : \A y \in S : x <= y
<1> DEFINE R == OpToRel(<, Nat)
<1>1. IsWellFoundedOn(R, Nat)
  BY NatLessThanWellFounded
<1> HIDE DEF R
<1>2. PICK x \in S : \A y \in S : ~(<<y, x>> \in R)
  BY <1>1, WFMin, Zenon
<1>3. ASSUME NEW y \in S PROVE x <= y
  <2>1. <<y, x>> \notin R
    BY <1>2
  <2>2. ~(y < x)
    BY <2>1 DEF R, OpToRel
  <2> QED
    BY <2>2
<1> QED
  BY <1>3

(* Finitely many customers have one sum: the smallest set two sums differ on
   would leave, less one customer, a smaller one. *)
LEMMA OneSum ==
  ASSUME IsFiniteSet(Customers), NEW g, AddsUp(g), NEW h, AddsUp(h)
  PROVE  g[Customers] = h[Customers]
<1> DEFINE Differ == {n \in Nat : \E s \in SUBSET Customers :
                                    Cardinality(s) = n /\ g[s] # h[s]}
<1>1. \A s \in SUBSET Customers : IsFiniteSet(s) /\ Cardinality(s) \in Nat
  BY FS_Subset, FS_CardinalityType
<1>2. SUFFICES ASSUME Differ # {} PROVE FALSE
  BY <1>1
<1>3. Differ \subseteq Nat
  OBVIOUS
<1>4. PICK n \in Differ : \A m \in Differ : n <= m
  <2> HIDE DEF Differ
  <2> QED
    BY <1>2, <1>3, NatMin
<1>5. PICK s \in SUBSET Customers : Cardinality(s) = n /\ g[s] # h[s]
  BY <1>4
<1>6. PICK c : c = CHOOSE x \in s : TRUE
  OBVIOUS
<1>7. /\ g[s] = IF s = {} THEN 0 ELSE credit[c] + g[s \ {c}]
      /\ h[s] = IF s = {} THEN 0 ELSE credit[c] + h[s \ {c}]
  BY <1>6, Zenon DEF AddsUp
<1>8. s # {}
  BY <1>5, <1>7
<1>9. c \in s
  BY <1>6, <1>8
<1>10. PICK t \in SUBSET Customers : t = s \ {c}
  OBVIOUS
<1>11. Cardinality(t) = n - 1 /\ n - 1 \in Nat
  <2>1. Cardinality(t) = Cardinality(s) - 1
    BY <1>1, <1>9, <1>10, FS_RemoveElement
  <2>2. Cardinality(t) \in Nat /\ n \in Nat
    BY <1>1, <1>3, <1>4
  <2> QED
    BY <1>5, <2>1, <2>2
<1>12. n - 1 \notin Differ
  BY <1>3, <1>4, <1>11
<1>13. g[t] = h[t]
  BY <1>11, <1>12
<1> QED
  BY <1>5, <1>7, <1>8, <1>10, <1>13

(* The ledger carries that sum. *)
SubledgerInv ==
  \E g \in [SUBSET Customers -> Int] : AddsUp(g) /\ g[Customers] = liability

LEMMA SubledgerHolds ==
  ASSUME IsFiniteSet(Customers), SubledgerInv
  PROVE  LiabilityIsTheSubledger
<1>1. PICK g \in [SUBSET Customers -> Int] : AddsUp(g) /\ g[Customers] = liability
  BY DEF SubledgerInv
<1>2. PICK h : h = CHOOSE f : AddsUp(f)
  OBVIOUS
<1>3. AddsUp(h)
  BY <1>1, <1>2
<1>4. h[Customers] = liability
  BY <1>1, <1>3, OneSum
<1> QED
  BY <1>2, <1>4, SubledgerIsTheSum

LEMMA SubledgerStarts == ASSUME Init PROVE SubledgerInv
<1> DEFINE g == [s \in SUBSET Customers |-> 0]
<1>1. credit = [c \in Customers |-> 0] /\ liability = 0
  BY DEF Init
<1>2. ASSUME NEW s \in SUBSET Customers
      PROVE  g[s] = IF s = {} THEN 0
                    ELSE credit[CHOOSE c \in s : TRUE]
                           + g[s \ {CHOOSE c \in s : TRUE}]
  <2>1. CASE s = {}
    BY <2>1
  <2>2. CASE s # {}
    <3>1. PICK c : c = CHOOSE x \in s : TRUE
      OBVIOUS
    <3>2. c \in Customers
      BY <2>2, <3>1
    <3>3. credit[c] = 0 /\ g[s \ {c}] = 0 /\ g[s] = 0
      BY <1>1, <3>2
    <3> HIDE DEF g
    <3>4. g[s] = credit[c] + g[s \ {c}]
      BY <3>3
    <3> QED
      BY <2>2, <3>1, <3>4
  <2> QED
    BY <2>1, <2>2
<1>3. AddsUp(g)
  BY <1>2 DEF AddsUp
<1>4. g \in [SUBSET Customers -> Int] /\ g[Customers] = liability
  BY <1>1
<1> QED
  BY <1>3, <1>4 DEF SubledgerInv

(* One customer's balance and the ledger's account move by the same cents. *)
MovesBy(c, x) ==
  credit' = [credit EXCEPT ![c] = @ + x] /\ liability' = liability + x

LEMMA SubledgerMoves ==
  ASSUME TablesOK, SubledgerInv, NEW c \in Customers, NEW x \in Int, MovesBy(c, x)
  PROVE  SubledgerInv'
<1>1. PICK g \in [SUBSET Customers -> Int] : AddsUp(g) /\ g[Customers] = liability
  BY DEF SubledgerInv
<1> DEFINE h == [s \in SUBSET Customers |-> g[s] + (IF c \in s THEN x ELSE 0)]
<1>2. ASSUME NEW s \in SUBSET Customers
      PROVE  h[s] = IF s = {} THEN 0
                    ELSE credit'[CHOOSE y \in s : TRUE]
                           + h[s \ {CHOOSE y \in s : TRUE}]
  <2>1. PICK y : y = CHOOSE z \in s : TRUE
    OBVIOUS
  <2>2. g[s] = IF s = {} THEN 0 ELSE credit[y] + g[s \ {y}]
    BY <1>1, <2>1, Zenon DEF AddsUp
  <2>3. CASE s = {}
    BY <2>2, <2>3
  <2>4. CASE s # {}
    <3>1. y \in s /\ y \in Customers
      BY <2>1, <2>4
    <3>2. PICK t \in SUBSET Customers : t = s \ {y}
      OBVIOUS
    <3>3. credit[y] \in Int /\ credit'[y] = credit[y] + (IF y = c THEN x ELSE 0)
      BY <3>1 DEF TablesOK, MovesBy
    <3>4. PICK a \in Int : a = credit[y]
      BY <3>3
    <3>5. PICK b \in Int : b = g[t]
      BY <1>1
    <3>6. g[s] = a + b
      BY <2>2, <2>4, <3>2, <3>4, <3>5
    <3>7. h[s] = a + b + (IF c \in s THEN x ELSE 0)
      BY <3>6
    <3>8. h[t] = b + (IF c \in t THEN x ELSE 0)
      BY <3>5
    <3>9. credit'[y] = a + (IF y = c THEN x ELSE 0)
      BY <3>3, <3>4
    <3> HIDE DEF h
    <3>10. h[s] = credit'[y] + h[t]
      BY <3>1, <3>2, <3>7, <3>8, <3>9
    <3> QED
      BY <2>1, <2>4, <3>2, <3>10
  <2> QED
    BY <2>3, <2>4
<1>3. AddsUp(h)'
  BY <1>2 DEF AddsUp
<1>4. h \in [SUBSET Customers -> Int]
  BY <1>1
<1>5. h[Customers] = liability'
  BY <1>1 DEF MovesBy
<1> HIDE DEF h
<1> QED
  BY <1>3, <1>4, <1>5 DEF SubledgerInv

(* An overpayment is held, and held credit is spent, in one commit with its
   entry; nothing else touches either. *)
LEMMA DeskMovesCredit ==
  ASSUME TablesInv, [DeskNext]_tables
  PROVE  \/ UNCHANGED <<credit, liability>>
         \/ \E c \in Customers, x \in Int : MovesBy(c, x)
<1>1. ASSUME NEW i \in Invoices, PayAtDesk(i)
      PROVE  \/ UNCHANGED <<credit, liability>>
             \/ \E c \in Customers, x \in Int : MovesBy(c, x)
  <2>1. PICK amount \in Amounts, discounted \in BOOLEAN, rate \in RatesOn(i) :
          Pay(i, Figures(i), amount, discounted, rate)
    BY <1>1 DEF PayAtDesk
  <2>2. amount \in Nat /\ rate \in Nat
    BY AmountsAssumption, RatesAssumption DEF RatesOn, RATE_SCALE
  <2> DEFINE forgiven == IF discounted
                         THEN EarlySaving(EarlyDiscount[i], Figures(i).total)
                         ELSE Figures(i).taken
  <2>3. PICK owed : owed = AtLeastZero(Figures(i).total - forgiven
                                         - Figures(i).paid - Figures(i).credited)
    OBVIOUS
  <2>4. PICK applied : applied = Lesser(amount, owed)
    OBVIOUS
  <2>5. PICK over : over = ToBaseCents(amount, rate) - ToBaseCents(applied, rate)
    OBVIOUS
  <2>6. /\ amount > owed => CustomerOf[i] # NoCustomer
        /\ RecordCreditMovement(i, over)
        /\ liability' = liability + over
    BY <2>1, <2>3, <2>4, <2>5 DEF Pay
  <2>7. owed \in Int
    <3>1. /\ Figures(i).total \in Int /\ Figures(i).paid \in Int
          /\ Figures(i).credited \in Int /\ Figures(i).taken \in Int
      <4>1. /\ total[i] \in Nat /\ taken[i] \in Nat /\ paid[i] \in Nat
            /\ Credited(i) \in Nat
        BY FiguresType
      <4> QED
        BY <4>1, FiguresType
    <3>2. EarlyDiscount[i] \in Int
      BY AmountsAssumption
    <3>3. EarlySaving(EarlyDiscount[i], Figures(i).total) \in Int
      BY <3>1, <3>2 DEF EarlySaving, AtLeastZero, Lesser
    <3>4. forgiven \in Int
      BY <3>1, <3>3
    <3> HIDE DEF forgiven
    <3> QED
      BY <2>3, <3>1, <3>4 DEF AtLeastZero
  <2>8. applied \in Int /\ (applied # amount => amount > owed)
    BY <2>2, <2>4, <2>7 DEF Lesser
  <2>9. over \in Int
    <3>1. ToBaseCents(amount, rate) \in Int /\ ToBaseCents(applied, rate) \in Int
      BY <2>2, <2>8, ToBaseCentsType
    <3> QED
      BY <2>5, <3>1
  <2>10. CASE over = 0
    <3>1. credit' = credit
      BY <2>6, <2>10 DEF RecordCreditMovement
    <3>2. liability' = liability
      BY <2>6, <2>10 DEF TablesInv, TablesOK
    <3> QED
      BY <3>1, <3>2
  <2>11. CASE over # 0
    <3>1. applied # amount
      <4>1. applied = amount => over = 0
        <5>1. ToBaseCents(amount, rate) \in Int
          BY <2>2, ToBaseCentsType
        <5> QED
          BY <2>5, <5>1
      <4> QED
        BY <2>11, <4>1
    <3>2. CustomerOf[i] \in Customers
      BY <2>6, <2>8, <3>1, CustomersAssumption
    <3>3. MovesBy(CustomerOf[i], over)
      BY <2>6, <2>11 DEF RecordCreditMovement, MovesBy
    <3> QED
      BY <2>9, <3>2, <3>3
  <2> QED
    BY <2>10, <2>11
<1>2. ASSUME NEW i \in Invoices, SpendCreditAtDesk(i)
      PROVE  \E c \in Customers, x \in Int : MovesBy(c, x)
  <2>1. PICK applied : applied = Lesser(credit[CustomerOf[i]], Owed(Figures(i)))
    OBVIOUS
  <2>2. /\ CustomerOf[i] # NoCustomer /\ applied > 0
        /\ RecordCreditMovement(i, -applied)
        /\ liability' = liability - applied
    BY <1>2, <2>1 DEF SpendCreditAtDesk, ApplyCredit
  <2>3. CustomerOf[i] \in Customers
    BY <2>2, CustomersAssumption
  <2>4. credit[CustomerOf[i]] \in Int
    BY <2>3 DEF TablesInv, TablesOK
  <2>5. Owed(Figures(i)) \in Int
    <3>1. /\ Figures(i).total \in Int /\ Figures(i).paid \in Int
          /\ Figures(i).credited \in Int /\ Figures(i).taken \in Int
      <4>1. /\ total[i] \in Nat /\ taken[i] \in Nat /\ paid[i] \in Nat
            /\ Credited(i) \in Nat
        BY FiguresType
      <4> QED
        BY <4>1, FiguresType
    <3> QED
      BY <3>1 DEF Owed, Settled, AtLeastZero
  <2>6. applied \in Int
    BY <2>1, <2>4, <2>5 DEF Lesser
  <2>7. credit' = [credit EXCEPT ![CustomerOf[i]] = @ + (-applied)]
    BY <2>2, <2>6 DEF RecordCreditMovement
  <2>8. liability' = liability + (-applied) /\ -applied \in Int
    BY <2>2, <2>6 DEF TablesInv, TablesOK
  <2> QED
    BY <2>3, <2>7, <2>8 DEF MovesBy
<1>3. CASE DraftWork \/ UNCHANGED tables
  BY <1>3 DEF DraftWork, tables, customerVars
<1>4. ASSUME NEW i \in Invoices, NEW cents \in Amounts, Create(i, cents) \/ Issue(i)
      PROVE  UNCHANGED <<credit, liability>>
  BY <1>4 DEF Create, InsertInvoice, Issue, customerVars
<1>5. ASSUME NEW i \in Invoices, Issue(i) PROVE UNCHANGED <<credit, liability>>
  BY <1>5 DEF Issue, customerVars
<1>6. ASSUME NEW i \in Invoices, VoidAtDesk(i) \/ ChargeFeeAtDesk(i)
      PROVE  UNCHANGED <<credit, liability>>
  BY <1>6 DEF VoidAtDesk, Void, ChargeFeeAtDesk, ChargeLateFee, customerVars
<1>7. ASSUME NEW i \in Invoices, NEW n \in Notes, CreditAtDesk(i, n)
      PROVE  UNCHANGED <<credit, liability>>
  BY <1>7 DEF CreditAtDesk, RaiseCreditNote, customerVars
<1>8. ASSUME NEW n \in Notes, VoidNote(n) PROVE UNCHANGED <<credit, liability>>
  BY <1>8 DEF VoidNote, customerVars
<1> QED
  BY <1>1, <1>2, <1>3, <1>4, <1>5, <1>6, <1>7, <1>8 DEF DeskNext

LEMMA SubledgerStep ==
  ASSUME TablesInv, SubledgerInv, [DeskNext]_tables
  PROVE  SubledgerInv'
<1>1. CASE UNCHANGED <<credit, liability>>
  BY <1>1 DEF SubledgerInv, AddsUp
<1>2. ASSUME NEW c \in Customers, NEW x \in Int, MovesBy(c, x) PROVE SubledgerInv'
  BY <1>2, SubledgerMoves DEF TablesInv
<1> QED
  BY <1>1, <1>2, DeskMovesCredit

(* What the ledger owes its customers is what their own balances add up to, for
   any finitely many of them: the ledger entry and the customer's row are
   written by one commit, in the same base cents (recordCreditMovement). *)
THEOREM LiabilityIsWhatIsHeld ==
  ASSUME IsFiniteSet(Customers) PROVE Spec => []LiabilityIsTheSubledger
<1>1. BooksInit => SubledgerInv
  BY SubledgerStarts DEF BooksInit
<1>2. BooksInv /\ SubledgerInv /\ [Next]_vars => SubledgerInv'
  BY BooksStepAtDesk, SubledgerStep DEF BooksInv
<1>3. SubledgerInv => LiabilityIsTheSubledger
  BY SubledgerHolds
<1> QED
  BY <1>1, <1>2, <1>3, BooksAreSound, PTL DEF Spec
=============================================================================
