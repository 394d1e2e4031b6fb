------------------------------- MODULE Quotes -------------------------------
(***************************************************************************)
(* A quote, from the day it is raised to the invoices it becomes           *)
(* (db/src/documents.ts, modules-free/invoicing/src/index.ts).  It is one  *)
(* document in three places: its row, its lines and its tax bands, written *)
(* together and, by a conversion, read apart.  Requests overlap: each is   *)
(* the reads it makes first and the transaction it ends in.                *)
(*                                                                         *)
(* What a quote says is one figure, its net in cents, all of it in one tax *)
(* band.  A conversion may be refused for want of an exchange rate, and a  *)
(* lapsed quote by the portal; a request that never came is the same.      *)
(***************************************************************************)
EXTENDS Integers, Sequences

CONSTANTS
  Quotes,
  Requests,
  Figures,    \* what a quote may be written or edited to say
  Plans,      \* instalment plans: their shares, in basis points
  NoQuote

WHOLE == 10000

(* The shares of a plan come to the whole of the quote. *)
SharesOf(plan, n) ==
  LET upTo[k \in 0 .. n] == IF k = 0 THEN 0 ELSE upTo[k - 1] + plan[k]
  IN  upTo[n]

ASSUME QuotesAssumption ==
  /\ NoQuote \notin Quotes
  /\ Figures # {} /\ Figures \subseteq Nat \ {0}
ASSUME PlansAssumption ==
  \A plan \in Plans :
    /\ plan \in Seq(Nat \ {0})
    /\ Len(plan) \in 2 .. 24
    /\ SharesOf(plan, Len(plan)) = WHOLE

VARIABLES
  status,      \* quotes.status, "none" before it is raised
  filed,       \* quotes.deletedAt is set
  says,        \* what its row, its lines and its bands say
  converted,   \* quotes.convertedInvoiceId is set
  raised,      \* what has been raised from it
  request      \* where each request is, and what it has read

vars == <<status, filed, says, converted, raised, request>>

Saying == [row : Figures, lines : Figures, bands : Figures]
Alike(c) == [row |-> c, lines |-> c, bands |-> c]

(* moved: the quote's updatedAt is no longer the one the request read;
   saved: an edit has changed its figures since. *)
Idle == [stage |-> "idle", quote |-> NoQuote, read |-> <<>>, plan |-> <<>>,
         claims |-> FALSE, moved |-> FALSE, saved |-> FALSE]

TypeOK ==
  /\ status \in [Quotes -> {"none", "draft", "sent", "accepted"}]
  /\ filed \in [Quotes -> BOOLEAN]
  /\ says \in [Quotes -> Saying]
  /\ converted \in [Quotes -> BOOLEAN]
  /\ raised \in [Quotes -> Seq([plan : {<<>>} \cup Plans, from : Saying,
                                undisturbed : BOOLEAN, parts : Seq(Int)])]
  /\ request \in [Requests ->
       [stage : {"idle", "editing", "mailing", "accepting", "reading",
                 "raising"},
        quote : Quotes \cup {NoQuote},
        read : Seq(Figures),
        plan : {<<>>} \cup Plans,
        claims : BOOLEAN, moved : BOOLEAN, saved : BOOLEAN]]

Raised(q) == status[q] # "none"

-----------------------------------------------------------------------------
(* apportion: each share rounded on its own, and the last takes what is left
   of the whole. *)
Rounded(total, bp) == (2 * total * bp + WHOLE) \div (2 * WHOLE)

Apportion(total, plan) ==
  LET n == Len(plan)
      upTo[k \in 0 .. n] ==
        IF k = 0 THEN 0 ELSE upTo[k - 1] + Rounded(total, plan[k])
  IN  [k \in 1 .. n |->
         IF k < n THEN Rounded(total, plan[k]) ELSE total - upTo[n - 1]]

(* The instalments of a quote whose row says net and whose band says banded:
   band by band, with a band of no tax for what is in none; and the net as
   one when the bands claim more than there is. *)
Instalments(net, banded, plan) ==
  IF banded > net
  THEN Apportion(net, plan)
  ELSE [k \in 1 .. Len(plan) |->
          Apportion(banded, plan)[k] + Apportion(net - banded, plan)[k]]

-----------------------------------------------------------------------------
(* The requests after a write of the quote, by one of them or by none: it
   moves the row's updatedAt, and may have changed its figures. *)
After(q, edited) ==
  [r \in Requests |->
     IF request[r].quote = q
     THEN [request[r] EXCEPT !.moved = TRUE, !.saved = @ \/ edited]
     ELSE request[r]]

Begin(r, q, entry) ==
  /\ request[r] = Idle
  /\ request' = [request EXCEPT ![r] = [entry EXCEPT !.quote = q]]

End(r) == request' = [request EXCEPT ![r] = Idle]
EndWriting(r, q, edited) ==
  request' = [After(q, edited) EXCEPT ![r] = Idle]

(* Raising a quote: by hand, from a deal or from a form, in one commit. *)
WriteQuote(q, c) ==
  /\ ~Raised(q)
  /\ status' = [status EXCEPT ![q] = "draft"]
  /\ says' = [says EXCEPT ![q] = Alike(c)]
  /\ UNCHANGED <<filed, converted, raised, request>>

(* Filing away and putting back ask nothing of what the quote has become. *)
FileQuote(q) ==
  /\ Raised(q) /\ ~filed[q]
  /\ filed' = [filed EXCEPT ![q] = TRUE]
  /\ request' = After(q, FALSE)
  /\ UNCHANGED <<status, says, converted, raised>>

RestoreQuote(q) ==
  /\ Raised(q)
  /\ filed' = [filed EXCEPT ![q] = FALSE]
  /\ request' = After(q, FALSE)
  /\ UNCHANGED <<status, says, converted, raised>>

-----------------------------------------------------------------------------
(* Sending: the mail goes out between the read and the write. *)
StartSend(r, q) ==
  /\ status[q] \in {"draft", "sent"} /\ ~converted[q]
  /\ Begin(r, q, [Idle EXCEPT !.stage = "mailing"])
  /\ UNCHANGED <<status, filed, says, converted, raised>>

(* Mutant: whatever became of it while the mail was going, it is sent. *)
MarkSentRegardless(r) ==
  LET q == request[r].quote
  IN  /\ request[r].stage = "mailing"
      /\ status' = [status EXCEPT ![q] = "sent"]
      /\ EndWriting(r, q, FALSE)
      /\ UNCHANGED <<filed, says, converted, raised>>

MarkSent(r) ==
  LET q == request[r].quote
  IN  /\ request[r].stage = "mailing"
      /\ IF status[q] \in {"draft", "sent"}
         THEN /\ status' = [status EXCEPT ![q] = "sent"]
              /\ EndWriting(r, q, FALSE)
         ELSE End(r) /\ UNCHANGED status
      /\ UNCHANGED <<filed, says, converted, raised>>

-----------------------------------------------------------------------------
(* Editing.  A browser that says which version it edited is held to it. *)
StartEdit(r, q, claims) ==
  /\ Raised(q) /\ ~converted[q]
  /\ Begin(r, q, [Idle EXCEPT !.stage = "editing", !.claims = claims])
  /\ UNCHANGED <<status, filed, says, converted, raised>>

Write(r, q, c) ==
  /\ says' = [says EXCEPT ![q] = Alike(c)]
  /\ EndWriting(r, q, c # says[q].row)
  /\ UNCHANGED <<status, filed, converted, raised>>

(* Mutant: the version is checked when the edit begins and not again. *)
SaveOverAnother(r, c) ==
  /\ request[r].stage = "editing"
  /\ ~converted[request[r].quote]
  /\ Write(r, request[r].quote, c)

SaveEdit(r, c) ==
  /\ request[r].stage = "editing"
  /\ ~converted[request[r].quote]
  /\ request[r].claims => ~request[r].moved
  /\ Write(r, request[r].quote, c)

EditLost(r) ==
  /\ request[r].stage = "editing"
  /\ converted[request[r].quote] \/ (request[r].claims /\ request[r].moved)
  /\ End(r)
  /\ UNCHANGED <<status, filed, says, converted, raised>>

-----------------------------------------------------------------------------
(* Converting.  The portal reads the quote once to see that it may be
   accepted, and the conversion reads it again. *)
Accept(r, q) ==
  /\ status[q] = "sent" /\ ~filed[q]
  /\ Begin(r, q, [Idle EXCEPT !.stage = "accepting"])
  /\ UNCHANGED <<status, filed, says, converted, raised>>

Convertible(q) == Raised(q) /\ ~converted[q]

(* Staff press convert: one invoice, or a plan. *)
StartConvert(r, q, plan) ==
  /\ Convertible(q)
  /\ Begin(r, q, [Idle EXCEPT !.stage = "reading", !.plan = plan,
                              !.read = <<says[q].row>>])
  /\ UNCHANGED <<status, filed, says, converted, raised>>

StartAccepted(r) ==
  LET q == request[r].quote
  IN  /\ request[r].stage = "accepting"
      /\ IF Convertible(q)
         THEN request' = [request EXCEPT ![r].stage = "reading",
                                         ![r].read = <<says[q].row>>,
                                         ![r].saved = FALSE]
         ELSE End(r)
      /\ UNCHANGED <<status, filed, says, converted, raised>>

(* The lines for one invoice, the bands for a plan. *)
ReadOn(r) ==
  LET q == request[r].quote
  IN  /\ request[r].stage = "reading"
      /\ request' = [request EXCEPT ![r].stage = "raising",
           ![r].read = @ \o <<IF request[r].plan = <<>> THEN says[q].lines
                              ELSE says[q].bands>>]
      /\ UNCHANGED <<status, filed, says, converted, raised>>

(* What the transaction writes, from what was read before it and, for one
   invoice, the bands as they are inside it. *)
InvoiceFrom(r) ==
  LET net == request[r].read[1]
      then == request[r].read[2]
      plan == request[r].plan
  IN  [plan |-> plan,
       undisturbed |-> ~request[r].saved,
       from |-> IF plan = <<>>
                THEN [row |-> net, lines |-> then,
                      bands |-> says[request[r].quote].bands]
                ELSE [row |-> net, lines |-> net, bands |-> then],
       parts |-> IF plan = <<>> THEN <<net>>
                 ELSE Instalments(net, then, plan)]

(* Mutant: the quote is marked by its id alone. *)
RaiseUnclaimed(r) ==
  LET q == request[r].quote
  IN  /\ request[r].stage = "raising"
      /\ raised' = [raised EXCEPT ![q] = Append(@, InvoiceFrom(r))]
      /\ converted' = [converted EXCEPT ![q] = TRUE]
      /\ status' = [status EXCEPT ![q] = "accepted"]
      /\ EndWriting(r, q, FALSE)
      /\ UNCHANGED <<filed, says>>

(* Mutant: the quote is given a status that no tab of the list has. *)
RaiseInvoiced(r) ==
  LET q == request[r].quote
  IN  /\ request[r].stage = "raising" /\ ~converted[q]
      /\ raised' = [raised EXCEPT ![q] = Append(@, InvoiceFrom(r))]
      /\ converted' = [converted EXCEPT ![q] = TRUE]
      /\ status' = [status EXCEPT ![q] = "invoiced"]
      /\ EndWriting(r, q, FALSE)
      /\ UNCHANGED <<filed, says>>

(* One that finds the quote converted takes its invoice back out. *)
Raise(r) ==
  LET q == request[r].quote
  IN  /\ request[r].stage = "raising"
      /\ IF converted[q]
         THEN End(r) /\ UNCHANGED <<raised, converted, status>>
         ELSE /\ raised' = [raised EXCEPT ![q] = Append(@, InvoiceFrom(r))]
              /\ converted' = [converted EXCEPT ![q] = TRUE]
              /\ status' = [status EXCEPT ![q] = "accepted"]
              /\ EndWriting(r, q, FALSE)
      /\ UNCHANGED <<filed, says>>
-----------------------------------------------------------------------------
Init ==
  /\ status = [q \in Quotes |-> "none"]
  /\ filed = [q \in Quotes |-> FALSE]
  /\ says = [q \in Quotes |-> Alike(CHOOSE c \in Figures : TRUE)]
  /\ converted = [q \in Quotes |-> FALSE]
  /\ raised = [q \in Quotes |-> <<>>]
  /\ request = [r \in Requests |-> Idle]

Next ==
  \/ \E q \in Quotes :
       \/ \E c \in Figures : WriteQuote(q, c)
       \/ FileQuote(q) \/ RestoreQuote(q)
  \/ \E r \in Requests, q \in Quotes :
       \/ StartSend(r, q) \/ Accept(r, q)
       \/ \E claims \in BOOLEAN : StartEdit(r, q, claims)
       \/ \E plan \in {<<>>} \cup Plans : StartConvert(r, q, plan)
  \/ \E r \in Requests :
       \/ MarkSent(r) \/ EditLost(r)
       \/ \E c \in Figures : SaveEdit(r, c)
       \/ StartAccepted(r) \/ ReadOn(r) \/ Raise(r)

Spec == Init /\ [][Next]_vars

-----------------------------------------------------------------------------
(* Two routes convert a quote, and the customer may press one of them while
   the business presses the other: it becomes one invoice, or one plan. *)
ConvertedOnce(q) ==
  /\ Len(raised[q]) <= 1
  /\ converted[q] <=> raised[q] # <<>>

(* The invoices of a quote bill what it says, to the cent: all of them
   together, when its figures were not edited while they were made; and then
   their lines and their bands are the quote's too. *)
InvoicedAsQuoted(q) ==
  \A k \in 1 .. Len(raised[q]) :
    raised[q][k].undisturbed =>
      /\ raised[q][k].from = says[q]
      /\ SharesOf(raised[q][k].parts, Len(raised[q][k].parts)) = says[q].row

(* A quote is billed once, and for what it says. *)
BilledOnceAsQuoted == \A q \in Quotes : ConvertedOnce(q) /\ InvoicedAsQuoted(q)

(* A customer's answer stands: nothing that was on its way when it came puts
   the quote back on offer. *)
AnswerStands ==
  [][\A q \in Quotes : status[q] = "accepted" => status'[q] = "accepted"]_status

(* What an invoice was copied from is not edited afterwards, whoever had it
   open, and a save that says which version it edited never replaces figures
   its editor had not seen. *)
SavesReplaceNothingUnseen ==
  [][/\ \A q \in Quotes : converted[q] => says'[q] = says[q]
     /\ \A r \in Requests :
          request[r].claims /\ request[r].saved => request'[r] # Idle]_says
=============================================================================
