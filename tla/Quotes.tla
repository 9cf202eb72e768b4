-------------------------------- MODULE Quotes --------------------------------
(***************************************************************************)
(* Sales quotes. A request reads the quote, checks its status and then     *)
(* writes it without looking again; only a conversion is a transaction, and *)
(* the work order number it takes depends on the quote alone.              *)
(***************************************************************************)
EXTENDS WorkOrders

CONSTANTS
  QuoteIds,
  Sellers,    \* requests that may overlap
  NumberOf    \* generateWorkOrderNumber: quote -> work order number

ASSUME QuotesAssumption == NumberOf \in [QuoteIds -> WorkOrders]

VARIABLES
  quoteStatus,
  convertedWo,
  selling      \* seller -> the quote it has checked, and what for

quoteVars == <<quoteStatus, convertedWo, selling>>

QuoteStates == {"ABSENT", "DRAFT", "SENT", "ACCEPTED", "REJECTED", "CONVERTED"}
Deals       == {"send", "accept", "reject", "convert"}

QuotesTypeOK ==
  /\ quoteStatus \in [QuoteIds -> QuoteStates]
  /\ convertedWo \in [QuoteIds -> WorkOrders \cup {Nothing}]
  /\ selling \in [Sellers -> (QuoteIds \X Deals) \cup {Nothing}]

QuotesInit ==
  /\ quoteStatus = [q \in QuoteIds |-> "ABSENT"]
  /\ convertedWo = [q \in QuoteIds |-> Nothing]
  /\ selling = [s \in Sellers |-> Nothing]

CreateQuote(q) ==
  /\ quoteStatus[q] = "ABSENT"
  /\ quoteStatus' = [quoteStatus EXCEPT ![q] = "DRAFT"]
  /\ UNCHANGED <<convertedWo, selling>>

Requires == [deal \in Deals |->
  CASE deal = "send"    -> "DRAFT"
    [] deal = "convert" -> "ACCEPTED"
    [] OTHER            -> "SENT"]

CheckQuote(s, q, deal) ==
  /\ selling[s] = Nothing
  /\ quoteStatus[q] = Requires[deal]
  /\ deal = "convert" => convertedWo[q] = Nothing
  /\ selling' = [selling EXCEPT ![s] = <<q, deal>>]
  /\ UNCHANGED <<quoteStatus, convertedWo>>

\* The write of sendQuote, acceptQuote and rejectQuote.
WriteQuote(s, q, deal, status) ==
  /\ selling[s] = <<q, deal>>
  /\ quoteStatus' = [quoteStatus EXCEPT ![q] = status]
  /\ selling' = [selling EXCEPT ![s] = Nothing]
  /\ UNCHANGED convertedWo

SendQuote(s, q)   == WriteQuote(s, q, "send", "SENT")
AcceptQuote(s, q) == WriteQuote(s, q, "accept", "ACCEPTED")
RejectQuote(s, q) == WriteQuote(s, q, "reject", "REJECTED")

\* Mutant of ConvertQuoteToWorkOrder: each conversion draws a number of its own.
ConvertToAnyNumber(s, q) ==
  /\ selling[s] = <<q, "convert">>
  /\ \E w \in WorkOrders :
       /\ NewOrder(w, "READY", q)
       /\ convertedWo' = [convertedWo EXCEPT ![q] = w]
  /\ quoteStatus' = [quoteStatus EXCEPT ![q] = "CONVERTED"]
  /\ selling' = [selling EXCEPT ![s] = Nothing]

ConvertQuoteToWorkOrder(s, q) ==
  /\ selling[s] = <<q, "convert">>
  /\ NewOrder(NumberOf[q], "READY", q)
  /\ quoteStatus' = [quoteStatus EXCEPT ![q] = "CONVERTED"]
  /\ convertedWo' = [convertedWo EXCEPT ![q] = NumberOf[q]]
  /\ selling' = [selling EXCEPT ![s] = Nothing]

\* The conversion is rolled back (its number is taken), or a request dies
\* before it writes.
DropDeal(s) ==
  /\ selling[s] # Nothing
  /\ selling' = [selling EXCEPT ![s] = Nothing]
  /\ UNCHANGED <<quoteStatus, convertedWo>>

\* Every step but the conversion, which also makes an order.
QuotesNext ==
  \/ \E q \in QuoteIds : CreateQuote(q)
  \/ \E s \in Sellers, q \in QuoteIds :
       \/ \E deal \in Deals : CheckQuote(s, q, deal)
       \/ SendQuote(s, q)
       \/ AcceptQuote(s, q)
       \/ RejectQuote(s, q)
  \/ \E s \in Sellers : DropDeal(s)

-----------------------------------------------------------------------------
(* A quote becomes at most one work order, the one it names, although two   *)
(* conversions may both find it accepted and not converted, and a late     *)
(* acceptance or rejection may overwrite CONVERTED: the number is taken.   *)
OneOrderPerQuote ==
  \A q \in QuoteIds : {w \in WorkOrders : madeFrom[w] = q} =
    IF convertedWo[q] = Nothing THEN {} ELSE {convertedWo[q]}
=============================================================================
