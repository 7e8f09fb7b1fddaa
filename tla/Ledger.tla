------------------------------- MODULE Ledger -------------------------------
(***************************************************************************)
(* The books of one store: sales of one cart to one customer, refunds,     *)
(* settlements of a sale by the customer and of a bill by the store.  Every *)
(* mutation is a READ COMMITTED transaction of its own: it reads what      *)
(* others have committed, computes, and its rows appear together at its    *)
(* commit.  The tables are append-only and only their sums are read, so    *)
(* the sums are the state.  Amounts are paise.                             *)
(***************************************************************************)
EXTENDS Integers, FiniteSets, FiniteSetsExt

CONSTANTS
    Sales, Bills,     \* bound: sales the store makes, bills it has received
    Lines,            \* the lines of the cart that is sold
    QtyOf, PaiseOf,   \* sale_lines.qty and line_total_paise
    BillPaise,        \* supplier_bills.amount_paise
    Limit,            \* customers.credit_limit, one that is in force (0 is none)
    Credits, Sums,    \* on-credit portions and settlements that are tried
    Workers,          \* bound: transactions at once
    NoOne

ASSUME LedgerAssumption ==
    /\ IsFiniteSet(Sales) /\ IsFiniteSet(Bills) /\ IsFiniteSet(Lines) /\ Lines # {}
    /\ QtyOf \in [Lines -> Nat \ {0}] /\ PaiseOf \in [Lines -> Nat \ {0}]
    /\ BillPaise \in Nat /\ Limit \in Nat \ {0} /\ Sums \subseteq Nat \ {0}
    /\ NoOne \notin Workers \cup Sales \cup Bills /\ Sales \cap Bills = {}

\* The sum of f[x] for x in S.
Sum(f, S) == MapThenSumSet(LAMBDA x : f[x], S)
Total == Sum(PaiseOf, Lines)

\* The portions of a sale add up to its total (PAYMENT_MISMATCH).
ASSUME CreditsAssumption == Credits \subseteq 0 .. Total

VARIABLES
    lock,    \* who holds the row lock of the store
    counter, \* stores.invoice_counter
    sold,    \* sales: [no, credit, flagged], no = 0 before the sale
    back,    \* refund_lines: per sale and line [qty, paise]
    notes,   \* credit notes per sale
    paid,    \* payment_allocations per sale or bill
    status,  \* of a sale or bill
    till,    \* account_transactions, credits less debits
    owes,    \* customer_ledger_events: what the customer owes
    tx,      \* open transactions: [pc, on, ask, seen]
    raced    \* history: written to from a reading that was out of date

books == <<counter, sold, back, notes, paid, status, till, owes, raced>>
vars == <<lock, books, tx>>

Targets == Sales \cup Bills
Nothing == [l \in Lines |-> [qty |-> 0, paise |-> 0]]
Idle == [pc |-> "idle", on |-> NoOne, ask |-> 0, seen |-> 0]

TypeOK ==
    /\ lock \in Workers \cup {NoOne} /\ counter \in Nat
    /\ sold \in [Sales -> [no : Nat, credit : Credits \cup {0}, flagged : BOOLEAN]]
    /\ back \in [Sales -> [Lines -> [qty : Nat, paise : Nat]]] /\ notes \in [Sales -> Nat]
    /\ paid \in [Targets -> Nat] /\ till \in Int /\ owes \in Int
    /\ status \in [Targets -> {"completed", "partially_refunded", "refunded", "open", "partially_paid", "paid"}]
    /\ \A w \in Workers : tx[w].pc \in {"idle", "numbered", "flagged", "refund", "payment"}
    /\ lock # NoOne => tx[lock].pc \in {"numbered", "flagged"}
    /\ raced \subseteq Targets

Init ==
    /\ lock = NoOne /\ counter = 0 /\ till = 0 /\ owes = 0 /\ raced = {}
    /\ sold = [s \in Sales |-> [no |-> 0, credit |-> 0, flagged |-> FALSE]]
    /\ back = [s \in Sales |-> Nothing] /\ notes = [s \in Sales |-> 0] /\ paid = [t \in Targets |-> 0]
    /\ status = [t \in Targets |-> IF t \in Sales THEN "completed" ELSE "open"]
    /\ tx = [w \in Workers |-> Idle]

At(w, pc) == tx[w].pc = pc
Goes(w, pc, on, ask, seen) == tx' = [tx EXCEPT ![w] = [pc |-> pc, on |-> on, ask |-> ask, seen |-> seen]]
Ends(w) == tx' = [tx EXCEPT ![w] = Idle]

Max0(n) == IF n > 0 THEN n ELSE 0

Released(w) == IF lock = w THEN NoOne ELSE lock

\* A handler refuses, a constraint does, or the transaction is rolled back.
RollBack(w) ==
    /\ ~At(w, "idle") /\ Ends(w) /\ lock' = Released(w)
    /\ UNCHANGED books
-----------------------------------------------------------------------------
\* Sales.

\* Mutant: the counter is selected, and updated later.
StoreFreeAlways == TRUE
StoreFree == lock = NoOne

\* UPDATE stores SET invoice_counter + 1, which locks the store's row.  A sale
\* is sent by one mutation, and a mutation is in one transaction at a time.
SaleNumber(w, s, credit) ==
    /\ At(w, "idle") /\ sold[s].no = 0 /\ \A v \in Workers : tx[v].on # s
    /\ StoreFree /\ lock' = w /\ Goes(w, "numbered", s, credit, counter + 1)
    /\ UNCHANGED books

\* Outstanding, read with the store locked.
OverLimit(credit) == credit > 0 /\ owes + credit > Limit

SaleFlag(w) ==
    /\ At(w, "numbered")
    /\ tx' = [tx EXCEPT ![w].pc = "flagged",
                        ![w].ask = [credit |-> @, flagged |-> OverLimit(@)]]
    /\ UNCHANGED <<lock, books>>

SaleCommit(w) ==
    /\ At(w, "flagged") /\ Ends(w)
    /\ LET credit == tx[w].ask.credit
       IN  /\ sold' = [sold EXCEPT ![tx[w].on] = [no |-> tx[w].seen, credit |-> credit, flagged |-> tx[w].ask.flagged]]
           /\ till' = till + Total - credit /\ owes' = owes + credit
    /\ counter' = tx[w].seen /\ lock' = Released(w)
    /\ UNCHANGED <<back, notes, paid, status, raced>>
-----------------------------------------------------------------------------
\* Refunds.

\* Math.round(a / b).
Rounded(a, b) == (2 * a + b) \div (2 * b)
PaiseBack(lines) == Sum([l \in Lines |-> lines[l].paise], Lines)

\* Mutant: each refund is rounded on its own.
LineAmountAlone(l, before, qty) == Rounded(qty * PaiseOf[l], QtyOf[l])

\* What the line must have given back by now, less what it has.
LineAmount(l, before, qty) ==
    (IF before.qty + qty = QtyOf[l] THEN PaiseOf[l] ELSE Rounded((before.qty + qty) * PaiseOf[l], QtyOf[l]))
        - before.paise

\* The same for the credit portion of the sale.
CreditShare(s, given, noted) ==
    (IF given >= Total THEN sold[s].credit ELSE Rounded(given * sold[s].credit, Total)) - noted

\* Mutant: all of it is paid out, as if the sale had been paid.
CashShareWhole(amount, credit) == amount
CashShare(amount, credit) == amount - credit

RefundReading(s) == [lines |-> back[s], noted |-> notes[s]]

RefundRead(w, s, qty) ==
    /\ At(w, "idle") /\ sold[s].no > 0 /\ \E l \in Lines : qty[l] > 0
    /\ Goes(w, "refund", s, qty, RefundReading(s)) /\ UNCHANGED <<lock, books>>

WithinQty(seen, qty) == \A l \in Lines : seen.lines[l].qty + qty[l] <= QtyOf[l]

RefundCommit(w) ==
    /\ At(w, "refund") /\ Ends(w)
    /\ LET s == tx[w].on  qty == tx[w].ask  seen == tx[w].seen
           amount == [l \in Lines |-> IF qty[l] = 0 THEN 0 ELSE LineAmount(l, seen.lines[l], qty[l])]
           sum == Sum(amount, Lines)
           given == PaiseBack(seen.lines) + sum
           credit == IF sold[s].credit > 0 THEN CreditShare(s, given, seen.noted) ELSE 0
       IN  /\ WithinQty(seen, qty) /\ given <= Total /\ \A l \in Lines : qty[l] > 0 => amount[l] > 0
           /\ back' = [back EXCEPT ![s] = [l \in Lines |->
                         [qty |-> @[l].qty + qty[l], paise |-> @[l].paise + amount[l]]]]
           /\ notes' = [notes EXCEPT ![s] = @ + Max0(credit)] /\ owes' = owes - Max0(credit)
           /\ till' = till - Max0(CashShare(sum, credit))
           /\ status' = [status EXCEPT ![s] = IF given >= Total THEN "refunded" ELSE "partially_refunded"]
           /\ raced' = IF seen = RefundReading(s) THEN raced ELSE raced \cup {s}
    /\ UNCHANGED <<lock, counter, sold, paid>>
-----------------------------------------------------------------------------
\* Settlements.

\* Mutant: what refunds have taken off the debt is forgotten.
CapGross(t) == IF t \in Bills THEN BillPaise ELSE sold[t].credit
Cap(t) == IF t \in Bills THEN BillPaise ELSE sold[t].credit - notes[t]

PaymentReading(t) == [cap |-> Cap(t), already |-> paid[t]]

PaymentRead(w, t, sum) ==
    /\ At(w, "idle") /\ (t \in Sales => sold[t].no > 0)
    /\ Goes(w, "payment", t, sum, PaymentReading(t)) /\ UNCHANGED <<lock, books>>

\* A customer settles a sale, or the store a bill.
PaymentCommit(w) ==
    /\ At(w, "payment") /\ Ends(w)
    /\ LET t == tx[w].on  sum == tx[w].ask  seen == tx[w].seen
       IN  /\ seen.already + sum <= seen.cap
           /\ paid' = [paid EXCEPT ![t] = @ + sum]
           /\ IF t \in Sales
              THEN till' = till + sum /\ owes' = owes - sum /\ UNCHANGED status
              ELSE /\ till' = till - sum /\ UNCHANGED owes
                   /\ status' = [status EXCEPT ![t] = IF seen.already + sum >= BillPaise THEN "paid" ELSE "partially_paid"]
           /\ raced' = IF seen = PaymentReading(t) THEN raced ELSE raced \cup {t}
    /\ UNCHANGED <<lock, counter, sold, back, notes>>
-----------------------------------------------------------------------------
Returns == [Lines -> 0 .. Max({QtyOf[l] : l \in Lines})]

Next ==
    \E w \in Workers :
       \/ RollBack(w) \/ SaleFlag(w) \/ SaleCommit(w) \/ RefundCommit(w) \/ PaymentCommit(w)
       \/ \E s \in Sales, credit \in Credits : SaleNumber(w, s, credit)
       \/ \E s \in Sales, qty \in Returns : RefundRead(w, s, qty)
       \/ \E t \in Targets, sum \in Sums : PaymentRead(w, t, sum)

Spec == Init /\ [][Next]_vars
-----------------------------------------------------------------------------
Sold == {s \in Sales : sold[s].no > 0}

\* Invoices are numbered 1, 2, 3 without a gap or a repetition, whatever
\* overlaps and whatever is rolled back.
InvoicesDense == {sold[s].no : s \in Sold} = 1 .. Cardinality(Sold) /\ counter = Cardinality(Sold)

\* The types, and the numbering of the invoices.
Inv == TypeOK /\ InvoicesDense

\* Unless two refunds of it overlapped, a sale gives back at most what was
\* sold, and when all of it is back, exactly what it cost: what was paid in
\* money and what was owed as a credit note.
ReturnsAreExact ==
    \A s \in Sold \ raced :
        /\ \A l \in Lines : back[s][l].qty <= QtyOf[l]
        /\ PaiseBack(back[s]) <= Total /\ notes[s] <= sold[s].credit
        /\ (\A l \in Lines : back[s][l].qty = QtyOf[l]) =>
              PaiseBack(back[s]) = Total /\ notes[s] = sold[s].credit /\ status[s] = "refunded"

\* Debts go up and down with control: a sale that takes the customer over the
\* limit is flagged for review, also when another sale on credit is being
\* written, and a settlement takes no more than what is still owed on the sale,
\* refunds counted, or on the bill, unless another one overlapped it.
DebtInHand ==
    [][/\ owes' > owes /\ owes' > Limit => \E s \in Sales : sold[s].no = 0 /\ sold'[s].flagged
       /\ \A t \in Targets \ raced' : paid'[t] > paid[t] =>
             paid'[t] <= IF t \in Bills THEN BillPaise ELSE sold[t].credit - notes[t]]_vars

\* What a sale leaves the customer owing, and what it has brought in.
Debt == [s \in Sales |-> sold[s].credit - notes[s] - paid[s]]
Money == [s \in Sales |-> Total - sold[s].credit - (PaiseBack(back[s]) - notes[s]) + paid[s]]

\* The two books agree with the documents: the customer's debt, and money in
\* and out of the accounts.
BooksAgree == raced = {} => owes = Sum(Debt, Sold) /\ till = Sum(Money, Sold) - Sum(paid, Bills)
=============================================================================
