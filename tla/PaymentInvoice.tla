--------------------------- MODULE PaymentInvoice ---------------------------
(* The life of a PaymentInvoice row of one member: the payment forms that    *)
(* open and reuse it, the gateway checkouts opened for it, the webhooks, the *)
(* Satispay poll and the manual confirmations that turn it into accounting   *)
(* items, and the bundled membership fee split out of it.                    *)
(*                                                                           *)
(* Every HTTP request, webhook call or cron command is a process that reads  *)
(* the row WITHOUT a lock, works on its own copy, and writes the WHOLE row   *)
(* back (Django's save()).  The pre_save signal takes the row lock and       *)
(* creates the accounting items before the row itself is updated.            *)
EXTENDS Integers, FiniteSets

CONSTANTS
    Invoices,      \* PaymentInvoice rows that may ever exist
    Requests,      \* concurrent requests, webhook calls and commands
    Serves,        \* [Requests -> SUBSET Operations]: what each of them runs
    Regs,          \* registrations of the member, all of one event year
    Grosses,       \* amounts, in cents, a form can ask for
    Pages,         \* what the payment pages are opened for
    Fee,           \* yearly membership fee bundled with a registration, 0: none
    Tolerance,     \* cents an amount received may be short of the expected one
    Methods,       \* payment methods the forms offer
    Currencies,    \* what the association may take its payments in
    MaxCheckouts,  \* bound: gateway checkouts opened for one invoice
    MaxCrashes,    \* bound: requests killed half way
    NoInvoice, NoRequest, NoReg, NoItem

Operations == {"form", "webhook", "poll", "submit", "treasurer", "organizer", "desk", "expire", "edit"}

\* Methods whose form rewrites invoice.cod with the id of the new checkout:
\* Stripe and SumUp, Redsys, Satispay.
Recoded == {"card", "redsys", "satispay"}
Slugs   == {"wire", "paypal"} \cup Recoded

Targets == Regs \cup {"membership", "donate"}

ASSUME ConstantsAssumption ==
    /\ IsFiniteSet(Invoices)
    /\ Serves \in [Requests -> SUBSET Operations]
    /\ Pages \subseteq Targets
    /\ Grosses \subseteq Nat /\ Fee \in Nat /\ Tolerance \in Nat
    /\ MaxCheckouts \in Nat /\ MaxCrashes \in Nat
    /\ Methods \subseteq Slugs
    /\ NoInvoice \notin Invoices
    /\ NoRequest \notin Requests
    /\ NoReg \notin Regs
    /\ {"membership", "donate"} \cap Regs = {}

Paid     == {"confirmed", "checked"}
Alive    == {"created", "submitted"} \cup Paid
Statuses == Alive \cup {"absent", "deleted"}

\* A row: what it pays, the generation of its key, the cod it answers to.
Row  == [status : Statuses, to : Targets, key : Nat, method : Slugs,
         gross : Nat, cod : Nat]
\* The AccountingItem linked to the invoice: its value and the gross it was cut from.
Item == [to : Targets, value : Nat, base : Nat]
\* A payment page opened at a gateway for a given cod, amount and currency.
Checkout == [inv : Invoices, cod : Nat, gross : Nat, method : Slugs, currency : Currencies]

Blank == [status |-> "absent", to |-> "donate", key |-> 0, method |-> "wire", gross |-> 0, cod |-> 0]
Idle  == [pc |-> "idle", op |-> "form", inv |-> NoInvoice, copy |-> Blank,
          cod |-> 0, expected |-> 0, due |-> 0, split |-> 0, fresh |-> FALSE, seen |-> 0]

ASSUME NoItemAssumption == NoItem \notin Item

VARIABLES
    row,      \* [Invoices -> Row], the committed rows
    lock,     \* [Invoices -> Requests \cup {NoRequest}], owner of the row lock
    item,     \* [Invoices -> Item \cup {NoItem}]
    num,      \* [Regs -> Nat], Registration.num_payments
    pending,  \* the registration holding the membership_fee_pending reservation
    plock,    \* owner of the row lock on that reservation
    year,     \* invoice whose processing created AccountingItemMembership of the year
    req,      \* the local state of every request
    issued,   \* [Invoices -> Nat], checkout ids the gateways gave for the row
    open,     \* checkouts shown to the payer
    captured, \* checkouts the payer has paid
    currency, \* the association's payment_currency
    crashes,  \* requests killed so far
    crossed,  \* registrations confirmed while another request had a copy of their row
    outpaid   \* a fee of the year was booked while another was being split off

gateways == <<issued, open, captured, currency>>
watch    == <<crossed, outpaid>>
vars == <<row, lock, item, num, pending, plock, year, req, gateways, crashes, watch>>

Init ==
    /\ row = [i \in Invoices |-> Blank]
    /\ lock = [i \in Invoices |-> NoRequest]
    /\ item = [i \in Invoices |-> NoItem]
    /\ num = [r \in Regs |-> 1]
    /\ pending = NoReg /\ plock = NoRequest /\ year = NoInvoice
    /\ req = [q \in Requests |-> Idle]
    /\ issued = [i \in Invoices |-> 0]
    /\ open = {} /\ captured = {} /\ currency \in Currencies
    /\ crashes = 0
    /\ crossed = {} /\ outpaid = FALSE

-----------------------------------------------------------------------------
\* accounting_pay: key = "{registration.id}_{num_payments}"; the other pages
\* keep one key per year, or the key posted back by the page itself.
Key(t) == IF t \in Regs THEN num[t] ELSE 0

\* get_payment_form reuses the member's row with this key while it is CREATED.
Reusable(t) == {i \in Invoices : row[i].status = "created" /\ row[i].to = t /\ row[i].key = Key(t)}

\* No row yet, and no request is about to insert it.
Unused(i) == row[i].status = "absent" /\ \A q \in Requests : req[q].inv # i

BundledFeeAgain(t) == IF pending \notin {NoReg, t} THEN 0 ELSE Fee
\* get_membership_fee_for_reg: what a payment of t would carry for the year.
BundledFee(t) == IF year # NoInvoice \/ pending \notin {NoReg, t} THEN 0 ELSE Fee

Runs(q, op) == req[q].pc = "idle" /\ op \in Serves[q]

\* The local state of a request with a copy of the row in hand.
Task(op, pc, i, copy) ==
    [pc |-> pc, op |-> op, inv |-> i, copy |-> copy,
     cod |-> 0, expected |-> 0, due |-> 0, split |-> 0, fresh |-> FALSE, seen |-> 0]

\* The local state of a callback that looked the row up by its cod.
Inquiry(op, pc, i, due) ==
    [pc |-> pc, op |-> op, inv |-> i, copy |-> Blank,
     cod |-> row[i].cod, expected |-> row[i].gross, due |-> due, split |-> 0, fresh |-> FALSE, seen |-> 0]

\* The local state of a request with a copy of the registration in hand: of
\* what the payments need, the number it holds.
Copied(r) == [Idle EXCEPT !.pc = "edit", !.op = "edit", !.copy.to = r, !.seen = num[r]]

At(q, pc)        == [req[q] EXCEPT !.pc = pc]
Answered(q, due) == [req[q] EXCEPT !.pc = "money", !.due = due]
HasRead(q, pc, new, n) == [req[q] EXCEPT !.pc = pc, !.fresh = new, !.seen = n, !.split = 0]
Split(q, fee)    == [req[q] EXCEPT !.pc = "commit", !.split = fee]

WithStatus(r, status) == [r EXCEPT !.status = status]
WithCod(r, cod)       == [r EXCEPT !.cod = cod]
Received(r, gross)    == [r EXCEPT !.status = "checked", !.gross = gross]

Start(q, op, pc, i, copy) == req' = [req EXCEPT ![q] = Task(op, pc, i, copy)]

Page(i, c) == [inv |-> i, cod |-> c.cod, gross |-> c.gross, method |-> c.method, currency |-> currency]

\* get_payment_form: find the row or start a new one, and reserve the bundled
\* fee.  Two rows under one key make objects.get() raise: the page fails.
OpenForm(q, i, t, g, m) ==
    /\ Runs(q, "form")
    /\ \/ Reusable(t) = {i}
       \/ Reusable(t) = {} /\ Unused(i)
    /\ Start(q, "form", "form", i,
             [status |-> "created", to |-> t, key |-> Key(t), method |-> m, gross |-> g, cod |-> row[i].cod])
    /\ pending' = IF t \in Regs /\ BundledFee(t) # 0 THEN t ELSE pending
    /\ UNCHANGED <<row, lock, item, num, plock, year, gateways, crashes, watch>>

\* update_invoice_gross_fee: invoice.save() of a copy that is not paid, then
\* the PayPal button is shown, or a checkout is asked of the gateway.
SaveForm(q) ==
    LET i == req[q].inv
        c == req[q].copy
    IN  /\ req[q].pc = "form" /\ lock[i] = NoRequest
        /\ row' = [row EXCEPT ![i] = c]
        /\ open' = IF c.method = "paypal" THEN open \cup {Page(i, c)} ELSE open
        /\ req' = [req EXCEPT ![q] = IF c.method \in Recoded THEN At(q, "gateway") ELSE Idle]
        /\ UNCHANGED <<lock, item, num, pending, plock, year, issued, captured, currency, crashes, watch>>

\* get_stripe_form, get_sumup_form, get_redsys_form, get_satispay_form: the
\* gateway names a new checkout; its id becomes the cod of the copy.
IssueCheckout(q) ==
    LET i == req[q].inv
    IN  /\ req[q].pc = "gateway" /\ issued[i] < MaxCheckouts
        /\ issued' = [issued EXCEPT ![i] = @ + 1]
        /\ Start(q, "form", "store", i, WithCod(req[q].copy, issued[i] + 1))
        /\ UNCHANGED <<row, lock, item, num, pending, plock, year, open, captured, currency, crashes, watch>>

\* The gateway refuses, the view raises Http404: the row keeps its old cod.
GatewayRefuses(q) ==
    /\ req[q].pc = "gateway"
    /\ req' = [req EXCEPT ![q] = Idle]
    /\ UNCHANGED <<row, lock, item, num, pending, plock, year, gateways, crashes, watch>>

\* invoice.save() of a copy that is not paid: the signal looks at the locked
\* row and returns, and the whole copy is written over the row.  A form then
\* shows its checkout.
Store(q) ==
    LET i == req[q].inv
        c == req[q].copy
    IN  /\ req[q].pc = "store" /\ lock[i] = NoRequest
        /\ row' = [row EXCEPT ![i] = c]
        /\ open' = IF req[q].op = "form" THEN open \cup {Page(i, c)} ELSE open
        /\ req' = [req EXCEPT ![q] = Idle]
        /\ UNCHANGED <<lock, item, num, pending, plock, year, issued, captured, currency, crashes, watch>>

\* The payer completes a checkout; its webhook may come any number of times.
Capture(c) ==
    /\ c \in open \ captured
    /\ captured' = captured \cup {c}
    /\ UNCHANGED <<row, lock, item, num, pending, plock, year, req, issued, open, currency, crashes, watch>>

\* exe_association: the payment currency is a setting like any other.
ChangeCurrency(k) ==
    /\ k \in Currencies \ {currency}
    /\ currency' = k
    /\ UNCHANGED <<row, lock, item, num, pending, plock, year, req, issued, open, captured, crashes, watch>>

\* accounting_submit: the payer declares a transfer.  The row is looked up by
\* uuid, and its status is not read.
Submit(q, i) ==
    /\ Runs(q, "submit") /\ row[i].status \in Alive
    /\ Start(q, "submit", "store", i, WithStatus(row[i], "submitted"))
    /\ UNCHANGED <<row, lock, item, num, pending, plock, year, gateways, crashes, watch>>

-----------------------------------------------------------------------------
\* All but Redsys, which has a currency of its own, drop what was paid in
\* another currency than the association has now.
InCurrency(c) == c.method = "redsys" \/ c.currency = currency

\* handle_valid_paypal_ipn, stripe_webhook, sumup_webhook, redsys_webhook: the
\* row is looked up by cod and its gross is what the payment is expected to be.
Webhook(q, c) ==
    /\ Runs(q, "webhook")
    /\ c \in captured /\ c.method # "satispay" /\ InCurrency(c)
    /\ row[c.inv].status \in Alive /\ row[c.inv].cod = c.cod
    /\ req' = [req EXCEPT ![q] = Inquiry("webhook", "money", c.inv, c.gross)]
    /\ UNCHANGED <<row, lock, item, num, pending, plock, year, gateways, crashes, watch>>

\* satispay_verify, from the webhook or from check_payments: only a CREATED
\* Satispay row is asked about.
AskSatispay(q, i) ==
    /\ Runs(q, "poll")
    /\ row[i].status = "created" /\ row[i].method = "satispay"
    /\ req' = [req EXCEPT ![q] = Inquiry("poll", "asked", i, 0)]
    /\ UNCHANGED <<row, lock, item, num, pending, plock, year, gateways, crashes, watch>>

\* The gateway answers that the payment is ACCEPTED, with its amount.
SatispayAccepts(q) ==
    /\ req[q].pc = "asked"
    /\ \E c \in captured :
         /\ c.inv = req[q].inv /\ c.cod = req[q].cod /\ c.method = "satispay" /\ InCurrency(c)
         /\ req' = [req EXCEPT ![q] = Answered(q, c.gross)]
    /\ UNCHANGED <<row, lock, item, num, pending, plock, year, gateways, crashes, watch>>

\* Anything else: no connection, an error status, an answer that cannot be
\* read, a payment that is not accepted yet or is in another currency.
SatispayDeclines(q) ==
    /\ req[q].pc = "asked"
    /\ req' = [req EXCEPT ![q] = Idle]
    /\ UNCHANGED <<row, lock, item, num, pending, plock, year, gateways, crashes, watch>>

AcceptableOver(q, r) == r.status \in Alive \ Paid /\ r.cod = req[q].cod /\ req[q].due > req[q].expected
\* What invoice_received_money accepts: a live row under the cod, not less
\* than the expected amount, and a status still unpaid.
Acceptable(q, r) ==
    /\ r.status \in Alive \ Paid
    /\ r.cod = req[q].cod
    /\ req[q].due + Tolerance >= req[q].expected

\* invoice_received_money up to its save(): the second lookup by cod.
ReceiveMoney(q) ==
    LET r == row[req[q].inv]
    IN  /\ req[q].pc = "money"
        /\ req' = [req EXCEPT ![q] =
                     IF Acceptable(q, r)
                     THEN Task(req[q].op, "save", req[q].inv, Received(r, req[q].due))
                     ELSE Idle]
        /\ UNCHANGED <<row, lock, item, num, pending, plock, year, gateways, crashes, watch>>

\* accounting_confirm, the link in the treasurer's mail.
TreasurerConfirms(q, i) ==
    /\ Runs(q, "treasurer") /\ row[i].status = "submitted"
    /\ Start(q, "treasurer", "save", i, WithStatus(row[i], "confirmed"))
    /\ UNCHANGED <<row, lock, item, num, pending, plock, year, gateways, crashes, watch>>

\* orga_invoices_confirm and exe_invoices_confirm.
OrganizerConfirms(q, i) ==
    /\ Runs(q, "organizer") /\ row[i].status \in {"created", "submitted"}
    /\ Start(q, "organizer", "save", i, WithStatus(row[i], "confirmed"))
    /\ UNCHANGED <<row, lock, item, num, pending, plock, year, gateways, crashes, watch>>

\* exe_membership_fee: an executive records a fee paid at the desk.  The row has
\* no key (1 here: the key of the year is 0), so no form ever reuses it.
DeskMembership(q, i, g) ==
    LET r == [status |-> "created", to |-> "membership", key |-> 1, method |-> "wire", gross |-> g, cod |-> 0]
    IN  /\ Runs(q, "desk") /\ Unused(i)
        /\ row' = [row EXCEPT ![i] = r]
        /\ Start(q, "desk", "save", i, WithStatus(r, "confirmed"))
        /\ UNCHANGED <<lock, item, num, pending, plock, year, gateways, crashes, watch>>

-----------------------------------------------------------------------------
\* Saves wrapped by the view in transaction.atomic() keep the row lock until
\* the row is written; the others lose it when the pre_save signal returns.
Atomic(q) == req[q].op \in {"webhook", "poll", "treasurer"}

AlreadyPaidInCopy(q) == req[q].copy.status \in Paid
\* The decision of process_payment_invoice_status_change, on the committed row.
AlreadyPaid(q) == row[req[q].inv].status \in Paid

\* select_for_update on the row; kept unless the signal returns at once.
LockKept(q) == ~AlreadyPaid(q) \/ Atomic(q)

\* process_payment_invoice_status_change: take the row lock and decide.
Lock(q) ==
    LET i == req[q].inv
    IN  /\ req[q].pc = "save" /\ lock[i] = NoRequest
        /\ lock' = IF LockKept(q) THEN [lock EXCEPT ![i] = q] ELSE lock
        /\ req' = [req EXCEPT ![q] = At(q, IF AlreadyPaid(q) THEN "write" ELSE "process")]
        /\ UNCHANGED <<row, item, num, pending, plock, year, gateways, crashes, watch>>

\* The fee check_bundled_membership_fee would split out of the payment.
SplitOf(i) ==
    LET fee == BundledFee(row[i].to)
    IN  IF row[i].to \in Regs /\ pending = row[i].to /\ row[i].gross >= fee THEN fee ELSE 0

\* A request that will write back the row of registration r it has read.
Confirming(q, r) == req[q].pc \in {"fee", "commit"} /\ req[q].fresh /\ row[req[q].inv].to = r
Editing(q, r)    == req[q].pc = "edit" /\ req[q].copy.to = r

\* _process_payment (_process_membership, _process_donate) up to its first
\* reads: is the payment booked already?  The registration is read without a lock.
Process(q) ==
    LET i == req[q].inv
        t == row[i].to
        fresh == item[i] = NoItem
    IN  /\ req[q].pc = "process"
        /\ req' = [req EXCEPT ![q] = HasRead(q, IF fresh /\ t \in Regs THEN "fee" ELSE "commit", fresh,
                                          IF t \in Regs THEN num[t] ELSE 0)]
        /\ crossed' = IF fresh /\ \E p \in Requests \ {q} : Confirming(p, t) \/ Editing(p, t)
                      THEN crossed \cup ({t} \cap Regs) ELSE crossed
        /\ UNCHANGED <<row, lock, item, num, pending, plock, year, gateways, crashes, outpaid>>

\* check_bundled_membership_fee: the reservation is locked if it is of this
\* registration, and what the payment carries for the year is worked out.
SplitFee(q) ==
    LET i == req[q].inv
        locks == pending = row[i].to
    IN  /\ req[q].pc = "fee"
        /\ locks => plock = NoRequest
        /\ plock' = IF locks THEN q ELSE plock
        /\ req' = [req EXCEPT ![q] = Split(q, SplitOf(i))]
        /\ UNCHANGED <<row, lock, item, num, pending, year, gateways, crashes, watch>>

\* save_registration, and whoever else saves a registration: the row is read ...
ReadRegistration(q, r) ==
    /\ Runs(q, "edit")
    /\ req' = [req EXCEPT ![q] = Copied(r)]
    /\ crossed' = IF \E p \in Requests : Confirming(p, r) THEN crossed \cup {r} ELSE crossed
    /\ UNCHANGED <<row, lock, item, num, pending, plock, year, gateways, crashes, outpaid>>

\* ... and written as a whole, num_payments with it.
SaveRegistration(q) ==
    /\ req[q].pc = "edit"
    /\ num' = [num EXCEPT ![req[q].copy.to] = req[q].seen]
    /\ req' = [req EXCEPT ![q] = Idle]
    /\ UNCHANGED <<row, lock, item, pending, plock, year, gateways, crashes, watch>>

Release(q) ==
    /\ lock' = [i \in Invoices |-> IF lock[i] = q THEN NoRequest ELSE lock[i]]
    /\ plock' = IF plock = q THEN NoRequest ELSE plock

\* A second AccountingItem of the invoice, or a second membership fee of the
\* year, breaks a unique constraint: the transaction is rolled back.
RejectedDuplicate(q) == req[q].fresh /\ item[req[q].inv] # NoItem
Rejected(q) ==
    LET i == req[q].inv
    IN  req[q].fresh /\ (item[i] # NoItem \/ (row[i].to = "membership" /\ year # NoInvoice))

\* The item of the invoice after the transaction, and the payments counted.
FeeTakenTwice(q) == [to |-> row[req[q].inv].to, value |-> row[req[q].inv].gross - 2 * req[q].split,
                     base |-> row[req[q].inv].gross]
Entry(q) ==
    LET r == row[req[q].inv]
    IN  [to |-> r.to, value |-> r.gross - req[q].split, base |-> r.gross]
ItemOverwritten(q) == [item EXCEPT ![req[q].inv] = Entry(q)]
ItemAfter(q) == IF req[q].fresh THEN [item EXCEPT ![req[q].inv] = Entry(q)] ELSE item

CountedTwice(q) == row[req[q].inv].to \in Regs
Counted(q) == req[q].fresh /\ row[req[q].inv].to \in Regs

\* The items are inserted and the transaction commits, with the row when the
\* view holds it open.  The signal of a payment's item saves the registration
\* as it was read (post_save_payment_accounting_cache), then one is added.
Commit(q) ==
    LET i == req[q].inv
        r == row[i]
    IN  /\ req[q].pc = "commit" /\ ~Rejected(q)
        /\ item' = ItemAfter(q)
        /\ num' = IF Counted(q) THEN [num EXCEPT ![r.to] = req[q].seen + 1] ELSE num
        /\ year' = IF year = NoInvoice /\ req[q].fresh /\ (req[q].split > 0 \/ r.to = "membership") THEN i ELSE year
        /\ pending' = IF req[q].split > 0 THEN NoReg ELSE pending
        /\ row' = IF Atomic(q) THEN [row EXCEPT ![i] = req[q].copy] ELSE row
        /\ req' = [req EXCEPT ![q] = IF Atomic(q) THEN Idle ELSE Task(req[q].op, "write", i, req[q].copy)]
        /\ outpaid' = (outpaid \/ (req[q].fresh /\ r.to = "membership"
                                    /\ \E p \in Requests \ {q} : req[p].pc = "commit" /\ req[p].split > 0))
        /\ Release(q)
        /\ UNCHANGED <<gateways, crashes, crossed>>

\* IntegrityError: the request answers 500.
Reject(q) ==
    /\ req[q].pc = "commit" /\ Rejected(q)
    /\ req' = [req EXCEPT ![q] = Idle]
    /\ Release(q)
    /\ UNCHANGED <<row, item, num, pending, year, gateways, crashes, watch>>

\* The UPDATE of the row, after the signal.
Write(q) ==
    LET i == req[q].inv
    IN  /\ req[q].pc = "write" /\ lock[i] \in {q, NoRequest}
        /\ row' = [row EXCEPT ![i] = req[q].copy]
        /\ req' = [req EXCEPT ![q] = Idle]
        /\ Release(q)
        /\ UNCHANGED <<item, num, pending, year, gateways, crashes, watch>>

-----------------------------------------------------------------------------
\* The worker is killed: what is not committed is rolled back, locks are freed.
Crash(q) ==
    /\ req[q].pc # "idle" /\ crashes < MaxCrashes
    /\ crashes' = crashes + 1
    /\ req' = [req EXCEPT ![q] = Idle]
    /\ Release(q)
    /\ UNCHANGED <<row, item, num, pending, year, gateways, watch>>

\* check_old_payments soft deletes rows left CREATED for 365 days (no request
\* is still at work on one); deleting a registration's row drops the fee
\* reservation of that registration, whichever row made it.
Expire(q, i) ==
    /\ Runs(q, "expire")
    /\ row[i].status = "created" /\ \A p \in Requests : req[p].inv # i
    /\ row' = [row EXCEPT ![i] = WithStatus(row[i], "deleted")]
    /\ plock = NoRequest
    /\ pending' = IF pending = row[i].to THEN NoReg ELSE pending
    /\ UNCHANGED <<lock, item, num, plock, year, req, gateways, crashes, watch>>

Begin(q) ==
    \/ \E i \in Invoices, t \in Pages, g \in Grosses, m \in Methods : OpenForm(q, i, t, g, m)
    \/ \E i \in Invoices : \/ Submit(q, i) \/ TreasurerConfirms(q, i) \/ OrganizerConfirms(q, i)
                           \/ AskSatispay(q, i) \/ Expire(q, i)
    \/ \E i \in Invoices, g \in Grosses : DeskMembership(q, i, g)
    \/ \E c \in captured : Webhook(q, c)
    \/ \E r \in Regs : ReadRegistration(q, r)

Continue(q) ==
    \/ SaveForm(q) \/ IssueCheckout(q) \/ GatewayRefuses(q) \/ Store(q)
    \/ SatispayAccepts(q) \/ SatispayDeclines(q) \/ ReceiveMoney(q) \/ SaveRegistration(q)
    \/ Lock(q) \/ Process(q) \/ SplitFee(q) \/ Commit(q) \/ Reject(q) \/ Write(q)

Next ==
    \/ \E q \in Requests : Begin(q) \/ Continue(q) \/ Crash(q)
    \/ \E c \in open : Capture(c)
    \/ \E k \in Currencies : ChangeCurrency(k)

Spec == Init /\ [][Next]_vars

\* Requests run to their end (row locks are granted in turn), the cron job
\* check_payments asks about every open Satispay row again and again, and
\* of the answers about an accepted payment not all are lost or spoilt.
Fairness ==
    /\ \A q \in Requests : SF_vars(Continue(q)) /\ SF_vars(SatispayAccepts(q))
    /\ \A q \in Requests, i \in Invoices : SF_vars(AskSatispay(q, i))

FairSpec == Spec /\ Fairness

-----------------------------------------------------------------------------
Stages == {"idle", "form", "gateway", "store", "asked", "money", "save", "process", "fee", "commit", "write", "edit"}
Local == [pc : Stages, op : Operations, inv : Invoices \cup {NoInvoice}, copy : Row,
          cod : Nat, expected : Nat, due : Nat, split : Nat, fresh : BOOLEAN, seen : Nat]

\* The shape of the state; a request that is under way works on some row.
TablesOK ==
    /\ row \in [Invoices -> Row]
    /\ lock \in [Invoices -> Requests \cup {NoRequest}]
    /\ item \in [Invoices -> Item \cup {NoItem}]
AccountsOK ==
    /\ num \in [Regs -> Nat]
    /\ pending \in Regs \cup {NoReg}
    /\ plock \in Requests \cup {NoRequest}
    /\ year \in Invoices \cup {NoInvoice}
    /\ issued \in [Invoices -> Nat]
    /\ open \subseteq Checkout /\ captured \subseteq open /\ currency \in Currencies
    /\ crashes \in Nat
    /\ crossed \subseteq Regs /\ outpaid \in BOOLEAN
RequestsOK ==
    /\ req \in [Requests -> Local]
    /\ \A q \in Requests : req[q].pc \notin {"idle", "edit"} => req[q].inv \in Invoices
    /\ \A q \in Requests : req[q].pc = "edit" => req[q].copy.to \in Regs
TypeOK == TablesOK /\ AccountsOK /\ RequestsOK

\* A row that says confirmed or checked has its accounting item, whatever
\* other requests, crashes and stale saves did in between.
PaidIsCredited == \A i \in Invoices : row[i].status \in Paid => item[i] # NoItem

\* The exists() checks under the row lock are enough: the OneToOne constraint
\* on AccountingItem.inv never rejects the item of a payment.
NoDuplicateInsert ==
    \A q \in Requests : req[q].pc = "commit" /\ req[q].fresh => item[req[q].inv] = NoItem

\* Registration.num_payments, which names the next payment and keys its
\* invoice, starts at one and never runs ahead of the payments; it is exact
\* unless a confirmation overlapped with another request that had read the
\* registration: the later of the two then writes the number it has read.
Payments(r) == {i \in Invoices : item[i] # NoItem /\ item[i].to = r}
PaymentsNumbered ==
    \A r \in Regs :
        /\ num[r] <= Cardinality(Payments(r)) + 1
        /\ r \notin crossed => num[r] = Cardinality(Payments(r)) + 1

\* The membership fee of a year is paid once: no second membership invoice of
\* the member, whoever confirms it, is ever booked for that year.
MembershipPaidOnce == \A i \in Invoices : item[i] # NoItem /\ item[i].to = "membership" => year = i

\* check_bundled_membership_fee: what is taken off a registration payment is
\* booked as the membership fee of the year, however reservations expire, move
\* and are locked; unless a fee paid by itself is booked in the very moment.
SplitIsBooked ==
    ~outpaid => \A i \in Invoices : item[i] # NoItem /\ item[i].value # item[i].base => year = i

\* The detailed protocol implements PaymentLedger: an invoice is credited once,
\* for good, and never shown as paid before that.
Ledger == INSTANCE PaymentLedger WITH
    Credit <- Item, NoCredit <- NoItem,
    credit <- item, shown <- {i \in Invoices : row[i].status \in Paid}
ImplementsLedger == Ledger!Spec

\* A Satispay checkout that was paid in the currency of the association, while
\* its row keeps answering to it, is credited in the end, even if its webhook
\* never comes and most answers about it are lost or cannot be read.
Awaited(c) ==
    /\ c \in captured /\ c.method = "satispay" /\ InCurrency(c)
    /\ row[c.inv].status = "created" /\ row[c.inv].method = "satispay"
    /\ row[c.inv].cod = c.cod /\ c.gross + Tolerance >= row[c.inv].gross
Checkouts == [inv : Invoices, cod : 0..MaxCheckouts, gross : Grosses, method : {"satispay"}, currency : Currencies]
CaptureIsCredited == \A c \in Checkouts : Awaited(c) ~> (item[c.inv] # NoItem \/ ~Awaited(c))

-----------------------------------------------------------------------------
\* The strengthening that makes the invariants above inductive.

\* A request that creates items holds the lock of the row.
LockHeld == \A q \in Requests : req[q].pc \in {"process", "fee", "commit"} => lock[req[q].inv] = q

\* Only the confirming requests carry a paid status, and when one is about to
\* write it without the lock, the item is already there.
CopyStatus ==
    \A q \in Requests :
        /\ req[q].pc \in {"form", "gateway", "store"} => req[q].copy.status \in {"created", "submitted"}
        /\ req[q].pc = "write" => item[req[q].inv] # NoItem

\* What Process read under the lock is still true at Commit.
ReadsHold ==
    \A q \in Requests : req[q].pc \in {"fee", "commit"} =>
        /\ req[q].fresh <=> item[req[q].inv] = NoItem
        /\ req[q].split <= row[req[q].inv].gross

IInv == TypeOK /\ PaidIsCredited /\ LockHeld /\ CopyStatus /\ ReadsHold

=============================================================================
