---------------------------- MODULE MemberCredit ----------------------------
(***************************************************************************)
(* The credits of one member while several requests work on them: credits  *)
(* are given, a collection is closed and redeemed, refunds are delivered,  *)
(* registrations are saved and pay with the balance or give an overpayment *)
(* back.  accounting/token_credit.py spends under the lock of the          *)
(* membership and recalculates the balance without it; a registration is   *)
(* saved under its own lock.  RegistrationAccounting has the same saves    *)
(* one request at a time.                                                  *)
(***************************************************************************)
EXTENDS Integers, FiniteSets, Functions

CONSTANTS
  Regs,      \* the member's registrations
  Refunds,   \* the rows of RefundRequest that may be made
  Requests,  \* the workers
  Serves,    \* the operations a worker may run
  Values,    \* what can be given, asked back or paid: 1..n
  Prices,    \* what a registration may cost
  MaxGiven, MaxGifts, MaxCrashes,
  None

Operations == {"give", "save", "close", "redeem", "gift", "refund"}
NoRefund == [status |-> "none", value |-> 0]
CollectionStatus == {"open", "done", "payed"}

ASSUME ConstantsAssumption ==
  /\ IsFiniteSet(Values) /\ Values = 1..Cardinality(Values)
  /\ Prices \subseteq Values \cup {0}
  /\ IsFiniteSet(Regs)
  /\ MaxGiven \in Nat /\ MaxGifts \in Nat /\ MaxCrashes \in Nat
  /\ Serves \in [Requests -> SUBSET Operations]
  /\ None \notin Requests /\ None \notin Int

VARIABLES
  given,     \* sum of the AccountingItemOther CREDIT
  delivered, \* values of the REFUND items, a bag
  pay,       \* registration -> the bag of its payments in credits
  price,     \* registration -> tot_iscr
  bal,       \* Membership.credit
  mlock,     \* who holds the membership's row
  rlock,     \* registration -> who holds its row
  status,    \* Collection.status
  invoices,  \* gifts promised while the collection was open, not yet paid
  gifts,     \* what was paid into it
  credits,   \* how often it was credited
  reopened,  \* how often a stale save took PAYED back
  clock,     \* who holds the collection's row
  refund,    \* RefundRequest: its status and value
  req,       \* the workers
  stale,     \* a balance was written that was no longer the sum
  collided,  \* a debit met an older payment of the same value
  crashes

ledger == <<given, delivered, pay, bal, stale, collided>>
collection == <<status, invoices, gifts, credits, reopened>>
locks == <<mlock, rlock, clock>>
vars == <<ledger, collection, locks, price, refund, req, crashes>>

-----------------------------------------------------------------------------
Sum(bag) == SumFunctionOnSet([v \in Values |-> v * bag[v]], Values)
Used(p) == SumFunctionOnSet([r \in Regs |-> Sum(p[r])], Regs)
NoneOf == [v \in Values |-> 0]

NoTx == [by |-> "none", pay |-> << >>, bal |-> None, add |-> 0]
Idle == [op |-> "none", pc |-> "idle", reg |-> None, rem |-> 0, val |-> 0,
         todo |-> {}, inner |-> {}, ref |-> None, copy |-> "none", tx |-> NoTx]

(* What request q sees: the committed rows and its own.                    *)
PayOf(q) == [r \in Regs |-> IF r \in DOMAIN req[q].tx.pay THEN req[q].tx.pay[r] ELSE pay[r]]
BalOf(q) == IF req[q].tx.bal = None THEN bal ELSE req[q].tx.bal
CreditSum(q) == given + req[q].tx.add - Used(PayOf(q)) - Sum(delivered)

MembershipIgnored(q) == TRUE  \* mutant: the row is not locked
MembershipFree(q) == mlock \in {None, q}

Incomplete(q) == {r \in Regs : Sum(PayOf(q)[r]) # price[r]}
InTx(q) == req[q].tx.by # "none"

(* The registrations that are still to be saved.                           *)
Left(q) == IF InTx(q) THEN req[q].inner ELSE req[q].todo

Put(f, r, x) == [s \in DOMAIN f \cup {r} |-> IF s = r THEN x ELSE f[s]]

Start(q, op, r) == /\ req[q] = Idle /\ op \in Serves[q]
                   /\ req' = [req EXCEPT ![q] = [r EXCEPT !.op = op]]

-----------------------------------------------------------------------------
(* The credits' item is saved; its post_save signal recalculates.          *)
Give(q, v) ==
  /\ Start(q, "give", [Idle EXCEPT !.pc = "sum"])
  /\ given + v <= MaxGiven
  /\ given' = given + v
  /\ UNCHANGED <<delivered, pay, bal, stale, collided, collection, locks, price, refund, crashes>>

(* update_credits: the membership's row is read, then four sums.           *)
Sums(q) ==
  /\ req[q].pc = "sum"
  /\ req' = [req EXCEPT ![q].pc = "write", ![q].val = CreditSum(q)]
  /\ UNCHANGED <<ledger, collection, locks, price, refund, crashes>>

WriteBalanceUnlocked(q) ==  \* mutant: the row is not locked until the transaction ends
  /\ req[q].pc = "write"
  /\ MembershipFree(q)
  /\ stale' = (stale \/ req[q].val # CreditSum(q))
  /\ bal' = req[q].val
  /\ req' = [req EXCEPT ![q].pc = "next", ![q].val = 0,
                        ![q].inner = IF InTx(q) THEN Incomplete(q) ELSE {},
                        ![q].todo = IF InTx(q) THEN @ ELSE Incomplete(q)]
  /\ UNCHANGED <<given, delivered, pay, collided, collection, locks, price, refund, crashes>>

(* membership.save(), then _save_all_regs reads the list it will save.     *)
WriteBalance(q) ==
  /\ req[q].pc = "write"
  /\ MembershipFree(q)
  /\ stale' = (stale \/ req[q].val # CreditSum(q))
  /\ IF InTx(q)
     THEN /\ mlock' = q /\ bal' = bal
          /\ req' = [req EXCEPT ![q].pc = "next", ![q].tx.bal = req[q].val,
                                ![q].inner = Incomplete(q), ![q].val = 0]
     ELSE /\ bal' = req[q].val /\ mlock' = mlock
          /\ req' = [req EXCEPT ![q].pc = "next", ![q].todo = Incomplete(q), ![q].val = 0]
  /\ UNCHANGED <<given, delivered, pay, collided, collection, rlock, clock, price, refund, crashes>>

-----------------------------------------------------------------------------
(* A registration is saved with what its form or an organizer chose.       *)
Save(q, r, p) ==
  /\ Start(q, "save", [Idle EXCEPT !.pc = "next", !.todo = {r}])
  /\ price' = [price EXCEPT ![r] = p]
  /\ UNCHANGED <<ledger, collection, locks, refund, crashes>>

(* handle_registration_accounting_updates takes the registration's row and *)
(* compares its price with what was paid.                                  *)
LockRegistration(q, r) ==
  LET rem == price[r] - Sum(PayOf(q)[r])
  IN  /\ req[q].pc = "next"
      /\ r \in Left(q)
      /\ rlock[r] \in {None, q}
      /\ rlock' = [rlock EXCEPT ![r] = q]
      /\ req' = [req EXCEPT ![q].pc = CASE rem > 0 -> "spend" [] rem < 0 -> "cut" [] OTHER -> "next",
                            ![q].reg = r, ![q].rem = rem,
                            ![q].inner = @ \ {r}, ![q].todo = @ \ {r},
                            ![q].tx.by = IF @ = "none" THEN "registration" ELSE @]
      /\ UNCHANGED <<ledger, collection, mlock, clock, price, refund, crashes>>

(* registration_tokens_credits_use: the membership is locked and read      *)
(* again, and pays what it can; the payment is get_or_create()d.           *)
Spend(q) ==
  LET r   == req[q].reg
      has == BalOf(q)
      use == IF req[q].rem < has THEN req[q].rem ELSE has
      old == PayOf(q)[r]
  IN  /\ req[q].pc = "spend"
      /\ MembershipFree(q)
      /\ mlock' = q
      /\ IF has <= 0
         THEN /\ req' = [req EXCEPT ![q].pc = "next", ![q].rem = 0]
              /\ UNCHANGED collided
         ELSE /\ req' = [req EXCEPT ![q].pc = "next", ![q].rem = 0, ![q].tx.bal = has - use,
                           ![q].tx.pay = IF old[use] = 0 THEN Put(@, r, [old EXCEPT ![use] = 1]) ELSE @]
              /\ collided' = (collided \/ old[use] > 0)
      /\ UNCHANGED <<given, delivered, pay, bal, stale, collection, rlock, clock, price, refund, crashes>>

(* registration_tokens_credits_overpay: payments are cut until the surplus *)
(* is gone, the larger ones first, and the balance is recalculated.  Of    *)
(* the payments of value v, with so much of the surplus left, whole ones   *)
(* are deleted and one may lose a part.                                    *)
Surplus(p, over, v) ==
  LET larger == SumFunctionOnSet([u \in Values |-> u * p[u]], {u \in Values : u > v})
  IN  IF over > larger THEN over - larger ELSE 0

Deleted(p, over, v) ==
  LET left == Surplus(p, over, v) IN IF v * p[v] <= left THEN p[v] ELSE left \div v

Part(p, over, v) == Surplus(p, over, v) - v * Deleted(p, over, v)
Shortened(p, over, v) == p[v] > Deleted(p, over, v) /\ Part(p, over, v) > 0

Reversed(p, over) ==
  [v \in Values |->
     p[v] - Deleted(p, over, v) - (IF Shortened(p, over, v) THEN 1 ELSE 0)
          + IF \E w \in Values : Shortened(p, over, w) /\ v = w - Part(p, over, w) THEN 1 ELSE 0]

Cut(q) ==
  LET r == req[q].reg
  IN  /\ req[q].pc = "cut"
      /\ req' = [req EXCEPT ![q].pc = "sum", ![q].rem = 0,
                            ![q].tx.pay = Put(@, r, Reversed(PayOf(q)[r], 0 - req[q].rem))]
      /\ UNCHANGED <<ledger, collection, locks, price, refund, crashes>>

FreedRegistrations(q) ==  \* mutant: the membership's row stays locked
  rlock' = [r \in Regs |-> IF rlock[r] = q THEN None ELSE rlock[r]] /\ UNCHANGED <<mlock, clock>>

Freed(q) ==
  /\ rlock' = [r \in Regs |-> IF rlock[r] = q THEN None ELSE rlock[r]]
  /\ mlock' = IF mlock = q THEN None ELSE mlock
  /\ clock' = IF clock = q THEN None ELSE clock

(* The transaction ends: of one registration's save, or of the whole       *)
(* redemption.                                                             *)
Commit(q) ==
  LET tx == req[q].tx
  IN  /\ req[q].pc = "next" /\ InTx(q) /\ req[q].inner = {}
      /\ pay' = PayOf(q) /\ bal' = BalOf(q) /\ given' = given + tx.add
      /\ Freed(q)
      /\ IF tx.by = "registration"
         THEN /\ req' = [req EXCEPT ![q].tx = NoTx, ![q].reg = None]
              /\ UNCHANGED <<status, gifts, credits>>
         ELSE /\ status' = "payed" /\ credits' = credits + 1
              /\ gifts' = gifts + IF tx.by = "gift" THEN 1 ELSE 0
              /\ req' = [req EXCEPT ![q] = Idle]
      /\ UNCHANGED <<delivered, stale, collided, invoices, reopened, price, refund, crashes>>

(* Nothing is left to save.                                                *)
Finish(q) ==
  /\ req[q].pc = "next" /\ ~InTx(q) /\ req[q].todo = {}
  /\ req' = [req EXCEPT ![q] = IF @.op = "refund" THEN [@ EXCEPT !.pc = "deliver"] ELSE Idle]
  /\ UNCHANGED <<ledger, collection, locks, price, refund, crashes>>

-----------------------------------------------------------------------------
(* accounting_collection_participate: an open collection gets an invoice.  *)
Participate ==
  /\ status = "open" /\ invoices + gifts < MaxGifts
  /\ invoices' = invoices + 1
  /\ UNCHANGED <<ledger, status, gifts, credits, reopened, locks, price, refund, req, crashes>>

(* accounting_collection_close reads the row without a lock.               *)
ReadToClose(q) ==
  /\ status = "open"
  /\ Start(q, "close", [Idle EXCEPT !.pc = "store", !.copy = "done"])
  /\ UNCHANGED <<ledger, collection, locks, price, refund, crashes>>

(* The payment of a gift is confirmed: the collection's row is loaded for  *)
(* the mail, then saved again after the item (_process_collection).        *)
ReadForGift(q) ==
  /\ invoices > 0
  /\ Start(q, "gift", [Idle EXCEPT !.pc = "store", !.copy = status])
  /\ invoices' = invoices - 1
  /\ UNCHANGED <<ledger, status, gifts, credits, reopened, locks, price, refund, crashes>>

(* Whether the save of a collection credits it: the row says not yet and   *)
(* the copy says delivered (process_collection_status_change).             *)
FirstDelivery(q) == status # "payed" /\ req[q].copy = "payed"

(* The whole copy is written.  The handler has the row's lock for it, and  *)
(* keeps it while it credits.                                              *)
Store(q) ==
  LET paid == IF req[q].op = "gift" THEN 1 ELSE 0
  IN  /\ req[q].pc = "store"
      /\ clock = None
      /\ IF FirstDelivery(q)
         THEN /\ clock' = q
              /\ req' = [req EXCEPT ![q].pc = "sum", ![q].tx.by = "gift", ![q].tx.add = gifts + paid]
              /\ UNCHANGED <<status, gifts, reopened>>
         ELSE /\ status' = req[q].copy
              /\ reopened' = reopened + IF status = "payed" /\ req[q].copy # "payed" THEN 1 ELSE 0
              /\ gifts' = gifts + paid
              /\ req' = [req EXCEPT ![q] = Idle]
              /\ clock' = clock
      /\ UNCHANGED <<ledger, invoices, credits, mlock, rlock, price, refund, crashes>>

(* accounting_collection_redeem: the page looks at the status, and the     *)
(* transaction looks again under the lock.                                 *)
ReadToRedeem(q) ==
  /\ status = "done"
  /\ Start(q, "redeem", [Idle EXCEPT !.pc = "lock"])
  /\ UNCHANGED <<ledger, collection, locks, price, refund, crashes>>

OnceDone == TRUE  \* mutant: the status is not looked at again
StillDone == status = "done"

LockToRedeem(q) ==
  /\ req[q].pc = "lock"
  /\ clock = None
  /\ IF StillDone
     THEN /\ clock' = q
          /\ req' = [req EXCEPT ![q].pc = "sum", ![q].tx.by = "redeem", ![q].tx.add = gifts]
     ELSE /\ req' = [req EXCEPT ![q] = Idle] /\ clock' = clock
  /\ UNCHANGED <<ledger, collection, mlock, rlock, price, refund, crashes>>

-----------------------------------------------------------------------------
(* accounting_refund: the form allows what the balance shows.              *)
AskRefund(i, v) ==
  /\ refund[i].status = "none" /\ v <= bal
  /\ refund' = [refund EXCEPT ![i] = [status |-> "request", value |-> v]]
  /\ UNCHANGED <<ledger, collection, locks, price, req, crashes>>

(* exe_refunds_confirm: no lock and no transaction.                        *)
ReadRefund(q, i) ==
  /\ refund[i].status = "request"
  /\ Start(q, "refund", [Idle EXCEPT !.pc = "check", !.ref = i])
  /\ UNCHANGED <<ledger, collection, locks, price, refund, crashes>>

(* An item of this member and value is taken for this request's.           *)
Delivered(i) == delivered[refund[i].value] > 0

CheckAndDeliver(q) ==  \* mutant: the status is saved before the item
  LET i == req[q].ref
  IN  /\ req[q].pc = "check"
      /\ req' = [req EXCEPT ![q].pc = IF refund[i].status = "payed" \/ Delivered(i) THEN "deliver" ELSE "item"]
      /\ refund' = [refund EXCEPT ![i].status = "payed"]
      /\ UNCHANGED <<ledger, collection, locks, price, crashes>>

CheckRefund(q) ==
  LET i == req[q].ref
  IN  /\ req[q].pc = "check"
      /\ req' = [req EXCEPT ![q].pc = IF refund[i].status = "payed" \/ Delivered(i) THEN "deliver" ELSE "item"]
      /\ UNCHANGED <<ledger, collection, locks, price, refund, crashes>>

InsertRefund(q) ==
  /\ req[q].pc = "item"
  /\ delivered' = [delivered EXCEPT ![refund[req[q].ref].value] = @ + 1]
  /\ req' = [req EXCEPT ![q].pc = "sum"]
  /\ UNCHANGED <<given, pay, bal, stale, collided, collection, locks, price, refund, crashes>>

DeliverRefund(q) ==
  /\ req[q].pc = "deliver"
  /\ refund' = [refund EXCEPT ![req[q].ref].status = "payed"]
  /\ req' = [req EXCEPT ![q] = Idle]
  /\ UNCHANGED <<ledger, collection, locks, price, crashes>>

-----------------------------------------------------------------------------
(* Whom a request may wait for: the order of _save_all_regs is not fixed.  *)
WaitsFor(q) ==
  CASE req[q].pc = "next" -> {rlock[r] : r \in Regs \cap Left(q)} \ {None, q}
    [] req[q].pc \in {"write", "spend"} -> {mlock} \ {None, q}
    [] req[q].pc \in {"store", "lock"}  -> {clock} \ {None, q}
    [] OTHER -> {}

Cycle(S) == S # {} /\ \A q \in S : WaitsFor(q) \cap S # {}

(* Its transaction is rolled back; a gateway repeats its call.             *)
Gone(q) == /\ req' = [req EXCEPT ![q] = Idle] /\ Freed(q)
           /\ crashes < MaxCrashes /\ crashes' = crashes + 1
           /\ invoices' = invoices + IF req[q].op = "gift" THEN 1 ELSE 0
           /\ UNCHANGED <<ledger, status, gifts, credits, reopened, price, refund>>

(* A worker is killed, or the database ends one of the requests that wait  *)
(* for each other.                                                         *)
Crash(q) == req[q] # Idle /\ Gone(q)

-----------------------------------------------------------------------------
Init ==
  /\ given = 0 /\ delivered = NoneOf /\ pay = [r \in Regs |-> NoneOf]
  /\ price \in [Regs -> Prices] /\ bal = 0
  /\ mlock = None /\ rlock = [r \in Regs |-> None] /\ clock = None
  /\ status = "open" /\ invoices = 0 /\ gifts = 0 /\ credits = 0 /\ reopened = 0
  /\ refund = [i \in Refunds |-> NoRefund]
  /\ req = [q \in Requests |-> Idle]
  /\ stale = FALSE /\ collided = FALSE /\ crashes = 0

Step(q) ==
  \/ Sums(q) \/ WriteBalance(q) \/ Spend(q) \/ Cut(q) \/ Commit(q) \/ Finish(q)
  \/ Store(q) \/ LockToRedeem(q) \/ CheckRefund(q) \/ InsertRefund(q) \/ DeliverRefund(q)
  \/ \E r \in Regs : LockRegistration(q, r)

Next ==
  \/ \E q \in Requests : Step(q) \/ Crash(q)
  \/ \E q \in Requests : ReadToClose(q) \/ ReadForGift(q) \/ ReadToRedeem(q)
  \/ \E q \in Requests, v \in Values : Give(q, v)
  \/ \E q \in Requests, r \in Regs, p \in Prices : Save(q, r, p)
  \/ \E q \in Requests, i \in Refunds : ReadRefund(q, i)
  \/ \E i \in Refunds, v \in Values : AskRefund(i, v)
  \/ Participate

Spec == Init /\ [][Next]_vars

-----------------------------------------------------------------------------
Bag == [Values -> Nat]
Rows == [op : Operations \cup {"none"},
         pc : {"idle", "sum", "write", "next", "spend", "cut", "store", "lock", "check", "item", "deliver"},
         reg : Regs \cup {None}, rem : Int, val : Int, todo : SUBSET Regs, inner : SUBSET Regs,
         ref : Refunds \cup {None}, copy : CollectionStatus \cup {"none"}, tx : {NoTx}]

(* The tables keep their types, and a row is held by a transaction only:   *)
(* the collection's by one that delivers it.                               *)
TypeOK ==
  /\ given \in Nat /\ delivered \in Bag /\ pay \in [Regs -> Bag] /\ bal \in Int
  /\ price \in [Regs -> Prices] /\ status \in CollectionStatus
  /\ {invoices, gifts, credits, reopened, crashes} \subseteq Nat
  /\ refund \in [Refunds -> [status : {"none", "request", "payed"}, value : Values \cup {0}]]
  /\ DOMAIN req = Requests
  /\ \A q \in Requests : /\ [req[q] EXCEPT !.tx = NoTx] \in Rows
                         /\ req[q].tx.by \in {"none", "registration", "redeem", "gift"}
                         /\ \A r \in DOMAIN req[q].tx.pay : rlock[r] = q /\ req[q].tx.pay[r] \in Bag
  /\ \A h \in ({mlock, clock} \cup {rlock[r] : r \in Regs}) \ {None} : InTx(h)
  /\ clock # None => req[clock].tx.by \in {"redeem", "gift"}

Quiet == \A q \in Requests : req[q] = Idle

(* When nothing is under way the balance of the member is what was given   *)
(* and neither used nor delivered, unless a recalculation was overtaken    *)
(* (update_credits takes no lock), a debit met an older payment or a       *)
(* request died half way.                                                  *)
BalanceExact ==
  Quiet /\ ~stale /\ ~collided /\ crashes = 0 =>
    bal = given - Used(pay) - Sum(delivered)

(* An item is booked and its recalculation has not been written.           *)
Pending == crashes > 0 \/ \E q \in Requests : req[q].pc \in {"sum", "write"}

(* What is paid with credits was there: two requests never spend the same  *)
(* balance (token_credit.py: "Prevent concurrent requests from double-     *)
(* spending the same balance"), unless a recalculation was overtaken.      *)
(* What was delivered as a refund counts once its recalculation is         *)
(* written.                                                                *)
SpendsWhatIsThere ==
  [][Used(pay') > Used(pay) =>
       \/ stale' \/ collided'
       \/ Used(pay') + (IF Pending THEN 0 ELSE Sum(delivered')) <= given']_vars

(* A collection is credited when it becomes PAYED and only then: as often  *)
(* as its status says, plus once for each time a stale copy of the row     *)
(* took the status back.                                                   *)
CreditedPerDelivery == credits = reopened + IF status = "payed" THEN 1 ELSE 0

(* A refund that is shown as paid has its item.                            *)
RefundHasItem == \A i \in Refunds : refund[i].status = "payed" => delivered[refund[i].value] > 0

(* Requests wait for each other only when one of them took the             *)
(* membership's row first: those that save and spend lock the              *)
(* registration, then the membership.                                      *)
DeadlockHoldsBalance == \A S \in SUBSET Requests : Cycle(S) => mlock \in S
=============================================================================
