----------------------- MODULE RegistrationAccounting -----------------------
(***************************************************************************)
(* The accounts of one member: registrations to several runs, the payments *)
(* of each one, and the balances of tokens and credits that pay what money *)
(* does not.  Saving a registration recalculates its accounting            *)
(* (accounting/registration.py); that may create, cut or delete payment    *)
(* records (accounting/token_credit.py); each of those saves fires the     *)
(* signals of models/signals.py, which save the registration again and     *)
(* recalculate the balance, which saves every other registration that is   *)
(* not settled.  One request is one action here.  The nested saves are a   *)
(* recursive function of how deep they may still nest: SaveAll, Recompute, *)
(* Use, Overpay and Saving take the function one level below as save, and  *)
(* thread the database through the calls in the order the code makes them. *)
(*                                                                         *)
(* db.pays is the AccountingItemPayment table, in the order of the ids     *)
(* while a request runs; a deleted row has value 0.  Amounts are whole     *)
(* units, each above the rounding tolerance.  db.failed is an exception    *)
(* that reached the top of a request: the model stops there.               *)
(***************************************************************************)
EXTENDS Integers, Sequences, FiniteSets, FiniteSetsExt

CONSTANTS
  AllRuns,
  MaxDepth,  \* saves that may nest before the interpreter gives up
  Bounds  \* for each instance: prices, amounts, how many registrations and
          \* payments, how much is given, and the requests besides SignUp and Give

ASSUME BoundsAssumption ==
  /\ MaxDepth \in Nat
  /\ Bounds \subseteq
       [prices : SUBSET Nat, amounts : SUBSET (Nat \ {0}), regs : Nat, pays : Nat, given : Nat,
        enabled : SUBSET {"money", "accept", "close", "drop", "cancel", "friend"}]

VARIABLE db

Kinds == {"token", "credit"}

Rank == [credit |-> 0, token |-> 1, money |-> 2]

Registration == [run : AllRuns, cancelled : BOOLEAN, refunded : BOOLEAN, bonus : Nat, paid : Int, due : Nat]
Payment == [reg : Nat, kind : Kinds \cup {"money"}, value : Nat]
DB == [bounds : Bounds, regs : Seq(Registration), pays : Seq(Payment), price : [AllRuns -> Nat],
       queued : SUBSET AllRuns, closed : SUBSET AllRuns, accepted : BOOLEAN, given : [Kinds -> Int],
       bal : [Kinds -> Int], refunds : SUBSET (Kinds \X AllRuns \X Nat), collided : BOOLEAN, failed : BOOLEAN]

NoBalance == [k \in Kinds |-> 0]

Total(pays, ids) == SumFunctionOnSet([i \in DOMAIN pays |-> pays[i].value], ids)

PaidFor(s, r) == Total(s.pays, {i \in DOMAIN s.pays : s.pays[i].reg = r})
Used(s, k) == Total(s.pays, {i \in DOMAIN s.pays : s.pays[i].kind = k})
Due(s, r)  == s.price[s.regs[r].run]

Closed(s, r) == s.regs[r].run \in s.closed
Active(s, r) == ~s.regs[r].cancelled /\ ~Closed(s, r)

Stored(s, r, amount) ==
  [s EXCEPT !.regs[r].paid = amount, !.regs[r].due = Due(s, r)]

(* Registrations of the same run that were cancelled hand their payments   *)
(* over to the one being saved.                                            *)
Transferred(s, r) ==
  LET from == {q \in DOMAIN s.regs : s.regs[q].cancelled /\ s.regs[q].run = s.regs[r].run}
      Moved(p) == IF p.reg \in from THEN [p EXCEPT !.reg = r] ELSE p
  IN  IF s.regs[r].cancelled THEN s ELSE [s EXCEPT !.pays = [i \in DOMAIN @ |-> Moved(@[i])]]

(* ids in the order of a relation: the n-th has n - 1 of them before it.   *)
InOrder(ids, before) ==
  [n \in 1..Cardinality(ids) |-> CHOOSE i \in ids : Cardinality({j \in ids : <<j, i>> \in before}) = n - 1]

Newest(ids) == InOrder(ids, {ij \in ids \X ids : ij[1] > ij[2]})

(* Credits first, then tokens, the larger and the newer ones first.        *)
FirstTaken(s, i, j) ==
  LET p == s.pays[i]  q == s.pays[j]
  IN  \/ Rank[p.kind] < Rank[q.kind]
      \/ p.kind = q.kind /\ p.value > q.value
      \/ p.kind = q.kind /\ p.value = q.value /\ i > j

(* Rows to take from, as they are when the list is read.                   *)
AsRead(s, ids) ==
  LET order == InOrder(ids, {ij \in ids \X ids : FirstTaken(s, ij[1], ij[2])})
  IN  [n \in DOMAIN order |-> [id |-> order[n], row |-> s.pays[order[n]]]]

Of(s, r, kinds) == {i \in DOMAIN s.pays : s.pays[i].reg = r /\ s.pays[i].kind \in kinds /\ s.pays[i].value > 0}

OnlyCredits(s, r) == AsRead(s, Of(s, r, {"credit"}))  \* mutant: tokens are not handed back

(* The rows an overpayment is taken from.  The list is read once.          *)
Reversible(s, r) == AsRead(s, Of(s, r, Kinds))

(* Registrations whose last stored total is not their price, newest first. *)
Incomplete(s) == Newest({q \in DOMAIN s.regs : Active(s, q) /\ s.regs[q].paid # s.regs[q].due})

-----------------------------------------------------------------------------
SaveFirst(save, s, list) ==  \* mutant: returns inside the loop
  IF list = <<>> THEN s ELSE save[s][Head(list)]

(* A step for each item of a list in turn.                                 *)
Through(step, start, list) ==
  LET at[n \in 0..Len(list)] == IF n = 0 THEN start ELSE step[at[n - 1]][list[n]]
  IN  at[Len(list)]

SaveAll(save, s, list) == Through(save, s, list)

(* The balance of one kind is set to what was given minus what was used,   *)
(* then the registrations that are not settled are saved.                  *)
Recompute(save, s, k) ==
  LET t == [s EXCEPT !.bal[k] = s.given[k] - Used(s, k)]
  IN  IF s.failed THEN s ELSE SaveAll(save, t, Incomplete(t))

(* One balance pays what it can of the amount left.  m is the copy of the  *)
(* membership row this call works on: the whole row is written.  The       *)
(* payment record is get_or_create()d by kind, registration and value;     *)
(* older is how many rows there were when the call began.                  *)
Apply(save, s, r, k, left, m, older) ==
  LET use  == IF left < m[k] THEN left ELSE m[k]
      mm   == [m EXCEPT ![k] = @ - use]
      row  == [reg |-> r, kind |-> k, value |-> use]
      same == {i \in DOMAIN s.pays : s.pays[i] = row}
      t    == [s EXCEPT !.bal = mm]
  IN  IF left <= 0 \/ m[k] <= 0 \/ s.failed THEN [db |-> s, left |-> left, m |-> m]
      ELSE [left |-> left - use, m |-> mm,
            db |-> CASE same = {} -> save[[t EXCEPT !.pays = Append(@, row)]][r]
                     [] \E i \in same : same = {i} -> [t EXCEPT !.collided = @ \/ \E i \in same : i <= older]
                     [] OTHER -> [t EXCEPT !.failed = TRUE]]

UseStaleRow(save, s, r, rem) ==  \* mutant: the second debit reads its own copy of the row
  LET a == Apply(save, s, r, "token", rem, s.bal, Len(s.pays))
      b == Apply(save, a.db, r, "credit", a.left, s.bal, Len(s.pays))
  IN  [db |-> b.db, used |-> rem - b.left]

Use(save, s, r, rem) ==
  LET a == Apply(save, s, r, "token", rem, s.bal, Len(s.pays))
      b == Apply(save, a.db, r, "credit", a.left, a.m, Len(s.pays))
  IN  [db |-> b.db, used |-> rem - b.left]

(* What an item is cut to, when so much is still overpaid.                 *)
Kept(item, over) == IF item.row.value > over THEN item.row.value - over ELSE 0
Taken(s, item, over) == [s EXCEPT !.pays[item.id].value = IF @ = 0 THEN 0 ELSE Kept(item, over)]

CutSilently(save, s, r, item, over) ==  \* mutant: the balance is not recalculated
  save[Taken(s, item, over)][r]

(* One row is cut by what is still overpaid, or deleted.  The save fires   *)
(* the registration's own save and then the balance of the row's kind.     *)
Cut(save, s, r, item, over) ==
  IF s.failed THEN s ELSE Recompute(save, save[Taken(s, item, over)][r], item.row.kind)

Overpay(save, s, r, over) ==
  LET cut == [acc \in [db : DB, over : Int] |-> [item \in [id : Nat, row : Payment] |->
                IF acc.over <= 0 THEN acc
                ELSE [db |-> Cut(save, acc.db, r, item, acc.over), over |-> acc.over - item.row.value]]]
  IN  Through(cut, [db |-> s, over |-> over], Reversible(s, r)).db

(* Saving registration r.  The total that is written at the end was summed *)
(* before tokens and credits moved; what they pay is added to it, what is  *)
(* taken back is not.                                                      *)
Saving(save, s0, r) ==
  LET s    == Transferred(s0, r)
      paid == PaidFor(s, r)
      rem  == Due(s, r) - paid
      u    == Use(save, s, r, rem)
  IN  IF s0.failed THEN s0
      ELSE IF Closed(s, r) THEN s
      ELSE IF rem = 0 \/ s.regs[r].cancelled \/ ~s.accepted THEN Stored(s, r, paid)
      ELSE IF rem > 0 THEN Stored(u.db, r, paid + u.used)
      ELSE Stored(Overpay(save, s, r, 0 - rem), r, paid)

(* A save at a depth; at the limit the interpreter raises an error.        *)
Save ==
  LET save[n \in 0..MaxDepth] ==
        [s \in DB |-> [r \in Nat |->
          IF n = 0 THEN [s EXCEPT !.failed = TRUE] ELSE Saving(save[n - 1], s, r)]]
  IN  save[MaxDepth]

Handle(s, r) == Save[s][r]

-----------------------------------------------------------------------------
(* Between requests deleted rows are dropped and the ids, which only break *)
(* ties among equal rows, are forgotten.                                   *)
Tidy(s) ==
  LET Before(i, j) == LET p == s.pays[i]  q == s.pays[j]
                      IN  \/ p.reg < q.reg
                          \/ p.reg = q.reg /\ Rank[p.kind] < Rank[q.kind]
                          \/ p.reg = q.reg /\ p.kind = q.kind /\ p.value < q.value
                          \/ p = q /\ i < j
      live  == {i \in DOMAIN s.pays : s.pays[i].value > 0}
      order == InOrder(live, {ij \in live \X live : Before(ij[1], ij[2])})
  IN  [s EXCEPT !.pays = [n \in DOMAIN order |-> s.pays[order[n]]]]

Request(t) == ~db.failed /\ db' = Tidy(t)

AccountsInit ==
  /\ \E b \in Bounds : \E p \in [AllRuns -> b.prices] :
       db = [bounds |-> b, regs |-> <<>>, pays |-> <<>>, price |-> p, queued |-> {}, closed |-> {},
             accepted |-> "accept" \notin b.enabled, given |-> NoBalance, bal |-> NoBalance, refunds |-> {},
             collided |-> FALSE, failed |-> FALSE]

(* The signup form: a member has one active registration per run.          *)
Free(run) ==
  run \notin db.closed /\ \A q \in DOMAIN db.regs : db.regs[q].run = run => db.regs[q].cancelled

SignUp(run) ==
  /\ Len(db.regs) < db.bounds.regs /\ Free(run)
  /\ LET reg == [run |-> run, cancelled |-> FALSE, refunded |-> FALSE, bonus |-> 0,
                 paid |-> 0, due |-> 0]
     IN  Request(Handle([db EXCEPT !.regs = Append(@, reg)], Len(db.regs) + 1))

(* A ticket price, a discount or an option changes: the row is saved, and  *)
(* the registrations of the event are left to a background task.           *)
Reprice(run, p) ==
  /\ db.price[run] # p
  /\ Request([db EXCEPT !.price[run] = p, !.queued = @ \cup {run}])

CheckRegistrations(run) ==
  /\ run \in db.queued
  /\ LET mine == {q \in DOMAIN db.regs : db.regs[q].run = run}
     IN  Request(SaveAll(Save, [db EXCEPT !.queued = @ \ {run}], Newest(mine)))

(* A payment in money is booked: its save fires the registration's.        *)
PayMoney(r, v) ==
  /\ "money" \in db.bounds.enabled
  /\ Len(db.pays) < db.bounds.pays
  /\ ~db.regs[r].cancelled
  /\ Request(Handle([db EXCEPT !.pays = Append(@, [reg |-> r, kind |-> "money", value |-> v])], r))

(* An organizer deletes a payment: a save too, and not of a new row, so    *)
(* the balance is recalculated as well.                                    *)
DropPayment(i) ==
  LET p == db.pays[i]
      k == IF p.kind = "token" THEN "token" ELSE "credit"
  IN  /\ "drop" \in db.bounds.enabled
      /\ Request(Recompute(Save, Handle([db EXCEPT !.pays[i].value = 0], p.reg), k))

(* Tokens or credits are given.                                            *)
Give(k, v) ==
  /\ db.given[k] + v <= db.bounds.given
  /\ Request(Recompute(Save, [db EXCEPT !.given[k] = @ + v], k))

(* Somebody signed up with this registration's friend code.                *)
BringFriend(r, v) ==
  /\ "friend" \in db.bounds.enabled
  /\ db.regs[r].bonus = 0
  /\ db.given["token"] + v <= db.bounds.given
  /\ LET t == [db EXCEPT !.given["token"] = @ + v, !.regs[r].bonus = v]
     IN  Request(Handle(Recompute(Save, t, "token"), r))

(* A cancellation withdraws the bonuses given for the registration.        *)
Cancel(r) ==
  /\ "cancel" \in db.bounds.enabled
  /\ ~db.regs[r].cancelled
  /\ LET c == Handle([db EXCEPT !.regs[r].cancelled = TRUE], r)
         t == [c EXCEPT !.given["token"] = @ - db.regs[r].bonus, !.regs[r].bonus = 0]
     IN  Request(IF db.regs[r].bonus = 0 THEN c ELSE Recompute(Save, t, "token"))

(* The organizer gives a cancelled registration's amount back as tokens or *)
(* credits, get_or_create()d by kind, run and value, and marks it.         *)
Refund(r, k, v) ==
  LET key == <<k, db.regs[r].run, v>>
      t   == [db EXCEPT !.given[k] = @ + v, !.refunds = @ \cup {key}]
      g   == IF key \in db.refunds THEN db ELSE Recompute(Save, t, k)
  IN  /\ "cancel" \in db.bounds.enabled
      /\ db.regs[r].cancelled /\ ~db.regs[r].refunded
      /\ db.given[k] + v <= db.bounds.given
      /\ Request(Handle([g EXCEPT !.regs[r].refunded = TRUE], r))

(* The association accepts the member: every registration is saved.        *)
Accept ==
  /\ "accept" \in db.bounds.enabled
  /\ ~db.accepted
  /\ Request(SaveAll(Save, [db EXCEPT !.accepted = TRUE], Newest(DOMAIN db.regs)))

(* The run is marked done: its registrations are not recalculated again.   *)
CloseRun(run) ==
  /\ "close" \in db.bounds.enabled
  /\ run \notin db.closed
  /\ Request([db EXCEPT !.closed = @ \cup {run}])

AccountsNext ==
  \/ \E run \in AllRuns : SignUp(run) \/ CheckRegistrations(run) \/ CloseRun(run)
  \/ \E run \in AllRuns, p \in db.bounds.prices : Reprice(run, p)
  \/ \E r \in DOMAIN db.regs : Cancel(r)
  \/ \E r \in DOMAIN db.regs, v \in db.bounds.amounts : PayMoney(r, v) \/ BringFriend(r, v)
  \/ \E r \in DOMAIN db.regs, k \in Kinds, v \in db.bounds.amounts : Refund(r, k, v)
  \/ \E i \in DOMAIN db.pays : DropPayment(i)
  \/ \E k \in Kinds, v \in db.bounds.amounts : Give(k, v)
  \/ Accept

AccountsSpec == AccountsInit /\ [][AccountsNext]_db

-----------------------------------------------------------------------------
(* The registrations whose accounting is up to date: the member may pay,   *)
(* the run is open and no recalculation of it is waiting in the queue.     *)
UpToDate == {r \in DOMAIN db.regs : /\ db.accepted /\ Active(db, r)
                                    /\ db.regs[r].run \notin db.queued}

(* Every token and credit is in the balance or in a payment record: the    *)
(* running debit of _apply_tokens / _apply_credits and the recalculation   *)
(* of update_tokens / update_credits agree, however the saves nest, as     *)
(* long as no debit met an older payment of the same value.                *)
LedgerBalanced ==
  ~db.collided /\ ~db.failed =>
    \A k \in Kinds : db.bal[k] = db.given[k] - Used(db, k)

(* What an overpaid registration was paid in tokens and credits has been   *)
(* handed back: registration_tokens_credits_overpay leaves a registration  *)
(* above its price only with money.                                        *)
OverpaidReturned ==
  ~db.failed =>
    \A r \in UpToDate : PaidFor(db, r) > Due(db, r) =>
      \A i \in DOMAIN db.pays : db.pays[i].reg = r => db.pays[i].kind = "money"

(* The member has no balance left while a registration of his is unpaid:   *)
(* each request that frees tokens or credits, on any registration, spends  *)
(* them on the others (_save_all_regs).                                    *)
NoIdleBalance ==
  ~db.collided /\ ~db.failed =>
    \A r \in UpToDate, k \in Kinds : PaidFor(db, r) < Due(db, r) => db.bal[k] <= 0

(* A request that spends tokens or credits never spends more than the      *)
(* member was given, whatever debits collided before.                      *)
NeverOverspent ==
  [][\A k \in Kinds : Used(db', k) > Used(db, k) => Used(db', k) <= db'.given[k]]_db
=============================================================================
