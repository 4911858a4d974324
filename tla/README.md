# TLA+ models of LarpManager

LarpManager is a Django application that runs the registrations, accounting, characters and
logistics of live role-playing events. It runs on PostgreSQL (READ COMMITTED, no `ATOMIC_REQUESTS`),
behind several workers, with a queue of background tasks (`django-background-tasks`), a shared cache
and a nightly command. Every model class has `pre_save`/`post_save` signals that do real work,
`save()` writes every column of the copy in hand, and a soft delete is a save. Most of what is hard
to test follows from these four facts.

This directory holds models of the parts where money, places, discounts and points are given away
and of the cache that shows who belongs where, the TLC runs that check them on small instances, and
proofs for all instances.

## 1. Inventory

| Component | State it keeps | Operations | Talks to |
|---|---|---|---|
| Payment invoices (`accounting/payment.py`, `accounting/invoice.py`) | `PaymentInvoice` rows, the `AccountingItem` linked to each, `Registration.num_payments` | open a payment form, save it, declare a transfer, receive money, confirm (treasurer, organizer, executive), expire | gateways, membership fee, registration accounting (signals) |
| Gateways (`accounting/gateway/`) | the code of an invoice, checkouts at the gateway | issue a checkout, webhook, poll of Satispay | payment invoices |
| Membership fee (`accounting/member.py`) | `AccountingItemMembership` per year, the reservation in `MemberConfig` | own invoice, desk, bundled with a registration payment | payment invoices |
| Registration accounting (`accounting/registration.py`, `accounting/token_credit.py`) | payments, `tot_payed`, `tot_iscr`, `Membership.tokens`/`credit` | recompute, use balance, reverse an overpayment, transfer from a cancelled registration, refund, bonus | signals of every accounting item, background recalculation |
| Credit of a member (`accounting/token_credit.py`, `accounting/base.py`, `accounting/payment.py`) | `Membership.credit`, `Collection`, `RefundRequest` | spend, give back, recalculate; pay into, close and redeem a collection; ask for and deliver a refund | registration accounting, payment invoices |
| Deadlines (`accounting/registration.py`, `utils/users/deadlines.py`, `management/commands/automate.py`) | `quota`, `deadline`, `alert` of a registration | recompute, nightly refresh, remind, list to cancel | registration accounting |
| Registration of a member (`views/user/registration.py`, `forms/registration.py`) | `Registration`, the cached counts of a run | sign up, edit, request, approve, cancel, gift | the lock of the `Run` row, invoices, discounts |
| Discounts (`views/user/registration.py`) | `AccountingItemDiscount` with an expiry | reserve, confirm, list (purges), add, remove, expire | registration |
| Caches and dirty flags (`cache/rels.py`, `cache/`) | cached dictionaries, a flag per stale entry, queued tasks | read, flag, resolve on demand or in the background, expire | signals, background tasks |
| Experience points (`utils/services/experience.py`) | abilities of a character, `free_abilities`, `exp_avail` | buy, undo, save, recalculate, reprice, deliver | background tasks |
| Background tasks (`utils/larpmanager/tasks.py`) | the task queue | queue once, run, retry | all of the above |
| Electronic invoices, numbering (`models/accounting.py`, `models/base.py`) | numbers per year and association | assign the next number | - |
| Transfer of registrations (`utils/services/transfer.py`) | - | move to another run | registration, accounting |
| Characters, casting | assignments, preferences | assign under a lock of the event | registration |
| Inventory, warehouse | pools, quantities | move, assign under row locks | - |
| Writing, roles, configuration, mail, uploads, authentication, templates | - | lookups, forms over single rows, I/O | - |

What makes each of them correct:

- *Payments*: an invoice is credited exactly once, whoever confirms it and however often the gateway
  repeats itself; an invoice that is shown as paid is credited; a fee that is taken off a payment is
  booked, once per year; a payment the gateway took is credited in the end.
- *Accounts*: what was given in tokens and credits is either in the balance or in payment records;
  an overpayment goes back; no balance lies idle while something is unpaid; nothing is spent twice,
  also by two requests at once; a collection is credited once, a refund that is shown as paid is
  booked.
- *Deadlines*: nobody is asked for more than is owed; who pays when asked is never late; nobody is
  cancelled who was not asked; in the end everything is asked for.
- *Registration*: an event and a ticket are never oversold; a free place is found; every form is
  answered.
- *Discounts, inventory*: no more is given away than there is. *Numbering*: no gap and no duplicate.
- *Caches*: what is stale is flagged, a flag is handled without a reader, a value that is read after
  a change is not the old one for ever.
- *Points*: the stored number is what the rules leave; no ability without its prerequisites; nobody
  buys what the points do not pay.

Hard behaviours: requests that read a row, work, and write the whole copy back; signals that
re-enter the handler that saved; gateway callbacks that are lost, repeated or late; workers that die
between an item and its row; counts cached between a save and its commit; calculations that overtake
each other; everything that reads without a lock and then decides. `PROJECT.json` lists such places
as hazards, at their lines.

## 2. Modules

Each component has a module of its own, an `MC` module with its instances, and a module `...Proofs`
where theorems are proved. Variables whose comment begins with what happened (`stale`, `collided`,
`reopened`, `revived`, `raced`, `orphan`, `doubt`, `loose`, `unfair`, `crossed`, `outpaid`) are history: they record that
a named race of the code took place. No action depends on them; properties that the code keeps only
without that race say so with them.

### PaymentInvoice, PaymentLedger, AccountingProofs, MCPaymentInvoice

One member's invoices. `row` is the committed table, `item` the accounting item of each row, `num`
the counter of payments per registration, `year` the membership that is booked for the year,
`pending` the reservation of the bundled fee, `lock` and `plock` the row locks, `req` the requests
with the copy of the row each one works on (and the number of payments of the registration it has
read, `seen`), `issued`, `open` and `captured` the checkouts at the gateway, `currency` what the
association takes.

A request is a process with a program counter: `OpenForm` -> `SaveForm` (-> `IssueCheckout` ->
`Store`) for the payment page; `Webhook` or `AskSatispay` -> `SatispayAccepts`, then `ReceiveMoney`;
`TreasurerConfirms`, `OrganizerConfirms`, `DeskMembership`. `SatispayDeclines` is every other end of
the question: no connection, an error status, an answer that cannot be read, a payment that is not
accepted yet, or one in another currency than the association has by now (`ChangeCurrency`). Every
confirmation then goes through the `pre_save` signal: `Lock` reads the row under its lock, `Process`
looks for an item and reads the registration (without a lock), `SplitFee` locks the reservation and
works out the bundled fee, `Commit` books and `Write` saves the caller's copy. The signal of the
item saves the registration as `Process` read it, and then one is added to `num_payments`: hence
`num' = seen + 1` in `Commit`, not `num + 1`. `ReadRegistration` and `SaveRegistration` are the edit
form, which writes the count back too. `crossed` notes the registrations with a confirmation during
which another request had a copy of the same registration in hand. Whether `Commit` and `Write` are one transaction is
what the code has (`Atomic`): they are for what arrives from a gateway and for the treasurer's
confirmation, and are not for an organizer's or the desk's. `Crash` kills a request anywhere. Which
operations a request may run is the constant `Serves`.

`PaymentLedger` is what the protocol promises: a credit is booked at most once, never changes, and
an invoice becomes shown as paid only after its credit. A stale save may hide the paid status again
(`Hide`); that is what the code does, see section 5.

### RegistrationAccounting, AccountingProofs, MCRegistrationAccounting

One member's accounts. The variable `db` holds registrations, payments (`pays`), prices, what was
given, balances, queued recalculations, and the bounds of the instance. A request is one action;
inside it `Saving` (update_registration_accounting), `Use`, `Apply`, `Overpay` and `Cut`
(token_credit.py), `Recompute` (update_tokens, update_credits) and `SaveAll` thread the database
through the nested saves in the order in which the signals call each other. Each takes `save`, the
saves one level below, as a parameter, and `Save` is a recursive function of the depth: at
`MaxDepth` the interpreter's recursion limit is reached, which is one more way to fail. Requests of
one member do not overlap in this module (they do in `MemberCredit`). `db.failed` is an exception
that reached the top of a request (the instance stops), `db.collided` says that a debit met an older
payment of the same value, which `get_or_create` returns instead of recording the debit:
`LedgerBalanced` and `NoIdleBalance` are stated up to that event.

### MemberCredit, MemberCreditProofs, MCMemberCredit

The same balance, with several requests of one member at once. `pay` is a bag of payments per
registration, `bal` the stored balance, `mlock`, `rlock`, `clock` the locks of the membership, of
each registration and of the collection, `req` the workers with the transaction (`tx`) nobody else
sees yet. A save locks the registration, computes, and locks the membership to spend or to give
back; giving credits, redeeming and delivering book an item first and recalculate the balance
(`sum`, then `write`) without the lock. A collection is paid into, closed and redeemed from copies
that may be old (`reopened`); a refund is asked for against the balance and delivered by whoever
confirms it. A request is killed anywhere, or as the victim of a deadlock. `Reversed` is what the
loop of `registration_tokens_credits_overpay` leaves of the payments, in closed form: the largest
are `Deleted` while they fit into the surplus, the first that does not is `Shortened`.

### PaymentPlan, PaymentPlanProofs, MCPaymentPlan

What a registration is asked for and by when, day by day. `reg` holds price, what is paid, and the
stored `quota`, `deadline` and `alert`; `plan` the quotas or installments of the event. Every action
ends in `Save`, which recomputes the three as `update_registration_accounting` does (`Refreshed`);
`Night` is the nightly command, which may fail (any exception ends it for everybody) and does not
remind on holidays; `told` is what became of the days of reminders since there is an alert. The helpers `QuotaAmount`, `QuotaDeadline`, `NearTerms` and so on are pure and
keep the code's roundings, as `Share` does for the third of a price.

### Signup, SignupProofs, SumLemmas, MCSignup

One run. `reg` is the active registration of each member, `counts` the cached counts, `lock` the row
lock of the run, `submitted` the registration a payment waits for, `req` the POSTs under way.
`Validate` builds and validates the form from the cached counts (filling them on a miss);
`Duplicate`, `Deny`, `SaveNew` are the three outcomes of the transaction that takes the run's lock;
`SaveEdit` and `RejectEdit` those of an edit, which takes no lock and counts nothing; `Commit` and
`Fail` end it. Changes are visible to others at `Commit` only, while the cached counts are cleared
at the save. `RequestSignup`, `Approve`, `Cancel`, `DeclarePayment`, `ConfirmPayment` and `Expire`
(of the cache) are one step each. `Editing`, `Approval` and `Linked` (tickets given out by direct
link) choose the event's settings.

### DiscountReservation, DiscountReservationProofs, MCDiscountReservation

The uses of the discounts of one run. `use` is the table (a deleted row is `NoUse`), `lock` the row
locks of the discounts, `req` the requests with the copies of rows they have in hand. A code checks
and creates under the lock of its discount; the save of a registration confirms reservations, every
visit deletes those that expired, organizers add and remove, all without it. Both a delete and a
confirmation save a copy: a confirmation brings a row back that was deleted meanwhile (`revived`).

### RelsCache, RelsCacheProofs, MCRelsCache

The dictionary of relations of one event. `link` is the committed relation, `cache` the stored
dictionary or `Absent`, `dirty` the flags, `tasks` the queue. An editor's transaction flags the
groups and characters it touches at once and changes `link` at its `Commit`; a reader loads the
dictionary, works flagged entries out section by section, taking the flags off, and stores its copy;
the worker takes a task, and for each item of it checks the flag, loads, builds, stores and takes
the flag off. `Expire` is the day-long timeout of the key. `raced` records that a flag was taken
off, or a copy stored, at a moment at which the code loses a change.

### Experience, ExperienceProofs, MCExperience

The points of one character. `book` holds the rules of the event and what was delivered, `held` the
abilities, `avail` and `free` the two configurations that the calculation stores, `proc` the
calculations under way: `Buy` (in a transaction, under the lock of the character), `Undo` (in a
transaction), `SaveCharacter` (no transaction) or the task of the worker (`Run`) begin one; `Look`,
`Grant` or `KeepFree`, `Sum`, `AutoBuy`, `EndRound`, `Store` are its steps. `Alter` is a change of a
price or of a delivery and queues the task. The formulas (`Cost`, `Total`, `Withdrawn`) are
operators on the rules and a set of abilities.

## 3. Runs

| Run | Bounds | Shows |
|---|---|---|
| `payment_mixed` | 2 invoices, pages of 2 registrations and of the membership, 3 requests (form; organizer and declared transfer; desk, PayPal webhook, edit of a registration and expiry), 1 crash | `PaidIsCredited`, `PaymentsNumbered`, `MembershipPaidOnce`, `SplitIsBooked`; the protocol implements `PaymentLedger` (2 million states) |
| `payment_cron` | 1 invoice, 2 checkouts, 2 currencies, 1 crash, fair | `CaptureIsCredited` without any webhook |
| `accounts` | two instances: 2 runs, 2 prices, gifts of 10 and 20, 1 payment in money; 3 registrations, 2 payments, cancellations, refunds, bonuses; saves nest up to 12 deep | `LedgerBalanced`, `OverpaidReturned`, `NoIdleBalance`, `NeverOverspent` (1.5 million states) |
| `signup_new` | 3 members, 4 forms of 1 or 2 seats, 2 places, a ticket for 1, one without a limit, one for the waiting list | `PlayersWithinCap`, `TicketWithinCap` |
| `signup_answered` | 2 members, 2 forms, all operations, fair | `RoomIsFound`, `EveryFormIsAnswered` |
| `discount_uses` | 1 discount for 1 use, 3 members, 3 rows, 3 requests, 1 crash | `OncePerMember` |
| `discount_max` | the same | violation of `UsesWithinMaximum` (section 5) |
| `member_credit` | 2 registrations, 2 workers, 1 refund, credits of 1, 1 gift, 1 crash | `BalanceExact`, `SpendsWhatIsThere`, `CreditedPerDelivery`, `RefundHasItem`, `DeadlockHoldsBalance` |
| `deadlines` | 10 plans, 2 prices, 14 days, alert of 3 days, tolerance of 2, reminders every 3 | `NeverAsksTooMuch`, `PunctualNeverLate`, `CancelledOnlyIfAsked`, `WholeDebtInTheEnd`, `RemindedBeforeCancelled` |
| `deadline_paid` | 2 installments, 1 price | violation of `CancelledAfterTolerance` (section 5) |
| `rels_cache` | 1 group, 1 character; 2 editors and a reader, or 2 readers and an editor, or one of each and a kill; fair | `StaleIsFlagged`, `FreshRead`, `FlagsAreHandled`, `HealsInTheEnd` (1.9 million states) |
| `experience` | 3 abilities, 3 sets of rules; 2 requests, or 1 and a change of the rules, or 1 and a kill, next to the task; fair | `StoredIsRight`, `PrerequisitesHeld`, `NothingAffordable`, `BuysWithinPoints`, `CatchesUp` |

Why the bounds are enough. A race on an invoice needs the request that reads, the one that decides
in between, and a third that repeats; more requests only repeat one of the three roles. Two invoices
are the least at which one membership year can be paid twice. In the accounts, two registrations are
the least at which freed credits have somewhere to go, and a cheap and a dear price give every order
of underpaid, paid and overpaid; gifts of 10 and 20 pay a part, all, or more than a price. Three
members and one place (of a ticket; two of the event, so that the cap of the event does not stand in
for that of the ticket) or one use of a discount give one who has it, one who takes it while the
third, with a stale form, waits for the lock. Two workers and one credit are the least with which a
credit can be spent twice, and with two registrations they can lock in both orders. Fourteen days
hold the whole of a plan before an event on day 12 and the tolerance after it. For the cache, every
race is between two of: a change, a reader, the worker, a kill; a group and a character are the two
sections a reader works out one after the other. Of the three abilities one needs another, and the
rules are one in which abilities raise the points, one in which a modifier makes an ability free,
and one in which the system buys.

Bounds in the guards: `MaxCheckouts`, `MaxCrashes` (payments, discounts, credit); `regs`, `pays`,
`given` of `Bounds` (accounts); `MaxGiven`, `MaxGifts` (credit); `MaxDays` (deadlines); `Ids` and
`MaxSeats` (signup); `Rows` (discounts); `left` (cache and points: changes, kills, requests). All
but the signup runs may stop when a bound is reached, so they do not check deadlock; the signup runs
do.

Fairness. `payment_cron`: requests run to their end (`SF`: a row lock is granted in turn, and a
killed request is not every request), the `check_payments` command asks again about every open
Satispay row, and of the answers about a payment that was accepted not all are lost or spoilt (`SF`
on `SatispayAccepts`). A payment in another currency than the association has is dropped by the code
(satispay.py:429) and is not promised to be credited (`Awaited`). `signup_answered`: a form that was sent is answered (`SF`, as PostgreSQL grants row locks in
the order they are asked for), a save commits unless it is killed every time, the cached counts
expire after five minutes, and a member who wants a place keeps trying. `rels_cache`: a request that
has begun goes on, the task processor is always restarted and takes the tasks that are queued, the
dictionary's key expires after a day (all `WF`). `experience`: requests go on, the task processor is
restarted; it is not assumed that anybody asks again. Nothing is assumed about other members,
organizers or gateways.

## 4. Proofs

All theorems hold for every number of requests, rows, members, amounts, plans, days, groups,
abilities. What they assume of the constants are the assumptions the modules name
(`ConstantsAssumption`, `BoundsAssumption`, `NoUseAssumption`, `NoItemAssumption`), and, where it is said below, a
hypothesis in the theorem itself.

`SumLemmas`. Sums over finite sets (`SumFunctionOnSet`): how one unfolds, that it is an integer or a
natural, what one changed, added or removed summand does to it, how two compare. The library's
induction theorems take an operator, which the provers cannot instantiate; the lemmas use its
well-founded orders instead: were a statement false for some finite set, it would be for a smallest
one (`SmallestSubset`), and that one has an element whose removal contradicts it. `LeastNatural` is
the same for numbers. The proofs about tickets, balances and plans rest on them.

`AccountingProofs`, first part (`PaymentInvoice`). The inductive invariant `IInv` adds three facts to the types and
`PaidIsCredited`: `LockHeld` (who is about to book owns the row's lock), `CopyStatus` (a copy with a
paid status is written only once its item exists), and `ReadsHold` (what was read under the lock
still holds at the commit). Without `LockHeld` two requests could pass `Process` together; without
`CopyStatus` a `Write` could show an uncredited row as paid. From it follow `TypeCorrect`,
`PaidRowsAreCredited` and `InsertsAreSafe`. `PaymentsCounted` (`PaymentsNumbered`) has an invariant
of its own on top, `NumInv`: no number that a request will write back is ahead of the payments
(`Behind`), and where nothing crossed, all such numbers are the registration's own and a confirmation
is alone with it (`Exact`). `MembershipUnique` adds that the unique constraint rejects the second
membership of a year. `LedgerImplemented` maps each step to
`Book`, `Show`, `Hide` or a stutter.

`SplitsAreBooked` (`SplitIsBooked`): a payment which is being split holds the reservation and its
lock, and the fee of the year is not booked yet (`SplitStands`), or it was booked by itself since
(`outpaid`): at the desk or by a membership invoice, neither of which looks at the reservation. In
that case the split is booked nowhere (section 5).

`AccountingProofs`, second part (`RegistrationAccounting`). `AccountsTyped`,
`AccountsInvariantHolds`, `AccountsBalanced` (`LedgerBalanced`), `AccountsReturned`
(`OverpaidReturned`), `AccountsServed` (`NoIdleBalance`), `AccountsNeverOverspent`
(`NeverOverspent`): for any prices and amounts, any number of registrations and payments, and any
depth to which saves may nest. The argument has two levels.

- What one save owes to whoever called it is `Contract`: it leaves alone what no save may change
  (`Carries`); a balance that was right is right after it (`KeepsBalanced`); what was handed back
  stays so, and what registration `r` is overpaid is handed back by its own save (`KeepsReturned`);
  who is not settled stays listed as such (`KeepsNoted`), which is what `Incomplete` goes by; who
  was served is still served, if the others are listed (`KeepsServed`); a cancelled registration is
  left alone (`LeavesAlone`); and a save of a registration that is not overpaid moves at most one
  row of tokens and one of credits, of known amounts (`PaysExactly`). That a save keeps the contract
  if the saves one level below do (`SavingMeets`) is the body of the proof: a debit and the save its
  record fires (`UseExact`: the second debit finds what the nested save has already paid), the cuts
  of an overpayment, each with its save and its recalculation (`CutMeets`), and the recalculation of
  a balance with its saves of all who are not settled (`RecomputeKeeps`). `SaveMeets` concludes by
  a least depth at which it would fail. None of the parts can be proved without the others: the
  balance is right after a cut only because the nested saves keep it, and they serve everybody only
  because everybody is listed.
- What a request keeps is `AccountsInvariant`: besides the three properties, for the registrations
  that are current, that one registration per run is active (`OneActive`: a save that takes the
  payments of cancelled registrations takes nobody else's), and `AllNoted` as above. Each request is
  an edit followed by saves that make good what it broke.

`NeverOverspent` speaks of the requests in which a debit collided or that failed too, where
`Contract` asks for nothing of the balances. Its invariant, `FairInvariant`, adds that no balance
holds more than was given and not used (`Fair`), and a second contract, `Thrifty`, says what a save
owes to it (`SaveThrifty`, by a least depth once more): it keeps `Fair`, and uses more only of what
was given. Two places in the code would break this if the nested saves did not do exactly what the
save around them is about to do.

- `Use` writes the whole membership row twice, the second time from a copy made before the save that
  its first record fired. That save has debited the credits in between; the copy would give them
  back. It does not, because the nested save has paid the same amount from the same balance and made
  the same record (`PaysCredits`, `TokensNested`), so the second debit finds its record, and writes
  what is there (`CreditsOnTop`).
- `Overpay` reads its list of rows once and cuts each in turn, while the save fired by the first cut
  already takes back all that is still overpaid. The second cut would set a deleted or a shortened
  row to what it computes from the old value, and use more again. It does not, because the row is
  then at exactly that value, or gone (`Left`, `Trims`, `LaterCutNothing`), and no save in between
  moves a row of a registration that is `Steady` (`TrimmedOn`).

A withdrawn bonus is the only way to more used than given (`CancelWary`): the saves after it use no
more of the kind.

`ThroughHolds` is the rule for loops: what every step takes from one set to the next holds of the
last. `InOrderEnumerates` says that a list made by counting predecessors contains everything once;
with `SumReindexed`, that dropping deleted rows and sorting the rest between requests (`Tidy`)
changes no sum.

`SignupProofs`. `NeverOversold`: while registrations are made and cancelled, but not edited or asked
for, `PlayersWithinCap` holds. The invariant: who has saved holds the run's lock (`SavedHoldsLock`),
hence nobody else has, and the place counted when the lock was taken stays free until the commit
(`PlaceIsKept`). `TicketNeverOversold` is the same for the registrations of a ticket: the seats that
were counted stay as they are (`SeatIsKept`), and are at least as many as the registrations that hold
them. It assumes nothing of the cap of the event, and holds with requests for signup and their
approval too. Once registrations are
edited neither assumption can be dropped (section 5). `TypesHold` assumes nothing: the cached counts
are sums of seats of committed registrations.

`DiscountReservationProofs`. `CodesStayBounded` (no run has it: it bounds the one use too many of
section 5, to which no race adds a second) and `OneUsePerMember`: who is about to create a use
owns the lock of the discount (`CreatorHoldsLock`), and what the check found under it still holds
when the row is made (`RoomIsKept`), for everybody else only removes uses, confirms them, or brings
back rows that are counted apart (`CopiesMatch`: copies agree with the rows they were read from).

`MemberCreditProofs`. `CreditedOnce`: who delivers a collection holds its row, and it is not
delivered yet (`DeliveryHeld`). `CirclesHoldBalance`: rows are held in transactions only
(`HeldInTx`), and a transaction that has a registration waits for the membership or holds it
(`OrderKept`); hence a circle of requests that wait for each other has a member that took the
membership first. `RefundsBooked` has an invariant of its own, that a request past the insertion of
the item has its item (`Underway`).

`BalanceIsLedger` (`BalanceExact`) and `TypesHold` rest on `CInv`: the types of tables and workers,
and `Books`, the balance in each moment. Unless one of the two races happened or somebody was
killed, either a recalculation waits outside of a transaction, or the stored balance is the ledger's
and so is, in every transaction that has recalculated, the balance it spends from (`Exact`). The
lemmas about `Reversed` say how much of the payments in tokens and credits it takes: at most the
surplus and never more than there is.

`BalanceSpentOnce` (`SpendsWhatIsThere`) is about every step: when a commit raises what the
registrations have used, all that was given covers what is used then and, unless a recalculation is
outstanding, what was paid out. `SInv` says so of the stored balance (`Funded`), of each transaction
that locked the membership (`FundedIn`), and of those that use more than is booked (`Covered`); a
transaction without a balance of its own only cuts (`CutOnly`). The equations of `CInv` cannot do
this work, because they stop holding when somebody is killed, and `SpendsWhatIsThere` does not.

`PaymentPlanProofs`. `AsksTheDebtAtMost`, `WhoPaysIsNotLate`, `AskedBeforeCancelled`,
`WholeDebtIsAsked`: for every plan of quotas or installments, every price and every number of days.
A registration's `quota` and `deadline` are as old as the last save, so the invariant `DInv` carries
the day on which they were computed (`Computed`): what was owed by which day is known from that day,
days that pass only bring the deadlines nearer, money that comes in only pays the nearest. It adds
that nothing owed is late as long as whatever was asked for was paid before a night passed
(`NothingLate`), and that what is late was asked for as many nights as it is late (`LateIsAsked`).
Both are up to the history variable `unfair`, as the two properties are.
`RemindedOrSkipped` (`RemindedBeforeCancelled`) assumes `RemindDays > 1`. Its invariant is that as
long as no day of reminders has come, the nights with an alert are no more than those since the last
one (`TurnIsNear`); with `AskedBeforeCancelled` it follows that the day comes before the tolerance is
over. What it does not say, because the code does not do it, is that a reminder is sent: the day may
be skipped. `EveryDayIsNever` shows what happens without the hypothesis: for `RemindDays = 1` no day
is one of reminders (section 5).

`RelsCacheProofs`. `TypeCorrect`, `NoChangeIsLost`, `ReadsAreFresh`. The invariant of the states
without a race: the flags of an open transaction stand and nobody works on what it has touched
(`OpenIsFlagged`); what a reader has worked out is right, or flagged, and all of it is right once it
is through, if nothing was committed meanwhile (`ReaderRight`); the same for the copy of the worker,
up to what a reader has resolved and not yet stored, and the entry whose flag it is about to take
off is right in the stored dictionary (`WorkerRight`).

`ExperienceProofs`. `AbilitiesHavePrerequisites`, `StoredNumberIsRight`, `AutoBuyIsDone`,
`PurchasesArePaid`. The first
invariant: a calculation that nobody crossed has in hand what the character has, and its sums are
right for that (`Sums`); the stored number is right unless a calculation is queued, or runs in a
save, or the last was overtaken (`Settled`). The lemmas `AddClosed` and `RemoveClosed` say that
buying what is available and withdrawing an ability with all that needs it keep every ability's
prerequisites. The first three theorems assume nothing about the rules or about `Total` and `Used`.

`PurchasesArePaid` is about the rules, and has a hypothesis: `BuysWithinPoints` holds as long as the
rules are `Gentle` (no criterion multiplies by zero; the modifiers of an ability ask for less than
the ability, and of two of them the earlier asks for no more) and what is listed as given for free
costs nothing to who has what the character has (`GivenIsFree`); without them it can fail (section
5). Under `Gentle` rules more abilities never mean a smaller total (`TotalGrows`) or a higher cost
(`CostFalls`), so buying an ability for its cost, and being given one that costs nothing, take no
more than what was left. The second invariant is `BInv`: what a purchase that nobody crossed has in
hand can be paid (`Paid`). That `Total`, a recursive function over the criterions, has the value its
definition asks for is proved first (`TotalExists`), and what grows along it by a least
counterexample. The rules of the run `experience` meet the hypothesis, with free abilities and with
purchases by the system.

Model-checked only: the liveness properties (`CaptureIsCredited`, `RoomIsFound`,
`EveryFormIsAnswered`, `FlagsAreHandled`, `HealsInTheEnd`, `CatchesUp`), for fairness is out of the
prover's reach. A theorem states every other property of a passing run.

## 5. Where the code does otherwise than it says

Shown by a run (the findings in `PROJECT.json`):

- a member who paid the first installment on its day and is a day late with the second is shown as
  late since the first and listed to be cancelled at once (`deadline_paid`);
- `max_redeem` is "The maximum number of uses (0 for unlimited uses)" (models/accounting.py:592), but
  `_is_discount_maxed` compares with `>` (views/user/registration.py:1122): codes give one use more
  (`discount_max`).

The rest was met while modelling. It can be read off the modules named, and is not the subject of a
run of its own.

Payments (`PaymentInvoice`)

- Two submissions of one payment page insert two open rows, after which `objects.get()` raises at
  every visit (payment.py:412), although views/user/accounting.py:652 means to "reuse the key from a
  resubmitted page".
- A form saved over a confirmation takes the paid status back (`Hide` of `PaymentLedger`).
- A fee recorded at the desk, or paid on the membership page, between the check and `get_or_create`
  in `check_bundled_membership_fee` leaves the part that was split off booked nowhere (`outpaid`).
- `num_payments` loses counts (`crossed`): `_process_payment` is to "prevent race conditions" by a
  lock (payment.py:589-592), which is that of the invoice. The registration is read without one
  (:600), the signal of the item saves that copy as a whole (signals.py:558), and only then one is
  added in the database (:617). Two invoices of one registration confirmed at once are counted once,
  and an edit saved over a confirmation takes its count back. The next payment page then has the key
  of an older invoice.
- A Satispay payment made before the association changes its currency is never credited
  (satispay.py:429), though it was captured.

Accounts (`RegistrationAccounting`, `MemberCredit`)

- Two payments of one kind and value make every later save of the registration fail, and with it the
  nightly command.
- A debit that meets an older payment of the same value leaves no record (flag `collided`); the
  balance comes back at the next recalculation.
- After an overpayment the outer save stores a `tot_payed` summed before it (`Saving` and `Stored`).
- The second refund of one amount for one run and member is swallowed by `get_or_create` (`Refund`;
  orga/registration.py:1353).
- A recalculation of the balance that a spend overtakes lets the same credit be spent twice (flag
  `stale`), although token_credit.py:169-172 is there to "prevent concurrent requests from
  double-spending the same balance": `update_tokens` and `update_credits` do not take the lock.
- A gift or a closing with an old copy of a collection takes PAYED back, and it can be redeemed and
  credited again (`reopened`); a gift confirmed after the redemption is never credited.
- Two confirmations of a refund at once book two items; two refunds of one value book one
  (payment.py:771).
- Giving an overpayment back and redeeming take the membership first and registrations after it, a
  save of a registration the other way round: PostgreSQL aborts one of them.

Deadlines (`PaymentPlan`)

- `% remind_days` is compared with 1 (automate.py:1131, 1317): with a period of 1 nobody is ever
  reminded (`EveryDayIsNever`), although it "Sets how often reminder emails are sent, in days"
  (forms/association.py:655); 0 ends the nightly command; any exception does (automate.py:107-146).
- A day of reminders that is a holiday, or on which the command fails, is skipped, and the next is
  `remind_days` later (automate.py:1087-1089, 1131): twice the period may pass, and a registration
  may be listed for cancellation without any reminder (`told = "skipped"`).
- The form saves `deadline_tolerance` (forms/association.py:619), the code reads
  `deadlines_tolerance` (deadlines.py:95).
- The share of a third is short, so the last part of a debt may be overdue and not asked for until
  the next quota (registration.py:207-212, 301-306; `ShortShares`).
- A member who is accepted late has quotas that are overdue at once (`unfair`); a declared transfer
  that waits is still listed as late; an overdue quota is hidden by a later one within the alert.
  Membership accepted or refused at the desk (exe/member.py:672-690) refreshes no registration.
- An installment's amount is "Total amount of payment to be received by this date"
  (models/registration.py:236-239), but installments are summed.

Registration and discounts (`Signup`, `DiscountReservation`)

- `max_available` is the "Maximum number of times it can be requested across all signups"
  (models/registration.py:118), but the seats that were taken are compared without those asked for
  (views/user/registration.py:257): a last form with additional tickets goes beyond it.
  `TicketWithinCap` is about registrations, which do not. `max_waiting` is checked by the form only.
- An edit can take a place that is gone (`SaveEdit` counts nothing).
- `_register_prepare` overwrites `pending`: a registration edited while a payment waits becomes a
  signup request (`Validate`), is not counted any more and its owner cannot open it.
- An edit under way when a registration is cancelled brings it back (`SaveEdit` after `Cancel`).
- The lock of a code is that of the discount asked for, and the member's other discounts are looked up under it:
  codes of two discounts sent at once are both accepted, though "non-cumulative"
  (views/user/registration.py:1031, 1081). A confirmation brings an expired and deleted use back
  (`revived`).

Cache of relations (`RelsCache`, flag `raced`)

- A reader between the flag and the commit of a change resolves the entry with the old rows and
  takes the flag off; the worker then skips it. The entry stays old until the day-long timeout,
  which every store renews. `mark_plot_character_rel_dirty` (rels.py:197-203) promises otherwise.
- The dictionary is stored as a whole: of two copies the later store wins. A reader that dies after
  taking flags off loses them.
- A change flagged while its task runs finds the task "already queued" and has none of its own
  (`orphan`); so has a change that is rolled back.
- `.clear()` of a relation computes the affected characters when it is already empty
  (rels.py:231-235, 1172-1177).
- The dictionaries of the child events of a campaign are flagged but not updated (rels.py:244, 287,
  882-888); not modelled.

Experience points (`Experience`, flags `doubt` and `loose`)

- A purchase means to "recompute affordability under the lock" (views/user/character.py:1270) but
  reads the number stored by the last calculation. The task and saves of the character take no lock;
  when they overtake a calculation the wrong number stays until something recalculates, and the same
  points can be spent again.
- A removal that meets a purchase leaves an ability without its prerequisite, contrary to the
  docstring of `remove_char_ability`.
- Free abilities are given in one pass: one that another free one unlocks comes at the next
  calculation only. One that is withdrawn with its prerequisite stays in `free_abilities` and is not
  given again (experience.py:533, "Automatically obtain abilities with cost 0").
- Rules that raise costs or subtract can leave a character below zero after a purchase:
  `BuysWithinPoints` is checked, and proved, for rules that discount and add.
- Removal with automatic purchases and a purchase lock character and configuration in opposite
  orders (`Kill` is PostgreSQL's answer).

## 6. Not modelled, and the plan

Simplifications inside the modelled parts: amounts are a few whole numbers above the rounding
tolerance; surcharges by date and the formulas of fees are one price; organizers' and treasurers'
requests on registrations (`Approve`, `Cancel`) are one step although they too save a copy; staff,
reduced and reserve tickets, gifts and option limits are left out of `Signup`; donations are paid
like any invoice but their item is not told apart; the discounts of a friend, and those shown or
given by organizers, are uses that an organizer adds; abilities depend on abilities only, not on
options and factions, and there is one system of points; relations are those of groups and
characters, without the texts the dictionary also holds. Configuration that the code reads through a
cache or from the instance in hand is read from the table.

Not modelled at all, and why:

- *Numbering* (electronic invoices, member cards, `auto_assign_sequential_numbers`): the highest
  number plus one under a unique constraint or a cache lock; one action each, with nothing to
  interleave that the constraint does not answer.
- *Transfer of registrations*, *inventory and warehouse*, *assignment of characters*: row locks
  taken in turn in one transaction each. Next in line, see below.
- *Writing, roles, configuration, navigation, mail, uploads, PDF, templates, translations,
  migrations, fixtures*: forms over single rows, lookups and output. There is no protocol state
  between two of their steps; most of the repository's lines are of this kind, which is why the
  modules cover a small share of them.
- *Authentication and middleware*: Django's and its plugins'.
- *One-time contents and workshops*: tokens with a number of uses, a reduced form of
  `DiscountReservation`.

Next:

1. `InventoryTransfer`: two pools locked one after the other; two opposite transfers.
2. `RegistrationTransfer` on top of `RegistrationAccounting`.
3. `MemberCredit` shown to implement the sequential requests of `RegistrationAccounting` where no
   race is recorded.
4. The child events of a campaign in `RelsCache`.
