----------------------------- MODULE PaymentPlan -----------------------------
(***************************************************************************)
(* When a registration is asked for money: quotas counted back from the    *)
(* event, or installments with their dates, as                             *)
(* update_registration_accounting stores them (quota, deadline, alert),    *)
(* the nightly command that keeps them up to date and sends reminders, and *)
(* the list of registrations to cancel.  Day 0 is the day of enrolment.    *)
(***************************************************************************)
EXTENDS Integers, Sequences, FiniteSetsExt

CONSTANTS
  Plans,      \* the payment plans an event may have
  Prices,     \* what the registration may cost
  Alert,      \* config payment_alert: how many days ahead a payment is asked for
  Tolerance,  \* config deadlines_tolerance
  RemindDays, \* config remind_days
  MaxDays     \* the model stops at this day

Never == 0 - 1  \* the membership is not accepted yet

(* A quota plan: so many quotas, with Decimal(1.0 / quotas) as the share   *)
(* of one (short: it is less than the fraction).  An installment plan: its *)
(* terms in their order, due at a date or so many days after enrolment.    *)
Terms == [amount : Nat, due : {"days", "date"}, day : Int]
ShortShares == {3}

ASSUME ConstantsAssumption ==
  /\ \A p \in Plans : /\ p.kind \in {"quotas", "installments"} /\ p.start \in Nat
                      /\ p.quotas \in 1..5 /\ p.terms \in Seq(Terms)
  /\ Prices \subseteq Nat
  /\ Alert \in Nat \ {0} /\ Tolerance \in Nat /\ RemindDays \in Nat \ {0} /\ MaxDays \in Nat

VARIABLES
  plan,
  today,
  approved, \* Membership.date
  reg,      \* the registration: price, paid, cancelled; quota, deadline, alert
  wire,     \* the amount of a transfer that waits for its confirmation
  missed,   \* nights since the nightly command went through
  slept,    \* a night passed while something was asked for
  unfair,   \* the plan made the registration late, see Unfair
  asked,    \* nights in a row with an alert
  told      \* what became of the days of reminders since there is an alert

watch == <<slept, unfair, asked, told>>
vars == <<plan, today, approved, reg, wire, missed, watch>>

-----------------------------------------------------------------------------
(* What a registration's accounting is computed from.                      *)
Facts(r, day, date) == [price |-> r.price, paid |-> r.paid, cancelled |-> r.cancelled,
                        today |-> day, approved |-> date]

Later(a, b) == IF a > b THEN a ELSE b

(* get_payment_deadline *)
PaymentDeadline(f, days) == Later(0, f.approved) + days - f.today

-----------------------------------------------------------------------------
(* Quotas: the first a week after enrolment, the others in equal parts of  *)
(* the time until the event.                                               *)
QuotaDeadline(p, f, k) ==
  IF k = 1 THEN PaymentDeadline(f, 8)
  ELSE ((p.start - f.today) * p.quotas - p.start * (p.quotas - (k - 1))) \div p.quotas

Share(p, f, k) ==
  (f.price * k - IF p.quotas \in ShortShares THEN 1 ELSE 0) \div p.quotas

QuotaAmount(p, f, k, last) == (IF last THEN f.price ELSE Share(p, f, k)) - f.paid

NearWhenPast(p, f) == {k \in 1..p.quotas : QuotaDeadline(p, f, k) < 0}  \* mutant
NearQuotas(p, f) == {k \in 1..p.quotas : QuotaDeadline(p, f, k) < Alert}
OwedQuotas(p, f) == {k \in NearQuotas(p, f) : QuotaAmount(p, f, k, k = p.quotas) > 0}
OverdueQuotas(p, f) == {k \in OwedQuotas(p, f) : QuotaDeadline(p, f, k) < 0}

Nothing == [quota |-> 0, deadline |-> 0]
OldestOf(deadlines) == IF deadlines = {} THEN 0 ELSE Min(deadlines)

(* The first quota that is not overdue; else what is overdue (quota_check, *)
(* _quota_fallback).                                                       *)
AskQuota(p, f) ==
  LET valid   == OwedQuotas(p, f) \ OverdueQuotas(p, f)
      overdue == OverdueQuotas(p, f)
      oldest  == OldestOf({QuotaDeadline(p, f, k) : k \in overdue})
  IN  IF valid # {}
      THEN LET k == Min(valid)
           IN  [quota |-> QuotaAmount(p, f, k, k = p.quotas), deadline |-> QuotaDeadline(p, f, k)]
      ELSE IF NearQuotas(p, f) # 1..p.quotas
      THEN IF overdue = {} THEN Nothing
           ELSE [quota |-> QuotaAmount(p, f, Max(overdue), FALSE), deadline |-> oldest]
      ELSE IF f.price > f.paid THEN [quota |-> f.price - f.paid, deadline |-> oldest]
      ELSE Nothing

-----------------------------------------------------------------------------
(* Installments.  An installment without a date, like one that is due      *)
(* today, has deadline 0.                                                  *)
TermDeadline(p, f, k) ==
  LET t == p.terms[k] IN IF t.due = "days" THEN PaymentDeadline(f, t.day) ELSE t.day - f.today

NearTerms(p, f) == {k \in 1..Len(p.terms) : TermDeadline(p, f, k) < Alert}

Amounts(p) == [j \in 1..Len(p.terms) |-> p.terms[j].amount]

CumulativeUncapped(p, f, k) ==  \* mutant: the sum may exceed the price
  SumFunctionOnSet(Amounts(p), {j \in NearTerms(p, f) : j <= k})

(* _calculate_installment_cumulative over the terms up to k                *)
Cumulative(p, f, k) ==
  LET near == {j \in NearTerms(p, f) : j <= k}
      sum  == SumFunctionOnSet(Amounts(p), near)
  IN  IF sum > f.price \/ \E j \in near : p.terms[j].amount = 0 THEN f.price ELSE sum

OwedTerms(p, f) == {k \in NearTerms(p, f) : Cumulative(p, f, k) > f.paid}
OverdueTerms(p, f) == {k \in NearTerms(p, f) : TermDeadline(p, f, k) < 0}

(* installment_check, _set_installment_fallback                            *)
AskInstallment(p, f) ==
  LET valid  == {k \in OwedTerms(p, f) : TermDeadline(p, f, k) > 0}
      total  == Cumulative(p, f, Len(p.terms))
      oldest == OldestOf({TermDeadline(p, f, k) : k \in OverdueTerms(p, f)})
  IN  IF valid # {}
      THEN [quota |-> Cumulative(p, f, Min(valid)) - f.paid, deadline |-> TermDeadline(p, f, Min(valid))]
      ELSE IF NearTerms(p, f) # 1..Len(p.terms)
      THEN IF total > f.paid THEN [quota |-> total - f.paid, deadline |-> oldest] ELSE Nothing
      ELSE IF total = 0 THEN [quota |-> f.price - f.paid, deadline |-> 0 - f.today]
      ELSE IF f.price > f.paid THEN [quota |-> f.price - f.paid, deadline |-> oldest]
      ELSE Nothing

-----------------------------------------------------------------------------
(* update_registration_accounting: nothing is asked of who has paid, has   *)
(* cancelled or is not accepted as a member.                               *)
Ask(p, f) ==
  IF f.price = f.paid \/ f.cancelled \/ f.approved = Never THEN Nothing
  ELSE IF p.kind = "quotas" THEN AskQuota(p, f) ELSE AskInstallment(p, f)

RefreshedLate(r, day, date) ==  \* mutant: an alert only when it is late
  LET a == Ask(plan, Facts(r, day, date))
  IN  [r EXCEPT !.quota = a.quota, !.deadline = a.deadline,
                !.alert = a.quota > 0 /\ a.deadline < 0]

Refreshed(r, day, date) ==
  LET a == Ask(plan, Facts(r, day, date))
  IN  [r EXCEPT !.quota = a.quota, !.deadline = a.deadline,
                !.alert = a.quota > 0 /\ a.deadline < Alert]

(* Something that could be paid is past its day.                           *)
Overdue(r, day, date) ==
  LET f == Facts(r, day, date)
  IN  /\ ~r.cancelled /\ date # Never
      /\ IF plan.kind = "quotas" THEN OverdueQuotas(plan, f) # {}
         ELSE \/ OverdueTerms(plan, f) \cap OwedTerms(plan, f) # {}
              \/ r.quota > 0 /\ r.deadline < 0

(* The day that is shown is that of an installment already paid:           *)
(* installment_check takes the oldest of all past days.                    *)
Misdated(r, day, date) ==
  LET f == Facts(r, day, date)
  IN  /\ plan.kind = "installments" /\ r.quota > 0 /\ r.deadline < 0
      /\ \E k \in OverdueTerms(plan, f) \ OwedTerms(plan, f) : TermDeadline(plan, f, k) = r.deadline

(* A term falls due before one that comes earlier in the plan's order, by  *)
(* which the amounts add up: it is owed only when that one is near.        *)
OutOfOrder(p, f) ==
  /\ p.kind = "installments"
  /\ \E j, k \in 1..Len(p.terms) : j < k /\ TermDeadline(p, f, k) < TermDeadline(p, f, j)

(* Rounding leaves an overdue share of the price out, or a term is         *)
(* misdated or out of order.                                               *)
Unfair(r, day, date) ==
  \/ r.quota = 0 /\ Overdue(r, day, date)
  \/ Misdated(r, day, date)
  \/ OutOfOrder(plan, Facts(r, day, date))

Save(r, date) == /\ reg' = Refreshed(r, today, date)
                 /\ UNCHANGED <<plan, today, missed, slept, asked, told>>

-----------------------------------------------------------------------------
Open == ~reg.cancelled
Debt == reg.price - reg.paid

(* The payment page allows any part of the debt, unless a transfer is      *)
(* pending or the member is not accepted.                                  *)
Payable(a) == Open /\ wire = 0 /\ approved # Never /\ a \in 1..Debt

Pay(a) ==
  /\ Payable(a)
  /\ Save([reg EXCEPT !.paid = @ + a], approved)
  /\ unfair' = (unfair \/ Unfair(reg', today, approved))
  /\ UNCHANGED <<approved, wire>>

DeclareTransfer(a) ==
  /\ Payable(a)
  /\ wire' = a
  /\ UNCHANGED <<plan, today, approved, reg, missed, watch>>

ConfirmTransfer ==
  /\ wire > 0
  /\ Save([reg EXCEPT !.paid = @ + wire], approved)
  /\ wire' = 0
  /\ unfair' = (unfair \/ Unfair(reg', today, approved))
  /\ UNCHANGED approved

(* exe_membership_evaluation saves the member's registrations.             *)
Accept ==
  /\ approved = Never
  /\ approved' = today
  /\ Save(reg, today)
  /\ unfair' = (unfair \/ Overdue(reg', today, today))
  /\ UNCHANGED wire

(* A price changes and check_registration_background has run.              *)
Reprice(p) ==
  /\ Open /\ p # reg.price
  /\ Save([reg EXCEPT !.price = p], approved)
  /\ unfair' = (unfair \/ Overdue(reg', today, approved))
  /\ UNCHANGED <<approved, wire>>

(* cancel_reg *)
Cancel ==
  /\ Open
  /\ Save([reg EXCEPT !.cancelled = TRUE], approved)
  /\ UNCHANGED <<approved, wire, unfair>>

-----------------------------------------------------------------------------
ReminderDayNever(day) == (0 - day) % RemindDays = RemindDays  \* mutant

(* remind_reg: one day out of so many since the enrolment.                 *)
ReminderDay(day) == (0 - day) % RemindDays = 1

(* check_remind, check_payment: who may be reminded tonight.               *)
Remindable(r, day) ==
  Open /\ plan.start > day + 3 /\ r.alert /\ r.quota # 0 /\ wire = 0

ListedAlerted(r) == Open /\ r.alert  \* mutant: only who was asked already

(* get_regs_paying_incomplete *)
Listed(r) == Open /\ r.price # r.paid

(* A day of reminders on which none is sent is not made up for later.      *)
Told(day, sent) ==
  IF sent THEN "reminded"
  ELSE IF ~reg.alert THEN "nothing"
  ELSE IF ReminderDay(day) /\ told = "nothing" THEN "skipped"
  ELSE told

(* A day ends.  The nightly command refreshes, then reminds; it may stop   *)
(* before that, as any exception ends it for everybody (handle).           *)
Night(ok, holiday) ==
  LET day  == today + 1
      new  == IF ok /\ Listed(reg) THEN Refreshed(reg, day, approved) ELSE reg
      sent == ok /\ ~holiday /\ Remindable(new, day) /\ ReminderDay(day)
  IN  /\ today < MaxDays
      /\ today' = day
      /\ reg' = new
      /\ missed' = IF ok THEN 0 ELSE IF missed < Alert THEN missed + 1 ELSE missed
      /\ slept' = (slept \/ reg.quota > 0)
      /\ unfair' = (unfair \/ Unfair(new, day, approved) \/ (missed >= Alert /\ Overdue(new, day, approved)))
      /\ asked' = IF ~reg.alert THEN 0 ELSE IF asked <= Tolerance THEN asked + 1 ELSE asked
      /\ told' = Told(day, sent)
      /\ UNCHANGED <<plan, approved, wire>>

-----------------------------------------------------------------------------
Init ==
  /\ plan \in Plans
  /\ today = 0 /\ approved \in {0, Never} /\ wire = 0 /\ missed = 0
  /\ \E p \in Prices :
       reg = Refreshed([price |-> p, paid |-> 0, cancelled |-> FALSE,
                        quota |-> 0, deadline |-> 0, alert |-> FALSE], 0, approved)
  /\ slept = FALSE /\ unfair = Overdue(reg, 0, approved) /\ asked = 0 /\ told = "nothing"

Next ==
  \/ \E a \in {1, reg.quota, Debt} : Pay(a) \/ DeclareTransfer(a)
  \/ ConfirmTransfer
  \/ Accept
  \/ \E p \in Prices : Reprice(p)
  \/ Cancel
  \/ \E ok, holiday \in BOOLEAN : Night(ok, holiday)

Spec == Init /\ [][Next]_vars

-----------------------------------------------------------------------------
(* What is asked for is never more than what is left to pay, whatever      *)
(* order payments, prices and dates come in.                               *)
NeverAsksTooMuch == reg.quota <= (IF Debt > 0 THEN Debt ELSE 0)

Late == Open /\ reg.quota > 0 /\ reg.deadline < 0

(* Who pays what is asked for before the night is never late: every quota  *)
(* and installment is asked for before its day, even if the nightly        *)
(* command fails for less nights than the alert is long.  Not promised to  *)
(* who had something overdue before it could be asked for.                 *)
PunctualNeverLate == ~slept /\ ~unfair => ~Late

(* A registration is listed for cancellation (deadlines_payment) only      *)
(* after it has been asked to pay for more nights than the tolerance.      *)
ToCancel == Open /\ reg.quota > 0 /\ reg.deadline < 0 - Tolerance
CancelledOnlyIfAsked == ToCancel /\ ~unfair => asked > Tolerance

(* Help text of deadline_tolerance (forms/association.py:620): "Number of  *)
(* days past the deadline beyond which registrations are marked to be      *)
(* cancelled": then a payment that is still owed is so many days late.     *)
CancelledAfterTolerance ==
  LET f == Facts(reg, today, approved)
  IN  ToCancel =>
        IF plan.kind = "quotas" THEN \E k \in OwedQuotas(plan, f) : QuotaDeadline(plan, f, k) < 0 - Tolerance
        ELSE \E k \in OwedTerms(plan, f) : TermDeadline(plan, f, k) < 0 - Tolerance

(* When every day of the plan is past, the whole debt is asked for: no     *)
(* part of it is left out by rounding or by the order of the terms.        *)
PlanIsOver ==
  LET f == Facts(reg, today, approved)
  IN  IF plan.kind = "quotas" THEN \A k \in 1..plan.quotas : QuotaDeadline(plan, f, k) < 0
      ELSE \A k \in 1..Len(plan.terms) : TermDeadline(plan, f, k) < 0
WholeDebtInTheEnd ==
  PlanIsOver /\ missed = 0 /\ Open /\ approved # Never /\ Debt > 0 => reg.quota = Debt

(* Who is listed for cancellation has been reminded since there is an      *)
(* alert, if the tolerance is as long as the time between two days of      *)
(* reminders: without one they are listed only when every such day was     *)
(* skipped, for a holiday, a failed night, a transfer that waits or an     *)
(* event that is near.                                                     *)
RemindedBeforeCancelled ==
  ToCancel /\ ~unfair /\ RemindDays <= Tolerance + 1 => told \in {"skipped", "reminded"}
=============================================================================
