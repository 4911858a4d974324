------------------------- MODULE MemberCreditProofs -------------------------
(***************************************************************************)
(* For every number of requests, registrations and refunds: a collection   *)
(* is credited once per delivery, whoever waits in a circle waits for a    *)
(* request that took the membership's row before a registration's, a       *)
(* refund that is shown as paid has its item, the stored balance is the    *)
(* ledger's, and no balance is spent twice.                                *)
(***************************************************************************)
EXTENDS MemberCredit, SumLemmas

Fields == {"op", "pc", "reg", "rem", "val", "todo", "inner", "ref", "copy", "tx"}

(* The requests are records of these fields.                               *)
Shape ==
  /\ DOMAIN req = Requests
  /\ \A q \in Requests : /\ DOMAIN req[q] = Fields /\ DOMAIN req[q].tx = {"by", "pay", "bal", "add"}
                         /\ req[q].tx.by \in {"none", "registration", "redeem", "gift"}

(* The counters of the collection.                                         *)
Counted == credits \in Nat /\ reopened \in Nat /\ CreditedPerDelivery

(* Who delivers the collection holds its row, and it is not delivered yet. *)
Delivers(q) == req[q].tx.by \in {"redeem", "gift"}
DeliveryHeld == \A q \in Requests : Delivers(q) => clock = q /\ status # "payed"

(* A row is held in a transaction only.                                    *)
Holds(q) == mlock = q \/ clock = q \/ \E r \in Regs : rlock[r] = q
HeldInTx == \A q \in Requests : Holds(q) => InTx(q)

(* What a transaction may be doing.  With registrations left to save it    *)
(* holds the membership.                                                   *)
TxSteps == {"sum", "write", "next", "spend", "cut"}
Ordered(q) ==
  /\ InTx(q) => req[q].pc \in TxSteps
  /\ ~InTx(q) => req[q].inner = {} /\ req[q].pc \notin {"spend", "cut"}
  /\ InTx(q) /\ req[q].pc = "next" /\ req[q].inner # {} => mlock = q
OrderKept == \A q \in Requests : Ordered(q)

IInv == Shape /\ Counted /\ DeliveryHeld /\ HeldInTx /\ OrderKept

-----------------------------------------------------------------------------
(* In a circle of waiting requests somebody holds a row, hence is in a     *)
(* transaction, hence waits for the membership or holds it.                *)
LEMMA CircleHoldsBalance == IInv => DeadlockHoldsBalance
<1> SUFFICES ASSUME IInv, NEW S \in SUBSET Requests, Cycle(S), mlock \notin S PROVE FALSE
  BY DEF DeadlockHoldsBalance
<1>1. PICK q \in S : TRUE
  BY DEF Cycle
<1>2. PICK p \in S : p \in WaitsFor(q)
  BY <1>1 DEF Cycle
<1>3. p \in Requests /\ Holds(p)
  BY <1>2, ConstantsAssumption DEF WaitsFor, Holds
<1>4. InTx(p) /\ Ordered(p)
  BY <1>3 DEF IInv, HeldInTx, OrderKept
<1>5. PICK o \in S : o \in WaitsFor(p)
  BY <1>2 DEF Cycle
<1>6. CASE req[p].pc = "next"
  BY <1>4, <1>5, <1>6, <1>2 DEF WaitsFor, Ordered, Left
<1>7. CASE req[p].pc # "next"
  BY <1>4, <1>5, <1>7 DEF WaitsFor, Ordered, TxSteps
<1> QED BY <1>6, <1>7

LEMMA InitOk == Init => IInv
<1> SUFFICES ASSUME Init PROVE IInv
  OBVIOUS
<1>1. Shape
  BY DEF Init, Idle, NoTx, Shape, Fields
<1>2. Counted
  BY DEF Init, Counted, CreditedPerDelivery
<1>3. \A q \in Requests : ~InTx(q) /\ req[q].inner = {} /\ req[q].pc = "idle"
  BY DEF Init, Idle, NoTx, InTx
<1>4. DeliveryHeld /\ OrderKept
  BY <1>3 DEF DeliveryHeld, Delivers, InTx, OrderKept, Ordered
<1>5. HeldInTx
  BY ConstantsAssumption DEF Init, HeldInTx, Holds
<1> QED BY <1>1, <1>2, <1>4, <1>5 DEF IInv

LEMMA GiveStep == ASSUME IInv, NEW q \in Requests, NEW v \in Values, Give(q, v) PROVE IInv'
<1> USE DEF IInv, Give, Start, Idle, NoTx, ledger, collection, locks
<1>1. Shape'
  BY DEF Shape, Fields
<1>2. Counted'
  BY DEF Counted, CreditedPerDelivery, DeliveryHeld, Delivers
<1>3. DeliveryHeld'
  BY DEF Shape, Fields, DeliveryHeld, Delivers
<1>4. HeldInTx'
  BY ConstantsAssumption DEF Shape, Fields, HeldInTx, Holds, InTx, OrderKept, Ordered, TxSteps
<1>5. OrderKept'
  BY DEF Shape, Fields, OrderKept, Ordered, InTx, Left, TxSteps, HeldInTx, Holds
<1> QED BY <1>1, <1>2, <1>3, <1>4, <1>5

LEMMA SumsStep == ASSUME IInv, NEW q \in Requests, Sums(q) PROVE IInv'
<1> USE DEF IInv, Sums, Start, Idle, NoTx, ledger, collection, locks
<1>1. Shape'
  BY DEF Shape, Fields
<1>2. Counted'
  BY DEF Counted, CreditedPerDelivery, DeliveryHeld, Delivers
<1>3. DeliveryHeld'
  BY DEF Shape, Fields, DeliveryHeld, Delivers
<1>4. HeldInTx'
  BY ConstantsAssumption DEF Shape, Fields, HeldInTx, Holds, InTx, OrderKept, Ordered, TxSteps
<1>5. OrderKept'
  BY DEF Shape, Fields, OrderKept, Ordered, InTx, Left, TxSteps, HeldInTx, Holds
<1> QED BY <1>1, <1>2, <1>3, <1>4, <1>5

LEMMA WriteBalanceStep == ASSUME IInv, NEW q \in Requests, WriteBalance(q) PROVE IInv'
<1> USE DEF IInv, WriteBalance, Start, Idle, NoTx, ledger, collection, locks, MembershipFree, InTx
<1>1. Shape'
  BY DEF Shape, Fields
<1>2. Counted'
  BY DEF Counted, CreditedPerDelivery, DeliveryHeld, Delivers
<1>3. DeliveryHeld'
  BY DEF Shape, Fields, DeliveryHeld, Delivers
<1>4. HeldInTx'
  BY ConstantsAssumption DEF Shape, Fields, HeldInTx, Holds, InTx, OrderKept, Ordered, TxSteps
<1>5. OrderKept'
  <2>1. ASSUME NEW o \in Requests, o # q PROVE Ordered(o)'
    <3>1. req'[o] = req[o] /\ (mlock = o => mlock' = o)
      BY <2>1, ConstantsAssumption DEF Shape
    <3>2. Ordered(o)
      BY DEF OrderKept
    <3> QED BY <3>1, <3>2 DEF Ordered, InTx
  <2>2. Ordered(q)'
    BY DEF Shape, Fields, OrderKept, Ordered, InTx, Left, TxSteps
  <2> QED BY <2>1, <2>2 DEF OrderKept
<1> QED BY <1>1, <1>2, <1>3, <1>4, <1>5

LEMMA SaveStep == ASSUME IInv, NEW q \in Requests, NEW r \in Regs, NEW p \in Prices, Save(q, r, p) PROVE IInv'
<1> USE DEF IInv, Save, Start, Idle, NoTx, ledger, collection, locks
<1>1. Shape'
  BY DEF Shape, Fields
<1>2. Counted'
  BY DEF Counted, CreditedPerDelivery, DeliveryHeld, Delivers
<1>3. DeliveryHeld'
  BY DEF Shape, Fields, DeliveryHeld, Delivers
<1>4. HeldInTx'
  BY ConstantsAssumption DEF Shape, Fields, HeldInTx, Holds, InTx, OrderKept, Ordered, TxSteps
<1>5. OrderKept'
  BY DEF Shape, Fields, OrderKept, Ordered, InTx, Left, TxSteps, HeldInTx, Holds
<1> QED BY <1>1, <1>2, <1>3, <1>4, <1>5

LEMMA LockRegistrationStep == ASSUME IInv, NEW q \in Requests, NEW r \in Regs, LockRegistration(q, r) PROVE IInv'
<1> USE DEF IInv, LockRegistration, Start, Idle, NoTx, ledger, collection, locks, InTx
<1>1. Shape'
  <2>1. DOMAIN req' = Requests /\ \A o \in Requests : o # q => req'[o] = req[o]
    BY DEF Shape
  <2>2. DOMAIN req'[q] = Fields /\ DOMAIN req'[q].tx = {"by", "pay", "bal", "add"}
    BY DEF Shape, Fields
  <2>3. req'[q].tx.by = IF req[q].tx.by = "none" THEN "registration" ELSE req[q].tx.by
    BY DEF Shape, Fields
  <2> QED BY <2>1, <2>2, <2>3 DEF Shape
<1>2. Counted'
  BY DEF Counted, CreditedPerDelivery, DeliveryHeld, Delivers
<1>3. DeliveryHeld'
  BY DEF Shape, Fields, DeliveryHeld, Delivers
<1>4. HeldInTx'
  BY ConstantsAssumption DEF Shape, Fields, HeldInTx, Holds, InTx, OrderKept, Ordered, TxSteps
<1>5. OrderKept'
  <2>1. ASSUME NEW o \in Requests, o # q PROVE Ordered(o)'
    <3>1. req'[o] = req[o] /\ (mlock = o => mlock' = o)
      BY <2>1, ConstantsAssumption DEF Shape
    <3>2. Ordered(o)
      BY DEF OrderKept
    <3> QED BY <3>1, <3>2 DEF Ordered, InTx
  <2>2. Ordered(q)'
    <3>1. req'[q].tx.by # "none" /\ mlock' = mlock
      BY DEF Shape, Fields
    <3>2. req'[q].pc \in {"spend", "cut", "next"} /\ req'[q].inner = req[q].inner \ {r}
      BY DEF Shape, Fields
    <3>3. req'[q].pc = "next" /\ req'[q].inner # {} => mlock = q
      <4>1. SUFFICES ASSUME req[q].inner # {} PROVE mlock = q
        BY <3>2
      <4>2. Ordered(q) /\ req[q].pc = "next"
        BY DEF OrderKept
      <4> QED BY <4>1, <4>2 DEF Ordered
    <3> HIDE DEF LockRegistration
    <3> QED BY <3>1, <3>2, <3>3 DEF Ordered, InTx, TxSteps
  <2> QED BY <2>1, <2>2 DEF OrderKept
<1> QED BY <1>1, <1>2, <1>3, <1>4, <1>5

LEMMA SpendStep == ASSUME IInv, NEW q \in Requests, Spend(q) PROVE IInv'
<1> USE DEF IInv, Spend, Start, Idle, NoTx, ledger, collection, locks, MembershipFree
<1>1. Shape'
  BY DEF Shape, Fields
<1>2. Counted'
  BY DEF Counted, CreditedPerDelivery, DeliveryHeld, Delivers
<1>3. DeliveryHeld'
  BY DEF Shape, Fields, DeliveryHeld, Delivers
<1>4. HeldInTx'
  BY ConstantsAssumption DEF Shape, Fields, HeldInTx, Holds, InTx, OrderKept, Ordered, TxSteps
<1>5. OrderKept'
  <2>1. ASSUME NEW o \in Requests, o # q PROVE Ordered(o)'
    <3>1. req'[o] = req[o] /\ (mlock = o => mlock' = o)
      BY <2>1, ConstantsAssumption DEF Shape
    <3>2. Ordered(o)
      BY DEF OrderKept
    <3> QED BY <3>1, <3>2 DEF Ordered, InTx
  <2>2. Ordered(q)'
    BY DEF Shape, Fields, OrderKept, Ordered, InTx, Left, TxSteps
  <2> QED BY <2>1, <2>2 DEF OrderKept
<1> QED BY <1>1, <1>2, <1>3, <1>4, <1>5

LEMMA CutStep == ASSUME IInv, NEW q \in Requests, Cut(q) PROVE IInv'
<1> USE DEF IInv, Cut, Start, Idle, NoTx, ledger, collection, locks
<1>1. Shape'
  BY DEF Shape, Fields
<1>2. Counted'
  BY DEF Counted, CreditedPerDelivery, DeliveryHeld, Delivers
<1>3. DeliveryHeld'
  BY DEF Shape, Fields, DeliveryHeld, Delivers
<1>4. HeldInTx'
  BY ConstantsAssumption DEF Shape, Fields, HeldInTx, Holds, InTx, OrderKept, Ordered, TxSteps
<1>5. OrderKept'
  BY DEF Shape, Fields, OrderKept, Ordered, InTx, Left, TxSteps, HeldInTx, Holds
<1> QED BY <1>1, <1>2, <1>3, <1>4, <1>5

LEMMA CommitStep == ASSUME IInv, NEW q \in Requests, Commit(q) PROVE IInv'
<1> USE DEF IInv, Commit, Start, Idle, NoTx, ledger, collection, locks, Freed, InTx
<1>1. Shape'
  BY DEF Shape, Fields
<1>2. Counted'
  <2>1. CASE req[q].tx.by = "registration"
    BY <2>1 DEF Counted, CreditedPerDelivery
  <2>2. CASE req[q].tx.by # "registration"
    <3>1. status # "payed"
      BY <2>2 DEF Shape, DeliveryHeld, Delivers
    <3>2. status' = "payed" /\ credits' = credits + 1 /\ reopened' = reopened
      BY <2>2
    <3> QED BY <3>1, <3>2 DEF Counted, CreditedPerDelivery
  <2> QED BY <2>1, <2>2
<1>3. DeliveryHeld'
  BY DEF Shape, Fields, DeliveryHeld, Delivers
<1>4. HeldInTx'
  BY ConstantsAssumption DEF Shape, Fields, HeldInTx, Holds, InTx, OrderKept, Ordered, TxSteps
<1>5. OrderKept'
  BY DEF Shape, Fields, OrderKept, Ordered, InTx, Left, TxSteps, HeldInTx, Holds
<1> QED BY <1>1, <1>2, <1>3, <1>4, <1>5

LEMMA FinishStep == ASSUME IInv, NEW q \in Requests, Finish(q) PROVE IInv'
<1> USE DEF IInv, Finish, Start, Idle, NoTx, ledger, collection, locks
<1>1. Shape'
  BY DEF Shape, Fields
<1>2. Counted'
  BY DEF Counted, CreditedPerDelivery, DeliveryHeld, Delivers
<1>3. DeliveryHeld'
  BY DEF Shape, Fields, DeliveryHeld, Delivers
<1>4. HeldInTx'
  BY ConstantsAssumption DEF Shape, Fields, HeldInTx, Holds, InTx, OrderKept, Ordered, TxSteps
<1>5. OrderKept'
  BY DEF Shape, Fields, OrderKept, Ordered, InTx, Left, TxSteps, HeldInTx, Holds
<1> QED BY <1>1, <1>2, <1>3, <1>4, <1>5

LEMMA ParticipateStep == ASSUME IInv, Participate PROVE IInv'
<1> USE DEF IInv, Participate, Start, Idle, NoTx, ledger, collection, locks
<1>1. Shape'
  BY DEF Shape, Fields
<1>2. Counted'
  BY DEF Counted, CreditedPerDelivery, DeliveryHeld, Delivers
<1>3. DeliveryHeld'
  BY DEF Shape, Fields, DeliveryHeld, Delivers
<1>4. HeldInTx'
  BY ConstantsAssumption DEF Shape, Fields, HeldInTx, Holds, InTx, OrderKept, Ordered, TxSteps
<1>5. OrderKept'
  BY DEF Shape, Fields, OrderKept, Ordered, InTx, Left, TxSteps, HeldInTx, Holds
<1> QED BY <1>1, <1>2, <1>3, <1>4, <1>5

LEMMA ReadToCloseStep == ASSUME IInv, NEW q \in Requests, ReadToClose(q) PROVE IInv'
<1> USE DEF IInv, ReadToClose, Start, Idle, NoTx, ledger, collection, locks
<1>1. Shape'
  BY DEF Shape, Fields
<1>2. Counted'
  BY DEF Counted, CreditedPerDelivery, DeliveryHeld, Delivers
<1>3. DeliveryHeld'
  BY DEF Shape, Fields, DeliveryHeld, Delivers
<1>4. HeldInTx'
  BY ConstantsAssumption DEF Shape, Fields, HeldInTx, Holds, InTx, OrderKept, Ordered, TxSteps
<1>5. OrderKept'
  BY DEF Shape, Fields, OrderKept, Ordered, InTx, Left, TxSteps, HeldInTx, Holds
<1> QED BY <1>1, <1>2, <1>3, <1>4, <1>5

LEMMA ReadForGiftStep == ASSUME IInv, NEW q \in Requests, ReadForGift(q) PROVE IInv'
<1> USE DEF IInv, ReadForGift, Start, Idle, NoTx, ledger, collection, locks
<1>1. Shape'
  BY DEF Shape, Fields
<1>2. Counted'
  BY DEF Counted, CreditedPerDelivery, DeliveryHeld, Delivers
<1>3. DeliveryHeld'
  BY DEF Shape, Fields, DeliveryHeld, Delivers
<1>4. HeldInTx'
  BY ConstantsAssumption DEF Shape, Fields, HeldInTx, Holds, InTx, OrderKept, Ordered, TxSteps
<1>5. OrderKept'
  BY DEF Shape, Fields, OrderKept, Ordered, InTx, Left, TxSteps, HeldInTx, Holds
<1> QED BY <1>1, <1>2, <1>3, <1>4, <1>5

LEMMA StoreStep == ASSUME IInv, NEW q \in Requests, Store(q) PROVE IInv'
<1> USE DEF IInv, Store, Start, Idle, NoTx, ledger, collection, locks, FirstDelivery
<1>1. Shape'
  BY DEF Shape, Fields
<1>2. Counted'
  BY DEF Counted, CreditedPerDelivery, DeliveryHeld, Delivers
<1>3. DeliveryHeld'
  BY DEF Shape, Fields, DeliveryHeld, Delivers
<1>4. HeldInTx'
  BY ConstantsAssumption DEF Shape, Fields, HeldInTx, Holds, InTx, OrderKept, Ordered, TxSteps
<1>5. OrderKept'
  BY DEF Shape, Fields, OrderKept, Ordered, InTx, Left, TxSteps, HeldInTx, Holds
<1> QED BY <1>1, <1>2, <1>3, <1>4, <1>5

LEMMA ReadToRedeemStep == ASSUME IInv, NEW q \in Requests, ReadToRedeem(q) PROVE IInv'
<1> USE DEF IInv, ReadToRedeem, Start, Idle, NoTx, ledger, collection, locks
<1>1. Shape'
  BY DEF Shape, Fields
<1>2. Counted'
  BY DEF Counted, CreditedPerDelivery, DeliveryHeld, Delivers
<1>3. DeliveryHeld'
  BY DEF Shape, Fields, DeliveryHeld, Delivers
<1>4. HeldInTx'
  BY ConstantsAssumption DEF Shape, Fields, HeldInTx, Holds, InTx, OrderKept, Ordered, TxSteps
<1>5. OrderKept'
  BY DEF Shape, Fields, OrderKept, Ordered, InTx, Left, TxSteps, HeldInTx, Holds
<1> QED BY <1>1, <1>2, <1>3, <1>4, <1>5

LEMMA LockToRedeemStep == ASSUME IInv, NEW q \in Requests, LockToRedeem(q) PROVE IInv'
<1> USE DEF IInv, LockToRedeem, Start, Idle, NoTx, ledger, collection, locks, StillDone
<1>1. Shape'
  BY DEF Shape, Fields
<1>2. Counted'
  BY DEF Counted, CreditedPerDelivery, DeliveryHeld, Delivers
<1>3. DeliveryHeld'
  BY DEF Shape, Fields, DeliveryHeld, Delivers
<1>4. HeldInTx'
  BY ConstantsAssumption DEF Shape, Fields, HeldInTx, Holds, InTx, OrderKept, Ordered, TxSteps
<1>5. OrderKept'
  BY DEF Shape, Fields, OrderKept, Ordered, InTx, Left, TxSteps, HeldInTx, Holds
<1> QED BY <1>1, <1>2, <1>3, <1>4, <1>5

LEMMA AskRefundStep == ASSUME IInv, NEW i \in Refunds, NEW v \in Values, AskRefund(i, v) PROVE IInv'
<1> USE DEF IInv, AskRefund, Start, Idle, NoTx, ledger, collection, locks
<1>1. Shape'
  BY DEF Shape, Fields
<1>2. Counted'
  BY DEF Counted, CreditedPerDelivery, DeliveryHeld, Delivers
<1>3. DeliveryHeld'
  BY DEF Shape, Fields, DeliveryHeld, Delivers
<1>4. HeldInTx'
  BY ConstantsAssumption DEF Shape, Fields, HeldInTx, Holds, InTx, OrderKept, Ordered, TxSteps
<1>5. OrderKept'
  BY DEF Shape, Fields, OrderKept, Ordered, InTx, Left, TxSteps, HeldInTx, Holds
<1> QED BY <1>1, <1>2, <1>3, <1>4, <1>5

LEMMA ReadRefundStep == ASSUME IInv, NEW q \in Requests, NEW i \in Refunds, ReadRefund(q, i) PROVE IInv'
<1> USE DEF IInv, ReadRefund, Start, Idle, NoTx, ledger, collection, locks
<1>1. Shape'
  BY DEF Shape, Fields
<1>2. Counted'
  BY DEF Counted, CreditedPerDelivery, DeliveryHeld, Delivers
<1>3. DeliveryHeld'
  BY DEF Shape, Fields, DeliveryHeld, Delivers
<1>4. HeldInTx'
  BY ConstantsAssumption DEF Shape, Fields, HeldInTx, Holds, InTx, OrderKept, Ordered, TxSteps
<1>5. OrderKept'
  BY DEF Shape, Fields, OrderKept, Ordered, InTx, Left, TxSteps, HeldInTx, Holds
<1> QED BY <1>1, <1>2, <1>3, <1>4, <1>5

LEMMA CheckRefundStep == ASSUME IInv, NEW q \in Requests, CheckRefund(q) PROVE IInv'
<1> USE DEF IInv, CheckRefund, Start, Idle, NoTx, ledger, collection, locks
<1>1. Shape'
  BY DEF Shape, Fields
<1>2. Counted'
  BY DEF Counted, CreditedPerDelivery, DeliveryHeld, Delivers
<1>3. DeliveryHeld'
  BY DEF Shape, Fields, DeliveryHeld, Delivers
<1>4. HeldInTx'
  BY ConstantsAssumption DEF Shape, Fields, HeldInTx, Holds, InTx, OrderKept, Ordered, TxSteps
<1>5. OrderKept'
  BY DEF Shape, Fields, OrderKept, Ordered, InTx, Left, TxSteps, HeldInTx, Holds
<1> QED BY <1>1, <1>2, <1>3, <1>4, <1>5

LEMMA InsertRefundStep == ASSUME IInv, NEW q \in Requests, InsertRefund(q) PROVE IInv'
<1> USE DEF IInv, InsertRefund, Start, Idle, NoTx, ledger, collection, locks
<1>1. Shape'
  BY DEF Shape, Fields
<1>2. Counted'
  BY DEF Counted, CreditedPerDelivery, DeliveryHeld, Delivers
<1>3. DeliveryHeld'
  BY DEF Shape, Fields, DeliveryHeld, Delivers
<1>4. HeldInTx'
  BY ConstantsAssumption DEF Shape, Fields, HeldInTx, Holds, InTx, OrderKept, Ordered, TxSteps
<1>5. OrderKept'
  BY DEF Shape, Fields, OrderKept, Ordered, InTx, Left, TxSteps, HeldInTx, Holds
<1> QED BY <1>1, <1>2, <1>3, <1>4, <1>5

LEMMA DeliverRefundStep == ASSUME IInv, NEW q \in Requests, DeliverRefund(q) PROVE IInv'
<1> USE DEF IInv, DeliverRefund, Start, Idle, NoTx, ledger, collection, locks
<1>1. Shape'
  BY DEF Shape, Fields
<1>2. Counted'
  BY DEF Counted, CreditedPerDelivery, DeliveryHeld, Delivers
<1>3. DeliveryHeld'
  BY DEF Shape, Fields, DeliveryHeld, Delivers
<1>4. HeldInTx'
  BY ConstantsAssumption DEF Shape, Fields, HeldInTx, Holds, InTx, OrderKept, Ordered, TxSteps
<1>5. OrderKept'
  BY DEF Shape, Fields, OrderKept, Ordered, InTx, Left, TxSteps, HeldInTx, Holds
<1> QED BY <1>1, <1>2, <1>3, <1>4, <1>5

LEMMA CrashStep == ASSUME IInv, NEW q \in Requests, Crash(q) PROVE IInv'
<1> USE DEF IInv, Crash, Start, Idle, NoTx, ledger, collection, locks, Gone, Freed
<1>1. Shape'
  BY DEF Shape, Fields
<1>2. Counted'
  BY DEF Counted, CreditedPerDelivery, DeliveryHeld, Delivers
<1>3. DeliveryHeld'
  BY DEF Shape, Fields, DeliveryHeld, Delivers
<1>4. HeldInTx'
  BY ConstantsAssumption DEF Shape, Fields, HeldInTx, Holds, InTx, OrderKept, Ordered, TxSteps
<1>5. OrderKept'
  BY DEF Shape, Fields, OrderKept, Ordered, InTx, Left, TxSteps, HeldInTx, Holds
<1> QED BY <1>1, <1>2, <1>3, <1>4, <1>5

-----------------------------------------------------------------------------
LEMMA IInvHolds == Spec => []IInv
<1>1. IInv /\ [Next]_vars => IInv'
  <2> SUFFICES ASSUME IInv, [Next]_vars PROVE IInv'
    OBVIOUS
  <2>1. ASSUME NEW q \in Requests, Step(q) PROVE IInv'
    BY <2>1, SumsStep, WriteBalanceStep, SpendStep, CutStep, CommitStep, FinishStep, StoreStep,
       LockToRedeemStep, CheckRefundStep, InsertRefundStep, DeliverRefundStep, LockRegistrationStep DEF Step
  <2>2. ASSUME NEW q \in Requests, Crash(q) \/ ReadToClose(q) \/ ReadForGift(q) \/ ReadToRedeem(q)
        PROVE IInv'
    BY <2>2, CrashStep, ReadToCloseStep, ReadForGiftStep, ReadToRedeemStep
  <2>3. ASSUME NEW q \in Requests, NEW v \in Values, Give(q, v) PROVE IInv'
    BY <2>3, GiveStep
  <2>4. ASSUME NEW q \in Requests, NEW r \in Regs, NEW p \in Prices, Save(q, r, p) PROVE IInv'
    BY <2>4, SaveStep
  <2>5. ASSUME NEW q \in Requests, NEW i \in Refunds, ReadRefund(q, i) PROVE IInv'
    BY <2>5, ReadRefundStep
  <2>6. ASSUME NEW i \in Refunds, NEW v \in Values, AskRefund(i, v) PROVE IInv'
    BY <2>6, AskRefundStep
  <2>7. CASE UNCHANGED vars
    BY <2>7 DEF vars, ledger, collection, locks, IInv, Shape, Counted, CreditedPerDelivery, DeliveryHeld,
       Delivers, HeldInTx, Holds, InTx, OrderKept, Ordered
  <2> QED BY <2>1, <2>2, <2>3, <2>4, <2>5, <2>6, <2>7, ParticipateStep DEF Next
<1> QED BY <1>1, InitOk, PTL DEF Spec

(* A collection is credited once per delivery, however often it is         *)
(* redeemed, closed and paid into at once: process_collection_status_change *)
(* looks at the locked row.                                                *)
THEOREM CreditedOnce == Spec => []CreditedPerDelivery
<1>1. IInv => CreditedPerDelivery
  BY DEF IInv, Counted
<1> QED BY <1>1, IInvHolds, PTL

(* Requests that lock a registration before the membership never block     *)
(* each other for good: in every circle of waiting requests one holds the  *)
(* membership.                                                             *)
THEOREM CirclesHoldBalance == Spec => []DeadlockHoldsBalance
<1> QED BY CircleHoldsBalance, IInvHolds, PTL

-----------------------------------------------------------------------------
(* The rows of the refunds and of their items.                             *)
RefundRows ==
  /\ DOMAIN refund = Refunds
  /\ \A i \in Refunds : /\ DOMAIN refund[i] = {"status", "value"}
                        /\ refund[i].status # "none" => refund[i].value \in Values
  /\ delivered \in [Values -> Nat]

(* A request that delivers a refund has its item from the insert on.       *)
Underway(q) ==
  /\ req[q].pc \in {"check", "item", "deliver"} => req[q].op = "refund"
  /\ req[q].op = "refund" =>
       /\ req[q].ref \in Refunds /\ refund[req[q].ref].status # "none"
       /\ req[q].pc \notin {"check", "item"} => delivered[refund[req[q].ref].value] > 0

RInv == Shape /\ RefundRows /\ RefundHasItem /\ \A q \in Requests : Underway(q)

LEMMA GiveRefunds == ASSUME RInv, Shape', NEW q \in Requests, NEW v \in Values, Give(q, v) PROVE RInv'
<1> USE DEF RInv, Give, Start, Idle, NoTx, ledger, collection, locks
<1>1. RefundRows'
  BY DEF RefundRows
<1>2. RefundHasItem'
  BY DEF RefundRows, RefundHasItem, Underway, Shape
<1>3. ASSUME NEW o \in Requests PROVE Underway(o)'
  BY DEF Shape, Fields, RefundRows, RefundHasItem, Underway
<1> QED BY <1>1, <1>2, <1>3

LEMMA SumsRefunds == ASSUME RInv, Shape', NEW q \in Requests, Sums(q) PROVE RInv'
<1> USE DEF RInv, Sums, Start, Idle, NoTx, ledger, collection, locks
<1>1. RefundRows'
  BY DEF RefundRows
<1>2. RefundHasItem'
  BY DEF RefundRows, RefundHasItem, Underway, Shape
<1>3. ASSUME NEW o \in Requests PROVE Underway(o)'
  BY DEF Shape, Fields, RefundRows, RefundHasItem, Underway
<1> QED BY <1>1, <1>2, <1>3

LEMMA WriteBalanceRefunds == ASSUME RInv, Shape', NEW q \in Requests, WriteBalance(q) PROVE RInv'
<1> USE DEF RInv, WriteBalance, Start, Idle, NoTx, ledger, collection, locks, MembershipFree, InTx
<1>1. RefundRows'
  BY DEF RefundRows
<1>2. RefundHasItem'
  BY DEF RefundRows, RefundHasItem, Underway, Shape
<1>3. ASSUME NEW o \in Requests PROVE Underway(o)'
  BY DEF Shape, Fields, RefundRows, RefundHasItem, Underway
<1> QED BY <1>1, <1>2, <1>3

LEMMA SaveRefunds == ASSUME RInv, Shape', NEW q \in Requests, NEW r \in Regs, NEW p \in Prices, Save(q, r, p) PROVE RInv'
<1> USE DEF RInv, Save, Start, Idle, NoTx, ledger, collection, locks
<1>1. RefundRows'
  BY DEF RefundRows
<1>2. RefundHasItem'
  BY DEF RefundRows, RefundHasItem, Underway, Shape
<1>3. ASSUME NEW o \in Requests PROVE Underway(o)'
  BY DEF Shape, Fields, RefundRows, RefundHasItem, Underway
<1> QED BY <1>1, <1>2, <1>3

LEMMA LockRegistrationRefunds == ASSUME RInv, Shape', NEW q \in Requests, NEW r \in Regs, LockRegistration(q, r) PROVE RInv'
<1> USE DEF RInv, LockRegistration, Start, Idle, NoTx, ledger, collection, locks, InTx
<1>1. RefundRows'
  BY DEF RefundRows
<1>2. RefundHasItem'
  BY DEF RefundRows, RefundHasItem, Underway, Shape
<1>3. ASSUME NEW o \in Requests PROVE Underway(o)'
  <2>1. CASE o # q
    BY <2>1 DEF Shape, Fields, RefundRows, Underway
  <2>2. CASE o = q
    <3>1. PICK pc, rem, inner, todo, by :
             /\ req' = [req EXCEPT ![q].pc = pc, ![q].reg = r, ![q].rem = rem,
                                   ![q].inner = inner, ![q].todo = todo, ![q].tx.by = by]
             /\ pc \in {"spend", "cut", "next"}
      <4>1. PICK rem : rem = price[r] - Sum(PayOf(q)[r])
        OBVIOUS
      <4> DEFINE pc == CASE rem > 0 -> "spend" [] rem < 0 -> "cut" [] OTHER -> "next"
      <4>2. pc \in {"spend", "cut", "next"}
        OBVIOUS
      <4>3. req' = [req EXCEPT ![q].pc = pc, ![q].reg = r, ![q].rem = rem,
                               ![q].inner = req[q].inner \ {r}, ![q].todo = req[q].todo \ {r},
                               ![q].tx.by = IF req[q].tx.by = "none" THEN "registration" ELSE req[q].tx.by]
        BY <4>1, Zenon
      <4> HIDE DEF pc, LockRegistration
      <4> QED BY <4>2, <4>3
    <3>5. req[q].pc = "next" /\ UNCHANGED <<refund, delivered>>
      OBVIOUS
    <3> HIDE DEF LockRegistration
    <3>2. DOMAIN req = Requests /\ DOMAIN req[q] = Fields
      BY DEF Shape
    <3>3. req'[q].op = req[q].op /\ req'[q].ref = req[q].ref
      BY <3>1, <3>2 DEF Fields
    <3>4. req'[q].pc = pc
      BY <3>1, <3>2 DEF Fields
    <3> QED BY <2>2, <3>1, <3>3, <3>4, <3>5 DEF Underway
  <2> QED BY <2>1, <2>2
<1> QED BY <1>1, <1>2, <1>3

LEMMA SpendRefunds == ASSUME RInv, Shape', NEW q \in Requests, Spend(q) PROVE RInv'
<1> USE DEF RInv, Spend, Start, Idle, NoTx, ledger, collection, locks, MembershipFree
<1>1. RefundRows'
  BY DEF RefundRows
<1>2. RefundHasItem'
  BY DEF RefundRows, RefundHasItem, Underway, Shape
<1>3. ASSUME NEW o \in Requests PROVE Underway(o)'
  BY DEF Shape, Fields, RefundRows, RefundHasItem, Underway
<1> QED BY <1>1, <1>2, <1>3

LEMMA CutRefunds == ASSUME RInv, Shape', NEW q \in Requests, Cut(q) PROVE RInv'
<1> USE DEF RInv, Cut, Start, Idle, NoTx, ledger, collection, locks
<1>1. RefundRows'
  BY DEF RefundRows
<1>2. RefundHasItem'
  BY DEF RefundRows, RefundHasItem, Underway, Shape
<1>3. ASSUME NEW o \in Requests PROVE Underway(o)'
  BY DEF Shape, Fields, RefundRows, RefundHasItem, Underway
<1> QED BY <1>1, <1>2, <1>3

LEMMA CommitRefunds == ASSUME RInv, Shape', NEW q \in Requests, Commit(q) PROVE RInv'
<1> USE DEF RInv, Commit, Start, Idle, NoTx, ledger, collection, locks, Freed, InTx
<1>1. RefundRows'
  BY DEF RefundRows
<1>2. RefundHasItem'
  BY DEF RefundRows, RefundHasItem, Underway, Shape
<1>3. ASSUME NEW o \in Requests PROVE Underway(o)'
  BY DEF Shape, Fields, RefundRows, RefundHasItem, Underway
<1> QED BY <1>1, <1>2, <1>3

LEMMA FinishRefunds == ASSUME RInv, Shape', NEW q \in Requests, Finish(q) PROVE RInv'
<1> USE DEF RInv, Finish, Start, Idle, NoTx, ledger, collection, locks
<1>1. RefundRows'
  BY DEF RefundRows
<1>2. RefundHasItem'
  BY DEF RefundRows, RefundHasItem, Underway, Shape
<1>3. ASSUME NEW o \in Requests PROVE Underway(o)'
  BY DEF Shape, Fields, RefundRows, RefundHasItem, Underway
<1> QED BY <1>1, <1>2, <1>3

LEMMA ParticipateRefunds == ASSUME RInv, Shape', Participate PROVE RInv'
<1> USE DEF RInv, Participate, Start, Idle, NoTx, ledger, collection, locks
<1>1. RefundRows'
  BY DEF RefundRows
<1>2. RefundHasItem'
  BY DEF RefundRows, RefundHasItem, Underway, Shape
<1>3. ASSUME NEW o \in Requests PROVE Underway(o)'
  BY DEF Shape, Fields, RefundRows, RefundHasItem, Underway
<1> QED BY <1>1, <1>2, <1>3

LEMMA ReadToCloseRefunds == ASSUME RInv, Shape', NEW q \in Requests, ReadToClose(q) PROVE RInv'
<1> USE DEF RInv, ReadToClose, Start, Idle, NoTx, ledger, collection, locks
<1>1. RefundRows'
  BY DEF RefundRows
<1>2. RefundHasItem'
  BY DEF RefundRows, RefundHasItem, Underway, Shape
<1>3. ASSUME NEW o \in Requests PROVE Underway(o)'
  BY DEF Shape, Fields, RefundRows, RefundHasItem, Underway
<1> QED BY <1>1, <1>2, <1>3

LEMMA ReadForGiftRefunds == ASSUME RInv, Shape', NEW q \in Requests, ReadForGift(q) PROVE RInv'
<1> USE DEF RInv, ReadForGift, Start, Idle, NoTx, ledger, collection, locks
<1>1. RefundRows'
  BY DEF RefundRows
<1>2. RefundHasItem'
  BY DEF RefundRows, RefundHasItem, Underway, Shape
<1>3. ASSUME NEW o \in Requests PROVE Underway(o)'
  BY DEF Shape, Fields, RefundRows, RefundHasItem, Underway
<1> QED BY <1>1, <1>2, <1>3

LEMMA StoreRefunds == ASSUME RInv, Shape', NEW q \in Requests, Store(q) PROVE RInv'
<1> USE DEF RInv, Store, Start, Idle, NoTx, ledger, collection, locks, FirstDelivery
<1>1. RefundRows'
  BY DEF RefundRows
<1>2. RefundHasItem'
  BY DEF RefundRows, RefundHasItem, Underway, Shape
<1>3. ASSUME NEW o \in Requests PROVE Underway(o)'
  BY DEF Shape, Fields, RefundRows, RefundHasItem, Underway
<1> QED BY <1>1, <1>2, <1>3

LEMMA ReadToRedeemRefunds == ASSUME RInv, Shape', NEW q \in Requests, ReadToRedeem(q) PROVE RInv'
<1> USE DEF RInv, ReadToRedeem, Start, Idle, NoTx, ledger, collection, locks
<1>1. RefundRows'
  BY DEF RefundRows
<1>2. RefundHasItem'
  BY DEF RefundRows, RefundHasItem, Underway, Shape
<1>3. ASSUME NEW o \in Requests PROVE Underway(o)'
  BY DEF Shape, Fields, RefundRows, RefundHasItem, Underway
<1> QED BY <1>1, <1>2, <1>3

LEMMA LockToRedeemRefunds == ASSUME RInv, Shape', NEW q \in Requests, LockToRedeem(q) PROVE RInv'
<1> USE DEF RInv, LockToRedeem, Start, Idle, NoTx, ledger, collection, locks, StillDone
<1>1. RefundRows'
  BY DEF RefundRows
<1>2. RefundHasItem'
  BY DEF RefundRows, RefundHasItem, Underway, Shape
<1>3. ASSUME NEW o \in Requests PROVE Underway(o)'
  BY DEF Shape, Fields, RefundRows, RefundHasItem, Underway
<1> QED BY <1>1, <1>2, <1>3

LEMMA AskRefundRefunds == ASSUME RInv, Shape', NEW i \in Refunds, NEW v \in Values, AskRefund(i, v) PROVE RInv'
<1> USE DEF RInv, AskRefund, Start, Idle, NoTx, ledger, collection, locks
<1>1. RefundRows'
  BY DEF RefundRows
<1>2. RefundHasItem'
  BY DEF RefundRows, RefundHasItem, Underway, Shape
<1>3. ASSUME NEW o \in Requests PROVE Underway(o)'
  BY DEF Shape, Fields, RefundRows, RefundHasItem, Underway
<1> QED BY <1>1, <1>2, <1>3

LEMMA ReadRefundRefunds == ASSUME RInv, Shape', NEW q \in Requests, NEW i \in Refunds, ReadRefund(q, i) PROVE RInv'
<1> USE DEF RInv, ReadRefund, Start, Idle, NoTx, ledger, collection, locks
<1>1. RefundRows'
  BY DEF RefundRows
<1>2. RefundHasItem'
  BY DEF RefundRows, RefundHasItem, Underway, Shape
<1>3. ASSUME NEW o \in Requests PROVE Underway(o)'
  BY DEF Shape, Fields, RefundRows, RefundHasItem, Underway
<1> QED BY <1>1, <1>2, <1>3

LEMMA CheckRefundRefunds == ASSUME RInv, Shape', NEW q \in Requests, CheckRefund(q) PROVE RInv'
<1> USE DEF RInv, CheckRefund, Start, Idle, NoTx, ledger, collection, locks, Delivered
<1>1. RefundRows'
  BY DEF RefundRows
<1>2. RefundHasItem'
  BY DEF RefundRows, RefundHasItem, Underway, Shape
<1>3. ASSUME NEW o \in Requests PROVE Underway(o)'
  BY DEF Shape, Fields, RefundRows, RefundHasItem, Underway
<1> QED BY <1>1, <1>2, <1>3

LEMMA InsertRefundRefunds == ASSUME RInv, Shape', NEW q \in Requests, InsertRefund(q) PROVE RInv'
<1> USE DEF RInv, InsertRefund, Start, Idle, NoTx, ledger, collection, locks
<1>1. RefundRows'
  BY DEF RefundRows, Underway, Shape
<1>2. RefundHasItem'
  BY DEF RefundRows, RefundHasItem, Underway, Shape
<1>3. ASSUME NEW o \in Requests PROVE Underway(o)'
  BY DEF Shape, Fields, RefundRows, RefundHasItem, Underway
<1> QED BY <1>1, <1>2, <1>3

LEMMA DeliverRefundRefunds == ASSUME RInv, Shape', NEW q \in Requests, DeliverRefund(q) PROVE RInv'
<1> USE DEF RInv, DeliverRefund, Start, Idle, NoTx, ledger, collection, locks
<1>1. RefundRows'
  BY DEF RefundRows, Underway, Shape
<1>2. RefundHasItem'
  BY DEF RefundRows, RefundHasItem, Underway, Shape
<1>3. ASSUME NEW o \in Requests PROVE Underway(o)'
  BY DEF Shape, Fields, RefundRows, RefundHasItem, Underway
<1> QED BY <1>1, <1>2, <1>3

LEMMA CrashRefunds == ASSUME RInv, Shape', NEW q \in Requests, Crash(q) PROVE RInv'
<1> USE DEF RInv, Crash, Start, Idle, NoTx, ledger, collection, locks, Gone, Freed
<1>1. RefundRows'
  BY DEF RefundRows
<1>2. RefundHasItem'
  BY DEF RefundRows, RefundHasItem, Underway, Shape
<1>3. ASSUME NEW o \in Requests PROVE Underway(o)'
  BY DEF Shape, Fields, RefundRows, RefundHasItem, Underway
<1> QED BY <1>1, <1>2, <1>3

LEMMA InitRefunds == Init => RInv
<1> SUFFICES ASSUME Init PROVE RInv
  OBVIOUS
<1> USE DEF Init
<1>1. Shape
  BY InitOk DEF IInv
<1>2. RefundRows
  BY DEF RefundRows, NoRefund, NoneOf
<1>3. RefundHasItem
  BY DEF RefundHasItem, NoRefund
<1>4. \A q \in Requests : Underway(q)
  BY DEF Underway, Idle
<1> QED BY <1>1, <1>2, <1>3, <1>4 DEF RInv

LEMMA RInvHolds == Spec => []RInv
<1>1. RInv /\ Shape' /\ [Next]_vars => RInv'
  <2> SUFFICES ASSUME RInv, Shape', [Next]_vars PROVE RInv'
    OBVIOUS
  <2>1. ASSUME NEW q \in Requests, Step(q) PROVE RInv'
    BY <2>1, SumsRefunds, WriteBalanceRefunds, SpendRefunds, CutRefunds, CommitRefunds, FinishRefunds,
       StoreRefunds, LockToRedeemRefunds, CheckRefundRefunds, InsertRefundRefunds, DeliverRefundRefunds,
       LockRegistrationRefunds DEF Step
  <2>2. ASSUME NEW q \in Requests, Crash(q) \/ ReadToClose(q) \/ ReadForGift(q) \/ ReadToRedeem(q)
        PROVE RInv'
    BY <2>2, CrashRefunds, ReadToCloseRefunds, ReadForGiftRefunds, ReadToRedeemRefunds
  <2>3. ASSUME NEW q \in Requests, NEW v \in Values, Give(q, v) PROVE RInv'
    BY <2>3, GiveRefunds
  <2>4. ASSUME NEW q \in Requests, NEW r \in Regs, NEW p \in Prices, Save(q, r, p) PROVE RInv'
    BY <2>4, SaveRefunds
  <2>5. ASSUME NEW q \in Requests, NEW i \in Refunds, ReadRefund(q, i) PROVE RInv'
    BY <2>5, ReadRefundRefunds
  <2>6. ASSUME NEW i \in Refunds, NEW v \in Values, AskRefund(i, v) PROVE RInv'
    BY <2>6, AskRefundRefunds
  <2>7. CASE UNCHANGED vars
    BY <2>7 DEF vars, ledger, RInv, Shape, RefundRows, RefundHasItem, Underway
  <2> QED BY <2>1, <2>2, <2>3, <2>4, <2>5, <2>6, <2>7, ParticipateRefunds DEF Next
<1>2. IInv => Shape
  BY DEF IInv
<1> QED BY <1>1, <1>2, InitRefunds, IInvHolds, PTL DEF Spec

(* A refund is shown as paid only when its item is booked, whoever         *)
(* confirms it and dies on the way: accounting_refund_deliver writes the   *)
(* item before the status.                                                 *)
THEOREM RefundsBooked == Spec => []RefundHasItem
<1>1. RInv => RefundHasItem
  BY DEF RInv
<1> QED BY <1>1, RInvHolds, PTL

-----------------------------------------------------------------------------
(* Sums of payments.                                                       *)
LEMMA ValuesAre ==
  /\ IsFiniteSet(Values) /\ Values \subseteq Nat \ {0}
  /\ \A v \in Values : v \in Nat /\ v > 0 /\ \A u \in 1..v : u \in Values
<1>1. Cardinality(Values) \in Nat /\ Values = 1..Cardinality(Values) /\ IsFiniteSet(Values)
  BY ConstantsAssumption, FS_CardinalityType DEF ConstantsAssumption
<1> QED BY <1>1

LEMMA WorthIsNat == ASSUME NEW v \in Nat, NEW n \in Nat PROVE v * n \in Nat
  BY Z3

LEMMA SumIsNat == ASSUME NEW b \in Bag PROVE Sum(b) \in Nat
<1> DEFINE f == [v \in Values |-> v * b[v]]
<1>1. \A v \in Values : f[v] \in Nat
  BY ValuesAre, WorthIsNat DEF Bag
<1> HIDE DEF f
<1>2. SumFunctionOnSet(f, Values) \in Nat
  BY <1>1, ValuesAre, SumNatural
<1> QED BY <1>2 DEF Sum, f

LEMMA SumWithOne ==
  ASSUME NEW b \in Bag, NEW u \in Values, b[u] = 0
  PROVE  Sum([b EXCEPT ![u] = 1]) = Sum(b) + u
<1> DEFINE c == [b EXCEPT ![u] = 1]
           f == [v \in Values |-> v * b[v]]
           g == [v \in Values |-> v * c[v]]
<1>1. \A v \in Values : f[v] \in Int /\ g[v] \in Int /\ (v # u => g[v] = f[v])
  BY ValuesAre DEF Bag
<1>2. f[u] = 0 /\ g[u] = u
  BY ValuesAre DEF Bag
<1>3. SumFunctionOnSet(f, Values) = Sum(b) /\ SumFunctionOnSet(g, Values) = Sum(c)
  BY DEF Sum
<1>4. Sum(b) \in Nat /\ u \in Nat
  BY SumIsNat, ValuesAre
<1>5. IsFiniteSet(Values)
  BY ValuesAre
<1> HIDE DEF c, f, g
<1>6. SumFunctionOnSet(g, Values) = SumFunctionOnSet(f, Values) - f[u] + g[u]
  BY <1>1, <1>5, SumChanged
<1> QED BY <1>2, <1>3, <1>4, <1>6 DEF c

LEMMA UsedIsNat == ASSUME NEW p \in [Regs -> Bag] PROVE Used(p) \in Nat
<1> DEFINE f == [r \in Regs |-> Sum(p[r])]
<1>1. \A r \in Regs : f[r] \in Nat
  BY SumIsNat
<1>2. IsFiniteSet(Regs)
  BY ConstantsAssumption DEF ConstantsAssumption
<1> HIDE DEF f
<1>3. SumFunctionOnSet(f, Regs) \in Nat
  BY <1>1, <1>2, SumNatural
<1> QED BY <1>3 DEF Used, f

LEMMA UsedChanged ==
  ASSUME NEW p \in [Regs -> Bag], NEW r \in Regs, NEW b \in Bag
  PROVE  Used([p EXCEPT ![r] = b]) = Used(p) - Sum(p[r]) + Sum(b)
<1> DEFINE d == [p EXCEPT ![r] = b]
           f == [s \in Regs |-> Sum(p[s])]
           g == [s \in Regs |-> Sum(d[s])]
<1>1. d \in [Regs -> Bag] /\ d[r] = b /\ \A s \in Regs : s # r => d[s] = p[s]
  OBVIOUS
<1> HIDE DEF d
<1>2. \A s \in Regs : f[s] \in Int /\ g[s] \in Int /\ (s # r => g[s] = f[s])
  BY <1>1, SumIsNat
<1>3. f[r] = Sum(p[r]) /\ g[r] = Sum(b) /\ IsFiniteSet(Regs)
  BY <1>1, ConstantsAssumption DEF ConstantsAssumption
<1>4. SumFunctionOnSet(f, Regs) = Used(p) /\ SumFunctionOnSet(g, Regs) = Used(d)
  BY DEF Used
<1> HIDE DEF f, g
<1>5. SumFunctionOnSet(g, Regs) = SumFunctionOnSet(f, Regs) - f[r] + g[r]
  BY <1>2, <1>3, SumChanged
<1> QED BY <1>3, <1>4, <1>5 DEF d

(* What is left after a cut are payments.                                  *)
LEMMA DeletedAtMost ==
  ASSUME NEW left \in Nat, NEW v \in Nat, v > 0, NEW n \in Nat, left < v * n
  PROVE  left \div v \in Nat /\ left \div v <= n
<1> DEFINE w == left \div v
           r == left % v
<1>1. w \in Int /\ r \in 0..(v - 1)
  OBVIOUS
<1>2. r = left - v * w
  BY Z3
<1> HIDE DEF w, r
<1>3. w >= 0
  BY <1>1, <1>2, Z3
<1>4. w <= n
  BY <1>1, <1>2, Z3
<1> QED BY <1>1, <1>3, <1>4 DEF w

(* What is cut of the payments of one value.                               *)
LEMMA WhatIsCut ==
  ASSUME NEW p \in Bag, NEW over \in Nat, NEW v \in Values
  PROVE  /\ Surplus(p, over, v) \in Nat /\ Deleted(p, over, v) \in Nat /\ Deleted(p, over, v) <= p[v]
         /\ Shortened(p, over, v) => /\ Part(p, over, v) \in 1..(v - 1)
                                     /\ ~(v * p[v] <= Surplus(p, over, v))
         /\ Surplus(p, over, v) = 0 => ~Shortened(p, over, v)
<1> DEFINE f == [u \in Values |-> u * p[u]]
           T == {u \in Values : u > v}
           left == Surplus(p, over, v)
           del == Deleted(p, over, v)
<1>1. left \in Nat
  <2>1. \A u \in T : f[u] \in Nat
    BY ValuesAre, WorthIsNat DEF Bag
  <2>2. IsFiniteSet(T)
    BY ValuesAre, FS_Subset
  <2>3. left = IF over > SumFunctionOnSet(f, T) THEN over - SumFunctionOnSet(f, T) ELSE 0
    BY DEF Surplus
  <2> HIDE DEF f, T
  <2>4. SumFunctionOnSet(f, T) \in Nat
    BY <2>1, <2>2, SumNatural
  <2> QED BY <2>3, <2>4
<1>2. v \in Nat /\ v > 0 /\ p[v] \in Nat /\ v * p[v] \in Nat
  BY ValuesAre, WorthIsNat DEF Bag
<1>3. /\ del = IF v * p[v] <= left THEN p[v] ELSE left \div v
      /\ Part(p, over, v) = left - v * del
      /\ Shortened(p, over, v) <=> p[v] > del /\ Part(p, over, v) > 0
  BY DEF Deleted, Part, Shortened
<1> HIDE DEF left, del
<1>4. CASE v * p[v] <= left
  <2>1. del = p[v]
    BY <1>3, <1>4
  <2> QED BY <1>1, <1>2, <1>3, <2>1 DEF left, del
<1>5. CASE ~(v * p[v] <= left)
  <2>1. del = left \div v /\ left < v * p[v]
    BY <1>1, <1>2, <1>3, <1>5
  <2>2. del \in Nat /\ del <= p[v]
    BY <1>1, <1>2, <2>1, DeletedAtMost
  <2>3. left - v * del \in 0..(v - 1)
    <3> DEFINE w == left \div v
               m == left % v
    <3>1. w \in Int /\ m \in 0..(v - 1)
      BY <1>1, <1>2
    <3>2. m = left - v * w
      BY <1>1, <1>2, Z3
    <3> QED BY <2>1, <3>1, <3>2
  <2>4. left = 0 => left - v * del = 0 - v * del /\ v * del \in Nat
    BY <1>2, <2>2, WorthIsNat
  <2>5. left = 0 => ~(Part(p, over, v) > 0)
    BY <1>2, <1>3, <2>4
  <2> QED BY <1>1, <1>2, <1>3, <1>5, <2>2, <2>3, <2>5 DEF left, del
<1> QED BY <1>4, <1>5

LEMMA ReversedIsBag == ASSUME NEW p \in Bag, NEW over \in Nat PROVE Reversed(p, over) \in Bag
<1>1. ASSUME NEW v \in Values PROVE Reversed(p, over)[v] \in Nat
  <2>1. /\ p[v] \in Nat /\ Deleted(p, over, v) \in Nat /\ Deleted(p, over, v) <= p[v]
        /\ Shortened(p, over, v) => p[v] > Deleted(p, over, v)
    BY WhatIsCut DEF Bag, Shortened
  <2>2. Reversed(p, over)[v] = p[v] - Deleted(p, over, v) - (IF Shortened(p, over, v) THEN 1 ELSE 0)
          + IF \E w \in Values : Shortened(p, over, w) /\ v = w - Part(p, over, w) THEN 1 ELSE 0
    BY DEF Reversed
  <2> QED BY <2>1, <2>2
<1>2. Reversed(p, over) = [v \in Values |-> Reversed(p, over)[v]]
  BY DEF Reversed
<1> QED BY <1>1, <1>2 DEF Bag

(* A cut takes value away: at most one payment is shortened, for those     *)
(* smaller than it nothing of the surplus is left.                         *)
LEMMA TimesAtMost ==
  ASSUME NEW v \in Nat, NEW a \in Int, NEW b \in Int, a <= b
  PROVE  v * a \in Int /\ v * a <= v * b
<1> DEFINE d == b - a
<1>1. d \in Nat /\ b = a + d
  OBVIOUS
<1> HIDE DEF d
<1>2. v * b = v * a + v * d /\ v * a \in Int /\ v * d \in Nat
  BY <1>1, Z3
<1> QED BY <1>2

(* The payments larger than v, and what they are worth.                    *)
LEMMA LargerFirst ==
  ASSUME NEW p \in Bag, NEW over \in Nat, NEW v \in Values, NEW w \in Values, v < w,
         ~(w * p[w] <= Surplus(p, over, w))
  PROVE  Surplus(p, over, v) = 0
<1> DEFINE f == [u \in Values |-> u * p[u]]
           T(x) == {u \in Values : u > x}
           more == T(w) \cup {w}
<1>1. \A u \in Values : f[u] \in Nat
  BY ValuesAre, WorthIsNat DEF Bag
<1>2. IsFiniteSet(T(v)) /\ IsFiniteSet(T(w)) /\ T(v) \subseteq Values /\ T(w) \subseteq Values
  BY ValuesAre, FS_Subset
<1>3. more \subseteq T(v) /\ w \notin T(w)
  <2>1. \A u \in Values : u \in Int
    BY ValuesAre
  <2> QED BY <2>1
<1>4. f[w] = w * p[w]
  OBVIOUS
<1>5. /\ Surplus(p, over, v) = IF over > SumFunctionOnSet(f, T(v)) THEN over - SumFunctionOnSet(f, T(v)) ELSE 0
      /\ Surplus(p, over, w) = IF over > SumFunctionOnSet(f, T(w)) THEN over - SumFunctionOnSet(f, T(w)) ELSE 0
  BY DEF Surplus
<1> HIDE DEF f, T
<1>6. SumFunctionOnSet(f, more) = f[w] + SumFunctionOnSet(f, T(w))
  BY <1>1, <1>2, <1>3, SumAdded
<1>7. SumFunctionOnSet(f, more) <= SumFunctionOnSet(f, T(v))
  BY <1>1, <1>2, <1>3, SumOfPart
<1>8. SumFunctionOnSet(f, T(v)) \in Nat /\ SumFunctionOnSet(f, T(w)) \in Nat /\ f[w] \in Nat
  BY <1>1, <1>2, SumNatural
<1> QED BY <1>4, <1>5, <1>6, <1>7, <1>8

LEMMA ReversedIsLess ==
  ASSUME NEW p \in Bag, NEW over \in Nat
  PROVE  Sum(Reversed(p, over)) <= Sum(p)
<1> DEFINE cut == Reversed(p, over)
           f == [v \in Values |-> v * p[v]]
           g == [v \in Values |-> v * cut[v]]
<1>1. SumFunctionOnSet(f, Values) = Sum(p) /\ SumFunctionOnSet(g, Values) = Sum(cut) /\ IsFiniteSet(Values)
  BY ValuesAre DEF Sum
<1>2. \A v \in Values : /\ v \in Nat /\ v > 0 /\ p[v] \in Nat /\ f[v] \in Nat /\ f[v] = v * p[v]
                        /\ cut[v] \in Nat /\ g[v] \in Nat /\ g[v] = v * cut[v]
  BY ValuesAre, WorthIsNat, ReversedIsBag DEF Bag
<1>3. \A v \in Values :
        cut[v] = p[v] - Deleted(p, over, v) - (IF Shortened(p, over, v) THEN 1 ELSE 0)
                 + IF \E w \in Values : Shortened(p, over, w) /\ v = w - Part(p, over, w) THEN 1 ELSE 0
  BY DEF Reversed
<1>4. \A v \in Values : Deleted(p, over, v) \in Nat
  BY WhatIsCut
<1> HIDE DEF cut, f, g
<1>5. CASE \A w \in Values : ~Shortened(p, over, w)
  <2>1. ASSUME NEW v \in Values PROVE g[v] <= f[v]
    <3>1. cut[v] <= p[v]
      <4>1. cut[v] = p[v] - Deleted(p, over, v) - 0 + 0
        BY <1>3, <1>5
      <4> QED BY <1>2, <1>4, <4>1
    <3> QED BY <1>2, <3>1, TimesAtMost
  <2>2. SumFunctionOnSet(g, Values) <= SumFunctionOnSet(f, Values)
    BY <1>1, <1>2, <2>1, SumAtMost
  <2> QED BY <1>1, <2>2 DEF cut
<1>6. ASSUME NEW w \in Values, Shortened(p, over, w) PROVE Sum(cut) <= Sum(p)
  <2> DEFINE x == w - Part(p, over, w)
  <2>1. Part(p, over, w) \in 1..(w - 1) /\ x \in Values /\ x \in Nat /\ x < w
    <3>1. Part(p, over, w) \in 1..(w - 1)
      BY <1>6, WhatIsCut
    <3> QED BY <3>1, ValuesAre
  <2>2. ASSUME NEW u \in Values, u # w PROVE ~Shortened(p, over, u)
    <3>1. u \in Nat /\ w \in Nat
      BY <1>2
    <3>2. CASE u < w
      <4>1. Surplus(p, over, u) = 0
        BY <1>6, <3>2, LargerFirst, WhatIsCut
      <4> QED BY <4>1, WhatIsCut
    <3>3. CASE w < u
      <4>1. ASSUME Shortened(p, over, u) PROVE Surplus(p, over, w) = 0
        BY <3>3, <4>1, LargerFirst, WhatIsCut
      <4> QED BY <1>6, <4>1, WhatIsCut
    <3> QED BY <2>2, <3>1, <3>2, <3>3
  <2> HIDE DEF x
  <2>3. ASSUME NEW v \in Values
        PROVE  cut[v] = p[v] - Deleted(p, over, v) - (IF v = w THEN 1 ELSE 0) + IF v = x THEN 1 ELSE 0
    <3>1. (\E u \in Values : Shortened(p, over, u) /\ v = u - Part(p, over, u)) <=> v = x
      BY <1>6, <2>2 DEF x
    <3>2. Shortened(p, over, v) <=> v = w
      BY <1>6, <2>2
    <3> QED BY <1>3, <3>1, <3>2
  <2> DEFINE h == [v \in Values |-> IF v = w THEN f[w] - w ELSE f[v]]
             k == [v \in Values |-> IF v = x THEN h[x] + x ELSE h[v]]
  <2>4. /\ \A v \in Values : h[v] \in Int /\ k[v] \in Int
        /\ h[w] = f[w] - w /\ k[x] = f[x] + x /\ h[x] = f[x] /\ k[w] = f[w] - w
        /\ \A v \in Values : (v # w => h[v] = f[v]) /\ (v # x => k[v] = h[v])
    BY <1>2, <2>1
  <2> HIDE DEF h, k
  <2>5. SumFunctionOnSet(h, Values) = SumFunctionOnSet(f, Values) - f[w] + h[w]
    BY <1>1, <1>2, <2>4, SumChanged
  <2>6. SumFunctionOnSet(k, Values) = SumFunctionOnSet(h, Values) - h[x] + k[x]
    <3>1. \A v \in Values : h[v] \in Int /\ k[v] \in Int /\ (v # x => k[v] = h[v])
      BY <2>4
    <3>2. x \in Values /\ IsFiniteSet(Values)
      BY <1>1, <2>1
    <3> QED BY <3>1, <3>2, SumChanged
  <2>7. ASSUME NEW v \in Values PROVE g[v] <= k[v]
    <3>1. v \in Nat /\ p[v] \in Nat /\ Deleted(p, over, v) \in Nat /\ cut[v] \in Nat /\ x \in Nat /\ x < w
      BY <1>2, <1>4, <2>1
    <3>2. CASE v = w
      <4>1. cut[v] <= p[v] - 1
        BY <2>3, <3>1, <3>2
      <4>2. v * cut[v] <= v * (p[v] - 1)
        BY <3>1, <4>1, TimesAtMost
      <4>3. v * (p[v] - 1) = v * p[v] - v
        BY <3>1, Z3
      <4> QED BY <1>2, <2>4, <3>2, <4>2, <4>3
    <3>3. CASE v = x
      <4>1. cut[v] <= p[v] + 1
        BY <2>3, <3>1, <3>3
      <4>2. v * cut[v] <= v * (p[v] + 1)
        BY <3>1, <4>1, TimesAtMost
      <4>3. v * (p[v] + 1) = v * p[v] + v
        BY <3>1, Z3
      <4> QED BY <1>2, <2>4, <3>3, <4>2, <4>3
    <3>4. CASE v # w /\ v # x
      <4>1. cut[v] <= p[v]
        BY <2>3, <3>1, <3>4
      <4>2. v * cut[v] <= v * p[v]
        BY <3>1, <4>1, TimesAtMost
      <4> QED BY <1>2, <2>4, <3>4, <4>2
    <3> QED BY <3>2, <3>3, <3>4
  <2>8. SumFunctionOnSet(g, Values) <= SumFunctionOnSet(k, Values)
    BY <1>1, <1>2, <2>4, <2>7, SumAtMost
  <2>9. /\ SumFunctionOnSet(f, Values) \in Int /\ SumFunctionOnSet(g, Values) \in Int
        /\ f[w] \in Int /\ f[x] \in Int /\ w \in Int /\ x \in Int /\ x < w
    <3>1. (\A v \in Values : f[v] \in Int) /\ \A v \in Values : g[v] \in Int
      BY <1>2
    <3>2. SumFunctionOnSet(f, Values) \in Int /\ SumFunctionOnSet(g, Values) \in Int
      BY <1>1, <3>1, SumType
    <3> QED BY <1>2, <2>1, <3>1, <3>2
  <2>10. SumFunctionOnSet(g, Values) <= SumFunctionOnSet(f, Values)
    BY <2>4, <2>5, <2>6, <2>8, <2>9
  <2> QED BY <1>1, <2>10 DEF cut
<1> QED BY <1>5, <1>6 DEF cut

(* Hence what one bag after the other is worth bounds what is used.        *)
LEMMA UsedAtMost ==
  ASSUME NEW a \in [Regs -> Bag], NEW b \in [Regs -> Bag], \A r \in Regs : Sum(a[r]) <= Sum(b[r])
  PROVE  Used(a) <= Used(b)
<1> DEFINE f == [r \in Regs |-> Sum(a[r])]
           g == [r \in Regs |-> Sum(b[r])]
<1>1. \A r \in Regs : f[r] \in Int /\ g[r] \in Int /\ f[r] <= g[r]
  BY SumIsNat
<1>2. IsFiniteSet(Regs)
  BY ConstantsAssumption DEF ConstantsAssumption
<1> HIDE DEF f, g
<1>3. SumFunctionOnSet(f, Regs) <= SumFunctionOnSet(g, Regs)
  BY <1>1, <1>2, SumAtMost
<1> QED BY <1>3 DEF Used, f, g
-----------------------------------------------------------------------------
(* The tables, the locks and what each worker knows.                       *)
Lockers == Requests \cup {None}
Steps == {"idle", "sum", "write", "next", "spend", "cut", "store", "lock", "check", "item", "deliver"}

Ledger ==
  /\ given \in Nat /\ delivered \in Bag /\ pay \in [Regs -> Bag] /\ bal \in Int
  /\ price \in [Regs -> Prices] /\ status \in CollectionStatus
  /\ invoices \in Nat /\ gifts \in Nat /\ credits \in Nat /\ reopened \in Nat /\ crashes \in Nat
  /\ refund \in [Refunds -> [status : {"none", "request", "payed"}, value : Values \cup {0}]]
  /\ mlock \in Lockers /\ clock \in Lockers /\ rlock \in [Regs -> Lockers]

Row(w) ==
  /\ w.op \in Operations \cup {"none"} /\ w.pc \in Steps /\ w.reg \in Regs \cup {None}
  /\ w.rem \in Int /\ w.val \in Int /\ w.todo \subseteq Regs /\ w.inner \subseteq Regs
  /\ w.ref \in Refunds \cup {None} /\ w.copy \in CollectionStatus \cup {"none"}
  /\ w.pc = "store" => w.copy # "none"

(* Its transaction has payments of registrations it holds, and a balance   *)
(* while it holds the membership; before that it has nothing to spend.     *)
Working(w) == w.tx.by # "none" /\ w.pc \in {"next", "spend", "cut"}

Transaction(q, w) ==
  /\ w.tx.bal \in Int \cup {None} /\ w.tx.add \in Nat
  /\ \A r \in DOMAIN w.tx.pay : r \in Regs /\ rlock[r] = q /\ w.tx.pay[r] \in Bag
  /\ w.tx.by = "none" => DOMAIN w.tx.pay = {} /\ w.tx.bal = None /\ w.tx.add = 0
  /\ w.pc \in {"spend", "cut"} => w.reg \in Regs /\ rlock[w.reg] = q
  /\ w.pc = "spend" => w.rem \in Values
  /\ w.pc = "cut" => w.rem < 0
  /\ w.tx.bal # None => mlock = q
  /\ Working(w) /\ w.tx.bal = None => DOMAIN w.tx.pay = {} /\ w.tx.add = 0
  /\ w.tx.by \in {"redeem", "gift"} <=> clock = q

Workers == \A q \in Requests : Row(req[q]) /\ Transaction(q, req[q])

(* The balance is the ledger's, unless an item waits for its recalculation *)
(* outside of a transaction; then so is the balance of who spends.         *)
Bad == stale \/ collided \/ crashes > 0
Dirty(w) == w.tx.by = "none" /\ w.pc \in {"sum", "write"}
Balanced == bal = given - Used(pay) - Sum(delivered)
Exact(q) == Working(req[q]) /\ req[q].tx.bal # None => req[q].tx.bal = CreditSum(q)
Books == Bad \/ (\E q \in Requests : Dirty(req[q])) \/ (Balanced /\ \A q \in Requests : Exact(q))

CInv == Ledger /\ Workers /\ Books

LEMMA PayOfType ==
  ASSUME Ledger, Workers, NEW q \in Requests
  PROVE  /\ PayOf(q) \in [Regs -> Bag] /\ CreditSum(q) \in Int
         /\ DOMAIN req[q].tx.pay = {} => PayOf(q) = pay
<1>1. PayOf(q) \in [Regs -> Bag]
  BY DEF Ledger, Workers, Transaction, PayOf
<1>2. Used(PayOf(q)) \in Nat /\ Sum(delivered) \in Nat
  BY <1>1, UsedIsNat, SumIsNat DEF Ledger
<1>3. CreditSum(q) \in Int
  BY <1>2 DEF Ledger, Workers, Transaction, CreditSum
<1>4. DOMAIN req[q].tx.pay = {} => PayOf(q) = pay
  BY DEF PayOf, Ledger
<1> QED BY <1>1, <1>3, <1>4

(* A step of one worker that leaves the rows the others hold to them.      *)
LEMMA OthersStay ==
  ASSUME Workers, NEW q \in Requests, NEW o \in Requests, o # q, req'[o] = req[o],
         \A r \in Regs : rlock[r] = o => rlock'[r] = o,
         mlock = o => mlock' = o, clock = o <=> clock' = o
  PROVE  Row(req[o])' /\ Transaction(o, req[o])'
<1>1. Row(req[o]) /\ Transaction(o, req[o])
  BY DEF Workers
<1>2. Row(req[o])'
  BY <1>1 DEF Row
<1>3. Transaction(o, req[o])'
  BY <1>1 DEF Transaction, Working
<1> QED BY <1>2, <1>3

(* A step that neither books nor spends.                                   *)
LEMMA BooksStay ==
  ASSUME Books, NEW q \in Requests,
         given' = given, delivered' = delivered, pay' = pay, bal' = bal,
         stale' = stale, collided' = collided, crashes' = crashes,
         \A o \in Requests : o # q => req'[o] = req[o],
         Dirty(req[q]) => Dirty(req'[q]),
         Working(req'[q]) /\ req'[q].tx.bal # None =>
           /\ Working(req[q]) /\ req'[q].tx.bal = req[q].tx.bal
           /\ req'[q].tx.pay = req[q].tx.pay /\ req'[q].tx.add = req[q].tx.add
  PROVE  Books'
<1>1. CASE Bad
  BY <1>1 DEF Books, Bad
<1>2. CASE \E o \in Requests : Dirty(req[o])
  <2>1. \E o \in Requests : Dirty(req'[o])
    BY <1>2
  <2> QED BY <2>1 DEF Books, Dirty
<1>3. CASE Balanced /\ \A o \in Requests : Exact(o)
  <2>1. Balanced'
    BY <1>3 DEF Balanced
  <2>2. ASSUME NEW o \in Requests PROVE Exact(o)'
    <3>1. CASE ~(Working(req'[o]) /\ req'[o].tx.bal # None)
      BY <3>1 DEF Exact, Working
    <3>2. CASE Working(req'[o]) /\ req'[o].tx.bal # None
      <4>1. /\ req'[o].tx.pay = req[o].tx.pay /\ req'[o].tx.add = req[o].tx.add
            /\ req'[o].tx.bal = req[o].tx.bal /\ Working(req[o])
        BY <3>2
      <4>2. CreditSum(o)' = CreditSum(o)
        BY <4>1 DEF CreditSum, PayOf
      <4>3. Exact(o)
        BY <1>3
      <4> QED BY <3>2, <4>1, <4>2, <4>3 DEF Exact
    <3> QED BY <3>1, <3>2
  <2> QED BY <2>1, <2>2 DEF Books
<1> QED BY <1>1, <1>2, <1>3 DEF Books

LEMMA SumsBooks ==
  ASSUME IInv, RInv, CInv, NEW q \in Requests, Sums(q)
  PROVE  CInv'
<1> USE DEF Sums, Start, Idle, NoTx, ledger, collection, locks
<1>1. Shape /\ OrderKept /\ HeldInTx /\ Ledger /\ Workers /\ Books
  BY DEF IInv, CInv
<1>2. DOMAIN req' = Requests /\ \A o \in Requests : o # q => req'[o] = req[o]
  BY <1>1 DEF Shape
<1>3. Row(req[q]) /\ Transaction(q, req[q])
  BY <1>1 DEF Workers
<1>4. Ledger'
  BY <1>1, <1>3 DEF Ledger, Lockers, Row, CollectionStatus
<1>5. Row(req'[q])
  BY <1>1, <1>3 DEF Row, Shape, Fields, Steps, Operations, CollectionStatus, Ledger
<1>6. Transaction(q, req[q])'
  BY <1>1, <1>3, ConstantsAssumption DEF Transaction, Working, Shape, Fields, HeldInTx, Holds, InTx, ConstantsAssumption
<1>7. \A o \in Requests : o # q => Row(req[o])' /\ Transaction(o, req[o])'
  BY <1>1, <1>2, OthersStay DEF Ledger, Lockers
<1>8. Workers'
  BY <1>5, <1>6, <1>7 DEF Workers, Row
<1>9. Books'
  <2>1. Dirty(req[q]) => Dirty(req'[q])
    BY <1>1, <1>3 DEF Dirty, Shape, Fields
  <2>2. ~Working(req'[q]) \/ req'[q].tx.bal = None
    BY <1>1, <1>3 DEF Working, Shape, Fields, Transaction, OrderKept, Ordered, InTx
  <2> QED BY <1>1, <1>2, <2>1, <2>2, BooksStay
<1> QED BY <1>4, <1>8, <1>9 DEF CInv

LEMMA SaveBooks ==
  ASSUME IInv, RInv, CInv, NEW q \in Requests, NEW r \in Regs, NEW p \in Prices, Save(q, r, p)
  PROVE  CInv'
<1> USE DEF Save, Start, Idle, NoTx, ledger, collection, locks
<1>1. Shape /\ OrderKept /\ HeldInTx /\ Ledger /\ Workers /\ Books
  BY DEF IInv, CInv
<1>2. DOMAIN req' = Requests /\ \A o \in Requests : o # q => req'[o] = req[o]
  BY <1>1 DEF Shape
<1>3. Row(req[q]) /\ Transaction(q, req[q])
  BY <1>1 DEF Workers
<1>4. Ledger'
  BY <1>1, <1>3 DEF Ledger, Lockers, Row, CollectionStatus
<1>5. Row(req'[q])
  BY <1>1, <1>3 DEF Row, Shape, Fields, Steps, Operations, CollectionStatus, Ledger
<1>6. Transaction(q, req[q])'
  BY <1>1, <1>3, ConstantsAssumption DEF Transaction, Working, Shape, Fields, HeldInTx, Holds, InTx, ConstantsAssumption
<1>7. \A o \in Requests : o # q => Row(req[o])' /\ Transaction(o, req[o])'
  BY <1>1, <1>2, OthersStay DEF Ledger, Lockers
<1>8. Workers'
  BY <1>5, <1>6, <1>7 DEF Workers, Row
<1>9. Books'
  <2>1. Dirty(req[q]) => Dirty(req'[q])
    BY <1>1, <1>3 DEF Dirty, Shape, Fields
  <2>2. ~Working(req'[q]) \/ req'[q].tx.bal = None
    BY <1>1, <1>3 DEF Working, Shape, Fields, Transaction, OrderKept, Ordered, InTx
  <2> QED BY <1>1, <1>2, <2>1, <2>2, BooksStay
<1> QED BY <1>4, <1>8, <1>9 DEF CInv

LEMMA FinishBooks ==
  ASSUME IInv, RInv, CInv, NEW q \in Requests, Finish(q)
  PROVE  CInv'
<1> USE DEF Finish, Start, Idle, NoTx, ledger, collection, locks
<1>1. Shape /\ OrderKept /\ HeldInTx /\ Ledger /\ Workers /\ Books
  BY DEF IInv, CInv
<1>2. DOMAIN req' = Requests /\ \A o \in Requests : o # q => req'[o] = req[o]
  BY <1>1 DEF Shape
<1>3. Row(req[q]) /\ Transaction(q, req[q])
  BY <1>1 DEF Workers
<1>4. Ledger'
  BY <1>1, <1>3 DEF Ledger, Lockers, Row, CollectionStatus
<1>5. Row(req'[q])
  BY <1>1, <1>3 DEF Row, Shape, Fields, Steps, Operations, CollectionStatus, Ledger
<1>6. Transaction(q, req[q])'
  BY <1>1, <1>3, ConstantsAssumption DEF Transaction, Working, Shape, Fields, HeldInTx, Holds, InTx, ConstantsAssumption
<1>7. \A o \in Requests : o # q => Row(req[o])' /\ Transaction(o, req[o])'
  BY <1>1, <1>2, OthersStay DEF Ledger, Lockers
<1>8. Workers'
  BY <1>5, <1>6, <1>7 DEF Workers, Row
<1>9. Books'
  <2>1. Dirty(req[q]) => Dirty(req'[q])
    BY <1>1, <1>3 DEF Dirty, Shape, Fields
  <2>2. ~Working(req'[q]) \/ req'[q].tx.bal = None
    BY <1>1, <1>3 DEF Working, Shape, Fields, Transaction, OrderKept, Ordered, InTx
  <2> QED BY <1>1, <1>2, <2>1, <2>2, BooksStay
<1> QED BY <1>4, <1>8, <1>9 DEF CInv

LEMMA ReadToCloseBooks ==
  ASSUME IInv, RInv, CInv, NEW q \in Requests, ReadToClose(q)
  PROVE  CInv'
<1> USE DEF ReadToClose, Start, Idle, NoTx, ledger, collection, locks
<1>1. Shape /\ OrderKept /\ HeldInTx /\ Ledger /\ Workers /\ Books
  BY DEF IInv, CInv
<1>2. DOMAIN req' = Requests /\ \A o \in Requests : o # q => req'[o] = req[o]
  BY <1>1 DEF Shape
<1>3. Row(req[q]) /\ Transaction(q, req[q])
  BY <1>1 DEF Workers
<1>4. Ledger'
  BY <1>1, <1>3 DEF Ledger, Lockers, Row, CollectionStatus
<1>5. Row(req'[q])
  BY <1>1, <1>3 DEF Row, Shape, Fields, Steps, Operations, CollectionStatus, Ledger
<1>6. Transaction(q, req[q])'
  BY <1>1, <1>3, ConstantsAssumption DEF Transaction, Working, Shape, Fields, HeldInTx, Holds, InTx, ConstantsAssumption
<1>7. \A o \in Requests : o # q => Row(req[o])' /\ Transaction(o, req[o])'
  BY <1>1, <1>2, OthersStay DEF Ledger, Lockers
<1>8. Workers'
  BY <1>5, <1>6, <1>7 DEF Workers, Row
<1>9. Books'
  <2>1. Dirty(req[q]) => Dirty(req'[q])
    BY <1>1, <1>3 DEF Dirty, Shape, Fields
  <2>2. ~Working(req'[q]) \/ req'[q].tx.bal = None
    BY <1>1, <1>3 DEF Working, Shape, Fields, Transaction, OrderKept, Ordered, InTx
  <2> QED BY <1>1, <1>2, <2>1, <2>2, BooksStay
<1> QED BY <1>4, <1>8, <1>9 DEF CInv

LEMMA ReadForGiftBooks ==
  ASSUME IInv, RInv, CInv, NEW q \in Requests, ReadForGift(q)
  PROVE  CInv'
<1> USE DEF ReadForGift, Start, Idle, NoTx, ledger, collection, locks
<1>1. Shape /\ OrderKept /\ HeldInTx /\ Ledger /\ Workers /\ Books
  BY DEF IInv, CInv
<1>2. DOMAIN req' = Requests /\ \A o \in Requests : o # q => req'[o] = req[o]
  BY <1>1 DEF Shape
<1>3. Row(req[q]) /\ Transaction(q, req[q])
  BY <1>1 DEF Workers
<1>4. Ledger'
  BY <1>1, <1>3 DEF Ledger, Lockers, Row, CollectionStatus
<1>5. Row(req'[q])
  BY <1>1, <1>3 DEF Row, Shape, Fields, Steps, Operations, CollectionStatus, Ledger
<1>6. Transaction(q, req[q])'
  BY <1>1, <1>3, ConstantsAssumption DEF Transaction, Working, Shape, Fields, HeldInTx, Holds, InTx, ConstantsAssumption
<1>7. \A o \in Requests : o # q => Row(req[o])' /\ Transaction(o, req[o])'
  BY <1>1, <1>2, OthersStay DEF Ledger, Lockers
<1>8. Workers'
  BY <1>5, <1>6, <1>7 DEF Workers, Row
<1>9. Books'
  <2>1. Dirty(req[q]) => Dirty(req'[q])
    BY <1>1, <1>3 DEF Dirty, Shape, Fields
  <2>2. ~Working(req'[q]) \/ req'[q].tx.bal = None
    BY <1>1, <1>3 DEF Working, Shape, Fields, Transaction, OrderKept, Ordered, InTx
  <2> QED BY <1>1, <1>2, <2>1, <2>2, BooksStay
<1> QED BY <1>4, <1>8, <1>9 DEF CInv

LEMMA StoreBooks ==
  ASSUME IInv, RInv, CInv, NEW q \in Requests, Store(q)
  PROVE  CInv'
<1> USE DEF Store, Start, Idle, NoTx, ledger, collection, locks, FirstDelivery
<1>1. Shape /\ OrderKept /\ HeldInTx /\ Ledger /\ Workers /\ Books
  BY DEF IInv, CInv
<1>2. DOMAIN req' = Requests /\ \A o \in Requests : o # q => req'[o] = req[o]
  BY <1>1 DEF Shape
<1>3. Row(req[q]) /\ Transaction(q, req[q])
  BY <1>1 DEF Workers
<1>4. Ledger'
  BY <1>1, <1>3 DEF Ledger, Lockers, Row, CollectionStatus
<1>5. Row(req'[q])
  BY <1>1, <1>3 DEF Row, Shape, Fields, Steps, Operations, CollectionStatus, Ledger
<1>6. Transaction(q, req[q])'
  BY <1>1, <1>3, ConstantsAssumption DEF Transaction, Working, Shape, Fields, HeldInTx, Holds, InTx, ConstantsAssumption
<1>7. \A o \in Requests : o # q => Row(req[o])' /\ Transaction(o, req[o])'
  BY <1>1, <1>2, ConstantsAssumption, OthersStay DEF ConstantsAssumption
<1>8. Workers'
  BY <1>5, <1>6, <1>7 DEF Workers, Row
<1>9. Books'
  <2>1. Dirty(req[q]) => Dirty(req'[q])
    BY <1>1, <1>3 DEF Dirty, Shape, Fields
  <2>2. ~Working(req'[q]) \/ req'[q].tx.bal = None
    BY <1>1, <1>3 DEF Working, Shape, Fields, Transaction, OrderKept, Ordered, InTx
  <2> QED BY <1>1, <1>2, <2>1, <2>2, BooksStay
<1> QED BY <1>4, <1>8, <1>9 DEF CInv

LEMMA ReadToRedeemBooks ==
  ASSUME IInv, RInv, CInv, NEW q \in Requests, ReadToRedeem(q)
  PROVE  CInv'
<1> USE DEF ReadToRedeem, Start, Idle, NoTx, ledger, collection, locks
<1>1. Shape /\ OrderKept /\ HeldInTx /\ Ledger /\ Workers /\ Books
  BY DEF IInv, CInv
<1>2. DOMAIN req' = Requests /\ \A o \in Requests : o # q => req'[o] = req[o]
  BY <1>1 DEF Shape
<1>3. Row(req[q]) /\ Transaction(q, req[q])
  BY <1>1 DEF Workers
<1>4. Ledger'
  BY <1>1, <1>3 DEF Ledger, Lockers, Row, CollectionStatus
<1>5. Row(req'[q])
  BY <1>1, <1>3 DEF Row, Shape, Fields, Steps, Operations, CollectionStatus, Ledger
<1>6. Transaction(q, req[q])'
  BY <1>1, <1>3, ConstantsAssumption DEF Transaction, Working, Shape, Fields, HeldInTx, Holds, InTx, ConstantsAssumption
<1>7. \A o \in Requests : o # q => Row(req[o])' /\ Transaction(o, req[o])'
  BY <1>1, <1>2, OthersStay DEF Ledger, Lockers
<1>8. Workers'
  BY <1>5, <1>6, <1>7 DEF Workers, Row
<1>9. Books'
  <2>1. Dirty(req[q]) => Dirty(req'[q])
    BY <1>1, <1>3 DEF Dirty, Shape, Fields
  <2>2. ~Working(req'[q]) \/ req'[q].tx.bal = None
    BY <1>1, <1>3 DEF Working, Shape, Fields, Transaction, OrderKept, Ordered, InTx
  <2> QED BY <1>1, <1>2, <2>1, <2>2, BooksStay
<1> QED BY <1>4, <1>8, <1>9 DEF CInv

LEMMA LockToRedeemBooks ==
  ASSUME IInv, RInv, CInv, NEW q \in Requests, LockToRedeem(q)
  PROVE  CInv'
<1> USE DEF LockToRedeem, Start, Idle, NoTx, ledger, collection, locks, StillDone
<1>1. Shape /\ OrderKept /\ HeldInTx /\ Ledger /\ Workers /\ Books
  BY DEF IInv, CInv
<1>2. DOMAIN req' = Requests /\ \A o \in Requests : o # q => req'[o] = req[o]
  BY <1>1 DEF Shape
<1>3. Row(req[q]) /\ Transaction(q, req[q])
  BY <1>1 DEF Workers
<1>4. Ledger'
  BY <1>1, <1>3 DEF Ledger, Lockers, Row, CollectionStatus
<1>5. Row(req'[q])
  BY <1>1, <1>3 DEF Row, Shape, Fields, Steps, Operations, CollectionStatus, Ledger
<1>6. Transaction(q, req[q])'
  BY <1>1, <1>3, ConstantsAssumption DEF Transaction, Working, Shape, Fields, HeldInTx, Holds, InTx, ConstantsAssumption
<1>7. \A o \in Requests : o # q => Row(req[o])' /\ Transaction(o, req[o])'
  BY <1>1, <1>2, ConstantsAssumption, OthersStay DEF ConstantsAssumption
<1>8. Workers'
  BY <1>5, <1>6, <1>7 DEF Workers, Row
<1>9. Books'
  <2>1. Dirty(req[q]) => Dirty(req'[q])
    BY <1>1, <1>3 DEF Dirty, Shape, Fields
  <2>2. ~Working(req'[q]) \/ req'[q].tx.bal = None
    BY <1>1, <1>3 DEF Working, Shape, Fields, Transaction, OrderKept, Ordered, InTx
  <2> QED BY <1>1, <1>2, <2>1, <2>2, BooksStay
<1> QED BY <1>4, <1>8, <1>9 DEF CInv

LEMMA ReadRefundBooks ==
  ASSUME IInv, RInv, CInv, NEW q \in Requests, NEW i \in Refunds, ReadRefund(q, i)
  PROVE  CInv'
<1> USE DEF ReadRefund, Start, Idle, NoTx, ledger, collection, locks
<1>1. Shape /\ OrderKept /\ HeldInTx /\ Ledger /\ Workers /\ Books
  BY DEF IInv, CInv
<1>2. DOMAIN req' = Requests /\ \A o \in Requests : o # q => req'[o] = req[o]
  BY <1>1 DEF Shape
<1>3. Row(req[q]) /\ Transaction(q, req[q])
  BY <1>1 DEF Workers
<1>4. Ledger'
  BY <1>1, <1>3 DEF Ledger, Lockers, Row, CollectionStatus
<1>5. Row(req'[q])
  BY <1>1, <1>3 DEF Row, Shape, Fields, Steps, Operations, CollectionStatus, Ledger
<1>6. Transaction(q, req[q])'
  BY <1>1, <1>3, ConstantsAssumption DEF Transaction, Working, Shape, Fields, HeldInTx, Holds, InTx, ConstantsAssumption
<1>7. \A o \in Requests : o # q => Row(req[o])' /\ Transaction(o, req[o])'
  BY <1>1, <1>2, OthersStay DEF Ledger, Lockers
<1>8. Workers'
  BY <1>5, <1>6, <1>7 DEF Workers, Row
<1>9. Books'
  <2>1. Dirty(req[q]) => Dirty(req'[q])
    BY <1>1, <1>3 DEF Dirty, Shape, Fields
  <2>2. ~Working(req'[q]) \/ req'[q].tx.bal = None
    BY <1>1, <1>3 DEF Working, Shape, Fields, Transaction, OrderKept, Ordered, InTx
  <2> QED BY <1>1, <1>2, <2>1, <2>2, BooksStay
<1> QED BY <1>4, <1>8, <1>9 DEF CInv

LEMMA CheckRefundBooks ==
  ASSUME IInv, RInv, CInv, NEW q \in Requests, CheckRefund(q)
  PROVE  CInv'
<1> USE DEF CheckRefund, Start, Idle, NoTx, ledger, collection, locks, Delivered
<1>1. Shape /\ OrderKept /\ HeldInTx /\ Ledger /\ Workers /\ Books
  BY DEF IInv, CInv
<1>2. DOMAIN req' = Requests /\ \A o \in Requests : o # q => req'[o] = req[o]
  BY <1>1 DEF Shape
<1>3. Row(req[q]) /\ Transaction(q, req[q])
  BY <1>1 DEF Workers
<1>4. Ledger'
  BY <1>1, <1>3 DEF Ledger, Lockers, Row, CollectionStatus
<1>5. Row(req'[q])
  BY <1>1, <1>3 DEF Row, Shape, Fields, Steps, Operations, CollectionStatus, Ledger
<1>6. Transaction(q, req[q])'
  BY <1>1, <1>3, ConstantsAssumption DEF Transaction, Working, Shape, Fields, HeldInTx, Holds, InTx, ConstantsAssumption
<1>7. \A o \in Requests : o # q => Row(req[o])' /\ Transaction(o, req[o])'
  BY <1>1, <1>2, OthersStay DEF Ledger, Lockers
<1>8. Workers'
  BY <1>5, <1>6, <1>7 DEF Workers, Row
<1>9. Books'
  <2>1. Dirty(req[q]) => Dirty(req'[q])
    BY <1>1, <1>3 DEF Dirty, Shape, Fields
  <2>2. ~Working(req'[q]) \/ req'[q].tx.bal = None
    BY <1>1, <1>3 DEF Working, Shape, Fields, Transaction, OrderKept, Ordered, InTx
  <2> QED BY <1>1, <1>2, <2>1, <2>2, BooksStay
<1> QED BY <1>4, <1>8, <1>9 DEF CInv

LEMMA DeliverRefundBooks ==
  ASSUME IInv, RInv, CInv, NEW q \in Requests, DeliverRefund(q)
  PROVE  CInv'
<1> USE DEF DeliverRefund, Start, Idle, NoTx, ledger, collection, locks
<1>1. Shape /\ OrderKept /\ HeldInTx /\ Ledger /\ Workers /\ Books
  BY DEF IInv, CInv
<1>2. DOMAIN req' = Requests /\ \A o \in Requests : o # q => req'[o] = req[o]
  BY <1>1 DEF Shape
<1>3. Row(req[q]) /\ Transaction(q, req[q])
  BY <1>1 DEF Workers
<1>4. Ledger'
  BY <1>1, <1>3 DEF Ledger, Lockers, Row, CollectionStatus
<1>5. Row(req'[q])
  BY <1>1, <1>3 DEF Row, Shape, Fields, Steps, Operations, CollectionStatus, Ledger
<1>6. Transaction(q, req[q])'
  <2>1. req[q].tx.by = "none" /\ clock # q
    BY <1>1, <1>3 DEF OrderKept, Ordered, TxSteps, InTx, Transaction
  <2>2. req'[q] = Idle
    BY <1>1 DEF Shape
  <2> QED BY <1>3, <2>1, <2>2 DEF Transaction, Working
<1>7. \A o \in Requests : o # q => Row(req[o])' /\ Transaction(o, req[o])'
  BY <1>1, <1>2, OthersStay DEF Ledger, Lockers
<1>8. Workers'
  BY <1>5, <1>6, <1>7 DEF Workers, Row
<1>9. Books'
  <2>1. Dirty(req[q]) => Dirty(req'[q])
    BY <1>1, <1>3 DEF Dirty, Shape, Fields
  <2>2. ~Working(req'[q]) \/ req'[q].tx.bal = None
    BY <1>1, <1>3 DEF Working, Shape, Fields, Transaction, OrderKept, Ordered, InTx
  <2> QED BY <1>1, <1>2, <2>1, <2>2, BooksStay
<1> QED BY <1>4, <1>8, <1>9 DEF CInv

LEMMA ParticipateBooks == ASSUME CInv, Participate PROVE CInv'
<1> USE DEF Participate, ledger, locks
<1>1. Ledger' /\ Workers'
  BY DEF CInv, Ledger, Workers, Row, Transaction, Working
<1>2. Books'
  BY DEF CInv, Books, Bad, Dirty, Balanced, Exact, Working, CreditSum, PayOf
<1> QED BY <1>1, <1>2 DEF CInv

LEMMA AskRefundBooks == ASSUME CInv, NEW i \in Refunds, NEW v \in Values, AskRefund(i, v) PROVE CInv'
<1> USE DEF AskRefund, ledger, collection, locks
<1>1. Ledger' /\ Workers'
  BY DEF CInv, Ledger, Workers, Row, Transaction, Working
<1>2. Books'
  BY DEF CInv, Books, Bad, Dirty, Balanced, Exact, Working, CreditSum, PayOf
<1> QED BY <1>1, <1>2 DEF CInv

(* An item is booked outside of a transaction: it waits for its            *)
(* recalculation.                                                          *)
LEMMA GiveBooks == ASSUME IInv, CInv, NEW q \in Requests, NEW v \in Values, Give(q, v) PROVE CInv'
<1> USE DEF Give, Start, Idle, NoTx, ledger, collection, locks
<1>1. Shape /\ Ledger /\ Workers
  BY DEF IInv, CInv
<1>2. DOMAIN req' = Requests /\ \A o \in Requests : o # q => req'[o] = req[o]
  BY <1>1 DEF Shape
<1>3. Ledger'
  BY <1>1, ValuesAre DEF Ledger
<1>4. Row(req'[q]) /\ Transaction(q, req[q])' /\ Dirty(req'[q])
  BY <1>1 DEF Workers, Row, Transaction, Working, Dirty, Shape, Fields, Steps, Operations
<1>5. \A o \in Requests : o # q => Row(req[o])' /\ Transaction(o, req[o])'
  BY <1>1, <1>2, OthersStay
<1>6. Workers' /\ Books'
  BY <1>4, <1>5 DEF Workers, Row, Books, Dirty
<1> QED BY <1>3, <1>6 DEF CInv

LEMMA InsertRefundBooks == ASSUME IInv, RInv, CInv, NEW q \in Requests, InsertRefund(q) PROVE CInv'
<1> USE DEF InsertRefund, ledger, collection, locks
<1>1. Shape /\ OrderKept /\ Ledger /\ Workers /\ RefundRows /\ Underway(q)
  BY DEF IInv, CInv, RInv
<1>2. DOMAIN req' = Requests /\ \A o \in Requests : o # q => req'[o] = req[o]
  BY <1>1 DEF Shape
<1>3. refund[req[q].ref].value \in Values
  BY <1>1 DEF RefundRows, Underway
<1>4. Ledger'
  BY <1>1, <1>3 DEF Ledger, Bag
<1>5. req[q].tx.by = "none"
  BY <1>1 DEF OrderKept, Ordered, TxSteps, InTx
<1>6. Row(req'[q]) /\ Transaction(q, req[q])' /\ Dirty(req'[q])
  BY <1>1, <1>5 DEF Workers, Row, Transaction, Working, Dirty, Shape, Fields, Steps
<1>7. \A o \in Requests : o # q => Row(req[o])' /\ Transaction(o, req[o])'
  BY <1>1, <1>2, OthersStay
<1>8. Workers' /\ Books'
  BY <1>6, <1>7 DEF Workers, Row, Books, Dirty
<1> QED BY <1>4, <1>8 DEF CInv

LEMMA CrashBooks == ASSUME IInv, CInv, NEW q \in Requests, Crash(q) PROVE CInv'
<1> USE DEF Crash, Gone, Freed, Idle, NoTx, ledger
<1>1. Shape /\ Ledger /\ Workers
  BY DEF IInv, CInv
<1>2. DOMAIN req' = Requests /\ req'[q] = Idle /\ \A o \in Requests : o # q => req'[o] = req[o]
  BY <1>1 DEF Shape
<1>3. Ledger'
  BY <1>1 DEF Ledger, Lockers
<1>4. Row(req'[q]) /\ Transaction(q, req[q])'
  BY <1>1, <1>2, ConstantsAssumption DEF Row, Transaction, Working, Steps, Ledger, ConstantsAssumption
<1>5. \A o \in Requests : o # q => Row(req[o])' /\ Transaction(o, req[o])'
  BY <1>1, <1>2, ConstantsAssumption, OthersStay DEF Ledger, ConstantsAssumption
<1>6. Workers' /\ Books'
  BY <1>1, <1>4, <1>5 DEF Workers, Row, Books, Bad, Ledger
<1> QED BY <1>3, <1>6 DEF CInv

(* Locks are taken, nothing is booked.                                     *)
LEMMA LockRegistrationBooks ==
  ASSUME IInv, CInv, NEW q \in Requests, NEW r \in Regs, LockRegistration(q, r)
  PROVE  CInv'
<1> USE DEF ledger
<1>1. Shape /\ OrderKept /\ Ledger /\ Workers /\ Books
  BY DEF IInv, CInv
<1> DEFINE rem == price[r] - Sum(PayOf(q)[r])
           by == IF req[q].tx.by = "none" THEN "registration" ELSE req[q].tx.by
<1>2. PICK pc \in {"spend", "cut", "next"} :
        /\ req' = [req EXCEPT ![q].pc = pc, ![q].reg = r, ![q].rem = rem,
                              ![q].inner = req[q].inner \ {r}, ![q].todo = req[q].todo \ {r},
                              ![q].tx.by = by]
        /\ pc = "spend" => rem > 0
        /\ pc = "cut" => rem < 0
  <2> DEFINE step == CASE rem > 0 -> "spend" [] rem < 0 -> "cut" [] OTHER -> "next"
  <2>1. step \in {"spend", "cut", "next"} /\ (step = "spend" => rem > 0) /\ (step = "cut" => rem < 0)
    OBVIOUS
  <2>2. req' = [req EXCEPT ![q].pc = step, ![q].reg = r, ![q].rem = rem,
                           ![q].inner = req[q].inner \ {r}, ![q].todo = req[q].todo \ {r},
                           ![q].tx.by = by]
    BY Zenon DEF LockRegistration
  <2> HIDE DEF step
  <2> QED BY <2>1, <2>2
<1>3. rem \in Int /\ (rem > 0 => rem \in Values)
  <2>1. Sum(PayOf(q)[r]) \in Nat
    BY <1>1, PayOfType, SumIsNat
  <2>2. price[r] \in Values \cup {0} /\ Values \subseteq Nat
    BY <1>1, ValuesAre, ConstantsAssumption DEF Ledger, ConstantsAssumption
  <2>3. PICK paid \in Nat : rem = price[r] - paid
    BY <2>1
  <2> HIDE DEF rem
  <2>4. price[r] \in Nat /\ (price[r] # 0 => price[r] \in Values)
    <3>1. price[r] = 0 \/ price[r] \in Values
      BY <2>2
    <3>2. \A v \in Values : v \in Nat
      BY <2>2
    <3> QED BY <3>1, <3>2
  <2>5. rem \in Int /\ (rem > 0 => rem \in 1..price[r] /\ price[r] # 0)
    BY <2>3, <2>4
  <2> QED BY <2>4, <2>5, ValuesAre
<1>4. /\ req[q].pc = "next" /\ rlock[r] \in {None, q} /\ rlock' = [rlock EXCEPT ![r] = q]
      /\ UNCHANGED <<ledger, collection, mlock, clock, price, refund, crashes>>
  BY DEF LockRegistration
<1>5. /\ DOMAIN req' = Requests /\ \A o \in Requests : o # q => req'[o] = req[o]
      /\ req'[q].pc = pc /\ req'[q].reg = r /\ req'[q].rem = rem
      /\ req'[q].inner = req[q].inner \ {r} /\ req'[q].todo = req[q].todo \ {r}
      /\ req'[q].op = req[q].op /\ req'[q].val = req[q].val /\ req'[q].ref = req[q].ref
      /\ req'[q].copy = req[q].copy
      /\ req'[q].tx.by = by /\ req'[q].tx.bal = req[q].tx.bal
      /\ req'[q].tx.pay = req[q].tx.pay /\ req'[q].tx.add = req[q].tx.add
  <2> HIDE DEF rem, by
  <2> QED BY <1>1, <1>2 DEF Shape, Fields
<1>6. Row(req[q]) /\ Transaction(q, req[q])
  BY <1>1 DEF Workers
<1> HIDE DEF rem
<1>7. Ledger'
  BY <1>1, <1>4 DEF Ledger, Lockers, collection
<1>8. Row(req'[q])
  BY <1>2, <1>3, <1>5, <1>6 DEF Row, Steps
<1>9. Transaction(q, req[q])'
  <2>1. rlock'[r] = q /\ mlock' = mlock /\ clock' = clock /\ \A s \in Regs : rlock[s] = q => rlock'[s] = q
    BY <1>1, <1>4 DEF Ledger
  <2>2. by # "none" /\ (by \in {"redeem", "gift"} <=> req[q].tx.by \in {"redeem", "gift"})
    OBVIOUS
  <2>3. req[q].tx.bal = None => DOMAIN req[q].tx.pay = {} /\ req[q].tx.add = 0
    BY <1>4, <1>6 DEF Transaction, Working
  <2> HIDE DEF by
  <2>4. /\ req'[q].tx.bal \in Int \cup {None} /\ req'[q].tx.add \in Nat
        /\ \A s \in DOMAIN req'[q].tx.pay : s \in Regs /\ rlock'[s] = q /\ req'[q].tx.pay[s] \in Bag
    BY <1>5, <1>6, <2>1 DEF Transaction
  <2>5. /\ req'[q].pc \in {"spend", "cut"} => req'[q].reg \in Regs /\ rlock'[req'[q].reg] = q
        /\ req'[q].pc = "spend" => req'[q].rem \in Values
        /\ req'[q].pc = "cut" => req'[q].rem < 0
    BY <1>2, <1>3, <1>5, <2>1
  <2>6. /\ req'[q].tx.bal # None => mlock' = q
        /\ req'[q].tx.by \in {"redeem", "gift"} <=> clock' = q
    BY <1>5, <1>6, <2>1, <2>2 DEF Transaction
  <2> QED BY <1>5, <2>2, <2>3, <2>4, <2>5, <2>6 DEF Transaction, Working
<1>10. \A o \in Requests : o # q => Row(req[o])' /\ Transaction(o, req[o])'
  BY <1>1, <1>4, <1>5, ConstantsAssumption, OthersStay DEF Ledger, ConstantsAssumption
<1>11. Workers'
  BY <1>8, <1>9, <1>10 DEF Workers, Row
<1>12. Books'
  <2>1. ~Dirty(req[q])
    BY <1>4 DEF Dirty
  <2>2. Working(req'[q]) /\ req'[q].tx.bal # None => Working(req[q])
    BY <1>4, <1>5, <1>6 DEF Working, Transaction
  <2> QED BY <1>1, <1>4, <1>5, <2>1, <2>2, BooksStay
<1> QED BY <1>7, <1>11, <1>12 DEF CInv

LEMMA CutBooks == ASSUME IInv, CInv, NEW q \in Requests, Cut(q) PROVE CInv'
<1> USE DEF ledger, locks
<1>1. Shape /\ OrderKept /\ Ledger /\ Workers /\ Books
  BY DEF IInv, CInv
<1>2. Row(req[q]) /\ Transaction(q, req[q])
  BY <1>1 DEF Workers
<1> DEFINE r == req[q].reg
           cut == Reversed(PayOf(q)[r], 0 - req[q].rem)
<1>3. /\ req[q].pc = "cut" /\ UNCHANGED <<ledger, collection, locks, price, refund, crashes>>
      /\ req' = [req EXCEPT ![q].pc = "sum", ![q].rem = 0, ![q].tx.pay = Put(req[q].tx.pay, r, cut)]
  BY DEF Cut
<1>4. r \in Regs /\ rlock[r] = q /\ cut \in Bag
  <2>1. r \in Regs /\ rlock[r] = q /\ 0 - req[q].rem \in Nat
    BY <1>2, <1>3 DEF Transaction, Row
  <2>2. PayOf(q)[r] \in Bag
    BY <1>1, <2>1, PayOfType
  <2> QED BY <2>1, <2>2, ReversedIsBag
<1> HIDE DEF r, cut
<1>5. /\ DOMAIN req' = Requests /\ \A o \in Requests : o # q => req'[o] = req[o]
      /\ req'[q].pc = "sum" /\ req'[q].reg = req[q].reg /\ req'[q].rem = 0
      /\ req'[q].inner = req[q].inner /\ req'[q].todo = req[q].todo
      /\ req'[q].op = req[q].op /\ req'[q].val = req[q].val /\ req'[q].ref = req[q].ref
      /\ req'[q].copy = req[q].copy
      /\ req'[q].tx.by = req[q].tx.by /\ req'[q].tx.bal = req[q].tx.bal
      /\ req'[q].tx.pay = Put(req[q].tx.pay, r, cut) /\ req'[q].tx.add = req[q].tx.add
  BY <1>1, <1>3 DEF Shape, Fields
<1>6. Ledger'
  BY <1>1, <1>3 DEF Ledger, collection
<1>7. Row(req'[q])
  BY <1>2, <1>5 DEF Row, Steps
<1>8. Transaction(q, req[q])'
  <2>1. req[q].tx.by # "none"
    BY <1>1, <1>3 DEF OrderKept, Ordered, InTx
  <2> QED BY <1>2, <1>3, <1>4, <1>5, <2>1 DEF Transaction, Working, Put
<1>9. \A o \in Requests : o # q => Row(req[o])' /\ Transaction(o, req[o])'
  BY <1>1, <1>3, <1>5, OthersStay
<1>10. Workers'
  BY <1>7, <1>8, <1>9 DEF Workers, Row
<1>11. Books'
  BY <1>1, <1>3, <1>5, BooksStay DEF Dirty, Working
<1> QED BY <1>6, <1>10, <1>11 DEF CInv

(* Who writes the balance finds the membership free: nobody else has a     *)
(* balance to spend from.                                                  *)
LEMMA NobodySpends ==
  ASSUME Workers, NEW q \in Requests, MembershipFree(q), NEW o \in Requests, o # q
  PROVE  req[o].tx.bal = None
  BY ConstantsAssumption DEF Workers, Transaction, MembershipFree, ConstantsAssumption

LEMMA WriteBalanceBooks == ASSUME IInv, CInv, NEW q \in Requests, WriteBalance(q) PROVE CInv'
<1> USE DEF locks, collection
<1>1. Shape /\ OrderKept /\ Ledger /\ Workers /\ Books
  BY DEF IInv, CInv
<1>2. Row(req[q]) /\ Transaction(q, req[q])
  BY <1>1 DEF Workers
<1>3. /\ req[q].pc = "write" /\ MembershipFree(q) /\ stale' = (stale \/ req[q].val # CreditSum(q))
      /\ UNCHANGED <<given, delivered, pay, collided, collection, rlock, clock, price, refund, crashes>>
  BY DEF WriteBalance
<1>4. Incomplete(q) \subseteq Regs
  BY DEF Incomplete
<1>5. \A o \in Requests : o # q => req[o].tx.bal = None
  BY <1>1, <1>3, NobodySpends
<1>6. CASE InTx(q)
  <2>1. /\ mlock' = q /\ bal' = bal
        /\ req' = [req EXCEPT ![q].pc = "next", ![q].tx.bal = req[q].val,
                              ![q].inner = Incomplete(q), ![q].val = 0]
    BY <1>6 DEF WriteBalance
  <2>2. /\ DOMAIN req' = Requests /\ \A o \in Requests : o # q => req'[o] = req[o]
        /\ req'[q].pc = "next" /\ req'[q].reg = req[q].reg /\ req'[q].rem = req[q].rem
        /\ req'[q].inner = Incomplete(q) /\ req'[q].todo = req[q].todo
        /\ req'[q].op = req[q].op /\ req'[q].val = 0 /\ req'[q].ref = req[q].ref
        /\ req'[q].copy = req[q].copy
        /\ req'[q].tx.by = req[q].tx.by /\ req'[q].tx.bal = req[q].val
        /\ req'[q].tx.pay = req[q].tx.pay /\ req'[q].tx.add = req[q].tx.add
    BY <1>1, <2>1 DEF Shape, Fields
  <2>3. Ledger'
    BY <1>1, <1>3, <2>1 DEF Ledger, Lockers
  <2>4. Row(req'[q])
    BY <1>2, <1>4, <2>2 DEF Row, Steps
  <2>5. Transaction(q, req[q])'
    BY <1>2, <1>3, <1>6, <2>1, <2>2, ConstantsAssumption DEF Transaction, Working, Row, InTx, ConstantsAssumption
  <2>6. \A o \in Requests : o # q => Row(req[o])' /\ Transaction(o, req[o])'
    BY <1>1, <1>3, <2>1, <2>2, ConstantsAssumption, OthersStay DEF MembershipFree, ConstantsAssumption
  <2>7. Workers'
    BY <2>4, <2>5, <2>6 DEF Workers, Row
  <2>8. Books'
    <3>1. CASE Bad \/ req[q].val # CreditSum(q)
      BY <1>3, <3>1 DEF Books, Bad
    <3>2. CASE \E o \in Requests : Dirty(req[o])
      <4>1. PICK o \in Requests : Dirty(req[o])
        BY <3>2
      <4>2. o # q
        BY <1>6, <4>1 DEF Dirty, InTx
      <4> QED BY <2>2, <4>1, <4>2 DEF Books, Dirty
    <3>3. CASE Balanced /\ req[q].val = CreditSum(q)
      <4>1. Balanced'
        BY <1>3, <2>1, <3>3 DEF Balanced
      <4>2. CreditSum(q)' = CreditSum(q)
        BY <1>3, <2>2 DEF CreditSum, PayOf
      <4>3. \A o \in Requests : Exact(o)'
        BY <1>5, <2>2, <3>3, <4>2 DEF Exact, Working
      <4> QED BY <4>1, <4>3 DEF Books
    <3> QED BY <1>1, <3>1, <3>2, <3>3 DEF Books
  <2> QED BY <2>3, <2>7, <2>8 DEF CInv
<1>7. CASE ~InTx(q)
  <2>1. /\ bal' = req[q].val /\ mlock' = mlock
        /\ req' = [req EXCEPT ![q].pc = "next", ![q].todo = Incomplete(q), ![q].val = 0]
    BY <1>7 DEF WriteBalance
  <2>2. /\ DOMAIN req' = Requests /\ \A o \in Requests : o # q => req'[o] = req[o]
        /\ req'[q].pc = "next" /\ req'[q].reg = req[q].reg /\ req'[q].rem = req[q].rem
        /\ req'[q].inner = req[q].inner /\ req'[q].todo = Incomplete(q)
        /\ req'[q].op = req[q].op /\ req'[q].val = 0 /\ req'[q].ref = req[q].ref
        /\ req'[q].copy = req[q].copy /\ req'[q].tx = req[q].tx
    BY <1>1, <2>1 DEF Shape, Fields
  <2>3. Ledger'
    BY <1>1, <1>2, <1>3, <2>1 DEF Ledger, Row
  <2>4. Row(req'[q])
    BY <1>2, <1>4, <2>2 DEF Row, Steps
  <2>5. Transaction(q, req[q])' /\ req'[q].tx.bal = None
    BY <1>2, <1>3, <1>7, <2>1, <2>2 DEF Transaction, Working, InTx
  <2>6. \A o \in Requests : o # q => Row(req[o])' /\ Transaction(o, req[o])'
    BY <1>1, <1>3, <2>1, <2>2, OthersStay
  <2>7. Workers'
    BY <2>4, <2>5, <2>6 DEF Workers, Row
  <2>8. Books'
    <3>1. CASE Bad \/ req[q].val # CreditSum(q)
      BY <1>3, <3>1 DEF Books, Bad
    <3>2. CASE req[q].val = CreditSum(q)
      <4>1. PayOf(q) = pay /\ req[q].tx.add = 0 /\ given + 0 = given
        BY <1>1, <1>2, <1>7, PayOfType DEF Transaction, InTx, Ledger
      <4>2. CreditSum(q) = given - Used(pay) - Sum(delivered)
        <5>1. given \in Nat /\ Used(pay) \in Nat /\ Sum(delivered) \in Nat
          BY <1>1, UsedIsNat, SumIsNat DEF Ledger
        <5> QED BY <4>1, <5>1 DEF CreditSum
      <4>3. Balanced'
        BY <1>3, <2>1, <3>2, <4>2 DEF Balanced
      <4>4. \A o \in Requests : Exact(o)'
        BY <1>5, <2>2, <2>5 DEF Exact
      <4> QED BY <4>3, <4>4 DEF Books
    <3> QED BY <3>1, <3>2
  <2> QED BY <2>3, <2>7, <2>8 DEF CInv
<1> QED BY <1>6, <1>7

(* The balance pays what it can: as much less of it, as much more used.    *)
LEMMA SpendBooks == ASSUME IInv, CInv, NEW q \in Requests, Spend(q) PROVE CInv'
<1> USE DEF locks, collection
<1>1. Shape /\ OrderKept /\ Ledger /\ Workers /\ Books
  BY DEF IInv, CInv
<1>2. Row(req[q]) /\ Transaction(q, req[q])
  BY <1>1 DEF Workers
<1> DEFINE r   == req[q].reg
           has == BalOf(q)
           use == IF req[q].rem < has THEN req[q].rem ELSE has
           old == PayOf(q)[r]
           new == [old EXCEPT ![use] = 1]
<1>3. /\ req[q].pc = "spend" /\ MembershipFree(q) /\ mlock' = q
      /\ UNCHANGED <<given, delivered, pay, bal, stale, collection, rlock, clock, price, refund, crashes>>
  BY DEF Spend
<1>4. /\ req[q].tx.by # "none" /\ Working(req[q]) /\ ~Dirty(req[q])
      /\ r \in Regs /\ rlock[r] = q /\ req[q].rem \in Values
  BY <1>1, <1>2, <1>3 DEF OrderKept, Ordered, InTx, Working, Dirty, Transaction
<1>5. PayOf(q) \in [Regs -> Bag] /\ old \in Bag /\ has \in Int
  BY <1>1, <1>2, <1>4, PayOfType DEF BalOf, Transaction, Ledger
<1>6. Ledger'
  BY <1>1, <1>3 DEF Ledger, Lockers
<1>7. \A o \in Requests : o # q => req[o].tx.bal = None
  BY <1>1, <1>3, NobodySpends
<1>8. CASE has <= 0
  <2>1. req' = [req EXCEPT ![q].pc = "next", ![q].rem = 0] /\ collided' = collided
    BY <1>8 DEF Spend
  <2>2. /\ DOMAIN req' = Requests /\ \A o \in Requests : o # q => req'[o] = req[o]
        /\ req'[q].pc = "next" /\ req'[q].reg = r /\ req'[q].rem = 0
        /\ req'[q].inner = req[q].inner /\ req'[q].todo = req[q].todo
        /\ req'[q].op = req[q].op /\ req'[q].val = req[q].val /\ req'[q].ref = req[q].ref
        /\ req'[q].copy = req[q].copy /\ req'[q].tx = req[q].tx
    BY <1>1, <2>1 DEF Shape, Fields
  <2>3. Row(req'[q])
    BY <1>2, <2>2 DEF Row, Steps
  <2>4. Transaction(q, req[q])'
    BY <1>2, <1>3, <1>4, <2>2 DEF Transaction, Working
  <2>5. \A o \in Requests : o # q => Row(req[o])' /\ Transaction(o, req[o])'
    BY <1>1, <1>3, <2>2, ConstantsAssumption, OthersStay DEF MembershipFree, ConstantsAssumption
  <2>6. Workers'
    BY <2>3, <2>4, <2>5 DEF Workers, Row
  <2>7. Books'
    BY <1>1, <1>3, <1>4, <2>1, <2>2, BooksStay
  <2> QED BY <1>6, <2>6, <2>7 DEF CInv
<1>9. CASE ~(has <= 0)
  <2>1. /\ req' = [req EXCEPT ![q].pc = "next", ![q].rem = 0, ![q].tx.bal = has - use,
                     ![q].tx.pay = IF old[use] = 0 THEN Put(req[q].tx.pay, r, new) ELSE req[q].tx.pay]
        /\ collided' = (collided \/ old[use] > 0)
    BY <1>9 DEF Spend
  <2>2. use \in Values /\ use \in Int /\ new \in Bag /\ old[use] \in Nat
    <3>1. use \in 1..req[q].rem
      <4>1. req[q].rem \in Nat /\ req[q].rem > 0 /\ has \in Int /\ has > 0
        <5>1. req[q].rem \in Nat /\ req[q].rem > 0
          BY <1>4, ValuesAre
        <5> QED BY <1>5, <1>9, <5>1
      <4> HIDE DEF has
      <4> QED BY <4>1
    <3>2. use \in Values /\ use \in Int
      BY <1>4, <3>1, ValuesAre
    <3> HIDE DEF use, old
    <3> QED BY <1>5, <3>2 DEF Bag
  <2>3. \/ /\ old[use] = 0 /\ Sum(new) = Sum(old) + use
           /\ Used([PayOf(q) EXCEPT ![r] = new]) = Used(PayOf(q)) + use
        \/ old[use] > 0
    <3>1. CASE old[use] = 0
      <4> HIDE DEF use, old
      <4>1. Sum(new) = Sum(old) + use
        BY <1>5, <2>2, <3>1, SumWithOne
      <4>2. Used([PayOf(q) EXCEPT ![r] = new]) = Used(PayOf(q)) - Sum(PayOf(q)[r]) + Sum(new)
        BY <1>4, <1>5, <2>2, UsedChanged
      <4>3. Used(PayOf(q)) \in Nat /\ Sum(old) \in Nat /\ PayOf(q)[r] = old
        BY <1>5, UsedIsNat, SumIsNat DEF old
      <4> QED BY <2>2, <3>1, <4>1, <4>2, <4>3
    <3> QED BY <2>2, <3>1
  <2> HIDE DEF has, use, old, new, r
  <2>4. /\ DOMAIN req' = Requests /\ \A o \in Requests : o # q => req'[o] = req[o]
        /\ req'[q].pc = "next" /\ req'[q].reg = req[q].reg /\ req'[q].rem = 0
        /\ req'[q].inner = req[q].inner /\ req'[q].todo = req[q].todo
        /\ req'[q].op = req[q].op /\ req'[q].val = req[q].val /\ req'[q].ref = req[q].ref
        /\ req'[q].copy = req[q].copy
        /\ req'[q].tx.by = req[q].tx.by /\ req'[q].tx.add = req[q].tx.add
        /\ req'[q].tx.bal = has - use
        /\ req'[q].tx.pay = IF old[use] = 0 THEN Put(req[q].tx.pay, r, new) ELSE req[q].tx.pay
    BY <1>1, <2>1 DEF Shape, Fields
  <2>5. Row(req'[q])
    BY <1>2, <2>4 DEF Row, Steps
  <2>6. has - use \in Int /\ has - use # None
    BY <1>5, <2>2, ConstantsAssumption DEF ConstantsAssumption
  <2>7. Transaction(q, req[q])'
    <3>1. \A s \in DOMAIN req'[q].tx.pay : s \in Regs /\ rlock'[s] = q /\ req'[q].tx.pay[s] \in Bag
      BY <1>2, <1>3, <1>4, <2>2, <2>4 DEF Transaction, Put
    <3> QED BY <1>2, <1>3, <1>4, <2>4, <2>6, <3>1 DEF Transaction, Working
  <2>8. \A o \in Requests : o # q => Row(req[o])' /\ Transaction(o, req[o])'
    BY <1>1, <1>3, <2>4, ConstantsAssumption, OthersStay DEF MembershipFree, ConstantsAssumption
  <2>9. Workers'
    BY <2>5, <2>7, <2>8 DEF Workers, Row
  <2>10. Books'
    <3>1. CASE Bad \/ old[use] > 0
      BY <1>3, <2>1, <3>1 DEF Books, Bad
    <3>2. CASE \E o \in Requests : Dirty(req[o])
      <4>1. PICK o \in Requests : Dirty(req[o])
        BY <3>2
      <4>2. o # q
        BY <1>4, <4>1
      <4> QED BY <2>4, <4>1, <4>2 DEF Books, Dirty
    <3>3. CASE Balanced /\ Exact(q) /\ ~(old[use] > 0)
      <4>1. Balanced'
        BY <1>3, <3>3 DEF Balanced
      <4>2. given \in Nat /\ Used(pay) \in Nat /\ Sum(delivered) \in Nat /\ Used(PayOf(q)) \in Nat
        BY <1>1, <1>5, UsedIsNat, SumIsNat DEF Ledger
      <4>3. has = CreditSum(q)
        <5>1. CASE req[q].tx.bal # None
          BY <1>4, <3>3, <5>1 DEF Exact, BalOf, has
        <5>2. CASE req[q].tx.bal = None
          <6>1. PayOf(q) = pay /\ req[q].tx.add = 0 /\ has = bal
            BY <1>1, <1>2, <1>4, <5>2, PayOfType DEF Transaction, BalOf, has
          <6> QED BY <3>3, <4>2, <6>1 DEF CreditSum, Balanced
        <5> QED BY <5>1, <5>2
      <4>4. old[use] = 0 /\ Used([PayOf(q) EXCEPT ![r] = new]) = Used(PayOf(q)) + use
        BY <2>3, <3>3
      <4>5. PayOf(q)' = [PayOf(q) EXCEPT ![r] = new]
        BY <1>3, <2>4, <4>4 DEF PayOf, Put
      <4>6. CreditSum(q)' = given + req[q].tx.add - (Used(PayOf(q)) + use) - Sum(delivered)
        BY <1>3, <2>4, <4>4, <4>5 DEF CreditSum
      <4>7. req[q].tx.add \in Nat /\ CreditSum(q) = given + req[q].tx.add - Used(PayOf(q)) - Sum(delivered)
        BY <1>2 DEF CreditSum, Transaction
      <4>8. has - use = CreditSum(q)'
        BY <2>2, <4>2, <4>3, <4>6, <4>7
      <4>9. \A o \in Requests : Exact(o)'
        BY <1>7, <2>4, <4>8 DEF Exact
      <4> QED BY <4>1, <4>9 DEF Books
    <3> QED BY <1>1, <3>1, <3>2, <3>3 DEF Books
  <2> QED BY <1>6, <2>9, <2>10 DEF CInv
<1> QED BY <1>8, <1>9

(* What a transaction has spent is booked with the balance it has left.    *)
LEMMA CommitBooks == ASSUME IInv, CInv, NEW q \in Requests, Commit(q) PROVE CInv'
<1> USE DEF locks, collection
<1>1. Shape /\ OrderKept /\ Ledger /\ Workers /\ Books
  BY DEF IInv, CInv
<1>2. Row(req[q]) /\ Transaction(q, req[q])
  BY <1>1 DEF Workers
<1>3. /\ req[q].pc = "next" /\ InTx(q) /\ Freed(q)
      /\ pay' = PayOf(q) /\ bal' = BalOf(q) /\ given' = given + req[q].tx.add
      /\ UNCHANGED <<delivered, stale, collided, invoices, reopened, price, refund, crashes>>
  BY DEF Commit
<1>4. /\ DOMAIN req' = Requests /\ \A o \in Requests : o # q => req'[o] = req[o]
      /\ Row(req'[q]) /\ req'[q].tx = NoTx /\ req'[q].pc \in {"next", "idle"}
      /\ status' \in CollectionStatus /\ gifts' \in Nat /\ credits' \in Nat
  <2>1. CASE req[q].tx.by = "registration"
    <3>1. req' = [req EXCEPT ![q].tx = NoTx, ![q].reg = None] /\ UNCHANGED <<status, gifts, credits>>
      BY <2>1 DEF Commit
    <3>2. /\ DOMAIN req' = Requests /\ \A o \in Requests : o # q => req'[o] = req[o]
          /\ req'[q].pc = req[q].pc /\ req'[q].reg = None /\ req'[q].rem = req[q].rem
          /\ req'[q].inner = req[q].inner /\ req'[q].todo = req[q].todo
          /\ req'[q].op = req[q].op /\ req'[q].val = req[q].val /\ req'[q].ref = req[q].ref
          /\ req'[q].copy = req[q].copy /\ req'[q].tx = NoTx
      BY <1>1, <3>1 DEF Shape, Fields
    <3> QED BY <1>1, <1>2, <1>3, <3>1, <3>2 DEF Row, Ledger
  <2>2. CASE req[q].tx.by # "registration"
    <3>1. /\ req' = [req EXCEPT ![q] = Idle] /\ status' = "payed" /\ credits' = credits + 1
          /\ gifts' = gifts + IF req[q].tx.by = "gift" THEN 1 ELSE 0
      BY <2>2 DEF Commit
    <3> QED BY <1>1, <3>1 DEF Shape, Row, Idle, Steps, Ledger, CollectionStatus
  <2> QED BY <2>1, <2>2
<1>5. PayOf(q) \in [Regs -> Bag] /\ BalOf(q) \in Int
  BY <1>1, <1>2, PayOfType DEF BalOf, Transaction, Ledger
<1>6. Ledger'
  BY <1>1, <1>2, <1>3, <1>4, <1>5 DEF Ledger, Lockers, Freed, Transaction
<1>7. Transaction(q, req[q])'
  BY <1>1, <1>3, <1>4, ConstantsAssumption DEF Transaction, Working, NoTx, Freed, Ledger, ConstantsAssumption
<1>8. \A o \in Requests : o # q => Row(req[o])' /\ Transaction(o, req[o])'
  BY <1>1, <1>3, <1>4, ConstantsAssumption, OthersStay DEF Ledger, Freed, ConstantsAssumption
<1>9. Workers'
  BY <1>4, <1>7, <1>8 DEF Workers, Row
<1>10. Books'
  <2>1. CASE Bad
    BY <1>3, <2>1 DEF Books, Bad
  <2>2. CASE \E o \in Requests : Dirty(req[o])
    <3>1. PICK o \in Requests : Dirty(req[o])
      BY <2>2
    <3>2. o # q
      BY <1>3, <3>1 DEF Dirty
    <3> QED BY <1>4, <3>1, <3>2 DEF Books, Dirty
  <2>3. CASE Balanced /\ \A o \in Requests : Exact(o)
    <3>1. given \in Nat /\ Working(req[q])
      BY <1>1, <1>3 DEF Ledger, Working, InTx
    <3>2. ~Working(req'[q])
      BY <1>4 DEF Working, NoTx
    <3>3. CASE req[q].tx.bal # None
      <4>1. mlock = q /\ \A o \in Requests : o # q => req[o].tx.bal = None
        BY <1>1, <1>2, <3>3 DEF Workers, Transaction
      <4>2. BalOf(q) = CreditSum(q)
        BY <2>3, <3>1, <3>3 DEF Exact, BalOf
      <4>3. Balanced'
        <5>1. CreditSum(q) = given' - Used(pay') - Sum(delivered')
          <6>1. pay' = PayOf(q) /\ given' = given + req[q].tx.add /\ delivered' = delivered
            BY <1>3
          <6>2. /\ given \in Nat /\ req[q].tx.add \in Nat /\ Used(PayOf(q)) \in Nat
                /\ Sum(delivered) \in Nat
            BY <1>1, <1>2, <1>5, UsedIsNat, SumIsNat DEF Ledger, Transaction
          <6> QED BY <6>1, <6>2 DEF CreditSum
        <5>2. bal' = given' - Used(pay') - Sum(delivered')
          BY <1>3, <4>2, <5>1
        <5> QED BY <5>2 DEF Balanced
      <4>4. \A o \in Requests : Exact(o)'
        BY <1>4, <3>2, <4>1 DEF Exact, Working
      <4> QED BY <4>3, <4>4 DEF Books
    <3>4. CASE req[q].tx.bal = None
      <4>1. pay' = pay /\ bal' = bal /\ given' = given
        BY <1>1, <1>2, <1>3, <3>1, <3>4, PayOfType DEF Transaction, BalOf
      <4>2. Balanced'
        BY <1>3, <2>3, <4>1 DEF Balanced
      <4>3. ASSUME NEW o \in Requests PROVE Exact(o)'
        <5>1. CASE o = q
          BY <3>2, <5>1 DEF Exact, Working
        <5>2. CASE o # q
          <6>1. CreditSum(o)' = CreditSum(o) /\ req'[o] = req[o]
            BY <1>3, <1>4, <4>1, <5>2 DEF CreditSum, PayOf
          <6> QED BY <2>3, <6>1 DEF Exact, Working
        <5> QED BY <5>1, <5>2
      <4> QED BY <4>2, <4>3 DEF Books
    <3> QED BY <3>3, <3>4
  <2> QED BY <1>1, <2>1, <2>2, <2>3 DEF Books
<1> QED BY <1>6, <1>9, <1>10 DEF CInv

LEMMA InitCInv == Init => CInv
<1> SUFFICES ASSUME Init PROVE CInv
  OBVIOUS
<1> USE DEF Init
<1>1. NoneOf \in Bag /\ pay \in [Regs -> Bag] /\ Sum(NoneOf) = 0 /\ Used(pay) = 0
  <2>1. NoneOf \in Bag /\ pay = [r \in Regs |-> NoneOf]
    BY DEF NoneOf, Bag
  <2>2. Sum(NoneOf) = 0
    <3> DEFINE f == [v \in Values |-> v * NoneOf[v]]
    <3>1. IsFiniteSet(Values) /\ \A v \in Values : f[v] = 0
      BY ValuesAre DEF NoneOf
    <3> HIDE DEF f
    <3>2. SumFunctionOnSet(f, Values) = 0
      BY <3>1, SumOfZeros
    <3> QED BY <3>2 DEF f, Sum
  <2>3. Used(pay) = 0
    <3> DEFINE f == [r \in Regs |-> Sum(pay[r])]
    <3>1. IsFiniteSet(Regs) /\ \A r \in Regs : f[r] = 0
      BY <2>1, <2>2, ConstantsAssumption DEF ConstantsAssumption
    <3> HIDE DEF f
    <3>2. SumFunctionOnSet(f, Regs) = 0
      BY <3>1, SumOfZeros
    <3> QED BY <3>2 DEF f, Used
  <2> QED BY <2>1, <2>2, <2>3
<1>2. Ledger
  BY <1>1, ConstantsAssumption DEF Ledger, Lockers, CollectionStatus, NoRefund, ConstantsAssumption
<1>3. \A q \in Requests : req[q] = Idle
  OBVIOUS
<1>4. Row(Idle)
  BY DEF Row, Idle, Steps
<1>5. ASSUME NEW q \in Requests PROVE Transaction(q, Idle)
  BY ConstantsAssumption DEF Transaction, Working, Idle, NoTx, ConstantsAssumption
<1>6. Workers
  BY <1>3, <1>4, <1>5 DEF Workers
<1>7. Balanced /\ \A q \in Requests : Exact(q)
  BY <1>1, <1>3 DEF Balanced, Exact, Working, Idle, NoTx
<1> QED BY <1>2, <1>6, <1>7 DEF CInv, Books

LEMMA CInvHolds == Spec => []CInv
<1>1. IInv /\ RInv /\ CInv /\ [Next]_vars => CInv'
  <2> SUFFICES ASSUME IInv, RInv, CInv, [Next]_vars PROVE CInv'
    OBVIOUS
  <2>1. ASSUME NEW q \in Requests, Step(q) PROVE CInv'
    BY <2>1, SumsBooks, WriteBalanceBooks, SpendBooks, CutBooks, CommitBooks, FinishBooks, StoreBooks,
       LockToRedeemBooks, CheckRefundBooks, InsertRefundBooks, DeliverRefundBooks, LockRegistrationBooks DEF Step
  <2>2. ASSUME NEW q \in Requests, Crash(q) \/ ReadToClose(q) \/ ReadForGift(q) \/ ReadToRedeem(q)
        PROVE CInv'
    BY <2>2, CrashBooks, ReadToCloseBooks, ReadForGiftBooks, ReadToRedeemBooks
  <2>3. ASSUME NEW q \in Requests, NEW v \in Values, Give(q, v) PROVE CInv'
    BY <2>3, GiveBooks
  <2>4. ASSUME NEW q \in Requests, NEW r \in Regs, NEW p \in Prices, Save(q, r, p) PROVE CInv'
    BY <2>4, SaveBooks
  <2>5. ASSUME NEW q \in Requests, NEW i \in Refunds, ReadRefund(q, i) PROVE CInv'
    BY <2>5, ReadRefundBooks
  <2>6. ASSUME NEW i \in Refunds, NEW v \in Values, AskRefund(i, v) PROVE CInv'
    BY <2>6, AskRefundBooks
  <2>7. CASE UNCHANGED vars
    <3>1. Ledger' /\ Workers'
      BY <2>7 DEF vars, ledger, collection, locks, CInv, Ledger, Workers, Row, Transaction, Working
    <3>2. Books'
      BY <2>7 DEF vars, ledger, CInv, Books, Bad, Dirty, Balanced, Exact, Working, CreditSum, PayOf
    <3> QED BY <3>1, <3>2 DEF CInv
  <2> QED BY <2>1, <2>2, <2>3, <2>4, <2>5, <2>6, <2>7, ParticipateBooks DEF Next
<1> QED BY <1>1, InitCInv, IInvHolds, RInvHolds, PTL DEF Spec

(* The tables keep their types: payments stay payments when they are cut,  *)
(* and a row is held by a transaction only.                                *)
THEOREM TypesHold == Spec => []TypeOK
<1>1. IInv /\ CInv => TypeOK
  <2> SUFFICES ASSUME IInv, CInv PROVE TypeOK
    OBVIOUS
  <2>1. Shape /\ HeldInTx /\ Ledger /\ Workers
    BY DEF IInv, CInv
  <2>2. ASSUME NEW q \in Requests
        PROVE  /\ [req[q] EXCEPT !.tx = NoTx] \in Rows
               /\ req[q].tx.by \in {"none", "registration", "redeem", "gift"}
               /\ \A r \in DOMAIN req[q].tx.pay : rlock[r] = q /\ req[q].tx.pay[r] \in Bag
    <3>1. [req[q] EXCEPT !.tx = NoTx] \in Rows
      <4> DEFINE w == req[q]
                 n == [w EXCEPT !.tx = NoTx]
      <4>1. DOMAIN w = Fields /\ Row(w)
        BY <2>1 DEF Shape, Workers
      <4> HIDE DEF w
      <4>2. n = [op |-> w.op, pc |-> w.pc, reg |-> w.reg, rem |-> w.rem, val |-> w.val, todo |-> w.todo,
                 inner |-> w.inner, ref |-> w.ref, copy |-> w.copy, tx |-> NoTx]
        BY <4>1 DEF Fields
      <4>3. n \in Rows
        <5> HIDE DEF n
        <5> QED BY <4>1, <4>2 DEF Row, Rows, Steps
      <4> QED BY <4>3 DEF w
    <3> QED BY <2>1, <3>1 DEF Shape, Workers, Transaction
  <2>3. \A h \in ({mlock, clock} \cup {rlock[r] : r \in Regs}) \ {None} : InTx(h)
    BY <2>1 DEF HeldInTx, Holds, Ledger, Lockers
  <2>4. clock # None => req[clock].tx.by \in {"redeem", "gift"}
    BY <2>1 DEF Ledger, Lockers, Workers, Transaction
  <2> QED BY <2>1, <2>2, <2>3, <2>4 DEF TypeOK, Ledger, Shape
<1> QED BY <1>1, IInvHolds, CInvHolds, PTL

(* When nothing is under way the member's balance is what was given and    *)
(* neither used nor delivered, for every number of requests,               *)
(* registrations and refunds, unless a recalculation was overtaken, a      *)
(* debit met an older payment or a request died half way.                  *)
THEOREM BalanceIsLedger == Spec => []BalanceExact
<1>1. CInv => BalanceExact
  <2> SUFFICES ASSUME CInv, Quiet, ~stale, ~collided, crashes = 0 PROVE Balanced
    BY DEF BalanceExact, Balanced
  <2>1. \A q \in Requests : ~Dirty(req[q])
    BY DEF Quiet, Dirty, Idle
  <2> QED BY <2>1 DEF CInv, Books, Bad
<1> QED BY <1>1, CInvHolds, PTL

-----------------------------------------------------------------------------
(* What was paid with credits was there.  Nothing is spent before the      *)
(* balance is locked, only cut.                                            *)
CutOnly(q) ==
  req[q].tx.bal = None => \A r \in DOMAIN req[q].tx.pay : Sum(req[q].tx.pay[r]) <= Sum(pay[r])

(* A balance is not more than what was given and not used: the stored one, *)
(* and the one that a transaction spends from.                             *)
Funded == bal + Used(pay) <= given
FundedIn(q) ==
  Working(req[q]) /\ req[q].tx.bal # None => req[q].tx.bal + Used(PayOf(q)) <= given + req[q].tx.add

(* A transaction that uses more than is booked leaves so much, if it was   *)
(* recalculated, for what was delivered.                                   *)
Covered(q, more) ==
  req[q].tx.bal # None /\ Used(PayOf(q)) > Used(pay) => Used(PayOf(q)) + more <= given + req[q].tx.add
Unsettled == crashes > 0 \/ \E q \in Requests : Dirty(req[q])

Honest ==
  \/ stale \/ collided
  \/ /\ Funded
     /\ \A q \in Requests : FundedIn(q) /\ Covered(q, 0)
     /\ Unsettled \/ \A q \in Requests : Covered(q, Sum(delivered))

SInv == Honest /\ \A q \in Requests : CutOnly(q)

LEMMA OthersSpend ==
  ASSUME NEW o \in Requests, req'[o] = req[o], pay' = pay, given' = given, delivered' = delivered
  PROVE  /\ CutOnly(o) => CutOnly(o)'
         /\ FundedIn(o) => FundedIn(o)'
         /\ Covered(o, 0) => Covered(o, 0)'
         /\ Covered(o, Sum(delivered)) => Covered(o, Sum(delivered))'
<1>1. PayOf(o)' = PayOf(o)
  BY DEF PayOf
<1> QED BY <1>1 DEF CutOnly, FundedIn, Working, Covered

(* Who has no balance has nothing to spend.                                *)
LEMMA NoBalance ==
  ASSUME NEW q \in Requests, req[q].tx.bal = None
  PROVE  FundedIn(q) /\ Covered(q, 0) /\ Covered(q, Sum(delivered))
  BY DEF FundedIn, Covered

(* A step that neither books, spends nor cuts.                             *)
LEMMA SpendingStays ==
  ASSUME SInv, NEW q \in Requests,
         given' = given, delivered' = delivered, pay' = pay, bal' = bal,
         stale' = stale, collided' = collided, crashes' = crashes,
         \A o \in Requests : o # q => req'[o] = req[o],
         Dirty(req[q]) => Dirty(req'[q]),
         \/ req'[q].tx.bal = None /\ DOMAIN req'[q].tx.pay = {}
         \/ /\ req'[q].tx.bal = req[q].tx.bal /\ req'[q].tx.pay = req[q].tx.pay
            /\ req'[q].tx.add = req[q].tx.add
            /\ Working(req'[q]) /\ req[q].tx.bal # None => Working(req[q])
  PROVE  SInv'
<1>1. /\ CutOnly(q) => CutOnly(q)'
      /\ FundedIn(q) => FundedIn(q)'
      /\ Covered(q, 0) => Covered(q, 0)'
      /\ Covered(q, Sum(delivered)) => Covered(q, Sum(delivered))'
  <2>1. CASE req'[q].tx.bal = None /\ DOMAIN req'[q].tx.pay = {}
    BY <2>1 DEF CutOnly, FundedIn, Covered
  <2>2. CASE /\ req'[q].tx.bal = req[q].tx.bal /\ req'[q].tx.pay = req[q].tx.pay
             /\ req'[q].tx.add = req[q].tx.add
             /\ Working(req'[q]) /\ req[q].tx.bal # None => Working(req[q])
    <3>1. PayOf(q)' = PayOf(q)
      BY <2>2 DEF PayOf
    <3>2. Working(req[q])' <=> Working(req'[q])
      BY DEF Working
    <3> QED BY <2>2, <3>1, <3>2 DEF CutOnly, FundedIn, Covered
  <2> QED BY <2>1, <2>2
<1>2. ASSUME NEW o \in Requests
      PROVE  /\ CutOnly(o) => CutOnly(o)'
             /\ FundedIn(o) => FundedIn(o)'
             /\ Covered(o, 0) => Covered(o, 0)'
             /\ Covered(o, Sum(delivered)) => Covered(o, Sum(delivered))'
  BY <1>1, OthersSpend
<1>3. Unsettled => Unsettled'
  BY DEF Unsettled, Dirty
<1>4. Funded => Funded'
  BY DEF Funded
<1>5. Honest'
  BY <1>2, <1>3, <1>4 DEF SInv, Honest
<1> QED BY <1>2, <1>5 DEF SInv

LEMMA SumsSpending == ASSUME IInv, CInv, SInv, NEW q \in Requests, Sums(q) PROVE SInv'
<1> USE DEF Sums, ledger, collection, locks
<1>1. Shape /\ Transaction(q, req[q])
  BY DEF IInv, CInv, Workers
<1>2. \A o \in Requests : o # q => req'[o] = req[o]
  BY <1>1 DEF Shape
<1>3. Dirty(req[q]) => Dirty(req'[q])
  BY <1>1 DEF Dirty, Shape, Fields
<1>4. req'[q].tx = req[q].tx /\ ~Working(req'[q])
  BY <1>1 DEF Working, Shape, Fields
<1> QED BY <1>2, <1>3, <1>4, SpendingStays

LEMMA LockRegistrationSpending ==
  ASSUME IInv, CInv, SInv, NEW q \in Requests, NEW r \in Regs, LockRegistration(q, r)
  PROVE  SInv'
<1> USE DEF LockRegistration, ledger, collection, locks
<1>1. Shape /\ Transaction(q, req[q])
  BY DEF IInv, CInv, Workers
<1>2. \A o \in Requests : o # q => req'[o] = req[o]
  BY <1>1 DEF Shape
<1>3. ~Dirty(req[q])
  BY <1>1 DEF Dirty
<1>4. /\ req'[q].tx.bal = req[q].tx.bal /\ req'[q].tx.pay = req[q].tx.pay
      /\ req'[q].tx.add = req[q].tx.add
  BY <1>1 DEF Shape, Fields
<1>5. req[q].tx.bal # None => Working(req[q])
  BY <1>1 DEF Working, Transaction
<1> QED BY <1>2, <1>3, <1>4, <1>5, SpendingStays

LEMMA SaveSpending == ASSUME IInv, CInv, SInv, NEW q \in Requests, NEW r \in Regs, NEW p \in Prices, Save(q, r, p) PROVE SInv'
<1> USE DEF Save, ledger, collection, locks, Start, Idle, NoTx
<1>1. Shape /\ OrderKept /\ Transaction(q, req[q])
  BY DEF IInv, CInv, Workers
<1>2. \A o \in Requests : o # q => req'[o] = req[o]
  BY <1>1 DEF Shape
<1>3. Dirty(req[q]) => Dirty(req'[q])
  BY <1>1 DEF Dirty, Shape, Fields
<1>4. req'[q].tx.bal = None /\ DOMAIN req'[q].tx.pay = {}
  BY <1>1 DEF Transaction, Shape, Fields, OrderKept, Ordered, TxSteps, InTx
<1> QED BY <1>2, <1>3, <1>4, SpendingStays

LEMMA FinishSpending == ASSUME IInv, CInv, SInv, NEW q \in Requests, Finish(q) PROVE SInv'
<1> USE DEF Finish, ledger, collection, locks, Idle, NoTx
<1>1. Shape /\ OrderKept /\ Transaction(q, req[q])
  BY DEF IInv, CInv, Workers
<1>2. \A o \in Requests : o # q => req'[o] = req[o]
  BY <1>1 DEF Shape
<1>3. Dirty(req[q]) => Dirty(req'[q])
  BY <1>1 DEF Dirty, Shape, Fields
<1>4. req'[q].tx.bal = None /\ DOMAIN req'[q].tx.pay = {}
  BY <1>1 DEF Transaction, Shape, Fields, OrderKept, Ordered, TxSteps, InTx
<1> QED BY <1>2, <1>3, <1>4, SpendingStays

LEMMA ReadToCloseSpending == ASSUME IInv, CInv, SInv, NEW q \in Requests, ReadToClose(q) PROVE SInv'
<1> USE DEF ReadToClose, ledger, collection, locks, Start, Idle, NoTx
<1>1. Shape /\ OrderKept /\ Transaction(q, req[q])
  BY DEF IInv, CInv, Workers
<1>2. \A o \in Requests : o # q => req'[o] = req[o]
  BY <1>1 DEF Shape
<1>3. Dirty(req[q]) => Dirty(req'[q])
  BY <1>1 DEF Dirty, Shape, Fields
<1>4. req'[q].tx.bal = None /\ DOMAIN req'[q].tx.pay = {}
  BY <1>1 DEF Transaction, Shape, Fields, OrderKept, Ordered, TxSteps, InTx
<1> QED BY <1>2, <1>3, <1>4, SpendingStays

LEMMA ReadForGiftSpending == ASSUME IInv, CInv, SInv, NEW q \in Requests, ReadForGift(q) PROVE SInv'
<1> USE DEF ReadForGift, ledger, collection, locks, Start, Idle, NoTx
<1>1. Shape /\ OrderKept /\ Transaction(q, req[q])
  BY DEF IInv, CInv, Workers
<1>2. \A o \in Requests : o # q => req'[o] = req[o]
  BY <1>1 DEF Shape
<1>3. Dirty(req[q]) => Dirty(req'[q])
  BY <1>1 DEF Dirty, Shape, Fields
<1>4. req'[q].tx.bal = None /\ DOMAIN req'[q].tx.pay = {}
  BY <1>1 DEF Transaction, Shape, Fields, OrderKept, Ordered, TxSteps, InTx
<1> QED BY <1>2, <1>3, <1>4, SpendingStays

LEMMA StoreSpending == ASSUME IInv, CInv, SInv, NEW q \in Requests, Store(q) PROVE SInv'
<1> USE DEF Store, ledger, collection, locks, Idle, NoTx, FirstDelivery
<1>1. Shape /\ OrderKept /\ Transaction(q, req[q])
  BY DEF IInv, CInv, Workers
<1>2. \A o \in Requests : o # q => req'[o] = req[o]
  BY <1>1 DEF Shape
<1>3. Dirty(req[q]) => Dirty(req'[q])
  BY <1>1 DEF Dirty, Shape, Fields
<1>4. req'[q].tx.bal = None /\ DOMAIN req'[q].tx.pay = {}
  BY <1>1 DEF Transaction, Shape, Fields, OrderKept, Ordered, TxSteps, InTx
<1> QED BY <1>2, <1>3, <1>4, SpendingStays

LEMMA ReadToRedeemSpending == ASSUME IInv, CInv, SInv, NEW q \in Requests, ReadToRedeem(q) PROVE SInv'
<1> USE DEF ReadToRedeem, ledger, collection, locks, Start, Idle, NoTx
<1>1. Shape /\ OrderKept /\ Transaction(q, req[q])
  BY DEF IInv, CInv, Workers
<1>2. \A o \in Requests : o # q => req'[o] = req[o]
  BY <1>1 DEF Shape
<1>3. Dirty(req[q]) => Dirty(req'[q])
  BY <1>1 DEF Dirty, Shape, Fields
<1>4. req'[q].tx.bal = None /\ DOMAIN req'[q].tx.pay = {}
  BY <1>1 DEF Transaction, Shape, Fields, OrderKept, Ordered, TxSteps, InTx
<1> QED BY <1>2, <1>3, <1>4, SpendingStays

LEMMA LockToRedeemSpending == ASSUME IInv, CInv, SInv, NEW q \in Requests, LockToRedeem(q) PROVE SInv'
<1> USE DEF LockToRedeem, ledger, collection, locks, Idle, NoTx
<1>1. Shape /\ OrderKept /\ Transaction(q, req[q])
  BY DEF IInv, CInv, Workers
<1>2. \A o \in Requests : o # q => req'[o] = req[o]
  BY <1>1 DEF Shape
<1>3. Dirty(req[q]) => Dirty(req'[q])
  BY <1>1 DEF Dirty, Shape, Fields
<1>4. req'[q].tx.bal = None /\ DOMAIN req'[q].tx.pay = {}
  BY <1>1 DEF Transaction, Shape, Fields, OrderKept, Ordered, TxSteps, InTx
<1> QED BY <1>2, <1>3, <1>4, SpendingStays

LEMMA ReadRefundSpending == ASSUME IInv, CInv, SInv, NEW q \in Requests, NEW i \in Refunds, ReadRefund(q, i) PROVE SInv'
<1> USE DEF ReadRefund, ledger, collection, locks, Start, Idle, NoTx
<1>1. Shape /\ OrderKept /\ Transaction(q, req[q])
  BY DEF IInv, CInv, Workers
<1>2. \A o \in Requests : o # q => req'[o] = req[o]
  BY <1>1 DEF Shape
<1>3. Dirty(req[q]) => Dirty(req'[q])
  BY <1>1 DEF Dirty, Shape, Fields
<1>4. req'[q].tx.bal = None /\ DOMAIN req'[q].tx.pay = {}
  BY <1>1 DEF Transaction, Shape, Fields, OrderKept, Ordered, TxSteps, InTx
<1> QED BY <1>2, <1>3, <1>4, SpendingStays

LEMMA CheckRefundSpending == ASSUME IInv, CInv, SInv, NEW q \in Requests, CheckRefund(q) PROVE SInv'
<1> USE DEF CheckRefund, ledger, collection, locks, Idle, NoTx
<1>1. Shape /\ OrderKept /\ Transaction(q, req[q])
  BY DEF IInv, CInv, Workers
<1>2. \A o \in Requests : o # q => req'[o] = req[o]
  BY <1>1 DEF Shape
<1>3. Dirty(req[q]) => Dirty(req'[q])
  BY <1>1 DEF Dirty, Shape, Fields
<1>4. req'[q].tx.bal = None /\ DOMAIN req'[q].tx.pay = {}
  BY <1>1 DEF Transaction, Shape, Fields, OrderKept, Ordered, TxSteps, InTx
<1> QED BY <1>2, <1>3, <1>4, SpendingStays

LEMMA DeliverRefundSpending == ASSUME IInv, CInv, SInv, NEW q \in Requests, DeliverRefund(q) PROVE SInv'
<1> USE DEF DeliverRefund, ledger, collection, locks, Idle, NoTx
<1>1. Shape /\ OrderKept /\ Transaction(q, req[q])
  BY DEF IInv, CInv, Workers
<1>2. \A o \in Requests : o # q => req'[o] = req[o]
  BY <1>1 DEF Shape
<1>3. Dirty(req[q]) => Dirty(req'[q])
  BY <1>1 DEF Dirty, Shape, Fields
<1>4. req'[q].tx.bal = None /\ DOMAIN req'[q].tx.pay = {}
  BY <1>1 DEF Transaction, Shape, Fields, OrderKept, Ordered, TxSteps, InTx
<1> QED BY <1>2, <1>3, <1>4, SpendingStays

LEMMA ParticipateSpending == ASSUME SInv, Participate PROVE SInv'
  BY DEF Participate, ledger, locks, SInv, Honest, Funded, FundedIn, Covered, Unsettled, Dirty, CutOnly, PayOf, Working

LEMMA AskRefundSpending == ASSUME SInv, NEW i \in Refunds, NEW v \in Values, AskRefund(i, v) PROVE SInv'
  BY DEF AskRefund, ledger, collection, locks,
         SInv, Honest, Funded, FundedIn, Covered, Unsettled, Dirty, CutOnly, PayOf, Working

(* More is given: the balance will be recalculated.                        *)
LEMMA GiveSpending == ASSUME IInv, CInv, SInv, NEW q \in Requests, NEW v \in Values, Give(q, v) PROVE SInv'
<1> USE DEF Give, Start, Idle, NoTx, collection, locks
<1>1. Shape /\ Ledger /\ Workers
  BY DEF IInv, CInv
<1>2. /\ \A o \in Requests : o # q => req'[o] = req[o]
      /\ req'[q].tx = NoTx /\ Dirty(req'[q])
  BY <1>1 DEF Shape, Dirty
<1>3. /\ given' = given + v /\ v \in Nat /\ given \in Nat
      /\ UNCHANGED <<delivered, pay, bal, stale, collided, crashes>>
  BY <1>1, ValuesAre DEF Ledger
<1>4. ASSUME NEW o \in Requests
      PROVE  (CutOnly(o) => CutOnly(o)') /\ (FundedIn(o) /\ Covered(o, 0) => FundedIn(o)' /\ Covered(o, 0)')
  <2>1. CASE o = q
    BY <1>2, <2>1 DEF CutOnly, FundedIn, Covered
  <2>2. CASE o # q
    <3>1. req'[o] = req[o] /\ PayOf(o)' = PayOf(o)
      BY <1>2, <1>3, <2>2 DEF PayOf
    <3>2. /\ PayOf(o) \in [Regs -> Bag] /\ req[o].tx.add \in Nat
          /\ req[o].tx.bal # None => req[o].tx.bal \in Int
      BY <1>1, PayOfType DEF Workers, Transaction
    <3>3. Used(PayOf(o)) \in Nat
      BY <3>2, UsedIsNat
    <3>4. CutOnly(o) => CutOnly(o)'
      BY <1>3, <3>1 DEF CutOnly
    <3>5. FundedIn(o) => FundedIn(o)'
      BY <1>3, <3>1, <3>2, <3>3 DEF FundedIn, Working
    <3>6. Covered(o, 0) => Covered(o, 0)'
      BY <1>3, <3>1, <3>2, <3>3 DEF Covered
    <3> QED BY <3>4, <3>5, <3>6
  <2> QED BY <2>1, <2>2
<1>5. Funded => Funded'
  <2>1. Used(pay) \in Nat /\ bal \in Int
    BY <1>1, UsedIsNat DEF Ledger
  <2> QED BY <1>3, <2>1 DEF Funded
<1>6. Unsettled'
  BY <1>2 DEF Unsettled, Dirty
<1>7. Honest'
  BY <1>3, <1>4, <1>5, <1>6 DEF SInv, Honest
<1> QED BY <1>4, <1>7 DEF SInv

LEMMA InsertRefundSpending == ASSUME IInv, CInv, SInv, NEW q \in Requests, InsertRefund(q) PROVE SInv'
<1> USE DEF InsertRefund, collection, locks
<1>1. Shape /\ OrderKept
  BY DEF IInv
<1>2. req[q].tx.by = "none"
  BY <1>1 DEF OrderKept, Ordered, TxSteps, InTx
<1>3. /\ \A o \in Requests : req'[o].tx = req[o].tx /\ (o # q => req'[o] = req[o])
      /\ Dirty(req'[q]) /\ ~Working(req'[q])
  BY <1>1, <1>2 DEF Shape, Fields, Dirty, Working
<1>4. ASSUME NEW o \in Requests
      PROVE  (CutOnly(o) => CutOnly(o)') /\ (FundedIn(o) /\ Covered(o, 0) => FundedIn(o)' /\ Covered(o, 0)')
  <2>1. PayOf(o)' = PayOf(o)
    BY <1>3 DEF PayOf
  <2> QED BY <1>3, <2>1 DEF CutOnly, FundedIn, Covered, Working
<1>5. Unsettled' /\ (Funded => Funded')
  BY <1>3 DEF Unsettled, Dirty, Funded
<1> QED BY <1>4, <1>5 DEF SInv, Honest

LEMMA CrashSpending == ASSUME IInv, CInv, SInv, NEW q \in Requests, Crash(q) PROVE SInv'
<1> USE DEF Crash, Gone, Freed, Idle, NoTx, ledger
<1>1. Shape /\ Ledger
  BY DEF IInv, CInv
<1>2. req'[q].tx = NoTx /\ \A o \in Requests : o # q => req'[o] = req[o]
  BY <1>1 DEF Shape
<1>3. UNCHANGED <<given, delivered, pay, bal, stale, collided>> /\ crashes' = crashes + 1 /\ crashes \in Nat
  BY <1>1 DEF Ledger
<1>4. ASSUME NEW o \in Requests
      PROVE  (CutOnly(o) => CutOnly(o)') /\ (FundedIn(o) /\ Covered(o, 0) => FundedIn(o)' /\ Covered(o, 0)')
  <2>1. CASE o = q
    BY <1>2, <2>1 DEF CutOnly, FundedIn, Covered
  <2>2. CASE o # q
    BY <1>2, <1>3, <2>2, OthersSpend
  <2> QED BY <2>1, <2>2
<1>5. Unsettled' /\ (Funded => Funded')
  BY <1>3 DEF Unsettled, Funded
<1> QED BY <1>3, <1>4, <1>5 DEF SInv, Honest

(* A cut uses less.                                                        *)
LEMMA CutSpending == ASSUME IInv, CInv, SInv, NEW q \in Requests, Cut(q) PROVE SInv'
<1> USE DEF ledger, locks
<1>1. Shape /\ OrderKept /\ Ledger /\ Workers /\ Row(req[q]) /\ Transaction(q, req[q])
  BY DEF IInv, CInv, Workers
<1> DEFINE r == req[q].reg
           cut == Reversed(PayOf(q)[r], 0 - req[q].rem)
<1>2. /\ req[q].pc = "cut" /\ UNCHANGED <<ledger, crashes>>
      /\ req' = [req EXCEPT ![q].pc = "sum", ![q].rem = 0, ![q].tx.pay = Put(req[q].tx.pay, r, cut)]
  BY DEF Cut
<1>3. r \in Regs /\ PayOf(q) \in [Regs -> Bag] /\ cut \in Bag /\ Sum(cut) <= Sum(PayOf(q)[r])
  <2>1. r \in Regs /\ 0 - req[q].rem \in Nat
    BY <1>1, <1>2 DEF Transaction, Row
  <2>2. PayOf(q) \in [Regs -> Bag]
    BY <1>1, PayOfType
  <2> QED BY <2>1, <2>2, ReversedIsBag, ReversedIsLess
<1> HIDE DEF r, cut
<1>4. /\ \A o \in Requests : o # q => req'[o] = req[o]
      /\ req'[q].pc = "sum" /\ req'[q].tx.by = req[q].tx.by /\ req'[q].tx.bal = req[q].tx.bal
      /\ req'[q].tx.pay = Put(req[q].tx.pay, r, cut) /\ req'[q].tx.add = req[q].tx.add
  BY <1>1, <1>2 DEF Shape, Fields
<1>5. PayOf(q)' = [PayOf(q) EXCEPT ![r] = cut] /\ pay' = pay
  <2>1. pay' = pay
    BY <1>2
  <2> DEFINE f == [PayOf(q) EXCEPT ![r] = cut]
  <2>2. \A s \in Regs : PayOf(q)'[s] = f[s]
    BY <1>3, <1>4, <2>1 DEF PayOf, Put
  <2>3. PayOf(q)' = [s \in Regs |-> PayOf(q)'[s]] /\ f = [s \in Regs |-> f[s]]
    BY <1>3 DEF PayOf
  <2> QED BY <2>1, <2>2, <2>3
<1>6. Used([PayOf(q) EXCEPT ![r] = cut]) <= Used(PayOf(q)) /\ Used([PayOf(q) EXCEPT ![r] = cut]) \in Nat
  <2>1. Used([PayOf(q) EXCEPT ![r] = cut]) = Used(PayOf(q)) - Sum(PayOf(q)[r]) + Sum(cut)
    BY <1>3, UsedChanged
  <2>2. /\ Used(PayOf(q)) \in Nat /\ Sum(PayOf(q)[r]) \in Nat /\ Sum(cut) \in Nat
        /\ Used([PayOf(q) EXCEPT ![r] = cut]) \in Nat
    BY <1>3, UsedIsNat, SumIsNat
  <2> QED BY <1>3, <2>1, <2>2
<1>7. /\ Used(PayOf(q)) \in Nat /\ Used(pay) \in Nat /\ Sum(delivered) \in Nat
      /\ given \in Nat /\ req[q].tx.add \in Nat
  BY <1>1, <1>3, UsedIsNat, SumIsNat DEF Ledger, Transaction
<1>8. FundedIn(q)'
  BY <1>4 DEF FundedIn, Working
<1>9. ASSUME NEW m \in Nat, Covered(q, m),
             req[q].tx.bal # None, Used([PayOf(q) EXCEPT ![r] = cut]) > Used(pay)
      PROVE  Used([PayOf(q) EXCEPT ![r] = cut]) + m <= given + req[q].tx.add
  <2>1. Used(PayOf(q)) > Used(pay)
    BY <1>6, <1>7, <1>9
  <2>2. Used(PayOf(q)) + m <= given + req[q].tx.add
    BY <1>9, <2>1 DEF Covered
  <2> QED BY <1>6, <1>7, <2>2
<1>10. (Covered(q, 0) => Covered(q, 0)') /\ (Covered(q, Sum(delivered)) => Covered(q, Sum(delivered))')
  BY <1>2, <1>4, <1>5, <1>7, <1>9 DEF Covered
<1>11. CutOnly(q) => CutOnly(q)'
  <2>1. ASSUME CutOnly(q), req[q].tx.bal = None, NEW s \in DOMAIN req'[q].tx.pay
        PROVE  Sum(req'[q].tx.pay[s]) <= Sum(pay[s])
    <3>1. CASE s # r
      BY <1>4, <2>1, <3>1 DEF CutOnly, Put
    <3>2. CASE s = r
      <4>1. req'[q].tx.pay[s] = cut
        BY <1>4, <3>2 DEF Put
      <4>2. Sum(PayOf(q)[r]) <= Sum(pay[r])
        <5>1. CASE r \in DOMAIN req[q].tx.pay
          BY <1>3, <2>1, <5>1 DEF CutOnly, PayOf
        <5>2. CASE r \notin DOMAIN req[q].tx.pay
          <6>1. PayOf(q)[r] = pay[r] /\ Sum(pay[r]) \in Nat
            BY <1>1, <1>3, <5>2, SumIsNat DEF PayOf, Ledger
          <6> QED BY <6>1
        <5> QED BY <5>1, <5>2
      <4>3. Sum(cut) \in Nat /\ Sum(PayOf(q)[r]) \in Nat /\ Sum(pay[r]) \in Nat
        BY <1>1, <1>3, SumIsNat DEF Ledger
      <4> QED BY <1>3, <3>2, <4>1, <4>2, <4>3
    <3> QED BY <3>1, <3>2
  <2> QED BY <1>4, <1>5, <2>1 DEF CutOnly
<1>12. ASSUME NEW o \in Requests
       PROVE  /\ CutOnly(o) => CutOnly(o)'
              /\ FundedIn(o) => FundedIn(o)'
              /\ Covered(o, 0) => Covered(o, 0)'
              /\ Covered(o, Sum(delivered)) => Covered(o, Sum(delivered))'
  <2>1. CASE o = q
    BY <1>8, <1>10, <1>11, <2>1
  <2>2. CASE o # q
    BY <1>2, <1>4, <2>2, OthersSpend
  <2> QED BY <2>1, <2>2
<1>13. (Unsettled => Unsettled') /\ (Funded => Funded')
  BY <1>2, <1>4 DEF Unsettled, Dirty, Funded
<1>14. Honest'
  BY <1>2, <1>12, <1>13 DEF SInv, Honest
<1> QED BY <1>12, <1>14 DEF SInv

(* A balance that was recalculated is what was given and not used.         *)
LEMMA WriteBalanceSpending == ASSUME IInv, CInv, SInv, NEW q \in Requests, WriteBalance(q) PROVE SInv'
<1> USE DEF locks, collection
<1>1. Shape /\ Ledger /\ Workers /\ Row(req[q]) /\ Transaction(q, req[q])
  BY DEF IInv, CInv, Workers
<1>2. /\ req[q].pc = "write" /\ MembershipFree(q) /\ stale' = (stale \/ req[q].val # CreditSum(q))
      /\ UNCHANGED <<given, delivered, pay, collided, crashes>>
  BY DEF WriteBalance
<1>3. \A o \in Requests : o # q => req[o].tx.bal = None
  BY <1>1, <1>2, NobodySpends
<1>4. /\ given \in Nat /\ Used(pay) \in Nat /\ Used(PayOf(q)) \in Nat /\ Sum(delivered) \in Nat
      /\ req[q].tx.add \in Nat /\ PayOf(q) \in [Regs -> Bag] /\ req[q].val \in Int
      /\ CreditSum(q) = given + req[q].tx.add - Used(PayOf(q)) - Sum(delivered)
  BY <1>1, PayOfType, UsedIsNat, SumIsNat DEF Ledger, Transaction, Row, CreditSum
<1>5. /\ \A o \in Requests : o # q => req'[o] = req[o]
      /\ req'[q].pc = "next" /\ req'[q].tx.by = req[q].tx.by
      /\ req'[q].tx.pay = req[q].tx.pay /\ req'[q].tx.add = req[q].tx.add
      /\ IF InTx(q) THEN bal' = bal /\ req'[q].tx.bal = req[q].val
         ELSE bal' = req[q].val /\ req'[q].tx.bal = req[q].tx.bal
  BY <1>1, <1>2 DEF WriteBalance, Shape, Fields
<1>6. PayOf(q)' = PayOf(q)
  BY <1>2, <1>5 DEF PayOf
<1>7. CutOnly(q)'
  BY <1>1, <1>2, <1>5, ConstantsAssumption DEF SInv, CutOnly, Row, InTx, Transaction, ConstantsAssumption
<1>8. \A o \in Requests : CutOnly(o)'
  BY <1>2, <1>5, <1>7, OthersSpend DEF SInv
<1>9. CASE stale' \/ collided
  BY <1>2, <1>8, <1>9 DEF SInv, Honest
<1>10. CASE ~(stale' \/ collided)
  <2>1. req[q].val = CreditSum(q)
    BY <1>2, <1>10
  <2>2. Funded /\ (\A o \in Requests : FundedIn(o) /\ Covered(o, 0))
        /\ (Unsettled \/ \A o \in Requests : Covered(o, Sum(delivered)))
    BY <1>2, <1>10 DEF SInv, Honest
  <2>3. \A o \in Requests : o # q => FundedIn(o)' /\ Covered(o, 0)' /\ Covered(o, Sum(delivered))'
    BY <1>3, <1>5 DEF FundedIn, Covered
  <2>4. CASE InTx(q)
    <3>1. Funded' /\ (Unsettled => Unsettled')
      BY <1>2, <1>5, <2>2, <2>4 DEF Funded, Unsettled, Dirty, InTx
    <3>2. FundedIn(q)'
      <4>1. req[q].val + Used(PayOf(q)) <= given + req[q].tx.add
        BY <1>4, <2>1
      <4> QED BY <1>2, <1>5, <1>6, <2>4, <4>1 DEF FundedIn
    <3>3. ASSUME NEW m, Covered(q, m), Used(PayOf(q)) > Used(pay)
          PROVE  Used(PayOf(q)) + m <= given + req[q].tx.add
      <4>1. CASE req[q].tx.bal # None
        BY <3>3, <4>1 DEF Covered
      <4>2. CASE req[q].tx.bal = None
        <5>1. \A r \in Regs : Sum(PayOf(q)[r]) <= Sum(pay[r])
          <6>1. CutOnly(q) /\ \A r \in Regs : Sum(pay[r]) \in Nat
            BY <1>1, SumIsNat DEF SInv, Ledger
          <6> QED BY <4>2, <6>1 DEF CutOnly, PayOf
        <5>2. Used(PayOf(q)) <= Used(pay)
          BY <1>1, <1>4, <5>1, UsedAtMost DEF Ledger
        <5> QED BY <1>4, <3>3, <5>2
      <4> QED BY <4>1, <4>2
    <3>4. Covered(q, 0)' /\ (Covered(q, Sum(delivered)) => Covered(q, Sum(delivered))')
      <4>1. Covered(q, 0)'
        BY <1>2, <1>5, <1>6, <2>2, <3>3 DEF Covered
      <4>2. Covered(q, Sum(delivered)) => Covered(q, Sum(delivered))'
        BY <1>2, <1>5, <1>6, <3>3 DEF Covered
      <4> QED BY <4>1, <4>2
    <3>5. Honest'
      BY <2>2, <2>3, <3>1, <3>2, <3>4 DEF Honest
    <3> QED BY <1>8, <3>5 DEF SInv
  <2>5. CASE ~InTx(q)
    <3>1. req[q].tx.bal = None /\ DOMAIN req[q].tx.pay = {} /\ req[q].tx.add = 0 /\ PayOf(q) = pay
      BY <1>1, <2>5, PayOfType DEF InTx, Transaction
    <3>2. Funded'
      <4>1. req[q].val + Used(pay) <= given
        BY <1>4, <2>1, <3>1
      <4> QED BY <1>2, <1>5, <2>5, <4>1 DEF Funded
    <3>3. FundedIn(q)' /\ Covered(q, 0)' /\ Covered(q, Sum(delivered))'
      BY <1>5, <2>5, <3>1 DEF FundedIn, Covered
    <3>4. Honest'
      BY <2>3, <3>2, <3>3 DEF Honest
    <3> QED BY <1>8, <3>4 DEF SInv
  <2> QED BY <2>4, <2>5
<1> QED BY <1>9, <1>10

(* What is spent was in the balance.                                       *)
LEMMA SpendSpending == ASSUME IInv, CInv, SInv, NEW q \in Requests, Spend(q) PROVE SInv'
<1> USE DEF locks, collection
<1>1. /\ Shape /\ OrderKept /\ Ledger /\ Workers /\ Books
      /\ Row(req[q]) /\ Transaction(q, req[q])
  BY DEF IInv, CInv, Workers
<1> DEFINE r   == req[q].reg
           has == BalOf(q)
           use == IF req[q].rem < has THEN req[q].rem ELSE has
           old == PayOf(q)[r]
           new == [old EXCEPT ![use] = 1]
<1>2. /\ req[q].pc = "spend" /\ MembershipFree(q)
      /\ UNCHANGED <<given, delivered, pay, bal, stale, crashes>>
  BY DEF Spend
<1>3. /\ req[q].tx.by # "none" /\ Working(req[q]) /\ ~Dirty(req[q]) /\ r \in Regs /\ req[q].rem \in Values
  BY <1>1, <1>2 DEF OrderKept, Ordered, InTx, Working, Dirty, Transaction
<1>4. PayOf(q) \in [Regs -> Bag] /\ old \in Bag /\ has \in Int
  BY <1>1, <1>3, PayOfType DEF BalOf, Transaction, Ledger
<1>5. CASE has <= 0
  <2>1. req' = [req EXCEPT ![q].pc = "next", ![q].rem = 0] /\ collided' = collided
    BY <1>5 DEF Spend
  <2>2. /\ \A o \in Requests : o # q => req'[o] = req[o]
        /\ req'[q].tx = req[q].tx
    BY <1>1, <2>1 DEF Shape, Fields
  <2> QED BY <1>2, <1>3, <2>1, <2>2, SpendingStays
<1>6. CASE ~(has <= 0)
  <2>1. /\ req' = [req EXCEPT ![q].pc = "next", ![q].rem = 0, ![q].tx.bal = has - use,
                     ![q].tx.pay = IF old[use] = 0 THEN Put(req[q].tx.pay, r, new) ELSE req[q].tx.pay]
        /\ collided' = (collided \/ old[use] > 0)
    BY <1>6 DEF Spend
  <2>2. use \in Values /\ use \in Nat /\ has - use \in Nat /\ new \in Bag /\ old[use] \in Nat
    <3>1. use \in 1..req[q].rem /\ has - use \in Nat
      <4>1. req[q].rem \in Nat /\ req[q].rem > 0 /\ has \in Int /\ has > 0
        <5>1. req[q].rem \in Nat /\ req[q].rem > 0
          BY <1>3, ValuesAre
        <5> QED BY <1>4, <1>6, <5>1
      <4> HIDE DEF has
      <4> QED BY <4>1
    <3>2. use \in Values /\ use \in Nat
      BY <1>3, <3>1, ValuesAre
    <3> HIDE DEF use, old, has
    <3> QED BY <1>4, <3>1, <3>2 DEF Bag
  <2>3. ASSUME old[use] = 0
        PROVE  Used([PayOf(q) EXCEPT ![r] = new]) = Used(PayOf(q)) + use
    <3> HIDE DEF use, old
    <3>1. Sum(new) = Sum(old) + use
      BY <1>4, <2>2, <2>3, SumWithOne
    <3>2. Used([PayOf(q) EXCEPT ![r] = new]) = Used(PayOf(q)) - Sum(PayOf(q)[r]) + Sum(new)
      BY <1>3, <1>4, <2>2, UsedChanged
    <3>3. Used(PayOf(q)) \in Nat /\ Sum(old) \in Nat /\ PayOf(q)[r] = old
      BY <1>4, UsedIsNat, SumIsNat DEF old
    <3> QED BY <2>2, <3>1, <3>2, <3>3
  <2> HIDE DEF has, use, old, new, r
  <2>4. /\ \A o \in Requests : o # q => req'[o] = req[o]
        /\ req'[q].pc = "next" /\ req'[q].tx.by = req[q].tx.by /\ req'[q].tx.add = req[q].tx.add
        /\ req'[q].tx.bal = has - use
        /\ req'[q].tx.pay = IF old[use] = 0 THEN Put(req[q].tx.pay, r, new) ELSE req[q].tx.pay
    BY <1>1, <2>1 DEF Shape, Fields
  <2>5. has - use # None
    BY <2>2, ConstantsAssumption DEF ConstantsAssumption
  <2>6. \A o \in Requests : CutOnly(o)'
    <3>1. CutOnly(q)'
      BY <2>4, <2>5 DEF CutOnly
    <3> QED BY <1>2, <2>4, <3>1, OthersSpend DEF SInv
  <2>7. CASE stale \/ collided'
    BY <1>2, <2>6, <2>7 DEF SInv, Honest
  <2>8. CASE ~(stale \/ collided')
    <3>1. ~stale /\ ~collided /\ old[use] = 0
      <4>1. ~stale /\ ~collided /\ ~(old[use] > 0)
        BY <2>1, <2>8, Zenon
      <4> QED BY <2>2, <4>1
    <3>2. Funded /\ FundedIn(q)
      BY <3>1 DEF SInv, Honest
    <3>3. PayOf(q)' = [PayOf(q) EXCEPT ![r] = new]
      <4> DEFINE f == [PayOf(q) EXCEPT ![r] = new]
      <4>1. \A s \in Regs : PayOf(q)'[s] = f[s]
        BY <1>2, <1>3, <1>4, <2>4, <3>1 DEF PayOf, Put
      <4>2. PayOf(q)' = [s \in Regs |-> PayOf(q)'[s]] /\ f = [s \in Regs |-> f[s]]
        BY <1>4 DEF PayOf
      <4> QED BY <4>1, <4>2
    <3>4. Used(PayOf(q)') = Used(PayOf(q)) + use
      BY <2>3, <3>1, <3>3
    <3>5. /\ given \in Nat /\ Used(pay) \in Nat /\ Sum(delivered) \in Nat /\ Used(PayOf(q)) \in Nat
          /\ req[q].tx.add \in Nat
      BY <1>1, <1>4, UsedIsNat, SumIsNat DEF Ledger, Transaction
    <3>6. has + Used(PayOf(q)) <= given + req[q].tx.add
      <4>1. CASE req[q].tx.bal # None
        BY <1>3, <3>2, <4>1 DEF FundedIn, BalOf, has
      <4>2. CASE req[q].tx.bal = None
        <5>1. PayOf(q) = pay /\ req[q].tx.add = 0 /\ has = bal
          BY <1>1, <1>3, <4>2, PayOfType DEF Transaction, BalOf, has
        <5> QED BY <3>2, <3>5, <5>1 DEF Funded
      <4> QED BY <4>1, <4>2
    <3>7. FundedIn(q)'
      <4>1. has - use + (Used(PayOf(q)) + use) <= given + req[q].tx.add
        BY <1>4, <2>2, <3>5, <3>6
      <4> QED BY <1>2, <2>4, <3>4, <4>1 DEF FundedIn
    <3>8. Covered(q, 0)'
      <4>1. Used(PayOf(q)) + use + 0 <= given + req[q].tx.add
        BY <1>4, <2>2, <3>5, <3>6
      <4> QED BY <1>2, <2>4, <3>4, <4>1 DEF Covered
    <3>9. CASE Unsettled
      <4>1. Unsettled'
        BY <1>2, <1>3, <2>4, <3>9 DEF Unsettled, Dirty
      <4>2. Funded' /\ \A o \in Requests : FundedIn(o)' /\ Covered(o, 0)'
        <5>1. ASSUME NEW o \in Requests, o # q PROVE FundedIn(o)' /\ Covered(o, 0)'
          BY <1>2, <2>4, <3>1, <5>1, OthersSpend DEF SInv, Honest
        <5> QED BY <1>2, <3>2, <3>7, <3>8, <5>1 DEF Funded
      <4> QED BY <2>6, <4>1, <4>2 DEF SInv, Honest
    <3>10. CASE ~Unsettled
      <4>1. Balanced /\ Exact(q)
        BY <1>1, <3>1, <3>10 DEF Books, Bad, Unsettled, Ledger
      <4>2. has + Used(PayOf(q)) + Sum(delivered) = given + req[q].tx.add
        <5>1. CASE req[q].tx.bal # None
          <6>1. has = given + req[q].tx.add - Used(PayOf(q)) - Sum(delivered)
            BY <1>3, <4>1, <5>1 DEF Exact, CreditSum, BalOf, has
          <6> QED BY <1>4, <3>5, <6>1
        <5>2. CASE req[q].tx.bal = None
          <6>1. PayOf(q) = pay /\ req[q].tx.add = 0 /\ has = bal
            BY <1>1, <1>3, <5>2, PayOfType DEF Transaction, BalOf, has
          <6> QED BY <1>4, <3>5, <4>1, <6>1 DEF Balanced
        <5> QED BY <5>1, <5>2
      <4>3. Covered(q, Sum(delivered))'
        <5>1. Used(PayOf(q)) + use + Sum(delivered) <= given + req[q].tx.add
          BY <1>4, <2>2, <3>5, <4>2
        <5> QED BY <1>2, <2>4, <3>4, <5>1 DEF Covered
      <4>4. Funded' /\ \A o \in Requests : FundedIn(o)' /\ Covered(o, 0)' /\ Covered(o, Sum(delivered))'
        <5>1. ASSUME NEW o \in Requests, o # q
              PROVE  FundedIn(o)' /\ Covered(o, 0)' /\ Covered(o, Sum(delivered))'
          BY <1>2, <2>4, <3>1, <3>10, <5>1, OthersSpend DEF SInv, Honest
        <5> QED BY <1>2, <3>2, <3>7, <3>8, <4>3, <5>1 DEF Funded
      <4> QED BY <2>6, <4>4 DEF SInv, Honest
    <3> QED BY <3>9, <3>10
  <2> QED BY <1>2, <2>7, <2>8
<1> QED BY <1>5, <1>6

(* What a transaction has spent is booked.                                 *)
LEMMA CommitSpending == ASSUME IInv, CInv, SInv, NEW q \in Requests, Commit(q) PROVE SInv'
<1> USE DEF locks, collection
<1>1. /\ Shape /\ OrderKept /\ Ledger /\ Workers /\ Row(req[q]) /\ Transaction(q, req[q])
  BY DEF IInv, CInv, Workers
<1>2. /\ req[q].pc = "next" /\ InTx(q) /\ Working(req[q])
      /\ pay' = PayOf(q) /\ bal' = BalOf(q) /\ given' = given + req[q].tx.add
      /\ UNCHANGED <<delivered, stale, collided, crashes>>
  BY DEF Commit, InTx, Working
<1>3. (\A o \in Requests : o # q => req'[o] = req[o]) /\ req'[q].tx = NoTx
  <2>1. CASE req[q].tx.by = "registration"
    BY <1>1, <2>1 DEF Commit, Shape, Fields
  <2>2. CASE req[q].tx.by # "registration"
    <3>1. req' = [req EXCEPT ![q] = Idle]
      BY <2>2 DEF Commit
    <3> QED BY <1>1, <3>1 DEF Shape, Idle
  <2> QED BY <2>1, <2>2
<1>4. /\ given \in Nat /\ Used(pay) \in Nat /\ Used(PayOf(q)) \in Nat /\ Sum(delivered) \in Nat
      /\ req[q].tx.add \in Nat /\ PayOf(q) \in [Regs -> Bag]
  BY <1>1, PayOfType, UsedIsNat, SumIsNat DEF Ledger, Transaction
<1>5. ASSUME NEW o \in Requests PROVE CutOnly(o)'
  <2>1. CASE o = q
    BY <1>3, <2>1 DEF CutOnly, NoTx
  <2>2. CASE o # q
    <3>1. CutOnly(o) /\ Transaction(o, req[o]) /\ req'[o] = req[o]
      BY <1>1, <1>3, <2>2 DEF SInv, Workers
    <3>2. \A r \in DOMAIN req[o].tx.pay : r \in Regs /\ r \notin DOMAIN req[q].tx.pay
      BY <1>1, <2>2, <3>1 DEF Transaction
    <3>3. \A r \in DOMAIN req[o].tx.pay : pay'[r] = pay[r]
      BY <1>2, <3>2 DEF PayOf
    <3> QED BY <3>1, <3>3 DEF CutOnly
  <2> QED BY <2>1, <2>2
<1>6. CASE stale \/ collided
  BY <1>2, <1>5, <1>6 DEF SInv, Honest
<1>7. CASE ~(stale \/ collided)
  <2>1. /\ Funded /\ \A o \in Requests : FundedIn(o) /\ Covered(o, 0)
        /\ Unsettled \/ \A p \in Requests : Covered(p, Sum(delivered))
    BY <1>7 DEF SInv, Honest
  <2>2. Unsettled => Unsettled'
    <3>1. ~Dirty(req[q])
      BY <1>2 DEF Dirty
    <3> QED BY <1>2, <1>3, <3>1 DEF Unsettled, Dirty
  <2>3. FundedIn(q)' /\ Covered(q, 0)' /\ Covered(q, Sum(delivered))'
    BY <1>3 DEF FundedIn, Covered, NoTx
  <2>4. CASE req[q].tx.bal = None
    <3>1. UNCHANGED <<pay, bal, given>>
      BY <1>1, <1>2, <1>4, <2>4, PayOfType DEF Transaction, BalOf
    <3>2. ASSUME NEW o \in Requests, o # q
          PROVE  /\ FundedIn(o)' /\ Covered(o, 0)'
                 /\ Covered(o, Sum(delivered)) => Covered(o, Sum(delivered))'
      BY <1>2, <1>3, <2>1, <3>1, <3>2, OthersSpend
    <3>3. Funded'
      BY <2>1, <3>1 DEF Funded
    <3>4. Honest'
      BY <2>1, <2>2, <2>3, <3>2, <3>3 DEF Honest
    <3> QED BY <1>5, <3>4 DEF SInv
  <2>5. CASE req[q].tx.bal # None
    <3>1. ASSUME NEW o \in Requests, o # q
          PROVE  FundedIn(o)' /\ Covered(o, 0)' /\ Covered(o, Sum(delivered))'
      <4>1. req[o].tx.bal = None
        BY <1>1, <2>5, <3>1 DEF Workers, Transaction
      <4> QED BY <1>3, <3>1, <4>1 DEF FundedIn, Covered
    <3>2. Funded'
      <4>1. req[q].tx.bal + Used(PayOf(q)) <= given + req[q].tx.add
        BY <1>2, <2>1, <2>5 DEF FundedIn
      <4> QED BY <1>2, <2>5, <4>1 DEF Funded, BalOf
    <3>3. Honest'
      BY <2>3, <3>1, <3>2 DEF Honest
    <3> QED BY <1>5, <3>3 DEF SInv
  <2> QED BY <2>4, <2>5
<1> QED BY <1>6, <1>7

LEMMA InitSInv == Init => SInv
<1> SUFFICES ASSUME Init PROVE SInv
  OBVIOUS
<1>1. pay \in [Regs -> Bag] /\ \A r \in Regs : pay[r] = NoneOf
  BY DEF Init, NoneOf, Bag
<1>2. Used(pay) = 0
  <2> DEFINE f == [r \in Regs |-> Sum(pay[r])]
             g == [v \in Values |-> v * NoneOf[v]]
  <2>1. \A v \in Values : g[v] = 0
    BY ValuesAre DEF NoneOf
  <2>2. IsFiniteSet(Values) /\ IsFiniteSet(Regs)
    BY ConstantsAssumption DEF ConstantsAssumption
  <2>3. Sum(NoneOf) = SumFunctionOnSet(g, Values)
    BY DEF Sum
  <2> HIDE DEF g
  <2>4. Sum(NoneOf) = 0
    BY <2>1, <2>2, <2>3, SumOfZeros
  <2>5. \A r \in Regs : f[r] = 0
    BY <1>1, <2>4
  <2>6. Used(pay) = SumFunctionOnSet(f, Regs)
    BY DEF Used
  <2> HIDE DEF f
  <2> QED BY <2>2, <2>5, <2>6, SumOfZeros
<1>3. \A q \in Requests : req[q].tx.bal = None /\ DOMAIN req[q].tx.pay = {}
  BY DEF Init, Idle, NoTx
<1>4. Funded
  BY <1>2 DEF Funded, Init
<1>5. Honest
  BY <1>3, <1>4, NoBalance DEF Honest
<1> QED BY <1>3, <1>5 DEF SInv, CutOnly

LEMMA SInvHolds == Spec => []SInv
<1>1. IInv /\ CInv /\ SInv /\ [Next]_vars => SInv'
  <2> SUFFICES ASSUME IInv, CInv, SInv, [Next]_vars PROVE SInv'
    OBVIOUS
  <2>1. ASSUME NEW q \in Requests, Step(q) PROVE SInv'
    BY <2>1, SumsSpending, WriteBalanceSpending, SpendSpending, CutSpending, CommitSpending,
       FinishSpending, StoreSpending, LockToRedeemSpending, CheckRefundSpending,
       InsertRefundSpending, DeliverRefundSpending, LockRegistrationSpending DEF Step
  <2>2. ASSUME NEW q \in Requests, Crash(q) \/ ReadToClose(q) \/ ReadForGift(q) \/ ReadToRedeem(q)
        PROVE SInv'
    BY <2>2, CrashSpending, ReadToCloseSpending, ReadForGiftSpending, ReadToRedeemSpending
  <2>3. ASSUME NEW q \in Requests, NEW v \in Values, Give(q, v) PROVE SInv'
    BY <2>3, GiveSpending
  <2>4. ASSUME NEW q \in Requests, NEW r \in Regs, NEW p \in Prices, Save(q, r, p) PROVE SInv'
    BY <2>4, SaveSpending
  <2>5. ASSUME NEW q \in Requests, NEW i \in Refunds, ReadRefund(q, i) PROVE SInv'
    BY <2>5, ReadRefundSpending
  <2>6. ASSUME NEW i \in Refunds, NEW v \in Values, AskRefund(i, v) PROVE SInv'
    BY <2>6, AskRefundSpending
  <2>7. CASE UNCHANGED vars
    BY <2>7 DEF vars, ledger, SInv, Honest, Funded, FundedIn, Covered, Unsettled, Dirty, CutOnly,
                PayOf, Working
  <2> QED BY <2>1, <2>2, <2>3, <2>4, <2>5, <2>6, <2>7, ParticipateSpending DEF Next
<1> QED BY <1>1, InitSInv, IInvHolds, CInvHolds, PTL DEF Spec

(* Only the end of a transaction books what was used.                      *)
LEMMA CommitUsesWhatIsThere ==
  ASSUME CInv, SInv, NEW q \in Requests, Commit(q), Used(pay') > Used(pay)
  PROVE  stale' \/ collided' \/ Used(pay') + (IF Pending THEN 0 ELSE Sum(delivered')) <= given'
<1>1. /\ Ledger /\ Workers /\ Transaction(q, req[q])
  BY DEF CInv, Workers
<1>2. /\ InTx(q) /\ req[q].pc = "next" /\ pay' = PayOf(q) /\ given' = given + req[q].tx.add
      /\ UNCHANGED <<delivered, stale, collided>>
  BY DEF Commit
<1>3. req[q].tx.bal # None
  <2>1. CASE req[q].tx.bal = None
    <3>1. pay' = pay
      BY <1>1, <1>2, <2>1, PayOfType DEF Transaction, Working, InTx
    <3> QED BY <1>1, <3>1, UsedIsNat DEF Ledger
  <2> QED BY <2>1
<1>4. CASE stale \/ collided
  BY <1>2, <1>4
<1>5. CASE ~(stale \/ collided)
  <2>1. Covered(q, 0) /\ (Unsettled \/ Covered(q, Sum(delivered)))
    BY <1>5 DEF SInv, Honest
  <2>2. Used(PayOf(q)) + 0 <= given + req[q].tx.add
    BY <1>2, <1>3, <2>1 DEF Covered
  <2>3. Unsettled => Pending
    BY DEF Unsettled, Pending, Dirty
  <2>4. ~Pending => Used(PayOf(q)) + Sum(delivered) <= given + req[q].tx.add
    BY <1>2, <1>3, <2>1, <2>3 DEF Covered
  <2> QED BY <1>2, <2>2, <2>4
<1> QED BY <1>4, <1>5

(* What is paid with credits was there: two requests never spend the same  *)
(* balance (registration_tokens_credits_use locks the membership and reads *)
(* it again), unless a recalculation was overtaken.                        *)
THEOREM BalanceSpentOnce == Spec => SpendsWhatIsThere
<1> DEFINE Sound == Used(pay') > Used(pay) =>
                      \/ stale' \/ collided'
                      \/ Used(pay') + (IF Pending THEN 0 ELSE Sum(delivered')) <= given'
<1>1. CInv /\ SInv /\ [Next]_vars => [Sound]_vars
  <2> SUFFICES ASSUME CInv, SInv, [Next]_vars, Used(pay') > Used(pay) PROVE Sound
    OBVIOUS
  <2>1. pay' # pay
    <3>1. Used(pay) \in Nat
      BY UsedIsNat DEF CInv, Ledger
    <3> QED BY <3>1
  <2>2. PICK q \in Requests : Commit(q)
    <3>1. ASSUME NEW q \in Requests, Step(q), ~Commit(q) PROVE pay' = pay
      <4> USE DEF ledger
      <4>1. Sums(q) \/ WriteBalance(q) \/ Spend(q) \/ Cut(q) \/ Finish(q) => pay' = pay
        BY DEF Sums, WriteBalance, Spend, Cut, Finish
      <4>2. Store(q) \/ LockToRedeem(q) \/ CheckRefund(q) => pay' = pay
        BY DEF Store, LockToRedeem, CheckRefund
      <4>3. InsertRefund(q) \/ DeliverRefund(q) => pay' = pay
        BY DEF InsertRefund, DeliverRefund
      <4>4. ASSUME NEW r \in Regs, LockRegistration(q, r) PROVE pay' = pay
        BY <4>4 DEF LockRegistration
      <4> QED BY <3>1, <4>1, <4>2, <4>3, <4>4 DEF Step
    <3>2. ASSUME NEW q \in Requests, Crash(q) \/ ReadToClose(q) \/ ReadForGift(q) \/ ReadToRedeem(q)
          PROVE  pay' = pay
      BY <3>2 DEF ledger, Crash, Gone, ReadToClose, ReadForGift, ReadToRedeem
    <3>3. ASSUME NEW q \in Requests, NEW v \in Values, Give(q, v) PROVE pay' = pay
      BY <3>3 DEF Give
    <3>4. ASSUME NEW q \in Requests, NEW r \in Regs, NEW p \in Prices, Save(q, r, p) PROVE pay' = pay
      BY <3>4 DEF Save, ledger
    <3>5. ASSUME NEW q \in Requests, NEW i \in Refunds, ReadRefund(q, i) PROVE pay' = pay
      BY <3>5 DEF ReadRefund, ledger
    <3>6. ASSUME NEW i \in Refunds, NEW v \in Values, AskRefund(i, v) PROVE pay' = pay
      BY <3>6 DEF AskRefund, ledger
    <3>7. Participate \/ UNCHANGED vars => pay' = pay
      BY DEF Participate, vars, ledger
    <3> QED BY <2>1, <3>1, <3>2, <3>3, <3>4, <3>5, <3>6, <3>7 DEF Next
  <2> QED BY <2>2, CommitUsesWhatIsThere
<1> QED BY <1>1, SInvHolds, CInvHolds, PTL DEF Spec, SpendsWhatIsThere

=============================================================================
