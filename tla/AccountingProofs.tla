-------------------------- MODULE AccountingProofs --------------------------
(***************************************************************************)
(* The proofs of the two modules of the money of a registration.           *)
(*                                                                         *)
(* PaymentInvoice, for every number of requests, invoices and checkouts:   *)
(* IInv, with what follows from it, is inductive.                          *)
(*                                                                         *)
(* RegistrationAccounting, for every price, amount and number of           *)
(* registrations and payments, and however deep saves may nest: what every *)
(* save keeps (Contract) is proved by induction over the depth, what a     *)
(* request keeps (AccountsInvariant) from that.                            *)
(***************************************************************************)
EXTENDS PaymentInvoice, RegistrationAccounting, SumLemmas, SequenceTheorems


\* The variables that most steps leave alone.
USE DEF gateways, watch

LEMMA RowFields ==
  ASSUME NEW r \in Row, NEW s \in Statuses, NEW n \in Nat
  PROVE  /\ WithStatus(r, s) \in Row /\ WithStatus(r, s).status = s /\ WithStatus(r, s).gross = r.gross
         /\ WithCod(r, n) \in Row /\ WithCod(r, n).status = r.status
         /\ Received(r, n) \in Row /\ Received(r, n).status = "checked"
  BY DEF Row, Statuses, Alive, Paid, WithStatus, WithCod, Received

LEMMA TaskFields ==
  ASSUME NEW op \in Operations, NEW pc \in Stages, NEW i \in Invoices, NEW r \in Row
  PROVE  /\ Task(op, pc, i, r) \in Local
         /\ Task(op, pc, i, r).pc = pc /\ Task(op, pc, i, r).inv = i /\ Task(op, pc, i, r).copy = r
  BY DEF Task, Local

LEMMA IdleFields == Idle \in Local /\ Idle.pc = "idle" /\ Blank \in Row
  BY DEF Idle, Local, Stages, Operations, Blank, Row, Statuses, Targets, Slugs

LEMMA InquiryFields ==
  ASSUME row \in [Invoices -> Row], NEW op \in Operations, NEW pc \in Stages, NEW i \in Invoices, NEW n \in Nat
  PROVE  Inquiry(op, pc, i, n) \in Local /\ Inquiry(op, pc, i, n).pc = pc /\ Inquiry(op, pc, i, n).inv = i
  BY IdleFields DEF Inquiry, Local, Row

LEMMA AtFields ==
  ASSUME NEW q \in Requests, req[q] \in Local, NEW pc \in Stages
  PROVE  /\ At(q, pc) \in Local /\ At(q, pc).pc = pc
         /\ At(q, pc).inv = req[q].inv /\ At(q, pc).copy = req[q].copy
  BY DEF At, Local

LEMMA AnsweredFields ==
  ASSUME NEW q \in Requests, req[q] \in Local, NEW n \in Nat
  PROVE  Answered(q, n) \in Local /\ Answered(q, n).pc = "money" /\ Answered(q, n).inv = req[q].inv
  BY DEF Answered, Local, Stages

LEMMA ReadFields ==
  ASSUME NEW q \in Requests, req[q] \in Local, NEW pc \in Stages, NEW new \in BOOLEAN, NEW n \in Nat
  PROVE  /\ HasRead(q, pc, new, n) \in Local /\ HasRead(q, pc, new, n).pc = pc
         /\ HasRead(q, pc, new, n).inv = req[q].inv /\ HasRead(q, pc, new, n).copy = req[q].copy
         /\ HasRead(q, pc, new, n).fresh = new /\ HasRead(q, pc, new, n).seen = n /\ HasRead(q, pc, new, n).split = 0
  BY DEF HasRead, Local

LEMMA SplitFields ==
  ASSUME NEW q \in Requests, req[q] \in Local, NEW n \in Nat
  PROVE  /\ Split(q, n) \in Local /\ Split(q, n).pc = "commit"
         /\ Split(q, n).inv = req[q].inv /\ Split(q, n).copy = req[q].copy
         /\ Split(q, n).fresh = req[q].fresh /\ Split(q, n).seen = req[q].seen /\ Split(q, n).split = n
  BY DEF Split, Local, Stages

LEMMA CopiedFields ==
  ASSUME num \in [Regs -> Nat], NEW r \in Regs
  PROVE  /\ Copied(r) \in Local /\ Copied(r).pc = "edit" /\ Copied(r).copy.to = r
         /\ Copied(r).seen = num[r]
<1>1. [Blank EXCEPT !.to = r] \in Row /\ [Blank EXCEPT !.to = r].to = r
  BY IdleFields DEF Row, Targets
<1>2. Copied(r) = [Idle EXCEPT !.pc = "edit", !.op = "edit", !.copy = [Blank EXCEPT !.to = r], !.seen = num[r]]
  BY DEF Copied, Idle
<1> QED
  BY <1>1, <1>2, IdleFields DEF Local, Stages, Operations

LEMMA InitIInv == Init => IInv
<1> SUFFICES ASSUME Init PROVE IInv
  OBVIOUS
<1>1. TablesOK /\ RequestsOK
  BY IdleFields DEF Init, TablesOK, RequestsOK
<1>2. AccountsOK
  BY DEF Init, AccountsOK
<1>3. PaidIsCredited
  BY DEF Init, PaidIsCredited, Blank, Paid
<1>4. LockHeld /\ CopyStatus /\ ReadsHold
  BY IdleFields DEF Init, LockHeld, CopyStatus, ReadsHold
<1> QED
  BY <1>1, <1>2, <1>3, <1>4 DEF IInv, TypeOK

-----------------------------------------------------------------------------
(* One request changing its local state only. *)

LEMMA Moved ==
  ASSUME RequestsOK, NEW q \in Requests, NEW l \in Local,
         l.pc \notin {"idle", "edit"} => l.inv \in Invoices, l.pc = "edit" => l.copy.to \in Regs,
         req' = [req EXCEPT ![q] = l]
  PROVE  RequestsOK' /\ req'[q] = l /\ \A p \in Requests \ {q} : req'[p] = req[p]
  BY DEF RequestsOK

\* A step that leaves the rows, their locks and their items alone, and does
\* not bring the request to the part of a save that relies on them.
LEMMA LocalStep ==
  ASSUME IInv, NEW q \in Requests, NEW l \in Local,
         l.pc \notin {"idle", "edit"} => l.inv \in Invoices, l.pc = "edit" => l.copy.to \in Regs,
         req' = [req EXCEPT ![q] = l],
         UNCHANGED <<row, lock, item>>, AccountsOK',
         l.pc \notin {"process", "fee", "commit", "write"},
         l.pc \in {"form", "gateway", "store"} => l.copy.status \in {"created", "submitted"}
  PROVE  IInv'
<1>1. RequestsOK' /\ req'[q] = l /\ \A p \in Requests \ {q} : req'[p] = req[p]
  BY Moved DEF IInv, TypeOK
<1>2. TypeOK'
  BY <1>1 DEF IInv, TypeOK, TablesOK
<1>3. PaidIsCredited'
  BY DEF IInv, PaidIsCredited
<1>4. LockHeld'
  BY <1>1 DEF IInv, LockHeld
<1>5. CopyStatus'
  BY <1>1 DEF IInv, CopyStatus
<1>6. ReadsHold'
  BY <1>1 DEF IInv, ReadsHold
<1> QED
  BY <1>2, <1>3, <1>4, <1>5, <1>6 DEF IInv

LEMMA BeginForm ==
  ASSUME IInv, NEW q \in Requests, NEW i \in Invoices, NEW t \in Pages, NEW g \in Grosses, NEW m \in Methods,
         OpenForm(q, i, t, g, m)
  PROVE  IInv'
<1> DEFINE c == [status |-> "created", to |-> t, key |-> Key(t), method |-> m, gross |-> g, cod |-> row[i].cod]
<1>1. c \in Row /\ c.status = "created"
  BY ConstantsAssumption DEF IInv, TypeOK, TablesOK, AccountsOK, Row, Statuses, Alive, Key
<1>2. AccountsOK'
  BY DEF OpenForm, IInv, TypeOK, AccountsOK
<1>3. req' = [req EXCEPT ![q] = Task("form", "form", i, c)] /\ UNCHANGED <<row, lock, item>>
  BY DEF OpenForm, Start
<1> HIDE DEF c
<1>4. /\ Task("form", "form", i, c) \in Local /\ Task("form", "form", i, c).pc = "form"
      /\ Task("form", "form", i, c).inv = i /\ Task("form", "form", i, c).copy = c
  BY <1>1, TaskFields DEF Operations, Stages
<1> QED
  BY <1>1, <1>2, <1>3, <1>4, LocalStep

LEMMA BeginWithCopy ==
  ASSUME IInv, NEW q \in Requests, NEW i \in Invoices,
         Submit(q, i) \/ TreasurerConfirms(q, i) \/ OrganizerConfirms(q, i)
  PROVE  IInv'
<1>1. PICK op \in Operations, pc \in {"store", "save"}, s \in {"submitted", "confirmed"} :
        /\ req' = [req EXCEPT ![q] = Task(op, pc, i, WithStatus(row[i], s))]
        /\ pc = "store" => s = "submitted"
  BY DEF Submit, TreasurerConfirms, OrganizerConfirms, Start, Operations
<1>2. UNCHANGED <<row, lock, item>> /\ AccountsOK'
  BY DEF Submit, TreasurerConfirms, OrganizerConfirms, IInv, TypeOK, AccountsOK
<1> DEFINE c == WithStatus(row[i], s)
<1>3. c \in Row /\ c.status = s
  BY RowFields DEF IInv, TypeOK, TablesOK, Statuses, Alive, Paid
<1> HIDE DEF c
<1>4. Task(op, pc, i, c) \in Local /\ Task(op, pc, i, c).pc = pc /\ Task(op, pc, i, c).inv = i /\ Task(op, pc, i, c).copy = c
  BY <1>3, TaskFields DEF Stages
<1>5. req' = [req EXCEPT ![q] = Task(op, pc, i, c)]
  BY <1>1 DEF c
<1> QED
  BY <1>1, <1>2, <1>3, <1>4, <1>5, LocalStep
LEMMA BeginInquiry ==
  ASSUME IInv, NEW q \in Requests,
         (\E i \in Invoices : AskSatispay(q, i)) \/ (\E c \in captured : Webhook(q, c))
  PROVE  IInv'
<1>1. PICK op \in Operations, pc \in {"asked", "money"}, i \in Invoices, n \in Nat :
        req' = [req EXCEPT ![q] = Inquiry(op, pc, i, n)]
  BY DEF AskSatispay, Webhook, Operations, IInv, TypeOK, AccountsOK, Checkout
<1>2. UNCHANGED <<row, lock, item>> /\ AccountsOK'
  BY DEF AskSatispay, Webhook, IInv, TypeOK, AccountsOK
<1>3. /\ Inquiry(op, pc, i, n) \in Local /\ Inquiry(op, pc, i, n).pc = pc /\ Inquiry(op, pc, i, n).inv = i
  BY InquiryFields DEF IInv, TypeOK, TablesOK, Stages
<1> QED
  BY <1>1, <1>2, <1>3, LocalStep

LEMMA GatewaySteps ==
  ASSUME IInv, NEW q \in Requests, IssueCheckout(q) \/ GatewayRefuses(q) PROVE IInv'
<1> DEFINE c == WithCod(req[q].copy, issued[req[q].inv] + 1)
<1>1. req[q] \in Local /\ req[q].inv \in Invoices /\ req[q].copy \in Row
      /\ req[q].copy.status \in {"created", "submitted"}
  BY DEF IssueCheckout, GatewayRefuses, IInv, TypeOK, RequestsOK, CopyStatus, Local
<1>2. c \in Row /\ c.status = req[q].copy.status
  <2>1. issued[req[q].inv] + 1 \in Nat /\ "created" \in Statuses
    BY <1>1 DEF IInv, TypeOK, AccountsOK, Statuses, Alive
  <2> QED
    BY <1>1, <2>1, RowFields
<1>3. CASE IssueCheckout(q)
  <2>1. req' = [req EXCEPT ![q] = Task("form", "store", req[q].inv, c)] /\ UNCHANGED <<row, lock, item>>
    BY <1>3 DEF IssueCheckout, Start
  <2>2. AccountsOK'
    BY <1>1, <1>3 DEF IssueCheckout, IInv, TypeOK, AccountsOK
  <2> HIDE DEF c
  <2>3. LET l == Task("form", "store", req[q].inv, c)
        IN  l \in Local /\ l.pc = "store" /\ l.inv = req[q].inv /\ l.copy = c
    BY <1>1, <1>2, TaskFields DEF Operations, Stages
  <2> QED
    BY <1>1, <1>2, <2>1, <2>2, <2>3, LocalStep
<1>4. CASE GatewayRefuses(q)
  <2>1. req' = [req EXCEPT ![q] = Idle] /\ UNCHANGED <<row, lock, item>> /\ AccountsOK'
    BY <1>4 DEF GatewayRefuses, IInv, TypeOK, AccountsOK
  <2> QED
    BY <2>1, IdleFields, LocalStep
<1> QED
  BY <1>3, <1>4

LEMMA CallbackSteps ==
  ASSUME IInv, NEW q \in Requests, SatispayAccepts(q) \/ SatispayDeclines(q) \/ ReceiveMoney(q) PROVE IInv'
<1>1. req[q] \in Local /\ req[q].inv \in Invoices /\ row[req[q].inv] \in Row
  BY DEF SatispayAccepts, SatispayDeclines, ReceiveMoney, IInv, TypeOK, RequestsOK, TablesOK
<1>2. UNCHANGED <<row, lock, item>> /\ AccountsOK'
  BY DEF SatispayAccepts, SatispayDeclines, ReceiveMoney, IInv, TypeOK, AccountsOK
<1>3. CASE req' = [req EXCEPT ![q] = Idle]
  BY <1>2, <1>3, IdleFields, LocalStep
<1>4. CASE \E n \in Nat : req' = [req EXCEPT ![q] = Answered(q, n)]
  <2>1. PICK n \in Nat : req' = [req EXCEPT ![q] = Answered(q, n)]
    BY <1>4
  <2>2. Answered(q, n) \in Local /\ Answered(q, n).pc = "money" /\ Answered(q, n).inv = req[q].inv
    BY <1>1, AnsweredFields
  <2> QED
    BY <1>1, <1>2, <2>1, <2>2, LocalStep
<1>5. CASE \E n \in Nat : req' = [req EXCEPT ![q] = Task(req[q].op, "save", req[q].inv, Received(row[req[q].inv], n))]
  <2>1. PICK n \in Nat : req' = [req EXCEPT ![q] = Task(req[q].op, "save", req[q].inv, Received(row[req[q].inv], n))]
    BY <1>5
  <2>2. Received(row[req[q].inv], n) \in Row
    BY <1>1, RowFields DEF Statuses
  <2>3. LET l == Task(req[q].op, "save", req[q].inv, Received(row[req[q].inv], n))
        IN  l \in Local /\ l.pc = "save" /\ l.inv = req[q].inv
    BY <1>1, <2>2, TaskFields DEF Local, Stages
  <2> QED
    BY <1>1, <1>2, <2>1, <2>3, LocalStep
<1> QED
  <2>1. ASSUME SatispayAccepts(q) \/ SatispayDeclines(q)
        PROVE  req' = [req EXCEPT ![q] = Idle] \/ \E n \in Nat : req' = [req EXCEPT ![q] = Answered(q, n)]
    BY <2>1 DEF SatispayAccepts, SatispayDeclines, IInv, TypeOK, AccountsOK, Checkout
  <2>2. ASSUME ReceiveMoney(q)
        PROVE  \/ req' = [req EXCEPT ![q] = Idle]
               \/ \E n \in Nat : req' = [req EXCEPT ![q] = Task(req[q].op, "save", req[q].inv, Received(row[req[q].inv], n))]
    BY <1>1, <2>2 DEF ReceiveMoney, Local
  <2> QED
    BY <1>3, <1>4, <1>5, <2>1, <2>2

-----------------------------------------------------------------------------
(* Steps that write a row which is not being processed. *)

\* A row replaced while no other request is committing on it, by a row that is unpaid or
\* already credited; the request goes on to a stage before its save.
LEMMA RowStep ==
  ASSUME IInv, NEW i \in Invoices, NEW r \in Row, row' = [row EXCEPT ![i] = r],
         r.status \in Paid => item[i] # NoItem,
         UNCHANGED <<lock, item>>, AccountsOK',
         NEW q \in Requests, \A p \in Requests \ {q} : req[p].pc \in {"fee", "commit"} => req[p].inv # i,
         NEW l \in Local, l.pc # "idle" => l.inv \in Invoices,
         req' = [req EXCEPT ![q] = l],
         l.pc \notin {"process", "fee", "commit", "write", "edit"},
         l.pc \in {"form", "gateway", "store"} => l.copy.status \in {"created", "submitted"}
  PROVE  IInv'
<1>1. RequestsOK' /\ req'[q] = l /\ \A p \in Requests \ {q} : req'[p] = req[p]
  BY Moved DEF IInv, TypeOK
<1>2. row'[i] = r /\ row' \in [Invoices -> Row] /\ \A j \in Invoices \ {i} : row'[j] = row[j]
  BY DEF IInv, TypeOK, TablesOK
<1>3. TypeOK'
  BY <1>1, <1>2 DEF IInv, TypeOK, TablesOK
<1>4. PaidIsCredited'
  BY <1>2 DEF IInv, PaidIsCredited
<1>5. LockHeld'
  BY <1>1 DEF IInv, LockHeld
<1>6. CopyStatus'
  BY <1>1 DEF IInv, CopyStatus
<1>7. ReadsHold'
  <2> SUFFICES ASSUME NEW p \in Requests, req'[p].pc \in {"fee", "commit"}
               PROVE  (req'[p].fresh <=> item[req'[p].inv] = NoItem) /\ req'[p].split <= row'[req'[p].inv].gross
    BY DEF ReadsHold
  <2>1. p # q /\ req'[p] = req[p] /\ req[p].inv \in Invoices
    BY <1>1 DEF IInv, TypeOK, RequestsOK
  <2>3. row'[req[p].inv] = row[req[p].inv]
    BY <1>2, <2>1
  <2> QED
    BY <2>1, <2>3 DEF IInv, ReadsHold
<1> QED
  BY <1>3, <1>4, <1>5, <1>6, <1>7 DEF IInv

\* Nobody is committing on a row whose lock is free.
LEMMA FreeLock ==
  ASSUME IInv, NEW i, lock[i] = NoRequest
  PROVE  \A p \in Requests : req[p].pc \in {"fee", "commit"} => req[p].inv # i
  BY ConstantsAssumption DEF IInv, LockHeld

LEMMA SaveSteps ==
  ASSUME IInv, NEW q \in Requests, SaveForm(q) \/ Store(q) PROVE IInv'
<1> DEFINE i == req[q].inv
           c == req[q].copy
<1>1. req[q] \in Local /\ i \in Invoices /\ c \in Row /\ c.status \in {"created", "submitted"}
  BY DEF SaveForm, Store, IInv, TypeOK, RequestsOK, CopyStatus, Local
<1>2. row' = [row EXCEPT ![i] = c] /\ UNCHANGED <<lock, item>> /\ lock[i] = NoRequest
  BY DEF SaveForm, Store
<1>9. \A p \in Requests \ {q} : req[p].pc \in {"fee", "commit"} => req[p].inv # i
  BY <1>2, FreeLock
<1>3. AccountsOK'
  <2>1. Page(i, c) \in Checkout
    BY <1>1 DEF Page, Checkout, Row, IInv, TypeOK, AccountsOK
  <2>2. open' \subseteq Checkout /\ open \subseteq open'
    BY <2>1 DEF SaveForm, Store, IInv, TypeOK, AccountsOK
  <2> QED
    BY <2>2 DEF SaveForm, Store, IInv, TypeOK, AccountsOK
<1>4. /\ At(q, "gateway") \in Local /\ At(q, "gateway").pc = "gateway"
      /\ At(q, "gateway").inv = i /\ At(q, "gateway").copy = c
  BY <1>1, AtFields DEF Stages
<1>5. req' = [req EXCEPT ![q] = At(q, "gateway")] \/ req' = [req EXCEPT ![q] = Idle]
  BY DEF SaveForm, Store
<1>6. c.status \notin Paid
  BY <1>1 DEF Paid
<1>7. CASE req' = [req EXCEPT ![q] = At(q, "gateway")]
  BY <1>1, <1>2, <1>3, <1>4, <1>6, <1>7, <1>9, RowStep
<1>8. CASE req' = [req EXCEPT ![q] = Idle]
  BY <1>1, <1>2, <1>3, <1>6, <1>8, <1>9, IdleFields, RowStep
<1> QED
  BY <1>5, <1>7, <1>8
LEMMA DeskStep ==
  ASSUME IInv, NEW q \in Requests, NEW i \in Invoices, NEW g \in Grosses, DeskMembership(q, i, g)
  PROVE  IInv'
<1> DEFINE r == [status |-> "created", to |-> "membership", key |-> 1, method |-> "wire", gross |-> g, cod |-> 0]
           c == WithStatus(r, "confirmed")
<1>1. r \in Row /\ r.status \notin Paid
  BY ConstantsAssumption DEF Row, Statuses, Alive, Paid, Targets, Slugs
<1>2. row' = [row EXCEPT ![i] = r] /\ req' = [req EXCEPT ![q] = Task("desk", "save", i, c)] /\ UNCHANGED <<lock, item>>
  BY DEF DeskMembership, Start
<1>3. AccountsOK' /\ \A p \in Requests : req[p].inv # i
  BY DEF DeskMembership, Unused, IInv, TypeOK, AccountsOK
<1> HIDE DEF r
<1>4. c \in Row
  BY <1>1, RowFields DEF Statuses, Alive, Paid
<1> HIDE DEF c
<1>5. LET l == Task("desk", "save", i, c) IN l \in Local /\ l.pc = "save" /\ l.inv = i
  BY <1>4, TaskFields DEF Operations, Stages
<1> QED
  BY <1>1, <1>2, <1>3, <1>5, RowStep

LEMMA ExpireStep ==
  ASSUME IInv, NEW q \in Requests, NEW i \in Invoices, Expire(q, i)
  PROVE  IInv'
<1>1. WithStatus(row[i], "deleted") \in Row /\ WithStatus(row[i], "deleted").status \notin Paid
  BY RowFields DEF IInv, TypeOK, TablesOK, Statuses, Paid
<1>2. row' = [row EXCEPT ![i] = WithStatus(row[i], "deleted")] /\ UNCHANGED <<lock, item>>
      /\ AccountsOK' /\ \A p \in Requests : req[p].inv # i
  BY DEF Expire, IInv, TypeOK, AccountsOK
<1>3. req[q] \in Local /\ req[q].pc = "idle" /\ req' = [req EXCEPT ![q] = req[q]]
  BY DEF Expire, Runs, IInv, TypeOK, RequestsOK
<1> QED
  BY <1>1, <1>2, <1>3, RowStep

-----------------------------------------------------------------------------
(* The save itself: lock, read, commit, write. *)

LEMMA LockStep == ASSUME IInv, NEW q \in Requests, Lock(q) PROVE IInv'
<1> DEFINE i == req[q].inv
           pc == IF AlreadyPaid(q) THEN "write" ELSE "process"
<1>1. req[q] \in Local /\ i \in Invoices /\ lock[i] = NoRequest /\ req[q].pc = "save"
  BY DEF Lock, IInv, TypeOK, RequestsOK
<1>2. At(q, pc) \in Local /\ At(q, pc).pc = pc /\ At(q, pc).inv = i /\ At(q, pc).copy = req[q].copy
  BY <1>1, AtFields DEF Stages
<1>3. req' = [req EXCEPT ![q] = At(q, pc)] /\ UNCHANGED <<row, item>> /\ AccountsOK'
  BY DEF Lock, IInv, TypeOK, AccountsOK
<1>4. RequestsOK' /\ req'[q] = At(q, pc) /\ \A p \in Requests \ {q} : req'[p] = req[p]
  BY <1>1, <1>2, <1>3, Moved DEF IInv, TypeOK
<1>5. /\ lock' \in [Invoices -> Requests \cup {NoRequest}]
      /\ \A j \in Invoices \ {i} : lock'[j] = lock[j]
      /\ ~AlreadyPaid(q) => lock'[i] = q
  BY <1>1 DEF Lock, LockKept, IInv, TypeOK, TablesOK
<1>6. AlreadyPaid(q) => item[i] # NoItem
  BY <1>1 DEF AlreadyPaid, IInv, PaidIsCredited
<1>7. TypeOK'
  BY <1>3, <1>4, <1>5 DEF IInv, TypeOK, TablesOK
<1>8. PaidIsCredited'
  BY <1>3 DEF IInv, PaidIsCredited
<1>9. LockHeld'
  <2> SUFFICES ASSUME NEW p \in Requests, req'[p].pc \in {"process", "fee", "commit"} PROVE lock'[req'[p].inv] = p
    BY DEF LockHeld
  <2>1. CASE p = q
    BY <1>2, <1>4, <1>5, <2>1
  <2>2. CASE p # q
    BY <1>1, <1>4, <1>5, <2>2, ConstantsAssumption DEF IInv, LockHeld, TypeOK, RequestsOK
  <2> QED
    BY <2>1, <2>2
<1>10. CopyStatus'
  BY <1>2, <1>3, <1>4, <1>6 DEF IInv, CopyStatus
<1>11. ReadsHold'
  BY <1>2, <1>3, <1>4 DEF IInv, ReadsHold
<1> QED
  BY <1>7, <1>8, <1>9, <1>10, <1>11 DEF IInv

LEMMA SplitBounds == ASSUME IInv, NEW i \in Invoices PROVE SplitOf(i) \in Nat /\ SplitOf(i) <= row[i].gross
<1>1. row[i].gross \in Nat /\ BundledFee(row[i].to) \in Nat
  BY ConstantsAssumption DEF IInv, TypeOK, TablesOK, Row, BundledFee
<1> QED
  BY <1>1 DEF SplitOf

\* The transaction goes on: what it has read about its own row is right.
LEMMA HoldStep ==
  ASSUME IInv, NEW q \in Requests, req[q].pc \in {"process", "fee"},
         NEW l \in Local, l.pc \in {"fee", "commit"}, l.inv = req[q].inv,
         l.fresh <=> item[l.inv] = NoItem, l.split <= row[l.inv].gross,
         req' = [req EXCEPT ![q] = l], UNCHANGED <<row, lock, item>>, AccountsOK'
  PROVE  IInv'
<1>1. l.inv \in Invoices /\ lock[l.inv] = q
  BY DEF IInv, TypeOK, RequestsOK, LockHeld
<1>2. RequestsOK' /\ req'[q] = l /\ \A p \in Requests \ {q} : req'[p] = req[p]
  BY <1>1, Moved DEF IInv, TypeOK
<1>3. TypeOK'
  BY <1>2 DEF IInv, TypeOK, TablesOK
<1>4. PaidIsCredited'
  BY DEF IInv, PaidIsCredited
<1>5. LockHeld'
  BY <1>1, <1>2 DEF IInv, LockHeld
<1>6. CopyStatus'
  BY <1>2 DEF IInv, CopyStatus
<1>7. ReadsHold'
  <2> SUFFICES ASSUME NEW p \in Requests, req'[p].pc \in {"fee", "commit"}
               PROVE  (req'[p].fresh <=> item[req'[p].inv] = NoItem) /\ req'[p].split <= row[req'[p].inv].gross
    BY DEF ReadsHold
  <2>1. CASE p = q
    BY <1>2, <2>1
  <2>2. CASE p # q
    BY <1>2, <2>2 DEF IInv, ReadsHold
  <2> QED
    BY <2>1, <2>2
<1> QED
  BY <1>3, <1>4, <1>5, <1>6, <1>7 DEF IInv

LEMMA ProcessStep == ASSUME IInv, NEW q \in Requests, Process(q) PROVE IInv'
<1> DEFINE i == req[q].inv
           t == row[i].to
           new == item[i] = NoItem
           pc == IF new /\ t \in Regs THEN "fee" ELSE "commit"
           n == IF t \in Regs THEN num[t] ELSE 0
           l == HasRead(q, pc, new, n)
<1>1. req[q] \in Local /\ i \in Invoices /\ req[q].pc = "process"
  BY DEF Process, IInv, TypeOK, RequestsOK
<1>2. new \in BOOLEAN /\ n \in Nat /\ pc \in Stages /\ pc \in {"fee", "commit"} /\ row[i].gross \in Nat
  BY <1>1 DEF IInv, TypeOK, TablesOK, AccountsOK, Row, Stages
<1>3. req' = [req EXCEPT ![q] = l] /\ UNCHANGED <<row, lock, item>> /\ AccountsOK'
  <2>1. AccountsOK'
    BY DEF Process, IInv, TypeOK, AccountsOK
  <2> QED
    BY <2>1 DEF Process
<1>4. new <=> item[i] = NoItem
  OBVIOUS
<1> HIDE DEF new, n, pc
<1>5. l \in Local /\ l.pc = pc /\ l.inv = i /\ l.fresh = new /\ l.split = 0
  BY <1>1, <1>2, ReadFields
<1>6. (l.fresh <=> item[l.inv] = NoItem) /\ l.split <= row[l.inv].gross
  BY <1>2, <1>4, <1>5
<1> HIDE DEF l
<1> QED
  BY <1>1, <1>2, <1>3, <1>5, <1>6, HoldStep

LEMMA SplitStep == ASSUME IInv, NEW q \in Requests, SplitFee(q) PROVE IInv'
<1> DEFINE i == req[q].inv
           l == Split(q, SplitOf(i))
<1>1. req[q] \in Local /\ i \in Invoices /\ req[q].pc = "fee"
  BY DEF SplitFee, IInv, TypeOK, RequestsOK
<1>2. SplitOf(i) \in Nat /\ SplitOf(i) <= row[i].gross
  BY <1>1, SplitBounds
<1>3. req' = [req EXCEPT ![q] = l] /\ UNCHANGED <<row, lock, item>> /\ AccountsOK'
  <2>1. AccountsOK'
    BY DEF SplitFee, IInv, TypeOK, AccountsOK
  <2> QED
    BY <2>1 DEF SplitFee
<1>4. l \in Local /\ l.pc = "commit" /\ l.inv = i /\ l.fresh = req[q].fresh /\ l.split = SplitOf(i)
  BY <1>1, <1>2, SplitFields
<1>5. (l.fresh <=> item[l.inv] = NoItem) /\ l.split <= row[l.inv].gross
  BY <1>1, <1>2, <1>4 DEF IInv, ReadsHold
<1> HIDE DEF l
<1> QED
  BY <1>1, <1>3, <1>4, <1>5, HoldStep

LEMMA RegistrationSteps ==
  ASSUME IInv, NEW q \in Requests, SaveRegistration(q) \/ \E r \in Regs : ReadRegistration(q, r)
  PROVE  IInv'
<1>1. ASSUME NEW r \in Regs, ReadRegistration(q, r) PROVE IInv'
  <2>1. req' = [req EXCEPT ![q] = Copied(r)] /\ UNCHANGED <<row, lock, item>> /\ AccountsOK'
    BY <1>1 DEF ReadRegistration, IInv, TypeOK, AccountsOK
  <2>2. Copied(r) \in Local /\ Copied(r).pc = "edit" /\ Copied(r).copy.to = r
    BY CopiedFields DEF IInv, TypeOK, AccountsOK
  <2> QED
    BY <2>1, <2>2, LocalStep
<1>2. CASE SaveRegistration(q)
  <2>1. req[q] \in Local /\ req[q].copy.to \in Regs
    BY <1>2 DEF SaveRegistration, IInv, TypeOK, RequestsOK
  <2>2. req' = [req EXCEPT ![q] = Idle] /\ UNCHANGED <<row, lock, item>> /\ AccountsOK'
    BY <1>2, <2>1 DEF SaveRegistration, IInv, TypeOK, AccountsOK, Local
  <2> QED
    BY <2>2, IdleFields, LocalStep
<1> QED
  BY <1>1, <1>2

LEMMA ReleaseFacts ==
  ASSUME IInv, NEW q \in Requests, Release(q)
  PROVE  /\ lock' \in [Invoices -> Requests \cup {NoRequest}]
         /\ plock' \in Requests \cup {NoRequest}
         /\ \A j \in Invoices : lock[j] # q => lock'[j] = lock[j]
  BY DEF Release, IInv, TypeOK, TablesOK, AccountsOK

\* The end of a transaction: q frees its locks, and rows and items change only
\* where no other request is at work under a lock.
LEMMA EndStep ==
  ASSUME IInv, NEW q \in Requests, Release(q),
         NEW l \in Local, l.pc \in {"idle", "write"}, l.pc # "idle" => l.inv \in Invoices,
         req' = [req EXCEPT ![q] = l],
         row' \in [Invoices -> Row], item' \in [Invoices -> Item \cup {NoItem}], AccountsOK',
         \A j \in Invoices : row'[j].status \in Paid => item'[j] # NoItem,
         \A j \in Invoices : item[j] # NoItem => item'[j] # NoItem,
         \A j \in Invoices : lock[j] \notin {q, NoRequest} => row'[j] = row[j] /\ item'[j] = item[j],
         l.pc = "write" => item'[l.inv] # NoItem
  PROVE  IInv'
<1>1. RequestsOK' /\ req'[q] = l /\ \A p \in Requests \ {q} : req'[p] = req[p]
  BY Moved DEF IInv, TypeOK
<1>2. /\ lock' \in [Invoices -> Requests \cup {NoRequest}]
      /\ \A j \in Invoices : lock[j] # q => lock'[j] = lock[j]
  BY ReleaseFacts
<1>3. TypeOK'
  BY <1>1, <1>2 DEF TypeOK, TablesOK
<1>4. PaidIsCredited'
  BY DEF PaidIsCredited
<1>5. ASSUME NEW p \in Requests, req'[p].pc \in {"process", "fee", "commit"}
      PROVE  p # q /\ req'[p] = req[p] /\ req[p].inv \in Invoices /\ lock[req[p].inv] = p
  BY <1>1, <1>5 DEF IInv, LockHeld, TypeOK, RequestsOK
<1>6. LockHeld'
  BY <1>2, <1>5 DEF LockHeld
<1>7. CopyStatus'
  <2> SUFFICES ASSUME NEW p \in Requests
               PROVE  /\ req'[p].pc \in {"form", "gateway", "store"} => req'[p].copy.status \in {"created", "submitted"}
                      /\ req'[p].pc = "write" => item'[req'[p].inv] # NoItem
    BY DEF CopyStatus
  <2>1. CASE p = q
    BY <1>1, <2>1
  <2>2. CASE p # q
    BY <1>1, <2>2 DEF IInv, CopyStatus, TypeOK, RequestsOK
  <2> QED
    BY <2>1, <2>2
<1>8. ReadsHold'
  <2> SUFFICES ASSUME NEW p \in Requests, req'[p].pc \in {"fee", "commit"}
               PROVE  (req'[p].fresh <=> item'[req'[p].inv] = NoItem) /\ req'[p].split <= row'[req'[p].inv].gross
    BY DEF ReadsHold
  <2>1. p # q /\ req'[p] = req[p] /\ req[p].inv \in Invoices /\ lock[req[p].inv] = p
    BY <1>5
  <2>2. row'[req[p].inv] = row[req[p].inv] /\ item'[req[p].inv] = item[req[p].inv]
    BY <2>1, ConstantsAssumption
  <2> QED
    BY <2>1, <2>2 DEF IInv, ReadsHold
<1> QED
  BY <1>3, <1>4, <1>6, <1>7, <1>8 DEF IInv

LEMMA WriteStep == ASSUME IInv, NEW q \in Requests, Write(q) PROVE IInv'
<1> DEFINE i == req[q].inv
           c == req[q].copy
<1>1. i \in Invoices /\ c \in Row /\ item[i] # NoItem
  BY DEF Write, IInv, TypeOK, RequestsOK, CopyStatus, Local
<1>2. /\ row' = [row EXCEPT ![i] = c] /\ req' = [req EXCEPT ![q] = Idle] /\ Release(q)
      /\ item' = item /\ lock[i] \in {q, NoRequest}
  BY DEF Write
<1>3. row' \in [Invoices -> Row] /\ row'[i] = c /\ \A j \in Invoices \ {i} : row'[j] = row[j]
  BY <1>1, <1>2 DEF IInv, TypeOK, TablesOK
<1>4. item' \in [Invoices -> Item \cup {NoItem}] /\ AccountsOK'
  BY <1>2, ReleaseFacts DEF Write, IInv, TypeOK, TablesOK, AccountsOK
<1>5. \A j \in Invoices : row'[j].status \in Paid => item'[j] # NoItem
  BY <1>1, <1>2, <1>3 DEF IInv, PaidIsCredited
<1> QED
  BY <1>2, <1>3, <1>4, <1>5, IdleFields, EndStep

LEMMA AbortSteps == ASSUME IInv, NEW q \in Requests, Reject(q) \/ Crash(q) PROVE IInv'
<1>1. req' = [req EXCEPT ![q] = Idle] /\ Release(q) /\ UNCHANGED <<row, item>>
  BY DEF Reject, Crash
<1>2. row' \in [Invoices -> Row] /\ item' \in [Invoices -> Item \cup {NoItem}] /\ AccountsOK'
  BY <1>1, ReleaseFacts DEF Reject, Crash, IInv, TypeOK, TablesOK, AccountsOK
<1>3. \A j \in Invoices : row'[j].status \in Paid => item'[j] # NoItem
  BY <1>1 DEF IInv, PaidIsCredited
<1> QED
  BY <1>1, <1>2, <1>3, IdleFields, EndStep

LEMMA EntryFields ==
  ASSUME IInv, NEW q \in Requests, req[q].pc = "commit"
  PROVE  Entry(q) \in Item /\ Entry(q) # NoItem
<1>1. req[q] \in Local /\ row[req[q].inv] \in Row /\ req[q].split <= row[req[q].inv].gross
  BY DEF IInv, TypeOK, TablesOK, RequestsOK, ReadsHold
<1>2. Entry(q) \in Item
  BY <1>1 DEF Entry, Item, Row, Local
<1> QED
  BY <1>2, NoItemAssumption

\* What a transaction leaves behind: the item of the invoice, new or as it was.
LEMMA CommitItem ==
  ASSUME IInv, NEW q \in Requests, Commit(q)
  PROVE  /\ item' \in [Invoices -> Item \cup {NoItem}]
         /\ item'[req[q].inv] # NoItem
         /\ item' = IF req[q].fresh THEN [item EXCEPT ![req[q].inv] = Entry(q)] ELSE item
         /\ req[q].fresh <=> item[req[q].inv] = NoItem
         /\ \A j \in Invoices \ {req[q].inv} : item'[j] = item[j]
<1>1. req[q].pc = "commit" /\ req[q].inv \in Invoices
  BY DEF Commit, IInv, TypeOK, RequestsOK
<1>2. Entry(q) \in Item /\ Entry(q) # NoItem
  BY <1>1, EntryFields
<1>3. req[q].fresh <=> item[req[q].inv] = NoItem
  BY <1>1 DEF IInv, ReadsHold
<1>4. item' = IF req[q].fresh THEN [item EXCEPT ![req[q].inv] = Entry(q)] ELSE item
  BY DEF Commit, ItemAfter
<1> QED
  BY <1>1, <1>2, <1>3, <1>4 DEF IInv, TypeOK, TablesOK

LEMMA CommitStep == ASSUME IInv, NEW q \in Requests, Commit(q) PROVE IInv'
<1> DEFINE i == req[q].inv
           c == req[q].copy
           l == IF Atomic(q) THEN Idle ELSE Task(req[q].op, "write", i, c)
<1>1. req[q] \in Local /\ i \in Invoices /\ c \in Row /\ lock[i] = q /\ row[i] \in Row
  BY DEF Commit, IInv, TypeOK, TablesOK, RequestsOK, Local, LockHeld
<1>2. l \in Local /\ l.pc \in {"idle", "write"} /\ (l.pc # "idle" => l.inv = i)
  BY <1>1, IdleFields, TaskFields DEF Local, Stages
<1>3. req' = [req EXCEPT ![q] = l] /\ Release(q) /\ row' \in {row, [row EXCEPT ![i] = c]}
  BY DEF Commit
<1>4. row' \in [Invoices -> Row] /\ \A j \in Invoices \ {i} : row'[j] = row[j]
  BY <1>1, <1>3 DEF IInv, TypeOK, TablesOK
<1>5. AccountsOK'
  <2>1. num' \in [Regs -> Nat]
    BY <1>1 DEF Commit, Counted, IInv, TypeOK, AccountsOK, Local
  <2>2. pending' \in Regs \cup {NoReg} /\ year' \in Invoices \cup {NoInvoice}
    BY <1>1 DEF Commit, IInv, TypeOK, AccountsOK
  <2>3. plock' \in Requests \cup {NoRequest}
    BY <1>3, ReleaseFacts
  <2> QED
    BY <2>1, <2>2, <2>3 DEF Commit, IInv, TypeOK, AccountsOK
<1>6. /\ item' \in [Invoices -> Item \cup {NoItem}] /\ item'[i] # NoItem
      /\ \A j \in Invoices \ {i} : item'[j] = item[j]
  BY CommitItem
<1>7. \A j \in Invoices : row'[j].status \in Paid => item'[j] # NoItem
  BY <1>4, <1>6 DEF IInv, PaidIsCredited
<1> HIDE DEF l
<1> QED
  BY <1>1, <1>2, <1>3, <1>4, <1>5, <1>6, <1>7, EndStep

LEMMA OutsideSteps ==
  ASSUME IInv, (\E c \in open : Capture(c)) \/ (\E k \in Currencies : ChangeCurrency(k))
  PROVE  IInv'
<1>1. UNCHANGED <<row, lock, item, req>> /\ AccountsOK' /\ RequestsOK'
  BY DEF Capture, ChangeCurrency, IInv, TypeOK, AccountsOK, RequestsOK
<1> QED
  BY <1>1 DEF IInv, TypeOK, TablesOK, PaidIsCredited, LockHeld, CopyStatus, ReadsHold

LEMMA NextIInv == IInv /\ [Next]_vars => IInv'
<1> SUFFICES ASSUME IInv, [Next]_vars PROVE IInv'
  OBVIOUS
<1>1. ASSUME NEW q \in Requests, Begin(q) PROVE IInv'
  BY <1>1, BeginForm, BeginWithCopy, BeginInquiry, DeskStep, ExpireStep, RegistrationSteps DEF Begin
<1>2. ASSUME NEW q \in Requests, Continue(q) PROVE IInv'
  BY <1>2, SaveSteps, GatewaySteps, CallbackSteps, LockStep, ProcessStep, SplitStep, CommitStep,
     AbortSteps, WriteStep, RegistrationSteps DEF Continue
<1>3. ASSUME NEW q \in Requests, Crash(q) PROVE IInv'
  BY <1>3, AbortSteps
<1>4. CASE (\E c \in open : Capture(c)) \/ (\E k \in Currencies : ChangeCurrency(k))
  BY <1>4, OutsideSteps
<1>5. CASE UNCHANGED vars
  BY <1>5 DEF vars, gateways, watch, IInv, TypeOK, TablesOK, AccountsOK, RequestsOK, PaidIsCredited,
              LockHeld, CopyStatus, ReadsHold
<1> QED
  BY <1>1, <1>2, <1>3, <1>4, <1>5 DEF Next

\* Every reachable state satisfies the invariant, for any number of requests,
\* invoices, registrations and crashes.
THEOREM IInvHolds == Spec => []IInv
  BY InitIInv, NextIInv, PTL DEF Spec

\* The tables, the accounts and the local state of the requests keep their types.
THEOREM TypeCorrect == Spec => []TypeOK
  BY IInvHolds, PTL DEF IInv

\* A row confirmed or checked always has its accounting item.
THEOREM PaidRowsAreCredited == Spec => []PaidIsCredited
  BY IInvHolds, PTL DEF IInv

\* The transaction of a payment never inserts a second item for its invoice.
THEOREM InsertsAreSafe == Spec => []NoDuplicateInsert
<1>1. IInv => NoDuplicateInsert
  BY DEF IInv, ReadsHold, NoDuplicateInsert
<1> QED
  BY <1>1, IInvHolds, PTL

-----------------------------------------------------------------------------
(* What a step of one request leaves to the others.                          *)

\* Rows that other requests are at work on under the lock are not written.
LEMMA RowsStand ==
  ASSUME IInv, NEW q \in Requests, Begin(q) \/ Continue(q) \/ Crash(q),
         NEW p \in Requests \ {q}, req[p].pc \in {"process", "fee", "commit"}
  PROVE  row'[req[p].inv] = row[req[p].inv]
<1> DEFINE i == req[p].inv
<1>1. i \in Invoices /\ lock[i] = p /\ lock[i] # NoRequest /\ lock[i] # q /\ row \in [Invoices -> Row]
  BY ConstantsAssumption DEF IInv, TypeOK, TablesOK, RequestsOK, LockHeld
<1>2. ASSUME NEW j, NEW r, row' = [row EXCEPT ![j] = r], j # i PROVE row'[i] = row[i]
  BY <1>1, <1>2
<1>3. CASE Begin(q)
  <2>1. ASSUME NEW j \in Invoices, NEW g \in Grosses, DeskMembership(q, j, g) PROVE row'[i] = row[i]
    BY <1>2, <2>1 DEF DeskMembership, Unused
  <2>2. ASSUME NEW j \in Invoices, Expire(q, j) PROVE row'[i] = row[i]
    BY <1>2, <2>2 DEF Expire
  <2> QED
    BY <1>3, <2>1, <2>2 DEF Begin, OpenForm, Submit, TreasurerConfirms, OrganizerConfirms, AskSatispay, Webhook,
                      ReadRegistration
<1>4. CASE Continue(q)
  <2>1. CASE SaveForm(q) \/ Store(q) \/ Write(q)
    BY <1>1, <1>2, <2>1 DEF SaveForm, Store, Write
  <2>2. CASE Commit(q)
    <3>1. lock[req[q].inv] = q
      BY <2>2 DEF Commit, IInv, LockHeld
    <3>2. row' = row \/ \E r : row' = [row EXCEPT ![req[q].inv] = r]
      BY <2>2 DEF Commit
    <3> QED
      BY <1>1, <1>2, <3>1, <3>2
  <2> QED
    BY <1>4, <2>1, <2>2 DEF Continue, IssueCheckout, GatewayRefuses, SatispayAccepts, SatispayDeclines, ReceiveMoney,
                            SaveRegistration, Lock, Process, SplitFee, Reject
<1>5. CASE Crash(q)
  BY <1>5 DEF Crash
<1> QED
  BY <1>3, <1>4, <1>5

LEMMA OthersStay ==
  ASSUME IInv, NEW q \in Requests, Begin(q) \/ Continue(q) \/ Crash(q), NEW p \in Requests \ {q}
  PROVE  req'[p] = req[p]
<1>1. req' = req \/ \E l : req' = [req EXCEPT ![q] = l]
  <2>1. CASE Begin(q)
    BY <2>1 DEF Begin, OpenForm, Submit, TreasurerConfirms, OrganizerConfirms, AskSatispay, Expire, DeskMembership,
                Webhook, ReadRegistration, Start
  <2>2. CASE Continue(q)
    BY <2>2 DEF Continue, SaveForm, IssueCheckout, GatewayRefuses, Store, SatispayAccepts, SatispayDeclines,
                ReceiveMoney, SaveRegistration, Lock, Process, SplitFee, Commit, Reject, Write, Start
  <2>3. CASE Crash(q)
    BY <2>3 DEF Crash
  <2> QED
    BY <2>1, <2>2, <2>3
<1> QED
  BY <1>1 DEF IInv, TypeOK, RequestsOK

\* Only three steps bring a request where what it has read matters to others.
LEMMA Settles ==
  ASSUME IInv, NEW q \in Requests, Begin(q) \/ Continue(q) \/ Crash(q),
         ~Process(q), ~SplitFee(q), \A r \in Regs : ~ReadRegistration(q, r)
  PROVE  req'[q].pc \notin {"fee", "commit", "edit"}
<1>1. req[q] \in Local /\ req \in [Requests -> Local]
  BY DEF IInv, TypeOK, RequestsOK
<1>2. \A pc \in Stages : At(q, pc).pc = pc
  BY <1>1, AtFields
<1>3. \A op, pc, i, c : Task(op, pc, i, c).pc = pc /\ Inquiry(op, pc, i, c).pc = pc
  BY DEF Task, Inquiry
<1>4. \A n : Answered(q, n).pc = "money"
  BY <1>1 DEF Answered, Local
<1>5. CASE Begin(q)
  <2>1. ASSUME NEW i, NEW t, NEW g, NEW n, OpenForm(q, i, t, g, n) PROVE req'[q].pc \notin {"fee", "commit", "edit"}
    BY <1>1, <2>1 DEF OpenForm, Start, Task
  <2>2. ASSUME NEW i, NEW g, DeskMembership(q, i, g) PROVE req'[q].pc \notin {"fee", "commit", "edit"}
    BY <1>1, <2>2 DEF DeskMembership, Start, Task
  <2>3. ASSUME NEW i, Submit(q, i) \/ TreasurerConfirms(q, i) \/ OrganizerConfirms(q, i)
        PROVE  req'[q].pc \notin {"fee", "commit", "edit"}
    BY <1>1, <2>3 DEF Submit, TreasurerConfirms, OrganizerConfirms, Start, Task
  <2>4. ASSUME NEW i, AskSatispay(q, i) PROVE req'[q].pc \notin {"fee", "commit", "edit"}
    BY <1>1, <2>4 DEF AskSatispay, Inquiry
  <2>5. ASSUME NEW c, Webhook(q, c) PROVE req'[q].pc \notin {"fee", "commit", "edit"}
    BY <1>1, <2>5 DEF Webhook, Inquiry
  <2>6. ASSUME NEW i, Expire(q, i) PROVE req'[q].pc \notin {"fee", "commit", "edit"}
    BY <2>6 DEF Expire, Runs
  <2> QED
    BY <1>5, <2>1, <2>2, <2>3, <2>4, <2>5, <2>6 DEF Begin
<1>6. CASE Continue(q)
  <2>1. CASE IssueCheckout(q) \/ SatispayAccepts(q) \/ SatispayDeclines(q) \/ ReceiveMoney(q)
    BY <1>1, <1>3, <1>4, <2>1, IdleFields DEF IssueCheckout, SatispayAccepts, SatispayDeclines, ReceiveMoney, Start
  <2>2. CASE SaveForm(q) \/ GatewayRefuses(q) \/ Store(q) \/ Lock(q)
    BY <1>1, <1>2, <2>2, IdleFields DEF SaveForm, GatewayRefuses, Store, Lock, Stages
  <2>3. CASE SaveRegistration(q) \/ Commit(q) \/ Reject(q) \/ Write(q)
    BY <1>1, <1>3, <2>3, IdleFields DEF SaveRegistration, Commit, Reject, Write
  <2> QED
    BY <1>6, <2>1, <2>2, <2>3 DEF Continue
<1>7. CASE Crash(q)
  BY <1>1, <1>7, IdleFields DEF Crash
<1> QED
  BY <1>5, <1>6, <1>7

-----------------------------------------------------------------------------
(* What the items say agrees with the number of the registration and with    *)
(* the membership of the year.                                               *)

\* Only the end of a transaction touches items and memberships.
LEMMA BookedOnCommit ==
  ASSUME [Next]_vars, ~\E q \in Requests : Commit(q)
  PROVE  UNCHANGED <<item, year>>
<1>1. ASSUME NEW q \in Requests, Begin(q) PROVE UNCHANGED <<item, year>>
  BY <1>1 DEF Begin, OpenForm, Submit, TreasurerConfirms, OrganizerConfirms, AskSatispay, Expire,
              DeskMembership, Webhook, ReadRegistration
<1>2. ASSUME NEW q \in Requests, Continue(q), ~Commit(q) PROVE UNCHANGED <<item, year>>
  BY <1>2 DEF Continue, SaveForm, IssueCheckout, GatewayRefuses, Store, SatispayAccepts, SatispayDeclines,
              ReceiveMoney, SaveRegistration, Lock, Process, SplitFee, Reject, Write
<1>3. ASSUME NEW q \in Requests, Crash(q) PROVE UNCHANGED <<item, year>>
  BY <1>3 DEF Crash
<1>4. CASE (\E c \in open : Capture(c)) \/ (\E k \in Currencies : ChangeCurrency(k))
  BY <1>4 DEF Capture, ChangeCurrency
<1>5. CASE UNCHANGED vars
  BY <1>5 DEF vars
<1> QED
  BY <1>1, <1>2, <1>3, <1>4, <1>5 DEF Next

LEMMA CommitBooks ==
  ASSUME IInv, NEW q \in Requests, Commit(q), NEW r
  PROVE  Payments(r)' = IF req[q].fresh /\ row[req[q].inv].to = r
                        THEN Payments(r) \cup {req[q].inv} ELSE Payments(r)
<1>1. req[q].inv \in Invoices /\ req[q].pc = "commit"
  BY DEF Commit, IInv, TypeOK, RequestsOK
<1>2. Entry(q) # NoItem /\ Entry(q).to = row[req[q].inv].to
  BY <1>1, EntryFields DEF Entry
<1>3. CASE req[q].fresh
  <2>1. /\ item'[req[q].inv] = Entry(q) /\ item[req[q].inv] = NoItem
        /\ \A j \in Invoices \ {req[q].inv} : item'[j] = item[j]
    BY <1>1, <1>3, CommitItem DEF IInv, TypeOK, TablesOK
  <2> QED
    BY <1>1, <1>2, <1>3, <2>1 DEF Payments
<1>4. CASE ~req[q].fresh
  BY <1>4, CommitItem DEF Payments
<1> QED
  BY <1>3, <1>4

Booked(r) == Cardinality(Payments(r))

LEMMA BookedIsNat == \A r : IsFiniteSet(Payments(r)) /\ Booked(r) \in Nat
<1> SUFFICES ASSUME NEW r PROVE IsFiniteSet(Payments(r)) /\ Booked(r) \in Nat
  OBVIOUS
<1>1. Payments(r) \subseteq Invoices
  BY DEF Payments
<1> QED
  BY <1>1, ConstantsAssumption, FS_Subset, FS_CardinalityType DEF Booked

\* A request that has read the registration and will write its number back.
Holds(q, r) == Confirming(q, r) \/ Editing(q, r)

\* What makes PaymentsNumbered inductive: no number that will be written back
\* is ahead of the payments, and where no confirmation was crossed, all of
\* them are the registration's own and a confirmation is alone with it.
Behind(r) ==
  /\ num[r] <= Booked(r) + 1
  /\ \A q \in Requests : Holds(q, r) => req[q].seen <= Booked(r) + 1
Exact(r) ==
  /\ num[r] = Booked(r) + 1
  /\ \A q \in Requests : Holds(q, r) => req[q].seen = num[r]
  /\ \A q, p \in Requests : Confirming(q, r) /\ Holds(p, r) => p = q
NumInv == \A r \in Regs : Behind(r) /\ (r \notin crossed => Exact(r))

\* No request but q comes to hold a registration, or reads it again.
LEMMA OthersHold ==
  ASSUME IInv, NEW q \in Requests, Begin(q) \/ Continue(q) \/ Crash(q), NEW p \in Requests \ {q}, NEW r
  PROVE  /\ Confirming(p, r)' = Confirming(p, r) /\ Holds(p, r)' = Holds(p, r)
         /\ req'[p].seen = req[p].seen
<1>1. req'[p] = req[p]
  BY OthersStay
<1>2. req[p].pc \in {"fee", "commit"} => row'[req[p].inv] = row[req[p].inv]
  BY RowsStand
<1> QED
  BY <1>1, <1>2 DEF Confirming, Editing, Holds

\* The numbers and the payments stay, and nobody comes to hold a registration.
LEMMA NumbersStand ==
  ASSUME NumInv, NEW r \in Regs, Booked(r)' = Booked(r), num'[r] = num[r] \/ (r \in crossed /\ num'[r] <= Booked(r) + 1),
         \A p \in Requests : /\ Holds(p, r)' => Holds(p, r) /\ req'[p].seen = req[p].seen
                             /\ Confirming(p, r)' => Confirming(p, r)
  PROVE  Behind(r)' /\ (r \notin crossed => Exact(r)')
<1>1. Behind(r) /\ (r \notin crossed => Exact(r))
  BY DEF NumInv
<1>2. Behind(r)'
  BY <1>1 DEF Behind
<1>3. ASSUME r \notin crossed PROVE Exact(r)'
  BY <1>1, <1>3 DEF Exact
<1> QED
  BY <1>2, <1>3

LEMMA QuietNumbers ==
  ASSUME IInv, NumInv, NEW q \in Requests, Begin(q) \/ Continue(q) \/ Crash(q),
         req'[q].pc \notin {"fee", "commit", "edit"}, UNCHANGED <<item, num, crossed>>
  PROVE  NumInv'
<1> SUFFICES ASSUME NEW r \in Regs PROVE Behind(r)' /\ (r \notin crossed => Exact(r)')
  BY DEF NumInv
<1>1. ~Holds(q, r)' /\ ~Confirming(q, r)'
  BY DEF Holds, Confirming, Editing
<1>2. \A p \in Requests : /\ Holds(p, r)' => Holds(p, r) /\ req'[p].seen = req[p].seen
                          /\ Confirming(p, r)' => Confirming(p, r)
  BY <1>1, OthersHold
<1>3. Booked(r)' = Booked(r) /\ num'[r] = num[r]
  BY DEF Booked, Payments
<1> QED
  BY <1>2, <1>3, NumbersStand

LEMMA CommitNumbers == ASSUME IInv, NumInv, NEW q \in Requests, Commit(q) PROVE NumInv'
<1> SUFFICES ASSUME NEW r \in Regs PROVE Behind(r)' /\ (r \notin crossed => Exact(r)')
  BY DEF NumInv, Commit
<1> DEFINE i == req[q].inv
           t == row[i].to
<1>1. i \in Invoices /\ num \in [Regs -> Nat] /\ req[q].seen \in Nat /\ req[q].pc = "commit"
  BY DEF Commit, IInv, TypeOK, AccountsOK, RequestsOK, Local
<1>2. ~Holds(q, r)' /\ ~Confirming(q, r)'
  <2>1. req'[q].pc \notin {"fee", "commit", "edit"}
    BY <1>1, Settles DEF Continue, Process, SplitFee, ReadRegistration, Runs
  <2> QED
    BY <2>1 DEF Holds, Confirming, Editing
<1>3. \A p \in Requests \ {q} : /\ Confirming(p, r)' = Confirming(p, r) /\ Holds(p, r)' = Holds(p, r)
                                /\ req'[p].seen = req[p].seen
  BY OthersHold DEF Continue
<1>4. Booked(r) \in Nat /\ IsFiniteSet(Payments(r))
  BY BookedIsNat
<1>5. CASE req[q].fresh /\ t = r
  <2>1. i \notin Payments(r)
    BY <1>5, CommitItem DEF Payments
  <2>2. Booked(r)' = Booked(r) + 1
    <3>1. Payments(r)' = Payments(r) \cup {i}
      BY <1>5, CommitBooks
    <3> QED
      BY <1>4, <2>1, <3>1, FS_AddElement DEF Booked
  <2>3. num'[r] = req[q].seen + 1
    BY <1>1, <1>5 DEF Commit, Counted
  <2>4. Confirming(q, r) /\ Holds(q, r)
    BY <1>1, <1>5 DEF Confirming, Holds
  <2>5. num'[r] <= Booked(r)' + 1
    BY <1>1, <1>4, <2>2, <2>3, <2>4 DEF NumInv, Behind
  <2>6. ASSUME NEW p \in Requests, Holds(p, r)' PROVE req'[p].seen <= Booked(r)' + 1
    <3>1. p # q /\ Holds(p, r) /\ req'[p].seen = req[p].seen /\ req[p].seen \in Nat
      BY <1>2, <1>3, <2>6 DEF IInv, TypeOK, RequestsOK, Local
    <3> QED
      BY <1>4, <2>2, <3>1 DEF NumInv, Behind
  <2>7. ASSUME r \notin crossed PROVE Exact(r)'
    <3>1. Exact(r)
      BY <2>7 DEF NumInv
    <3>2. \A p \in Requests : ~Holds(p, r)' /\ ~Confirming(p, r)'
      BY <1>2, <1>3, <2>4, <3>1 DEF Exact, Holds
    <3>3. num'[r] = Booked(r)' + 1
      BY <1>1, <1>4, <2>2, <2>3, <2>4, <3>1 DEF Exact
    <3> QED
      BY <3>2, <3>3 DEF Exact
  <2> QED
    BY <2>5, <2>6, <2>7 DEF Behind
<1>6. CASE ~(req[q].fresh /\ t = r)
  <2>1. Booked(r)' = Booked(r)
    BY <1>6, CommitBooks DEF Booked
  <2>2. num'[r] = num[r]
    BY <1>1, <1>6 DEF Commit, Counted
  <2> QED
    BY <1>2, <1>3, <2>1, <2>2, NumbersStand
<1> QED
  BY <1>5, <1>6

\* The registration is read: what is held is its number, and whoever meets a
\* confirmation, or is one that meets somebody, is noted in crossed.
LEMMA ProcessMeets ==
  ASSUME IInv, NEW q \in Requests, Process(q), NEW r \in Regs
  PROVE  /\ Holds(q, r)' => Confirming(q, r)' /\ req'[q].seen = num[r]
         /\ Confirming(q, r)' /\ r \notin crossed' => \A p \in Requests \ {q} : ~Holds(p, r)
<1>1. req \in [Requests -> Local] /\ req[q] \in Local
  BY DEF IInv, TypeOK, RequestsOK
<1>2. /\ row' = row /\ req'[q].inv = req[q].inv /\ req'[q].pc \in {"fee", "commit"}
      /\ req'[q].seen = (IF row[req[q].inv].to \in Regs THEN num[row[req[q].inv].to] ELSE 0)
      /\ req'[q].fresh = (item[req[q].inv] = NoItem)
  BY <1>1 DEF Process, HasRead, Local
<1>3. Holds(q, r)' => Confirming(q, r)' /\ req'[q].seen = num[r]
  BY <1>2 DEF Holds, Confirming, Editing
<1>4. ASSUME Confirming(q, r)', r \notin crossed', NEW p \in Requests \ {q} PROVE ~Holds(p, r)
  <2>1. row[req[q].inv].to = r /\ item[req[q].inv] = NoItem
    BY <1>2, <1>4 DEF Confirming
  <2> QED
    BY <1>4, <2>1 DEF Process, Holds
<1> QED
  BY <1>3, <1>4

LEMMA EditMeets ==
  ASSUME IInv, NEW q \in Requests, NEW t \in Regs, ReadRegistration(q, t), NEW r \in Regs
  PROVE  /\ ~Confirming(q, r)'
         /\ Holds(q, r)' => req'[q].seen = num[r]
         /\ Holds(q, r)' /\ r \notin crossed' => \A p \in Requests : ~Confirming(p, r)
<1>1. req'[q] = Copied(t)
  BY DEF ReadRegistration, IInv, TypeOK, RequestsOK
<1>2. Copied(t).pc = "edit" /\ Copied(t).copy.to = t /\ Copied(t).seen = num[t]
  BY CopiedFields DEF IInv, TypeOK, AccountsOK
<1>3. ~Confirming(q, r)' /\ (Holds(q, r)' => t = r)
  BY <1>1, <1>2 DEF Holds, Confirming, Editing
<1>4. t \notin crossed' => \A p \in Requests : ~Confirming(p, t)
  BY DEF ReadRegistration
<1> QED
  BY <1>1, <1>2, <1>3, <1>4

LEMMA ReadNumbers ==
  ASSUME IInv, NumInv, NEW q \in Requests, Process(q) \/ \E t \in Regs : ReadRegistration(q, t)
  PROVE  NumInv'
<1> SUFFICES ASSUME NEW r \in Regs PROVE Behind(r)' /\ (r \notin crossed' => Exact(r)')
  BY DEF NumInv
<1>1. Booked(r)' = Booked(r) /\ num'[r] = num[r] /\ Booked(r) \in Nat /\ Behind(r)
  BY BookedIsNat DEF Process, ReadRegistration, Booked, Payments, NumInv
<1>2. \A p \in Requests \ {q} : /\ Confirming(p, r)' = Confirming(p, r) /\ Holds(p, r)' = Holds(p, r)
                                /\ req'[p].seen = req[p].seen
  BY OthersHold DEF Begin, Continue
<1>3. /\ Holds(q, r)' => req'[q].seen = num[r]
      /\ Confirming(q, r)' /\ r \notin crossed' => \A p \in Requests \ {q} : ~Holds(p, r)
      /\ Holds(q, r)' /\ r \notin crossed' => \A p \in Requests \ {q} : ~Confirming(p, r)
  BY ProcessMeets, EditMeets DEF Holds
<1>4. Behind(r)'
  <2>1. ASSUME NEW p \in Requests, Holds(p, r)' PROVE req'[p].seen <= Booked(r) + 1
    <3>1. CASE p = q
      BY <1>1, <1>3, <2>1, <3>1 DEF Behind
    <3>2. CASE p # q
      BY <1>1, <1>2, <2>1, <3>2 DEF Behind
    <3> QED
      BY <3>1, <3>2
  <2> QED
    BY <1>1, <2>1 DEF Behind
<1>5. ASSUME r \notin crossed' PROVE Exact(r)'
  <2>1. Exact(r)
    BY <1>5 DEF NumInv, Process, ReadRegistration
  <2>2. ASSUME NEW p \in Requests, Holds(p, r)' PROVE req'[p].seen = num[r]
    <3>1. CASE p = q
      BY <1>3, <2>2, <3>1
    <3>2. CASE p # q
      BY <1>2, <2>1, <2>2, <3>2 DEF Exact
    <3> QED
      BY <3>1, <3>2
  <2>3. ASSUME NEW p \in Requests, NEW o \in Requests, Confirming(p, r)', Holds(o, r)' PROVE o = p
    <3>1. CASE p = q
      BY <1>2, <1>3, <1>5, <2>3, <3>1
    <3>2. CASE p # q /\ o = q
      BY <1>2, <1>3, <1>5, <2>3, <3>2
    <3>3. CASE p # q /\ o # q
      BY <1>2, <2>1, <2>3, <3>3 DEF Exact
    <3> QED
      BY <3>1, <3>2, <3>3
  <2> QED
    BY <1>1, <2>1, <2>2, <2>3 DEF Exact
<1> QED
  BY <1>4, <1>5

LEMMA SplitNumbers == ASSUME IInv, NumInv, NEW q \in Requests, SplitFee(q) PROVE NumInv'
<1> SUFFICES ASSUME NEW r \in Regs PROVE Behind(r)' /\ (r \notin crossed => Exact(r)')
  BY DEF NumInv, SplitFee
<1>1. Booked(r)' = Booked(r) /\ num'[r] = num[r]
  BY DEF SplitFee, Booked, Payments
<1>2. \A p \in Requests \ {q} : /\ Confirming(p, r)' = Confirming(p, r) /\ Holds(p, r)' = Holds(p, r)
                                /\ req'[p].seen = req[p].seen
  BY OthersHold DEF Continue
<1>3. Confirming(q, r)' = Confirming(q, r) /\ Holds(q, r)' = Holds(q, r) /\ req'[q].seen = req[q].seen
  <2>1. /\ req[q].pc = "fee" /\ req'[q].pc = "commit" /\ req'[q].inv = req[q].inv /\ req'[q].fresh = req[q].fresh
        /\ req'[q].seen = req[q].seen /\ row' = row
    BY DEF SplitFee, Split, IInv, TypeOK, RequestsOK, Local
  <2> QED
    BY <2>1 DEF Holds, Confirming, Editing
<1> QED
  BY <1>1, <1>2, <1>3, NumbersStand

\* The number that was read is written back; it is the registration's own
\* unless a confirmation was crossed.
LEMMA SaveNumbers == ASSUME IInv, NumInv, NEW q \in Requests, SaveRegistration(q) PROVE NumInv'
<1> DEFINE t == req[q].copy.to
<1>1. t \in Regs /\ num \in [Regs -> Nat] /\ req[q].pc = "edit"
  BY DEF SaveRegistration, IInv, TypeOK, AccountsOK, RequestsOK
<1>2. num' = [num EXCEPT ![t] = req[q].seen] /\ UNCHANGED <<item, crossed>>
  BY DEF SaveRegistration
<1> SUFFICES ASSUME NEW r \in Regs PROVE Behind(r)' /\ (r \notin crossed => Exact(r)')
  BY <1>2 DEF NumInv
<1>3. Booked(r)' = Booked(r)
  BY <1>2 DEF Booked, Payments
<1>4. ~Holds(q, r)' /\ ~Confirming(q, r)'
  <2>1. req'[q].pc = "idle"
    BY IdleFields DEF SaveRegistration, IInv, TypeOK, RequestsOK
  <2> QED
    BY <2>1 DEF Holds, Confirming, Editing
<1>5. \A p \in Requests \ {q} : /\ Confirming(p, r)' = Confirming(p, r) /\ Holds(p, r)' = Holds(p, r)
                                /\ req'[p].seen = req[p].seen
  BY OthersHold DEF Continue
<1>6. num'[r] = num[r] \/ (r \in crossed /\ num'[r] <= Booked(r) + 1)
  <2>1. CASE r = t
    <3>1. Holds(q, r) /\ num'[r] = req[q].seen
      BY <1>1, <1>2, <2>1 DEF Holds, Editing
    <3> QED
      BY <3>1 DEF NumInv, Behind, Exact
  <2>2. CASE r # t
    BY <1>1, <1>2, <2>2
  <2> QED
    BY <2>1, <2>2
<1> QED
  BY <1>3, <1>4, <1>5, <1>6, NumbersStand

\* num_payments never runs ahead of the payments, and is exact for every
\* registration of which no confirmation overlapped with another request that
\* had read its row (_process_payment, save_registration).
THEOREM PaymentsCounted == Spec => []PaymentsNumbered
<1>1. Init => NumInv
  <2> SUFFICES ASSUME Init, NEW r \in Regs PROVE Behind(r) /\ Exact(r)
    BY DEF NumInv
  <2>1. num[r] = 1 /\ Booked(r) = 0
    <3>1. Payments(r) = {}
      BY DEF Init, Payments
    <3> QED
      BY <3>1, FS_EmptySet DEF Init, Booked
  <2>2. \A q \in Requests : ~Holds(q, r) /\ ~Confirming(q, r)
    BY IdleFields DEF Init, Holds, Confirming, Editing
  <2> QED
    BY <2>1, <2>2 DEF Behind, Exact
<1>2. IInv /\ NumInv /\ [Next]_vars => NumInv'
  <2> SUFFICES ASSUME IInv, NumInv, [Next]_vars PROVE NumInv'
    OBVIOUS
  <2>1. ASSUME NEW q \in Requests, Begin(q) \/ Continue(q) \/ Crash(q) PROVE NumInv'
    <3>1. CASE /\ ~Commit(q) /\ ~Process(q) /\ ~SplitFee(q) /\ ~SaveRegistration(q)
               /\ \A r \in Regs : ~ReadRegistration(q, r)
      <4>1. req'[q].pc \notin {"fee", "commit", "edit"}
        BY <2>1, <3>1, Settles
      <4>2. UNCHANGED <<item, num, crossed>>
        <5>1. CASE Begin(q)
          BY <3>1, <5>1 DEF Begin, OpenForm, Submit, TreasurerConfirms, OrganizerConfirms, AskSatispay, Expire,
                            DeskMembership, Webhook
        <5>2. CASE Continue(q)
          BY <3>1, <5>2 DEF Continue, SaveForm, IssueCheckout, GatewayRefuses, Store, SatispayAccepts,
                            SatispayDeclines, ReceiveMoney, Lock, Reject, Write
        <5>3. CASE Crash(q)
          BY <5>3 DEF Crash
        <5> QED
          BY <2>1, <5>1, <5>2, <5>3
      <4> QED
        BY <2>1, <4>1, <4>2, QuietNumbers
    <3> QED
      BY <3>1, CommitNumbers, ReadNumbers, SplitNumbers, SaveNumbers
  <2>2. CASE (\E c \in open : Capture(c)) \/ (\E k \in Currencies : ChangeCurrency(k)) \/ UNCHANGED vars
    <3>1. UNCHANGED <<row, item, num, req, crossed>>
      BY <2>2 DEF Capture, ChangeCurrency, vars
    <3> QED
      BY <3>1 DEF NumInv, Behind, Exact, Holds, Confirming, Editing, Booked, Payments
  <2> QED
    BY <2>1, <2>2 DEF Next
<1>3. NumInv => PaymentsNumbered
  BY DEF NumInv, Behind, Exact, Booked, PaymentsNumbered
<1> QED
  BY <1>1, <1>2, <1>3, IInvHolds, PTL DEF Spec

LEMMA CommitMembership ==
  ASSUME IInv, MembershipPaidOnce, NEW q \in Requests, Commit(q)
  PROVE  MembershipPaidOnce'
<1> SUFFICES ASSUME NEW j \in Invoices, item'[j] # NoItem, item'[j].to = "membership" PROVE year' = j
  BY DEF MembershipPaidOnce
<1> DEFINE i == req[q].inv
<1>1. year' = IF year = NoInvoice /\ req[q].fresh /\ (req[q].split > 0 \/ row[i].to = "membership") THEN i ELSE year
  BY DEF Commit
<1>2. j \in Payments("membership")'
  BY DEF Payments
<1>3. CASE j \in Payments("membership")
  <2>1. year = j /\ year # NoInvoice
    BY <1>3, ConstantsAssumption DEF Payments, MembershipPaidOnce
  <2> QED
    BY <1>1, <2>1
<1>4. CASE j \notin Payments("membership")
  <2>1. j = i /\ req[q].fresh /\ row[i].to = "membership"
    BY <1>2, <1>4, CommitBooks
  <2>2. year = NoInvoice
    BY <2>1 DEF Commit, Rejected
  <2> QED
    BY <1>1, <2>1, <2>2
<1> QED
  BY <1>3, <1>4

\* A year's membership fee is never paid by two membership invoices.
THEOREM MembershipUnique == Spec => []MembershipPaidOnce
<1>1. Init => MembershipPaidOnce
  BY DEF Init, MembershipPaidOnce
<1>2. IInv /\ MembershipPaidOnce /\ [Next]_vars => MembershipPaidOnce'
  <2> SUFFICES ASSUME IInv, MembershipPaidOnce, [Next]_vars PROVE MembershipPaidOnce'
    OBVIOUS
  <2>1. CASE \E q \in Requests : Commit(q)
    BY <2>1, CommitMembership
  <2>2. CASE ~\E q \in Requests : Commit(q)
    BY <2>2, BookedOnCommit DEF MembershipPaidOnce
  <2> QED
    BY <2>1, <2>2
<1> QED
  BY <1>1, <1>2, IInvHolds, PTL DEF Spec

-----------------------------------------------------------------------------
(* The protocol implements PaymentLedger. *)

Shown == {i \in Invoices : row[i].status \in Paid}

\* A row replaced without touching the items is a Show, a Hide or nothing.
LEMMA RowStepMaps ==
  ASSUME IInv, NEW i \in Invoices, NEW r \in Row, row' = [row EXCEPT ![i] = r], item' = item,
         r.status \in Paid => item[i] # NoItem
  PROVE  Ledger!Next
<1>1. row \in [Invoices -> Row]
  BY DEF IInv, TypeOK, TablesOK
<1>3. CASE r.status \in Paid
  <2>1. Shown' = Shown \cup {i}
    BY <1>1, <1>3 DEF Shown
  <2>2. Ledger!Show(i)
    BY <1>3, <2>1 DEF Ledger!Show, Shown
  <2> QED
    BY <2>2 DEF Ledger!Next
<1>4. CASE r.status \notin Paid
  <2>1. Shown' = Shown \ {i}
    BY <1>1, <1>4 DEF Shown
  <2>2. Ledger!Hide(i)
    BY <2>1 DEF Ledger!Hide, Shown
  <2> QED
    BY <2>2 DEF Ledger!Next
<1> QED
  BY <1>3, <1>4

LEMMA CommitMaps ==
  ASSUME IInv, NEW q \in Requests, Commit(q)
  PROVE  Ledger!Next \/ UNCHANGED <<item, row>>
<1> DEFINE c == req[q].copy
<1>1. /\ req[q].inv \in Invoices /\ c \in Row /\ req[q].pc = "commit"
      /\ row \in [Invoices -> Row] /\ item \in [Invoices -> Item \cup {NoItem}]
  BY DEF Commit, IInv, TypeOK, TablesOK, RequestsOK, Local
<1>2. PICK i \in Invoices : i = req[q].inv
  BY <1>1
<1>3. row' = row \/ row' = [row EXCEPT ![i] = c]
  BY <1>2 DEF Commit
<1>4. CASE ~req[q].fresh
  <2>1. item' = item /\ item[i] # NoItem
    BY <1>2, <1>4, CommitItem
  <2> QED
    BY <1>1, <1>3, <2>1, RowStepMaps
<1>5. CASE req[q].fresh
  <2>1. item' = [item EXCEPT ![i] = Entry(q)] /\ item[i] = NoItem /\ Entry(q) \in Item
    BY <1>1, <1>2, <1>5, CommitItem, EntryFields
  <2>2. row[i].status \notin Paid
    BY <2>1 DEF IInv, PaidIsCredited
  <2>3. Shown' = Shown \/ Shown' = Shown \cup {i}
    BY <1>1, <1>3, <2>2 DEF Shown
  <2>4. Ledger!Book(i)
    BY <1>1, <2>1, <2>3 DEF Ledger!Book, Shown
  <2> QED
    BY <2>4 DEF Ledger!Next
<1> QED
  BY <1>4, <1>5

LEMMA StepMaps ==
  ASSUME IInv, [Next]_vars
  PROVE  Ledger!Next \/ UNCHANGED <<item, row>>
<1>1. ASSUME NEW q \in Requests, Begin(q) PROVE Ledger!Next \/ UNCHANGED <<item, row>>
  <2>1. ASSUME NEW i \in Invoices, NEW g \in Grosses, DeskMembership(q, i, g) PROVE Ledger!Next
    <3> DEFINE r == [status |-> "created", to |-> "membership", key |-> 1, method |-> "wire", gross |-> g, cod |-> 0]
    <3>1. r \in Row /\ r.status \notin Paid
      BY ConstantsAssumption DEF Row, Statuses, Alive, Paid, Targets, Slugs
    <3>2. row' = [row EXCEPT ![i] = r] /\ item' = item
      BY <2>1 DEF DeskMembership
    <3> HIDE DEF r
    <3> QED
      BY <3>1, <3>2, RowStepMaps
  <2>2. ASSUME NEW i \in Invoices, Expire(q, i) PROVE Ledger!Next
    <3>1. WithStatus(row[i], "deleted") \in Row /\ WithStatus(row[i], "deleted").status \notin Paid
      BY RowFields DEF IInv, TypeOK, TablesOK, Statuses, Paid
    <3>2. row' = [row EXCEPT ![i] = WithStatus(row[i], "deleted")] /\ item' = item
      BY <2>2 DEF Expire
    <3> QED
      BY <3>1, <3>2, RowStepMaps
  <2> QED
    BY <1>1, <2>1, <2>2 DEF Begin, OpenForm, Submit, TreasurerConfirms, OrganizerConfirms, AskSatispay, Webhook,
                               ReadRegistration
<1>2. ASSUME NEW q \in Requests, Continue(q) PROVE Ledger!Next \/ UNCHANGED <<item, row>>
  <2> DEFINE i == req[q].inv
             c == req[q].copy
  <2>1. CASE SaveForm(q) \/ Store(q) \/ Write(q)
    <3>1. i \in Invoices /\ c \in Row /\ (c.status \in Paid => item[i] # NoItem)
      BY <2>1 DEF SaveForm, Store, Write, IInv, TypeOK, RequestsOK, Local, CopyStatus, Paid
    <3>2. row' = [row EXCEPT ![i] = c] /\ item' = item
      BY <2>1 DEF SaveForm, Store, Write
    <3> QED
      BY <3>1, <3>2, RowStepMaps
  <2>2. CASE Commit(q)
    BY <2>2, CommitMaps
  <2>3. CASE ~(SaveForm(q) \/ Store(q) \/ Write(q) \/ Commit(q))
    BY <1>2, <2>3 DEF Continue, IssueCheckout, GatewayRefuses, SatispayAccepts, SatispayDeclines, ReceiveMoney,
                      SaveRegistration, Lock, Process, SplitFee, Reject
  <2> QED
    BY <2>1, <2>2, <2>3
<1>3. ASSUME NEW q \in Requests, Crash(q) PROVE UNCHANGED <<item, row>>
  BY <1>3 DEF Crash
<1>4. CASE (\E c \in open : Capture(c)) \/ (\E k \in Currencies : ChangeCurrency(k))
  BY <1>4 DEF Capture, ChangeCurrency
<1>5. CASE UNCHANGED vars
  BY <1>5 DEF vars
<1> QED
  BY <1>1, <1>2, <1>3, <1>4, <1>5 DEF Next

\* Whatever the requests, callbacks, retries and crashes do, an invoice is
\* credited once and for good, and shown as paid only when it is credited.
THEOREM LedgerImplemented == Spec => ImplementsLedger
<1>1. Init => Ledger!Init
  BY DEF Init, Ledger!Init, Blank, Paid
<1>2. IInv /\ [Next]_vars => [Ledger!Next]_<<item, Shown>>
  BY StepMaps DEF Shown
<1>3. IInv /\ [Next]_vars => [Ledger!Next]_<<item, {i \in Invoices : row[i].status \in Paid}>>
  BY <1>2 DEF Shown
<1> QED
  BY <1>1, <1>3, IInvHolds, PTL DEF Spec, ImplementsLedger, Ledger!Spec

-----------------------------------------------------------------------------
(* The bundled fee: what a registration's payment was cut by at its reading  *)
(* is the fee of the year at its commit.  It relies on the reservation: its  *)
(* row is locked from the reading on.                                        *)

Standing(q) ==
  /\ plock = q
  /\ row[req[q].inv].to \in Regs /\ pending = row[req[q].inv].to
  /\ year = NoInvoice \/ outpaid
SplitStands == \A q \in Requests : req[q].pc = "commit" /\ req[q].split > 0 => Standing(q)

SplitInv == SplitStands /\ SplitIsBooked

\* The reservation a request has locked is not moved or released by another,
\* and a fee booked meanwhile is noted.
LEMMA ReservationStands ==
  ASSUME IInv, SplitStands, NEW q \in Requests, Begin(q) \/ Continue(q) \/ Crash(q),
         NEW p \in Requests \ {q}, req[p].pc = "commit", req[p].split > 0
  PROVE  Standing(p)'
<1>1. Standing(p) /\ req'[p] = req[p] /\ row'[req[p].inv] = row[req[p].inv]
  BY OthersStay, RowsStand DEF SplitStands
<1>2. pending # NoReg /\ plock # NoRequest /\ plock = p
  BY <1>1, ConstantsAssumption DEF Standing
<1>3. Release(q) => plock' = plock
  BY <1>2 DEF Release
<1>4. plock' = plock /\ pending' = pending /\ (year' = NoInvoice \/ outpaid')
  <2>1. CASE Begin(q)
    <3>1. ASSUME NEW i \in Invoices, NEW t \in Pages, NEW g \in Grosses, NEW m \in Methods, OpenForm(q, i, t, g, m)
          PROVE  plock' = plock /\ pending' = pending /\ year' = year /\ outpaid' = outpaid
      BY <1>2, <3>1 DEF OpenForm, BundledFee
    <3>2. \A i \in Invoices : ~Expire(q, i)
      BY <1>2 DEF Expire
    <3> QED
      BY <1>1, <2>1, <3>1, <3>2 DEF Begin, Submit, TreasurerConfirms, OrganizerConfirms, AskSatispay, DeskMembership,
                                    Webhook, ReadRegistration, Standing
  <2>2. CASE Commit(q)
    <3>1. req[q].split \in Nat /\ req[q].pc = "commit"
      BY <2>2 DEF Commit, IInv, TypeOK, RequestsOK, Local
    <3>2. ~(req[q].split > 0)
      BY <1>2, <3>1 DEF SplitStands, Standing
    <3>3. plock' = plock /\ pending' = pending
      BY <1>3, <2>2, <3>2 DEF Commit
    <3>4. year' = NoInvoice \/ outpaid'
      BY <1>1, <2>2, <3>2 DEF Commit, Standing
    <3> QED
      BY <3>3, <3>4
  <2>3. CASE Continue(q) /\ ~Commit(q)
    <3>1. UNCHANGED <<pending, year, outpaid>>
      BY <2>3 DEF Continue, SaveForm, IssueCheckout, GatewayRefuses, Store, SatispayAccepts, SatispayDeclines,
                  ReceiveMoney, SaveRegistration, Lock, Process, SplitFee, Reject, Write
    <3>2. CASE SplitFee(q)
      BY <1>1, <1>2, <3>1, <3>2 DEF SplitFee, Standing
    <3>3. CASE ~SplitFee(q)
      <4>1. plock' = plock
        BY <1>3, <2>3, <3>3 DEF Continue, SaveForm, IssueCheckout, GatewayRefuses, Store, SatispayAccepts,
              SatispayDeclines, ReceiveMoney, SaveRegistration, Lock, Process, Reject, Write
      <4> QED
        BY <1>1, <3>1, <4>1 DEF Standing
    <3> QED
      BY <3>2, <3>3
  <2>4. CASE Crash(q)
    BY <1>1, <1>3, <2>4 DEF Crash, Standing
  <2> QED
    BY <2>1, <2>2, <2>3, <2>4
<1> QED
  BY <1>1, <1>4 DEF Standing

\* A request comes to hold a part of the fee only by the reading of its own.
LEMMA SplitsStand ==
  ASSUME IInv, SplitStands, NEW q \in Requests, Begin(q) \/ Continue(q) \/ Crash(q)
  PROVE  SplitStands'
<1> SUFFICES ASSUME NEW p \in Requests, req'[p].pc = "commit", req'[p].split > 0 PROVE Standing(p)'
  BY DEF SplitStands
<1>1. CASE p # q
  <2>1. req'[p] = req[p]
    BY <1>1, OthersStay
  <2> QED
    BY <1>1, <2>1, ReservationStands
<1>2. CASE p = q
  <2>1. req[q] \in Local /\ req \in [Requests -> Local]
    BY DEF IInv, TypeOK, RequestsOK
  <2>2. Process(q) \/ SplitFee(q) \/ \E r \in Regs : ReadRegistration(q, r)
    BY <1>2, Settles
  <2>3. ~Process(q)
    <3>1. ASSUME Process(q) PROVE req'[q].split = 0
      BY <2>1, <3>1 DEF Process, HasRead, Local
    <3> QED
      BY <1>2, <3>1
  <2>4. ASSUME NEW r \in Regs, ReadRegistration(q, r) PROVE FALSE
    <3>1. req'[q] = Copied(r) /\ Copied(r).pc = "edit"
      BY <2>1, <2>4, CopiedFields DEF ReadRegistration, IInv, TypeOK, AccountsOK
    <3> QED
      BY <1>2, <3>1
  <2>5. SplitFee(q)
    BY <2>2, <2>3, <2>4
  <2>6. /\ req'[q].inv = req[q].inv /\ req'[q].split = SplitOf(req[q].inv)
        /\ UNCHANGED <<row, pending, year>>
        /\ pending = row[req[q].inv].to => plock' = q
    BY <2>1, <2>5 DEF SplitFee, Split, Local
  <2>7. /\ row[req[q].inv].to \in Regs /\ pending = row[req[q].inv].to /\ year = NoInvoice
    BY <1>2, <2>6 DEF SplitOf, BundledFee
  <2> QED
    BY <1>2, <2>6, <2>7 DEF Standing
<1> QED
  BY <1>1, <1>2

\* What was split off is booked as the fee of the year.
LEMMA CommitSplit == ASSUME IInv, SplitInv, NEW q \in Requests, Commit(q) PROVE SplitIsBooked'
<1> SUFFICES ASSUME ~outpaid', NEW j \in Invoices, item'[j] # NoItem, item'[j].value # item'[j].base
             PROVE  year' = j
  BY DEF SplitIsBooked
<1> DEFINE i == req[q].inv
<1>1. /\ req[q] \in Local /\ i \in Invoices /\ req[q].pc = "commit" /\ row[i] \in Row
      /\ ~outpaid
      /\ year' = IF year = NoInvoice /\ req[q].fresh /\ (req[q].split > 0 \/ row[i].to = "membership") THEN i ELSE year
  BY DEF Commit, IInv, TypeOK, RequestsOK, TablesOK
<1>2. CASE item'[j] = item[j]
  <2>1. year = j /\ year # NoInvoice
    BY <1>1, <1>2, ConstantsAssumption DEF SplitInv, SplitIsBooked
  <2> QED
    BY <1>1, <2>1
<1>3. CASE item'[j] # item[j]
  <2>1. j = i /\ req[q].fresh /\ item'[i] = Entry(q)
    BY <1>1, <1>3, CommitItem DEF IInv, TypeOK, TablesOK
  <2>2. Entry(q).value = row[i].gross - req[q].split /\ Entry(q).base = row[i].gross
    BY DEF Entry
  <2>3. req[q].split \in Nat /\ row[i].gross \in Nat
    BY <1>1 DEF Local, Row
  <2>4. req[q].split > 0
    BY <2>1, <2>2, <2>3
  <2>5. year = NoInvoice
    BY <1>1, <2>4 DEF SplitInv, SplitStands, Standing
  <2> QED
    BY <1>1, <2>1, <2>4, <2>5
<1> QED
  BY <1>2, <1>3

\* What is split off a registration's payment is booked as the fee of the
\* year, and nothing else is, unless a fee paid by itself is booked in the
\* moment between (check_bundled_membership_fee, _process_membership).
THEOREM SplitsAreBooked == Spec => []SplitIsBooked
<1>1. Init => SplitInv
  BY IdleFields DEF Init, SplitInv, SplitStands, SplitIsBooked
<1>2. IInv /\ SplitInv /\ [Next]_vars => SplitInv'
  <2> SUFFICES ASSUME IInv, SplitInv, [Next]_vars PROVE SplitInv'
    OBVIOUS
  <2>1. SplitStands'
    <3>1. ASSUME NEW q \in Requests, Begin(q) \/ Continue(q) \/ Crash(q) PROVE SplitStands'
      BY <3>1, SplitsStand DEF SplitInv
    <3>2. CASE (\E c \in open : Capture(c)) \/ (\E k \in Currencies : ChangeCurrency(k)) \/ UNCHANGED vars
      <4>1. UNCHANGED <<row, req, plock, pending, year, outpaid>>
        BY <3>2 DEF Capture, ChangeCurrency, vars
      <4> QED
        BY <4>1 DEF SplitInv, SplitStands, Standing
    <3> QED
      BY <3>1, <3>2 DEF Next
  <2>2. SplitIsBooked'
    <3>1. ASSUME NEW q \in Requests, Commit(q) PROVE SplitIsBooked'
      BY <3>1, CommitSplit
    <3>2. CASE ~\E q \in Requests : Commit(q)
      <4>1. UNCHANGED <<item, year>>
        BY <3>2, BookedOnCommit
      <4>2. outpaid' = outpaid
        <5>1. ASSUME NEW q \in Requests, Begin(q) PROVE outpaid' = outpaid
          BY <5>1 DEF Begin, OpenForm, Submit, TreasurerConfirms, OrganizerConfirms, AskSatispay, Expire,
                      DeskMembership, Webhook, ReadRegistration
        <5>2. ASSUME NEW q \in Requests, Continue(q) PROVE outpaid' = outpaid
          BY <3>2, <5>2 DEF Continue, SaveForm, IssueCheckout, GatewayRefuses, Store, SatispayAccepts,
                      SatispayDeclines, ReceiveMoney, SaveRegistration, Lock, Process, SplitFee, Reject, Write
        <5> QED
          BY <5>1, <5>2 DEF Next, Crash, Capture, ChangeCurrency, vars
      <4> QED
        BY <4>1, <4>2 DEF SplitInv, SplitIsBooked
    <3> QED
      BY <3>1, <3>2
  <2> QED
    BY <2>1, <2>2 DEF SplitInv
<1>3. SplitInv => SplitIsBooked
  BY DEF SplitInv
<1> QED
  BY <1>1, <1>2, <1>3, IInvHolds, PTL DEF Spec

-----------------------------------------------------------------------------
(* Registration accounting.                                                *)

(* Numbers below each other: an enumeration in order has every element     *)
(* once.                                                                   *)
Orders(ids, before) ==
  \A i, j, l \in ids : /\ <<i, i>> \notin before
                       /\ <<i, j>> \in before /\ <<j, l>> \in before => <<i, l>> \in before
                       /\ i # j => <<i, j>> \in before \/ <<j, i>> \in before

(* A list of a set in the order of a relation that orders it: every member *)
(* is in it, once.                                                         *)
LEMMA InOrderEnumerates ==
  ASSUME NEW ids, IsFiniteSet(ids), NEW before, Orders(ids, before)
  PROVE  /\ InOrder(ids, before) \in [1..Cardinality(ids) -> ids]
         /\ \A i \in ids : \E n \in 1..Cardinality(ids) : InOrder(ids, before)[n] = i
         /\ \A m, n \in 1..Cardinality(ids) : InOrder(ids, before)[m] = InOrder(ids, before)[n] => m = n
         /\ \A m, n \in 1..Cardinality(ids) : m < n => <<InOrder(ids, before)[m], InOrder(ids, before)[n]>> \in before
<1> DEFINE N == Cardinality(ids)
           Below(i) == {j \in ids : <<j, i>> \in before}
           place == [i \in ids |-> Cardinality(Below(i)) + 1]
<1>1. N \in Nat /\ IsFiniteSet(1..N) /\ Cardinality(1..N) = N
  BY FS_CardinalityType, FS_Interval
<1>2. \A i \in ids : IsFiniteSet(Below(i)) /\ Cardinality(Below(i)) \in Nat /\ Cardinality(Below(i)) < N
  <2> SUFFICES ASSUME NEW i \in ids
               PROVE  IsFiniteSet(Below(i)) /\ Cardinality(Below(i)) \in Nat /\ Cardinality(Below(i)) < N
    OBVIOUS
  <2>1. Below(i) \in SUBSET ids /\ i \notin Below(i)
    BY DEF Orders
  <2>2. IsFiniteSet(Below(i)) /\ Cardinality(Below(i)) <= N /\ (Cardinality(ids) = Cardinality(Below(i)) => ids = Below(i))
    BY <2>1, FS_Subset
  <2>3. Cardinality(Below(i)) \in Nat
    BY <2>2, FS_CardinalityType
  <2> HIDE DEF Below
  <2> QED BY <1>1, <2>1, <2>2, <2>3
<1>3. \A i, j \in ids : <<i, j>> \in before => Cardinality(Below(i)) < Cardinality(Below(j))
  <2> SUFFICES ASSUME NEW i \in ids, NEW j \in ids, <<i, j>> \in before
               PROVE  Cardinality(Below(i)) < Cardinality(Below(j))
    OBVIOUS
  <2>1. Below(i) \in SUBSET Below(j) /\ i \in Below(j) /\ i \notin Below(i)
    BY DEF Orders
  <2>2. Cardinality(Below(i)) <= Cardinality(Below(j)) /\ (Cardinality(Below(j)) = Cardinality(Below(i)) => Below(j) = Below(i))
    BY <1>2, <2>1, FS_Subset
  <2> HIDE DEF Below
  <2> QED BY <1>2, <2>1, <2>2
<1>4. place \in [ids -> 1..N]
  <2> HIDE DEF Below
  <2> QED BY <1>1, <1>2
<1>5. \A i, j \in ids : place[i] = place[j] => i = j
  <2> SUFFICES ASSUME NEW i \in ids, NEW j \in ids, place[i] = place[j], i # j PROVE FALSE
    OBVIOUS
  <2>1. <<i, j>> \in before \/ <<j, i>> \in before
    BY DEF Orders
  <2> HIDE DEF Below
  <2>2. place[i] = Cardinality(Below(i)) + 1 /\ place[j] = Cardinality(Below(j)) + 1
    OBVIOUS
  <2> QED BY <1>2, <1>3, <2>1, <2>2
<1>6. place \in Injection(ids, 1..N)
  BY <1>4, <1>5 DEF Injection, IsInjective
<1>7. place \in Surjection(ids, 1..N)
  BY <1>1, <1>6, FS_Injection
<1>8. \A n \in 1..N : \E i \in ids : place[i] = n
  BY <1>7 DEF Surjection
<1> DEFINE f == InOrder(ids, before)
<1>9. f = [n \in 1..N |-> CHOOSE i \in ids : Cardinality(Below(i)) = n - 1]
  BY DEF InOrder
<1>10. \A n \in 1..N : f[n] \in ids /\ place[f[n]] = n
  <2> SUFFICES ASSUME NEW n \in 1..N PROVE f[n] \in ids /\ place[f[n]] = n
    OBVIOUS
  <2>1. f[n] = CHOOSE i \in ids : Cardinality(Below(i)) = n - 1
    <3> HIDE DEF f, N
    <3> QED BY <1>9
  <2>2. \E i \in ids : Cardinality(Below(i)) = n - 1
    <3>1. PICK i \in ids : place[i] = n
      BY <1>8
    <3> HIDE DEF Below
    <3> QED BY <1>1, <1>2, <3>1
  <2> HIDE DEF Below, f
  <2>3. f[n] \in ids /\ Cardinality(Below(f[n])) = n - 1
    BY <2>1, <2>2
  <2> QED BY <1>1, <1>2, <2>3
<1>11. \A i, j \in ids : <<i, j>> \in before => place[i] < place[j]
  <2> HIDE DEF Below, f
  <2> QED BY <1>2, <1>3
<1> HIDE DEF f, place, Below
<1>12. f \in [1..N -> ids]
  BY <1>10, <1>9
<1>13. \A i \in ids : \E n \in 1..N : f[n] = i
  <2> SUFFICES ASSUME NEW i \in ids PROVE \E n \in 1..N : f[n] = i
    OBVIOUS
  <2>1. place[i] \in 1..N
    BY <1>4
  <2>2. f[place[i]] \in ids /\ place[f[place[i]]] = place[i]
    BY <1>10, <2>1
  <2>3. f[place[i]] = i
    BY <1>5, <2>2
  <2> QED BY <2>1, <2>3
<1>14. \A m, n \in 1..N : f[m] = f[n] => m = n
  <2> SUFFICES ASSUME NEW m \in 1..N, NEW n \in 1..N, f[m] = f[n] PROVE m = n
    OBVIOUS
  <2>1. place[f[m]] = m /\ place[f[n]] = n
    BY <1>10
  <2> QED BY <2>1
<1>15. \A m, n \in 1..N : m < n => <<f[m], f[n]>> \in before
  <2> SUFFICES ASSUME NEW m \in 1..N, NEW n \in 1..N, m < n PROVE <<f[m], f[n]>> \in before
    OBVIOUS
  <2>1. f[m] \in ids /\ f[n] \in ids /\ place[f[m]] = m /\ place[f[n]] = n
    BY <1>10
  <2>3. f[m] # f[n]
    BY <2>1
  <2>2. <<f[m], f[n]>> \in before \/ <<f[n], f[m]>> \in before
    BY <2>1, <2>3, Zenon DEF Orders
  <2> QED BY <1>11, <2>1, <2>2
<1> QED BY <1>12, <1>13, <1>14, <1>15 DEF f

(* Integers ordered from the greatest down.                                *)
LEMMA NewestEnumerates ==
  ASSUME NEW n \in Nat, NEW ids, ids \subseteq 1..n
  PROVE  /\ Newest(ids) \in Seq(ids)
         /\ \A i \in ids : \E m \in 1..Len(Newest(ids)) : Newest(ids)[m] = i
<1> DEFINE before == {ij \in ids \X ids : ij[1] > ij[2]}
<1>1. IsFiniteSet(ids)
  <2>1. 1 \in Int /\ n \in Int /\ ids \in SUBSET (1..n)
    OBVIOUS
  <2> QED BY <2>1, FS_Interval, FS_Subset
<1>2. Orders(ids, before)
  BY DEF Orders
<1>3. Newest(ids) = InOrder(ids, before)
  BY DEF Newest
<1> HIDE DEF before
<1>4. Cardinality(ids) \in Nat
  BY <1>1, FS_CardinalityType
<1>5. Newest(ids) \in [1..Cardinality(ids) -> ids] /\ \A i \in ids : \E m \in 1..Cardinality(ids) : Newest(ids)[m] = i
  BY <1>1, <1>2, <1>3, InOrderEnumerates
<1>6. Newest(ids) \in Seq(ids)
  BY <1>4, <1>5, SeqDef
<1>7. Len(Newest(ids)) = Cardinality(ids)
  BY <1>4, <1>5, <1>6, LenProperties
<1> QED BY <1>5, <1>6, <1>7

(* A sum over a set that another one enumerates.                           *)
LEMMA SumReindexed ==
  ASSUME NEW S, IsFiniteSet(S), NEW T, NEW b \in [S -> T],
         \A x, y \in S : b[x] = b[y] => x = y, \A y \in T : \E x \in S : b[x] = y,
         NEW f, NEW g, \A x \in S : f[x] \in Int /\ g[b[x]] = f[x]
  PROVE  SumFunctionOnSet(f, S) = SumFunctionOnSet(g, T)
<1> DEFINE Img(U) == {b[x] : x \in U}
           Bad == {U \in SUBSET S : ~(IsFiniteSet(Img(U)) /\ SumFunctionOnSet(f, U) = SumFunctionOnSet(g, Img(U)))}
<1>1. ASSUME Bad # {} PROVE FALSE
  <2>0. Bad \subseteq SUBSET S
    OBVIOUS
  <2> HIDE DEF Bad
  <2>1. PICK U \in Bad : \A V \in Bad : V \subseteq U => V = U
    BY <1>1, <2>0, SmallestSubset
  <2>2. U \in SUBSET S /\ ~(IsFiniteSet(Img(U)) /\ SumFunctionOnSet(f, U) = SumFunctionOnSet(g, Img(U)))
    BY DEF Bad
  <2>3. U # {}
    <3>1. Img({}) = {}
      OBVIOUS
    <3> QED BY <2>2, <3>1, FS_EmptySet, SumOfNone
  <2>4. PICK y \in U : y \in S
    BY <2>2, <2>3
  <2> DEFINE V == U \ {y}
  <2>5. V \in SUBSET S /\ V \notin Bad
    BY <2>1, <2>2, <2>4
  <2>6. IsFiniteSet(Img(V)) /\ SumFunctionOnSet(f, V) = SumFunctionOnSet(g, Img(V))
    BY <2>5 DEF Bad
  <2>7. Img(U) = Img(V) \cup {b[y]} /\ b[y] \notin Img(V)
    BY <2>2, <2>4
  <2> HIDE DEF Img, V
  <2>8. IsFiniteSet(Img(U))
    BY <2>6, <2>7, FS_AddElement
  <2>9. \A z \in Img(V) : g[z] \in Int
    BY <2>5 DEF Img
  <2>10. g[b[y]] \in Int /\ g[b[y]] = f[y]
    BY <2>4
  <2>11. SumFunctionOnSet(g, Img(V) \cup {b[y]}) = g[b[y]] + SumFunctionOnSet(g, Img(V))
    BY <2>6, <2>7, <2>9, <2>10, SumAdded
  <2>12. IsFiniteSet(U) /\ \A x \in U : f[x] \in Int
    BY <2>2, FS_Subset
  <2>13. SumFunctionOnSet(f, U) = f[y] + SumFunctionOnSet(f, V)
    BY <2>4, <2>12, SumWithout DEF V
  <2> QED BY <2>2, <2>6, <2>7, <2>8, <2>10, <2>11, <2>13
<1>2. S \notin Bad
  BY <1>1
<1>3. Img(S) = T
  OBVIOUS
<1> QED BY <1>2, <1>3

-----------------------------------------------------------------------------
(* What is paid in some of the rows.                                       *)
LEMMA RowIs ==
  ASSUME NEW pays \in Seq(Payment), NEW i \in DOMAIN pays
  PROVE  pays[i] \in Payment /\ pays[i].value \in Nat /\ pays[i].value \in Int
<1>1. pays[i] \in Payment
  BY LenProperties
<1> QED BY <1>1 DEF Payment

(* A sum of values is a natural number.                                    *)
LEMMA TotalType ==
  ASSUME NEW pays \in Seq(Payment), NEW ids, ids \subseteq DOMAIN pays
  PROVE  Total(pays, ids) \in Nat /\ IsFiniteSet(ids)
<1>1. DOMAIN pays = 1..Len(pays) /\ Len(pays) \in Nat
  BY LenProperties
<1>2. ids \in SUBSET (1..Len(pays)) /\ 1 \in Int /\ Len(pays) \in Int
  BY <1>1
<1>3. IsFiniteSet(ids)
  BY <1>2, FS_Interval, FS_Subset
<1> DEFINE f == [i \in DOMAIN pays |-> pays[i].value]
<1>4. \A i \in ids : f[i] \in Nat
  BY RowIs
<1>5. Total(pays, ids) = SumFunctionOnSet(f, ids)
  BY DEF Total
<1> HIDE DEF f
<1> QED BY <1>3, <1>4, <1>5, SumNatural

(* It depends on the values of its rows only.                              *)
LEMMA TotalSame ==
  ASSUME NEW pays \in Seq(Payment), NEW more \in Seq(Payment), NEW ids, ids \subseteq DOMAIN pays,
         ids \subseteq DOMAIN more, \A i \in ids : more[i].value = pays[i].value
  PROVE  Total(more, ids) = Total(pays, ids)
<1> DEFINE f == [i \in DOMAIN pays |-> pays[i].value]
           g == [i \in DOMAIN more |-> more[i].value]
<1>1. IsFiniteSet(ids)
  BY TotalType
<1>2. \A i \in ids : f[i] \in Int /\ f[i] = g[i]
  BY RowIs
<1>3. Total(pays, ids) = SumFunctionOnSet(f, ids) /\ Total(more, ids) = SumFunctionOnSet(g, ids)
  BY DEF Total
<1> HIDE DEF f, g
<1> QED BY <1>1, <1>2, <1>3, SumEqual

(* A row that is appended adds its value.                                  *)
LEMMA TotalOneMore ==
  ASSUME NEW pays \in Seq(Payment), NEW ids, ids \subseteq DOMAIN pays, NEW entry \in Payment
  PROVE  Total(Append(pays, entry), ids \cup {Len(pays) + 1}) = Total(pays, ids) + entry.value
<1> DEFINE more == Append(pays, entry)
           n == Len(pays) + 1
           g == [i \in DOMAIN more |-> more[i].value]
<1>1. /\ Len(pays) \in Nat /\ DOMAIN pays = 1..Len(pays) /\ more \in Seq(Payment)
      /\ DOMAIN more = 1..n /\ more[n] = entry /\ \A i \in DOMAIN pays : more[i] = pays[i]
  BY LenProperties
<1>2. ids \subseteq DOMAIN more /\ n \in DOMAIN more /\ n \notin ids
  BY <1>1
<1>3. IsFiniteSet(ids)
  BY TotalType
<1>4. (\A i \in ids : g[i] \in Int) /\ g[n] \in Int /\ g[n] = entry.value
  BY <1>1, <1>2, RowIs DEF Payment
<1>5. \A i \in ids : more[i].value = pays[i].value
  BY <1>1
<1>6. Total(more, ids) = Total(pays, ids)
  <2> HIDE DEF more
  <2> QED BY <1>1, <1>2, <1>5, TotalSame
<1>7. Total(more, ids) = SumFunctionOnSet(g, ids) /\ Total(more, ids \cup {n}) = SumFunctionOnSet(g, ids \cup {n})
  BY DEF Total
<1>8. SumFunctionOnSet(g, ids \cup {n}) = g[n] + SumFunctionOnSet(g, ids)
  <2> HIDE DEF g, n
  <2> QED BY <1>2, <1>3, <1>4, SumAdded
<1>9. Total(pays, ids) \in Nat /\ entry.value \in Nat
  BY TotalType DEF Payment
<1> HIDE DEF g
<1> QED BY <1>4, <1>6, <1>7, <1>8, <1>9

-----------------------------------------------------------------------------
(* Rows belong to registrations that there are.                            *)
WF(s) == \A i \in DOMAIN s.pays : s.pays[i].reg \in DOMAIN s.regs
Sane(s) == s \in DB /\ WF(s)

RowsOf(s, q) == {i \in DOMAIN s.pays : s.pays[i].reg = q}
RowsIn(s, k) == {i \in DOMAIN s.pays : s.pays[i].kind = k}

(* What no save changes: the registrations but for the stored totals, the  *)
(* kinds of the rows, and to whom the rows of a registration belong that   *)
(* is not cancelled.                                                       *)
Framed(s, t) ==
  /\ t.bounds = s.bounds /\ t.price = s.price /\ t.queued = s.queued /\ t.closed = s.closed
  /\ t.accepted = s.accepted /\ t.given = s.given /\ t.refunds = s.refunds
  /\ DOMAIN t.regs = DOMAIN s.regs
  /\ \A q \in DOMAIN s.regs :
       /\ t.regs[q].run = s.regs[q].run /\ t.regs[q].cancelled = s.regs[q].cancelled
       /\ t.regs[q].refunded = s.regs[q].refunded /\ t.regs[q].bonus = s.regs[q].bonus
Grown(s, t) ==
  /\ DOMAIN s.pays \subseteq DOMAIN t.pays
  /\ \A i \in DOMAIN s.pays : /\ t.pays[i].kind = s.pays[i].kind
                              /\ ~s.regs[s.pays[i].reg].cancelled => t.pays[i].reg = s.pays[i].reg
  /\ s.collided => t.collided
  /\ s.failed => t.failed
Carries(s, t) == Sane(t) /\ Framed(s, t) /\ Grown(s, t)

(* Nothing is changed by doing nothing.                                    *)
LEMMA CarriesItself == ASSUME NEW s, Sane(s) PROVE Carries(s, s)
BY DEF Carries, Framed, Grown

(* What two saves in turn leave alone, both leave alone.                   *)
LEMMA CarriesOn ==
  ASSUME NEW s, NEW t, NEW u, Sane(s), Carries(s, t), Carries(t, u)
  PROVE  Carries(s, u)
<1>1. Framed(s, u)
  BY DEF Carries, Framed
<1>2. Grown(s, u)
  BY DEF Carries, Framed, Grown, Sane, WF
<1> QED BY <1>1, <1>2 DEF Carries

(* A registration that none of its rows change.                            *)
Untouched(s, t, q) == RowsOf(t, q) = RowsOf(s, q) /\ \A i \in RowsOf(s, q) : t.pays[i] = s.pays[i]

(* The types of the tables, and every row has its registration.            *)
LEMMA SaneFields ==
  ASSUME NEW s, Sane(s)
  PROVE  /\ s.pays \in Seq(Payment) /\ s.regs \in Seq(Registration)
         /\ DOMAIN s.pays = 1..Len(s.pays) /\ Len(s.pays) \in Nat
         /\ DOMAIN s.regs = 1..Len(s.regs) /\ Len(s.regs) \in Nat /\ DOMAIN s.regs \subseteq Nat
         /\ \A i \in DOMAIN s.pays : s.pays[i] \in Payment /\ s.pays[i].reg \in DOMAIN s.regs
         /\ \A q \in DOMAIN s.regs : s.regs[q] \in Registration
         /\ s.given \in [Kinds -> Int] /\ s.bal \in [Kinds -> Int] /\ s.price \in [AllRuns -> Nat]
         /\ s.collided \in BOOLEAN /\ s.failed \in BOOLEAN /\ s.accepted \in BOOLEAN
BY LenProperties DEF Sane, WF, DB

(* What is used of a balance and what is paid for a registration are sums  *)
(* of rows.                                                                *)
LEMMA SaneTotals ==
  ASSUME NEW s, Sane(s)
  PROVE  /\ \A k \in Kinds : Used(s, k) \in Nat /\ Used(s, k) = Total(s.pays, RowsIn(s, k))
         /\ \A q : PaidFor(s, q) \in Nat /\ PaidFor(s, q) = Total(s.pays, RowsOf(s, q))
         /\ \A q \in DOMAIN s.regs : Due(s, q) \in Nat
<1>1. s.pays \in Seq(Payment)
  BY SaneFields
<1>2. \A k : RowsIn(s, k) \subseteq DOMAIN s.pays /\ Used(s, k) = Total(s.pays, RowsIn(s, k))
  BY DEF RowsIn, Used
<1>3. \A q : RowsOf(s, q) \subseteq DOMAIN s.pays /\ PaidFor(s, q) = Total(s.pays, RowsOf(s, q))
  BY DEF RowsOf, PaidFor
<1>4. \A q \in DOMAIN s.regs : Due(s, q) \in Nat
  BY SaneFields DEF Due, Registration
<1>5. \A k \in Kinds : Total(s.pays, RowsIn(s, k)) \in Nat
  BY <1>1, <1>2, TotalType
<1>6. \A q : Total(s.pays, RowsOf(s, q)) \in Nat
  BY <1>1, <1>3, TotalType
<1> QED BY <1>2, <1>3, <1>4, <1>5, <1>6

(* A registration whose rows are left has paid what it had.                *)
LEMMA UntouchedPaid ==
  ASSUME NEW s, NEW t, Sane(s), Sane(t), NEW q, Untouched(s, t, q)
  PROVE  PaidFor(t, q) = PaidFor(s, q)
<1>1. s.pays \in Seq(Payment) /\ t.pays \in Seq(Payment)
  BY SaneFields
<1>2. PaidFor(s, q) = Total(s.pays, RowsOf(s, q)) /\ PaidFor(t, q) = Total(t.pays, RowsOf(s, q))
  BY SaneTotals DEF Untouched
<1>3. RowsOf(s, q) \subseteq DOMAIN s.pays /\ RowsOf(s, q) \subseteq DOMAIN t.pays
  BY DEF Untouched, RowsOf
<1>4. \A i \in RowsOf(s, q) : t.pays[i].value = s.pays[i].value
  BY DEF Untouched
<1> QED BY <1>1, <1>2, <1>3, <1>4, TotalSame

(* Used of a kind depends on the rows of that kind only.                   *)
LEMMA UsedSame ==
  ASSUME NEW s, NEW t, Sane(s), Sane(t), NEW k \in Kinds, RowsIn(t, k) = RowsIn(s, k),
         \A i \in RowsIn(s, k) : t.pays[i].value = s.pays[i].value
  PROVE  Used(t, k) = Used(s, k)
<1>1. s.pays \in Seq(Payment) /\ t.pays \in Seq(Payment)
  BY SaneFields
<1>2. Used(s, k) = Total(s.pays, RowsIn(s, k)) /\ Used(t, k) = Total(t.pays, RowsIn(s, k))
  BY SaneTotals
<1>3. RowsIn(s, k) \subseteq DOMAIN s.pays /\ RowsIn(s, k) \subseteq DOMAIN t.pays
  BY DEF RowsIn
<1> QED BY <1>1, <1>2, <1>3, TotalSame

-----------------------------------------------------------------------------
(* Handing over the rows of cancelled registrations.                       *)
From(s, r) == {q \in DOMAIN s.regs : s.regs[q].cancelled /\ s.regs[q].run = s.regs[r].run}
Gathered(s, r) == \A i \in DOMAIN s.pays : s.pays[i].reg \notin From(s, r)

(* Rows of cancelled registrations of the run are handed over, and nothing *)
(* else changes.                                                           *)
LEMMA Transfers ==
  ASSUME NEW s, Sane(s), NEW r \in DOMAIN s.regs, NEW t, t = Transferred(s, r)
  PROVE  /\ Carries(s, t)
         /\ t.regs = s.regs /\ t.bal = s.bal /\ t.collided = s.collided /\ t.failed = s.failed
         /\ DOMAIN t.pays = DOMAIN s.pays /\ Len(t.pays) = Len(s.pays)
         /\ \A i \in DOMAIN s.pays : t.pays[i].value = s.pays[i].value /\ t.pays[i].kind = s.pays[i].kind
         /\ \A k \in Kinds : Used(t, k) = Used(s, k)
         /\ \A q \in DOMAIN s.regs : q # r /\ ~s.regs[q].cancelled => Untouched(s, t, q)
         /\ ~s.regs[r].cancelled => Gathered(t, r)
         /\ s.regs[r].cancelled => t = s
         /\ \A i \in DOMAIN s.pays : t.pays[i].reg = s.pays[i].reg \/ (t.pays[i].reg = r /\ ~s.regs[r].cancelled)
<1>1. CASE s.regs[r].cancelled
  <2>1. t = s
    BY <1>1 DEF Transferred
  <2> QED BY <1>1, <2>1, CarriesItself DEF Untouched
<1>2. CASE ~s.regs[r].cancelled
  <2> DEFINE Assigned(p) == IF p.reg \in From(s, r) THEN [p EXCEPT !.reg = r] ELSE p
             mp == [i \in DOMAIN s.pays |-> Assigned(s.pays[i])]
  <2>1. t = [s EXCEPT !.pays = mp]
    BY <1>2 DEF Transferred, From
  <2>2. \A i \in DOMAIN s.pays : /\ mp[i] \in Payment /\ mp[i].reg \in DOMAIN s.regs
                                 /\ mp[i].value = s.pays[i].value /\ mp[i].kind = s.pays[i].kind
                                 /\ mp[i].reg = IF s.pays[i].reg \in From(s, r) THEN r ELSE s.pays[i].reg
                                 /\ s.pays[i].reg \notin From(s, r) => mp[i] = s.pays[i]
    BY SaneFields, ZenonT(40) DEF Payment
  <2>3. DOMAIN mp = 1..Len(s.pays) /\ Len(s.pays) \in Nat
    BY SaneFields
  <2>4. mp \in [1..Len(s.pays) -> Payment]
    <3> mp = [i \in 1..Len(s.pays) |-> mp[i]]
      BY <2>3
    <3> HIDE DEF mp
    <3> QED BY <2>2, <2>3, SaneFields
  <2>5. mp \in Seq(Payment) /\ Len(mp) = Len(s.pays)
    <3> HIDE DEF mp
    <3> QED BY <2>3, <2>4, SeqDef, LenProperties
  <2> HIDE DEF mp
  <2>6. /\ t.pays = mp /\ t.regs = s.regs /\ t.bal = s.bal /\ t.collided = s.collided /\ t.failed = s.failed
        /\ t.bounds = s.bounds /\ t.price = s.price /\ t.queued = s.queued /\ t.closed = s.closed
        /\ t.accepted = s.accepted /\ t.given = s.given /\ t.refunds = s.refunds
        /\ t \in DB
    BY <2>1, <2>5 DEF Sane, DB
  <2>7. DOMAIN t.pays = DOMAIN s.pays
    BY <2>3, <2>6, SaneFields
  <2>8. Sane(t)
    BY <2>2, <2>6, <2>7 DEF Sane, WF
  <2>9. Framed(s, t)
    BY <2>6 DEF Framed
  <2>10. \A q \in From(s, r) : s.regs[q].cancelled
    BY DEF From
  <2>11. Grown(s, t)
    BY <2>2, <2>6, <2>7, <2>10 DEF Grown
  <2>12. ASSUME NEW k \in Kinds PROVE Used(t, k) = Used(s, k)
    <3>1. RowsIn(t, k) = RowsIn(s, k) /\ \A i \in RowsIn(s, k) : t.pays[i].value = s.pays[i].value
      BY <2>2, <2>6, <2>7 DEF RowsIn
    <3> QED BY <2>8, <3>1, UsedSame
  <2>13. ASSUME NEW q \in DOMAIN s.regs, q # r, ~s.regs[q].cancelled PROVE Untouched(s, t, q)
    <3>1. q \notin From(s, r)
      BY <2>10, <2>13
    <3> QED BY <2>2, <2>6, <2>7, <2>13, <3>1 DEF Untouched, RowsOf
  <2>14. Gathered(t, r)
    <3>1. From(t, r) = From(s, r) /\ r \notin From(s, r)
      BY <1>2, <2>6 DEF From
    <3> QED BY <2>2, <2>6, <2>7, <3>1 DEF Gathered
  <2>15. \A i \in DOMAIN s.pays : t.pays[i].reg = s.pays[i].reg \/ t.pays[i].reg = r
    BY <2>2, <2>6
  <2> QED BY <1>2, <2>2, <2>5, <2>6, <2>7, <2>8, <2>9, <2>11, <2>12, <2>13, <2>14, <2>15 DEF Carries
<1> QED BY <1>1, <1>2

(* A registration that has all rows of its run is handed none.             *)
LEMMA TransfersNothing ==
  ASSUME NEW s, Sane(s), NEW r \in DOMAIN s.regs, Gathered(s, r)
  PROVE  Transferred(s, r) = s
<1>1. CASE s.regs[r].cancelled
  BY <1>1 DEF Transferred
<1>2. CASE ~s.regs[r].cancelled
  <2> DEFINE Assigned(p) == IF p.reg \in From(s, r) THEN [p EXCEPT !.reg = r] ELSE p
             mp == [i \in DOMAIN s.pays |-> Assigned(s.pays[i])]
  <2>1. Transferred(s, r) = [s EXCEPT !.pays = mp]
    BY <1>2 DEF Transferred, From
  <2>2. mp = [i \in DOMAIN s.pays |-> s.pays[i]]
    BY DEF Gathered
  <2>3. [i \in DOMAIN s.pays |-> s.pays[i]] = s.pays
    BY SaneFields
  <2>4. mp = s.pays
    BY <2>2, <2>3
  <2> HIDE DEF mp
  <2> QED BY <2>1, <2>4 DEF Sane, DB
<1> QED BY <1>1, <1>2

-----------------------------------------------------------------------------
(* Through takes each item in turn: its values are those its definition    *)
(* asks for, so what every step takes from one set to the next holds of    *)
(* the last.                                                               *)
IsThrough(at, step, start, list, n) ==
  at = [i \in 0..n |-> IF i = 0 THEN start ELSE step[at[i - 1]][list[i]]]

(* The states between the steps of a list exist.                           *)
LEMMA ThroughExists ==
  ASSUME NEW step, NEW start, NEW list, NEW n \in Nat
  PROVE  \E at : IsThrough(at, step, start, list, n)
<1> DEFINE Bad == {i \in Nat : ~\E at : IsThrough(at, step, start, list, i)}
<1> SUFFICES ASSUME Bad # {} PROVE FALSE
  OBVIOUS
<1>1. Bad \subseteq Nat
  OBVIOUS
<1> HIDE DEF Bad
<1>2. PICK i \in Bad : \A j \in Bad : i <= j
  BY <1>1, LeastNatural
<1>3. i \in Nat /\ ~\E at : IsThrough(at, step, start, list, i)
  BY DEF Bad
<1>4. i # 0
  <2>1. IsThrough([j \in 0..0 |-> start], step, start, list, 0)
    BY DEF IsThrough
  <2> QED BY <1>3, <2>1
<1>5. i - 1 \in Nat /\ i - 1 \notin Bad
  BY <1>2, <1>3, <1>4
<1>6. PICK at : IsThrough(at, step, start, list, i - 1)
  BY <1>5 DEF Bad
<1> DEFINE last == step[at[i - 1]][list[i]]
           u == [j \in 0..i |-> IF j = i THEN last ELSE at[j]]
<1>7. \A j \in 0..(i - 1) : at[j] = IF j = 0 THEN start ELSE step[at[j - 1]][list[j]]
  BY <1>6 DEF IsThrough
<1>8. \A j \in 0..(i - 1) : j \in 0..i /\ u[j] = at[j]
  BY <1>3
<1>9. u[i] = last /\ u[i - 1] = at[i - 1]
  BY <1>3, <1>4
<1>10. \A j \in 0..i : u[j] = IF j = 0 THEN start ELSE step[u[j - 1]][list[j]]
  <2> SUFFICES ASSUME NEW j \in 0..i
               PROVE  u[j] = IF j = 0 THEN start ELSE step[u[j - 1]][list[j]]
    OBVIOUS
  <2>1. CASE j = i
    BY <1>4, <1>9, <2>1
  <2>2. CASE j # i
    <3>1. j \in 0..(i - 1) /\ (j # 0 => j - 1 \in 0..(i - 1))
      BY <1>3, <2>2
    <3> HIDE DEF u, last
    <3> QED BY <1>7, <1>8, <3>1
  <2> QED BY <2>1, <2>2
<1>11. u = [j \in 0..i |-> IF j = 0 THEN start ELSE step[u[j - 1]][list[j]]]
  <2>1. u = [j \in 0..i |-> u[j]]
    OBVIOUS
  <2> HIDE DEF u
  <2> QED BY <1>10, <2>1
<1> HIDE DEF u
<1> QED BY <1>3, <1>11 DEF IsThrough

(* What the start has, and every step passes on from one state to the      *)
(* next, the end has.                                                      *)
LEMMA ThroughHolds ==
  ASSUME NEW step, NEW start, NEW list, Len(list) \in Nat, NEW I, start \in I[0],
         \A n \in 1..Len(list) : \A x \in I[n - 1] : step[x][list[n]] \in I[n]
  PROVE  Through(step, start, list) \in I[Len(list)]
<1> DEFINE N == Len(list)
           at == CHOOSE at : IsThrough(at, step, start, list, N)
<1>1. IsThrough(at, step, start, list, N)
  BY ThroughExists
<1>2. Through(step, start, list) = at[N]
  BY DEF Through, IsThrough
<1> HIDE DEF at
<1>3. \A i \in 0..N : at[i] = IF i = 0 THEN start ELSE step[at[i - 1]][list[i]]
  BY <1>1 DEF IsThrough
<1> DEFINE Bad == {i \in 0..N : at[i] \notin I[i]}
<1>4. ASSUME Bad # {} PROVE FALSE
  <2>1. Bad \subseteq Nat
    OBVIOUS
  <2> HIDE DEF Bad
  <2>2. PICK i \in Bad : \A j \in Bad : i <= j
    BY <1>4, <2>1, LeastNatural
  <2>3. i \in 0..N /\ at[i] \notin I[i]
    BY DEF Bad
  <2>4. i # 0
    BY <1>3, <2>3
  <2>5. i - 1 \in 0..N /\ i \in 1..N /\ i - 1 \notin Bad
    BY <2>2, <2>3, <2>4
  <2>6. at[i - 1] \in I[i - 1]
    BY <2>5 DEF Bad
  <2> QED BY <1>3, <2>3, <2>4, <2>5, <2>6
<1>5. N \notin Bad
  BY <1>4
<1>6. at[N] \in I[N]
  BY <1>5
<1> QED BY <1>2, <1>6

(* The same for a set that the steps do not leave.                         *)
LEMMA ThroughStays ==
  ASSUME NEW step, NEW start, NEW list, Len(list) \in Nat, NEW J, start \in J,
         \A n \in 1..Len(list) : \A x \in J : step[x][list[n]] \in J
  PROVE  Through(step, start, list) \in J
<1> DEFINE I == [n \in 0..Len(list) |-> J]
<1>1. \A n \in 0..Len(list) : I[n] = J
  OBVIOUS
<1>2. 0 \in 0..Len(list) /\ Len(list) \in 0..Len(list) /\ \A n \in 1..Len(list) : n \in 0..Len(list) /\ n - 1 \in 0..Len(list)
  OBVIOUS
<1> HIDE DEF I
<1>3. start \in I[0] /\ \A n \in 1..Len(list) : \A x \in I[n - 1] : step[x][list[n]] \in I[n]
  BY <1>1, <1>2
<1>4. Through(step, start, list) \in I[Len(list)]
  BY <1>3, ThroughHolds
<1> QED BY <1>1, <1>2, <1>4

-----------------------------------------------------------------------------
(* What the saves owe each other.                                          *)
Live(s, q) == Active(s, q) /\ s.accepted
Current(s, q) == Active(s, q) /\ s.regs[q].run \notin s.queued
Off(t) == t.failed \/ t.collided

(* A balance is what was given and not used.                               *)
Balanced(s, k) == s.bal[k] = s.given[k] - Used(s, k)
(* What is overpaid is money.                                              *)
Returned(s, q) ==
  Live(s, q) /\ PaidFor(s, q) > Due(s, q) =>
    \A i \in RowsOf(s, q) : s.pays[i].value > 0 => s.pays[i].kind = "money"
(* Who is not settled is listed as such.                                   *)
Noted(s, q) == Active(s, q) /\ PaidFor(s, q) # Due(s, q) => s.regs[q].paid # s.regs[q].due
(* Who is not paid for leaves no balance.                                  *)
Served(s, q) == Live(s, q) /\ PaidFor(s, q) < Due(s, q) => \A k \in Kinds : s.bal[k] <= 0

NotedBut(s, r) == \A q \in DOMAIN s.regs : q # r /\ Current(s, q) => Noted(s, q)

KeepsBalanced(s, t) == \A k \in Kinds : Balanced(s, k) => Off(t) \/ Balanced(t, k)
KeepsReturned(s, r, t) == \A q \in DOMAIN s.regs : q = r \/ Returned(s, q) => t.failed \/ Returned(t, q)
KeepsNoted(s, r, t) == \A q \in DOMAIN s.regs : q = r \/ Noted(s, q) => Off(t) \/ Noted(t, q)
KeepsServed(s, r, t) ==
  NotedBut(s, r) => \A q \in DOMAIN s.regs : Current(s, q) /\ (q = r \/ Served(s, q)) => Off(t) \/ Served(t, q)
LeavesAlone(s, r, t) == s.regs[r].cancelled => t.failed \/ (t.pays = s.pays /\ t.bal = s.bal)

(* What a balance pays of an amount.                                       *)
Part(rem, b) == IF rem <= 0 \/ b <= 0 THEN 0 ELSE IF rem < b THEN rem ELSE b
WithRow(pays, r, k, u) == IF u > 0 THEN Append(pays, [reg |-> r, kind |-> k, value |-> u]) ELSE pays

(* The save of a registration that is not overpaid: one row of tokens and  *)
(* one of credits, at most.                                                *)
Moves(s, r, ut, uc, t) ==
  /\ t.bal["token"] = s.bal["token"] - ut
  /\ t.bal["credit"] = s.bal["credit"] - uc
  /\ t.pays = WithRow(WithRow(s.pays, r, "token", ut), r, "credit", uc)
  /\ \A q \in DOMAIN s.regs : q # r => t.regs[q] = s.regs[q]
PaysFrom(s, r, ut, uc, t) ==
  Moves(s, r, ut, uc, t) /\ t.regs[r].paid = PaidFor(s, r) + ut + uc /\ t.regs[r].due = Due(s, r)
Rest(s, r) == Due(s, r) - PaidFor(s, r)
FromTokens(s, r) == Part(Rest(s, r), s.bal["token"])
FromCredits(s, r) == Part(Rest(s, r) - FromTokens(s, r), s.bal["credit"])
Pays(s, r, t) == PaysFrom(s, r, FromTokens(s, r), FromCredits(s, r), t)

PaysExactly(s, r, t) ==
  ~s.failed /\ Live(s, r) /\ PaidFor(Transferred(s, r), r) <= Due(s, r) =>
    Off(t) \/ Pays(Transferred(s, r), r, t)

Meets(s, r, t) ==
  /\ Carries(s, t) /\ KeepsBalanced(s, t) /\ KeepsReturned(s, r, t) /\ KeepsNoted(s, r, t)
  /\ KeepsServed(s, r, t) /\ LeavesAlone(s, r, t) /\ PaysExactly(s, r, t)

Contract(save) == \A s : Sane(s) => \A r \in DOMAIN s.regs : Meets(s, r, save[s][r])

-----------------------------------------------------------------------------
(* What a save leaves alone decides who is active, who is current, and     *)
(* what is due.                                                            *)
LEMMA CarriesSame ==
  ASSUME NEW s, NEW t, Sane(s), Carries(s, t)
  PROVE  /\ DOMAIN t.regs = DOMAIN s.regs /\ t.given = s.given /\ t.accepted = s.accepted /\ t.queued = s.queued
         /\ \A q \in DOMAIN s.regs : /\ Active(t, q) <=> Active(s, q)
                                     /\ Live(t, q) <=> Live(s, q)
                                     /\ Current(t, q) <=> Current(s, q)
                                     /\ Closed(t, q) <=> Closed(s, q)
                                     /\ Due(t, q) = Due(s, q)
         /\ \A r \in DOMAIN s.regs : From(t, r) = From(s, r)
<1> USE DEF Carries, Framed
<1>1. ASSUME NEW q \in DOMAIN s.regs
      PROVE  /\ Active(t, q) <=> Active(s, q)
             /\ Live(t, q) <=> Live(s, q)
             /\ Current(t, q) <=> Current(s, q)
             /\ Closed(t, q) <=> Closed(s, q)
             /\ Due(t, q) = Due(s, q)
  BY DEF Active, Live, Current, Closed, Due
<1>2. ASSUME NEW r \in DOMAIN s.regs PROVE From(t, r) = From(s, r)
  BY DEF From
<1> QED BY <1>1, <1>2

(* A step that leaves a registration's rows and stored totals.             *)
LEMMA UntouchedKeeps ==
  ASSUME NEW s, NEW t, Sane(s), Carries(s, t), NEW q \in DOMAIN s.regs, Untouched(s, t, q)
  PROVE  /\ Returned(s, q) => Returned(t, q)
         /\ t.regs[q] = s.regs[q] /\ Noted(s, q) => Noted(t, q)
         /\ (\A k \in Kinds : t.bal[k] <= s.bal[k]) /\ Served(s, q) => Served(t, q)
<1>1. PaidFor(t, q) = PaidFor(s, q) /\ Due(t, q) = Due(s, q) /\ (Active(t, q) <=> Active(s, q)) /\ (Live(t, q) <=> Live(s, q))
  BY CarriesSame, UntouchedPaid DEF Carries
<1>2. Returned(s, q) => Returned(t, q)
  BY <1>1 DEF Returned, Untouched
<1>3. t.regs[q] = s.regs[q] /\ Noted(s, q) => Noted(t, q)
  BY <1>1 DEF Noted
<1>4. \A k \in Kinds : t.bal[k] \in Int /\ s.bal[k] \in Int
  BY SaneFields DEF Carries
<1>5. (\A k \in Kinds : t.bal[k] <= s.bal[k]) /\ Served(s, q) => Served(t, q)
  BY <1>1, <1>4 DEF Served
<1> QED BY <1>2, <1>3, <1>5

(* Writing the totals of a registration changes nothing else.              *)
LEMMA StoredIs ==
  ASSUME NEW s, Sane(s), NEW r \in DOMAIN s.regs, NEW amount \in Int, NEW t, t = Stored(s, r, amount)
  PROVE  /\ Carries(s, t)
         /\ t.pays = s.pays /\ t.bal = s.bal /\ t.failed = s.failed /\ t.collided = s.collided
         /\ t.regs[r].paid = amount /\ t.regs[r].due = Due(s, r)
         /\ \A q \in DOMAIN s.regs : q # r => t.regs[q] = s.regs[q]
         /\ \A q : Untouched(s, t, q)
         /\ \A k \in Kinds : Used(t, k) = Used(s, k)
<1> DEFINE regs == [s.regs EXCEPT ![r].paid = amount, ![r].due = Due(s, r)]
<1>1. t = [s EXCEPT !.regs = regs]
  BY DEF Stored, Sane, DB
<1>2. Due(s, r) \in Nat
  BY SaneTotals
<1>3. regs[r] = [s.regs[r] EXCEPT !.paid = amount, !.due = Due(s, r)] /\ \A q \in DOMAIN s.regs : q # r => regs[q] = s.regs[q]
  OBVIOUS
<1>4. s.regs[r] \in Registration
  BY SaneFields
<1>5. /\ regs[r].paid = amount /\ regs[r].due = Due(s, r) /\ regs[r] \in Registration
      /\ regs[r].run = s.regs[r].run /\ regs[r].cancelled = s.regs[r].cancelled
      /\ regs[r].refunded = s.regs[r].refunded /\ regs[r].bonus = s.regs[r].bonus
  BY <1>2, <1>3, <1>4 DEF Registration
<1>6. DOMAIN regs = DOMAIN s.regs
  OBVIOUS
<1>7. regs \in Seq(Registration)
  <2>1. regs = [s.regs EXCEPT ![r] = regs[r]]
    OBVIOUS
  <2> HIDE DEF regs
  <2> QED BY <1>5, <2>1, SaneFields, ExceptSeq
<1> HIDE DEF regs
<1>8. /\ t.regs = regs /\ t.pays = s.pays /\ t.bal = s.bal /\ t.failed = s.failed /\ t.collided = s.collided
      /\ t.bounds = s.bounds /\ t.price = s.price /\ t.queued = s.queued /\ t.closed = s.closed
      /\ t.accepted = s.accepted /\ t.given = s.given /\ t.refunds = s.refunds /\ t \in DB
  BY <1>1, <1>7 DEF Sane, DB
<1>9. Sane(t)
  BY <1>6, <1>8 DEF Sane, WF
<1>10. Framed(s, t)
  BY <1>3, <1>5, <1>6, <1>8 DEF Framed
<1>11. Grown(s, t)
  BY <1>8 DEF Grown
<1>12. \A q : Untouched(s, t, q)
  BY <1>8 DEF Untouched, RowsOf
<1>13. \A k \in Kinds : Used(t, k) = Used(s, k)
  BY <1>8 DEF Used
<1> QED BY <1>3, <1>5, <1>8, <1>9, <1>10, <1>11, <1>12, <1>13 DEF Carries

-----------------------------------------------------------------------------
(* One more row of a registration.                                         *)
LEMMA AppendedRow ==
  ASSUME NEW s, NEW t, Sane(s), Sane(t), NEW entry \in Payment, t.pays = Append(s.pays, entry)
  PROVE  /\ \A k \in Kinds : Used(t, k) = Used(s, k) + IF entry.kind = k THEN entry.value ELSE 0
         /\ PaidFor(t, entry.reg) = PaidFor(s, entry.reg) + entry.value
         /\ \A q : q # entry.reg => Untouched(s, t, q)
         /\ DOMAIN s.pays \subseteq DOMAIN t.pays /\ Len(t.pays) = Len(s.pays) + 1
         /\ \A i \in DOMAIN s.pays : t.pays[i] = s.pays[i]
         /\ t.pays[Len(s.pays) + 1] = entry
<1> DEFINE n == Len(s.pays) + 1
<1>1. /\ s.pays \in Seq(Payment) /\ Len(s.pays) \in Nat /\ DOMAIN s.pays = 1..Len(s.pays)
      /\ DOMAIN t.pays = 1..n /\ t.pays[n] = entry /\ \A i \in DOMAIN s.pays : t.pays[i] = s.pays[i]
      /\ t.pays \in Seq(Payment) /\ Len(t.pays) = n
  BY SaneFields
<1>2. n \in DOMAIN t.pays /\ n \notin DOMAIN s.pays /\ DOMAIN t.pays = DOMAIN s.pays \cup {n}
  BY <1>1
<1>3. ASSUME NEW A, A \subseteq DOMAIN s.pays PROVE Total(t.pays, A \cup {n}) = Total(s.pays, A) + entry.value
  <2>1. s.pays \in Seq(Payment)
    BY <1>1
  <2>2. Total(Append(s.pays, entry), A \cup {Len(s.pays) + 1}) = Total(s.pays, A) + entry.value
    BY <1>3, <2>1, TotalOneMore
  <2> QED BY <2>2
<1> HIDE DEF n
<1>4. ASSUME NEW k \in Kinds PROVE Used(t, k) = Used(s, k) + IF entry.kind = k THEN entry.value ELSE 0
  <2>1. CASE entry.kind = k
    <3>1. RowsIn(t, k) = RowsIn(s, k) \cup {n}
      BY <1>1, <1>2, <2>1 DEF RowsIn
    <3>2. RowsIn(s, k) \subseteq DOMAIN s.pays
      BY DEF RowsIn
    <3>3. Total(t.pays, RowsIn(s, k) \cup {n}) = Total(s.pays, RowsIn(s, k)) + entry.value
      BY <1>3, <3>2
    <3> QED BY <2>1, <3>1, <3>3, SaneTotals
  <2>2. CASE entry.kind # k
    <3>1. RowsIn(t, k) = RowsIn(s, k)
      BY <1>1, <1>2, <2>2 DEF RowsIn
    <3>2. \A i \in RowsIn(s, k) : t.pays[i].value = s.pays[i].value
      BY <1>1 DEF RowsIn
    <3>3. Used(t, k) = Used(s, k) /\ Used(s, k) \in Nat
      BY <3>1, <3>2, UsedSame, SaneTotals
    <3> QED BY <2>2, <3>3
  <2> QED BY <2>1, <2>2
<1>5. PaidFor(t, entry.reg) = PaidFor(s, entry.reg) + entry.value
  <2>1. RowsOf(t, entry.reg) = RowsOf(s, entry.reg) \cup {n}
    BY <1>1, <1>2 DEF RowsOf
  <2>2. RowsOf(s, entry.reg) \subseteq DOMAIN s.pays
    BY DEF RowsOf
  <2>3. Total(t.pays, RowsOf(s, entry.reg) \cup {n}) = Total(s.pays, RowsOf(s, entry.reg)) + entry.value
    BY <1>3, <2>2
  <2>4. PaidFor(t, entry.reg) = Total(t.pays, RowsOf(t, entry.reg)) /\ PaidFor(s, entry.reg) = Total(s.pays, RowsOf(s, entry.reg))
    BY SaneTotals
  <2> QED BY <2>1, <2>3, <2>4
<1>6. \A q : q # entry.reg => Untouched(s, t, q)
  BY <1>1, <1>2 DEF Untouched, RowsOf
<1> QED BY <1>1, <1>2, <1>4, <1>5, <1>6 DEF n

RowFor(r, k, v) == [reg |-> r, kind |-> k, value |-> v]
Less(m, k, v) == [m EXCEPT ![k] = @ - v]
Recorded(s, m, entry) == [s EXCEPT !.bal = m, !.pays = Append(s.pays, entry)]
Flagged(s, m, c, f) == [s EXCEPT !.bal = m, !.collided = c, !.failed = f]

(* The state in which a payment record was created.                        *)
LEMMA RowCreated ==
  ASSUME NEW s, Sane(s), NEW r \in DOMAIN s.regs, NEW m \in [Kinds -> Int], NEW entry \in Payment, entry.reg = r,
         NEW t, t = Recorded(s, m, entry)
  PROVE  /\ Carries(s, t) /\ t.bal = m /\ t.pays = Append(s.pays, entry)
         /\ t.regs = s.regs /\ t.failed = s.failed /\ t.collided = s.collided
         /\ Gathered(s, r) /\ ~s.regs[r].cancelled => Gathered(t, r)
<1>1. /\ t.bal = m /\ t.pays = Append(s.pays, entry) /\ t.regs = s.regs /\ t.failed = s.failed /\ t.collided = s.collided
      /\ t.bounds = s.bounds /\ t.price = s.price /\ t.queued = s.queued /\ t.closed = s.closed
      /\ t.accepted = s.accepted /\ t.given = s.given /\ t.refunds = s.refunds /\ t \in DB
  <2>1. Append(s.pays, entry) \in Seq(Payment)
    BY SaneFields
  <2> QED BY <2>1 DEF Sane, DB, Recorded
<1>2. /\ Len(s.pays) \in Nat /\ DOMAIN s.pays = 1..Len(s.pays) /\ DOMAIN t.pays = 1..(Len(s.pays) + 1)
      /\ t.pays[Len(s.pays) + 1] = entry /\ \A i \in DOMAIN s.pays : t.pays[i] = s.pays[i]
  BY <1>1, SaneFields
<1>3. Sane(t)
  BY <1>1, <1>2, SaneFields DEF Sane, WF
<1>4. Framed(s, t)
  BY <1>1 DEF Framed
<1>5. Grown(s, t)
  BY <1>1, <1>2 DEF Grown
<1>6. From(t, r) = From(s, r)
  BY <1>1 DEF From
<1>7. Gathered(s, r) /\ ~s.regs[r].cancelled => Gathered(t, r)
  BY <1>1, <1>2, <1>6 DEF Gathered, From
<1> QED BY <1>1, <1>3, <1>4, <1>5, <1>7 DEF Carries

(* Other fields written.                                                   *)
LEMMA Written ==
  ASSUME NEW s, Sane(s), NEW m \in [Kinds -> Int], NEW c \in BOOLEAN, NEW f \in BOOLEAN,
         s.collided => c, s.failed => f,
         NEW t, t = Flagged(s, m, c, f)
  PROVE  /\ Carries(s, t) /\ t.bal = m /\ t.pays = s.pays /\ t.regs = s.regs /\ t.collided = c /\ t.failed = f
         /\ \A q : Untouched(s, t, q)
         /\ \A k : Used(t, k) = Used(s, k)
<1>1. /\ t.bal = m /\ t.pays = s.pays /\ t.regs = s.regs /\ t.collided = c /\ t.failed = f
      /\ t.bounds = s.bounds /\ t.price = s.price /\ t.queued = s.queued /\ t.closed = s.closed
      /\ t.accepted = s.accepted /\ t.given = s.given /\ t.refunds = s.refunds /\ t \in DB
  BY DEF Sane, DB, Flagged
<1>2. Sane(t)
  BY <1>1 DEF Sane, WF
<1>3. Framed(s, t)
  BY <1>1 DEF Framed
<1>4. Grown(s, t)
  BY <1>1 DEF Grown
<1>5. \A q : Untouched(s, t, q)
  BY <1>1 DEF Untouched, RowsOf
<1>6. \A k : Used(t, k) = Used(s, k)
  BY <1>1 DEF Used
<1> QED BY <1>1, <1>2, <1>3, <1>4, <1>5, <1>6 DEF Carries

(* Everybody who was handed back what is overpaid still is.                *)
KeepsAll(s, t) == \A q \in DOMAIN s.regs : Returned(s, q) => t.failed \/ Returned(t, q)

(* What two saves in turn keep, both keep.                                 *)
LEMMA KeepsAllOn ==
  ASSUME NEW s, NEW t, NEW u, Carries(s, t), Carries(t, u), KeepsAll(s, t), KeepsAll(t, u)
  PROVE  KeepsAll(s, u)
BY DEF KeepsAll, Carries, Framed, Grown

-----------------------------------------------------------------------------
(* The debit of one balance.                                               *)
LEMMA ApplyNothing ==
  ASSUME NEW save, NEW s, NEW r, NEW k \in Kinds, NEW left \in Int, NEW m \in [Kinds -> Int],
         NEW older, NEW a, a = Apply(save, s, r, k, left, m, older), s.failed \/ Part(left, m[k]) = 0
  PROVE  a.db = s /\ a.left = left /\ a.m = m
<1>1. m[k] \in Int
  OBVIOUS
<1>2. left <= 0 \/ m[k] <= 0 \/ s.failed
  BY <1>1 DEF Part
<1> QED BY <1>2 DEF Apply

(* The get_or_create of a payment record.                                  *)
Posted(save, s, r, mm, entry, older) ==
  LET same == {i \in DOMAIN s.pays : s.pays[i] = entry}
      t    == [s EXCEPT !.bal = mm]
  IN  CASE same = {} -> save[[t EXCEPT !.pays = Append(@, entry)]][r]
        [] \E i \in same : same = {i} -> [t EXCEPT !.collided = @ \/ \E i \in same : i <= older]
        [] OTHER -> [t EXCEPT !.failed = TRUE]

(* A debit in its own terms: what it takes, and the row that says so.      *)
LEMMA ApplyCase ==
  ASSUME NEW save, NEW s, NEW r, NEW k \in Kinds, NEW left \in Int, NEW m \in [Kinds -> Int],
         NEW older, NEW a, a = Apply(save, s, r, k, left, m, older),
         NEW use, use = Part(left, m[k]), ~s.failed, use # 0
  PROVE  /\ a.left = left - use /\ a.m = Less(m, k, use)
         /\ a.db = Posted(save, s, r, Less(m, k, use), RowFor(r, k, use), older)
<1>1. m[k] \in Int
  OBVIOUS
<1>2. ~(left <= 0 \/ m[k] <= 0 \/ s.failed) /\ use = IF left < m[k] THEN left ELSE m[k]
  BY <1>1 DEF Part
<1>3. a = [left |-> left - use, m |-> Less(m, k, use), db |-> Posted(save, s, r, Less(m, k, use), RowFor(r, k, use), older)]
  BY <1>2, ZenonT(60) DEF Apply, Less, RowFor, Posted
<1> QED BY <1>3

(* A debit that meets no row of its kind, registration and value creates   *)
(* it and saves it.                                                        *)
LEMMA ApplyCreates ==
  ASSUME NEW save, NEW s, Sane(s), NEW r, NEW k \in Kinds, NEW left \in Int, NEW m \in [Kinds -> Int],
         NEW older, NEW a, a = Apply(save, s, r, k, left, m, older),
         NEW use, use = Part(left, m[k]), ~s.failed, use # 0,
         \A i \in DOMAIN s.pays : s.pays[i] # RowFor(r, k, use)
  PROVE  a.db = save[Recorded(s, Less(m, k, use), RowFor(r, k, use))][r]
<1> DEFINE mm == Less(m, k, use)
           entry == RowFor(r, k, use)
           same == {i \in DOMAIN s.pays : s.pays[i] = entry}
           t == [s EXCEPT !.bal = mm]
<1>1. same = {}
  OBVIOUS
<1>2. [t EXCEPT !.pays = Append(@, entry)] = Recorded(s, mm, entry)
  BY DEF Sane, DB, Recorded
<1>3. a.db = CASE same = {} -> save[[t EXCEPT !.pays = Append(@, entry)]][r]
                [] \E i \in same : same = {i} -> [t EXCEPT !.collided = @ \/ \E i \in same : i <= older]
                [] OTHER -> [t EXCEPT !.failed = TRUE]
  <2>1. a.db = Posted(save, s, r, mm, entry, older)
    BY ApplyCase
  <2> QED BY <2>1 DEF Posted
<1> HIDE DEF same
<1> QED BY <1>1, <1>2, <1>3

(* The record is there already: it is used as it is, or there are several. *)
Found(s, mm, i, older, t) ==
  \E c, f \in BOOLEAN : t = Flagged(s, mm, c, f) /\ (s.collided => c) /\ (f \/ (c <=> s.collided \/ i <= older))

(* One that meets such a row takes from the balance and records nothing:   *)
(* the collision is flagged, or the request fails.                         *)
LEMMA ApplyFinds ==
  ASSUME NEW save, NEW s, Sane(s), NEW r, NEW k \in Kinds, NEW left \in Int, NEW m \in [Kinds -> Int],
         NEW older \in Int, NEW a, a = Apply(save, s, r, k, left, m, older),
         NEW use, use = Part(left, m[k]), ~s.failed, use # 0,
         NEW i \in DOMAIN s.pays, s.pays[i] = RowFor(r, k, use)
  PROVE  Found(s, Less(m, k, use), i, older, a.db)
<1> DEFINE mm == Less(m, k, use)
           entry == RowFor(r, k, use)
           same == {j \in DOMAIN s.pays : s.pays[j] = entry}
           t == [s EXCEPT !.bal = mm]
<1>1. a.db = CASE same = {} -> save[[t EXCEPT !.pays = Append(@, entry)]][r]
                [] \E j \in same : same = {j} -> [t EXCEPT !.collided = @ \/ \E j \in same : j <= older]
                [] OTHER -> [t EXCEPT !.failed = TRUE]
  <2>1. a.db = Posted(save, s, r, mm, entry, older)
    BY ApplyCase
  <2> QED BY <2>1 DEF Posted
<1>2. i \in same
  OBVIOUS
<1>3. s.collided \in BOOLEAN /\ s.failed = FALSE /\ s.failed \in BOOLEAN
  BY SaneFields
<1> HIDE DEF same
<1>4. CASE same = {i}
  <2>1. (\E j \in same : same = {j}) /\ ((\E j \in same : j <= older) <=> i <= older) /\ same # {}
    BY <1>4
  <2>2. a.db = [t EXCEPT !.collided = @ \/ \E j \in same : j <= older]
    BY <1>1, <2>1
  <2>3. PICK c \in BOOLEAN : c = (s.collided \/ \E j \in same : j <= older)
    BY <1>3, Zenon
  <2>4. c <=> s.collided \/ i <= older
    BY <2>1, <2>3
  <2>5. [t EXCEPT !.collided = @ \/ \E j \in same : j <= older] =
          [s EXCEPT !.bal = mm, !.collided = s.collided \/ \E j \in same : j <= older, !.failed = FALSE]
    BY <1>3 DEF Sane, DB
  <2>6. a.db = Flagged(s, mm, c, FALSE)
    BY <2>2, <2>3, <2>5, Zenon DEF Flagged
  <2>7. s.collided => c
    BY <2>4
  <2> QED BY <2>4, <2>6, <2>7, Zenon DEF Found
<1>5. CASE same # {i}
  <2>1. same # {} /\ ~\E j \in same : same = {j}
    BY <1>2, <1>5
  <2>2. a.db = [t EXCEPT !.failed = TRUE]
    BY <1>1, <2>1
  <2>3. [t EXCEPT !.failed = TRUE] = [s EXCEPT !.bal = mm, !.collided = s.collided, !.failed = TRUE]
    BY DEF Sane, DB
  <2>4. a.db = Flagged(s, mm, s.collided, TRUE)
    BY <2>2, <2>3 DEF Flagged
  <2> QED BY <1>3, <2>4, Zenon DEF Found
<1> QED BY <1>4, <1>5

(* The types of what a debit works with.                                   *)
LEMMA ApplyTypes ==
  ASSUME NEW s, Sane(s), NEW r \in DOMAIN s.regs, NEW k \in Kinds, NEW left \in Int, NEW m \in [Kinds -> Int],
         NEW use, use = Part(left, m[k]), NEW mm, mm = Less(m, k, use),
         NEW entry, entry = RowFor(r, k, use)
  PROVE  use \in Nat /\ mm \in [Kinds -> Int] /\ mm[k] = m[k] - use /\ (\A j \in Kinds : j # k => mm[j] = m[j]) /\ entry \in Payment
<1>1. m[k] \in Int /\ r \in Nat
  BY SaneFields
<1>2. use \in Nat
  BY <1>1 DEF Part
<1>3. mm \in [Kinds -> Int] /\ mm[k] = m[k] - use /\ \A j \in Kinds : j # k => mm[j] = m[j]
  BY <1>1, <1>2 DEF Less
<1>4. entry \in Payment
  BY <1>1, <1>2 DEF Payment, RowFor
<1> QED BY <1>2, <1>3, <1>4

-----------------------------------------------------------------------------
(* A balance pays no more than it has and no more than is asked; what it   *)
(* leaves pays nothing of the rest.                                        *)
LEMMA PartIs ==
  ASSUME NEW rem \in Int, NEW b \in Int, NEW u, u = Part(rem, b)
  PROVE  /\ u \in Nat
         /\ Part(rem - u, b - u) = 0
         /\ u = 0 => rem <= 0 \/ b <= 0
         /\ rem >= 0 => u <= rem
         /\ u > 0 => u <= b /\ u <= rem
BY DEF Part

(* The contract, for one state and one registration.                       *)
LEMMA MeetsAt ==
  ASSUME NEW save, Contract(save), NEW s, Sane(s), NEW r \in DOMAIN s.regs, NEW t, t = save[s][r]
  PROVE  Meets(s, r, t)
BY DEF Contract

(* The save of a nested level pays exactly what the balances hold, unless  *)
(* something went wrong.                                                   *)
LEMMA NestedPays ==
  ASSUME NEW save, Contract(save), NEW s, Sane(s), NEW r \in DOMAIN s.regs, NEW t, t = save[s][r],
         ~s.failed, Live(s, r), Gathered(s, r), PaidFor(s, r) <= Due(s, r)
  PROVE  Off(t) \/ Pays(s, r, t)
<1>1. Meets(s, r, t)
  BY MeetsAt
<1>2. Transferred(s, r) = s
  BY TransfersNothing
<1> QED BY <1>1, <1>2 DEF Meets, PaysExactly

(* A debit, and the save of the record it creates.                         *)
LEMMA ApplyKeeps ==
  ASSUME NEW save, Contract(save), NEW s, Sane(s), NEW r \in DOMAIN s.regs, NEW k \in Kinds, NEW left \in Int,
         NEW m \in [Kinds -> Int], NEW older \in Int, NEW a, a = Apply(save, s, r, k, left, m, older)
  PROVE  /\ Carries(s, a.db) /\ KeepsAll(s, a.db)
         /\ a.left \in Int /\ a.m \in [Kinds -> Int]
<1> DEFINE use == Part(left, m[k])
           mm == Less(m, k, use)
           entry == RowFor(r, k, use)
           x == Recorded(s, mm, entry)
<1>1. /\ use = Part(left, m[k]) /\ mm = Less(m, k, use) /\ entry = RowFor(r, k, use)
      /\ x = Recorded(s, mm, entry)
  OBVIOUS
<1>2. entry.reg = r
  BY DEF RowFor
<1> HIDE DEF use, mm, entry, x
<1>3. use \in Nat /\ mm \in [Kinds -> Int] /\ entry \in Payment
  BY <1>1, ApplyTypes
<1>4. CASE s.failed \/ use = 0
  <2>1. a.db = s /\ a.left = left /\ a.m = m
    BY <1>1, <1>4, ApplyNothing
  <2> QED BY <2>1, CarriesItself DEF KeepsAll
<1>5. CASE ~s.failed /\ use # 0
  <2>1. a.left = left - use /\ a.m = mm
    BY <1>1, <1>5, ApplyCase
  <2>2. a.left \in Int /\ a.m \in [Kinds -> Int]
    <3>1. left - use \in Int
      BY <1>3
    <3> QED BY <1>3, <2>1, <3>1
  <2>3. CASE \A i \in DOMAIN s.pays : s.pays[i] # entry
    <3>1. /\ Carries(s, x) /\ x.regs = s.regs /\ x.pays = Append(s.pays, entry) /\ x.failed = s.failed
      BY <1>1, <1>3, <1>2, RowCreated
    <3>2. Sane(x) /\ r \in DOMAIN x.regs
      BY <3>1 DEF Carries
    <3>3. Meets(x, r, a.db)
      <4>1. a.db = save[x][r]
        BY <1>1, <1>5, <2>3, ApplyCreates
      <4> QED BY <3>2, <4>1, MeetsAt
    <3>4. \A q : q # r => Untouched(s, x, q)
      BY <1>3, <1>2, <3>1, <3>2, AppendedRow
    <3>5. Carries(s, a.db)
      BY <3>1, <3>3, CarriesOn DEF Meets
    <3>6. ASSUME NEW q \in DOMAIN s.regs, Returned(s, q) PROVE a.db.failed \/ Returned(a.db, q)
      <4>1. q = r \/ Returned(x, q)
        BY <3>1, <3>4, <3>6, UntouchedKeeps
      <4>2. KeepsReturned(x, r, a.db)
        BY <3>3 DEF Meets
      <4> QED BY <3>1, <4>1, <4>2 DEF KeepsReturned
    <3> QED BY <2>2, <3>5, <3>6 DEF KeepsAll
  <2>4. CASE \E i \in DOMAIN s.pays : s.pays[i] = entry
    <3>1. PICK c \in BOOLEAN, f \in BOOLEAN : /\ s.collided => c
                                              /\ a.db = Flagged(s, mm, c, f)
      <4>1. PICK i \in DOMAIN s.pays : s.pays[i] = entry
        BY <2>4
      <4>2. Found(s, Less(m, k, use), i, older, a.db)
        BY <1>1, <1>5, <4>1, ApplyFinds
      <4> QED BY <1>1, <4>2 DEF Found
    <3>2. Carries(s, a.db) /\ \A q : Untouched(s, a.db, q)
      <4>1. s.failed => f
        BY <1>5
      <4> QED BY <1>3, <3>1, <4>1, Written
    <3>3. KeepsAll(s, a.db)
      <4>1. ASSUME NEW q \in DOMAIN s.regs, Returned(s, q) PROVE Returned(a.db, q)
        BY <3>2, <4>1, UntouchedKeeps, SMTT(40)
      <4> QED BY <4>1 DEF KeepsAll
    <3> QED BY <2>2, <3>2, <3>3
  <2> QED BY <2>3, <2>4
<1> QED BY <1>4, <1>5

(* The two debits of one save, each with the contract of the saves it      *)
(* fires.                                                                  *)
LEMMA UseIs ==
  ASSUME NEW save, Contract(save), NEW s, Sane(s), NEW r \in DOMAIN s.regs, NEW rem \in Int,
         NEW u, u = Use(save, s, r, rem)
  PROVE  \E a, b : /\ a = Apply(save, s, r, "token", rem, s.bal, Len(s.pays))
                   /\ b = Apply(save, a.db, r, "credit", a.left, a.m, Len(s.pays))
                   /\ u.db = b.db /\ u.used = rem - b.left
                   /\ Carries(s, a.db) /\ KeepsAll(s, a.db) /\ a.left \in Int /\ a.m \in [Kinds -> Int]
                   /\ Carries(a.db, b.db) /\ KeepsAll(a.db, b.db) /\ b.left \in Int
                   /\ r \in DOMAIN a.db.regs
<1> DEFINE a == Apply(save, s, r, "token", rem, s.bal, Len(s.pays))
           b == Apply(save, a.db, r, "credit", a.left, a.m, Len(s.pays))
<1>1. u = [db |-> b.db, used |-> rem - b.left]
  BY DEF Use
<1>2. s.bal \in [Kinds -> Int] /\ Len(s.pays) \in Int /\ "token" \in Kinds /\ "credit" \in Kinds
  BY SaneFields DEF Kinds
<1> HIDE DEF b
<1>3. u.db = b.db /\ u.used = rem - b.left
  BY <1>1
<1>4. b = Apply(save, a.db, r, "credit", a.left, a.m, Len(s.pays))
  BY DEF b
<1>5. a = Apply(save, s, r, "token", rem, s.bal, Len(s.pays))
  OBVIOUS
<1> HIDE DEF a
<1>6. Carries(s, a.db) /\ KeepsAll(s, a.db) /\ a.left \in Int /\ a.m \in [Kinds -> Int]
  BY <1>2, <1>5, ApplyKeeps
<1>7. Sane(a.db) /\ r \in DOMAIN a.db.regs
  BY <1>6 DEF Carries, Framed
<1>8. Carries(a.db, b.db) /\ KeepsAll(a.db, b.db) /\ b.left \in Int
  BY <1>2, <1>4, <1>6, <1>7, ApplyKeeps
<1> QED BY <1>3, <1>4, <1>5, <1>6, <1>7, <1>8

(* Both debits together keep what a save keeps.                            *)
LEMMA UseKeeps ==
  ASSUME NEW save, Contract(save), NEW s, Sane(s), NEW r \in DOMAIN s.regs, NEW rem \in Int,
         NEW u, u = Use(save, s, r, rem)
  PROVE  Carries(s, u.db) /\ KeepsAll(s, u.db) /\ u.used \in Int
<1>1. PICK a, b : /\ u.db = b.db /\ u.used = rem - b.left
                  /\ Carries(s, a.db) /\ KeepsAll(s, a.db)
                  /\ Carries(a.db, b.db) /\ KeepsAll(a.db, b.db) /\ b.left \in Int
  BY UseIs
<1> QED BY <1>1, CarriesOn, KeepsAllOn

-----------------------------------------------------------------------------
(* The amounts one save pays are integers.                                 *)
LEMMA Amounts ==
  ASSUME NEW s, Sane(s), NEW r \in DOMAIN s.regs, NEW ut, ut = FromTokens(s, r), NEW uc, uc = FromCredits(s, r)
  PROVE  /\ PaidFor(s, r) \in Nat /\ Due(s, r) \in Nat /\ Rest(s, r) \in Int
         /\ s.bal["token"] \in Int /\ s.bal["credit"] \in Int
         /\ ut \in Nat /\ uc \in Nat
         /\ ut = Part(Rest(s, r), s.bal["token"]) /\ uc = Part(Rest(s, r) - ut, s.bal["credit"])
<1>1. PaidFor(s, r) \in Nat /\ Due(s, r) \in Nat
  BY SaneTotals
<1>2. Rest(s, r) \in Int
  BY <1>1 DEF Rest
<1>3. s.bal["token"] \in Int /\ s.bal["credit"] \in Int
  BY SaneFields DEF Kinds
<1>4. ut \in Nat /\ ut = Part(Rest(s, r), s.bal["token"])
  BY <1>2, <1>3, PartIs DEF FromTokens
<1>5. Rest(s, r) - ut \in Int
  BY <1>2, <1>4
<1>6. uc = Part(Rest(s, r) - ut, s.bal["credit"])
  BY <1>4 DEF FromCredits, FromTokens
<1>7. uc \in Nat
  BY <1>3, <1>5, <1>6, PartIs
<1> QED BY <1>1, <1>2, <1>3, <1>4, <1>6, <1>7

(* A record of what one balance pays, in a state to be saved.              *)
LEMMA RecordedIs ==
  ASSUME NEW s, Sane(s), NEW r \in DOMAIN s.regs, Live(s, r), Gathered(s, r),
         NEW k \in Kinds, NEW v \in Nat, NEW m \in [Kinds -> Int], NEW x, x = Recorded(s, m, RowFor(r, k, v))
  PROVE  /\ Carries(s, x) /\ Sane(x) /\ r \in DOMAIN x.regs /\ Live(x, r) /\ Gathered(x, r)
         /\ x.bal = m /\ x.regs = s.regs /\ x.failed = s.failed /\ x.collided = s.collided
         /\ x.pays = Append(s.pays, RowFor(r, k, v))
         /\ PaidFor(x, r) = PaidFor(s, r) + v /\ Due(x, r) = Due(s, r) /\ Rest(x, r) = Rest(s, r) - v
         /\ \A j \in Kinds : Used(x, j) = Used(s, j) + IF k = j THEN v ELSE 0
         /\ \A q : q # r => Untouched(s, x, q)
<1> DEFINE entry == RowFor(r, k, v)
<1>1. entry \in Payment /\ entry.reg = r /\ entry.kind = k /\ entry.value = v
  BY SaneFields DEF RowFor, Payment
<1>2. entry = RowFor(r, k, v)
  OBVIOUS
<1> HIDE DEF entry
<1>3. ~s.regs[r].cancelled
  BY DEF Live, Active
<1>4. /\ Carries(s, x) /\ x.bal = m /\ x.pays = Append(s.pays, entry)
      /\ x.regs = s.regs /\ x.failed = s.failed /\ x.collided = s.collided /\ Gathered(x, r)
  BY <1>1, <1>2, <1>3, RowCreated
<1>5. Sane(x) /\ r \in DOMAIN x.regs /\ Live(x, r) /\ Due(x, r) = Due(s, r)
  BY <1>4, CarriesSame DEF Carries
<1>6. /\ \A j \in Kinds : Used(x, j) = Used(s, j) + IF entry.kind = j THEN entry.value ELSE 0
      /\ PaidFor(x, entry.reg) = PaidFor(s, entry.reg) + entry.value
      /\ \A q : q # entry.reg => Untouched(s, x, q)
  BY <1>1, <1>4, <1>5, AppendedRow
<1>7. PaidFor(x, r) = PaidFor(s, r) + v /\ \A j \in Kinds : Used(x, j) = Used(s, j) + IF k = j THEN v ELSE 0
  BY <1>1, <1>6
<1>8. Rest(x, r) = Rest(s, r) - v
  <2>1. PaidFor(s, r) \in Nat /\ Due(s, r) \in Nat
    BY SaneTotals
  <2> QED BY <1>5, <1>7, <2>1 DEF Rest
<1> QED BY <1>1, <1>2, <1>4, <1>5, <1>6, <1>7, <1>8

(* The debit of the tokens, with the save that its record fires and that   *)
(* pays from the credits already.                                          *)
LEMMA TokensExact ==
  ASSUME NEW save, Contract(save), NEW s, Sane(s), NEW r \in DOMAIN s.regs, ~s.failed, Live(s, r), Gathered(s, r),
         NEW rem, rem = Rest(s, r), rem >= 0, NEW ut, ut = FromTokens(s, r), NEW uc, uc = FromCredits(s, r),
         NEW a, a = Apply(save, s, r, "token", rem, s.bal, Len(s.pays))
  PROVE  /\ a.left = rem - ut
         /\ a.m \in [Kinds -> Int] /\ a.m["token"] = s.bal["token"] - ut /\ a.m["credit"] = s.bal["credit"]
         /\ Off(a.db) \/ (ut = 0 /\ a.db = s /\ a.m = s.bal) \/ (ut > 0 /\ Moves(s, r, ut, uc, a.db))
<1>1. "token" \in Kinds /\ "credit" \in Kinds /\ "token" # "credit"
  BY DEF Kinds
<1>2. /\ PaidFor(s, r) \in Nat /\ Due(s, r) \in Nat /\ rem \in Int
      /\ s.bal["token"] \in Int /\ s.bal["credit"] \in Int
      /\ ut \in Nat /\ uc \in Nat /\ ut = Part(rem, s.bal["token"]) /\ uc = Part(rem - ut, s.bal["credit"])
  BY Amounts
<1>3. ut <= rem /\ Part(rem - ut, s.bal["token"] - ut) = 0
  BY <1>2, PartIs
<1>4. s.bal \in [Kinds -> Int] /\ Len(s.pays) \in Int /\ Len(s.pays) \in Nat /\ DOMAIN s.pays = 1..Len(s.pays)
  BY SaneFields
<1>5. CASE ut = 0
  <2>1. a.db = s /\ a.left = rem /\ a.m = s.bal
    <3>1. s.failed \/ Part(rem, s.bal["token"]) = 0
      BY <1>2, <1>5
    <3> QED BY <1>1, <1>2, <1>4, <3>1, ApplyNothing
  <2> QED BY <1>2, <1>4, <1>5, <2>1
<1>6. CASE ut # 0
  <2> DEFINE mm == Less(s.bal, "token", ut)
             entry == RowFor(r, "token", ut)
             x == Recorded(s, mm, entry)
  <2>0. mm = Less(s.bal, "token", ut) /\ entry = RowFor(r, "token", ut) /\ x = Recorded(s, mm, entry)
    OBVIOUS
  <2>1. mm \in [Kinds -> Int] /\ mm["token"] = s.bal["token"] - ut /\ mm["credit"] = s.bal["credit"]
    BY <1>1, <1>2, <1>4 DEF Less
  <2> HIDE DEF mm, entry, x
  <2>5. /\ "token" \in Kinds /\ rem \in Int /\ s.bal \in [Kinds -> Int] /\ Len(s.pays) \in Int
        /\ ut \in Nat /\ ut = Part(rem, s.bal["token"]) /\ ut # 0
    BY <1>1, <1>2, <1>4, <1>6
  <2>2. a.left = rem - ut /\ a.m = mm
    BY <2>0, <2>5, ApplyCase
  <2>3. CASE \A i \in DOMAIN s.pays : s.pays[i] # entry
    <3>1. a.db = save[x][r]
      BY <2>0, <2>3, <2>5, ApplyCreates
    <3>2. /\ Sane(x) /\ r \in DOMAIN x.regs /\ Live(x, r) /\ Gathered(x, r)
          /\ x.bal = mm /\ x.regs = s.regs /\ ~x.failed
          /\ x.pays = Append(s.pays, entry) /\ PaidFor(x, r) = PaidFor(s, r) + ut
          /\ Due(x, r) = Due(s, r) /\ Rest(x, r) = rem - ut
      BY <2>0, <2>1, <2>5, RecordedIs, SMTT(30)
    <3>3. PaidFor(x, r) <= Due(x, r)
      <4>1. PaidFor(s, r) + ut <= Due(s, r)
        BY <1>2, <1>3 DEF Rest
      <4> QED BY <3>2, <4>1
    <3>4. Off(a.db) \/ Pays(x, r, a.db)
      BY <3>1, <3>2, <3>3, NestedPays
    <3>5. FromTokens(x, r) = 0
      BY <1>3, <2>1, <3>2 DEF FromTokens
    <3>6. FromCredits(x, r) = uc
      BY <1>2, <2>1, <3>2, <3>5 DEF FromCredits
    <3>7. Pays(x, r, a.db) => Moves(x, r, 0, uc, a.db)
      BY <3>5, <3>6 DEF Pays, PaysFrom
    <3>8. WithRow(x.pays, r, "token", 0) = WithRow(s.pays, r, "token", ut)
      <4>1. x.pays = Append(s.pays, RowFor(r, "token", ut)) /\ ut > 0
        BY <2>0, <2>5, <3>2
      <4> QED BY <4>1 DEF WithRow, RowFor
    <3>9. a.db.bal["token"] = x.bal["token"] - 0 => a.db.bal["token"] = s.bal["token"] - ut
      BY <1>2, <2>1, <3>2, SMTT(40)
    <3>10. Moves(x, r, 0, uc, a.db) => Moves(s, r, ut, uc, a.db)
      BY <2>1, <3>2, <3>8, <3>9 DEF Moves
    <3> QED BY <1>2, <1>6, <2>1, <2>2, <3>4, <3>7, <3>10
  <2>4. CASE \E i \in DOMAIN s.pays : s.pays[i] = entry
    <3>1. PICK i \in DOMAIN s.pays : s.pays[i] = entry
      BY <2>4
    <3>2. PICK c, f \in BOOLEAN : a.db = Flagged(s, mm, c, f) /\ (s.collided => c) /\ (f \/ (c <=> s.collided \/ i <= Len(s.pays)))
      <4>1. s.pays[i] = RowFor(r, "token", ut)
        BY <2>0, <3>1
      <4>2. Found(s, Less(s.bal, "token", ut), i, Len(s.pays), a.db)
        BY <2>5, <4>1, ApplyFinds
      <4> QED BY <2>0, <4>2 DEF Found
    <3>3. i <= Len(s.pays)
      BY <1>4
    <3>4. c \/ f
      BY <3>2, <3>3
    <3>5. a.db.collided = c /\ a.db.failed = f
      <4>1. s.failed => f
        OBVIOUS
      <4> QED BY <2>1, <3>2, <4>1, Written
    <3> QED BY <2>1, <2>2, <3>4, <3>5 DEF Off
  <2> QED BY <2>3, <2>4
<1> QED BY <1>5, <1>6

(* Credits on top of what the tokens paid: the record was created by the   *)
(* save of the tokens' record, or is created now.                          *)
LEMMA CreditsAfter ==
  ASSUME NEW save, Contract(save), NEW s, Sane(s), NEW r \in DOMAIN s.regs, ~s.failed, Live(s, r), Gathered(s, r),
         NEW rem, rem = Rest(s, r), rem >= 0, NEW ut, ut = FromTokens(s, r), NEW uc, uc = FromCredits(s, r),
         ut > 0, NEW d, Carries(s, d), Moves(s, r, ut, uc, d), ~Off(d),
         NEW m \in [Kinds -> Int], m["token"] = s.bal["token"] - ut, m["credit"] = s.bal["credit"],
         NEW b, b = Apply(save, d, r, "credit", rem - ut, m, Len(s.pays))
  PROVE  Off(b.db) \/ (b.left = rem - ut - uc /\ Moves(s, r, ut, uc, b.db))
<1>1. "token" \in Kinds /\ "credit" \in Kinds /\ "token" # "credit"
  BY DEF Kinds
<1>2. /\ rem \in Int /\ s.bal["token"] \in Int /\ s.bal["credit"] \in Int
      /\ ut \in Nat /\ uc \in Nat /\ rem - ut \in Int /\ uc = Part(rem - ut, m["credit"])
  BY Amounts
<1>3. Sane(d) /\ r \in DOMAIN d.regs /\ ~d.failed /\ ~d.collided
  BY DEF Carries, Framed, Off
<1>4. s.pays \in Seq(Payment) /\ Len(s.pays) \in Nat /\ Len(s.pays) \in Int
  BY SaneFields
<1>5. CASE uc = 0
  <2>1. b.db = d /\ b.left = rem - ut
    BY <1>1, <1>2, <1>5, ApplyNothing
  <2> QED BY <1>2, <1>5, <2>1
<1>6. CASE uc # 0
  <2> DEFINE last == Len(s.pays) + 2
             one == Append(s.pays, RowFor(r, "token", ut))
  <2>1. d.pays = Append(one, RowFor(r, "credit", uc))
    BY <1>2, <1>6 DEF Moves, WithRow, RowFor
  <2>2. RowFor(r, "token", ut) \in Payment /\ RowFor(r, "credit", uc) \in Payment
    BY <1>2, SaneFields DEF RowFor, Payment, Kinds
  <2>3. one \in Seq(Payment) /\ Len(one) = Len(s.pays) + 1
    BY <1>4, <2>2
  <2> HIDE DEF one
  <2>4. last \in DOMAIN d.pays /\ d.pays[last] = RowFor(r, "credit", uc)
    <3>1. last = Len(one) + 1
      BY <1>4, <2>3
    <3>2. \A entry \in Payment : Len(one) + 1 \in DOMAIN Append(one, entry) /\ Append(one, entry)[Len(one) + 1] = entry
      BY <2>3
    <3> QED BY <2>1, <2>2, <3>1, <3>2
  <2>5. PICK i \in DOMAIN d.pays : d.pays[i] = RowFor(r, "credit", uc) /\ ~(i <= Len(s.pays))
    BY <1>4, <2>4
  <2> DEFINE mm == Less(m, "credit", uc)
  <2>6. mm \in [Kinds -> Int] /\ mm["token"] = m["token"] /\ mm["credit"] = m["credit"] - uc
    BY <1>1, <1>2 DEF Less
  <2>7. b.left = rem - ut - uc
    <3> DEFINE left == rem - ut
    <3>1. left \in Int /\ uc = Part(left, m["credit"]) /\ b = Apply(save, d, r, "credit", left, m, Len(s.pays))
      BY <1>2
    <3> HIDE DEF left
    <3>2. b.left = left - uc
      BY <1>1, <1>3, <1>6, <3>1, ApplyCase
    <3> QED BY <3>2 DEF left
  <2>8. PICK c, f \in BOOLEAN : b.db = Flagged(d, mm, c, f) /\ (d.collided => c) /\ (f \/ (c <=> d.collided \/ i <= Len(s.pays)))
    <3> DEFINE left == rem - ut
    <3>1. left \in Int /\ uc = Part(left, m["credit"]) /\ b = Apply(save, d, r, "credit", left, m, Len(s.pays))
      BY <1>2
    <3> HIDE DEF left
    <3>2. Sane(d) /\ ~d.failed /\ uc # 0 /\ Len(s.pays) \in Int
      BY <1>3, <1>4, <1>6
    <3>3. Found(d, Less(m, "credit", uc), i, Len(s.pays), b.db)
      BY <1>1, <2>5, <3>1, <3>2, ApplyFinds
    <3> QED BY <3>3 DEF Found
  <2> HIDE DEF mm
  <2>9. b.db.bal = mm /\ b.db.pays = d.pays /\ b.db.regs = d.regs /\ b.db.failed = f
    <3>1. d.failed => f
      BY <1>3
    <3> QED BY <1>3, <2>6, <2>8, <3>1, Written
  <2>10. CASE f
    BY <2>9, <2>10 DEF Off
  <2>11. CASE ~f
    <3>1. b.db.bal["token"] = s.bal["token"] - ut /\ b.db.bal["credit"] = s.bal["credit"] - uc
      BY <2>6, <2>9
    <3>2. Moves(s, r, ut, uc, b.db)
      BY <2>9, <3>1 DEF Moves
    <3> QED BY <2>7, <3>2
  <2> QED BY <2>10, <2>11
<1> QED BY <1>5, <1>6

(* The debit of the credits when no tokens are there.                      *)
LEMMA CreditsAlone ==
  ASSUME NEW save, Contract(save), NEW s, Sane(s), NEW r \in DOMAIN s.regs, ~s.failed, Live(s, r), Gathered(s, r),
         NEW rem, rem = Rest(s, r), rem >= 0, 0 = FromTokens(s, r), NEW uc, uc = FromCredits(s, r),
         NEW b, b = Apply(save, s, r, "credit", rem, s.bal, Len(s.pays))
  PROVE  Off(b.db) \/ (b.left = rem - uc /\ Moves(s, r, 0, uc, b.db))
<1>1. "token" \in Kinds /\ "credit" \in Kinds /\ "token" # "credit"
  BY DEF Kinds
<1>2. /\ PaidFor(s, r) \in Nat /\ Due(s, r) \in Nat /\ rem \in Int
      /\ s.bal["token"] \in Int /\ s.bal["credit"] \in Int
      /\ uc \in Nat /\ Part(rem, s.bal["token"]) = 0 /\ uc = Part(rem, s.bal["credit"])
  <2>1. rem - 0 = rem /\ rem \in Int
    BY Amounts
  <2> QED BY <2>1, Amounts
<1>3. s.bal \in [Kinds -> Int] /\ Len(s.pays) \in Int /\ Len(s.pays) \in Nat /\ DOMAIN s.pays = 1..Len(s.pays)
  BY SaneFields
<1>4. CASE uc = 0
  <2>1. b.db = s /\ b.left = rem
    <3>1. s.failed \/ Part(rem, s.bal["credit"]) = 0
      BY <1>2, <1>4
    <3> QED BY <1>1, <1>2, <1>3, <3>1, ApplyNothing
  <2>2. WithRow(WithRow(s.pays, r, "token", 0), r, "credit", 0) = s.pays
    BY DEF WithRow
  <2>3. s.bal["token"] = s.bal["token"] - 0 /\ s.bal["credit"] = s.bal["credit"] - 0
    BY <1>2
  <2> QED BY <1>2, <1>4, <2>1, <2>2, <2>3 DEF Moves
<1>5. CASE uc # 0
  <2> DEFINE mm == Less(s.bal, "credit", uc)
             entry == RowFor(r, "credit", uc)
             x == Recorded(s, mm, entry)
  <2>0. mm = Less(s.bal, "credit", uc) /\ entry = RowFor(r, "credit", uc) /\ x = Recorded(s, mm, entry)
    OBVIOUS
  <2>2. mm \in [Kinds -> Int] /\ mm["token"] = s.bal["token"] /\ mm["credit"] = s.bal["credit"] - uc
    BY <1>1, <1>2, <1>3 DEF Less
  <2> HIDE DEF mm, entry, x
  <2>5. /\ "credit" \in Kinds /\ rem \in Int /\ s.bal \in [Kinds -> Int] /\ Len(s.pays) \in Int
        /\ uc \in Nat /\ uc = Part(rem, s.bal["credit"]) /\ uc # 0
    BY <1>1, <1>2, <1>3, <1>5
  <2>1. b.left = rem - uc
    BY <2>5, ApplyCase
  <2>3. CASE \A i \in DOMAIN s.pays : s.pays[i] # entry
    <3>1. b.db = save[x][r]
      BY <2>0, <2>3, <2>5, ApplyCreates
    <3>2. /\ Sane(x) /\ r \in DOMAIN x.regs /\ Live(x, r) /\ Gathered(x, r)
          /\ x.bal = mm /\ x.regs = s.regs /\ ~x.failed
          /\ x.pays = Append(s.pays, entry) /\ PaidFor(x, r) = PaidFor(s, r) + uc
          /\ Due(x, r) = Due(s, r) /\ Rest(x, r) = rem - uc
      BY <2>0, <2>2, <2>5, RecordedIs, SMTT(30)
    <3>3. uc <= rem /\ Part(rem - uc, s.bal["credit"] - uc) = 0
      BY <1>2, PartIs
    <3>4. PaidFor(x, r) <= Due(x, r)
      <4>1. PaidFor(s, r) + uc <= Due(s, r)
        BY <1>2, <3>3 DEF Rest
      <4> QED BY <3>2, <4>1
    <3>5. Off(b.db) \/ Pays(x, r, b.db)
      BY <3>1, <3>2, <3>4, NestedPays
    <3>6. FromTokens(x, r) = 0
      <4>1. s.bal["token"] <= 0
        BY <1>2, <1>5, PartIs DEF Part
      <4>2. Part(rem - uc, s.bal["token"]) = 0
        BY <1>2, <4>1 DEF Part
      <4> QED BY <2>2, <3>2, <4>2 DEF FromTokens
    <3>7. FromCredits(x, r) = 0
      <4>1. rem - uc - 0 = rem - uc
        BY <1>2
      <4> QED BY <2>2, <3>2, <3>3, <3>6, <4>1 DEF FromCredits
    <3>8. Pays(x, r, b.db) => Moves(x, r, 0, 0, b.db)
      BY <3>6, <3>7 DEF Pays, PaysFrom
    <3>9. WithRow(WithRow(x.pays, r, "token", 0), r, "credit", 0) = WithRow(WithRow(s.pays, r, "token", 0), r, "credit", uc)
      <4>1. x.pays = Append(s.pays, RowFor(r, "credit", uc)) /\ uc > 0
        BY <2>0, <2>5, <3>2
      <4> QED BY <4>1 DEF WithRow, RowFor
    <3>10. x.bal["token"] - 0 = s.bal["token"] - 0 /\ x.bal["credit"] - 0 = s.bal["credit"] - uc
      BY <1>2, <2>2, <3>2, SMTT(40)
    <3>11. Moves(x, r, 0, 0, b.db) => Moves(s, r, 0, uc, b.db)
      BY <3>2, <3>9, <3>10 DEF Moves
    <3> QED BY <2>1, <3>5, <3>8, <3>11
  <2>4. CASE \E i \in DOMAIN s.pays : s.pays[i] = entry
    <3>1. PICK i \in DOMAIN s.pays : s.pays[i] = entry
      BY <2>4
    <3>2. PICK c, f \in BOOLEAN : b.db = Flagged(s, mm, c, f) /\ (s.collided => c) /\ (f \/ (c <=> s.collided \/ i <= Len(s.pays)))
      <4>1. s.pays[i] = RowFor(r, "credit", uc)
        BY <2>0, <3>1
      <4>2. Found(s, Less(s.bal, "credit", uc), i, Len(s.pays), b.db)
        BY <2>5, <4>1, ApplyFinds
      <4> QED BY <2>0, <4>2 DEF Found
    <3>3. i <= Len(s.pays)
      BY <1>3
    <3>4. c \/ f
      BY <3>2, <3>3
    <3>5. b.db.collided = c /\ b.db.failed = f
      <4>1. s.failed => f
        OBVIOUS
      <4> QED BY <2>2, <3>2, <4>1, Written
    <3> QED BY <3>4, <3>5 DEF Off
  <2> QED BY <2>3, <2>4
<1> QED BY <1>4, <1>5

(* The two debits of a save, with all the saves they fire.                 *)
LEMMA UseExact ==
  ASSUME NEW save, Contract(save), NEW s, Sane(s), NEW r \in DOMAIN s.regs, ~s.failed, Live(s, r), Gathered(s, r),
         NEW rem, rem = Rest(s, r), rem >= 0, NEW ut, ut = FromTokens(s, r), NEW uc, uc = FromCredits(s, r),
         NEW u, u = Use(save, s, r, rem)
  PROVE  Off(u.db) \/ (u.used = ut + uc /\ Moves(s, r, ut, uc, u.db))
<1>1. rem \in Int /\ ut \in Nat /\ uc \in Nat
  BY Amounts
<1>2. PICK a, b : /\ a = Apply(save, s, r, "token", rem, s.bal, Len(s.pays))
                  /\ b = Apply(save, a.db, r, "credit", a.left, a.m, Len(s.pays))
                  /\ u.db = b.db /\ u.used = rem - b.left
                  /\ Carries(s, a.db) /\ Carries(a.db, b.db)
  BY <1>1, UseIs
<1>3. /\ a.left = rem - ut
      /\ a.m \in [Kinds -> Int] /\ a.m["token"] = s.bal["token"] - ut /\ a.m["credit"] = s.bal["credit"]
      /\ Off(a.db) \/ (ut = 0 /\ a.db = s /\ a.m = s.bal) \/ (ut > 0 /\ Moves(s, r, ut, uc, a.db))
  <2>1. a = Apply(save, s, r, "token", rem, s.bal, Len(s.pays))
    BY <1>2
  <2> QED BY <2>1, TokensExact
<1>4. CASE Off(a.db)
  <2>1. Carries(a.db, b.db) /\ u.db = b.db
    BY <1>2
  <2> QED BY <1>4, <2>1 DEF Off, Carries, Grown
<1>5. CASE ut = 0 /\ a.db = s /\ a.m = s.bal
  <2>1. b = Apply(save, s, r, "credit", rem, s.bal, Len(s.pays))
    <3>1. a.left = rem
      BY <1>1, <1>3, <1>5
    <3> QED BY <1>2, <1>5, <3>1
  <2>2. Off(b.db) \/ (b.left = rem - uc /\ Moves(s, r, 0, uc, b.db))
    <3>1. 0 = FromTokens(s, r)
      BY <1>5
    <3> QED BY <2>1, <3>1, CreditsAlone
  <2>3. b.left = rem - uc => rem - b.left = ut + uc
    BY <1>1, <1>5
  <2> QED BY <1>2, <1>5, <2>2, <2>3
<1>6. CASE ut > 0 /\ Moves(s, r, ut, uc, a.db) /\ ~Off(a.db)
  <2>1. b = Apply(save, a.db, r, "credit", rem - ut, a.m, Len(s.pays))
    BY <1>2, <1>3
  <2>2. Off(b.db) \/ (b.left = rem - ut - uc /\ Moves(s, r, ut, uc, b.db))
    BY <1>2, <1>3, <1>6, <2>1, CreditsAfter
  <2>3. b.left = rem - ut - uc => rem - b.left = ut + uc
    BY <1>1
  <2> QED BY <1>2, <2>2, <2>3
<1> QED BY <1>3, <1>4, <1>5, <1>6

-----------------------------------------------------------------------------
(* One row more of a kind adds to what is used of it, and to what is paid  *)
(* for its registration.                                                   *)
LEMMA WithRowIs ==
  ASSUME NEW s, Sane(s), NEW t, Sane(t), NEW r \in DOMAIN s.regs, NEW k \in Kinds, NEW v \in Nat,
         t.pays = WithRow(s.pays, r, k, v)
  PROVE  /\ \A j \in Kinds : Used(t, j) = Used(s, j) + IF k = j THEN v ELSE 0
         /\ PaidFor(t, r) = PaidFor(s, r) + v
         /\ \A q : q # r => Untouched(s, t, q)
<1>1. \A j \in Kinds : Used(s, j) \in Nat
  BY SaneTotals
<1>2. PaidFor(s, r) \in Nat
  BY SaneTotals
<1>3. CASE v = 0
  <2>1. t.pays = s.pays
    BY <1>3 DEF WithRow
  <2>2. \A j \in Kinds : Used(t, j) = Used(s, j)
    BY <2>1 DEF Used
  <2>3. PaidFor(t, r) = PaidFor(s, r)
    BY <2>1 DEF PaidFor
  <2>4. \A q : Untouched(s, t, q)
    BY <2>1 DEF Untouched, RowsOf
  <2> QED BY <1>1, <1>2, <1>3, <2>2, <2>3, <2>4
<1>4. CASE v # 0
  <2> DEFINE entry == RowFor(r, k, v)
  <2>1. entry \in Payment /\ entry.reg = r /\ entry.kind = k /\ entry.value = v
    BY SaneFields DEF RowFor, Payment
  <2>2. t.pays = Append(s.pays, entry)
    BY <1>4 DEF WithRow, RowFor
  <2> HIDE DEF entry
  <2>3. /\ \A j \in Kinds : Used(t, j) = Used(s, j) + IF entry.kind = j THEN entry.value ELSE 0
        /\ PaidFor(t, entry.reg) = PaidFor(s, entry.reg) + entry.value
        /\ \A q : q # entry.reg => Untouched(s, t, q)
    BY <2>1, <2>2, AppendedRow
  <2> QED BY <2>1, <2>3
<1> QED BY <1>3, <1>4

(* Rows that two saves in turn leave, both leave.                          *)
LEMMA UntouchedOn ==
  ASSUME NEW s, NEW t, NEW u, NEW q, Untouched(s, t, q), Untouched(t, u, q)
  PROVE  Untouched(s, u, q)
BY DEF Untouched

(* What a payment from the balances does to the sums, and to other         *)
(* registrations.                                                          *)
LEMMA MovesEffect ==
  ASSUME NEW s, Sane(s), NEW t, Sane(t), t.given = s.given, NEW r \in DOMAIN s.regs, Live(s, r), Gathered(s, r),
         NEW ut \in Nat, NEW uc \in Nat, Moves(s, r, ut, uc, t)
  PROVE  /\ Used(t, "token") = Used(s, "token") + ut /\ Used(t, "credit") = Used(s, "credit") + uc
         /\ PaidFor(t, r) = PaidFor(s, r) + ut + uc
         /\ \A q : q # r => Untouched(s, t, q)
         /\ \A k \in Kinds : t.bal[k] <= s.bal[k]
         /\ \A k \in Kinds : Balanced(s, k) => Balanced(t, k)
<1>1. "token" \in Kinds /\ "credit" \in Kinds /\ "token" # "credit" /\ \A k \in Kinds : k = "token" \/ k = "credit"
  BY DEF Kinds
<1>2. s.bal \in [Kinds -> Int] /\ s.given \in [Kinds -> Int] /\ (\A k \in Kinds : Used(s, k) \in Nat) /\ PaidFor(s, r) \in Nat
  BY SaneFields, SaneTotals
<1>3. PICK m : /\ Sane(m) /\ m.pays = WithRow(s.pays, r, "token", ut) /\ r \in DOMAIN m.regs
  <2>1. CASE ut = 0
    BY <2>1 DEF WithRow
  <2>2. CASE ut # 0
    <3> DEFINE m == Recorded(s, s.bal, RowFor(r, "token", ut))
    <3>0. m = Recorded(s, s.bal, RowFor(r, "token", ut))
      OBVIOUS
    <3> HIDE DEF m
    <3>1. Sane(m) /\ r \in DOMAIN m.regs /\ m.pays = Append(s.pays, RowFor(r, "token", ut))
      <4>1. s.bal \in [Kinds -> Int] /\ "token" \in Kinds
        BY <1>1, <1>2
      <4> QED BY <3>0, <4>1, RecordedIs
    <3>2. m.pays = WithRow(s.pays, r, "token", ut)
      BY <2>2, <3>1 DEF WithRow, RowFor
    <3> QED BY <3>1, <3>2
  <2> QED BY <2>1, <2>2
<1>4. /\ \A j \in Kinds : Used(m, j) = Used(s, j) + IF "token" = j THEN ut ELSE 0
      /\ PaidFor(m, r) = PaidFor(s, r) + ut
      /\ \A q : q # r => Untouched(s, m, q)
  BY <1>1, <1>3, WithRowIs
<1>5. t.pays = WithRow(m.pays, r, "credit", uc)
  BY <1>3 DEF Moves
<1>6. /\ \A j \in Kinds : Used(t, j) = Used(m, j) + IF "credit" = j THEN uc ELSE 0
      /\ PaidFor(t, r) = PaidFor(m, r) + uc
      /\ \A q : q # r => Untouched(m, t, q)
  BY <1>1, <1>3, <1>5, WithRowIs
<1>7. Used(t, "token") = Used(s, "token") + ut /\ Used(t, "credit") = Used(s, "credit") + uc
  BY <1>1, <1>2, <1>4, <1>6
<1>8. PaidFor(t, r) = PaidFor(s, r) + ut + uc
  BY <1>2, <1>4, <1>6
<1>9. \A q : q # r => Untouched(s, t, q)
  BY <1>4, <1>6, UntouchedOn
<1>10. t.bal["token"] = s.bal["token"] - ut /\ t.bal["credit"] = s.bal["credit"] - uc
  BY DEF Moves
<1>11. s.bal["token"] \in Int /\ s.bal["credit"] \in Int /\ s.given["token"] \in Int /\ s.given["credit"] \in Int
  BY <1>1, <1>2
<1>12. \A k \in Kinds : t.bal[k] <= s.bal[k]
  <2>1. t.bal["token"] <= s.bal["token"] /\ t.bal["credit"] <= s.bal["credit"]
    BY <1>10, <1>11
  <2> QED BY <1>1, <2>1
<1>13. \A k \in Kinds : Balanced(s, k) => Balanced(t, k)
  <2>1. Balanced(s, "token") => Balanced(t, "token")
    BY <1>1, <1>2, <1>7, <1>10, <1>11 DEF Balanced
  <2>2. Balanced(s, "credit") => Balanced(t, "credit")
    BY <1>1, <1>2, <1>7, <1>10, <1>11 DEF Balanced
  <2> QED BY <1>1, <2>1, <2>2
<1> QED BY <1>7, <1>8, <1>9, <1>12, <1>13

(* A balance that does not pay all that is asked is used up.               *)
LEMMA PartRest ==
  ASSUME NEW rem \in Int, NEW b \in Int, NEW u, u = Part(rem, b), u < rem
  PROVE  b - u <= 0
BY DEF Part

(* What the balances do not pay, they do not hold.                         *)
LEMMA PaidUp ==
  ASSUME NEW s, Sane(s), NEW t, Carries(s, t), NEW r \in DOMAIN s.regs, Live(s, r), Gathered(s, r), Rest(s, r) >= 0,
         NEW ut, ut = FromTokens(s, r), NEW uc, uc = FromCredits(s, r), Moves(s, r, ut, uc, t)
  PROVE  Served(t, r) /\ Returned(t, r)
<1>1. \A k \in Kinds : k = "token" \/ k = "credit"
  BY DEF Kinds
<1>2. /\ PaidFor(s, r) \in Nat /\ Due(s, r) \in Nat /\ Rest(s, r) \in Int
      /\ s.bal["token"] \in Int /\ s.bal["credit"] \in Int
      /\ ut \in Nat /\ uc \in Nat
      /\ ut = Part(Rest(s, r), s.bal["token"]) /\ uc = Part(Rest(s, r) - ut, s.bal["credit"])
  BY Amounts
<1>3. PaidFor(t, r) = PaidFor(s, r) + ut + uc
  BY <1>2, MovesEffect DEF Carries, Framed
<1>4. Due(t, r) = Due(s, r)
  BY CarriesSame
<1>5. t.bal["token"] = s.bal["token"] - ut /\ t.bal["credit"] = s.bal["credit"] - uc
  BY DEF Moves
<1>6. ut <= Rest(s, r)
  BY <1>2, PartIs
<1>7. Rest(s, r) - ut \in Int /\ Rest(s, r) - ut >= 0
  BY <1>2, <1>6
<1>8. uc <= Rest(s, r) - ut
  BY <1>2, <1>7, PartIs
<1>9. Rest(s, r) = Due(s, r) - PaidFor(s, r)
  BY DEF Rest
<1>10. PaidFor(t, r) <= Due(t, r)
  BY <1>2, <1>3, <1>4, <1>8, <1>9
<1>11. ASSUME PaidFor(t, r) < Due(t, r) PROVE t.bal["token"] <= 0 /\ t.bal["credit"] <= 0
  <2>1. uc < Rest(s, r) - ut
    BY <1>2, <1>3, <1>4, <1>9, <1>11
  <2>2. ut < Rest(s, r)
    BY <1>2, <2>1
  <2>3. s.bal["token"] - ut <= 0
    BY <1>2, <2>2, PartRest
  <2>4. s.bal["credit"] - uc <= 0
    BY <1>2, <1>7, <2>1, PartRest
  <2> QED BY <1>5, <2>3, <2>4
<1>12. Served(t, r)
  BY <1>1, <1>11 DEF Served
<1>13. Returned(t, r)
  <2>1. PaidFor(t, r) \in Int /\ Due(t, r) \in Int
    BY <1>2, <1>3, <1>4
  <2> QED BY <1>10, <2>1 DEF Returned
<1> QED BY <1>12, <1>13

-----------------------------------------------------------------------------
(* Handing over rows first changes nothing of what a save promises.        *)
LEMMA TransferMeets ==
  ASSUME NEW s, Sane(s), NEW r \in DOMAIN s.regs, NEW x, x = Transferred(s, r), NEW t, Meets(x, r, t)
  PROVE  Meets(s, r, t)
<1>1. /\ Carries(s, x)
      /\ x.regs = s.regs /\ x.bal = s.bal /\ x.collided = s.collided /\ x.failed = s.failed
      /\ \A k \in Kinds : Used(x, k) = Used(s, k)
      /\ \A q \in DOMAIN s.regs : q # r /\ ~s.regs[q].cancelled => Untouched(s, x, q)
      /\ ~s.regs[r].cancelled => Gathered(x, r)
      /\ s.regs[r].cancelled => x = s
  BY Transfers
<1>2. /\ x.given = s.given /\ Sane(x) /\ r \in DOMAIN x.regs /\ DOMAIN x.regs = DOMAIN s.regs
      /\ \A q \in DOMAIN s.regs : /\ Active(x, q) <=> Active(s, q)
                                  /\ Live(x, q) <=> Live(s, q)
                                  /\ Current(x, q) <=> Current(s, q)
                                  /\ Due(x, q) = Due(s, q)
  BY <1>1, CarriesSame DEF Carries
<1>3. \A q \in DOMAIN s.regs : Active(s, q) \/ Live(s, q) => ~s.regs[q].cancelled
  BY DEF Active, Live
<1>4. ASSUME NEW q \in DOMAIN s.regs, q # r
      PROVE  /\ Returned(s, q) => Returned(x, q)
             /\ Noted(s, q) => Noted(x, q)
             /\ Served(s, q) => Served(x, q)
  <2>1. CASE s.regs[q].cancelled
    BY <1>2, <1>3, <2>1 DEF Returned, Noted, Served
  <2>2. CASE ~s.regs[q].cancelled
    <3>1. Untouched(s, x, q)
      BY <1>1, <1>4, <2>2
    <3>2. \A k \in Kinds : x.bal[k] <= s.bal[k]
      BY <1>1, SaneFields
    <3> QED BY <1>1, <3>1, <3>2, UntouchedKeeps
  <2> QED BY <2>1, <2>2
<1>5. Carries(s, t)
  BY <1>1, CarriesOn DEF Meets
<1>6. KeepsBalanced(s, t)
  BY <1>1, <1>2 DEF Meets, KeepsBalanced, Balanced
<1>7. KeepsReturned(s, r, t)
  BY <1>2, <1>4 DEF Meets, KeepsReturned
<1>8. KeepsNoted(s, r, t)
  BY <1>2, <1>4 DEF Meets, KeepsNoted
<1>9. KeepsServed(s, r, t)
  <2>1. NotedBut(s, r) => NotedBut(x, r)
    BY <1>2, <1>4 DEF NotedBut
  <2> QED BY <1>2, <1>4, <2>1 DEF Meets, KeepsServed
<1>10. LeavesAlone(s, r, t)
  BY <1>1 DEF Meets, LeavesAlone
<1>11. PaysExactly(s, r, t)
  <2>1. CASE s.regs[r].cancelled
    BY <1>3, <2>1 DEF PaysExactly
  <2>2. CASE ~s.regs[r].cancelled
    <3>1. Transferred(x, r) = x
      BY <1>1, <1>2, <2>2, TransfersNothing
    <3> QED BY <1>1, <1>2, <3>1 DEF Meets, PaysExactly
  <2> QED BY <2>1, <2>2
<1> QED BY <1>5, <1>6, <1>7, <1>8, <1>9, <1>10, <1>11 DEF Meets

(* Nothing is done for a registration whose run is over, or after an error. *)
LEMMA IdleMeets ==
  ASSUME NEW s, Sane(s), NEW r \in DOMAIN s.regs, Closed(s, r) \/ s.failed
  PROVE  Meets(s, r, s)
<1>1. s.failed \/ (~Live(s, r) /\ ~Active(s, r))
  BY DEF Live, Active
<1>2. Carries(s, s)
  BY CarriesItself
<1>3. KeepsBalanced(s, s)
  BY DEF KeepsBalanced
<1>4. KeepsReturned(s, r, s)
  BY <1>1 DEF KeepsReturned, Returned
<1>5. KeepsNoted(s, r, s)
  BY <1>1 DEF KeepsNoted, Noted, Off
<1>6. KeepsServed(s, r, s)
  BY <1>1 DEF KeepsServed, Served, Off
<1>7. LeavesAlone(s, r, s)
  BY DEF LeavesAlone
<1>8. PaysExactly(s, r, s)
  BY <1>1 DEF PaysExactly
<1> QED BY <1>2, <1>3, <1>4, <1>5, <1>6, <1>7, <1>8 DEF Meets

-----------------------------------------------------------------------------
(* A registration's totals are written when its rows pay the price, or no  *)
(* balance may pay.                                                        *)
LEMMA StoredMeets ==
  ASSUME NEW s, Sane(s), NEW r \in DOMAIN s.regs, Gathered(s, r) \/ s.regs[r].cancelled, ~s.failed,
         Rest(s, r) = 0 \/ ~Live(s, r), NEW t, t = Stored(s, r, PaidFor(s, r))
  PROVE  Meets(s, r, t)
<1>1. PaidFor(s, r) \in Nat /\ PaidFor(s, r) \in Int /\ Due(s, r) \in Nat
  BY SaneTotals
<1>2. /\ Carries(s, t)
      /\ t.pays = s.pays /\ t.bal = s.bal /\ t.failed = s.failed /\ t.collided = s.collided
      /\ t.regs[r].paid = PaidFor(s, r) /\ t.regs[r].due = Due(s, r)
      /\ \A q \in DOMAIN s.regs : q # r => t.regs[q] = s.regs[q]
      /\ \A q : Untouched(s, t, q)
      /\ \A k \in Kinds : Used(t, k) = Used(s, k)
  BY <1>1, StoredIs
<1>3. /\ t.given = s.given /\ DOMAIN t.regs = DOMAIN s.regs
      /\ \A q \in DOMAIN s.regs : /\ (Active(t, q) <=> Active(s, q)) /\ (Live(t, q) <=> Live(s, q))
                                  /\ (Current(t, q) <=> Current(s, q)) /\ Due(t, q) = Due(s, q)
  BY <1>2, CarriesSame
<1>4. \A k \in Kinds : t.bal[k] <= s.bal[k]
  <2>1. t.bal = s.bal /\ \A k \in Kinds : s.bal[k] \in Int
    BY <1>2, SaneFields
  <2> QED BY <2>1
<1>5. PaidFor(t, r) = PaidFor(s, r)
  <2>1. t.pays = s.pays
    BY <1>2
  <2> QED BY <2>1 DEF PaidFor
<1>6. Live(t, r) => PaidFor(t, r) = Due(t, r)
  BY <1>1, <1>3, <1>5 DEF Rest
<1>7. KeepsBalanced(s, t)
  BY <1>2, <1>3 DEF KeepsBalanced, Balanced
<1>8. \A q \in DOMAIN s.regs : /\ Returned(s, q) => Returned(t, q)
                               /\ Served(s, q) => Served(t, q)
                               /\ q # r => (Noted(s, q) => Noted(t, q))
  BY <1>2, <1>4, UntouchedKeeps
<1>9. Returned(t, r) /\ Served(t, r)
  BY <1>1, <1>3, <1>6 DEF Returned, Served
<1>10. Noted(t, r)
  BY <1>2, <1>3, <1>5 DEF Noted
<1>11. KeepsReturned(s, r, t)
  BY <1>8, <1>9 DEF KeepsReturned
<1>12. KeepsNoted(s, r, t)
  BY <1>8, <1>10 DEF KeepsNoted
<1>13. KeepsServed(s, r, t)
  BY <1>8, <1>9 DEF KeepsServed
<1>14. LeavesAlone(s, r, t)
  BY <1>2 DEF LeavesAlone
<1>15. PaysExactly(s, r, t)
  <2> SUFFICES ASSUME Live(s, r) PROVE Pays(Transferred(s, r), r, t)
    BY DEF PaysExactly
  <2>1. ~s.regs[r].cancelled
    BY DEF Live, Active
  <2>2. Transferred(s, r) = s
    BY <2>1, TransfersNothing
  <2>3. s.bal["token"] \in Int /\ s.bal["credit"] \in Int
    BY SaneFields DEF Kinds
  <2>4. Rest(s, r) = 0 /\ FromTokens(s, r) = 0
    BY DEF FromTokens, Part
  <2>5. FromCredits(s, r) = 0
    BY <2>4 DEF FromCredits, Part
  <2>6. t.bal["token"] = s.bal["token"] - 0 /\ t.bal["credit"] = s.bal["credit"] - 0
    BY <1>2, <2>3
  <2>7. WithRow(WithRow(s.pays, r, "token", 0), r, "credit", 0) = s.pays
    BY DEF WithRow
  <2>8. t.regs[r].paid = PaidFor(s, r) + 0 + 0
    BY <1>1, <1>2
  <2>9. PaysFrom(s, r, 0, 0, t)
    BY <1>2, <2>6, <2>7, <2>8 DEF PaysFrom, Moves
  <2> QED BY <2>2, <2>4, <2>5, <2>9 DEF Pays
<1> QED BY <1>2, <1>7, <1>11, <1>12, <1>13, <1>14, <1>15 DEF Meets

(* A registration that lacks money is paid from the balances.              *)
LEMMA PayingMeets ==
  ASSUME NEW save, Contract(save), NEW s, Sane(s), NEW r \in DOMAIN s.regs, Gathered(s, r), ~s.failed, Live(s, r),
         Rest(s, r) > 0, NEW u, u = Use(save, s, r, Rest(s, r)), NEW t, t = Stored(u.db, r, PaidFor(s, r) + u.used)
  PROVE  Meets(s, r, t)
<1> DEFINE d == u.db
           ut == FromTokens(s, r)
           uc == FromCredits(s, r)
<1>1. PaidFor(s, r) \in Nat /\ Due(s, r) \in Nat /\ Rest(s, r) \in Int /\ ut \in Nat /\ uc \in Nat
  BY Amounts
<1>2. Carries(s, d) /\ KeepsAll(s, d) /\ u.used \in Int
  BY <1>1, UseKeeps
<1>3. Off(d) \/ (u.used = ut + uc /\ Moves(s, r, ut, uc, d))
  BY <1>1, UseExact
<1>4. t = Stored(d, r, PaidFor(s, r) + u.used) /\ PaidFor(s, r) + u.used \in Int
  BY <1>1, <1>2
<1> HIDE DEF d, ut, uc
<1>5. Sane(d) /\ r \in DOMAIN d.regs /\ DOMAIN d.regs = DOMAIN s.regs /\ d.given = s.given
  BY <1>2 DEF Carries, Framed
<1>6. /\ Carries(d, t)
      /\ t.pays = d.pays /\ t.bal = d.bal /\ t.failed = d.failed /\ t.collided = d.collided
      /\ t.regs[r].paid = PaidFor(s, r) + u.used /\ t.regs[r].due = Due(d, r)
      /\ \A q \in DOMAIN d.regs : q # r => t.regs[q] = d.regs[q]
      /\ \A q : Untouched(d, t, q)
      /\ \A k \in Kinds : Used(t, k) = Used(d, k)
  BY <1>4, <1>5, StoredIs
<1>7. Carries(s, t)
  BY <1>2, <1>6, CarriesOn
<1>8. /\ t.given = s.given /\ DOMAIN t.regs = DOMAIN s.regs
      /\ \A q \in DOMAIN s.regs : /\ (Active(t, q) <=> Active(s, q)) /\ (Live(t, q) <=> Live(s, q))
                                  /\ (Current(t, q) <=> Current(s, q)) /\ Due(t, q) = Due(s, q)
  BY <1>7, CarriesSame
<1>9. KeepsReturned(s, r, t)
  <2>1. PaidFor(s, r) \in Int /\ Due(s, r) \in Int /\ ~(PaidFor(s, r) > Due(s, r))
    BY <1>1 DEF Rest
  <2>2. Returned(s, r)
    BY <2>1 DEF Returned
  <2>3. \A q \in DOMAIN s.regs : Returned(d, q) => Returned(t, q)
    BY <1>5, <1>6, UntouchedKeeps
  <2> QED BY <1>2, <1>6, <2>2, <2>3 DEF KeepsAll, KeepsReturned
<1>10. LeavesAlone(s, r, t)
  BY DEF LeavesAlone, Live, Active
<1>11. CASE Off(d)
  <2>1. Off(t)
    BY <1>6, <1>11 DEF Off
  <2>2. KeepsBalanced(s, t) /\ KeepsNoted(s, r, t) /\ KeepsServed(s, r, t) /\ PaysExactly(s, r, t)
    BY <2>1 DEF KeepsBalanced, KeepsNoted, KeepsServed, PaysExactly
  <2> QED BY <1>7, <1>9, <1>10, <2>2 DEF Meets
<1>12. CASE u.used = ut + uc /\ Moves(s, r, ut, uc, d)
  <2>1. Moves(s, r, ut, uc, t)
    <3>1. \A q \in DOMAIN s.regs : q # r => t.regs[q] = s.regs[q]
      BY <1>5, <1>6, <1>12 DEF Moves
    <3> QED BY <1>6, <1>12, <3>1 DEF Moves
  <2>2. Sane(t)
    BY <1>7 DEF Carries
  <2>3. /\ PaidFor(t, r) = PaidFor(s, r) + ut + uc
        /\ \A q : q # r => Untouched(s, t, q)
        /\ \A k \in Kinds : t.bal[k] <= s.bal[k]
        /\ \A k \in Kinds : Balanced(s, k) => Balanced(t, k)
    BY <1>1, <1>8, <2>1, <2>2, MovesEffect
  <2>4. Served(t, r)
    BY <1>1, <1>7, <2>1, PaidUp DEF ut, uc
  <2>5. t.regs[r].paid = PaidFor(s, r) + ut + uc /\ t.regs[r].due = Due(s, r)
    <3>1. Due(d, r) = Due(s, r)
      BY <1>2, CarriesSame
    <3> QED BY <1>1, <1>6, <1>12, <3>1
  <2>6. Noted(t, r)
    BY <1>8, <2>3, <2>5 DEF Noted
  <2>7. \A q \in DOMAIN s.regs : q # r => t.regs[q] = s.regs[q]
    BY <2>1 DEF Moves
  <2>8. \A q \in DOMAIN s.regs : q # r => (Noted(s, q) => Noted(t, q)) /\ (Served(s, q) => Served(t, q))
    BY <1>7, <2>3, <2>7, UntouchedKeeps
  <2>9. KeepsBalanced(s, t)
    BY <2>3 DEF KeepsBalanced
  <2>10. KeepsNoted(s, r, t)
    BY <2>6, <2>8 DEF KeepsNoted
  <2>11. KeepsServed(s, r, t)
    BY <2>4, <2>8 DEF KeepsServed
  <2>12. PaysExactly(s, r, t)
    <3>1. Transferred(s, r) = s
      BY TransfersNothing
    <3>2. Pays(s, r, t)
      BY <2>1, <2>5 DEF Pays, PaysFrom, ut, uc
    <3> QED BY <3>1, <3>2 DEF PaysExactly
  <2> QED BY <1>7, <1>9, <1>10, <2>9, <2>10, <2>11, <2>12 DEF Meets
<1> QED BY <1>3, <1>11, <1>12

-----------------------------------------------------------------------------
(* Saving the registrations of a list, one after the other.                *)
After(s, list, n, d) ==
  /\ Carries(s, d)
  /\ KeepsBalanced(s, d)
  /\ \A q \in DOMAIN s.regs : Returned(s, q) \/ (\E m \in 1..n : list[m] = q) => d.failed \/ Returned(d, q)
  /\ \A q \in DOMAIN s.regs : Noted(s, q) \/ (\E m \in 1..n : list[m] = q) => Off(d) \/ Noted(d, q)
  /\ (\A m \in 1..Len(list) : s.regs[list[m]].cancelled \/ NotedBut(s, list[m])) =>
       \A q \in DOMAIN s.regs : Current(s, q) /\ (Served(s, q) \/ \E m \in 1..n : list[m] = q) => Off(d) \/ Served(d, q)

(* An error or a collision is not taken back.                              *)
LEMMA OffOn ==
  ASSUME NEW s, NEW t, Carries(s, t)
  PROVE  (Off(s) => Off(t)) /\ (s.failed => t.failed)
BY DEF Off, Carries, Grown

(* One more registration of a list is saved: those before it stay as they  *)
(* should be.                                                              *)
LEMMA AfterOne ==
  ASSUME NEW s, Sane(s), NEW list \in Seq(DOMAIN s.regs), NEW n \in 1..Len(list), NEW d, After(s, list, n - 1, d),
         NEW t, Meets(d, list[n], t)
  PROVE  After(s, list, n, t)
<1> DEFINE r == list[n]
<1>1. r \in DOMAIN s.regs /\ n \in Nat /\ Len(list) \in Nat /\ \A m \in 1..Len(list) : list[m] \in DOMAIN s.regs
  BY LenProperties
<1>2. Carries(s, d) /\ Carries(d, t) /\ Carries(s, t)
  BY CarriesOn DEF After, Meets
<1>3. /\ DOMAIN d.regs = DOMAIN s.regs /\ Sane(d) /\ (Off(d) => Off(t)) /\ (d.failed => t.failed)
      /\ \A q \in DOMAIN s.regs : /\ (Current(d, q) <=> Current(s, q)) /\ (Live(d, q) <=> Live(s, q))
                                  /\ Due(d, q) = Due(s, q) /\ (d.regs[q].cancelled <=> s.regs[q].cancelled)
  BY <1>2, CarriesSame, OffOn DEF Carries, Framed
<1>4. \A q : (\E m \in 1..n : list[m] = q) => q = r \/ \E m \in 1..(n - 1) : list[m] = q
  BY <1>1
<1> HIDE DEF r
<1>5. KeepsBalanced(s, t)
  BY <1>3 DEF After, Meets, KeepsBalanced
<1>6. \A q \in DOMAIN s.regs : Returned(s, q) \/ (\E m \in 1..n : list[m] = q) => t.failed \/ Returned(t, q)
  <2>1. KeepsReturned(d, r, t)
    BY DEF Meets, r
  <2> QED BY <1>3, <1>4, <2>1 DEF After, KeepsReturned
<1>7. \A q \in DOMAIN s.regs : Noted(s, q) \/ (\E m \in 1..n : list[m] = q) => Off(t) \/ Noted(t, q)
  <2>1. KeepsNoted(d, r, t)
    BY DEF Meets, r
  <2> QED BY <1>3, <1>4, <2>1 DEF After, KeepsNoted
<1>8. ASSUME \A m \in 1..Len(list) : s.regs[list[m]].cancelled \/ NotedBut(s, list[m]),
             NEW q \in DOMAIN s.regs, Current(s, q), Served(s, q) \/ \E m \in 1..n : list[m] = q, ~Off(t)
      PROVE  Served(t, q)
  <2>1. ~Off(d)
    BY <1>3, <1>8
  <2>2. q = r \/ Served(d, q)
    BY <1>4, <1>8, <2>1 DEF After
  <2>3. CASE s.regs[r].cancelled
    <3>1. t.pays = d.pays /\ t.bal = d.bal
      BY <1>1, <1>3, <1>8, <2>3 DEF Meets, LeavesAlone, r, Off
    <3>2. q # r
      BY <1>8, <2>3 DEF Current, Active
    <3>3. Untouched(d, t, q) /\ \A k \in Kinds : t.bal[k] <= d.bal[k]
      BY <1>3, <3>1, SaneFields DEF Untouched, RowsOf
    <3> QED BY <1>2, <1>3, <2>2, <3>2, <3>3, UntouchedKeeps
  <2>4. CASE NotedBut(s, r)
    <3>1. NotedBut(d, r)
      BY <1>3, <2>1, <2>4 DEF NotedBut, After
    <3>2. KeepsServed(d, r, t)
      BY DEF Meets, r
    <3> QED BY <1>3, <1>8, <2>2, <3>1, <3>2 DEF KeepsServed
  <2> QED BY <1>8, <2>3, <2>4 DEF r
<1> QED BY <1>2, <1>5, <1>6, <1>7, <1>8 DEF After

(* So all of a list are, when it has been gone through.                    *)
LEMMA SavesAll ==
  ASSUME NEW save, Contract(save), NEW s, Sane(s), NEW list \in Seq(DOMAIN s.regs), NEW t, t = SaveAll(save, s, list)
  PROVE  After(s, list, Len(list), t)
<1> DEFINE I == [n \in 0..Len(list) |-> {d \in DB : After(s, list, n, d)}]
<1>1. Len(list) \in Nat /\ \A m \in 1..Len(list) : list[m] \in DOMAIN s.regs
  BY LenProperties
<1>2. s \in I[0]
  <2>1. After(s, list, 0, s)
    BY CarriesItself DEF After, KeepsBalanced
  <2> QED BY <1>1, <2>1 DEF Sane
<1>3. ASSUME NEW n \in 1..Len(list), NEW d \in I[n - 1] PROVE save[d][list[n]] \in I[n]
  <2>1. n - 1 \in 0..Len(list) /\ n \in 0..Len(list)
    BY <1>1
  <2>2. After(s, list, n - 1, d)
    BY <2>1
  <2>3. Sane(d) /\ list[n] \in DOMAIN d.regs
    BY <1>1, <2>2 DEF After, Carries, Framed
  <2>4. Meets(d, list[n], save[d][list[n]])
    BY <2>3, MeetsAt
  <2>5. After(s, list, n, save[d][list[n]])
    BY <2>2, <2>4, AfterOne
  <2>6. save[d][list[n]] \in DB
    BY <2>4 DEF Meets, Carries, Sane
  <2> QED BY <2>1, <2>5, <2>6
<1>4. Len(list) \in 0..Len(list) /\ I[Len(list)] = {d \in DB : After(s, list, Len(list), d)}
  BY <1>1
<1> HIDE DEF I
<1>5. Through(save, s, list) \in I[Len(list)]
  BY <1>1, <1>2, <1>3, ThroughHolds
<1> QED BY <1>4, <1>5 DEF SaveAll

-----------------------------------------------------------------------------
(* The registrations that are not settled, all of them.                    *)
LEMMA IncompleteLists ==
  ASSUME NEW s, Sane(s), NEW list, list = Incomplete(s)
  PROVE  /\ list \in Seq(DOMAIN s.regs)
         /\ \A q \in DOMAIN s.regs : Active(s, q) /\ s.regs[q].paid # s.regs[q].due => \E m \in 1..Len(list) : list[m] = q
<1> DEFINE ids == {q \in DOMAIN s.regs : Active(s, q) /\ s.regs[q].paid # s.regs[q].due}
<1>1. ids \subseteq DOMAIN s.regs /\ ids \subseteq 1..Len(s.regs) /\ Len(s.regs) \in Nat
  BY SaneFields
<1>2. list = Newest(ids)
  BY DEF Incomplete
<1>3. \A q \in DOMAIN s.regs : Active(s, q) /\ s.regs[q].paid # s.regs[q].due => q \in ids
  OBVIOUS
<1> HIDE DEF ids
<1>4. Newest(ids) \in Seq(ids) /\ \A i \in ids : \E m \in 1..Len(Newest(ids)) : Newest(ids)[m] = i
  BY <1>1, NewestEnumerates
<1>5. list \in Seq(DOMAIN s.regs)
  <2>1. list \in Seq(ids)
    BY <1>2, <1>4
  <2>2. list \in [1..Len(list) -> ids] /\ Len(list) \in Nat
    BY <2>1, LenProperties
  <2>3. list \in [1..Len(list) -> DOMAIN s.regs]
    BY <1>1, <2>2
  <2> QED BY <2>2, <2>3, SeqDef
<1> QED BY <1>2, <1>3, <1>4, <1>5

(* A balance is recalculated, and spent on whoever is not settled.         *)
LEMMA RecomputeKeeps ==
  ASSUME NEW save, Contract(save), NEW s, Sane(s), NEW k \in Kinds, NEW t, t = Recompute(save, s, k)
  PROVE  /\ Carries(s, t)
         /\ \A j \in Kinds : j = k \/ Balanced(s, j) => Off(t) \/ Balanced(t, j)
         /\ KeepsAll(s, t)
         /\ \A q \in DOMAIN s.regs : Noted(s, q) => Off(t) \/ Noted(t, q)
         /\ (\A q \in DOMAIN s.regs : Current(s, q) => Noted(s, q)) =>
              \A q \in DOMAIN s.regs : Current(s, q) => Off(t) \/ Served(t, q)
<1>1. CASE s.failed
  <2>1. t = s
    BY <1>1 DEF Recompute
  <2> QED BY <1>1, <2>1, CarriesItself DEF Off, KeepsAll
<1>2. CASE ~s.failed
  <2> DEFINE mm == [s.bal EXCEPT ![k] = s.given[k] - Used(s, k)]
             x == [s EXCEPT !.bal[k] = s.given[k] - Used(s, k)]
             list == Incomplete(x)
  <2>1. t = SaveAll(save, x, list)
    BY <1>2 DEF Recompute
  <2>2. s.given[k] \in Int /\ Used(s, k) \in Int
    BY SaneFields, SaneTotals
  <2>3. mm \in [Kinds -> Int] /\ mm[k] = s.given[k] - Used(s, k) /\ \A j \in Kinds : j # k => mm[j] = s.bal[j]
    BY <2>2, SaneFields
  <2>4. x = Flagged(s, mm, s.collided, s.failed)
    BY DEF Sane, DB, Flagged
  <2>5. s.collided \in BOOLEAN /\ s.failed \in BOOLEAN
    BY SaneFields
  <2> HIDE DEF mm, x
  <2>6. /\ Carries(s, x) /\ x.bal = mm /\ x.pays = s.pays /\ x.regs = s.regs
        /\ \A q : Untouched(s, x, q)
        /\ \A j : Used(x, j) = Used(s, j)
    BY <2>3, <2>4, <2>5, Written
  <2>7. /\ Sane(x) /\ DOMAIN x.regs = DOMAIN s.regs /\ x.given = s.given
        /\ \A q \in DOMAIN s.regs : (Current(x, q) <=> Current(s, q))
    BY <2>6, CarriesSame DEF Carries
  <2>8. /\ list \in Seq(DOMAIN x.regs)
        /\ \A q \in DOMAIN x.regs : Active(x, q) /\ x.regs[q].paid # x.regs[q].due => \E m \in 1..Len(list) : list[m] = q
    BY <2>7, IncompleteLists
  <2> HIDE DEF list
  <2>9. After(x, list, Len(list), t)
    BY <2>1, <2>7, <2>8, SavesAll
  <2>10. Carries(s, t)
    BY <2>6, <2>9, CarriesOn DEF After
  <2>11. \A j \in Kinds : j = k \/ Balanced(s, j) => Balanced(x, j)
    BY <2>3, <2>6, <2>7 DEF Balanced
  <2>12. \A j \in Kinds : j = k \/ Balanced(s, j) => Off(t) \/ Balanced(t, j)
    BY <2>9, <2>11 DEF After, KeepsBalanced
  <2>13. \A q \in DOMAIN s.regs : (Returned(s, q) => Returned(x, q)) /\ (Noted(s, q) => Noted(x, q))
    BY <2>6, UntouchedKeeps
  <2>14. KeepsAll(s, t)
    BY <2>7, <2>9, <2>13 DEF After, KeepsAll
  <2>15. \A q \in DOMAIN s.regs : Noted(s, q) => Off(t) \/ Noted(t, q)
    BY <2>7, <2>9, <2>13 DEF After
  <2>16. ASSUME \A q \in DOMAIN s.regs : Current(s, q) => Noted(s, q), NEW q \in DOMAIN s.regs, Current(s, q)
         PROVE  Off(t) \/ Served(t, q)
    <3>1. \A r : NotedBut(x, r)
      BY <2>7, <2>13, <2>16 DEF NotedBut
    <3>2. (\E m \in 1..Len(list) : list[m] = q) \/ Served(x, q)
      <4>1. CASE x.regs[q].paid # x.regs[q].due
        BY <2>7, <2>8, <2>16, <4>1 DEF Current
      <4>2. CASE x.regs[q].paid = x.regs[q].due
        <5>1. Noted(x, q) /\ Active(x, q)
          BY <2>7, <2>13, <2>16 DEF Current
        <5>2. PaidFor(x, q) = Due(x, q) /\ PaidFor(x, q) \in Nat
          BY <2>7, <4>2, <5>1, SaneTotals DEF Noted
        <5> QED BY <5>2 DEF Served
      <4> QED BY <4>1, <4>2
    <3> QED BY <2>7, <2>9, <2>16, <3>1, <3>2 DEF After
  <2> QED BY <2>10, <2>12, <2>14, <2>15, <2>16
<1> QED BY <1>1, <1>2

-----------------------------------------------------------------------------
(* A row of a registration is cut.                                         *)
CutItem == [id : Nat, row : Payment]
Fits(s, r, piece) ==
  /\ piece \in CutItem /\ piece.id \in RowsOf(s, r) /\ piece.row.kind \in Kinds
  /\ s.pays[piece.id].kind = piece.row.kind

(* A row is cut: its value is less, and only its kind and its registration *)
(* have a part in it.                                                      *)
LEMMA TakenIs ==
  ASSUME NEW s, Sane(s), NEW r \in DOMAIN s.regs, NEW piece, Fits(s, r, piece), NEW over \in Int,
         over > 0, NEW t, t = Taken(s, piece, over)
  PROVE  /\ Carries(s, t) /\ t.regs = s.regs /\ t.bal = s.bal /\ t.collided = s.collided /\ t.failed = s.failed
         /\ \A q : q # r => Untouched(s, t, q)
         /\ \A j \in Kinds : j # piece.row.kind => Used(t, j) = Used(s, j)
         /\ DOMAIN t.pays = DOMAIN s.pays
         /\ \A j \in DOMAIN s.pays : /\ t.pays[j].reg = s.pays[j].reg /\ t.pays[j].kind = s.pays[j].kind
                                     /\ j # piece.id => t.pays[j] = s.pays[j]
         /\ t.pays[piece.id].value = IF s.pays[piece.id].value = 0 THEN 0 ELSE Kept(piece, over)
<1> DEFINE i == piece.id
           v == IF s.pays[i].value = 0 THEN 0 ELSE Kept(piece, over)
           entry == [s.pays[i] EXCEPT !.value = v]
           pays == [s.pays EXCEPT ![i] = entry]
<1>1. i \in DOMAIN s.pays /\ s.pays[i].reg = r /\ piece.row \in Payment /\ s.pays[i].kind = piece.row.kind
  BY DEF Fits, RowsOf, CutItem
<1>2. s.pays[i] \in Payment
  BY <1>1, SaneFields
<1>3. v \in Nat
  <2>1. piece.row.value \in Nat
    BY <1>1 DEF Payment
  <2> QED BY <2>1 DEF Kept
<1>4. t = [s EXCEPT !.pays = pays]
  BY <1>1 DEF Taken, Sane, DB
<1>5. v = IF s.pays[piece.id].value = 0 THEN 0 ELSE Kept(piece, over)
  OBVIOUS
<1> HIDE DEF v
<1>6. entry \in Payment /\ entry.reg = s.pays[i].reg /\ entry.kind = s.pays[i].kind /\ entry.value = v
  BY <1>2, <1>3 DEF Payment
<1> HIDE DEF entry
<1>7. pays \in Seq(Payment) /\ DOMAIN pays = DOMAIN s.pays /\ pays[i] = entry /\ \A j \in DOMAIN s.pays : j # i => pays[j] = s.pays[j]
  BY <1>1, <1>6, SaneFields, ExceptSeq
<1> HIDE DEF pays
<1>8. /\ t.pays = pays /\ t.regs = s.regs /\ t.bal = s.bal /\ t.collided = s.collided /\ t.failed = s.failed
      /\ t.bounds = s.bounds /\ t.price = s.price /\ t.queued = s.queued /\ t.closed = s.closed
      /\ t.accepted = s.accepted /\ t.given = s.given /\ t.refunds = s.refunds /\ t \in DB
  BY <1>4, <1>7 DEF Sane, DB
<1>9. \A j \in DOMAIN s.pays : t.pays[j].reg = s.pays[j].reg /\ t.pays[j].kind = s.pays[j].kind
  BY <1>6, <1>7, <1>8
<1>10. /\ DOMAIN t.pays = DOMAIN s.pays /\ t.pays[piece.id].value = v
       /\ \A j \in DOMAIN s.pays : j # piece.id => t.pays[j] = s.pays[j]
  BY <1>6, <1>7, <1>8
<1>11. Sane(t)
  BY <1>7, <1>8, <1>9 DEF Sane, WF
<1>12. Framed(s, t)
  BY <1>8 DEF Framed
<1>13. Grown(s, t)
  BY <1>7, <1>8, <1>9 DEF Grown
<1>14. \A q : q # r => Untouched(s, t, q)
  BY <1>1, <1>7, <1>8, <1>9 DEF Untouched, RowsOf
<1>15. ASSUME NEW j \in Kinds, j # piece.row.kind PROVE Used(t, j) = Used(s, j)
  <2>1. RowsIn(t, j) = RowsIn(s, j)
    BY <1>7, <1>8, <1>9 DEF RowsIn
  <2>2. \A l \in RowsIn(s, j) : t.pays[l].value = s.pays[l].value
    BY <1>1, <1>7, <1>8, <1>15 DEF RowsIn
  <2> QED BY <1>11, <2>1, <2>2, UsedSame
<1> QED BY <1>8, <1>9, <1>11, <1>12, <1>13, <1>14, <1>15, <1>5, <1>10 DEF Carries

(* A cut row, the save it fires, and the balance.                          *)
LEMMA CutMeets ==
  ASSUME NEW save, Contract(save), NEW s, Sane(s), NEW r \in DOMAIN s.regs, NEW piece, Fits(s, r, piece),
         NEW over \in Int, over > 0, NEW t, t = Cut(save, s, r, piece, over)
  PROVE  /\ Carries(s, t) /\ KeepsBalanced(s, t) /\ KeepsReturned(s, r, t) /\ KeepsNoted(s, r, t)
         /\ NotedBut(s, r) => \A q \in DOMAIN s.regs : Current(s, q) => Off(t) \/ Served(t, q)
<1>1. CASE s.failed
  <2>1. t = s
    BY <1>1 DEF Cut
  <2> QED BY <1>1, <2>1, CarriesItself DEF Off, KeepsBalanced, KeepsReturned, KeepsNoted
<1>2. CASE ~s.failed
  <2> DEFINE x == Taken(s, piece, over)
             y == save[x][r]
             k == piece.row.kind
  <2>1. t = Recompute(save, y, k) /\ k \in Kinds
    BY <1>2 DEF Cut, Fits
  <2>2. /\ Carries(s, x) /\ x.regs = s.regs /\ x.bal = s.bal
        /\ \A q : q # r => Untouched(s, x, q)
        /\ \A j \in Kinds : j # k => Used(x, j) = Used(s, j)
    BY TakenIs
  <2> HIDE DEF x
  <2>3. /\ Sane(x) /\ DOMAIN x.regs = DOMAIN s.regs /\ x.given = s.given
        /\ \A q \in DOMAIN s.regs : (Current(x, q) <=> Current(s, q))
    BY <2>2, CarriesSame DEF Carries
  <2>4. Meets(x, r, y)
    BY <2>3, MeetsAt
  <2> HIDE DEF y, k
  <2>5. Carries(s, y)
    BY <2>2, <2>4, CarriesOn DEF Meets
  <2>6. Sane(y) /\ DOMAIN y.regs = DOMAIN s.regs /\ \A q \in DOMAIN s.regs : (Current(y, q) <=> Current(s, q))
    BY <2>5, CarriesSame DEF Carries
  <2>7. /\ Carries(y, t)
        /\ \A j \in Kinds : j = k \/ Balanced(y, j) => Off(t) \/ Balanced(t, j)
        /\ KeepsAll(y, t)
        /\ \A q \in DOMAIN y.regs : Noted(y, q) => Off(t) \/ Noted(t, q)
        /\ (\A q \in DOMAIN y.regs : Current(y, q) => Noted(y, q)) =>
              \A q \in DOMAIN y.regs : Current(y, q) => Off(t) \/ Served(t, q)
    BY <2>1, <2>6, RecomputeKeeps
  <2>8. Carries(s, t) /\ (Off(y) => Off(t)) /\ (y.failed => t.failed)
    BY <2>5, <2>7, CarriesOn, OffOn
  <2>9. \A j \in Kinds : j # k => (Balanced(s, j) => Balanced(x, j))
    BY <2>2, <2>3 DEF Balanced
  <2>10. KeepsBalanced(s, t)
    BY <2>4, <2>7, <2>8, <2>9 DEF KeepsBalanced, Meets
  <2>11. \A q \in DOMAIN s.regs : q # r => (Returned(s, q) => Returned(x, q)) /\ (Noted(s, q) => Noted(x, q))
    BY <2>2, UntouchedKeeps
  <2>12. KeepsReturned(s, r, t)
    BY <2>3, <2>4, <2>6, <2>7, <2>8, <2>11 DEF Meets, KeepsReturned, KeepsAll
  <2>13. KeepsNoted(s, r, y)
    BY <2>3, <2>4, <2>11 DEF Meets, KeepsNoted
  <2>14. KeepsNoted(s, r, t)
    BY <2>6, <2>7, <2>8, <2>13 DEF KeepsNoted
  <2>15. ASSUME NotedBut(s, r), NEW q \in DOMAIN s.regs, Current(s, q) PROVE Off(t) \/ Served(t, q)
    <3>1. Off(y) \/ \A p \in DOMAIN y.regs : Current(y, p) => Noted(y, p)
      BY <2>6, <2>13, <2>15 DEF KeepsNoted, NotedBut
    <3> QED BY <2>6, <2>7, <2>8, <2>15, <3>1
  <2> QED BY <2>8, <2>10, <2>12, <2>14, <2>15
<1> QED BY <1>1, <1>2

-----------------------------------------------------------------------------
(* The rows an overpayment is taken from: all of them, in an order.        *)
LEMMA FirstTakenOrders ==
  ASSUME NEW s, Sane(s), NEW ids, ids \subseteq DOMAIN s.pays, \A i \in ids : s.pays[i].kind \in Kinds,
         NEW before, before = {ij \in ids \X ids : FirstTaken(s, ij[1], ij[2])}
  PROVE  Orders(ids, before)
<1>1. \A i, j \in ids : <<i, j>> \in before <=> FirstTaken(s, i, j)
  OBVIOUS
<1>2. \A i \in ids : i \in Int /\ s.pays[i].value \in Int /\ Rank[s.pays[i].kind] \in Int
  BY SaneFields DEF Rank, Kinds, Payment
<1>3. \A i, j \in ids : Rank[s.pays[i].kind] = Rank[s.pays[j].kind] => s.pays[i].kind = s.pays[j].kind
  BY DEF Rank, Kinds
<1>4. \A i, j, l \in ids : /\ ~FirstTaken(s, i, i)
                           /\ FirstTaken(s, i, j) /\ FirstTaken(s, j, l) => FirstTaken(s, i, l)
                           /\ i # j => FirstTaken(s, i, j) \/ FirstTaken(s, j, i)
  BY <1>2, <1>3 DEF FirstTaken
<1>5. ASSUME NEW i \in ids, NEW j \in ids, NEW l \in ids
      PROVE  /\ <<i, i>> \notin before
             /\ <<i, j>> \in before /\ <<j, l>> \in before => <<i, l>> \in before
             /\ i # j => <<i, j>> \in before \/ <<j, i>> \in before
  <2>1. (<<i, i>> \in before <=> FirstTaken(s, i, i)) /\ (<<i, j>> \in before <=> FirstTaken(s, i, j))
    BY <1>1
  <2>2. (<<j, i>> \in before <=> FirstTaken(s, j, i)) /\ (<<j, l>> \in before <=> FirstTaken(s, j, l))
    BY <1>1
  <2>3. <<i, l>> \in before <=> FirstTaken(s, i, l)
    BY <1>1
  <2>4. /\ ~FirstTaken(s, i, i)
        /\ FirstTaken(s, i, j) /\ FirstTaken(s, j, l) => FirstTaken(s, i, l)
        /\ i # j => FirstTaken(s, i, j) \/ FirstTaken(s, j, i)
    BY <1>4
  <2> QED BY <2>1, <2>2, <2>3, <2>4
<1> QED BY <1>5 DEF Orders

(* The list of an overpayment has every row in tokens or credits of the    *)
(* registration, once, as it is when it is read.                           *)
LEMMA ReversibleLists ==
  ASSUME NEW s, Sane(s), NEW r \in DOMAIN s.regs, NEW list, list = Reversible(s, r)
  PROVE  /\ Len(list) \in Nat
         /\ \A n \in 1..Len(list) : Fits(s, r, list[n]) /\ list[n].row = s.pays[list[n].id] /\ list[n].row.value > 0
         /\ \A i \in Of(s, r, Kinds) : \E n \in 1..Len(list) : list[n].id = i
         /\ \A m, n \in 1..Len(list) : list[m].id = list[n].id => m = n
         /\ \A n \in 1..Len(list) : list[n].id \in Of(s, r, Kinds)
         /\ \A m, n \in 1..Len(list) : m < n => FirstTaken(s, list[m].id, list[n].id)
<1> DEFINE ids == Of(s, r, Kinds)
           before == {ij \in ids \X ids : FirstTaken(s, ij[1], ij[2])}
           order == InOrder(ids, before)
           N == Cardinality(ids)
<1>1. ids \subseteq DOMAIN s.pays /\ (\A i \in ids : s.pays[i].kind \in Kinds /\ s.pays[i].reg = r /\ s.pays[i].value > 0)
  BY DEF Of
<1>2. IsFiniteSet(ids) /\ N \in Nat
  BY <1>1, SaneFields, TotalType, FS_CardinalityType
<1>3. list = [n \in DOMAIN order |-> [id |-> order[n], row |-> s.pays[order[n]]]]
  BY DEF Reversible, AsRead
<1>4. before = {ij \in ids \X ids : FirstTaken(s, ij[1], ij[2])}
  OBVIOUS
<1>5. \A i, j : <<i, j>> \in before => FirstTaken(s, i, j)
  OBVIOUS
<1> HIDE DEF ids, before
<1>6. Orders(ids, before)
  BY <1>1, <1>4, FirstTakenOrders
<1>7. /\ order \in [1..N -> ids]
      /\ \A i \in ids : \E n \in 1..N : order[n] = i
      /\ \A m, n \in 1..N : order[m] = order[n] => m = n
      /\ \A m, n \in 1..N : m < n => <<order[m], order[n]>> \in before
  BY <1>2, <1>6, InOrderEnumerates
<1> HIDE DEF order, N
<1>8. DOMAIN list = 1..N /\ \A n \in 1..N : list[n] = [id |-> order[n], row |-> s.pays[order[n]]]
  BY <1>3, <1>7
<1>9. \A n \in 1..N : order[n] \in ids /\ order[n] \in Nat /\ s.pays[order[n]] \in Payment
  BY <1>1, <1>7, SaneFields
<1>10. list \in Seq(CutItem) /\ Len(list) = N
  <2>1. \A n \in 1..N : list[n] \in CutItem
    BY <1>8, <1>9 DEF CutItem
  <2>2. list = [n \in 1..N |-> list[n]]
    BY <1>3, <1>8
  <2>3. list \in [1..N -> CutItem]
    BY <2>1, <2>2
  <2> QED BY <1>2, <1>8, <2>3, SeqDef, LenProperties
<1>11. \A n \in 1..N : Fits(s, r, list[n]) /\ list[n].row = s.pays[list[n].id] /\ list[n].row.value > 0
  <2> SUFFICES ASSUME NEW n \in 1..N PROVE Fits(s, r, list[n]) /\ list[n].row = s.pays[list[n].id] /\ list[n].row.value > 0
    OBVIOUS
  <2>1. list[n].id = order[n] /\ list[n].row = s.pays[order[n]] /\ order[n] \in ids
    BY <1>8, <1>9
  <2>2. list[n] \in CutItem
    BY <1>8, <1>9 DEF CutItem
  <2>3. s.pays[order[n]].kind \in Kinds /\ s.pays[order[n]].reg = r /\ s.pays[order[n]].value > 0 /\ order[n] \in DOMAIN s.pays
    BY <1>1, <2>1
  <2> QED BY <2>1, <2>2, <2>3 DEF Fits, RowsOf
<1>12. \A i \in ids : \E n \in 1..N : list[n].id = i
  BY <1>7, <1>8
<1>13. \A m, n \in 1..N : list[m].id = list[n].id => m = n
  BY <1>7, <1>8
<1>14. \A n \in 1..N : list[n].id \in ids
  BY <1>8, <1>9
<1>15. \A m, n \in 1..N : m < n => FirstTaken(s, list[m].id, list[n].id)
  <2> SUFFICES ASSUME NEW m \in 1..N, NEW n \in 1..N, m < n PROVE FirstTaken(s, list[m].id, list[n].id)
    OBVIOUS
  <2>1. <<order[m], order[n]>> \in before /\ list[m].id = order[m] /\ list[n].id = order[n]
    BY <1>7, <1>8
  <2> QED BY <1>5, <2>1
<1> QED BY <1>2, <1>10, <1>11, <1>12, <1>13, <1>14, <1>15 DEF ids

-----------------------------------------------------------------------------
(* How far the cuts of an overpaid registration have come.                 *)
Cutting(save, r) ==
  [acc \in [db : DB, over : Int] |-> [piece \in [id : Nat, row : Payment] |->
     IF acc.over <= 0 THEN acc
     ELSE [db |-> Cut(save, acc.db, r, piece, acc.over), over |-> acc.over - piece.row.value]]]

HandedBack(s, r, n, d) ==
  /\ Carries(s, d) /\ KeepsBalanced(s, d)
  /\ \A q \in DOMAIN s.regs : (q # r /\ Returned(s, q)) \/ (q = r /\ n > 0) => d.failed \/ Returned(d, q)
  /\ \A q \in DOMAIN s.regs : q # r /\ Noted(s, q) => Off(d) \/ Noted(d, q)
  /\ NotedBut(s, r) =>
       \A q \in DOMAIN s.regs : Current(s, q) /\ (q = r \/ Served(s, q)) => Off(d) \/ Served(d, q)

(* One step of the loop over that list.                                    *)
LEMMA CuttingIs ==
  ASSUME NEW save, NEW r, NEW acc \in [db : DB, over : Int], NEW piece \in CutItem
  PROVE  Cutting(save, r)[acc][piece] =
           IF acc.over <= 0 THEN acc
           ELSE [db |-> Cut(save, acc.db, r, piece, acc.over), over |-> acc.over - piece.row.value]
BY DEF Cutting, CutItem

(* After each cut the rows that are still to come are the only ones of the *)
(* registration that may hold tokens or credits.                           *)
LEMMA HandsBackOne ==
  ASSUME NEW save, Contract(save), NEW s, Sane(s), NEW r \in DOMAIN s.regs, ~s.regs[r].cancelled,
         NEW n \in Nat, NEW d, HandedBack(s, r, n, d), NEW piece, Fits(s, r, piece),
         NEW over \in Int, over > 0, NEW t, t = Cut(save, d, r, piece, over)
  PROVE  HandedBack(s, r, n + 1, t)
<1>1. Carries(s, d) /\ Sane(d) /\ r \in DOMAIN d.regs
  BY DEF HandedBack, Carries, Framed
<1>2. /\ DOMAIN d.regs = DOMAIN s.regs
      /\ \A q \in DOMAIN s.regs : Current(d, q) <=> Current(s, q)
  BY <1>1, CarriesSame
<1>3. Fits(d, r, piece)
  BY <1>1 DEF Fits, RowsOf, Carries, Grown
<1>4. /\ Carries(d, t) /\ KeepsBalanced(d, t) /\ KeepsReturned(d, r, t) /\ KeepsNoted(d, r, t)
      /\ NotedBut(d, r) => \A q \in DOMAIN d.regs : Current(d, q) => Off(t) \/ Served(t, q)
  BY <1>1, <1>3, CutMeets
<1>5. Carries(s, t) /\ (Off(d) => Off(t)) /\ (d.failed => t.failed)
  BY <1>1, <1>4, CarriesOn, OffOn
<1>6. KeepsBalanced(s, t)
  BY <1>4, <1>5 DEF HandedBack, KeepsBalanced
<1>7. \A q \in DOMAIN s.regs : (q # r /\ Returned(s, q)) \/ (q = r /\ n + 1 > 0) => t.failed \/ Returned(t, q)
  BY <1>2, <1>4, <1>5 DEF HandedBack, KeepsReturned
<1>8. \A q \in DOMAIN s.regs : q # r /\ Noted(s, q) => Off(t) \/ Noted(t, q)
  BY <1>2, <1>4, <1>5 DEF HandedBack, KeepsNoted
<1>9. ASSUME NotedBut(s, r), NEW q \in DOMAIN s.regs, Current(s, q) PROVE Off(t) \/ Served(t, q)
  <2>1. Off(d) \/ NotedBut(d, r)
    BY <1>2, <1>9 DEF HandedBack, NotedBut
  <2> QED BY <1>2, <1>4, <1>5, <1>9, <2>1
<1> QED BY <1>5, <1>6, <1>7, <1>8, <1>9 DEF HandedBack

(* What tokens and credits pay beyond the price is handed back.            *)
LEMMA OverpayKeeps ==
  ASSUME NEW save, Contract(save), NEW s, Sane(s), NEW r \in DOMAIN s.regs, Live(s, r), NEW over \in Int, over > 0,
         PaidFor(s, r) > Due(s, r), NEW t, t = Overpay(save, s, r, over)
  PROVE  HandedBack(s, r, 1, t)
<1> DEFINE list == Reversible(s, r)
           cut == Cutting(save, r)
           start == [db |-> s, over |-> over]
           Acc == [db : DB, over : Int]
           I == [n \in 0..Len(list) |-> {acc \in Acc : HandedBack(s, r, n, acc.db) /\ (n = 0 => acc = start)}]
<1>1. t = Through(cut, start, list).db
  BY Zenon DEF Overpay, Cutting
<1>2. /\ Len(list) \in Nat
      /\ \A n \in 1..Len(list) : Fits(s, r, list[n])
      /\ \A i \in Of(s, r, Kinds) : \E n \in 1..Len(list) : list[n].id = i
  BY ReversibleLists
<1>3. HandedBack(s, r, 0, s)
  <2>1. PaidFor(s, r) \in Int /\ Due(s, r) \in Int /\ ~(PaidFor(s, r) < Due(s, r))
    BY SaneTotals
  <2>2. Served(s, r)
    BY <2>1 DEF Served
  <2> QED BY <2>2, CarriesItself DEF HandedBack, KeepsBalanced
<1>4. ~s.regs[r].cancelled
  BY DEF Live, Active
<1>5. Len(list) \in 0..Len(list) /\ 0 \in 0..Len(list)
  BY <1>2
<1> HIDE DEF list, cut
<1>6. start \in I[0]
  BY <1>3, <1>5 DEF Sane
<1>7. ASSUME NEW n \in 1..Len(list), NEW acc \in I[n - 1] PROVE cut[acc][list[n]] \in I[n]
  <2>1. n - 1 \in 0..Len(list) /\ n \in 0..Len(list) /\ n # 0 /\ n - 1 \in Nat /\ (n - 1) + 1 = n
    BY <1>2
  <2>2. acc \in Acc /\ HandedBack(s, r, n - 1, acc.db) /\ (n - 1 = 0 => acc = start)
    BY <2>1
  <2>3. Fits(s, r, list[n]) /\ list[n] \in CutItem
    BY <1>2 DEF Fits
  <2>4. CASE acc.over <= 0
    <3>1. cut[acc][list[n]] = acc
      <4>1. acc \in [db : DB, over : Int]
        BY <2>2
      <4>2. cut[acc] = Cutting(save, r)[acc]
        BY DEF cut
      <4>3. Cutting(save, r)[acc][list[n]] = acc
        BY <2>3, <2>4, <4>1 DEF Cutting, CutItem
      <4> QED BY <4>2, <4>3
    <3>2. n - 1 > 0
      BY <2>1, <2>2, <2>4
    <3>3. HandedBack(s, r, n, acc.db)
      BY <2>1, <2>2, <3>2 DEF HandedBack
    <3> QED BY <2>1, <2>2, <3>1, <3>3
  <2>5. CASE acc.over > 0
    <3> DEFINE y == Cut(save, acc.db, r, list[n], acc.over)
    <3>1. cut[acc][list[n]] = [db |-> y, over |-> acc.over - list[n].row.value]
      BY <2>2, <2>3, <2>5, CuttingIs DEF cut
    <3>2. HandedBack(s, r, n, y)
      <4>1. acc.over \in Int /\ y = Cut(save, acc.db, r, list[n], acc.over)
        BY <2>2
      <4> HIDE DEF y
      <4>2. HandedBack(s, r, (n - 1) + 1, y)
        BY <1>4, <2>1, <2>2, <2>3, <2>5, <4>1, HandsBackOne
      <4> QED BY <2>1, <4>2
    <3> HIDE DEF y
    <3>3. y \in DB
      BY <3>2 DEF HandedBack, Carries, Sane
    <3>4. acc.over - list[n].row.value \in Int
      BY <2>2, <2>3 DEF CutItem, Payment
    <3>5. [db |-> y, over |-> acc.over - list[n].row.value] \in Acc
      BY <3>3, <3>4
    <3> QED BY <2>1, <3>1, <3>2, <3>5
  <2> QED BY <2>2, <2>4, <2>5
<1>8. \A acc \in I[Len(list)] : HandedBack(s, r, Len(list), acc.db) /\ (Len(list) = 0 => acc = start)
  BY <1>5
<1> HIDE DEF I, start
<1>9. Through(cut, start, list) \in I[Len(list)]
  BY <1>2, <1>6, <1>7, ThroughHolds
<1>10. HandedBack(s, r, Len(list), t) /\ (Len(list) = 0 => t = s)
  BY <1>1, <1>8, <1>9 DEF start
<1>11. CASE Len(list) > 0
  BY <1>2, <1>10, <1>11 DEF HandedBack
<1>12. CASE Len(list) = 0
  <2>1. t = s
    BY <1>10, <1>12
  <2>2. Of(s, r, Kinds) = {}
    BY <1>2, <1>12
  <2>3. \A i \in RowsOf(s, r) : s.pays[i].value > 0 => s.pays[i].kind = "money"
    BY <2>2, SaneFields DEF Of, RowsOf, Payment
  <2>4. Returned(s, r)
    BY <2>3 DEF Returned
  <2> QED BY <1>10, <1>12, <2>1, <2>4 DEF HandedBack
<1> QED BY <1>2, <1>11, <1>12

(* The save of an overpaid registration meets the contract when the saves  *)
(* it fires do.                                                            *)
LEMMA OverpaidMeets ==
  ASSUME NEW save, Contract(save), NEW s, Sane(s), NEW r \in DOMAIN s.regs, ~s.failed, Live(s, r), Gathered(s, r),
         Rest(s, r) < 0, NEW d, d = Overpay(save, s, r, 0 - Rest(s, r)), NEW t, t = Stored(d, r, PaidFor(s, r))
  PROVE  Meets(s, r, t)
<1>1. PaidFor(s, r) \in Nat /\ PaidFor(s, r) \in Int /\ Due(s, r) \in Nat /\ Rest(s, r) \in Int /\ PaidFor(s, r) > Due(s, r)
  BY SaneTotals DEF Rest
<1>2. 0 - Rest(s, r) \in Int /\ 0 - Rest(s, r) > 0
  BY <1>1
<1>3. HandedBack(s, r, 1, d)
  BY <1>1, <1>2, OverpayKeeps
<1>4. Carries(s, d) /\ Sane(d) /\ r \in DOMAIN d.regs /\ DOMAIN d.regs = DOMAIN s.regs /\ d.given = s.given /\ Due(d, r) = Due(s, r)
  BY <1>3, CarriesSame DEF HandedBack, Carries, Framed
<1>5. /\ Carries(d, t)
      /\ t.pays = d.pays /\ t.bal = d.bal /\ t.failed = d.failed /\ t.collided = d.collided
      /\ t.regs[r].paid = PaidFor(s, r) /\ t.regs[r].due = Due(s, r)
      /\ \A q \in DOMAIN d.regs : q # r => t.regs[q] = d.regs[q]
      /\ \A q : Untouched(d, t, q)
      /\ \A k \in Kinds : Used(t, k) = Used(d, k)
  BY <1>1, <1>4, StoredIs
<1>6. Carries(s, t) /\ t.given = d.given /\ (Off(d) <=> Off(t))
  BY <1>4, <1>5, CarriesOn DEF Off, Carries, Framed
<1>7. \A k \in Kinds : t.bal[k] <= d.bal[k]
  BY <1>4, <1>5, SaneFields
<1>8. \A q \in DOMAIN s.regs : /\ Returned(d, q) => Returned(t, q)
                               /\ Served(d, q) => Served(t, q)
                               /\ q # r => (Noted(d, q) => Noted(t, q))
  BY <1>4, <1>5, <1>7, UntouchedKeeps
<1>9. Noted(t, r)
  BY <1>1, <1>5 DEF Noted
<1>10. KeepsBalanced(s, t)
  BY <1>3, <1>5, <1>6 DEF HandedBack, KeepsBalanced, Balanced
<1>11. KeepsReturned(s, r, t)
  BY <1>3, <1>5, <1>8 DEF HandedBack, KeepsReturned
<1>12. KeepsNoted(s, r, t)
  BY <1>3, <1>6, <1>8, <1>9 DEF HandedBack, KeepsNoted
<1>13. KeepsServed(s, r, t)
  BY <1>3, <1>6, <1>8 DEF HandedBack, KeepsServed
<1>14. LeavesAlone(s, r, t)
  BY DEF LeavesAlone, Live, Active
<1>15. PaysExactly(s, r, t)
  <2>1. Transferred(s, r) = s
    BY TransfersNothing
  <2> QED BY <1>1, <2>1 DEF PaysExactly
<1> QED BY <1>6, <1>10, <1>11, <1>12, <1>13, <1>14, <1>15 DEF Meets

-----------------------------------------------------------------------------
(* One level of saves keeps what the level below it does.                  *)
LEMMA SavingMeets ==
  ASSUME NEW save, Contract(save), NEW s0, Sane(s0), NEW r \in DOMAIN s0.regs, NEW t, t = Saving(save, s0, r)
  PROVE  Meets(s0, r, t)
<1> DEFINE s == Transferred(s0, r)
           paid == PaidFor(s, r)
           rem == Due(s, r) - paid
           u == Use(save, s, r, rem)
           d == Overpay(save, s, r, 0 - rem)
<1>1. /\ Carries(s0, s) /\ s.failed = s0.failed /\ s.regs = s0.regs
      /\ ~s0.regs[r].cancelled => Gathered(s, r)
  BY Transfers
<1>2. Sane(s) /\ r \in DOMAIN s.regs
  BY <1>1 DEF Carries
<1>3. paid = PaidFor(s, r) /\ rem = Rest(s, r) /\ s = Transferred(s0, r)
  BY DEF Rest
<1>4. t = IF s0.failed THEN s0
          ELSE IF Closed(s, r) THEN s
          ELSE IF rem = 0 \/ s.regs[r].cancelled \/ ~s.accepted THEN Stored(s, r, paid)
          ELSE IF rem > 0 THEN Stored(u.db, r, paid + u.used)
          ELSE Stored(d, r, paid)
  BY DEF Saving
<1>5. u = Use(save, s, r, rem) /\ d = Overpay(save, s, r, 0 - rem)
  OBVIOUS
<1> HIDE DEF s, paid, rem, u, d
<1>6. rem \in Int
  BY <1>2, <1>3, SaneTotals DEF Rest
<1>7. CASE s0.failed
  <2>1. t = s0
    BY <1>4, <1>7
  <2> QED BY <1>7, <2>1, IdleMeets
<1>8. CASE ~s0.failed
  <2>1. Meets(s, r, t)
    <3>1. CASE Closed(s, r)
      <4>1. t = s
        BY <1>4, <1>8, <3>1
      <4> QED BY <1>2, <3>1, <4>1, IdleMeets
    <3>2. CASE ~Closed(s, r) /\ (rem = 0 \/ s.regs[r].cancelled \/ ~s.accepted)
      <4>1. t = Stored(s, r, PaidFor(s, r))
        BY <1>3, <1>4, <1>8, <3>2
      <4>2. Rest(s, r) = 0 \/ ~Live(s, r)
        BY <1>3, <3>2 DEF Live, Active
      <4> QED BY <1>1, <1>2, <1>8, <4>1, <4>2, StoredMeets
    <3>3. CASE ~Closed(s, r) /\ ~(rem = 0 \/ s.regs[r].cancelled \/ ~s.accepted)
      <4>1. Live(s, r) /\ Gathered(s, r) /\ ~s.failed
        BY <1>1, <1>8, <3>3 DEF Live, Active
      <4>2. CASE rem > 0
        <5>1. t = Stored(u.db, r, PaidFor(s, r) + u.used) /\ u = Use(save, s, r, Rest(s, r)) /\ Rest(s, r) > 0
          BY <1>3, <1>4, <1>5, <1>8, <3>3, <4>2
        <5> QED BY <1>2, <4>1, <5>1, PayingMeets
      <4>3. CASE ~(rem > 0)
        <5>1. t = Stored(d, r, PaidFor(s, r)) /\ d = Overpay(save, s, r, 0 - Rest(s, r))
          BY <1>3, <1>4, <1>5, <1>8, <3>3, <4>3
        <5>2. Rest(s, r) < 0
          BY <1>3, <1>6, <3>3, <4>3
        <5> QED BY <1>2, <4>1, <5>1, <5>2, OverpaidMeets
      <4> QED BY <4>2, <4>3
    <3> QED BY <3>1, <3>2, <3>3
  <2> QED BY <1>3, <2>1, TransferMeets
<1> QED BY <1>7, <1>8

(* The interpreter gave up.                                                *)
LEMMA GivesUp ==
  ASSUME NEW s, Sane(s), NEW r \in DOMAIN s.regs, NEW t, t = [s EXCEPT !.failed = TRUE]
  PROVE  Meets(s, r, t)
<1>1. /\ t.bal = s.bal /\ t.pays = s.pays /\ t.regs = s.regs /\ t.collided = s.collided /\ t.failed
      /\ t.bounds = s.bounds /\ t.price = s.price /\ t.queued = s.queued /\ t.closed = s.closed
      /\ t.accepted = s.accepted /\ t.given = s.given /\ t.refunds = s.refunds /\ t \in DB
  BY DEF Sane, DB
<1>2. Framed(s, t)
  BY <1>1 DEF Framed
<1>3. Carries(s, t) /\ t.bal = s.bal /\ t.pays = s.pays /\ t.failed
  BY <1>1, <1>2 DEF Carries, Grown, Sane, WF
<1>4. Off(t)
  BY <1>3 DEF Off
<1> QED BY <1>3, <1>4 DEF Meets, KeepsBalanced, KeepsReturned, KeepsNoted, KeepsServed, LeavesAlone, PaysExactly

IsSave(save, n) ==
  save = [m \in 0..n |-> [s \in DB |-> [r \in Nat |-> IF m = 0 THEN [s EXCEPT !.failed = TRUE] ELSE Saving(save[m - 1], s, r)]]]

(* The recursive function of the depth exists.                             *)
LEMMA SaveExists ==
  ASSUME NEW n \in Nat
  PROVE  \E save : IsSave(save, n)
<1> DEFINE Bad == {i \in Nat : ~\E save : IsSave(save, i)}
<1> SUFFICES ASSUME Bad # {} PROVE FALSE
  OBVIOUS
<1>1. Bad \subseteq Nat
  OBVIOUS
<1> HIDE DEF Bad
<1>2. PICK i \in Bad : \A j \in Bad : i <= j
  BY <1>1, LeastNatural
<1>3. i \in Nat /\ ~\E save : IsSave(save, i)
  BY DEF Bad
<1> DEFINE Level(m, below) == [s \in DB |-> [r \in Nat |-> IF m = 0 THEN [s EXCEPT !.failed = TRUE] ELSE Saving(below, s, r)]]
<1>4. \A save, m : IsSave(save, m) <=> save = [j \in 0..m |-> Level(j, save[j - 1])]
  BY DEF IsSave
<1>5. \A a, b : Level(0, a) = Level(0, b)
  OBVIOUS
<1> HIDE DEF Level
<1>6. i # 0
  <2> DEFINE first == [j \in 0..0 |-> Level(0, 0)]
  <2>1. first = [j \in 0..0 |-> Level(j, first[j - 1])]
    <3>1. \A j \in 0..0 : Level(0, 0) = Level(j, first[j - 1])
      BY <1>5
    <3> HIDE DEF first
    <3>2. first = [j \in 0..0 |-> Level(0, 0)]
      BY DEF first
    <3> QED BY <3>1, <3>2
  <2> HIDE DEF first
  <2> QED BY <1>3, <1>4, <2>1
<1>7. i - 1 \in Nat /\ i - 1 \notin Bad
  BY <1>2, <1>3, <1>6
<1>8. PICK save : IsSave(save, i - 1)
  BY <1>7 DEF Bad
<1> DEFINE u == [j \in 0..i |-> IF j = i THEN Level(i, save[i - 1]) ELSE save[j]]
<1>9. save = [j \in 0..(i - 1) |-> Level(j, save[j - 1])]
  BY <1>4, <1>8
<1>10. \A j \in 0..(i - 1) : j \in 0..i /\ u[j] = save[j] /\ save[j] = Level(j, save[j - 1])
  BY <1>3, <1>9
<1>11. u[i] = Level(i, save[i - 1]) /\ u[i - 1] = save[i - 1] /\ u = [j \in 0..i |-> u[j]]
  BY <1>3, <1>6
<1> HIDE DEF u
<1>12. \A j \in 0..i : u[j] = Level(j, u[j - 1])
  <2> SUFFICES ASSUME NEW j \in 0..i PROVE u[j] = Level(j, u[j - 1])
    OBVIOUS
  <2>1. CASE j = i
    BY <1>11, <2>1
  <2>2. CASE j = 0 /\ j # i
    <3>1. u[j] = Level(0, save[j - 1])
      BY <1>3, <1>6, <1>10, <2>2
    <3> QED BY <1>5, <2>2, <3>1
  <2>3. CASE j # 0 /\ j # i
    <3>1. j \in 0..(i - 1) /\ j - 1 \in 0..(i - 1)
      BY <1>3, <2>3
    <3> QED BY <1>10, <3>1
  <2> QED BY <2>1, <2>2, <2>3
<1>13. u = [j \in 0..i |-> Level(j, u[j - 1])]
  BY <1>11, <1>12
<1> QED BY <1>3, <1>4, <1>13

(* Every save does, however deep saves may nest.                           *)
LEMMA SaveMeets == Contract(Save)
<1> DEFINE save == CHOOSE save : IsSave(save, MaxDepth)
<1>1. MaxDepth \in Nat
  BY BoundsAssumption
<1>2. IsSave(save, MaxDepth)
  BY <1>1, SaveExists
<1>3. Save = save[MaxDepth]
  BY Zenon DEF Save, IsSave
<1> HIDE DEF save
<1> DEFINE Bad == {n \in 0..MaxDepth : ~Contract(save[n])}
<1>4. ASSUME Bad # {} PROVE FALSE
  <2>1. Bad \subseteq Nat
    OBVIOUS
  <2> HIDE DEF Bad
  <2>2. PICK n \in Bad : \A m \in Bad : n <= m
    BY <1>4, <2>1, LeastNatural
  <2>3. n \in 0..MaxDepth /\ ~Contract(save[n])
    BY DEF Bad
  <2>4. PICK s, r : Sane(s) /\ r \in DOMAIN s.regs /\ ~Meets(s, r, save[n][s][r])
    BY <2>3 DEF Contract
  <2>5. s \in DB /\ r \in Nat
    BY <2>4, SaneFields DEF Sane
  <2>6. save[n][s][r] = IF n = 0 THEN [s EXCEPT !.failed = TRUE] ELSE Saving(save[n - 1], s, r)
    <3>1. save[n] = [d \in DB |-> [q \in Nat |-> IF n = 0 THEN [d EXCEPT !.failed = TRUE] ELSE Saving(save[n - 1], d, q)]]
      BY <1>2, <2>3 DEF IsSave
    <3> QED BY <2>5, <3>1
  <2>7. CASE n = 0
    <3>1. save[n][s][r] = [s EXCEPT !.failed = TRUE]
      BY <2>6, <2>7
    <3> QED BY <2>4, <3>1, GivesUp
  <2>8. CASE n # 0
    <3>1. n - 1 \in 0..MaxDepth /\ n - 1 \notin Bad
      BY <1>1, <2>2, <2>3, <2>8
    <3>2. Contract(save[n - 1])
      BY <3>1 DEF Bad
    <3>3. save[n][s][r] = Saving(save[n - 1], s, r)
      BY <2>6, <2>8
    <3> QED BY <2>4, <3>2, <3>3, SavingMeets
  <2> QED BY <2>7, <2>8
<1>5. MaxDepth \in 0..MaxDepth /\ MaxDepth \notin Bad
  BY <1>1, <1>4
<1> QED BY <1>3, <1>5

-----------------------------------------------------------------------------
(* Between requests the rows are sorted, and those of no value dropped.    *)
Earlier(s, i, j) ==
  LET p == s.pays[i]  q == s.pays[j]
  IN  \/ p.reg < q.reg
      \/ p.reg = q.reg /\ Rank[p.kind] < Rank[q.kind]
      \/ p.reg = q.reg /\ p.kind = q.kind /\ p.value < q.value
      \/ p = q /\ i < j
Valued(s) == {i \in DOMAIN s.pays : s.pays[i].value > 0}

(* The order of Tidy is one.                                               *)
LEMMA EarlierOrders ==
  ASSUME NEW s, Sane(s), NEW before, before = {ij \in Valued(s) \X Valued(s) : Earlier(s, ij[1], ij[2])}
  PROVE  Orders(Valued(s), before)
<1> DEFINE ids == Valued(s)
<1>1. \A i, j \in ids : <<i, j>> \in before <=> Earlier(s, i, j)
  OBVIOUS
<1>2. \A i \in ids : /\ i \in Int /\ s.pays[i] \in Payment /\ s.pays[i].reg \in Int /\ s.pays[i].value \in Int
                     /\ Rank[s.pays[i].kind] \in Int
  BY SaneFields DEF Rank, Kinds, Payment, Valued
<1>3. \A i, j \in ids : Rank[s.pays[i].kind] = Rank[s.pays[j].kind] => s.pays[i].kind = s.pays[j].kind
  BY <1>2 DEF Rank, Kinds, Payment
<1>4. \A i, j \in ids : s.pays[i].reg = s.pays[j].reg /\ s.pays[i].kind = s.pays[j].kind
                           /\ s.pays[i].value = s.pays[j].value => s.pays[i] = s.pays[j]
  BY <1>2 DEF Payment
<1> HIDE DEF ids
<1>5. \A i, j, l \in ids : /\ ~Earlier(s, i, i)
                           /\ Earlier(s, i, j) /\ Earlier(s, j, l) => Earlier(s, i, l)
                           /\ i # j => Earlier(s, i, j) \/ Earlier(s, j, i)
  BY <1>2, <1>3, <1>4 DEF Earlier
<1>6. ASSUME NEW i \in ids, NEW j \in ids, NEW l \in ids
      PROVE  /\ <<i, i>> \notin before
             /\ <<i, j>> \in before /\ <<j, l>> \in before => <<i, l>> \in before
             /\ i # j => <<i, j>> \in before \/ <<j, i>> \in before
  <2>1. (<<i, i>> \in before <=> Earlier(s, i, i)) /\ (<<i, j>> \in before <=> Earlier(s, i, j))
    BY <1>1
  <2>2. (<<j, i>> \in before <=> Earlier(s, j, i)) /\ (<<j, l>> \in before <=> Earlier(s, j, l))
    BY <1>1
  <2>3. <<i, l>> \in before <=> Earlier(s, i, l)
    BY <1>1
  <2>4. /\ ~Earlier(s, i, i)
        /\ Earlier(s, i, j) /\ Earlier(s, j, l) => Earlier(s, i, l)
        /\ i # j => Earlier(s, i, j) \/ Earlier(s, j, i)
    BY <1>5
  <2> QED BY <2>1, <2>2, <2>3, <2>4
<1> QED BY <1>6 DEF Orders, ids

(* The rows that are left, each once.                                      *)
LEMMA TidyRows ==
  ASSUME NEW s, Sane(s), NEW t, t = Tidy(s)
  PROVE  /\ t.regs = s.regs /\ t.bal = s.bal /\ t.collided = s.collided /\ t.failed = s.failed
         /\ t.bounds = s.bounds /\ t.price = s.price /\ t.queued = s.queued /\ t.closed = s.closed
         /\ t.accepted = s.accepted /\ t.given = s.given /\ t.refunds = s.refunds
         /\ Sane(t)
         /\ \E o \in [DOMAIN t.pays -> Valued(s)] :
              /\ \A n \in DOMAIN t.pays : t.pays[n] = s.pays[o[n]]
              /\ \A m, n \in DOMAIN t.pays : o[m] = o[n] => m = n
              /\ \A i \in Valued(s) : \E n \in DOMAIN t.pays : o[n] = i
<1> DEFINE before == {ij \in Valued(s) \X Valued(s) : Earlier(s, ij[1], ij[2])}
           order == InOrder(Valued(s), before)
           N == Cardinality(Valued(s))
           pays == [n \in DOMAIN order |-> s.pays[order[n]]]
<1>1. t = [s EXCEPT !.pays = pays]
  BY Zenon DEF Tidy, Earlier, Valued
<1>2. before = {ij \in Valued(s) \X Valued(s) : Earlier(s, ij[1], ij[2])}
  OBVIOUS
<1> HIDE DEF before
<1>3. Orders(Valued(s), before)
  BY <1>2, EarlierOrders
<1>4. Valued(s) \subseteq DOMAIN s.pays /\ IsFiniteSet(Valued(s)) /\ N \in Nat
  <2>1. Valued(s) \subseteq DOMAIN s.pays
    BY DEF Valued
  <2> QED BY <2>1, SaneFields, TotalType, FS_CardinalityType
<1>5. /\ order \in [1..N -> Valued(s)]
      /\ \A i \in Valued(s) : \E n \in 1..N : order[n] = i
      /\ \A m, n \in 1..N : order[m] = order[n] => m = n
  BY <1>3, <1>4, InOrderEnumerates
<1> HIDE DEF order, N
<1>6. \A n \in 1..N : pays[n] = s.pays[order[n]] /\ s.pays[order[n]] \in Payment /\ s.pays[order[n]].reg \in DOMAIN s.regs
  BY <1>4, <1>5, SaneFields
<1>7. pays \in [1..N -> Payment]
  BY <1>5, <1>6
<1>8. pays \in Seq(Payment) /\ DOMAIN pays = 1..N
  BY <1>4, <1>7, SeqDef
<1> HIDE DEF pays
<1>9. /\ t.pays = pays /\ t.regs = s.regs /\ t.bal = s.bal /\ t.collided = s.collided /\ t.failed = s.failed
      /\ t.bounds = s.bounds /\ t.price = s.price /\ t.queued = s.queued /\ t.closed = s.closed
      /\ t.accepted = s.accepted /\ t.given = s.given /\ t.refunds = s.refunds
      /\ t \in DB
  BY <1>1, <1>8 DEF Sane, DB
<1>10. Sane(t)
  BY <1>6, <1>8, <1>9 DEF Sane, WF
<1>11. /\ order \in [DOMAIN t.pays -> Valued(s)]
       /\ \A n \in DOMAIN t.pays : t.pays[n] = s.pays[order[n]]
       /\ \A m, n \in DOMAIN t.pays : order[m] = order[n] => m = n
       /\ \A i \in Valued(s) : \E n \in DOMAIN t.pays : order[n] = i
  BY <1>5, <1>6, <1>8, <1>9
<1>12. \E o \in [DOMAIN t.pays -> Valued(s)] :
              /\ \A n \in DOMAIN t.pays : t.pays[n] = s.pays[o[n]]
              /\ \A m, n \in DOMAIN t.pays : o[m] = o[n] => m = n
              /\ \A i \in Valued(s) : \E n \in DOMAIN t.pays : o[n] = i
  BY <1>11
<1> QED BY <1>9, <1>10, <1>12, ZenonT(40)

(* A sum over rows of those that are left is a sum over all such rows.     *)
LEMMA TidyTotal ==
  ASSUME NEW s, Sane(s), NEW t, Sane(t), NEW o \in [DOMAIN t.pays -> Valued(s)],
         \A n \in DOMAIN t.pays : t.pays[n] = s.pays[o[n]],
         \A m, n \in DOMAIN t.pays : o[m] = o[n] => m = n,
         \A i \in Valued(s) : \E n \in DOMAIN t.pays : o[n] = i,
         NEW A, A \subseteq DOMAIN s.pays, NEW B, B = {n \in DOMAIN t.pays : o[n] \in A}
  PROVE  Total(t.pays, B) = Total(s.pays, A)
<1> DEFINE f == [i \in DOMAIN s.pays |-> s.pays[i].value]
           g == [n \in DOMAIN t.pays |-> t.pays[n].value]
           V == A \cap Valued(s)
           b == [n \in B |-> o[n]]
<1>1. s.pays \in Seq(Payment) /\ t.pays \in Seq(Payment)
  BY SaneFields
<1>2. IsFiniteSet(A) /\ IsFiniteSet(B) /\ Valued(s) \subseteq DOMAIN s.pays
  BY <1>1, TotalType DEF Valued
<1>3. \A i \in A : f[i] \in Nat /\ f[i] \in Int /\ (i \in A \ V => f[i] = 0)
  BY SaneFields DEF Valued, Payment
<1>4. SumFunctionOnSet(f, A) = SumFunctionOnSet(f, V)
  <2>1. V \subseteq A
    OBVIOUS
  <2> HIDE DEF f, V
  <2> QED BY <1>2, <1>3, <2>1, SumOfMoreZeros
<1>5. b \in [B -> V] /\ (\A x, y \in B : b[x] = b[y] => x = y) /\ \A y \in V : \E x \in B : b[x] = y
  OBVIOUS
<1>6. \A n \in B : g[n] \in Int /\ f[b[n]] = g[n]
  BY <1>2, SaneFields DEF Payment
<1>7. Total(s.pays, A) = SumFunctionOnSet(f, A) /\ Total(t.pays, B) = SumFunctionOnSet(g, B)
  BY DEF Total
<1> HIDE DEF f, g, V, b
<1>8. SumFunctionOnSet(g, B) = SumFunctionOnSet(f, V)
  BY <1>2, <1>5, <1>6, SumReindexed
<1> QED BY <1>4, <1>7, <1>8

(* Tidying drops rows of value zero, and changes no sum.                   *)
LEMMA TidyKeeps ==
  ASSUME NEW s, Sane(s), NEW t, t = Tidy(s)
  PROVE  /\ t.regs = s.regs /\ t.bal = s.bal /\ t.collided = s.collided /\ t.failed = s.failed
         /\ t.queued = s.queued /\ t.given = s.given /\ t.price = s.price /\ t.accepted = s.accepted
         /\ t.closed = s.closed
         /\ Sane(t)
         /\ \A i \in DOMAIN t.pays : t.pays[i].value > 0
         /\ \A k \in Kinds : Used(t, k) = Used(s, k)
         /\ \A q \in DOMAIN s.regs : PaidFor(t, q) = PaidFor(s, q)
         /\ \A i \in DOMAIN t.pays : \E j \in DOMAIN s.pays : t.pays[i] = s.pays[j]
<1>1. /\ t.regs = s.regs /\ t.bal = s.bal /\ t.collided = s.collided /\ t.failed = s.failed
      /\ t.queued = s.queued /\ t.given = s.given /\ t.price = s.price /\ t.accepted = s.accepted
      /\ t.closed = s.closed
      /\ Sane(t)
  BY TidyRows
<1>2. PICK o \in [DOMAIN t.pays -> Valued(s)] :
              /\ \A n \in DOMAIN t.pays : t.pays[n] = s.pays[o[n]]
              /\ \A m, n \in DOMAIN t.pays : o[m] = o[n] => m = n
              /\ \A i \in Valued(s) : \E n \in DOMAIN t.pays : o[n] = i
  BY TidyRows
<1>3. \A n \in DOMAIN t.pays : o[n] \in DOMAIN s.pays /\ s.pays[o[n]].value > 0
  BY <1>2 DEF Valued
<1>4. ASSUME NEW k \in Kinds PROVE Used(t, k) = Used(s, k)
  <2>1. RowsIn(s, k) \subseteq DOMAIN s.pays /\ RowsIn(t, k) = {n \in DOMAIN t.pays : o[n] \in RowsIn(s, k)}
    BY <1>2, <1>3 DEF RowsIn
  <2>2. Total(t.pays, RowsIn(t, k)) = Total(s.pays, RowsIn(s, k))
    BY <1>1, <1>2, <2>1, TidyTotal
  <2> QED BY <1>1, <2>2, SaneTotals
<1>5. ASSUME NEW q \in DOMAIN s.regs PROVE PaidFor(t, q) = PaidFor(s, q)
  <2>1. RowsOf(s, q) \subseteq DOMAIN s.pays /\ RowsOf(t, q) = {n \in DOMAIN t.pays : o[n] \in RowsOf(s, q)}
    BY <1>2, <1>3 DEF RowsOf
  <2>2. Total(t.pays, RowsOf(t, q)) = Total(s.pays, RowsOf(s, q))
    BY <1>1, <1>2, <2>1, TidyTotal
  <2> QED BY <1>1, <2>2, SaneTotals
<1>6. (\A i \in DOMAIN t.pays : t.pays[i].value > 0) /\ \A i \in DOMAIN t.pays : \E j \in DOMAIN s.pays : t.pays[i] = s.pays[j]
  BY <1>2, <1>3
<1> QED BY <1>1, <1>4, <1>5, <1>6

-----------------------------------------------------------------------------
(* What holds between requests: the registrations that no recalculation is *)
(* still queued for are returned what they overpaid; and, as long as no    *)
(* debit met an older payment, the balances are exact, and a registration  *)
(* that is not settled is listed as such and leaves no balance.            *)
OneActive(s) ==
  \A q, r \in DOMAIN s.regs :
    ~s.regs[q].cancelled /\ ~s.regs[r].cancelled /\ s.regs[q].run = s.regs[r].run => q = r
AllReturned(s) == ~s.failed => \A q \in DOMAIN s.regs : Current(s, q) => Returned(s, q)
AllBalanced(s) == ~Off(s) => \A k \in Kinds : Balanced(s, k)
AllNoted(s) == ~Off(s) => \A q \in DOMAIN s.regs : Current(s, q) => Noted(s, q)
AllServed(s) == ~Off(s) => \A q \in DOMAIN s.regs : Current(s, q) => Served(s, q)
Sound(s) == Sane(s) /\ OneActive(s) /\ AllReturned(s) /\ AllBalanced(s) /\ AllNoted(s) /\ AllServed(s)

(* A save makes no second active registration for a run.                   *)
LEMMA OneActiveCarried ==
  ASSUME NEW s, NEW t, Carries(s, t), OneActive(s)
  PROVE  OneActive(t)
BY DEF Carries, Framed, OneActive

(* What holds before tidying holds after it.                               *)
LEMMA TidySound ==
  ASSUME NEW s, Sound(s), NEW t, t = Tidy(s)
  PROVE  Sound(t) /\ \A i \in DOMAIN t.pays : t.pays[i].value > 0
<1>1. /\ t.regs = s.regs /\ t.bal = s.bal /\ t.collided = s.collided /\ t.failed = s.failed
      /\ t.queued = s.queued /\ t.given = s.given /\ t.price = s.price /\ t.accepted = s.accepted
      /\ t.closed = s.closed
      /\ Sane(t)
      /\ \A i \in DOMAIN t.pays : t.pays[i].value > 0
      /\ \A k \in Kinds : Used(t, k) = Used(s, k)
      /\ \A q \in DOMAIN s.regs : PaidFor(t, q) = PaidFor(s, q)
      /\ \A i \in DOMAIN t.pays : \E j \in DOMAIN s.pays : t.pays[i] = s.pays[j]
  BY TidyKeeps DEF Sound
<1>2. Off(t) <=> Off(s)
  BY <1>1 DEF Off
<1>3. \A q \in DOMAIN s.regs : /\ Current(t, q) <=> Current(s, q)
                               /\ Active(t, q) <=> Active(s, q)
                               /\ Live(t, q) <=> Live(s, q)
                               /\ Due(t, q) = Due(s, q)
  BY <1>1 DEF Current, Active, Closed, Live, Due
<1>4. OneActive(t)
  BY <1>1 DEF OneActive, Sound
<1>5. AllBalanced(t)
  BY <1>1, <1>2 DEF AllBalanced, Balanced, Sound
<1>6. \A q \in DOMAIN s.regs : Returned(s, q) => Returned(t, q)
  BY <1>1, <1>3 DEF Returned, RowsOf
<1>7. \A q \in DOMAIN s.regs : (Noted(s, q) => Noted(t, q)) /\ (Served(s, q) => Served(t, q))
  BY <1>1, <1>3 DEF Noted, Served
<1>8. AllReturned(t) /\ AllNoted(t) /\ AllServed(t)
  BY <1>1, <1>2, <1>3, <1>6, <1>7 DEF AllReturned, AllNoted, AllServed, Sound
<1> QED BY <1>1, <1>4, <1>5, <1>8 DEF Sound

(* Saving a registration settles it and disturbs no other.                 *)
LEMMA HandleSound ==
  ASSUME NEW s, Sane(s), OneActive(s), NEW r \in DOMAIN s.regs, AllBalanced(s),
         ~s.failed => \A q \in DOMAIN s.regs : q # r /\ Current(s, q) => Returned(s, q),
         ~Off(s) => \A q \in DOMAIN s.regs : q # r /\ Current(s, q) => Noted(s, q) /\ Served(s, q),
         NEW t, t = Handle(s, r)
  PROVE  Carries(s, t) /\ Sound(t)
<1>1. Meets(s, r, t)
  BY SaveMeets DEF Handle, Contract
<1>2. Carries(s, t) /\ KeepsBalanced(s, t) /\ KeepsReturned(s, r, t) /\ KeepsNoted(s, r, t) /\ KeepsServed(s, r, t)
  BY <1>1 DEF Meets
<1>3. Sane(t) /\ OneActive(t) /\ (Off(s) => Off(t)) /\ (s.failed => t.failed)
  BY <1>2, OneActiveCarried, OffOn DEF Carries
<1>4. DOMAIN t.regs = DOMAIN s.regs /\ \A q \in DOMAIN s.regs : Current(t, q) <=> Current(s, q)
  BY <1>2, CarriesSame
<1>5. AllBalanced(t)
  BY <1>2, <1>3 DEF AllBalanced, KeepsBalanced
<1>6. AllReturned(t)
  BY <1>2, <1>3, <1>4 DEF AllReturned, KeepsReturned
<1>7. AllNoted(t)
  BY <1>2, <1>3, <1>4 DEF AllNoted, KeepsNoted
<1>8. ~Off(s) => NotedBut(s, r)
  BY DEF NotedBut
<1>9. AllServed(t)
  BY <1>2, <1>3, <1>4, <1>8 DEF AllServed, KeepsServed
<1> QED BY <1>2, <1>3, <1>5, <1>6, <1>7, <1>9 DEF Sound

(* So does saving the registrations of a list.                             *)
LEMMA AllSound ==
  ASSUME NEW s, Sane(s), OneActive(s), NEW list \in Seq(DOMAIN s.regs), AllBalanced(s),
         ~s.failed => \A q \in DOMAIN s.regs : Current(s, q) => Returned(s, q) \/ \E m \in 1..Len(list) : list[m] = q,
         ~Off(s) => \A q \in DOMAIN s.regs : Current(s, q) => Noted(s, q) \/ \E m \in 1..Len(list) : list[m] = q,
         ~Off(s) => \A q \in DOMAIN s.regs : Current(s, q) => Served(s, q) \/ \E m \in 1..Len(list) : list[m] = q,
         ~Off(s) => \A m \in 1..Len(list) : s.regs[list[m]].cancelled \/ NotedBut(s, list[m]),
         NEW t, t = SaveAll(Save, s, list)
  PROVE  Sound(t)
<1>1. After(s, list, Len(list), t)
  BY SaveMeets, SavesAll
<1>2. Carries(s, t)
  BY <1>1 DEF After
<1>3. Sane(t) /\ OneActive(t) /\ (Off(s) => Off(t)) /\ (s.failed => t.failed)
  BY <1>2, OneActiveCarried, OffOn DEF Carries
<1>4. DOMAIN t.regs = DOMAIN s.regs /\ \A q \in DOMAIN s.regs : Current(t, q) <=> Current(s, q)
  BY <1>2, CarriesSame
<1>5. AllBalanced(t)
  BY <1>1, <1>3 DEF AllBalanced, KeepsBalanced, After
<1>6. AllReturned(t)
  BY <1>1, <1>3, <1>4 DEF AllReturned, After
<1>7. AllNoted(t)
  BY <1>1, <1>3, <1>4 DEF AllNoted, After
<1>8. AllServed(t)
  <2> SUFFICES ASSUME ~Off(t), NEW q \in DOMAIN s.regs, Current(s, q) PROVE Served(t, q)
    BY <1>4 DEF AllServed
  <2>1. ~Off(s)
    BY <1>3
  <2>2. Served(s, q) \/ \E m \in 1..Len(list) : list[m] = q
    BY <2>1
  <2>3. \A m \in 1..Len(list) : s.regs[list[m]].cancelled \/ NotedBut(s, list[m])
    BY <2>1
  <2> QED BY <1>1, <2>2, <2>3 DEF After
<1> QED BY <1>3, <1>5, <1>6, <1>7, <1>8 DEF Sound

(* So does recalculating a balance.                                        *)
LEMMA RecomputeSound ==
  ASSUME NEW s, Sane(s), OneActive(s), NEW k \in Kinds, AllReturned(s), AllNoted(s),
         ~Off(s) => \A j \in Kinds : j # k => Balanced(s, j),
         NEW t, t = Recompute(Save, s, k)
  PROVE  Carries(s, t) /\ Sound(t)
<1>1. /\ Carries(s, t)
      /\ \A j \in Kinds : j = k \/ Balanced(s, j) => Off(t) \/ Balanced(t, j)
      /\ KeepsAll(s, t)
      /\ \A q \in DOMAIN s.regs : Noted(s, q) => Off(t) \/ Noted(t, q)
      /\ (\A q \in DOMAIN s.regs : Current(s, q) => Noted(s, q)) =>
           \A q \in DOMAIN s.regs : Current(s, q) => Off(t) \/ Served(t, q)
  BY SaveMeets, RecomputeKeeps
<1>2. Sane(t) /\ OneActive(t) /\ (Off(s) => Off(t)) /\ (s.failed => t.failed)
  BY <1>1, OneActiveCarried, OffOn DEF Carries
<1>3. DOMAIN t.regs = DOMAIN s.regs /\ \A q \in DOMAIN s.regs : Current(t, q) <=> Current(s, q)
  BY <1>1, CarriesSame
<1>4. AllBalanced(t)
  BY <1>1, <1>2 DEF AllBalanced
<1>5. AllReturned(t)
  BY <1>1, <1>2, <1>3 DEF AllReturned, KeepsAll
<1>6. AllNoted(t) /\ AllServed(t)
  BY <1>1, <1>2, <1>3 DEF AllNoted, AllServed
<1> QED BY <1>1, <1>2, <1>4, <1>5, <1>6 DEF Sound

-----------------------------------------------------------------------------
(* A registration of which a request changes nothing that its accounting   *)
(* depends on.                                                             *)
Alike(s, t, q) ==
  /\ t.pays = s.pays /\ t.closed = s.closed /\ Due(t, q) = Due(s, q)
  /\ t.regs[q].run = s.regs[q].run /\ t.regs[q].cancelled = s.regs[q].cancelled
  /\ t.regs[q].paid = s.regs[q].paid /\ t.regs[q].due = s.regs[q].due

(* Registrations that are alike in two states are settled in both or in    *)
(* neither.                                                                *)
LEMMA AlikeSame ==
  ASSUME NEW s, NEW t, NEW q, Alike(s, t, q)
  PROVE  /\ Active(t, q) <=> Active(s, q)
         /\ PaidFor(t, q) = PaidFor(s, q)
         /\ Noted(s, q) => Noted(t, q)
         /\ t.accepted = s.accepted /\ Returned(s, q) => Returned(t, q)
         /\ t.accepted = s.accepted /\ t.bal = s.bal /\ Served(s, q) => Served(t, q)
<1>1. Active(t, q) <=> Active(s, q)
  BY DEF Alike, Active, Closed
<1>2. PaidFor(t, q) = PaidFor(s, q)
  BY DEF Alike, PaidFor
<1>3. Noted(s, q) => Noted(t, q)
  BY <1>1, <1>2 DEF Alike, Noted
<1>4. t.accepted = s.accepted /\ Returned(s, q) => Returned(t, q)
  BY <1>1, <1>2 DEF Alike, Returned, RowsOf, Live
<1>5. t.accepted = s.accepted /\ t.bal = s.bal /\ Served(s, q) => Served(t, q)
  BY <1>1, <1>2 DEF Alike, Served, Live
<1> QED BY <1>1, <1>2, <1>3, <1>4, <1>5

(* Balances are what they were when nothing that they depend on changes.   *)
LEMMA BalancedSame ==
  ASSUME NEW s, NEW t, NEW k, t.pays = s.pays, t.bal[k] = s.bal[k], t.given[k] = s.given[k], Balanced(s, k)
  PROVE  Balanced(t, k)
BY DEF Balanced, Used

-----------------------------------------------------------------------------
(* Each request, as far as the table it leaves to be tidied.               *)
LEMMA SoundFields ==
  ASSUME NEW s, Sound(s)
  PROVE  /\ s \in DB /\ WF(s) /\ Sane(s)
         /\ s.bounds.amounts \subseteq Nat /\ s.bounds.prices \subseteq Nat
<1>1. s \in DB /\ WF(s) /\ s.bounds \in Bounds
  BY DEF Sound, Sane, DB
<1>2. s.bounds.amounts \subseteq Nat /\ s.bounds.prices \subseteq Nat
  BY <1>1, BoundsAssumption
<1> QED BY <1>1, <1>2 DEF Sound

(* After a signup (views/user/registration.py) all accounts are right      *)
(* again.                                                                  *)
LEMMA SignUpSound ==
  ASSUME NEW s, Sound(s), NEW run \in AllRuns,
         \A q \in DOMAIN s.regs : s.regs[q].run = run => s.regs[q].cancelled,
         NEW reg, reg = [run |-> run, cancelled |-> FALSE, refunded |-> FALSE, bonus |-> 0, paid |-> 0, due |-> 0],
         NEW x, x = [s EXCEPT !.regs = Append(@, reg)],
         NEW t, t = Handle(x, Len(s.regs) + 1)
  PROVE  Sound(t)
<1> DEFINE r == Len(s.regs) + 1
           regs == Append(s.regs, reg)
<1>1. s \in DB /\ WF(s) /\ Sane(s)
  BY SoundFields
<1>2. reg \in Registration /\ ~reg.cancelled /\ reg.run = run
  BY DEF Registration
<1>3. s.regs \in Seq(Registration) /\ Len(s.regs) \in Nat /\ DOMAIN s.regs = 1..Len(s.regs)
  BY <1>1, SaneFields
<1>4. /\ regs \in Seq(Registration) /\ DOMAIN regs = 1..r /\ regs[r] = reg
      /\ \A q \in DOMAIN s.regs : regs[q] = s.regs[q]
  BY <1>2, <1>3, LenProperties
<1>5. x = [s EXCEPT !.regs = regs]
  BY <1>1 DEF DB
<1> HIDE DEF regs
<1>6. /\ x.regs = regs /\ x.pays = s.pays /\ x.bal = s.bal /\ x.failed = s.failed /\ x.collided = s.collided
      /\ x.bounds = s.bounds /\ x.price = s.price /\ x.queued = s.queued /\ x.closed = s.closed
      /\ x.accepted = s.accepted /\ x.given = s.given /\ x.refunds = s.refunds /\ x \in DB
  BY <1>1, <1>4, <1>5 DEF DB
<1>7. DOMAIN s.regs \subseteq DOMAIN x.regs /\ r \in DOMAIN x.regs /\ \A q \in DOMAIN x.regs : q # r => q \in DOMAIN s.regs
  BY <1>3, <1>4, <1>6
<1>8. Sane(x)
  BY <1>1, <1>6, <1>7 DEF Sane, WF
<1>9. \A q \in DOMAIN s.regs : Alike(s, x, q)
  BY <1>4, <1>6 DEF Alike, Due
<1>10. OneActive(x)
  BY <1>2, <1>4, <1>6, <1>7 DEF OneActive, Sound
<1>11. Off(x) <=> Off(s)
  BY <1>6 DEF Off
<1>12. AllBalanced(x)
  BY <1>6, <1>11, BalancedSame DEF AllBalanced, Sound
<1>13. \A q \in DOMAIN s.regs : (Current(x, q) <=> Current(s, q)) /\ (Returned(s, q) => Returned(x, q))
                                /\ (Noted(s, q) => Noted(x, q)) /\ (Served(s, q) => Served(x, q))
  <2> SUFFICES ASSUME NEW q \in DOMAIN s.regs
               PROVE  (Current(x, q) <=> Current(s, q)) /\ (Returned(s, q) => Returned(x, q))
                      /\ (Noted(s, q) => Noted(x, q)) /\ (Served(s, q) => Served(x, q))
    OBVIOUS
  <2>1. Alike(s, x, q)
    BY <1>9
  <2>2. Active(x, q) <=> Active(s, q)
    BY <2>1, AlikeSame
  <2>3. Current(x, q) <=> Current(s, q)
    BY <1>6, <2>1, <2>2 DEF Alike, Current
  <2>4. Returned(s, q) => Returned(x, q)
    BY <1>6, <2>1, AlikeSame
  <2>5. (Noted(s, q) => Noted(x, q)) /\ (Served(s, q) => Served(x, q))
    BY <1>6, <2>1, AlikeSame
  <2> QED BY <2>3, <2>4, <2>5
<1>14. ~x.failed => \A q \in DOMAIN x.regs : q # r /\ Current(x, q) => Returned(x, q)
  BY <1>6, <1>7, <1>13 DEF Sound, AllReturned
<1>15. ~Off(x) => \A q \in DOMAIN x.regs : q # r /\ Current(x, q) => Noted(x, q) /\ Served(x, q)
  BY <1>7, <1>11, <1>13 DEF Sound, AllNoted, AllServed
<1> HIDE DEF r
<1> QED BY <1>7, <1>8, <1>10, <1>12, <1>14, <1>15, HandleSound DEF r

-----------------------------------------------------------------------------
(* A change outside the payment records that makes no registration current *)
(* leaves all that holds, but for the balances of what is given.           *)
Edited(s, x) ==
  /\ Sane(x) /\ x.pays = s.pays /\ x.bal = s.bal /\ x.failed = s.failed /\ x.collided = s.collided
  /\ x.accepted = s.accepted /\ DOMAIN x.regs = DOMAIN s.regs
  /\ \A q \in DOMAIN s.regs :
       /\ x.regs[q].run = s.regs[q].run
       /\ s.regs[q].cancelled => x.regs[q].cancelled
       /\ Current(x, q) => /\ Current(s, q) /\ x.regs[q].paid = s.regs[q].paid
                           /\ x.regs[q].due = s.regs[q].due /\ Due(x, q) = Due(s, q)

(* An edit of the given amounts, refunds or bonuses unbalances nothing but *)
(* what it gave.                                                           *)
LEMMA EditKeeps ==
  ASSUME NEW s, Sound(s), NEW x, Edited(s, x)
  PROVE  /\ Sane(x) /\ OneActive(x) /\ AllReturned(x) /\ AllNoted(x) /\ AllServed(x)
         /\ ~Off(x) => \A j \in Kinds : x.given[j] = s.given[j] => Balanced(x, j)
         /\ x.given = s.given => Sound(x)
<1>1. OneActive(x)
  BY DEF OneActive, Edited, Sound
<1>2. Off(x) <=> Off(s)
  BY DEF Off, Edited
<1>3. ASSUME NEW q \in DOMAIN s.regs, Current(x, q)
      PROVE  /\ Current(s, q)
             /\ Returned(s, q) => Returned(x, q)
             /\ Noted(s, q) => Noted(x, q)
             /\ Served(s, q) => Served(x, q)
  <2>1. /\ Current(s, q) /\ x.regs[q].paid = s.regs[q].paid /\ x.regs[q].due = s.regs[q].due /\ Due(x, q) = Due(s, q)
        /\ x.pays = s.pays /\ x.bal = s.bal /\ x.accepted = s.accepted
    BY <1>3 DEF Edited
  <2>2. Active(x, q) /\ Active(s, q) /\ PaidFor(x, q) = PaidFor(s, q) /\ RowsOf(x, q) = RowsOf(s, q)
    BY <1>3, <2>1 DEF Current, PaidFor, RowsOf
  <2>3. Returned(s, q) => Returned(x, q)
    BY <2>1, <2>2 DEF Returned, Live
  <2>4. Noted(s, q) => Noted(x, q)
    BY <2>1, <2>2 DEF Noted
  <2>5. Served(s, q) => Served(x, q)
    BY <2>1, <2>2 DEF Served, Live
  <2> QED BY <2>1, <2>3, <2>4, <2>5
<1>4. AllReturned(x) /\ AllNoted(x) /\ AllServed(x)
  BY <1>2, <1>3 DEF AllReturned, AllNoted, AllServed, Sound, Edited
<1>5. ~Off(x) => \A j \in Kinds : x.given[j] = s.given[j] => Balanced(x, j)
  BY <1>2, BalancedSame DEF AllBalanced, Sound, Edited
<1>6. x.given = s.given => Sound(x)
  BY <1>1, <1>4, <1>5 DEF Sound, Edited, AllBalanced
<1> QED BY <1>1, <1>4, <1>5, <1>6 DEF Edited

(* Saving a registration keeps the accounts right.                         *)
LEMMA SoundHandled ==
  ASSUME NEW s, Sound(s), NEW r \in DOMAIN s.regs, NEW t, t = Handle(s, r)
  PROVE  Carries(s, t) /\ Sound(t)
<1>1. ~s.failed => \A q \in DOMAIN s.regs : q # r /\ Current(s, q) => Returned(s, q)
  BY DEF Sound, AllReturned
<1>2. ~Off(s) => \A q \in DOMAIN s.regs : q # r /\ Current(s, q) => Noted(s, q) /\ Served(s, q)
  BY DEF Sound, AllNoted, AllServed
<1> QED BY <1>1, <1>2, HandleSound DEF Sound

(* An edit, and the recalculation of the balance it changed, keep them     *)
(* right.                                                                  *)
LEMMA EditRecomputed ==
  ASSUME NEW s, Sound(s), NEW x, Edited(s, x), NEW k \in Kinds, \A j \in Kinds : j # k => x.given[j] = s.given[j],
         NEW t, t = Recompute(Save, x, k)
  PROVE  Carries(x, t) /\ Sound(t)
<1>1. /\ Sane(x) /\ OneActive(x) /\ AllReturned(x) /\ AllNoted(x)
      /\ ~Off(x) => \A j \in Kinds : j # k => Balanced(x, j)
  BY EditKeeps
<1> QED BY <1>1, RecomputeSound

-----------------------------------------------------------------------------
(* A price is changed: its run is queued, so nobody answers for it until   *)
(* it is recalculated.                                                     *)
LEMMA RepriceSound ==
  ASSUME NEW s, Sound(s), NEW run \in AllRuns, NEW p \in s.bounds.prices,
         NEW t, t = [s EXCEPT !.price[run] = p, !.queued = @ \cup {run}]
  PROVE  Sound(t)
<1> DEFINE price == [s.price EXCEPT ![run] = p]
<1>1. s \in DB /\ WF(s) /\ p \in Nat
  BY SoundFields
<1>2. price \in [AllRuns -> Nat] /\ \A a \in AllRuns : a # run => price[a] = s.price[a]
  BY <1>1 DEF DB
<1>3. t = [s EXCEPT !.price = price, !.queued = s.queued \cup {run}]
  BY <1>1 DEF DB
<1> HIDE DEF price
<1> DEFINE queued == s.queued \cup {run}
<1>4. queued \in SUBSET AllRuns /\ queued = s.queued \cup {run}
  BY <1>1 DEF DB
<1>5. t = [s EXCEPT !.price = price, !.queued = queued]
  BY <1>3
<1> HIDE DEF queued
<1>6. /\ t.price = price /\ t.queued = s.queued \cup {run} /\ t.closed = s.closed /\ t.given = s.given
      /\ t.regs = s.regs /\ t.pays = s.pays /\ t.bal = s.bal /\ t.failed = s.failed /\ t.collided = s.collided
      /\ t.accepted = s.accepted /\ t \in DB
  BY <1>1, <1>2, <1>4, <1>5 DEF DB
<1>7. Sane(t)
  BY <1>1, <1>6 DEF Sane, WF
<1>8. ASSUME NEW q \in DOMAIN s.regs, Current(t, q) PROVE Current(s, q) /\ Due(t, q) = Due(s, q)
  <2>1. Current(s, q) /\ s.regs[q].run # run
    BY <1>6, <1>8 DEF Current, Active, Closed
  <2>2. s.regs[q].run \in AllRuns
    BY SoundFields, SaneFields DEF Registration
  <2> QED BY <1>2, <1>6, <2>1, <2>2 DEF Due
<1>9. Edited(s, t)
  BY <1>6, <1>7, <1>8 DEF Edited
<1> QED BY <1>6, <1>9, EditKeeps

(* A run is closed: nobody answers for it any more.                        *)
LEMMA CloseRunSound ==
  ASSUME NEW s, Sound(s), NEW run \in AllRuns, NEW t, t = [s EXCEPT !.closed = @ \cup {run}]
  PROVE  Sound(t)
<1>1. s \in DB /\ WF(s)
  BY SoundFields
<1>2. /\ t.price = s.price /\ t.queued = s.queued /\ t.closed = s.closed \cup {run} /\ t.given = s.given
      /\ t.regs = s.regs /\ t.pays = s.pays /\ t.bal = s.bal /\ t.failed = s.failed /\ t.collided = s.collided
      /\ t.accepted = s.accepted /\ t \in DB
  BY <1>1 DEF DB
<1>3. Sane(t)
  BY <1>1, <1>2 DEF Sane, WF
<1>4. ASSUME NEW q \in DOMAIN s.regs, Current(t, q) PROVE Current(s, q) /\ Due(t, q) = Due(s, q)
  BY <1>2, <1>4 DEF Current, Active, Closed, Due
<1>5. Edited(s, t)
  BY <1>2, <1>3, <1>4 DEF Edited
<1> QED BY <1>2, <1>5, EditKeeps

(* The stored registrations, one of them edited.                           *)
RegsEdited(s, regs) ==
  /\ regs \in Seq(Registration) /\ DOMAIN regs = DOMAIN s.regs
  /\ \A q \in DOMAIN s.regs : /\ regs[q].run = s.regs[q].run
                              /\ s.regs[q].cancelled => regs[q].cancelled
                              /\ regs[q].paid = s.regs[q].paid /\ regs[q].due = s.regs[q].due

(* Something is given, and one registration's bonus or refund is written.  *)
Gift(s, k, v, regs, refunds) ==
  [s EXCEPT !.given = [s.given EXCEPT ![k] = @ + v], !.regs = regs, !.refunds = refunds]

(* Changing what was given of one kind is such an edit.                    *)
LEMMA GivenEdits ==
  ASSUME NEW s, Sound(s), NEW k \in Kinds, NEW v \in Int, NEW regs, RegsEdited(s, regs),
         NEW refunds \in SUBSET (Kinds \X AllRuns \X Nat),
         NEW x, x = Gift(s, k, v, regs, refunds)
  PROVE  Edited(s, x) /\ \A j \in Kinds : j # k => x.given[j] = s.given[j]
<1> DEFINE given == [s.given EXCEPT ![k] = @ + v]
<1>1. s \in DB /\ WF(s) /\ s.given[k] \in Int
  BY SoundFields DEF DB
<1>2. given \in [Kinds -> Int] /\ (\A j \in Kinds : j # k => given[j] = s.given[j]) /\ given[k] = s.given[k] + v
  BY <1>1 DEF DB
<1>3. x = [s EXCEPT !.given = given, !.regs = regs, !.refunds = refunds]
  BY DEF Gift
<1> HIDE DEF given
<1>4. /\ x.price = s.price /\ x.queued = s.queued /\ x.closed = s.closed /\ x.given = given
      /\ x.regs = regs /\ x.pays = s.pays /\ x.bal = s.bal /\ x.failed = s.failed /\ x.collided = s.collided
      /\ x.accepted = s.accepted /\ x \in DB
  BY <1>1, <1>2, <1>3 DEF DB, RegsEdited
<1>5. Sane(x)
  BY <1>1, <1>4 DEF Sane, WF, RegsEdited
<1>6. ASSUME NEW q \in DOMAIN s.regs, Current(x, q) PROVE Current(s, q) /\ Due(x, q) = Due(s, q)
  <2>1. s.regs[q] \in Registration /\ regs[q] \in Registration
    BY SoundFields, SaneFields, LenProperties DEF RegsEdited
  <2> QED BY <1>4, <1>6, <2>1 DEF RegsEdited, Current, Active, Closed, Due, Registration
<1>7. Edited(s, x)
  BY <1>4, <1>5, <1>6 DEF Edited, RegsEdited
<1> QED BY <1>2, <1>4, <1>7

(* One registration is written, its run and stored totals left.            *)
LEMMA RegsWritten ==
  ASSUME NEW s, Sane(s), NEW r \in DOMAIN s.regs, NEW reg \in Registration,
         reg.run = s.regs[r].run, s.regs[r].cancelled => reg.cancelled, reg.paid = s.regs[r].paid, reg.due = s.regs[r].due,
         NEW regs, regs = [s.regs EXCEPT ![r] = reg]
  PROVE  RegsEdited(s, regs)
<1>1. regs \in Seq(Registration) /\ DOMAIN regs = DOMAIN s.regs
  BY SaneFields, ExceptSeq
<1>2. regs[r] = reg /\ \A q \in DOMAIN s.regs : q # r => regs[q] = s.regs[q]
  BY SaneFields
<1> QED BY <1>1, <1>2 DEF RegsEdited

(* The same, with what was given of one kind.                              *)
LEMMA GiftEdits ==
  ASSUME NEW s, Sound(s), NEW r \in DOMAIN s.regs, NEW reg \in Registration, NEW k \in Kinds, NEW v \in Int,
         reg.run = s.regs[r].run, s.regs[r].cancelled => reg.cancelled, reg.paid = s.regs[r].paid, reg.due = s.regs[r].due,
         NEW x, x = Gift(s, k, v, [s.regs EXCEPT ![r] = reg], s.refunds)
  PROVE  Edited(s, x) /\ \A j \in Kinds : j # k => x.given[j] = s.given[j]
<1> DEFINE regs == [s.regs EXCEPT ![r] = reg]
<1>1. Sane(s) /\ s.refunds \in SUBSET (Kinds \X AllRuns \X Nat)
  BY SoundFields DEF DB
<1>2. regs = [s.regs EXCEPT ![r] = reg] /\ x = Gift(s, k, v, regs, s.refunds)
  OBVIOUS
<1> HIDE DEF regs
<1>3. RegsEdited(s, regs)
  BY <1>1, <1>2, RegsWritten
<1> QED BY <1>1, <1>2, <1>3, GivenEdits

(* A registration is edited, and nothing given.                            *)
LEMMA RegEdits ==
  ASSUME NEW s, Sound(s), NEW r \in DOMAIN s.regs, NEW reg \in Registration,
         reg.run = s.regs[r].run, s.regs[r].cancelled => reg.cancelled, reg.paid = s.regs[r].paid, reg.due = s.regs[r].due,
         NEW x, x = [s EXCEPT !.regs = [s.regs EXCEPT ![r] = reg]]
  PROVE  Sound(x) /\ DOMAIN x.regs = DOMAIN s.regs
<1> DEFINE regs == [s.regs EXCEPT ![r] = reg]
<1>1. s \in DB /\ s.given \in [Kinds -> Int] /\ "token" \in Kinds /\ 0 \in Int
  BY SoundFields DEF DB, Kinds
<1>2. [s.given EXCEPT !["token"] = @ + 0] = s.given
  BY <1>1
<1>3. x = [s EXCEPT !.given = s.given, !.regs = regs, !.refunds = s.refunds] /\ x.given = s.given
  BY <1>1 DEF DB
<1>4. x = Gift(s, "token", 0, regs, s.refunds)
  BY <1>2, <1>3 DEF Gift
<1>5. Edited(s, x)
  BY <1>1, <1>4, GiftEdits
<1> QED BY <1>3, <1>5, EditKeeps DEF Edited

(* Tokens or credits are given.                                            *)
LEMMA GiveSound ==
  ASSUME NEW s, Sound(s), NEW k \in Kinds, NEW v \in Nat,
         NEW t, t = Recompute(Save, [s EXCEPT !.given[k] = @ + v], k)
  PROVE  Sound(t)
<1> DEFINE x == [s EXCEPT !.given[k] = @ + v]
<1>1. s \in DB
  BY SoundFields
<1>2. x = Gift(s, k, v, s.regs, s.refunds)
  BY <1>1 DEF DB, Gift
<1>3. v \in Int /\ RegsEdited(s, s.regs) /\ s.refunds \in SUBSET (Kinds \X AllRuns \X Nat)
  BY <1>1 DEF DB, RegsEdited
<1>4. t = Recompute(Save, x, k)
  OBVIOUS
<1> HIDE DEF x
<1>5. Edited(s, x) /\ \A j \in Kinds : j # k => x.given[j] = s.given[j]
  BY <1>2, <1>3, GivenEdits
<1> QED BY <1>4, <1>5, EditRecomputed

(* A friend code is used: the bonus is given, and its registration saved.  *)
LEMMA BringFriendSound ==
  ASSUME NEW s, Sound(s), NEW r \in DOMAIN s.regs, NEW v \in Nat,
         NEW t, t = Handle(Recompute(Save, [s EXCEPT !.given["token"] = @ + v, !.regs[r].bonus = v], "token"), r)
  PROVE  Sound(t)
<1> DEFINE x == [s EXCEPT !.given["token"] = @ + v, !.regs[r].bonus = v]
           y == Recompute(Save, x, "token")
           reg == [s.regs[r] EXCEPT !.bonus = v]
<1>1. s \in DB /\ Sane(s) /\ "token" \in Kinds /\ v \in Int
  BY SoundFields DEF Kinds
<1>2. s.regs[r] \in Registration
  BY <1>1, SaneFields
<1>3. /\ reg \in Registration /\ reg.run = s.regs[r].run /\ reg.paid = s.regs[r].paid /\ reg.due = s.regs[r].due
      /\ s.regs[r].cancelled => reg.cancelled
  BY <1>2 DEF Registration
<1>4. x = Gift(s, "token", v, [s.regs EXCEPT ![r] = reg], s.refunds)
  BY <1>1 DEF DB, Gift
<1>5. t = Handle(y, r) /\ y = Recompute(Save, x, "token")
  OBVIOUS
<1> HIDE DEF x, y, reg
<1>6. Edited(s, x) /\ \A j \in Kinds : j # "token" => x.given[j] = s.given[j]
  BY <1>1, <1>3, <1>4, GiftEdits
<1>7. Carries(x, y) /\ Sound(y)
  BY <1>1, <1>5, <1>6, EditRecomputed
<1>8. r \in DOMAIN y.regs
  BY <1>6, <1>7 DEF Edited, Carries, Framed
<1> QED BY <1>5, <1>7, <1>8, SoundHandled

(* A cancelled registration is not one that the accounting answers for.    *)
LEMMA CancelledSound ==
  ASSUME NEW s, Sound(s), NEW r \in DOMAIN s.regs, NEW c, c = Handle([s EXCEPT !.regs[r].cancelled = TRUE], r)
  PROVE  Sound(c) /\ DOMAIN c.regs = DOMAIN s.regs
<1> DEFINE x == [s EXCEPT !.regs[r].cancelled = TRUE]
           reg == [s.regs[r] EXCEPT !.cancelled = TRUE]
<1>1. s \in DB /\ s.regs[r] \in Registration
  BY SoundFields, SaneFields
<1>2. /\ reg \in Registration /\ reg.run = s.regs[r].run /\ reg.paid = s.regs[r].paid /\ reg.due = s.regs[r].due
      /\ s.regs[r].cancelled => reg.cancelled
  BY <1>1 DEF Registration
<1>3. x = [s EXCEPT !.regs = [s.regs EXCEPT ![r] = reg]]
  BY <1>1 DEF DB
<1>4. c = Handle(x, r)
  OBVIOUS
<1> HIDE DEF x, reg
<1>5. Sound(x) /\ DOMAIN x.regs = DOMAIN s.regs
  BY <1>2, <1>3, RegEdits
<1>6. Sound(c) /\ Carries(x, c)
  BY <1>4, <1>5, SoundHandled
<1> QED BY <1>5, <1>6 DEF Carries, Framed

(* The bonus that was given for it is withdrawn.                           *)
LEMMA WithdrawnSound ==
  ASSUME NEW c, Sound(c), NEW r \in DOMAIN c.regs, NEW bonus \in Nat,
         NEW t, t = Recompute(Save, [c EXCEPT !.given["token"] = @ - bonus, !.regs[r].bonus = 0], "token")
  PROVE  Sound(t)
<1> DEFINE x == [c EXCEPT !.given["token"] = @ - bonus, !.regs[r].bonus = 0]
           v == 0 - bonus
           reg == [c.regs[r] EXCEPT !.bonus = 0]
<1>1. c \in DB /\ Sane(c) /\ "token" \in Kinds
  BY SoundFields DEF Kinds
<1>2. c.regs[r] \in Registration
  BY <1>1, SaneFields
<1>3. /\ reg \in Registration /\ reg.run = c.regs[r].run /\ reg.paid = c.regs[r].paid /\ reg.due = c.regs[r].due
      /\ c.regs[r].cancelled => reg.cancelled
  BY <1>2 DEF Registration
<1>4. c.given \in [Kinds -> Int] /\ v \in Int
  BY <1>1 DEF DB
<1>5. [c.given EXCEPT !["token"] = @ - bonus] = [c.given EXCEPT !["token"] = @ + v]
  <2>1. c.given["token"] \in Int
    BY <1>1, <1>4
  <2>2. c.given["token"] - bonus = c.given["token"] + v
    BY <2>1
  <2> QED BY <2>2
<1>6. x = Gift(c, "token", v, [c.regs EXCEPT ![r] = reg], c.refunds)
  <2> HIDE DEF v
  <2> QED BY <1>1, <1>5 DEF DB, Gift
<1>7. t = Recompute(Save, x, "token")
  OBVIOUS
<1> HIDE DEF reg, v, x
<1>8. Edited(c, x) /\ \A j \in Kinds : j # "token" => x.given[j] = c.given[j]
  BY <1>1, <1>3, <1>4, <1>6, GiftEdits
<1> QED BY <1>1, <1>7, <1>8, EditRecomputed

Cancelled(s, r) == Handle([s EXCEPT !.regs[r].cancelled = TRUE], r)
Withdrawn(c, r, bonus) ==
  IF bonus = 0 THEN c ELSE Recompute(Save, [c EXCEPT !.given["token"] = @ - bonus, !.regs[r].bonus = 0], "token")

(* A registration is cancelled and its bonus withdrawn.                    *)
LEMMA CancelSound ==
  ASSUME NEW s, Sound(s), NEW r \in DOMAIN s.regs
  PROVE  Sound(Withdrawn(Cancelled(s, r), r, s.regs[r].bonus))
<1>1. PICK c : c = Cancelled(s, r)
  OBVIOUS
<1>2. Sound(c) /\ r \in DOMAIN c.regs
  BY <1>1, CancelledSound DEF Cancelled
<1>3. PICK bonus : bonus = s.regs[r].bonus /\ bonus \in Nat
  BY SoundFields, SaneFields DEF Registration
<1>4. Sound(Withdrawn(c, r, bonus))
  <2>1. Sound(Recompute(Save, [c EXCEPT !.given["token"] = @ - bonus, !.regs[r].bonus = 0], "token"))
    BY <1>2, <1>3, WithdrawnSound
  <2> QED BY <1>2, <2>1 DEF Withdrawn
<1> QED BY <1>1, <1>3, <1>4

(* A refunded registration is marked and saved.                            *)
LEMMA RefundedSound ==
  ASSUME NEW s, Sound(s), NEW r \in DOMAIN s.regs, NEW t, t = Handle([s EXCEPT !.regs[r].refunded = TRUE], r)
  PROVE  Sound(t)
<1> DEFINE x == [s EXCEPT !.regs[r].refunded = TRUE]
           reg == [s.regs[r] EXCEPT !.refunded = TRUE]
<1>1. s \in DB /\ s.regs[r] \in Registration
  BY SoundFields, SaneFields
<1>2. /\ reg \in Registration /\ reg.run = s.regs[r].run /\ reg.paid = s.regs[r].paid /\ reg.due = s.regs[r].due
      /\ s.regs[r].cancelled => reg.cancelled
  BY <1>1 DEF Registration
<1>3. x = [s EXCEPT !.regs = [s.regs EXCEPT ![r] = reg]]
  BY <1>1 DEF DB
<1>4. t = Handle(x, r)
  OBVIOUS
<1> HIDE DEF x, reg
<1>5. Sound(x) /\ DOMAIN x.regs = DOMAIN s.regs
  BY <1>2, <1>3, RegEdits
<1> QED BY <1>4, <1>5, SoundHandled

(* A cancelled registration is refunded, or its refund is one that was     *)
(* already made.                                                           *)
LEMMA RefundSound ==
  ASSUME NEW s, Sound(s), NEW r \in DOMAIN s.regs, NEW k \in Kinds, NEW v \in Nat,
         NEW key, key = <<k, s.regs[r].run, v>>,
         NEW g, g = IF key \in s.refunds THEN s
                    ELSE Recompute(Save, [s EXCEPT !.given[k] = @ + v, !.refunds = @ \cup {key}], k),
         NEW t, t = Handle([g EXCEPT !.regs[r].refunded = TRUE], r)
  PROVE  Sound(t)
<1> DEFINE x == [s EXCEPT !.given[k] = @ + v, !.refunds = @ \cup {key}]
           refunds == s.refunds \cup {key}
<1>1. s \in DB /\ Sane(s) /\ s.regs[r] \in Registration
  BY SoundFields, SaneFields
<1>2. refunds \in SUBSET (Kinds \X AllRuns \X Nat)
  <2>1. s.regs[r].run \in AllRuns /\ s.refunds \in SUBSET (Kinds \X AllRuns \X Nat)
    BY <1>1 DEF DB, Registration
  <2>2. key \in Kinds \X AllRuns \X Nat
    BY <2>1
  <2> HIDE DEF refunds
  <2> QED BY <2>1, <2>2 DEF refunds
<1>3. x = Gift(s, k, v, s.regs, refunds)
  BY <1>1 DEF DB, Gift
<1>4. g = IF key \in s.refunds THEN s ELSE Recompute(Save, x, k)
  OBVIOUS
<1> HIDE DEF refunds, x
<1>5. v \in Int /\ RegsEdited(s, s.regs)
  BY <1>1 DEF DB, RegsEdited
<1>6. Edited(s, x) /\ \A j \in Kinds : j # k => x.given[j] = s.given[j]
  BY <1>2, <1>3, <1>5, GivenEdits
<1>7. Sound(g) /\ r \in DOMAIN g.regs
  <2>1. CASE key \in s.refunds
    BY <1>4, <2>1, ZenonT(40)
  <2>2. CASE key \notin s.refunds
    <3>1. g = Recompute(Save, x, k)
      BY <1>4, <2>2
    <3>2. Carries(x, g) /\ Sound(g)
      BY <1>6, <3>1, EditRecomputed
    <3> QED BY <1>6, <3>2, Zenon DEF Edited, Carries, Framed
  <2> QED BY <2>1, <2>2
<1> QED BY <1>7, RefundedSound

(* The list of some registrations is one of registrations that there are.  *)
LEMMA NewestLists ==
  ASSUME NEW s, Sane(s), NEW ids, ids \subseteq DOMAIN s.regs, NEW list, list = Newest(ids)
  PROVE  /\ list \in Seq(DOMAIN s.regs) /\ Len(list) \in Nat
         /\ \A q \in ids : \E m \in 1..Len(list) : list[m] = q
         /\ \A m \in 1..Len(list) : list[m] \in ids
<1>1. ids \subseteq 1..Len(s.regs) /\ Len(s.regs) \in Nat
  BY SaneFields
<1>2. list \in Seq(ids) /\ \A q \in ids : \E m \in 1..Len(list) : list[m] = q
  BY <1>1, NewestEnumerates
<1>3. list \in [1..Len(list) -> ids] /\ Len(list) \in Nat
  BY <1>2, LenProperties
<1>4. list \in [1..Len(list) -> DOMAIN s.regs]
  BY <1>3
<1>5. list \in Seq(DOMAIN s.regs)
  BY <1>3, <1>4, SeqDef
<1> QED BY <1>2, <1>3, <1>5

(* The member is accepted, and every registration saved: only from now on  *)
(* anything is asked of them.                                              *)
LEMMA AcceptSound ==
  ASSUME NEW s, Sound(s), NEW t, t = SaveAll(Save, [s EXCEPT !.accepted = TRUE], Newest(DOMAIN s.regs))
  PROVE  Sound(t)
<1> DEFINE x == [s EXCEPT !.accepted = TRUE]
           list == Newest(DOMAIN s.regs)
<1>1. s \in DB /\ WF(s) /\ Sane(s)
  BY SoundFields
<1>2. /\ x.price = s.price /\ x.queued = s.queued /\ x.closed = s.closed /\ x.given = s.given
      /\ x.regs = s.regs /\ x.pays = s.pays /\ x.bal = s.bal /\ x.failed = s.failed /\ x.collided = s.collided
      /\ x \in DB
  BY <1>1 DEF DB
<1>3. t = SaveAll(Save, x, list)
  OBVIOUS
<1> HIDE DEF x
<1>4. Sane(x) /\ (Off(x) <=> Off(s)) /\ OneActive(x)
  BY <1>1, <1>2 DEF Sane, WF, Off, OneActive, Sound
<1>5. DOMAIN x.regs \subseteq DOMAIN x.regs /\ list = Newest(DOMAIN x.regs)
  BY <1>2
<1> HIDE DEF list
<1>6. list \in Seq(DOMAIN x.regs) /\ \A q \in DOMAIN x.regs : \E m \in 1..Len(list) : list[m] = q
  BY <1>4, <1>5, NewestLists
<1>7. AllBalanced(x)
  BY <1>2, <1>4, BalancedSame DEF AllBalanced, Sound
<1>8. ~Off(x) => \A q \in DOMAIN x.regs : Current(x, q) => Noted(x, q)
  <2> SUFFICES ASSUME ~Off(s), NEW q \in DOMAIN s.regs, Current(x, q) PROVE Noted(x, q)
    BY <1>2, <1>4
  <2>1. Alike(s, x, q)
    BY <1>2 DEF Alike, Due
  <2>2. Current(s, q)
    BY <1>2 DEF Current, Active, Closed
  <2> QED BY <2>1, <2>2, AlikeSame DEF Sound, AllNoted
<1>9. ~Off(x) => \A m \in 1..Len(list) : x.regs[list[m]].cancelled \/ NotedBut(x, list[m])
  BY <1>8 DEF NotedBut
<1> QED BY <1>3, <1>4, <1>6, <1>7, <1>9, AllSound

(* The queued recalculation saves all registrations of its run, which then *)
(* are current.                                                            *)
LEMMA CheckRegistrationsSound ==
  ASSUME NEW s, Sound(s), NEW run,
         NEW t, t = SaveAll(Save, [s EXCEPT !.queued = @ \ {run}], Newest({q \in DOMAIN s.regs : s.regs[q].run = run}))
  PROVE  Sound(t)
<1> DEFINE x == [s EXCEPT !.queued = @ \ {run}]
           mine == {q \in DOMAIN s.regs : s.regs[q].run = run}
           list == Newest(mine)
<1>1. s \in DB /\ WF(s) /\ Sane(s)
  BY SoundFields
<1>2. /\ x.price = s.price /\ x.queued = s.queued \ {run} /\ x.closed = s.closed /\ x.given = s.given
      /\ x.regs = s.regs /\ x.pays = s.pays /\ x.bal = s.bal /\ x.failed = s.failed /\ x.collided = s.collided
      /\ x.accepted = s.accepted /\ x \in DB
  BY <1>1 DEF DB
<1>3. t = SaveAll(Save, x, list) /\ list = Newest(mine)
  OBVIOUS
<1> HIDE DEF x
<1>4. Sane(x) /\ (Off(x) <=> Off(s)) /\ OneActive(x)
  BY <1>1, <1>2 DEF Sane, WF, Off, OneActive, Sound
<1>5. mine \subseteq DOMAIN x.regs /\ \A q \in DOMAIN x.regs : q \in mine <=> x.regs[q].run = run
  BY <1>2
<1> HIDE DEF list, mine
<1>6. /\ list \in Seq(DOMAIN x.regs)
      /\ \A q \in mine : \E m \in 1..Len(list) : list[m] = q
      /\ \A m \in 1..Len(list) : list[m] \in mine
  BY <1>3, <1>4, <1>5, NewestLists
<1>7. AllBalanced(x)
  BY <1>2, <1>4, BalancedSame DEF AllBalanced, Sound
<1>8. ASSUME NEW q \in DOMAIN x.regs, Current(x, q), q \notin mine
      PROVE  Current(s, q) /\ Alike(s, x, q) /\ x.accepted = s.accepted /\ x.bal = s.bal
  <2>1. Alike(s, x, q)
    BY <1>2 DEF Alike, Due
  <2>2. Current(s, q)
    BY <1>2, <1>5, <1>8 DEF Current, Active, Closed
  <2> QED BY <1>2, <2>1, <2>2
<1>9. ~x.failed => \A q \in DOMAIN x.regs : Current(x, q) => Returned(x, q) \/ \E m \in 1..Len(list) : list[m] = q
  <2> SUFFICES ASSUME ~s.failed, NEW q \in DOMAIN x.regs, Current(x, q), q \notin mine PROVE Returned(x, q)
    BY <1>2, <1>6
  <2>1. Returned(s, q)
    BY <1>2, <1>8 DEF Sound, AllReturned
  <2> QED BY <1>8, <2>1, AlikeSame
<1>10. ~Off(x) => \A q \in DOMAIN x.regs : Current(x, q) /\ q \notin mine => Noted(x, q)
  <2> SUFFICES ASSUME ~Off(s), NEW q \in DOMAIN x.regs, Current(x, q), q \notin mine PROVE Noted(x, q)
    BY <1>4
  <2>1. Noted(s, q)
    BY <1>2, <1>8 DEF Sound, AllNoted
  <2> QED BY <1>8, <2>1, AlikeSame
<1>11. ~Off(x) => \A q \in DOMAIN x.regs : Current(x, q) /\ q \notin mine => Served(x, q)
  <2> SUFFICES ASSUME ~Off(s), NEW q \in DOMAIN x.regs, Current(x, q), q \notin mine PROVE Served(x, q)
    BY <1>4
  <2>1. Served(s, q)
    BY <1>2, <1>8 DEF Sound, AllServed
  <2> QED BY <1>8, <2>1, AlikeSame
<1>12. ~Off(x) => \A m \in 1..Len(list) : x.regs[list[m]].cancelled \/ NotedBut(x, list[m])
  <2> SUFFICES ASSUME ~Off(x), NEW m \in 1..Len(list), ~x.regs[list[m]].cancelled,
                      NEW q \in DOMAIN x.regs, q # list[m], Current(x, q)
               PROVE  Noted(x, q)
    BY DEF NotedBut
  <2>1. list[m] \in mine /\ list[m] \in DOMAIN x.regs /\ ~x.regs[q].cancelled
    BY <1>5, <1>6 DEF Current, Active
  <2>2. q \notin mine
    BY <1>4, <1>5, <2>1 DEF OneActive
  <2> QED BY <1>10, <2>2
<1>13. ~Off(x) => \A q \in DOMAIN x.regs : Current(x, q) => Noted(x, q) \/ \E m \in 1..Len(list) : list[m] = q
  BY <1>6, <1>10
<1>14. ~Off(x) => \A q \in DOMAIN x.regs : Current(x, q) => Served(x, q) \/ \E m \in 1..Len(list) : list[m] = q
  BY <1>6, <1>11
<1> QED BY <1>3, <1>4, <1>6, <1>7, <1>9, <1>12, <1>13, <1>14, AllSound

(* Money comes in.                                                         *)
LEMMA PayMoneySound ==
  ASSUME NEW s, Sound(s), NEW r \in DOMAIN s.regs, NEW v \in Nat,
         NEW t, t = Handle([s EXCEPT !.pays = Append(@, [reg |-> r, kind |-> "money", value |-> v])], r)
  PROVE  Sound(t)
<1> DEFINE entry == [reg |-> r, kind |-> "money", value |-> v]
           x == [s EXCEPT !.pays = Append(@, entry)]
<1>1. s \in DB /\ WF(s) /\ Sane(s)
  BY SoundFields
<1>2. entry \in Payment /\ entry.reg = r /\ \A k \in Kinds : entry.kind # k
  BY <1>1, SaneFields DEF Payment, Kinds
<1> HIDE DEF entry
<1>3. x = Recorded(s, s.bal, entry) /\ s.bal \in [Kinds -> Int]
  BY <1>1 DEF DB, Recorded
<1>4. t = Handle(x, r)
  BY DEF entry
<1> HIDE DEF x
<1>5. /\ Carries(s, x) /\ x.bal = s.bal /\ x.pays = Append(s.pays, entry)
      /\ x.regs = s.regs /\ x.failed = s.failed /\ x.collided = s.collided
  BY <1>1, <1>2, <1>3, RowCreated
<1>6. Sane(x) /\ OneActive(x) /\ (Off(x) <=> Off(s)) /\ r \in DOMAIN x.regs /\ x.given = s.given
  BY <1>5, OneActiveCarried DEF Carries, Framed, Off, Sound
<1>7. (\A k \in Kinds : Used(x, k) = Used(s, k) + IF entry.kind = k THEN entry.value ELSE 0) /\ \A q : q # r => Untouched(s, x, q)
  BY <1>1, <1>2, <1>5, <1>6, AppendedRow
<1>8. \A k \in Kinds : Used(x, k) = Used(s, k)
  BY <1>1, <1>2, <1>7, SaneTotals
<1>9. AllBalanced(x)
  BY <1>5, <1>6, <1>8 DEF AllBalanced, Balanced, Sound
<1>10. \A q \in DOMAIN s.regs : Current(x, q) <=> Current(s, q)
  BY <1>1, <1>5, CarriesSame
<1>11. \A k \in Kinds : x.bal[k] <= s.bal[k]
  BY <1>3, <1>5
<1>12. \A q \in DOMAIN s.regs : q # r => (Returned(s, q) => Returned(x, q)) /\ (Noted(s, q) => Noted(x, q)) /\ (Served(s, q) => Served(x, q))
  BY <1>1, <1>5, <1>7, <1>11, UntouchedKeeps
<1>13. ~x.failed => \A q \in DOMAIN x.regs : q # r /\ Current(x, q) => Returned(x, q)
  BY <1>5, <1>10, <1>12 DEF Sound, AllReturned
<1>14. ~Off(x) => \A q \in DOMAIN x.regs : q # r /\ Current(x, q) => Noted(x, q) /\ Served(x, q)
  BY <1>5, <1>6, <1>10, <1>12 DEF Sound, AllNoted, AllServed
<1> QED BY <1>4, <1>6, <1>9, <1>13, <1>14, HandleSound

(* A row is emptied.                                                       *)
LEMMA RowEmptied ==
  ASSUME NEW s, Sane(s), NEW i \in DOMAIN s.pays, NEW r, r = s.pays[i].reg, NEW t, t = [s EXCEPT !.pays[i].value = 0]
  PROVE  /\ Carries(s, t) /\ t.regs = s.regs /\ t.bal = s.bal /\ t.collided = s.collided /\ t.failed = s.failed
         /\ \A q : q # r => Untouched(s, t, q)
         /\ \A j \in Kinds : j # s.pays[i].kind => Used(t, j) = Used(s, j)
<1> DEFINE entry == [s.pays[i] EXCEPT !.value = 0]
           pays == [s.pays EXCEPT ![i] = entry]
<1>1. s.pays[i] \in Payment
  BY SaneFields
<1>2. t = [s EXCEPT !.pays = pays]
  BY DEF Sane, DB
<1>3. entry \in Payment /\ entry.reg = s.pays[i].reg /\ entry.kind = s.pays[i].kind /\ entry.value = 0
  BY <1>1 DEF Payment
<1> HIDE DEF entry
<1>4. pays \in Seq(Payment) /\ DOMAIN pays = DOMAIN s.pays /\ pays[i] = entry /\ \A j \in DOMAIN s.pays : j # i => pays[j] = s.pays[j]
  BY <1>3, SaneFields, ExceptSeq
<1> HIDE DEF pays
<1>5. /\ t.pays = pays /\ t.regs = s.regs /\ t.bal = s.bal /\ t.collided = s.collided /\ t.failed = s.failed
      /\ t.bounds = s.bounds /\ t.price = s.price /\ t.queued = s.queued /\ t.closed = s.closed
      /\ t.accepted = s.accepted /\ t.given = s.given /\ t.refunds = s.refunds /\ t \in DB
  BY <1>2, <1>4 DEF Sane, DB
<1>6. \A j \in DOMAIN s.pays : t.pays[j].reg = s.pays[j].reg /\ t.pays[j].kind = s.pays[j].kind
  BY <1>3, <1>4, <1>5
<1>7. Sane(t)
  BY <1>4, <1>5, <1>6 DEF Sane, WF
<1>8. Framed(s, t)
  BY <1>5 DEF Framed
<1>9. Grown(s, t)
  BY <1>4, <1>5, <1>6 DEF Grown
<1>10. \A q : q # r => Untouched(s, t, q)
  BY <1>4, <1>5, <1>6 DEF Untouched, RowsOf
<1>11. ASSUME NEW j \in Kinds, j # s.pays[i].kind PROVE Used(t, j) = Used(s, j)
  <2>1. RowsIn(t, j) = RowsIn(s, j)
    BY <1>4, <1>5, <1>6 DEF RowsIn
  <2>2. \A l \in RowsIn(s, j) : t.pays[l].value = s.pays[l].value
    BY <1>4, <1>5, <1>11 DEF RowsIn
  <2> QED BY <1>7, <2>1, <2>2, UsedSame
<1> QED BY <1>5, <1>7, <1>8, <1>9, <1>10, <1>11 DEF Carries

(* A payment is deleted; what it used of a balance is free again, and      *)
(* spent on whoever lacks it.                                              *)
LEMMA DropPaymentSound ==
  ASSUME NEW s, Sound(s), NEW i \in DOMAIN s.pays, NEW p, p = s.pays[i],
         NEW k, k = IF p.kind = "token" THEN "token" ELSE "credit",
         NEW t, t = Recompute(Save, Handle([s EXCEPT !.pays[i].value = 0], p.reg), k)
  PROVE  Sound(t)
<1> DEFINE x == [s EXCEPT !.pays[i].value = 0]
           y == Handle(x, p.reg)
<1>1. Sane(s) /\ p \in Payment /\ p.reg \in DOMAIN s.regs
  BY SoundFields, SaneFields
<1>2. k \in Kinds /\ \A j \in Kinds : j # k => j # p.kind
  BY <1>1 DEF Kinds, Payment
<1>3. t = Recompute(Save, y, k) /\ y = Handle(x, p.reg) /\ x = [s EXCEPT !.pays[i].value = 0]
  OBVIOUS
<1> HIDE DEF x, y
<1>4. PICK r : r = p.reg
  OBVIOUS
<1>5. /\ Carries(s, x) /\ x.regs = s.regs /\ x.bal = s.bal /\ x.collided = s.collided /\ x.failed = s.failed
      /\ \A q : q # r => Untouched(s, x, q)
      /\ \A j \in Kinds : j # p.kind => Used(x, j) = Used(s, j)
  BY <1>1, <1>3, <1>4, RowEmptied
<1>6. Sane(x) /\ (Off(x) <=> Off(s)) /\ x.given = s.given /\ r \in DOMAIN x.regs
  BY <1>1, <1>4, <1>5 DEF Carries, Framed, Off
<1>7. Meets(x, r, y)
  BY <1>3, <1>4, <1>6, SaveMeets DEF Handle, Contract
<1>8. Carries(x, y) /\ Carries(s, y)
  BY <1>1, <1>5, <1>7, CarriesOn DEF Meets
<1>9. Sane(y) /\ OneActive(y) /\ (Off(s) => Off(y)) /\ (s.failed => y.failed)
  BY <1>8, OneActiveCarried, OffOn DEF Carries, Sound
<1>10. DOMAIN y.regs = DOMAIN s.regs /\ \A q \in DOMAIN s.regs : Current(y, q) <=> Current(s, q)
  BY <1>1, <1>8, CarriesSame
<1>11. \A q \in DOMAIN s.regs : q # r => (Returned(s, q) => Returned(x, q)) /\ (Noted(s, q) => Noted(x, q))
  BY <1>1, <1>5, UntouchedKeeps
<1>12. AllReturned(y)
  BY <1>5, <1>7, <1>9, <1>10, <1>11 DEF AllReturned, Meets, KeepsReturned, Sound
<1>13. AllNoted(y)
  BY <1>5, <1>7, <1>9, <1>10, <1>11 DEF AllNoted, Meets, KeepsNoted, Sound
<1>14. ~Off(y) => \A j \in Kinds : j # k => Balanced(y, j)
  <2> SUFFICES ASSUME ~Off(y), NEW j \in Kinds, j # k PROVE Balanced(y, j)
    OBVIOUS
  <2>1. Balanced(s, j)
    BY <1>9 DEF Sound, AllBalanced
  <2>2. Balanced(x, j)
    BY <1>2, <1>5, <1>6, <2>1 DEF Balanced
  <2> QED BY <1>7, <2>2 DEF Meets, KeepsBalanced
<1> QED BY <1>2, <1>3, <1>9, <1>12, <1>13, <1>14, RecomputeSound

-----------------------------------------------------------------------------
(* The inductive invariant of the requests.                                *)
AccountsInvariant == Sound(db) /\ \A i \in DOMAIN db.pays : db.pays[i].value > 0

(* With no registration there is nothing to be wrong.                      *)
LEMMA AccountsStart == AccountsInit => AccountsInvariant
<1> SUFFICES ASSUME AccountsInit PROVE AccountsInvariant
  OBVIOUS
<1>1. PICK b \in Bounds : \E p \in [AllRuns -> b.prices] :
       db = [bounds |-> b, regs |-> <<>>, pays |-> <<>>, price |-> p, queued |-> {}, closed |-> {},
             accepted |-> "accept" \notin b.enabled, given |-> NoBalance, bal |-> NoBalance, refunds |-> {},
             collided |-> FALSE, failed |-> FALSE]
  BY DEF AccountsInit
<1>2. PICK p \in [AllRuns -> b.prices] :
       db = [bounds |-> b, regs |-> <<>>, pays |-> <<>>, price |-> p, queued |-> {}, closed |-> {},
             accepted |-> "accept" \notin b.enabled, given |-> NoBalance, bal |-> NoBalance, refunds |-> {},
             collided |-> FALSE, failed |-> FALSE]
  BY <1>1
<1>3. b.prices \subseteq Nat
  BY BoundsAssumption
<1>4. p \in [AllRuns -> Nat] /\ NoBalance \in [Kinds -> Int] /\ \A k \in Kinds : NoBalance[k] = 0
  BY <1>2, <1>3 DEF NoBalance
<1>5. db \in DB
  BY <1>2, <1>4 DEF DB
<1>6. db.regs = <<>> /\ db.pays = <<>> /\ db.bal = NoBalance /\ db.given = NoBalance
  BY <1>2
<1>7. DOMAIN db.regs = {} /\ DOMAIN db.pays = {}
  BY <1>6
<1>8. Sane(db)
  BY <1>5, <1>7 DEF Sane, WF
<1>9. \A k \in Kinds : Balanced(db, k)
  <2> SUFFICES ASSUME NEW k \in Kinds PROVE Balanced(db, k)
    OBVIOUS
  <2> DEFINE f == [i \in DOMAIN db.pays |-> db.pays[i].value]
             ids == {i \in DOMAIN db.pays : db.pays[i].kind = k}
  <2>1. Used(db, k) = SumFunctionOnSet(f, ids) /\ ids = {}
    BY <1>7 DEF Used, Total
  <2> HIDE DEF f, ids
  <2>2. Used(db, k) = 0
    BY <2>1, SumOfNone
  <2> QED BY <1>4, <1>6, <2>2 DEF Balanced
<1> QED BY <1>7, <1>8, <1>9 DEF AccountsInvariant, Sound, OneActive, AllReturned, AllBalanced, AllNoted, AllServed

(* What a request leaves is tidied.                                        *)
LEMMA RequestKeeps ==
  ASSUME NEW t, Sound(t), Request(t)
  PROVE  AccountsInvariant'
<1>1. db' = Tidy(t)
  BY DEF Request
<1>2. Sound(Tidy(t)) /\ \A i \in DOMAIN Tidy(t).pays : Tidy(t).pays[i].value > 0
  BY TidySound
<1> QED BY <1>1, <1>2 DEF AccountsInvariant

(* Every request keeps the invariant.                                      *)
LEMMA AccountsStep ==
  ASSUME AccountsInvariant, [AccountsNext]_db
  PROVE  AccountsInvariant'
<1>1. Sound(db) /\ db.bounds.amounts \subseteq Nat
  BY SoundFields DEF AccountsInvariant
<1>2. ASSUME NEW run \in AllRuns, SignUp(run) PROVE AccountsInvariant'
  <2> DEFINE reg == [run |-> run, cancelled |-> FALSE, refunded |-> FALSE, bonus |-> 0, paid |-> 0, due |-> 0]
             t == Handle([db EXCEPT !.regs = Append(@, reg)], Len(db.regs) + 1)
  <2>1. Request(t) /\ \A q \in DOMAIN db.regs : db.regs[q].run = run => db.regs[q].cancelled
    BY <1>2 DEF SignUp, Free
  <2>2. Sound(t)
    BY <1>1, <2>1, SignUpSound
  <2> QED BY <2>1, <2>2, RequestKeeps
<1>3. ASSUME NEW run \in AllRuns, CheckRegistrations(run) PROVE AccountsInvariant'
  <2> DEFINE t == SaveAll(Save, [db EXCEPT !.queued = @ \ {run}], Newest({q \in DOMAIN db.regs : db.regs[q].run = run}))
  <2>1. Request(t)
    BY <1>3 DEF CheckRegistrations
  <2>2. Sound(t)
    BY <1>1, CheckRegistrationsSound
  <2> QED BY <2>1, <2>2, RequestKeeps
<1>4. ASSUME NEW run \in AllRuns, CloseRun(run) PROVE AccountsInvariant'
  <2> DEFINE t == [db EXCEPT !.closed = @ \cup {run}]
  <2>1. Request(t)
    BY <1>4 DEF CloseRun
  <2>2. Sound(t)
    BY <1>1, CloseRunSound
  <2> QED BY <2>1, <2>2, RequestKeeps
<1>5. ASSUME NEW run \in AllRuns, NEW p \in db.bounds.prices, Reprice(run, p) PROVE AccountsInvariant'
  <2> DEFINE t == [db EXCEPT !.price[run] = p, !.queued = @ \cup {run}]
  <2>1. Request(t)
    BY <1>5 DEF Reprice
  <2>2. Sound(t)
    BY <1>1, RepriceSound
  <2> QED BY <2>1, <2>2, RequestKeeps
<1>6. ASSUME NEW r \in DOMAIN db.regs, Cancel(r) PROVE AccountsInvariant'
  <2>1. Request(Withdrawn(Cancelled(db, r), r, db.regs[r].bonus))
    BY <1>6 DEF Cancel, Cancelled, Withdrawn
  <2>2. Sound(Withdrawn(Cancelled(db, r), r, db.regs[r].bonus))
    BY <1>1, CancelSound
  <2> QED BY <2>1, <2>2, RequestKeeps
<1>7. ASSUME NEW r \in DOMAIN db.regs, NEW v \in db.bounds.amounts, PayMoney(r, v) PROVE AccountsInvariant'
  <2> DEFINE t == Handle([db EXCEPT !.pays = Append(@, [reg |-> r, kind |-> "money", value |-> v])], r)
  <2>1. Request(t) /\ v \in Nat
    BY <1>1, <1>7 DEF PayMoney
  <2>2. Sound(t)
    BY <1>1, <2>1, PayMoneySound
  <2> QED BY <2>1, <2>2, RequestKeeps
<1>8. ASSUME NEW r \in DOMAIN db.regs, NEW v \in db.bounds.amounts, BringFriend(r, v) PROVE AccountsInvariant'
  <2> DEFINE t == Handle(Recompute(Save, [db EXCEPT !.given["token"] = @ + v, !.regs[r].bonus = v], "token"), r)
  <2>1. Request(t) /\ v \in Nat
    BY <1>1, <1>8 DEF BringFriend
  <2>2. Sound(t)
    BY <1>1, <2>1, BringFriendSound
  <2> QED BY <2>1, <2>2, RequestKeeps
<1>9. ASSUME NEW r \in DOMAIN db.regs, NEW k \in Kinds, NEW v \in db.bounds.amounts, Refund(r, k, v)
      PROVE  AccountsInvariant'
  <2> DEFINE key == <<k, db.regs[r].run, v>>
             g == IF key \in db.refunds THEN db
                  ELSE Recompute(Save, [db EXCEPT !.given[k] = @ + v, !.refunds = @ \cup {key}], k)
             t == Handle([g EXCEPT !.regs[r].refunded = TRUE], r)
  <2>1. Request(t) /\ v \in Nat
    BY <1>1, <1>9 DEF Refund
  <2>2. Sound(t)
    BY <1>1, <2>1, RefundSound
  <2> QED BY <2>1, <2>2, RequestKeeps
<1>10. ASSUME NEW i \in DOMAIN db.pays, DropPayment(i) PROVE AccountsInvariant'
  <2> DEFINE p == db.pays[i]
             k == IF p.kind = "token" THEN "token" ELSE "credit"
             t == Recompute(Save, Handle([db EXCEPT !.pays[i].value = 0], p.reg), k)
  <2>1. Request(t)
    BY <1>10 DEF DropPayment
  <2>2. Sound(t)
    BY <1>1, DropPaymentSound
  <2> QED BY <2>1, <2>2, RequestKeeps
<1>11. ASSUME NEW k \in Kinds, NEW v \in db.bounds.amounts, Give(k, v) PROVE AccountsInvariant'
  <2> DEFINE t == Recompute(Save, [db EXCEPT !.given[k] = @ + v], k)
  <2>1. Request(t) /\ v \in Nat
    BY <1>1, <1>11 DEF Give
  <2>2. Sound(t)
    BY <1>1, <2>1, GiveSound
  <2> QED BY <2>1, <2>2, RequestKeeps
<1>12. ASSUME Accept PROVE AccountsInvariant'
  <2> DEFINE t == SaveAll(Save, [db EXCEPT !.accepted = TRUE], Newest(DOMAIN db.regs))
  <2>1. Request(t)
    BY <1>12 DEF Accept
  <2>2. Sound(t)
    BY <1>1, AcceptSound
  <2> QED BY <2>1, <2>2, RequestKeeps
<1>13. CASE UNCHANGED db
  BY <1>13 DEF AccountsInvariant
<1> QED BY <1>2, <1>3, <1>4, <1>5, <1>6, <1>7, <1>8, <1>9, <1>10, <1>11, <1>12, <1>13 DEF AccountsNext

(* In every state between two requests all rows have a registration and a  *)
(* value, a run has one active registration of the member, what is         *)
(* overpaid is money, and, unless a request failed or a debit collided,    *)
(* the balances are what was given and not used, whoever is not settled is *)
(* stored as such, and whoever is not paid for leaves no balance. For      *)
(* every price, amount, number of registrations and payments, and however  *)
(* deep saves may nest.                                                    *)
THEOREM AccountsInvariantHolds == AccountsSpec => []AccountsInvariant
<1>1. AccountsInit => AccountsInvariant
  BY AccountsStart
<1>2. AccountsInvariant /\ [AccountsNext]_db => AccountsInvariant'
  BY AccountsStep
<1> QED BY <1>1, <1>2, PTL DEF AccountsSpec

(* What holds of a state in which all this holds.                          *)
LEMMA UpToDateSound ==
  ASSUME AccountsInvariant
  PROVE  LedgerBalanced /\ OverpaidReturned /\ NoIdleBalance
<1>1. Sound(db) /\ \A i \in DOMAIN db.pays : db.pays[i].value > 0
  BY DEF AccountsInvariant
<1>2. \A r \in UpToDate : r \in DOMAIN db.regs /\ Current(db, r) /\ Live(db, r)
  BY DEF UpToDate, Current, Live
<1>3. LedgerBalanced
  BY <1>1 DEF LedgerBalanced, Sound, AllBalanced, Balanced, Off
<1>4. OverpaidReturned
  BY <1>1, <1>2 DEF OverpaidReturned, Sound, AllReturned, Returned, RowsOf
<1>5. NoIdleBalance
  BY <1>1, <1>2 DEF NoIdleBalance, Sound, AllServed, Served, Off
<1> QED BY <1>3, <1>4, <1>5

(* Every record stays one of its table, and every payment belongs to a     *)
(* registration that there is: a recalculation is only ever asked of a     *)
(* state that Save is defined on, however deep the saves nest.             *)
THEOREM AccountsTyped == AccountsSpec => [](db \in DB /\ WF(db))
<1>1. AccountsInvariant => db \in DB /\ WF(db)
  BY DEF AccountsInvariant, Sound, Sane
<1> QED BY <1>1, AccountsInvariantHolds, PTL

(* What was given in tokens and credits is in the balance or in a payment  *)
(* record: the debits of _apply_tokens and _apply_credits agree with the   *)
(* recalculations of update_tokens and update_credits, as long as no debit *)
(* met an older payment of the same value.                                 *)
THEOREM AccountsBalanced == AccountsSpec => []LedgerBalanced
<1>1. AccountsInvariant => LedgerBalanced
  BY UpToDateSound
<1> QED BY <1>1, AccountsInvariantHolds, PTL

(* An overpayment is handed back but for what was paid in money            *)
(* (registration_tokens_credits_overpay), though its list of rows is read  *)
(* once and every cut fires saves that may pay again.                      *)
THEOREM AccountsReturned == AccountsSpec => []OverpaidReturned
<1>1. AccountsInvariant => OverpaidReturned
  BY UpToDateSound
<1> QED BY <1>1, AccountsInvariantHolds, PTL

(* No balance is left while a registration of an open run is unpaid        *)
(* (_save_all_regs), as long as no debit collided.                         *)
THEOREM AccountsServed == AccountsSpec => []NoIdleBalance
<1>1. AccountsInvariant => NoIdleBalance
  BY UpToDateSound
<1> QED BY <1>1, AccountsInvariantHolds, PTL

-----------------------------------------------------------------------------
(* No balance holds more than was given and not used.                      *)
Fair(s) == s.failed \/ \A k \in Kinds : s.bal[k] <= s.given[k] - Used(s, k)

(* More of a balance is used only if it was given.                         *)
Covers(s, t) == \A k \in Kinds : Used(t, k) <= Used(s, k) \/ Used(t, k) <= s.given[k]
Spends(s, t) == Fair(s) => Fair(t) /\ Covers(s, t)

(* A registration that has all rows of its run, and that neither is owed   *)
(* anything nor has tokens or credits to hand back.                        *)
Steady(s, q) ==
  /\ ~s.regs[q].cancelled /\ Gathered(s, q)
  /\ PaidFor(s, q) >= Due(s, q)
  /\ PaidFor(s, q) > Due(s, q) => Of(s, q, Kinds) = {}
StaysSteady(s, t, q) == Steady(s, q) => t.failed \/ (Steady(t, q) /\ Untouched(s, t, q))

KeepsGathered(s, t) == \A q \in DOMAIN s.regs : Gathered(s, q) => Gathered(t, q)

(* What a save that is not about r owes r, and what all saves owe.         *)
ModestBut(s, r, t) ==
  /\ Carries(s, t) /\ Spends(s, t) /\ KeepsGathered(s, t)
  /\ \A q \in DOMAIN s.regs : q # r => StaysSteady(s, t, q)
Modest(s, t) ==
  Carries(s, t) /\ Spends(s, t) /\ KeepsGathered(s, t) /\ \A q \in DOMAIN s.regs : StaysSteady(s, t, q)

(* What the credits pay when the tokens pay nothing, whatever collides.    *)
PaysCredits(s, r, t) ==
  ~s.failed /\ Live(s, r) /\ Gathered(s, r) /\ Rest(s, r) >= 0 /\ FromTokens(s, r) = 0 =>
    \/ t.failed
    \/ /\ t.bal["token"] = s.bal["token"]
       /\ t.bal["credit"] = s.bal["credit"] - FromCredits(s, r)
       /\ \A i \in DOMAIN s.pays : i \in DOMAIN t.pays /\ t.pays[i] = s.pays[i]
       /\ FromCredits(s, r) > 0 => \E i \in DOMAIN t.pays : t.pays[i] = RowFor(r, "credit", FromCredits(s, r))

(* What an overpayment leaves of a row: those before it are taken first.   *)
Ahead(s, r, i) == Total(s.pays, {j \in Of(s, r, Kinds) : FirstTaken(s, j, i)})
Over(s, r, i) == PaidFor(s, r) - Due(s, r) - Ahead(s, r, i)
Left(s, r, i) ==
  LET v == s.pays[i].value
  IN  IF i \notin Of(s, r, Kinds) \/ Over(s, r, i) <= 0 THEN v
      ELSE IF v > Over(s, r, i) THEN v - Over(s, r, i) ELSE 0
Trimmed(s, r, t) == t.failed \/ (Steady(t, r) /\ \A i \in RowsOf(s, r) : t.pays[i].value = Left(s, r, i))
Trims(s, r, t) == ~s.failed /\ Live(s, r) /\ Gathered(s, r) /\ PaidFor(s, r) > Due(s, r) => Trimmed(s, r, t)

Thrifty(s, r, t) ==
  /\ Modest(s, t) /\ PaysCredits(s, r, t) /\ Trims(s, r, t)
  /\ s.regs[r].cancelled => t.pays = s.pays
Thrift(save) == \A s : Sane(s) => \A r \in DOMAIN s.regs : Thrifty(s, r, save[s][r])

-----------------------------------------------------------------------------
(* What is asked of a save, for one state.                                 *)
LEMMA ThriftyAt ==
  ASSUME NEW save, Thrift(save), NEW s, Sane(s), NEW r \in DOMAIN s.regs, NEW t, t = save[s][r]
  PROVE  Thrifty(s, r, t)
BY DEF Thrift

(* What two saves in turn spend, both spend.                               *)
LEMMA SpendsOn ==
  ASSUME NEW s, NEW t, NEW u, Sane(s), Carries(s, t), Carries(t, u), Spends(s, t), Spends(t, u)
  PROVE  Spends(s, u)
<1>1. Sane(t) /\ Sane(u) /\ t.given = s.given
  BY DEF Carries, Framed
<1>2. \A k \in Kinds : Used(s, k) \in Int /\ Used(t, k) \in Int /\ Used(u, k) \in Int /\ s.given[k] \in Int
  BY <1>1, SaneTotals, SaneFields
<1> QED BY <1>1, <1>2 DEF Spends, Covers

(* A state spends nothing over itself.                                     *)
LEMMA ModestItself ==
  ASSUME NEW s, Sane(s)
  PROVE  Modest(s, s)
<1>1. Covers(s, s)
  BY SaneTotals DEF Covers
<1> QED BY <1>1, CarriesItself DEF Modest, Spends, KeepsGathered, StaysSteady, Untouched

(* A registration that two saves in turn leave steady stays so.            *)
LEMMA StaysOn ==
  ASSUME NEW s, NEW t, NEW u, Carries(t, u), NEW q, StaysSteady(s, t, q), StaysSteady(t, u, q)
  PROVE  StaysSteady(s, u, q)
BY DEF StaysSteady, Untouched, Carries, Grown

(* Two saves in turn of the same registration.                             *)
LEMMA ModestButOn ==
  ASSUME NEW s, NEW t, NEW u, NEW r, Sane(s), ModestBut(s, r, t), ModestBut(t, r, u)
  PROVE  ModestBut(s, r, u)
<1>1. Carries(s, t) /\ Carries(t, u) /\ DOMAIN t.regs = DOMAIN s.regs
  BY DEF ModestBut, Carries, Framed
<1>2. Carries(s, u) /\ Spends(s, u)
  BY <1>1, CarriesOn, SpendsOn DEF ModestBut
<1>3. KeepsGathered(s, u)
  BY <1>1 DEF ModestBut, KeepsGathered
<1>4. \A q \in DOMAIN s.regs : q # r => StaysSteady(s, u, q)
  BY <1>1, StaysOn DEF ModestBut
<1> QED BY <1>2, <1>3, <1>4 DEF ModestBut

(* Two saves in turn.                                                      *)
LEMMA ModestOn ==
  ASSUME NEW s, NEW t, NEW u, Sane(s), Modest(s, t), Modest(t, u)
  PROVE  Modest(s, u)
<1>1. Carries(s, t) /\ Carries(t, u) /\ DOMAIN t.regs = DOMAIN s.regs
  BY DEF Modest, Carries, Framed
<1>2. Carries(s, u) /\ Spends(s, u)
  BY <1>1, CarriesOn, SpendsOn DEF Modest
<1>3. KeepsGathered(s, u)
  BY <1>1 DEF Modest, KeepsGathered
<1>4. \A q \in DOMAIN s.regs : StaysSteady(s, u, q)
  BY <1>1, StaysOn DEF Modest
<1> QED BY <1>2, <1>3, <1>4 DEF Modest

(* What all saves owe includes what those owe that are about one           *)
(* registration.                                                           *)
LEMMA ModestIsBut ==
  ASSUME NEW s, NEW t, NEW r, Modest(s, t)
  PROVE  ModestBut(s, r, t)
BY DEF Modest, ModestBut

(* A registration whose rows are left is as steady as before.              *)
LEMMA SteadyStays ==
  ASSUME NEW s, NEW t, Sane(s), Carries(s, t), NEW q \in DOMAIN s.regs, Untouched(s, t, q), Gathered(s, q) => Gathered(t, q)
  PROVE  StaysSteady(s, t, q)
<1>1. PaidFor(t, q) = PaidFor(s, q) /\ Due(t, q) = Due(s, q)
  BY CarriesSame, UntouchedPaid DEF Carries
<1>2. t.regs[q].cancelled = s.regs[q].cancelled
  BY DEF Carries, Framed
<1>3. Of(t, q, Kinds) = Of(s, q, Kinds)
  BY DEF Untouched, RowsOf, Of
<1> QED BY <1>1, <1>2, <1>3 DEF StaysSteady, Steady

(* A state with the same rows and no higher balance.                       *)
LEMMA SameRows ==
  ASSUME NEW s, NEW t, Sane(s), Carries(s, t), t.pays = s.pays, \A k \in Kinds : t.bal[k] <= s.bal[k]
  PROVE  Modest(s, t)
<1>1. Sane(t) /\ t.given = s.given /\ DOMAIN t.regs = DOMAIN s.regs /\ (s.failed => t.failed)
  BY DEF Carries, Framed, Grown
<1>2. \A k \in Kinds : Used(t, k) = Used(s, k) /\ Used(s, k) \in Int /\ s.given[k] \in Int /\ s.bal[k] \in Int /\ t.bal[k] \in Int
  <2>1. \A k \in Kinds : Used(t, k) = Used(s, k)
    BY DEF Used
  <2> QED BY <1>1, <2>1, SaneTotals, SaneFields
<1>3. Spends(s, t)
  BY <1>1, <1>2 DEF Spends, Fair, Covers
<1>4. KeepsGathered(s, t)
  BY CarriesSame DEF KeepsGathered, Gathered
<1>5. ASSUME NEW q \in DOMAIN s.regs PROVE StaysSteady(s, t, q)
  <2>1. Untouched(s, t, q)
    BY DEF Untouched, RowsOf
  <2> QED BY <1>4, <2>1, SteadyStays DEF KeepsGathered
<1> QED BY <1>3, <1>4, <1>5 DEF Modest

-----------------------------------------------------------------------------
(* All registrations of a list are saved.                                  *)
LEMMA SavesAllModest ==
  ASSUME NEW save, Thrift(save), NEW s, Sane(s), NEW list \in Seq(DOMAIN s.regs), NEW t, t = SaveAll(save, s, list)
  PROVE  Modest(s, t)
<1> DEFINE J == {d \in DB : Modest(s, d)}
<1>1. Len(list) \in Nat /\ \A m \in 1..Len(list) : list[m] \in DOMAIN s.regs
  BY LenProperties
<1>2. s \in J
  BY ModestItself DEF Sane
<1>3. ASSUME NEW n \in 1..Len(list), NEW d \in J PROVE save[d][list[n]] \in J
  <2>1. Modest(s, d)
    OBVIOUS
  <2>2. Sane(d) /\ list[n] \in DOMAIN d.regs
    BY <1>1, <2>1 DEF Modest, Carries, Framed
  <2> DEFINE y == save[d][list[n]]
  <2>3. Modest(d, y)
    BY <2>2, ThriftyAt DEF Thrifty
  <2> HIDE DEF y
  <2>4. Modest(s, y)
    BY <2>1, <2>3, ModestOn
  <2>5. y \in DB
    BY <2>4 DEF Modest, Carries, Sane
  <2> QED BY <2>4, <2>5 DEF y
<1> HIDE DEF J
<1>4. Through(save, s, list) \in J
  BY <1>1, <1>2, <1>3, ThroughStays
<1> QED BY <1>4 DEF SaveAll, J

(* A balance is recalculated, whatever it was before.                      *)
FairBut(s, k) == s.failed \/ \A j \in Kinds : j # k => s.bal[j] <= s.given[j] - Used(s, j)

(* The recalculation of a balance sets it right even where more was        *)
(* withdrawn than it held.                                                 *)
LEMMA RecomputeModest ==
  ASSUME NEW save, Thrift(save), NEW s, Sane(s), NEW k \in Kinds, NEW t, t = Recompute(save, s, k)
  PROVE  Modest(s, t) /\ (FairBut(s, k) => Fair(t) /\ Covers(s, t))
<1>1. CASE s.failed
  <2>1. t = s
    BY <1>1 DEF Recompute
  <2>2. Modest(s, s) /\ Fair(s)
    BY <1>1, ModestItself DEF Fair
  <2> QED BY <2>1, <2>2 DEF Modest, Spends
<1>2. CASE ~s.failed
  <2> DEFINE mm == [s.bal EXCEPT ![k] = s.given[k] - Used(s, k)]
             x == [s EXCEPT !.bal[k] = s.given[k] - Used(s, k)]
             list == Incomplete(x)
  <2>1. t = SaveAll(save, x, list)
    BY <1>2 DEF Recompute
  <2>2. s.given[k] \in Int /\ Used(s, k) \in Int
    BY SaneFields, SaneTotals
  <2>3. mm \in [Kinds -> Int] /\ mm[k] = s.given[k] - Used(s, k) /\ \A j \in Kinds : j # k => mm[j] = s.bal[j]
    BY <2>2, SaneFields
  <2>4. x = Flagged(s, mm, s.collided, s.failed)
    BY DEF Sane, DB, Flagged
  <2>5. s.collided \in BOOLEAN /\ s.failed \in BOOLEAN
    BY SaneFields
  <2> HIDE DEF mm, x
  <2>6. /\ Carries(s, x) /\ x.bal = mm /\ x.pays = s.pays /\ x.regs = s.regs
        /\ \A q : Untouched(s, x, q)
        /\ \A j : Used(x, j) = Used(s, j)
    BY <2>3, <2>4, <2>5, Written
  <2>7. Sane(x) /\ x.given = s.given /\ DOMAIN x.regs = DOMAIN s.regs
    BY <2>6 DEF Carries, Framed
  <2>8. \A j \in Kinds : Used(s, j) \in Int /\ s.given[j] \in Int
    BY SaneTotals, SaneFields
  <2>9. Covers(s, x) /\ (FairBut(s, k) => Fair(x)) /\ (Fair(s) => FairBut(s, k))
    BY <1>2, <2>3, <2>6, <2>7, <2>8 DEF Covers, FairBut, Fair
  <2>10. KeepsGathered(s, x)
    BY <2>6, CarriesSame DEF KeepsGathered, Gathered
  <2>11. \A q \in DOMAIN s.regs : StaysSteady(s, x, q)
    BY <2>6, <2>10, SteadyStays DEF KeepsGathered
  <2>12. Modest(s, x)
    BY <2>6, <2>9, <2>10, <2>11 DEF Modest, Spends
  <2>13. list \in Seq(DOMAIN x.regs)
    BY <2>7, IncompleteLists
  <2> HIDE DEF list
  <2>14. Modest(x, t)
    BY <2>1, <2>7, <2>13, SavesAllModest
  <2>15. Modest(s, t)
    BY <2>12, <2>14, ModestOn
  <2>16. ASSUME FairBut(s, k) PROVE Fair(t) /\ Covers(s, t)
    <3>1. Fair(t) /\ Covers(x, t)
      BY <2>9, <2>14, <2>16 DEF Modest, Spends
    <3> QED BY <2>6, <2>7, <3>1 DEF Covers
  <2> QED BY <2>15, <2>16
<1> QED BY <1>1, <1>2

-----------------------------------------------------------------------------
(* A balance reduced, and the other one left.                              *)
LEMMA LessIs ==
  ASSUME NEW m \in [Kinds -> Int], NEW k \in Kinds, NEW v \in Int
  PROVE  /\ Less(m, k, v) \in [Kinds -> Int] /\ Less(m, k, v)[k] = m[k] - v
         /\ \A j \in Kinds : j # k => Less(m, k, v)[j] = m[j]
BY DEF Less

(* A debit of the tokens that pays nothing.                                *)
LEMMA TokensNothing ==
  ASSUME NEW save, NEW s, NEW r, NEW left \in Int, NEW m \in [Kinds -> Int],
         NEW older, NEW a, a = Apply(save, s, r, "token", left, m, older), s.failed \/ Part(left, m["token"]) = 0
  PROVE  a.db = s /\ a.left = left /\ a.m = m
<1>1. "token" \in Kinds
  BY DEF Kinds
<1> QED BY <1>1, ApplyNothing

(* A record that is used as it is.                                         *)
LEMMA FoundModest ==
  ASSUME NEW s, Sane(s), ~s.failed, NEW mm \in [Kinds -> Int], \A k \in Kinds : mm[k] <= s.bal[k],
         NEW i, NEW older, NEW t, Found(s, mm, i, older, t)
  PROVE  Modest(s, t) /\ t.bal = mm /\ t.pays = s.pays
<1>1. PICK c \in BOOLEAN, f \in BOOLEAN : t = Flagged(s, mm, c, f) /\ (s.collided => c) /\ (f \/ (c <=> s.collided \/ i <= older))
  BY DEF Found
<1>2. Carries(s, t) /\ t.bal = mm /\ t.pays = s.pays
  BY <1>1, Written
<1> QED BY <1>2, SameRows

(* The credits' record is there, and their balance is debited already.     *)
LEMMA CreditsAgain ==
  ASSUME NEW save, NEW s, Sane(s), ~s.failed, NEW r, NEW left \in Int, NEW m \in [Kinds -> Int],
         NEW older \in Int, NEW b, b = Apply(save, s, r, "credit", left, m, older),
         NEW use, use = Part(left, m["credit"]), use # 0, s.bal = Less(m, "credit", use),
         \E i \in DOMAIN s.pays : s.pays[i] = RowFor(r, "credit", use)
  PROVE  Modest(s, b.db)
<1>1. "credit" \in Kinds
  BY DEF Kinds
<1>2. PICK i \in DOMAIN s.pays : s.pays[i] = RowFor(r, "credit", use)
  OBVIOUS
<1>3. Found(s, s.bal, i, older, b.db)
  BY <1>1, <1>2, ApplyFinds
<1>4. s.bal \in [Kinds -> Int] /\ \A k \in Kinds : s.bal[k] <= s.bal[k]
  BY SaneFields
<1> QED BY <1>3, <1>4, FoundModest

(* A record that is created.                                               *)
LEMMA CreatedModest ==
  ASSUME NEW s, Sane(s), NEW r \in DOMAIN s.regs, ~s.failed, Live(s, r), Gathered(s, r), NEW k \in Kinds,
         NEW v \in Nat, v <= s.bal[k], NEW m, m = Less(s.bal, k, v), NEW x, x = Recorded(s, m, RowFor(r, k, v))
  PROVE  ModestBut(s, r, x)
<1>1. s.bal \in [Kinds -> Int] /\ \A j \in Kinds : s.given[j] \in Int /\ s.bal[j] \in Int /\ Used(s, j) \in Int
  BY SaneFields, SaneTotals
<1>2. m \in [Kinds -> Int] /\ m[k] = s.bal[k] - v /\ \A j \in Kinds : j # k => m[j] = s.bal[j]
  BY <1>1 DEF Less
<1>3. /\ Carries(s, x) /\ Sane(x) /\ x.bal = m /\ x.failed = s.failed
      /\ x.pays = Append(s.pays, RowFor(r, k, v))
      /\ \A j \in Kinds : Used(x, j) = Used(s, j) + IF k = j THEN v ELSE 0
      /\ \A q : q # r => Untouched(s, x, q)
  BY <1>2, RecordedIs
<1>4. x.given = s.given
  BY <1>3 DEF Carries, Framed
<1>5. Spends(s, x)
  <2> SUFFICES ASSUME Fair(s) PROVE Fair(x) /\ Covers(s, x)
    BY DEF Spends
  <2>1. ASSUME NEW j \in Kinds
        PROVE  x.bal[j] <= x.given[j] - Used(x, j) /\ (Used(x, j) <= Used(s, j) \/ Used(x, j) <= s.given[j])
    <3>1. s.bal[j] <= s.given[j] - Used(s, j)
      BY DEF Fair
    <3>2. Used(x, j) = Used(s, j) + (IF k = j THEN v ELSE 0) /\ x.given[j] = s.given[j]
      BY <1>3, <1>4
    <3>3. CASE j = k
      <4>1. x.bal[j] = s.bal[j] - v /\ Used(x, j) = Used(s, j) + v /\ v <= s.bal[j]
        BY <1>2, <1>3, <3>2, <3>3
      <4> QED BY <1>1, <3>1, <3>2, <4>1
    <3>4. CASE j # k
      <4>1. x.bal[j] = s.bal[j] /\ Used(x, j) = Used(s, j)
        BY <1>1, <1>2, <1>3, <3>2, <3>4
      <4> QED BY <1>1, <3>1, <3>2, <4>1
    <3> QED BY <3>3, <3>4
  <2> QED BY <2>1 DEF Fair, Covers
<1>6. KeepsGathered(s, x)
  <2> SUFFICES ASSUME NEW q \in DOMAIN s.regs, Gathered(s, q), NEW i \in DOMAIN x.pays PROVE x.pays[i].reg \notin From(x, q)
    BY DEF KeepsGathered, Gathered
  <2>1. From(x, q) = From(s, q) /\ r \notin From(s, q)
    BY <1>3, CarriesSame DEF Live, Active, From
  <2>2. CASE i \in DOMAIN s.pays
    <3>1. x.pays[i] = s.pays[i]
      BY <1>3, <2>2, SaneFields
    <3> QED BY <2>1, <2>2, <3>1 DEF Gathered
  <2>3. CASE i \notin DOMAIN s.pays
    <3>1. x.pays[i] = RowFor(r, k, v)
      BY <1>3, <2>3, SaneFields
    <3> QED BY <2>1, <3>1 DEF RowFor
  <2> QED BY <2>2, <2>3
<1>7. \A q \in DOMAIN s.regs : q # r => StaysSteady(s, x, q)
  BY <1>3, <1>6, SteadyStays DEF KeepsGathered
<1> QED BY <1>3, <1>5, <1>6, <1>7 DEF ModestBut

(* The debit of one balance, from the balance that there is.               *)
LEMMA ApplyModest ==
  ASSUME NEW save, Thrift(save), NEW s, Sane(s), NEW r \in DOMAIN s.regs, Live(s, r), Gathered(s, r),
         NEW k \in Kinds, NEW left \in Int, NEW older \in Int, NEW a, a = Apply(save, s, r, k, left, s.bal, older)
  PROVE  ModestBut(s, r, a.db)
<1> DEFINE use == Part(left, s.bal[k])
           mm == Less(s.bal, k, use)
           entry == RowFor(r, k, use)
<1>1. s.bal \in [Kinds -> Int] /\ s.bal[k] \in Int
  BY SaneFields
<1>2. use \in Nat /\ mm \in [Kinds -> Int] /\ mm[k] = s.bal[k] - use /\ (\A j \in Kinds : j # k => mm[j] = s.bal[j])
  BY <1>1, ApplyTypes
<1>3. use > 0 => use <= s.bal[k]
  BY <1>1, PartIs
<1>4. \A j \in Kinds : mm[j] <= s.bal[j]
  BY <1>1, <1>2
<1>5. use = Part(left, s.bal[k]) /\ mm = Less(s.bal, k, use) /\ entry = RowFor(r, k, use)
  OBVIOUS
<1> HIDE DEF use, mm, entry
<1>6. CASE s.failed \/ use = 0
  <2>1. a.db = s
    BY <1>1, <1>5, <1>6, ApplyNothing
  <2> QED BY <2>1, ModestItself, ModestIsBut
<1>7. CASE ~s.failed /\ use # 0 /\ \E i \in DOMAIN s.pays : s.pays[i] = entry
  <2>1. PICK i \in DOMAIN s.pays : s.pays[i] = RowFor(r, k, use)
    BY <1>5, <1>7
  <2>2. Found(s, mm, i, older, a.db)
    BY <1>1, <1>5, <1>7, <2>1, ApplyFinds
  <2> QED BY <1>2, <1>7, <1>4, <2>2, FoundModest, ModestIsBut
<1>8. CASE ~s.failed /\ use # 0 /\ ~\E i \in DOMAIN s.pays : s.pays[i] = entry
  <2> DEFINE x == Recorded(s, mm, entry)
  <2>1. a.db = save[x][r]
    BY <1>1, <1>5, <1>8, ApplyCreates
  <2>2. x = Recorded(s, mm, RowFor(r, k, use))
    BY <1>5
  <2> HIDE DEF x
  <2>3. ModestBut(s, r, x)
    BY <1>2, <1>3, <1>5, <1>8, <2>2, CreatedModest
  <2>4. Sane(x) /\ r \in DOMAIN x.regs
    BY <2>3 DEF ModestBut, Carries, Framed
  <2>5. Modest(x, a.db)
    BY <2>1, <2>4, ThriftyAt DEF Thrifty
  <2> QED BY <2>3, <2>5, ModestIsBut, ModestButOn
<1> QED BY <1>6, <1>7, <1>8

(* After a record of what the tokens pay was created, the copy of the      *)
(* membership row is old; but the nested save has recorded just what the   *)
(* credits are to pay.                                                     *)
Awaits(d, r, left, m) ==
  LET uc == Part(left, m["credit"])
  IN  \/ d.failed \/ uc = 0
      \/ d.bal = Less(m, "credit", uc) /\ \E i \in DOMAIN d.pays : d.pays[i] = RowFor(r, "credit", uc)

(* After the debit of the tokens, the save that its record fires has paid  *)
(* from the credits what the copy of the membership row, written next,     *)
(* will take off them: the whole row is written over an equal one.         *)
LEMMA TokensNested ==
  ASSUME NEW save, Thrift(save), NEW s, Sane(s), NEW r \in DOMAIN s.regs, ~s.failed, Live(s, r), Gathered(s, r),
         NEW rem, rem = Rest(s, r), rem > 0, NEW ut, ut = FromTokens(s, r), ut > 0,
         NEW m, m = Less(s.bal, "token", ut), NEW x, x = Recorded(s, m, RowFor(r, "token", ut)),
         NEW d, d = save[x][r]
  PROVE  ModestBut(s, r, d) /\ Awaits(d, r, rem - ut, m)
<1>1. rem \in Int /\ s.bal \in [Kinds -> Int] /\ s.bal["token"] \in Int /\ s.bal["credit"] \in Int /\ ut \in Nat /\ ut = Part(rem, s.bal["token"])
  BY Amounts, SaneFields
<1>2. "token" \in Kinds /\ "credit" \in Kinds /\ "token" # "credit"
  BY DEF Kinds
<1>3. "token" \in Kinds
  BY DEF Kinds
<1>4. "credit" \in Kinds
  BY DEF Kinds
<1>5. ut <= s.bal["token"] /\ ut <= rem
  BY <1>1, PartIs
<1>6. m \in [Kinds -> Int] /\ m["token"] = s.bal["token"] - ut /\ m["credit"] = s.bal["credit"]
  <2>1. m \in [Kinds -> Int] /\ m["token"] = s.bal["token"] - ut /\ (\A j \in Kinds : j # "token" => m[j] = s.bal[j])
    <3>1. s.bal \in [Kinds -> Int] /\ ut \in Int
      BY <1>1
    <3> QED BY <1>3, <3>1, LessIs
  <2> QED BY <1>2, <2>1
<1>7. ModestBut(s, r, x)
  BY <1>1, <1>2, <1>5, CreatedModest
<1>8. /\ Sane(x) /\ r \in DOMAIN x.regs /\ Live(x, r) /\ Gathered(x, r) /\ x.bal = m /\ ~x.failed
      /\ Rest(x, r) = rem - ut
  BY <1>1, <1>2, <1>6, RecordedIs
<1>9. Thrifty(x, r, d)
  BY <1>8, ThriftyAt
<1>10. Sane(d) /\ ModestBut(s, r, d)
  <2>1. Modest(x, d)
    BY <1>9 DEF Thrifty
  <2>2. Sane(d)
    BY <2>1 DEF Modest, Carries
  <2>3. ModestBut(x, r, d)
    BY <2>1, ModestIsBut
  <2> QED BY <1>7, <2>2, <2>3, ModestButOn
<1> DEFINE left == rem - ut
           uc == Part(left, m["credit"])
<1>11. left \in Int /\ m["credit"] \in Int
  BY <1>1, <1>6
<1>12. left = rem - ut /\ uc = Part(left, m["credit"])
  OBVIOUS
<1> HIDE DEF left, uc
<1>13. uc \in Nat /\ uc \in Int
  BY <1>11, <1>12 DEF Part
<1>14. ASSUME ~d.failed, uc # 0
       PROVE  d.bal = Less(m, "credit", uc) /\ \E i \in DOMAIN d.pays : d.pays[i] = RowFor(r, "credit", uc)
  <2> DEFINE mm == Less(m, "credit", uc)
  <2>1. uc > 0 /\ left > 0
    BY <1>11, <1>12, <1>13, <1>14 DEF Part
  <2>2. m["token"] = 0
    BY <1>1, <1>6, <1>12, <2>1 DEF Part
  <2>3. FromTokens(x, r) = 0 /\ FromCredits(x, r) = uc
    <3>1. FromTokens(x, r) = 0
      BY <1>8, <2>2 DEF FromTokens, Part
    <3>2. Rest(x, r) - FromTokens(x, r) = left /\ x.bal["credit"] = m["credit"]
      BY <1>1, <1>8, <1>12, <3>1
    <3> QED BY <1>12, <3>1, <3>2 DEF FromCredits
  <2>4. mm \in [Kinds -> Int] /\ mm["token"] = m["token"] /\ mm["credit"] = m["credit"] - uc
    <3>1. mm \in [Kinds -> Int] /\ mm["credit"] = m["credit"] - uc /\ (\A j \in Kinds : j # "credit" => mm[j] = m[j])
      BY <1>6, <1>13, <1>4, LessIs
    <3> QED BY <1>2, <3>1
  <2>5. mm = Less(m, "credit", uc)
    OBVIOUS
  <2> HIDE DEF mm
  <2>6. Rest(x, r) >= 0
    BY <1>8, <1>12, <2>1
  <2>7. /\ d.bal["token"] = m["token"] /\ d.bal["credit"] = m["credit"] - uc
        /\ \E i \in DOMAIN d.pays : d.pays[i] = RowFor(r, "credit", uc)
    BY <1>8, <1>9, <1>14, <2>1, <2>3, <2>6 DEF Thrifty, PaysCredits
  <2>8. d.bal = mm
    <3>1. d.bal \in [Kinds -> Int] /\ \A k \in Kinds : d.bal[k] = mm[k]
      BY <1>10, <2>4, <2>7, SaneFields DEF Kinds
    <3> QED BY <2>4, <3>1
  <2> QED BY <2>5, <2>7, <2>8
<1>15. Awaits(d, r, left, m)
  BY <1>12, <1>14 DEF Awaits
<1> QED BY <1>10, <1>12, <1>15

(* So the debit of the credits finds its payment and its balance as it     *)
(* would make them.                                                        *)
LEMMA CreditsOnTop ==
  ASSUME NEW save, NEW d, Sane(d), NEW r, NEW left \in Int, NEW m \in [Kinds -> Int], Awaits(d, r, left, m),
         NEW older \in Int, NEW b, b = Apply(save, d, r, "credit", left, m, older)
  PROVE  Modest(d, b.db)
<1>1. "credit" \in Kinds
  BY DEF Kinds
<1>2. CASE d.failed \/ Part(left, m["credit"]) = 0
  <2>1. b.db = d
    BY <1>1, <1>2, ApplyNothing
  <2> QED BY <2>1, ModestItself
<1>3. CASE ~(d.failed \/ Part(left, m["credit"]) = 0)
  BY <1>3, CreditsAgain DEF Awaits
<1> QED BY <1>2, <1>3

(* The two debits of a save.                                               *)
LEMMA DebitsModest ==
  ASSUME NEW save, Thrift(save), NEW s, Sane(s), NEW r \in DOMAIN s.regs, ~s.failed, Live(s, r),
         Gathered(s, r), NEW rem, rem = Rest(s, r), rem > 0, NEW older \in Int,
         NEW ut, ut = FromTokens(s, r), NEW m, m = Less(s.bal, "token", ut),
         NEW a, a = Apply(save, s, r, "token", rem, s.bal, older),
         NEW b, b = Apply(save, a.db, r, "credit", a.left, a.m, older)
  PROVE  ModestBut(s, r, b.db)
<1>1. rem \in Int /\ s.bal \in [Kinds -> Int] /\ s.bal["token"] \in Int /\ ut \in Nat /\ ut \in Int /\ ut = Part(rem, s.bal["token"])
  BY Amounts, SaneFields
<1>2. "token" \in Kinds /\ "credit" \in Kinds /\ "token" # "credit"
  BY DEF Kinds
<1>3. "token" \in Kinds
  BY DEF Kinds
<1>4. "credit" \in Kinds
  BY DEF Kinds
<1>5. m \in [Kinds -> Int] /\ m["token"] = s.bal["token"] - ut /\ (\A j \in Kinds : j # "token" => m[j] = s.bal[j])
  BY <1>1, <1>3, LessIs
<1>6. CASE ut = 0
  <2>1. a.db = s /\ a.left = rem /\ a.m = s.bal
    <3>1. s.failed \/ Part(rem, s.bal["token"]) = 0
      BY <1>1, <1>6
    <3> QED BY <1>1, <3>1, TokensNothing
  <2>2. b = Apply(save, s, r, "credit", rem, s.bal, older)
    BY <2>1
  <2> QED BY <1>1, <1>2, <2>2, ApplyModest
<1>7. CASE ut # 0 /\ \E i \in DOMAIN s.pays : s.pays[i] = RowFor(r, "token", ut)
  <2>1. PICK i \in DOMAIN s.pays : s.pays[i] = RowFor(r, "token", ut)
    BY <1>7
  <2>2. Found(s, m, i, older, a.db)
    BY <1>1, <1>2, <1>7, <2>1, ApplyFinds
  <2>3. \A k \in Kinds : m[k] <= s.bal[k]
    BY <1>1, <1>5
  <2>4. Modest(s, a.db) /\ a.db.bal = m
    BY <1>5, <2>2, <2>3, FoundModest
  <2>5. a.left = rem - ut /\ a.m = m
    BY <1>1, <1>2, <1>7, ApplyCase
  <2>6. Sane(a.db) /\ r \in DOMAIN a.db.regs /\ Live(a.db, r) /\ Gathered(a.db, r)
    BY <2>4, CarriesSame DEF Modest, Carries, KeepsGathered
  <2>7. ModestBut(a.db, r, b.db)
    <3>1. b = Apply(save, a.db, r, "credit", rem - ut, a.db.bal, older) /\ rem - ut \in Int
      BY <1>1, <2>4, <2>5
    <3> QED BY <1>2, <2>6, <3>1, ApplyModest
  <2>8. ModestBut(s, r, a.db)
    BY <2>4, ModestIsBut
  <2> QED BY <2>7, <2>8, ModestButOn
<1>8. CASE ut # 0 /\ ~\E i \in DOMAIN s.pays : s.pays[i] = RowFor(r, "token", ut)
  <2>1. a.db = save[Recorded(s, m, RowFor(r, "token", ut))][r]
    BY <1>1, <1>2, <1>8, ApplyCreates
  <2>2. a.left = rem - ut /\ a.m = m
    BY <1>1, <1>2, <1>8, ApplyCase
  <2>3. ModestBut(s, r, a.db) /\ Awaits(a.db, r, rem - ut, m)
    <3> DEFINE x == Recorded(s, m, RowFor(r, "token", ut))
    <3>1. x = Recorded(s, m, RowFor(r, "token", ut)) /\ a.db = save[x][r] /\ ut > 0
      BY <1>1, <1>8, <2>1
    <3> HIDE DEF x
    <3> QED BY <3>1, TokensNested
  <2>4. ModestBut(a.db, r, b.db)
    <3>1. a.left \in Int /\ a.m \in [Kinds -> Int] /\ Awaits(a.db, r, a.left, a.m) /\ Sane(a.db)
      BY <1>1, <1>5, <2>2, <2>3 DEF ModestBut, Carries
    <3>2. Modest(a.db, b.db)
      BY <3>1, CreditsOnTop
    <3> QED BY <3>2, ModestIsBut
  <2> QED BY <2>3, <2>4, ModestButOn
<1> QED BY <1>6, <1>7, <1>8

(* Both debits of one save spend only what was given.                      *)
LEMMA UseModest ==
  ASSUME NEW save, Contract(save), Thrift(save), NEW s, Sane(s), NEW r \in DOMAIN s.regs, ~s.failed, Live(s, r),
         Gathered(s, r), NEW rem, rem = Rest(s, r), rem > 0, NEW u, u = Use(save, s, r, rem)
  PROVE  ModestBut(s, r, u.db)
<1>1. rem \in Int /\ Len(s.pays) \in Int
  BY SaneFields, SaneTotals DEF Rest
<1>2. PICK a, b : /\ a = Apply(save, s, r, "token", rem, s.bal, Len(s.pays))
                  /\ b = Apply(save, a.db, r, "credit", a.left, a.m, Len(s.pays))
                  /\ u.db = b.db
  BY <1>1, UseIs
<1>3. ModestBut(s, r, b.db)
  BY <1>1, <1>2, DebitsModest
<1> QED BY <1>2, <1>3

-----------------------------------------------------------------------------
(* What the credits pay when the tokens pay nothing.                       *)
LEMMA CreditsPay ==
  ASSUME NEW save, Thrift(save), NEW s, Sane(s), NEW r \in DOMAIN s.regs, ~s.failed, Live(s, r), Gathered(s, r),
         NEW rem, rem = Rest(s, r), rem > 0, FromTokens(s, r) = 0, NEW older \in Int,
         NEW b, b = Apply(save, s, r, "credit", rem, s.bal, older)
  PROVE  PaysCredits(s, r, b.db)
<1> DEFINE uc == FromCredits(s, r)
           m == Less(s.bal, "credit", uc)
<1>1. uc = FromCredits(s, r) /\ m = Less(s.bal, "credit", uc)
  OBVIOUS
<1> HIDE DEF uc, m
<1>2. "credit" \in Kinds
  BY DEF Kinds
<1>3. rem \in Int /\ s.bal["token"] \in Int /\ s.bal["credit"] \in Int /\ uc \in Nat /\ uc \in Int
  BY <1>1, Amounts
<1>4. uc = Part(rem, s.bal["credit"])
  BY <1>1, <1>3 DEF FromCredits
<1>5. s.bal \in [Kinds -> Int] /\ s.pays \in Seq(Payment)
  BY SaneFields
<1>6. m \in [Kinds -> Int] /\ m["credit"] = s.bal["credit"] - uc /\ (\A j \in Kinds : j # "credit" => m[j] = s.bal[j])
  <2>1. uc \in Int
    BY <1>3
  <2>2. PICK bal : bal = s.bal /\ bal \in [Kinds -> Int]
    BY <1>5
  <2>3. Less(bal, "credit", uc) \in [Kinds -> Int] /\ Less(bal, "credit", uc)["credit"] = bal["credit"] - uc
    BY <1>2, <2>1, <2>2 DEF Less
  <2>4. \A j \in Kinds : j # "credit" => Less(bal, "credit", uc)[j] = bal[j]
    BY <2>2 DEF Less
  <2> QED BY <1>1, <2>2, <2>3, <2>4
<1>7. m["token"] = s.bal["token"]
  <2> "token" \in Kinds /\ "token" # "credit"
    BY DEF Kinds
  <2> QED BY <1>6
<1>8. CASE uc = 0
  <2>1. b.db = s
    <3> rem \in Int /\ (s.failed \/ Part(rem, s.bal["credit"]) = 0)
      BY <1>3, <1>4, <1>8
    <3> QED BY <1>2, <1>5, ApplyNothing
  <2> QED BY <1>1, <1>3, <1>8, <2>1 DEF PaysCredits
<1>9. CASE uc # 0 /\ \E i \in DOMAIN s.pays : s.pays[i] = RowFor(r, "credit", uc)
  <2>1. PICK i \in DOMAIN s.pays : s.pays[i] = RowFor(r, "credit", uc)
    BY <1>9
  <2>2. Found(s, m, i, older, b.db)
    BY <1>1, <1>2, <1>3, <1>4, <1>5, <1>9, <2>1, ApplyFinds
  <2>3. \A k \in Kinds : m[k] <= s.bal[k]
    BY <1>3, <1>6, <1>5
  <2>4. b.db.bal = m /\ b.db.pays = s.pays
    BY <1>6, <2>2, <2>3, FoundModest
  <2> QED BY <1>1, <1>6, <1>7, <2>1, <2>4 DEF PaysCredits
<1>10. CASE uc # 0 /\ ~\E i \in DOMAIN s.pays : s.pays[i] = RowFor(r, "credit", uc)
  <2> DEFINE x == Recorded(s, m, RowFor(r, "credit", uc))
  <2>1. b.db = save[x][r]
    BY <1>1, <1>2, <1>3, <1>4, <1>5, <1>10, ApplyCreates
  <2>2. x = Recorded(s, m, RowFor(r, "credit", uc))
    OBVIOUS
  <2> HIDE DEF x
  <2>3. /\ Sane(x) /\ r \in DOMAIN x.regs /\ Live(x, r) /\ Gathered(x, r) /\ x.bal = m /\ ~x.failed
        /\ x.pays = Append(s.pays, RowFor(r, "credit", uc)) /\ Rest(x, r) = rem - uc
    BY <1>2, <1>3, <1>6, <2>2, RecordedIs
  <2>4. Thrifty(x, r, b.db)
    BY <2>1, <2>3, ThriftyAt
  <2>5. s.bal["token"] <= 0
    BY <1>3 DEF FromTokens, Part
  <2>6. FromTokens(x, r) = 0
    BY <1>3, <1>7, <2>3, <2>5 DEF FromTokens, Part
  <2>7. uc <= rem /\ Part(rem - uc, s.bal["credit"] - uc) = 0
    BY <1>3, <1>4 DEF Part
  <2>8. FromCredits(x, r) = 0
    <3>1. Rest(x, r) - FromTokens(x, r) = rem - uc
      BY <1>3, <2>3, <2>6
    <3> QED BY <1>6, <2>3, <2>7, <3>1 DEF FromCredits
  <2>9. Rest(x, r) >= 0
    BY <1>3, <2>3, <2>7
  <2>10. \/ b.db.failed
         \/ /\ b.db.bal["token"] = m["token"] /\ b.db.bal["credit"] = m["credit"] - 0
            /\ \A i \in DOMAIN x.pays : i \in DOMAIN b.db.pays /\ b.db.pays[i] = x.pays[i]
    BY <2>3, <2>4, <2>6, <2>8, <2>9 DEF Thrifty, PaysCredits
  <2>11. m["credit"] - 0 = s.bal["credit"] - uc
    BY <1>3, <1>6
  <2>12. /\ \A i \in DOMAIN s.pays : i \in DOMAIN x.pays /\ x.pays[i] = s.pays[i]
         /\ \E i \in DOMAIN x.pays : x.pays[i] = RowFor(r, "credit", uc)
    <3>1. RowFor(r, "credit", uc) \in Payment
      BY <1>2, <1>3, <1>5, SaneFields DEF RowFor, Payment
    <3> QED BY <1>5, <2>3, <3>1
  <2> QED BY <1>1, <1>7, <2>10, <2>11, <2>12 DEF PaysCredits
<1> QED BY <1>8, <1>9, <1>10

(* When the tokens pay nothing, the credits pay exactly their part.        *)
LEMMA UsePays ==
  ASSUME NEW save, Contract(save), Thrift(save), NEW s, Sane(s), NEW r \in DOMAIN s.regs, ~s.failed, Live(s, r), Gathered(s, r),
         NEW rem, rem = Rest(s, r), rem > 0, NEW u, u = Use(save, s, r, rem)
  PROVE  PaysCredits(s, r, u.db)
<1> SUFFICES ASSUME FromTokens(s, r) = 0 PROVE PaysCredits(s, r, u.db)
  BY DEF PaysCredits
<1>1. rem \in Int /\ Len(s.pays) \in Int /\ s.bal \in [Kinds -> Int]
  BY SaneFields, SaneTotals DEF Rest
<1>2. PICK a, b : /\ a = Apply(save, s, r, "token", rem, s.bal, Len(s.pays))
                  /\ b = Apply(save, a.db, r, "credit", a.left, a.m, Len(s.pays))
                  /\ u.db = b.db
  BY <1>1, UseIs
<1>3. s.failed \/ Part(rem, s.bal["token"]) = 0
  BY DEF FromTokens
<1>4. a.db = s /\ a.left = rem /\ a.m = s.bal
  BY <1>1, <1>2, <1>3, TokensNothing
<1>5. b = Apply(save, s, r, "credit", rem, s.bal, Len(s.pays))
  BY <1>2, <1>4
<1>6. PaysCredits(s, r, b.db)
  BY <1>1, <1>5, CreditsPay
<1> QED BY <1>2, <1>6

(* Writing the totals spends nothing.                                      *)
LEMMA StoredModest ==
  ASSUME NEW s, Sane(s), NEW r \in DOMAIN s.regs, NEW amount \in Int, NEW t, t = Stored(s, r, amount)
  PROVE  Modest(s, t) /\ t.pays = s.pays /\ t.bal = s.bal /\ t.failed = s.failed
<1>1. Carries(s, t) /\ t.pays = s.pays /\ t.bal = s.bal /\ t.failed = s.failed
  BY StoredIs
<1>2. \A k \in Kinds : t.bal[k] <= s.bal[k]
  BY <1>1, SaneFields
<1> QED BY <1>1, <1>2, SameRows

(* A save of a registration that stays steady itself.                      *)
LEMMA ModestFrom ==
  ASSUME NEW s, NEW r, NEW t, ModestBut(s, r, t), StaysSteady(s, t, r)
  PROVE  Modest(s, t)
BY DEF ModestBut, Modest

(* The save of a registration that is not paid for.                        *)
LEMMA PayingThrifty ==
  ASSUME NEW save, Contract(save), Thrift(save), NEW s, Sane(s), NEW r \in DOMAIN s.regs, Gathered(s, r), ~s.failed,
         Live(s, r), Rest(s, r) > 0, NEW u, u = Use(save, s, r, Rest(s, r)), NEW t, t = Stored(u.db, r, PaidFor(s, r) + u.used)
  PROVE  Thrifty(s, r, t)
<1>1. Rest(s, r) \in Int /\ PaidFor(s, r) \in Int /\ Due(s, r) \in Int /\ PaidFor(s, r) < Due(s, r)
  BY SaneTotals DEF Rest
<1>2. ModestBut(s, r, u.db) /\ PaysCredits(s, r, u.db) /\ u.used \in Int
  BY <1>1, UseModest, UsePays, UseKeeps
<1>3. Sane(u.db) /\ r \in DOMAIN u.db.regs /\ PaidFor(s, r) + u.used \in Int
  BY <1>1, <1>2 DEF ModestBut, Carries, Framed
<1>4. Modest(u.db, t) /\ t.pays = u.db.pays /\ t.bal = u.db.bal /\ t.failed = u.db.failed
  BY <1>3, StoredModest
<1>5. ModestBut(s, r, t)
  BY <1>2, <1>4, ModestIsBut, ModestButOn
<1>6. StaysSteady(s, t, r)
  BY <1>1 DEF StaysSteady, Steady
<1>7. Modest(s, t)
  BY <1>5, <1>6, ModestFrom
<1>8. PaysCredits(s, r, t)
  BY <1>2, <1>4 DEF PaysCredits
<1>9. Trims(s, r, t)
  BY <1>1 DEF Trims
<1>10. ~s.regs[r].cancelled
  BY DEF Live, Active
<1> QED BY <1>7, <1>8, <1>9, <1>10 DEF Thrifty

(* A registration that no balance may pay, or that needs nothing.          *)
LEMMA StoredThrifty ==
  ASSUME NEW s, Sane(s), NEW r \in DOMAIN s.regs, Rest(s, r) = 0 \/ ~Live(s, r), NEW t, t = Stored(s, r, PaidFor(s, r))
  PROVE  Thrifty(s, r, t)
<1>1. PaidFor(s, r) \in Int /\ Due(s, r) \in Int
  BY SaneTotals
<1>2. Modest(s, t) /\ t.pays = s.pays /\ t.bal = s.bal /\ t.failed = s.failed
  BY <1>1, StoredModest
<1>3. Trims(s, r, t)
  BY <1>1 DEF Trims, Rest
<1>4. PaysCredits(s, r, t)
  <2> SUFFICES ASSUME Live(s, r), FromTokens(s, r) = 0 PROVE PaysCredits(s, r, t)
    BY DEF PaysCredits
  <2>1. FromCredits(s, r) = 0
    BY DEF FromCredits, Part
  <2>2. s.bal["credit"] - 0 = s.bal["credit"]
    BY Amounts
  <2> QED BY <1>2, <2>1, <2>2 DEF PaysCredits
<1> QED BY <1>2, <1>3, <1>4 DEF Thrifty

(* The save of a registration of a closed run.                             *)
LEMMA IdleThrifty ==
  ASSUME NEW s, Sane(s), NEW r \in DOMAIN s.regs, Closed(s, r) \/ s.failed
  PROVE  Thrifty(s, r, s)
BY ModestItself DEF Thrifty, PaysCredits, Trims, Live, Active

(* Handing over the rows of cancelled registrations spends nothing.        *)
LEMMA TransferModest ==
  ASSUME NEW s, Sane(s), NEW r \in DOMAIN s.regs, NEW x, x = Transferred(s, r)
  PROVE  Modest(s, x)
<1>1. /\ Carries(s, x) /\ x.bal = s.bal /\ x.failed = s.failed /\ x.regs = s.regs
      /\ DOMAIN x.pays = DOMAIN s.pays
      /\ \A k \in Kinds : Used(x, k) = Used(s, k)
      /\ \A q \in DOMAIN s.regs : q # r /\ ~s.regs[q].cancelled => Untouched(s, x, q)
      /\ \A i \in DOMAIN s.pays : x.pays[i].reg = s.pays[i].reg \/ (x.pays[i].reg = r /\ ~s.regs[r].cancelled)
  BY Transfers
<1>2. x.given = s.given
  BY <1>1 DEF Carries, Framed
<1>3. Spends(s, x)
  BY <1>1, <1>2, SaneTotals DEF Spends, Fair, Covers
<1>4. KeepsGathered(s, x)
  <2> SUFFICES ASSUME NEW q \in DOMAIN s.regs, Gathered(s, q), NEW i \in DOMAIN x.pays PROVE x.pays[i].reg \notin From(x, q)
    BY DEF KeepsGathered, Gathered
  <2>1. From(x, q) = From(s, q) /\ (~s.regs[r].cancelled => r \notin From(s, q))
    BY <1>1 DEF From
  <2>2. i \in DOMAIN s.pays /\ s.pays[i].reg \notin From(s, q)
    BY <1>1 DEF Gathered
  <2> QED BY <1>1, <2>1, <2>2
<1>5. ASSUME NEW q \in DOMAIN s.regs PROVE StaysSteady(s, x, q)
  <2>1. CASE q = r
    <3>1. Gathered(s, r) => x = s
      BY TransfersNothing
    <3>2. Modest(s, s)
      BY ModestItself
    <3> QED BY <2>1, <3>1, <3>2 DEF Modest, StaysSteady, Steady
  <2>2. CASE q # r
    <3>1. s.regs[q].cancelled => StaysSteady(s, x, q)
      BY DEF StaysSteady, Steady
    <3>2. ~s.regs[q].cancelled => Untouched(s, x, q)
      BY <1>1, <2>2
    <3>3. ~s.regs[q].cancelled => StaysSteady(s, x, q)
      BY <1>1, <1>4, <3>2, SteadyStays DEF KeepsGathered
    <3> QED BY <3>1, <3>3
  <2> QED BY <2>1, <2>2
<1> QED BY <1>1, <1>3, <1>4, <1>5 DEF Modest

(* The transfer of cancelled rows comes before all else in a save.         *)
LEMMA TransferThrifty ==
  ASSUME NEW s, Sane(s), NEW r \in DOMAIN s.regs, NEW x, x = Transferred(s, r), NEW t, Thrifty(x, r, t)
  PROVE  Thrifty(s, r, t)
<1>1. Modest(s, t)
  BY TransferModest, ModestOn DEF Thrifty
<1>2. Gathered(s, r) => x = s
  BY TransfersNothing
<1>3. s.regs[r].cancelled => x = s
  BY Transfers
<1> QED BY <1>1, <1>2, <1>3 DEF Thrifty, PaysCredits, Trims

-----------------------------------------------------------------------------
(* Sums over rows that differ in one.                                      *)
LEMMA TotalWith ==
  ASSUME NEW pays \in Seq(Payment), NEW ids, ids \subseteq DOMAIN pays, NEW i \in DOMAIN pays, i \notin ids
  PROVE  Total(pays, ids \cup {i}) = Total(pays, ids) + pays[i].value
<1> DEFINE f == [j \in DOMAIN pays |-> pays[j].value]
<1>1. IsFiniteSet(ids)
  BY TotalType
<1>2. \A j \in ids \cup {i} : f[j] \in Int /\ f[j] = pays[j].value
  BY RowIs
<1>3. SumFunctionOnSet(f, ids) \in Int
  BY <1>1, <1>2, SumType
<1>4. Total(pays, ids \cup {i}) = SumFunctionOnSet(f, ids \cup {i}) /\ Total(pays, ids) = SumFunctionOnSet(f, ids)
  BY DEF Total
<1> HIDE DEF f
<1>5. SumFunctionOnSet(f, ids \cup {i}) = f[i] + SumFunctionOnSet(f, ids)
  BY <1>1, <1>2, SumAdded
<1> QED BY <1>2, <1>3, <1>4, <1>5

(* The sum of some rows is at most that of all.                            *)
LEMMA TotalPart ==
  ASSUME NEW pays \in Seq(Payment), NEW ids, ids \subseteq DOMAIN pays, NEW some, some \subseteq ids
  PROVE  Total(pays, some) <= Total(pays, ids)
<1> DEFINE f == [j \in DOMAIN pays |-> pays[j].value]
<1>1. IsFiniteSet(ids)
  BY TotalType
<1>2. \A j \in ids : f[j] \in Nat
  BY RowIs
<1>3. Total(pays, some) = SumFunctionOnSet(f, some) /\ Total(pays, ids) = SumFunctionOnSet(f, ids)
  BY DEF Total
<1> HIDE DEF f
<1> QED BY <1>1, <1>2, <1>3, SumOfPart

(* One row changes, and the sum with it.                                   *)
LEMMA TotalChanged ==
  ASSUME NEW pays \in Seq(Payment), NEW more \in Seq(Payment), DOMAIN more = DOMAIN pays,
         NEW ids, ids \subseteq DOMAIN pays, NEW i \in ids, \A j \in ids : j # i => more[j].value = pays[j].value
  PROVE  Total(more, ids) = Total(pays, ids) - pays[i].value + more[i].value
<1> DEFINE f == [j \in DOMAIN pays |-> pays[j].value]
           g == [j \in DOMAIN more |-> more[j].value]
<1>1. IsFiniteSet(ids)
  BY TotalType
<1>2. \A j \in ids : f[j] \in Int /\ g[j] \in Int /\ f[j] = pays[j].value /\ g[j] = more[j].value
  BY RowIs
<1>3. \A j \in ids : f[j] \in Int /\ g[j] \in Int /\ (j # i => g[j] = f[j])
  BY <1>2
<1>4. Total(more, ids) = SumFunctionOnSet(g, ids) /\ Total(pays, ids) = SumFunctionOnSet(f, ids)
  BY DEF Total
<1> HIDE DEF f, g
<1>5. SumFunctionOnSet(g, ids) = SumFunctionOnSet(f, ids) - f[i] + g[i]
  BY <1>1, <1>3, SumChanged
<1> QED BY <1>2, <1>4, <1>5

(* One row of the table changes, and a sum it is in with it.               *)
LEMMA RowChanged ==
  ASSUME NEW s, NEW t, Sane(s), Sane(t), DOMAIN t.pays = DOMAIN s.pays,
         NEW ids, ids \subseteq DOMAIN s.pays, NEW i \in ids, \A j \in ids : j # i => t.pays[j].value = s.pays[j].value
  PROVE  Total(t.pays, ids) = Total(s.pays, ids) - s.pays[i].value + t.pays[i].value
<1>1. PICK pays, more : pays = s.pays /\ more = t.pays
  OBVIOUS
<1>2. /\ pays \in Seq(Payment) /\ more \in Seq(Payment) /\ DOMAIN more = DOMAIN pays
      /\ ids \subseteq DOMAIN pays /\ \A j \in ids : j # i => more[j].value = pays[j].value
  BY <1>1, SaneFields
<1>3. Total(more, ids) = Total(pays, ids) - pays[i].value + more[i].value
  BY <1>2, TotalChanged
<1> QED BY <1>1, <1>3

-----------------------------------------------------------------------------
(* In what order an overpayment is taken.                                  *)
LEMMA TakenOrder ==
  ASSUME NEW s, Sane(s), NEW r
  PROVE  \A i, j, l \in Of(s, r, Kinds) :
           /\ ~FirstTaken(s, i, i)
           /\ FirstTaken(s, i, j) /\ FirstTaken(s, j, l) => FirstTaken(s, i, l)
           /\ i # j => FirstTaken(s, i, j) \/ FirstTaken(s, j, i)
<1> DEFINE ids == Of(s, r, Kinds)
           before == {ij \in ids \X ids : FirstTaken(s, ij[1], ij[2])}
<1>1. ids \subseteq DOMAIN s.pays /\ \A i \in ids : s.pays[i].kind \in Kinds
  BY DEF Of
<1>2. before = {ij \in ids \X ids : FirstTaken(s, ij[1], ij[2])}
  OBVIOUS
<1>3. \A i, j \in ids : <<i, j>> \in before <=> FirstTaken(s, i, j)
  OBVIOUS
<1> HIDE DEF ids, before
<1>4. Orders(ids, before)
  BY <1>1, <1>2, FirstTakenOrders
<1>5. ASSUME NEW i \in ids, NEW j \in ids, NEW l \in ids
      PROVE  /\ ~FirstTaken(s, i, i)
             /\ FirstTaken(s, i, j) /\ FirstTaken(s, j, l) => FirstTaken(s, i, l)
             /\ i # j => FirstTaken(s, i, j) \/ FirstTaken(s, j, i)
  <2>1. /\ <<i, i>> \notin before
        /\ <<i, j>> \in before /\ <<j, l>> \in before => <<i, l>> \in before
        /\ i # j => <<i, j>> \in before \/ <<j, i>> \in before
    BY <1>4, Zenon DEF Orders
  <2>2. /\ <<i, i>> \in before <=> FirstTaken(s, i, i)
        /\ <<i, j>> \in before <=> FirstTaken(s, i, j)
        /\ <<j, i>> \in before <=> FirstTaken(s, j, i)
        /\ <<j, l>> \in before <=> FirstTaken(s, j, l)
        /\ <<i, l>> \in before <=> FirstTaken(s, i, l)
    BY <1>3
  <2> QED BY <2>1, <2>2
<1> QED BY <1>5 DEF ids

Prior(s, r, i) == {j \in Of(s, r, Kinds) : FirstTaken(s, j, i)}

(* The first of the list has nothing ahead, each other one its predecessor *)
(* and what is ahead of that.                                              *)
LEMMA AheadInList ==
  ASSUME NEW s, Sane(s), NEW r \in DOMAIN s.regs, NEW list, list = Reversible(s, r)
  PROVE  /\ Len(list) > 0 => /\ Prior(s, r, list[1].id) = {}
                             /\ \A i \in Of(s, r, Kinds) : i # list[1].id => FirstTaken(s, list[1].id, i)
         /\ \A n \in 1..Len(list) : n + 1 <= Len(list) =>
              Ahead(s, r, list[n + 1].id) = Ahead(s, r, list[n].id) + s.pays[list[n].id].value
<1>1. /\ Len(list) \in Nat
      /\ \A i \in Of(s, r, Kinds) : \E n \in 1..Len(list) : list[n].id = i
      /\ \A n \in 1..Len(list) : list[n].id \in Of(s, r, Kinds)
      /\ \A m, n \in 1..Len(list) : m < n => FirstTaken(s, list[m].id, list[n].id)
  BY ReversibleLists
<1>2. \A m, n \in 1..Len(list) : FirstTaken(s, list[m].id, list[n].id) => m < n
  <2> SUFFICES ASSUME NEW m \in 1..Len(list), NEW n \in 1..Len(list), FirstTaken(s, list[m].id, list[n].id), ~(m < n) PROVE FALSE
    OBVIOUS
  <2>1. m = n \/ n < m
    BY <1>1
  <2>2. list[m].id \in Of(s, r, Kinds) /\ list[n].id \in Of(s, r, Kinds)
    BY <1>1
  <2>3. CASE m = n
    BY <2>2, <2>3, TakenOrder
  <2>4. CASE n < m
    <3>1. FirstTaken(s, list[n].id, list[m].id)
      BY <1>1, <2>4
    <3>2. FirstTaken(s, list[n].id, list[n].id)
      BY <2>2, <3>1, TakenOrder
    <3> QED BY <2>2, <3>2, TakenOrder
  <2> QED BY <2>1, <2>3, <2>4
<1>3. ASSUME Len(list) > 0
      PROVE  /\ Prior(s, r, list[1].id) = {}
             /\ \A i \in Of(s, r, Kinds) : i # list[1].id => FirstTaken(s, list[1].id, i)
  <2>1. 1 \in 1..Len(list)
    BY <1>1, <1>3
  <2>2. \A n \in 1..Len(list) : ~(n < 1) /\ (n # 1 => 1 < n)
    BY <1>1
  <2>3. ASSUME NEW i \in Of(s, r, Kinds) PROVE ~FirstTaken(s, i, list[1].id) /\ (i # list[1].id => FirstTaken(s, list[1].id, i))
    <3>1. PICK n \in 1..Len(list) : list[n].id = i
      BY <1>1
    <3> QED BY <1>1, <1>2, <2>1, <2>2, <3>1
  <2> QED BY <2>3 DEF Prior
<1>4. ASSUME NEW n \in 1..Len(list), n + 1 <= Len(list)
      PROVE  Ahead(s, r, list[n + 1].id) = Ahead(s, r, list[n].id) + s.pays[list[n].id].value
  <2> DEFINE a == list[n].id
             b == list[n + 1].id
  <2>1. n \in Nat /\ n + 1 \in 1..Len(list) /\ n < n + 1
    BY <1>1, <1>4
  <2>2. a \in Of(s, r, Kinds) /\ b \in Of(s, r, Kinds) /\ FirstTaken(s, a, b)
    BY <1>1, <2>1
  <2>3. ASSUME NEW j \in Of(s, r, Kinds) PROVE FirstTaken(s, j, b) <=> FirstTaken(s, j, a) \/ j = a
    <3>1. PICK m \in 1..Len(list) : list[m].id = j
      BY <1>1
    <3>2. FirstTaken(s, j, b) => m < n \/ m = n
      BY <1>1, <1>2, <2>1, <3>1
    <3>3. m < n => FirstTaken(s, j, a)
      BY <1>1, <3>1
    <3>4. FirstTaken(s, j, a) => FirstTaken(s, j, b)
      BY <2>2, TakenOrder
    <3> QED BY <2>2, <3>1, <3>2, <3>3, <3>4
  <2>4. a \notin Prior(s, r, a)
    BY <2>2, TakenOrder DEF Prior
  <2>5. Prior(s, r, b) = Prior(s, r, a) \cup {a}
    BY <2>2, <2>3 DEF Prior
  <2>6. Prior(s, r, a) \subseteq DOMAIN s.pays /\ a \in DOMAIN s.pays /\ s.pays \in Seq(Payment)
    BY <2>2, SaneFields DEF Prior, Of
  <2>7. Ahead(s, r, a) = Total(s.pays, Prior(s, r, a)) /\ Ahead(s, r, b) = Total(s.pays, Prior(s, r, b))
    BY DEF Ahead, Prior
  <2> HIDE DEF a, b
  <2>8. Total(s.pays, Prior(s, r, a) \cup {a}) = Total(s.pays, Prior(s, r, a)) + s.pays[a].value
    BY <2>4, <2>6, TotalWith
  <2> QED BY <2>5, <2>7, <2>8 DEF a, b
<1> QED BY <1>3, <1>4

(* The amounts of an overpayment.                                          *)
LEMMA OverIs ==
  ASSUME NEW s, Sane(s), NEW r \in DOMAIN s.regs, NEW i
  PROVE  /\ Ahead(s, r, i) = Total(s.pays, Prior(s, r, i)) /\ Ahead(s, r, i) \in Nat
         /\ Over(s, r, i) = PaidFor(s, r) - Due(s, r) - Ahead(s, r, i) /\ Over(s, r, i) \in Int
         /\ PaidFor(s, r) \in Nat /\ Due(s, r) \in Nat
         /\ Prior(s, r, i) \subseteq DOMAIN s.pays
<1>1. Prior(s, r, i) \subseteq DOMAIN s.pays /\ Ahead(s, r, i) = Total(s.pays, Prior(s, r, i))
  BY DEF Prior, Of, Ahead
<1>2. Ahead(s, r, i) \in Nat
  BY <1>1, SaneFields, TotalType
<1> QED BY <1>1, <1>2, SaneTotals DEF Over

-----------------------------------------------------------------------------
(* A row cut as it was read.                                               *)
LEMMA TakenPaid ==
  ASSUME NEW s, Sane(s), NEW r \in DOMAIN s.regs, Live(s, r), NEW piece, Fits(s, r, piece), piece.row = s.pays[piece.id],
         NEW over \in Int, over > 0, NEW x, x = Taken(s, piece, over)
  PROVE  /\ Kept(piece, over) \in Nat /\ Kept(piece, over) <= s.pays[piece.id].value
         /\ x.pays[piece.id].value = Kept(piece, over)
         /\ PaidFor(x, r) = PaidFor(s, r) - s.pays[piece.id].value + Kept(piece, over)
         /\ ModestBut(s, r, x)
         /\ Gathered(s, r) => Gathered(x, r)
<1> DEFINE f == piece.id
           v == s.pays[f].value
           w == Kept(piece, over)
           k == piece.row.kind
<1>1. f \in DOMAIN s.pays /\ s.pays[f].reg = r /\ s.pays[f].kind = k /\ k \in Kinds /\ s.pays[f] \in Payment
  BY SaneFields DEF Fits, RowsOf
<1>2. v \in Nat /\ v = piece.row.value
  BY <1>1 DEF Payment
<1>3. w \in Nat /\ w <= v /\ (v = 0 => w = 0)
  BY <1>2 DEF Kept
<1>4. /\ Carries(s, x) /\ x.regs = s.regs /\ x.bal = s.bal /\ x.failed = s.failed
      /\ \A q : q # r => Untouched(s, x, q)
      /\ \A j \in Kinds : j # k => Used(x, j) = Used(s, j)
      /\ DOMAIN x.pays = DOMAIN s.pays
      /\ \A j \in DOMAIN s.pays : /\ x.pays[j].reg = s.pays[j].reg /\ x.pays[j].kind = s.pays[j].kind
                                  /\ j # f => x.pays[j] = s.pays[j]
      /\ x.pays[f].value = IF v = 0 THEN 0 ELSE w
  BY TakenIs
<1>5. x.pays[f].value = w
  BY <1>3, <1>4
<1>6. Sane(x) /\ x.given = s.given /\ s.pays \in Seq(Payment) /\ x.pays \in Seq(Payment)
  BY <1>4, SaneFields DEF Carries, Framed
<1> HIDE DEF f, v, w, k
<1>7. RowsOf(x, r) = RowsOf(s, r) /\ RowsIn(x, k) = RowsIn(s, k) /\ f \in RowsOf(s, r) /\ f \in RowsIn(s, k)
      /\ RowsOf(s, r) \subseteq DOMAIN s.pays /\ RowsIn(s, k) \subseteq DOMAIN s.pays
  BY <1>1, <1>4 DEF RowsOf, RowsIn
<1>8. v = s.pays[f].value
  BY DEF v
<1>9. PaidFor(x, r) = PaidFor(s, r) - v + w
  <2>1. Total(x.pays, RowsOf(s, r)) = Total(s.pays, RowsOf(s, r)) - s.pays[f].value + x.pays[f].value
    <3>1. \A j \in RowsOf(s, r) : j # f => x.pays[j].value = s.pays[j].value
      BY <1>4, <1>7
    <3>2. f \in RowsOf(s, r) /\ RowsOf(s, r) \subseteq DOMAIN s.pays /\ DOMAIN x.pays = DOMAIN s.pays
      BY <1>4, <1>7
    <3> QED BY <1>6, <3>1, <3>2, RowChanged
  <2>2. PaidFor(x, r) = Total(x.pays, RowsOf(x, r)) /\ PaidFor(s, r) = Total(s.pays, RowsOf(s, r))
    BY <1>6, SaneTotals
  <2> QED BY <1>5, <1>7, <1>8, <2>1, <2>2
<1>10. Used(x, k) = Used(s, k) - v + w
  <2>1. Total(x.pays, RowsIn(s, k)) = Total(s.pays, RowsIn(s, k)) - s.pays[f].value + x.pays[f].value
    <3>1. \A j \in RowsIn(s, k) : j # f => x.pays[j].value = s.pays[j].value
      BY <1>4, <1>7
    <3>2. f \in RowsIn(s, k) /\ RowsIn(s, k) \subseteq DOMAIN s.pays /\ DOMAIN x.pays = DOMAIN s.pays
      BY <1>4, <1>7
    <3> QED BY <1>6, <3>1, <3>2, RowChanged
  <2>2. Used(x, k) = Total(x.pays, RowsIn(x, k)) /\ Used(s, k) = Total(s.pays, RowsIn(s, k))
    BY <1>1, <1>6, SaneTotals
  <2> QED BY <1>5, <1>7, <1>8, <2>1, <2>2
<1>11. \A j \in Kinds : Used(x, j) \in Int /\ Used(s, j) \in Int /\ s.given[j] \in Int /\ s.bal[j] \in Int
  BY <1>6, SaneTotals, SaneFields
<1>12. \A j \in Kinds : Used(x, j) <= Used(s, j)
  BY <1>1, <1>2, <1>3, <1>4, <1>10, <1>11
<1>13. Spends(s, x)
  BY <1>4, <1>6, <1>11, <1>12 DEF Spends, Fair, Covers
<1>14. KeepsGathered(s, x)
  BY <1>4, CarriesSame DEF KeepsGathered, Gathered
<1>15. \A q \in DOMAIN s.regs : q # r => StaysSteady(s, x, q)
  BY <1>4, <1>14, SteadyStays DEF KeepsGathered
<1>16. ModestBut(s, r, x)
  BY <1>4, <1>13, <1>14, <1>15 DEF ModestBut
<1> QED BY <1>3, <1>5, <1>9, <1>14, <1>16 DEF f, v, w, KeepsGathered

(* Once a registration is trimmed, no save of its member changes its rows. *)
LEMMA TrimmedOn ==
  ASSUME NEW s, Sane(s), NEW r \in DOMAIN s.regs, Live(s, r), NEW d, Carries(s, d), Trimmed(s, r, d),
         NEW e, Modest(d, e)
  PROVE  Trimmed(s, r, e)
<1>1. r \in DOMAIN d.regs /\ Carries(d, e)
  BY DEF Carries, Framed, Modest
<1>2. CASE d.failed
  BY <1>1, <1>2 DEF Carries, Grown, Trimmed
<1>3. CASE ~d.failed
  <2>1. Steady(d, r) /\ \A i \in RowsOf(s, r) : d.pays[i].value = Left(s, r, i)
    BY <1>3 DEF Trimmed
  <2>2. e.failed \/ (Steady(e, r) /\ Untouched(d, e, r))
    BY <1>1, <2>1 DEF Modest, StaysSteady
  <2>3. RowsOf(s, r) \subseteq RowsOf(d, r)
    BY DEF RowsOf, Carries, Grown, Live, Active
  <2> QED BY <2>1, <2>2, <2>3 DEF Trimmed, Untouched
<1> QED BY <1>2, <1>3

(* The first cut: either it is all, or the save it fires takes the rest.   *)
LEMMA FirstCutPart ==
  ASSUME NEW save, Thrift(save), NEW s, Sane(s), NEW r \in DOMAIN s.regs, ~s.failed, Live(s, r), Gathered(s, r),
         NEW over, over = PaidFor(s, r) - Due(s, r), over > 0,
         NEW piece, Fits(s, r, piece), piece.row = s.pays[piece.id], piece.id \in Of(s, r, Kinds),
         Prior(s, r, piece.id) = {}, \A i \in Of(s, r, Kinds) : i # piece.id => FirstTaken(s, piece.id, i),
         NEW x, x = Taken(s, piece, over), NEW y, y = save[x][r]
  PROVE  Trimmed(s, r, y)
<1> DEFINE f == piece.id
           v == s.pays[f].value
           w == Kept(piece, over)
<1>1. f \in DOMAIN s.pays /\ s.pays[f] \in Payment /\ v \in Nat /\ v > 0 /\ v = piece.row.value
  BY SaneFields DEF Of, Payment
<1>2. over \in Int /\ PaidFor(s, r) \in Nat /\ Due(s, r) \in Nat
  BY SaneTotals
<1>3. /\ w \in Nat /\ w <= v /\ x.pays[f].value = w
      /\ PaidFor(x, r) = PaidFor(s, r) - v + w
      /\ ModestBut(s, r, x) /\ Gathered(x, r)
  BY <1>2, TakenPaid
<1>4. /\ Carries(s, x) /\ x.regs = s.regs /\ x.failed = s.failed
      /\ DOMAIN x.pays = DOMAIN s.pays
      /\ \A j \in DOMAIN s.pays : /\ x.pays[j].reg = s.pays[j].reg /\ x.pays[j].kind = s.pays[j].kind
                                  /\ j # f => x.pays[j] = s.pays[j]
  BY <1>2, TakenIs
<1>5. w = IF v > over THEN v - over ELSE 0
  BY <1>1 DEF Kept
<1>6. f \in Of(s, r, Kinds) /\ Prior(s, r, f) = {} /\ \A i \in Of(s, r, Kinds) : i # f => FirstTaken(s, f, i)
  OBVIOUS
<1>7. v = s.pays[f].value
  OBVIOUS
<1> HIDE DEF f, v, w
<1>8. /\ Sane(x) /\ r \in DOMAIN x.regs /\ ~x.failed /\ Due(x, r) = Due(s, r) /\ Live(x, r)
      /\ ~x.regs[r].cancelled /\ s.pays \in Seq(Payment) /\ x.pays \in Seq(Payment)
  BY <1>4, CarriesSame, SaneFields DEF Carries, Live, Active
<1>9. \A i : /\ Ahead(s, r, i) = Total(s.pays, Prior(s, r, i)) /\ Ahead(s, r, i) \in Nat
             /\ Over(s, r, i) = over - Ahead(s, r, i) /\ Over(s, r, i) \in Int
             /\ Prior(s, r, i) \subseteq DOMAIN s.pays
  BY OverIs
<1>10. Over(s, r, f) = over
  <2>1. Total(s.pays, {}) = 0
    BY SumOfNone DEF Total
  <2> QED BY <1>2, <1>6, <1>9, <2>1
<1>11. Left(s, r, f) = w
  BY <1>1, <1>2, <1>5, <1>6, <1>7, <1>10 DEF Left
<1>12. \A i \in RowsOf(s, r) : i \in DOMAIN s.pays /\ (i # f => x.pays[i] = s.pays[i])
  BY <1>4 DEF RowsOf
<1>13. ASSUME NEW i \in Of(s, r, Kinds), i # f
       PROVE  f \in Prior(s, r, i) /\ Total(s.pays, Prior(s, r, i)) = Total(s.pays, Prior(s, r, i) \ {f}) + v
  <2>1. f \in Prior(s, r, i)
    BY <1>6, <1>13 DEF Prior
  <2>2. (Prior(s, r, i) \ {f}) \cup {f} = Prior(s, r, i)
    BY <2>1
  <2>3. Total(s.pays, (Prior(s, r, i) \ {f}) \cup {f}) = Total(s.pays, Prior(s, r, i) \ {f}) + s.pays[f].value
    BY <1>1, <1>8, <1>9, TotalWith
  <2> QED BY <1>7, <2>1, <2>2, <2>3
<1>14. \A i : Total(s.pays, Prior(s, r, i) \ {f}) \in Nat
  BY <1>8, <1>9, TotalType
<1>15. Modest(x, y) /\ Trims(x, r, y)
  BY <1>8, ThriftyAt DEF Thrifty
<1>16. CASE v >= over
  <2>1. PaidFor(x, r) = Due(x, r)
    <3>1. w = v - over
      BY <1>1, <1>2, <1>5, <1>16
    <3>2. PaidFor(x, r) = PaidFor(s, r) - v + w /\ Due(x, r) = Due(s, r)
      BY <1>3, <1>8
    <3> QED BY <1>1, <1>2, <3>1, <3>2
  <2>2. Steady(x, r)
    BY <1>2, <1>3, <1>8, <2>1 DEF Steady
  <2>3. ASSUME NEW i \in RowsOf(s, r) PROVE x.pays[i].value = Left(s, r, i)
    <3>1. CASE i = f
      BY <1>3, <1>11, <3>1
    <3>2. CASE i # f
      <4>1. x.pays[i].value = s.pays[i].value
        BY <1>12, <3>2
      <4>2. i \in Of(s, r, Kinds) => Over(s, r, i) <= 0
        <5> SUFFICES ASSUME i \in Of(s, r, Kinds) PROVE Over(s, r, i) <= 0
          OBVIOUS
        <5>1. Ahead(s, r, i) >= v
          <6>1. Ahead(s, r, i) = Total(s.pays, Prior(s, r, i) \ {f}) + v
            BY <1>9, <1>13, <3>2
          <6>2. Total(s.pays, Prior(s, r, i) \ {f}) \in Nat
            BY <1>14
          <6> QED BY <1>1, <6>1, <6>2
        <5> QED BY <1>1, <1>2, <1>9, <1>16, <5>1
      <4> QED BY <4>1, <4>2 DEF Left
    <3> QED BY <3>1, <3>2
  <2>4. Trimmed(s, r, x)
    BY <2>2, <2>3 DEF Trimmed
  <2> QED BY <1>4, <1>15, <2>4, TrimmedOn
<1>17. CASE v < over
  <2>1. w = 0 /\ PaidFor(x, r) = PaidFor(s, r) - v /\ PaidFor(x, r) > Due(x, r) /\ PaidFor(x, r) \in Int
    <3>1. w = 0
      BY <1>1, <1>2, <1>5, <1>17
    <3>2. PaidFor(x, r) = PaidFor(s, r) - v + w /\ Due(x, r) = Due(s, r)
      BY <1>3, <1>8
    <3> QED BY <1>1, <1>2, <1>17, <3>1, <3>2
  <2>2. Trimmed(x, r, y)
    BY <1>3, <1>8, <1>15, <2>1 DEF Trims
  <2>3. Of(x, r, Kinds) = Of(s, r, Kinds) \ {f}
    <3>1. f \notin Of(x, r, Kinds)
      BY <1>3, <2>1 DEF Of
    <3> QED BY <1>4, <3>1 DEF Of
  <2>4. RowsOf(x, r) = RowsOf(s, r)
    BY <1>4 DEF RowsOf
  <2>5. ASSUME NEW i \in RowsOf(s, r) PROVE Left(x, r, i) = Left(s, r, i)
    <3>1. CASE i = f
      <4>1. Left(x, r, f) = 0
        BY <1>3, <2>1, <2>3 DEF Left
      <4> QED BY <1>11, <2>1, <3>1, <4>1
    <3>2. CASE i # f /\ i \notin Of(s, r, Kinds)
      BY <1>12, <2>3, <3>2 DEF Left
    <3>3. CASE i # f /\ i \in Of(s, r, Kinds)
      <4>1. Prior(x, r, i) = Prior(s, r, i) \ {f}
        <5>1. \A j \in Of(s, r, Kinds) : j # f => x.pays[j] = s.pays[j] /\ x.pays[i] = s.pays[i]
          BY <1>12, <3>3 DEF Of, RowsOf
        <5>2. \A j \in Of(s, r, Kinds) : j # f => (FirstTaken(x, j, i) <=> FirstTaken(s, j, i))
          BY <5>1, Zenon DEF FirstTaken
        <5> QED BY <2>3, <5>2 DEF Prior
      <4>2. Total(x.pays, Prior(s, r, i) \ {f}) = Total(s.pays, Prior(s, r, i) \ {f})
        <5>1. \A j \in Prior(s, r, i) \ {f} : x.pays[j].value = s.pays[j].value
          BY <1>4, <1>9
        <5>2. Prior(s, r, i) \ {f} \subseteq DOMAIN s.pays /\ Prior(s, r, i) \ {f} \subseteq DOMAIN x.pays
          BY <1>4, <1>9
        <5> QED BY <1>8, <5>1, <5>2, TotalSame
      <4>3. Ahead(x, r, i) = Total(x.pays, Prior(x, r, i)) /\ Over(x, r, i) = PaidFor(x, r) - Due(x, r) - Ahead(x, r, i)
        BY <1>8, OverIs
      <4>4. Ahead(x, r, i) = Ahead(s, r, i) - v
        <5>1. Ahead(s, r, i) = Total(s.pays, Prior(s, r, i) \ {f}) + v
          BY <1>9, <1>13, <3>3
        <5>2. Ahead(x, r, i) = Total(s.pays, Prior(s, r, i) \ {f})
          BY <4>1, <4>2, <4>3
        <5>3. Total(s.pays, Prior(s, r, i) \ {f}) \in Nat
          BY <1>14
        <5> QED BY <1>1, <5>1, <5>2, <5>3
      <4>5. Over(x, r, i) = Over(s, r, i)
        <5>1. Over(x, r, i) = (PaidFor(s, r) - v) - Due(s, r) - (Ahead(s, r, i) - v)
          BY <1>8, <2>1, <4>3, <4>4
        <5>2. Over(s, r, i) = over - Ahead(s, r, i) /\ Ahead(s, r, i) \in Nat
          BY <1>9
        <5> QED BY <1>1, <1>2, <5>1, <5>2
      <4>6. x.pays[i] = s.pays[i] /\ i \in Of(x, r, Kinds)
        BY <1>12, <2>3, <3>3
      <4> QED BY <3>3, <4>5, <4>6 DEF Left
    <3> QED BY <3>1, <3>2, <3>3
  <2> QED BY <2>2, <2>4, <2>5 DEF Trimmed
<1> QED BY <1>1, <1>2, <1>16, <1>17

(* A row cut, the save, and the balance.                                   *)
LEMMA FirstCut ==
  ASSUME NEW save, Contract(save), Thrift(save), NEW s, Sane(s), NEW r \in DOMAIN s.regs, ~s.failed, Live(s, r), Gathered(s, r),
         NEW over, over = PaidFor(s, r) - Due(s, r), over > 0,
         NEW piece, Fits(s, r, piece), piece.row = s.pays[piece.id], piece.id \in Of(s, r, Kinds),
         Prior(s, r, piece.id) = {}, \A i \in Of(s, r, Kinds) : i # piece.id => FirstTaken(s, piece.id, i),
         NEW t, t = Cut(save, s, r, piece, over)
  PROVE  ModestBut(s, r, t) /\ Trimmed(s, r, t)
<1> DEFINE x == Taken(s, piece, over)
           y == save[x][r]
<1>1. t = Recompute(save, y, piece.row.kind) /\ x = Taken(s, piece, over) /\ y = save[x][r]
  BY DEF Cut
<1> HIDE DEF x, y
<1>2. over \in Int /\ piece.row.kind \in Kinds
  BY SaneTotals DEF Fits
<1>3. ModestBut(s, r, x)
  BY <1>1, <1>2, TakenPaid
<1>4. Sane(x) /\ r \in DOMAIN x.regs
  BY <1>3 DEF ModestBut, Carries, Framed
<1>5. Modest(x, y)
  BY <1>1, <1>4, ThriftyAt DEF Thrifty
<1>6. ModestBut(s, r, y)
  BY <1>3, <1>5, ModestIsBut, ModestButOn
<1>7. Sane(y) /\ Carries(s, y)
  BY <1>6 DEF ModestBut, Carries
<1>8. Modest(y, t)
  BY <1>1, <1>2, <1>7, RecomputeModest
<1>9. ModestBut(s, r, t)
  BY <1>6, <1>8, ModestIsBut, ModestButOn
<1>10. Trimmed(s, r, y)
  BY <1>1, FirstCutPart
<1> QED BY <1>7, <1>8, <1>9, <1>10, TrimmedOn

-----------------------------------------------------------------------------
(* A later cut finds its row at what it would cut it to.                   *)
LEMMA LaterCutNothing ==
  ASSUME NEW s, Sane(s), NEW r \in DOMAIN s.regs, Live(s, r), NEW d, Carries(s, d), ~d.failed, Trimmed(s, r, d),
         NEW piece, Fits(s, r, piece), piece.row = s.pays[piece.id], piece.id \in Of(s, r, Kinds),
         NEW over, over = Over(s, r, piece.id), over > 0
  PROVE  Taken(d, piece, over) = d
<1> DEFINE f == piece.id
           p == d.pays[f]
           w == Kept(piece, over)
<1>1. f \in DOMAIN s.pays /\ f \in RowsOf(s, r) /\ piece.row.value = s.pays[f].value /\ s.pays[f].value \in Nat
  BY SaneFields DEF Of, RowsOf, Payment
<1>2. over \in Int
  BY OverIs
<1>3. Sane(d) /\ f \in DOMAIN d.pays /\ d.pays \in Seq(Payment) /\ p \in Payment
  BY <1>1, SaneFields DEF Carries, Grown
<1>4. p.value = Left(s, r, f)
  BY <1>1 DEF Trimmed
<1>5. Left(s, r, f) = w
  BY <1>1, <1>2 DEF Left, Kept
<1>6. p.value = (IF p.value = 0 THEN 0 ELSE w)
  BY <1>4, <1>5
<1>7. [p EXCEPT !.value = (IF p.value = 0 THEN 0 ELSE w)] = p
  BY <1>3, <1>6 DEF Payment
<1>8. [d.pays EXCEPT ![f] = p] = d.pays
  BY <1>3
<1>9. [d EXCEPT !.pays = d.pays] = d
  BY <1>3 DEF Sane, DB
<1>10. Taken(d, piece, over) = [d EXCEPT !.pays = [d.pays EXCEPT ![f] = [p EXCEPT !.value = (IF p.value = 0 THEN 0 ELSE w)]]]
  BY <1>3 DEF Taken, Sane, DB
<1> QED BY <1>7, <1>8, <1>9, <1>10

(* Each later cut of the list saves what is saved already.                 *)
LEMMA LaterCut ==
  ASSUME NEW save, Contract(save), Thrift(save), NEW s, Sane(s), NEW r \in DOMAIN s.regs, Live(s, r),
         NEW d, ModestBut(s, r, d), Trimmed(s, r, d),
         NEW piece, Fits(s, r, piece), piece.row = s.pays[piece.id], piece.id \in Of(s, r, Kinds),
         NEW over, over = Over(s, r, piece.id), over > 0, NEW t, t = Cut(save, d, r, piece, over)
  PROVE  ModestBut(s, r, t) /\ Trimmed(s, r, t)
<1>1. Sane(d) /\ Carries(s, d) /\ r \in DOMAIN d.regs
  BY DEF ModestBut, Carries, Framed
<1>2. CASE d.failed
  BY <1>2 DEF Cut
<1>3. CASE ~d.failed
  <2> DEFINE y == save[d][r]
  <2>1. Taken(d, piece, over) = d
    BY <1>1, <1>3, LaterCutNothing
  <2>2. t = Recompute(save, y, piece.row.kind) /\ y = save[d][r]
    BY <1>3, <2>1 DEF Cut
  <2> HIDE DEF y
  <2>3. Modest(d, y)
    BY <1>1, <2>2, ThriftyAt DEF Thrifty
  <2>4. Sane(y) /\ piece.row.kind \in Kinds
    BY <2>3 DEF Modest, Carries, Fits
  <2>5. Modest(y, t)
    BY <2>2, <2>4, RecomputeModest
  <2>6. Modest(d, t)
    BY <1>1, <2>3, <2>5, ModestOn
  <2> QED BY <1>1, <2>6, ModestIsBut, ModestButOn, TrimmedOn
<1> QED BY <1>2, <1>3

(* What is left of the registration whose overpayment is handed back.      *)
Returning(s, r, list, n, acc) ==
  /\ n = 0 => acc.db = s /\ acc.over > 0
  /\ ModestBut(s, r, acc.db)
  /\ n > 0 => Trimmed(s, r, acc.db)
  /\ acc.over > 0 /\ n < Len(list) => acc.over = Over(s, r, list[n + 1].id)

(* One turn of the loop over the list read at its start: what it counts as *)
(* still overpaid is what the order of the list says.                      *)
LEMMA ReturnsOne ==
  ASSUME NEW save, Contract(save), Thrift(save), NEW s, Sane(s), NEW r \in DOMAIN s.regs, ~s.failed, Live(s, r), Gathered(s, r),
         PaidFor(s, r) > Due(s, r), NEW list, list = Reversible(s, r), NEW n \in 1..Len(list),
         NEW acc \in [db : DB, over : Int], Returning(s, r, list, n - 1, acc), acc.over > 0,
         NEW y, y = Cut(save, acc.db, r, list[n], acc.over)
  PROVE  /\ ModestBut(s, r, y) /\ Trimmed(s, r, y) /\ acc.over - list[n].row.value \in Int
         /\ n < Len(list) => acc.over - list[n].row.value = Over(s, r, list[n + 1].id)
<1>1. /\ Len(list) \in Nat
      /\ Fits(s, r, list[n]) /\ list[n].row = s.pays[list[n].id] /\ list[n].id \in Of(s, r, Kinds)
  BY ReversibleLists
<1>2. n \in Nat /\ n - 1 < Len(list) /\ (n - 1) + 1 = n /\ (n # 1 => n - 1 > 0) /\ 1 \in 1..Len(list) /\ Len(list) > 0
  BY <1>1
<1>3. acc.over = Over(s, r, list[n].id)
  <2> DEFINE m == n - 1
  <2>1. m < Len(list) /\ m + 1 = n /\ Returning(s, r, list, m, acc)
    BY <1>2
  <2> HIDE DEF m
  <2> QED BY <2>1 DEF Returning
<1>4. ModestBut(s, r, y) /\ Trimmed(s, r, y)
  <2>1. CASE n = 1
    <3>1. acc.db = s
      <4>1. n - 1 = 0
        BY <2>1
      <4> QED BY <4>1 DEF Returning
    <3>2. Prior(s, r, list[1].id) = {} /\ \A i \in Of(s, r, Kinds) : i # list[1].id => FirstTaken(s, list[1].id, i)
      BY <1>2, AheadInList
    <3>3. acc.over = PaidFor(s, r) - Due(s, r)
      <4>1. Ahead(s, r, list[1].id) = 0
        <5>1. Total(s.pays, {}) = 0
          BY SumOfNone DEF Total
        <5> QED BY <3>2, <5>1, OverIs
      <4> QED BY <1>3, <2>1, <4>1, OverIs
    <3>4. y = Cut(save, s, r, list[1], acc.over)
      BY <2>1, <3>1
    <3> QED BY <1>1, <2>1, <3>2, <3>3, <3>4, FirstCut
  <2>2. CASE n # 1
    <3>1. ModestBut(s, r, acc.db) /\ Trimmed(s, r, acc.db)
      BY <1>2, <2>2 DEF Returning
    <3> QED BY <1>1, <1>3, <3>1, LaterCut
  <2> QED BY <2>1, <2>2
<1>5. s.pays[list[n].id].value \in Nat
  BY <1>1, SaneFields DEF Of, Payment
<1>6. ASSUME n < Len(list) PROVE acc.over - list[n].row.value = Over(s, r, list[n + 1].id)
  <2>1. Ahead(s, r, list[n + 1].id) = Ahead(s, r, list[n].id) + s.pays[list[n].id].value
    BY <1>1, <1>2, <1>6, AheadInList
  <2>2. \A i : Over(s, r, i) = PaidFor(s, r) - Due(s, r) - Ahead(s, r, i) /\ Ahead(s, r, i) \in Nat /\ PaidFor(s, r) \in Nat /\ Due(s, r) \in Nat
    BY OverIs
  <2>3. acc.over = PaidFor(s, r) - Due(s, r) - Ahead(s, r, list[n].id)
    BY <1>3, <2>2
  <2>4. Over(s, r, list[n + 1].id) = PaidFor(s, r) - Due(s, r) - (Ahead(s, r, list[n].id) + s.pays[list[n].id].value)
    BY <2>1, <2>2
  <2>5. Ahead(s, r, list[n].id) \in Nat /\ PaidFor(s, r) \in Nat /\ Due(s, r) \in Nat
    BY <2>2
  <2> QED BY <1>1, <1>5, <2>3, <2>4, <2>5
<1>7. acc.over - list[n].row.value \in Int
  BY <1>1, <1>5
<1> QED BY <1>4, <1>6, <1>7

(* An overpayment is taken from each row once.                             *)
LEMMA OverpayTrims ==
  ASSUME NEW save, Contract(save), Thrift(save), NEW s, Sane(s), NEW r \in DOMAIN s.regs, ~s.failed, Live(s, r), Gathered(s, r),
         NEW over, over = PaidFor(s, r) - Due(s, r), over > 0, NEW t, t = Overpay(save, s, r, over)
  PROVE  ModestBut(s, r, t) /\ Trimmed(s, r, t) /\ (Of(s, r, Kinds) = {} => t = s)
<1> DEFINE list == Reversible(s, r)
           cut == Cutting(save, r)
           start == [db |-> s, over |-> over]
           Acc == [db : DB, over : Int]
           I == [n \in 0..Len(list) |-> {acc \in Acc : Returning(s, r, list, n, acc)}]
<1>1. t = Through(cut, start, list).db
  BY Zenon DEF Overpay, Cutting
<1>2. /\ Len(list) \in Nat
      /\ \A n \in 1..Len(list) : Fits(s, r, list[n]) /\ list[n].id \in Of(s, r, Kinds)
      /\ \A i \in Of(s, r, Kinds) : \E n \in 1..Len(list) : list[n].id = i
  BY ReversibleLists
<1>3. over \in Int /\ PaidFor(s, r) \in Nat /\ Due(s, r) \in Nat /\ PaidFor(s, r) > Due(s, r)
  BY SaneTotals
<1>4. list = Reversible(s, r) /\ cut = Cutting(save, r) /\ start = [db |-> s, over |-> over]
  OBVIOUS
<1>5. Len(list) \in 0..Len(list) /\ 0 \in 0..Len(list)
  BY <1>2
<1> HIDE DEF list, cut
<1>6. start \in I[0]
  <2>1. ModestBut(s, r, s)
    BY ModestItself, ModestIsBut
  <2>2. 0 < Len(list) => over = Over(s, r, list[0 + 1].id)
    <3> SUFFICES ASSUME 0 < Len(list) PROVE over = Over(s, r, list[1].id)
      OBVIOUS
    <3>1. Prior(s, r, list[1].id) = {}
      BY <1>4, AheadInList
    <3>2. Ahead(s, r, list[1].id) = 0
      <4>1. Total(s.pays, {}) = 0
        BY SumOfNone DEF Total
      <4> QED BY <3>1, <4>1, OverIs
    <3> QED BY <1>3, <3>2, OverIs
  <2>3. Returning(s, r, list, 0, start)
    BY <2>1, <2>2 DEF Returning
  <2> QED BY <1>3, <1>5, <2>3 DEF Sane
<1>7. ASSUME NEW n \in 1..Len(list), NEW acc \in I[n - 1] PROVE cut[acc][list[n]] \in I[n]
  <2>1. n - 1 \in 0..Len(list) /\ n \in 0..Len(list) /\ n # 0 /\ n > 0 /\ n - 1 \in Nat
    BY <1>2
  <2>2. acc \in Acc /\ Returning(s, r, list, n - 1, acc)
    BY <2>1
  <2>3. list[n] \in CutItem
    BY <1>2 DEF Fits
  <2>4. CASE acc.over <= 0
    <3>1. cut[acc][list[n]] = acc
      <4>1. acc \in [db : DB, over : Int]
        BY <2>2
      <4>2. Cutting(save, r)[acc][list[n]] = acc
        BY <2>3, <2>4, <4>1 DEF Cutting, CutItem
      <4> QED BY <1>4, <4>2
    <3>2. n - 1 > 0 /\ ~(acc.over > 0)
      <4>1. acc.over \in Int
        BY <2>2
      <4>2. n - 1 # 0
        BY <2>2, <2>4, <4>1 DEF Returning
      <4> QED BY <2>1, <2>4, <4>1, <4>2
    <3>3. Returning(s, r, list, n, acc)
      BY <2>1, <2>2, <3>2 DEF Returning
    <3> QED BY <2>1, <2>2, <3>1, <3>3
  <2>5. CASE acc.over > 0
    <3> DEFINE y == Cut(save, acc.db, r, list[n], acc.over)
               z == [db |-> y, over |-> acc.over - list[n].row.value]
    <3>1. cut[acc][list[n]] = z
      BY <1>4, <2>2, <2>3, <2>5, CuttingIs
    <3>2. y = Cut(save, acc.db, r, list[n], acc.over)
      OBVIOUS
    <3> HIDE DEF y
    <3>3. /\ ModestBut(s, r, y) /\ Trimmed(s, r, y) /\ acc.over - list[n].row.value \in Int
          /\ n < Len(list) => acc.over - list[n].row.value = Over(s, r, list[n + 1].id)
      BY <1>3, <1>4, <2>2, <2>5, <3>2, ReturnsOne
    <3>4. y \in DB
      BY <3>3 DEF ModestBut, Carries, Sane
    <3>5. z \in Acc /\ z.db = y /\ z.over = acc.over - list[n].row.value
      BY <3>3, <3>4
    <3> HIDE DEF z
    <3>6. Returning(s, r, list, n, z)
      BY <2>1, <3>3, <3>5 DEF Returning
    <3> QED BY <2>1, <3>1, <3>5, <3>6
  <2>6. acc.over \in Int
    BY <2>2
  <2> QED BY <2>4, <2>5, <2>6
<1>8. \A acc \in I[Len(list)] : Returning(s, r, list, Len(list), acc)
  BY <1>5
<1> HIDE DEF I, start
<1>9. Through(cut, start, list) \in I[Len(list)]
  BY <1>2, <1>6, <1>7, ThroughHolds
<1>10. ModestBut(s, r, t) /\ (Len(list) > 0 => Trimmed(s, r, t)) /\ (Len(list) = 0 => t = s)
  BY <1>1, <1>8, <1>9 DEF Returning
<1>11. CASE Of(s, r, Kinds) = {}
  <2>1. Len(list) = 0
    <3>1. ~(1 \in 1..Len(list))
      BY <1>2, <1>11
    <3> QED BY <1>2, <3>1
  <2>2. Steady(s, r)
    BY <1>3, <1>11 DEF Steady, Live, Active
  <2>3. Trimmed(s, r, s)
    BY <1>11, <2>2 DEF Trimmed, Left
  <2> QED BY <1>10, <2>1, <2>3
<1>12. CASE Of(s, r, Kinds) # {}
  <2>1. Len(list) > 0
    BY <1>2, <1>12
  <2> QED BY <1>10, <1>12, <2>1
<1> QED BY <1>11, <1>12

(* The save of an overpaid registration.                                   *)
LEMMA OverpaidThrifty ==
  ASSUME NEW save, Contract(save), Thrift(save), NEW s, Sane(s), NEW r \in DOMAIN s.regs, ~s.failed, Live(s, r), Gathered(s, r),
         Rest(s, r) < 0, NEW d, d = Overpay(save, s, r, 0 - Rest(s, r)), NEW t, t = Stored(d, r, PaidFor(s, r))
  PROVE  Thrifty(s, r, t)
<1>1. PaidFor(s, r) \in Int /\ Due(s, r) \in Int /\ Rest(s, r) \in Int /\ PaidFor(s, r) > Due(s, r)
      /\ 0 - Rest(s, r) = PaidFor(s, r) - Due(s, r) /\ PaidFor(s, r) - Due(s, r) > 0
  BY SaneTotals DEF Rest
<1>2. ModestBut(s, r, d) /\ Trimmed(s, r, d) /\ (Of(s, r, Kinds) = {} => d = s)
  BY <1>1, OverpayTrims
<1>3. Sane(d) /\ Carries(s, d) /\ r \in DOMAIN d.regs
  BY <1>2 DEF ModestBut, Carries, Framed
<1>4. Modest(d, t)
  BY <1>1, <1>3, StoredModest
<1>5. ModestBut(s, r, t)
  BY <1>2, <1>4, ModestIsBut, ModestButOn
<1>6. StaysSteady(s, t, r)
  BY <1>1, <1>2, <1>4 DEF StaysSteady, Steady, Modest
<1>7. Modest(s, t)
  BY <1>5, <1>6, ModestFrom
<1>8. Trimmed(s, r, t)
  BY <1>2, <1>3, <1>4, TrimmedOn
<1>9. PaysCredits(s, r, t)
  BY <1>1 DEF PaysCredits
<1> QED BY <1>7, <1>8, <1>9 DEF Thrifty, Trims, Live, Active

-----------------------------------------------------------------------------
(* One save is thrifty when those it fires are.                            *)
LEMMA SavingThrifty ==
  ASSUME NEW save, Contract(save), Thrift(save), NEW s0, Sane(s0), NEW r \in DOMAIN s0.regs, NEW t, t = Saving(save, s0, r)
  PROVE  Thrifty(s0, r, t)
<1> DEFINE s == Transferred(s0, r)
           paid == PaidFor(s, r)
           rem == Due(s, r) - paid
           u == Use(save, s, r, rem)
           d == Overpay(save, s, r, 0 - rem)
<1>1. /\ Carries(s0, s) /\ s.failed = s0.failed /\ s.regs = s0.regs
      /\ ~s0.regs[r].cancelled => Gathered(s, r)
  BY Transfers
<1>2. Sane(s) /\ r \in DOMAIN s.regs
  BY <1>1 DEF Carries
<1>3. paid = PaidFor(s, r) /\ rem = Rest(s, r) /\ s = Transferred(s0, r)
  BY DEF Rest
<1>4. t = IF s0.failed THEN s0
          ELSE IF Closed(s, r) THEN s
          ELSE IF rem = 0 \/ s.regs[r].cancelled \/ ~s.accepted THEN Stored(s, r, paid)
          ELSE IF rem > 0 THEN Stored(u.db, r, paid + u.used)
          ELSE Stored(d, r, paid)
  BY DEF Saving
<1>5. u = Use(save, s, r, rem) /\ d = Overpay(save, s, r, 0 - rem)
  OBVIOUS
<1> HIDE DEF s, paid, rem, u, d
<1>6. rem \in Int
  BY <1>2, <1>3, SaneTotals DEF Rest
<1>7. CASE s0.failed
  <2>1. t = s0
    BY <1>4, <1>7
  <2> QED BY <1>7, <2>1, IdleThrifty
<1>8. CASE ~s0.failed
  <2>1. Thrifty(s, r, t)
    <3>1. CASE Closed(s, r)
      <4>1. t = s
        BY <1>4, <1>8, <3>1
      <4> QED BY <1>2, <3>1, <4>1, IdleThrifty
    <3>2. CASE ~Closed(s, r) /\ (rem = 0 \/ s.regs[r].cancelled \/ ~s.accepted)
      <4>1. t = Stored(s, r, PaidFor(s, r))
        BY <1>3, <1>4, <1>8, <3>2
      <4>2. Rest(s, r) = 0 \/ ~Live(s, r)
        BY <1>3, <3>2 DEF Live, Active
      <4> QED BY <1>2, <4>1, <4>2, StoredThrifty
    <3>3. CASE ~Closed(s, r) /\ ~(rem = 0 \/ s.regs[r].cancelled \/ ~s.accepted)
      <4>1. Live(s, r) /\ Gathered(s, r) /\ ~s.failed
        BY <1>1, <1>8, <3>3 DEF Live, Active
      <4>2. CASE rem > 0
        <5>1. t = Stored(u.db, r, PaidFor(s, r) + u.used) /\ u = Use(save, s, r, Rest(s, r)) /\ Rest(s, r) > 0
          BY <1>3, <1>4, <1>5, <1>8, <3>3, <4>2
        <5> QED BY <1>2, <4>1, <5>1, PayingThrifty
      <4>3. CASE ~(rem > 0)
        <5>1. t = Stored(d, r, PaidFor(s, r)) /\ d = Overpay(save, s, r, 0 - Rest(s, r))
          BY <1>3, <1>4, <1>5, <1>8, <3>3, <4>3
        <5>2. Rest(s, r) < 0
          BY <1>3, <1>6, <3>3, <4>3
        <5> QED BY <1>2, <4>1, <5>1, <5>2, OverpaidThrifty
      <4> QED BY <4>2, <4>3
    <3> QED BY <3>1, <3>2, <3>3
  <2> QED BY <1>3, <2>1, TransferThrifty
<1> QED BY <1>7, <1>8

(* The save that is nested too deep only fails.                            *)
LEMMA GivesUpThrifty ==
  ASSUME NEW s, Sane(s), NEW r \in DOMAIN s.regs, NEW t, t = [s EXCEPT !.failed = TRUE]
  PROVE  Thrifty(s, r, t)
<1>1. Carries(s, t)
  BY GivesUp DEF Meets
<1>2. t.bal = s.bal /\ t.pays = s.pays /\ t.failed
  BY DEF Sane, DB
<1>3. \A k \in Kinds : t.bal[k] <= s.bal[k]
  BY <1>2, SaneFields
<1>4. Modest(s, t)
  BY <1>1, <1>2, <1>3, SameRows
<1> QED BY <1>2, <1>4 DEF Thrifty, PaysCredits, Trims, Trimmed

(* Every save is thrifty, however deep saves may nest.                     *)
LEMMA SaveThrifty == Thrift(Save)
<1> DEFINE save == CHOOSE save : IsSave(save, MaxDepth)
<1>1. MaxDepth \in Nat
  BY BoundsAssumption
<1>2. IsSave(save, MaxDepth)
  BY <1>1, SaveExists
<1>3. Save = save[MaxDepth]
  BY Zenon DEF Save, IsSave
<1> HIDE DEF save
<1> DEFINE Bad == {n \in 0..MaxDepth : ~(Contract(save[n]) /\ Thrift(save[n]))}
<1>4. ASSUME Bad # {} PROVE FALSE
  <2>1. Bad \subseteq Nat
    OBVIOUS
  <2> HIDE DEF Bad
  <2>2. PICK n \in Bad : \A m \in Bad : n <= m
    BY <1>4, <2>1, LeastNatural
  <2>3. n \in 0..MaxDepth /\ ~(Contract(save[n]) /\ Thrift(save[n]))
    BY DEF Bad
  <2>4. PICK s, r : Sane(s) /\ r \in DOMAIN s.regs /\ ~(Meets(s, r, save[n][s][r]) /\ Thrifty(s, r, save[n][s][r]))
    BY <2>3 DEF Contract, Thrift
  <2>5. s \in DB /\ r \in Nat
    BY <2>4, SaneFields DEF Sane
  <2>6. save[n][s][r] = IF n = 0 THEN [s EXCEPT !.failed = TRUE] ELSE Saving(save[n - 1], s, r)
    <3>1. save[n] = [d \in DB |-> [q \in Nat |-> IF n = 0 THEN [d EXCEPT !.failed = TRUE] ELSE Saving(save[n - 1], d, q)]]
      BY <1>2, <2>3 DEF IsSave
    <3> QED BY <2>5, <3>1
  <2>7. CASE n = 0
    <3>1. save[n][s][r] = [s EXCEPT !.failed = TRUE]
      BY <2>6, <2>7
    <3> QED BY <2>4, <3>1, GivesUp, GivesUpThrifty
  <2>8. CASE n # 0
    <3>1. n - 1 \in 0..MaxDepth /\ n - 1 \notin Bad
      BY <1>1, <2>2, <2>3, <2>8
    <3>2. Contract(save[n - 1]) /\ Thrift(save[n - 1])
      BY <3>1 DEF Bad
    <3>3. save[n][s][r] = Saving(save[n - 1], s, r)
      BY <2>6, <2>8
    <3> QED BY <2>4, <3>2, <3>3, SavingMeets, SavingThrifty
  <2> QED BY <2>7, <2>8
<1>5. MaxDepth \in 0..MaxDepth /\ MaxDepth \notin Bad
  BY <1>1, <1>4
<1> QED BY <1>3, <1>5

-----------------------------------------------------------------------------
(* What a part of a request may do to the balances, when nothing that was  *)
(* given is withdrawn, and what a whole request may do.                    *)
Prudent(s, t) ==
  /\ Sane(t) /\ Fair(t)
  /\ \A k \in Kinds : t.given[k] >= s.given[k] /\ (Used(t, k) <= Used(s, k) \/ Used(t, k) <= t.given[k])
Wary(s, t) == Fair(t) /\ \A k \in Kinds : Used(t, k) > Used(s, k) => Used(t, k) <= t.given[k]

(* A request of prudent parts.                                             *)
LEMMA PrudentIsWary ==
  ASSUME NEW s, NEW t, Sane(s), Prudent(s, t)
  PROVE  Wary(s, t)
<1>1. \A k \in Kinds : Used(s, k) \in Int /\ Used(t, k) \in Int
  BY SaneTotals DEF Prudent
<1> QED BY <1>1 DEF Prudent, Wary

(* A save after such a part.                                               *)
LEMMA ModestPrudent ==
  ASSUME NEW s, NEW t, NEW u, Sane(s), Prudent(s, t), Modest(t, u)
  PROVE  Prudent(s, u)
<1>1. Sane(t) /\ Sane(u) /\ u.given = t.given /\ Fair(u) /\ Covers(t, u)
  BY DEF Prudent, Modest, Carries, Framed, Spends
<1>2. \A k \in Kinds : Used(s, k) \in Int /\ Used(t, k) \in Int /\ Used(u, k) \in Int /\ t.given[k] \in Int
  BY <1>1, SaneTotals, SaneFields
<1> QED BY <1>1, <1>2 DEF Prudent, Covers

(* An edit that uses no more and withdraws nothing.                        *)
LEMMA EditPrudent ==
  ASSUME NEW s, NEW t, NEW u, Sane(s), Prudent(s, t), Sane(u), u.failed = t.failed, u.bal = t.bal,
         \A k \in Kinds : u.given[k] >= t.given[k] /\ Used(u, k) <= Used(t, k)
  PROVE  Prudent(s, u)
<1>1. Sane(t)
  BY DEF Prudent
<1>2. \A k \in Kinds : /\ Used(s, k) \in Int /\ Used(t, k) \in Int /\ Used(u, k) \in Int /\ t.bal[k] \in Int
                       /\ s.given[k] \in Int /\ t.given[k] \in Int /\ u.given[k] \in Int
  BY <1>1, SaneTotals, SaneFields
<1>3. Fair(u)
  BY <1>2 DEF Prudent, Fair
<1> QED BY <1>2, <1>3 DEF Prudent

(* Nothing done is prudent.                                                *)
LEMMA PrudentItself ==
  ASSUME NEW s, Sane(s), Fair(s)
  PROVE  Prudent(s, s)
<1>1. \A k \in Kinds : Used(s, k) \in Int /\ s.given[k] \in Int
  BY SaneTotals, SaneFields
<1> QED BY <1>1 DEF Prudent

(* The same rows, balances and failure, and nothing withdrawn.             *)
LEMMA SameRowsPrudent ==
  ASSUME NEW s, NEW t, NEW u, Sane(s), Prudent(s, t), Sane(u), u.failed = t.failed, u.bal = t.bal, u.pays = t.pays,
         \A k \in Kinds : u.given[k] >= t.given[k]
  PROVE  Prudent(s, u)
<1>1. \A k \in Kinds : Used(u, k) = Used(t, k)
  BY DEF Used
<1>2. \A k \in Kinds : Used(u, k) <= Used(t, k)
  BY <1>1, SaneTotals
<1> QED BY <1>2, EditPrudent

(* An edit of prices, runs, bonuses or gifts.                              *)
LEMMA EditedPrudent ==
  ASSUME NEW s, Sane(s), Fair(s), NEW u, Edited(s, u), \A k \in Kinds : u.given[k] >= s.given[k]
  PROVE  Prudent(s, u)
BY PrudentItself, SameRowsPrudent DEF Edited

(* Then a registration is saved.                                           *)
LEMMA HandledPrudent ==
  ASSUME NEW s, NEW x, Sane(s), Prudent(s, x), NEW r \in DOMAIN x.regs, NEW t, t = Handle(x, r)
  PROVE  Prudent(s, t)
<1>1. Modest(x, t)
  BY SaveThrifty, ThriftyAt DEF Handle, Thrifty, Prudent
<1> QED BY <1>1, ModestPrudent

(* Then a balance is recalculated.                                         *)
LEMMA RecomputedPrudent ==
  ASSUME NEW s, NEW x, Sane(s), Prudent(s, x), NEW k \in Kinds, NEW t, t = Recompute(Save, x, k)
  PROVE  Prudent(s, t)
<1>1. Modest(x, t)
  BY SaveThrifty, RecomputeModest DEF Prudent
<1> QED BY <1>1, ModestPrudent

(* Then all registrations of a list are saved.                             *)
LEMMA AllSavedPrudent ==
  ASSUME NEW s, NEW x, Sane(s), Prudent(s, x), NEW list \in Seq(DOMAIN x.regs), NEW t, t = SaveAll(Save, x, list)
  PROVE  Prudent(s, t)
<1>1. Modest(x, t)
  BY SaveThrifty, SavesAllModest DEF Prudent
<1> QED BY <1>1, ModestPrudent

(* A gift withdraws nothing.                                               *)
LEMMA GiftGiven ==
  ASSUME NEW s, Sane(s), NEW k \in Kinds, NEW v \in Nat, NEW regs, NEW refunds, NEW x, x = Gift(s, k, v, regs, refunds)
  PROVE  \A j \in Kinds : x.given[j] >= s.given[j]
<1> DEFINE given == [s.given EXCEPT ![k] = @ + v]
<1>1. s \in DB /\ s.given \in [Kinds -> Int]
  BY SaneFields DEF Sane
<1>2. \A j \in Kinds : s.given[j] \in Int /\ given[j] = IF j = k THEN s.given[j] + v ELSE s.given[j]
  BY <1>1
<1>3. \A j \in Kinds : given[j] >= s.given[j]
  BY <1>2
<1>4. x.given = given
  BY <1>1 DEF DB, Gift
<1> QED BY <1>3, <1>4

-----------------------------------------------------------------------------
(* A signup.                                                               *)
LEMMA SignUpWary ==
  ASSUME NEW s, Sound(s), Fair(s), NEW run \in AllRuns,
         NEW reg, reg = [run |-> run, cancelled |-> FALSE, refunded |-> FALSE, bonus |-> 0, paid |-> 0, due |-> 0],
         NEW x, x = [s EXCEPT !.regs = Append(@, reg)],
         NEW t, t = Handle(x, Len(s.regs) + 1)
  PROVE  Wary(s, t)
<1> DEFINE r == Len(s.regs) + 1
           regs == Append(s.regs, reg)
<1>1. s \in DB /\ WF(s) /\ Sane(s)
  BY SoundFields
<1>2. reg \in Registration
  BY DEF Registration
<1>3. s.regs \in Seq(Registration) /\ Len(s.regs) \in Nat /\ DOMAIN s.regs = 1..Len(s.regs)
  BY <1>1, SaneFields
<1>4. regs \in Seq(Registration) /\ DOMAIN regs = 1..r
  BY <1>2, <1>3, LenProperties
<1>5. x = [s EXCEPT !.regs = regs]
  BY <1>1 DEF DB
<1> HIDE DEF regs
<1>6. x.regs = regs /\ x.pays = s.pays /\ x.bal = s.bal /\ x.failed = s.failed /\ x.given = s.given /\ x \in DB
  BY <1>1, <1>4, <1>5 DEF DB
<1>7. DOMAIN s.regs \subseteq DOMAIN x.regs /\ r \in DOMAIN x.regs
  BY <1>3, <1>4, <1>6
<1>8. Sane(x)
  BY <1>1, <1>6, <1>7 DEF Sane, WF
<1>9. \A k \in Kinds : x.given[k] >= s.given[k]
  BY <1>1, <1>6, SaneFields
<1>10. Prudent(s, x)
  BY <1>1, <1>6, <1>8, <1>9, PrudentItself, SameRowsPrudent
<1> HIDE DEF r
<1>11. Prudent(s, t)
  BY <1>1, <1>7, <1>10, HandledPrudent DEF r
<1> QED BY <1>1, <1>11, PrudentIsWary

(* A request that saves nothing.                                           *)
LEMMA IdleWary ==
  ASSUME NEW s, Sound(s), Fair(s), NEW t, Sane(t), t.pays = s.pays, t.bal = s.bal, t.failed = s.failed, t.given = s.given
  PROVE  Wary(s, t)
<1>1. Sane(s)
  BY SoundFields
<1>2. \A k \in Kinds : t.given[k] >= s.given[k]
  BY <1>1, SaneFields
<1>3. Prudent(s, t)
  BY <1>1, <1>2, PrudentItself, SameRowsPrudent
<1> QED BY <1>1, <1>3, PrudentIsWary

(* A price is changed.                                                     *)
LEMMA RepriceWary ==
  ASSUME NEW s, Sound(s), Fair(s), NEW run \in AllRuns, NEW p \in s.bounds.prices,
         NEW t, t = [s EXCEPT !.price[run] = p, !.queued = @ \cup {run}]
  PROVE  Wary(s, t)
<1>1. Sane(t)
  BY RepriceSound DEF Sound
<1>2. t.pays = s.pays /\ t.bal = s.bal /\ t.failed = s.failed /\ t.given = s.given
  BY SoundFields DEF DB
<1> QED BY <1>1, <1>2, IdleWary

(* A run is closed.                                                        *)
LEMMA CloseRunWary ==
  ASSUME NEW s, Sound(s), Fair(s), NEW run \in AllRuns, NEW t, t = [s EXCEPT !.closed = @ \cup {run}]
  PROVE  Wary(s, t)
<1>1. Sane(t)
  BY CloseRunSound DEF Sound
<1>2. t.pays = s.pays /\ t.bal = s.bal /\ t.failed = s.failed /\ t.given = s.given
  BY SoundFields DEF DB
<1> QED BY <1>1, <1>2, IdleWary

(* Registrations are saved in turn, after an edit outside rows and sums.   *)
LEMMA ListWary ==
  ASSUME NEW s, Sound(s), Fair(s), NEW x, Sane(x), x.pays = s.pays, x.bal = s.bal, x.failed = s.failed, x.given = s.given,
         NEW ids, ids \subseteq DOMAIN x.regs, NEW list, list = Newest(ids), NEW t, t = SaveAll(Save, x, list)
  PROVE  Wary(s, t)
<1>1. Sane(s)
  BY SoundFields
<1>2. \A k \in Kinds : x.given[k] >= s.given[k]
  BY <1>1, SaneFields
<1>3. Prudent(s, x)
  BY <1>1, <1>2, PrudentItself, SameRowsPrudent
<1>4. list \in Seq(DOMAIN x.regs)
  BY NewestLists
<1>5. Prudent(s, t)
  BY <1>1, <1>3, <1>4, AllSavedPrudent
<1> QED BY <1>1, <1>5, PrudentIsWary

(* The member is accepted, and every registration saved.                   *)
LEMMA AcceptWary ==
  ASSUME NEW s, Sound(s), Fair(s), NEW t, t = SaveAll(Save, [s EXCEPT !.accepted = TRUE], Newest(DOMAIN s.regs))
  PROVE  Wary(s, t)
<1> DEFINE x == [s EXCEPT !.accepted = TRUE]
           ids == DOMAIN s.regs
<1>1. s \in DB /\ WF(s)
  BY SoundFields
<1>2. /\ x.given = s.given /\ x.regs = s.regs /\ x.pays = s.pays /\ x.bal = s.bal /\ x.failed = s.failed
      /\ x \in DB
  BY <1>1 DEF DB
<1>3. Sane(x) /\ ids \subseteq DOMAIN x.regs
  BY <1>1, <1>2 DEF Sane, WF
<1>4. t = SaveAll(Save, x, Newest(ids))
  OBVIOUS
<1> HIDE DEF x, ids
<1> QED BY <1>2, <1>3, <1>4, ListWary

(* The queued recalculation saves all registrations of its run.            *)
LEMMA CheckRegistrationsWary ==
  ASSUME NEW s, Sound(s), Fair(s), NEW run,
         NEW t, t = SaveAll(Save, [s EXCEPT !.queued = @ \ {run}], Newest({q \in DOMAIN s.regs : s.regs[q].run = run}))
  PROVE  Wary(s, t)
<1> DEFINE x == [s EXCEPT !.queued = @ \ {run}]
           ids == {q \in DOMAIN s.regs : s.regs[q].run = run}
<1>1. s \in DB /\ WF(s)
  BY SoundFields
<1>2. /\ x.given = s.given /\ x.regs = s.regs /\ x.pays = s.pays /\ x.bal = s.bal /\ x.failed = s.failed
      /\ x \in DB
  BY <1>1 DEF DB
<1>3. Sane(x) /\ ids \subseteq DOMAIN x.regs
  BY <1>1, <1>2 DEF Sane, WF
<1>4. t = SaveAll(Save, x, Newest(ids))
  OBVIOUS
<1> HIDE DEF x, ids
<1> QED BY <1>2, <1>3, <1>4, ListWary

(* Money comes in.                                                         *)
LEMMA PayMoneyWary ==
  ASSUME NEW s, Sound(s), Fair(s), NEW r \in DOMAIN s.regs, NEW v \in Nat,
         NEW t, t = Handle([s EXCEPT !.pays = Append(@, [reg |-> r, kind |-> "money", value |-> v])], r)
  PROVE  Wary(s, t)
<1> DEFINE entry == [reg |-> r, kind |-> "money", value |-> v]
           x == [s EXCEPT !.pays = Append(@, entry)]
<1>1. s \in DB /\ WF(s) /\ Sane(s)
  BY SoundFields
<1>2. entry \in Payment /\ entry.reg = r /\ \A k \in Kinds : entry.kind # k
  BY <1>1, SaneFields DEF Payment, Kinds
<1> HIDE DEF entry
<1>3. x = Recorded(s, s.bal, entry) /\ s.bal \in [Kinds -> Int]
  BY <1>1 DEF DB, Recorded
<1>4. t = Handle(x, r)
  BY DEF entry
<1> HIDE DEF x
<1>5. Carries(s, x) /\ x.bal = s.bal /\ x.pays = Append(s.pays, entry) /\ x.failed = s.failed
  BY <1>1, <1>2, <1>3, RowCreated
<1>6. Sane(x) /\ r \in DOMAIN x.regs /\ x.given = s.given
  BY <1>5 DEF Carries, Framed
<1>7. \A k \in Kinds : Used(x, k) = Used(s, k) + IF entry.kind = k THEN entry.value ELSE 0
  BY <1>1, <1>2, <1>5, <1>6, AppendedRow
<1>8. \A k \in Kinds : x.given[k] >= s.given[k] /\ Used(x, k) <= Used(s, k)
  <2>1. \A k \in Kinds : x.given[k] >= s.given[k]
    BY <1>1, <1>6, SaneFields
  <2>2. \A k \in Kinds : Used(x, k) = Used(s, k)
    BY <1>1, <1>2, <1>7, SaneTotals
  <2>3. \A k \in Kinds : Used(x, k) <= Used(s, k)
    BY <1>1, <2>2, SaneTotals
  <2> QED BY <2>1, <2>3
<1>9. Prudent(s, x)
  BY <1>1, <1>5, <1>6, <1>8, PrudentItself, EditPrudent
<1>10. Prudent(s, t)
  BY <1>1, <1>4, <1>6, <1>9, HandledPrudent
<1> QED BY <1>1, <1>10, PrudentIsWary

(* A row of lower value uses no more than before.                          *)
LEMMA LessUses ==
  ASSUME NEW s, NEW x, Sane(s), Sane(x), DOMAIN x.pays = DOMAIN s.pays, NEW i \in DOMAIN s.pays, NEW k, k = s.pays[i].kind,
         x.pays[i].kind = k, x.pays[i].value <= s.pays[i].value, \A j \in DOMAIN s.pays : j # i => x.pays[j] = s.pays[j]
  PROVE  Used(x, k) <= Used(s, k)
<1>1. RowsIn(x, k) = RowsIn(s, k) /\ i \in RowsIn(s, k) /\ RowsIn(s, k) \subseteq DOMAIN s.pays
  BY DEF RowsIn
<1>2. \A j \in RowsIn(s, k) : j # i => x.pays[j].value = s.pays[j].value
  BY <1>1
<1>3. Total(x.pays, RowsIn(s, k)) = Total(s.pays, RowsIn(s, k)) - s.pays[i].value + x.pays[i].value
  BY <1>1, <1>2, RowChanged
<1>4. Used(x, k) = Total(x.pays, RowsIn(x, k)) /\ Used(s, k) = Total(s.pays, RowsIn(s, k))
  BY DEF Used, RowsIn
<1>5. Total(s.pays, RowsIn(s, k)) \in Nat
  BY <1>1, TotalType, SaneFields
<1>6. s.pays[i].value \in Nat /\ x.pays[i].value \in Nat
  BY SaneFields, RowIs
<1> QED BY <1>1, <1>3, <1>4, <1>5, <1>6

(* Nor does one that is emptied.                                           *)
LEMMA EmptiedUses ==
  ASSUME NEW s, Sane(s), NEW i \in DOMAIN s.pays, NEW x, x = [s EXCEPT !.pays[i].value = 0], Sane(x)
  PROVE  Used(x, s.pays[i].kind) <= Used(s, s.pays[i].kind)
<1> DEFINE entry == [s.pays[i] EXCEPT !.value = 0]
<1>1. s.pays \in Seq(Payment) /\ s.pays[i] \in Payment
  BY SaneFields
<1>2. entry.kind = s.pays[i].kind /\ entry.value = 0 /\ s.pays[i].value \in Nat
  BY <1>1 DEF Payment
<1> HIDE DEF entry
<1>3. x.pays = [s.pays EXCEPT ![i] = entry]
  BY DEF Sane, DB, entry
<1>4. DOMAIN x.pays = DOMAIN s.pays /\ x.pays[i] = entry /\ \A j \in DOMAIN s.pays : j # i => x.pays[j] = s.pays[j]
  BY <1>1, <1>3
<1>5. x.pays[i].kind = s.pays[i].kind /\ x.pays[i].value <= s.pays[i].value
  BY <1>2, <1>4
<1> QED BY <1>4, <1>5, LessUses

(* A payment is deleted, its registration saved, and the balance           *)
(* recalculated.                                                           *)
LEMMA DropPaymentWary ==
  ASSUME NEW s, Sound(s), Fair(s), NEW i \in DOMAIN s.pays, NEW p, p = s.pays[i],
         NEW k, k = IF p.kind = "token" THEN "token" ELSE "credit",
         NEW t, t = Recompute(Save, Handle([s EXCEPT !.pays[i].value = 0], p.reg), k)
  PROVE  Wary(s, t)
<1> DEFINE x == [s EXCEPT !.pays[i].value = 0]
           y == Handle(x, p.reg)
<1>1. Sane(s) /\ p \in Payment /\ p.reg \in DOMAIN s.regs
  BY SoundFields, SaneFields
<1>2. k \in Kinds
  BY DEF Kinds
<1>3. t = Recompute(Save, y, k) /\ y = Handle(x, p.reg) /\ x = [s EXCEPT !.pays[i].value = 0]
  OBVIOUS
<1> HIDE DEF x, y
<1>4. PICK r : r = p.reg
  OBVIOUS
<1>5. /\ Carries(s, x) /\ x.bal = s.bal /\ x.failed = s.failed
      /\ \A j \in Kinds : j # p.kind => Used(x, j) = Used(s, j)
  BY <1>1, <1>3, <1>4, RowEmptied
<1>6. Sane(x) /\ x.given = s.given /\ r \in DOMAIN x.regs
  BY <1>1, <1>4, <1>5 DEF Carries, Framed
<1>7. Used(x, p.kind) <= Used(s, p.kind)
  BY <1>1, <1>3, <1>6, EmptiedUses
<1>8. \A j \in Kinds : Used(x, j) <= Used(s, j)
  BY <1>1, <1>5, <1>7, SaneTotals
<1>9. \A j \in Kinds : x.given[j] >= s.given[j]
  BY <1>1, <1>6, SaneFields
<1>10. Prudent(s, x)
  BY <1>1, <1>5, <1>6, <1>8, <1>9, PrudentItself, EditPrudent
<1>11. Prudent(s, y)
  BY <1>1, <1>3, <1>4, <1>6, <1>10, HandledPrudent
<1>12. Prudent(s, t)
  BY <1>1, <1>2, <1>3, <1>11, RecomputedPrudent
<1> QED BY <1>1, <1>12, PrudentIsWary

-----------------------------------------------------------------------------
(* Tokens or credits are given.                                            *)
LEMMA GiveWary ==
  ASSUME NEW s, Sound(s), Fair(s), NEW k \in Kinds, NEW v \in Nat,
         NEW t, t = Recompute(Save, [s EXCEPT !.given[k] = @ + v], k)
  PROVE  Wary(s, t)
<1> DEFINE x == [s EXCEPT !.given[k] = @ + v]
<1>1. s \in DB /\ Sane(s)
  BY SoundFields
<1>2. x = Gift(s, k, v, s.regs, s.refunds)
  BY <1>1 DEF DB, Gift
<1>3. v \in Int /\ RegsEdited(s, s.regs) /\ s.refunds \in SUBSET (Kinds \X AllRuns \X Nat)
  BY <1>1 DEF DB, RegsEdited
<1>4. t = Recompute(Save, x, k)
  OBVIOUS
<1> HIDE DEF x
<1>5. Edited(s, x)
  BY <1>2, <1>3, GivenEdits
<1>6. Prudent(s, x)
  BY <1>1, <1>2, <1>5, GiftGiven, EditedPrudent
<1>7. Prudent(s, t)
  BY <1>1, <1>4, <1>6, RecomputedPrudent
<1> QED BY <1>1, <1>7, PrudentIsWary

(* A friend code is used: a bonus is given, and its registration saved.    *)
LEMMA BringFriendWary ==
  ASSUME NEW s, Sound(s), Fair(s), NEW r \in DOMAIN s.regs, NEW v \in Nat,
         NEW t, t = Handle(Recompute(Save, [s EXCEPT !.given["token"] = @ + v, !.regs[r].bonus = v], "token"), r)
  PROVE  Wary(s, t)
<1> DEFINE x == [s EXCEPT !.given["token"] = @ + v, !.regs[r].bonus = v]
           y == Recompute(Save, x, "token")
           reg == [s.regs[r] EXCEPT !.bonus = v]
<1>1. s \in DB /\ Sane(s) /\ "token" \in Kinds /\ v \in Int
  BY SoundFields DEF Kinds
<1>2. s.regs[r] \in Registration
  BY <1>1, SaneFields
<1>3. /\ reg \in Registration /\ reg.run = s.regs[r].run /\ reg.paid = s.regs[r].paid /\ reg.due = s.regs[r].due
      /\ s.regs[r].cancelled => reg.cancelled
  BY <1>2 DEF Registration
<1>4. x = Gift(s, "token", v, [s.regs EXCEPT ![r] = reg], s.refunds)
  BY <1>1 DEF DB, Gift
<1>5. t = Handle(y, r) /\ y = Recompute(Save, x, "token")
  OBVIOUS
<1> HIDE DEF x, y, reg
<1>6. Edited(s, x) /\ \A j \in Kinds : j # "token" => x.given[j] = s.given[j]
  BY <1>1, <1>3, <1>4, GiftEdits
<1>7. Prudent(s, x)
  BY <1>1, <1>4, <1>6, GiftGiven, EditedPrudent
<1>8. Prudent(s, y)
  BY <1>1, <1>5, <1>7, RecomputedPrudent
<1>9. r \in DOMAIN y.regs
  <2>1. Carries(x, y)
    BY <1>1, <1>5, <1>6, EditRecomputed
  <2> QED BY <1>6, <2>1 DEF Edited, Carries, Framed
<1>10. Prudent(s, t)
  BY <1>1, <1>5, <1>8, <1>9, HandledPrudent
<1> QED BY <1>1, <1>10, PrudentIsWary

(* A refunded registration is marked and saved.                            *)
LEMMA MarkedPrudent ==
  ASSUME NEW s, Sane(s), NEW g, Sound(g), Prudent(s, g), NEW r \in DOMAIN g.regs,
         NEW t, t = Handle([g EXCEPT !.regs[r].refunded = TRUE], r)
  PROVE  Prudent(s, t)
<1> DEFINE reg == [g.regs[r] EXCEPT !.refunded = TRUE]
           z == [g EXCEPT !.regs[r].refunded = TRUE]
<1>1. g \in DB /\ Sane(g) /\ g.regs[r] \in Registration
  BY SoundFields, SaneFields
<1>2. /\ reg \in Registration /\ reg.run = g.regs[r].run /\ reg.paid = g.regs[r].paid /\ reg.due = g.regs[r].due
      /\ g.regs[r].cancelled => reg.cancelled
  BY <1>1 DEF Registration
<1>3. z = [g EXCEPT !.regs = [g.regs EXCEPT ![r] = reg]]
  BY <1>1 DEF DB
<1>4. t = Handle(z, r)
  OBVIOUS
<1> HIDE DEF z, reg
<1>5. Sound(z) /\ DOMAIN z.regs = DOMAIN g.regs
  BY <1>2, <1>3, RegEdits
<1>6. z.pays = g.pays /\ z.bal = g.bal /\ z.failed = g.failed /\ z.given = g.given
  BY <1>1, <1>3 DEF DB
<1>7. Sane(z) /\ \A j \in Kinds : z.given[j] >= g.given[j]
  BY <1>1, <1>5, <1>6, SaneFields DEF Sound
<1>8. Prudent(s, z)
  BY <1>6, <1>7, SameRowsPrudent
<1> QED BY <1>4, <1>5, <1>8, HandledPrudent

(* A cancelled registration is refunded.                                   *)
LEMMA RefundWary ==
  ASSUME NEW s, Sound(s), Fair(s), NEW r \in DOMAIN s.regs, NEW k \in Kinds, NEW v \in Nat,
         NEW key, key = <<k, s.regs[r].run, v>>,
         NEW g, g = IF key \in s.refunds THEN s
                    ELSE Recompute(Save, [s EXCEPT !.given[k] = @ + v, !.refunds = @ \cup {key}], k),
         NEW t, t = Handle([g EXCEPT !.regs[r].refunded = TRUE], r)
  PROVE  Wary(s, t)
<1> DEFINE x == [s EXCEPT !.given[k] = @ + v, !.refunds = @ \cup {key}]
           refunds == s.refunds \cup {key}
<1>1. s \in DB /\ Sane(s) /\ s.regs[r] \in Registration
  BY SoundFields, SaneFields
<1>2. refunds \in SUBSET (Kinds \X AllRuns \X Nat)
  <2>1. s.regs[r].run \in AllRuns /\ s.refunds \in SUBSET (Kinds \X AllRuns \X Nat)
    BY <1>1 DEF DB, Registration
  <2>2. key \in Kinds \X AllRuns \X Nat
    BY <2>1
  <2> HIDE DEF refunds
  <2> QED BY <2>1, <2>2 DEF refunds
<1>3. x = Gift(s, k, v, s.regs, refunds)
  BY <1>1 DEF DB, Gift
<1>4. g = IF key \in s.refunds THEN s ELSE Recompute(Save, x, k)
  OBVIOUS
<1> HIDE DEF refunds, x
<1>5. v \in Int /\ RegsEdited(s, s.regs)
  BY <1>1 DEF DB, RegsEdited
<1>6. Edited(s, x) /\ \A j \in Kinds : j # k => x.given[j] = s.given[j]
  BY <1>2, <1>3, <1>5, GivenEdits
<1>7. Sound(g) /\ r \in DOMAIN g.regs /\ Prudent(s, g)
  <2>1. CASE key \in s.refunds
    <3>1. g = s
      BY <1>4, <2>1, Zenon
    <3>2. Prudent(s, s)
      BY <1>1, PrudentItself
    <3> QED BY <3>1, <3>2, Zenon
  <2>2. CASE key \notin s.refunds
    <3>1. g = Recompute(Save, x, k)
      BY <1>4, <2>2
    <3>2. Carries(x, g) /\ Sound(g)
      BY <1>6, <3>1, EditRecomputed
    <3>3. Prudent(s, x)
      BY <1>1, <1>3, <1>6, GiftGiven, EditedPrudent
    <3>4. Prudent(s, g)
      BY <1>1, <3>1, <3>3, RecomputedPrudent
    <3> QED BY <1>6, <3>2, <3>4, Zenon DEF Edited, Carries, Framed
  <2> QED BY <2>1, <2>2
<1>8. Prudent(s, t)
  BY <1>1, <1>7, MarkedPrudent
<1> QED BY <1>1, <1>8, PrudentIsWary

(* Saving a cancelled registration moves no payment.                       *)
LEMMA CancelledIdle ==
  ASSUME NEW s, Sound(s), Fair(s), NEW r \in DOMAIN s.regs, NEW c, c = Cancelled(s, r)
  PROVE  Prudent(s, c) /\ \A k \in Kinds : Used(c, k) = Used(s, k)
<1> DEFINE x == [s EXCEPT !.regs[r].cancelled = TRUE]
           reg == [s.regs[r] EXCEPT !.cancelled = TRUE]
<1>1. s \in DB /\ Sane(s) /\ s.regs[r] \in Registration
  BY SoundFields, SaneFields
<1>2. /\ reg \in Registration /\ reg.run = s.regs[r].run /\ reg.paid = s.regs[r].paid /\ reg.due = s.regs[r].due
      /\ s.regs[r].cancelled => reg.cancelled
      /\ reg.cancelled
  BY <1>1 DEF Registration
<1>3. x = [s EXCEPT !.regs = [s.regs EXCEPT ![r] = reg]]
  BY <1>1 DEF DB
<1>4. c = Handle(x, r)
  BY DEF Cancelled
<1> HIDE DEF x, reg
<1>5. Sound(x) /\ DOMAIN x.regs = DOMAIN s.regs
  BY <1>2, <1>3, RegEdits
<1>6. x.pays = s.pays /\ x.bal = s.bal /\ x.failed = s.failed /\ x.given = s.given /\ x.regs = [s.regs EXCEPT ![r] = reg]
  BY <1>1, <1>3 DEF DB
<1>7. x.regs[r].cancelled
  BY <1>2, <1>6
<1>8. Sane(x) /\ \A j \in Kinds : x.given[j] >= s.given[j]
  BY <1>1, <1>5, <1>6, SaneFields DEF Sound
<1>9. Prudent(s, x)
  BY <1>1, <1>6, <1>8, PrudentItself, SameRowsPrudent
<1>10. Prudent(s, c)
  BY <1>1, <1>4, <1>5, <1>9, HandledPrudent
<1>11. c.pays = x.pays
  BY <1>4, <1>5, <1>7, <1>8, SaveThrifty, ThriftyAt DEF Handle, Thrifty
<1>12. \A k \in Kinds : Used(c, k) = Used(s, k)
  BY <1>6, <1>11 DEF Used
<1> QED BY <1>10, <1>12

(* A bonus is withdrawn: less is given, so the balance is recalculated.    *)
LEMMA WithdrawnFair ==
  ASSUME NEW c, Sound(c), Fair(c), NEW r \in DOMAIN c.regs, NEW bonus \in Nat,
         NEW t, t = Recompute(Save, [c EXCEPT !.given["token"] = @ - bonus, !.regs[r].bonus = 0], "token")
  PROVE  Wary(c, t)
<1> DEFINE x == [c EXCEPT !.given["token"] = @ - bonus, !.regs[r].bonus = 0]
           v == 0 - bonus
           reg == [c.regs[r] EXCEPT !.bonus = 0]
<1>1. c \in DB /\ Sane(c) /\ "token" \in Kinds
  BY SoundFields DEF Kinds
<1>2. c.regs[r] \in Registration
  BY <1>1, SaneFields
<1>3. /\ reg \in Registration /\ reg.run = c.regs[r].run /\ reg.paid = c.regs[r].paid /\ reg.due = c.regs[r].due
      /\ c.regs[r].cancelled => reg.cancelled
  BY <1>2 DEF Registration
<1>4. c.given \in [Kinds -> Int] /\ v \in Int
  BY <1>1 DEF DB
<1>5. [c.given EXCEPT !["token"] = @ - bonus] = [c.given EXCEPT !["token"] = @ + v]
  <2>1. c.given["token"] \in Int
    BY <1>1, <1>4
  <2>2. c.given["token"] - bonus = c.given["token"] + v
    BY <2>1
  <2> QED BY <2>2
<1>6. x = Gift(c, "token", v, [c.regs EXCEPT ![r] = reg], c.refunds)
  <2> HIDE DEF v
  <2> QED BY <1>1, <1>5 DEF DB, Gift
<1>7. t = Recompute(Save, x, "token")
  OBVIOUS
<1> HIDE DEF reg, v, x
<1>8. Edited(c, x) /\ \A j \in Kinds : j # "token" => x.given[j] = c.given[j]
  BY <1>1, <1>3, <1>4, <1>6, GiftEdits
<1>9. Sane(x) /\ x.pays = c.pays /\ x.bal = c.bal /\ x.failed = c.failed
  BY <1>8 DEF Edited
<1>10. \A k \in Kinds : Used(x, k) = Used(c, k)
  BY <1>9 DEF Used
<1>11. FairBut(x, "token")
  BY <1>8, <1>9, <1>10 DEF FairBut, Fair
<1>12. Modest(x, t) /\ Fair(t) /\ Covers(x, t)
  BY <1>1, <1>7, <1>9, <1>11, SaveThrifty, RecomputeModest
<1>13. t.given = x.given /\ Sane(t)
  BY <1>12 DEF Modest, Carries, Framed
<1>14. \A k \in Kinds : Used(x, k) \in Int /\ Used(t, k) \in Int
  BY <1>9, <1>13, SaneTotals
<1> QED BY <1>10, <1>12, <1>13, <1>14 DEF Wary, Covers

(* A cancellation and the withdrawal of its bonus: the one request after   *)
(* which less may have been given than is used.                            *)
LEMMA CancelWary ==
  ASSUME NEW s, Sound(s), Fair(s), NEW r \in DOMAIN s.regs
  PROVE  Wary(s, Withdrawn(Cancelled(s, r), r, s.regs[r].bonus))
<1>1. PICK c : c = Cancelled(s, r)
  OBVIOUS
<1>2. Sound(c) /\ r \in DOMAIN c.regs
  BY <1>1, CancelledSound DEF Cancelled
<1>3. PICK bonus : bonus = s.regs[r].bonus /\ bonus \in Nat
  BY SoundFields, SaneFields DEF Registration
<1>4. Prudent(s, c) /\ \A k \in Kinds : Used(c, k) = Used(s, k)
  BY <1>1, CancelledIdle
<1>5. CASE bonus = 0
  <2>1. Withdrawn(c, r, bonus) = c
    BY <1>5 DEF Withdrawn
  <2>2. Wary(s, c)
    BY <1>4, SoundFields, PrudentIsWary
  <2> QED BY <1>1, <1>3, <2>1, <2>2
<1>6. CASE bonus # 0
  <2>1. PICK t : t = Recompute(Save, [c EXCEPT !.given["token"] = @ - bonus, !.regs[r].bonus = 0], "token")
    OBVIOUS
  <2>2. Wary(c, t)
    BY <1>2, <1>3, <1>4, <2>1, WithdrawnFair DEF Prudent
  <2>3. Wary(s, t)
    BY <1>4, <2>2 DEF Wary
  <2>4. Withdrawn(c, r, bonus) = t
    BY <1>6, <2>1 DEF Withdrawn
  <2> QED BY <1>1, <1>3, <2>3, <2>4
<1> QED BY <1>5, <1>6

-----------------------------------------------------------------------------
(* Between requests no balance holds more than is left of what was given.  *)
FairInvariant == AccountsInvariant /\ Fair(db)

(* Tidying what a request leaves moves nothing.                            *)
LEMMA RequestWary ==
  ASSUME NEW t, Sane(db), Sane(t), Wary(db, t), Request(t)
  PROVE  Wary(db, db')
<1> DEFINE u == Tidy(t)
<1>1. db' = u
  BY DEF Request
<1>2. u.bal = t.bal /\ u.failed = t.failed /\ u.given = t.given /\ \A k \in Kinds : Used(u, k) = Used(t, k)
  BY TidyKeeps
<1> HIDE DEF u
<1>3. Wary(db, u)
  BY <1>2 DEF Wary, Fair
<1> QED BY <1>1, <1>3

(* Every request spends at most what was given.                            *)
LEMMA WaryStep ==
  ASSUME FairInvariant, AccountsNext
  PROVE  Wary(db, db')
<1>1. Sound(db) /\ Sane(db) /\ Fair(db) /\ db.bounds.amounts \subseteq Nat
  BY SoundFields DEF FairInvariant, AccountsInvariant
<1>2. ASSUME NEW run \in AllRuns, SignUp(run) PROVE Wary(db, db')
  <2> DEFINE reg == [run |-> run, cancelled |-> FALSE, refunded |-> FALSE, bonus |-> 0, paid |-> 0, due |-> 0]
             t == Handle([db EXCEPT !.regs = Append(@, reg)], Len(db.regs) + 1)
  <2>1. Request(t) /\ \A q \in DOMAIN db.regs : db.regs[q].run = run => db.regs[q].cancelled
    BY <1>2 DEF SignUp, Free
  <2>2. Sound(t)
    BY <1>1, <2>1, SignUpSound
  <2>3. Wary(db, t)
    BY <1>1, SignUpWary
  <2> HIDE DEF t
  <2> QED BY <1>1, <2>1, <2>2, <2>3, RequestWary DEF Sound
<1>3. ASSUME NEW run \in AllRuns, CheckRegistrations(run) PROVE Wary(db, db')
  <2> DEFINE t == SaveAll(Save, [db EXCEPT !.queued = @ \ {run}], Newest({q \in DOMAIN db.regs : db.regs[q].run = run}))
  <2>1. Request(t)
    BY <1>3 DEF CheckRegistrations
  <2>2. Sound(t)
    BY <1>1, CheckRegistrationsSound
  <2>3. Wary(db, t)
    BY <1>1, CheckRegistrationsWary
  <2> HIDE DEF t
  <2> QED BY <1>1, <2>1, <2>2, <2>3, RequestWary DEF Sound
<1>4. ASSUME NEW run \in AllRuns, CloseRun(run) PROVE Wary(db, db')
  <2> DEFINE t == [db EXCEPT !.closed = @ \cup {run}]
  <2>1. Request(t)
    BY <1>4 DEF CloseRun
  <2>2. Sound(t)
    BY <1>1, CloseRunSound
  <2>3. Wary(db, t)
    BY <1>1, CloseRunWary
  <2> HIDE DEF t
  <2> QED BY <1>1, <2>1, <2>2, <2>3, RequestWary DEF Sound
<1>5. ASSUME NEW run \in AllRuns, NEW p \in db.bounds.prices, Reprice(run, p) PROVE Wary(db, db')
  <2> DEFINE t == [db EXCEPT !.price[run] = p, !.queued = @ \cup {run}]
  <2>1. Request(t)
    BY <1>5 DEF Reprice
  <2>2. Sound(t)
    BY <1>1, RepriceSound
  <2>3. Wary(db, t)
    BY <1>1, RepriceWary
  <2> HIDE DEF t
  <2> QED BY <1>1, <2>1, <2>2, <2>3, RequestWary DEF Sound
<1>6. ASSUME NEW r \in DOMAIN db.regs, Cancel(r) PROVE Wary(db, db')
  <2> DEFINE t == Withdrawn(Cancelled(db, r), r, db.regs[r].bonus)
  <2>1. Request(t)
    BY <1>6 DEF Cancel, Cancelled, Withdrawn
  <2>2. Sound(t)
    BY <1>1, CancelSound
  <2>3. Wary(db, t)
    BY <1>1, CancelWary
  <2> HIDE DEF t
  <2> QED BY <1>1, <2>1, <2>2, <2>3, RequestWary DEF Sound
<1>7. ASSUME NEW r \in DOMAIN db.regs, NEW v \in db.bounds.amounts, PayMoney(r, v)
      PROVE  Wary(db, db')
  <2> DEFINE t == Handle([db EXCEPT !.pays = Append(@, [reg |-> r, kind |-> "money", value |-> v])], r)
  <2>1. Request(t) /\ v \in Nat
    BY <1>1, <1>7 DEF PayMoney
  <2>2. Sound(t)
    BY <1>1, <2>1, PayMoneySound
  <2>3. Wary(db, t)
    BY <1>1, <2>1, PayMoneyWary
  <2> HIDE DEF t
  <2> QED BY <1>1, <2>1, <2>2, <2>3, RequestWary DEF Sound
<1>8. ASSUME NEW r \in DOMAIN db.regs, NEW v \in db.bounds.amounts, BringFriend(r, v)
      PROVE  Wary(db, db')
  <2> DEFINE t == Handle(Recompute(Save, [db EXCEPT !.given["token"] = @ + v, !.regs[r].bonus = v], "token"), r)
  <2>1. Request(t) /\ v \in Nat
    BY <1>1, <1>8 DEF BringFriend
  <2>2. Sound(t)
    BY <1>1, <2>1, BringFriendSound
  <2>3. Wary(db, t)
    BY <1>1, <2>1, BringFriendWary, ZenonT(40)
  <2> HIDE DEF t
  <2> QED BY <1>1, <2>1, <2>2, <2>3, RequestWary DEF Sound
<1>9. ASSUME NEW r \in DOMAIN db.regs, NEW k \in Kinds, NEW v \in db.bounds.amounts, Refund(r, k, v)
      PROVE  Wary(db, db')
  <2> DEFINE key == <<k, db.regs[r].run, v>>
             g == IF key \in db.refunds THEN db
                  ELSE Recompute(Save, [db EXCEPT !.given[k] = @ + v, !.refunds = @ \cup {key}], k)
             t == Handle([g EXCEPT !.regs[r].refunded = TRUE], r)
  <2>1. Request(t) /\ v \in Nat
    BY <1>1, <1>9 DEF Refund
  <2>2. Sound(t)
    BY <1>1, <2>1, RefundSound
  <2>3. Wary(db, t)
    BY <1>1, <2>1, RefundWary
  <2> HIDE DEF t
  <2> QED BY <1>1, <2>1, <2>2, <2>3, RequestWary DEF Sound
<1>10. ASSUME NEW i \in DOMAIN db.pays, DropPayment(i) PROVE Wary(db, db')
  <2> DEFINE p == db.pays[i]
             k == IF p.kind = "token" THEN "token" ELSE "credit"
             t == Recompute(Save, Handle([db EXCEPT !.pays[i].value = 0], p.reg), k)
  <2>1. Request(t)
    BY <1>10 DEF DropPayment
  <2>2. Sound(t)
    BY <1>1, DropPaymentSound
  <2>3. Wary(db, t)
    BY <1>1, DropPaymentWary
  <2> HIDE DEF t
  <2> QED BY <1>1, <2>1, <2>2, <2>3, RequestWary DEF Sound
<1>11. ASSUME NEW k \in Kinds, NEW v \in db.bounds.amounts, Give(k, v) PROVE Wary(db, db')
  <2> DEFINE t == Recompute(Save, [db EXCEPT !.given[k] = @ + v], k)
  <2>1. Request(t) /\ v \in Nat
    BY <1>1, <1>11 DEF Give
  <2>2. Sound(t)
    BY <1>1, <2>1, GiveSound
  <2>3. Wary(db, t)
    BY <1>1, <2>1, GiveWary
  <2> HIDE DEF t
  <2> QED BY <1>1, <2>1, <2>2, <2>3, RequestWary DEF Sound
<1>12. ASSUME Accept PROVE Wary(db, db')
  <2> DEFINE t == SaveAll(Save, [db EXCEPT !.accepted = TRUE], Newest(DOMAIN db.regs))
  <2>1. Request(t)
    BY <1>12 DEF Accept
  <2>2. Sound(t)
    BY <1>1, AcceptSound
  <2>3. Wary(db, t)
    BY <1>1, AcceptWary
  <2> HIDE DEF t
  <2> QED BY <1>1, <2>1, <2>2, <2>3, RequestWary DEF Sound
<1> QED BY <1>2, <1>3, <1>4, <1>5, <1>6, <1>7, <1>8, <1>9, <1>10, <1>11, <1>12 DEF AccountsNext

(* At first nothing was given, used or is left.                            *)
LEMMA FairStart == AccountsInit => FairInvariant
<1> SUFFICES ASSUME AccountsInit PROVE FairInvariant
  OBVIOUS
<1>1. AccountsInvariant
  BY AccountsStart
<1>2. db.bal = NoBalance /\ db.given = NoBalance /\ db.collided = FALSE /\ db.failed = FALSE
  BY DEF AccountsInit
<1>3. \A k \in Kinds : db.bal[k] = db.given[k] - Used(db, k)
  BY <1>1, <1>2 DEF AccountsInvariant, Sound, AllBalanced, Balanced, Off
<1>4. Sane(db)
  BY <1>1 DEF AccountsInvariant, Sound
<1>5. Fair(db)
  BY <1>3, <1>4, SaneTotals, SaneFields DEF Fair
<1> QED BY <1>1, <1>5 DEF FairInvariant

(* Every request keeps the balances fair.                                  *)
LEMMA FairStep ==
  ASSUME FairInvariant, [AccountsNext]_db
  PROVE  FairInvariant'
<1>1. AccountsInvariant'
  BY AccountsStep DEF FairInvariant
<1>2. CASE AccountsNext
  <2>1. Wary(db, db')
    BY <1>2, WaryStep
  <2> QED BY <1>1, <2>1 DEF FairInvariant, Wary
<1>3. CASE UNCHANGED db
  BY <1>1, <1>3 DEF FairInvariant
<1> QED BY <1>2, <1>3

(* A request that leaves more tokens or credits used than before leaves no *)
(* more used than was given, also where debits collided (get_or_create     *)
(* finds an older payment), where a save nests in the loop over an         *)
(* overpayment, and where the interpreter gave up. For every price,        *)
(* amount, number of registrations and payments, and depth of the saves.   *)
THEOREM AccountsNeverOverspent == AccountsSpec => NeverOverspent
<1>1. AccountsInit => FairInvariant
  BY FairStart
<1>2. FairInvariant /\ [AccountsNext]_db => FairInvariant'
  BY FairStep
<1>3. FairInvariant /\ [AccountsNext]_db => [\A k \in Kinds : Used(db', k) > Used(db, k) => Used(db', k) <= db'.given[k]]_db
  BY WaryStep DEF Wary
<1> QED BY <1>1, <1>2, <1>3, PTL DEF AccountsSpec, NeverOverspent
=============================================================================
