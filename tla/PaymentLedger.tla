---------------------------- MODULE PaymentLedger ----------------------------
(* What the payment code promises of every invoice, whatever requests,       *)
(* callbacks, retries and crashes happen below: it is credited at most once, *)
(* the credit is never changed, and it is shown as paid only if credited.    *)
CONSTANTS Invoices, Credit, NoCredit

VARIABLES
    credit,   \* [Invoices -> Credit \cup {NoCredit}]
    shown     \* the invoices whose status says they are paid

Init ==
    /\ credit = [i \in Invoices |-> NoCredit]
    /\ shown = {}

\* The credit is booked; the status may follow in the same transaction.
Book(i) ==
    /\ credit[i] = NoCredit
    /\ credit'[i] \in Credit /\ credit' = [credit EXCEPT ![i] = credit'[i]]
    /\ shown' \in {shown, shown \cup {i}}

Show(i) ==
    /\ credit[i] # NoCredit
    /\ shown' = shown \cup {i}
    /\ UNCHANGED credit

\* A stale save puts an unpaid status back; the credit stays.
Hide(i) ==
    /\ shown' = shown \ {i}
    /\ UNCHANGED credit

Next == \E i \in Invoices : Book(i) \/ Show(i) \/ Hide(i)

Spec == Init /\ [][Next]_<<credit, shown>>
=============================================================================
