-------------------------- MODULE MCPaymentInvoice --------------------------
(* Small instances of PaymentInvoice for TLC: which requests run side by     *)
(* side, on how many rows, registrations and amounts.                        *)
EXTENDS PaymentInvoice, TLC

CONSTANTS q1, q2, q3, i1, i2, r1, r2

\* A member who pays; an organizer, and the payer's word that a transfer was
\* made; the desk and the gateway's webhooks, the cron job that cleans up and
\* whoever edits a registration.
ServesAll == (q1 :> {"form"}) @@ (q2 :> {"organizer", "submit"})
             @@ (q3 :> {"desk", "webhook", "edit", "expire"})
\* A payer's form with whoever confirms a transfer, and the cron command that
\* asks the gateway.
ServesCron == (q1 :> {"form", "submit", "organizer"}) @@ (q3 :> {"treasurer", "poll"})

Symmetry == Permutations({i1, i2})
=============================================================================
