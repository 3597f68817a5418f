----------------------------- MODULE MCPayments -----------------------------
(* Instances of Payments for TLC: two invoices for "plus" and one for "pro"; *)
(* the first invoice is paid by two checkouts.                             *)
EXTENDS Payments, TLC

CONSTANTS i1, i2, i3, c1, c2, c3, c4

PaidInvoice == (c1 :> i1) @@ (c2 :> i2) @@ (c3 :> i3) @@ (c4 :> i1)
TwoPlusOnePro == (i1 :> 1) @@ (i2 :> 1) @@ (i3 :> 2)
Days == <<1, 2>>

\* The same with two invoices for one plan, each paid once.
PaidOnce == (c1 :> i1) @@ (c2 :> i2)
TwoPlus == (i1 :> 1) @@ (i2 :> 1)
=============================================================================
