------------------------------ MODULE Payments ------------------------------
(***************************************************************************)
(* Paying for a plan: invoice, pre-checkout query, charge by Telegram,     *)
(* confirmation and credit (services/payments.py, subscription_credits.py, *)
(* the handlers in bot/handlers/payments.py), and the access the tables    *)
(* then give (repositories/subscriptions.py, services/entitlements.py).    *)
(*                                                                         *)
(* One learner.  A handler is one database transaction at READ COMMITTED:  *)
(* it loads the payment, and the flush before its next query updates the   *)
(* row and so waits for every other transaction that has done the same.    *)
(* What it decides then rests on unlocked reads of the subscriptions and   *)
(* on the status it loaded first.                                          *)
(*                                                                         *)
(*   confirmation:  Deliver --> [read] --Lock--> [locked] --> Commit       *)
(*                                                                         *)
(* Owner, currency, amount and payload format are checked against values   *)
(* that never change here: a request that fails them changes nothing and   *)
(* is left out.  A charge id belongs to one checkout, so that              *)
(* "provider_reference_reused" cannot occur either.                        *)
(***************************************************************************)
EXTENDS Integers, FiniteSets

CONSTANTS
  Invoices,      \* rows of the payments table, all of one learner
  Checkouts,     \* pre-checkout queries; each stands for its charge id
  InvoiceOf,     \* the invoice a checkout pays
  PlanOf,        \* the plan of an invoice: 1 is "plus", 2 is "pro"
  Duration,      \* days a plan is paid for: plus_duration_days, pro_duration_days
  None,          \* no invoice, no checkout
  MaxTime,       \* bound: the clock stops
  MaxRepeats,    \* bound: deliveries of an update that was delivered before
  MaxFaults      \* bound: handlers that die, transactions that raise

ASSUME InvoiceAssumption == None \notin Invoices /\ IsFiniteSet(Invoices)
ASSUME CheckoutAssumption ==
  None \notin Checkouts /\ InvoiceOf \in [Checkouts -> Invoices]
ASSUME PlanAssumption == PlanOf \in [Invoices -> 1 .. 2] /\ Duration \in [1 .. 2 -> Nat \ {0}]
ASSUME BoundAssumption ==
  MaxTime \in Nat /\ MaxRepeats \in Nat /\ MaxFaults \in Nat

VARIABLES
  now,           \* the clock, in days
  status,        \* Payment.status, "absent" before the insert
  charge,        \* Payment.telegram_payment_charge_id
  sub,           \* Subscription.status of the row of a payment, or "absent"
  started,       \* Subscription.started_at
  expires,       \* Subscription.expires_at
  newest,        \* payment_id of the last subscription inserted
  work,          \* handlers under way
  asked,         \* checkouts whose pre-checkout query was delivered
  charged,       \* checkouts Telegram took the stars for
  outcome,       \* history: what the learner was told of a charge
  credits,       \* history: committed credits of a payment
  into,          \* history: payments credited into the subscription of a payment
  raced,         \* history: payments with two handlers under way at once
  mixed,         \* history: two confirmations were under way at once
  repeats,       \* deliveries beyond the first so far
  faults         \* faults so far

tables  == <<status, charge, sub, started, expires, newest>>
telegram == <<asked, charged>>
budgets == <<repeats, faults>>
history == <<outcome, credits, into, raced, mixed>>
paymentVars    == <<now, tables, work, telegram, history, budgets>>

\* _plan_config: how long the plan of an invoice is paid for.
DurationOf(p) == Duration[PlanOf[p]]

SubscriptionStatuses == {"absent", "active", "cancelled"}

PaymentStatuses == {"absent", "created", "pending", "credited"}
PaymentHandler ==
  [kind : {"checkout", "confirm"}, checkout : Checkouts, copy : Nat,
   phase : {"read", "locked"}, seen : PaymentStatuses,
   change : {"none", "mark", "new", "renew", "upgrade"},
   current : Invoices \cup {None}, at : Nat, until : Nat]

PaymentInit ==
  /\ now = 0
  /\ status = [p \in Invoices |-> "absent"]
  /\ charge = [p \in Invoices |-> None]
  /\ sub = [p \in Invoices |-> "absent"]
  /\ started = [p \in Invoices |-> 0] /\ expires = [p \in Invoices |-> 0]
  /\ newest = None
  /\ work = {}
  /\ asked = {} /\ charged = {}
  /\ outcome = [c \in Checkouts |-> "none"]
  /\ credits = [p \in Invoices |-> 0]
  /\ into = [p \in Invoices |-> {}]
  /\ raced = {} /\ mixed = FALSE
  /\ repeats = 0 /\ faults = 0

-----------------------------------------------------------------------------
(* What the tables say. *)

\* get_effective_paid_subscription, its filter.
Effective(t) == {p \in Invoices : sub[p] = "active" /\ status[p] = "credited" /\ expires[p] > t}

\* get_effective_paid_subscription, its order: the best plan, then the latest end.
Best(t) ==
  {p \in Effective(t) : \A q \in Effective(t) :
     PlanOf[q] < PlanOf[p] \/ (PlanOf[q] = PlanOf[p] /\ expires[q] <= expires[p])}

CurrentChoices(t) == IF Effective(t) = {} THEN {None} ELSE Best(t)

AccessPlan == IF Effective(now) = {} THEN 0 ELSE PlanOf[CHOOSE p \in Best(now) : TRUE]

\* _subscription_status, of a subscription that gives no access.
SubscriptionStatus(p) ==
  IF sub[p] = "cancelled" THEN "cancelled" ELSE IF expires[p] <= now THEN "expired" ELSE "pending"

\* get_subscription_status_state: what the subscription page says.
LearnerStatus ==
  IF Effective(now) # {} THEN "active"
  ELSE IF newest = None THEN "inactive" ELSE SubscriptionStatus(newest)

\* get_by_payment_id.
HasSubscription(p) == sub[p] # "absent"

\* _plan_change_type.
ChangeType(current, p) ==
  IF current = None THEN "new"
  ELSE CASE PlanOf[p] < PlanOf[current] -> "downgrade"
         [] PlanOf[p] = PlanOf[current] -> "renew"
         [] OTHER                       -> "upgrade"

\* ensure_plan_change_allowed.
ChangeAllowed(p) == \E current \in CurrentChoices(now) : ChangeType(current, p) # "downgrade"

-----------------------------------------------------------------------------
(* Handlers. *)

PaymentOf(h) == InvoiceOf[h.checkout]

Repeats(again) ==
  /\ again => repeats < MaxRepeats
  /\ repeats' = IF again THEN repeats + 1 ELSE repeats

Start(h) ==
  /\ work' = work \cup {h}
  /\ raced' = IF \E g \in work : PaymentOf(g) = PaymentOf(h)
              THEN raced \cup {PaymentOf(h)} ELSE raced
  /\ mixed' = (mixed \/ (h.kind = "confirm" /\ \E g \in work : g.kind = "confirm"))

\* Handlers of one checkout are told apart by a number.
WorkOf(c)   == {h \in work : h.checkout = c}
FreeCopy(c) == CHOOSE n \in 0 .. MaxRepeats + 1 : \A g \in WorkOf(c) : g.copy # n

Loaded(kind, c) ==
  [kind |-> kind, checkout |-> c, copy |-> FreeCopy(c), phase |-> "read",
   seen |-> status[InvoiceOf[c]], change |-> "none", current |-> None, at |-> 0, until |-> 0]

\* The columns create, mark_pending and mark_credited write in the row of a payment.
SetStatus(p, new) == status' = [status EXCEPT ![p] = new]

\* create_invoice: nothing is inserted for a downgrade.
InvoiceAllowed(p) == status[p] = "absent" /\ ChangeAllowed(p)

\* handle_payment_plan_callback.
CreateInvoice(p) ==
  /\ InvoiceAllowed(p)
  /\ SetStatus(p, "created")
  /\ UNCHANGED <<now, charge, sub, started, expires, newest, work, telegram, history, budgets>>

\* verify_pre_checkout loads the payment and finds it payable, ...
BeginCheckout(c) ==
  /\ status[InvoiceOf[c]] \in {"created", "pending"}
  /\ asked' = asked \cup {c}
  /\ Repeats(c \in asked)
  /\ ChangeAllowed(InvoiceOf[c])
  /\ Start(Loaded("checkout", c))
  /\ UNCHANGED <<now, tables, charged, outcome, credits, into, faults>>

\* ... the handler commits mark_pending and answers ok, on which Telegram may
\* charge the learner.
CommitCheckout(h) ==
  LET p == PaymentOf(h)
  IN /\ h.kind = "checkout"
     /\ h.seen = "created" => \A g \in work : PaymentOf(g) = p => g.phase # "locked"
     /\ work' = work \ {h}
     /\ IF h.seen = "created" THEN SetStatus(p, "pending") ELSE UNCHANGED status
     /\ charged' \in {charged, charged \cup {h.checkout}}
     /\ UNCHANGED <<now, charge, sub, started, expires, newest, asked, history, budgets>>

Refuse(c) ==
  outcome' = [outcome EXCEPT ![c] = IF @ = "credited" THEN @ ELSE "refused"]

ChargeMatches(c) == charge[InvoiceOf[c]] \in {None, c}

\* Mutant of Delivered: a confirmation is believed although nothing was paid.
DeliveredUnpaid(c) ==
  /\ c \in asked
  /\ Repeats(outcome[c] # "none" \/ WorkOf(c) # {})

Delivered(c) ==
  /\ c \in charged
  /\ Repeats(outcome[c] # "none" \/ WorkOf(c) # {})

\* A confirmation that is settled by its first reads: the payment is credited
\* already, or another charge has paid it.
DeliverSettled(c) ==
  /\ Delivered(c)
  /\ status[InvoiceOf[c]] = "credited" \/ ~ChargeMatches(c)
  /\ IF ChargeMatches(c) THEN outcome' = [outcome EXCEPT ![c] = "credited"] ELSE Refuse(c)
  /\ UNCHANGED <<now, tables, work, telegram, credits, into, raced, mixed, faults>>

\* Mutant of Deliver: a credited payment is not recognised.
DeliverAgain(c) ==
  /\ Delivered(c)
  /\ status[InvoiceOf[c]] # "absent" /\ ChargeMatches(c)
  /\ Start(Loaded("confirm", c))
  /\ UNCHANGED <<now, tables, telegram, outcome, credits, into, faults>>

\* confirm_payment, up to mark_paid.
Deliver(c) ==
  /\ Delivered(c)
  /\ status[InvoiceOf[c]] # "credited" /\ ChargeMatches(c)
  /\ Start(Loaded("confirm", c))
  /\ UNCHANGED <<now, tables, telegram, outcome, credits, into, faults>>

\* _renew_subscription adds to the end of the running period, the others start now.
PeriodEnd(p, change, current) ==
  DurationOf(p) + (IF change = "renew" THEN expires[current] ELSE now)

\* Mutant of Lock: the flush does not wait for the row.
LockWithoutWaiting(h) ==
  LET p == PaymentOf(h)
  IN /\ h.kind = "confirm" /\ h.phase = "read"
     /\ \E current \in CurrentChoices(now) :
          LET change == IF HasSubscription(p) THEN "mark" ELSE ChangeType(current, p)
          IN /\ change # "downgrade"
             /\ work' = (work \ {h}) \cup
                  {[h EXCEPT !.phase = "locked", !.change = change, !.current = current,
                             !.at = now, !.until = now + DurationOf(p)]}
     /\ UNCHANGED <<now, tables, telegram, history, budgets>>

\* The first query of credit_payment flushes "paid" and the charge id and with
\* it locks the row; the subscriptions are read after that.
Lock(h) ==
  LET p == PaymentOf(h)
  IN /\ h.kind = "confirm" /\ h.phase = "read"
     /\ \A g \in work : PaymentOf(g) = p => g.phase # "locked"
     /\ \E current \in CurrentChoices(now) :
          LET change == IF HasSubscription(p) THEN "mark" ELSE ChangeType(current, p)
          IN /\ change # "downgrade"
             /\ work' = (work \ {h}) \cup
                  {[h EXCEPT !.phase = "locked", !.change = change, !.current = current,
                             !.at = now, !.until = PeriodEnd(p, change, current)]}
     /\ UNCHANGED <<now, tables, telegram, history, budgets>>

\* PaymentPlanChangeError: the learner has bought a better plan since.
LockRefused(h) ==
  LET p == PaymentOf(h)
  IN /\ h.kind = "confirm" /\ h.phase = "read"
     /\ \A g \in work : PaymentOf(g) = p => g.phase # "locked"
     /\ ~HasSubscription(p)
     /\ \E current \in CurrentChoices(now) : ChangeType(current, p) = "downgrade"
     /\ work' = work \ {h}
     /\ Refuse(h.checkout)
     /\ UNCHANGED <<now, tables, telegram, credits, into, raced, mixed, budgets>>

\* _start_subscription.
StartSubscription(h) ==
  LET p == PaymentOf(h)
  IN /\ started' = [started EXCEPT ![p] = h.at]
     /\ newest' = p
     /\ into' = [into EXCEPT ![p] = {p}]

Closed(h) == IF h.change = "upgrade" THEN {h.current} ELSE {}

\* Mutant of Credit: an upgrade leaves the old subscription open.
CreditWithoutClosing(h) ==
  LET p == PaymentOf(h)
  IN CASE h.change = "mark" -> UNCHANGED <<sub, started, expires, newest, into>>
       [] h.change = "renew" ->
            /\ expires' = [expires EXCEPT ![h.current] = h.until]
            /\ into' = [into EXCEPT ![h.current] = @ \cup {p}]
            /\ UNCHANGED <<sub, started, newest>>
       [] OTHER ->
            /\ sub' = [sub EXCEPT ![p] = "active"]
            /\ expires' = [expires EXCEPT ![p] = h.until]
            /\ StartSubscription(h)

\* Mutant of Credit: an upgrade closes every subscription, the new one too.
CreditClosingAll(h) ==
  LET p == PaymentOf(h)
  IN CASE h.change = "mark" -> UNCHANGED <<sub, started, expires, newest, into>>
       [] h.change = "renew" ->
            /\ expires' = [expires EXCEPT ![h.current] = h.until]
            /\ into' = [into EXCEPT ![h.current] = @ \cup {p}]
            /\ UNCHANGED <<sub, started, newest>>
       [] OTHER ->
            /\ sub' = IF h.change = "upgrade" THEN [q \in Invoices |-> "cancelled"]
                      ELSE [sub EXCEPT ![p] = "active"]
            /\ expires' = [expires EXCEPT ![p] = h.until]
            /\ StartSubscription(h)

\* SubscriptionCreditPolicy.apply, as the flush of the commit writes it:
\* absolute values, in the columns that were changed.
Credit(h) ==
  LET p == PaymentOf(h)
  IN CASE h.change = "mark" -> UNCHANGED <<sub, started, expires, newest, into>>
       [] h.change = "renew" ->
            /\ expires' = [expires EXCEPT ![h.current] = h.until]
            /\ into' = [into EXCEPT ![h.current] = @ \cup {p}]
            /\ UNCHANGED <<sub, started, newest>>
       [] OTHER ->
            /\ sub' = [q \in Invoices |-> IF q = p THEN "active"
                                          ELSE IF q \in Closed(h) THEN "cancelled" ELSE sub[q]]
            /\ expires' = [q \in Invoices |-> IF q = p THEN h.until
                                              ELSE IF q \in Closed(h) THEN h.at ELSE expires[q]]
            /\ StartSubscription(h)

CommitConfirm(h) ==
  LET p == PaymentOf(h)
  IN /\ h.phase = "locked"
     /\ work' = work \ {h}
     /\ SetStatus(p, "credited")
     /\ charge' = [charge EXCEPT ![p] = h.checkout]
     /\ Credit(h)
     /\ credits' = [credits EXCEPT ![p] = @ + (IF h.change = "mark" THEN 0 ELSE 1)]
     /\ outcome' = [outcome EXCEPT ![h.checkout] = "credited"]
     /\ UNCHANGED <<now, telegram, raced, mixed, budgets>>

\* Something raised: rollback.  A pre-checkout is answered with ok=False, the
\* learner of a confirmation is told that it failed and nobody repeats it.
Raise(h) ==
  /\ faults < MaxFaults
  /\ faults' = faults + 1
  /\ work' = work \ {h}
  /\ outcome' = IF h.kind = "confirm" /\ outcome[h.checkout] = "none"
                THEN [outcome EXCEPT ![h.checkout] = "failed"] ELSE outcome
  /\ UNCHANGED <<now, tables, telegram, credits, into, raced, mixed, repeats>>

\* The process dies before the commit; the update will be delivered again.
Die(h) ==
  /\ faults < MaxFaults
  /\ faults' = faults + 1
  /\ work' = work \ {h}
  /\ UNCHANGED <<now, tables, telegram, history, repeats>>

Tick ==
  /\ now < MaxTime
  /\ now' = now + 1
  /\ UNCHANGED <<tables, work, telegram, history, budgets>>

PaymentNext ==
  \/ \E p \in Invoices : CreateInvoice(p)
  \/ \E c \in Checkouts : BeginCheckout(c) \/ DeliverSettled(c) \/ Deliver(c)
  \/ \E h \in work : \/ CommitCheckout(h) \/ Lock(h) \/ LockRefused(h) \/ CommitConfirm(h)
                     \/ Raise(h) \/ Die(h)
  \/ Tick

PaymentSpec == PaymentInit /\ [][PaymentNext]_paymentVars

-----------------------------------------------------------------------------
(* Properties. *)

\* Every variable holds what the tables and the handlers can put there; a row
\* is locked by one handler at a time.
PaymentTypeOK ==
  /\ now \in 0 .. MaxTime
  /\ status \in [Invoices -> PaymentStatuses] /\ charge \in [Invoices -> Checkouts \cup {None}]
  /\ sub \in [Invoices -> SubscriptionStatuses]
  /\ started \in [Invoices -> Nat] /\ expires \in [Invoices -> Nat]
  /\ newest \in Invoices \cup {None}
  /\ work \subseteq PaymentHandler
  /\ asked \subseteq Checkouts /\ charged \subseteq Checkouts
  /\ outcome \in [Checkouts -> {"none", "credited", "refused", "failed"}]
  /\ credits \in [Invoices -> Nat] /\ into \in [Invoices -> SUBSET Invoices]
  /\ raced \subseteq Invoices /\ mixed \in BOOLEAN
  /\ repeats \in 0 .. MaxRepeats /\ faults \in 0 .. MaxFaults
  /\ \A g, h \in work :
       g.phase = "locked" /\ h.phase = "locked" /\ PaymentOf(g) = PaymentOf(h) => g = h

\* No access without a charge: the subscription that gives access belongs to an
\* invoice a learner was charged for, whatever is repeated, raced or rolled back.
AccessImpliesPaid ==
  \A p \in Effective(now) : \E c \in charged : InvoiceOf[c] = p /\ charge[p] \in charged

\* While no two handlers of a payment overlap, it is credited once, however
\* often the confirmation is delivered, and whatever is done meanwhile about
\* other payments.
CreditedOnceUnlessRaced == \A p \in Invoices : p \notin raced => credits[p] <= 1

\* Confirmations one at a time: one subscription gives access, its period is
\* the sum of the periods paid into it, and the page never shows a paid,
\* running subscription as "pending".
AccessAddsUp ==
  ~mixed /\ raced = {} =>
    /\ \A p, q \in Effective(now) : p = q
    /\ \A p \in Effective(now) :
         expires[p] = started[p] + DurationOf(p) * Cardinality(into[p])
    /\ LearnerStatus # "pending"

\* Only the clock takes access away: no handler lowers the plan the learner
\* has, also when an upgrade and a renewal are credited at the same time.  (A
\* transaction is taken to be shorter than the period of an upgrade.)
AccessNeverTakenAway ==
  [][raced = {} /\ now' = now => AccessPlan' >= AccessPlan]_paymentVars

\* docs/09_data_standard.md:1416, "Payment is credited at most once".
PaymentCreditedAtMostOnce == \A p \in Invoices : credits[p] <= 1
=============================================================================
