--------------------------- MODULE PaymentsProofs ---------------------------
(***************************************************************************)
(* Theorems about Payments, for any number of invoices, checkouts, repeated*)
(* deliveries and faults, any plans and any length of their periods.       *)
(***************************************************************************)
EXTENDS Payments, FiniteSetTheorems, WellFoundedInduction, TLAPS

\* Telegram charges for what it has asked about, and confirms what it charged;
\* only a confirmation locks a payment.
Confirmed ==
  /\ charged \subseteq asked
  /\ \A h \in work : /\ h.checkout \in asked
                     /\ h.kind = "confirm" => h.checkout \in charged
                     /\ h.phase = "locked" => h.kind = "confirm"

\* A second handler of a checkout is a repeated delivery.
Copies ==
  \A c \in Checkouts : IsFiniteSet(WorkOf(c)) /\ Cardinality(WorkOf(c)) <= repeats + 1

\* The charge of a credited payment was made for it.
PaidFor ==
  \A p \in Invoices : status[p] = "credited" =>
    charge[p] \in charged /\ InvoiceOf[charge[p]] = p

\* While the handlers of a payment have not overlapped, there is one at a time,
\* it began before any credit, and a credited payment stays "credited".
CreditedFirst ==
  \A p \in Invoices \ raced :
    /\ credits[p] <= 1
    /\ status[p] # "credited" => credits[p] = 0
    /\ \A g, h \in work : PaymentOf(g) = p /\ PaymentOf(h) = p => g = h
    /\ \A h \in work : PaymentOf(h) = p => credits[p] = 0

PaymentInv == PaymentTypeOK /\ Confirmed /\ Copies /\ PaidFor /\ CreditedFirst

-----------------------------------------------------------------------------
(* Handlers. *)

\* PaymentTypeOK without its statement about locks.
LockedAlone ==
  \A g, h \in work :
    g.phase = "locked" /\ h.phase = "locked" /\ PaymentOf(g) = PaymentOf(h) => g = h

LEMMA HandlerFacts ==
  ASSUME PaymentTypeOK, NEW h \in work
  PROVE  /\ h \in PaymentHandler /\ h.checkout \in Checkouts /\ PaymentOf(h) \in Invoices
         /\ h.phase \in {"read", "locked"} /\ h.kind \in {"checkout", "confirm"}
BY CheckoutAssumption DEF PaymentTypeOK, PaymentHandler, PaymentOf

\* There is a number left for one more handler of a checkout.
LEMMA FreeCopyExists ==
  ASSUME Copies, NEW c \in Checkouts, repeats \in Nat,
         WorkOf(c) # {} => repeats < MaxRepeats
  PROVE  FreeCopy(c) \in 0 .. MaxRepeats + 1 /\ \A g \in WorkOf(c) : g.copy # FreeCopy(c)
<1> DEFINE used == {g.copy : g \in WorkOf(c)}
           numbers == 0 .. MaxRepeats + 1
<1>1. IsFiniteSet(used) /\ Cardinality(used) <= Cardinality(WorkOf(c))
      /\ IsFiniteSet(WorkOf(c)) /\ Cardinality(WorkOf(c)) \in Nat
  <2>1. IsFiniteSet(WorkOf(c))
    BY DEF Copies
  <2> DEFINE f == [g \in WorkOf(c) |-> g.copy]
  <2>2. f \in Surjection(WorkOf(c), used)
    BY DEF Surjection
  <2>3. IsFiniteSet(used) /\ Cardinality(used) <= Cardinality(WorkOf(c))
    BY <2>1, <2>2, FS_Surjection
  <2> QED BY <2>1, <2>3, FS_CardinalityType
<1>2. IsFiniteSet(numbers) /\ Cardinality(numbers) = MaxRepeats + 2
  <2>1. 0 \in Int /\ MaxRepeats + 1 \in Int /\ 0 <= MaxRepeats + 1 /\ (MaxRepeats + 1) - 0 + 1 = MaxRepeats + 2
    BY BoundAssumption
  <2> QED BY <2>1, FS_Interval
<1>3. Cardinality(WorkOf(c)) <= MaxRepeats
  <2>1. CASE WorkOf(c) = {}
    BY <2>1, FS_EmptySet, BoundAssumption
  <2>2. CASE WorkOf(c) # {}
    BY <1>1, <2>2, BoundAssumption DEF Copies
  <2> QED BY <2>1, <2>2
<1>4. Cardinality(used) < Cardinality(numbers)
  <2>1. Cardinality(used) \in Nat
    BY <1>1, FS_CardinalityType
  <2> QED BY <1>1, <1>2, <1>3, <2>1, BoundAssumption
<1>5. \E n \in numbers : n \notin used
  <2> SUFFICES ASSUME numbers \subseteq used
               PROVE  FALSE
    OBVIOUS
  <2>1. Cardinality(numbers) <= Cardinality(used)
    BY <1>1, FS_Subset
  <2>2. Cardinality(used) \in Nat /\ Cardinality(numbers) \in Nat
    BY <1>1, <1>2, FS_CardinalityType
  <2> QED BY <1>4, <2>1, <2>2
<1>6. \E n \in numbers : \A g \in WorkOf(c) : g.copy # n
  BY <1>5
<1> QED BY <1>6 DEF FreeCopy

\* Handlers that end.
LEMMA CopiesShrink ==
  ASSUME Copies, work' \subseteq work, repeats \in Nat, repeats' \in Nat, repeats <= repeats'
  PROVE  Copies'
<1> SUFFICES ASSUME NEW c \in Checkouts
             PROVE  IsFiniteSet(WorkOf(c)') /\ Cardinality(WorkOf(c)') <= repeats' + 1
  BY DEF Copies
<1>1. WorkOf(c)' \subseteq WorkOf(c) /\ IsFiniteSet(WorkOf(c)) /\ Cardinality(WorkOf(c)) <= repeats + 1
  BY DEF WorkOf, Copies
<1>2. IsFiniteSet(WorkOf(c)') /\ Cardinality(WorkOf(c)') <= Cardinality(WorkOf(c))
  BY <1>1, FS_Subset
<1>3. Cardinality(WorkOf(c)) \in Nat /\ Cardinality(WorkOf(c)') \in Nat
  BY <1>1, <1>2, FS_CardinalityType
<1> QED BY <1>1, <1>2, <1>3

\* A handler that begins beside another of its checkout is a repeat.
LEMMA CopiesGrow ==
  ASSUME Copies, NEW h, work' = work \cup {h},
         repeats \in Nat, repeats' \in Nat, repeats <= repeats',
         WorkOf(h.checkout) # {} => repeats' = repeats + 1
  PROVE  Copies'
<1> SUFFICES ASSUME NEW c \in Checkouts
             PROVE  IsFiniteSet(WorkOf(c)') /\ Cardinality(WorkOf(c)') <= repeats' + 1
  BY DEF Copies
<1>1. IsFiniteSet(WorkOf(c)) /\ Cardinality(WorkOf(c)) <= repeats + 1
  BY DEF Copies
<1>2. Cardinality(WorkOf(c)) \in Nat
  BY <1>1, FS_CardinalityType
<1>3. CASE c # h.checkout
  <2>1. WorkOf(c)' = WorkOf(c)
    BY <1>3 DEF WorkOf
  <2> QED BY <1>1, <1>2, <2>1
<1>4. CASE c = h.checkout
  <2>1. WorkOf(c)' = WorkOf(c) \cup {h}
    BY <1>4 DEF WorkOf
  <2>2. /\ IsFiniteSet(WorkOf(c) \cup {h})
        /\ Cardinality(WorkOf(c) \cup {h}) \in {Cardinality(WorkOf(c)), Cardinality(WorkOf(c)) + 1}
    BY <1>1, FS_AddElement
  <2>3. CASE WorkOf(c) = {}
    <3>1. Cardinality(WorkOf(c)) = 0
      BY <2>3, FS_EmptySet
    <3> QED BY <1>2, <2>1, <2>2, <3>1
  <2>4. CASE WorkOf(c) # {}
    BY <1>1, <1>2, <1>4, <2>1, <2>2, <2>4
  <2> QED BY <2>3, <2>4
<1> QED BY <1>3, <1>4

\* A handler that goes on.
LEMMA CopiesReplace ==
  ASSUME Copies, NEW h \in work, NEW d, d.checkout = h.checkout,
         work' = (work \ {h}) \cup {d}, repeats \in Nat, repeats' = repeats
  PROVE  Copies'
<1> SUFFICES ASSUME NEW c \in Checkouts
             PROVE  IsFiniteSet(WorkOf(c)') /\ Cardinality(WorkOf(c)') <= repeats + 1
  BY DEF Copies
<1>1. IsFiniteSet(WorkOf(c)) /\ Cardinality(WorkOf(c)) <= repeats + 1
  BY DEF Copies
<1>2. CASE c # h.checkout
  <2>1. WorkOf(c)' = WorkOf(c)
    BY <1>2 DEF WorkOf
  <2> QED BY <1>1, <2>1
<1>3. CASE c = h.checkout
  <2> DEFINE rest == WorkOf(c) \ {h}
  <2>1. WorkOf(c)' = rest \cup {d} /\ h \in WorkOf(c)
    BY <1>3 DEF WorkOf
  <2>2. IsFiniteSet(rest) /\ Cardinality(rest) = Cardinality(WorkOf(c)) - 1
    BY <1>1, <2>1, FS_RemoveElement
  <2>3. /\ IsFiniteSet(rest \cup {d})
        /\ Cardinality(rest \cup {d}) \in {Cardinality(rest), Cardinality(rest) + 1}
    BY <2>2, FS_AddElement
  <2>4. Cardinality(WorkOf(c)) \in Nat
    BY <1>1, FS_CardinalityType
  <2> QED BY <1>1, <2>1, <2>2, <2>3, <2>4
<1> QED BY <1>2, <1>3

-----------------------------------------------------------------------------
(* The invariant. *)

LEMMA PaymentInitial == PaymentInit => PaymentInv
<1> SUFFICES ASSUME PaymentInit
             PROVE  PaymentInv
  OBVIOUS
<1> USE DEF PaymentInit
<1>1. PaymentTypeOK
  <2>1. now \in 0 .. MaxTime /\ repeats \in 0 .. MaxRepeats /\ faults \in 0 .. MaxFaults
    BY BoundAssumption
  <2>2. /\ status \in [Invoices -> PaymentStatuses] /\ charge \in [Invoices -> Checkouts \cup {None}]
        /\ sub \in [Invoices -> SubscriptionStatuses]
    BY DEF PaymentStatuses, SubscriptionStatuses
  <2>3. /\ started \in [Invoices -> Nat] /\ expires \in [Invoices -> Nat]
        /\ credits \in [Invoices -> Nat] /\ into \in [Invoices -> SUBSET Invoices]
        /\ outcome \in [Checkouts -> {"none", "credited", "refused", "failed"}]
    OBVIOUS
  <2>4. newest \in Invoices \cup {None} /\ work = {} /\ asked = {} /\ charged = {} /\ raced = {}
        /\ mixed \in BOOLEAN
    OBVIOUS
  <2> HIDE DEF PaymentInit
  <2> QED BY <2>1, <2>2, <2>3, <2>4 DEF PaymentTypeOK
<1>2. Confirmed /\ PaidFor /\ CreditedFirst
  BY DEF Confirmed, PaidFor, CreditedFirst
<1>3. Copies
  <2>1. \A c \in Checkouts : WorkOf(c) = {}
    BY DEF WorkOf
  <2> QED BY <2>1, FS_EmptySet DEF Copies
<1> QED BY <1>1, <1>2, <1>3 DEF PaymentInv

\* The tables that the properties read are left as they are.
Untouched == UNCHANGED <<status, charge, credits>>

\* Handlers end, and the tables are left as they are.
LEMMA HandlersEnd ==
  ASSUME PaymentInv, Untouched, work' \subseteq work, raced' = raced,
         UNCHANGED <<asked, charged, repeats>>, PaymentTypeOK'
  PROVE  PaymentInv'
<1>1. Confirmed'
  BY DEF PaymentInv, Confirmed
<1>2. Copies'
  BY CopiesShrink, BoundAssumption DEF PaymentInv, PaymentTypeOK
<1>3. PaidFor'
  BY DEF PaymentInv, PaidFor, Untouched
<1>4. CreditedFirst'
  BY DEF PaymentInv, CreditedFirst, Untouched, PaymentOf
<1> QED BY <1>1, <1>2, <1>3, <1>4 DEF PaymentInv

\* What a handler is when it begins.
LEMMA LoadedFacts ==
  ASSUME PaymentInv, NEW kind \in {"checkout", "confirm"}, NEW c \in Checkouts,
         WorkOf(c) # {} => repeats < MaxRepeats
  PROVE  /\ Loaded(kind, c) \in PaymentHandler
         /\ Loaded(kind, c).checkout = c /\ Loaded(kind, c).phase = "read"
         /\ Loaded(kind, c).kind = kind
         /\ PaymentOf(Loaded(kind, c)) = InvoiceOf[c]
<1>1. repeats \in Nat
  BY BoundAssumption DEF PaymentInv, PaymentTypeOK
<1>2. FreeCopy(c) \in Nat
  BY <1>1, FreeCopyExists, BoundAssumption DEF PaymentInv
<1>3. status[InvoiceOf[c]] \in PaymentStatuses
  BY CheckoutAssumption DEF PaymentInv, PaymentTypeOK
<1> QED BY <1>2, <1>3 DEF Loaded, PaymentHandler, PaymentOf

\* A handler begins: the payment it has loaded is not credited, so that it is
\* alone with it or known to have raced.
LEMMA HandlerBegins ==
  ASSUME PaymentInv, NEW kind \in {"checkout", "confirm"}, NEW c \in Checkouts,
         Start(Loaded(kind, c)), Untouched,
         status[InvoiceOf[c]] # "credited",
         asked \subseteq asked', asked' \subseteq Checkouts, c \in asked', charged' = charged,
         kind = "confirm" => c \in charged,
         WorkOf(c) # {} => repeats < MaxRepeats /\ repeats' = repeats + 1,
         repeats' \in repeats .. MaxRepeats,
         UNCHANGED <<now, sub, started, expires, newest, outcome, into, faults>>
  PROVE  PaymentInv'
<1> DEFINE h == Loaded(kind, c)
<1>1. /\ h \in PaymentHandler /\ h.checkout = c /\ h.phase = "read" /\ h.kind = kind
      /\ PaymentOf(h) = InvoiceOf[c]
  BY LoadedFacts
<1>2. /\ PaymentTypeOK /\ Confirmed /\ Copies /\ PaidFor /\ CreditedFirst
      /\ repeats \in Nat /\ repeats' \in 0 .. MaxRepeats /\ repeats' \in Nat /\ repeats <= repeats'
  BY BoundAssumption DEF PaymentInv, PaymentTypeOK
<1>3. /\ work' = work \cup {h}
      /\ raced' = IF \E g \in work : PaymentOf(g) = PaymentOf(h)
                  THEN raced \cup {PaymentOf(h)} ELSE raced
      /\ mixed' = (mixed \/ (h.kind = "confirm" /\ \E g \in work : g.kind = "confirm"))
  BY DEF Start
<1> HIDE DEF h
<1>4. PaymentTypeOK'
  <2>1. work' \subseteq PaymentHandler
    BY <1>1, <1>2, <1>3 DEF PaymentTypeOK
  <2>2. raced' \subseteq Invoices
    BY <1>1, <1>2, <1>3, CheckoutAssumption DEF PaymentTypeOK
  <2>3. mixed' \in BOOLEAN
    BY <1>2, <1>3 DEF PaymentTypeOK
  <2>4. \A f, g \in work' :
          f.phase = "locked" /\ g.phase = "locked" /\ PaymentOf(f) = PaymentOf(g) => f = g
    BY <1>1, <1>2, <1>3 DEF PaymentTypeOK
  <2> QED BY <1>2, <2>1, <2>2, <2>3, <2>4 DEF PaymentTypeOK, Untouched, PaymentOf
<1>5. Confirmed'
  BY <1>1, <1>2, <1>3 DEF Confirmed
<1>6. Copies'
  BY <1>1, <1>2, <1>3, CopiesGrow
<1>7. PaidFor'
  BY <1>2 DEF PaidFor, Untouched
<1>8. CreditedFirst'
  <2> SUFFICES ASSUME NEW p \in Invoices \ raced'
               PROVE  /\ credits[p] <= 1
                      /\ status[p] # "credited" => credits[p] = 0
                      /\ \A f, g \in work' : PaymentOf(f) = p /\ PaymentOf(g) = p => f = g
                      /\ \A g \in work' : PaymentOf(g) = p => credits[p] = 0
    BY DEF CreditedFirst, Untouched, PaymentOf
  <2>1. p \in Invoices \ raced
    BY <1>3
  <2>2. CASE p = InvoiceOf[c]
    <3>1. \A g \in work : PaymentOf(g) # p
      BY <1>1, <1>3, <2>2
    <3> QED BY <1>2, <1>3, <2>1, <2>2, <3>1 DEF CreditedFirst
  <2>3. CASE p # InvoiceOf[c]
    BY <1>1, <1>2, <1>3, <2>1, <2>3 DEF CreditedFirst
  <2> QED BY <2>2, <2>3
<1> QED BY <1>4, <1>5, <1>6, <1>7, <1>8 DEF PaymentInv

LEMMA InvoiceStep ==
  ASSUME PaymentInv, NEW p \in Invoices, CreateInvoice(p)
  PROVE  PaymentInv'
<1>1. /\ PaymentTypeOK /\ Confirmed /\ Copies /\ PaidFor /\ CreditedFirst
      /\ status' = [status EXCEPT ![p] = "created"] /\ status[p] = "absent"
      /\ UNCHANGED <<now, charge, sub, started, expires, newest, work, telegram, history, budgets>>
  BY DEF PaymentInv, CreateInvoice, InvoiceAllowed, SetStatus
<1>2. status' \in [Invoices -> PaymentStatuses] /\ \A q \in Invoices :
        status'[q] = IF q = p THEN "created" ELSE status[q]
  BY <1>1 DEF PaymentTypeOK, PaymentStatuses
<1>3. PaymentTypeOK'
  BY <1>1, <1>2 DEF PaymentTypeOK, telegram, history, budgets, PaymentOf
<1>4. Confirmed' /\ Copies'
  BY <1>1 DEF Confirmed, Copies, WorkOf, telegram, history, budgets
<1>5. PaidFor'
  BY <1>1, <1>2 DEF PaidFor, telegram
<1>6. CreditedFirst'
  BY <1>1, <1>2 DEF CreditedFirst, history, PaymentOf
<1> QED BY <1>3, <1>4, <1>5, <1>6 DEF PaymentInv

\* A checkout that is asked about again, or delivered again while a handler of it
\* is under way, is a repeat.
LEMMA BeginSteps ==
  ASSUME PaymentInv, NEW c \in Checkouts, BeginCheckout(c) \/ Deliver(c)
  PROVE  PaymentInv'
<1>1. PaymentTypeOK /\ Confirmed /\ repeats \in Nat /\ repeats <= MaxRepeats /\ InvoiceOf[c] \in Invoices
  BY CheckoutAssumption, BoundAssumption DEF PaymentInv, PaymentTypeOK
<1>2. WorkOf(c) # {} => c \in asked
  BY <1>1 DEF WorkOf, Confirmed
<1>3. CASE BeginCheckout(c)
  <2>1. repeats' = (IF c \in asked THEN repeats + 1 ELSE repeats) /\ (c \in asked => repeats < MaxRepeats)
    BY <1>3 DEF BeginCheckout, Repeats
  <2>2. repeats' \in repeats .. MaxRepeats
    BY <1>1, <2>1, BoundAssumption
  <2>3. Start(Loaded("checkout", c)) /\ Untouched /\ status[InvoiceOf[c]] # "credited"
    BY <1>3 DEF BeginCheckout, Untouched, tables
  <2>4. asked' = asked \cup {c} /\ asked' \subseteq Checkouts /\ charged' = charged
    BY <1>1, <1>3 DEF BeginCheckout, PaymentTypeOK
  <2>5. UNCHANGED <<now, sub, started, expires, newest, outcome, into, faults>>
    BY <1>3 DEF BeginCheckout, tables
  <2> QED BY <1>2, <2>1, <2>2, <2>3, <2>4, <2>5, HandlerBegins
<1>4. CASE Deliver(c)
  <2> DEFINE again == outcome[c] # "none" \/ WorkOf(c) # {}
  <2>1. repeats' = (IF again THEN repeats + 1 ELSE repeats) /\ (again => repeats < MaxRepeats)
    BY <1>4 DEF Deliver, Delivered, Repeats
  <2>2. repeats' \in repeats .. MaxRepeats
    BY <1>1, <2>1, BoundAssumption
  <2>3. Start(Loaded("confirm", c)) /\ Untouched /\ status[InvoiceOf[c]] # "credited"
    BY <1>4 DEF Deliver, Untouched, tables
  <2>4. c \in charged /\ c \in asked /\ asked \subseteq Checkouts
        /\ UNCHANGED <<asked, charged>>
    BY <1>1, <1>4 DEF Deliver, Delivered, Confirmed, telegram, PaymentTypeOK
  <2>5. UNCHANGED <<now, sub, started, expires, newest, outcome, into, faults>>
    BY <1>4 DEF Deliver, tables
  <2>6. WorkOf(c) # {} => repeats < MaxRepeats /\ repeats' = repeats + 1
    BY <2>1
  <2> HIDE DEF again
  <2> QED BY <2>2, <2>3, <2>4, <2>5, <2>6, HandlerBegins
<1> QED BY <1>3, <1>4

LEMMA CheckoutStep ==
  ASSUME PaymentInv, NEW h \in work, CommitCheckout(h)
  PROVE  PaymentInv'
<1> DEFINE p == PaymentOf(h)
<1>1. /\ PaymentTypeOK /\ Confirmed /\ Copies /\ PaidFor /\ CreditedFirst
      /\ h.checkout \in Checkouts /\ h.checkout \in asked /\ p \in Invoices
      /\ repeats \in Nat
  BY HandlerFacts, BoundAssumption DEF PaymentInv, Confirmed, PaymentTypeOK
<1>2. /\ work' = work \ {h} /\ status' \in {status, [status EXCEPT ![p] = "pending"]}
      /\ charged' \in {charged, charged \cup {h.checkout}}
      /\ UNCHANGED <<now, charge, sub, started, expires, newest, asked, history, budgets>>
  BY DEF CommitCheckout, SetStatus
<1> HIDE DEF p
<1>3. status' \in [Invoices -> PaymentStatuses] /\ \A q \in Invoices :
        status'[q] = status[q] \/ (q = p /\ status'[q] = "pending")
  BY <1>1, <1>2 DEF PaymentTypeOK, PaymentStatuses
<1>4. PaymentTypeOK'
  BY <1>1, <1>2, <1>3 DEF PaymentTypeOK, history, budgets, PaymentOf
<1>5. Confirmed'
  BY <1>1, <1>2 DEF Confirmed
<1>6. Copies'
  BY <1>1, <1>2, CopiesShrink DEF budgets
<1>7. PaidFor'
  BY <1>1, <1>2, <1>3 DEF PaidFor
<1>8. CreditedFirst'
  <2>1. p \notin raced => credits[p] = 0
    BY <1>1 DEF CreditedFirst, p
  <2> QED BY <1>1, <1>2, <1>3, <2>1 DEF CreditedFirst, history, PaymentOf
<1> QED BY <1>4, <1>5, <1>6, <1>7, <1>8 DEF PaymentInv

\* A delivery that is settled by its first reads.
LEMMA SettledStep ==
  ASSUME PaymentInv, NEW c \in Checkouts, DeliverSettled(c)
  PROVE  PaymentInv'
<1>1. PaymentTypeOK /\ Confirmed /\ Copies /\ PaidFor /\ CreditedFirst /\ repeats \in Nat
  BY BoundAssumption DEF PaymentInv, PaymentTypeOK
<1>2. /\ UNCHANGED <<now, tables, work, telegram, credits, into, raced, mixed, faults>>
      /\ outcome' \in [Checkouts -> {"none", "credited", "refused", "failed"}]
  BY <1>1 DEF DeliverSettled, Refuse, PaymentTypeOK
<1>3. repeats' \in Nat /\ repeats <= repeats' /\ repeats' <= MaxRepeats
  BY <1>1, BoundAssumption DEF DeliverSettled, Delivered, Repeats, PaymentTypeOK
<1>4. PaymentTypeOK'
  BY <1>1, <1>2, <1>3 DEF PaymentTypeOK, tables, telegram, PaymentOf
<1>5. Confirmed' /\ PaidFor' /\ CreditedFirst'
  BY <1>1, <1>2 DEF Confirmed, PaidFor, CreditedFirst, tables, telegram, PaymentOf
<1>6. Copies'
  BY <1>1, <1>2, <1>3, CopiesShrink
<1> QED BY <1>4, <1>5, <1>6 DEF PaymentInv

\* Handlers that are refused, raise or die, and the clock.
LEMMA EndSteps ==
  ASSUME PaymentInv,
         Tick \/ \E h \in work : LockRefused(h) \/ Raise(h) \/ Die(h)
  PROVE  PaymentInv'
<1>1. PaymentTypeOK
  BY DEF PaymentInv
<1>2. CASE Tick
  <2>1. PaymentTypeOK'
    BY <1>1, <1>2, BoundAssumption
       DEF Tick, PaymentTypeOK, tables, telegram, history, budgets, PaymentOf
  <2> QED BY <1>2, <2>1, HandlersEnd DEF Tick, Untouched, tables, telegram, history, budgets
<1>3. ASSUME NEW h \in work, LockRefused(h)
      PROVE  PaymentInv'
  <2>1. outcome' \in [Checkouts -> {"none", "credited", "refused", "failed"}]
    BY <1>1, <1>3 DEF LockRefused, Refuse, PaymentTypeOK
  <2>2. PaymentTypeOK'
    BY <1>1, <1>3, <2>1 DEF LockRefused, PaymentTypeOK, tables, telegram, budgets, PaymentOf
  <2> QED BY <1>3, <2>2, HandlersEnd DEF LockRefused, Untouched, tables, telegram, budgets
<1>4. ASSUME NEW h \in work, Raise(h)
      PROVE  PaymentInv'
  <2>1. outcome' \in [Checkouts -> {"none", "credited", "refused", "failed"}]
    BY <1>1, <1>4 DEF Raise, PaymentTypeOK
  <2>2. PaymentTypeOK'
    BY <1>1, <1>4, <2>1, BoundAssumption
       DEF Raise, PaymentTypeOK, tables, telegram, PaymentOf
  <2> QED BY <1>4, <2>2, HandlersEnd DEF Raise, Untouched, tables, telegram
<1>5. ASSUME NEW h \in work, Die(h)
      PROVE  PaymentInv'
  <2>1. PaymentTypeOK'
    BY <1>1, <1>5, BoundAssumption
       DEF Die, PaymentTypeOK, tables, telegram, history, PaymentOf
  <2> QED BY <1>5, <2>1, HandlersEnd DEF Die, Untouched, tables, telegram, history
<1> QED BY <1>2, <1>3, <1>4, <1>5

\* The flush locks a payment that no other handler has locked.
LEMMA LockStep ==
  ASSUME PaymentInv, NEW h \in work, Lock(h)
  PROVE  PaymentInv'
<1> DEFINE p == PaymentOf(h)
<1>1. /\ PaymentTypeOK /\ Confirmed /\ Copies /\ PaidFor /\ CreditedFirst /\ repeats \in Nat
      /\ h \in PaymentHandler /\ p \in Invoices
  BY HandlerFacts, BoundAssumption DEF PaymentInv, PaymentTypeOK
<1>2. PICK current \in CurrentChoices(now) :
        LET change == IF HasSubscription(p) THEN "mark" ELSE ChangeType(current, p)
        IN work' = (work \ {h}) \cup
             {[h EXCEPT !.phase = "locked", !.change = change, !.current = current,
                        !.at = now, !.until = PeriodEnd(p, change, current)]}
           /\ change # "downgrade"
  BY DEF Lock
<1> DEFINE change == IF HasSubscription(p) THEN "mark" ELSE ChangeType(current, p)
<1>13. change \in {"none", "mark", "new", "renew", "upgrade"}
  BY <1>2 DEF ChangeType
<1>3. /\ h.kind = "confirm" /\ \A g \in work : PaymentOf(g) = p => g.phase # "locked"
      /\ UNCHANGED <<now, tables, telegram, history, budgets>>
  BY DEF Lock
<1>4. current \in Invoices \cup {None}
  BY DEF CurrentChoices, Best, Effective
<1> HIDE DEF change
<1>5. now \in Nat /\ PeriodEnd(p, change, current) \in Nat
  <2>1. now \in Nat /\ DurationOf(p) \in Nat
    BY <1>1, PlanAssumption, BoundAssumption DEF PaymentTypeOK, DurationOf
  <2>2. change = "renew" => expires[current] \in Nat
    <3>1. change = "renew" => current # None
      BY DEF ChangeType, change
    <3> QED BY <1>1, <1>4, <3>1 DEF PaymentTypeOK
  <2> QED BY <2>1, <2>2 DEF PeriodEnd
<1>6. PICK d : /\ work' = (work \ {h}) \cup {d} /\ d \in PaymentHandler
               /\ d.checkout = h.checkout /\ d.kind = h.kind /\ d.phase = "locked"
  <2> DEFINE until == PeriodEnd(p, change, current)
             d == [h EXCEPT !.phase = "locked", !.change = change, !.current = current,
                            !.at = now, !.until = until]
  <2>1. until \in Nat
    BY <1>5
  <2> HIDE DEF until
  <2>2. d \in PaymentHandler /\ d.checkout = h.checkout /\ d.kind = h.kind /\ d.phase = "locked"
    BY <1>1, <1>4, <1>5, <1>13, <2>1 DEF PaymentHandler
  <2>3. work' = (work \ {h}) \cup {d}
    BY <1>2 DEF until, change
  <2> HIDE DEF d
  <2> QED BY <2>2, <2>3
<1>7. PaymentOf(d) = p
  BY <1>6 DEF PaymentOf
<1> HIDE DEF p
<1>8. PaymentTypeOK'
  <2>1. \A f, g \in work' :
          f.phase = "locked" /\ g.phase = "locked" /\ PaymentOf(f) = PaymentOf(g) => f = g
    BY <1>1, <1>3, <1>6, <1>7 DEF PaymentTypeOK
  <2>2. work' \subseteq PaymentHandler
    BY <1>1, <1>6 DEF PaymentTypeOK
  <2> QED BY <1>1, <1>3, <2>1, <2>2
          DEF PaymentTypeOK, tables, telegram, history, budgets, PaymentOf
<1>9. Confirmed'
  BY <1>1, <1>3, <1>6 DEF Confirmed, telegram
<1>10. Copies'
  BY <1>1, <1>3, <1>6, CopiesReplace DEF budgets
<1>11. PaidFor'
  BY <1>1, <1>3 DEF PaidFor, tables, telegram
<1>12. CreditedFirst'
  <2> SUFFICES ASSUME NEW q \in Invoices \ raced
               PROVE  /\ credits[q] <= 1
                      /\ status[q] # "credited" => credits[q] = 0
                      /\ \A f, g \in work' : PaymentOf(f) = q /\ PaymentOf(g) = q => f = g
                      /\ \A g \in work' : PaymentOf(g) = q => credits[q] = 0
    BY <1>3 DEF CreditedFirst, tables, history, PaymentOf
  <2>1. PaymentOf(h) = p
    BY DEF p
  <2> QED BY <1>1, <1>6, <1>7, <2>1 DEF CreditedFirst
<1> QED BY <1>8, <1>9, <1>10, <1>11, <1>12 DEF PaymentInv

\* What a credit writes has the types of the tables.
LEMMA CreditTypes ==
  ASSUME PaymentTypeOK, NEW h \in work, Credit(h)
  PROVE  /\ sub' \in [Invoices -> SubscriptionStatuses]
         /\ started' \in [Invoices -> Nat] /\ expires' \in [Invoices -> Nat]
         /\ newest' \in Invoices \cup {None}
         /\ into' \in [Invoices -> SUBSET Invoices]
<1> DEFINE p == PaymentOf(h)
<1>1. p \in Invoices /\ h.until \in Nat /\ h.at \in Nat
  BY HandlerFacts DEF PaymentHandler
<1>2. /\ sub \in [Invoices -> SubscriptionStatuses]
      /\ started \in [Invoices -> Nat] /\ expires \in [Invoices -> Nat]
      /\ newest \in Invoices \cup {None} /\ into \in [Invoices -> SUBSET Invoices]
      /\ {"active", "cancelled"} \subseteq SubscriptionStatuses
  BY DEF PaymentTypeOK, SubscriptionStatuses
<1> HIDE DEF p
<1>3. CASE h.change = "mark"
  BY <1>2, <1>3 DEF Credit
<1>4. CASE h.change = "renew"
  BY <1>1, <1>2, <1>4 DEF Credit, p
<1>5. CASE h.change \notin {"mark", "renew"}
  <2>1. /\ sub' = [q \in Invoices |-> IF q = p THEN "active"
                                      ELSE IF q \in Closed(h) THEN "cancelled" ELSE sub[q]]
        /\ expires' = [q \in Invoices |-> IF q = p THEN h.until
                                          ELSE IF q \in Closed(h) THEN h.at ELSE expires[q]]
        /\ StartSubscription(h)
    BY <1>5 DEF Credit, p
  <2>2. sub' \in [Invoices -> SubscriptionStatuses]
    BY <1>2, <2>1
  <2>3. expires' \in [Invoices -> Nat]
    BY <1>1, <1>2, <2>1
  <2>4. started' \in [Invoices -> Nat] /\ newest' \in Invoices \cup {None}
        /\ into' \in [Invoices -> SUBSET Invoices]
    BY <1>1, <1>2, <2>1 DEF StartSubscription, p
  <2> QED BY <2>2, <2>3, <2>4
<1> QED BY <1>3, <1>4, <1>5

LEMMA ConfirmStep ==
  ASSUME PaymentInv, NEW h \in work, CommitConfirm(h)
  PROVE  PaymentInv'
<1> DEFINE p == PaymentOf(h)
<1>1. /\ PaymentTypeOK /\ Confirmed /\ Copies /\ PaidFor /\ CreditedFirst /\ repeats \in Nat
      /\ h.checkout \in Checkouts /\ p \in Invoices /\ p = InvoiceOf[h.checkout]
      /\ h.checkout \in charged
  <2>1. h.phase = "locked"
    BY DEF CommitConfirm
  <2> QED BY <2>1, HandlerFacts, BoundAssumption
          DEF PaymentInv, Confirmed, PaymentTypeOK, PaymentOf
<1>2. /\ work' = work \ {h}
      /\ status' = [status EXCEPT ![p] = "credited"] /\ charge' = [charge EXCEPT ![p] = h.checkout]
      /\ Credit(h)
      /\ credits' = [credits EXCEPT ![p] = @ + (IF h.change = "mark" THEN 0 ELSE 1)]
      /\ outcome' = [outcome EXCEPT ![h.checkout] = "credited"]
      /\ UNCHANGED <<now, telegram, raced, mixed, budgets>>
  BY DEF CommitConfirm, SetStatus
<1>3. p \notin raced => credits[p] = 0
  BY <1>1 DEF CreditedFirst
<1> HIDE DEF p
<1>4. /\ status' \in [Invoices -> PaymentStatuses] /\ charge' \in [Invoices -> Checkouts \cup {None}]
      /\ credits' \in [Invoices -> Nat]
      /\ outcome' \in [Checkouts -> {"none", "credited", "refused", "failed"}]
      /\ \A q \in Invoices : /\ status'[q] = IF q = p THEN "credited" ELSE status[q]
                             /\ charge'[q] = IF q = p THEN h.checkout ELSE charge[q]
                             /\ q # p => credits'[q] = credits[q]
      /\ credits'[p] \in {credits[p], credits[p] + 1}
  BY <1>1, <1>2 DEF PaymentTypeOK, PaymentStatuses
<1>5. PaymentTypeOK'
  BY <1>1, <1>2, <1>4, CreditTypes DEF PaymentTypeOK, telegram, budgets, PaymentOf
<1>6. Confirmed'
  BY <1>1, <1>2 DEF Confirmed, telegram
<1>7. Copies'
  BY <1>1, <1>2, CopiesShrink DEF budgets
<1>8. PaidFor'
  BY <1>1, <1>2, <1>4 DEF PaidFor, telegram
<1>9. CreditedFirst'
  <2> SUFFICES ASSUME NEW q \in Invoices \ raced
               PROVE  /\ credits'[q] <= 1
                      /\ status'[q] # "credited" => credits'[q] = 0
                      /\ \A f, g \in work' : PaymentOf(f) = q /\ PaymentOf(g) = q => f = g
                      /\ \A g \in work' : PaymentOf(g) = q => credits'[q] = 0
    BY <1>2 DEF CreditedFirst, PaymentOf
  <2>1. CASE q = p
    <3>1. \A g \in work' : PaymentOf(g) # p
      BY <1>1, <1>2, <2>1 DEF CreditedFirst, p
    <3> QED BY <1>3, <1>4, <2>1, <3>1
  <2>2. CASE q # p
    BY <1>1, <1>2, <1>4, <2>2 DEF CreditedFirst
  <2> QED BY <2>1, <2>2
<1> QED BY <1>5, <1>6, <1>7, <1>8, <1>9 DEF PaymentInv

LEMMA PaymentStep == PaymentInv /\ [PaymentNext]_paymentVars => PaymentInv'
<1> SUFFICES ASSUME PaymentInv, [PaymentNext]_paymentVars
             PROVE  PaymentInv'
  OBVIOUS
<1>1. CASE UNCHANGED paymentVars
  BY <1>1 DEF paymentVars, tables, telegram, history, budgets, PaymentInv, PaymentTypeOK,
              Confirmed, Copies, PaidFor, CreditedFirst, PaymentOf, WorkOf
<1> QED BY <1>1, InvoiceStep, BeginSteps, CheckoutStep, SettledStep, EndSteps, LockStep,
           ConfirmStep DEF PaymentNext

\* Tables, handlers and clock keep their types, and a payment is locked by one
\* handler at a time.
THEOREM PaymentTypeCorrect == PaymentSpec => []PaymentTypeOK
<1>1. PaymentInv => PaymentTypeOK
  BY DEF PaymentInv
<1> QED BY PaymentInitial, PaymentStep, <1>1, PTL DEF PaymentSpec

\* Access always rests on a charge for the invoice whose subscription gives it,
\* whatever is repeated, raced or rolled back.
THEOREM AccessIsPaid == PaymentSpec => []AccessImpliesPaid
<1>1. PaymentInv => AccessImpliesPaid
  <2> SUFFICES ASSUME PaymentInv, NEW p \in Effective(now)
               PROVE  \E c \in charged : InvoiceOf[c] = p /\ charge[p] \in charged
    BY DEF AccessImpliesPaid
  <2>1. p \in Invoices /\ status[p] = "credited"
    BY DEF Effective
  <2> QED BY <2>1 DEF PaymentInv, PaidFor
<1> QED BY PaymentInitial, PaymentStep, <1>1, PTL DEF PaymentSpec

\* A payment whose handlers do not overlap is credited once, with any number of
\* repeated deliveries, faults and other payments at the same time.
THEOREM CreditedOnce == PaymentSpec => []CreditedOnceUnlessRaced
<1>1. PaymentInv => CreditedOnceUnlessRaced
  BY DEF PaymentInv, CreditedFirst, CreditedOnceUnlessRaced
<1> QED BY PaymentInitial, PaymentStep, <1>1, PTL DEF PaymentSpec

-----------------------------------------------------------------------------
(* What the subscriptions say. *)

\* A subscription that gives access later gives it earlier.
LEMMA EffectiveShrinks ==
  ASSUME PaymentTypeOK, NEW s \in Nat, NEW t \in Nat, s <= t
  PROVE  Effective(t) \subseteq Effective(s)
BY DEF PaymentTypeOK, Effective

\* Among the subscriptions that give access there is a best one.
LEMMA BestExists ==
  ASSUME PaymentTypeOK, NEW t \in Nat, Effective(t) # {}
  PROVE  Best(t) # {}
<1> DEFINE top   == IF \E p \in Effective(t) : PlanOf[p] = 2 THEN 2 ELSE 1
           E     == {p \in Effective(t) : PlanOf[p] = top}
           U(p)  == {q \in E : expires[q] >= expires[p]}
           T     == {U(p) : p \in E}
           R     == StrictSubsetOrdering(Invoices)
<1>1. /\ Effective(t) \subseteq Invoices /\ E \subseteq Invoices
      /\ \A p \in Invoices : expires[p] \in Nat /\ PlanOf[p] \in {1, 2}
  BY PlanAssumption DEF PaymentTypeOK, Effective
<1>2. E # {} /\ \A p \in Effective(t) : PlanOf[p] <= top /\ (p \notin E => PlanOf[p] < top)
  BY <1>1
<1>3. T # {} /\ T \subseteq FiniteSubsetsOf(Invoices)
  <2>1. \A p \in E : U(p) \subseteq Invoices
    BY <1>1
  <2>2. \A p \in E : IsFiniteSet(U(p))
    BY <2>1, InvoiceAssumption, FS_Subset
  <2> HIDE DEF U
  <2>3. \A p \in E : U(p) \in FiniteSubsetsOf(Invoices)
    BY <2>1, <2>2 DEF FiniteSubsetsOf
  <2> HIDE DEF E
  <2> QED BY <1>2, <2>3
<1>4. PICK x \in T : \A y \in T : <<y, x>> \notin R
  <2> HIDE DEF T, R
  <2>1. IsWellFoundedOn(R, FiniteSubsetsOf(Invoices))
    BY FS_StrictSubsetOrderingWellFounded DEF R
  <2> QED BY <1>3, <2>1, WFMin
<1>5. PICK p \in E : x = U(p)
  OBVIOUS
<1>6. \A q \in E : expires[q] <= expires[p]
  <2> SUFFICES ASSUME NEW q \in E, ~(expires[q] <= expires[p])
               PROVE  FALSE
    OBVIOUS
  <2>1. expires[p] \in Nat /\ expires[q] \in Nat /\ expires[q] > expires[p]
    BY <1>1
  <2>2. U(q) \subseteq U(p) /\ p \in U(p) /\ p \notin U(q)
    BY <1>1, <2>1
  <2>3. U(q) \in T /\ U(q) \in SUBSET Invoices /\ U(p) \in SUBSET Invoices
    BY <1>1
  <2>4. <<U(q), U(p)>> \in R
    BY <2>2, <2>3 DEF StrictSubsetOrdering
  <2> QED BY <1>4, <1>5, <2>3, <2>4
<1>7. p \in Best(t)
  BY <1>1, <1>2, <1>6 DEF Best
<1> QED BY <1>7

\* The plan a learner has is the best of those that give access.
PlanIsBest ==
  /\ AccessPlan \in 0 .. 2
  /\ \A p \in Effective(now) : PlanOf[p] <= AccessPlan
  /\ AccessPlan > 0 => \E p \in Effective(now) : PlanOf[p] = AccessPlan

LEMMA AccessPlanIsBest == PaymentTypeOK => PlanIsBest
<1> SUFFICES ASSUME PaymentTypeOK
             PROVE  PlanIsBest
  OBVIOUS
<1>1. now \in Nat /\ \A p \in Effective(now) : p \in Invoices /\ PlanOf[p] \in 1 .. 2
  BY PlanAssumption, BoundAssumption DEF PaymentTypeOK, Effective
<1>2. CASE Effective(now) = {}
  BY <1>2 DEF AccessPlan, PlanIsBest
<1>3. CASE Effective(now) # {}
  <2> DEFINE b == CHOOSE p \in Best(now) : TRUE
  <2>1. b \in Best(now) /\ AccessPlan = PlanOf[b]
    BY <1>1, <1>3, BestExists DEF AccessPlan
  <2> HIDE DEF b
  <2>2. b \in Effective(now) /\ \A q \in Effective(now) : PlanOf[q] <= PlanOf[b]
    BY <1>1, <2>1 DEF Best
  <2> QED BY <1>1, <2>1, <2>2 DEF PlanIsBest
<1> QED BY <1>2, <1>3

-----------------------------------------------------------------------------
(* Access. *)

\* As long as the handlers of a payment have not overlapped, its subscription
\* and its share of one come with its credit, ...
CreditsShow ==
  /\ \A p \in Invoices : sub[p] # "absent" => status[p] = "credited"
  /\ \A p \in Invoices : \A q \in into[p] : status[q] = "credited"
  /\ newest # None => sub[newest] # "absent"
  /\ \A h \in work : status[PaymentOf(h)] # "credited"

\* ... and what a handler has decided gives access for the period paid.
SoundDecision(h) ==
  /\ h.change \in {"new", "renew", "upgrade"}
  /\ h.change = ChangeType(h.current, PaymentOf(h))
  /\ h.current # None => sub[h.current] # "absent"
  /\ h.at <= now
  /\ h.until >= h.at + DurationOf(PaymentOf(h))

Unraced ==
  raced = {} => CreditsShow /\ \A h \in work : h.phase = "locked" => SoundDecision(h)

\* If confirmations come one at a time, what a handler has decided still fits the
\* subscriptions when it commits.
CurrentDecision(h) ==
  /\ Effective(h.at) \subseteq {h.current}
  /\ h.until = DurationOf(PaymentOf(h)) + (IF h.change = "renew" THEN expires[h.current] ELSE h.at)

PeriodsAddUp ==
  \A p \in Invoices : sub[p] = "active" =>
    expires[p] = started[p] + DurationOf(p) * Cardinality(into[p])

InTurn ==
  raced = {} /\ ~mixed =>
    /\ \A g, h \in work : g.kind = "confirm" /\ h.kind = "confirm" => g = h
    /\ \A p, q \in Effective(now) : p = q
    /\ PeriodsAddUp
    /\ \A h \in work : h.phase = "locked" => CurrentDecision(h)

AccessInv == PaymentInv /\ Unraced /\ InTurn

LEMMA AccessInitial == PaymentInit => AccessInv
<1> SUFFICES ASSUME PaymentInit
             PROVE  AccessInv
  OBVIOUS
<1>1. PaymentInv
  BY PaymentInitial
<1>2. Unraced
  BY DEF PaymentInit, Unraced, CreditsShow
<1>3. InTurn
  BY DEF PaymentInit, InTurn, Effective, PeriodsAddUp
<1> QED BY <1>1, <1>2, <1>3 DEF AccessInv

\* Time passes, handlers end, payments move between the states before "credited":
\* what was decided about the subscriptions still holds.
LEMMA CalmStep ==
  ASSUME AccessInv, PaymentInv', work' \subseteq work, now' \in Nat, now <= now',
         UNCHANGED <<sub, started, expires, newest, into, raced, mixed>>,
         raced = {} => \A p \in Invoices : status'[p] = "credited" <=> status[p] = "credited"
  PROVE  AccessInv'
<1>1. /\ PaymentTypeOK /\ now \in Nat
      /\ \A h \in work : PaymentOf(h) \in Invoices
      /\ \A h \in work : h.at \in Nat
  BY HandlerFacts, BoundAssumption DEF AccessInv, PaymentInv, PaymentTypeOK, PaymentHandler
<1>2. raced = {} => \A t : Effective(t)' = Effective(t)
  BY DEF Effective
<1>3. Unraced'
  <2> SUFFICES ASSUME raced = {}
               PROVE  CreditsShow' /\ \A h \in work' : h.phase = "locked" => SoundDecision(h)'
    BY DEF Unraced
  <2>1. CreditsShow /\ \A h \in work : h.phase = "locked" => SoundDecision(h)
    BY DEF AccessInv, Unraced
  <2>2. CreditsShow'
    <3>1. \A p \in Invoices : into[p] \subseteq Invoices
      BY <1>1 DEF PaymentTypeOK
    <3> QED BY <1>1, <2>1, <3>1 DEF CreditsShow, PaymentOf
  <2>3. \A h \in work' : h.phase = "locked" => SoundDecision(h)'
    BY <1>1, <2>1 DEF SoundDecision, ChangeType, PaymentOf, DurationOf
  <2> QED BY <2>2, <2>3
<1>4. InTurn'
  <2> SUFFICES ASSUME raced = {}, ~mixed
               PROVE  InTurn'
    BY DEF InTurn
  <2>1. /\ \A g, h \in work : g.kind = "confirm" /\ h.kind = "confirm" => g = h
        /\ \A p, q \in Effective(now) : p = q
        /\ PeriodsAddUp
        /\ \A h \in work : h.phase = "locked" => CurrentDecision(h)
    BY DEF AccessInv, InTurn
  <2>2. Effective(now)' \subseteq Effective(now)
    BY <1>1 DEF Effective, PaymentTypeOK
  <2>3. PeriodsAddUp'
    BY <2>1 DEF PeriodsAddUp, DurationOf
  <2>4. \A h \in work' : h.phase = "locked" => CurrentDecision(h)'
    BY <1>2, <2>1 DEF CurrentDecision, PaymentOf, DurationOf
  <2> QED BY <2>1, <2>2, <2>3, <2>4 DEF InTurn
<1> QED BY <1>3, <1>4 DEF AccessInv

\* A handler begins, of a payment that is not credited.
LEMMA BegunStep ==
  ASSUME AccessInv, PaymentInv', NEW h, Start(h),
         status[PaymentOf(h)] # "credited", h.phase = "read",
         UNCHANGED <<now, status, sub, started, expires, newest, into>>
  PROVE  AccessInv'
<1>1. /\ work' = work \cup {h}
      /\ raced' = {} => raced = {}
      /\ mixed' = (mixed \/ (h.kind = "confirm" /\ \E g \in work : g.kind = "confirm"))
  BY DEF Start
<1>2. Unraced'
  <2> SUFFICES ASSUME raced' = {}
               PROVE  CreditsShow' /\ \A g \in work' : g.phase = "locked" => SoundDecision(g)'
    BY DEF Unraced
  <2>1. CreditsShow /\ \A g \in work : g.phase = "locked" => SoundDecision(g)
    BY <1>1 DEF AccessInv, Unraced
  <2>2. CreditsShow'
    BY <1>1, <2>1 DEF CreditsShow, PaymentOf
  <2>3. \A g \in work' : g.phase = "locked" => SoundDecision(g)'
    BY <1>1, <2>1 DEF SoundDecision, ChangeType, PaymentOf, DurationOf
  <2> QED BY <2>2, <2>3
<1>3. InTurn'
  <2> SUFFICES ASSUME raced' = {}, ~mixed'
               PROVE  InTurn'
    BY DEF InTurn
  <2>1. /\ \A f, g \in work : f.kind = "confirm" /\ g.kind = "confirm" => f = g
        /\ \A p, q \in Effective(now) : p = q
        /\ PeriodsAddUp
        /\ \A g \in work : g.phase = "locked" => CurrentDecision(g)
    BY <1>1 DEF AccessInv, InTurn
  <2>2. \A f, g \in work' : f.kind = "confirm" /\ g.kind = "confirm" => f = g
    BY <1>1, <2>1
  <2>3. PeriodsAddUp' /\ Effective(now)' = Effective(now)
    BY <2>1 DEF PeriodsAddUp, DurationOf, Effective
  <2>4. \A g \in work' : g.phase = "locked" => CurrentDecision(g)'
    BY <1>1, <2>1 DEF CurrentDecision, PaymentOf, DurationOf, Effective
  <2> QED BY <2>1, <2>2, <2>3, <2>4 DEF InTurn
<1> QED BY <1>2, <1>3 DEF AccessInv

\* A handler decides about its payment: nothing has been credited for it, and
\* there is at most one subscription to renew or upgrade.
LEMMA LockedStep ==
  ASSUME AccessInv, PaymentInv', NEW h \in work, Lock(h)
  PROVE  AccessInv'
<1> DEFINE p == PaymentOf(h)
<1>1. /\ PaymentTypeOK /\ h \in PaymentHandler /\ p \in Invoices /\ now \in Nat
      /\ h.kind = "confirm" /\ DurationOf(p) \in Nat
      /\ UNCHANGED <<now, status, sub, started, expires, newest, into, raced, mixed>>
  BY HandlerFacts, BoundAssumption, PlanAssumption
     DEF AccessInv, PaymentInv, PaymentTypeOK, Lock, tables, history, DurationOf
<1>2. PICK current \in CurrentChoices(now) :
        LET change == IF HasSubscription(p) THEN "mark" ELSE ChangeType(current, p)
        IN /\ change # "downgrade"
           /\ work' = (work \ {h}) \cup
                {[h EXCEPT !.phase = "locked", !.change = change, !.current = current,
                           !.at = now, !.until = PeriodEnd(p, change, current)]}
  BY DEF Lock
<1>3. \/ current = None /\ Effective(now) = {}
      \/ current # None /\ current \in Effective(now) /\ current \in Invoices
  <2>1. Best(now) \subseteq Effective(now) /\ Effective(now) \subseteq Invoices
    BY DEF Best, Effective
  <2>2. CASE Effective(now) = {}
    BY <2>2 DEF CurrentChoices
  <2>3. CASE Effective(now) # {}
    BY <2>1, <2>3, InvoiceAssumption DEF CurrentChoices
  <2> QED BY <2>2, <2>3
<1>4. PICK change, until, d :
        /\ change = IF HasSubscription(p) THEN "mark" ELSE ChangeType(current, p)
        /\ change # "downgrade"
        /\ until = DurationOf(p) + (IF change = "renew" THEN expires[current] ELSE now)
        /\ work' = (work \ {h}) \cup {d}
        /\ d.phase = "locked" /\ d.kind = "confirm" /\ d.checkout = h.checkout
        /\ d.change = change /\ d.current = current /\ d.at = now /\ d.until = until
  <2> DEFINE c == IF HasSubscription(p) THEN "mark" ELSE ChangeType(current, p)
             u == PeriodEnd(p, c, current)
             e == [h EXCEPT !.phase = "locked", !.change = c, !.current = current,
                            !.at = now, !.until = u]
  <2>1. c # "downgrade" /\ work' = (work \ {h}) \cup {e}
    BY <1>2
  <2>2. u = DurationOf(p) + (IF c = "renew" THEN expires[current] ELSE now)
    BY DEF PeriodEnd
  <2>3. c = IF HasSubscription(p) THEN "mark" ELSE ChangeType(current, p)
    OBVIOUS
  <2> HIDE DEF c, u
  <2>4. /\ e.phase = "locked" /\ e.kind = "confirm" /\ e.checkout = h.checkout
        /\ e.change = c /\ e.current = current /\ e.at = now /\ e.until = u
    BY <1>1 DEF PaymentHandler
  <2> HIDE DEF e
  <2> QED BY <2>1, <2>2, <2>3, <2>4
<1>5. PaymentOf(d) = p
  BY <1>4 DEF PaymentOf
<1>6. Unraced'
  <2> SUFFICES ASSUME raced = {}
               PROVE  CreditsShow' /\ \A g \in work' : g.phase = "locked" => SoundDecision(g)'
    BY <1>1 DEF Unraced
  <2>1. CreditsShow /\ \A g \in work : g.phase = "locked" => SoundDecision(g)
    BY DEF AccessInv, Unraced
  <2>2. status[p] # "credited"
    BY <2>1 DEF CreditsShow
  <2>3. CreditsShow'
    <3>1. \A g \in work' : status'[PaymentOf(g)] # "credited"
      BY <1>1, <1>4, <1>5, <2>1, <2>2 DEF CreditsShow
    <3> QED BY <1>1, <2>1, <3>1 DEF CreditsShow, PaymentOf
  <2>4. ~HasSubscription(p)
    BY <1>1, <2>1, <2>2 DEF CreditsShow, HasSubscription
  <2>5. change \in {"new", "renew", "upgrade"} /\ change = ChangeType(current, p)
    BY <1>4, <2>4 DEF ChangeType
  <2>6. current # None => sub[current] # "absent"
    BY <1>3 DEF Effective
  <2>7. until >= now + DurationOf(p)
    <3>1. change = "renew" => current # None
      BY <2>5 DEF ChangeType
    <3>2. change = "renew" => expires[current] \in Nat /\ expires[current] > now
      BY <1>1, <1>3, <3>1 DEF Effective, PaymentTypeOK
    <3> QED BY <1>1, <1>4, <3>2
  <2>8. SoundDecision(d)'
    <3>1. SoundDecision(d)
      BY <1>1, <1>4, <1>5, <2>5, <2>6, <2>7 DEF SoundDecision
    <3> QED BY <1>1, <3>1 DEF SoundDecision, ChangeType, PaymentOf, DurationOf
  <2>9. \A g \in work : g.phase = "locked" => SoundDecision(g)'
    BY <1>1, <2>1 DEF SoundDecision, ChangeType, PaymentOf, DurationOf
  <2> QED BY <1>4, <2>3, <2>8, <2>9
<1>7. InTurn'
  <2> SUFFICES ASSUME raced = {}, ~mixed
               PROVE  InTurn'
    BY <1>1 DEF InTurn
  <2>1. /\ \A f, g \in work : f.kind = "confirm" /\ g.kind = "confirm" => f = g
        /\ \A q, r \in Effective(now) : q = r
        /\ PeriodsAddUp
        /\ \A g \in work : g.phase = "locked" => CurrentDecision(g)
    BY DEF AccessInv, InTurn
  <2>2. \A f, g \in work' : f.kind = "confirm" /\ g.kind = "confirm" => f = g
    BY <1>1, <1>4, <2>1
  <2>3. PeriodsAddUp' /\ Effective(now)' = Effective(now)
    BY <1>1, <2>1 DEF PeriodsAddUp, DurationOf, Effective
  <2>4. CurrentDecision(d)'
    <3>1. Effective(now) \subseteq {current}
      BY <1>3, <2>1
    <3>2. CurrentDecision(d)
      BY <1>4, <1>5, <3>1 DEF CurrentDecision
    <3> QED BY <1>1, <3>2 DEF CurrentDecision, PaymentOf, DurationOf, Effective
  <2>5. \A g \in work : g.phase = "locked" => CurrentDecision(g)'
    BY <1>1, <2>1 DEF CurrentDecision, PaymentOf, DurationOf, Effective
  <2> QED BY <1>4, <2>1, <2>2, <2>3, <2>4, <2>5 DEF InTurn
<1> QED BY <1>6, <1>7 DEF AccessInv

\* What a commit writes, when no payment has raced: the subscription is renewed,
\* or opened in place of one that an upgrade closes.
LEMMA CreditWrites ==
  ASSUME AccessInv, NEW h \in work, CommitConfirm(h), raced = {}
  PROVE  LET p == PaymentOf(h) IN
         /\ SoundDecision(h) /\ CreditsShow /\ p \in Invoices /\ status[p] # "credited"
         /\ h.until \in Nat /\ h.at \in Nat /\ h.current \in Invoices \cup {None}
         /\ work' = work \ {h} /\ UNCHANGED <<now, raced, mixed>>
         /\ \A q \in Invoices : status'[q] = IF q = p THEN "credited" ELSE status[q]
         /\ \/ /\ h.change = "renew" /\ h.current \in Invoices /\ h.current # p
               /\ UNCHANGED <<sub, started, newest>>
               /\ \A q \in Invoices :
                    /\ expires'[q] = IF q = h.current THEN h.until ELSE expires[q]
                    /\ into'[q] = IF q = h.current THEN into[q] \cup {p} ELSE into[q]
            \/ /\ h.change \in {"new", "upgrade"} /\ newest' = p
               /\ h.change = "upgrade" => h.current \in Invoices
               /\ \A q \in Invoices :
                    /\ sub'[q] = IF q = p THEN "active"
                                 ELSE IF q \in Closed(h) THEN "cancelled" ELSE sub[q]
                    /\ expires'[q] = IF q = p THEN h.until
                                     ELSE IF q \in Closed(h) THEN h.at ELSE expires[q]
                    /\ started'[q] = IF q = p THEN h.at ELSE started[q]
                    /\ into'[q] = IF q = p THEN {p} ELSE into[q]
<1> DEFINE p == PaymentOf(h)
<1>1. SoundDecision(h) /\ CreditsShow /\ p \in Invoices /\ status[p] # "credited"
  BY HandlerFacts DEF AccessInv, PaymentInv, Unraced, CreditsShow, CommitConfirm
<1>2. /\ h \in PaymentHandler /\ h.until \in Nat /\ h.at \in Nat /\ h.current \in Invoices \cup {None}
      /\ status \in [Invoices -> PaymentStatuses] /\ expires \in [Invoices -> Nat]
      /\ started \in [Invoices -> Nat] /\ into \in [Invoices -> SUBSET Invoices]
  BY HandlerFacts DEF AccessInv, PaymentInv, PaymentTypeOK, PaymentHandler
<1>3. /\ work' = work \ {h} /\ UNCHANGED <<now, raced, mixed>> /\ Credit(h)
      /\ status' = [status EXCEPT ![p] = "credited"]
  BY DEF CommitConfirm, SetStatus
<1>4. h.change \in {"renew", "upgrade"} => h.current \in Invoices /\ h.current # p
  <2>1. h.change \in {"renew", "upgrade"} => h.current # None
    BY <1>1 DEF SoundDecision, ChangeType
  <2> QED BY <1>1, <1>2, <2>1 DEF SoundDecision, CreditsShow
<1>5. \A q \in Invoices : status'[q] = IF q = p THEN "credited" ELSE status[q]
  BY <1>1, <1>2, <1>3
<1> HIDE DEF p
<1>6. CASE h.change = "renew"
  <2>1. /\ UNCHANGED <<sub, started, newest>>
        /\ expires' = [expires EXCEPT ![h.current] = h.until]
        /\ into' = [into EXCEPT ![h.current] = @ \cup {p}]
    BY <1>3, <1>6 DEF Credit, p
  <2>2. \A q \in Invoices :
          /\ expires'[q] = IF q = h.current THEN h.until ELSE expires[q]
          /\ into'[q] = IF q = h.current THEN into[q] \cup {p} ELSE into[q]
    BY <1>2, <1>4, <1>6, <2>1
  <2> QED BY <1>1, <1>2, <1>3, <1>4, <1>5, <1>6, <2>1, <2>2 DEF p
<1>7. CASE h.change # "renew"
  <2>1. h.change \in {"new", "upgrade"} /\ h.change # "mark"
    BY <1>1, <1>7 DEF SoundDecision
  <2>2. /\ sub' = [q \in Invoices |-> IF q = p THEN "active"
                                      ELSE IF q \in Closed(h) THEN "cancelled" ELSE sub[q]]
        /\ expires' = [q \in Invoices |-> IF q = p THEN h.until
                                          ELSE IF q \in Closed(h) THEN h.at ELSE expires[q]]
        /\ started' = [started EXCEPT ![p] = h.at]
        /\ newest' = p
        /\ into' = [into EXCEPT ![p] = {p}]
    BY <1>3, <1>7, <2>1 DEF Credit, StartSubscription, p
  <2>3. \A q \in Invoices :
          /\ started'[q] = IF q = p THEN h.at ELSE started[q]
          /\ into'[q] = IF q = p THEN {p} ELSE into[q]
    BY <1>1, <1>2, <2>2
  <2> QED BY <1>1, <1>2, <1>3, <1>4, <1>5, <2>1, <2>2, <2>3 DEF p
<1> QED BY <1>6, <1>7

\* A commit leaves what is credited credited, and no other decision unsound.
LEMMA CommitKeepsUnraced ==
  ASSUME AccessInv, NEW h \in work, CommitConfirm(h), raced = {}
  PROVE  Unraced'
<1> DEFINE p == PaymentOf(h)
<1>1. /\ SoundDecision(h) /\ CreditsShow /\ p \in Invoices /\ work' = work \ {h} /\ now' = now
      /\ \A q \in Invoices : status'[q] = IF q = p THEN "credited" ELSE status[q]
  BY CreditWrites
<1>2. \A q \in Invoices : sub'[q] = sub[q] \/ q = p \/ (sub'[q] = "cancelled" /\ sub[q] # "absent")
  <2>1. h.current \in Invoices => sub[h.current] # "absent"
    BY <1>1, InvoiceAssumption DEF SoundDecision
  <2> QED BY <2>1, CreditWrites DEF Closed
<1>3. \A q \in Invoices : sub[q] # "absent" => sub'[q] # "absent"
  BY CreditWrites DEF Closed
<1>4. \A q \in Invoices : into'[q] \subseteq into[q] \cup {p} /\ into[q] \subseteq Invoices
  <2>1. \A q \in Invoices : into[q] \subseteq Invoices
    BY DEF AccessInv, PaymentInv, PaymentTypeOK
  <2> QED BY <2>1, CreditWrites
<1>5. newest' = newest \/ (newest' = p /\ sub'[p] = "active")
  BY CreditWrites
<1>6. \A g \in work' : PaymentOf(g) \in Invoices /\ PaymentOf(g) # p
  <2>1. \A g \in work : PaymentOf(g) \in Invoices
    BY HandlerFacts DEF AccessInv, PaymentInv
  <2> QED BY <1>1, <2>1 DEF AccessInv, PaymentInv, CreditedFirst
<1>7. newest \in Invoices \cup {None} /\ \A g \in work : g.current \in Invoices \cup {None}
  BY DEF AccessInv, PaymentInv, PaymentTypeOK, PaymentHandler
<1> HIDE DEF p
<1>8. CreditsShow'
  <2>1. \A q \in Invoices : sub'[q] # "absent" => status'[q] = "credited"
    BY <1>1, <1>2 DEF CreditsShow
  <2>2. \A q \in Invoices : \A r \in into'[q] : status'[r] = "credited"
    BY <1>1, <1>4 DEF CreditsShow
  <2>3. newest' # None => sub'[newest'] # "absent"
    BY <1>1, <1>3, <1>5, <1>7 DEF CreditsShow
  <2>4. \A g \in work' : status'[PaymentOf(g)] # "credited"
    BY <1>1, <1>6 DEF CreditsShow
  <2> QED BY <2>1, <2>2, <2>3, <2>4 DEF CreditsShow, PaymentOf
<1>9. ASSUME NEW g \in work', g.phase = "locked"
      PROVE  SoundDecision(g)'
  <2>1. SoundDecision(g) /\ g \in work
    BY <1>1, <1>9 DEF AccessInv, Unraced
  <2> QED BY <1>1, <1>3, <1>7, <2>1 DEF SoundDecision, ChangeType, PaymentOf, DurationOf
<1> QED BY <1>8, <1>9 DEF Unraced

\* If confirmations come one at a time, the one that commits leaves one
\* subscription that gives access, for the periods paid into it.
LEMMA CommitAddsUp ==
  ASSUME AccessInv, NEW h \in work, CommitConfirm(h), raced = {}, ~mixed
  PROVE  InTurn'
<1> DEFINE p == PaymentOf(h)
<1>1. /\ SoundDecision(h) /\ CreditsShow /\ p \in Invoices /\ work' = work \ {h} /\ now' = now
      /\ status[p] # "credited"
      /\ \A q \in Invoices : status'[q] = IF q = p THEN "credited" ELSE status[q]
  BY CreditWrites
<1>2. h.phase = "locked"
  BY DEF CommitConfirm
<1>3. /\ \A f, g \in work : f.kind = "confirm" /\ g.kind = "confirm" => f = g
      /\ \A q, r \in Effective(now) : q = r
      /\ PeriodsAddUp /\ CurrentDecision(h)
  BY <1>2 DEF AccessInv, InTurn
<1>4. \A g \in work : g.phase = "locked" => g = h
  BY <1>2, <1>3 DEF AccessInv, PaymentInv, Confirmed
<1>5. PaymentTypeOK /\ now \in Nat /\ h.at \in Nat /\ h.at <= now /\ h.current \in Invoices \cup {None}
  <2>1. PaymentTypeOK /\ now \in Nat
    BY BoundAssumption DEF AccessInv, PaymentInv, PaymentTypeOK
  <2>2. h.at \in Nat /\ h.current \in Invoices \cup {None}
    BY CreditWrites
  <2> QED BY <1>1, <2>1, <2>2 DEF SoundDecision
<1>6. Effective(now) \subseteq {h.current}
  BY <1>3, <1>5, EffectiveShrinks DEF CurrentDecision
<1>7. \A q \in Invoices : DurationOf(q)' = DurationOf(q) /\ DurationOf(q) \in Nat
  BY PlanAssumption DEF DurationOf
<1>8. CASE h.change = "renew"
  <2>1. /\ h.current \in Invoices /\ h.current # p /\ sub' = sub /\ started' = started
        /\ \A q \in Invoices :
             /\ expires'[q] = IF q = h.current THEN h.until ELSE expires[q]
             /\ into'[q] = IF q = h.current THEN into[q] \cup {p} ELSE into[q]
    BY <1>8, CreditWrites
  <2>2. sub[p] = "absent" /\ p \notin into[h.current]
    BY <1>1, <2>1 DEF CreditsShow
  <2>3. \A q \in Invoices : sub[q] = "active" => status[q] = "credited"
    BY <1>1 DEF CreditsShow
  <2>4. Effective(now)' \subseteq {h.current}
    <3> SUFFICES ASSUME NEW q \in Effective(now)', q # h.current
                 PROVE  FALSE
      OBVIOUS
    <3>1. q \in Invoices /\ sub[q] = "active" /\ expires'[q] > now
      BY <1>1, <2>1 DEF Effective
    <3>2. q \in Effective(now)
      BY <2>1, <2>3, <3>1 DEF Effective
    <3> QED BY <1>6, <3>2
  <2>5. PeriodsAddUp'
    <3> SUFFICES ASSUME NEW q \in Invoices, sub[q] = "active"
                 PROVE  expires'[q] = started[q] + DurationOf(q) * Cardinality(into'[q])
      BY <1>7, <2>1 DEF PeriodsAddUp
    <3>1. expires[q] = started[q] + DurationOf(q) * Cardinality(into[q])
      BY <1>3 DEF PeriodsAddUp
    <3>2. CASE q # h.current
      BY <2>1, <3>1, <3>2
    <3>3. CASE q = h.current
      <4>1. IsFiniteSet(into[q]) /\ Cardinality(into[q]) \in Nat
        BY <1>5, InvoiceAssumption, FS_Subset, FS_CardinalityType DEF PaymentTypeOK
      <4>2. Cardinality(into[q] \cup {p}) = Cardinality(into[q]) + 1
        BY <2>2, <3>3, <4>1, FS_AddElement
      <4>3. into'[q] = into[q] \cup {p} /\ expires'[q] = DurationOf(p) + expires[q]
        BY <1>3, <1>8, <2>1, <3>3 DEF CurrentDecision
      <4>4. DurationOf(p) = DurationOf(q)
        BY <1>1, <1>5, <1>8, <3>3, PlanAssumption DEF SoundDecision, ChangeType, DurationOf
      <4> DEFINE n == Cardinality(into[q])
                 d == DurationOf(q)
      <4>5. d \in Nat /\ started[q] \in Nat /\ n \in Nat
        BY <1>5, <1>7, <4>1 DEF PaymentTypeOK
      <4>6. expires'[q] = started[q] + d * n + d
        BY <3>1, <4>3, <4>4, <4>5
      <4>7. Cardinality(into'[q]) = n + 1
        BY <4>2, <4>3
      <4> HIDE DEF n, d
      <4>8. d * (n + 1) = d * n + d
        BY <4>5
      <4> QED BY <4>5, <4>6, <4>7, <4>8 DEF d
    <3> QED BY <3>2, <3>3
  <2> QED BY <1>1, <1>3, <1>4, <2>4, <2>5 DEF InTurn
<1>9. CASE h.change # "renew"
  <2>1. /\ h.change \in {"new", "upgrade"}
        /\ h.change = "upgrade" => h.current \in Invoices
        /\ \A q \in Invoices :
             /\ sub'[q] = IF q = p THEN "active" ELSE IF q \in Closed(h) THEN "cancelled" ELSE sub[q]
             /\ expires'[q] = IF q = p THEN h.until ELSE IF q \in Closed(h) THEN h.at ELSE expires[q]
             /\ started'[q] = IF q = p THEN h.at ELSE started[q]
             /\ into'[q] = IF q = p THEN {p} ELSE into[q]
    BY <1>9, CreditWrites
  <2>2. h.change = "new" => h.current = None
    BY <1>1 DEF SoundDecision, ChangeType
  <2>3. Effective(now)' \subseteq {p}
    <3> SUFFICES ASSUME NEW q \in Effective(now)', q # p
                 PROVE  FALSE
      OBVIOUS
    <3>1. q \in Invoices /\ sub'[q] = "active" /\ status'[q] = "credited" /\ expires'[q] > now
      BY <1>1 DEF Effective
    <3>2. q \notin Closed(h) /\ q \in Effective(now)
      BY <1>1, <2>1, <3>1 DEF Effective
    <3>3. q = h.current
      BY <1>6, <3>2
    <3> QED BY <2>1, <2>2, <3>1, <3>2, <3>3, InvoiceAssumption DEF Closed
  <2>4. PeriodsAddUp'
    <3> SUFFICES ASSUME NEW q \in Invoices, sub'[q] = "active"
                 PROVE  expires'[q] = started'[q] + DurationOf(q) * Cardinality(into'[q])
      BY <1>7 DEF PeriodsAddUp
    <3>1. CASE q = p
      <4>1. h.until = DurationOf(p) + h.at
        BY <1>3, <1>9 DEF CurrentDecision
      <4>2. Cardinality({p}) = 1
        BY FS_Singleton
      <4>3. into'[q] = {p} /\ expires'[q] = h.until /\ started'[q] = h.at
        BY <2>1, <3>1
      <4>4. DurationOf(q) \in Nat
        BY <1>7
      <4> QED BY <1>5, <3>1, <4>1, <4>2, <4>3, <4>4
    <3>2. CASE q # p
      BY <1>3, <2>1, <3>2 DEF PeriodsAddUp
    <3> QED BY <3>1, <3>2
  <2> QED BY <1>1, <1>3, <1>4, <2>3, <2>4 DEF InTurn
<1> QED BY <1>8, <1>9

\* The steps that decide nothing about the subscriptions.
LEMMA QuietAccess ==
  ASSUME AccessInv, PaymentInv',
         \/ UNCHANGED paymentVars \/ Tick
         \/ \E p \in Invoices : CreateInvoice(p)
         \/ \E c \in Checkouts : DeliverSettled(c)
         \/ \E h \in work : CommitCheckout(h) \/ LockRefused(h) \/ Raise(h) \/ Die(h)
  PROVE  AccessInv'
<1>1. now \in Nat /\ PaymentTypeOK
  BY BoundAssumption DEF AccessInv, PaymentInv, PaymentTypeOK
<1>2. CASE UNCHANGED paymentVars \/ Tick
  BY <1>1, <1>2, CalmStep DEF paymentVars, Tick, tables, history
<1>3. ASSUME NEW p \in Invoices, CreateInvoice(p)
      PROVE  AccessInv'
  <2>1. \A q \in Invoices : status'[q] = "credited" <=> status[q] = "credited"
    BY <1>1, <1>3 DEF CreateInvoice, InvoiceAllowed, SetStatus, PaymentTypeOK
  <2> QED BY <1>1, <1>3, <2>1, CalmStep DEF CreateInvoice, history
<1>4. ASSUME NEW c \in Checkouts, DeliverSettled(c)
      PROVE  AccessInv'
  BY <1>1, <1>4, CalmStep DEF DeliverSettled, tables
<1>5. ASSUME NEW h \in work, CommitCheckout(h)
      PROVE  AccessInv'
  <2>1. raced = {} => \A q \in Invoices : status'[q] = "credited" <=> status[q] = "credited"
    <3> SUFFICES ASSUME raced = {}
                 PROVE  \A q \in Invoices : status'[q] = "credited" <=> status[q] = "credited"
      OBVIOUS
    <3>1. status[PaymentOf(h)] # "credited"
      BY DEF AccessInv, Unraced, CreditsShow
    <3> QED BY <1>1, <1>5, <3>1 DEF CommitCheckout, SetStatus, PaymentTypeOK
  <2> QED BY <1>1, <1>5, <2>1, CalmStep DEF CommitCheckout, history
<1>6. ASSUME NEW h \in work, LockRefused(h) \/ Raise(h) \/ Die(h)
      PROVE  AccessInv'
  BY <1>1, <1>6, CalmStep DEF LockRefused, Raise, Die, tables, history
<1> QED BY <1>2, <1>3, <1>4, <1>5, <1>6

LEMMA AccessStep == AccessInv /\ [PaymentNext]_paymentVars => AccessInv'
<1> SUFFICES ASSUME AccessInv, [PaymentNext]_paymentVars
             PROVE  AccessInv'
  OBVIOUS
<1>1. PaymentInv'
  BY PaymentStep DEF AccessInv
<1>2. ASSUME NEW c \in Checkouts, BeginCheckout(c) \/ Deliver(c)
      PROVE  AccessInv'
  <2>1. ASSUME NEW kind \in {"checkout", "confirm"}, Start(Loaded(kind, c)),
               status[InvoiceOf[c]] # "credited", UNCHANGED <<now, tables, into>>
        PROVE  AccessInv'
    <3>1. /\ status[PaymentOf(Loaded(kind, c))] # "credited" /\ Loaded(kind, c).phase = "read"
      BY <2>1 DEF Loaded, PaymentOf
    <3> QED BY <1>1, <2>1, <3>1, BegunStep DEF tables
  <2> QED BY <1>2, <2>1 DEF BeginCheckout, Deliver
<1>3. ASSUME NEW h \in work, CommitConfirm(h)
      PROVE  AccessInv'
  <2>1. raced' = raced /\ mixed' = mixed
    BY <1>3 DEF CommitConfirm
  <2>2. Unraced'
    <3>1. CASE raced = {}
      BY <1>3, <3>1, CommitKeepsUnraced
    <3>2. CASE raced # {}
      BY <2>1, <3>2 DEF Unraced
    <3> QED BY <3>1, <3>2
  <2>3. InTurn'
    <3>1. CASE raced = {} /\ ~mixed
      BY <1>3, <3>1, CommitAddsUp
    <3>2. CASE ~(raced = {} /\ ~mixed)
      BY <2>1, <3>2 DEF InTurn
    <3> QED BY <3>1, <3>2
  <2> QED BY <1>1, <2>2, <2>3 DEF AccessInv
<1> QED BY <1>1, <1>2, <1>3, QuietAccess, LockedStep DEF PaymentNext

\* Confirmations one at a time, with handlers that do not overlap: one subscription
\* gives access, for the sum of the periods paid into it, and a paid, running
\* subscription is never shown as "pending".
THEOREM AccessIsTheSum == PaymentSpec => []AccessAddsUp
<1>1. AccessInv => AccessAddsUp
  <2> SUFFICES ASSUME AccessInv, ~mixed, raced = {}
               PROVE  /\ \A p, q \in Effective(now) : p = q
                      /\ \A p \in Effective(now) :
                           expires[p] = started[p] + DurationOf(p) * Cardinality(into[p])
                      /\ LearnerStatus # "pending"
    BY DEF AccessAddsUp
  <2>1. /\ \A p, q \in Effective(now) : p = q
        /\ \A p \in Effective(now) :
             expires[p] = started[p] + DurationOf(p) * Cardinality(into[p])
    BY DEF AccessInv, InTurn, PeriodsAddUp, Effective
  <2>2. LearnerStatus # "pending"
    <3> SUFFICES ASSUME Effective(now) = {}, newest # None
                 PROVE  SubscriptionStatus(newest) # "pending"
      BY DEF LearnerStatus
    <3>1. newest \in Invoices /\ sub[newest] \in {"active", "cancelled"} /\ status[newest] = "credited"
      BY DEF AccessInv, PaymentInv, PaymentTypeOK, SubscriptionStatuses, Unraced, CreditsShow
    <3>2. expires[newest] \in Nat /\ now \in Nat
      BY <3>1, BoundAssumption DEF AccessInv, PaymentInv, PaymentTypeOK
    <3>3. sub[newest] = "active" => ~(expires[newest] > now)
      BY <3>1 DEF Effective
    <3> QED BY <3>1, <3>2, <3>3 DEF SubscriptionStatus
  <2> QED BY <2>1, <2>2
<1> QED BY AccessInitial, AccessStep, <1>1, PTL DEF PaymentSpec

\* A transaction is shorter than the period it credits: milliseconds against the
\* days of a plan.
ShortTransactions ==
  \A h \in work : h.phase = "locked" => now < h.at + DurationOf(PaymentOf(h))

\* A commit only adds a subscription, or closes one for a better one.
LEMMA CommitKeepsAccess ==
  ASSUME AccessInv, AccessInv', ShortTransactions, NEW h \in work, CommitConfirm(h), raced = {}
  PROVE  \A p \in Effective(now) : \E q \in Effective(now)' : PlanOf[q] >= PlanOf[p]
<1> DEFINE p == PaymentOf(h)
<1>1. /\ SoundDecision(h) /\ CreditsShow /\ p \in Invoices /\ now' = now
      /\ \A q \in Invoices : status'[q] = IF q = p THEN "credited" ELSE status[q]
      /\ h.until \in Nat /\ h.at \in Nat
  BY CreditWrites
<1>2. now \in Nat /\ DurationOf(p) \in Nat /\ \A q \in Invoices : PlanOf[q] \in 1 .. 2
  BY <1>1, BoundAssumption, PlanAssumption DEF AccessInv, PaymentInv, PaymentTypeOK, DurationOf
<1>3. h.until > now
  <2>1. now < h.at + DurationOf(p) /\ h.until >= h.at + DurationOf(p)
    BY <1>1 DEF CommitConfirm, ShortTransactions, SoundDecision
  <2> QED BY <1>1, <1>2, <2>1
<1> SUFFICES ASSUME NEW q \in Effective(now)
             PROVE  \E r \in Effective(now)' : PlanOf[r] >= PlanOf[q]
  OBVIOUS
<1>4. q \in Invoices /\ sub[q] = "active" /\ status[q] = "credited" /\ expires[q] > now
  BY DEF Effective
<1>5. CASE h.change = "renew"
  <2>1. sub' = sub /\ \A r \in Invoices : expires'[r] = IF r = h.current THEN h.until ELSE expires[r]
    BY <1>5, CreditWrites
  <2>2. q \in Effective(now)'
    BY <1>1, <1>3, <1>4, <2>1 DEF Effective
  <2> QED BY <1>2, <1>4, <2>2
<1>6. CASE h.change # "renew"
  <2>1. /\ h.change \in {"new", "upgrade"}
        /\ h.change = "upgrade" => h.current \in Invoices
        /\ \A r \in Invoices :
             /\ sub'[r] = IF r = p THEN "active" ELSE IF r \in Closed(h) THEN "cancelled" ELSE sub[r]
             /\ expires'[r] = IF r = p THEN h.until ELSE IF r \in Closed(h) THEN h.at ELSE expires[r]
    BY <1>6, CreditWrites
  <2>2. p \in Effective(now)'
    BY <1>1, <1>3, <2>1 DEF Effective
  <2>3. CASE q \in Closed(h)
    <3>1. h.change = "upgrade" /\ q = h.current
      BY <2>3 DEF Closed
    <3>2. PlanOf[p] > PlanOf[q]
      BY <1>1, <1>2, <1>4, <3>1 DEF SoundDecision, ChangeType
    <3> QED BY <1>1, <1>2, <1>4, <2>2, <3>2
  <2>4. CASE q \notin Closed(h)
    <3>1. q \in Effective(now)'
      BY <1>1, <1>3, <1>4, <2>1, <2>4 DEF Effective
    <3> QED BY <1>2, <1>4, <3>1
  <2> QED BY <2>3, <2>4
<1> QED BY <1>5, <1>6

\* Only the clock takes access away, as long as no transaction outlasts the period
\* it credits: credits, upgrades, renewals and refusals, in any order and at the
\* same time, never lower the plan a learner has.
THEOREM AccessStays == PaymentSpec /\ []ShortTransactions => AccessNeverTakenAway
<1>1. PaymentTypeOK' => PlanIsBest'
  BY AccessPlanIsBest, PTL
<1>2. AccessInv /\ AccessInv' /\ ShortTransactions /\ [PaymentNext]_paymentVars
      => [raced = {} /\ now' = now => AccessPlan' >= AccessPlan]_paymentVars
  <2> SUFFICES ASSUME AccessInv, AccessInv', ShortTransactions, PaymentNext, raced = {}, now' = now
               PROVE  AccessPlan' >= AccessPlan
    OBVIOUS
  <2>1. \A p \in Effective(now) : \E q \in Effective(now)' : PlanOf[q] >= PlanOf[p]
    <3>1. ASSUME UNCHANGED <<sub, expires>>,
                 \A q \in Invoices : status'[q] = "credited" <=> status[q] = "credited"
          PROVE  \A p \in Effective(now) : \E q \in Effective(now)' : PlanOf[q] >= PlanOf[p]
      <4>1. Effective(now)' = Effective(now)
        BY <3>1 DEF Effective
      <4>2. \A p \in Effective(now) : PlanOf[p] \in Nat
        BY PlanAssumption DEF Effective
      <4> QED BY <4>1, <4>2
    <3>2. ASSUME NEW p \in Invoices, CreateInvoice(p)
          PROVE  \A q \in Invoices : status'[q] = "credited" <=> status[q] = "credited"
      BY <3>2 DEF CreateInvoice, InvoiceAllowed, SetStatus, AccessInv, PaymentInv, PaymentTypeOK
    <3>3. ASSUME NEW h \in work, CommitCheckout(h)
          PROVE  \A q \in Invoices : status'[q] = "credited" <=> status[q] = "credited"
      <4>1. status[PaymentOf(h)] # "credited"
        BY DEF AccessInv, Unraced, CreditsShow
      <4> QED BY <3>3, <4>1 DEF CommitCheckout, SetStatus, AccessInv, PaymentInv, PaymentTypeOK
    <3>4. CASE \E h \in work : CommitConfirm(h)
      BY <3>4, CommitKeepsAccess
    <3>5. CASE UNCHANGED <<status, sub, expires>>
      BY <3>1, <3>5
    <3>6. CASE \E p \in Invoices : CreateInvoice(p)
      BY <3>1, <3>2, <3>6 DEF CreateInvoice
    <3>7. CASE \E h \in work : CommitCheckout(h)
      BY <3>1, <3>3, <3>7 DEF CommitCheckout
    <3> QED BY <3>4, <3>5, <3>6, <3>7
            DEF PaymentNext, BeginCheckout, DeliverSettled, Deliver, Lock, LockRefused, Raise, Die,
                Tick, tables
  <2>2. /\ AccessPlan \in 0 .. 2 /\ AccessPlan' \in 0 .. 2
        /\ AccessPlan > 0 => \E p \in Effective(now) : PlanOf[p] = AccessPlan
        /\ \A q \in Effective(now)' : PlanOf[q] <= AccessPlan'
    <3>1. PaymentTypeOK /\ PaymentTypeOK'
      BY DEF AccessInv, PaymentInv
    <3> QED BY <1>1, <3>1, AccessPlanIsBest DEF PlanIsBest
  <2>3. CASE AccessPlan = 0
    BY <2>2, <2>3
  <2>4. CASE AccessPlan > 0
    <3>1. PICK p \in Effective(now) : PlanOf[p] = AccessPlan
      BY <2>2, <2>4
    <3>2. PICK q \in Effective(now)' : PlanOf[q] >= PlanOf[p]
      BY <2>1
    <3>3. PlanOf[q] \in Nat /\ PlanOf[p] \in Nat
      <4>1. p \in Invoices /\ q \in Invoices
        BY DEF Effective
      <4> QED BY <4>1, PlanAssumption
    <3>4. PlanOf[q] <= AccessPlan'
      BY <2>2
    <3> QED BY <2>2, <3>1, <3>2, <3>3, <3>4
  <2> QED BY <2>2, <2>3, <2>4
<1> QED BY <1>2, AccessInitial, AccessStep, PTL DEF PaymentSpec, AccessNeverTakenAway
=============================================================================
