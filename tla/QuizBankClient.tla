--------------------------- MODULE QuizBankClient ---------------------------
(***************************************************************************)
(* The client of the external quiz bank in one process: which HTTP requests*)
(* a call makes (quiz_bank/client.py), and how they are retried and cut    *)
(* off by the circuit breaker (quiz_bank/transport.py).                    *)
(*                                                                         *)
(*   fetch_questions:  [topics -->] next --> done                          *)
(*                                     \--refused--> next without theme    *)
(*   any other call:   one GET                                             *)
(*                                                                         *)
(* The quiz bank is outside the repository: a request may be answered, be  *)
(* refused, or fail after the bank has or has not done what it asked for.  *)
(* Time is counted in ticks until the circuit closes.                      *)
(***************************************************************************)
EXTENDS Integers, FiniteSets

CONSTANTS
  MaxRetries,    \* quiz_bank_max_retries
  Threshold,     \* circuit_breaker_failure_threshold
  ResetTicks,    \* circuit_breaker_reset_seconds
  MaxCalls       \* bound: calls under way at once

ASSUME BankAssumption ==
  /\ MaxRetries \in Nat /\ MaxCalls \in Nat
  /\ Threshold \in Nat \ {0} /\ ResetTicks \in Nat \ {0}

VARIABLES
  failures,      \* _consecutive_transient_failures
  openTicks,     \* until _circuit_open_until; 0 when the circuit is closed
  bankCalls      \* calls under way, each waiting for an HTTP response

bankVars == <<failures, openTicks, bankCalls>>

Requests == {"get", "topics", "next", "nextAnyTheme"}
BankCall ==
  [n : 1 .. MaxCalls, request : Requests \cup {"done"}, attempt : 1 .. MaxRetries + 1,
   themed : BOOLEAN,                     \* it asked for a theme by its id
   served : Nat]                         \* history: items the bank has served it

BankInit ==
  /\ failures = 0 /\ openTicks = 0
  /\ bankCalls = {}

-----------------------------------------------------------------------------
CircuitClosed == openTicks = 0

Replace(c, d)   == bankCalls' = (bankCalls \ {c}) \cup {d}
EndCallOf(c, d) == Replace(c, [d EXCEPT !.request = "done"])

\* request_json of the next request of a call.
Ask(c, request) == [c EXCEPT !.request = request, !.attempt = 1]

\* A call and its first request: GET for the catalog, topics to find the id of
\* a theme, or the question itself with a theme id or without a theme.
StartCall(request, themed) ==
  /\ Cardinality(bankCalls) < MaxCalls
  /\ CircuitClosed
  /\ \E n \in 1 .. MaxCalls :
       /\ \A c \in bankCalls : c.n # n
       /\ bankCalls' = bankCalls \cup
            {[n |-> n, request |-> request, attempt |-> 1, themed |-> themed, served |-> 0]}
  /\ UNCHANGED <<failures, openTicks>>

\* The bank gives the call an item and charges its quota.
Served(c) == IF c.request \in {"next", "nextAnyTheme"} THEN [c EXCEPT !.served = @ + 1] ELSE c

\* Mutant of Retriable: every method is retried.
RetriableAlways(c) == c.attempt <= MaxRetries

\* _retry_if_allowed: only GET, max_attempts - 1 times.
Retriable(c) == c.request \in {"get", "topics"} /\ c.attempt <= MaxRetries

\* A transport error, 429 or 5xx that is retried after a backoff; the circuit
\* is not asked again.
Retry(c) ==
  /\ c.request # "done" /\ Retriable(c)
  /\ \E d \in {c, Served(c)} : Replace(c, [d EXCEPT !.attempt = @ + 1])
  /\ UNCHANGED <<failures, openTicks>>

\* _record_transient_failure, and the call raises; the count is kept up to the
\* threshold it is compared with.
FailTransiently(c) ==
  /\ c.request # "done" /\ ~Retriable(c)
  /\ \E d \in {c, Served(c)} : EndCallOf(c, d)
  /\ failures' = IF failures < Threshold THEN failures + 1 ELSE failures
  /\ openTicks' = IF failures + 1 >= Threshold THEN ResetTicks ELSE openTicks

\* 401, 404, another 4xx: neither retried nor held against the circuit.
FailForGood(c) ==
  /\ c.request # "done"
  /\ EndCallOf(c, c)
  /\ UNCHANGED <<failures, openTicks>>

\* 403 with CONSUMER_THEME_NOT_ALLOWED: fetch_questions asks again without the
\* theme, once.
RefuseTheme(c) ==
  /\ c.request = "next" /\ c.themed
  /\ IF CircuitClosed THEN Replace(c, Ask(c, "nextAnyTheme")) ELSE EndCallOf(c, c)
  /\ UNCHANGED <<failures, openTicks>>

\* Mutant of Succeed: the failures are forgotten, the open circuit is not.
SucceedLeavingOpen(c) ==
  /\ c.request # "done"
  /\ failures' = 0
  /\ IF c.request = "topics"
     THEN \/ EndCallOf(c, c)
          \/ \E found \in BOOLEAN : Replace(c, [Ask(c, "next") EXCEPT !.themed = found])
     ELSE EndCallOf(c, Served(c))
  /\ UNCHANGED openTicks

\* A 2xx response and _reset_circuit, also when the circuit has been opened
\* since; a call that has looked for its theme then asks for the question,
\* unless the response does not parse.
Succeed(c) ==
  /\ c.request # "done"
  /\ failures' = 0 /\ openTicks' = 0
  /\ IF c.request = "topics"
     THEN \/ EndCallOf(c, c)
          \/ \E found \in BOOLEAN : Replace(c, [Ask(c, "next") EXCEPT !.themed = found])
     ELSE EndCallOf(c, Served(c))

Return(c) ==
  /\ c.request = "done"
  /\ bankCalls' = bankCalls \ {c}
  /\ UNCHANGED <<failures, openTicks>>

\* Time passes.
BankTick ==
  /\ openTicks > 0
  /\ openTicks' = openTicks - 1
  /\ UNCHANGED <<failures, bankCalls>>

BankNext ==
  \/ \E request \in {"get", "topics"} : StartCall(request, FALSE)
  \/ \E themed \in BOOLEAN : StartCall("next", themed)
  \/ \E c \in bankCalls : \/ Retry(c) \/ FailTransiently(c) \/ FailForGood(c) \/ RefuseTheme(c)
                          \/ Succeed(c) \/ Return(c)
  \/ BankTick

BankSpec == BankInit /\ [][BankNext]_bankVars

-----------------------------------------------------------------------------
\* Counters and calls keep to the retry limit and the threshold; an open
\* circuit has the failures that opened it.
BankTypeOK ==
  /\ failures \in 0 .. Threshold /\ openTicks \in 0 .. ResetTicks
  /\ bankCalls \subseteq BankCall
  /\ openTicks > 0 => failures = Threshold

\* A call for a question gets at most one out of the bank, although responses
\* are lost, calls are retried and a refused theme is asked for once more.
ServedAtMostOnce == \A c \in bankCalls : c.served <= 1
=============================================================================
