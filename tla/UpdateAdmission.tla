-------------------------- MODULE UpdateAdmission --------------------------
(* What an update passes before its handler runs when the webhook feeds the  *)
(* dispatcher directly on several replicas: the shared in-flight limit        *)
(* (app/runtime/admission.py, bot/middlewares/backpressure.py), then the      *)
(* duplicate guard and the rate limit (bot/middlewares/security.py,           *)
(* security/rate_limits.py).  All three keep their state in Redis.  A time    *)
(* step is the renewal interval of a lease.  The updates are rate-limited     *)
(* actions of one kind of one learner.                                        *)
EXTENDS Naturals, FiniteSets

CONSTANTS
  Arrivals,          \* deliveries by Telegram, of
  Incoming,          \* these updates
  InFlightLimit,     \* shared_bot_in_flight_limit
  LeaseTtl, SeenTtl, \* lease_ttl_seconds, telegram_duplicate_update_ttl_seconds
  HitLimit, Window,  \* RateLimitRule
  MaxClock,          \* bound: time steps
  MaxBackendFaults   \* bound: failed Redis calls, stalled leases and crashes

ASSUME AdmissionAssumption ==
  /\ IsFiniteSet(Arrivals) /\ IsFiniteSet(Incoming)
  /\ {InFlightLimit, LeaseTtl, SeenTtl, HitLimit, Window, MaxClock} \subseteq Nat \ {0}
  /\ MaxBackendFaults \in Nat

VARIABLES
  clock,
  carries,    \* [Arrivals -> the update of a delivery, "nothing" before it]
  stage,      \* [Arrivals -> where its task is in the middlewares]
  lease,      \* [Arrivals -> 0, or the score of its token in the sorted set]
  renewing,   \* deliveries whose _renew_loop runs
  overrun,    \* deliveries whose lease was purged while they held it
  goneAt,     \* [Arrivals -> when its task ended]
  seenUntil,  \* [Incoming -> when the duplicate guard's key expires]
  bucket,     \* the rate limit's sorted set
  hits,       \* history: every accepted hit
  backendFaults

admissionVars == <<clock, carries, stage, lease, renewing, overrun, goneAt,
                   seenUntil, bucket, hits, backendFaults>>

\* Where a delivery is: create_dispatcher puts the in-flight limit before the
\* duplicate guard and the rate limit, and those before the handler.
Stages == {"new", "waiting", "admitted", "accepted", "running", "leaving",
           "saturated", "gone"}

Active == {d \in Arrivals : stage[d] \in {"admitted", "accepted", "running", "leaving"}}

AdmissionInit ==
  /\ clock = 1
  /\ carries = [d \in Arrivals |-> "nothing"]
  /\ stage = [d \in Arrivals |-> "new"]
  /\ lease = [d \in Arrivals |-> 0]
  /\ renewing = {} /\ overrun = {}
  /\ goneAt = [d \in Arrivals |-> 0]
  /\ seenUntil = [u \in Incoming |-> 0]
  /\ bucket = {} /\ hits = {}
  /\ backendFaults = 0

Fault ==
  /\ backendFaults < MaxBackendFaults
  /\ backendFaults' = backendFaults + 1

Known(u) == seenUntil[u] > clock

\* _update_id, _rate_limit_identity and _action_from_update: what tells one
\* delivery from another here; the learner and the action are always the same.
UpdateOf(d) == carries[d]

\* The rule of the one action.
Rule == [limit |-> HitLimit, window |-> Window]

\* SET NX with the guard's time to live.
Remember(u) == seenUntil' = [seenUntil EXCEPT ![u] = clock + SeenTtl]

(* Leases (RedisAdmissionController, RedisAdmissionLease).                    *)

Expired(d) == lease[d] # 0 /\ lease[d] <= clock

Purged == [d \in Arrivals |-> IF Expired(d) THEN 0 ELSE lease[d]]

Held == {d \in Arrivals : Purged[d] # 0}

\* The acquire script: purge, count, add.
Acquire(d) ==
  /\ Cardinality(Held) < InFlightLimit
  /\ lease' = [Purged EXCEPT ![d] = clock + LeaseTtl]
  /\ overrun' = overrun \cup {e \in Active : Expired(e)}
  /\ renewing' = renewing \cup {d}
  /\ stage' = [stage EXCEPT ![d] = "admitted"]

Full ==
  /\ Cardinality(Held) >= InFlightLimit
  /\ lease' = Purged
  /\ overrun' = overrun \cup {e \in Active : Expired(e)}
  /\ UNCHANGED renewing

\* Turned away with the saturation text; nothing will release a lease of it.
TurnAway(d) ==
  /\ stage' = [stage EXCEPT ![d] = "saturated"]
  /\ goneAt' = [goneAt EXCEPT ![d] = clock]

\* The call failed (AdmissionBackendError); the script may have run.
BackendDown(d) ==
  /\ Fault
  /\ \/ UNCHANGED <<lease, overrun>>
     \/ /\ Cardinality(Held) < InFlightLimit
        /\ lease' = [Purged EXCEPT ![d] = clock + LeaseTtl]
        /\ overrun' = overrun \cup {e \in Active : Expired(e)}
  /\ UNCHANGED renewing

\* try_acquire: once, and once more after acquire_timeout_seconds.
Arrive(d, u) ==
  /\ stage[d] = "new"
  /\ carries' = [carries EXCEPT ![d] = u]
  /\ \/ Acquire(d) /\ UNCHANGED <<goneAt, backendFaults>>
     \/ Full /\ stage' = [stage EXCEPT ![d] = "waiting"] /\ UNCHANGED <<goneAt, backendFaults>>
     \/ BackendDown(d) /\ TurnAway(d)
  /\ UNCHANGED <<clock, seenUntil, bucket, hits>>

TryAgain(d) ==
  /\ stage[d] = "waiting"
  /\ \/ Acquire(d) /\ UNCHANGED <<goneAt, backendFaults>>
     \/ Full /\ TurnAway(d) /\ UNCHANGED backendFaults
     \/ BackendDown(d) /\ TurnAway(d)
  /\ UNCHANGED <<clock, carries, seenUntil, bucket, hits>>

\* _renew_loop: a token that was purged is not put back, and the loop ends.
Renew(d) ==
  /\ d \in renewing
  /\ IF lease[d] # 0
     THEN /\ lease' = [lease EXCEPT ![d] = clock + LeaseTtl]
          /\ UNCHANGED renewing
     ELSE /\ renewing' = renewing \ {d}
          /\ UNCHANGED lease
  /\ UNCHANGED <<clock, carries, stage, overrun, goneAt, seenUntil, bucket, hits,
                 backendFaults>>

\* Mutant of StopRenewing: release leaves the renewal running.
KeepRenewing(d) == UNCHANGED renewing

\* release: the renewal is cancelled first, then the token removed; a failed
\* removal is only logged.
StopRenewing(d) == renewing' = renewing \ {d}

Release(d) ==
  /\ stage[d] = "leaving"
  /\ StopRenewing(d)
  /\ \/ lease' = [lease EXCEPT ![d] = 0] /\ UNCHANGED backendFaults
     \/ Fault /\ UNCHANGED lease
  /\ stage' = [stage EXCEPT ![d] = "gone"]
  /\ goneAt' = [goneAt EXCEPT ![d] = clock]
  /\ UNCHANGED <<clock, carries, overrun, seenUntil, bucket, hits>>

(* The duplicate guard and the rate limit (SecurityMiddleware).               *)

\* _accept_update: SET NX EX; when the call fails the key may be there or not.
Guard(d) ==
  LET u == UpdateOf(d) IN
  /\ stage[d] = "admitted"
  /\ \/ /\ ~Known(u) /\ Remember(u)
        /\ stage' = [stage EXCEPT ![d] = "accepted"]
        /\ UNCHANGED backendFaults
     \/ /\ Known(u)
        /\ stage' = [stage EXCEPT ![d] = "leaving"]
        /\ UNCHANGED <<seenUntil, backendFaults>>
     \/ /\ Fault
        /\ stage' = [stage EXCEPT ![d] = "leaving"]
        /\ (~Known(u) /\ Remember(u)) \/ UNCHANGED seenUntil
  /\ UNCHANGED <<clock, carries, lease, renewing, overrun, goneAt, bucket, hits>>

\* Mutant of Fresh: hits are dropped one time step too early.
FreshShort(h) == h.at + Rule.window > clock + 1

\* The hits of the window: ZREMRANGEBYSCORE drops those a window old or older.
Fresh(h) == h.at + Rule.window > clock

\* The script: drop, count, add a member of its own at the present time.
LimitRate(d) ==
  /\ stage[d] = "accepted"
  /\ LET recent == {h \in bucket : Fresh(h)}
         hit    == [member |-> d, at |-> clock]
         room   == Cardinality(recent) < Rule.limit IN
     \/ /\ room
        /\ bucket' = recent \cup {hit}
        /\ hits' = hits \cup {hit}
        /\ stage' = [stage EXCEPT ![d] = "running"]
        /\ UNCHANGED backendFaults
     \/ /\ ~room
        /\ bucket' = recent
        /\ stage' = [stage EXCEPT ![d] = "leaving"]
        /\ UNCHANGED <<hits, backendFaults>>
     \/ /\ Fault                                  \* the script may have run
        /\ bucket' \in {bucket, IF room THEN recent \cup {hit} ELSE recent}
        /\ stage' = [stage EXCEPT ![d] = "leaving"]
        /\ UNCHANGED hits
  /\ UNCHANGED <<clock, carries, lease, renewing, overrun, goneAt, seenUntil>>

\* The handler returns or raises; either way the finally clause releases.
HandlerEnds(d) ==
  /\ stage[d] = "running"
  /\ stage' = [stage EXCEPT ![d] = "leaving"]
  /\ UNCHANGED <<clock, carries, lease, renewing, overrun, goneAt, seenUntil, bucket,
                 hits, backendFaults>>

(* Time and crashes.                                                          *)

\* Renewals come three times in the life of a lease, so one that a working
\* holder renews runs out only when the calls fail or the process stalls.
Lapsing == {d \in renewing : lease[d] # 0 /\ lease[d] = clock + 1}

ClockTick ==
  /\ clock < MaxClock
  /\ clock' = clock + 1
  /\ IF Lapsing = {} THEN UNCHANGED backendFaults ELSE Fault
  /\ UNCHANGED <<carries, stage, lease, renewing, overrun, goneAt, seenUntil, bucket, hits>>

\* A replica dies with the deliveries it had; their leases stay in Redis.
ReplicaCrash(S) ==
  /\ S # {} /\ Fault
  /\ stage' = [d \in Arrivals |-> IF d \in S THEN "gone" ELSE stage[d]]
  /\ goneAt' = [d \in Arrivals |-> IF d \in S THEN clock ELSE goneAt[d]]
  /\ renewing' = renewing \ S
  /\ UNCHANGED <<clock, carries, lease, overrun, seenUntil, bucket, hits>>

AdmissionNext ==
  \/ \E d \in Arrivals : \/ \E u \in Incoming : Arrive(d, u)
                         \/ TryAgain(d) \/ Renew(d) \/ Release(d)
                         \/ Guard(d) \/ LimitRate(d) \/ HandlerEnds(d)
  \/ ClockTick
  \/ \E S \in SUBSET (Active \cup {d \in Arrivals : stage[d] = "waiting"}) : ReplicaCrash(S)

AdmissionSpec == AdmissionInit /\ [][AdmissionNext]_admissionVars

-----------------------------------------------------------------------------
(* Properties. *)

Hit == [member : Arrivals, at : 1 .. MaxClock]

AdmissionTypeOK ==
  /\ clock \in 1 .. MaxClock
  /\ carries \in [Arrivals -> Incoming \cup {"nothing"}]
  /\ stage \in [Arrivals -> Stages]
  /\ lease \in [Arrivals -> 0 .. MaxClock + LeaseTtl]
  /\ renewing \subseteq Arrivals /\ overrun \subseteq Arrivals
  /\ goneAt \in [Arrivals -> 0 .. MaxClock]
  /\ seenUntil \in [Incoming -> 0 .. MaxClock + SeenTtl]
  /\ bucket \subseteq Hit /\ hits \subseteq Hit
  /\ backendFaults \in 0 .. MaxBackendFaults

\* The limit of all replicas together holds for everyone whose lease was not
\* purged under it; and a slot whose holder is gone (released or turned away
\* while Redis failed, or crashed) comes back within the lifetime of a lease.
SlotsHoldAndComeBack ==
  /\ Cardinality(Active \ overrun) <= InFlightLimit
  /\ \A d \in Arrivals : stage[d] \in {"gone", "saturated"} => lease[d] <= goneAt[d] + LeaseTtl

\* In no span of one window does the learner get more than the rule allows,
\* wherever the window starts and however Redis failed meanwhile.
WindowNeverExceeded ==
  \A t \in 1 .. clock :
    Cardinality({h \in hits : h.at >= t /\ h.at < t + Window}) <= HitLimit
=============================================================================
