----------------------------- MODULE LicenseWorker -----------------------------
(***************************************************************************)
(* The license of one checkout session (services/license-worker/src):      *)
(* webhooks of Stripe that mint its token and renew it, the coordinator    *)
(* (a durable object) that serialises renewals, and the buyer's /license.  *)
(*                                                                         *)
(* Every request is a process of its own whose steps are the awaits of its *)
(* handler.  Stripe delivers an event until it is answered with 2xx, and   *)
(* possibly more often.  The key-value store is eventually consistent: a   *)
(* read returns the last value written or one it replaced that has not     *)
(* been propagated away.  The coordinator's transactions are atomic.       *)
(*                                                                         *)
(* A time is a positive number, 0 stands for an absent value.  A billing   *)
(* period is one unit of time and an invoice is named by the end of the    *)
(* period it pays.  A token is its expiry.                                 *)
(***************************************************************************)
EXTENDS Integers, FiniteSets

CONSTANTS Request,       \* webhook requests in progress at one time
          Interval,      \* lifetime of a one-time license
          MaxNow,        \* bound on time
          MaxMishaps,    \* bound on requests that die or get no answer and
                         \* deliveries of answered events, together
          MaxUnmatched   \* bound on invoices without exactly one line of the price

ASSUME LicenseAssumption == /\ Interval \in Nat \ {0}
                            /\ MaxNow \in Nat \ {0}
                            /\ MaxMishaps \in Nat
                            /\ MaxUnmatched \in Nat

VARIABLES mode,          \* of the plan's price: "payment" or "subscription"
          now,
          periodEnd,     \* Stripe's current_period_end
          unmatched,     \* invoices without exactly one line of the price
          answered,      \* events answered with 2xx; 0 is the checkout's
          record,        \* paidThrough of the subscription record
          oldRecord,     \* values a read of it may still return
          token,         \* the token stored under the session id
          oldToken,      \* values a read of it may still return
          coordinated,   \* the coordinator's license: record and token
          request,       \* the webhook requests
          missed,        \* history: invoices ignored for want of a record
          mishaps

kv == <<record, oldRecord, token, oldToken>>
stripe == <<mode, now, periodEnd, unmatched, answered>>
vars == <<stripe, kv, coordinated, request, missed, mishaps>>

Greater(a, b) == IF a > b THEN a ELSE b

Absent == [through |-> 0, exp |-> 0, last |-> 0]
Checkout == 0
Idle == [pc |-> "idle", event |-> Checkout, at |-> 0, token |-> 0, through |-> 0]

\* What a read of each key may return.
RecordReads == {record} \cup oldRecord
TokenReads == {token} \cup oldToken

\* The events Stripe has sent.
Event == {Checkout} \cup {p \in 2 .. periodEnd : mode = "subscription"}

\* The buyer has just paid, for the period that ends next; that period's own
\* invoice, if there is one, came before the record and was ignored.
NewCheckout == /\ periodEnd = 2
               /\ record = 0 /\ token = 0
               /\ answered = Event \ {Checkout} /\ missed = answered

\* The checkout is behind, and so is the period it paid for.
FirstPeriodOver == /\ mode = "subscription"
                   /\ periodEnd = 1
                   /\ record = 1 /\ token = 1
                   /\ answered = {Checkout} /\ missed = {}

Init == /\ mode \in {"payment", "subscription"}
        /\ now = 1
        /\ NewCheckout \/ FirstPeriodOver
        /\ unmatched = {}
        /\ oldRecord = {} /\ oldToken = {}
        /\ coordinated = Absent
        /\ request = [q \in Request |-> Idle]
        /\ mishaps = 0

--------------------------------------------------------------------------------
(* Stripe, the clock and the store: external. *)

Tick == /\ now < MaxNow
        /\ now' = now + 1
        /\ UNCHANGED <<mode, periodEnd, unmatched, answered, kv, coordinated, request, missed, mishaps>>

\* A period has ended and the next one is paid.
Cycle == /\ mode = "subscription"
         /\ periodEnd <= now
         /\ periodEnd' = periodEnd + 1
         /\ \/ UNCHANGED unmatched
            \/ /\ Cardinality(unmatched) < MaxUnmatched
               /\ unmatched' = unmatched \cup {periodEnd'}
         /\ UNCHANGED <<mode, now, answered, kv, coordinated, request, missed, mishaps>>

Deliver(q, e) ==
  /\ request[q] = Idle
  /\ e \in Event
  /\ \/ e \notin answered /\ UNCHANGED mishaps
     \/ e \in answered /\ mishaps < MaxMishaps /\ mishaps' = mishaps + 1
  /\ request' = [request EXCEPT ![q] =
                   [pc |-> IF e = Checkout THEN "readToken" ELSE "loadRecord",
                    event |-> e, at |-> now, token |-> 0, through |-> 0]]
  /\ UNCHANGED <<stripe, kv, coordinated, missed>>

\* A request dies, one of its calls fails, or its answer is lost.
Lose(q) == /\ request[q] # Idle
           /\ mishaps < MaxMishaps
           /\ mishaps' = mishaps + 1
           /\ request' = [request EXCEPT ![q] = Idle]
           /\ UNCHANGED <<stripe, kv, coordinated, missed>>

Propagate == /\ oldRecord \cup oldToken # {}
             /\ oldRecord' = {} /\ oldToken' = {}
             /\ UNCHANGED <<stripe, record, token, coordinated, request, missed, mishaps>>

--------------------------------------------------------------------------------
(* Steps of a webhook request. *)

At(q, pc) == request[q].pc = pc

\* The request goes on with this token and this paid-through date in hand.
Goto(q, pc, t, through) ==
  request' = [request EXCEPT ![q] = [pc |-> pc, event |-> request[q].event,
                                     at |-> request[q].at, token |-> t, through |-> through]]

\* The answer is a 2xx: Stripe does not deliver the event again by itself.
Accept(q) == /\ request' = [request EXCEPT ![q] = Idle]
             /\ answered' = answered \cup {request[q].event}
             /\ UNCHANGED <<mode, now, periodEnd, unmatched>>

\* The answer is an error: Stripe will deliver the event again.
Refuse(q) == /\ request' = [request EXCEPT ![q] = Idle]
             /\ UNCHANGED stripe

PutRecord(through) == /\ record' = through
                      /\ oldRecord' = (oldRecord \cup {record}) \ {through}
                      /\ UNCHANGED <<token, oldToken>>

PutToken(exp) == /\ token' = exp
                 /\ oldToken' = (oldToken \cup {token}) \ {exp}
                 /\ UNCHANGED <<record, oldRecord>>

\* handleCheckoutCompletion: is there a token already?
ReadToken(q) ==
  /\ At(q, "readToken")
  /\ \E t \in TokenReads :
       \/ /\ mode = "subscription"
          /\ Goto(q, "readRecord", t, 0)
          /\ UNCHANGED stripe
       \/ /\ mode = "payment" /\ t # 0
          /\ Accept(q)
       \/ /\ mode = "payment" /\ t = 0
          /\ Goto(q, "mint", 0, request[q].at + Interval)
          /\ UNCHANGED stripe
  /\ UNCHANGED <<kv, coordinated, missed, mishaps>>

\* Mutant of Recorded: the record alone is taken for the license.
RecordedUnminted(q, through) == Accept(q)

\* Where handleCheckoutCompletion goes once it has a record of "through".
Recorded(q, through) ==
  \/ request[q].token # 0 /\ Accept(q)
  \/ /\ request[q].token = 0 /\ through > request[q].at
     /\ Goto(q, "mint", 0, through)
     /\ UNCHANGED stripe
  \/ request[q].token = 0 /\ through <= request[q].at /\ Refuse(q)

\* ensureSubscriptionRecord finds a record...
FindRecord(q) ==
  /\ At(q, "readRecord")
  /\ \E r \in RecordReads \ {0} : Recorded(q, r)
  /\ UNCHANGED <<kv, coordinated, missed, mishaps>>

\* ... or asks Stripe for the subscription ...
MissRecord(q) ==
  /\ At(q, "readRecord")
  /\ 0 \in RecordReads
  /\ Goto(q, "lookup", request[q].token, 0)
  /\ UNCHANGED <<stripe, kv, coordinated, missed, mishaps>>

\* Mutant of LookUp: the paid period is computed, not looked up.
LookUpByClock(q) ==
  /\ At(q, "lookup")
  /\ Goto(q, "putRecord", request[q].token, request[q].at + 1)
  /\ UNCHANGED <<stripe, kv, coordinated, missed, mishaps>>

LookUp(q) ==
  /\ At(q, "lookup")
  /\ Goto(q, "putRecord", request[q].token, periodEnd)
  /\ UNCHANGED <<stripe, kv, coordinated, missed, mishaps>>

\* ... and stores the record.
StoreRecord(q) ==
  /\ At(q, "putRecord")
  /\ PutRecord(request[q].through)
  /\ Recorded(q, request[q].through)
  /\ UNCHANGED <<coordinated, missed, mishaps>>

Mint(q) ==
  /\ At(q, "mint")
  /\ PutToken(request[q].through)
  /\ Accept(q)
  /\ UNCHANGED <<coordinated, missed, mishaps>>

\* handleInvoiceRenewal and, in the coordinator, initializeSubscriptionLicenseState
\* read the record: an invoice for which one of them finds none is answered and ignored.
LoadRecord(q) ==
  /\ At(q, "loadRecord")
  /\ \E r \in RecordReads :
       \/ r = 0 /\ Accept(q) /\ missed' = missed \cup {request[q].event}
       \/ /\ r # 0
          /\ Goto(q, "loadToken", 0, r)
          /\ UNCHANGED <<stripe, missed>>
  /\ UNCHANGED <<kv, coordinated, mishaps>>

\* Mutant of LoadToken: a renewal that comes before the token is answered.
LoadTokenIgnored(q) ==
  /\ At(q, "loadToken")
  /\ \E t \in TokenReads :
       \/ t = 0 /\ Accept(q)
       \/ /\ t # 0
          /\ Goto(q, "initialize", t, request[q].through)
          /\ UNCHANGED stripe
  /\ UNCHANGED <<kv, coordinated, missed, mishaps>>

LoadToken(q) ==
  /\ At(q, "loadToken")
  /\ \E t \in TokenReads :
       \/ t = 0 /\ Refuse(q)
       \/ /\ t # 0
          /\ Goto(q, "initialize", t, request[q].through)
          /\ UNCHANGED stripe
  /\ UNCHANGED <<kv, coordinated, missed, mishaps>>

\* Mutant of Reconcile: the record is advanced, the token not reissued.
ReconcileRecord(s) ==
  [through |-> Greater(s.through, s.exp), exp |-> s.exp, last |-> s.last]

\* reconcileVerifiedSubscriptionLicenseState: the later of record and token wins.
Reconcile(s) == LET through == Greater(s.through, s.exp)
                IN  [through |-> through, exp |-> through, last |-> s.last]

\* laterMatchingSubscriptionLicenseState
Later(current, candidate) == IF candidate.through > current.through THEN candidate ELSE current

Initialize(q) ==
  /\ At(q, "initialize")
  /\ LET candidate == Reconcile([through |-> request[q].through, exp |-> request[q].token, last |-> 0])
     IN  coordinated' = IF coordinated = Absent THEN candidate
                        ELSE Later(Reconcile(coordinated), candidate)
  /\ Goto(q, "renew", 0, 0)
  /\ UNCHANGED <<stripe, kv, missed, mishaps>>

\* Mutant of Settled: a period is compared with the clock alone.
SettledByClock(q, current) ==
  \/ current.last = request[q].event
  \/ request[q].event \notin unmatched /\ request[q].event <= request[q].at

\* The coordinator has this invoice, or it advances nothing.
Settled(q, current) ==
  \/ current.last = request[q].event
  \/ /\ request[q].event \notin unmatched
     /\ request[q].event <= Greater(current.through, request[q].at)

\* The last transaction of coordinateSubscriptionRenewal.
Renew(q) ==
  /\ At(q, "renew")
  /\ LET current == Reconcile(coordinated)
         invoice == request[q].event
         advances == ~Settled(q, current) /\ invoice \notin unmatched
     IN  /\ coordinated' = IF advances
                           THEN [through |-> invoice, exp |-> invoice, last |-> invoice]
                           ELSE current
         /\ IF advances \/ Settled(q, current) THEN Accept(q) ELSE Refuse(q)
  /\ UNCHANGED <<kv, missed, mishaps>>

--------------------------------------------------------------------------------
(* The buyer retrieves the license: sessionLicenseResponse. *)

\* None while the store shows no token; the coordinator's if it lasts as long.
Answer(direct, exp) ==
  IF direct # 0 /\ mode = "subscription" /\ exp >= direct THEN exp ELSE direct

--------------------------------------------------------------------------------
Proceed(q) == \/ ReadToken(q) \/ FindRecord(q) \/ MissRecord(q) \/ LookUp(q)
              \/ StoreRecord(q) \/ Mint(q) \/ LoadRecord(q)
              \/ LoadToken(q) \/ Initialize(q) \/ Renew(q)

Next == \/ Tick \/ Cycle \/ Propagate
        \/ \E q \in Request : Proceed(q) \/ Lose(q) \/ \E e \in Event : Deliver(q, e)

Spec == Init /\ [][Next]_vars

\* Requests that are not lost go on, what is written is propagated in the end,
\* and Stripe delivers an event again as long as it gets no 2xx for it.
FairSpec == /\ Spec
            /\ WF_vars(Propagate)
            /\ \A q \in Request : WF_vars(Proceed(q))
            /\ \A e \in {Checkout} \cup 2 .. MaxNow + 1 :
                 SF_vars(\E q \in Request : e \notin answered /\ Deliver(q, e))

--------------------------------------------------------------------------------
(* Properties. *)

Times == 0 .. MaxNow + Interval

\* Every variable has its type; Stripe has sent the events that are in progress.
TypeOK == /\ mode \in {"payment", "subscription"}
          /\ now \in 1 .. MaxNow
          /\ periodEnd \in 1 .. now + 1
          /\ unmatched \in SUBSET Event
          /\ answered \in SUBSET Event
          /\ record \in Times /\ oldRecord \in SUBSET Times
          /\ token \in Times /\ oldToken \in SUBSET Times
          /\ coordinated \in [through : Times, exp : Times, last : Times]
          /\ request \in [Request -> [pc : {"idle", "readToken", "readRecord", "lookup",
               "putRecord", "mint", "loadRecord", "loadToken", "initialize", "renew"},
               event : Event, at : Times, token : Times, through : Times]]
          /\ missed \in SUBSET Event
          /\ mishaps \in 0 .. MaxMishaps

\* Nothing a buyer of a subscription can be given, from the store or from the
\* coordinator, runs beyond the period Stripe has on record, whatever was
\* read late, twice or from a stale replica (ensureSubscriptionRecord,
\* coordinateSubscriptionRenewal).
PaidFor == mode = "subscription" =>
             /\ \A r \in RecordReads \cup {coordinated.through} : r <= periodEnd
             /\ \A t \in TokenReads : Answer(t, coordinated.exp) <= periodEnd

\* The coordinator's token and record never part, and its record is at least as
\* late as the last invoice applied to it.
CoordinatorSound == /\ coordinated.exp = coordinated.through
                    /\ coordinated.last <= coordinated.through

\* Overlapping, duplicate, stale and reordered invoices never shorten a
\* coordinated license (worker README, "cannot shorten it").
CoordinatorMonotone == [][coordinated'.through >= coordinated.through]_vars

\* The record was stored, the token was not, and the record's period is over:
\* the checkout's retries find the record and refuse it for good.
Stranded == token = 0 /\ record \in 1 .. now

\* A paid checkout gets its token in the end, although requests die between any
\* two steps, except for the one way described by Stranded.
EventuallyLicensed == <>(token # 0 \/ Stranded)

Covered(p) == Answer(token, coordinated.exp) >= p

\* A paid invoice extends the license in the end, unless its period is over by
\* then, its lines do not name the price, or one of its deliveries read no record.
RenewalApplied ==
  \A p \in 2 .. MaxNow + 1 :
     p \in Event ~> (Covered(p) \/ now >= p \/ Stranded \/ p \in missed \cup unmatched)
================================================================================
