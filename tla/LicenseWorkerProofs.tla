-------------------------- MODULE LicenseWorkerProofs --------------------------
(***************************************************************************)
(* What a license can be worth, for any number of requests, any time and   *)
(* any number of mishaps.   The invariant says of every place a paid-      *)
(* through date or a token can be (the store, what a stale replica still   *)
(* returns, the coordinator, a request between two awaits) that it is      *)
(* within the period Stripe has on record.                                 *)
(***************************************************************************)
EXTENDS LicenseWorker, TLAPS

Kept == <<mode, now, periodEnd>>

\* Stripe has sent the events it got answers for.
StripeOK == /\ mode \in {"payment", "subscription"}
            /\ now \in 1 .. MaxNow
            /\ periodEnd \in 1 .. now + 1
            /\ unmatched \in SUBSET Event
            /\ answered \in SUBSET Event

\* No request was delivered in the future, and what it carries is paid for: it
\* read it, looked it up or was told by Stripe.
RequestsOK == /\ request \in [Request -> [pc : {"idle", "readToken", "readRecord", "lookup",
                   "putRecord", "mint", "loadRecord", "loadToken", "initialize", "renew"},
                   event : Event, at : Times, token : Times, through : Times]]
              /\ \A q \in Request : request[q].at <= now
              /\ mode = "subscription" => \A q \in Request :
                   request[q].token <= periodEnd /\ request[q].through <= periodEnd

\* What the store has is paid for ...
StoreOK == /\ record \in Times /\ oldRecord \in SUBSET Times
           /\ token \in Times /\ oldToken \in SUBSET Times
           /\ mode = "subscription" =>
                /\ record <= periodEnd /\ \A r \in oldRecord : r <= periodEnd
                /\ token <= periodEnd /\ \A t \in oldToken : t <= periodEnd

\* ... and so is what the coordinator has.
CoordinatorOK == /\ coordinated \in [through : Times, exp : Times, last : Times]
                 /\ mode = "subscription" => coordinated.through <= periodEnd
                 /\ CoordinatorSound

RestOK == /\ missed \in SUBSET Event
          /\ mishaps \in 0 .. MaxMishaps

IInv == StripeOK /\ RequestsOK /\ StoreOK /\ CoordinatorOK /\ RestOK

USE LicenseAssumption DEF Times, Event, Checkout, Idle, Absent, Kept

LEMMA InitOK == Init => IInv
  BY DEF Init, NewCheckout, FirstPeriodOver, IInv, StripeOK, RequestsOK, StoreOK, CoordinatorOK, RestOK, CoordinatorSound

--------------------------------------------------------------------------------
(* What a step leaves alone keeps its part of the invariant. *)

LEMMA StripeSame == StripeOK /\ UNCHANGED stripe => StripeOK'
  BY DEF StripeOK, stripe

LEMMA RequestsSame == RequestsOK /\ UNCHANGED <<Kept, request>> => RequestsOK'
  BY DEF RequestsOK

LEMMA StoreSame == StoreOK /\ UNCHANGED <<Kept, kv>> => StoreOK'
  BY DEF StoreOK, kv

LEMMA CoordinatorSame == CoordinatorOK /\ UNCHANGED <<Kept, coordinated>> => CoordinatorOK'
  BY DEF CoordinatorOK, CoordinatorSound

LEMMA RestSame == RestOK /\ UNCHANGED <<Kept, missed, mishaps>> => RestOK'
  BY DEF RestOK

\* An answer ends a request.
LEMMA AcceptOK == ASSUME NEW q \in Request, StripeOK, RequestsOK, Accept(q)
                  PROVE  StripeOK' /\ RequestsOK' /\ UNCHANGED Kept
<1>1. RequestsOK' /\ UNCHANGED Kept
  BY DEF Accept, StripeOK, RequestsOK
<1>2. answered' \in SUBSET Event /\ UNCHANGED unmatched
  BY DEF Accept, StripeOK, RequestsOK
<1>3. StripeOK'
  BY <1>1, <1>2 DEF StripeOK
<1> QED  BY <1>1, <1>3

LEMMA RefuseOK == ASSUME NEW q \in Request, StripeOK, RequestsOK, Refuse(q)
                  PROVE  StripeOK' /\ RequestsOK' /\ UNCHANGED Kept
  BY DEF Refuse, stripe, StripeOK, RequestsOK

--------------------------------------------------------------------------------
(* The environment. *)

LEMMA TickOK == IInv /\ Tick => IInv'
  BY DEF Tick, kv, IInv, StripeOK, RequestsOK, StoreOK, CoordinatorOK, RestOK, CoordinatorSound

LEMMA CycleOK == IInv /\ Cycle => IInv'
<1> SUFFICES ASSUME IInv, Cycle PROVE IInv'
  OBVIOUS
<1>1. /\ periodEnd \in 1 .. now + 1 /\ periodEnd' = periodEnd + 1 /\ periodEnd' <= now + 1
      /\ now \in 1 .. MaxNow /\ mode = "subscription" /\ mode' = mode
  BY DEF Cycle, IInv, StripeOK
<1>2. periodEnd' \in Event' /\ Event \subseteq Event'
  BY <1>1
<1>3. unmatched' \in SUBSET Event'
  BY <1>2 DEF Cycle, IInv, StripeOK
<1>4. StripeOK'
  BY <1>1, <1>3 DEF Cycle, IInv, StripeOK
<1>5. RequestsOK'
  BY <1>1 DEF Cycle, IInv, RequestsOK
<1>6. StoreOK' /\ CoordinatorOK'
  BY <1>1 DEF Cycle, kv, IInv, StoreOK, CoordinatorOK, CoordinatorSound
<1>7. RestOK'
  BY <1>1 DEF Cycle, IInv, RestOK
<1> QED  BY <1>4, <1>5, <1>6, <1>7 DEF IInv

LEMMA PropagateOK == IInv /\ Propagate => IInv'
<1> SUFFICES ASSUME IInv, Propagate PROVE IInv'
  OBVIOUS
<1>1. StoreOK'
  BY DEF Propagate, stripe, IInv, StoreOK
<1> QED  BY <1>1, StripeSame, RequestsSame, CoordinatorSame, RestSame DEF Propagate, stripe, IInv

LEMMA DeliverOK == ASSUME NEW q \in Request, NEW e \in Event, IInv, Deliver(q, e) PROVE IInv'
<1>1. RequestsOK'
  BY DEF Deliver, stripe, IInv, StripeOK, RequestsOK
<1>2. RestOK'
  BY DEF Deliver, stripe, IInv, RestOK
<1> QED  BY <1>1, <1>2, StripeSame, StoreSame, CoordinatorSame DEF Deliver, stripe, IInv

LEMMA LoseOK == ASSUME NEW q \in Request, IInv, Lose(q) PROVE IInv'
<1>1. RequestsOK'
  BY DEF Lose, stripe, IInv, StripeOK, RequestsOK
<1>2. RestOK'
  BY DEF Lose, stripe, IInv, RestOK
<1> QED  BY <1>1, <1>2, StripeSame, StoreSame, CoordinatorSame DEF Lose, stripe, IInv

--------------------------------------------------------------------------------
(* The steps of a request. *)

\* Values that may be carried on.
Paid(t) == t \in Times /\ (mode = "subscription" => t <= periodEnd)

LEMMA ReadsPaid == ASSUME StoreOK
                   PROVE  /\ \A r \in RecordReads : Paid(r)
                          /\ \A t \in TokenReads : Paid(t)
  BY DEF StoreOK, RecordReads, TokenReads, Paid

LEMMA CarriedPaid == ASSUME NEW q \in Request, RequestsOK
                     PROVE  Paid(request[q].token) /\ Paid(request[q].through)
  BY DEF RequestsOK, Paid

LEMMA ReadTokenOK == ASSUME NEW q \in Request, IInv, ReadToken(q) PROVE IInv'
<1> PICK t \in TokenReads :
       \/ mode = "subscription" /\ Goto(q, "readRecord", t, 0) /\ UNCHANGED stripe
       \/ mode = "payment" /\ t # 0 /\ Accept(q)
       \/ /\ mode = "payment" /\ t = 0
          /\ Goto(q, "mint", 0, request[q].at + Interval) /\ UNCHANGED stripe
  BY DEF ReadToken
<1>1. Paid(t)
  BY ReadsPaid DEF IInv
<1>2. CASE mode = "subscription" /\ Goto(q, "readRecord", t, 0) /\ UNCHANGED stripe
  <2>1. RequestsOK' /\ UNCHANGED Kept
    BY <1>1, <1>2 DEF Goto, Paid, stripe, IInv, StripeOK, RequestsOK
  <2> QED  BY <2>1, <1>2, StripeSame, StoreSame, CoordinatorSame, RestSame DEF ReadToken, IInv
<1>3. CASE mode = "payment" /\ t # 0 /\ Accept(q)
  BY <1>3, AcceptOK, StoreSame, CoordinatorSame, RestSame DEF ReadToken, IInv
<1>4. CASE /\ mode = "payment" /\ t = 0
           /\ Goto(q, "mint", 0, request[q].at + Interval) /\ UNCHANGED stripe
  <2>1. RequestsOK' /\ UNCHANGED Kept
    BY <1>4 DEF Goto, stripe, IInv, StripeOK, RequestsOK
  <2> QED  BY <2>1, <1>4, StripeSame, StoreSame, CoordinatorSame, RestSame DEF ReadToken, IInv
<1> QED  BY <1>2, <1>3, <1>4

LEMMA RecordedOK ==
  ASSUME NEW q \in Request, NEW through, Paid(through), StripeOK, RequestsOK, Recorded(q, through)
  PROVE  StripeOK' /\ RequestsOK' /\ UNCHANGED Kept
<1>1. CASE request[q].token # 0 /\ Accept(q)
  BY <1>1, AcceptOK
<1>2. CASE /\ request[q].token = 0 /\ through > request[q].at
           /\ Goto(q, "mint", 0, through) /\ UNCHANGED stripe
  <2>1. RequestsOK' /\ UNCHANGED Kept
    BY <1>2 DEF Goto, Paid, stripe, StripeOK, RequestsOK
  <2> QED  BY <2>1, <1>2, StripeSame
<1>3. CASE request[q].token = 0 /\ through <= request[q].at /\ Refuse(q)
  BY <1>3, RefuseOK
<1> QED  BY <1>1, <1>2, <1>3 DEF Recorded

LEMMA FindRecordOK == ASSUME NEW q \in Request, IInv, FindRecord(q) PROVE IInv'
  BY ReadsPaid, RecordedOK, StoreSame, CoordinatorSame, RestSame DEF FindRecord, IInv

LEMMA MissRecordOK == ASSUME NEW q \in Request, IInv, MissRecord(q) PROVE IInv'
<1>1. RequestsOK' /\ UNCHANGED Kept
  BY CarriedPaid DEF MissRecord, Goto, Paid, stripe, IInv, StripeOK, RequestsOK
<1> QED  BY <1>1, StripeSame, StoreSame, CoordinatorSame, RestSame DEF MissRecord, IInv

LEMMA LookUpOK == ASSUME NEW q \in Request, IInv, LookUp(q) PROVE IInv'
<1>1. RequestsOK' /\ UNCHANGED Kept
  BY CarriedPaid DEF LookUp, Goto, Paid, stripe, IInv, StripeOK, RequestsOK
<1> QED  BY <1>1, StripeSame, StoreSame, CoordinatorSame, RestSame DEF LookUp, IInv

LEMMA StoreRecordOK == ASSUME NEW q \in Request, IInv, StoreRecord(q) PROVE IInv'
<1>1. Paid(request[q].through)
  BY CarriedPaid DEF IInv
<1>2. StripeOK' /\ RequestsOK' /\ UNCHANGED Kept
  BY <1>1, RecordedOK DEF StoreRecord, IInv
<1>3. StoreOK'
  BY <1>1, <1>2 DEF StoreRecord, PutRecord, Paid, IInv, StoreOK
<1> QED  BY <1>2, <1>3, CoordinatorSame, RestSame DEF StoreRecord, IInv

LEMMA MintOK == ASSUME NEW q \in Request, IInv, Mint(q) PROVE IInv'
<1>1. Paid(request[q].through)
  BY CarriedPaid DEF IInv
<1>2. StripeOK' /\ RequestsOK' /\ UNCHANGED Kept
  BY AcceptOK DEF Mint, IInv
<1>3. StoreOK'
  BY <1>1, <1>2 DEF Mint, PutToken, Paid, IInv, StoreOK
<1> QED  BY <1>2, <1>3, CoordinatorSame, RestSame DEF Mint, IInv

LEMMA LoadRecordOK == ASSUME NEW q \in Request, IInv, LoadRecord(q) PROVE IInv'
<1> PICK r \in RecordReads :
       \/ r = 0 /\ Accept(q) /\ missed' = missed \cup {request[q].event}
       \/ r # 0 /\ Goto(q, "loadToken", 0, r) /\ UNCHANGED <<stripe, missed>>
  BY DEF LoadRecord
<1>1. Paid(r)
  BY ReadsPaid DEF IInv
<1>2. CASE r = 0 /\ Accept(q) /\ missed' = missed \cup {request[q].event}
  <2>1. StripeOK' /\ RequestsOK' /\ UNCHANGED Kept
    BY <1>2, AcceptOK DEF IInv
  <2>2. request[q].event \in Event
    BY DEF IInv, RequestsOK
  <2>3. RestOK'
    BY <2>1, <2>2, <1>2 DEF LoadRecord, IInv, RestOK
  <2> QED  BY <2>1, <2>3, StoreSame, CoordinatorSame DEF LoadRecord, IInv
<1>3. CASE r # 0 /\ Goto(q, "loadToken", 0, r) /\ UNCHANGED <<stripe, missed>>
  <2>1. RequestsOK' /\ UNCHANGED Kept
    BY <1>1, <1>3 DEF Goto, Paid, stripe, IInv, StripeOK, RequestsOK
  <2> QED  BY <2>1, <1>3, StripeSame, StoreSame, CoordinatorSame, RestSame DEF LoadRecord, IInv
<1> QED  BY <1>2, <1>3

LEMMA LoadTokenOK == ASSUME NEW q \in Request, IInv, LoadToken(q) PROVE IInv'
<1> PICK t \in TokenReads :
       \/ t = 0 /\ Refuse(q)
       \/ t # 0 /\ Goto(q, "initialize", t, request[q].through) /\ UNCHANGED stripe
  BY DEF LoadToken
<1>1. Paid(t) /\ Paid(request[q].through)
  BY ReadsPaid, CarriedPaid DEF IInv
<1>2. CASE t = 0 /\ Refuse(q)
  BY <1>2, RefuseOK, StoreSame, CoordinatorSame, RestSame DEF LoadToken, IInv
<1>3. CASE t # 0 /\ Goto(q, "initialize", t, request[q].through) /\ UNCHANGED stripe
  <2>1. RequestsOK' /\ UNCHANGED Kept
    BY <1>1, <1>3 DEF Goto, Paid, stripe, IInv, StripeOK, RequestsOK
  <2> QED  BY <2>1, <1>3, StripeSame, StoreSame, CoordinatorSame, RestSame DEF LoadToken, IInv
<1> QED  BY <1>2, <1>3

LEMMA InitializeOK == ASSUME NEW q \in Request, IInv, Initialize(q) PROVE IInv'
<1>1. Paid(request[q].token) /\ Paid(request[q].through)
  BY CarriedPaid DEF IInv
<1>2. RequestsOK' /\ UNCHANGED Kept
  BY DEF Initialize, Goto, stripe, IInv, StripeOK, RequestsOK
<1>3. CoordinatorOK'
  BY <1>1, <1>2 DEF Initialize, Reconcile, Later, Greater, Paid, IInv, CoordinatorOK, CoordinatorSound
<1> QED  BY <1>2, <1>3, StripeSame, StoreSame, RestSame DEF Initialize, IInv

LEMMA RenewOK == ASSUME NEW q \in Request, IInv, Renew(q) PROVE IInv'
<1> DEFINE current == Reconcile(coordinated)
           invoice == request[q].event
           advances == ~Settled(q, current) /\ invoice \notin unmatched
<1>1. invoice \in Event /\ Event \subseteq Times /\ invoice <= periodEnd
  BY DEF IInv, StripeOK, RequestsOK
<1>2. IF advances \/ Settled(q, current) THEN Accept(q) ELSE Refuse(q)
  BY DEF Renew
<1>3. StripeOK' /\ RequestsOK' /\ UNCHANGED Kept
  BY <1>2, AcceptOK, RefuseOK DEF IInv
<1>4. current = coordinated
  BY DEF Reconcile, Greater, IInv, CoordinatorOK, CoordinatorSound
<1>5. coordinated' = IF advances THEN [through |-> invoice, exp |-> invoice, last |-> invoice]
                     ELSE coordinated
  BY <1>4 DEF Renew
<1>6. CoordinatorOK'
  BY <1>1, <1>3, <1>5 DEF IInv, CoordinatorOK, CoordinatorSound
<1> QED  BY <1>3, <1>6, StoreSame, RestSame DEF Renew, IInv

--------------------------------------------------------------------------------
LEMMA StepOK == IInv /\ [Next]_vars => IInv'
<1> SUFFICES ASSUME IInv, [Next]_vars PROVE IInv'
  OBVIOUS
<1>1. CASE UNCHANGED vars
  BY <1>1, StripeSame, RequestsSame, StoreSame, CoordinatorSame, RestSame DEF vars, stripe, IInv
<1>2. CASE Tick \/ Cycle \/ Propagate
  BY <1>2, TickOK, CycleOK, PropagateOK
<1>3. ASSUME NEW q \in Request, Proceed(q) PROVE IInv'
  BY <1>3, ReadTokenOK, FindRecordOK, MissRecordOK, LookUpOK, StoreRecordOK, MintOK,
     LoadRecordOK, LoadTokenOK, InitializeOK, RenewOK DEF Proceed
<1>4. ASSUME NEW q \in Request, Lose(q) \/ \E e \in Event : Deliver(q, e) PROVE IInv'
  BY <1>4, LoseOK, DeliverOK
<1> QED  BY <1>1, <1>2, <1>3, <1>4 DEF Next

\* The invariant holds whatever the worker does.
LEMMA Invariant == Spec => []IInv
  BY InitOK, StepOK, PTL DEF Spec

\* A date or a token in the store, in a stale replica, in the coordinator or in a
\* request is one the code can have written there.
THEOREM TypeCorrect == Spec => []TypeOK
<1>1. IInv => TypeOK
  BY DEF IInv, StripeOK, RequestsOK, StoreOK, CoordinatorOK, RestOK, TypeOK
<1> QED  BY Invariant, <1>1, PTL

\* Nothing a buyer of a subscription can be given runs beyond the period Stripe
\* has on record (ensureSubscriptionRecord, coordinateSubscriptionRenewal).
THEOREM NothingUnpaid == Spec => []PaidFor
<1>1. IInv => PaidFor
  BY DEF IInv, StripeOK, StoreOK, CoordinatorOK, CoordinatorSound, PaidFor, RecordReads, TokenReads, Answer
<1> QED  BY Invariant, <1>1, PTL

\* The coordinator's token and record never part
\* (reconcileVerifiedSubscriptionLicenseState, coordinateSubscriptionRenewal).
THEOREM CoordinatorConsistent == Spec => []CoordinatorSound
<1>1. IInv => CoordinatorSound
  BY DEF IInv, CoordinatorOK
<1> QED  BY Invariant, <1>1, PTL

--------------------------------------------------------------------------------
(* The coordinator never goes back. *)

Monotone == coordinated'.through >= coordinated.through

LEMMA InitializeMonotone == ASSUME NEW q \in Request, IInv, Initialize(q) PROVE Monotone
  BY DEF Initialize, At, Reconcile, Later, Greater, Monotone, IInv, StripeOK, RequestsOK, CoordinatorOK, CoordinatorSound

LEMMA RenewMonotone == ASSUME NEW q \in Request, IInv, Renew(q) PROVE Monotone
  BY DEF Renew, Reconcile, Settled, Greater, Monotone, IInv, StripeOK, RequestsOK, CoordinatorOK, CoordinatorSound

LEMMA OthersMonotone ==
  ASSUME IInv, coordinated' = coordinated PROVE Monotone
  BY DEF IInv, CoordinatorOK, Monotone

LEMMA StepMonotone == IInv /\ [Next]_vars => [Monotone]_vars
<1> SUFFICES ASSUME IInv, [Next]_vars PROVE Monotone
  OBVIOUS
<1>1. CASE UNCHANGED vars
  BY <1>1, OthersMonotone DEF vars
<1>2. CASE Tick \/ Cycle \/ Propagate
  BY <1>2, OthersMonotone DEF Tick, Cycle, Propagate
<1>3. ASSUME NEW q \in Request, Proceed(q) PROVE Monotone
  BY <1>3, InitializeMonotone, RenewMonotone, OthersMonotone
     DEF Proceed, ReadToken, FindRecord, MissRecord, LookUp, StoreRecord, Mint, LoadRecord, LoadToken
<1>4. ASSUME NEW q \in Request, Lose(q) \/ \E e \in Event : Deliver(q, e) PROVE Monotone
  BY <1>4, OthersMonotone DEF Lose, Deliver
<1> QED  BY <1>1, <1>2, <1>3, <1>4 DEF Next

\* Late, repeated, stale and reordered invoices never shorten a license
\* (laterMatchingSubscriptionLicenseState, coordinateSubscriptionRenewal).
THEOREM NeverShortened == Spec => CoordinatorMonotone
  BY Invariant, StepMonotone, PTL DEF Spec, CoordinatorMonotone, Monotone
================================================================================
