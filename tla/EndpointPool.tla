---------------------------- MODULE EndpointPool ----------------------------
(***************************************************************************)
(* The pool of model endpoints (agents/nim_endpoint_pool.py) and the call    *)
(* that leases from it (_call_chat_with_fallback_unsliced in                 *)
(* agents/models.py): each attempt takes a slot of the least loaded healthy  *)
(* endpoint, waits for a token of the global limiter (core/nim_rate_limit),  *)
(* makes the request, and gives the slot back; a failed attempt rotates to   *)
(* another endpoint, then to the next model of the chain.                    *)
(*                                                                           *)
(* Latencies are left out: among the least loaded endpoints any is taken.    *)
(* Clocks are left out: a wait may time out whenever it is not served, a     *)
(* call may find its deadline near, and a cool-down ends at some point.      *)
(***************************************************************************)
EXTENDS Naturals, FiniteSets

CONSTANTS
    Endpoints,     \* the pool; load_endpoint_pool runs once, at start-up
    Calls,         \* threads that make calls: bounds the concurrent ones
    Roles,         \* "map", "compile", ... as a call asks for
    RolesOf,       \* RolesOf[e]: the roles endpoint e is configured for
    AnyRole,       \* an endpoint with this role serves every call
    MaxConcurrent, \* MaxConcurrent[e]: its slots
    Models,        \* the length of the fallback chain
    Local,         \* the positions in it that another provider serves
    Tries,         \* attempts per model (model_attempts)
    NoLease        \* the call holds no lease

ASSUME EndpointPoolAssumption ==
    /\ IsFiniteSet(Calls)
    /\ RolesOf \in [Endpoints -> SUBSET (Roles \cup {AnyRole})]
    /\ MaxConcurrent \in [Endpoints -> Nat \ {0}]
    /\ Models \in Nat \ {0}
    /\ Local \subseteq 1..Models
    /\ Tries \in Nat \ {0}
    /\ NoLease \notin Endpoints

VARIABLES
    active,  \* active[e]: the slots of e that are taken
    cooling, \* the endpoints that are not healthy
    lease,   \* lease[c]: the endpoint call c holds a slot of
    call,    \* call[c]: where call c is in its chain
    stray    \* history: stray[e], the slots of e whose call ended without a release

leaseVars == <<active, cooling, lease, call, stray>>

\* A call for the models m..n of the chain: all of them, or one slice.
At(pc, role, m, n) ==
    [pc |-> pc, role |-> role, model |-> m, last |-> n, try |-> 1, exclude |-> {}]
NoCall == At("idle", AnyRole, 1, 1)

Over == {"ok", "failed", "late", "limited"}

-----------------------------------------------------------------------------
(* The pool *)

\* An endpoint with a free slot that may serve the role.
HasSlot(e) == active[e] < MaxConcurrent[e]

Candidates(role, exclude) ==
    {e \in Endpoints \ (cooling \cup exclude) :
        HasSlot(e) /\ (role = AnyRole \/ RolesOf[e] \cap {role, AnyRole} # {})}

\* Without exclusions an endpoint of another role is better than none.
Offered(role, exclude) ==
    IF Candidates(role, exclude) = {} /\ exclude = {} THEN Candidates(AnyRole, {})
    ELSE Candidates(role, exclude)

LeastLoaded(S) == {e \in S : \A f \in S : active[e] <= active[f]}

\* release_endpoint of the lease of c, and the lease is forgotten.
Released(c) == [active EXCEPT ![lease[c]] = IF @ > 0 THEN @ - 1 ELSE 0]
ReturnedIfOk(c, ok) == IF lease[c] = NoLease \/ ~ok THEN active ELSE Released(c)
Returned(c, ok) == IF lease[c] = NoLease THEN active ELSE Released(c)

Forgotten(c) == [lease EXCEPT ![c] = NoLease]

ReleaseEndpoint(c, ok) ==
    /\ active' = Returned(c, ok)
    /\ cooling' = IF lease[c] = NoLease \/ ok THEN cooling ELSE cooling \cup {lease[c]}
    /\ lease' = Forgotten(c)

\* The call ends while it holds its lease: nobody is left to release it.
Abandon(c) ==
    /\ lease' = [lease EXCEPT ![c] = NoLease]
    /\ stray' = IF lease[c] = NoLease THEN stray ELSE [stray EXCEPT ![lease[c]] = @ + 1]

CoolDown(e) ==
    /\ e \in cooling
    /\ cooling' = cooling \ {e}
    /\ UNCHANGED <<active, lease, call, stray>>

-----------------------------------------------------------------------------
(* The call *)

\* Goes on at pc with model m, attempt t and the excluded endpoints x.
Proceed(c, pc, m, t, x) ==
    call' = [call EXCEPT ![c] = [pc |-> pc, role |-> @.role, model |-> m, last |-> @.last, try |-> t,
                                 exclude |-> x]]

GoesTo(c, pc) == call' = [call EXCEPT ![c].pc = pc]

Begin(c, role, m, n) ==
    /\ call[c].pc = "idle"
    /\ call' = [call EXCEPT ![c] = At("acquire", role, m, n)]
    /\ UNCHANGED <<active, cooling, lease, stray>>

\* acquire_endpoint grants a slot; when the excluded endpoints leave nothing for
\* the whole wait, they are asked too.
Acquire(c) ==
    LET free == Offered(call[c].role, call[c].exclude)
    IN  \E e \in LeastLoaded(IF free = {} THEN Offered(call[c].role, {}) ELSE free) :
            /\ call[c].pc = "acquire"
            /\ active' = [active EXCEPT ![e] = @ + 1]
            /\ lease' = [lease EXCEPT ![c] = e]
            /\ GoesTo(c, "try")
            /\ UNCHANGED <<cooling, stray>>

\* The wait times out: the request is made with the primary client, unleased.
AcquireTimesOut(c) ==
    /\ call[c].pc = "acquire"
    /\ Offered(call[c].role, {}) = {}
    /\ GoesTo(c, "try")
    /\ UNCHANGED <<active, cooling, lease, stray>>

\* The deadline is too near to wait for a slot, or a hedge has won.
AcquireRefused(c) ==
    /\ call[c].pc = "acquire"
    /\ GoesTo(c, "late")
    /\ UNCHANGED <<active, cooling, lease, stray>>

\* The model the call is at is another provider's, or one of the endpoints'.
Elsewhere(c) == call[c].model <= call[c].last /\ call[c].model \in Local
Remote(c)    == call[c].model <= call[c].last /\ call[c].model \notin Local

\* The chain is exhausted, or the deadline too near for another attempt.
GiveUp(c) ==
    /\ call[c].pc = "try"
    /\ ~Elsewhere(c)
    /\ ReleaseEndpoint(c, FALSE)
    /\ GoesTo(c, "failed")
    /\ UNCHANGED stray

\* Another provider answers the model: the answer is returned as it is.
ProviderAnswers(c) ==
    /\ call[c].pc = "try"
    /\ Elsewhere(c)
    /\ Abandon(c)
    /\ GoesTo(c, "ok")
    /\ UNCHANGED <<active, cooling>>

ProviderFails(c) ==
    /\ call[c].pc = "try"
    /\ Elsewhere(c)
    /\ Proceed(c, "try", call[c].model + 1, 1, call[c].exclude)
    /\ UNCHANGED <<active, cooling, lease, stray>>

TakeToken(c) ==
    /\ call[c].pc = "try"
    /\ Remote(c)
    /\ GoesTo(c, "http")
    /\ UNCHANGED <<active, cooling, lease, stray>>

\* No token in time: RateLimitBackpressure goes straight to the caller.
TokenTimesOut(c) ==
    /\ call[c].pc = "try"
    /\ Remote(c)
    /\ Abandon(c)
    /\ GoesTo(c, "limited")
    /\ UNCHANGED <<active, cooling>>

Answered(c) ==
    /\ call[c].pc = "http"
    /\ ReleaseEndpoint(c, TRUE)
    /\ GoesTo(c, "ok")
    /\ UNCHANGED stray

\* HTTP 429
RateLimited(c) ==
    /\ call[c].pc = "http"
    /\ ReleaseEndpoint(c, FALSE)
    /\ GoesTo(c, "limited")
    /\ UNCHANGED stray

\* A hedge has won: the slot is freed at once, the request abandoned.
Cancelled(c) ==
    /\ call[c].pc \in {"try", "http"}
    /\ Remote(c)
    /\ ReleaseEndpoint(c, FALSE)
    /\ GoesTo(c, "late")
    /\ UNCHANGED stray

\* A transient failure (or a deadline before the request) is tried again on
\* another endpoint ...
Rotate(c) ==
    /\ call[c].pc \in {"try", "http"}
    /\ Remote(c)
    /\ call[c].try < Tries
    /\ ReleaseEndpoint(c, FALSE)
    /\ Proceed(c, "acquire", call[c].model, call[c].try + 1,
               call[c].exclude \cup ({lease[c]} \ {NoLease}))
    /\ UNCHANGED stray

\* ... any other, or the last, goes on to the next model, on whichever endpoint:
\* also when there is no next model, and the slot is taken only to be given back.
FallThrough(c) ==
    /\ call[c].pc \in {"try", "http"}
    /\ Remote(c)
    /\ ReleaseEndpoint(c, FALSE)
    /\ Proceed(c, "acquire", call[c].model + 1, 1, {})
    /\ UNCHANGED stray

\* The caller has the answer or the exception.
Collect(c) ==
    /\ call[c].pc \in Over
    /\ call' = [call EXCEPT ![c] = NoCall]
    /\ UNCHANGED <<active, cooling, lease, stray>>

-----------------------------------------------------------------------------

LeaseInit ==
    /\ active = [e \in Endpoints |-> 0]
    /\ cooling = {}
    /\ lease = [c \in Calls |-> NoLease]
    /\ call = [c \in Calls |-> NoCall]
    /\ stray = [e \in Endpoints |-> 0]

CallStep(c) ==
    \/ Acquire(c) \/ AcquireTimesOut(c) \/ AcquireRefused(c) \/ GiveUp(c)
    \/ ProviderAnswers(c) \/ ProviderFails(c) \/ TakeToken(c) \/ TokenTimesOut(c)
    \/ Answered(c) \/ RateLimited(c) \/ Cancelled(c) \/ Rotate(c) \/ FallThrough(c)

LeaseNext ==
    \/ \E c \in Calls :
          \/ CallStep(c)
          \/ Collect(c)
          \/ \E role \in Roles, m, n \in 1..Models : Begin(c, role, m, n)
    \/ \E e \in Endpoints : CoolDown(e)

LeaseSpec == LeaseInit /\ [][LeaseNext]_leaseVars

-----------------------------------------------------------------------------
(* Properties *)

CallStates == [pc : {"idle", "acquire", "try", "http"} \cup Over,
               role : Roles \cup {AnyRole}, model : 1..Models + 1, last : 1..Models,
               try : 1..Tries, exclude : SUBSET Endpoints]

\* Every variable holds a value of its kind; a call has no lease before it is
\* granted one and none when it is over.
LeaseTypeOK ==
    /\ active \in [Endpoints -> Nat]
    /\ cooling \subseteq Endpoints
    /\ lease \in [Calls -> Endpoints \cup {NoLease}]
    /\ call \in [Calls -> CallStates]
    /\ stray \in [Endpoints -> Nat]
    /\ \A c \in Calls : lease[c] # NoLease => call[c].pc \in {"try", "http"}

Leases(e) == {c \in Calls : lease[c] = e}

\* The load the pool dispatches by is the truth: the slots taken are those of the
\* calls that hold a lease and of those that ended without a release; no path
\* through retries, rotation and hedging releases a slot twice.
LeasesCounted == \A e \in Endpoints : active[e] = Cardinality(Leases(e)) + stray[e]

\* What the pool promises for whoever calls through it: a lease is granted only
\* while active < max_concurrent, so that an endpoint never has more leases out
\* than it has slots.  It is about the leases, not about the load the pool counts.
WithinCapacity == \A e \in Endpoints : Cardinality(Leases(e)) <= MaxConcurrent[e]

=============================================================================
