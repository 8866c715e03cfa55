------------------------------ MODULE Dispatch ------------------------------
(***************************************************************************)
(* The scheduler and the endpoint pool together: the worker function of a    *)
(* wave makes calls through the pool (the map and compile stages of          *)
(* core/orchestrator.py and core/pipeline_executor.py).  Under the one       *)
(* permit of its worker an invocation calls in one of three ways:            *)
(*   whole   one call for the whole chain of models;                         *)
(*   sliced  a call for each model in turn; one that overruns its slice is   *)
(*           left behind (call_chat_with_fallback);                          *)
(*   hedged  the first model alone for its slice, then the others on two     *)
(*           threads, with the first or without (_call_compile_llm_hedged).  *)
(* A call that is left behind (by a slice, by a hedge that has won, by the   *)
(* invocation's own wall or by the scheduler's) keeps its lease until it     *)
(* ends by itself, while the task may already be retried.                    *)
(***************************************************************************)
EXTENDS CapacityPool, EndpointPool

CONSTANTS
    Role,   \* the role of the wave
    Ways,   \* how its worker functions call
    Nobody  \* the seat of an invocation is free

ASSUME DispatchAssumption ==
    /\ Role \in Roles
    /\ Ways \subseteq {"whole", "sliced", "hedged"}
    /\ Nobody \notin Calls

VARIABLES
    way,    \* way[w]: how the invocation of worker thread w calls
    first,  \* first[w]: the call it waits for ...
    second, \* second[w]: ... and the one beside it
    turn,   \* turn[w]: the next model of its chain
    why     \* why[w]: last_error, how its last failed call ended

crewVars == <<way, first, second, turn, why>>
vars == <<poolVars, leaseVars, crewVars>>

Causes == (Over \ {"ok"}) \cup {"none", "slice"}

\* What the end of an invocation is to _handle_result: an answer may be empty or
\* the message of an error may speak of a deadline.
OutcomesOf(o) ==
    CASE o = "ok"                -> {"ok", "empty"}
      [] o \in {"none", "slice"} -> {"empty"}
      [] o = "failed"            -> {"empty", "deadline"}
      [] o = "late"              -> {"empty", "deadline"}
      [] o = "limited"           -> {"limited"}

\* A hedged invocation that fails says so in words of its own.
Verdict(w) == IF way[w] = "hedged" THEN {"empty"} ELSE OutcomesOf(why[w])

Hedging  == {w \in Threads : second[w] # Nobody}

\* Calls that run on although no invocation waits for them.
LeftBehind == {c \in Calls : call[c].pc # "idle" /\ \A w \in Threads : c \notin {first[w], second[w]}}

-----------------------------------------------------------------------------
(* The invocation *)

StartInvocation(w) ==
    /\ Invoke(w)
    /\ \E y \in Ways : way' = [way EXCEPT ![w] = y]
    /\ UNCHANGED <<leaseVars, first, second, turn, why>>

\* The next model's call, or the one for all of them.
NextCall(w, c) ==
    LET last == IF way[w] = "whole" THEN Models ELSE turn[w]
    IN  /\ at[w] = "invoke"
        /\ turn[w] <= Models
        /\ Begin(c, Role, turn[w], last)
        /\ turn' = [turn EXCEPT ![w] = last + 1]
        /\ UNCHANGED <<poolVars, way, why>>

StartCall(w, c) ==
    /\ first[w] = Nobody
    /\ NextCall(w, c)
    /\ first' = [first EXCEPT ![w] = c]
    /\ UNCHANGED second

\* The first model has overrun its slice, or failed: the others run side by side.
StartHedge(w, c) ==
    /\ way[w] = "hedged"
    /\ turn[w] > 1
    /\ second[w] = Nobody
    /\ NextCall(w, c)
    /\ second' = [second EXCEPT ![w] = c]
    /\ UNCHANGED first

\* Too little of the deadline is left for the next model.
SkipModel(w) ==
    /\ at[w] = "invoke"
    /\ \/ way[w] = "sliced" /\ first[w] = Nobody
       \/ way[w] = "hedged" /\ turn[w] > 1
    /\ turn[w] <= Models
    /\ turn' = [turn EXCEPT ![w] = @ + 1]
    /\ UNCHANGED <<poolVars, leaseVars, way, first, second, why>>

\* One seat is given up: the call in it has ended, or is left behind.
Vacate(w, c) ==
    /\ first' = IF first[w] = c THEN [first EXCEPT ![w] = Nobody] ELSE first
    /\ second' = IF second[w] = c THEN [second EXCEPT ![w] = Nobody] ELSE second

\* The slice of a model is over: its thread is left, lease and all.
SliceOver(w) ==
    /\ way[w] = "sliced"
    /\ first[w] # Nobody
    /\ call[first[w]].pc \notin Over
    /\ Vacate(w, first[w])
    /\ why' = [why EXCEPT ![w] = "slice"]
    /\ UNCHANGED <<poolVars, leaseVars, way, turn>>

\* The invocation ends, whoever still has a seat.
Ends(w, o) ==
    /\ InvokeEnds(w, o)
    /\ first' = [first EXCEPT ![w] = Nobody]
    /\ second' = [second EXCEPT ![w] = Nobody]
    /\ turn' = [turn EXCEPT ![w] = 1]
    /\ why' = [why EXCEPT ![w] = "none"]
    /\ UNCHANGED way

\* A call has ended.  Its answer is the invocation's, and the other call of a hedge
\* is left behind; an error, or the empty answer of a hedge, leaves it to the rest.
CallAnswers(w, c) ==
    /\ c \in {first[w], second[w]} \ {Nobody}
    /\ call[c].pc = "ok"
    /\ Collect(c)
    /\ \E o \in OutcomesOf("ok") : Ends(w, o)

CallFails(w, c) ==
    /\ c \in {first[w], second[w]} \ {Nobody}
    /\ call[c].pc = "ok" => way[w] = "hedged" /\ turn[w] > 2
    /\ Collect(c)
    /\ Vacate(w, c)
    /\ why' = [why EXCEPT ![w] = IF call[c].pc = "ok" THEN "none" ELSE call[c].pc]
    /\ UNCHANGED <<poolVars, way, turn>>

\* No model is left to try.
AllFailed(w) ==
    /\ turn[w] > Models
    /\ first[w] = Nobody /\ second[w] = Nobody
    /\ \E o \in Verdict(w) : Ends(w, o)
    /\ UNCHANGED leaseVars

\* The invocation's own wall (of a compile call, or of a hedge).
OwnWall(w) == Ends(w, "empty") /\ UNCHANGED leaseVars

\* The scheduler's hard wall: the future is abandoned.  Whatever the invocation
\* does after it, it starts no further call: every deadline has passed.
HardTimeout(w) == Ends(w, "hung") /\ UNCHANGED leaseVars

\* A call that was left behind ends; nobody reads its result.
OrphanEnds(c) ==
    /\ c \in LeftBehind
    /\ Collect(c)
    /\ UNCHANGED <<poolVars, crewVars>>

-----------------------------------------------------------------------------

Init ==
    /\ PoolInit
    /\ LeaseInit
    /\ way \in [Threads -> Ways]
    /\ first = [w \in Threads |-> Nobody]
    /\ second = [w \in Threads |-> Nobody]
    /\ turn = [w \in Threads |-> 1]
    /\ why = [w \in Threads |-> "none"]

InvocationStep(w) ==
    \/ StartInvocation(w) \/ SkipModel(w) \/ SliceOver(w) \/ AllFailed(w) \/ OwnWall(w) \/ HardTimeout(w)
    \/ \E c \in Calls : StartCall(w, c) \/ StartHedge(w, c) \/ CallAnswers(w, c) \/ CallFails(w, c)

Next ==
    \/ \E w \in Threads : InvocationStep(w)
    \/ \E w \in Threads : WorkerStep(w) /\ UNCHANGED <<leaseVars, crewVars>>
    \/ MainStep /\ UNCHANGED <<leaseVars, crewVars>>
    \/ \E c \in Calls : CallStep(c) /\ UNCHANGED <<poolVars, crewVars>>
    \/ \E c \in Calls : OrphanEnds(c)
    \/ \E e \in Endpoints : CoolDown(e) /\ UNCHANGED <<poolVars, crewVars>>

Spec == Init /\ [][Next]_vars

-----------------------------------------------------------------------------

Leased == {c \in Calls : lease[c] # NoLease}

\* What the gate in front of the pool bounds.  It is not the number of leases: a
\* permit of capacity_sem stands for one lease and, while its invocation hedges,
\* for a second ("up to ~2 concurrent compile NIM calls"); every lease beyond that
\* is one of a call that a slice, a hedge or a wall has left behind.  No retry,
\* requeue or fallback of a task whose calls are given up starts one more.
GateBounds ==
    Cardinality(Leased) <= (Capacity - permits) + Cardinality(Hedging) + Cardinality(LeftBehind)
=============================================================================
