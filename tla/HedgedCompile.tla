---------------------------- MODULE HedgedCompile ----------------------------
(***************************************************************************)
(* One compile of a list of summaries (run_compile_with_models in            *)
(* agents/models.py): rounds of intermediate batches that run concurrently,  *)
(* then a final pass, all under one deadline.  A pass walks a chain of       *)
(* models, either hedged (the fallbacks are started next to a slow or failed *)
(* primary, the first success wins, the losers are cancelled) or slice by    *)
(* slice.  Every pass reports through the progress line of the job.          *)
(*                                                                           *)
(* A text is the summaries it covers, and whether it is raw: its tokens are  *)
(* their number when it is, and one when a model wrote it.                   *)
(* Requests may hang for ever; the slices and the deadline end at some time. *)
(***************************************************************************)
EXTENDS Naturals, Sequences, SequencesExt, FiniteSetsExt

-----------------------------------------------------------------------------
(* The progress line of a job (perf/progress.py): the compile passes publish Planning,    *)
(* Trying and Completed through a gate that a lock guards; the scheduler and the pipeline *)
(* write theirs through set_progress_throttled, which looks at the gate first and writes  *)
(* later.  Texts and percentages are left out, the clock of the throttle too: a write is  *)
(* due or is not.                                                                          *)

CONSTANTS
    Passes,     \* compile passes, in the order they may plan: positive numbers
    Reporters   \* threads that report through set_progress_throttled

ASSUME ProgressAssumption == Passes \subseteq Nat \ {0}

VARIABLES
    entry,    \* _LIFECYCLE of the job: its active cycle, or NoEntry
    shown,    \* the line in JOB_STATUSES
    saved,    \* the line in the row
    pending,  \* _STATE: the line that flush_progress would persist
    report,   \* report[r]: what thread r is about to write, or NoReport
    left,     \* bound: left[r], the reports thread r may still make
    terminal  \* the status is final: progress writes are refused

progressVars == <<entry, shown, saved, pending, report, left, terminal>>

Planning  == 1
Trying    == 2
Completed == 3
Phases    == {Planning, Trying, Completed}

\* A line of the compile life cycle, and any other line.
Lifecycle(p, phase) == [kind |-> "lifecycle", pass |-> p, phase |-> phase]
Plain(kind) == [kind |-> kind, pass |-> 0, phase |-> 0]

\* Scheduler telemetry, a stage, and a milestone after the compile.
PlainKinds == {"telemetry", "milestone"}
Lines == {Plain(k) : k \in PlainKinds \cup {"none"}}
             \cup {Lifecycle(p, phase) : p \in Passes, phase \in Phases}

NoEntry  == [cycle |-> 0, line |-> Plain("none")]
NoReport == [how |-> "none", line |-> Plain("none")]

-----------------------------------------------------------------------------
(* publish_lifecycle_progress, under its lock *)

\* Planning opens a cycle; the other phases belong to the active one, and go forward.
AnyCycle(id, phase) == entry # NoEntry /\ phase >= entry.line.phase
InActiveCycle(id, phase) ==
    entry # NoEntry /\ id = entry.cycle /\ phase >= entry.line.phase

\* The gate of a pass is sealed by its winner: only Completed still passes.
Accepted(id, phase, sealed) ==
    /\ sealed => phase = Completed
    /\ phase = Planning \/ InActiveCycle(id, phase)

CycleOf(id, phase) == IF phase = Planning THEN entry.cycle + 1 ELSE id

\* A line of pass p, whose cycle is id, is published, or refused.
Publish(p, id, phase, sealed) ==
    LET line == Lifecycle(p, phase)
    IN  IF Accepted(id, phase, sealed)
        THEN /\ entry' = [cycle |-> CycleOf(id, phase), line |-> line]
             /\ shown' = IF terminal THEN shown ELSE line
             /\ saved' = IF terminal THEN saved ELSE line
             /\ UNCHANGED <<pending, report, left, terminal>>
        ELSE UNCHANGED progressVars

-----------------------------------------------------------------------------
(* set_progress_throttled and flush_progress *)

\* resolve_progress_message: while a cycle is active its line stands, until a
\* milestone after the compile ends it.
Resolved(line) ==
    IF entry = NoEntry \/ line.kind = "milestone" THEN line ELSE entry.line

Resolve(line) ==
    entry' = IF line.kind = "milestone" THEN NoEntry ELSE entry

SetProgress(r, kind, force) ==
    /\ report[r] = NoReport /\ left[r] > 0
    /\ left' = [left EXCEPT ![r] = @ - 1]
    /\ report' = [report EXCEPT ![r] = [how  |-> IF force THEN "forced" ELSE "throttled",
                                        line |-> Resolved(Plain(kind))]]
    /\ Resolve(Plain(kind))
    /\ UNCHANGED <<shown, saved, pending, terminal>>

FlushProgress(r) ==
    /\ report[r] = NoReport
    /\ pending # Plain("none") /\ left[r] > 0
    /\ left' = [left EXCEPT ![r] = @ - 1]
    /\ report' = [report EXCEPT ![r] = [how |-> "flush", line |-> Resolved(pending)]]
    /\ Resolve(pending)
    /\ UNCHANGED <<shown, saved, pending, terminal>>

\* The cache is written always, the row when the write is due.
WriteCache(line) == shown' = line /\ pending' = line

WriteProgress(r) ==
    LET w == report[r]
    IN  /\ w # NoReport
        /\ report' = [report EXCEPT ![r] = NoReport]
        /\ \/ terminal /\ UNCHANGED <<shown, saved, pending>>
           \/ ~terminal /\ w.how = "flush" /\ saved' = w.line /\ UNCHANGED <<shown, pending>>
           \/ ~terminal /\ w.how # "flush" /\ WriteCache(w.line) /\ saved' = w.line
           \/ ~terminal /\ w.how = "throttled" /\ WriteCache(w.line) /\ UNCHANGED saved
        /\ UNCHANGED <<entry, left, terminal>>

JobEnds ==
    /\ terminal' = TRUE
    /\ UNCHANGED <<entry, shown, saved, pending, report, left>>

-----------------------------------------------------------------------------

ProgressInit ==
    /\ entry = NoEntry
    /\ shown = Plain("telemetry")
    /\ saved = Plain("telemetry")
    /\ pending = Plain("none")
    /\ report = [r \in Reporters |-> NoReport]
    /\ terminal = FALSE

-----------------------------------------------------------------------------
(* The compile *)

CONSTANTS
    Inputs,      \* the compiles: how many usable summaries, the length of the chain
                 \* of models (_compile_model_chains: at most 3), whether calls are
                 \* hedged (COMPILE_HEDGED_FALLBACK_ENABLED), and a bound on reports
    BatchSize,   \* COMPILE_BATCH_SIZE, at least 3
    MaxTokens,   \* COMPILE_MAX_INPUT_TOKENS, in summaries
    Workers      \* COMPILE_MAX_WORKERS: batches at work at a time

ASSUME HedgedAssumption ==
    /\ Inputs \subseteq [summaries : Nat \ {0}, models : 1..3, hedged : BOOLEAN, reports : Nat]
    /\ BatchSize \in Nat \ 0..2 /\ Workers \in Nat \ {0}
    /\ MaxTokens \in Nat

PoolSize == 2           \* threads of one hedged call
IntermediateModels == 2 \* models of a batch: primary[:2]

VARIABLES
    input,   \* the compile of this run
    wall,    \* the deadline of the compile is exhausted
    work,    \* the texts of the current level
    stage,   \* where the compile is: "loop", "round", "final", "returned"
    outcome, \* "none", "compiled", "stitched"
    round,   \* the passes of the current round, or the final one
    pass,    \* pass[p]: the state of a pass; they are used in order
    att,     \* att[p][i]: the attempt of pass p on the i-th model of its chain
    stop     \* stop[p]: the attempts whose cancel event is set

compileVars == <<input, wall, work, stage, outcome, round, pass, att, stop>>
vars == <<progressVars, compileVars>>

Chain  == 1..3
Summary(i) == [of |-> {i}, raw |-> TRUE]
Over   == {"compiled", "failed"}
NewPass(pc, chain, of) ==
    [pc |-> pc, cycle |-> 0, gate |-> FALSE, chain |-> chain, waits |-> {}, of |-> of]

\* What the texts at some places of the level cover together.
Covered(places) == UNION {work[i].of : i \in places}
Tokens(texts) ==
    FoldSeq(LAMBDA t, n : n + IF t.raw THEN Cardinality(t.of) ELSE 1, 0, texts)

-----------------------------------------------------------------------------
(* _hierarchical_compile *)

Fits == Len(work) <= 2 \/ (Len(work) <= BatchSize /\ Tokens(work) <= MaxTokens)

\* The batches of the level: runs of BatchSize texts.
BatchCount == (Len(work) + BatchSize - 1) \div BatchSize
Batch(b) == {i \in DOMAIN work : (i - 1) \div BatchSize = b - 1}

\* A pass for each input, in order, the next ones not used.  Bound: as many are left.
Queue(chain, inputs) ==
    \E first \in Passes :
        LET new == first .. first + Len(inputs) - 1
        IN  /\ \A p \in Passes : pass[p].pc = "idle" <=> p >= first
            /\ new \subseteq Passes
            /\ round' = [b \in 1..Len(inputs) |-> first + b - 1]
            /\ pass' = [p \in Passes |->
                  IF p \in new
                  THEN NewPass("queued", chain, inputs[p - first + 1])
                  ELSE pass[p]]

StartRound ==
    /\ stage = "loop" /\ ~wall /\ ~Fits
    /\ Queue(IF input.models < IntermediateModels THEN input.models ELSE IntermediateModels,
             [b \in 1..BatchCount |-> Covered(Batch(b))])
    /\ stage' = "round"
    /\ UNCHANGED <<input, wall, work, outcome, att, stop, progressVars>>

StartFinal ==
    /\ stage = "loop" /\ ~wall /\ Fits
    /\ Queue(input.models, <<Covered(DOMAIN work)>>)
    /\ stage' = "final"
    /\ UNCHANGED <<input, wall, work, outcome, att, stop, progressVars>>

\* The deadline is exhausted between two rounds: the summaries are stitched.
OutOfTime ==
    /\ stage = "loop" /\ wall
    /\ stage' = "returned" /\ outcome' = "stitched"
    /\ UNCHANGED <<input, wall, work, round, pass, att, stop, progressVars>>

\* A batch that failed stays in the text as it was, in its place.
CompiledOnly(ps) == LET IsCompiled(p) == pass[p].pc = "compiled"
                        kept == SelectSeq(ps, IsCompiled)
                    IN  [b \in DOMAIN kept |-> [of |-> pass[kept[b]].of, raw |-> FALSE]]
NextLevel(ps) ==
    [b \in DOMAIN ps |-> [of |-> pass[ps[b]].of, raw |-> pass[ps[b]].pc = "failed"]]

EndRound ==
    /\ stage = "round"
    /\ \A p \in Range(round) : pass[p].pc \in Over
    /\ work' = NextLevel(round)
    /\ stage' = "loop"
    /\ UNCHANGED <<input, wall, outcome, round, pass, att, stop, progressVars>>

EndCompile ==
    /\ stage = "final"
    /\ pass[round[1]].pc \in Over
    /\ outcome' = IF pass[round[1]].pc = "compiled" THEN "compiled" ELSE "stitched"
    /\ stage' = "returned"
    /\ UNCHANGED <<input, wall, work, round, pass, att, stop, progressVars>>

Deadline ==
    /\ stage # "returned" /\ ~wall
    /\ wall' = TRUE
    /\ UNCHANGED <<input, work, stage, outcome, round, pass, att, stop, progressVars>>

-----------------------------------------------------------------------------
(* A pass: _compile_one_batch or the body of the final loop, and the call *)

PassGoes(p, pc) == pass' = [pass EXCEPT ![p].pc = pc]

\* Planning opens the cycle of the pass; the primary is submitted.
StartPass(p) ==
    /\ pass[p].pc = "queued" /\ ~wall
    /\ Cardinality({q \in Range(round) : pass[q].pc \notin Over \cup {"queued"}}) < Workers
    /\ Publish(p, 0, Planning, FALSE)
    /\ pass' = [pass EXCEPT ![p].pc = IF input.hedged /\ pass[p].chain >= 2
                                      THEN "primary" ELSE "slice",
                            ![p].cycle = entry'.cycle,
                            ![p].waits = {1}]
    /\ att' = [att EXCEPT ![p][1] = "calling"]
    /\ UNCHANGED <<input, wall, work, stage, outcome, round, stop>>

StartsTooLate(p) ==
    /\ pass[p].pc = "queued" /\ wall
    /\ PassGoes(p, "failed")
    /\ UNCHANGED <<input, wall, work, stage, outcome, round, att, stop, progressVars>>

\* The model that answered is named, unless a newer cycle has begun.
CompletePass(p) ==
    /\ pass[p].pc = "won"
    /\ Publish(p, pass[p].cycle, Completed, pass[p].gate)
    /\ pass' = [pass EXCEPT ![p].pc = "compiled",
                            ![p].gate = @ \/ Accepted(pass[p].cycle, Completed, @)]
    /\ UNCHANGED <<input, wall, work, stage, outcome, round, att, stop>>

Launched(p) == {i \in Chain : att[p][i] # "none"}
Ended == {"ok", "error", "cancelled"}

\* The call ends: every cancel event is set, what is still queued never starts.
DropQueued(p) == [att EXCEPT ![p] = [i \in Chain |-> IF @[i] = "queued" THEN "cancelled" ELSE @[i]]]
EndCall(p, pc, gate) ==
    /\ pass' = [pass EXCEPT ![p].pc = pc, ![p].gate = @ \/ gate, ![p].waits = {}]
    /\ stop' = [stop EXCEPT ![p] = Launched(p)]
    /\ att' = DropQueued(p)

(* _call_compile_llm_hedged *)

PrimaryWins(p) ==
    /\ pass[p].pc = "primary" /\ att[p][1] = "ok"
    /\ EndCall(p, "won", FALSE)
    /\ UNCHANGED <<input, wall, work, stage, outcome, round, progressVars>>

PrimaryFails(p) ==
    /\ pass[p].pc = "primary" /\ att[p][1] = "error"
    /\ PassGoes(p, "failedEarly")
    /\ UNCHANGED <<input, wall, work, stage, outcome, round, att, stop, progressVars>>

PrimaryIsSlow(p) ==
    /\ pass[p].pc = "primary" /\ att[p][1] \notin Ended
    /\ PassGoes(p, "slow")
    /\ UNCHANGED <<input, wall, work, stage, outcome, round, att, stop, progressVars>>

\* A thread of the pool takes the attempt at once, if one is free.
AtWork(p) == {i \in Chain : att[p][i] \in {"calling", "http"}}
Submitted(p, i) ==
    IF Cardinality(AtWork(p)) + i - 2 < PoolSize THEN "calling" ELSE "queued"

\* The primary is waited for if it has not ended by now.
StillRunning(p) == {i \in {1} : pass[p].pc = "slow" /\ att[p][i] \notin Ended}

\* The fallbacks are submitted, those that have time left.
Launch(p) ==
    \E new \in {2..pass[p].chain} \cup (IF wall THEN {{}} ELSE {}) :
        LET futs == StillRunning(p) \cup new
        IN  /\ pass[p].pc \in {"slow", "failedEarly"}
            /\ pass' = [pass EXCEPT ![p].pc = IF futs = {} THEN "giveUp" ELSE "wait",
                                    ![p].waits = futs]
            /\ att' = [att EXCEPT ![p] = [i \in Chain |-> IF i \in new THEN Submitted(p, i) ELSE @[i]]]
            /\ UNCHANGED <<input, wall, work, stage, outcome, round, stop, progressVars>>

\* The first success wins, whatever has failed before.
HedgeWins(p) ==
    /\ pass[p].pc = "wait"
    /\ \E i \in pass[p].waits : att[p][i] = "ok"
    /\ EndCall(p, "won", TRUE)
    /\ UNCHANGED <<input, wall, work, stage, outcome, round, progressVars>>

HedgeLosesOne(p) ==
    \E i \in pass[p].waits :
        /\ pass[p].pc = "wait" /\ att[p][i] \in {"error", "cancelled"}
        /\ pass' = [pass EXCEPT ![p].waits = @ \ {i}]
        /\ UNCHANGED <<input, wall, work, stage, outcome, round, att, stop, progressVars>>

FirstCompleted(p) == \E i \in pass[p].waits \cup Launched(p) : att[p][i] = "error"
NobodyLeft(p) == pass[p].waits = {}
WaitsOn(p) == NobodyLeft(p)
WaitOver(p) == NobodyLeft(p) \/ wall

HedgeFails(p) ==
    /\ \/ pass[p].pc = "giveUp"
       \/ pass[p].pc = "wait" /\ WaitOver(p)
    /\ EndCall(p, "failed", FALSE)
    /\ UNCHANGED <<input, wall, work, stage, outcome, round, progressVars>>

(* call_chat_with_fallback: one slice per model, no cancel event *)

SliceWins(p) ==
    /\ pass[p].pc = "slice"
    /\ \E i \in pass[p].waits : att[p][i] = "ok"
    /\ pass' = [pass EXCEPT ![p].pc = "won", ![p].waits = {}]
    /\ UNCHANGED <<input, wall, work, stage, outcome, round, att, stop, progressVars>>

\* The model failed or its slice is over (a single model has the whole deadline):
\* the next one is asked, if there is one and there is time; the abandoned attempt
\* goes on.
SliceEnds(p) ==
    \E i \in pass[p].waits, more \in {TRUE} \cup (IF wall THEN {FALSE} ELSE {}) :
        LET next == i + 1
        IN  /\ pass[p].pc = "slice" /\ att[p][i] # "ok"
            /\ pass[p].chain = 1 => att[p][i] = "error" \/ wall
            /\ IF next <= pass[p].chain /\ more
               THEN /\ pass' = [pass EXCEPT ![p].waits = {next}]
                    /\ att' = [att EXCEPT ![p][next] = "calling"]
               ELSE /\ pass' = [pass EXCEPT ![p].pc = "failed", ![p].waits = {}]
                    /\ UNCHANGED att
            /\ UNCHANGED <<input, wall, work, stage, outcome, round, stop, progressVars>>

-----------------------------------------------------------------------------
(* An attempt: call_chat_with_fallback on one model, in a thread of its own *)

AttemptGoes(p, i, to) ==
    /\ att' = [att EXCEPT ![p][i] = to]
    /\ UNCHANGED <<input, wall, work, stage, outcome, round, pass, stop>>

BeginAttempt(p, i) ==
    /\ att[p][i] = "queued" /\ Cardinality(AtWork(p)) < PoolSize
    /\ AttemptGoes(p, i, "calling")
    /\ UNCHANGED progressVars

\* The endpoint and the token are there: Trying is published and the request sent.
SendRequest(p, i) ==
    /\ att[p][i] = "calling" /\ i \notin stop[p]
    /\ Publish(p, pass[p].cycle, Trying, pass[p].gate)
    /\ AttemptGoes(p, i, "http")

\* Text that is not empty.
Answer(p, i) ==
    /\ att[p][i] = "http"
    /\ AttemptGoes(p, i, "ok")
    /\ UNCHANGED progressVars

\* No endpoint, no token, no time, an HTTP error or an empty answer.
AttemptFails(p, i) ==
    /\ i \in AtWork(p)
    /\ AttemptGoes(p, i, "error")
    /\ UNCHANGED progressVars

\* The cancel event is seen before the request or while it is out: the lease is
\* released and the socket thread left behind.
SeesCancel(p, i) == i \in stop[p]

AttemptCancelled(p, i) ==
    /\ i \in AtWork(p) /\ SeesCancel(p, i)
    /\ AttemptGoes(p, i, "cancelled")
    /\ UNCHANGED progressVars

-----------------------------------------------------------------------------
(* The other writers of the line *)

\* Telemetry of the scheduler, at any time.
Tick(r) == \E force \in BOOLEAN : SetProgress(r, "telemetry", force) /\ UNCHANGED compileVars

\* The pipeline goes on after the compile: a milestone, a flush, a final status.
Milestone(r) == stage = "returned" /\ SetProgress(r, "milestone", TRUE) /\ UNCHANGED compileVars
Flush(r)     == stage = "returned" /\ FlushProgress(r) /\ UNCHANGED compileVars
Write(r)     == WriteProgress(r) /\ UNCHANGED compileVars
Finish       == stage = "returned" /\ ~terminal /\ JobEnds /\ UNCHANGED compileVars

-----------------------------------------------------------------------------

Init ==
    /\ input \in Inputs
    /\ ProgressInit
    /\ left = [r \in Reporters |-> input.reports]
    /\ wall = FALSE
    /\ work = [i \in 1..input.summaries |-> Summary(i)]
    /\ stage = "loop" /\ outcome = "none" /\ round = <<>>
    /\ pass = [p \in Passes |-> NewPass("idle", 0, {})]
    /\ att = [p \in Passes |-> [i \in Chain |-> "none"]]
    /\ stop = [p \in Passes |-> {}]

Coordinate(p) ==
    \/ StartPass(p) \/ StartsTooLate(p) \/ CompletePass(p)
    \/ PrimaryWins(p) \/ PrimaryFails(p) \/ PrimaryIsSlow(p) \/ Launch(p)
    \/ HedgeWins(p) \/ HedgeLosesOne(p) \/ HedgeFails(p)
    \/ SliceWins(p) \/ SliceEnds(p)

CompileStep == StartRound \/ StartFinal \/ OutOfTime \/ EndRound \/ EndCompile

Next ==
    \/ CompileStep \/ Deadline \/ Finish
    \/ \E p \in Passes :
          \/ Coordinate(p)
          \/ \E i \in Chain :
                \/ BeginAttempt(p, i) \/ SendRequest(p, i) \/ Answer(p, i)
                \/ AttemptFails(p, i) \/ AttemptCancelled(p, i)
    \/ \E r \in Reporters : Tick(r) \/ Milestone(r) \/ Flush(r) \/ Write(r)

Spec == Init /\ [][Next]_vars

\* Threads run and time passes; a request may hang for ever.
Fairness ==
    /\ WF_vars(CompileStep) /\ WF_vars(Deadline)
    /\ \A p \in Passes :
          /\ WF_vars(Coordinate(p))
          /\ \A i \in Chain : /\ WF_vars(BeginAttempt(p, i)) /\ WF_vars(SendRequest(p, i))
                              /\ WF_vars(AttemptCancelled(p, i))

FairSpec == Spec /\ Fairness

-----------------------------------------------------------------------------
(* Properties *)

Texts == [of : SUBSET (1..input.summaries), raw : BOOLEAN]
PassRecords == [pc : {"idle", "queued", "primary", "failedEarly", "slow", "wait", "giveUp",
                      "slice", "won"} \cup Over,
                cycle : Nat, gate : BOOLEAN, chain : 0..3, waits : SUBSET Chain,
                of : SUBSET (1..input.summaries)]

LineOK ==
    /\ entry \in [cycle : Nat, line : Lines]
    /\ {shown, saved, pending} \subseteq Lines
    /\ report \in [Reporters -> [how : {"none", "forced", "throttled", "flush"}, line : Lines]]
    /\ left \in [Reporters -> Nat]
    /\ terminal \in BOOLEAN

LevelOK ==
    /\ input \in Inputs
    /\ wall \in BOOLEAN
    /\ work \in Seq(Texts)
    /\ stage \in {"loop", "round", "final", "returned"}
    /\ outcome \in {"none", "compiled", "stitched"}
    /\ round \in Seq(Passes)

CallsOK ==
    /\ pass \in [Passes -> PassRecords]
    /\ att \in [Passes -> [Chain -> {"none", "queued", "calling", "http"} \cup Ended]]
    /\ stop \in [Passes -> SUBSET Chain]

\* Every variable holds a value of its kind.
HedgeTypeOK == LineOK /\ LevelOK /\ CallsOK

\* Rounds of concurrent batches, some of which fail, lose no summary and keep the
\* order: what a level covers, and what the final pass compiles, is everything.
NothingLost ==
    LET all == 1..input.summaries
    IN  /\ Covered(DOMAIN work) = all
        /\ \A i, j \in DOMAIN work : i < j =>
              \A x \in work[i].of, y \in work[j].of : x < y
        /\ stage = "final" => pass[round[1]].of = all

\* The gate only goes forward, whatever concurrent passes, hedged attempts and
\* losers still publish: to a newer cycle or a later phase of the same one, and once
\* a milestone has ended the last cycle nothing brings one back.
GateForward ==
    [][/\ entry # NoEntry /\ entry' # NoEntry =>
             \/ entry'.cycle > entry.cycle
             \/ entry'.cycle = entry.cycle /\ entry'.line.phase >= entry.line.phase
       /\ entry = NoEntry /\ stage = "returned" => entry' = NoEntry]_vars

\* "must keep waiting on pending futures, not ... convert a live success into"
\* a failure: before the deadline a hedged call fails only when no fallback succeeded.
LiveSuccessKept ==
    [][\A p \in Passes :
          pass[p].pc = "wait" /\ pass'[p].pc = "failed" /\ ~wall =>
              \A i \in 2..pass[p].chain : att[p][i] \in {"error", "cancelled"}]_vars

\* The compile returns although every request hangs.
CompileReturns == <>(stage = "returned")
=============================================================================
