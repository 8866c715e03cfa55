------------------------ MODULE HedgedCompileProofs ------------------------
(***************************************************************************)
(* Proofs about one compile: types, the order of its passes, what its        *)
(* batches cover, and the progress gate.                                     *)
(***************************************************************************)
EXTENDS HedgedCompile, TLAPS

-----------------------------------------------------------------------------
(* The progress line *)

\* The lines there are.
LEMMA LineFacts ==
    /\ NoEntry \in [cycle : Nat, line : Lines]
    /\ NoReport \in [how : {"none", "forced", "throttled", "flush"}, line : Lines]
    /\ Plain("none") \in Lines /\ Plain("telemetry") \in Lines /\ Plain("milestone") \in Lines
    /\ \A p \in Passes, phase \in Phases : Lifecycle(p, phase) \in Lines
    /\ \A l \in Lines : l.phase \in 0..3
<1>1. /\ Plain("none") \in Lines /\ Plain("telemetry") \in Lines /\ Plain("milestone") \in Lines
      /\ \A p \in Passes, phase \in Phases : Lifecycle(p, phase) \in Lines
  BY DEF Lines, PlainKinds
<1>2. \A l \in Lines : l.phase \in 0..3
  BY DEF Lines, PlainKinds, Plain, Lifecycle, Phases, Planning, Trying, Completed
<1> QED BY <1>1, <1>2 DEF NoEntry, NoReport

\* What is published is a line of its pass.
LEMMA PublishTypes ==
    ASSUME LineOK, NEW p \in Passes, NEW id \in Nat, NEW phase \in Phases, NEW sealed,
           Publish(p, id, phase, sealed)
    PROVE  LineOK'
<1>1. CASE Accepted(id, phase, sealed)
  <2>1. entry'.cycle \in Nat /\ entry' = [cycle |-> CycleOf(id, phase), line |-> Lifecycle(p, phase)]
    BY <1>1 DEF Publish, LineOK, CycleOf
  <2>2. /\ entry' \in [cycle : Nat, line : Lines]
        /\ {shown', saved', pending'} \subseteq Lines
    BY <1>1, <2>1, LineFacts DEF Publish, LineOK
  <2> QED BY <1>1, <2>2 DEF Publish, LineOK
<1>2. CASE ~Accepted(id, phase, sealed)
  BY <1>2 DEF Publish, LineOK, progressVars
<1> QED BY <1>1, <1>2

\* A reporter writes what it has resolved.
LEMMA ReportTypes ==
    ASSUME LineOK, NEW r \in Reporters,
           \/ \E force \in BOOLEAN : SetProgress(r, "telemetry", force)
           \/ SetProgress(r, "milestone", TRUE)
           \/ FlushProgress(r) \/ WriteProgress(r)
    PROVE  LineOK'
<1>1. \A l \in Lines : Resolved(l) \in Lines
  BY DEF Resolved, LineOK
<1>2. ASSUME NEW kind \in PlainKinds, NEW force \in BOOLEAN, SetProgress(r, kind, force)
      PROVE  LineOK'
  <2>1. Plain(kind) \in Lines
    BY LineFacts DEF PlainKinds
  <2> DEFINE x == [how |-> IF force THEN "forced" ELSE "throttled", line |-> Resolved(Plain(kind))]
  <2>2. x \in [how : {"none", "forced", "throttled", "flush"}, line : Lines]
    BY <1>1, <2>1
  <2>3. report' = [report EXCEPT ![r] = x] /\ left' = [left EXCEPT ![r] = @ - 1] /\ left[r] > 0
    BY <1>2 DEF SetProgress
  <2>4. entry' \in [cycle : Nat, line : Lines]
    BY <1>2, LineFacts DEF SetProgress, Resolve, LineOK
  <2> HIDE DEF x
  <2>5. report' \in [Reporters -> [how : {"none", "forced", "throttled", "flush"}, line : Lines]]
    BY <2>2, <2>3 DEF LineOK
  <2>6. left' \in [Reporters -> Nat]
    BY <2>3 DEF LineOK
  <2>7. {shown', saved', pending'} \subseteq Lines /\ terminal' \in BOOLEAN
    BY <1>2 DEF SetProgress, LineOK
  <2> QED BY <2>4, <2>5, <2>6, <2>7 DEF LineOK
<1>3. ASSUME FlushProgress(r) PROVE LineOK'
  <2> DEFINE x == [how |-> "flush", line |-> Resolved(pending)]
  <2>1. x \in [how : {"none", "forced", "throttled", "flush"}, line : Lines]
    BY <1>1 DEF LineOK
  <2>2. report' = [report EXCEPT ![r] = x] /\ left' = [left EXCEPT ![r] = @ - 1] /\ left[r] > 0
    BY <1>3 DEF FlushProgress
  <2>3. entry' \in [cycle : Nat, line : Lines]
    BY <1>3, LineFacts DEF FlushProgress, Resolve, LineOK
  <2> HIDE DEF x
  <2>4. report' \in [Reporters -> [how : {"none", "forced", "throttled", "flush"}, line : Lines]]
    BY <2>1, <2>2 DEF LineOK
  <2>5. left' \in [Reporters -> Nat]
    BY <2>2 DEF LineOK
  <2>6. {shown', saved', pending'} \subseteq Lines /\ terminal' \in BOOLEAN
    BY <1>3 DEF FlushProgress, LineOK
  <2> QED BY <2>3, <2>4, <2>5, <2>6 DEF LineOK
<1>4. ASSUME WriteProgress(r) PROVE LineOK'
  <2>1. report' = [report EXCEPT ![r] = NoReport] /\ UNCHANGED <<entry, left, terminal>>
    BY <1>4 DEF WriteProgress
  <2>2. report' \in [Reporters -> [how : {"none", "forced", "throttled", "flush"}, line : Lines]]
    BY <2>1, LineFacts DEF LineOK
  <2>3. report[r].line \in Lines
    BY DEF LineOK
  <2>4. {shown', saved', pending'} \subseteq Lines
    BY <1>4, <2>3 DEF WriteProgress, WriteCache, LineOK
  <2> QED BY <2>1, <2>2, <2>4 DEF LineOK
<1>5. "telemetry" \in PlainKinds /\ "milestone" \in PlainKinds
  BY DEF PlainKinds
<1> QED BY <1>2, <1>3, <1>4, <1>5

-----------------------------------------------------------------------------
(* The passes and their attempts *)

Settled(p) == pass[p].pc \in {"idle"} \cup Over

\* The fallbacks that a hedged call no longer waits for have failed.
Waited(p) ==
    pass[p].pc = "wait" /\ ~wall =>
        \A i \in (2..pass[p].chain) \ pass[p].waits : att[p][i] \in {"error", "cancelled"}

AttemptKinds == {"none", "queued", "calling", "http"} \cup Ended

\* The pass has these fields after the step, its attempts and cancel events these values.
Becomes(p, x, a, s) ==
    /\ pass' = [pass EXCEPT ![p] = x] /\ att' = [att EXCEPT ![p] = a]
    /\ stop' = [stop EXCEPT ![p] = s]
    /\ x \in PassRecords /\ a \in [Chain -> AttemptKinds] /\ s \in SUBSET Chain

\* A step of one pass: it keeps its inputs, ends once, and gives no fallback up that lives.
PassStep(p) ==
    /\ UNCHANGED <<input, wall, work, stage, outcome, round>>
    /\ \A q \in Passes \ {p} : pass'[q] = pass[q] /\ att'[q] = att[q]
    /\ pass'[p].of = pass[p].of /\ pass'[p].chain = pass[p].chain
    /\ pass'[p].pc # pass[p].pc => ~Settled(p) /\ pass'[p].pc # "idle"
    /\ Waited(p) => Waited(p)'
    /\ pass[p].pc = "wait" /\ pass'[p].pc = "failed" => wall \/ pass[p].waits = {}

LEMMA BecomesTypes ==
    ASSUME CallsOK, NEW p \in Passes, NEW x, NEW a, NEW s, Becomes(p, x, a, s), UNCHANGED input
    PROVE  /\ CallsOK'
           /\ pass'[p] = x /\ att'[p] = a /\ stop'[p] = s
           /\ \A q \in Passes \ {p} : pass'[q] = pass[q] /\ att'[q] = att[q]
<1>1. pass \in [Passes -> PassRecords] /\ att \in [Passes -> [Chain -> AttemptKinds]]
      /\ stop \in [Passes -> SUBSET Chain]
  BY DEF CallsOK, AttemptKinds
<1>2. PassRecords' = PassRecords
  BY DEF PassRecords
<1>3. /\ pass' \in [Passes -> PassRecords] /\ att' \in [Passes -> [Chain -> AttemptKinds]]
      /\ stop' \in [Passes -> SUBSET Chain]
  BY <1>1 DEF Becomes
<1>4. CallsOK'
  BY <1>2, <1>3 DEF CallsOK, AttemptKinds
<1> QED BY <1>1, <1>4 DEF Becomes

LEMMA StepOfPass ==
    ASSUME CallsOK, NEW p \in Passes, NEW x, NEW a, NEW s, Becomes(p, x, a, s),
           UNCHANGED <<input, wall, work, stage, outcome, round>>,
           x.of = pass[p].of, x.chain = pass[p].chain,
           x.pc # pass[p].pc => ~Settled(p) /\ x.pc # "idle",
           Waited(p) /\ x.pc = "wait" /\ ~wall =>
              \A i \in (2..x.chain) \ x.waits : a[i] \in {"error", "cancelled"},
           pass[p].pc = "wait" /\ x.pc = "failed" => wall \/ pass[p].waits = {}
    PROVE  CallsOK' /\ PassStep(p)
<1>1. /\ CallsOK'
      /\ pass'[p] = x /\ att'[p] = a
      /\ \A q \in Passes \ {p} : pass'[q] = pass[q] /\ att'[q] = att[q]
  BY BecomesTypes
<1>2. Waited(p) => Waited(p)'
  BY <1>1 DEF Waited
<1> QED BY <1>1, <1>2 DEF PassStep

\* A pass that only moves on.
LEMMA StepGoes ==
    ASSUME CallsOK, NEW p \in Passes,
           NEW pc \in {"primary", "failedEarly", "slow", "giveUp", "slice", "won"} \cup Over,
           PassGoes(p, pc), pass[p].pc # "wait", ~Settled(p),
           UNCHANGED <<input, wall, work, stage, outcome, round, att, stop>>
    PROVE  CallsOK' /\ PassStep(p)
<1> DEFINE x == [pass[p] EXCEPT !.pc = pc]
<1>1. /\ pass[p] \in PassRecords /\ att[p] \in [Chain -> AttemptKinds] /\ stop[p] \in SUBSET Chain
  BY DEF CallsOK, AttemptKinds
<1>2. /\ x \in PassRecords
      /\ x.pc = pc /\ x.of = pass[p].of /\ x.chain = pass[p].chain
  BY <1>1 DEF PassRecords, Over
<1>3. pass' = [pass EXCEPT ![p] = x]
  BY DEF PassGoes
<1>4. att' = [att EXCEPT ![p] = att[p]] /\ stop' = [stop EXCEPT ![p] = stop[p]]
  BY DEF CallsOK
<1> HIDE DEF x
<1>5. Becomes(p, x, att[p], stop[p])
  BY <1>1, <1>2, <1>3, <1>4 DEF Becomes
<1> QED BY <1>2, <1>5, StepOfPass DEF Over

\* A call that ends sets every cancel event.
LEMMA StepEnds ==
    ASSUME CallsOK, NEW p \in Passes, NEW pc \in {"won", "failed"}, NEW gate \in BOOLEAN,
           EndCall(p, pc, gate), ~Settled(p),
           pc = "failed" => (pass[p].pc = "wait" => wall \/ pass[p].waits = {}),
           UNCHANGED <<input, wall, work, stage, outcome, round>>
    PROVE  CallsOK' /\ PassStep(p)
<1> DEFINE x == [pass[p] EXCEPT !.pc = pc, !.gate = @ \/ gate, !.waits = {}]
           a == [i \in Chain |-> IF att[p][i] = "queued" THEN "cancelled" ELSE att[p][i]]
<1>1. /\ pass[p] \in PassRecords /\ att[p] \in [Chain -> AttemptKinds]
  BY DEF CallsOK, AttemptKinds
<1>2. /\ x \in PassRecords
      /\ x.pc = pc /\ x.of = pass[p].of /\ x.chain = pass[p].chain
  BY <1>1 DEF PassRecords, Over
<1>3. pass' = [pass EXCEPT ![p] = x] /\ stop' = [stop EXCEPT ![p] = Launched(p)]
  BY DEF EndCall
<1>4. att' = [att EXCEPT ![p] = a]
  BY DEF EndCall, DropQueued
<1>5. a \in [Chain -> AttemptKinds] /\ Launched(p) \in SUBSET Chain
  BY <1>1 DEF AttemptKinds, Ended, Launched
<1> HIDE DEF x, a
<1>6. Becomes(p, x, a, Launched(p))
  BY <1>2, <1>3, <1>4, <1>5 DEF Becomes
<1> QED BY <1>2, <1>6, StepOfPass DEF Over

\* An attempt that goes on does not come back once it has failed.
LEMMA StepAttempt ==
    ASSUME CallsOK, NEW p \in Passes, NEW i \in Chain, NEW to \in AttemptKinds,
           AttemptGoes(p, i, to), att[p][i] \notin {"error", "cancelled"}
    PROVE  CallsOK' /\ PassStep(p)
<1> DEFINE a == [att[p] EXCEPT ![i] = to]
<1>1. /\ pass[p] \in PassRecords /\ att[p] \in [Chain -> AttemptKinds] /\ stop[p] \in SUBSET Chain
  BY DEF CallsOK, AttemptKinds
<1>2. a \in [Chain -> AttemptKinds] /\ \A k \in Chain \ {i} : a[k] = att[p][k]
  BY <1>1
<1>3. att' = [att EXCEPT ![p] = a]
  BY DEF AttemptGoes
<1>4. pass' = [pass EXCEPT ![p] = pass[p]] /\ stop' = [stop EXCEPT ![p] = stop[p]]
  BY DEF AttemptGoes, CallsOK
<1> HIDE DEF a
<1>5. Becomes(p, pass[p], a, stop[p])
  BY <1>1, <1>2, <1>3, <1>4 DEF Becomes
<1>6. ASSUME Waited(p), pass[p].pc = "wait", ~wall, NEW k \in (2..pass[p].chain) \ pass[p].waits
      PROVE  a[k] \in {"error", "cancelled"}
  <2>1. att[p][k] \in {"error", "cancelled"}
    BY <1>6 DEF Waited
  <2>2. k \in Chain
    BY <1>1, <1>6 DEF PassRecords, Chain
  <2> QED BY <1>2, <2>1, <2>2
<1> QED BY <1>5, <1>6, StepOfPass DEF AttemptGoes

\* The fallbacks are launched: all of them, or none for want of time.
LEMMA StepLaunch ==
    ASSUME CallsOK, NEW p \in Passes, Launch(p)
    PROVE  CallsOK' /\ PassStep(p)
<1>1. /\ pass[p] \in PassRecords /\ att[p] \in [Chain -> AttemptKinds] /\ stop[p] \in SUBSET Chain
  BY DEF CallsOK, AttemptKinds
<1>2. PICK new \in {2..pass[p].chain} \cup (IF wall THEN {{}} ELSE {}) :
        LET futs == StillRunning(p) \cup new
        IN  /\ pass[p].pc \in {"slow", "failedEarly"}
            /\ pass' = [pass EXCEPT ![p].pc = IF futs = {} THEN "giveUp" ELSE "wait",
                                    ![p].waits = futs]
            /\ att' = [att EXCEPT ![p] = [i \in Chain |-> IF i \in new THEN Submitted(p, i) ELSE @[i]]]
            /\ UNCHANGED <<input, wall, work, stage, outcome, round, stop, progressVars>>
  BY DEF Launch
<1> DEFINE futs == StillRunning(p) \cup new
           x == [pass[p] EXCEPT !.pc = IF futs = {} THEN "giveUp" ELSE "wait", !.waits = futs]
           a == [i \in Chain |-> IF i \in new THEN Submitted(p, i) ELSE att[p][i]]
<1>3. futs \in SUBSET Chain
  BY <1>1, <1>2 DEF StillRunning, Chain, PassRecords
<1>4. /\ x \in PassRecords
      /\ x.pc \in {"giveUp", "wait"} /\ x.waits = futs
      /\ x.of = pass[p].of /\ x.chain = pass[p].chain
  BY <1>1, <1>3 DEF PassRecords
<1>5. a \in [Chain -> AttemptKinds]
  BY <1>1 DEF Submitted, AttemptKinds
<1>6. x.waits = futs /\ ~wall => (2..pass[p].chain) \ x.waits = {}
  BY <1>2
<1>7. /\ pass' = [pass EXCEPT ![p] = x] /\ att' = [att EXCEPT ![p] = a]
      /\ stop' = [stop EXCEPT ![p] = stop[p]]
  BY <1>2 DEF CallsOK
<1>8. /\ UNCHANGED <<input, wall, work, stage, outcome, round>>
      /\ pass[p].pc \in {"slow", "failedEarly"}
  BY <1>2
<1> HIDE DEF x, a
<1>9. Becomes(p, x, a, stop[p])
  BY <1>1, <1>4, <1>5, <1>7 DEF Becomes
<1>10. Waited(p) /\ x.pc = "wait" /\ ~wall =>
         \A i \in (2..x.chain) \ x.waits : a[i] \in {"error", "cancelled"}
  BY <1>4, <1>6
<1>11. x.pc # pass[p].pc => ~Settled(p) /\ x.pc # "idle"
  BY <1>4, <1>8 DEF Settled, Over
<1>12. pass[p].pc = "wait" /\ x.pc = "failed" => wall \/ pass[p].waits = {}
  BY <1>4
<1> HIDE DEF futs
<1> QED BY <1>4, <1>8, <1>9, <1>10, <1>11, <1>12, StepOfPass

\* A fallback that has failed is no longer waited for.
LEMMA StepLosesOne ==
    ASSUME CallsOK, NEW p \in Passes, HedgeLosesOne(p)
    PROVE  CallsOK' /\ PassStep(p)
<1>1. /\ pass[p] \in PassRecords /\ att[p] \in [Chain -> AttemptKinds] /\ stop[p] \in SUBSET Chain
  BY DEF CallsOK, AttemptKinds
<1>2. PICK i \in pass[p].waits :
        /\ pass[p].pc = "wait" /\ att[p][i] \in {"error", "cancelled"}
        /\ pass' = [pass EXCEPT ![p].waits = @ \ {i}]
        /\ UNCHANGED <<input, wall, work, stage, outcome, round, att, stop, progressVars>>
  BY DEF HedgeLosesOne
<1> DEFINE x == [pass[p] EXCEPT !.waits = @ \ {i}]
<1>3. /\ x \in PassRecords
      /\ x.pc = pass[p].pc /\ x.waits = pass[p].waits \ {i}
      /\ x.of = pass[p].of /\ x.chain = pass[p].chain
  BY <1>1 DEF PassRecords
<1>4. /\ pass' = [pass EXCEPT ![p] = x] /\ att' = [att EXCEPT ![p] = att[p]]
      /\ stop' = [stop EXCEPT ![p] = stop[p]]
  BY <1>2 DEF CallsOK
<1> HIDE DEF x
<1>5. Becomes(p, x, att[p], stop[p])
  BY <1>1, <1>3, <1>4 DEF Becomes
<1>6. Waited(p) /\ ~wall => \A k \in (2..x.chain) \ x.waits : att[p][k] \in {"error", "cancelled"}
  BY <1>2, <1>3 DEF Waited
<1> QED BY <1>2, <1>3, <1>5, <1>6, StepOfPass

\* The primary of a pass that starts, and a slice that ends.
LEMMA StepStart ==
    ASSUME CallsOK, LineOK', NEW p \in Passes, StartPass(p)
    PROVE  CallsOK' /\ PassStep(p)
<1> DEFINE x == [pass[p] EXCEPT !.pc = IF input.hedged /\ pass[p].chain >= 2
                                       THEN "primary" ELSE "slice",
                                !.cycle = entry'.cycle, !.waits = {1}]
           a == [att[p] EXCEPT ![1] = "calling"]
<1>1. /\ pass[p] \in PassRecords /\ att[p] \in [Chain -> AttemptKinds] /\ stop[p] \in SUBSET Chain
      /\ pass[p].pc = "queued"
  BY DEF CallsOK, AttemptKinds, StartPass
<1>2. entry'.cycle \in Nat /\ {1} \in SUBSET Chain
  BY DEF LineOK, Chain
<1>3. /\ x \in PassRecords
      /\ x.pc \in {"primary", "slice"} /\ x.of = pass[p].of /\ x.chain = pass[p].chain
  BY <1>1, <1>2 DEF PassRecords
<1>4. a \in [Chain -> AttemptKinds]
  BY <1>1 DEF AttemptKinds
<1>5. /\ pass' = [pass EXCEPT ![p] = x] /\ att' = [att EXCEPT ![p] = a]
      /\ stop' = [stop EXCEPT ![p] = stop[p]]
      /\ UNCHANGED <<input, wall, work, stage, outcome, round>>
  BY DEF StartPass, CallsOK
<1> HIDE DEF x, a
<1>6. Becomes(p, x, a, stop[p])
  BY <1>1, <1>3, <1>4, <1>5 DEF Becomes
<1> QED BY <1>1, <1>3, <1>5, <1>6, StepOfPass DEF Settled, Over

LEMMA StepSlice ==
    ASSUME CallsOK, NEW p \in Passes, SliceEnds(p) \/ SliceWins(p)
    PROVE  CallsOK' /\ PassStep(p)
<1>1. /\ pass[p] \in PassRecords /\ att[p] \in [Chain -> AttemptKinds] /\ stop[p] \in SUBSET Chain
      /\ pass[p].pc = "slice" /\ UNCHANGED <<input, wall, work, stage, outcome, round>>
      /\ stop' = [stop EXCEPT ![p] = stop[p]]
  BY DEF CallsOK, AttemptKinds, SliceEnds, SliceWins
<1>2. ASSUME NEW pc \in {"slice", "won", "failed"}, NEW waits \in SUBSET Chain,
             NEW a \in [Chain -> AttemptKinds],
             pass' = [pass EXCEPT ![p] = [pass[p] EXCEPT !.pc = pc, !.waits = waits]],
             att' = [att EXCEPT ![p] = a]
      PROVE  CallsOK' /\ PassStep(p)
  <2> DEFINE x == [pass[p] EXCEPT !.pc = pc, !.waits = waits]
  <2>1. /\ x \in PassRecords
        /\ x.pc = pc /\ x.of = pass[p].of /\ x.chain = pass[p].chain
    BY <1>1 DEF PassRecords, Over
  <2>2. pass' = [pass EXCEPT ![p] = x]
    BY <1>2
  <2> HIDE DEF x
  <2>3. Becomes(p, x, a, stop[p])
    BY <1>1, <1>2, <2>1, <2>2 DEF Becomes
  <2> QED BY <1>1, <2>1, <2>3, StepOfPass DEF Settled, Over
<1>3. ASSUME SliceWins(p) PROVE CallsOK' /\ PassStep(p)
  <2>1. /\ pass' = [pass EXCEPT ![p] = [pass[p] EXCEPT !.pc = "won", !.waits = {}]]
        /\ att' = [att EXCEPT ![p] = att[p]]
    BY <1>3 DEF SliceWins, CallsOK
  <2> QED BY <1>1, <1>2, <2>1
<1>4. ASSUME SliceEnds(p) PROVE CallsOK' /\ PassStep(p)
  <2>1. PICK i \in pass[p].waits, more \in BOOLEAN :
          IF i + 1 <= pass[p].chain /\ more
          THEN /\ pass' = [pass EXCEPT ![p].waits = {i + 1}]
               /\ att' = [att EXCEPT ![p][i + 1] = "calling"]
          ELSE /\ pass' = [pass EXCEPT ![p].pc = "failed", ![p].waits = {}]
               /\ UNCHANGED att
    BY <1>4 DEF SliceEnds
  <2>2. CASE i + 1 <= pass[p].chain /\ more
    <3>1. i + 1 \in Chain
      BY <1>1, <2>2 DEF PassRecords, Chain
    <3>2. /\ pass' = [pass EXCEPT ![p] = [pass[p] EXCEPT !.pc = "slice", !.waits = {i + 1}]]
          /\ att' = [att EXCEPT ![p] = [att[p] EXCEPT ![i + 1] = "calling"]]
      <4>1. pass[p] = [pass[p] EXCEPT !.pc = "slice"]
        BY <1>1 DEF PassRecords
      <4> QED BY <2>1, <2>2, <1>1, <4>1 DEF CallsOK, PassRecords
    <3>3. [att[p] EXCEPT ![i + 1] = "calling"] \in [Chain -> AttemptKinds]
      BY <1>1 DEF AttemptKinds
    <3> QED BY <1>2, <3>1, <3>2, <3>3
  <2>3. CASE ~(i + 1 <= pass[p].chain /\ more)
    <3>1. /\ pass' = [pass EXCEPT ![p] = [pass[p] EXCEPT !.pc = "failed", !.waits = {}]]
          /\ att' = [att EXCEPT ![p] = att[p]]
      BY <2>1, <2>3 DEF CallsOK
    <3> QED BY <1>1, <1>2, <3>1
  <2> QED BY <2>2, <2>3
<1> QED BY <1>3, <1>4

AttemptStep(p, i) ==
    \/ BeginAttempt(p, i) \/ SendRequest(p, i) \/ Answer(p, i)
    \/ AttemptFails(p, i) \/ AttemptCancelled(p, i)

\* What a pass or one of its attempts does keeps the types of the line ...
LEMMA CallLines ==
    ASSUME HedgeTypeOK, NEW p \in Passes,
           Coordinate(p) \/ \E i \in Chain : AttemptStep(p, i)
    PROVE  LineOK'
<1>1. pass[p].cycle \in Nat /\ 0 \in Nat /\ Planning \in Phases /\ Trying \in Phases
      /\ Completed \in Phases
  BY DEF HedgeTypeOK, CallsOK, PassRecords, Phases
<1>2. LineOK /\ UNCHANGED progressVars => LineOK'
  BY DEF LineOK, progressVars
<1>3. ASSUME StartPass(p) PROVE LineOK'
  <2>1. Publish(p, 0, Planning, FALSE)
    BY <1>3 DEF StartPass
  <2> QED BY <1>1, <2>1, PublishTypes DEF HedgeTypeOK
<1>4. ASSUME CompletePass(p) PROVE LineOK'
  <2>1. Publish(p, pass[p].cycle, Completed, pass[p].gate)
    BY <1>4 DEF CompletePass
  <2> QED BY <1>1, <2>1, PublishTypes DEF HedgeTypeOK
<1>5. ASSUME NEW i \in Chain, SendRequest(p, i) PROVE LineOK'
  <2>1. Publish(p, pass[p].cycle, Trying, pass[p].gate)
    BY <1>5 DEF SendRequest
  <2> QED BY <1>1, <2>1, PublishTypes DEF HedgeTypeOK
<1>6. CASE UNCHANGED progressVars
  BY <1>2, <1>6 DEF HedgeTypeOK
<1> QED
  BY <1>3, <1>4, <1>5, <1>6
     DEF Coordinate, AttemptStep, StartsTooLate, PrimaryWins, PrimaryFails, PrimaryIsSlow, Launch,
         HedgeWins, HedgeLosesOne, HedgeFails, SliceWins, SliceEnds, BeginAttempt, Answer,
         AttemptFails, AttemptCancelled

\* ... and those of the calls, and is a step of the pass.
LEMMA CallStep ==
    ASSUME HedgeTypeOK, NEW p \in Passes,
           Coordinate(p) \/ \E i \in Chain : AttemptStep(p, i)
    PROVE  CallsOK' /\ PassStep(p)
<1>1. CallsOK /\ LineOK'
  BY CallLines DEF HedgeTypeOK
<1>2. ASSUME StartPass(p) PROVE CallsOK' /\ PassStep(p)
  BY <1>1, <1>2, StepStart
<1>3. ASSUME StartsTooLate(p) PROVE CallsOK' /\ PassStep(p)
  <2>1. "failed" \in {"primary", "failedEarly", "slow", "giveUp", "slice", "won"} \cup Over
    BY DEF Over
  <2> QED BY <1>1, <1>3, <2>1, StepGoes DEF StartsTooLate, Settled, Over
<1>4. ASSUME CompletePass(p) PROVE CallsOK' /\ PassStep(p)
  <2> DEFINE x == [pass[p] EXCEPT !.pc = "compiled",
                                  !.gate = @ \/ Accepted(pass[p].cycle, Completed, @)]
  <2>1. /\ pass[p] \in PassRecords /\ att[p] \in [Chain -> AttemptKinds] /\ stop[p] \in SUBSET Chain
        /\ pass[p].pc = "won"
    BY <1>1, <1>4 DEF CallsOK, AttemptKinds, CompletePass
  <2>2. (pass[p].gate \/ Accepted(pass[p].cycle, Completed, pass[p].gate)) \in BOOLEAN
    OBVIOUS
  <2>3. /\ x \in PassRecords
        /\ x.pc = "compiled" /\ x.of = pass[p].of /\ x.chain = pass[p].chain
    BY <2>1, <2>2 DEF PassRecords, Over
  <2>4. /\ pass' = [pass EXCEPT ![p] = x] /\ att' = [att EXCEPT ![p] = att[p]]
        /\ stop' = [stop EXCEPT ![p] = stop[p]]
        /\ UNCHANGED <<input, wall, work, stage, outcome, round>>
    BY <1>1, <1>4 DEF CompletePass, CallsOK
  <2> HIDE DEF x
  <2>5. Becomes(p, x, att[p], stop[p])
    BY <2>1, <2>3, <2>4 DEF Becomes
  <2> QED BY <1>1, <2>1, <2>3, <2>4, <2>5, StepOfPass DEF Settled, Over
<1>5. ASSUME PrimaryWins(p) PROVE CallsOK' /\ PassStep(p)
  BY <1>1, <1>5, StepEnds DEF PrimaryWins, Settled, Over
<1>6. ASSUME PrimaryFails(p) PROVE CallsOK' /\ PassStep(p)
  BY <1>1, <1>6, StepGoes DEF PrimaryFails, Settled, Over
<1>7. ASSUME PrimaryIsSlow(p) PROVE CallsOK' /\ PassStep(p)
  BY <1>1, <1>7, StepGoes DEF PrimaryIsSlow, Settled, Over
<1>8. ASSUME HedgeWins(p) PROVE CallsOK' /\ PassStep(p)
  BY <1>1, <1>8, StepEnds DEF HedgeWins, Settled, Over
<1>9. ASSUME HedgeFails(p) PROVE CallsOK' /\ PassStep(p)
  BY <1>1, <1>9, StepEnds DEF HedgeFails, WaitOver, NobodyLeft, Settled, Over
<1>10. ASSUME NEW i \in Chain, AttemptStep(p, i) PROVE CallsOK' /\ PassStep(p)
  <2>1. PICK to \in {"calling", "http", "ok", "error", "cancelled"} : AttemptGoes(p, i, to)
    BY <1>10 DEF AttemptStep, BeginAttempt, SendRequest, Answer, AttemptFails, AttemptCancelled
  <2>2. att[p][i] \in {"queued", "calling", "http"}
    BY <1>10 DEF AttemptStep, BeginAttempt, SendRequest, Answer, AttemptFails, AttemptCancelled, AtWork
  <2>3. to \in AttemptKinds
    BY DEF AttemptKinds, Ended
  <2> QED BY <1>1, <2>1, <2>2, <2>3, StepAttempt
<1> QED BY <1>1, <1>2, <1>3, <1>4, <1>5, <1>6, <1>7, <1>8, <1>9, <1>10,
           StepLaunch, StepLosesOne, StepSlice DEF Coordinate

-----------------------------------------------------------------------------
(* The levels of the compile *)

\* What a queue of passes does: they are new, in order, and each has its input.
LEMMA QueueSteps ==
    ASSUME HedgeTypeOK, NEW chain \in 1..3, NEW inputs \in Seq(SUBSET (1..input.summaries)),
           Queue(chain, inputs), UNCHANGED <<input, att, stop>>
    PROVE  /\ CallsOK' /\ round' \in Seq(Passes) /\ Len(round') = Len(inputs)
           /\ \A b \in 1..Len(inputs) : pass'[round'[b]].of = inputs[b]
           /\ \A p \in Passes \ Range(round') : pass'[p] = pass[p]
           /\ \A p \in Passes : pass'[p].pc = pass[p].pc \/ pass'[p].pc = "queued"
<1>1. PICK first \in Passes :
        LET new == first .. first + Len(inputs) - 1
        IN  /\ \A p \in Passes : pass[p].pc = "idle" <=> p >= first
            /\ new \subseteq Passes
            /\ round' = [b \in 1..Len(inputs) |-> first + b - 1]
            /\ pass' = [p \in Passes |->
                  IF p \in new
                  THEN NewPass("queued", chain, inputs[p - first + 1])
                  ELSE pass[p]]
  BY DEF Queue
<1> DEFINE new == first .. first + Len(inputs) - 1
<1>2. first \in Nat /\ Len(inputs) \in Nat
  BY ProgressAssumption
<1>3. \A b \in 1..Len(inputs) : first + b - 1 \in new /\ (first + b - 1) - first + 1 = b
  BY <1>2
<1>4. \A p \in new : p - first + 1 \in 1..Len(inputs) /\ p = first + (p - first + 1) - 1
  BY <1>2
<1>5. \A p \in new : NewPass("queued", chain, inputs[p - first + 1])
                        \in PassRecords
  <2>1. \A of \in SUBSET (1..input.summaries) : NewPass("queued", chain, of) \in PassRecords
    BY DEF NewPass, PassRecords
  <2>2. \A p \in new : inputs[p - first + 1] \in SUBSET (1..input.summaries)
    BY <1>4
  <2> HIDE DEF new
  <2> QED BY <2>1, <2>2
<1>6. new \subseteq Passes
  BY <1>1
<1>7. round' \in Seq(Passes) /\ Len(round') = Len(inputs)
      /\ \A b \in 1..Len(inputs) : round'[b] = first + b - 1
  <2>1. round' = [b \in 1..Len(inputs) |-> first + b - 1]
    BY <1>1
  <2>2. \A b \in 1..Len(inputs) : first + b - 1 \in Passes
    BY <1>3, <1>6
  <2> HIDE DEF new
  <2> QED BY <1>2, <2>1, <2>2
<1>8. \A p \in Passes : IF p \in new
                        THEN pass'[p] = NewPass("queued", chain, inputs[p - first + 1])
                        ELSE pass'[p] = pass[p]
  BY <1>1
<1>9. pass' \in [Passes -> PassRecords]
  <2>1. \A p \in Passes : pass'[p] \in PassRecords
    BY <1>5, <1>8 DEF HedgeTypeOK, CallsOK
  <2>2. pass' = [p \in Passes |-> pass'[p]]
    BY <1>1
  <2> QED BY <2>1, <2>2
<1>10. CallsOK'
  BY <1>9 DEF HedgeTypeOK, CallsOK, PassRecords
<1> HIDE DEF new
<1>11. \A b \in 1..Len(inputs) : pass'[round'[b]].of = inputs[b]
  <2> SUFFICES ASSUME NEW b \in 1..Len(inputs) PROVE pass'[round'[b]].of = inputs[b]
    OBVIOUS
  <2> DEFINE p == first + b - 1
  <2>1. p \in new /\ p \in Passes /\ round'[b] = p /\ p - first + 1 = b
    BY <1>3, <1>6, <1>7
  <2> HIDE DEF p
  <2>2. pass'[p] = NewPass("queued", chain, inputs[p - first + 1])
    BY <1>8, <2>1
  <2> QED BY <2>1, <2>2 DEF NewPass
<1>12. \A p \in Passes \ Range(round') : pass'[p] = pass[p]
  <2>1. ASSUME NEW p \in new PROVE p \in Range(round')
    <3>1. DOMAIN round' = 1..Len(inputs)
      BY <1>1
    <3>2. p - first + 1 \in DOMAIN round' /\ round'[p - first + 1] = p
      BY <1>4, <1>7, <3>1, <2>1
    <3> QED BY <3>2 DEF Range
  <2> QED BY <1>8, <2>1
<1>13. \A p \in Passes : pass'[p].pc = pass[p].pc \/ pass'[p].pc = "queued"
  <2>1. \A of : NewPass("queued", chain, of).pc = "queued"
    BY DEF NewPass
  <2> QED BY <1>8, <2>1
<1> QED BY <1>7, <1>10, <1>11, <1>12, <1>13

\* Division by the batch size goes up with what is divided.
LEMMA DivisionGrows ==
    ASSUME NEW k \in Nat \ {0}, NEW x \in Nat, NEW y \in Nat, x <= y
    PROVE  x \div k \in Nat /\ x \div k <= y \div k
<1> DEFINE d == x \div k
           e == y \div k
<1>1. d \in Nat /\ e \in Nat /\ k * d <= x /\ y < k * (e + 1)
  OBVIOUS
<1> HIDE DEF d, e
<1>2. k * d < k * (e + 1)
  BY <1>1
<1>3. CASE d >= e + 1
  <2>1. PICK m \in Nat : d = e + 1 + m
    BY <1>1, <1>3
  <2>2. k * d = k * (e + 1) + k * m /\ k * m >= 0
    BY <1>1, <2>1
  <2>3. k * d \in Int /\ k * (e + 1) \in Int /\ k * m \in Int
    BY <1>1, <2>1
  <2> QED BY <1>2, <2>2, <2>3
<1>4. d <= e
  BY <1>1, <1>3
<1> QED BY <1>1, <1>4 DEF d, e

\* One batch more is one more.
LEMMA DivisionSteps ==
    ASSUME NEW k \in Nat \ {0}, NEW x \in Nat
    PROVE  (x + k) \div k = x \div k + 1
<1> DEFINE d == x \div k
           e == (x + k) \div k
<1>1. d \in Nat /\ k * d <= x /\ x < k * (d + 1)
  OBVIOUS
<1>2. x + k \in Nat
  OBVIOUS
<1>3. e \in Nat /\ k * e <= x + k /\ x + k < k * (e + 1)
  BY <1>2
<1> HIDE DEF d, e
<1>4. \A m \in Nat : k * (m + 1) = k * m + k /\ k * m \in Nat
  OBVIOUS
<1>5. CASE e <= d
  <2>1. PICK m \in Nat : d = e + m
    BY <1>1, <1>3, <1>5
  <2>2. k * d = k * e + k * m /\ k * m \in Nat
    BY <2>1, <1>3
  <2> QED BY <1>1, <1>3, <1>4, <2>2
<1>6. CASE e >= d + 2
  <2>1. PICK m \in Nat : e = (d + 1) + 1 + m
    BY <1>1, <1>3, <1>6
  <2>2. k * e = k * ((d + 1) + 1) + k * m /\ k * m \in Nat
    BY <2>1, <1>1
  <2>3. k * ((d + 1) + 1) = k * (d + 1) + k /\ k * (d + 1) \in Nat
    BY <1>1, <1>4
  <2> QED BY <1>1, <1>3, <2>2, <2>3
<1>7. e = d + 1
  BY <1>1, <1>3, <1>5, <1>6
<1> QED BY <1>7 DEF d, e

\* The batches hold every text of the level, and are in its order.
LEMMA BatchesOfLevel ==
    ASSUME LevelOK
    PROVE  /\ BatchCount \in Nat
           /\ \A i \in DOMAIN work : \E b \in 1..BatchCount : i \in Batch(b)
           /\ \A b, c \in 1..BatchCount : b < c =>
                 \A i \in Batch(b), j \in Batch(c) : i < j
<1>1. /\ BatchSize \in Nat \ {0} /\ Len(work) \in Nat /\ DOMAIN work = 1..Len(work)
      /\ Len(work) + BatchSize - 1 \in Nat
  BY HedgedAssumption DEF LevelOK
<1>2. BatchCount \in Nat
  BY <1>1, DivisionGrows DEF BatchCount
<1>3. ASSUME NEW i \in DOMAIN work PROVE \E b \in 1..BatchCount : i \in Batch(b)
  <2>1. i - 1 \in Nat /\ (i - 1) + BatchSize \in Nat
        /\ (i - 1) + BatchSize <= Len(work) + BatchSize - 1
    BY <1>1
  <2>2. (i - 1) \div BatchSize \in Nat
    <3>1. i - 1 <= i - 1
      BY <2>1
    <3> QED BY <1>1, <2>1, <3>1, DivisionGrows
  <2>3. ((i - 1) + BatchSize) \div BatchSize <= BatchCount
    BY <1>1, <2>1, DivisionGrows DEF BatchCount
  <2>4. ((i - 1) + BatchSize) \div BatchSize = (i - 1) \div BatchSize + 1
    BY <1>1, <2>1, DivisionSteps
  <2> DEFINE d == (i - 1) \div BatchSize
  <2>5. d \in Nat /\ d + 1 <= BatchCount
    BY <2>2, <2>3, <2>4
  <2>6. i \in Batch(d + 1)
    BY <2>2 DEF Batch
  <2> HIDE DEF d
  <2> QED BY <1>2, <2>5, <2>6
<1>4. ASSUME NEW b \in 1..BatchCount, NEW c \in 1..BatchCount, b < c,
             NEW i \in Batch(b), NEW j \in Batch(c)
      PROVE  i < j
  <2>1. /\ i \in 1..Len(work) /\ j \in 1..Len(work)
        /\ (i - 1) \div BatchSize = b - 1 /\ (j - 1) \div BatchSize = c - 1
    BY <1>1 DEF Batch
  <2>2. i - 1 \in Nat /\ j - 1 \in Nat
    BY <2>1
  <2>3. j - 1 <= i - 1 => (j - 1) \div BatchSize <= (i - 1) \div BatchSize
    BY <1>1, <2>2, DivisionGrows
  <2>4. j <= i => c - 1 <= b - 1
    BY <2>1, <2>2, <2>3
  <2> QED BY <1>2, <1>4, <2>1, <2>4
<1> QED BY <1>2, <1>3, <1>4

-----------------------------------------------------------------------------
(* Types *)

LEMMA InitTypes == Init => HedgeTypeOK
<1> SUFFICES ASSUME Init PROVE HedgeTypeOK
  OBVIOUS
<1>1. input.summaries \in Nat \ {0} /\ input.reports \in Nat /\ input \in Inputs
  BY HedgedAssumption DEF Init
<1>2. LineOK
  BY <1>1, LineFacts DEF Init, ProgressInit, LineOK
<1>3. LevelOK
  <2>1. \A i \in 1..input.summaries : Summary(i) \in Texts
    BY DEF Summary, Texts
  <2>2. work \in Seq(Texts)
    <3>1. work = [i \in 1..input.summaries |-> Summary(i)]
      BY DEF Init
    <3> QED BY <1>1, <2>1, <3>1
  <2>3. wall = FALSE /\ stage = "loop" /\ outcome = "none" /\ round = <<>>
    BY DEF Init
  <2>4. <<>> \in Seq(Passes)
    OBVIOUS
  <2>5. round \in Seq(Passes)
    BY <2>3, <2>4
  <2> QED BY <1>1, <2>2, <2>3, <2>5 DEF LevelOK
<1>4. CallsOK
  <2>1. NewPass("idle", 0, {}) \in PassRecords
    BY DEF NewPass, PassRecords
  <2> QED BY <2>1 DEF Init, CallsOK
<1> QED BY <1>2, <1>3, <1>4 DEF HedgeTypeOK

\* The queue of a round, and that of the final pass.
LEMMA RoundQueued ==
    ASSUME HedgeTypeOK, StartRound
    PROVE  \E chain \in 1..3 :
              LET inputs == [b \in 1..BatchCount |-> Covered(Batch(b))]
              IN  Queue(chain, inputs) /\ inputs \in Seq(SUBSET (1..input.summaries))
<1>1. input.models \in 1..3
  BY HedgedAssumption DEF HedgeTypeOK, LevelOK
<1>2. BatchCount \in Nat
  BY BatchesOfLevel DEF HedgeTypeOK
<1>3. \A b \in 1..BatchCount : Covered(Batch(b)) \in SUBSET (1..input.summaries)
  <2>1. \A i \in DOMAIN work : work[i] \in Texts
    BY DEF HedgeTypeOK, LevelOK
  <2>2. \A i \in DOMAIN work : work[i].of \subseteq 1..input.summaries
    BY <2>1 DEF Texts
  <2> QED BY <2>2 DEF Covered, Batch
<1> QED BY <1>1, <1>2, <1>3 DEF StartRound, IntermediateModels

LEMMA FinalQueued ==
    ASSUME HedgeTypeOK, StartFinal
    PROVE  \E chain \in 1..3 :
              LET inputs == <<Covered(DOMAIN work)>>
              IN  Queue(chain, inputs) /\ inputs \in Seq(SUBSET (1..input.summaries))
<1>1. input.models \in 1..3
  BY HedgedAssumption DEF HedgeTypeOK, LevelOK
<1>2. Covered(DOMAIN work) \in SUBSET (1..input.summaries)
  <2>1. \A i \in DOMAIN work : work[i] \in Texts
    BY DEF HedgeTypeOK, LevelOK
  <2>2. \A i \in DOMAIN work : work[i].of \subseteq 1..input.summaries
    BY <2>1 DEF Texts
  <2> QED BY <2>2 DEF Covered
<1> QED BY <1>1, <1>2 DEF StartFinal

\* The end of a round puts a text of each pass in its place.
LEMMA RoundEnds ==
    ASSUME HedgeTypeOK, EndRound
    PROVE  /\ work' \in Seq(Texts) /\ DOMAIN work' = 1..Len(round)
           /\ \A b \in 1..Len(round) : work'[b].of = pass[round[b]].of
<1>1. round \in Seq(Passes) /\ pass \in [Passes -> PassRecords]
  BY DEF HedgeTypeOK, LevelOK, CallsOK
<1>2. work' = [b \in 1..Len(round) |-> [of |-> pass[round[b]].of, raw |-> pass[round[b]].pc = "failed"]]
  BY <1>1 DEF EndRound, NextLevel
<1>3. \A b \in 1..Len(round) : pass[round[b]].of \in SUBSET (1..input.summaries)
  BY <1>1 DEF PassRecords
<1>4. \A b \in 1..Len(round) :
        [of |-> pass[round[b]].of, raw |-> pass[round[b]].pc = "failed"] \in Texts
  BY <1>3 DEF Texts
<1>5. Len(round) \in Nat
  BY <1>1
<1>6. work' \in Seq(Texts)
  BY <1>2, <1>4, <1>5
<1> QED BY <1>2, <1>6

\* The steps that are not of a pass or of a reporter.
LEMMA StepTypes == HedgeTypeOK /\ [Next]_vars => HedgeTypeOK'
<1> SUFFICES ASSUME HedgeTypeOK, [Next]_vars PROVE HedgeTypeOK'
  OBVIOUS
<1>1. LineOK /\ LevelOK /\ CallsOK
  BY DEF HedgeTypeOK
<1>2. UNCHANGED progressVars => LineOK'
  BY <1>1 DEF LineOK, progressVars
<1>3. UNCHANGED <<input, pass, att, stop>> => CallsOK'
  BY <1>1 DEF CallsOK, PassRecords
<1>4. UNCHANGED <<input, wall, work, stage, outcome, round>> => LevelOK'
  BY <1>1 DEF LevelOK, Texts
<1>5. ASSUME NEW chain \in 1..3, NEW inputs \in Seq(SUBSET (1..input.summaries)),
             Queue(chain, inputs), stage' \in {"round", "final"},
             UNCHANGED <<input, wall, work, outcome, att, stop, progressVars>>
      PROVE  HedgeTypeOK'
  <2>1. CallsOK' /\ round' \in Seq(Passes)
    BY <1>5, QueueSteps
  <2>2. LevelOK'
    BY <1>1, <1>5, <2>1 DEF LevelOK, Texts
  <2> QED BY <1>2, <1>5, <2>1, <2>2 DEF HedgeTypeOK
<1>6. ASSUME StartRound PROVE HedgeTypeOK'
  BY <1>5, <1>6, RoundQueued DEF StartRound
<1>7. ASSUME StartFinal PROVE HedgeTypeOK'
  BY <1>5, <1>7, FinalQueued DEF StartFinal
<1>8. ASSUME OutOfTime \/ EndCompile \/ Deadline PROVE HedgeTypeOK'
  <2>1. UNCHANGED <<input, pass, att, stop>> /\ UNCHANGED progressVars
    BY <1>8 DEF OutOfTime, EndCompile, Deadline
  <2>2. LevelOK'
    BY <1>1, <1>8 DEF OutOfTime, EndCompile, Deadline, LevelOK, Texts
  <2> QED BY <1>2, <1>3, <2>1, <2>2 DEF HedgeTypeOK
<1>9. ASSUME EndRound PROVE HedgeTypeOK'
  <2>1. work' \in Seq(Texts) /\ Texts' = Texts
    BY <1>9, RoundEnds DEF EndRound, Texts
  <2>2. LevelOK'
    BY <1>1, <1>9, <2>1 DEF EndRound, LevelOK
  <2> QED BY <1>2, <1>3, <1>9, <2>2 DEF HedgeTypeOK, EndRound
<1>10. ASSUME NEW p \in Passes, Coordinate(p) \/ \E i \in Chain : AttemptStep(p, i)
       PROVE  HedgeTypeOK'
  <2>1. LineOK' /\ CallsOK' /\ PassStep(p)
    BY <1>10, CallLines, CallStep
  <2> QED BY <1>4, <2>1 DEF HedgeTypeOK, PassStep
<1>11. ASSUME NEW r \in Reporters, Tick(r) \/ Milestone(r) \/ Flush(r) \/ Write(r)
       PROVE  HedgeTypeOK'
  <2>1. UNCHANGED compileVars
    BY <1>11 DEF Tick, Milestone, Flush, Write
  <2>2. LineOK'
    BY <1>1, <1>11, ReportTypes DEF Tick, Milestone, Flush, Write
  <2> QED BY <1>3, <1>4, <2>1, <2>2 DEF HedgeTypeOK, compileVars
<1>12. ASSUME Finish PROVE HedgeTypeOK'
  <2>1. UNCHANGED compileVars
    BY <1>12 DEF Finish
  <2>2. LineOK'
    BY <1>1, <1>12 DEF Finish, JobEnds, LineOK
  <2> QED BY <1>3, <1>4, <2>1, <2>2 DEF HedgeTypeOK, compileVars
<1>13. ASSUME UNCHANGED vars PROVE HedgeTypeOK'
  BY <1>2, <1>3, <1>4, <1>13 DEF vars, compileVars, HedgeTypeOK
<1> QED BY <1>6, <1>7, <1>8, <1>9, <1>10, <1>11, <1>12, <1>13 DEF Next, CompileStep, AttemptStep

\* Type correctness for any passes, reporters, compiles and batch sizes.
THEOREM HedgeTypesCorrect == Spec => []HedgeTypeOK
BY InitTypes, StepTypes, PTL DEF Spec

-----------------------------------------------------------------------------
(* The order of the compile and what its levels cover *)

\* Between two rounds, and after the end, every pass has ended; in a round the passes
\* of the round may be at work, and the final pass is alone.
InRound ==
    /\ stage \in {"loop", "returned"} => \A p \in Passes : Settled(p)
    /\ \A p \in Passes \ Range(round) : Settled(p)
    /\ stage = "final" => Len(round) = 1

\* The passes of a round have the texts of their batches.
RoundCovers ==
    stage = "round" =>
        /\ Len(round) = BatchCount
        /\ \A b \in 1..BatchCount : pass[round[b]].of = Covered(Batch(b))

Levels == NothingLost /\ RoundCovers

AllWaited == \A p \in Passes : Waited(p)

HedgeInv == InRound /\ Levels /\ AllWaited

LEMMA InitInv == Init => HedgeInv
<1> SUFFICES ASSUME Init PROVE HedgeInv
  OBVIOUS
<1>1. input.summaries \in Nat
  BY HedgedAssumption DEF Init
<1>2. \A p \in Passes : pass[p].pc = "idle"
  BY DEF Init, NewPass
<1>3. InRound /\ AllWaited
  BY <1>2 DEF InRound, AllWaited, Settled, Waited, Init
<1>4. /\ DOMAIN work = 1..input.summaries
      /\ \A i \in 1..input.summaries : work[i].of = {i}
  BY DEF Init, Summary
<1>5. Covered(DOMAIN work) = 1..input.summaries
  BY <1>4 DEF Covered
<1>6. \A i, j \in DOMAIN work : i < j => \A x \in work[i].of, y \in work[j].of : x < y
  BY <1>4
<1>7. stage = "loop"
  BY DEF Init
<1>8. Levels
  BY <1>5, <1>6, <1>7 DEF Levels, NothingLost, RoundCovers
<1> QED BY <1>3, <1>8 DEF HedgeInv

\* A queue of passes opens a round.
LEMMA QueueOpens ==
    ASSUME HedgeTypeOK, HedgeInv, stage = "loop",
           NEW chain \in 1..3, NEW inputs \in Seq(SUBSET (1..input.summaries)),
           Queue(chain, inputs), UNCHANGED <<input, wall, work, att, stop>>,
           \/ stage' = "round" /\ inputs = [b \in 1..BatchCount |-> Covered(Batch(b))]
           \/ stage' = "final" /\ inputs = <<Covered(DOMAIN work)>>
    PROVE  HedgeInv'
<1>1. /\ round' \in Seq(Passes) /\ Len(round') = Len(inputs)
      /\ \A b \in 1..Len(inputs) : pass'[round'[b]].of = inputs[b]
      /\ \A p \in Passes \ Range(round') : pass'[p] = pass[p]
      /\ \A p \in Passes : pass'[p].pc = pass[p].pc \/ pass'[p].pc = "queued"
  BY QueueSteps
<1>2. \A p \in Passes : Settled(p)
  BY DEF HedgeInv, InRound
<1>3. \A p \in Passes \ Range(round') : Settled(p)'
  BY <1>1, <1>2 DEF Settled
<1>4. AllWaited'
  BY <1>1, <1>2 DEF AllWaited, Waited, Settled, Over
<1>5. Covered(DOMAIN work) = 1..input.summaries
  BY DEF HedgeInv, Levels, NothingLost
<1>6. /\ Covered(DOMAIN work)' = (1..input.summaries)'
      /\ (\A i, j \in DOMAIN work : i < j => \A x \in work[i].of, y \in work[j].of : x < y)'
  BY DEF HedgeInv, Levels, NothingLost, Covered
<1>7. BatchCount \in Nat /\ BatchCount' = BatchCount
  BY BatchesOfLevel DEF HedgeTypeOK, BatchCount
<1>8. CASE stage' = "round" /\ inputs = [b \in 1..BatchCount |-> Covered(Batch(b))]
  <2>1. Len(inputs) = BatchCount /\ \A b \in 1..BatchCount : inputs[b] = Covered(Batch(b))
    BY <1>7, <1>8
  <2>2. \A b : Covered(Batch(b))' = Covered(Batch(b))
    BY DEF Covered, Batch
  <2>3. RoundCovers'
    BY <1>1, <1>7, <2>1, <2>2 DEF RoundCovers
  <2>4. NothingLost'
    BY <1>6, <1>8 DEF NothingLost
  <2>5. InRound'
    BY <1>3, <1>8 DEF InRound
  <2> QED BY <1>4, <2>3, <2>4, <2>5 DEF HedgeInv, Levels
<1>9. CASE stage' = "final" /\ inputs = <<Covered(DOMAIN work)>>
  <2>1. Len(inputs) = 1 /\ inputs[1] = Covered(DOMAIN work)
    BY <1>9
  <2>2. pass'[round'[1]].of = 1..input.summaries
    BY <1>1, <1>5, <2>1
  <2>3. NothingLost'
    BY <1>6, <2>2 DEF NothingLost
  <2>4. RoundCovers'
    BY <1>9 DEF RoundCovers
  <2>5. InRound'
    BY <1>1, <1>3, <1>9, <2>1 DEF InRound
  <2> QED BY <1>4, <2>3, <2>4, <2>5 DEF HedgeInv, Levels
<1> QED BY <1>8, <1>9

\* The end of a round loses nothing: each text is in a batch, each batch in the level.
LEMMA RoundKeepsAll ==
    ASSUME HedgeTypeOK, HedgeInv, EndRound
    PROVE  HedgeInv'
<1>1. /\ DOMAIN work' = 1..Len(round)
      /\ \A b \in 1..Len(round) : work'[b].of = pass[round[b]].of
  BY RoundEnds
<1>2. /\ stage = "round" /\ stage' = "loop"
      /\ \A p \in Range(round) : pass[p].pc \in Over
      /\ UNCHANGED <<input, wall, round, pass, att, stop>>
  BY DEF EndRound
<1>3. /\ Len(round) = BatchCount
      /\ \A b \in 1..BatchCount : work'[b].of = Covered(Batch(b))
  BY <1>1, <1>2 DEF HedgeInv, Levels, RoundCovers
<1>4. /\ BatchCount \in Nat
      /\ \A i \in DOMAIN work : \E b \in 1..BatchCount : i \in Batch(b)
      /\ \A b, c \in 1..BatchCount : b < c =>
            \A i \in Batch(b), j \in Batch(c) : i < j
  BY BatchesOfLevel DEF HedgeTypeOK
<1>5. /\ Covered(DOMAIN work) = 1..input.summaries
      /\ \A i, j \in DOMAIN work : i < j => \A x \in work[i].of, y \in work[j].of : x < y
  BY DEF HedgeInv, Levels, NothingLost
<1>6. UNION {work'[b].of : b \in 1..BatchCount} = 1..input.summaries
  <2>1. ASSUME NEW x \in 1..input.summaries PROVE \E b \in 1..BatchCount : x \in work'[b].of
    <3>1. PICK i \in DOMAIN work : x \in work[i].of
      BY <1>5, <2>1 DEF Covered
    <3>2. PICK b \in 1..BatchCount : i \in Batch(b)
      BY <1>4
    <3>3. x \in Covered(Batch(b))
      BY <3>1, <3>2 DEF Covered
    <3> QED BY <1>3, <3>3
  <2>2. ASSUME NEW b \in 1..BatchCount, NEW x \in work'[b].of PROVE x \in 1..input.summaries
    BY <1>3, <1>5, <2>2 DEF Covered, Batch
  <2> QED BY <2>1, <2>2
<1>7. ASSUME NEW b \in 1..BatchCount, NEW c \in 1..BatchCount, b < c,
             NEW x \in work'[b].of, NEW y \in work'[c].of
      PROVE  x < y
  <2>1. PICK i \in Batch(b) : x \in work[i].of
    BY <1>3 DEF Covered
  <2>2. PICK j \in Batch(c) : y \in work[j].of
    BY <1>3 DEF Covered
  <2>3. i \in DOMAIN work /\ j \in DOMAIN work
    BY DEF Batch
  <2> QED BY <1>4, <1>5, <1>7, <2>1, <2>2, <2>3
<1>8. NothingLost'
  <2>1. Covered(DOMAIN work)' = (1..input.summaries)'
    BY <1>1, <1>2, <1>3, <1>6 DEF Covered
  <2>2. (\A i, j \in DOMAIN work : i < j => \A x \in work[i].of, y \in work[j].of : x < y)'
    BY <1>1, <1>3, <1>7
  <2> QED BY <1>2, <2>1, <2>2 DEF NothingLost
<1>9. InRound'
  <2>1. \A p \in Passes : Settled(p)
    BY <1>2 DEF HedgeInv, InRound, Settled
  <2> QED BY <1>2, <2>1 DEF InRound, Settled
<1>10. RoundCovers' /\ AllWaited'
  BY <1>2 DEF RoundCovers, HedgeInv, AllWaited, Waited
<1> QED BY <1>8, <1>9, <1>10 DEF HedgeInv, Levels

\* The invariant is inductive.
LEMMA StepInv == HedgeTypeOK /\ HedgeInv /\ [Next]_vars => HedgeInv'
<1> SUFFICES ASSUME HedgeTypeOK, HedgeInv, [Next]_vars PROVE HedgeInv'
  OBVIOUS
<1>1. ASSUME UNCHANGED <<input, work, stage, round, pass, att>>, wall' = wall \/ wall' = TRUE
      PROVE  HedgeInv'
  <2>1. InRound' /\ AllWaited'
    BY <1>1 DEF HedgeInv, InRound, AllWaited, Settled, Waited
  <2>2. BatchCount' = BatchCount
    BY <1>1 DEF BatchCount
  <2>3. \A b : Covered(Batch(b))' = Covered(Batch(b))
    BY <1>1 DEF Covered, Batch
  <2>4. NothingLost'
    BY <1>1 DEF HedgeInv, Levels, NothingLost, Covered
  <2>5. RoundCovers'
    BY <1>1, <2>2, <2>3 DEF HedgeInv, Levels, RoundCovers
  <2> QED BY <2>1, <2>4, <2>5 DEF HedgeInv, Levels
<1>2. ASSUME StartRound PROVE HedgeInv'
  <2>1. stage = "loop" /\ stage' = "round" /\ UNCHANGED <<input, wall, work, att, stop>>
    BY <1>2 DEF StartRound
  <2> DEFINE inputs == [b \in 1..BatchCount |-> Covered(Batch(b))]
  <2>2. PICK chain \in 1..3 : Queue(chain, inputs) /\ inputs \in Seq(SUBSET (1..input.summaries))
    BY <1>2, RoundQueued
  <2> QED BY <2>1, <2>2, QueueOpens
<1>3. ASSUME StartFinal PROVE HedgeInv'
  <2>1. stage = "loop" /\ stage' = "final" /\ UNCHANGED <<input, wall, work, att, stop>>
    BY <1>3 DEF StartFinal
  <2> DEFINE inputs == <<Covered(DOMAIN work)>>
  <2>2. PICK chain \in 1..3 : Queue(chain, inputs) /\ inputs \in Seq(SUBSET (1..input.summaries))
    BY <1>3, FinalQueued
  <2> QED BY <2>1, <2>2, QueueOpens
<1>4. ASSUME OutOfTime PROVE HedgeInv'
  <2>1. UNCHANGED <<input, wall, work, round, pass, att, stop>>
        /\ stage = "loop" /\ stage' = "returned"
    BY <1>4 DEF OutOfTime
  <2> QED BY <2>1 DEF HedgeInv, InRound, Levels, NothingLost, RoundCovers, AllWaited,
                      Settled, Waited, Covered
<1>5. ASSUME EndCompile PROVE HedgeInv'
  <2>1. UNCHANGED <<input, wall, work, round, pass, att, stop>>
        /\ stage = "final" /\ stage' = "returned" /\ pass[round[1]].pc \in Over
    BY <1>5 DEF EndCompile
  <2>2. \A p \in Passes : Settled(p)
    <3>1. round \in Seq(Passes) /\ Len(round) = 1
      BY <2>1 DEF HedgeTypeOK, LevelOK, HedgeInv, InRound
    <3>2. Range(round) = {round[1]}
      BY <3>1 DEF Range
    <3> QED BY <2>1, <3>2 DEF HedgeInv, InRound, Settled
  <2>3. InRound' /\ AllWaited'
    BY <2>1, <2>2 DEF HedgeInv, InRound, AllWaited, Settled, Waited
  <2>4. Levels'
    BY <2>1 DEF HedgeInv, Levels, NothingLost, RoundCovers, Covered
  <2> QED BY <2>3, <2>4 DEF HedgeInv
<1>6. ASSUME Deadline PROVE HedgeInv'
  BY <1>1, <1>6 DEF Deadline
<1>7. ASSUME EndRound PROVE HedgeInv'
  BY <1>7, RoundKeepsAll
<1>8. ASSUME NEW p \in Passes, Coordinate(p) \/ \E i \in Chain : AttemptStep(p, i)
      PROVE  HedgeInv'
  <2>1. /\ UNCHANGED <<input, wall, work, stage, outcome, round>>
        /\ \A q \in Passes \ {p} : pass'[q] = pass[q] /\ att'[q] = att[q]
        /\ pass'[p].of = pass[p].of /\ pass'[p].chain = pass[p].chain
        /\ pass'[p].pc # pass[p].pc => ~Settled(p) /\ pass'[p].pc # "idle"
        /\ Waited(p) => Waited(p)'
    BY <1>8, CallStep DEF PassStep
  <2>2. InRound'
    BY <2>1 DEF HedgeInv, InRound, Settled
  <2>3. \A q \in Passes : pass'[q].of = pass[q].of
    BY <2>1
  <2>4. round \in Seq(Passes) /\ \A b \in 1..Len(round) : round[b] \in Passes
    BY DEF HedgeTypeOK, LevelOK
  <2>5. NothingLost'
    <3>1. stage = "final" => round[1] \in Passes
      BY <2>4 DEF HedgeInv, InRound
    <3> QED BY <2>1, <2>3, <3>1 DEF HedgeInv, Levels, NothingLost, Covered
  <2>6. RoundCovers'
    <3>1. \A b : Covered(Batch(b))' = Covered(Batch(b))
      BY <2>1 DEF Covered, Batch
    <3>2. BatchCount' = BatchCount
      BY <2>1 DEF BatchCount
    <3> QED BY <2>1, <2>3, <2>4, <3>1, <3>2 DEF HedgeInv, Levels, RoundCovers
  <2>7. AllWaited'
    BY <2>1 DEF HedgeInv, AllWaited, Waited
  <2> QED BY <2>2, <2>5, <2>6, <2>7 DEF HedgeInv, Levels
<1>9. ASSUME \/ Finish \/ \E r \in Reporters : Tick(r) \/ Milestone(r) \/ Flush(r) \/ Write(r)
             \/ UNCHANGED vars
      PROVE  HedgeInv'
  BY <1>1, <1>9 DEF Finish, Tick, Milestone, Flush, Write, vars, compileVars
<1> QED BY <1>2, <1>3, <1>4, <1>5, <1>6, <1>7, <1>8, <1>9 DEF Next, CompileStep, AttemptStep

\* What every level covers, and what the final pass compiles, is all summaries in
\* their order, whichever batches fail: batching is a partition, level after level.
THEOREM AllSummariesKept == Spec => []NothingLost
<1>1. HedgeInv => NothingLost
  BY DEF HedgeInv, Levels
<1> QED BY <1>1, InitTypes, InitInv, StepTypes, StepInv, PTL DEF Spec

\* Before the deadline a hedged call fails only when each of its fallbacks has failed
\* or was cancelled: a future that is still pending is waited for.
THEOREM SuccessesKept == Spec => LiveSuccessKept
<1>1. ASSUME HedgeTypeOK, HedgeInv, [Next]_vars, NEW p \in Passes,
             pass[p].pc = "wait", pass'[p].pc = "failed", ~wall
      PROVE  \A i \in 2..pass[p].chain : att[p][i] \in {"error", "cancelled"}
  <2>1. ASSUME NEW q \in Passes, Coordinate(q) \/ \E i \in Chain : AttemptStep(q, i)
        PROVE  pass[p].waits = {}
    <3>1. PassStep(q)
      BY <1>1, <2>1, CallStep
    <3> QED BY <1>1, <3>1 DEF PassStep
  <2>2. ASSUME NEW chain \in 1..3, NEW inputs \in Seq(SUBSET (1..input.summaries)),
               Queue(chain, inputs), UNCHANGED <<input, att, stop>>
        PROVE  FALSE
    <3>1. pass'[p].pc = pass[p].pc \/ pass'[p].pc = "queued"
      BY <1>1, <2>2, QueueSteps
    <3> QED BY <1>1, <3>1
  <2>3. ~StartRound
    BY <1>1, <2>2, RoundQueued DEF StartRound
  <2>4. ~StartFinal
    BY <1>1, <2>2, FinalQueued DEF StartFinal
  <2>5. pass' # pass
    BY <1>1
  <2>6. pass[p].waits = {}
    BY <1>1, <2>1, <2>3, <2>4, <2>5
       DEF Next, CompileStep, OutOfTime, EndRound, EndCompile, Deadline, Finish, AttemptStep,
           Tick, Milestone, Flush, Write, compileVars, vars
  <2> QED BY <1>1, <2>6 DEF HedgeInv, AllWaited, Waited
<1>2. HedgeTypeOK /\ HedgeInv /\ [Next]_vars =>
        [\A p \in Passes : pass[p].pc = "wait" /\ pass'[p].pc = "failed" /\ ~wall =>
            \A i \in 2..pass[p].chain : att[p][i] \in {"error", "cancelled"}]_vars
  BY <1>1
<1> QED BY <1>2, InitTypes, InitInv, StepTypes, StepInv, PTL DEF Spec, LiveSuccessKept

-----------------------------------------------------------------------------
(* The progress gate *)

\* A line that is published opens a cycle, or belongs to the active one and is not behind.
LEMMA PublishForward ==
    ASSUME LineOK, NEW p \in Passes, NEW id \in Nat, NEW phase \in Phases, NEW sealed,
           Publish(p, id, phase, sealed)
    PROVE  /\ \/ entry'.cycle > entry.cycle
              \/ entry'.cycle = entry.cycle /\ entry'.line.phase >= entry.line.phase
           /\ phase # Planning /\ entry = NoEntry => entry' = NoEntry
<1>1. entry.cycle \in Nat /\ entry.line.phase \in 0..3
  BY LineFacts DEF LineOK
<1>2. CASE Accepted(id, phase, sealed)
  <2>1. entry' = [cycle |-> CycleOf(id, phase), line |-> Lifecycle(p, phase)]
    BY <1>2 DEF Publish
  <2>2. entry'.cycle = CycleOf(id, phase) /\ entry'.line.phase = phase
    BY <2>1 DEF Lifecycle
  <2>3. CASE phase = Planning
    BY <1>1, <2>2, <2>3 DEF CycleOf
  <2>4. CASE phase # Planning
    BY <1>1, <1>2, <2>2, <2>4 DEF CycleOf, Accepted, InActiveCycle
  <2> QED BY <2>3, <2>4
<1>3. CASE ~Accepted(id, phase, sealed)
  BY <1>1, <1>3 DEF Publish, progressVars
<1> QED BY <1>2, <1>3

\* The gate goes forward only, and after the compile no one opens it: only a pass that
\* was queued plans, and when the compile has returned none is.
THEOREM GateGoesForward == Spec => GateForward
<1> DEFINE Forward == \/ entry'.cycle > entry.cycle
                      \/ entry'.cycle = entry.cycle /\ entry'.line.phase >= entry.line.phase
           Shut == entry = NoEntry /\ stage = "returned" => entry' = NoEntry
           Gate == (entry # NoEntry /\ entry' # NoEntry => Forward) /\ Shut
<1>1. ASSUME HedgeTypeOK, HedgeInv, [Next]_vars PROVE Gate
  <2>1. entry.cycle \in Nat /\ entry.line.phase \in 0..3 /\ LineOK
    BY <1>1, LineFacts DEF HedgeTypeOK, LineOK
  <2>2. ASSUME UNCHANGED entry \/ entry' = NoEntry PROVE Gate
    BY <2>1, <2>2
  <2>3. ASSUME NEW p \in Passes, StartPass(p) PROVE Gate
    <3>1. Publish(p, 0, Planning, FALSE) /\ pass[p].pc = "queued"
      BY <2>3 DEF StartPass
    <3>2. Forward
      BY <2>1, <3>1, PublishForward DEF Phases
    <3>3. stage # "returned"
      BY <1>1, <3>1 DEF HedgeInv, InRound, Settled, Over
    <3> QED BY <3>2, <3>3
  <2>4. ASSUME NEW p \in Passes, CompletePass(p) PROVE Gate
    <3>1. Publish(p, pass[p].cycle, Completed, pass[p].gate) /\ pass[p].cycle \in Nat
      BY <1>1, <2>4 DEF CompletePass, HedgeTypeOK, CallsOK, PassRecords
    <3>2. Completed \in Phases /\ Completed # Planning
      BY DEF Phases, Planning, Completed
    <3>3. Forward /\ (entry = NoEntry => entry' = NoEntry)
      BY <2>1, <3>1, <3>2, PublishForward
    <3> QED BY <3>3
  <2>5. ASSUME NEW p \in Passes, NEW i \in Chain, SendRequest(p, i) PROVE Gate
    <3>1. Publish(p, pass[p].cycle, Trying, pass[p].gate) /\ pass[p].cycle \in Nat
      BY <1>1, <2>5 DEF SendRequest, HedgeTypeOK, CallsOK, PassRecords
    <3>2. Trying \in Phases /\ Trying # Planning
      BY DEF Phases, Planning, Trying
    <3>3. Forward /\ (entry = NoEntry => entry' = NoEntry)
      BY <2>1, <3>1, <3>2, PublishForward
    <3> QED BY <3>3
  <2>6. ASSUME NEW r \in Reporters, Tick(r) \/ Milestone(r) \/ Flush(r) \/ Write(r)
        PROVE  UNCHANGED entry \/ entry' = NoEntry
    BY <2>6 DEF Tick, Milestone, Flush, Write, SetProgress, FlushProgress, WriteProgress, Resolve
  <2>7. ASSUME NEW p \in Passes,
               \/ StartsTooLate(p) \/ PrimaryWins(p) \/ PrimaryFails(p) \/ PrimaryIsSlow(p)
               \/ Launch(p) \/ HedgeWins(p) \/ HedgeLosesOne(p) \/ HedgeFails(p)
               \/ SliceWins(p) \/ SliceEnds(p)
               \/ \E i \in Chain : \/ BeginAttempt(p, i) \/ Answer(p, i)
                                   \/ AttemptFails(p, i) \/ AttemptCancelled(p, i)
        PROVE  UNCHANGED entry
    BY <2>7 DEF StartsTooLate, PrimaryWins, PrimaryFails, PrimaryIsSlow, Launch, HedgeWins,
                HedgeLosesOne, HedgeFails, SliceWins, SliceEnds, BeginAttempt, Answer,
                AttemptFails, AttemptCancelled, progressVars
  <2>8. ASSUME CompileStep \/ Deadline \/ Finish \/ UNCHANGED vars PROVE UNCHANGED entry
    BY <2>8 DEF CompileStep, StartRound, StartFinal, OutOfTime, EndRound, EndCompile, Deadline,
                Finish, JobEnds, vars, progressVars
  <2> HIDE DEF Gate
  <2> QED BY <1>1, <2>2, <2>3, <2>4, <2>5, <2>6, <2>7, <2>8 DEF Next, Coordinate
<1>2. HedgeTypeOK /\ HedgeInv /\ [Next]_vars => [Gate]_vars
  BY <1>1
<1> QED BY <1>2, InitTypes, InitInv, StepTypes, StepInv, PTL DEF Spec, GateForward
=============================================================================
