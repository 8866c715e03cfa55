---------------------------- MODULE ResultProofs ----------------------------
(***************************************************************************)
(* Theorems about the result of a job on its way to the screen.  ResultStore: *)
(* the merge only adds, every writer is alone under its lock, and where      *)
(* transactions are serializable or all writers share a process the row      *)
(* implements the register that only grows.  ResultsPage: however the        *)
(* answers overtake each other, what a tab shows of a job only grows.        *)
(***************************************************************************)
EXTENDS ResultStore, ResultsPage, FiniteSetTheorems, TLAPS

\* Where no two processes write the same row under read committed.
SoundDeployments ==
    \A d \in Deployments : d.atomic \/ \A a, b \in Attempts : d.proc[a] = d.proc[b]

-----------------------------------------------------------------------------
(* The merge *)

LEMMA MergeType ==
    ASSUME NEW base \in Results, NEW patch \in Results
    PROVE  Updated(base, patch) \in Results
BY DEF Updated, Guards, Merge, MergeField, Results, Register!Results

LEMMA MergeAt ==
    ASSUME NEW base \in Results, NEW patch \in Results, NEW f \in Fields
    PROVE  Updated(base, patch)[f] = MergeField(f, base[f], patch[f])
<1>1. base[f] \in Nat /\ patch[f] \in Nat BY DEF Results, Register!Results
<1>2. Merge(base, patch)[f] = MergeField(f, base[f], patch[f]) BY DEF Merge
<1>3. f \in Sticky => f \notin Fill BY DEF Sticky, Fill
<1> QED BY <1>1, <1>2, <1>3 DEF Updated, Guards, MergeField

\* Whatever a patch says, nothing the result already has is taken back: the guards
\* after the merge never find anything to repair (monotonic_deep_merge,
\* apply_monotonic_guards).
THEOREM MergeOnlyAdds ==
    ASSUME NEW base \in Results, NEW patch \in Results
    PROVE  /\ Register!Extends(Updated(base, patch), base)
           /\ Updated(base, patch) = Merge(base, patch)
<1>1. ASSUME NEW f \in Fields
      PROVE  Register!NotBelow(f, base[f], Updated(base, patch)[f])
  <2>1. base[f] \in Nat /\ patch[f] \in Nat BY DEF Results, Register!Results
  <2> QED BY <2>1, MergeAt DEF MergeField, Register!NotBelow
<1>2. Updated(base, patch) = [f \in Fields |-> Updated(base, patch)[f]]
  BY DEF Updated, Guards
<1>3. Merge(base, patch) = [f \in Fields |-> MergeField(f, base[f], patch[f])]
  BY DEF Merge
<1> QED BY <1>1, <1>2, <1>3, MergeAt DEF Register!Extends

\* What a patch brings is there afterwards, or something at least as good.
HasPatch(val, patch) ==
    \A f \in Fields : patch[f] > 0 =>
        IF f \in Fill THEN val[f] > 0 ELSE val[f] >= patch[f]

LEMMA MergeHasPatch ==
    ASSUME NEW base \in Results, NEW patch \in Results
    PROVE  HasPatch(Updated(base, patch), patch)
<1>1. SUFFICES ASSUME NEW f \in Fields, patch[f] > 0
               PROVE IF f \in Fill THEN Updated(base, patch)[f] > 0
                     ELSE Updated(base, patch)[f] >= patch[f]
  BY DEF HasPatch
<1>2. base[f] \in Nat /\ patch[f] \in Nat BY DEF Results, Register!Results
<1> QED BY <1>1, <1>2, MergeAt DEF MergeField

LEMMA HasPatchKept ==
    ASSUME NEW old \in Results, NEW new \in Results, NEW patch \in Results,
           Register!Extends(new, old), HasPatch(old, patch)
    PROVE  HasPatch(new, patch)
<1>1. SUFFICES ASSUME NEW f \in Fields, patch[f] > 0
               PROVE IF f \in Fill THEN new[f] > 0 ELSE new[f] >= patch[f]
  BY DEF HasPatch
<1>2. old[f] \in Nat /\ new[f] \in Nat /\ patch[f] \in Nat
  BY DEF Results, Register!Results
<1> QED BY <1>1, <1>2 DEF HasPatch, Register!Extends, Register!NotBelow

LEMMA ExtendsTrans ==
    ASSUME NEW a \in Results, NEW b \in Results, NEW c \in Results,
           Register!Extends(b, a), Register!Extends(c, b)
    PROVE  Register!Extends(c, a)
<1>1. \A f \in Fields : a[f] \in Nat /\ b[f] \in Nat /\ c[f] \in Nat
  BY DEF Results, Register!Results
<1> QED BY <1>1 DEF Register!Extends, Register!NotBelow

LEMMA ExtendsRefl == ASSUME NEW a \in Results PROVE Register!Extends(a, a)
<1>1. \A f \in Fields : a[f] \in Nat BY DEF Results, Register!Results
<1> QED BY <1>1 DEF Register!Extends, Register!NotBelow

LEMMA PatchType ==
    ASSUME NEW read \in Results, NEW report \in Results, NEW ph \in 1..9
    PROVE  FinalPatch(read, report, ph) \in Results
<1>1. AdditiveMerge(read, report) \in Results
  BY DEF AdditiveMerge, Results, Register!Results
<1> QED BY <1>1 DEF FinalPatch, Results, Register!Results, Fields

-----------------------------------------------------------------------------
(* Types *)

WriterStates == [stage : {"summary", "finalize", "over"},
                 pc : {"idle", "build", "lock", "read", "store", "check",
                       "row", "commit", "keep"},
                 base : Blob, patch : Results, tries : 0..(MaxRetries - 1)]

LEMMA NothingType == Nothing \in Results /\ NoResult \in Blob
BY DEF Nothing, Results, Register!Nothing, Register!Results, NoResult, Blob

LEMMA IdleType ==
    ASSUME NEW stage \in {"summary", "finalize", "over"}
    PROVE  Idle(stage) \in WriterStates
<1>1. MaxRetries \in Nat \ {0} BY ResultStoreAssumption
<1> QED BY <1>1, NothingType DEF Idle, WriterStates

LEMMA InitTypeOK == Init => ResTypeOK
<1> SUFFICES ASSUME Init PROVE ResTypeOK OBVIOUS
<1>1. w \in [Attempts -> WriterStates] BY IdleType DEF Init
<1>2. poll \in [Polls -> SUBSET Blob] BY DEF Init
<1> QED BY <1>1, <1>2, NothingType DEF Init, ResTypeOK, WriterStates

LEMMA ProcType ==
    ASSUME ResTypeOK PROVE \A a \in Attempts : dep.proc[a] \in Procs
BY ResultStoreAssumption DEF ResTypeOK

LEMMA NewBlobType ==
    ASSUME ResTypeOK, NEW a \in Attempts PROVE NewBlob(a) \in Blob
<1>1. w[a].base \in Blob /\ w[a].patch \in Results BY DEF ResTypeOK
<1> QED BY <1>1, MergeType DEF NewBlob, Blob

LEMMA RetryType ==
    ASSUME ResTypeOK, NEW a \in Attempts, Retry(a)
    PROVE  /\ w' \in [Attempts -> WriterStates]
           /\ lock' \in [Procs -> Attempts \cup {NoOne}]
<1>0. w \in [Attempts -> WriterStates] /\ MaxRetries \in Nat \ {0}
  BY ResultStoreAssumption DEF ResTypeOK, WriterStates
<1>1. CASE w[a].tries + 1 < MaxRetries
  <2>1. w[a] \in WriterStates BY <1>0
  <2>2. w[a].tries + 1 \in 0..(MaxRetries - 1) BY <1>0, <1>1, <2>1 DEF WriterStates
  <2>3. Again(w[a]) \in WriterStates BY <2>1, <2>2 DEF WriterStates, Again
  <2>4. w' = [w EXCEPT ![a] = Again(w[a])] /\ lock' = lock BY <1>1 DEF Retry
  <2> QED BY <1>0, <2>3, <2>4 DEF ResTypeOK
<1>2. CASE ~(w[a].tries + 1 < MaxRetries)
  <2>1. Idle("over") \in WriterStates BY IdleType
  <2>2. w' = [w EXCEPT ![a] = Idle("over")] /\ lock' = [lock EXCEPT ![dep.proc[a]] = NoOne]
    BY <1>2 DEF Retry, After
  <2> QED BY <1>0, <2>1, <2>2 DEF ResTypeOK
<1> QED BY <1>1, <1>2

LEMMA WriterType ==
    ASSUME ResTypeOK, NEW a \in Attempts, NEW x \in WriterStates, w' = [w EXCEPT ![a] = x]
    PROVE  w' \in [Attempts -> WriterStates]
BY DEF ResTypeOK, WriterStates

LEMMA TypeStep == ASSUME ResTypeOK, [Next]_vars PROVE ResTypeOK'
<1> USE DEF ResTypeOK
<1>0. /\ w \in [Attempts -> WriterStates]
      /\ \A a \in Attempts : w[a] \in WriterStates
  BY DEF WriterStates
<1>p. \A a \in Attempts : dep.proc[a] \in Procs BY ProcType
<1>c. ASSUME NEW p \in Procs PROVE Chosen(p) \in Blob BY DEF Chosen
<1>s. ResTypeOK' <=> /\ dep' \in Deployments /\ db' \in Blob /\ mem' \in [Procs -> Blob]
                     /\ lock' \in [Procs -> Attempts \cup {NoOne}]
                     /\ w' \in [Attempts -> WriterStates]
                     /\ poll' \in [Polls -> SUBSET Blob]
  BY DEF WriterStates
<1>1. ASSUME NEW a \in Attempts, DeliverSummary(a) PROVE ResTypeOK'
  <2>1. PICK s \in Summaries : w' = [w EXCEPT ![a] = [@ EXCEPT !.pc = "lock", !.patch = s]]
    BY <1>1 DEF DeliverSummary
  <2>2. [w[a] EXCEPT !.pc = "lock", !.patch = s] \in WriterStates
    BY <1>0, ResultStoreAssumption DEF WriterStates
  <2>3. w' \in [Attempts -> WriterStates] BY <2>1, <2>2, WriterType
  <2> QED BY <1>s, <2>3, <1>1 DEF DeliverSummary
<1>2. ASSUME NEW a \in Attempts, PatchRead(a) PROVE ResTypeOK'
  <2>1. [w[a] EXCEPT !.pc = "build", !.base = Chosen(dep.proc[a])] \in WriterStates
    BY <1>0, <1>p, <1>c DEF WriterStates
  <2>2. w' \in [Attempts -> WriterStates] BY <2>1, <1>2, WriterType DEF PatchRead
  <2> QED BY <1>s, <2>2, <1>2 DEF PatchRead
<1>3. ASSUME NEW a \in Attempts, PatchBuild(a) PROVE ResTypeOK'
  <2>1. PICK c \in Reports, ph \in BgPhases :
           w' = [w EXCEPT ![a] = [@ EXCEPT !.pc = "lock",
                                           !.patch = FinalPatch(w[a].base.val, c, ph)]]
    BY <1>3 DEF PatchBuild
  <2>2. w[a].base \in Blob /\ w[a].base.val \in Results BY <1>0 DEF WriterStates, Blob
  <2>3. FinalPatch(w[a].base.val, c, ph) \in Results
    BY <2>2, PatchType, ResultStoreAssumption
  <2> DEFINE pt == FinalPatch(w[a].base.val, c, ph)
  <2> HIDE DEF pt
  <2>4. [w[a] EXCEPT !.pc = "lock", !.patch = pt] \in WriterStates
    BY <1>0, <2>3 DEF WriterStates, pt
  <2>5. w' \in [Attempts -> WriterStates] BY <2>1, <2>4, WriterType DEF pt
  <2>6. mem' \in [Procs -> Blob] BY <1>3, <2>2 DEF PatchBuild
  <2> QED BY <1>s, <2>5, <2>6, <1>3 DEF PatchBuild
<1>4. ASSUME NEW a \in Attempts, Acquire(a) PROVE ResTypeOK'
  <2>1. [w[a] EXCEPT !.pc = "read"] \in WriterStates BY <1>0 DEF WriterStates
  <2>2. w' \in [Attempts -> WriterStates] BY <2>1, <1>4, WriterType DEF Acquire, Goto
  <2> QED BY <1>s, <2>2, <1>4 DEF Acquire
<1>5. ASSUME NEW a \in Attempts, Read(a) PROVE ResTypeOK'
  <2>1. /\ [w[a] EXCEPT !.pc = "store", !.base = Chosen(dep.proc[a])] \in WriterStates
        /\ [w[a] EXCEPT !.pc = "check", !.base = mem[dep.proc[a]]] \in WriterStates
    BY <1>0, <1>p, <1>c DEF WriterStates
  <2>2. w' \in [Attempts -> WriterStates] BY <2>1, <1>5, WriterType DEF Read
  <2> QED BY <1>s, <2>2, <1>5 DEF Read
<1>6. ASSUME NEW a \in Attempts, Store(a) PROVE ResTypeOK'
  <2>1. [w[a] EXCEPT !.pc = "check"] \in WriterStates BY <1>0 DEF WriterStates
  <2>2. w' \in [Attempts -> WriterStates] BY <2>1, <1>6, WriterType DEF Store, Goto
  <2>3. mem' \in [Procs -> Blob] BY <1>6, <1>0 DEF Store, WriterStates
  <2> QED BY <1>s, <2>2, <2>3, <1>6 DEF Store
<1>7. ASSUME NEW a \in Attempts, Check(a) PROVE ResTypeOK'
  <2>1. [w[a] EXCEPT !.pc = "row"] \in WriterStates BY <1>0 DEF WriterStates
  <2>2. CASE mem[dep.proc[a]].rev = w[a].base.rev
    <3>1. w' \in [Attempts -> WriterStates] BY <2>1, <2>2, <1>7, WriterType DEF Check, Goto
    <3> QED BY <1>s, <3>1, <2>2, <1>7 DEF Check
  <2>3. CASE ~(mem[dep.proc[a]].rev = w[a].base.rev)
    BY <1>s, <2>3, <1>7, RetryType DEF Check
  <2> QED BY <2>2, <2>3
<1>8. ASSUME NEW a \in Attempts, ReadRow(a) PROVE ResTypeOK'
  <2>1. [w[a] EXCEPT !.pc = "commit"] \in WriterStates BY <1>0 DEF WriterStates
  <2>2. CASE SameRevision(a)
    <3>1. w' \in [Attempts -> WriterStates] BY <2>1, <2>2, <1>8, WriterType DEF ReadRow, Goto
    <3> QED BY <1>s, <3>1, <2>2, <1>8 DEF ReadRow
  <2>3. CASE ~SameRevision(a)
    BY <1>s, <2>3, <1>8, RetryType DEF ReadRow
  <2> QED BY <2>2, <2>3
<1>9. ASSUME NEW a \in Attempts, Commit(a) PROVE ResTypeOK'
  <2>1. [w[a] EXCEPT !.pc = "keep"] \in WriterStates BY <1>0 DEF WriterStates
  <2>2. w' \in [Attempts -> WriterStates] BY <2>1, <1>9, WriterType DEF Commit, Goto
  <2>3. db' \in Blob BY <1>9, NewBlobType DEF Commit
  <2> QED BY <1>s, <2>2, <2>3, <1>9 DEF Commit
<1>10. ASSUME NEW a \in Attempts, NotCommitted(a) PROVE ResTypeOK'
  BY <1>s, <1>10, RetryType DEF NotCommitted
<1>11. ASSUME NEW a \in Attempts, Keep(a) PROVE ResTypeOK'
  <2>1. After(a, TRUE) \in WriterStates BY IdleType DEF After
  <2>2. w' \in [Attempts -> WriterStates] BY <2>1, <1>11, WriterType DEF Keep
  <2>3. mem' \in [Procs -> Blob]
    <3>1. NewBlob(a) \in Blob /\ mem' = [mem EXCEPT ![dep.proc[a]] = NewBlob(a)]
      BY <1>11, NewBlobType DEF Keep
    <3> QED BY <3>1
  <2> QED BY <1>s, <2>2, <2>3, <1>11 DEF Keep
<1>12. ASSUME NEW r \in Polls, PollStep(r) PROVE ResTypeOK'
  <2>1. PollProc[r] \in Procs BY ResultStoreAssumption
  <2>2. CASE PollRead(r)
    <3>1. Chosen(PollProc[r]) \in Blob /\ NoResult \in Blob BY <1>c, <2>1, NothingType
    <3>2. poll' \in [Polls -> SUBSET Blob] BY <3>1, <2>2 DEF PollRead
    <3> QED BY <1>s, <3>2, <2>2, <1>0 DEF PollRead
  <2>3. CASE PollStore(r)
    <3>0. PICK b \in poll[r] : mem' = [mem EXCEPT ![PollProc[r]] = b]
      BY <2>3 DEF PollStore
    <3>1. mem' \in [Procs -> Blob] BY <3>0
    <3>2. poll' \in [Polls -> SUBSET Blob] BY <2>3 DEF PollStore
    <3> QED BY <1>s, <3>1, <3>2, <2>3, <1>0 DEF PollStore
  <2> QED BY <2>2, <2>3, <1>12 DEF PollStep
<1>13. CASE UNCHANGED vars BY <1>s, <1>13, <1>0 DEF vars
<1> QED BY <1>1, <1>2, <1>3, <1>4, <1>5, <1>6, <1>7, <1>8, <1>9, <1>10, <1>11,
           <1>12, <1>13 DEF Next, AttemptStep, UpdateStep

\* The row, the caches, the locks and the writers have the types they are used at.
THEOREM ResultTypes == Spec => []ResTypeOK
<1>1. Init => ResTypeOK BY InitTypeOK
<1>2. ResTypeOK /\ [Next]_vars => ResTypeOK' BY TypeStep
<1> QED BY <1>1, <1>2, PTL DEF Spec

-----------------------------------------------------------------------------
(* Alone under the lock, and never ahead of the row *)

Older(b) == b.rev <= db.rev /\ (b.rev = db.rev => b = db)

\* What holds of attempt a: it has the lock from its read to its return; what it read is
\* the row's result or an older one; between the two halves of a transaction the row
\* keeps the revision; what it has written is in the row until it returns.
Writer(a) ==
    /\ w[a].pc \in {"read", "store", "check", "row", "commit", "keep"} =>
          lock[dep.proc[a]] = a
    /\ w[a].pc \in {"build", "store", "check", "row", "commit"} => Older(w[a].base)
    /\ w[a].pc = "commit" => ~dep.atomic /\ SameRevision(a)
    /\ w[a].pc = "keep" => Older(NewBlob(a)) /\ Register!Extends(db.val, NewBlob(a).val)

StoreInv ==
    /\ ResTypeOK
    /\ \A p \in Procs : Older(mem[p])
    /\ \A r \in Polls : \A b \in poll[r] : Older(b)
    /\ \A a \in Attempts : Writer(a)

LEMMA InitStoreInv == Init => StoreInv
<1> SUFFICES ASSUME Init PROVE StoreInv OBVIOUS
<1>1. Older(NoResult) BY DEF Init, Older, NoResult
<1>2. \A a \in Attempts : w[a].pc = "idle" BY DEF Init, Idle
<1> QED BY <1>1, <1>2, InitTypeOK DEF Init, StoreInv, Writer

LEMMA OlderChosen ==
    ASSUME StoreInv, NEW p \in Procs
    PROVE  Older(Chosen(p)) /\ Older(mem[p])
<1>1. db.rev \in Nat BY DEF StoreInv, ResTypeOK, Blob
<1> QED BY <1>1 DEF StoreInv, Chosen, Older

\* Steps that leave the row, and all writers but a, alone.
LEMMA QuietStep ==
    ASSUME StoreInv, ResTypeOK', NEW a \in Attempts, UNCHANGED <<dep, db>>,
           \A b \in Attempts \ {a} : w'[b] = w[b],
           \A b \in Attempts \ {a} :
              lock[dep.proc[b]] = b => lock'[dep.proc[b]] = b,
           \A p \in Procs : Older(mem'[p]),
           \A r \in Polls : \A b \in poll'[r] : Older(b),
           Writer(a)'
    PROVE  StoreInv'
<1>1. ASSUME NEW b \in Attempts, b # a PROVE Writer(b)'
  <2>1. w'[b] = w[b] /\ Writer(b) BY <1>1 DEF StoreInv
  <2>2. NewBlob(b)' = NewBlob(b) /\ (SameRevision(b)' <=> SameRevision(b))
    BY <2>1 DEF NewBlob, SameRevision
  <2> QED BY <1>1, <2>1, <2>2 DEF Writer, Older, Register!Extends
<1>2. \A p \in Procs : Older(mem[p])' BY DEF Older
<1>3. \A r \in Polls : \A b \in poll'[r] : Older(b)' BY DEF Older
<1> QED BY <1>1, <1>2, <1>3 DEF StoreInv

LEMMA RetryQuiet ==
    ASSUME StoreInv, ResTypeOK', NEW a \in Attempts, Retry(a), UNCHANGED <<dep, db, mem, poll>>,
           w[a].pc \in {"check", "row", "commit"}
    PROVE  StoreInv'
<1>0. /\ \A b \in Attempts : dep.proc[b] \in Procs
      /\ lock \in [Procs -> Attempts \cup {NoOne}]
      /\ w \in [Attempts -> WriterStates]
  BY ProcType DEF StoreInv, ResTypeOK, WriterStates
<1>1. lock[dep.proc[a]] = a BY DEF StoreInv, Writer
<1>2. \A b \in Attempts \ {a} : w'[b] = w[b] BY <1>0 DEF Retry
<1>3. \A b \in Attempts \ {a} : lock[dep.proc[b]] = b => lock'[dep.proc[b]] = b
  BY <1>0, <1>1 DEF Retry
<1>4. CASE w[a].tries + 1 < MaxRetries
  <2>1. w'[a].pc = "read" /\ lock' = lock BY <1>0, <1>4 DEF Retry, Again, WriterStates
  <2>2. Writer(a)' BY <2>1, <1>1 DEF Writer
  <2> QED BY <1>2, <1>3, <2>2, QuietStep DEF StoreInv
<1>5. CASE ~(w[a].tries + 1 < MaxRetries)
  <2>1. w'[a].pc = "idle" BY <1>0, <1>5 DEF Retry, After, Idle
  <2>2. Writer(a)' BY <2>1 DEF Writer
  <2> QED BY <1>2, <1>3, <2>2, QuietStep DEF StoreInv
<1> QED BY <1>4, <1>5

LEMMA CommitStep ==
    ASSUME SoundDeployments, StoreInv, ResTypeOK', NEW a \in Attempts, Commit(a)
    PROVE  /\ StoreInv'
           /\ Register!Extends(db'.val, db.val)
           /\ db'.rev = db.rev + 1
<1>0. /\ \A b \in Attempts : dep.proc[b] \in Procs
      /\ w \in [Attempts -> WriterStates] /\ dep \in Deployments /\ db \in Blob
  BY ProcType DEF StoreInv, ResTypeOK, WriterStates
<1>1. Writer(a) /\ w[a].base \in Blob /\ w[a].patch \in Results
  BY <1>0 DEF StoreInv, WriterStates
<1>2. SameRevision(a) /\ w[a].base = db
  BY <1>1 DEF Commit, Writer, Older, SameRevision
<1>3. db' = [rev |-> db.rev + 1, val |-> Updated(db.val, w[a].patch)]
  BY <1>2 DEF Commit, NewBlob
<1>4. db.val \in Results /\ db.rev \in Nat BY <1>0 DEF Blob
<1>5. Register!Extends(db'.val, db.val) /\ db'.rev = db.rev + 1
  BY <1>1, <1>3, <1>4, MergeOnlyAdds
<1>6. ASSUME NEW b \in Blob, Older(b) PROVE Older(b)'
  BY <1>4, <1>5, <1>6 DEF Older, Blob
<1>7. \A b \in Attempts \ {a} : w'[b] = w[b] BY <1>0 DEF Commit, Goto
<1>8. w'[a].pc = "keep" /\ w'[a].base = w[a].base /\ w'[a].patch = w[a].patch
  BY <1>0 DEF Commit, Goto, WriterStates
<1>9. NewBlob(a)' = db' BY <1>8 DEF NewBlob, Commit
<1>10. db'.val \in Results BY DEF ResTypeOK, Blob
<1>11. Writer(a)'
  <2>1. lock[dep.proc[a]] = a BY <1>1 DEF Commit, Writer
  <2>2. Older(NewBlob(a))' BY <1>9, <1>5, <1>4 DEF Older
  <2>3. Register!Extends(db'.val, NewBlob(a)'.val) BY <1>9, <1>10, ExtendsRefl
  <2>4. dep' = dep /\ lock' = lock BY DEF Commit
  <2>5. Register!Extends(db.val, NewBlob(a).val)' BY <2>3 DEF Register!Extends, Register!NotBelow
  <2> QED BY <2>1, <2>2, <2>4, <2>5, <1>8 DEF Writer
<1>12. ASSUME NEW b \in Attempts, b # a PROVE Writer(b)'
  <2>1. Writer(b) /\ w'[b] = w[b] /\ w[b].base \in Blob /\ NewBlob(b) \in Blob
    BY <1>0, <1>7, <1>12, NewBlobType DEF StoreInv, WriterStates
  <2>2. dep' = dep /\ lock' = lock BY DEF Commit
  <2>3. w[b].pc # "commit"
    <3>1. SUFFICES ASSUME w[b].pc = "commit" PROVE FALSE OBVIOUS
    <3>2. ~dep.atomic /\ lock[dep.proc[b]] = b BY <2>1, <3>1 DEF Writer
    <3>3. dep.proc[a] = dep.proc[b] BY <3>2, <1>0 DEF SoundDeployments
    <3>4. lock[dep.proc[a]] = a BY <1>1 DEF Commit, Writer
    <3> QED BY <3>2, <3>3, <3>4, <1>12
  <2>4. NewBlob(b)' = NewBlob(b) BY <2>1 DEF NewBlob
  <2>5. Older(w[b].base) => Older(w[b].base)' BY <1>6, <2>1
  <2>6. Older(NewBlob(b)) => Older(NewBlob(b))'
    <3>1. \A x \in Blob : Older(x) => x.rev <= db'.rev /\ (x.rev = db'.rev => x = db')
      BY <1>6 DEF Older
    <3> QED BY <3>1, <2>1, <2>4 DEF Older
  <2>7. ASSUME Register!Extends(db.val, NewBlob(b).val)
        PROVE  Register!Extends(db.val, NewBlob(b).val)'
    <3>1. NewBlob(b).val \in Results BY <2>1 DEF Blob
    <3>2. Register!Extends(db'.val, NewBlob(b).val)
      BY <3>1, <2>7, <1>4, <1>5, <1>10, ExtendsTrans
    <3> QED BY <3>2, <2>4 DEF Register!Extends, Register!NotBelow
  <2> QED BY <2>1, <2>2, <2>3, <2>5, <2>6, <2>7 DEF Writer, Older
<1>13. \A p \in Procs : Older(mem[p])'
  <2>1. mem' = mem /\ \A p \in Procs : mem[p] \in Blob /\ Older(mem[p])
    BY DEF Commit, StoreInv, ResTypeOK
  <2>2. \A x \in Blob : Older(x) => x.rev <= db'.rev /\ (x.rev = db'.rev => x = db')
    BY <1>6 DEF Older
  <2> QED BY <2>1, <2>2 DEF Older
<1>14. \A r \in Polls : \A b \in poll'[r] : Older(b)'
  <2>1. poll' = poll /\ \A r \in Polls : \A b \in poll[r] : b \in Blob /\ Older(b)
    BY DEF Commit, StoreInv, ResTypeOK
  <2> QED BY <2>1, <1>6
<1> QED BY <1>5, <1>11, <1>12, <1>13, <1>14 DEF StoreInv

LEMMA StoreStep ==
    ASSUME SoundDeployments, StoreInv, [Next]_vars
    PROVE  StoreInv'
<1>0. /\ \A b \in Attempts : dep.proc[b] \in Procs
      /\ w \in [Attempts -> WriterStates] /\ mem \in [Procs -> Blob]
      /\ lock \in [Procs -> Attempts \cup {NoOne}]
      /\ poll \in [Polls -> SUBSET Blob]
      /\ ResTypeOK
  BY ProcType DEF StoreInv, ResTypeOK, WriterStates
<1>t. ResTypeOK' BY <1>0, TypeStep
<1>o. /\ \A p \in Procs : Older(mem[p]) /\ Older(Chosen(p))
      /\ \A r \in Polls : \A b \in poll[r] : Older(b)
      /\ \A b \in Attempts : Writer(b)
  BY OlderChosen DEF StoreInv
<1>1. ASSUME NEW a \in Attempts, DeliverSummary(a) PROVE StoreInv'
  <2>1. /\ w'[a].pc = "lock" /\ UNCHANGED <<dep, db, mem, lock, poll>>
        /\ \A b \in Attempts \ {a} : w'[b] = w[b]
    BY <1>0, <1>1 DEF DeliverSummary, WriterStates
  <2>2. Writer(a)' BY <2>1 DEF Writer
  <2> QED BY <1>t, <1>o, <2>1, <2>2, QuietStep
<1>2. ASSUME NEW a \in Attempts, PatchRead(a) PROVE StoreInv'
  <2>1. /\ w'[a].pc = "build" /\ w'[a].base = Chosen(dep.proc[a])
        /\ UNCHANGED <<dep, db, mem, lock, poll>>
        /\ \A b \in Attempts \ {a} : w'[b] = w[b]
    BY <1>0, <1>2 DEF PatchRead, WriterStates
  <2>2. Writer(a)' BY <2>1, <1>o, <1>0 DEF Writer, Older
  <2> QED BY <1>t, <1>o, <2>1, <2>2, QuietStep
<1>3. ASSUME NEW a \in Attempts, PatchBuild(a) PROVE StoreInv'
  <2>1. /\ w'[a].pc = "lock" /\ UNCHANGED <<dep, db, lock, poll>>
        /\ \A b \in Attempts \ {a} : w'[b] = w[b]
        /\ mem' = [mem EXCEPT ![dep.proc[a]] = w[a].base]
    BY <1>0, <1>3 DEF PatchBuild, WriterStates
  <2>2. Writer(a)' BY <2>1 DEF Writer
  <2>3. Older(w[a].base) BY <1>o, <1>3 DEF PatchBuild, Writer
  <2>4. \A p \in Procs : Older(mem'[p]) BY <1>0, <1>o, <2>1, <2>3
  <2> QED BY <1>t, <1>o, <2>1, <2>2, <2>4, QuietStep
<1>4. ASSUME NEW a \in Attempts, Acquire(a) PROVE StoreInv'
  <2>1. /\ w'[a].pc = "read" /\ UNCHANGED <<dep, db, mem, poll>>
        /\ \A b \in Attempts \ {a} : w'[b] = w[b]
        /\ lock[dep.proc[a]] = NoOne /\ lock' = [lock EXCEPT ![dep.proc[a]] = a]
    BY <1>0, <1>4 DEF Acquire, Goto, WriterStates
  <2>2. Writer(a)' BY <2>1, <1>0 DEF Writer
  <2>3. \A b \in Attempts \ {a} : lock[dep.proc[b]] = b => lock'[dep.proc[b]] = b
    BY <2>1, <1>0, ResultStoreAssumption
  <2> QED BY <1>t, <1>o, <2>1, <2>2, <2>3, QuietStep
<1>5. ASSUME NEW a \in Attempts, Read(a) PROVE StoreInv'
  <2>1. /\ \/ w'[a].pc = "store" /\ w'[a].base = Chosen(dep.proc[a])
           \/ w'[a].pc = "check" /\ w'[a].base = mem[dep.proc[a]]
        /\ UNCHANGED <<dep, db, mem, lock, poll>>
        /\ \A b \in Attempts \ {a} : w'[b] = w[b]
    BY <1>0, <1>5 DEF Read, WriterStates
  <2>2. lock[dep.proc[a]] = a BY <1>o, <1>5 DEF Read, Writer
  <2>3. Writer(a)' BY <2>1, <2>2, <1>o, <1>0 DEF Writer, Older
  <2> QED BY <1>t, <1>o, <2>1, <2>3, QuietStep
<1>6. ASSUME NEW a \in Attempts, Store(a) PROVE StoreInv'
  <2>1. /\ w'[a].pc = "check" /\ w'[a].base = w[a].base
        /\ UNCHANGED <<dep, db, lock, poll>>
        /\ \A b \in Attempts \ {a} : w'[b] = w[b]
        /\ mem' = [mem EXCEPT ![dep.proc[a]] = w[a].base]
    BY <1>0, <1>6 DEF Store, Goto, WriterStates
  <2>2. Older(w[a].base) /\ lock[dep.proc[a]] = a BY <1>o, <1>6 DEF Store, Writer
  <2>3. Writer(a)' BY <2>1, <2>2 DEF Writer, Older
  <2>4. \A p \in Procs : Older(mem'[p]) BY <1>0, <1>o, <2>1, <2>2
  <2> QED BY <1>t, <1>o, <2>1, <2>3, <2>4, QuietStep
<1>7. ASSUME NEW a \in Attempts, Check(a) PROVE StoreInv'
  <2>1. CASE mem[dep.proc[a]].rev = w[a].base.rev
    <3>1. /\ w'[a].pc = "row" /\ w'[a].base = w[a].base
          /\ UNCHANGED <<dep, db, mem, lock, poll>>
          /\ \A b \in Attempts \ {a} : w'[b] = w[b]
      BY <1>0, <1>7, <2>1 DEF Check, Goto, WriterStates
    <3>2. Older(w[a].base) /\ lock[dep.proc[a]] = a BY <1>o, <1>7 DEF Check, Writer
    <3>3. Writer(a)' BY <3>1, <3>2 DEF Writer, Older
    <3> QED BY <1>t, <1>o, <3>1, <3>3, QuietStep
  <2>2. CASE ~(mem[dep.proc[a]].rev = w[a].base.rev)
    BY <1>t, <2>2, <1>7, RetryQuiet DEF Check
  <2> QED BY <2>1, <2>2
<1>8. ASSUME NEW a \in Attempts, ReadRow(a) PROVE StoreInv'
  <2>1. CASE SameRevision(a)
    <3>1. /\ w'[a].pc = "commit" /\ w'[a].base = w[a].base
          /\ UNCHANGED <<dep, db, mem, lock, poll>> /\ ~dep.atomic
          /\ \A b \in Attempts \ {a} : w'[b] = w[b]
      BY <1>0, <1>8, <2>1 DEF ReadRow, Goto, WriterStates
    <3>2. Older(w[a].base) /\ lock[dep.proc[a]] = a BY <1>o, <1>8 DEF ReadRow, Writer
    <3>3. Writer(a)' BY <2>1, <3>1, <3>2 DEF Writer, Older, SameRevision
    <3> QED BY <1>t, <1>o, <3>1, <3>3, QuietStep
  <2>2. CASE ~SameRevision(a)
    BY <1>t, <2>2, <1>8, RetryQuiet DEF ReadRow
  <2> QED BY <2>1, <2>2
<1>9. ASSUME NEW a \in Attempts, Commit(a) PROVE StoreInv'
  BY <1>9, <1>t, CommitStep
<1>10. ASSUME NEW a \in Attempts, NotCommitted(a) PROVE StoreInv'
  BY <1>10, <1>t, RetryQuiet DEF NotCommitted
<1>11. ASSUME NEW a \in Attempts, Keep(a) PROVE StoreInv'
  <2>1. /\ w'[a].pc = "idle" /\ UNCHANGED <<dep, db, poll>>
        /\ \A b \in Attempts \ {a} : w'[b] = w[b]
        /\ mem' = [mem EXCEPT ![dep.proc[a]] = NewBlob(a)]
        /\ lock' = [lock EXCEPT ![dep.proc[a]] = NoOne]
    BY <1>0, <1>11 DEF Keep, After, Idle
  <2>2. Older(NewBlob(a)) /\ lock[dep.proc[a]] = a BY <1>o, <1>11 DEF Keep, Writer
  <2>3. Writer(a)' BY <2>1 DEF Writer
  <2>4. \A p \in Procs : Older(mem'[p]) BY <1>0, <1>o, <2>1, <2>2
  <2>5. \A b \in Attempts \ {a} : lock[dep.proc[b]] = b => lock'[dep.proc[b]] = b
    BY <2>1, <2>2, <1>0
  <2> QED BY <1>t, <1>o, <2>1, <2>3, <2>4, <2>5, QuietStep
<1>12. ASSUME NEW r \in Polls, PollStep(r) PROVE StoreInv'
  <2>0. PollProc[r] \in Procs BY ResultStoreAssumption
  <2>1. UNCHANGED <<dep, db, lock, w>> BY <1>12 DEF PollStep, PollRead, PollStore
  <2>2. /\ \A p \in Procs : Older(mem'[p])
        /\ \A q \in Polls : \A b \in poll'[q] : Older(b)
    <3>1. CASE PollRead(r)
      <4>1. mem' = mem BY <3>1 DEF PollRead
      <4>2. PICK x : poll' = [poll EXCEPT ![r] = {x}] /\ Older(x)
        BY <3>1, <2>0, <1>o DEF PollRead
      <4> QED BY <4>1, <4>2, <1>0, <1>o
    <3>2. CASE PollStore(r)
      <4>1. PICK x \in poll[r] : mem' = [mem EXCEPT ![PollProc[r]] = x]
        BY <3>2 DEF PollStore
      <4>2. poll' = [poll EXCEPT ![r] = {}] BY <3>2 DEF PollStore
      <4> QED BY <4>1, <4>2, <1>0, <1>o
    <3> QED BY <3>1, <3>2, <1>12 DEF PollStep
  <2>3. \A a \in Attempts : Writer(a)'
    BY <2>1, <1>o DEF Writer, Older, NewBlob, SameRevision, Register!Extends,
       Register!NotBelow
  <2>4. /\ \A p \in Procs : Older(mem[p])'
        /\ \A q \in Polls : \A b \in poll'[q] : Older(b)'
    BY <2>1, <2>2 DEF Older
  <2> QED BY <1>t, <2>3, <2>4 DEF StoreInv
<1>13. CASE UNCHANGED vars
  BY <1>13, <1>o, <1>t DEF vars, StoreInv, Writer, Older, NewBlob, SameRevision,
     Register!Extends, Register!NotBelow
<1> QED BY <1>1, <1>2, <1>3, <1>4, <1>5, <1>6, <1>7, <1>8, <1>9, <1>10, <1>11,
           <1>12, <1>13 DEF Next, AttemptStep, UpdateStep

LEMMA Inductive == ASSUME SoundDeployments PROVE Spec => []StoreInv
<1>1. Init => StoreInv BY InitStoreInv
<1>2. StoreInv /\ [Next]_vars => StoreInv' BY StoreStep
<1> QED BY <1>1, <1>2, PTL DEF Spec

\* JOB_STATUSES never holds a result newer than the row's, nor another one under the
\* same revision.
THEOREM CachesBacked == ASSUME SoundDeployments PROVE Spec => []CacheBacked
<1>1. StoreInv => CacheBacked BY DEF StoreInv, CacheBacked, Older
<1> QED BY <1>1, Inductive, PTL

\* What update_result has acknowledged is in the row, whatever other threads, and
\* other processes with serializable transactions, write meanwhile.
THEOREM AckedPatchKept == ASSUME SoundDeployments PROVE Spec => []AckedKept
<1>1. ASSUME StoreInv, NEW a \in Attempts, w[a].pc = "keep"
      PROVE  HasPatch(db.val, w[a].patch)
  <2>1. /\ w[a].base.val \in Results /\ w[a].patch \in Results /\ db.val \in Results
    BY <1>1 DEF StoreInv, ResTypeOK, Blob
  <2>2. Register!Extends(db.val, Updated(w[a].base.val, w[a].patch))
    BY <1>1 DEF StoreInv, Writer, NewBlob
  <2> QED BY <2>1, <2>2, MergeType, MergeHasPatch, HasPatchKept
<1>2. StoreInv => AckedKept BY <1>1 DEF AckedKept, HasPatch
<1> QED BY <1>2, Inductive, PTL

\* The row implements the register: every step leaves it alone or is one write that
\* keeps what was there and counts one revision.
THEOREM RegisterImplemented == ASSUME SoundDeployments PROVE Spec => ImplementsRegister
<1>1. Init => Register!RInit BY DEF Init, NoResult, Nothing, Register!RInit
<1>2. ASSUME StoreInv, [Next]_vars PROVE [Register!Write]_<<db.val, db.rev>>
  <2>1. StoreInv' BY <1>2, StoreStep
  <2>2. ASSUME NEW a \in Attempts, Commit(a) PROVE Register!Write
    <3>1. db'.val \in Results BY <2>1 DEF StoreInv, ResTypeOK, Blob
    <3>2. Register!Extends(db'.val, db.val) /\ db'.rev = db.rev + 1
      BY <1>2, <2>1, <2>2, CommitStep DEF StoreInv
    <3> QED BY <3>1, <3>2 DEF Register!Write, Results
  <2>3. CASE \E a \in Attempts : Commit(a) BY <2>2, <2>3
  <2>4. CASE ~(\E a \in Attempts : Commit(a))
    <3>1. db' = db
      BY <1>2, <2>4 DEF Next, AttemptStep, UpdateStep, PollStep, DeliverSummary, PatchRead,
         PatchBuild, Acquire, Read, Store, Check, ReadRow, NotCommitted, Keep, PollRead,
         PollStore, vars
    <3> QED BY <3>1
  <2> QED BY <2>3, <2>4
<1> QED BY <1>1, <1>2, Inductive, PTL DEF Spec, ImplementsRegister, Register!RSpec

-----------------------------------------------------------------------------
(* What a tab holds *)

Revisions == [of : Nat, rev : Nat]
Snapshots == [job : Nat, blob : Revisions]

ReaderCalls == [pc : {"idle", "probe", "share", "waits", "list", "fetch", "answer"},
                force : BOOLEAN, cached : Nat, job : Jobs \cup {0}, got : Revisions,
                on : Readers \cup {"none"}]

TabCalls == [pc : {"off", "status", "sent", "prior", "join", "go", "answer", "refusal",
                   "got", "idle"},
             job : Jobs \cup {0}, first : BOOLEAN, ready : BOOLEAN,
             then : {"check", "finish"}, got : Revisions, on : Threads \cup {Nobody}]

ReaderTypes ==
    /\ flight \in Readers \cup {"none"}
    /\ reader \in [Readers -> ReaderCalls]
    /\ \A r \in Readers : reader[r].pc \in {"fetch", "answer"} => reader[r].job \in Jobs

StoreTypes ==
    /\ blob \in [Jobs -> Nat] /\ budget \in [Kinds -> Nat]
    /\ snapshot \in Snapshots /\ session \in Snapshots
    /\ ReaderTypes

PageTypes ==
    /\ job \in Jobs /\ effect \in Effects /\ moved \in BOOLEAN
    /\ shown \in Revisions /\ cache \in [Jobs -> Revisions]
    /\ inflight \in Threads \cup {Nobody}
    /\ thread \in [Threads -> TabCalls]
    /\ \A t \in Threads : thread[t].pc # "off" => thread[t].job \in Jobs

\* The page has left its first job, or two callers have waited for one request.
Past == moved \/ crowd
CrowdSeen == Crowding => crowd

LEMMA PlainFacts ==
    /\ 1 \in Effects /\ Nobody \notin Threads /\ First \in Jobs
    /\ Jobs \subseteq Nat /\ 0 \notin Jobs
    /\ None \in Revisions /\ NoSnap \in Snapshots /\ Off \in TabCalls
    /\ \A j \in Jobs : Opening(j) \in TabCalls
    /\ Asleep \in ReaderCalls
<1>1. 1 \in Effects
  <2>1. IsFiniteSet(Effects) /\ Effects # {} /\ Effects = 1..Cardinality(Effects)
        BY PageAssumption
  <2>2. Cardinality(Effects) \in Nat
        BY <2>1, FS_CardinalityType
  <2>3. PICK n \in Nat : Effects = 1..n
        BY <2>1, <2>2
  <2> QED BY <2>1, <2>3
<1>2. 0 \notin Effects
  <2>1. IsFiniteSet(Effects) /\ Effects = 1..Cardinality(Effects)
        BY PageAssumption
  <2>2. PICK n \in Nat : Effects = 1..n
        BY <2>1, FS_CardinalityType
  <2> QED BY <2>2
<1>3. Nobody \notin Threads
      BY <1>2, PageAssumption DEF Threads, Nobody
<1>4. First \in Jobs /\ Jobs \subseteq Nat /\ 0 \notin Jobs
      BY StoreAssumption DEF First
<1>5. None \in Revisions /\ NoSnap \in Snapshots
      BY DEF None, NoSnap, Revisions, Snapshots
<1>6. Off \in TabCalls
      BY <1>5 DEF Off, TabCalls
<1>7. ASSUME NEW j \in Jobs PROVE Opening(j) \in TabCalls
      BY <1>5, <1>7 DEF Off, Opening, TabCalls
<1>8. Asleep \in ReaderCalls
      BY <1>5 DEF Asleep, ReaderCalls
<1> QED BY <1>1, <1>3, <1>4, <1>5, <1>6, <1>7, <1>8

\* As long as the page stays on its first job, at most one request is out, whoever waits
\* waits for it, and its answer is not older than what is shown; what a poll is about to
\* finish with is what is shown already.
Flying == {"sent", "answer", "refusal"}
Waiting == {"join", "prior"}

OneJob ==
    /\ job = First /\ effect = 1
    /\ \A t \in Threads : thread[t].pc # "off" => thread[t].job = First /\ t \in Clicks \cup {1}

OneRequest ==
    /\ \A t \in Threads : thread[t].pc \in Flying => inflight = t
    /\ \A t \in Threads : thread[t].pc = "go" => inflight = Nobody
    /\ \A t, u \in Threads : thread[t].pc = "go" /\ thread[u].pc = "go" => t = u
    /\ \A t \in Threads : thread[t].pc \in Waiting => inflight # Nobody /\ thread[t].on = inflight
    /\ inflight # Nobody => thread[inflight].pc \in Flying

NothingOlder ==
    /\ cache[First] = shown /\ shown.rev <= blob[First]
    /\ \A t \in Threads : thread[t].pc = "answer" =>
          shown.rev <= thread[t].got.rev /\ thread[t].got.rev <= blob[First]
    /\ thread[1].pc = "got" => thread[1].got = shown

OnFirstJob == OneJob /\ OneRequest /\ NothingOlder

PageInv == PageTypes /\ (~Past => OnFirstJob)

-----------------------------------------------------------------------------
(* Changes of one thread *)

LEMMA GoesTo ==
    ASSUME PageTypes, NEW t \in Threads,
           NEW to \in {"off", "status", "sent", "prior", "join", "go", "answer", "refusal",
                       "got", "idle"}, Goes(t, to)
    PROVE  /\ thread' \in [Threads -> TabCalls]
           /\ thread'[t].pc = to /\ thread'[t].job = thread[t].job /\ thread'[t].got = thread[t].got
           /\ \A u \in Threads \ {t} : thread'[u] = thread[u]
<1>1. thread \in [Threads -> TabCalls] /\ thread[t] \in TabCalls
      BY DEF PageTypes
<1>2. thread' = [thread EXCEPT ![t].pc = to]
      BY DEF Goes
<1>3. [thread[t] EXCEPT !.pc = to] \in TabCalls
      BY <1>1 DEF TabCalls
<1>4. thread'[t] = [thread[t] EXCEPT !.pc = to]
      BY <1>1, <1>2
<1>5. \A u \in Threads \ {t} : thread'[u] = thread[u]
      BY <1>1, <1>2
<1>6. thread'[t].pc = to /\ thread'[t].job = thread[t].job /\ thread'[t].got = thread[t].got
      BY <1>1, <1>4 DEF TabCalls
<1>7. thread' = [thread EXCEPT ![t] = [thread[t] EXCEPT !.pc = to]]
      BY <1>1, <1>2
<1>8. thread' \in [Threads -> TabCalls]
      BY <1>1, <1>3, <1>7
<1> QED BY <1>5, <1>6, <1>8

\* A thread that asked for nothing goes where it asks for nothing.
LEMMA QuietChange ==
    ASSUME PageTypes, OnFirstJob, NEW t \in Threads, thread[t].pc \notin Flying,
           \A u \in Threads \ {t} : thread'[u] = thread[u],
           thread'[t].pc \in {"off", "status", "idle", "got"},
           thread'[t].pc # "off" => thread'[t].job = First /\ t \in Clicks \cup {1},
           thread'[t].pc = "got" => thread'[t].got = shown,
           shown' = shown, cache'[First] = cache[First], blob' = blob,
           job' = job, effect' = effect, inflight' = inflight
    PROVE  OnFirstJob'
<1>1. OneJob'
      BY DEF OnFirstJob, OneJob
<1>2. inflight # t
      BY PlainFacts DEF OnFirstJob, OneRequest
<1>3. inflight \in Threads \cup {Nobody}
      BY DEF PageTypes
<1>4. OneRequest'
      BY <1>2, <1>3 DEF OnFirstJob, OneRequest, Flying, Waiting
<1>5. NothingOlder'
  <2>1. 1 \in Threads
        BY PlainFacts DEF Threads
  <2> QED BY <2>1 DEF OnFirstJob, NothingOlder
<1> QED BY <1>1, <1>4, <1>5 DEF OnFirstJob

LEMMA WantsTypes ==
    ASSUME PageTypes, NEW t \in Threads, NEW fresh \in BOOLEAN, NEW th \in TabCalls,
           th.job \in Jobs, Wants(t, fresh, th)
    PROVE  /\ thread' \in [Threads -> TabCalls] /\ inflight' \in Threads \cup {Nobody}
           /\ thread'[t].job = th.job
           /\ \A u \in Threads \ {t} : thread'[u] = thread[u]
           /\ \/ inflight = Nobody /\ inflight' = t /\ thread'[t].pc = "sent"
              \/ /\ inflight # Nobody /\ inflight' = inflight
                 /\ thread'[t].pc \in Waiting /\ thread'[t].on = inflight
<1>1. thread \in [Threads -> TabCalls] /\ inflight \in Threads \cup {Nobody}
      BY DEF PageTypes
<1>2. CASE inflight = Nobody
  <2>1. thread' = [thread EXCEPT ![t] = [th EXCEPT !.pc = "sent"]] /\ inflight' = t
        BY <1>2 DEF Wants
  <2>2. [th EXCEPT !.pc = "sent"] \in TabCalls
        BY DEF TabCalls
  <2>3. thread'[t] = [th EXCEPT !.pc = "sent"] /\ \A u \in Threads \ {t} : thread'[u] = thread[u]
        BY <1>1, <2>1
  <2>4. thread'[t].pc = "sent" /\ thread'[t].job = th.job
        BY <2>3 DEF TabCalls
  <2> QED BY <1>1, <1>2, <2>1, <2>2, <2>3, <2>4
<1>3. CASE inflight # Nobody
  <2> DEFINE at == IF fresh THEN "prior" ELSE "join"
             new == [th EXCEPT !.pc = at, !.on = inflight]
  <2>1. thread' = [thread EXCEPT ![t] = new] /\ inflight' = inflight
        BY <1>3 DEF Wants
  <2>2. new \in TabCalls /\ new.pc \in Waiting /\ new.on = inflight /\ new.job = th.job
        BY <1>1 DEF TabCalls, Waiting
  <2>3. thread'[t] = new /\ \A u \in Threads \ {t} : thread'[u] = thread[u]
        BY <1>1, <2>1
  <2>4. thread' \in [Threads -> TabCalls]
        BY <1>1, <2>1, <2>2
  <2> HIDE DEF new
  <2> QED BY <1>1, <1>3, <2>1, <2>2, <2>3, <2>4
<1> QED BY <1>2, <1>3

\* A thread asks for a result while no other is about to.
LEMMA WantsKeeps ==
    ASSUME PageTypes, OnFirstJob, Gone, NEW t \in Clicks \cup {1}, thread[t].pc \notin Flying,
           NEW fresh \in BOOLEAN, NEW th \in TabCalls, th.job = First, Wants(t, fresh, th),
           shown' = shown, cache' = cache, blob' = blob, job' = job, effect' = effect
    PROVE  OnFirstJob'
<1>0. t \in Threads /\ 1 \in Threads /\ First \in Jobs /\ Nobody \notin Threads
      BY PlainFacts DEF Threads
<1>1. /\ thread'[t].job = First
      /\ \A u \in Threads \ {t} : thread'[u] = thread[u]
      /\ \/ inflight = Nobody /\ inflight' = t /\ thread'[t].pc = "sent"
         \/ /\ inflight # Nobody /\ inflight' = inflight
            /\ thread'[t].pc \in Waiting /\ thread'[t].on = inflight
      BY <1>0, WantsTypes
<1>2. OneJob'
      BY <1>1 DEF OnFirstJob, OneJob
<1>3. thread'[t].pc \notin {"answer", "got", "go"}
      BY <1>1 DEF Waiting
<1>4. NothingOlder'
      BY <1>0, <1>1, <1>3 DEF OnFirstJob, NothingOlder
<1>5. inflight # t /\ inflight \in Threads \cup {Nobody}
      BY <1>0 DEF OnFirstJob, OneRequest, PageTypes
<1>6. \A u \in Threads : thread[u].pc # "go"
      BY DEF Gone
<1>7. OneRequest'
  <2>1. CASE inflight = Nobody
        BY <1>0, <1>1, <1>6, <2>1 DEF OnFirstJob, OneRequest, Flying, Waiting
  <2>2. CASE inflight # Nobody
        BY <1>0, <1>1, <1>5, <1>6, <2>2 DEF OnFirstJob, OneRequest, Flying, Waiting
  <2> QED BY <2>1, <2>2
<1> QED BY <1>2, <1>4, <1>7 DEF OnFirstJob

-----------------------------------------------------------------------------
(* The store of the tab *)

SnapshotGrows ==
    snapshot # NoSnap /\ snapshot' # NoSnap /\ snapshot'.job = snapshot.job =>
        snapshot'.blob.rev >= snapshot.blob.rev

LEMMA SpendTypes ==
    ASSUME StoreTypes, NEW kind \in Kinds, Spend(kind)
    PROVE  budget' \in [Kinds -> Nat] /\ budget'[kind] # budget[kind]
<1>1. budget \in [Kinds -> Nat]
      BY DEF StoreTypes
<1>2. budget[kind] \in Nat /\ budget[kind] > 0 /\ budget' = [budget EXCEPT ![kind] = @ - 1]
      BY <1>1 DEF Spend
<1> QED BY <1>1, <1>2

\* Whatever is published: the snapshot of a job is replaced by a richer one only.
LEMMA PublishGrows ==
    ASSUME StoreTypes, NEW j \in Jobs, NEW b \in Revisions, Publish(j, b)
    PROVE  snapshot' \in Snapshots /\ session' \in Snapshots /\ SnapshotGrows
<1>0. Jobs \subseteq Nat
      BY PlainFacts
<1>1. snapshot \in Snapshots /\ session \in Snapshots /\ Peek \in Snapshots
      BY DEF StoreTypes, Peek
<1>2. PICK richer \in RicherThan(b, Peek.blob), kept \in BOOLEAN :
        LET snap == [job |-> j, blob |-> b]
        IN  IF ~HasDashboardMetrics(b) \/ snap = Peek \/ (Peek.job = j /\ ~richer)
            THEN /\ snapshot' = Peek
                 /\ UNCHANGED <<session, remembered>>
            ELSE /\ snapshot' = snap
                 /\ session' = IF kept THEN snap ELSE session
                 /\ remembered' = j
      BY DEF Publish
<1> DEFINE snap == [job |-> j, blob |-> b]
<1>3. snap \in Snapshots
      BY <1>0 DEF Snapshots
<1>4. b.rev \in Nat /\ Peek.blob.rev \in Nat /\ snapshot.blob.rev \in Nat
      BY <1>1 DEF Snapshots, Revisions
<1>5. CASE ~HasDashboardMetrics(b) \/ snap = Peek \/ (Peek.job = j /\ ~richer)
  <2>1. snapshot' = Peek /\ session' = session
        BY <1>2, <1>5
  <2>2. SnapshotGrows
        BY <1>4, <2>1 DEF SnapshotGrows, Peek
  <2> QED BY <1>1, <2>1, <2>2
<1>6. CASE ~(~HasDashboardMetrics(b) \/ snap = Peek \/ (Peek.job = j /\ ~richer))
  <2>1. snapshot' = snap /\ (session' = snap \/ session' = session)
        BY <1>2, <1>6
  <2>2. Peek.job = j => richer
        BY <1>6
  <2>3. Peek.job = j => b.rev >= Peek.blob.rev
    <3>1. ASSUME b.rev # Peek.blob.rev PROVE richer = (b.rev > Peek.blob.rev)
      <4>1. richer \in {b.rev > Peek.blob.rev}
            BY <1>2, <3>1 DEF RicherThan
      <4> QED BY <4>1, Zenon
    <3>2. CASE b.rev = Peek.blob.rev
          BY <1>4, <3>2
    <3>3. CASE b.rev # Peek.blob.rev
      <4>1. Peek.job = j => b.rev > Peek.blob.rev
            BY <2>2, <3>1, <3>3, Zenon
      <4> QED BY <1>4, <4>1
    <3> QED BY <3>2, <3>3
  <2>4. SnapshotGrows
        BY <2>1, <2>3 DEF SnapshotGrows, Peek
  <2> QED BY <1>1, <1>3, <2>1, <2>4
<1> QED BY <1>5, <1>6

LEMMA SnapshotStays ==
    ASSUME StoreTypes, snapshot' \in {snapshot, Peek, NoSnap}, session' \in {session, NoSnap}
    PROVE  snapshot' \in Snapshots /\ session' \in Snapshots /\ SnapshotGrows
<1>1. snapshot \in Snapshots /\ session \in Snapshots /\ NoSnap \in Snapshots
      BY PlainFacts DEF StoreTypes
<1>2. Peek \in Snapshots
      BY <1>1 DEF Peek
<1>3. snapshot.blob.rev \in Nat
      BY <1>1 DEF Snapshots, Revisions
<1>4. SnapshotGrows
      BY <1>3 DEF SnapshotGrows, Peek
<1> QED BY <1>1, <1>2, <1>4

LEMMA ResultType ==
    ASSUME StoreTypes, NEW j \in Jobs
    PROVE  Result(j) \in Revisions /\ Result(j).rev = blob[j]
BY PlainFacts DEF StoreTypes, Result, Revisions

LEMMA ReaderChange ==
    ASSUME ReaderTypes, NEW r \in Readers, NEW to \in ReaderCalls,
           to.pc \in {"fetch", "answer"} => to.job \in Jobs, ReaderGoes(r, to),
           flight' \in Readers \cup {"none"}
    PROVE  ReaderTypes'
BY DEF ReaderTypes, ReaderGoes

LEMMA ReaderReturns ==
    ASSUME ReaderTypes, NEW r \in Readers, Returns(r)
    PROVE  ReaderTypes'
<1>1. Asleep \in ReaderCalls /\ Asleep.pc \notin {"fetch", "answer"}
      BY PlainFacts DEF Asleep
<1>2. /\ reader' = [q \in Readers |-> IF q = r \/ reader[q].on = r THEN Asleep ELSE reader[q]]
      /\ flight' = "none"
      BY DEF Returns
<1> QED BY <1>1, <1>2 DEF ReaderTypes

\* Steps of the store's readers, of the server and of the owner.
LEMMA TabStoreStep ==
    ASSUME StoreTypes,
           \/ \E j \in Jobs : RowGoes(j) \/ BlobGoes(j)
           \/ \E r \in Readers : ReaderStep(r)
           \/ \E r \in Readers, force \in BOOLEAN : Ensure(r, force)
           \/ Clear
    PROVE  /\ StoreTypes' /\ SnapshotGrows
           /\ \A j \in Jobs : blob'[j] >= blob[j]
<1>0. /\ blob \in [Jobs -> Nat] /\ budget \in [Kinds -> Nat] /\ ReaderTypes
      /\ \A j \in Jobs : blob[j] >= blob[j]
      BY DEF StoreTypes, ReaderTypes
<1>k. {"upload", "lost", "ask", "owner", "fail", "purge"} \subseteq Kinds
      BY DEF Kinds
<1>1. ASSUME NEW j \in Jobs, RowGoes(j)
      PROVE  StoreTypes' /\ SnapshotGrows /\ \A i \in Jobs : blob'[i] >= blob[i]
  <2>1. budget' \in [Kinds -> Nat]
        BY <1>0, <1>1, <1>k, SpendTypes DEF RowGoes
  <2>2. UNCHANGED <<blob, snapshot, session, reader, flight>>
        BY <1>1 DEF RowGoes
  <2>3. SnapshotGrows
        BY <2>2, SnapshotStays
  <2> QED BY <1>0, <2>1, <2>2, <2>3 DEF StoreTypes, ReaderTypes
<1>2. ASSUME NEW j \in Jobs, BlobGoes(j)
      PROVE  StoreTypes' /\ SnapshotGrows /\ \A i \in Jobs : blob'[i] >= blob[i]
  <2>1. UNCHANGED <<budget, snapshot, session, reader, flight>> /\ blob' = [blob EXCEPT ![j] = @ + 1]
        BY <1>2 DEF BlobGoes
  <2>2. blob' \in [Jobs -> Nat] /\ \A i \in Jobs : blob'[i] >= blob[i]
        BY <1>0, <2>1
  <2>3. SnapshotGrows
        BY <2>1, SnapshotStays
  <2> QED BY <1>0, <2>1, <2>2, <2>3 DEF StoreTypes, ReaderTypes
<1>3. ASSUME NEW r \in Readers, ReaderStep(r)
      PROVE  StoreTypes' /\ SnapshotGrows /\ blob' = blob
  <2>0. /\ reader[r] \in ReaderCalls
        /\ reader[r].pc \in {"fetch", "answer"} => reader[r].job \in Jobs
        BY <1>0 DEF ReaderTypes
  <2>a. Asleep \in ReaderCalls /\ Asleep.pc = "idle"
        BY PlainFacts DEF Asleep
  <2>l. ASSUME NEW j, Listed(j) PROVE budget' \in [Kinds -> Nat]
        BY <1>0, <1>k, <2>l, SpendTypes DEF Listed, Lost
  <2>1. CASE Probe(r)
    <3>1. PICK j \in Jobs \cup {0} :
            /\ Listed(j)
            /\ ReaderGoes(r, IF j \in {0, reader[r].cached} THEN Asleep
                             ELSE [reader[r] EXCEPT !.pc = "share"])
          BY <2>1 DEF Probe
    <3>2. [reader[r] EXCEPT !.pc = "share"] \in ReaderCalls
          /\ [reader[r] EXCEPT !.pc = "share"].pc = "share"
          BY <2>0 DEF ReaderCalls
    <3>3. UNCHANGED <<blob, snapshot, session, flight>>
          BY <2>1 DEF Probe
    <3>4. flight' \in Readers \cup {"none"}
          BY <1>0, <3>3 DEF ReaderTypes
    <3>5. ReaderTypes'
      <4>1. CASE j \in {0, reader[r].cached}
            BY <1>0, <2>a, <3>1, <3>4, <4>1, ReaderChange
      <4>2. CASE j \notin {0, reader[r].cached}
            BY <1>0, <3>1, <3>2, <3>4, <4>2, ReaderChange
      <4> QED BY <4>1, <4>2
    <3>6. SnapshotGrows
          BY <3>3, SnapshotStays
    <3>7. budget' \in [Kinds -> Nat]
          BY <3>1, <2>l
    <3> QED BY <1>0, <3>3, <3>5, <3>6, <3>7 DEF StoreTypes
  <2>2. CASE Share(r)
    <3>1. UNCHANGED <<blob, snapshot, session, budget>>
          BY <2>2 DEF Share
    <3>2. ReaderTypes'
      <4>1. CASE flight # "none" /\ ~reader[r].force
        <5>1. ReaderGoes(r, [reader[r] EXCEPT !.pc = "waits", !.on = flight]) /\ flight' = flight
              BY <2>2, <4>1 DEF Share
        <5>2. flight \in Readers \cup {"none"}
              BY <1>0 DEF ReaderTypes
        <5>3. [reader[r] EXCEPT !.pc = "waits", !.on = flight] \in ReaderCalls
              /\ [reader[r] EXCEPT !.pc = "waits", !.on = flight].pc = "waits"
              BY <2>0, <5>2 DEF ReaderCalls
        <5> QED BY <1>0, <5>1, <5>2, <5>3, ReaderChange
      <4>2. CASE ~(flight # "none" /\ ~reader[r].force)
        <5>1. ReaderGoes(r, [reader[r] EXCEPT !.pc = "list"]) /\ flight' = r
              BY <2>2, <4>2 DEF Share
        <5>2. [reader[r] EXCEPT !.pc = "list"] \in ReaderCalls
              /\ [reader[r] EXCEPT !.pc = "list"].pc = "list"
              BY <2>0 DEF ReaderCalls
        <5> QED BY <1>0, <5>1, <5>2, ReaderChange
      <4> QED BY <4>1, <4>2
    <3>3. SnapshotGrows
          BY <3>1, SnapshotStays
    <3> QED BY <1>0, <3>1, <3>2, <3>3 DEF StoreTypes
  <2>3. CASE Choose(r)
    <3>1. PICK j \in Jobs \cup {0} :
            /\ Listed(j)
            /\ IF j = 0 \/ (~reader[r].force /\ Peek.job = j)
               THEN Returns(r)
               ELSE ReaderGoes(r, [reader[r] EXCEPT !.pc = "fetch", !.job = j]) /\ UNCHANGED flight
          BY <2>3 DEF Choose
    <3>2. snapshot' = Peek /\ UNCHANGED <<blob, session>>
          BY <2>3 DEF Choose
    <3>3. ReaderTypes'
      <4>1. CASE j = 0 \/ (~reader[r].force /\ Peek.job = j)
            BY <1>0, <3>1, <4>1, ReaderReturns
      <4>2. CASE ~(j = 0 \/ (~reader[r].force /\ Peek.job = j))
        <5>1. ReaderGoes(r, [reader[r] EXCEPT !.pc = "fetch", !.job = j]) /\ flight' = flight /\ j \in Jobs
              BY <3>1, <4>2
        <5>2. [reader[r] EXCEPT !.pc = "fetch", !.job = j] \in ReaderCalls
              /\ [reader[r] EXCEPT !.pc = "fetch", !.job = j].job = j
              BY <2>0 DEF ReaderCalls
        <5>3. flight' \in Readers \cup {"none"}
              BY <1>0, <5>1 DEF ReaderTypes
        <5> QED BY <1>0, <5>1, <5>2, <5>3, ReaderChange
      <4> QED BY <4>1, <4>2
    <3>4. SnapshotGrows /\ snapshot' \in Snapshots
          BY <3>2, SnapshotStays
    <3>5. budget' \in [Kinds -> Nat]
          BY <3>1, <2>l
    <3> QED BY <1>0, <3>2, <3>3, <3>4, <3>5 DEF StoreTypes
  <2>4. CASE Fetch(r)
    <3> DEFINE new == [reader[r] EXCEPT !.pc = "answer", !.got = Result(reader[r].job)]
    <3>1. /\ reader[r].job \in Jobs /\ ReaderGoes(r, new)
          /\ UNCHANGED <<blob, snapshot, session, flight, budget>>
          BY <2>0, <2>4 DEF Fetch
    <3>2. new \in ReaderCalls /\ new.job \in Jobs
          BY <2>0, <3>1, ResultType DEF ReaderCalls
    <3> HIDE DEF new
    <3>3. flight' \in Readers \cup {"none"}
          BY <1>0, <3>1 DEF ReaderTypes
    <3>4. ReaderTypes'
          BY <1>0, <3>1, <3>2, <3>3, ReaderChange
    <3>5. SnapshotGrows
          BY <3>1, SnapshotStays
    <3> QED BY <1>0, <3>1, <3>4, <3>5 DEF StoreTypes
  <2>5. CASE Fetched(r)
    <3>1. /\ reader[r].job \in Jobs /\ reader[r].got \in Revisions
          /\ Returns(r) /\ Publish(reader[r].job, reader[r].got) /\ UNCHANGED <<blob, budget>>
          BY <2>0, <2>5 DEF Fetched, ReaderCalls
    <3>2. ReaderTypes'
          BY <1>0, <3>1, ReaderReturns
    <3>3. snapshot' \in Snapshots /\ session' \in Snapshots /\ SnapshotGrows
          BY <3>1, PublishGrows
    <3> QED BY <1>0, <3>1, <3>2, <3>3 DEF StoreTypes
  <2>6. CASE NotFetched(r)
    <3>1. Returns(r) /\ (Lost \/ UNCHANGED budget) /\ UNCHANGED <<blob, snapshot, session>>
          BY <2>6 DEF NotFetched
    <3>2. ReaderTypes'
          BY <1>0, <3>1, ReaderReturns
    <3>3. budget' \in [Kinds -> Nat]
          BY <1>0, <1>k, <3>1, SpendTypes DEF Lost
    <3>4. SnapshotGrows
          BY <3>1, SnapshotStays
    <3> QED BY <1>0, <3>1, <3>2, <3>3, <3>4 DEF StoreTypes
  <2> QED BY <1>3, <2>1, <2>2, <2>3, <2>4, <2>5, <2>6 DEF ReaderStep
<1>4. ASSUME NEW r \in Readers, NEW force \in BOOLEAN, Ensure(r, force)
      PROVE  StoreTypes' /\ SnapshotGrows /\ blob' = blob
  <2>1. /\ snapshot' = Peek /\ UNCHANGED <<blob, session, flight>> /\ Spend("ask")
        /\ \/ UNCHANGED reader
           \/ Peek # NoSnap /\ ReaderGoes(r, [Asleep EXCEPT !.pc = "probe", !.cached = Peek.job])
           \/ ReaderGoes(r, [Asleep EXCEPT !.pc = "share", !.force = force])
        BY <1>4 DEF Ensure
  <2>2. SnapshotGrows /\ snapshot' \in Snapshots /\ budget' \in [Kinds -> Nat]
        BY <1>k, <2>1, SnapshotStays, SpendTypes
  <2>3. Peek \in Snapshots /\ Peek.job \in Nat /\ None \in Revisions
        BY PlainFacts DEF StoreTypes, Peek, Snapshots
  <2>4. /\ [Asleep EXCEPT !.pc = "probe", !.cached = Peek.job] \in ReaderCalls
        /\ [Asleep EXCEPT !.pc = "share", !.force = force] \in ReaderCalls
        /\ [Asleep EXCEPT !.pc = "probe", !.cached = Peek.job].pc = "probe"
        /\ [Asleep EXCEPT !.pc = "share", !.force = force].pc = "share"
        BY <2>3 DEF Asleep, ReaderCalls
  <2>5. flight' \in Readers \cup {"none"}
        BY <1>0, <2>1 DEF ReaderTypes
  <2>6. ReaderTypes'
    <3>1. CASE UNCHANGED reader
          BY <1>0, <2>5, <3>1 DEF ReaderTypes
    <3>2. CASE ReaderGoes(r, [Asleep EXCEPT !.pc = "probe", !.cached = Peek.job])
          BY <1>0, <2>4, <2>5, <3>2, ReaderChange
    <3>3. CASE ReaderGoes(r, [Asleep EXCEPT !.pc = "share", !.force = force])
          BY <1>0, <2>4, <2>5, <3>3, ReaderChange
    <3> QED BY <2>1, <3>1, <3>2, <3>3
  <2> QED BY <1>0, <2>1, <2>2, <2>6 DEF StoreTypes
<1>5. ASSUME Clear
      PROVE  StoreTypes' /\ SnapshotGrows /\ blob' = blob
  <2>1. /\ snapshot' = NoSnap /\ session' = NoSnap /\ flight' = "none" /\ Spend("owner")
        /\ UNCHANGED <<blob, reader>>
        BY <1>5 DEF Clear
  <2>2. SnapshotGrows /\ budget' \in [Kinds -> Nat] /\ NoSnap \in Snapshots
        BY <1>k, <2>1, SnapshotStays, SpendTypes, PlainFacts
  <2> QED BY <1>0, <2>1, <2>2 DEF StoreTypes, ReaderTypes
<1>6. blob' = blob => \A j \in Jobs : blob'[j] >= blob[j]
      BY <1>0
<1>7. CASE \E j \in Jobs : RowGoes(j) \/ BlobGoes(j)
      BY <1>1, <1>2, <1>7
<1>8. CASE \E r \in Readers : ReaderStep(r)
      BY <1>3, <1>6, <1>8
<1>9. CASE \E r \in Readers, force \in BOOLEAN : Ensure(r, force)
      BY <1>4, <1>6, <1>9
<1>10. CASE Clear
      BY <1>5, <1>6, <1>10
<1> QED BY <1>7, <1>8, <1>9, <1>10

LEMMA StoreStill ==
    ASSUME StoreTypes, UNCHANGED <<blob, snapshot, session, flight, reader>>,
           budget' \in [Kinds -> Nat]
    PROVE  StoreTypes' /\ SnapshotGrows
<1>1. SnapshotGrows
      BY SnapshotStays
<1> QED BY <1>1 DEF StoreTypes, ReaderTypes

LEMMA StorePublishes ==
    ASSUME StoreTypes, NEW j \in Jobs, NEW b \in Revisions, Publish(j, b),
           UNCHANGED <<blob, flight, reader>>, budget' \in [Kinds -> Nat]
    PROVE  StoreTypes' /\ SnapshotGrows
BY PublishGrows DEF StoreTypes, ReaderTypes

-----------------------------------------------------------------------------
(* Every step of the page keeps the invariant, and what is shown grows *)

ShownGrows == ~Past' => shown'.rev >= shown.rev

StepGood == StoreTypes' /\ PageInv' /\ SnapshotGrows /\ ShownGrows

LEMMA ShownStays ==
    ASSUME PageInv, shown' = shown
    PROVE  ShownGrows
BY DEF ShownGrows, PageInv, PageTypes, Revisions

LEMMA ActiveThread ==
    ASSUME PageInv, NEW t \in Threads, thread[t].pc # "off"
    PROVE  /\ thread[t].job \in Jobs
           /\ ~Past => thread[t].job = First /\ t \in Clicks \cup {1}
BY DEF PageInv, PageTypes, OnFirstJob, OneJob

\* The store moves on its own.
LEMMA PageStill ==
    ASSUME Past => Past', StoreTypes, PageInv, UNCHANGED pageVars,
           \A j \in Jobs : blob'[j] >= blob[j], blob' \in [Jobs -> Nat]
    PROVE  PageInv' /\ ShownGrows
<1>1. PageTypes' /\ ShownGrows
      BY ShownStays DEF PageInv, PageTypes, pageVars
<1>2. ASSUME ~Past' PROVE OnFirstJob'
  <2>1. OnFirstJob /\ UNCHANGED <<job, shown, cache, effect, inflight, thread>>
        BY <1>2 DEF PageInv, pageVars
  <2>2. First \in Jobs /\ blob[First] \in Nat /\ blob'[First] \in Nat /\ blob'[First] >= blob[First]
        BY PlainFacts DEF StoreTypes
  <2>3. shown.rev \in Nat /\ \A t \in Threads : thread[t].got.rev \in Nat
        BY DEF PageInv, PageTypes, TabCalls, Revisions
  <2>4. OneJob' /\ OneRequest'
        BY <2>1 DEF OnFirstJob, OneJob, OneRequest
  <2>5. NothingOlder'
        BY <2>1, <2>2, <2>3 DEF OnFirstJob, NothingOlder
  <2> QED BY <2>4, <2>5 DEF OnFirstJob
<1> QED BY <1>1, <1>2 DEF PageInv

LEMMA RequestGood ==
    ASSUME Past => Past', StoreTypes, PageInv, NEW t \in Threads, Request(t)
    PROVE  StepGood
<1>1. /\ thread[t].pc = "go" /\ Goes(t, "sent") /\ inflight' = t
      /\ UNCHANGED <<storeVars, job, shown, cache, effect, moved>>
      BY DEF Request
<1>2. PageTypes /\ Nobody \notin Threads
      BY PlainFacts DEF PageInv
<1>3. /\ thread' \in [Threads -> TabCalls] /\ thread'[t].pc = "sent"
      /\ thread'[t].job = thread[t].job /\ \A u \in Threads \ {t} : thread'[u] = thread[u]
      BY <1>1, <1>2, GoesTo
<1>4. thread[t].job \in Jobs /\ (~Past => thread[t].job = First /\ t \in Clicks \cup {1})
      BY <1>1, ActiveThread
<1>5. PageTypes'
      BY <1>1, <1>2, <1>3, <1>4 DEF PageTypes
<1>6. ASSUME ~Past' PROVE OnFirstJob'
  <2>1. OnFirstJob /\ UNCHANGED <<job, shown, cache, effect, blob>>
        BY <1>1, <1>6 DEF PageInv, storeVars
  <2>2. OneJob'
        BY <1>1, <1>3, <1>4, <2>1 DEF OnFirstJob, OneJob
  <2>3. inflight = Nobody /\ \A u \in Threads : thread[u].pc \notin Flying \cup Waiting
        BY <1>1, <1>2, <2>1 DEF OnFirstJob, OneRequest
  <2>4. OneRequest'
        BY <1>1, <1>2, <1>3, <2>1, <2>3 DEF OnFirstJob, OneRequest, Flying, Waiting
  <2>5. NothingOlder'
        BY <1>3, <2>1, PlainFacts DEF OnFirstJob, NothingOlder, Threads
  <2> QED BY <2>2, <2>4, <2>5 DEF OnFirstJob
<1>7. StoreTypes' /\ SnapshotGrows
      BY <1>1, StoreStill DEF storeVars, StoreTypes
<1> QED BY <1>1, <1>5, <1>6, <1>7, ShownStays DEF StepGood, PageInv

LEMMA ServeGood ==
    ASSUME Past => Past', StoreTypes, PageInv, NEW t \in Threads, Serve(t)
    PROVE  StepGood
<1> DEFINE j == thread[t].job
<1>1. /\ thread[t].pc = "sent"
      /\ UNCHANGED <<blob, snapshot, session, flight, reader, job, shown, cache, effect, inflight, moved>>
      BY DEF Serve
<1>2. PageTypes /\ thread \in [Threads -> TabCalls] /\ thread[t] \in TabCalls
      BY DEF PageInv, PageTypes
<1>3. j \in Jobs /\ (~Past => j = First /\ t \in Clicks \cup {1})
      BY <1>1, ActiveThread
<1>4. Result(j) \in Revisions /\ Result(j).rev = blob[j] /\ blob[j] \in Nat
      BY <1>3, ResultType DEF StoreTypes
<1>5. /\ thread' \in [Threads -> TabCalls] /\ thread'[t].job = j
      /\ \A u \in Threads \ {t} : thread'[u] = thread[u]
      /\ \/ thread'[t].pc = "answer" /\ thread'[t].got = Result(j)
         \/ thread'[t].pc = "refusal"
  <2>1. CASE thread' = [thread EXCEPT ![t].pc = "answer", ![t].got = Result(j)]
    <3> DEFINE new == [thread[t] EXCEPT !.pc = "answer", !.got = Result(j)]
    <3>1. new \in TabCalls /\ new.pc = "answer" /\ new.got = Result(j) /\ new.job = j
          BY <1>2, <1>4 DEF TabCalls
    <3>2. thread' = [thread EXCEPT ![t] = new]
          BY <1>2, <2>1
    <3> HIDE DEF new
    <3> QED BY <1>2, <3>1, <3>2
  <2>2. CASE Goes(t, "refusal")
        BY <1>2, <2>2, GoesTo
  <2> QED BY <2>1, <2>2 DEF Serve
<1>6. PageTypes'
      BY <1>1, <1>2, <1>3, <1>5 DEF PageTypes
<1>7. ASSUME ~Past' PROVE OnFirstJob'
  <2>1. OnFirstJob /\ j = First
        BY <1>1, <1>3, <1>7 DEF PageInv
  <2>2. OneJob'
        BY <1>1, <1>3, <1>5, <1>7, <2>1 DEF OnFirstJob, OneJob
  <2>3. OneRequest'
        BY <1>1, <1>5, <2>1 DEF OnFirstJob, OneRequest, Flying, Waiting
  <2>4. NothingOlder'
        BY <1>1, <1>4, <1>5, <2>1, PlainFacts DEF OnFirstJob, NothingOlder, Threads
  <2> QED BY <2>2, <2>3, <2>4 DEF OnFirstJob
<1>8. budget' \in [Kinds -> Nat]
  <2>1. "lost" \in Kinds /\ budget \in [Kinds -> Nat]
        BY DEF Kinds, StoreTypes
  <2>2. UNCHANGED budget \/ Lost
        BY DEF Serve
  <2> QED BY <2>1, <2>2, SpendTypes DEF Lost
<1>9. StoreTypes' /\ SnapshotGrows
      BY <1>1, <1>8, StoreStill
<1> QED BY <1>1, <1>6, <1>7, <1>9, ShownStays DEF StepGood, PageInv

\* An answer is not older than what is shown; whoever waited for it gets what is shown
\* from now on, or sends the next request.
LEMMA AnswerGood ==
    ASSUME Past => Past', CrowdSeen, StoreTypes, PageInv, Settled, NEW t \in Threads, Answer(t)
    PROVE  StepGood
<1> DEFINE j == thread[t].job
           value == IF thread[t].pc = "answer" THEN thread[t].got ELSE shown
<1>1. thread[t].pc \in Flying /\ UNCHANGED <<blob, flight, reader, budget, job, effect, moved>>
      BY DEF Answer, Flying
<1>2. /\ PageTypes /\ thread \in [Threads -> TabCalls] /\ shown \in Revisions
      /\ cache \in [Jobs -> Revisions] /\ \A u \in Threads : thread[u].got \in Revisions
      BY DEF PageInv, PageTypes, TabCalls
<1>3. j \in Jobs /\ (~Past => j = First /\ t \in Clicks \cup {1})
      BY <1>1, ActiveThread DEF Flying
<1>4. Resolve(t, value) /\ shown' = value /\ value \in Revisions
      BY <1>2 DEF Answer, Applied, NotApplied
<1> HIDE DEF value
<1>5. /\ inflight' = Nobody
      /\ thread' = [u \in Threads |->
            IF u = t \/ (thread[u].pc = "join" /\ thread[u].on = t)
            THEN [thread[u] EXCEPT !.pc = "got", !.got = value, !.on = Nobody]
            ELSE IF thread[u].pc = "prior" /\ thread[u].on = t
            THEN [thread[u] EXCEPT !.pc = "go", !.on = Nobody]
            ELSE thread[u]]
  <2>1. Resolve(t, value)
        BY <1>4
  <2> QED BY <2>1, Zenon DEF Resolve
<1>6. ASSUME NEW u \in Threads
      PROVE  /\ thread'[u] \in TabCalls /\ thread'[u].job = thread[u].job
             /\ \/ /\ u = t \/ (thread[u].pc = "join" /\ thread[u].on = t)
                   /\ thread'[u].pc = "got" /\ thread'[u].got = value
                \/ u # t /\ thread[u].pc = "prior" /\ thread[u].on = t /\ thread'[u].pc = "go"
                \/ /\ u # t /\ (thread[u].pc \in Waiting => thread[u].on # t)
                   /\ thread'[u] = thread[u]
  <2>0. thread[u] \in TabCalls
        BY <1>2
  <2>1. CASE u = t \/ (thread[u].pc = "join" /\ thread[u].on = t)
    <3>1. thread'[u] = [thread[u] EXCEPT !.pc = "got", !.got = value, !.on = Nobody]
          BY <1>5, <2>1
    <3> QED BY <1>4, <2>0, <2>1, <3>1 DEF TabCalls
  <2>2. CASE u # t /\ thread[u].pc = "prior" /\ thread[u].on = t
    <3>1. ~(u = t \/ (thread[u].pc = "join" /\ thread[u].on = t))
          BY <2>2
    <3>2. thread'[u] = [thread[u] EXCEPT !.pc = "go", !.on = Nobody]
          BY <1>5, <2>2, <3>1, Zenon
    <3> QED BY <2>0, <2>2, <3>2 DEF TabCalls
  <2>3. CASE u # t /\ (thread[u].pc \in Waiting => thread[u].on # t)
    <3>1. thread'[u] = thread[u]
          BY <1>5, <2>3 DEF Waiting
    <3> QED BY <2>0, <2>3, <3>1
  <2> QED BY <2>1, <2>2, <2>3 DEF Waiting
<1>7. thread' \in [Threads -> TabCalls]
  <2>1. thread' = [u \in Threads |-> thread'[u]]
        BY <1>5, Zenon
  <2> QED BY <1>6, <2>1
<1>8. cache' \in [Jobs -> Revisions] /\ (j = First => cache'[First] = cache[First] \/ cache'[First] = value)
      BY <1>2, <1>3, <1>4, PlainFacts DEF Answer, Applied, NotApplied, value
<1>9. PageTypes'
  <2>1. \A u \in Threads : thread'[u].pc # "off" => thread'[u].job \in Jobs
    <3>1. ASSUME NEW u \in Threads, thread'[u].pc # "off" PROVE thread'[u].job \in Jobs
      <4>1. thread[u].pc # "off"
        <5>1. CASE u = t
              BY <1>1, <5>1 DEF Flying
        <5>2. CASE u # t
          <6>1. thread'[u] = thread[u] \/ thread[u].pc \in {"join", "prior"}
                BY <1>6, <5>2
          <6> QED BY <3>1, <6>1
        <5> QED BY <5>1, <5>2
      <4> QED BY <1>6, <4>1, ActiveThread
    <3> QED BY <3>1
  <2>2. job' \in Jobs /\ effect' \in Effects /\ moved' \in BOOLEAN
        BY <1>1, <1>2 DEF PageTypes
  <2>3. shown' \in Revisions /\ inflight' \in Threads \cup {Nobody}
        BY <1>4, <1>5
  <2> QED BY <1>7, <1>8, <2>1, <2>2, <2>3 DEF PageTypes
<1>10. ASSUME ~Past' PROVE OnFirstJob' /\ shown'.rev >= shown.rev
  <2>1. OnFirstJob /\ j = First /\ t \in Clicks \cup {1} /\ inflight = t
        BY <1>1, <1>3, <1>10 DEF PageInv, OnFirstJob, OneRequest
  <2>2. \A u \in Threads : thread[u].pc \notin {"go", "got"}
        BY DEF Settled, Gone
  <2>3. ASSUME NEW u \in Threads
        PROVE  \/ thread'[u].pc = "got" /\ thread'[u].got = value
               \/ u # t /\ thread[u].pc # "off" /\ thread'[u].pc = "go"
               \/ /\ thread'[u].pc = thread[u].pc
                  /\ thread'[u].pc \notin Flying \cup Waiting \cup {"go", "got"}
    <3>1. thread[u].pc \in Flying => u = t
          BY <2>1 DEF OnFirstJob, OneRequest
    <3>2. thread[u].pc \in Waiting => thread[u].on = t
          BY <2>1 DEF OnFirstJob, OneRequest
    <3>3. \/ thread'[u].pc = "got" /\ thread'[u].got = value
          \/ u # t /\ thread[u].pc = "prior" /\ thread'[u].pc = "go"
          \/ u # t /\ thread[u].pc \notin Waiting /\ thread'[u] = thread[u]
          BY <1>6, <3>2
    <3>4. u # t /\ thread[u].pc \notin Waiting /\ thread'[u] = thread[u] =>
             thread'[u].pc = thread[u].pc
             /\ thread'[u].pc \notin Flying \cup Waiting \cup {"go", "got"}
          BY <2>2, <3>1
    <3> QED BY <3>3, <3>4
  <2>4. OneJob'
    <3>1. ASSUME NEW u \in Threads, thread'[u].pc # "off"
          PROVE  thread'[u].job = First /\ u \in Clicks \cup {1}
      <4>1. thread[u].pc # "off"
        <5>1. CASE u = t
              BY <1>1, <5>1 DEF Flying
        <5>2. CASE u # t
          <6>1. thread'[u] = thread[u] \/ thread[u].pc \in {"join", "prior"}
                BY <1>6, <5>2
          <6> QED BY <3>1, <6>1
        <5> QED BY <5>1, <5>2
      <4> QED BY <1>6, <2>1, <4>1 DEF OnFirstJob, OneJob
    <3> QED BY <1>1, <2>1, <3>1 DEF OnFirstJob, OneJob
  <2>5. ASSUME NEW u \in Threads, NEW v \in Threads, thread'[u].pc = "go", thread'[v].pc = "go"
        PROVE  u = v
    <3>1. /\ thread[u].pc = "prior" /\ thread[u].on = t
          /\ thread[v].pc = "prior" /\ thread[v].on = t
          BY <1>6, <2>2, <2>5
    <3>2. ~Crowding
          BY <1>10 DEF CrowdSeen, Past
    <3> QED BY <3>1, <3>2 DEF Crowding
  <2>6. OneRequest'
    <3>1. \A u \in Threads : thread'[u].pc \notin Flying \cup Waiting
          BY <2>3 DEF Flying, Waiting
    <3>2. inflight' = Nobody
          BY <1>5
    <3> QED BY <2>5, <3>1, <3>2 DEF OneRequest
  <2>7. /\ shown.rev \in Nat /\ value.rev \in Nat /\ blob[First] \in Nat
        BY <1>2, <1>4, PlainFacts DEF StoreTypes, Revisions
  <2>8. value.rev <= blob[First] /\ value.rev >= shown.rev
        BY <2>1, <2>7 DEF OnFirstJob, NothingOlder, value
  <2>9. cache'[First] = value
        BY <1>2, <1>3, <1>4, <2>1 DEF Answer, Applied, NotApplied, OnFirstJob, NothingOlder, value
  <2>10. NothingOlder'
        BY <1>1, <1>4, <2>3, <2>8, <2>9, PlainFacts DEF NothingOlder, Flying, Threads
  <2> QED BY <1>4, <2>4, <2>6, <2>8, <2>10 DEF OnFirstJob
<1>11. StoreTypes' /\ SnapshotGrows
  <2>1. budget' \in [Kinds -> Nat]
        BY <1>1 DEF StoreTypes
  <2>2. Publish(j, thread[t].got) \/ UNCHANGED <<snapshot, session>>
        BY DEF Answer, Applied, NotApplied
  <2>3. CASE Publish(j, thread[t].got)
        BY <1>1, <1>2, <1>3, <2>1, <2>3, StorePublishes
  <2>4. CASE UNCHANGED <<snapshot, session>>
        BY <1>1, <2>1, <2>4, StoreStill
  <2> QED BY <2>2, <2>3, <2>4
<1> QED BY <1>9, <1>10, <1>11 DEF StepGood, PageInv, ShownGrows

-----------------------------------------------------------------------------
(* The effect and the user *)

\* A step that changes one thread, and nothing of what is shown.
LEMMA QuietGood ==
    ASSUME Past => Past', PageInv, NEW t \in Threads, thread[t].pc \notin Flying,
           thread' \in [Threads -> TabCalls],
           \A u \in Threads \ {t} : thread'[u] = thread[u],
           thread'[t].pc \in {"off", "status", "idle", "got"},
           thread'[t].pc # "off" => thread[t].pc # "off" /\ thread'[t].job = thread[t].job,
           ~Past /\ thread'[t].pc = "got" => thread'[t].got = shown,
           UNCHANGED <<blob, job, shown, cache, effect, inflight, moved>>
    PROVE  PageInv' /\ ShownGrows
<1>1. thread[t].pc # "off" =>
         thread[t].job \in Jobs /\ (~Past => thread[t].job = First /\ t \in Clicks \cup {1})
      BY ActiveThread
<1>2. PageTypes'
      BY <1>1 DEF PageInv, PageTypes
<1>3. ASSUME ~Past' PROVE OnFirstJob'
  <2>1. PageTypes /\ OnFirstJob /\ ~Past
        BY <1>3 DEF PageInv
  <2>2. thread'[t].pc # "off" => thread'[t].job = First /\ t \in Clicks \cup {1}
        BY <1>1, <2>1
  <2> QED BY <2>1, <2>2, QuietChange
<1> QED BY <1>2, <1>3, ShownStays DEF PageInv

LEMMA QuietGoes ==
    ASSUME Past => Past', PageInv, NEW t \in Threads, thread[t].pc \notin Flying \cup {"off"},
           NEW to \in {"off", "status", "idle"}, Goes(t, to),
           UNCHANGED <<blob, job, shown, cache, effect, inflight, moved>>
    PROVE  PageInv' /\ ShownGrows
<1>1. PageTypes /\ thread[t].pc \notin Flying
      BY DEF PageInv
<1>2. /\ thread' \in [Threads -> TabCalls] /\ thread'[t].pc = to
      /\ thread'[t].job = thread[t].job /\ \A u \in Threads \ {t} : thread'[u] = thread[u]
      BY <1>1, GoesTo
<1> QED BY <1>1, <1>2, QuietGood

LEMMA WantsGood ==
    ASSUME Past => Past', PageInv, Gone, NEW t \in Threads, thread[t].pc \notin Flying,
           NEW fresh \in BOOLEAN, NEW th \in TabCalls, th.job \in Jobs,
           ~Past => th.job = First /\ t \in Clicks \cup {1},
           Wants(t, fresh, th), UNCHANGED <<blob, job, shown, cache, effect, moved>>
    PROVE  PageInv' /\ ShownGrows
<1>1. PageTypes
      BY DEF PageInv
<1>2. /\ thread' \in [Threads -> TabCalls] /\ inflight' \in Threads \cup {Nobody}
      /\ thread'[t].job = th.job /\ \A u \in Threads \ {t} : thread'[u] = thread[u]
      BY <1>1, WantsTypes
<1>3. PageTypes'
      BY <1>1, <1>2 DEF PageTypes
<1>4. ASSUME ~Past' PROVE OnFirstJob'
  <2>1. OnFirstJob /\ th.job = First /\ t \in Clicks \cup {1}
        BY <1>4 DEF PageInv
  <2> QED BY <1>1, <2>1, WantsKeeps
<1> QED BY <1>3, <1>4, ShownStays DEF PageInv

LEMMA StatusGood ==
    ASSUME Past => Past', StoreTypes, PageInv, Settled, NEW e \in Effects, Status(e)
    PROVE  StepGood
<1> DEFINE ready == row[thread[e].job] = "search"
           th == [thread[e] EXCEPT !.ready = ready, !.then = "check", !.got = None]
<1>1. /\ thread[e].pc = "status" /\ e \in Threads
      /\ UNCHANGED <<blob, snapshot, session, flight, reader, job, shown, cache, effect, moved>>
      BY DEF Status, Threads
<1>2. thread[e] \in TabCalls /\ thread[e].pc \notin Flying \cup {"off"}
      BY <1>1 DEF PageInv, PageTypes, Flying
<1>3. thread[e].job \in Jobs /\ (~Past => thread[e].job = First /\ e \in Clicks \cup {1})
      BY <1>1, ActiveThread
<1>4. th \in TabCalls /\ th.job = thread[e].job
      BY <1>2, PlainFacts DEF TabCalls
<1>5. (thread[e].first \/ ready) \in BOOLEAN /\ Gone
      BY DEF Settled
<1> HIDE DEF th
<1>6. \/ Goes(e, "off") /\ UNCHANGED <<inflight, budget>>
      \/ Goes(e, "idle") /\ UNCHANGED <<inflight, budget>>
      \/ Wants(e, thread[e].first \/ ready, th) /\ UNCHANGED budget
      \/ Lost /\ Goes(e, "idle") /\ UNCHANGED inflight
      BY DEF Status, Stops, Fails, Idles, th
<1>7. PageInv' /\ ShownGrows
  <2>1. CASE Goes(e, "off") /\ UNCHANGED inflight
        BY <1>1, <1>2, <2>1, QuietGoes
  <2>2. CASE Goes(e, "idle") /\ UNCHANGED inflight
        BY <1>1, <1>2, <2>2, QuietGoes
  <2>3. CASE Wants(e, thread[e].first \/ ready, th)
    <3>1. thread[e].pc \notin Flying
          BY <1>2
    <3> HIDE DEF ready
    <3> QED BY <1>1, <1>3, <1>4, <1>5, <2>3, <3>1, WantsGood
  <2> QED BY <1>6, <2>1, <2>2, <2>3
<1>8. budget' \in [Kinds -> Nat]
  <2>1. "lost" \in Kinds /\ budget \in [Kinds -> Nat]
        BY DEF Kinds, StoreTypes
  <2> QED BY <1>6, <2>1, SpendTypes DEF Lost
<1>9. StoreTypes' /\ SnapshotGrows
      BY <1>1, <1>8, StoreStill
<1> QED BY <1>7, <1>9 DEF StepGood

LEMMA FetchNotDueGood ==
    ASSUME Past => Past', StoreTypes, PageInv, NEW e \in Effects, FetchNotDue(e)
    PROVE  StepGood
<1> DEFINE known == IF cache[thread[e].job] # None THEN cache[thread[e].job] ELSE shown
           new == [thread[e] EXCEPT !.pc = "got", !.ready = FALSE, !.then = "check", !.got = known]
<1>1. /\ thread[e].pc = "status" /\ e \in Threads
      /\ thread' = [thread EXCEPT ![e].pc = "got", ![e].ready = FALSE, ![e].then = "check",
                                  ![e].got = known]
      /\ UNCHANGED <<storeVars, job, shown, cache, effect, inflight, moved>>
      BY DEF FetchNotDue, Threads
<1>2. /\ thread \in [Threads -> TabCalls] /\ thread[e] \in TabCalls
      /\ thread[e].pc \notin Flying \cup {"off"}
      BY <1>1 DEF PageInv, PageTypes, Flying
<1>3. thread[e].job \in Jobs /\ (~Past => thread[e].job = First)
      BY <1>1, ActiveThread
<1>4. known \in Revisions
      BY <1>3 DEF PageInv, PageTypes
<1>5. ~Past => known = shown
      BY <1>3 DEF PageInv, OnFirstJob, NothingOlder
<1> HIDE DEF known
<1>6. new \in TabCalls /\ new.pc = "got" /\ new.got = known /\ new.job = thread[e].job
      BY <1>2, <1>4 DEF TabCalls
<1>7. thread' = [thread EXCEPT ![e] = new]
  <2>1. thread'[e] = new
        BY <1>1, <1>2 DEF TabCalls
  <2>2. \A u \in Threads \ {e} : thread'[u] = thread[u]
        BY <1>1, <1>2
  <2>3. thread' = [u \in Threads |-> thread'[u]]
        BY <1>1, <1>2
  <2> HIDE DEF new
  <2> QED BY <1>1, <1>2, <2>1, <2>2, <2>3
<1> HIDE DEF new
<1>8. /\ thread' \in [Threads -> TabCalls] /\ thread'[e] = new
      /\ \A u \in Threads \ {e} : thread'[u] = thread[u]
  <2>1. e \in Threads
        BY <1>1
  <2> QED BY <1>2, <1>6, <1>7, <2>1
<1>9. PageInv' /\ ShownGrows
      BY <1>1, <1>2, <1>5, <1>6, <1>8, QuietGood DEF storeVars
<1>10. StoreTypes' /\ SnapshotGrows
      BY <1>1, StoreStill DEF storeVars, StoreTypes
<1> QED BY <1>9, <1>10 DEF StepGood

\* The last step of a poll that has its metrics shows what is shown already.
LEMMA FinishGood ==
    ASSUME Past => Past', StoreTypes, PageInv, NEW e, Finish(e)
    PROVE  StepGood
<1> DEFINE b == thread[e].got
           j == thread[e].job
<1>1. /\ thread[e].pc = "got" /\ e \in Effects /\ e \in Threads /\ Goes(e, "off")
      /\ UNCHANGED <<blob, flight, reader, budget, job, effect, inflight, moved>>
      BY DEF Finish, Stops, Threads
<1>2. /\ PageTypes /\ thread[e] \in TabCalls /\ thread[e].pc \notin Flying \cup {"off"}
      /\ cache \in [Jobs -> Revisions] /\ shown \in Revisions /\ b \in Revisions
      BY <1>1 DEF PageInv, PageTypes, Flying, TabCalls
<1>3. j \in Jobs /\ (~Past => j = First /\ e \in Clicks \cup {1})
      BY <1>1, ActiveThread
<1>4. CASE Cancelled(e)
  <2>1. UNCHANGED <<shown, cache, snapshot, session>>
        BY <1>4 DEF Finish, NotApplied
  <2>2. PageInv' /\ ShownGrows
        BY <1>1, <1>2, <2>1, QuietGoes
  <2>3. StoreTypes' /\ SnapshotGrows
        BY <1>1, <2>1, StoreStill DEF StoreTypes
  <2> QED BY <2>2, <2>3 DEF StepGood
<1>5. CASE ~Cancelled(e)
  <2>1. cache' = [cache EXCEPT ![j] = b] /\ shown' = b /\ Publish(j, b)
        BY <1>5 DEF Finish
  <2>2. StoreTypes' /\ SnapshotGrows
        BY <1>1, <1>2, <1>3, <2>1, StorePublishes DEF StoreTypes
  <2>3. /\ thread' \in [Threads -> TabCalls] /\ thread'[e].pc = "off"
        /\ \A u \in Threads \ {e} : thread'[u] = thread[u]
        BY <1>1, <1>2, GoesTo
  <2>4. PageTypes'
        BY <1>1, <1>2, <2>1, <2>3 DEF PageTypes
  <2>5. ASSUME ~Past' PROVE OnFirstJob' /\ shown' = shown
    <3>1. OnFirstJob /\ j = First
          BY <1>1, <1>3, <2>5 DEF PageInv
    <3>2. e = 1
          BY <1>1, <1>3, <2>5, PageAssumption
    <3>3. b = shown /\ cache[First] = shown
          BY <1>1, <3>1, <3>2 DEF OnFirstJob, NothingOlder
    <3>4. shown' = shown
          BY <2>1, <3>3
    <3>5. cache'[First] = cache[First]
          BY <1>2, <1>3, <2>1, <3>1, <3>3
    <3>6. thread[e].pc \notin Flying
          BY <1>2
    <3> QED BY <1>1, <1>2, <2>3, <3>1, <3>4, <3>5, <3>6, QuietChange
  <2>6. ShownGrows
        BY <1>2, <2>5 DEF ShownGrows, Revisions
  <2> QED BY <2>2, <2>4, <2>5, <2>6 DEF StepGood, PageInv
<1> QED BY <1>4, <1>5

LEMMA NotYetGood ==
    ASSUME Past => Past', StoreTypes, PageInv, Gone, NEW e, NotYet(e)
    PROVE  StepGood
<1> DEFINE th == [thread[e] EXCEPT !.then = "finish"]
<1>1. /\ thread[e].pc = "got" /\ e \in Effects /\ e \in Threads
      /\ UNCHANGED <<blob, snapshot, session, flight, reader, job, shown, cache, effect, moved>>
      BY DEF NotYet, Threads
<1>2. thread[e] \in TabCalls /\ thread[e].pc \notin Flying \cup {"off"}
      BY <1>1 DEF PageInv, PageTypes, Flying
<1>3. thread[e].job \in Jobs /\ (~Past => thread[e].job = First /\ e \in Clicks \cup {1})
      BY <1>1, ActiveThread
<1>4. th \in TabCalls /\ th.job = thread[e].job
      BY <1>2 DEF TabCalls
<1> HIDE DEF th
<1>5. budget' = budget
      BY DEF NotYet, GoesOn
<1>6. \/ Goes(e, "off") /\ UNCHANGED inflight
      \/ Goes(e, "idle") /\ UNCHANGED inflight
      \/ Wants(e, TRUE, th)
      BY DEF NotYet, GoesOn, Stops, Idles, th
<1>7. PageInv' /\ ShownGrows
  <2>1. CASE Goes(e, "off") /\ UNCHANGED inflight
        BY <1>1, <1>2, <2>1, QuietGoes
  <2>2. CASE Goes(e, "idle") /\ UNCHANGED inflight
        BY <1>1, <1>2, <2>2, QuietGoes
  <2>3. CASE Wants(e, TRUE, th)
    <3>1. thread[e].pc \notin Flying
          BY <1>2
    <3> QED BY <1>1, <1>3, <1>4, <2>3, <3>1, WantsGood
  <2> QED BY <1>6, <2>1, <2>2, <2>3, Zenon
<1>8. StoreTypes' /\ SnapshotGrows
      BY <1>1, <1>5, StoreStill DEF StoreTypes
<1> QED BY <1>7, <1>8 DEF StepGood

LEMMA TimerGood ==
    ASSUME Past => Past', StoreTypes, PageInv, NEW e \in Effects, Tick(e) \/ TimesOut(e)
    PROVE  StepGood
<1>1. /\ thread[e].pc = "idle" /\ e \in Threads
      /\ UNCHANGED <<storeVars, job, shown, cache, effect, inflight, moved>>
      BY DEF Tick, TimesOut, Threads
<1>2. thread \in [Threads -> TabCalls] /\ thread[e] \in TabCalls
      /\ thread[e].pc \notin Flying \cup {"off"}
      BY <1>1 DEF PageInv, PageTypes, Flying
<1>3. StoreTypes' /\ SnapshotGrows /\ blob' = blob
      BY <1>1, StoreStill DEF storeVars, StoreTypes
<1>4. PageInv' /\ ShownGrows
  <2>1. CASE TimesOut(e)
    <3>1. Goes(e, "off")
          BY <2>1 DEF TimesOut, Stops
    <3> QED BY <1>1, <1>2, <1>3, <3>1, QuietGoes
  <2>2. CASE Tick(e)
    <3> DEFINE new == [thread[e] EXCEPT !.pc = "status", !.first = FALSE]
    <3>1. new \in TabCalls /\ new.pc = "status" /\ new.job = thread[e].job
          BY <1>2 DEF TabCalls
    <3>2. thread' = [thread EXCEPT ![e] = new]
          BY <1>2, <2>2 DEF Tick
    <3> HIDE DEF new
    <3>3. /\ thread' \in [Threads -> TabCalls] /\ thread'[e] = new
          /\ \A u \in Threads \ {e} : thread'[u] = thread[u]
          BY <1>1, <1>2, <3>1, <3>2
    <3>4. thread[e].pc \notin Flying /\ thread[e].pc # "off"
          BY <1>2
    <3> QED BY <1>1, <1>3, <3>1, <3>3, <3>4, QuietGood
  <2> QED BY <2>1, <2>2
<1> QED BY <1>3, <1>4 DEF StepGood

LEMMA ClickGood ==
    ASSUME Past => Past', StoreTypes, PageInv, Settled, NEW c \in Clicks, Click(c)
    PROVE  StepGood
<1> DEFINE th == [Off EXCEPT !.job = job]
<1>1. /\ thread[c].pc = "off" /\ c \in Threads /\ Gone /\ Spend("click")
      /\ Wants(c, TRUE, th)
      /\ UNCHANGED <<blob, snapshot, session, flight, reader, job, shown, cache, effect, moved>>
      BY DEF Click, Threads, Settled
<1>2. th \in TabCalls /\ th.job = job /\ job \in Jobs
      BY PlainFacts DEF TabCalls, PageInv, PageTypes
<1>3. ~Past => job = First
      BY DEF PageInv, OnFirstJob, OneJob
<1>4. thread[c].pc \notin Flying
      BY <1>1 DEF Flying
<1> HIDE DEF th
<1>5. PageInv' /\ ShownGrows
      BY <1>1, <1>2, <1>3, <1>4, WantsGood
<1>6. budget' \in [Kinds -> Nat]
      BY <1>1, SpendTypes DEF Kinds
<1> QED BY <1>1, <1>5, <1>6, StoreStill DEF StepGood

LEMMA ClickedGood ==
    ASSUME Past => Past', StoreTypes, PageInv, NEW c, Clicked(c)
    PROVE  StepGood
<1>1. /\ thread[c].pc = "got" /\ c \in Threads /\ Goes(c, "off")
      /\ UNCHANGED <<storeVars, job, shown, cache, effect, inflight, moved>>
      BY DEF Clicked, Threads
<1>2. thread[c].pc \notin Flying \cup {"off"}
      BY <1>1 DEF Flying
<1>3. StoreTypes' /\ SnapshotGrows /\ blob' = blob
      BY <1>1, StoreStill DEF storeVars, StoreTypes
<1>4. PageInv' /\ ShownGrows
      BY <1>1, <1>2, <1>3, QuietGoes
<1> QED BY <1>3, <1>4 DEF StepGood

LEMMA OpeningFacts ==
    ASSUME NEW j
    PROVE  Opening(j).job = j /\ Opening(j).pc = "status" /\ Off.pc = "off"
BY DEF Off, Opening

\* A change of the job: the new effect is mounted on what the page has.
LEMMA MountTypes ==
    ASSUME StoreTypes, PageTypes, NEW e \in Effects, NEW j \in Jobs, NEW had,
           had.cache \in [Jobs -> Revisions], had.shown \in Revisions,
           had.thread \in [Threads -> TabCalls],
           \A t \in Threads : had.thread[t].pc # "off" => had.thread[t].job \in Jobs,
           Mount(e, j, had), moved' \in BOOLEAN, UNCHANGED <<blob, flight, reader>>,
           budget' \in [Kinds -> Nat]
    PROVE  PageTypes' /\ StoreTypes' /\ SnapshotGrows
<1> DEFINE hit == had.cache[j]
           new == IF HasMetrics(hit) THEN Off ELSE Opening(j)
<1>1. hit \in Revisions /\ e \in Threads
      BY DEF Threads
<1>2. /\ effect' = e /\ job' = j /\ inflight' = Nobody /\ cache' = had.cache
      /\ shown' = IF hit # None THEN hit ELSE had.shown
      /\ thread' = [had.thread EXCEPT ![e] = new]
      /\ IF HasMetrics(hit) THEN Publish(j, hit) ELSE UNCHANGED <<snapshot, session>>
      BY DEF Mount
<1>3. new \in TabCalls /\ (new.pc # "off" => new.job \in Jobs)
  <2>1. Off \in TabCalls /\ Opening(j) \in TabCalls
        BY PlainFacts
  <2>2. Off.pc = "off" /\ Opening(j).job = j
        BY OpeningFacts
  <2> QED BY <2>1, <2>2
<1> HIDE DEF new, hit
<1>4. /\ thread' \in [Threads -> TabCalls] /\ thread'[e] = new
      /\ \A u \in Threads \ {e} : thread'[u] = had.thread[u]
      BY <1>1, <1>2, <1>3
<1>5. \A t \in Threads : thread'[t].pc # "off" => thread'[t].job \in Jobs
      BY <1>3, <1>4
<1>6. shown' \in Revisions
      BY <1>1, <1>2
<1>7. PageTypes'
      BY <1>2, <1>4, <1>5, <1>6 DEF PageTypes
<1>8. CASE HasMetrics(hit)
      BY <1>1, <1>2, <1>7, <1>8, StorePublishes
<1>9. CASE ~HasMetrics(hit)
      BY <1>2, <1>7, <1>9, StoreStill
<1> QED BY <1>8, <1>9

LEMMA LeftBehindTypes ==
    ASSUME PageTypes
    PROVE  /\ LeftBehind \in [Threads -> TabCalls]
           /\ \A t \in Threads : LeftBehind[t].pc # "off" => LeftBehind[t].job \in Jobs
<1> DEFINE new == [thread[effect] EXCEPT !.pc = IF @ = "idle" THEN "off" ELSE @]
<1>1. /\ effect \in Threads /\ thread \in [Threads -> TabCalls] /\ thread[effect] \in TabCalls
      /\ \A t \in Threads : thread[t].pc # "off" => thread[t].job \in Jobs
      BY DEF PageTypes, Threads
<1>2. new \in TabCalls /\ new.job = thread[effect].job /\ (new.pc # "off" => thread[effect].pc # "off")
      BY <1>1 DEF TabCalls
<1>3. LeftBehind = [thread EXCEPT ![effect] = new]
      BY <1>1 DEF LeftBehind
<1> HIDE DEF new
<1>4. /\ LeftBehind \in [Threads -> TabCalls] /\ LeftBehind[effect] = new
      /\ \A u \in Threads \ {effect} : LeftBehind[u] = thread[u]
      BY <1>1, <1>2, <1>3
<1> QED BY <1>1, <1>2, <1>4

LEMMA MoveGood ==
    ASSUME StoreTypes, PageInv, NEW j \in Jobs, Select(j) \/ Navigate(j)
    PROVE  StepGood
<1>1. /\ effect + 1 \in Effects /\ moved' = TRUE /\ Spend("move")
      /\ UNCHANGED <<blob, flight, reader>>
      BY DEF Select, Navigate
<1>2. PageTypes /\ cache \in [Jobs -> Revisions] /\ shown \in Revisions /\ None \in Revisions
      BY PlainFacts DEF PageInv, PageTypes
<1>3. budget' \in [Kinds -> Nat]
      BY <1>1, SpendTypes DEF Kinds
<1>4. /\ LeftBehind \in [Threads -> TabCalls]
      /\ \A t \in Threads : LeftBehind[t].pc # "off" => LeftBehind[t].job \in Jobs
      BY <1>2, LeftBehindTypes
<1>5. [cache EXCEPT ![j] = None] \in [Jobs -> Revisions]
      BY <1>2
<1>6. PageTypes' /\ StoreTypes' /\ SnapshotGrows
  <2>1. CASE Navigate(j)
    <3> DEFINE had == [cache |-> cache, shown |-> shown, flags |-> flags, thread |-> LeftBehind]
    <3>1. Mount(effect + 1, j, had)
          BY <2>1 DEF Navigate
    <3>2. had.cache = cache /\ had.shown = shown /\ had.thread = LeftBehind
          OBVIOUS
    <3> HIDE DEF had
    <3> QED BY <1>1, <1>2, <1>3, <1>4, <3>1, <3>2, MountTypes
  <2>2. CASE Select(j) /\ j # job
    <3> DEFINE had == [cache |-> [cache EXCEPT ![j] = None], shown |-> None, flags |-> NoFlags,
                       thread |-> LeftBehind]
    <3>1. Mount(effect + 1, j, had)
          BY <2>2 DEF Select
    <3>2. had.cache = [cache EXCEPT ![j] = None] /\ had.shown = None /\ had.thread = LeftBehind
          OBVIOUS
    <3> HIDE DEF had
    <3>3. had.cache \in [Jobs -> Revisions] /\ had.shown \in Revisions
          BY <1>2, <1>5, <3>2
    <3>4. /\ had.thread \in [Threads -> TabCalls]
          /\ \A t \in Threads : had.thread[t].pc # "off" => had.thread[t].job \in Jobs
          BY <1>4, <3>2
    <3>5. moved' \in BOOLEAN
          BY <1>1
    <3> QED BY <1>1, <1>2, <1>3, <3>1, <3>3, <3>4, <3>5, MountTypes
  <2>3. CASE Select(j) /\ j = job
    <3>1. /\ cache' = [cache EXCEPT ![j] = None] /\ shown' = None /\ inflight' = Nobody
          /\ UNCHANGED <<snapshot, session, job, effect, thread>>
          BY <2>3 DEF Select
    <3>2. PageTypes'
          BY <1>1, <1>2, <1>5, <3>1 DEF PageTypes
    <3> QED BY <1>1, <1>3, <3>1, <3>2, StoreStill
  <2> QED BY <2>1, <2>2, <2>3
<1>7. Past'
      BY <1>1 DEF Past
<1> QED BY <1>6, <1>7 DEF StepGood, PageInv, ShownGrows

LEMMA ReloadGood ==
    ASSUME Past => Past', StoreTypes, PageInv, Reload
    PROVE  StoreTypes' /\ PageInv' /\ SnapshotGrows /\ budget'["reload"] # budget["reload"]
<1>1. /\ shown' = None /\ cache' = [j \in Jobs |-> None] /\ inflight' = Nobody
      /\ thread' = [t \in Threads |-> IF t = effect THEN Opening(job) ELSE Off]
      /\ snapshot' = NoSnap /\ flight' = "none" /\ reader' = [r \in Readers |-> Asleep]
      /\ Spend("reload") /\ UNCHANGED <<blob, session, job, effect, moved>>
      BY DEF Reload
<1>2. /\ budget' \in [Kinds -> Nat] /\ budget'["reload"] # budget["reload"]
      BY <1>1, SpendTypes DEF Kinds
<1>3. PageTypes /\ job \in Jobs
      BY DEF PageInv, PageTypes
<1>4. SnapshotGrows
      BY <1>1, SnapshotStays
<1>5. StoreTypes'
      BY <1>1, <1>2, PlainFacts DEF StoreTypes, ReaderTypes, Asleep
<1>6. /\ Opening(job) \in TabCalls /\ Off \in TabCalls /\ Off.pc = "off"
      /\ Opening(job).job = job /\ Opening(job).pc = "status"
      BY <1>3, PlainFacts, OpeningFacts
<1>7. PageTypes'
      BY <1>1, <1>3, <1>6, PlainFacts DEF PageTypes
<1>8. ASSUME ~Past' PROVE OnFirstJob'
  <2>1. job = First /\ effect = 1 /\ First \in Jobs /\ 1 \in Threads
        BY <1>1, <1>8, PlainFacts DEF PageInv, OnFirstJob, OneJob, Threads
  <2>2. \A t \in Threads : thread'[t].pc # "off" =>
            t = 1 /\ thread'[t].job = First /\ thread'[t].pc = "status"
        BY <1>1, <1>6, <2>1
  <2>3. OneJob'
        BY <1>1, <2>1, <2>2 DEF OneJob
  <2>4. OneRequest'
        BY <1>1, <2>2 DEF OneRequest, Flying, Waiting
  <2>5. blob'[First] \in Nat
        BY <1>5, <2>1 DEF StoreTypes
  <2>6. NothingOlder'
        BY <1>1, <2>1, <2>2, <2>5 DEF NothingOlder, None
  <2> QED BY <2>3, <2>4, <2>6 DEF OnFirstJob
<1> QED BY <1>2, <1>4, <1>5, <1>7, <1>8 DEF PageInv

-----------------------------------------------------------------------------
(* The tab *)

LEMMA TabInit == PageInit => StoreTypes /\ PageInv /\ CrowdSeen
<1> SUFFICES ASSUME PageInit PROVE StoreTypes /\ PageInv /\ CrowdSeen
    OBVIOUS
<1>1. StoreTypes
  <2>1. budget \in [Kinds -> Nat]
        BY StoreAssumption DEF PageInit, StoreInit
  <2>2. /\ blob = [j \in Jobs |-> 0] /\ snapshot = NoSnap /\ session = NoSnap
        /\ flight = "none" /\ reader = [r \in Readers |-> Asleep]
        BY DEF PageInit, StoreInit
  <2> QED BY <2>1, <2>2, PlainFacts DEF StoreTypes, ReaderTypes, Asleep
<1>2. /\ job = First /\ shown = None /\ cache = [j \in Jobs |-> None]
      /\ effect = 1 /\ inflight = Nobody /\ moved = FALSE
      /\ thread = [t \in Threads |-> IF t = 1 THEN Opening(First) ELSE Off]
      BY DEF PageInit
<1>3. /\ Opening(First) \in TabCalls /\ Off \in TabCalls /\ Off.pc = "off"
      /\ Opening(First).job = First /\ Opening(First).pc = "status"
      /\ First \in Jobs /\ 1 \in Effects /\ None \in Revisions
      BY PlainFacts, OpeningFacts
<1>4. \A t \in Threads : /\ thread[t] \in TabCalls
                         /\ thread[t].pc # "off" =>
                               t = 1 /\ thread[t].job = First /\ thread[t].pc = "status"
      BY <1>2, <1>3
<1>5. PageTypes
      BY <1>2, <1>3, <1>4 DEF PageTypes
<1>6. OneJob /\ OneRequest
      BY <1>2, <1>4 DEF OneJob, OneRequest, Flying, Waiting
<1>7. NothingOlder
      BY <1>1, <1>2, <1>3, <1>4 DEF NothingOlder, StoreTypes, None, Threads
<1>8. CrowdSeen
      BY <1>4 DEF CrowdSeen, Crowding
<1> QED BY <1>1, <1>5, <1>6, <1>7, <1>8 DEF PageInv, OnFirstJob

LEMMA NotUndone ==
    ASSUME [PageNext]_tabVars
    PROVE  (Past => Past') /\ (CrowdSeen => CrowdSeen')
<1>1. CASE UNCHANGED tabVars
      BY <1>1 DEF tabVars, seen, pageVars, Past, CrowdSeen, Crowding
<1>2. CASE PageNext
  <2>1. PageStep /\ crowd' = (crowd \/ Crowding')
        BY <1>2 DEF PageNext
  <2>2. moved' = moved \/ moved' = TRUE
    <3>1. ASSUME NEW t \in Threads, Runs(t) \/ Serve(t) \/ Event(t) PROVE moved' = moved
          BY <3>1 DEF Runs, Request, Finish, NotYet, Clicked, Serve, Event, Answer, Status,
                      FetchNotDue, Tick
    <3>2. CASE \E e \in Effects : TimesOut(e)
          BY <3>2 DEF TimesOut
    <3>3. CASE \E c \in Clicks : Click(c)
          BY <3>3 DEF Click
    <3>4. CASE \E j \in Jobs : Select(j) \/ Navigate(j)
          BY <3>4 DEF Select, Navigate
    <3>5. CASE Reload
          BY <3>5 DEF Reload
    <3>6. CASE UNCHANGED pageVars
          BY <3>6 DEF pageVars
    <3> QED BY <2>1, <3>1, <3>2, <3>3, <3>4, <3>5, <3>6 DEF PageStep, ReaderGoesOn
  <2>3. moved => moved'
        BY <2>2
  <2>4. crowd \/ Crowding' => crowd'
        BY <2>1, Zenon
  <2>5. CrowdSeen'
        BY <2>4 DEF CrowdSeen
  <2>6. Past => Past'
        BY <2>3, <2>4 DEF Past
  <2> QED BY <2>5, <2>6
<1> QED BY <1>1, <1>2

LEMMA TabStep ==
    ASSUME StoreTypes, PageInv, CrowdSeen, [PageNext]_tabVars
    PROVE  /\ StoreTypes' /\ PageInv' /\ CrowdSeen' /\ SnapshotGrows
           /\ budget'["reload"] = budget["reload"] => ShownGrows
<1>0. (Past => Past') /\ CrowdSeen'
      BY NotUndone
<1>1. CASE UNCHANGED tabVars
  <2>0. UNCHANGED <<storeVars, pageVars>>
        BY <1>1 DEF tabVars, seen
  <2>1. StoreTypes' /\ SnapshotGrows
        BY <2>0, StoreStill DEF storeVars, StoreTypes
  <2>2. \A j \in Jobs : blob'[j] >= blob[j]
        BY <2>0 DEF storeVars, StoreTypes
  <2>3. PageInv' /\ ShownGrows
        BY <1>0, <2>0, <2>1, <2>2, PageStill DEF StoreTypes
  <2> QED BY <1>0, <2>1, <2>3
<1>2. ASSUME UNCHANGED pageVars,
             \/ \E j \in Jobs : RowGoes(j) \/ BlobGoes(j)
             \/ \E r \in Readers : ReaderStep(r)
             \/ \E r \in Readers, force \in BOOLEAN : Ensure(r, force)
             \/ Clear
      PROVE  StepGood
  <2>1. StoreTypes' /\ SnapshotGrows /\ \A j \in Jobs : blob'[j] >= blob[j]
        BY <1>2, TabStoreStep
  <2> QED BY <1>0, <1>2, <2>1, PageStill DEF StepGood, StoreTypes
<1>3. ASSUME NEW t \in Threads, Runs(t) PROVE StepGood
      BY <1>0, <1>3, RequestGood, FinishGood, NotYetGood, ClickedGood DEF Runs
<1>4. ASSUME NEW t \in Threads, Serve(t) PROVE StepGood
      BY <1>0, <1>4, ServeGood
<1>5. ASSUME NEW t \in Threads, Event(t) PROVE StepGood
      BY <1>0, <1>5, AnswerGood, StatusGood, FetchNotDueGood, TimerGood DEF Event
<1>6. ASSUME Settled,
             \/ \E e \in Effects : TimesOut(e)
             \/ \E c \in Clicks : Click(c)
             \/ \E j \in Jobs : Select(j) \/ Navigate(j)
      PROVE  StepGood
      BY <1>0, <1>6, TimerGood, ClickGood, MoveGood
<1>7. CASE Reload
      BY <1>0, <1>7, ReloadGood
<1>8. CASE PageNext /\ ~Reload
  <2>1. StepGood
        BY <1>2, <1>3, <1>4, <1>5, <1>6, <1>8 DEF PageNext, PageStep, ReaderGoesOn
  <2> QED BY <1>0, <2>1 DEF StepGood
<1> QED BY <1>0, <1>1, <1>7, <1>8

\* What is shown of the page's job, until two callers have waited for the end of one
\* request, and what the dashboard's snapshot has of a job only grow, whatever answers
\* overtake each other, for any number of jobs, effects, presses and readers.
THEOREM ShownNeverShrinks == PageSpec => ShownOnlyGrows
<1> DEFINE Inv == StoreTypes /\ PageInv /\ CrowdSeen
<1>1. PageInit => Inv
      BY TabInit
<1>2. Inv /\ [PageNext]_tabVars => Inv'
      BY TabStep
<1>3. Inv /\ [PageNext]_tabVars =>
        [/\ ~moved' /\ ~crowd' /\ budget'["reload"] = budget["reload"] => shown'.rev >= shown.rev
         /\ snapshot # NoSnap /\ snapshot' # NoSnap /\ snapshot'.job = snapshot.job =>
               snapshot'.blob.rev >= snapshot.blob.rev]_tabVars
      BY TabStep DEF ShownGrows, SnapshotGrows, Past
<1> HIDE DEF Inv
<1> QED BY <1>1, <1>2, <1>3, PTL DEF PageSpec, ShownOnlyGrows
=============================================================================
