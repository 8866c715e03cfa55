----------------------------- MODULE ResultsPage -----------------------------
(***************************************************************************)
(* The results page (app/results/page.tsx).  An effect belongs to the job    *)
(* shown: it asks once for status and result, then polls until the result    *)
(* carries its metrics.  Polls, the refresh button and the effects of jobs   *)
(* left behind share one fetchResult, which coalesces requests, and one      *)
(* state of the page.  The code runs to the next await without interruption; *)
(* between two awaits anything else may run.                                 *)
(***************************************************************************)
EXTENDS MetricsStore

CONSTANTS
    Effects,    \* the effects of the page, one per job it turns to: 1..n
    Clicks      \* presses of the refresh button

ASSUME PageAssumption ==
    /\ IsFiniteSet(Effects) /\ Effects # {} /\ Effects = 1..Cardinality(Effects)
    /\ Clicks \cap (Effects \cup {0}) = {} /\ IsFiniteSet(Clicks)

VARIABLES
    job,      \* jobId
    shown,    \* resultRef and the result on the screen
    cache,    \* resultCache
    flags,    \* isComplete, metricsReady, jobFailed, pollTimedOut
    effect,   \* the effect that is mounted
    polling,  \* the effects whose interval is set
    inflight, \* inflightResultRef: the caller whose request it is
    thread,   \* thread[t]: where an effect or a click is
    moved,    \* the user has selected a job or gone to one
    crowd     \* two callers have waited for the end of one request

pageVars == <<job, shown, cache, flags, effect, polling, inflight, thread, moved>>
seen    == <<storeVars, pageVars>>
tabVars == <<seen, crowd>>

NoFlags == [complete |-> FALSE, metrics |-> FALSE, failed |-> FALSE, timedOut |-> FALSE]
Threads == Effects \cup Clicks
Nobody  == 0
Off     == [pc |-> "off", job |-> 0, first |-> FALSE, ready |-> FALSE, then |-> "check",
            got |-> None, on |-> Nobody]
Opening(j) == [Off EXCEPT !.pc = "status", !.job = j, !.first = TRUE]
Cancelled(e) == e # effect

\* Promises that have resolved run on before the browser takes up anything else:
\* first those that awaited the request itself, then the callers of fetchResult, which
\* got it through one promise more.
Gone    == \A t \in Threads : thread[t].pc # "go"
Settled == Gone /\ \A t \in Threads : thread[t].pc # "got"
Goes(t, to) == thread' = [thread EXCEPT ![t].pc = to]

-----------------------------------------------------------------------------
(* applyResult and fetchResult *)

Applied(j, b) ==
    /\ cache' = [cache EXCEPT ![j] = b]
    /\ shown' = b
    /\ flags' = [flags EXCEPT !.complete = TRUE, !.metrics = @ \/ HasMetrics(b)]
    /\ IF HasMetrics(b) THEN Publish(j, b) ELSE UNCHANGED <<snapshot, session, remembered>>

NotApplied == UNCHANGED <<cache, shown, flags, snapshot, session>>

\* Mutant: a fresh caller does not wait for the end of the request that is out.
WantsAtOnce(t, fresh, th) ==
    IF inflight = Nobody \/ fresh
    THEN /\ thread' = [thread EXCEPT ![t] = [th EXCEPT !.pc = "sent"]]
         /\ inflight' = t
    ELSE /\ thread' = [thread EXCEPT ![t] = [th EXCEPT !.pc = "join", !.on = inflight]]
         /\ UNCHANGED inflight

\* What a caller does that wants a result: a soft poll joins the request that is out,
\* a fresh one waits for its end first.
Wants(t, fresh, th) ==
    IF inflight = Nobody
    THEN /\ thread' = [thread EXCEPT ![t] = [th EXCEPT !.pc = "sent"]]
         /\ inflight' = t
    ELSE /\ thread' = [thread EXCEPT ![t] = [th EXCEPT !.pc = IF fresh THEN "prior" ELSE "join",
                                                      !.on = inflight]]
         /\ UNCHANGED inflight

\* A fresh caller whose wait is over sends its own request, whoever else does: it does
\* not look again for one that is out.
Request(t) ==
    /\ thread[t].pc = "go"
    /\ Goes(t, "sent") /\ inflight' = t
    /\ UNCHANGED <<storeVars, job, shown, cache, flags, effect, polling, moved>>

\* The server reads the result; the answer may be lost or refused.
Serve(t) ==
    LET j == thread[t].job
    IN  /\ thread[t].pc = "sent"
        /\ \/ /\ Served(j) /\ Heal(j)
              /\ thread' = [thread EXCEPT ![t].pc = "answer", ![t].got = Result(j)]
              /\ UNCHANGED <<remembered, budget>>
           \/ /\ ~Served(j)
              /\ remembered' = IF row[j] = "gone" THEN Forget(j) ELSE remembered
              /\ Goes(t, "refusal") /\ UNCHANGED <<row, budget>>
           \/ Lost /\ Goes(t, "refusal") /\ UNCHANGED <<row, remembered>>
        /\ UNCHANGED <<blob, snapshot, session, flight, reader,
                       job, shown, cache, flags, effect, polling, inflight, moved>>

\* The promise resolves to what the page shows now; whoever waits for it goes on.
Resolve(t, value) ==
    /\ thread' = [u \in Threads |->
          IF u = t \/ (thread[u].pc = "join" /\ thread[u].on = t)
          THEN [thread[u] EXCEPT !.pc = "got", !.got = value, !.on = Nobody]
          ELSE IF thread[u].pc = "prior" /\ thread[u].on = t
          THEN [thread[u] EXCEPT !.pc = "go", !.on = Nobody]
          ELSE thread[u]]
    /\ inflight' = Nobody

Answer(t) ==
    /\ \/ /\ thread[t].pc = "answer"
          /\ Applied(thread[t].job, thread[t].got) /\ Resolve(t, thread[t].got)
       \/ /\ thread[t].pc = "refusal"
          /\ NotApplied /\ Resolve(t, shown) /\ UNCHANGED remembered
    /\ UNCHANGED <<row, blob, flight, reader, budget, job, effect, polling, moved>>

-----------------------------------------------------------------------------
(* The effect: the first look and pollStatus *)

Idles(e) == polling' = polling \cup {e} /\ Goes(e, "idle")
Stops(e) == polling' = polling \ {e} /\ Goes(e, "off")

\* The run of the effect is over without a reason to stop: it polls (on), unless
\* the page has left it.
GoesOn(e) ==
    IF Cancelled(e) THEN Stops(e) /\ UNCHANGED budget
    ELSE Idles(e) /\ UNCHANGED budget

Fails(e) == flags' = [flags EXCEPT !.failed = TRUE] /\ Stops(e)

\* GET /job-status answers.
Status(e) ==
    LET s == row[thread[e].job]
        ready == s = "search"
        th == [thread[e] EXCEPT !.ready = ready, !.then = "check", !.got = None]
    IN  /\ thread[e].pc = "status"
        /\ \/ /\ Cancelled(e) /\ Stops(e) /\ UNCHANGED <<flags, inflight, budget>>
           \/ /\ ~Cancelled(e) /\ s \in {"failed", "gone"}
              /\ Fails(e) /\ UNCHANGED <<inflight, budget>>
           \/ /\ ~Cancelled(e) /\ s = "running"
              /\ Idles(e) /\ UNCHANGED <<flags, inflight, budget>>
           \/ /\ ~Cancelled(e) /\ s \in {"summary", "search"}
              /\ flags' = [flags EXCEPT !.complete = TRUE]
              /\ Wants(e, thread[e].first \/ ready, th)
              /\ UNCHANGED <<polling, budget>>
           \/ /\ Lost /\ ~Cancelled(e) /\ Idles(e) /\ UNCHANGED <<flags, inflight>>
        /\ UNCHANGED <<row, blob, snapshot, session, remembered, flight, reader,
                       job, shown, cache, effect, moved>>

\* A poll may find that no new fetch is due yet: it goes by what is there.
FetchNotDue(e) ==
    LET known == IF cache[thread[e].job] # None THEN cache[thread[e].job] ELSE shown
    IN  /\ thread[e].pc = "status" /\ ~thread[e].first /\ ~Cancelled(e)
        /\ row[thread[e].job] = "summary" /\ known # None
        /\ flags' = [flags EXCEPT !.complete = TRUE]
        /\ thread' = [thread EXCEPT ![e].pc = "got", ![e].ready = FALSE, ![e].then = "check",
                                    ![e].got = known]
        /\ UNCHANGED <<storeVars, job, shown, cache, effect, polling, inflight, moved>>

\* finishMetrics with a result that has its metrics: the page is done.
IncompleteIsFinal(b) == b # None
IsFinal(b) == HasMetrics(b)
Finish(e) ==
    /\ e \in Effects /\ thread[e].pc = "got" /\ IsFinal(thread[e].got)
    /\ IF Cancelled(e)
       THEN NotApplied /\ UNCHANGED remembered
       ELSE /\ cache' = [cache EXCEPT ![thread[e].job] = thread[e].got]
            /\ shown' = thread[e].got
            /\ flags' = [flags EXCEPT !.complete = TRUE, !.metrics = TRUE]
            /\ Publish(thread[e].job, thread[e].got)
    /\ Stops(e)
    /\ UNCHANGED <<row, blob, flight, reader, budget, job, effect, inflight, moved>>

\* The status claims more than the result has: it is fetched once more, then the
\* effect polls on.
NotYet(e) ==
    /\ e \in Effects /\ thread[e].pc = "got" /\ ~IsFinal(thread[e].got)
    /\ IF thread[e].ready /\ thread[e].then = "check" /\ ~(thread[e].first /\ Cancelled(e))
       THEN /\ Wants(e, TRUE, [thread[e] EXCEPT !.then = "finish"])
            /\ UNCHANGED <<polling, budget>>
       ELSE GoesOn(e) /\ UNCHANGED inflight
    /\ UNCHANGED <<row, blob, snapshot, session, remembered, flight, reader,
                   job, shown, cache, flags, effect, moved>>

\* The interval fires; a tick while a poll is at work is skipped.
Tick(e) ==
    /\ e \in polling /\ thread[e].pc = "idle"
    /\ thread' = [thread EXCEPT ![e].pc = "status", ![e].first = FALSE]
    /\ UNCHANGED <<storeVars, job, shown, cache, flags, effect, polling, inflight, moved>>

\* POLL_TIMEOUT_MS after the effect began.
TimesOut(e) ==
    /\ e \in polling /\ thread[e].pc = "idle"
    /\ Stops(e)
    /\ flags' = [flags EXCEPT !.timedOut = TRUE]
    /\ UNCHANGED <<storeVars, job, shown, cache, effect, inflight, moved>>

-----------------------------------------------------------------------------
(* The user *)

Click(c) ==
    /\ thread[c].pc = "off" /\ Spend("click")
    /\ Wants(c, TRUE, [Off EXCEPT !.job = job])
    /\ UNCHANGED <<row, blob, snapshot, session, remembered, flight, reader, job, shown, cache, flags, effect, polling, moved>>

Clicked(c) ==
    /\ c \in Clicks /\ thread[c].pc = "got"
    /\ Goes(c, "off")
    /\ UNCHANGED <<storeVars, job, shown, cache, flags, effect, polling, inflight, moved>>

\* An effect is mounted for job j on top of what the page has: a cached result
\* that is final needs no poll.
Mount(e, j, had) ==
    LET hit == had.cache[j]
    IN  /\ effect' = e /\ job' = j /\ polling' = {} /\ inflight' = Nobody
        /\ cache' = had.cache
        /\ shown' = IF hit # None THEN hit ELSE had.shown
        /\ flags' = IF hit = None THEN had.flags
                    ELSE [had.flags EXCEPT !.complete = TRUE, !.metrics = HasMetrics(hit)]
        /\ thread' = [had.thread EXCEPT ![e] = IF HasMetrics(hit) THEN Off ELSE Opening(j)]
        /\ IF HasMetrics(hit) THEN Publish(j, hit)
           ELSE remembered' = j /\ UNCHANGED <<snapshot, session>>

\* An interval that is cleared never ticks again; a poll that is out goes on.
LeftBehind == [thread EXCEPT ![effect].pc = IF @ = "idle" THEN "off" ELSE @]

\* The queue panel opens a job: the page is reset; the effect is not run again when
\* the job is the one already open.
Select(j) ==
    /\ effect + 1 \in Effects /\ Spend("move")
    /\ moved' = TRUE
    /\ LET reset == [cache |-> [cache EXCEPT ![j] = None], shown |-> None, flags |-> NoFlags,
                     thread |-> LeftBehind]
       IN  IF j # job THEN Mount(effect + 1, j, reset)
           ELSE /\ cache' = reset.cache /\ shown' = None /\ flags' = NoFlags
                /\ inflight' = Nobody /\ remembered' = j
                /\ UNCHANGED <<snapshot, session, job, effect, polling, thread>>
    /\ UNCHANGED <<row, blob, flight, reader>>

\* Back or forward to another job: nothing is reset.
Navigate(j) ==
    /\ effect + 1 \in Effects /\ j # job /\ Spend("move")
    /\ moved' = TRUE
    /\ Mount(effect + 1, j, [cache |-> cache, shown |-> shown, flags |-> flags,
                             thread |-> LeftBehind])
    /\ UNCHANGED <<row, blob, flight, reader>>

\* A reload of the tab: only the session storage and the last job id survive.
Reload ==
    /\ Spend("reload")
    /\ shown' = None /\ cache' = [j \in Jobs |-> None] /\ flags' = NoFlags
    /\ polling' = {} /\ inflight' = Nobody
    /\ thread' = [t \in Threads |-> IF t = effect THEN Opening(job) ELSE Off]
    /\ snapshot' = NoSnap /\ flight' = "none" /\ reader' = [r \in Readers |-> Asleep]
    /\ remembered' = job
    /\ UNCHANGED <<row, blob, session, job, effect, moved>>

-----------------------------------------------------------------------------

PageInit ==
    /\ StoreInit
    /\ job = First /\ shown = None /\ cache = [j \in Jobs |-> None] /\ flags = NoFlags
    /\ effect = 1 /\ polling = {} /\ inflight = Nobody
    /\ thread = [t \in Threads |-> IF t = 1 THEN Opening(First) ELSE Off]
    /\ moved = FALSE /\ crowd = FALSE

Runs(t) == Request(t) \/ (Gone /\ (Finish(t) \/ NotYet(t) \/ Clicked(t)))
Event(t) == Settled /\ (Answer(t) \/ (t \in Effects /\ (Status(t) \/ FetchNotDue(t) \/ Tick(t))))
ReaderGoesOn(r) == Settled /\ ReaderStep(r) /\ UNCHANGED pageVars

\* Two callers wait for the end of one request and will then both send their own.
Crowding ==
    \E t, u \in Threads :
        t # u /\ thread[t].pc = "prior" /\ thread[u].pc = "prior" /\ thread[t].on = thread[u].on

PageStep ==
    \/ \E j \in Jobs : (RowGoes(j) \/ BlobGoes(j)) /\ UNCHANGED pageVars
    \/ \E t \in Threads : Runs(t) \/ Serve(t) \/ Event(t)
    \/ \E r \in Readers : ReaderGoesOn(r)
    \/ /\ Settled
       /\ \/ \E r \in Readers, force \in BOOLEAN : Ensure(r, force) /\ UNCHANGED pageVars
          \/ Clear /\ UNCHANGED pageVars
          \/ \E e \in Effects : TimesOut(e)
          \/ \E c \in Clicks : Click(c)
          \/ \E j \in Jobs : Select(j) \/ Navigate(j)
          \/ Reload

PageNext == PageStep /\ crowd' = (crowd \/ Crowding')

PageSpec == PageInit /\ [][PageNext]_tabVars

\* Answers arrive and timers fire.
PageFairness ==
    /\ \A t \in Threads : WF_seen(Runs(t)) /\ WF_seen(Serve(t)) /\ WF_seen(Event(t))
    /\ \A r \in Readers : WF_seen(ReaderGoesOn(r))

FairPageSpec == PageSpec /\ PageFairness

-----------------------------------------------------------------------------
(* Properties *)

\* What a tab shows of a job never goes back.  On the page, as long as it stays on its
\* job and no two callers have waited for the end of one request, a late answer takes
\* nothing back: not the poll's, not one of the button's, not the final one's.  (Two that
\* have waited both send their own, and the older answer may come last.)  In the
\* store behind the dashboard no publisher does: not the page with a late stub, not a
\* reader whose answer is older than what the page has published meanwhile.
ShownOnlyGrows ==
    [][/\ ~moved' /\ ~crowd' /\ budget'["reload"] = budget["reload"] => shown'.rev >= shown.rev
       /\ snapshot # NoSnap /\ snapshot' # NoSnap /\ snapshot'.job = snapshot.job =>
             snapshot'.blob.rev >= snapshot.blob.rev]_tabVars

\* Once the server has the final result of the job, the page that stays on it shows
\* it, unless the job is lost, the poll's time is up, or two callers have waited for the
\* end of one request: then an older answer may replace the final one after the last poll.
FinalIsShown ==
    row[job] = "search" /\ HasMetrics(Result(job)) ~>
        \/ HasMetrics(shown) \/ flags.failed \/ flags.timedOut \/ moved \/ crowd

=============================================================================
