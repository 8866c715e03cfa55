---------------------------- MODULE ChatPage ----------------------------
(***************************************************************************)
(* The chat about a document in a browser tab (components/                 *)
(* document-chat.tsx): the messages, the request that is running, the      *)
(* timer that gathers tokens before they are painted, the blocking request *)
(* a refused stream falls back on, and the copy of a chat that the browser *)
(* keeps per document.                                                     *)
(*                                                                         *)
(* A request r stands for runAssistant(query, id): r is the id of its      *)
(* answer's message, asked[r] says of which document and of which user's   *)
(* message it is.  A text is a sequence of tokens; a notice the page puts  *)
(* in the place of an answer is a token of call 0.                         *)
(***************************************************************************)
EXTENDS AnswerStream, InOrder

CONSTANTS Docs, MaxMoves  \* documents, and moves of the user other than a question

ASSUME ChatAssumption ==
  /\ {MaxAsks, NModels, Retries, MaxTokens, Buffer} \subseteq Nat \ {0}
  /\ IsFiniteSet(Docs) /\ Docs # {} /\ MaxMoves \in Nat

VARIABLES
  doc,       \* result.document_id
  messages,  \* the messages on the page
  loading,   \* a request is running, says the state of the page
  current,   \* abortRef: the request the page can abort
  asked,     \* per request: its document and its user's message
  task,      \* per request: where runAssistant is, and its painter
  storage,   \* localStorage, per document
  moves      \* moves of the user so far

pageVars == <<doc, messages, loading, current, asked, task, storage, moves>>
chatVars == <<serverVars, pageVars>>

NoTask == [pc |-> "none", assembled |-> <<>>, pending |-> <<>>, timer |-> FALSE,
           painted |-> FALSE, aborted |-> FALSE]

Question(r) == [role |-> "user", id |-> r, text |-> <<<<r, 0>>>>, streaming |-> FALSE]
Answer(r, text, on) == [role |-> "assistant", id |-> r, text |-> text, streaming |-> on]
Notice(r) == <<<<r, 0>>>>

ChatInit ==
  /\ ServerInit
  /\ doc = CHOOSE d \in Docs : TRUE
  /\ messages = <<>> /\ loading = FALSE /\ current = 0 /\ moves = 0
  /\ asked = [r \in Requests |-> [doc |-> doc, q |-> 0]]
  /\ task = [r \in Requests |-> NoTask]
  /\ storage = [d \in Docs |-> <<>>]

Running(r) == task[r].pc \in {"fetch", "read", "fallback"}

(* An abort is noticed before the next event of the browser's loop. *)
Quiet == \A r \in Requests : ~task[r].aborted

Free == {r \in Requests : task[r].pc = "none"}

-----------------------------------------------------------------------------
(* The messages and their copy *)

(* The effect that persists the chat waits for the request to end. *)
Saved(ms, on) == ~on /\ \A i \in DOMAIN ms : ~ms[i].streaming

Worth(m) == m.role = "user" \/ m.text # <<>>

(* persistChat: the messages that are worth keeping, in their order. *)
Persisted(ms) ==
  LET keep == InOrder({i \in DOMAIN ms : Worth(ms[i])}) IN [k \in DOMAIN keep |-> ms[keep[k]]]

(* A new state of the page: the effect runs after every change. *)
Page(ms, on) ==
  /\ messages' = ms /\ loading' = on
  /\ storage' = IF Saved(ms, on) THEN [storage EXCEPT ![doc] = Persisted(ms)] ELSE storage

(* setMessages with a map over the message that has the id. *)
On(ms, r, text, on) ==
  [i \in DOMAIN ms |-> IF ms[i].role = "assistant" /\ ms[i].id = r
                       THEN [ms[i] EXCEPT !.text = text, !.streaming = on]
                       ELSE ms[i]]

-----------------------------------------------------------------------------
(* The user *)

(* The server's side of a request that has hung up. *)
Closed(s) == [s EXCEPT !.pc = "closed", !.model = 0, !.try = 0, !.call = 0]

(* The controller of the request before is aborted: a fetch or a read that *)
(* runs under it raises, and the server sees the connection close.         *)
Abortable(r) == task[r].pc \in {"fetch", "read"}
AbortOld(ts) == [r \in Requests |-> IF r = current /\ Abortable(r)
                                    THEN [ts[r] EXCEPT !.aborted = TRUE] ELSE ts[r]]
HangUp == [r \in Requests |-> IF r = current /\ Abortable(r)
                              THEN Closed(server[r]) ELSE server[r]]
Unread == [r \in Requests |-> IF r = current /\ Abortable(r) THEN <<>> ELSE channel[r]]

(* runAssistant up to its first await. *)
RunAssistant(r, q, ms) ==
  /\ asked' = [asked EXCEPT ![r] = [doc |-> doc, q |-> q]]
  /\ task' = [AbortOld(task) EXCEPT ![r].pc = "fetch"]
  /\ server' = [HangUp EXCEPT ![r].pc = "called"]
  /\ channel' = Unread
  /\ current' = r
  /\ Page(Append(ms, Answer(r, <<>>, TRUE)), TRUE)
  /\ UNCHANGED <<doc, moves>>

(* sendQuery: a query that is not valid gets a notice and no request. *)
Ask ==
  /\ Quiet /\ ~loading
  /\ \E r \in Free :
       /\ \A s \in Free : r <= s
       /\ \/ RunAssistant(r, r, Append(messages, Question(r)))
          \/ /\ task' = [task EXCEPT ![r].pc = "ended"]
             /\ asked' = [asked EXCEPT ![r].doc = doc]
             /\ Page(Append(messages, Answer(r, Notice(r), FALSE)), loading)
             /\ UNCHANGED <<serverVars, doc, current, moves>>

Users(ms) == {i \in DOMAIN ms : ms[i].role = "user"}

(* regenerateLast: the last question is asked again in the place of its answer. *)
Regenerate ==
  /\ Quiet /\ ~loading
  /\ Users(messages) # {}
  /\ \E r \in Free, i \in Users(messages) :
       /\ \A s \in Free : r <= s
       /\ \A j \in Users(messages) : j <= i
       /\ RunAssistant(r, messages[i].id, SubSeq(messages, 1, i))

Move == Quiet /\ moves < MaxMoves /\ moves' = moves + 1
Abandon == task' = AbortOld(task) /\ server' = HangUp /\ channel' = Unread

(* startNewChat: the effect leaves no entry for a chat without messages. *)
NewChat == Move /\ Abandon /\ Page(<<>>, FALSE) /\ UNCHANGED <<doc, current, asked>>

(* Mutant: one key for the chats of every document. *)
OneKey(d) == storage[CHOOSE e \in Docs : TRUE]

(* loadPersistedChat: what the browser keeps for the document. *)
Loaded(d) == storage[d]

(* The chat is mounted: the page is loaded again, or its tab is, or the    *)
(* document changes, which is the key of the component.  The request that  *)
(* ran is aborted; its handlers, its timer and the blocking request it     *)
(* awaits set the state of a component that is gone.                       *)
Open ==
  /\ Move
  /\ \E d \in Docs : doc' = d /\ messages' = Loaded(d)
  /\ loading' = FALSE /\ current' = 0
  /\ task' = [r \in Requests |-> IF task[r].pc = "none" THEN task[r]
                                 ELSE [NoTask EXCEPT !.pc = "ended"]]
  /\ server' = HangUp /\ channel' = Unread
  /\ UNCHANGED <<asked, storage>>

-----------------------------------------------------------------------------
(* The request *)

(* Mutant: the early return of an abort skips the finally block. *)
UnlessAborted(r) == loading /\ task[r].aborted

(* finally: setLoading(false), whichever request the page shows. *)
Finally(r) == FALSE

(* A change of the task; the server's side is a function of its own. *)
TaskTo(t, r) == task' = [task EXCEPT ![r] = t]
Hold == UNCHANGED <<doc, current, asked, moves>>

(* The last setMessages of a request and its finally block: one render. *)
Ends(r, ms) == TaskTo([task[r] EXCEPT !.pc = "ended", !.aborted = FALSE], r)
               /\ Page(ms, Finally(r)) /\ Hold
Fails(r) == Ends(r, On(messages, r, Notice(r), FALSE))

Drop(r) ==
  /\ server' = [server EXCEPT ![r] = Closed(@)]
  /\ channel' = [channel EXCEPT ![r] = <<>>]

(* The client's wall of 90 seconds: it reaches a fetch or a read, and not  *)
(* the blocking request, which has no signal.                              *)
Wall(r) ==
  /\ Quiet /\ Abortable(r)
  /\ TaskTo([task[r] EXCEPT !.aborted = TRUE], r) /\ Drop(r)
  /\ UNCHANGED <<messages, loading, storage>> /\ Hold

(* AbortError: the timer of the painter is left as it is. *)
Aborted(r) == task[r].aborted /\ Fails(r) /\ UNCHANGED serverVars

NetworkDrops(r) == Quiet /\ Running(r) /\ Drop(r) /\ Fails(r)

Next1(r, kind) == channel[r] # <<>> /\ channel[r][1].kind = kind
Consume(r) == channel' = [channel EXCEPT ![r] = Tail(@)]

(* The response has come: a stream to read, or the blocking request instead. *)
Response(r) ==
  /\ Quiet /\ task[r].pc = "fetch"
  /\ \/ /\ Next1(r, "open") /\ TaskTo([task[r] EXCEPT !.pc = "read"], r)
        /\ UNCHANGED server
     \/ /\ Next1(r, "refused") /\ TaskTo([task[r] EXCEPT !.pc = "fallback"], r)
        /\ server' = [server EXCEPT ![r].pc = "blocking"]
  /\ Consume(r)
  /\ UNCHANGED <<messages, loading, storage>> /\ Hold

(* What is pending is assembled, and the timer is cleared. *)
Flushed(t) == [t EXCEPT !.assembled = @ \o t.pending, !.pending = <<>>, !.timer = FALSE,
                        !.painted = TRUE]
Paint(r, t) ==
  /\ TaskTo(Flushed(t), r)
  /\ Page(On(messages, r, Flushed(t).assembled, TRUE), loading)
  /\ Hold

(* The first token is painted at once, a later one at the end of a word or *)
(* by the timer.                                                           *)
ReadToken(r) ==
  /\ Quiet /\ task[r].pc = "read" /\ Next1(r, "token") /\ Consume(r)
  /\ LET t == [task[r] EXCEPT !.pending = @ \o channel[r][1].text] IN
       \/ Paint(r, t)
       \/ /\ t.painted
          /\ TaskTo([t EXCEPT !.timer = TRUE], r)
          /\ UNCHANGED <<messages, loading, storage>> /\ Hold
  /\ UNCHANGED server

(* setTimeout(paint): nothing asks whether the request still runs. *)
TimerFires(r) == Quiet /\ task[r].timer /\ Paint(r, task[r]) /\ UNCHANGED serverVars

(* finishWithDone: the text of the event takes the place of the tokens. *)
ReadDone(r) ==
  /\ Quiet /\ task[r].pc = "read" /\ Next1(r, "done") /\ Consume(r)
  /\ TaskTo(Flushed(task[r]), r)
  /\ Page(On(messages, r, channel[r][1].text, FALSE), loading)
  /\ UNCHANGED server /\ Hold

ReadError(r) ==
  /\ Quiet /\ task[r].pc = "read" /\ Next1(r, "error") /\ Consume(r)
  /\ TaskTo([Flushed(task[r]) EXCEPT !.pc = "ended"], r)
  /\ Page(On(messages, r, Notice(r), FALSE), Finally(r))
  /\ UNCHANGED server /\ Hold

(* The stream is over: a message that still streams keeps what was assembled. *)
ReadEnd(r) ==
  /\ Quiet /\ task[r].pc = "read" /\ Next1(r, "end") /\ Consume(r)
  /\ TaskTo([Flushed(task[r]) EXCEPT !.pc = "ended"], r)
  /\ LET all == Flushed(task[r]).assembled
         open == \E i \in DOMAIN messages : messages[i].id = r /\ messages[i].streaming IN
       Page(IF open THEN On(messages, r, IF all = <<>> THEN Notice(r) ELSE all, FALSE)
            ELSE messages, Finally(r))
  /\ UNCHANGED server /\ Hold

FallbackReply(r) ==
  /\ Quiet /\ task[r].pc = "fallback"
  /\ \/ Next1(r, "answer") /\ Ends(r, On(messages, r, channel[r][1].text, FALSE))
     \/ Next1(r, "refused") /\ Fails(r)
  /\ Consume(r) /\ UNCHANGED server

Client(r) ==
  \/ Aborted(r) \/ Response(r) \/ ReadToken(r) \/ ReadDone(r) \/ ReadError(r)
  \/ ReadEnd(r) \/ FallbackReply(r)

Server(r) == Serve(r) /\ UNCHANGED pageVars

ChatNext ==
  \/ Ask \/ Regenerate \/ NewChat \/ Open
  \/ \E r \in Requests : Server(r) \/ Client(r) \/ TimerFires(r) \/ Wall(r) \/ NetworkDrops(r)

ChatSpec == ChatInit /\ [][ChatNext]_chatVars

(* The server's handlers end (their calls have time limits), and the       *)
(* browser handles what has come; the wall and the network owe nothing.    *)
FairChatSpec ==
  /\ ChatSpec
  /\ \A r \in Requests : /\ WF_chatVars(Server(r))
                         /\ WF_chatVars(Client(r))
                         /\ WF_chatVars(TimerFires(r))

-----------------------------------------------------------------------------
(* Properties *)

(* An answer is one model's: once a token has been shown no other call of  *)
(* the chain adds to it ("do not silently switch models").                 *)
OneVoice ==
  \A i \in DOMAIN messages :
    LET text == messages[i].text IN \A j, k \in DOMAIN text : text[j][2] = text[k][2]

Belongs(ms, d) ==
  \A i \in DOMAIN ms :
    LET m == ms[i] IN
    /\ asked[m.id].doc = d
    /\ \A k \in DOMAIN m.text : m.text[k][1] = m.id
    /\ m.role = "assistant" /\ asked[m.id].q # 0 =>
         i > 1 /\ ms[i - 1].role = "user" /\ ms[i - 1].id = asked[m.id].q

(* Late answers of requests that were given up reach no other question and *)
(* no other document, on the page or in the browser's copy.                *)
OwnAnswer == Belongs(messages, doc) /\ \A d \in Docs : Belongs(storage[d], d)

(* However a request ends, the page can be asked again. *)
LoadingEnds == loading ~> ~loading

=============================================================================
