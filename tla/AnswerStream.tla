-------------------------- MODULE AnswerStream --------------------------
(***************************************************************************)
(* The server's side of a question: POST /rag-query/stream, which sends    *)
(* the model's tokens as they arrive and falls through a chain of models,  *)
(* and the blocking POST /rag-query (api/main.py, agents/response_agent.py *)
(* answer_stream and answer, models.iter_chat_stream_with_fallback).       *)
(*                                                                         *)
(* A token is the request it answers and the model call it came from.      *)
(* Events that only set a status line are left out.                        *)
(***************************************************************************)
EXTENDS Integers, Sequences, FiniteSets, SequencesExt

CONSTANTS
  MaxAsks,    \* requests in all
  NModels,    \* models of the chain
  Retries,    \* NIM_TRANSIENT_RETRIES
  MaxTokens,  \* tokens of one call
  Buffer      \* events under way to the client

VARIABLES
  server,   \* per request: the step, the model, its try, the call, the tokens sent and
            \* whether they are the whole answer
  channel   \* per request: events sent and not read

serverVars == <<server, channel>>

Requests == 1..MaxAsks

ServerInit ==
  /\ server = [r \in Requests |-> [pc |-> "off", model |-> 0, try |-> 0, call |-> 0,
                                   sent |-> <<>>, whole |-> FALSE]]
  /\ channel = [r \in Requests |-> <<>>]

Event(kind, text) == [kind |-> kind, text |-> text]

(* The handler sends an event and goes to a step. *)
Send(r, e, pc) ==
  /\ Len(channel[r]) < Buffer
  /\ channel' = [channel EXCEPT ![r] = Append(@, e)]
  /\ server' = [server EXCEPT ![r].pc = pc, ![r].whole = (e.kind = "done")]

(* The stream is opened, or the request is refused. *)
Accept(r) ==
  /\ server[r].pc = "called"
  /\ \/ Send(r, Event("open", <<>>), "search")
     \/ Send(r, Event("refused", <<>>), "closed")

(* No context, no client key, or retrieval raised: an error event. *)
NoContext(r) ==
  /\ server[r].pc = "search"
  /\ Send(r, Event("error", <<>>), "closing")

StartModel(r) ==
  /\ server[r].pc = "search"
  /\ server' = [server EXCEPT ![r].pc = "stream", ![r].model = 1, ![r].try = 1,
                              ![r].call = 1]
  /\ UNCHANGED channel

Token(r) ==
  /\ server[r].pc = "stream" /\ Len(server[r].sent) < MaxTokens
  /\ Len(channel[r]) < Buffer
  /\ LET t == <<r, server[r].call>> IN
       /\ channel' = [channel EXCEPT ![r] = Append(@, Event("token", <<t>>))]
       /\ server' = [server EXCEPT ![r].sent = Append(@, t)]

(* Mutant: a call that fails is replaced whatever it has said. *)
AlwaysReplaceable(r) == server[r].pc = "stream"

(* Another call may answer only if nothing has been streamed. *)
Replaceable(r) == server[r].sent = <<>>

(* The call fails, times out before its first token, or ends without text. *)
CallFails(r) ==
  /\ server[r].pc = "stream"
  /\ \/ /\ Replaceable(r) /\ server[r].try < Retries        \* a transient error
        /\ server' = [server EXCEPT ![r].try = @ + 1, ![r].call = @ + 1]
        /\ UNCHANGED channel
     \/ /\ Replaceable(r) /\ server[r].model < NModels
        /\ server' = [server EXCEPT ![r].model = @ + 1, ![r].try = 1, ![r].call = @ + 1]
        /\ UNCHANGED channel
     \/ /\ ~Replaceable(r) \/ server[r].model = NModels
        /\ Send(r, Event("error", <<>>), "closing")

(* The call is complete: the done event carries the whole answer, unless   *)
(* the explanation that is built first raises.                             *)
CallCompletes(r) ==
  /\ server[r].pc = "stream" /\ server[r].sent # <<>>
  /\ \/ Send(r, Event("done", server[r].sent), "closing")
     \/ Send(r, Event("error", <<>>), "closing")

Close(r) ==
  /\ server[r].pc = "closing" /\ Len(channel[r]) < Buffer
  /\ channel' = [channel EXCEPT ![r] = Append(@, Event("end", <<>>))]
  /\ server' = [server EXCEPT ![r].pc = "closed", ![r].model = 0, ![r].try = 0, ![r].call = 0]

(* The blocking endpoint: an answer from one call, or an HTTP error. *)
ReplyBlocking(r) ==
  /\ server[r].pc = "blocking"
  /\ LET text == <<<<r, 1>>>> IN
       /\ server' = [server EXCEPT ![r].pc = "closed", ![r].sent = text, ![r].whole = TRUE]
       /\ channel' = [channel EXCEPT ![r] = <<Event("answer", text)>>]

RefuseBlocking(r) ==
  /\ server[r].pc = "blocking"
  /\ server' = [server EXCEPT ![r].pc = "closed", ![r].model = 0, ![r].try = 0, ![r].call = 0]
  /\ channel' = [channel EXCEPT ![r] = <<Event("refused", <<>>)>>]

Serve(r) ==
  \/ Accept(r) \/ NoContext(r) \/ StartModel(r) \/ Token(r) \/ CallFails(r)
  \/ CallCompletes(r) \/ Close(r) \/ ReplyBlocking(r) \/ RefuseBlocking(r)
=============================================================================
