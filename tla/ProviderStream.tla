--------------------------- MODULE ProviderStream ---------------------------
(***************************************************************************)
(* One request to a model (provider/openai, anthropic, openairesponses and *)
(* stream of agent/agent.go): up to three attempts to get a 200, then a    *)
(* stream of frames that become chunks, folded into one message.  The wire *)
(* is the environment: frames follow each vendor's protocol, but may stop  *)
(* anywhere, with an error or with a clean end.                            *)
(***************************************************************************)
EXTENDS Naturals, Sequences

CONSTANTS
  Kinds,      \* of {"openai", "anthropic", "responses"}
  Calls,      \* the indices of the tool calls the model makes, from 1
  MaxText,    \* bound: text deltas
  MaxArgs     \* bound: argument deltas of a call

VARIABLES
  kind, ids,  \* the vendor, and whether the gateway gives its calls ids
  phase, attempt, failure, cancelled,
  wire,       \* per call what the server sent: deltas, and whether it is over
  said,       \* text deltas the server sent
  finished,   \* finish_reason, message_delta or response.completed was sent
  acc,        \* acc or tools: the calls being gathered
  out,        \* chunks
  heard,      \* text and calls: what the agent has gathered of them
  message     \* what stream returns to the agent

asked == <<kind, ids>>
request == <<attempt, failure>>
server == <<wire, said, finished>>
reader == <<acc, out, heard, message>>
vars == <<asked, phase, request, cancelled, server, reader>>

MaxAttempts == 3
Nothing == [texts |-> 0, calls |-> <<>>]
NoCall == [has |-> FALSE, n |-> 0]
Chunk(t, i, n) == [t |-> t, i |-> i, n |-> n, id |-> i]
Ended == phase \in {"done", "error", "refused"}

Init ==
  /\ kind \in Kinds /\ ids \in (IF kind = "openai" THEN BOOLEAN ELSE {TRUE})
  /\ phase = "send" /\ attempt = 1 /\ failure = "none" /\ cancelled = FALSE
  /\ wire = [i \in Calls |-> [begun |-> FALSE, n |-> 0, over |-> FALSE]]
  /\ said = 0 /\ finished = FALSE
  /\ acc = [i \in Calls |-> NoCall] /\ out = <<>>
  /\ heard = Nothing /\ message = Nothing

-----------------------------------------------------------------------------
(* sendWithRetry                                                           *)

Outcomes == {"transport", "overloaded", "badrequest", "unauthorized"}

EveryTime(o) == TRUE                   \* mutant: whatever failed is tried again
Retryable(o) == o \in {"transport", "overloaded"}

Send ==
  /\ phase = "send" /\ ~cancelled
  /\ \/ phase' = "stream" /\ UNCHANGED failure
     \/ \E o \in Outcomes :
          /\ failure' = o
          /\ phase' = IF Retryable(o) /\ attempt < MaxAttempts THEN "backoff" ELSE "refused"
  /\ UNCHANGED <<asked, attempt, cancelled, server, reader>>

Backoff ==
  /\ phase = "backoff" /\ ~cancelled
  /\ phase' = "send" /\ attempt' = attempt + 1
  /\ UNCHANGED <<asked, failure, cancelled, server, reader>>

\* A cancelled context is never transient, and ends the wait.
SendCancelled ==
  /\ phase \in {"send", "backoff"} /\ cancelled
  /\ phase' = "refused" /\ failure' = "cancelled"
  /\ UNCHANGED <<asked, attempt, cancelled, server, reader>>

Cancel ==
  /\ ~Ended /\ ~cancelled
  /\ cancelled' = TRUE
  /\ UNCHANGED <<asked, phase, request, server, reader>>

-----------------------------------------------------------------------------
(* readStream: the frames                                                  *)

\* The agent hears the chunks one by one, in the order they go out.
Take(c) ==
  CASE c.t = "text" -> [heard EXCEPT !.texts = @ + 1]
    [] c.t = "call" -> [heard EXCEPT !.calls = Append(@, c)]
    [] OTHER -> heard
Emit(c) == out' = Append(out, c) /\ heard' = Take(c)

Frame == phase = "stream" /\ ~finished /\ UNCHANGED <<asked, request, cancelled, message>>

Text ==
  /\ Frame /\ said < MaxText
  /\ said' = said + 1
  /\ Emit(Chunk("text", 0, said + 1))
  /\ UNCHANGED <<phase, wire, finished, acc>>

\* Anthropic's blocks follow each other; the others' calls may overlap.
MayBegin(i) ==
  /\ ~wire[i].begun
  /\ kind = "anthropic" => \A j \in Calls : wire[j].begun => wire[j].over

Begin(i) ==
  /\ Frame /\ MayBegin(i)
  /\ wire' = [wire EXCEPT ![i].begun = TRUE]
  /\ acc' = [acc EXCEPT ![i] = [has |-> TRUE, n |-> 0]]
  /\ Emit([Chunk("start", i, 0) EXCEPT !.id = IF ids THEN i ELSE 0])
  /\ UNCHANGED <<phase, said, finished>>

Gather(i) == [acc[i] EXCEPT !.n = @ + 1]

\* A delta for an index nobody knows is dropped by two of the readers.
Args(i) ==
  /\ Frame /\ wire[i].begun /\ ~wire[i].over /\ wire[i].n < MaxArgs
  /\ wire' = [wire EXCEPT ![i].n = @ + 1]
  /\ acc' = [acc EXCEPT ![i] = Gather(i)]
  /\ UNCHANGED <<phase, said, finished, out, heard>>

\* content_block_stop, response.output_item.done: the call goes out.  Some
\* gateways send only the last, with all the arguments.
Stop(i) ==
  /\ Frame /\ kind # "openai" /\ ~wire[i].over
  /\ wire[i].begun \/ kind = "responses"
  /\ wire' = [wire EXCEPT ![i].over = TRUE, ![i].n = IF wire[i].begun THEN @ ELSE MaxArgs]
  /\ Emit(Chunk("call", i, IF acc[i].has /\ acc[i].n > 0 THEN acc[i].n ELSE wire'[i].n))
  /\ acc' = [acc EXCEPT ![i] = NoCall]
  /\ UNCHANGED <<phase, said, finished>>

\* The server is done: a call begun is over.
Finish ==
  /\ Frame
  /\ kind # "openai" => \A i \in Calls : wire[i].begun => wire[i].over
  /\ finished' = TRUE
  /\ wire' = [i \in Calls |-> [wire[i] EXCEPT !.over = @ \/ wire[i].begun]]
  /\ Emit(Chunk("usage", 0, 0))
  /\ UNCHANGED <<phase, said, acc>>

-----------------------------------------------------------------------------
(* The end of the body                                                     *)

SeenEnd == kind = "openai" => finished

Closes(c) ==
  /\ phase' = c
  /\ UNCHANGED <<asked, request, cancelled, server>>
Fails == Closes("error") /\ Emit(Chunk("error", 0, 0)) /\ UNCHANGED <<acc, message>>

\* [DONE], message_stop or a proxy's clean FIN: the reader does not tell
\* them apart, only OpenAI's asks for a finish_reason.
CleanEnd ==
  /\ phase = "stream"
  /\ IF SeenEnd THEN Closes("flush") /\ UNCHANGED reader ELSE Fails

\* What the OpenAI reader holds back until the stream is over.  It sends the
\* calls by their index, and one that came without an id gets one made of it.
Held == {i \in Calls : kind = "openai" /\ acc[i].has}
First(i) == \A j \in Held : i <= j

GiveOut(i) ==
  /\ phase = "flush" /\ i \in Held /\ First(i)
  /\ Emit(Chunk("call", i, acc[i].n))
  /\ acc' = [acc EXCEPT ![i] = NoCall]
  /\ UNCHANGED <<asked, phase, request, cancelled, server, message>>

Done ==
  /\ phase = "flush" /\ Held = {}
  /\ Closes("done")
  /\ Emit(Chunk("done", 0, 0)) /\ message' = heard'
  /\ UNCHANGED acc

\* A read error, an error frame, one that cannot be decoded, or a cancelled
\* context, which closes the body.
Breaks == phase = "stream" /\ Fails

Next ==
  \/ Send \/ Backoff \/ SendCancelled \/ Cancel
  \/ Text \/ Finish \/ CleanEnd \/ Done \/ Breaks
  \/ \E i \in Calls : Begin(i) \/ Args(i) \/ Stop(i) \/ GiveOut(i)

Spec == Init /\ [][Next]_vars

(* An attempt returns, a wait ends, a cancelled body is closed, and the    *)
(* reader gives out what it holds.  The server owes nothing more.          *)
Flush == Done \/ \E i \in Calls : GiveOut(i)
Fairness ==
  WF_vars(Send \/ Backoff \/ SendCancelled) /\ WF_vars(cancelled /\ Breaks) /\ WF_vars(Flush)

-----------------------------------------------------------------------------
(* The agent runs only calls the server finished, with all of their        *)
(* arguments and each once, and an answer that failed midway gives it      *)
(* neither text nor calls.  (readStream, Agent.stream)                     *)
CallsAreWhole ==
  /\ \A k \in DOMAIN heard.calls :
       LET c == heard.calls[k]
       IN /\ wire[c.i].over /\ c.n = wire[c.i].n
          /\ \A j \in DOMAIN heard.calls : heard.calls[j].i = c.i => j = k
  /\ phase = "done" =>
       /\ message = heard
       /\ message.texts = said
       /\ finished => \A i \in Calls : wire[i].over =>
                        \E k \in DOMAIN message.calls : message.calls[k].i = i
  /\ phase # "done" => message = Nothing

(* OpenAI's calls come out in the order of their indices, whatever order   *)
(* their fragments had, and a stream its server did not finish is an error.*)
OpenAiOrder ==
  kind = "openai" =>
    /\ \A j, k \in DOMAIN heard.calls : j < k => heard.calls[j].i < heard.calls[k].i
    /\ phase = "done" => finished

(* A request is sent again only after a failure that may pass, at most     *)
(* twice, and never once a chunk of an answer went out.                    *)
RetriesAreSafe ==
  [][attempt' # attempt =>
       out = <<>> /\ failure \in {"transport", "overloaded"} /\ attempt' <= MaxAttempts]_vars

(* A cancelled request ends.                                               *)
CancelEnds == []<>(Ended \/ ~cancelled)

(* Claimed: a stream that ends before its server finished is an error.     *)
TruncationIsError == phase = "done" => finished

(* Claimed: the card shown when a call begins is merged by its id with the *)
(* call; a gateway without ids gives the two different ones.               *)
CardsMerge == \A k \in DOMAIN out : out[k].t = "start" => out[k].id = out[k].i
=============================================================================
