------------------------------ MODULE WorkProofs ------------------------------
(***************************************************************************)
(* Proofs about the work of a turn.  Around the model's answer (MCModel):  *)
(* that what a turn does was let in by the gate, the hooks, the caps of    *)
(* the workflow and the evidence of the steps, that the calls of one       *)
(* client do not spend its login, that a retry repeats nothing and that    *)
(* the agent gets whole calls, each once, for any numbers of calls,        *)
(* senders, hooks, rules and agents.  Behind it                            *)
(* (Jobs): that a finished job's completion is already queued, queued and  *)
(* drained once and never untrue, that a finished job does not change, and *)
(* that the registry implements JobLifecycle, for any number of jobs,      *)
(* chunks and waiters.                                                     *)
(***************************************************************************)
EXTENDS Jobs, MCModel, Integers, SequenceTheorems, FiniteSetTheorems, NaturalsInduction,
        WellFoundedInduction, TLAPS

(* A request and its retries (provider/openai and the others' Stream).     *)

GivenCalls == [t : {"call"}, i : StreamCalls, n : Nat, id : StreamCalls]
StreamTypes ==
  /\ attempt \in 1..Stream!MaxAttempts
  /\ phase \in {"send", "backoff", "refused", "stream", "flush", "done", "error"}
  /\ wire \in [StreamCalls -> [begun : BOOLEAN, n : Nat, over : BOOLEAN]]
  /\ acc \in [StreamCalls -> [has : BOOLEAN, n : Nat]]
  /\ said \in Nat /\ finished \in BOOLEAN
  /\ heard \in [texts : Nat, calls : Seq(GivenCalls)]

StreamRetries ==
  /\ phase \in {"send", "backoff", "refused"} => out = <<>>
  /\ phase = "backoff" => failure \in {"transport", "overloaded"} /\ attempt < Stream!MaxAttempts

(* What was given out, and how it stands with what the server sent.        *)
Given(i) == \E k \in DOMAIN heard.calls : heard.calls[k].i = i
StreamGives ==
  /\ heard.texts = said
  /\ \A k \in DOMAIN heard.calls :
       wire[heard.calls[k].i].over /\ heard.calls[k].n = wire[heard.calls[k].i].n
  /\ \A j, k \in DOMAIN heard.calls : heard.calls[j].i = heard.calls[k].i => j = k
  /\ message = IF phase = "done" THEN heard ELSE Stream!Nothing

(* What is being gathered is what was sent.  OpenAI's reader holds it back *)
(* to the end, and then gives it out from the smallest index on.           *)
StreamHolds ==
  /\ \A i \in StreamCalls : ~wire[i].begun /\ ~wire[i].over => wire[i].n = 0
  /\ \A i \in StreamCalls : acc[i].has /\ (~wire[i].over \/ kind = "openai") => acc[i].n = wire[i].n
  /\ kind # "openai" => \A i \in StreamCalls : wire[i].over => Given(i)
  /\ kind = "openai" =>
       /\ phase \in {"send", "backoff", "refused", "stream"} =>
            /\ heard.calls = <<>>
            /\ \A i \in StreamCalls : /\ wire[i].begun <=> acc[i].has
                                      /\ wire[i].over <=> finished /\ wire[i].begun
       /\ phase \in {"flush", "done"} =>
            /\ finished /\ \A i \in StreamCalls : wire[i].over => Given(i) \/ acc[i].has
            /\ \A i \in StreamCalls : acc[i].has => wire[i].over
       /\ phase = "done" => \A i \in StreamCalls : ~acc[i].has
       /\ \A j, k \in DOMAIN heard.calls : j < k => heard.calls[j].i < heard.calls[k].i
       /\ phase = "flush" => \A i \in StreamCalls, k \in DOMAIN heard.calls :
                               acc[i].has => heard.calls[k].i < i

StreamInv == StreamTypes /\ StreamRetries /\ StreamGives /\ StreamHolds

LEMMA StreamInit == Stream!Init => StreamInv
<1> SUFFICES ASSUME Stream!Init PROVE StreamInv
  OBVIOUS
<1>1. /\ phase = "send" /\ attempt = 1 /\ attempt \in 1..Stream!MaxAttempts /\ said = 0 /\ finished = FALSE /\ out = <<>>
      /\ wire = [i \in StreamCalls |-> [begun |-> FALSE, n |-> 0, over |-> FALSE]]
      /\ acc = [i \in StreamCalls |-> [has |-> FALSE, n |-> 0]]
      /\ heard = [texts |-> 0, calls |-> <<>>] /\ message = Stream!Nothing
  BY DEF Stream!Init, Stream!NoCall, Stream!Nothing, Stream!MaxAttempts
<1>2. StreamTypes
  <2>1. heard \in [texts : Nat, calls : Seq(GivenCalls)]
    BY <1>1
  <2>2. /\ wire \in [StreamCalls -> [begun : BOOLEAN, n : Nat, over : BOOLEAN]]
        /\ acc \in [StreamCalls -> [has : BOOLEAN, n : Nat]]
    BY <1>1
  <2> QED
    BY <1>1, <2>1, <2>2 DEF StreamTypes
<1>3. StreamRetries /\ StreamGives
  BY <1>1 DEF StreamRetries, StreamGives
<1>4. StreamHolds
  BY <1>1 DEF StreamHolds
<1> QED
  BY <1>2, <1>3, <1>4 DEF StreamInv

LEMMA CallsGiven ==
  ASSUME StreamTypes
  PROVE  /\ heard.calls \in Seq(GivenCalls) /\ Len(heard.calls) \in Nat /\ heard.texts \in Nat
         /\ heard = [texts |-> heard.texts, calls |-> heard.calls]
         /\ DOMAIN heard.calls = 1..Len(heard.calls)
         /\ \A k \in DOMAIN heard.calls : heard.calls[k].i \in StreamCalls
<1>1. /\ heard.calls \in Seq(GivenCalls) /\ heard.texts \in Nat
      /\ heard = [texts |-> heard.texts, calls |-> heard.calls]
  BY DEF StreamTypes
<1>2. \A k \in DOMAIN heard.calls : heard.calls[k] \in GivenCalls
  BY <1>1
<1>3. \A c \in GivenCalls : c.i \in StreamCalls
  BY DEF GivenCalls
<1> QED
  BY <1>1, <1>2, <1>3

(* What the agent hears of a chunk.                                        *)
LEMMA StreamHears ==
  ASSUME StreamTypes, NEW i \in StreamCalls, NEW n \in Nat
  PROVE  /\ Stream!Take(Stream!Chunk("text", 0, n)) = [heard EXCEPT !.texts = @ + 1]
         /\ Stream!Take(Stream!Chunk("call", i, n)).texts = heard.texts
         /\ LET cs == Stream!Take(Stream!Chunk("call", i, n)).calls
            IN /\ cs \in Seq(GivenCalls) /\ DOMAIN cs = DOMAIN heard.calls \cup {Len(heard.calls) + 1}
               /\ \A k \in DOMAIN heard.calls : cs[k] = heard.calls[k]
               /\ cs[Len(heard.calls) + 1].i = i /\ cs[Len(heard.calls) + 1].n = n
         /\ Stream!Take(Stream!Chunk("call", i, n)) \in [texts : Nat, calls : Seq(GivenCalls)]
         /\ \A c : c.t \notin {"text", "call"} => Stream!Take(c) = heard
<1> DEFINE c == Stream!Chunk("call", i, n)
<1>1. c \in GivenCalls /\ c.i = i /\ c.n = n /\ c.t = "call"
    BY DEF Stream!Chunk, GivenCalls
<1>2. heard \in [texts : Nat, calls : Seq(GivenCalls)]
    BY DEF StreamTypes
<1>3. Stream!Take(c) = [heard EXCEPT !.calls = Append(@, c)]
  BY <1>1 DEF Stream!Take
<1>4. \A d : d.t \notin {"text", "call"} => Stream!Take(d) = heard
    BY DEF Stream!Take
<1>5. Stream!Take(Stream!Chunk("text", 0, n)) = [heard EXCEPT !.texts = @ + 1]
    BY DEF Stream!Take, Stream!Chunk
<1> HIDE DEF c
<1>6. /\ Append(heard.calls, c) \in Seq(GivenCalls)
        /\ DOMAIN Append(heard.calls, c) = DOMAIN heard.calls \cup {Len(heard.calls) + 1}
        /\ \A k \in DOMAIN heard.calls : Append(heard.calls, c)[k] = heard.calls[k]
        /\ Append(heard.calls, c)[Len(heard.calls) + 1] = c
  BY <1>1, <1>2
<1>7. /\ Stream!Take(c).texts = heard.texts /\ Stream!Take(c).calls = Append(heard.calls, c)
        /\ Stream!Take(c) \in [texts : Nat, calls : Seq(GivenCalls)]
  BY <1>2, <1>3, <1>6
<1> QED
  BY <1>1, <1>4, <1>5, <1>6, <1>7 DEF c

(* A step that hears nothing and changes neither what was sent nor what is *)
(* gathered, nor ends the stream.                                          *)
LEMMA StreamQuiet ==
  ASSUME StreamInv, UNCHANGED <<kind, wire, said, finished, acc, heard, message, phase>>
  PROVE  StreamGives' /\ StreamHolds'
BY DEF StreamInv, StreamGives, StreamHolds, Given

LEMMA StreamFails ==
  ASSUME StreamInv, phase = "stream", Stream!Fails
  PROVE  StreamInv' /\ attempt' = attempt
<1>0. StreamTypes /\ StreamRetries /\ StreamGives /\ StreamHolds
  BY DEF StreamInv
<1>1. /\ phase' = "error" /\ heard' = heard
      /\ UNCHANGED <<kind, wire, said, finished, acc, message, attempt>>
  <2>1. heard' = Stream!Take(Stream!Chunk("error", 0, 0))
    BY DEF Stream!Fails, Stream!Emit
  <2>2. Stream!Take(Stream!Chunk("error", 0, 0)) = heard
    BY DEF Stream!Take, Stream!Chunk
  <2> QED
    BY <2>1, <2>2 DEF Stream!Fails, Stream!Closes, Stream!request, Stream!asked, Stream!server
<1>2. StreamTypes' /\ StreamRetries'
  BY <1>0, <1>1 DEF StreamTypes, StreamRetries
<1>3. StreamGives' /\ StreamHolds'
  BY <1>0, <1>1 DEF StreamGives, StreamHolds, Given
<1> QED
  BY <1>1, <1>2, <1>3 DEF StreamInv

LEMMA StreamStops ==
  ASSUME StreamInv, NEW i \in StreamCalls, Stream!Stop(i)
  PROVE  StreamInv' /\ attempt' = attempt
<1>0. StreamTypes /\ StreamRetries /\ StreamGives /\ StreamHolds
  BY DEF StreamInv
<1> DEFINE m == Len(heard.calls) + 1
<1>1. /\ phase = "stream" /\ kind # "openai" /\ ~wire[i].over
      /\ wire' = [wire EXCEPT ![i].over = TRUE, ![i].n = IF wire[i].begun THEN @ ELSE MaxArgs]
      /\ acc' = [acc EXCEPT ![i] = Stream!NoCall]
      /\ UNCHANGED <<kind, said, finished, message, attempt, phase>>
  BY DEF Stream!Stop, Stream!Frame, Stream!asked, Stream!request
<1>2. \A j \in StreamCalls :
        /\ j # i => wire'[j] = wire[j] /\ acc'[j] = acc[j]
        /\ wire'[i].begun = wire[i].begun /\ wire'[i].over /\ ~acc'[i].has
        /\ wire'[i].n = IF wire[i].begun THEN wire[i].n ELSE MaxArgs
        /\ wire' \in [StreamCalls -> [begun : BOOLEAN, n : Nat, over : BOOLEAN]]
        /\ acc' \in [StreamCalls -> [has : BOOLEAN, n : Nat]]
  <2>1. /\ wire \in [StreamCalls -> [begun : BOOLEAN, n : Nat, over : BOOLEAN]]
        /\ acc \in [StreamCalls -> [has : BOOLEAN, n : Nat]] /\ MaxArgs \in Nat
    BY <1>0, ModelAssumption DEF StreamTypes
  <2> QED
    BY <1>1, <2>1 DEF Stream!NoCall
<1>3. wire'[i].n \in Nat /\ wire'[i].over
  BY <1>0, <1>2, ModelAssumption DEF StreamTypes
<1>4. heard' = Stream!Take(Stream!Chunk("call", i, wire'[i].n))
  <2>1. heard' = Stream!Take(Stream!Chunk("call", i,
                   IF acc[i].has /\ acc[i].n > 0 THEN acc[i].n ELSE wire'[i].n))
    BY DEF Stream!Stop, Stream!Emit
  <2>2. acc[i].has /\ acc[i].n > 0 => acc[i].n = wire'[i].n
    BY <1>0, <1>1, <1>2 DEF StreamHolds, StreamTypes
  <2> QED
    BY <2>1, <2>2
<1>5. /\ heard'.texts = heard.texts /\ heard' \in [texts : Nat, calls : Seq(GivenCalls)]
      /\ DOMAIN heard'.calls = DOMAIN heard.calls \cup {m}
      /\ \A k \in DOMAIN heard.calls : heard'.calls[k] = heard.calls[k]
      /\ heard'.calls[m].i = i /\ heard'.calls[m].n = wire'[i].n
  BY <1>0, <1>3, <1>4, StreamHears
<1>6. \A k \in DOMAIN heard.calls : heard.calls[k].i \in StreamCalls /\ heard.calls[k].i # i
  BY <1>0, <1>1, CallsGiven DEF StreamGives
<1>7. StreamTypes' /\ StreamRetries'
  BY <1>0, <1>1, <1>2, <1>3, <1>5 DEF StreamTypes, StreamRetries
<1> HIDE DEF m
<1>8. StreamGives'
  BY <1>0, <1>1, <1>2, <1>3, <1>5, <1>6 DEF StreamGives
<1>9. StreamHolds'
  <2>1. \A j \in StreamCalls : wire[j].over => Given(j)'
    BY <1>0, <1>1, <1>5 DEF StreamHolds, Given
  <2>2. Given(i)'
    BY <1>5 DEF Given
  <2>3. \A j \in StreamCalls : wire'[j].over => Given(j)'
    BY <1>2, <2>1, <2>2
  <2> HIDE DEF Given
  <2> QED
    BY <1>0, <1>1, <1>2, <2>3 DEF StreamHolds
<1> QED
  BY <1>1, <1>7, <1>8, <1>9 DEF StreamInv

LEMMA StreamGivesOut ==
  ASSUME StreamInv, NEW i \in StreamCalls, Stream!GiveOut(i)
  PROVE  StreamInv' /\ attempt' = attempt
<1>0. StreamTypes /\ StreamRetries /\ StreamGives /\ StreamHolds
  BY DEF StreamInv
<1> DEFINE m == Len(heard.calls) + 1
<1>1. /\ phase = "flush" /\ kind = "openai" /\ acc[i].has
      /\ \A j \in StreamCalls : acc[j].has => i <= j
      /\ acc' = [acc EXCEPT ![i] = Stream!NoCall]
      /\ heard' = Stream!Take(Stream!Chunk("call", i, acc[i].n))
      /\ UNCHANGED <<kind, wire, said, finished, message, attempt, phase>>
  BY DEF Stream!GiveOut, Stream!Emit, Stream!Held, Stream!First, Stream!asked, Stream!request,
         Stream!server
<1>2. /\ \A j \in StreamCalls : j # i => acc'[j] = acc[j]
      /\ ~acc'[i].has /\ acc' \in [StreamCalls -> [has : BOOLEAN, n : Nat]]
  <2>1. acc \in [StreamCalls -> [has : BOOLEAN, n : Nat]]
    BY <1>0 DEF StreamTypes
  <2> QED
    BY <1>1, <2>1 DEF Stream!NoCall
<1>3. acc[i].n = wire[i].n /\ acc[i].n \in Nat /\ wire[i].over
  BY <1>0, <1>1 DEF StreamHolds, StreamTypes
<1>4. /\ heard'.texts = heard.texts /\ heard' \in [texts : Nat, calls : Seq(GivenCalls)]
      /\ DOMAIN heard'.calls = DOMAIN heard.calls \cup {m}
      /\ \A k \in DOMAIN heard.calls : heard'.calls[k] = heard.calls[k]
      /\ heard'.calls[m].i = i /\ heard'.calls[m].n = wire[i].n
  BY <1>0, <1>1, <1>3, StreamHears
<1>5. /\ \A k \in DOMAIN heard.calls : heard.calls[k].i \in StreamCalls /\ heard.calls[k].i < i
      /\ \A k \in DOMAIN heard.calls : k \in Nat /\ k < m
      /\ StreamCalls \subseteq Nat /\ m \in Nat
  BY <1>0, <1>1, CallsGiven, ModelAssumption DEF StreamHolds
<1>6. StreamTypes' /\ StreamRetries'
  BY <1>0, <1>1, <1>2, <1>4 DEF StreamTypes, StreamRetries
<1> HIDE DEF m
<1>7. StreamGives'
  BY <1>0, <1>1, <1>3, <1>4, <1>5 DEF StreamGives
<1>8. StreamHolds'
  <2>1. \A j \in StreamCalls : Given(j) => Given(j)'
    BY <1>4 DEF Given
  <2>2. Given(i)'
    BY <1>4 DEF Given
  <2>3. \A j, k \in DOMAIN heard'.calls : j < k => heard'.calls[j].i < heard'.calls[k].i
    BY <1>0, <1>1, <1>4, <1>5 DEF StreamHolds
  <2>4. ASSUME NEW j \in StreamCalls, acc'[j].has, NEW k \in DOMAIN heard'.calls
        PROVE  heard'.calls[k].i < j
    BY <1>0, <1>1, <1>2, <1>4, <1>5, <2>4 DEF StreamHolds
  <2>5. \A j \in StreamCalls : acc'[j].has => acc'[j].n = wire'[j].n /\ acc[j].has
    BY <1>0, <1>1, <1>2 DEF StreamHolds
  <2> HIDE DEF Given
  <2> QED
    BY <1>0, <1>1, <1>2, <2>1, <2>2, <2>3, <2>4, <2>5 DEF StreamHolds
<1> QED
  BY <1>1, <1>6, <1>7, <1>8 DEF StreamInv

LEMMA StreamStep ==
  StreamInv /\ [Stream!Next]_(Stream!vars) =>
    StreamInv' /\ (attempt' # attempt =>
                     /\ out = <<>> /\ failure \in {"transport", "overloaded"}
                     /\ attempt' <= Stream!MaxAttempts)
<1> SUFFICES ASSUME StreamInv, [Stream!Next]_(Stream!vars)
             PROVE  StreamInv' /\ (attempt' # attempt =>
                                     /\ out = <<>> /\ failure \in {"transport", "overloaded"}
                                     /\ attempt' <= Stream!MaxAttempts)
  OBVIOUS
<1> USE DEF Stream!MaxAttempts, Stream!request, Stream!reader, Stream!asked, Stream!server
<1>0. StreamTypes /\ StreamRetries /\ StreamGives /\ StreamHolds
  BY DEF StreamInv
<1>1. CASE Stream!Send
  <2>1. /\ phase = "send" /\ phase' \in {"stream", "backoff", "refused"}
        /\ UNCHANGED <<kind, wire, said, finished, acc, heard, message, out, attempt>>
        /\ phase' = "backoff" => failure' \in {"transport", "overloaded"} /\ attempt < 3
    BY <1>1 DEF Stream!Send, Stream!Retryable, Stream!Outcomes
  <2>2. StreamTypes' /\ StreamRetries'
    BY <1>0, <2>1 DEF StreamTypes, StreamRetries
  <2>3. StreamGives' /\ StreamHolds'
    BY <1>0, <2>1 DEF StreamGives, StreamHolds, Given
  <2> QED
    BY <2>1, <2>2, <2>3 DEF StreamInv
<1>2. CASE Stream!Backoff
  <2>1. /\ phase = "backoff" /\ phase' = "send" /\ attempt' = attempt + 1
        /\ UNCHANGED <<kind, wire, said, finished, acc, heard, message, out, failure>>
    BY <1>2 DEF Stream!Backoff
  <2>2. StreamTypes' /\ StreamRetries' /\ out = <<>> /\ failure \in {"transport", "overloaded"} /\ attempt' <= 3
    BY <1>0, <2>1 DEF StreamTypes, StreamRetries
  <2>3. StreamGives' /\ StreamHolds'
    BY <1>0, <2>1 DEF StreamGives, StreamHolds, Given
  <2> QED
    BY <2>1, <2>2, <2>3 DEF StreamInv
<1>3. CASE Stream!SendCancelled \/ Stream!Cancel
  <2>1. /\ phase' = phase \/ (phase \in {"send", "backoff"} /\ phase' = "refused")
        /\ UNCHANGED <<kind, wire, said, finished, acc, heard, message, out, attempt>>
        /\ phase' = "backoff" => phase = "backoff" /\ failure' = failure
    <3>1. CASE Stream!SendCancelled
      BY <3>1 DEF Stream!SendCancelled
    <3>2. CASE Stream!Cancel
      BY <3>2 DEF Stream!Cancel
    <3> QED
      BY <1>3, <3>1, <3>2
  <2>2. StreamTypes' /\ StreamRetries'
    BY <1>0, <2>1 DEF StreamTypes, StreamRetries
  <2>3. StreamGives' /\ StreamHolds'
    BY <1>0, <2>1 DEF StreamGives, StreamHolds, Given
  <2> QED
    BY <2>1, <2>2, <2>3 DEF StreamInv
<1>4. CASE Stream!Text
  <2>1. /\ phase = "stream" /\ said' = said + 1 /\ heard' = [heard EXCEPT !.texts = @ + 1]
        /\ UNCHANGED <<kind, wire, finished, acc, message, attempt, phase>>
    <3>1. said + 1 \in Nat /\ heard' = Stream!Take(Stream!Chunk("text", 0, said + 1))
      BY <1>0, <1>4 DEF Stream!Text, Stream!Emit, StreamTypes
    <3>2. Stream!Take(Stream!Chunk("text", 0, said + 1)) = [heard EXCEPT !.texts = @ + 1]
      BY DEF Stream!Take, Stream!Chunk
    <3> QED
      BY <1>4, <3>1, <3>2 DEF Stream!Text, Stream!Frame
  <2>2. /\ heard' \in [texts : Nat, calls : Seq(GivenCalls)]
        /\ heard'.calls = heard.calls /\ heard'.texts = said'
    BY <1>0, <2>1, CallsGiven DEF StreamGives
  <2>3. StreamTypes' /\ StreamRetries'
    BY <1>0, <2>1, <2>2 DEF StreamTypes, StreamRetries
  <2>4. StreamGives' /\ StreamHolds'
    BY <1>0, <2>1, <2>2 DEF StreamGives, StreamHolds, Given
  <2> QED
    BY <2>1, <2>3, <2>4 DEF StreamInv
<1>5. CASE Stream!Finish
  <2>1. /\ phase = "stream" /\ finished' = TRUE /\ finished = FALSE /\ heard' = heard
        /\ wire' = [i \in StreamCalls |-> [wire[i] EXCEPT !.over = @ \/ wire[i].begun]]
        /\ kind # "openai" => \A i \in StreamCalls : wire[i].begun => wire[i].over
        /\ UNCHANGED <<kind, said, acc, message, attempt, phase>>
    <3>1. heard' = Stream!Take(Stream!Chunk("usage", 0, 0))
      BY <1>5 DEF Stream!Finish, Stream!Emit
    <3>2. Stream!Take(Stream!Chunk("usage", 0, 0)) = heard
      BY DEF Stream!Take, Stream!Chunk
    <3> QED
      BY <1>0, <1>5, <3>1, <3>2 DEF Stream!Finish, Stream!Frame, StreamTypes
  <2>2. \A i \in StreamCalls : /\ wire'[i].begun = wire[i].begun /\ wire'[i].n = wire[i].n
                               /\ wire'[i].over <=> wire[i].over \/ wire[i].begun
                               /\ wire'[i] \in [begun : BOOLEAN, n : Nat, over : BOOLEAN]
    BY <1>0, <2>1 DEF StreamTypes
  <2>3. StreamTypes' /\ StreamRetries'
    BY <1>0, <2>1, <2>2 DEF StreamTypes, StreamRetries
  <2>4. \A k \in DOMAIN heard.calls : heard.calls[k].i \in StreamCalls
    BY <1>0, CallsGiven
  <2>5. StreamGives'
    BY <1>0, <2>1, <2>2, <2>4 DEF StreamGives
  <2>6. StreamHolds'
    BY <1>0, <2>1, <2>2 DEF StreamHolds, Given
  <2> QED
    BY <2>1, <2>3, <2>5, <2>6 DEF StreamInv
<1>6. CASE Stream!CleanEnd
  <2>1. CASE Stream!SeenEnd
    <3>1. /\ phase = "stream" /\ phase' = "flush" /\ (kind = "openai" => finished)
          /\ UNCHANGED <<kind, wire, said, finished, acc, heard, message, out, attempt>>
      BY <1>6, <2>1 DEF Stream!CleanEnd, Stream!Closes, Stream!SeenEnd
    <3>2. StreamTypes' /\ StreamRetries'
      BY <1>0, <3>1 DEF StreamTypes, StreamRetries
    <3>3. StreamGives' /\ StreamHolds'
      BY <1>0, <3>1 DEF StreamGives, StreamHolds, Given
    <3> QED
      BY <3>1, <3>2, <3>3 DEF StreamInv
  <2>2. CASE ~Stream!SeenEnd
    BY <1>6, <2>2, StreamFails DEF Stream!CleanEnd
  <2> QED
    BY <2>1, <2>2
<1>7. CASE Stream!Breaks
  BY <1>7, StreamFails DEF Stream!Breaks
<1>8. ASSUME NEW i \in StreamCalls, Stream!Begin(i)
      PROVE  StreamInv' /\ attempt' = attempt
  <2>1. /\ phase = "stream" /\ ~finished /\ ~wire[i].begun /\ heard' = heard
        /\ wire' = [wire EXCEPT ![i].begun = TRUE]
        /\ acc' = [acc EXCEPT ![i] = [has |-> TRUE, n |-> 0]]
        /\ UNCHANGED <<kind, said, finished, message, attempt, phase>>
    <3> DEFINE c == [Stream!Chunk("start", i, 0) EXCEPT !.id = IF ids THEN i ELSE 0]
    <3>1. heard' = Stream!Take(c)
      BY <1>8 DEF Stream!Begin, Stream!Emit
    <3>2. c.t = "start"
      BY DEF Stream!Chunk
    <3>3. Stream!Take(c) = heard
      BY <3>2 DEF Stream!Take
    <3> QED
      BY <1>8, <3>1, <3>3 DEF Stream!Begin, Stream!Frame, Stream!MayBegin
  <2>2. /\ \A j \in StreamCalls : j # i => wire'[j] = wire[j] /\ acc'[j] = acc[j]
        /\ wire'[i].begun /\ wire'[i].n = wire[i].n /\ wire'[i].over = wire[i].over
        /\ acc'[i].has /\ acc'[i].n = 0
        /\ wire' \in [StreamCalls -> [begun : BOOLEAN, n : Nat, over : BOOLEAN]]
        /\ acc' \in [StreamCalls -> [has : BOOLEAN, n : Nat]]
    <3>1. /\ wire \in [StreamCalls -> [begun : BOOLEAN, n : Nat, over : BOOLEAN]]
          /\ acc \in [StreamCalls -> [has : BOOLEAN, n : Nat]]
      BY <1>0 DEF StreamTypes
    <3> QED
      BY <2>1, <3>1
  <2>3. StreamTypes' /\ StreamRetries'
    BY <1>0, <2>1, <2>2 DEF StreamTypes, StreamRetries
  <2>4. \A k \in DOMAIN heard.calls : heard.calls[k].i \in StreamCalls
    BY <1>0, CallsGiven
  <2>5. StreamGives'
    BY <1>0, <2>1, <2>2, <2>4 DEF StreamGives
  <2>6. StreamHolds'
    BY <1>0, <2>1, <2>2 DEF StreamHolds, Given, StreamTypes
  <2> QED
    BY <2>1, <2>3, <2>5, <2>6 DEF StreamInv
<1>9. ASSUME NEW i \in StreamCalls, Stream!Args(i)
      PROVE  StreamInv' /\ attempt' = attempt
  <2>1. /\ phase = "stream" /\ ~finished /\ wire[i].begun /\ ~wire[i].over
        /\ wire' = [wire EXCEPT ![i].n = @ + 1]
        /\ acc' = [acc EXCEPT ![i] = [acc[i] EXCEPT !.n = @ + 1]]
        /\ UNCHANGED <<kind, said, finished, message, attempt, phase, heard>>
    BY <1>9 DEF Stream!Args, Stream!Frame, Stream!Gather
  <2>2. /\ \A j \in StreamCalls : j # i => wire'[j] = wire[j] /\ acc'[j] = acc[j]
        /\ wire'[i].begun /\ wire'[i].n = wire[i].n + 1 /\ ~wire'[i].over
        /\ acc'[i].has = acc[i].has /\ acc'[i].n = acc[i].n + 1
        /\ wire' \in [StreamCalls -> [begun : BOOLEAN, n : Nat, over : BOOLEAN]]
        /\ acc' \in [StreamCalls -> [has : BOOLEAN, n : Nat]]
    <3>1. /\ wire \in [StreamCalls -> [begun : BOOLEAN, n : Nat, over : BOOLEAN]]
          /\ acc \in [StreamCalls -> [has : BOOLEAN, n : Nat]]
      BY <1>0 DEF StreamTypes
    <3> QED
      BY <2>1, <3>1
  <2>3. StreamTypes' /\ StreamRetries'
    BY <1>0, <2>1, <2>2 DEF StreamTypes, StreamRetries
  <2>4. \A k \in DOMAIN heard.calls : heard.calls[k].i \in StreamCalls
    BY <1>0, CallsGiven
  <2>5. StreamGives'
    BY <1>0, <2>1, <2>2, <2>4 DEF StreamGives
  <2>6. StreamHolds'
    BY <1>0, <2>1, <2>2 DEF StreamHolds, Given, StreamTypes
  <2> QED
    BY <2>1, <2>3, <2>5, <2>6 DEF StreamInv
<1>10. ASSUME NEW i \in StreamCalls, Stream!Stop(i)
       PROVE  StreamInv' /\ attempt' = attempt
  BY <1>10, StreamStops
<1>11. ASSUME NEW i \in StreamCalls, Stream!GiveOut(i)
       PROVE  StreamInv' /\ attempt' = attempt
  BY <1>11, StreamGivesOut
<1>12. CASE Stream!Done
  <2>1. /\ phase = "flush" /\ phase' = "done" /\ Stream!Held = {} /\ heard' = heard /\ message' = heard
        /\ UNCHANGED <<kind, wire, said, finished, acc, attempt>>
    <3>1. heard' = Stream!Take(Stream!Chunk("done", 0, 0)) /\ message' = heard'
      BY <1>12 DEF Stream!Done, Stream!Emit
    <3>2. Stream!Take(Stream!Chunk("done", 0, 0)) = heard
      BY DEF Stream!Take, Stream!Chunk
    <3> QED
      BY <1>12, <3>1, <3>2 DEF Stream!Done, Stream!Closes
  <2>2. StreamTypes' /\ StreamRetries' /\ StreamGives'
    BY <1>0, <2>1 DEF StreamTypes, StreamRetries, StreamGives
  <2>3. StreamHolds'
    BY <1>0, <2>1 DEF StreamHolds, Given, Stream!Held
  <2> QED
    BY <2>1, <2>2, <2>3 DEF StreamInv
<1>13. CASE UNCHANGED Stream!vars
  <2>1. /\ UNCHANGED <<kind, wire, said, finished, acc, heard, message, phase>>
        /\ UNCHANGED <<attempt, failure, out>>
    BY <1>13 DEF Stream!vars
  <2>2. StreamTypes' /\ StreamRetries'
    BY <1>0, <2>1 DEF StreamTypes, StreamRetries
  <2> QED
    BY <2>1, <2>2, StreamQuiet DEF StreamInv
<1> QED
  BY <1>1, <1>2, <1>3, <1>4, <1>5, <1>6, <1>7, <1>8, <1>9, <1>10, <1>11, <1>12, <1>13
     DEF Stream!Next

LEMMA StreamSays == StreamInv => Stream!CallsAreWhole /\ Stream!OpenAiOrder
BY DEF StreamInv, StreamTypes, StreamGives, StreamHolds, Given, GivenCalls, Stream!CallsAreWhole,
       Stream!OpenAiOrder

-----------------------------------------------------------------------------
(* The login (provider/openairesponses/auth.go).                           *)

AuthPlaces == {"start", "load", "post", "save", "write", "sent", "failed", "signedout"}
Tokens == 0..issued
Logins == [at : {"none", "save", "write", "done", "out"}, token : Tokens]
AuthTypes ==
  /\ issued \in Nat /\ file \in Tokens \cup {Auth!Torn}
  /\ lock \in [Clients -> Senders \cup {Auth!Nobody}]
  /\ gAt \in [Senders -> AuthPlaces] /\ has \in [Senders -> Tokens]
  /\ rivals \subseteq Senders
  /\ login \in Logins

(* A client's mutex is held from the load to the end of the write.         *)
Locked(g) == gAt[g] \in {"load", "post", "save", "write"}
AuthMutex == \A g \in Senders : Locked(g) => lock[ClientOf[g]] = g

(* Until something is lost or somebody logs in, the server takes the one   *)
(* token it issued last.  It is in the file, or a call is about to store   *)
(* it, and then no other call has it.                                      *)
Saving(g) == gAt[g] \in {"save", "write"}
Undisturbed == ~Auth!Lost /\ login = Auth!NoLogin
AuthStore ==
  Undisturbed =>
    /\ live = {issued}
    /\ (\A g \in Senders : ~Saving(g)) => file = issued
    /\ \A g \in Senders : Saving(g) =>
         /\ has[g] = issued /\ file # issued
         /\ \A h \in Senders : Saving(h) => h = g
         /\ \A h \in Senders : gAt[h] = "post" => has[h] # issued

(* The token of a call about to spend it is live, unless another client    *)
(* has moved.                                                              *)
AuthPost ==
  \A g \in Senders :
    Undisturbed /\ gAt[g] = "post" /\ ~Auth!Rival(g) => has[g] = issued

AuthInv == AuthTypes /\ AuthMutex /\ AuthStore /\ AuthPost /\ Auth!OneSpenderPerClient

LEMMA AuthInit == Auth!Init => AuthInv
<1> SUFFICES ASSUME Auth!Init PROVE AuthInv
  OBVIOUS
<1> USE ModelAssumption DEF Auth!Init
<1>1. AuthTypes
  <2>1. login \in Logins
    BY DEF Logins, Tokens, Auth!NoLogin
  <2> QED
    BY <2>1 DEF AuthTypes, AuthPlaces, Tokens, Auth!Torn, Auth!Nobody
<1> QED
  BY <1>1 DEF AuthInv, AuthMutex, Locked, AuthStore, AuthPost, Saving, Auth!OneSpenderPerClient

LEMMA AuthTypesStep == AuthTypes /\ [Auth!Next]_(Auth!vars) => AuthTypes'
<1> SUFFICES ASSUME AuthTypes, [Auth!Next]_(Auth!vars) PROVE AuthTypes'
  OBVIOUS
<1> USE ModelAssumption DEF AuthTypes, Tokens, AuthPlaces, Auth!Torn, Auth!Nobody, Auth!Goto, Auth!Leave,
       Auth!Stored
<1>1. ASSUME NEW g \in Senders, Auth!Step(g) PROVE AuthTypes'
  <2>0. /\ issued' \in {issued, issued + 1} /\ issued' \in Nat /\ login' = login
        /\ \A n \in 0..issued : n \in 0..issued'
    BY <1>1 DEF Auth!Step, Auth!Lock, Auth!Load, Auth!Refresh, Auth!Truncate, Auth!Write
  <2>a. login' \in Logins'
    BY <2>0 DEF Logins
  <2>b. file' \in 0..issued' \cup {-1} /\ rivals' \subseteq Senders
    BY <1>1, <2>0 DEF Auth!Step, Auth!Lock, Auth!Load, Auth!Refresh, Auth!Truncate, Auth!Write
  <2>c. has' \in [Senders -> 0..issued']
    BY <1>1, <2>0 DEF Auth!Step, Auth!Lock, Auth!Load, Auth!Refresh, Auth!Truncate, Auth!Write
  <2>d. gAt' \in [Senders -> AuthPlaces]
    BY <1>1 DEF Auth!Step, Auth!Lock, Auth!Load, Auth!Refresh, Auth!Truncate, Auth!Write
  <2>e. lock' \in [Clients -> Senders \cup {Auth!Nobody}]
    BY <1>1 DEF Auth!Step, Auth!Lock, Auth!Load, Auth!Refresh, Auth!Truncate, Auth!Write
  <2> QED
    BY <2>0, <2>a, <2>b, <2>c, <2>d, <2>e
<1>2. CASE Auth!Exchange
  <2>1. issued' = issued + 1 /\ \A n \in 0..issued : n \in 0..issued'
    BY <1>2 DEF Auth!Exchange
  <2>2. login' \in Logins' /\ has' \in [Senders -> 0..issued']
    BY <1>2, <2>1 DEF Auth!Exchange, Logins
  <2> QED
    BY <1>2, <2>1, <2>2 DEF Auth!Exchange
<1>3. CASE Auth!LoginTruncate \/ Auth!LoginWrite \/ Auth!Logout
  <2>1. login' \in Logins' /\ file' \in 0..issued \cup {-1}
    BY <1>3 DEF Auth!LoginTruncate, Auth!LoginWrite, Auth!Logout, Logins
  <2> QED
    BY <1>3, <2>1 DEF Auth!LoginTruncate, Auth!LoginWrite, Auth!Logout
<1>4. CASE Auth!Expire \/ UNCHANGED Auth!vars
  <2>1. login' \in Logins'
    BY <1>4 DEF Auth!Expire, Auth!vars, Logins
  <2> QED
    BY <1>4, <2>1 DEF Auth!Expire, Auth!vars
<1> QED
  BY <1>1, <1>2, <1>3, <1>4 DEF Auth!Next

LEMMA AuthMutexStep ==
  AuthTypes /\ AuthMutex /\ [Auth!Next]_(Auth!vars) => AuthMutex'
<1> SUFFICES ASSUME AuthTypes, AuthMutex, [Auth!Next]_(Auth!vars) PROVE AuthMutex'
  OBVIOUS
<1> USE ModelAssumption DEF AuthTypes, AuthMutex, Locked, Auth!Goto, Auth!Leave
<1>1. ASSUME NEW g \in Senders, Auth!Step(g) PROVE AuthMutex'
  <2>1. CASE Auth!Lock(g)
    BY <2>1 DEF Auth!Lock, Auth!Free, Auth!Nobody
  <2>2. CASE Auth!Load(g)
    BY <2>2 DEF Auth!Load
  <2>3. CASE Auth!Refresh(g)
    BY <2>3 DEF Auth!Refresh
  <2>4. CASE Auth!Truncate(g)
    BY <2>4 DEF Auth!Truncate
  <2>5. CASE Auth!Write(g)
    BY <2>5 DEF Auth!Write
  <2> QED
    BY <1>1, <2>1, <2>2, <2>3, <2>4, <2>5 DEF Auth!Step
<1>2. CASE UNCHANGED <<lock, gAt>>
  BY <1>2
<1> QED
  BY <1>1, <1>2 DEF Auth!Next, Auth!Exchange, Auth!LoginTruncate, Auth!LoginWrite, Auth!Logout,
       Auth!Expire, Auth!vars

(* Once disturbed, always disturbed: a failed call stays so.               *)
LEMMA StaysDisturbed ==
  AuthTypes /\ [Auth!Next]_(Auth!vars) =>
    /\ \A g \in Senders : gAt[g] = "failed" => gAt'[g] = "failed"
    /\ \A g \in Senders : gAt'[g] = "start" => gAt[g] = "start"
    /\ login # Auth!NoLogin => login' # Auth!NoLogin
<1> SUFFICES ASSUME AuthTypes, [Auth!Next]_(Auth!vars)
             PROVE  /\ \A g \in Senders : gAt[g] = "failed" => gAt'[g] = "failed"
                    /\ \A g \in Senders : gAt'[g] = "start" => gAt[g] = "start"
                    /\ login # Auth!NoLogin => login' # Auth!NoLogin
  OBVIOUS
<1> USE DEF AuthTypes, Auth!Goto
<1>1. ASSUME NEW g \in Senders, Auth!Step(g)
      PROVE  /\ gAt[g] \notin {"failed"} /\ login' = login
             /\ \E l : gAt' = [gAt EXCEPT ![g] = l] /\ l # "start"
  <2>1. CASE Auth!Lock(g)
    <3>1. gAt' = [gAt EXCEPT ![g] = "load"]
      BY <2>1 DEF Auth!Lock
    <3> QED
      BY <2>1, <3>1 DEF Auth!Lock
  <2>2. CASE Auth!Load(g)
    BY <2>2 DEF Auth!Load
  <2>3. CASE Auth!Refresh(g)
    BY <2>3 DEF Auth!Refresh
  <2>4. CASE Auth!Truncate(g)
    <3>1. gAt' = [gAt EXCEPT ![g] = "write"]
      BY <2>4 DEF Auth!Truncate
    <3> QED
      BY <2>4, <3>1 DEF Auth!Truncate
  <2>5. CASE Auth!Write(g)
    BY <2>5 DEF Auth!Write
  <2> QED
    BY <1>1, <2>1, <2>2, <2>3, <2>4, <2>5 DEF Auth!Step
<1>2. CASE \E g \in Senders : Auth!Step(g)
  <2>1. PICK g \in Senders : Auth!Step(g)
    BY <1>2
  <2>2. PICK l : gAt' = [gAt EXCEPT ![g] = l] /\ l # "start"
    BY <1>1, <2>1
  <2> QED
    BY <1>1, <2>1, <2>2
<1>3. CASE ~\E g \in Senders : Auth!Step(g)
  BY <1>3 DEF Auth!Next, Auth!Exchange, Auth!LoginTruncate, Auth!LoginWrite, Auth!Logout,
       Auth!Expire, Auth!vars, Auth!NoLogin
<1> QED
  BY <1>2, <1>3

LEMMA AuthStoreStep ==
  AuthTypes /\ AuthMutex /\ AuthStore /\ [Auth!Next]_(Auth!vars) => AuthStore'
<1> SUFFICES ASSUME AuthTypes, AuthMutex, AuthStore, [Auth!Next]_(Auth!vars), Undisturbed'
             PROVE  AuthStore'
  BY DEF AuthStore
<1>1. Undisturbed
  BY StaysDisturbed DEF Undisturbed, Auth!Lost
<1>2. \A g \in Senders : gAt'[g] # "failed"
  BY DEF Undisturbed, Auth!Lost
<1> USE <1>1, <1>2 DEF AuthTypes, AuthStore, Saving, Tokens, Auth!Goto, Auth!Torn
<1>3. ASSUME NEW g \in Senders, Auth!Step(g) PROVE AuthStore'
  <2>1. CASE Auth!Lock(g)
    BY <2>1 DEF Auth!Lock
  <2>2. CASE Auth!Load(g)
    <3>1. /\ UNCHANGED <<issued, live, file>> /\ \A h \in Senders : Saving(h)' <=> Saving(h)
          /\ \A h \in Senders : gAt'[h] = "post" => (gAt[h] = "post" /\ has'[h] = has[h]) \/ has'[h] = file
          /\ \A h \in Senders : Saving(h) => has'[h] = has[h]
      BY <2>2 DEF Auth!Load
    <3> QED
      BY <3>1
  <2>3. CASE Auth!Refresh(g)
    BY <2>3 DEF Auth!Refresh
  <2>4. CASE Auth!Truncate(g)
    <3>1. /\ UNCHANGED <<issued, live, has>> /\ \A h \in Senders : Saving(h)' <=> Saving(h)
          /\ Saving(g) /\ file' = -1
          /\ \A h \in Senders : gAt'[h] = "post" => gAt[h] = "post"
      BY <2>4 DEF Auth!Truncate
    <3> QED
      BY <3>1
  <2>5. CASE Auth!Write(g)
    BY <2>5 DEF Auth!Write, Auth!Stored
  <2> QED
    BY <1>3, <2>1, <2>2, <2>3, <2>4, <2>5 DEF Auth!Step
<1>4. CASE UNCHANGED <<issued, live, file, gAt, has>>
  BY <1>4
<1>5. login' = Auth!NoLogin
  BY DEF Undisturbed
<1> QED
  BY <1>3, <1>4, <1>5 DEF Auth!Next, Auth!Exchange, Auth!LoginTruncate, Auth!LoginWrite, Auth!Logout,
       Auth!Expire, Auth!vars, Auth!NoLogin

LEMMA AuthPostStep ==
  AuthTypes /\ AuthMutex /\ AuthStore /\ AuthPost /\ [Auth!Next]_(Auth!vars) => AuthPost'
<1> SUFFICES ASSUME AuthTypes, AuthMutex, AuthStore, AuthPost, [Auth!Next]_(Auth!vars), Undisturbed',
                    NEW g \in Senders, gAt'[g] = "post", ~Auth!Rival(g)'
             PROVE  has'[g] = issued'
  BY DEF AuthPost
<1>1. Undisturbed
  BY StaysDisturbed DEF Undisturbed, Auth!Lost
<1>2. ~Auth!Rival(g)
  BY StaysDisturbed DEF Auth!Rival
<1>3. \A h \in Senders : gAt'[h] # "failed"
  BY DEF Undisturbed, Auth!Lost
<1>4. \A h \in Senders : h # g => ~Locked(h) \/ ~Locked(g)
  BY <1>2, ModelAssumption DEF AuthMutex, Auth!Rival, Locked
<1>5. CASE gAt[g] = "post"
  <2>1. has[g] = issued
    BY <1>1, <1>2, <1>5 DEF AuthPost
  <2>2. \A h \in Senders : h # g => ~Locked(h)
    BY <1>4, <1>5 DEF Locked
  <2>3. UNCHANGED <<has, issued>>
    <3>1. ASSUME NEW h \in Senders, Auth!Step(h) PROVE UNCHANGED <<has, issued>>
      <4>1. CASE h = g
        BY <1>3, <1>5, <3>1, <4>1 DEF Auth!Step, Auth!Lock, Auth!Load, Auth!Refresh, Auth!Truncate, Auth!Write,
             Auth!Goto, AuthTypes
      <4>2. CASE h # g
        BY <2>2, <3>1, <4>2 DEF Auth!Step, Auth!Lock, Auth!Load, Auth!Refresh, Auth!Truncate, Auth!Write,
             Locked
      <4> QED
        BY <4>1, <4>2
    <3>2. login' = Auth!NoLogin
      BY DEF Undisturbed
    <3> QED
      BY <3>1, <3>2 DEF Auth!Next, Auth!Exchange, Auth!LoginTruncate, Auth!LoginWrite, Auth!Logout,
           Auth!Expire, Auth!vars, Auth!NoLogin
  <2> QED
    BY <2>1, <2>3
<1>6. CASE gAt[g] # "post"
  <2>1. Auth!Load(g)
    <3>1. PICK h \in Senders : Auth!Step(h)
      BY <1>6 DEF Auth!Next, Auth!Exchange, Auth!LoginTruncate, Auth!LoginWrite, Auth!Logout,
           Auth!Expire, Auth!vars
    <3> QED
      BY <1>6, <3>1 DEF Auth!Step, Auth!Lock, Auth!Load, Auth!Refresh, Auth!Truncate, Auth!Write,
           Auth!Goto, AuthTypes
  <2>2. gAt[g] = "load" /\ has' = [has EXCEPT ![g] = file] /\ issued' = issued
    BY <2>1 DEF Auth!Load, Auth!Goto, AuthTypes
  <2>3. \A h \in Senders : ~Saving(h)
    BY <1>4, <2>2 DEF Locked, Saving
  <2> QED
    BY <1>1, <2>2, <2>3 DEF AuthStore, AuthTypes
<1> QED
  BY <1>5, <1>6

LEMMA AuthSpendersStep ==
  AuthTypes /\ AuthMutex /\ AuthStore /\ AuthPost /\ Auth!OneSpenderPerClient
    /\ [Auth!Next]_(Auth!vars) => Auth!OneSpenderPerClient'
<1> SUFFICES ASSUME AuthTypes, AuthMutex, AuthStore, AuthPost, Auth!OneSpenderPerClient,
                    [Auth!Next]_(Auth!vars), NEW g \in rivals'
             PROVE  Auth!Rival(g)' \/ login' # Auth!NoLogin \/ \E h \in Senders \ {g} : gAt'[h] = "failed"
  BY DEF Auth!OneSpenderPerClient
<1>1. Auth!Rival(g) => Auth!Rival(g)'
  BY StaysDisturbed DEF Auth!Rival
<1>2. CASE g \in rivals
  BY <1>1, <1>2, StaysDisturbed DEF Auth!OneSpenderPerClient
<1>3. CASE g \notin rivals
  <2>1. g \in Senders /\ gAt[g] = "post" /\ has[g] \notin live
    <3>1. PICK h \in Senders : Auth!Step(h)
      BY <1>3 DEF Auth!Next, Auth!Exchange, Auth!LoginTruncate, Auth!LoginWrite, Auth!Logout,
           Auth!Expire, Auth!vars
    <3> QED
      BY <1>3, <3>1 DEF Auth!Step, Auth!Lock, Auth!Load, Auth!Refresh, Auth!Truncate, Auth!Write
  <2>2. SUFFICES ASSUME Undisturbed, ~Auth!Rival(g) PROVE FALSE
    BY <1>1, <2>1, StaysDisturbed DEF Undisturbed, Auth!Lost
  <2> QED
    BY <2>1, <2>2 DEF AuthPost, AuthStore
<1> QED
  BY <1>2, <1>3

LEMMA AuthStep == AuthInv /\ [Auth!Next]_(Auth!vars) => AuthInv'
BY AuthTypesStep, AuthMutexStep, AuthStoreStep, AuthPostStep, AuthSpendersStep DEF AuthInv

LEMMA AuthHolds == AuthInv => Auth!OneSpenderPerClient /\ Auth!StoredIsLive
<1> SUFFICES ASSUME AuthInv, Undisturbed, \A g \in Senders : ~Saving(g) PROVE file \in live
  BY DEF AuthInv, Auth!StoredIsLive, Undisturbed, Saving
<1> QED
  BY DEF AuthInv, AuthStore

-----------------------------------------------------------------------------
(* The hooks and the gate of a call (hook/hook.go, permission/).           *)

Places ==
  {"submit", "model", "gate", "pretool", "tool", "posttool", "subagent", "stop", "end"}
Verdicts == {"denied", "free", "headless", "allowed", "declined", "aborted"}
HookRecords == [event : STRING \ {"none"}, match : STRING]
Outcomes ==
  [hook : Nat,
   event : {"UserPromptSubmit", "PostLLMCall", "PreToolUse", "PostToolUse", "SubagentStop", "Stop"},
   decision : {"pass", "error", "block", "warn"}, said : {"none", "rewritten", "killed"}]
GatesTypes ==
  /\ project \in Seq(HookRecords) /\ global \in Seq(HookRecords)
  /\ trusted \in BOOLEAN /\ blocked \in BOOLEAN
  /\ hAt \in Places /\ pos \in Nat \ {0}
  /\ log \in Seq(Outcomes)
  /\ answer \in Verdicts \cup {"none"} /\ hResult \in {"none", "ok", "error"}

(* The outcomes of one event.                                              *)
Hooked(e) == {log[k].hook : k \in Gates!Fired(e)}
NoBlock(e) == \A k \in Gates!Fired(e) : log[k].decision # "block"

(* What fired was wanted, once and in order, and nothing behind a refusal. *)
GatesLog ==
  /\ \A k \in DOMAIN log : log[k].hook \in Gates!Wanted(log[k].event)
  /\ \A j, k \in DOMAIN log : j < k /\ log[j].event = log[k].event =>
       log[j].decision # "block" /\ log[j].hook < log[k].hook

(* Of the event at work, the hooks before pos have returned.               *)
GatesNow ==
  /\ hAt \in {"gate", "tool", "end"} => pos = 1 /\ ~blocked
  /\ hAt \notin {"gate", "tool", "end"} =>
       /\ Hooked(Gates!EventAt) = {p \in Gates!Wanted(Gates!EventAt) : p < pos}
       /\ blocked <=> ~NoBlock(Gates!EventAt)
  /\ blocked => hAt \in {"submit", "pretool"}

(* The events that are still to come.                                      *)
Ahead ==
  CASE hAt = "submit" -> {"PostLLMCall", "PreToolUse", "PostToolUse", "SubagentStop", "Stop"}
    [] hAt \in {"model", "gate"} -> {"PreToolUse", "PostToolUse", "SubagentStop", "Stop"}
    [] hAt \in {"pretool", "tool"} -> {"PostToolUse", "SubagentStop", "Stop"}
    [] hAt = "posttool" -> {"SubagentStop", "Stop"}
    [] hAt = "subagent" -> {"Stop"}
    [] OTHER -> {}
GatesAhead == \A e \in Ahead : Gates!Fired(e) = {}

(* The gate answers by what the rules decide.                              *)
Reads ==
  call.readOnly \/ (call.name = "bash" /\ Gates!IsReadOnlyBash(Gates!Subject(call.args)))
Fits(d) ==
  CASE d = "deny" -> answer = "denied"
    [] d = "allow" -> answer = "free"
    [] OTHER -> IF ~interactive THEN answer = "headless" ELSE answer \in {"allowed", "declined", "aborted"}
GatesAnswer ==
  /\ hAt \in {"submit", "model", "gate"} => answer = "none"
  /\ answer # "none" => call.known /\ Fits(Gates!Decide(Reads))
  /\ hAt \in {"pretool", "tool"} \/ hResult # "none" => call.known /\ answer \notin Gates!Refusals \cup {"none"}
  /\ ~call.known \/ answer \in Gates!Refusals => Gates!Fired("PreToolUse") = {}

(* What an earlier stage of the turn leaves behind.                        *)
GatesPassed ==
  /\ hAt \notin {"submit", "end"} => NoBlock("UserPromptSubmit")
  /\ hAt \in {"submit", "model", "gate", "pretool", "tool"} => hResult = "none"
  /\ hAt \in {"posttool", "subagent"} => hResult # "none"
  /\ hAt = "tool" \/ hResult # "none" =>
       Hooked("PreToolUse") = Gates!Wanted("PreToolUse") /\ NoBlock("PreToolUse")
  /\ hAt = "subagent" => Gates!Delegated
  /\ hAt \in {"subagent", "stop", "end"} =>
       Hooked("PostToolUse") = IF hResult # "none" THEN Gates!Wanted("PostToolUse") ELSE {}
  /\ hAt \in {"stop", "end"} =>
       Hooked("SubagentStop") = IF Gates!Delegated THEN Gates!Wanted("SubagentStop") ELSE {}
  /\ hAt = "end" =>
       Hooked("Stop") = IF NoBlock("UserPromptSubmit") THEN Gates!Wanted("Stop") ELSE {}

(* The tool runs behind all that gates it.                                 *)
GatesEffects ==
  effects = <<>> \/
    /\ hResult # "none"
    /\ \E n \in Nat : effects = <<n>> /\ Gates!Fired("PreToolUse") \subseteq 1..n

GatesInv ==
  GatesTypes /\ GatesLog /\ GatesNow /\ GatesAhead /\ GatesAnswer /\ GatesPassed /\ GatesEffects
    /\ Gates!SignatureFits

LEMMA GatesInit == Gates!Init => GatesInv
<1> SUFFICES ASSUME Gates!Init PROVE GatesInv
  OBVIOUS
<1>1. GatesTypes
  <2>1. project \in Seq(HookRecords) /\ global \in Seq(HookRecords)
    BY ModelAssumption DEF Gates!Init, HookRecords
  <2>2. log \in Seq(Outcomes)
    BY DEF Gates!Init
  <2>3. pos \in Nat \ {0}
    BY DEF Gates!Init
  <2>5. trusted \in BOOLEAN /\ blocked \in BOOLEAN
    BY Zenon DEF Gates!Init
  <2>4. hAt \in Places /\ answer \in Verdicts \cup {"none"} /\ hResult \in {"none", "ok", "error"}
    BY DEF Gates!Init, Places, Gates!None
  <2> QED
    BY <2>1, <2>2, <2>3, <2>4, <2>5 DEF GatesTypes
<1>2. log = <<>> /\ \A e : Gates!Fired(e) = {} /\ Hooked(e) = {} /\ NoBlock(e)
  BY DEF Gates!Init, Gates!Fired, Hooked, NoBlock
<1>3. GatesNow
  BY <1>2 DEF Gates!Init, GatesNow, Gates!Wanted
<1>4. GatesLog /\ GatesAhead /\ GatesEffects
  BY <1>2 DEF Gates!Init, GatesLog, GatesAhead, GatesEffects
<1>5. GatesAnswer /\ GatesPassed
  BY <1>2 DEF Gates!Init, GatesAnswer, GatesPassed, Gates!None, Gates!Refusals
<1>6. Gates!SignatureFits
  BY DEF Gates!Init, Gates!SignatureFits
<1> QED
  BY <1>1, <1>3, <1>4, <1>5, <1>6 DEF GatesInv

(* The settings stand, and with them what is loaded and wanted.            *)
LEMMA Loads ==
  ASSUME GatesTypes
  PROVE  Gates!Loaded \in Seq(HookRecords) /\ (~trusted => Gates!Loaded = global)
<1>1. <<>> \o global = global
  BY DEF GatesTypes
<1> QED
  BY <1>1 DEF GatesTypes, Gates!Loaded, Gates!Resolve

LEMMA SettingsStand ==
  ASSUME [Gates!Next]_(Gates!vars)
  PROVE  /\ UNCHANGED <<project, global, trusted, signed, policy, interactive, call>>
         /\ Gates!Loaded' = Gates!Loaded /\ \A e : Gates!Wanted(e)' = Gates!Wanted(e)
<1>1. UNCHANGED <<project, global, trusted, signed, policy, interactive, call>>
  BY DEF Gates!Next, Gates!Skip, Gates!Hook, Gates!Submitted, Gates!Reasoned, Gates!Unknown, Gates!Check,
       Gates!Gated, Gates!Execute, Gates!Observed, Gates!Cancel, Gates!vars, Gates!settings
<1>2. Gates!Loaded' = Gates!Loaded
  BY <1>1 DEF Gates!Loaded, Gates!Resolve
<1> QED
  BY <1>1, <1>2 DEF Gates!Wanted

(* At an event's place the hooks that match are those that are wanted.     *)
LEMMA MatchesAre ==
  ASSUME GatesTypes, pos <= Len(Gates!Loaded)
  PROVE  /\ Gates!Matches(Gates!Loaded[pos]) <=> pos \in Gates!Wanted(Gates!EventAt)
         /\ Gates!Matches(Gates!Loaded[pos]) => hAt \notin {"gate", "tool", "end"}
<1>1. pos \in DOMAIN Gates!Loaded /\ Gates!Loaded[pos] \in HookRecords
  BY Loads DEF GatesTypes
<1>2. Gates!Matches(Gates!Loaded[pos]) <=> pos \in Gates!Wanted(Gates!EventAt)
  <2>1. /\ hAt = "pretool" <=> Gates!EventAt = "PreToolUse"
        /\ hAt = "posttool" <=> Gates!EventAt = "PostToolUse"
    BY DEF Gates!EventAt, GatesTypes, Places, Gates!None
  <2> QED
    BY <1>1, <2>1 DEF Gates!Matches, Gates!Wanted
<1>3. ASSUME hAt \in {"gate", "tool", "end"} PROVE ~Gates!Matches(Gates!Loaded[pos])
  BY <1>1, <1>3 DEF Gates!Matches, Gates!EventAt, Gates!None, HookRecords
<1> QED
  BY <1>2, <1>3

(* What one more outcome does to those of each event.                      *)
LEMMA Outcome ==
  ASSUME GatesTypes, NEW r \in Outcomes,
         log' = Append(log, r)
  PROVE  /\ DOMAIN log' = 1..Len(log) + 1 /\ log'[Len(log) + 1] = r /\ Len(log) \in Nat
         /\ \A k \in DOMAIN log : log'[k] = log[k] /\ k < Len(log) + 1 /\ k \in DOMAIN log'
         /\ \A k \in DOMAIN log' : k = Len(log) + 1 \/ k \in DOMAIN log
         /\ \A e : e # r.event => /\ Gates!Fired(e)' = Gates!Fired(e) /\ Hooked(e)' = Hooked(e)
                                  /\ NoBlock(e)' = NoBlock(e)
         /\ Hooked(r.event)' = Hooked(r.event) \cup {r.hook}
         /\ NoBlock(r.event)' = (NoBlock(r.event) /\ r.decision # "block")
<1>1. /\ DOMAIN log' = 1..Len(log) + 1 /\ log'[Len(log) + 1] = r /\ Len(log) \in Nat
      /\ DOMAIN log = 1..Len(log) /\ \A k \in DOMAIN log : log'[k] = log[k]
  BY DEF GatesTypes
<1>2. /\ \A k \in DOMAIN log : log'[k] = log[k] /\ k < Len(log) + 1 /\ k \in DOMAIN log'
      /\ \A k \in DOMAIN log' : k = Len(log) + 1 \/ k \in DOMAIN log
  BY <1>1
<1>3. ASSUME NEW e, e # r.event PROVE Gates!Fired(e)' = Gates!Fired(e)
  BY <1>1, <1>2, <1>3 DEF Gates!Fired
<1>4. Gates!Fired(r.event)' = Gates!Fired(r.event) \cup {Len(log) + 1}
  BY <1>1, <1>2 DEF Gates!Fired
<1>5. \A e : Gates!Fired(e) \subseteq DOMAIN log
  BY DEF Gates!Fired
<1>6. ASSUME NEW e, e # r.event PROVE Hooked(e)' = Hooked(e) /\ NoBlock(e)' = NoBlock(e)
  BY <1>2, <1>3, <1>5, <1>6 DEF Hooked, NoBlock
<1>7. Hooked(r.event)' = Hooked(r.event) \cup {r.hook}
  BY <1>1, <1>2, <1>4, <1>5 DEF Hooked
<1>8. NoBlock(r.event)' = (NoBlock(r.event) /\ r.decision # "block")
  BY <1>1, <1>2, <1>4, <1>5 DEF NoBlock
<1> QED
  BY <1>1, <1>2, <1>3, <1>6, <1>7, <1>8

(* The steps, by what they move: a hook, and then the turn from one place  *)
(* to the next.                                                            *)
Moves ==
  /\ pos' = 1 /\ ~blocked' /\ log' = log
  /\ \/ Gates!Submitted \/ Gates!Reasoned \/ Gates!Unknown \/ Gates!Check
     \/ Gates!Gated \/ Gates!Execute \/ Gates!Observed
LEMMA GatesSteps ==
  ASSUME [Gates!Next]_(Gates!vars)
  PROVE  \/ Gates!Skip \/ Gates!Hook \/ Moves
         \/ UNCHANGED <<hAt, pos, log, blocked, effects, stored, answer, hResult>>
BY DEF Gates!Next, Moves, Gates!Submitted, Gates!Reasoned, Gates!Unknown, Gates!Check,
     Gates!Gated, Gates!Execute, Gates!Observed, Gates!Cancel, Gates!vars, Gates!settings, Gates!Advance

LEMMA DecideOutcomeIs ==
  ASSUME NEW x
  PROVE  /\ Gates!DecideOutcome(x) \in {"pass", "error", "block", "warn"}
         /\ Gates!DecideOutcome(x) = "block" => hAt \in {"submit", "pretool"}
<1>1. CASE x = "exit0"
  BY <1>1 DEF Gates!DecideOutcome
<1>2. CASE x = "spawn"
  BY <1>2 DEF Gates!DecideOutcome
<1>3. CASE x \in {"exit2", "timeout"} /\ Gates!Blocking
  BY <1>3 DEF Gates!DecideOutcome, Gates!Blocking
<1>4. CASE x \notin {"exit0", "spawn"} /\ ~(x \in {"exit2", "timeout"} /\ Gates!Blocking)
  BY <1>4 DEF Gates!DecideOutcome
<1> QED
  BY <1>1, <1>2, <1>3, <1>4

(* A hook that returned is an outcome more.                                *)
Returned(r) ==
  /\ r.hook = pos /\ r.event = Gates!EventAt /\ log' = Append(log, r)
  /\ pos \in Gates!Wanted(Gates!EventAt) /\ hAt \notin {"gate", "tool", "end"}
  /\ pos' = pos + 1 /\ ~blocked /\ blocked' = (r.decision = "block")
  /\ blocked' => hAt \in {"submit", "pretool"}
  /\ UNCHANGED <<hAt, effects, stored, answer, hResult>>
LEMMA HookStep ==
  ASSUME GatesTypes, Gates!Hook
  PROVE  \E r \in Outcomes : Returned(r)
<1>1. PICK x \in IF hCancelled THEN {"spawn"} ELSE {"exit0", "exit2", "exit1", "timeout", "spawn"},
           text \in {"none", "rewritten", "killed"} :
       /\ log' = Append(log, [hook |-> pos, event |-> Gates!EventAt, decision |-> Gates!DecideOutcome(x),
                              said |-> text])
       /\ blocked' = Gates!Breaks(Gates!DecideOutcome(x))
  BY DEF Gates!Hook, Gates!None
<1> DEFINE r == [hook |-> pos, event |-> Gates!EventAt, decision |-> Gates!DecideOutcome(x), said |-> text]
<1>2. /\ pos <= Len(Gates!Loaded) /\ ~blocked /\ Gates!Matches(Gates!Loaded[pos]) /\ pos' = pos + 1
      /\ UNCHANGED <<hAt, effects, stored, answer, hResult>>
  BY DEF Gates!Hook
<1>3. pos \in Gates!Wanted(Gates!EventAt) /\ hAt \notin {"gate", "tool", "end"}
  BY <1>2, MatchesAre
<1>4. r \in Outcomes
  <2>1. Gates!EventAt \in {"UserPromptSubmit", "PostLLMCall", "PreToolUse", "PostToolUse",
                           "SubagentStop", "Stop"}
    BY <1>3 DEF Gates!EventAt, GatesTypes, Places
  <2> QED
    BY <2>1, DecideOutcomeIs DEF GatesTypes, Outcomes
<1>5. blocked' = (r.decision = "block") /\ (blocked' => hAt \in {"submit", "pretool"})
  BY <1>1, DecideOutcomeIs DEF Gates!Breaks
<1>6. Returned(r)
  BY <1>1, <1>2, <1>3, <1>5 DEF Returned
<1> QED
  BY <1>4, <1>6

LEMMA EventIs ==
  ASSUME GatesTypes
  PROVE  /\ hAt = "submit" => Gates!EventAt = "UserPromptSubmit"
         /\ hAt = "model" => Gates!EventAt = "PostLLMCall"
         /\ hAt = "pretool" => Gates!EventAt = "PreToolUse"
         /\ hAt = "posttool" => Gates!EventAt = "PostToolUse"
         /\ hAt = "subagent" => Gates!EventAt = "SubagentStop"
         /\ hAt = "stop" => Gates!EventAt = "Stop"
         /\ hAt \in {"gate", "tool", "end"} => Gates!EventAt = "none"
         /\ \A p \in Gates!Wanted(Gates!EventAt) : p \in 1..Len(Gates!Loaded)
         /\ \A e : \A p \in Gates!Wanted(e) : p \in 1..Len(Gates!Loaded)
<1>1. Gates!Loaded \in Seq(HookRecords)
  BY Loads
<1>2. \A e : \A p \in Gates!Wanted(e) : p \in 1..Len(Gates!Loaded)
  BY <1>1 DEF Gates!Wanted
<1> QED
  BY <1>2 DEF Gates!EventAt, Gates!None, GatesTypes, Places

(* An event that is reported was refused, or all that is wanted returned.  *)
LEMMA ReportedIs ==
  ASSUME GatesTypes, GatesNow, Gates!Reported, hAt \notin {"gate", "tool", "end"}
  PROVE  IF blocked THEN ~NoBlock(Gates!EventAt)
         ELSE NoBlock(Gates!EventAt) /\ Hooked(Gates!EventAt) = Gates!Wanted(Gates!EventAt)
<1>1. CASE blocked
  BY <1>1 DEF GatesNow
<1>2. CASE ~blocked
  <2>1. pos > Len(Gates!Loaded) /\ pos \in Nat
    BY <1>2 DEF Gates!Reported, GatesTypes
  <2>2. Len(Gates!Loaded) \in Nat
    BY Loads
  <2>3. \A p \in Gates!Wanted(Gates!EventAt) : p < pos
    BY <2>1, <2>2, EventIs
  <2> QED
    BY <1>2, <2>3 DEF GatesNow
<1> QED
  BY <1>1, <1>2

(* When the log stands, what fired stands.                                 *)
LEMMA LogStands ==
  ASSUME log' = log
  PROVE  \A e : Gates!Fired(e)' = Gates!Fired(e) /\ Hooked(e)' = Hooked(e) /\ NoBlock(e)' = NoBlock(e)
<1>1. \A e : Gates!Fired(e)' = Gates!Fired(e)
  BY DEF Gates!Fired
<1> QED
  BY <1>1 DEF Hooked, NoBlock

LEMMA NothingFired ==
  ASSUME NEW e, Gates!Fired(e) = {}
  PROVE  Hooked(e) = {} /\ NoBlock(e)
BY DEF Hooked, NoBlock

(* What the gate's decision rests on does not move.                        *)
LEMMA DecisionStands ==
  ASSUME UNCHANGED <<policy, interactive, call>>
  PROVE  Reads' = Reads /\ Gates!Decide(Reads)' = Gates!Decide(Reads)
<1>1. Reads' = Reads
  BY DEF Reads, Gates!IsReadOnlyBash, Gates!Subject
<1> QED
  BY <1>1 DEF Gates!Decide, Gates!DenyFirst, Gates!MatchAny, Gates!ParseRules, Gates!Subject

LEMMA TypesStay == GatesInv /\ [Gates!Next]_(Gates!vars) => GatesTypes'
<1> SUFFICES ASSUME GatesInv, [Gates!Next]_(Gates!vars) PROVE GatesTypes'
  OBVIOUS
<1>1. GatesTypes /\ UNCHANGED <<project, global, trusted, interactive, call>>
  BY SettingsStand DEF GatesInv
<1> SUFFICES blocked' \in BOOLEAN /\ hAt' \in Places /\ pos' \in Nat \ {0} /\ log' \in Seq(Outcomes)
             /\ answer' \in Verdicts \cup {"none"} /\ hResult' \in {"none", "ok", "error"}
  BY <1>1 DEF GatesTypes
<1>2. CASE Gates!Skip
  BY <1>1, <1>2 DEF Gates!Skip, GatesTypes
<1>3. CASE Gates!Hook
  <2>1. PICK r \in Outcomes : Returned(r)
    BY <1>1, <1>3, HookStep
  <2>2. blocked' \in BOOLEAN
    BY <2>1 DEF Returned
  <2>3. pos' \in Nat \ {0} /\ log' \in Seq(Outcomes)
    BY <1>1, <2>1 DEF Returned, GatesTypes
  <2> QED
    BY <1>1, <2>1, <2>2, <2>3 DEF Returned, GatesTypes
<1>4. CASE Moves
  <2>1. pos' \in Nat \ {0} /\ log' \in Seq(Outcomes)
    BY <1>1, <1>4 DEF Moves, GatesTypes
  <2>2. blocked' \in BOOLEAN
    BY <1>4, Zenon DEF Moves, Gates!Submitted, Gates!Reasoned, Gates!Unknown, Gates!Check,
         Gates!Gated, Gates!Execute, Gates!Observed, Gates!Advance
  <2>3. hAt' \in Places
    BY <1>4 DEF Moves, Gates!Submitted, Gates!Reasoned, Gates!Unknown, Gates!Check,
         Gates!Gated, Gates!Execute, Gates!Observed, Gates!Advance, Places
  <2>4. answer' \in Verdicts \cup {"none"}
    BY <1>1, <1>4 DEF Moves, Gates!Submitted, Gates!Reasoned, Gates!Unknown, Gates!Check,
         Gates!Gated, Gates!Execute, Gates!Observed, Gates!Advance, Gates!Answers, Verdicts, GatesTypes
  <2>5. hResult' \in {"none", "ok", "error"}
    BY <1>1, <1>4 DEF Moves, Gates!Submitted, Gates!Reasoned, Gates!Unknown, Gates!Check,
         Gates!Gated, Gates!Execute, Gates!Observed, Gates!Advance, GatesTypes
  <2> QED
    BY <2>1, <2>2, <2>3, <2>4, <2>5
<1>5. CASE UNCHANGED <<hAt, pos, log, blocked, effects, stored, answer, hResult>>
  BY <1>1, <1>5 DEF GatesTypes
<1> QED
  BY <1>2, <1>3, <1>4, <1>5, GatesSteps

LEMMA LogStays == GatesInv /\ [Gates!Next]_(Gates!vars) => GatesLog'
<1> SUFFICES ASSUME GatesInv, [Gates!Next]_(Gates!vars) PROVE GatesLog'
  OBVIOUS
<1>1. /\ GatesTypes /\ GatesLog /\ GatesNow
      /\ \A e : Gates!Wanted(e)' = Gates!Wanted(e)
  BY SettingsStand DEF GatesInv
<1>2. CASE log' = log
  BY <1>1, <1>2 DEF GatesLog
<1>3. CASE Gates!Hook
  <2>1. PICK r \in Outcomes : Returned(r)
    BY <1>1, <1>3, HookStep
  <2>2. log' = Append(log, r) /\ r.event = Gates!EventAt /\ r.hook = pos
    BY <2>1 DEF Returned
  <2>3. ASSUME NEW k \in DOMAIN log' PROVE (log[k].hook \in Gates!Wanted(log[k].event))'
    <3>1. log'[k].hook \in Gates!Wanted(log'[k].event)
      <4>1. CASE k \in DOMAIN log
        BY <1>1, <2>2, <4>1, Outcome DEF GatesLog
      <4>2. CASE k = Len(log) + 1
        BY <1>1, <2>1, <2>2, <4>2, Outcome DEF Returned
      <4> QED
        BY <1>1, <2>2, <4>1, <4>2, Outcome
    <3>2. Gates!Loaded' = Gates!Loaded /\ call' = call
      BY SettingsStand
    <3> QED
      BY <3>1, <3>2 DEF Gates!Wanted
  <2>4. ASSUME NEW j \in DOMAIN log', NEW k \in DOMAIN log', j < k, log'[j].event = log'[k].event
        PROVE  log'[j].decision # "block" /\ log'[j].hook < log'[k].hook
    <3>1. CASE k \in DOMAIN log
      <4>1. j \in DOMAIN log
        BY <1>1, <2>2, <2>4, <3>1, Outcome
      <4> QED
        BY <1>1, <2>2, <2>4, <3>1, <4>1, Outcome DEF GatesLog
    <3>2. CASE k = Len(log) + 1
      <4>1. j \in DOMAIN log /\ log'[j] = log[j] /\ log'[k] = r
        BY <1>1, <2>2, <2>4, <3>2, Outcome
      <4>2. j \in Gates!Fired(Gates!EventAt)
        BY <2>2, <2>4, <4>1 DEF Gates!Fired
      <4>3. NoBlock(Gates!EventAt) /\ Hooked(Gates!EventAt) = {p \in Gates!Wanted(Gates!EventAt) : p < pos}
        BY <1>1, <2>1 DEF GatesNow, Returned
      <4> QED
        BY <2>2, <4>1, <4>2, <4>3 DEF NoBlock, Hooked
    <3> QED
      BY <1>1, <2>2, <3>1, <3>2, Outcome
  <2> QED
    BY <2>3, <2>4 DEF GatesLog
<1> QED
  BY <1>2, <1>3, GatesSteps DEF Moves, Gates!Skip

(* Where a move leads.                                                     *)
LEMMA MovesTo ==
  ASSUME GatesTypes, GatesNow, Moves
  PROVE  /\ \/ hAt = "submit" /\ hAt' = "end" /\ blocked
            \/ hAt = "submit" /\ hAt' = "model" /\ ~blocked
            \/ hAt = "model" /\ hAt' = "gate"
            \/ hAt = "gate" /\ hAt' \in {"stop", "pretool"}
            \/ hAt = "pretool" /\ hAt' = "stop" /\ blocked
            \/ hAt = "pretool" /\ hAt' = "tool" /\ ~blocked
            \/ hAt = "tool" /\ hAt' = "posttool"
            \/ hAt = "posttool" /\ hAt' = (IF Gates!Delegated THEN "subagent" ELSE "stop")
            \/ hAt = "subagent" /\ hAt' = "stop"
            \/ hAt = "stop" /\ hAt' = "end"
         /\ hAt \notin {"gate", "tool", "end"} => Gates!Reported
         /\ hAt # "gate" => answer' = answer
         /\ hAt # "tool" => hResult' = hResult /\ effects' = effects
         /\ hAt # "model" => stored' = stored
<1>1. CASE Gates!Submitted \/ Gates!Gated
  BY <1>1 DEF Gates!Submitted, Gates!Gated, Gates!Advance
<1>2. CASE Gates!Reasoned \/ Gates!Unknown \/ Gates!Check \/ Gates!Execute
  BY <1>2 DEF Gates!Reasoned, Gates!Unknown, Gates!Check, Gates!Execute, Gates!Advance
<1>3. CASE Gates!Observed
  BY <1>3 DEF Gates!Observed, Gates!Advance
<1> QED
  BY <1>1, <1>2, <1>3 DEF Moves

LEMMA NowStays == GatesInv /\ [Gates!Next]_(Gates!vars) => GatesNow'
<1> SUFFICES ASSUME GatesInv, [Gates!Next]_(Gates!vars) PROVE GatesNow'
  OBVIOUS
<1>1. GatesTypes /\ GatesTypes' /\ GatesLog /\ GatesNow /\ GatesAhead
  BY TypesStay DEF GatesInv
<1>2. Gates!Loaded' = Gates!Loaded /\ \A e : Gates!Wanted(e)' = Gates!Wanted(e)
  BY SettingsStand
<1>3. ASSUME hAt' = hAt PROVE Gates!EventAt' = Gates!EventAt
  BY <1>3 DEF Gates!EventAt
<1>4. CASE Gates!Skip
  <2>1. /\ pos <= Len(Gates!Loaded) /\ ~blocked /\ ~Gates!Matches(Gates!Loaded[pos])
        /\ Gates!EventAt # "none" /\ pos' = pos + 1 /\ UNCHANGED <<hAt, log, blocked>>
    BY <1>4 DEF Gates!Skip, Gates!None
  <2>2. pos \notin Gates!Wanted(Gates!EventAt) /\ hAt \notin {"gate", "tool", "end"}
    BY <1>1, <2>1, MatchesAre, EventIs
  <2>3. \A p \in Gates!Wanted(Gates!EventAt) : p < pos <=> p < pos + 1
    BY <1>1, <2>2, EventIs, Loads DEF GatesTypes
  <2>4. Hooked(Gates!EventAt)' = Hooked(Gates!EventAt) /\ NoBlock(Gates!EventAt)' = NoBlock(Gates!EventAt)
    BY <1>3, <2>1, LogStands DEF Hooked, NoBlock, Gates!Fired
  <2>5. (Gates!Wanted(Gates!EventAt))' = Gates!Wanted(Gates!EventAt)
    BY <1>2, <1>3, <2>1 DEF Gates!Wanted
  <2> QED
    BY <1>1, <2>1, <2>2, <2>3, <2>4, <2>5 DEF GatesNow
<1>5. CASE Gates!Hook
  <2>1. PICK r \in Outcomes : Returned(r)
    BY <1>1, <1>5, HookStep
  <2>2. /\ r.hook = pos /\ r.event = Gates!EventAt /\ pos \in Gates!Wanted(Gates!EventAt)
        /\ hAt \notin {"gate", "tool", "end"} /\ pos' = pos + 1 /\ ~blocked
        /\ (blocked' <=> r.decision = "block") /\ (blocked' => hAt \in {"submit", "pretool"}) /\ hAt' = hAt
    BY <2>1 DEF Returned
  <2>3. /\ Hooked(Gates!EventAt) = {p \in Gates!Wanted(Gates!EventAt) : p < pos}
        /\ NoBlock(Gates!EventAt)
    BY <1>1, <2>2 DEF GatesNow
  <2>4. /\ Hooked(Gates!EventAt)' = Hooked(Gates!EventAt) \cup {pos}
        /\ (NoBlock(Gates!EventAt)' <=> r.decision # "block")
    <3>1. /\ Hooked(r.event)' = Hooked(r.event) \cup {r.hook}
          /\ NoBlock(r.event)' = (NoBlock(r.event) /\ r.decision # "block")
      BY <1>1, <2>1, Outcome DEF Returned
    <3> QED
      BY <1>3, <2>2, <2>3, <3>1 DEF Hooked, NoBlock, Gates!Fired
  <2>5. (Gates!Wanted(Gates!EventAt))' = Gates!Wanted(Gates!EventAt)
    BY <1>2, <1>3, <2>2 DEF Gates!Wanted
  <2>6. {p \in Gates!Wanted(Gates!EventAt) : p < pos} \cup {pos}
          = {p \in Gates!Wanted(Gates!EventAt) : p < pos + 1}
    <3>1. \A p \in Gates!Wanted(Gates!EventAt) : (p < pos \/ p = pos) <=> p < pos + 1
      BY <1>1, <2>2, EventIs, Loads DEF GatesTypes
    <3> QED
      BY <2>2, <3>1
  <2> QED
    BY <2>2, <2>3, <2>4, <2>5, <2>6 DEF GatesNow
<1>6. CASE Moves
  <2>1. pos' = 1 /\ ~blocked' /\ log' = log
    BY <1>6 DEF Moves
  <2>2. ASSUME hAt' \notin {"gate", "tool", "end"}
        PROVE  (Hooked(Gates!EventAt) = {} /\ NoBlock(Gates!EventAt))'
    <3>1. Gates!EventAt' \in Ahead
      <4>1. /\ hAt' = "model" => Gates!EventAt' = "PostLLMCall"
            /\ hAt' = "pretool" => Gates!EventAt' = "PreToolUse"
            /\ hAt' = "posttool" => Gates!EventAt' = "PostToolUse"
            /\ hAt' = "subagent" => Gates!EventAt' = "SubagentStop"
            /\ hAt' = "stop" => Gates!EventAt' = "Stop"
        BY DEF Gates!EventAt
      <4> QED
        BY <1>1, <1>6, <2>2, <4>1, MovesTo DEF Ahead
    <3>2. Gates!Fired(Gates!EventAt)' = {}
      BY <1>1, <2>1, <3>1 DEF GatesAhead, Gates!Fired
    <3> QED
      BY <3>2 DEF Hooked, NoBlock
  <2>3. {p \in Gates!Wanted(Gates!EventAt)' : p < 1} = {}
    <3>1. \A p \in Gates!Wanted(Gates!EventAt)' : p \in 1..Len(Gates!Loaded')
      BY <1>1, Loads DEF Gates!Wanted, EventIs, GatesTypes
    <3> QED
      BY <3>1, <1>2, <1>1, Loads
  <2> QED
    BY <2>1, <2>2, <2>3 DEF GatesNow
<1>7. CASE UNCHANGED <<hAt, pos, log, blocked, effects, stored, answer, hResult>>
  <2>1. UNCHANGED <<project, global, trusted, call>>
    BY SettingsStand
  <2> QED
    BY <1>1, <1>7, <2>1 DEF GatesNow, Hooked, NoBlock, Gates!Fired, Gates!Wanted, Gates!EventAt,
         Gates!Loaded, Gates!Resolve
<1> QED
  BY <1>4, <1>5, <1>6, <1>7, GatesSteps

(* What a step leaves of the log: the outcomes of the other events.        *)
LEMMA LogMoves ==
  ASSUME GatesInv, [Gates!Next]_(Gates!vars)
  PROVE  \/ /\ hAt' = hAt /\ UNCHANGED <<effects, stored, answer, hResult>>
            /\ \/ log' = log
               \/ /\ hAt \notin {"gate", "tool", "end"}
                  /\ \E r \in Outcomes : r.event = Gates!EventAt /\ log' = Append(log, r)
                  /\ \A e : e # Gates!EventAt =>
                       /\ Gates!Fired(e)' = Gates!Fired(e) /\ Hooked(e)' = Hooked(e)
                       /\ NoBlock(e)' = NoBlock(e)
         \/ Moves /\ log' = log
<1>1. GatesTypes
  BY DEF GatesInv
<1>2. CASE Gates!Hook
  <2>1. PICK r \in Outcomes : Returned(r)
    BY <1>1, <1>2, HookStep
  <2> QED
    BY <1>1, <2>1, Outcome DEF Returned
<1>3. CASE Gates!Skip
  BY <1>3 DEF Gates!Skip
<1> QED
  BY <1>2, <1>3, GatesSteps DEF Moves

LEMMA AheadStays == GatesInv /\ [Gates!Next]_(Gates!vars) => GatesAhead'
<1> SUFFICES ASSUME GatesInv, [Gates!Next]_(Gates!vars) PROVE GatesAhead'
  OBVIOUS
<1>1. GatesTypes /\ GatesNow /\ GatesAhead
  BY DEF GatesInv
<1>2. CASE log' = log
  <2>1. Ahead' \subseteq Ahead
    <3>1. CASE hAt' = hAt
      BY <3>1 DEF Ahead
    <3>2. CASE Moves
      BY <1>1, <3>2, MovesTo DEF Ahead
    <3> QED
      BY <3>1, <3>2, LogMoves
  <2> QED
    BY <1>1, <1>2, <2>1, LogStands DEF GatesAhead, Gates!Fired
<1>3. CASE hAt' = hAt /\ log' # log
  <2>1. \A e : e # Gates!EventAt => Gates!Fired(e)' = Gates!Fired(e)
    BY <1>3, LogMoves
  <2>2. Gates!EventAt \notin Ahead
    BY <1>1, EventIs DEF Ahead, GatesTypes, Places
  <2>3. Ahead' = Ahead
    BY <1>3 DEF Ahead
  <2> QED
    BY <1>1, <2>1, <2>2, <2>3 DEF GatesAhead, Gates!Fired
<1> QED
  BY <1>2, <1>3, LogMoves

LEMMA AnswerStays == GatesInv /\ [Gates!Next]_(Gates!vars) => GatesAnswer'
<1> SUFFICES ASSUME GatesInv, [Gates!Next]_(Gates!vars) PROVE GatesAnswer'
  OBVIOUS
<1>1. GatesTypes /\ GatesNow /\ GatesAhead /\ GatesAnswer /\ GatesPassed
  BY DEF GatesInv
<1>2. UNCHANGED <<policy, interactive, call>>
  BY SettingsStand
<1>3. \A d : answer' = answer => (Fits(d)' <=> Fits(d))
  BY <1>2 DEF Fits
<1>4. Reads' = Reads /\ Gates!Decide(Reads)' = Gates!Decide(Reads)
  BY <1>2, DecisionStands
<1>5. CASE hAt' = hAt /\ UNCHANGED <<answer, hResult>>
  <2>1. ~call.known \/ answer \in Gates!Refusals => Gates!Fired("PreToolUse")' = {}
    <3>1. CASE log' = log
      BY <1>1, <3>1 DEF GatesAnswer, Gates!Fired
    <3>2. CASE log' # log
      <4>1. hAt = "pretool" \/ Gates!EventAt # "PreToolUse"
        BY <1>1, EventIs DEF GatesTypes, Places
      <4>2. Gates!EventAt # "PreToolUse" => Gates!Fired("PreToolUse")' = Gates!Fired("PreToolUse")
        BY <1>5, <3>2, LogMoves
      <4> QED
        BY <1>1, <4>1, <4>2 DEF GatesAnswer
    <3> QED
      BY <3>1, <3>2
  <2>2. answer # "none" => (call.known /\ Fits(Gates!Decide(Reads)))'
    <3>1. Fits(Gates!Decide(Reads))' <=> Fits(Gates!Decide(Reads))
      BY <1>2, <1>4, <1>5 DEF Fits
    <3> QED
      BY <1>1, <1>2, <3>1 DEF GatesAnswer
  <2> QED
    BY <1>1, <1>2, <1>5, <2>1, <2>2 DEF GatesAnswer, Gates!Refusals
<1>6. CASE Moves /\ hAt # "gate"
  <2>1. log' = log /\ answer' = answer
    BY <1>1, <1>6, MovesTo DEF Moves
  <2>2. answer # "none" => (call.known /\ Fits(Gates!Decide(Reads)))'
    <3>1. Fits(Gates!Decide(Reads))' <=> Fits(Gates!Decide(Reads))
      BY <1>2, <1>4, <2>1 DEF Fits
    <3> QED
      BY <1>1, <1>2, <3>1 DEF GatesAnswer
  <2>3. hAt' \in {"submit", "model", "gate"} => hAt \in {"submit", "model"}
    BY <1>1, <1>6, MovesTo
  <2>4. hAt' \in {"pretool", "tool"} \/ hResult' # "none" => hAt \in {"pretool", "tool"} \/ hResult # "none"
    BY <1>1, <1>6, MovesTo
  <2>5. Gates!Fired("PreToolUse")' = Gates!Fired("PreToolUse")
    BY <2>1 DEF Gates!Fired
  <2> QED
    BY <1>1, <1>2, <2>1, <2>2, <2>3, <2>4, <2>5 DEF GatesAnswer, Gates!Refusals
<1>7. CASE Moves /\ hAt = "gate"
  <2>1. /\ log' = log /\ answer = "none" /\ hResult = "none" /\ hResult' = "none"
        /\ hAt' \in {"stop", "pretool"} /\ Gates!Fired("PreToolUse") = {}
    BY <1>1, <1>7, MovesTo DEF Moves, GatesAnswer, GatesPassed, GatesAhead, Ahead
  <2>2. Gates!Fired("PreToolUse")' = {}
    BY <2>1 DEF Gates!Fired
  <2>3. \/ ~call.known /\ answer' = "none" /\ hAt' = "stop"
        \/ /\ call.known /\ answer' \in Gates!Answers(Gates!Decide(Reads))
           /\ hAt' = IF answer' \in Gates!Refusals THEN "stop" ELSE "pretool"
    BY <1>7, <2>1 DEF Moves, Gates!Submitted, Gates!Reasoned, Gates!Unknown, Gates!Check, Gates!Gated,
         Gates!Execute, Gates!Observed, Gates!Advance, Reads
  <2>4. answer' \in Gates!Answers(Gates!Decide(Reads)) =>
          answer' # "none" /\ (Fits(Gates!Decide(Reads)))'
    BY <1>2, <1>4 DEF Gates!Answers, Fits
  <2> QED
    BY <1>2, <2>1, <2>2, <2>3, <2>4 DEF GatesAnswer, Gates!Refusals
<1> QED
  BY <1>5, <1>6, <1>7, LogMoves

LEMMA PassedStays == GatesInv /\ [Gates!Next]_(Gates!vars) => GatesPassed'
<1> SUFFICES ASSUME GatesInv, [Gates!Next]_(Gates!vars) PROVE GatesPassed'
  OBVIOUS
<1>1. GatesTypes /\ GatesNow /\ GatesAhead /\ GatesAnswer /\ GatesPassed
  BY DEF GatesInv
<1>2. call' = call /\ \A e : Gates!Wanted(e)' = Gates!Wanted(e)
  BY SettingsStand
<1>3. hResult' = hResult => Gates!Delegated' = Gates!Delegated
  BY <1>2 DEF Gates!Delegated
<1>4. CASE hAt' = hAt /\ hResult' = hResult
  <2>1. CASE log' = log
    BY <1>1, <1>2, <1>3, <1>4, <2>1, LogStands DEF GatesPassed
  <2>2. CASE log' # log
    <3>1. /\ hAt \notin {"gate", "tool", "end"}
          /\ \A e : e # Gates!EventAt => Hooked(e)' = Hooked(e) /\ NoBlock(e)' = NoBlock(e)
      BY <1>4, <2>2, LogMoves DEF Moves
    <3>2. hAt \in {"submit", "model", "pretool", "posttool", "subagent", "stop"}
      BY <1>1, <3>1 DEF GatesTypes, Places
    <3>3. hAt # "submit" => NoBlock("UserPromptSubmit")'
      BY <1>1, <3>1, <3>2, EventIs DEF GatesPassed
    <3>4. hResult # "none" =>
            Hooked("PreToolUse")' = Gates!Wanted("PreToolUse")' /\ NoBlock("PreToolUse")'
      BY <1>1, <1>2, <3>1, <3>2, EventIs DEF GatesPassed
    <3>5. hAt \in {"subagent", "stop"} =>
            Hooked("PostToolUse")' = IF hResult # "none" THEN Gates!Wanted("PostToolUse")' ELSE {}
      BY <1>1, <1>2, <3>1, <3>2, EventIs DEF GatesPassed
    <3>6. hAt = "stop" =>
            Hooked("SubagentStop")' = IF Gates!Delegated THEN Gates!Wanted("SubagentStop")' ELSE {}
      BY <1>1, <1>2, <3>1, <3>2, EventIs DEF GatesPassed
    <3> QED
      BY <1>1, <1>3, <1>4, <3>2, <3>3, <3>4, <3>5, <3>6 DEF GatesPassed
  <2> QED
    BY <2>1, <2>2
<1>5. CASE Moves
  <2>1. /\ \A e : Hooked(e)' = Hooked(e) /\ NoBlock(e)' = NoBlock(e)
    BY <1>5, LogStands DEF Moves
  <2>2. hAt \notin {"gate", "tool", "end"} =>
          IF blocked THEN ~NoBlock(Gates!EventAt)
          ELSE NoBlock(Gates!EventAt) /\ Hooked(Gates!EventAt) = Gates!Wanted(Gates!EventAt)
    BY <1>1, <1>5, MovesTo, ReportedIs
  <2>3. \A e \in Ahead : Hooked(e) = {} /\ NoBlock(e)
    BY <1>1, NothingFired DEF GatesAhead
  <2>4. hAt' \notin {"submit", "end"} => NoBlock("UserPromptSubmit")
    BY <1>1, <1>5, <2>2, MovesTo, EventIs DEF GatesPassed
  <2>5. /\ hAt' \in {"submit", "model", "gate", "pretool", "tool"} => hResult' = "none"
        /\ hAt' \in {"posttool", "subagent"} => hResult' # "none"
    <3>1. hAt = "tool" => hResult' # "none"
      BY <1>5 DEF Moves, Gates!Submitted, Gates!Reasoned, Gates!Unknown, Gates!Check, Gates!Gated,
           Gates!Execute, Gates!Observed
    <3> QED
      BY <1>1, <1>5, <3>1, MovesTo DEF GatesPassed
  <2>6. hAt' = "tool" \/ hResult' # "none" =>
          Hooked("PreToolUse") = Gates!Wanted("PreToolUse") /\ NoBlock("PreToolUse")
    BY <1>1, <1>5, <2>2, MovesTo, EventIs DEF GatesPassed
  <2>7. hAt' = "subagent" => Gates!Delegated /\ hResult' = hResult
    BY <1>1, <1>5, MovesTo
  <2>8. hAt' \in {"subagent", "stop", "end"} =>
          Hooked("PostToolUse") = IF hResult' # "none" THEN Gates!Wanted("PostToolUse") ELSE {}
    <3>1. CASE hAt = "posttool"
      BY <1>1, <1>5, <2>2, <3>1, MovesTo, EventIs DEF GatesPassed, GatesNow
    <3>2. CASE hAt \in {"submit", "gate", "pretool"}
      BY <1>1, <1>5, <2>3, <3>2, MovesTo DEF GatesPassed, Ahead
    <3>3. CASE hAt \in {"subagent", "stop"}
      BY <1>1, <1>5, <3>3, MovesTo DEF GatesPassed
    <3> QED
      BY <1>1, <1>5, <3>1, <3>2, <3>3, MovesTo
  <2>9. hAt' \in {"stop", "end"} =>
          Hooked("SubagentStop") = IF Gates!Delegated' THEN Gates!Wanted("SubagentStop") ELSE {}
    <3>1. CASE hAt = "posttool"
      BY <1>1, <1>3, <1>5, <2>3, <3>1, MovesTo DEF Ahead
    <3>2. CASE hAt \in {"submit", "gate", "pretool"}
      <4>1. hResult' = "none"
        BY <1>1, <1>5, <3>2, MovesTo DEF GatesPassed
      <4>2. ~Gates!Delegated'
        BY <4>1 DEF Gates!Delegated
      <4> QED
        BY <2>3, <3>2, <4>2 DEF Ahead
    <3>3. CASE hAt = "subagent"
      BY <1>1, <1>3, <1>5, <2>2, <3>3, MovesTo, EventIs DEF GatesPassed, GatesNow
    <3>4. CASE hAt = "stop"
      BY <1>1, <1>3, <1>5, <3>4, MovesTo DEF GatesPassed
    <3> QED
      BY <1>1, <1>5, <3>1, <3>2, <3>3, <3>4, MovesTo
  <2>10. hAt' = "end" =>
          Hooked("Stop") = IF NoBlock("UserPromptSubmit") THEN Gates!Wanted("Stop") ELSE {}
    <3>1. CASE hAt = "submit" /\ blocked
      BY <1>1, <2>2, <2>3, <3>1, EventIs DEF Ahead
    <3>2. CASE hAt = "stop"
      BY <1>1, <2>2, <3>2, EventIs DEF GatesPassed, GatesNow
    <3> QED
      BY <1>1, <1>5, <3>1, <3>2, MovesTo
  <2> QED
    BY <1>2, <2>1, <2>4, <2>5, <2>6, <2>7, <2>8, <2>9, <2>10, <1>3 DEF GatesPassed
<1> QED
  BY <1>4, <1>5, LogMoves

LEMMA EffectsStay == GatesInv /\ [Gates!Next]_(Gates!vars) => GatesEffects'
<1> SUFFICES ASSUME GatesInv, [Gates!Next]_(Gates!vars) PROVE GatesEffects'
  OBVIOUS
<1>1. GatesTypes /\ GatesNow /\ GatesPassed /\ GatesEffects
  BY DEF GatesInv
<1>2. CASE hAt = "tool" /\ Moves
  <2>1. log' = log /\ effects = <<>> /\ Len(log) \in Nat
    BY <1>1, <1>2 DEF Moves, GatesTypes, GatesPassed, GatesEffects
  <2>2. hResult' # "none" /\ (effects' = Append(effects, Len(log)) \/ effects' = effects)
    BY <1>2 DEF Moves, Gates!Submitted, Gates!Reasoned, Gates!Unknown, Gates!Check, Gates!Gated,
         Gates!Execute, Gates!Observed
  <2>3. Append(effects, Len(log)) = <<Len(log)>>
    BY <2>1
  <2>4. (Gates!Fired("PreToolUse") \subseteq 1..Len(log))'
    BY <1>1, <2>1 DEF Gates!Fired, GatesTypes
  <2> QED
    BY <2>1, <2>2, <2>3, <2>4 DEF GatesEffects
<1>3. CASE UNCHANGED <<effects, hResult>>
  <2>1. hResult # "none" => Gates!Fired("PreToolUse")' = Gates!Fired("PreToolUse")
    <3>1. CASE log' = log
      BY <3>1 DEF Gates!Fired
    <3>2. CASE log' # log /\ hResult # "none"
      <4>1. hAt \in {"posttool", "subagent", "stop"}
        BY <1>1, <3>2, LogMoves DEF GatesPassed, GatesTypes, Places
      <4>2. Gates!EventAt # "PreToolUse"
        BY <1>1, <4>1, EventIs
      <4> QED
        BY <3>2, <4>2, LogMoves
    <3> QED
      BY <3>1, <3>2
  <2> QED
    BY <1>1, <1>3, <2>1 DEF GatesEffects
<1> QED
  BY <1>1, <1>2, <1>3, LogMoves, MovesTo

LEMMA SignatureStays == GatesInv /\ [Gates!Next]_(Gates!vars) => Gates!SignatureFits'
<1> SUFFICES ASSUME GatesInv, [Gates!Next]_(Gates!vars) PROVE Gates!SignatureFits'
  OBVIOUS
<1>1. GatesTypes /\ GatesNow /\ Gates!SignatureFits /\ signed' = signed
  BY SettingsStand DEF GatesInv
<1>2. CASE stored' = stored
  BY <1>1, <1>2 DEF Gates!SignatureFits
<1>3. CASE Moves /\ hAt = "model"
  BY <1>1, <1>3 DEF Moves, Gates!Submitted, Gates!Reasoned, Gates!Unknown, Gates!Check, Gates!Gated,
       Gates!Execute, Gates!Observed, Gates!Store, Gates!SignatureFits, Gates!Original
<1> QED
  BY <1>1, <1>2, <1>3, LogMoves, MovesTo

LEMMA GatesStep == GatesInv /\ [Gates!Next]_(Gates!vars) => GatesInv'
BY TypesStay, LogStays, NowStays, AheadStays, AnswerStays, PassedStays, EffectsStay, SignatureStays
   DEF GatesInv

(* The tables the gate looks a line up in say what the two lists of pairs  *)
(* say.                                                                    *)
LEMMA TablesAgree ==
  ASSUME NEW w1, NEW x
  PROVE  /\ w1 \in {"ls", "find", "sort", "git", "go"} =>
              (x \in Gates!UnsafeArgs[w1] <=> <<w1, x>> \in Gates!Writers)
         /\ w1 \in DOMAIN Gates!ReadOnlyPrefixes <=> w1 \in {"git", "go"}
         /\ Gates!ReadOnlyPrefixes["git"] = {"log"} /\ Gates!ReadOnlyPrefixes["go"] = {"vet"}
<1>1. /\ Gates!UnsafeArgs["ls"] = {} /\ Gates!UnsafeArgs["find"] = {"-delete"}
      /\ Gates!UnsafeArgs["sort"] = {"-o"} /\ Gates!UnsafeArgs["git"] = {"--output"}
      /\ Gates!UnsafeArgs["go"] = {}
  BY DEF Gates!UnsafeArgs
<1>2. <<w1, x>> \in Gates!Writers <=>
        (w1 = "find" /\ x = "-delete") \/ (w1 = "sort" /\ x = "-o") \/ (w1 = "git" /\ x = "--output")
  <2>1. \A c, d : <<w1, x>> = <<c, d>> <=> w1 = c /\ x = d
    OBVIOUS
  <2>2. <<w1, x>> \in Gates!Writers <=>
          \/ <<w1, x>> = <<"find", "-delete">> \/ <<w1, x>> = <<"sort", "-o">>
          \/ <<w1, x>> = <<"git", "--output">>
    BY Zenon DEF Gates!Writers
  <2>3. <<w1, x>> = <<"find", "-delete">> <=> w1 = "find" /\ x = "-delete"
    BY <2>1, Zenon
  <2>4. <<w1, x>> = <<"sort", "-o">> <=> w1 = "sort" /\ x = "-o"
    BY <2>1, Zenon
  <2>5. <<w1, x>> = <<"git", "--output">> <=> w1 = "git" /\ x = "--output"
    BY <2>1, Zenon
  <2> QED
    BY <2>2, <2>3, <2>4, <2>5, Zenon
<1>3. /\ DOMAIN Gates!ReadOnlyPrefixes = {"git", "go"}
      /\ Gates!ReadOnlyPrefixes["git"] = {"log"} /\ Gates!ReadOnlyPrefixes["go"] = {"vet"}
  BY DEF Gates!ReadOnlyPrefixes
<1>4. ASSUME w1 \in {"ls", "find", "sort", "git", "go"}
      PROVE  x \in Gates!UnsafeArgs[w1] <=> <<w1, x>> \in Gates!Writers
  <2>1. x \in Gates!UnsafeArgs[w1] <=>
          (w1 = "find" /\ x = "-delete") \/ (w1 = "sort" /\ x = "-o") \/ (w1 = "git" /\ x = "--output")
    <3>1. CASE w1 = "ls" \/ w1 = "go"
      BY <1>1, <3>1
    <3>2. CASE w1 = "find"
      BY <1>1, <3>2
    <3>3. CASE w1 = "sort"
      BY <1>1, <3>3
    <3>4. CASE w1 = "git"
      BY <1>1, <3>4
    <3> QED
      BY <1>4, <3>1, <3>2, <3>3, <3>4
  <2> QED
    BY <1>2, <2>1, Zenon
<1> QED
  BY <1>3, <1>4

LEMMA ReadersAre ==
  ASSUME NEW w \in Seq(STRING)
  PROVE  (\E p \in Gates!Readers : Len(p) <= Len(w) /\ \A i \in DOMAIN p : w[i] = p[i]) <=>
           /\ w # <<>>
           /\ \/ w[1] \in {"ls", "find", "sort"}
              \/ Len(w) > 1 /\ ((w[1] = "git" /\ w[2] = "log") \/ (w[1] = "go" /\ w[2] = "vet"))
<1> DEFINE Begins(p) == Len(p) <= Len(w) /\ \A i \in DOMAIN p : w[i] = p[i]
<1>1. ASSUME NEW c PROVE Begins(<<c>>) <=> w # <<>> /\ w[1] = c
  <2>1. Len(<<c>>) = 1 /\ DOMAIN <<c>> = {1} /\ <<c>>[1] = c
    OBVIOUS
  <2>2. Len(w) \in Nat /\ (w # <<>> <=> 1 <= Len(w))
    OBVIOUS
  <2> QED
    BY <2>1, <2>2
<1>2. ASSUME NEW c, NEW d PROVE Begins(<<c, d>>) <=> Len(w) > 1 /\ w[1] = c /\ w[2] = d
  <2>1. Len(<<c, d>>) = 2 /\ DOMAIN <<c, d>> = {1, 2} /\ <<c, d>>[1] = c /\ <<c, d>>[2] = d
    OBVIOUS
  <2>2. Len(w) \in Nat
    OBVIOUS
  <2> QED
    BY <2>1, <2>2
<1>3. (\E p \in Gates!Readers : Begins(p)) <=>
        Begins(<<"ls">>) \/ Begins(<<"find">>) \/ Begins(<<"sort">>)
          \/ Begins(<<"git", "log">>) \/ Begins(<<"go", "vet">>)
  BY Zenon DEF Gates!Readers
<1>4. Len(w) > 1 => w # <<>>
  OBVIOUS
<1> HIDE DEF Begins
<1>6. /\ Begins(<<"ls">>) <=> w # <<>> /\ w[1] = "ls"
      /\ Begins(<<"find">>) <=> w # <<>> /\ w[1] = "find"
      /\ Begins(<<"sort">>) <=> w # <<>> /\ w[1] = "sort"
      /\ Begins(<<"git", "log">>) <=> Len(w) > 1 /\ w[1] = "git" /\ w[2] = "log"
      /\ Begins(<<"go", "vet">>) <=> Len(w) > 1 /\ w[1] = "go" /\ w[2] = "vet"
  BY <1>1, <1>2
<1>5. (\E p \in Gates!Readers : Begins(p)) <=>
           /\ w # <<>>
           /\ \/ w[1] \in {"ls", "find", "sort"}
              \/ Len(w) > 1 /\ ((w[1] = "git" /\ w[2] = "log") \/ (w[1] = "go" /\ w[2] = "vet"))
  BY <1>3, <1>4, <1>6, Zenon
<1> QED
  BY <1>5 DEF Begins

LEMMA LinesRead ==
  ASSUME NEW s
  PROVE  Gates!IsReadOnlyBash(s) <=> s \in DOMAIN Lines /\ Gates!LineReads(Lines[s])
<1> SUFFICES ASSUME s \in DOMAIN Lines
             PROVE  Gates!IsReadOnlyBash(s) <=> Gates!LineReads(Lines[s])
  BY DEF Gates!IsReadOnlyBash
<1> DEFINE w == Lines[s].words
           Plainly == \A i \in 2..Len(w) : w[i] \notin Gates!UnsafeArgs[w[1]]
           Unwritten == \A i \in 2..Len(w) : <<w[1], w[i]>> \notin Gates!Writers
           Begins == \E p \in Gates!Readers : Len(p) <= Len(w) /\ \A i \in DOMAIN p : w[i] = p[i]
<1>1. w \in Seq(STRING)
  BY ModelAssumption
<1>2. Begins <=>
           /\ w # <<>>
           /\ \/ w[1] \in {"ls", "find", "sort"}
              \/ Len(w) > 1 /\ ((w[1] = "git" /\ w[2] = "log") \/ (w[1] = "go" /\ w[2] = "vet"))
  BY <1>1, ReadersAre
<1>3. w[1] \in {"ls", "find", "sort", "git", "go"} => (Plainly <=> Unwritten)
  BY TablesAgree
<1>4. Gates!LineReads(Lines[s]) <=> ~Lines[s].syntax /\ Begins /\ Unwritten
  BY DEF Gates!LineReads
<1>5. Gates!IsReadOnlyBash(s) <=>
        /\ ~Lines[s].syntax /\ w # <<>>
        /\ \/ w[1] \in {"ls", "find", "sort"} /\ Plainly
           \/ /\ w[1] \in DOMAIN Gates!ReadOnlyPrefixes /\ Len(w) > 1
              /\ w[2] \in Gates!ReadOnlyPrefixes[w[1]] /\ Plainly
  BY DEF Gates!IsReadOnlyBash, Gates!ReadOnlyCommands
<1>6. (w[1] \in DOMAIN Gates!ReadOnlyPrefixes /\ w[2] \in Gates!ReadOnlyPrefixes[w[1]]) <=>
        ((w[1] = "git" /\ w[2] = "log") \/ (w[1] = "go" /\ w[2] = "vet"))
  <2>1. /\ w[1] \in DOMAIN Gates!ReadOnlyPrefixes <=> w[1] \in {"git", "go"}
        /\ Gates!ReadOnlyPrefixes["git"] = {"log"} /\ Gates!ReadOnlyPrefixes["go"] = {"vet"}
    BY TablesAgree
  <2> HIDE DEF w
  <2>2. CASE w[1] = "git"
    BY <2>1, <2>2
  <2>3. CASE w[1] = "go"
    BY <2>1, <2>3
  <2> QED
    BY <2>1, <2>2, <2>3
<1> HIDE DEF w, Plainly, Unwritten, Begins
<1> QED
  BY <1>2, <1>3, <1>4, <1>5, <1>6

(* A call may write unless the gate takes it to read.                      *)
LEMMA WritesUnlessReads == Gates!Writes <=> ~Reads
BY LinesRead DEF Gates!Writes, Reads

LEMMA GateStands == GatesInv => Gates!GateHolds
<1> SUFFICES ASSUME GatesInv PROVE Gates!GateHolds
  OBVIOUS
<1> DEFINE Named(rules) == Gates!MatchAny(rules, Gates!Subject(call.args))
           d == Gates!Decide(Reads)
<1>1. GatesTypes /\ GatesAnswer /\ GatesPassed /\ GatesEffects
  BY DEF GatesInv
<1>2. /\ Named(policy.deny) => d = "deny"
      /\ ~Named(policy.deny) /\ Named(policy.ask) => d = "ask"
      /\ ~Named(policy.deny) /\ ~Named(policy.ask) /\ Named(policy.allow) => d = "allow"
      /\ ~Named(policy.deny) /\ ~Named(policy.ask) /\ ~Named(policy.allow) =>
           d = IF Reads THEN "allow" ELSE policy.mode
  <2>1. d = IF Named(policy.deny) THEN "deny" ELSE IF Named(policy.ask) THEN "ask"
            ELSE IF Named(policy.allow) \/ Reads THEN "allow" ELSE policy.mode
    BY Zenon DEF Gates!Decide, Gates!DenyFirst
  <2> HIDE DEF Named, d
  <2> QED
    BY <2>1
<1> HIDE DEF Named, d
<1>3. answer # "none" => call.known /\ Fits(d)
  BY <1>1 DEF GatesAnswer, d
<1>4. answer \in {"allowed", "declined", "aborted"} =>
        Named(policy.ask) \/ (Gates!Writes /\ ~Named(policy.allow))
  BY <1>2, <1>3, WritesUnlessReads DEF Fits
<1>5. ASSUME NEW i \in DOMAIN effects
      PROVE  /\ call.known /\ ~Named(policy.deny)
             /\ Gates!Writes \/ Named(policy.ask) =>
                  \/ ~interactive /\ (policy.mode # "deny" \/ Named(policy.ask) \/ Named(policy.allow))
                  \/ answer = "allowed"
                  \/ ~Named(policy.ask) /\ (Named(policy.allow) \/ policy.mode = "allow")
             /\ {log[k].hook : k \in Gates!Fired("PreToolUse") \cap 1..effects[i]} = Gates!Wanted("PreToolUse")
             /\ \A k \in Gates!Fired("PreToolUse") : log[k].decision # "block"
  <2>1. effects # <<>>
    BY <1>5
  <2>2. hResult # "none" /\ answer \notin Gates!Refusals \cup {"none"}
    BY <1>1, <2>1 DEF GatesEffects, GatesAnswer
  <2>3. call.known /\ Fits(d)
    BY <1>3, <2>2
  <2>4. ~Named(policy.deny)
    BY <1>2, <2>2, <2>3 DEF Fits, Gates!Refusals
  <2>5. Gates!Writes \/ Named(policy.ask) =>
                  \/ ~interactive /\ (policy.mode # "deny" \/ Named(policy.ask) \/ Named(policy.allow))
                  \/ answer = "allowed"
                  \/ ~Named(policy.ask) /\ (Named(policy.allow) \/ policy.mode = "allow")
    BY <1>2, <2>2, <2>3, <2>4, WritesUnlessReads DEF Fits, Gates!Refusals
  <2>6. Gates!Fired("PreToolUse") \cap 1..effects[i] = Gates!Fired("PreToolUse")
    <3>1. PICK n \in Nat : effects = <<n>> /\ Gates!Fired("PreToolUse") \subseteq 1..n
      BY <1>1, <2>1 DEF GatesEffects
    <3>2. effects[i] = n
      BY <3>1, <1>5
    <3> QED
      BY <3>1, <3>2
  <2> QED
    BY <1>1, <2>2, <2>3, <2>4, <2>5, <2>6 DEF GatesPassed, Hooked, NoBlock
<1> QED
  BY <1>4, <1>5 DEF Gates!GateHolds, Named

LEMMA HooksStand == GatesInv => Gates!HooksInOrder
<1> SUFFICES ASSUME GatesInv PROVE Gates!HooksInOrder
  OBVIOUS
<1>1. GatesTypes /\ GatesLog /\ GatesAnswer /\ GatesPassed
  BY DEF GatesInv
<1>2. ASSUME NEW k \in DOMAIN log, ~trusted
      PROVE  Gates!Loaded[log[k].hook] \in {global[i] : i \in DOMAIN global}
  <2>1. Gates!Loaded = global /\ log[k].hook \in DOMAIN Gates!Loaded
    BY <1>1, <1>2, Loads DEF GatesLog, Gates!Wanted
  <2> QED
    BY <2>1
<1>3. ASSUME hAt = "end"
      PROVE LET refused == \E k \in Gates!Fired("UserPromptSubmit") : log[k].decision = "block"
                All(e, fires) == {log[k].hook : k \in Gates!Fired(e)} = IF fires THEN Gates!Wanted(e) ELSE {}
            IN /\ All("PostToolUse", hResult # Gates!None)
               /\ All("SubagentStop", hResult = "ok" /\ Gates!Delegated)
               /\ All("Stop", ~refused)
  <2>1. Gates!Delegated => hResult = "ok"
    BY DEF Gates!Delegated
  <2>2. /\ Hooked("PostToolUse") = IF hResult # "none" THEN Gates!Wanted("PostToolUse") ELSE {}
        /\ Hooked("SubagentStop") = IF Gates!Delegated THEN Gates!Wanted("SubagentStop") ELSE {}
        /\ Hooked("Stop") = IF NoBlock("UserPromptSubmit") THEN Gates!Wanted("Stop") ELSE {}
    BY <1>1, <1>3 DEF GatesPassed
  <2> QED
    BY <2>1, <2>2 DEF Hooked, NoBlock, Gates!None
<1> QED
  BY <1>1, <1>2, <1>3 DEF Gates!HooksInOrder, GatesLog, GatesAnswer

-----------------------------------------------------------------------------
(* A workflow and its sub-agents (workflow/engine.go, host.go).            *)

(* The instance counts as this module does.                                *)
LEMMA FlowCounting == \A S : Flow!Cardinality(S) = Cardinality(S)
BY DEF Cardinality, Flow!Cardinality

FlowPlaces == {"uncalled", "counting", "over", "counted", "queued", "running", "settling",
               "settled"}
FlowVerdicts == {"none", "ok", "failed", "cancelled", "max_agents", "max_tokens"}
FlowTypes ==
  /\ aAt \in [Agents -> FlowPlaces] /\ verdict \in [Agents -> FlowVerdicts]
  /\ rows \in Seq([a : Agents, end : BOOLEAN])

(* A call has no verdict before its work is over.                          *)
Working(a) == aAt[a] \in {"uncalled", "counting", "over", "counted", "queued", "running"}
FlowVerdict == \A a \in Agents : Working(a) => verdict[a] = "none"

(* Slots are held by what runs, and the count is of those let in.          *)
FlowSlots ==
  /\ IsFiniteSet(slots) /\ Cardinality(slots) <= MaxConcurrent /\ Flow!Running = slots
FlowCount ==
  /\ IsFiniteSet(Flow!LetIn) /\ IsFiniteSet(Flow!Over)
  /\ spawned = Cardinality(Flow!LetIn) + Cardinality(Flow!Over)
  /\ Cardinality(Flow!LetIn) <= MaxAgents
  /\ Flow!Refused \cup Flow!Over # {} => Cardinality(Flow!LetIn) = MaxAgents

(* The panel has no row of a call that has no slot yet, and the opened one *)
(* alone of a call that runs.                                              *)
Opened(a) == {k \in DOMAIN rows : rows[k].a = a /\ ~rows[k].end}
Closed(a) == {k \in DOMAIN rows : rows[k].a = a /\ rows[k].end}
FlowRows ==
  /\ \A a \in Agents : aAt[a] \in {"uncalled", "counting", "over", "counted", "queued"} =>
       Opened(a) = {} /\ Closed(a) = {}
  /\ Flow!RowsTrue

FlowInv == FlowTypes /\ FlowVerdict /\ FlowSlots /\ FlowCount /\ FlowRows /\ Flow!OneLayer
             /\ tools \in [Agents -> SUBSET Tools]

LEMMA FlowInit == Flow!Init => FlowInv
<1> SUFFICES ASSUME Flow!Init PROVE FlowInv
  OBVIOUS
<1> USE ModelAssumption DEF Flow!Init
<1>1. FlowTypes /\ FlowVerdict /\ Flow!OneLayer /\ tools \in [Agents -> SUBSET Tools]
  BY DEF FlowTypes, FlowPlaces, FlowVerdicts, FlowVerdict, Flow!OneLayer, Flow!None
<1>2. Flow!LetIn = {} /\ Flow!Over = {} /\ Flow!Running = {} /\ Flow!Refused = {}
  BY DEF Flow!LetIn, Flow!Over, Flow!Running, Flow!Refused, Flow!None
<1>3. FlowSlots /\ FlowCount
  BY <1>2, FS_EmptySet DEF FlowSlots, FlowCount
<1>4. FlowRows
  BY <1>2 DEF FlowRows, Opened, Closed, Flow!RowsTrue
<1> QED
  BY <1>1, <1>3, <1>4 DEF FlowInv

(* The steps of one call, and those of the script that touch none.         *)
LEMMA FlowSteps ==
  ASSUME [Flow!Next]_(Flow!vars)
  PROVE  \/ \E a \in Agents : Flow!Call(a) \/ Flow!Work(a)
         \/ UNCHANGED <<aAt, verdict, spawned, slots, rows, tools>>
BY DEF Flow!Next, Flow!Settles, Flow!Return, Flow!Cancel, Flow!vars, Flow!counters

LEMMA FlowTypesStep ==
  FlowTypes /\ FlowVerdict /\ [Flow!Next]_(Flow!vars) => FlowTypes' /\ FlowVerdict'
<1> SUFFICES ASSUME FlowTypes, FlowVerdict, [Flow!Next]_(Flow!vars) PROVE FlowTypes' /\ FlowVerdict'
  OBVIOUS
<1> USE DEF FlowTypes, FlowVerdict, FlowPlaces, FlowVerdicts, Working, Flow!Goto, Flow!Settle
<1>1. ASSUME NEW a \in Agents, Flow!Call(a) \/ Flow!Work(a) PROVE FlowTypes' /\ FlowVerdict'
  <2>1. CASE Flow!Call(a) \/ Flow!Resolve(a)
    BY <2>1 DEF Flow!Call, Flow!Resolve
  <2>2. CASE Flow!Count(a) \/ Flow!RollBack(a) \/ Flow!Ceiling(a) \/ Flow!NoSlot(a)
    BY <2>2 DEF Flow!Count, Flow!RollBack, Flow!Ceiling, Flow!NoSlot, Flow!counters
  <2>3. CASE Flow!Start(a)
    BY <2>3 DEF Flow!Start
  <2>4. CASE Flow!Turn(a)
    BY <2>4 DEF Flow!Turn
  <2>5. CASE Flow!Finish(a)
    BY <2>5 DEF Flow!Finish, Flow!CloseRow
  <2> QED
    BY <1>1, <2>1, <2>2, <2>3, <2>4, <2>5 DEF Flow!Work
<1>2. CASE UNCHANGED <<aAt, verdict, spawned, slots, rows, tools>>
  BY <1>2
<1> QED
  BY <1>1, <1>2, FlowSteps

LEMMA FlowSlotsStep ==
  FlowTypes /\ FlowSlots /\ [Flow!Next]_(Flow!vars) => FlowSlots'
<1> SUFFICES ASSUME FlowTypes, FlowSlots, [Flow!Next]_(Flow!vars) PROVE FlowSlots'
  OBVIOUS
<1> USE ModelAssumption DEF FlowTypes, Flow!Goto, Flow!Settle
<1>1. ASSUME NEW a \in Agents, Flow!Call(a) \/ Flow!Work(a) PROVE FlowSlots'
  <2>1. CASE Flow!Start(a)
    <3>1. Flow!Running' = Flow!Running \cup {a} /\ slots' = slots \cup {a}
      BY <2>1 DEF Flow!Start, Flow!Running
    <3>2. Cardinality(slots) \in Nat /\ Cardinality(slots) < MaxConcurrent
      BY <2>1, FlowCounting, FS_CardinalityType DEF Flow!Start, Flow!HasRoom, FlowSlots
    <3>3. IsFiniteSet(slots') /\ Cardinality(slots') <= Cardinality(slots) + 1
      <4>1. IsFiniteSet(slots \cup {a})
              /\ Cardinality(slots \cup {a}) \in {Cardinality(slots), Cardinality(slots) + 1}
        BY FS_AddElement DEF FlowSlots
      <4> QED
        BY <3>1, <3>2, <4>1
    <3>4. Cardinality(slots') \in Nat
      BY <3>3, FS_CardinalityType
    <3> QED
      BY <3>1, <3>2, <3>3, <3>4 DEF FlowSlots
  <2>2. CASE Flow!Finish(a)
    <3>1. Flow!Running' = Flow!Running \ {a} /\ slots' = slots \ {a}
      BY <2>2 DEF Flow!Finish, Flow!Running
    <3>2. IsFiniteSet(slots') /\ Cardinality(slots') <= Cardinality(slots)
      BY <3>1, FS_Subset DEF FlowSlots
    <3>3. Cardinality(slots') \in Nat /\ Cardinality(slots) \in Nat
      BY <3>2, FS_CardinalityType DEF FlowSlots
    <3> QED
      BY <3>1, <3>2, <3>3 DEF FlowSlots
  <2>3. CASE Flow!Call(a) \/ Flow!Resolve(a) \/ Flow!Count(a) \/ Flow!RollBack(a) \/ Flow!Ceiling(a)
               \/ Flow!NoSlot(a) \/ Flow!Turn(a)
    <3>1. Flow!Running' = Flow!Running /\ slots' = slots
      BY <2>3 DEF Flow!Call, Flow!Resolve, Flow!Count, Flow!RollBack, Flow!Ceiling, Flow!NoSlot, Flow!Turn,
           Flow!counters, Flow!Running
    <3> QED
      BY <3>1 DEF FlowSlots
  <2> QED
    BY <1>1, <2>1, <2>2, <2>3 DEF Flow!Work
<1>2. CASE UNCHANGED <<aAt, verdict, spawned, slots, rows, tools>>
  BY <1>2 DEF FlowSlots, Flow!Running
<1> QED
  BY <1>1, <1>2, FlowSteps

LEMMA FlowCountStep ==
  FlowTypes /\ FlowVerdict /\ FlowCount /\ [Flow!Next]_(Flow!vars) => FlowCount'
<1> SUFFICES ASSUME FlowTypes, FlowVerdict, FlowCount, [Flow!Next]_(Flow!vars) PROVE FlowCount'
  OBVIOUS
<1> USE ModelAssumption DEF FlowTypes, FlowVerdict, Working, Flow!Goto, Flow!Settle
<1>1. ASSUME NEW a \in Agents, Flow!Call(a) \/ Flow!Work(a) PROVE FlowCount'
  <2>0. /\ Cardinality(Flow!LetIn) \in Nat /\ Cardinality(Flow!Over) \in Nat
        /\ IsFiniteSet(Flow!LetIn) /\ IsFiniteSet(Flow!Over)
        /\ spawned = Cardinality(Flow!LetIn) + Cardinality(Flow!Over)
        /\ Cardinality(Flow!LetIn) <= MaxAgents
        /\ Flow!Refused \cup Flow!Over # {} => Cardinality(Flow!LetIn) = MaxAgents
    BY FS_CardinalityType DEF FlowCount
  <2>e. Flow!Over = {} => Cardinality(Flow!Over) = 0
    BY FS_EmptySet
  <2>1. CASE Flow!Count(a) /\ spawned + 1 > MaxAgents
    <3>1. /\ Flow!Refused' = Flow!Refused /\ Flow!LetIn' = Flow!LetIn /\ spawned' = spawned + 1
          /\ Flow!Over' = Flow!Over \cup {a} /\ a \notin Flow!Over
      BY <2>1 DEF Flow!Count, Flow!Refused, Flow!LetIn, Flow!Over
    <3>2. IsFiniteSet(Flow!Over') /\ Cardinality(Flow!Over') = Cardinality(Flow!Over) + 1
      BY <2>0, <3>1, FS_AddElement
    <3>3. Cardinality(Flow!LetIn) = MaxAgents
      BY <2>0, <2>1, <2>e
    <3> QED
      BY <2>0, <3>1, <3>2, <3>3 DEF FlowCount
  <2>2. CASE Flow!Count(a) /\ ~(spawned + 1 > MaxAgents)
    <3>1. /\ Flow!Refused' = Flow!Refused /\ Flow!Over' = Flow!Over /\ spawned' = spawned + 1
          /\ Flow!LetIn' = Flow!LetIn \cup {a} /\ a \notin Flow!LetIn
      BY <2>2 DEF Flow!Count, Flow!Refused, Flow!LetIn, Flow!Over
    <3>2. Flow!Refused \cup Flow!Over = {} /\ Cardinality(Flow!LetIn) + 1 <= MaxAgents
      BY <2>0, <2>2
    <3>3. IsFiniteSet(Flow!LetIn') /\ Cardinality(Flow!LetIn') = Cardinality(Flow!LetIn) + 1
      BY <2>0, <3>1, FS_AddElement
    <3> QED
      BY <2>0, <3>1, <3>2, <3>3 DEF FlowCount
  <2>r. CASE Flow!RollBack(a)
    <3>1. /\ Flow!LetIn' = Flow!LetIn /\ spawned' = spawned - 1
          /\ Flow!Over' = Flow!Over \ {a} /\ a \in Flow!Over
      BY <2>r DEF Flow!RollBack, Flow!Refused, Flow!LetIn, Flow!Over
    <3>2. IsFiniteSet(Flow!Over') /\ Cardinality(Flow!Over') = Cardinality(Flow!Over) - 1
      BY <2>0, <3>1, FS_RemoveElement
    <3> QED
      BY <2>0, <3>1, <3>2 DEF FlowCount
  <2>3. CASE Flow!Call(a) \/ Flow!Resolve(a) \/ Flow!Start(a) \/ Flow!Ceiling(a) \/ Flow!NoSlot(a)
               \/ Flow!Turn(a) \/ Flow!Finish(a)
    <3>1. spawned' = spawned
      BY <2>3 DEF Flow!Call, Flow!Resolve, Flow!Start, Flow!Ceiling, Flow!NoSlot, Flow!Turn, Flow!Finish,
           Flow!counters
    <3>2. Flow!Refused' = Flow!Refused /\ Flow!LetIn' = Flow!LetIn /\ Flow!Over' = Flow!Over
      BY <2>3 DEF Flow!Call, Flow!Resolve, Flow!Start, Flow!Ceiling, Flow!NoSlot, Flow!Turn, Flow!Finish,
           Flow!Refused, Flow!LetIn, Flow!Over
    <3> QED
      BY <3>1, <3>2 DEF FlowCount
  <2> QED
    BY <1>1, <2>1, <2>2, <2>r, <2>3 DEF Flow!Work
<1>2. CASE UNCHANGED <<aAt, verdict, spawned, slots, rows, tools>>
  BY <1>2 DEF FlowCount, Flow!LetIn, Flow!Over, Flow!Refused
<1> QED
  BY <1>1, <1>2, FlowSteps

(* What a row added to the panel does to those of each call.               *)
LEMMA RowAdded ==
  ASSUME FlowTypes, NEW b \in Agents, NEW e \in BOOLEAN, rows' = Append(rows, [a |-> b, end |-> e])
  PROVE  /\ \A k \in DOMAIN rows : k < Len(rows) + 1
         /\ \A c \in Agents : Opened(c)' = IF c = b /\ ~e THEN Opened(c) \cup {Len(rows) + 1} ELSE Opened(c)
         /\ \A c \in Agents : Closed(c)' = IF c = b /\ e THEN Closed(c) \cup {Len(rows) + 1} ELSE Closed(c)
<1>1. /\ DOMAIN rows = 1..Len(rows) /\ DOMAIN rows' = 1..Len(rows) + 1 /\ Len(rows) \in Nat
      /\ \A k \in 1..Len(rows) : rows'[k] = rows[k]
      /\ rows'[Len(rows) + 1] = [a |-> b, end |-> e]
  BY DEF FlowTypes
<1>2. 1..Len(rows) + 1 = 1..Len(rows) \cup {Len(rows) + 1} /\ \A k \in 1..Len(rows) : k < Len(rows) + 1
  BY <1>1
<1>3. ASSUME NEW c \in Agents PROVE Opened(c)' = IF c = b /\ ~e THEN Opened(c) \cup {Len(rows) + 1} ELSE Opened(c)
  BY <1>1, <1>2 DEF Opened
<1>4. ASSUME NEW c \in Agents PROVE Closed(c)' = IF c = b /\ e THEN Closed(c) \cup {Len(rows) + 1} ELSE Closed(c)
  BY <1>1, <1>2 DEF Closed
<1> QED
  BY <1>1, <1>2, <1>3, <1>4

(* RowsTrue, in the terms of this module.                                  *)
RowsOf(a) ==
  /\ \A j, k \in Opened(a) : j = k
  /\ \A j, k \in Closed(a) : j = k
  /\ \A k \in Closed(a) : \E j \in Opened(a) : j < k
  /\ aAt[a] = "running" <=> Opened(a) # {} /\ Closed(a) = {}
LEMMA RowsMean == Flow!RowsTrue <=> \A a \in Agents : RowsOf(a)
BY DEF Flow!RowsTrue, Flow!Running, RowsOf, Opened, Closed

LEMMA FlowRowsStep ==
  FlowTypes /\ FlowRows /\ [Flow!Next]_(Flow!vars) => FlowRows'
<1> SUFFICES ASSUME FlowTypes, FlowRows, [Flow!Next]_(Flow!vars) PROVE FlowRows'
  OBVIOUS
<1> DEFINE Early(a) == aAt[a] \in {"uncalled", "counting", "over", "counted", "queued"}
<1>0. /\ \A a \in Agents : RowsOf(a) /\ (Early(a) => Opened(a) = {} /\ Closed(a) = {})
      /\ FlowRows' <=> \A a \in Agents : RowsOf(a)' /\ (Early(a)' => Opened(a)' = {} /\ Closed(a)' = {})
  <2>1. Flow!RowsTrue' <=> \A a \in Agents : RowsOf(a)'
    BY DEF Flow!RowsTrue, Flow!Running, RowsOf, Opened, Closed
  <2> QED
    BY <2>1, RowsMean DEF FlowRows
<1> USE DEF Flow!Goto, Flow!Settle
<1>1. ASSUME NEW a \in Agents, Flow!Call(a) \/ Flow!Work(a) PROVE FlowRows'
  <2>1. CASE Flow!Start(a)
    <3>1. rows' = Append(rows, [a |-> a, end |-> FALSE]) /\ aAt[a] = "queued"
            /\ aAt' = [aAt EXCEPT ![a] = "running"]
      BY <2>1 DEF Flow!Start
    <3>2. \A c \in Agents : Opened(c)' = (IF c = a THEN {Len(rows) + 1} ELSE Opened(c))
                            /\ Closed(c)' = Closed(c)
      BY <1>0, <3>1, RowAdded
    <3>3. \A c \in Agents : aAt'[c] = IF c = a THEN "running" ELSE aAt[c]
      BY <3>1 DEF FlowTypes
    <3> QED
      BY <1>0, <3>1, <3>2, <3>3 DEF RowsOf
  <2>2. CASE Flow!Finish(a)
    <3>1. rows' = Append(rows, [a |-> a, end |-> TRUE]) /\ aAt[a] = "running"
            /\ aAt' = [aAt EXCEPT ![a] = "settling"]
      BY <2>2 DEF Flow!Finish, Flow!CloseRow
    <3>2. /\ \A c \in Agents : Closed(c)' = (IF c = a THEN {Len(rows) + 1} ELSE Closed(c))
                               /\ Opened(c)' = Opened(c)
          /\ \A k \in Opened(a) : k < Len(rows) + 1
      <4>1. Closed(a) = {}
        BY <1>0, <3>1 DEF RowsOf
      <4>2. \A k \in Opened(a) : k \in DOMAIN rows
        BY DEF Opened
      <4> QED
        BY <3>1, <4>1, <4>2, RowAdded
    <3>3. \A c \in Agents : aAt'[c] = IF c = a THEN "settling" ELSE aAt[c]
      BY <3>1 DEF FlowTypes
    <3>4. Opened(a) # {}
      BY <1>0, <3>1 DEF RowsOf
    <3> QED
      BY <1>0, <3>1, <3>2, <3>3, <3>4 DEF RowsOf
  <2>3. CASE Flow!Call(a) \/ Flow!Resolve(a) \/ Flow!Count(a) \/ Flow!RollBack(a) \/ Flow!Ceiling(a)
               \/ Flow!NoSlot(a) \/ Flow!Turn(a)
    <3>1. /\ rows' = rows
          /\ \A c \in Agents : /\ (aAt'[c] = "running") <=> (aAt[c] = "running")
                               /\ Early(c)' => Early(c)
      BY <2>3 DEF Flow!Call, Flow!Resolve, Flow!Count, Flow!RollBack, Flow!Ceiling, Flow!NoSlot, Flow!Turn,
                  FlowTypes
    <3>2. \A c \in Agents : Opened(c)' = Opened(c) /\ Closed(c)' = Closed(c)
      BY <3>1 DEF Opened, Closed
    <3> QED
      BY <1>0, <3>1, <3>2 DEF RowsOf
  <2> QED
    BY <1>1, <2>1, <2>2, <2>3 DEF Flow!Work
<1>2. CASE UNCHANGED <<aAt, verdict, spawned, slots, rows, tools>>
  BY <1>2 DEF FlowRows, Opened, Closed, Flow!RowsTrue, Flow!Running
<1> QED
  BY <1>1, <1>2, FlowSteps

LEMMA FlowLayerStep ==
  Flow!OneLayer /\ tools \in [Agents -> SUBSET Tools] /\ [Flow!Next]_(Flow!vars)
    => Flow!OneLayer' /\ tools' \in [Agents -> SUBSET Tools]
<1> SUFFICES ASSUME Flow!OneLayer, tools \in [Agents -> SUBSET Tools], [Flow!Next]_(Flow!vars)
             PROVE  Flow!OneLayer' /\ tools' \in [Agents -> SUBSET Tools]
  OBVIOUS
<1>1. ASSUME NEW a \in Agents, Flow!Start(a) PROVE Flow!OneLayer' /\ tools' \in [Agents -> SUBSET Tools]
  BY <1>1 DEF Flow!Start, Flow!OneLayer, Flow!FilterRegistry
<1>2. CASE tools' = tools
  BY <1>2 DEF Flow!OneLayer
<1> QED
  BY <1>1, <1>2, FlowSteps
     DEF Flow!Call, Flow!Work, Flow!Count, Flow!RollBack, Flow!Ceiling, Flow!NoSlot, Flow!Turn, Flow!Finish, Flow!Resolve

LEMMA FlowStep == FlowInv /\ [Flow!Next]_(Flow!vars) => FlowInv'
BY FlowTypesStep, FlowSlotsStep, FlowCountStep, FlowRowsStep, FlowLayerStep DEF FlowInv

LEMMA FlowHolds == FlowInv => Flow!CapsHold /\ Flow!OneLayer /\ Flow!RowsTrue
BY FlowCounting DEF FlowInv, FlowSlots, FlowCount, FlowRows, Flow!CapsHold

-----------------------------------------------------------------------------
(* The task list and its sign-offs (evidence/evidence.go).                 *)

(* Numbers have a least one, and bounded ones a greatest.                  *)
LEMMA LeastExists ==
  ASSUME NEW S, S \subseteq Nat, S # {} PROVE \E x \in S : \A y \in S : x <= y
<1>1. PICK x \in S : \A y \in S : <<y, x>> \notin OpToRel(<, Nat)
  BY NatLessThanWellFounded, WFMin
<1>2. \A y \in S : ~(y < x)
  BY <1>1 DEF OpToRel
<1> QED
  BY <1>2

LEMMA GreatestExists ==
  ASSUME NEW n \in Nat, NEW S, S \subseteq 1..n, S # {} PROVE \E x \in S : \A y \in S : y <= x
<1> DEFINE D == {m \in 0..n : n - m \in S}
<1>1. D \subseteq Nat /\ \A y \in S : n - y \in D
  OBVIOUS
<1>2. PICK m \in D : \A k \in D : m <= k
  BY <1>1, LeastExists
<1> QED
  BY <1>1, <1>2

Matches == [found : {TRUE}, at : Nat, text : Texts, status : Todo!Status]
Receipts ==
  {Todo!TodoWrite(list) : list \in Todo!Lists}
  \cup {Todo!Sign(step, m) : step \in Todo!Steps, m \in Matches \cup {Todo!NoMatch}}

TodoTypes == ledger \in Seq(Receipts)

(* A sign-off that matched no list was given before there was one.         *)
TodoEarly ==
  \A k \in DOMAIN ledger :
    ledger[k].tool = "complete_step" /\ ~ledger[k].todo.found => ledger[k].step \in early

TodoInv == TodoTypes /\ TodoEarly /\ Todo!SignOffsStay /\ Todo!CompletedWasSigned

LEMMA TodoInit == Todo!Init => TodoInv
BY DEF Todo!Init, TodoInv, TodoTypes, TodoEarly, Todo!SignOffsStay, Todo!CompletedWasSigned

LEMMA ListOf ==
  ASSUME NEW list \in Todo!Lists
  PROVE  \E n \in Nat : list \in [1..n -> [text : Texts, status : Todo!Status]]
<1>1. PICK n \in 1..MaxItems : list \in [1..n -> [text : Texts, status : Todo!Status]]
  BY DEF Todo!Lists
<1> QED
  BY <1>1, ModelAssumption

(* The latest list is one that was written.                                *)
LEMMA LatestIs ==
  ASSUME TodoTypes, Todo!HasList(ledger)
  PROVE  \E j \in DOMAIN ledger :
           /\ ledger[j].tool = "todo_write" /\ ledger[j].list = Todo!Latest(ledger)
           /\ ledger[j].list \in Todo!Lists
<1> DEFINE S == Todo!ListsIn(ledger)
<1>1. S \subseteq 1..Len(ledger) /\ S # {} /\ Len(ledger) \in Nat /\ DOMAIN ledger = 1..Len(ledger)
  BY DEF Todo!HasList, Todo!ListsIn, TodoTypes
<1>2. \E x \in S : \A y \in S : y <= x
  BY <1>1, GreatestExists
<1>3. PICK j \in S : ledger[j].list = Todo!Latest(ledger)
  BY <1>2 DEF Todo!Latest
<1>4. ledger[j] \in Receipts /\ ledger[j].tool = "todo_write"
  BY <1>1 DEF TodoTypes, Todo!ListsIn
<1>5. ledger[j].list \in Todo!Lists
  <2>1. CASE \E list \in Todo!Lists : ledger[j] = Todo!TodoWrite(list)
    <3>1. PICK list \in Todo!Lists : ledger[j] = Todo!TodoWrite(list)
      BY <2>1
    <3>2. Todo!TodoWrite(list).list = list
      BY DEF Todo!TodoWrite
    <3> QED
      BY <3>1, <3>2
  <2>2. CASE \E step \in Todo!Steps, m \in Matches \cup {Todo!NoMatch} : ledger[j] = Todo!Sign(step, m)
    BY <1>4, <2>2 DEF Todo!Sign
  <2> QED
    BY <1>4, <2>1, <2>2 DEF Receipts
<1> QED
  BY <1>1, <1>3, <1>4, <1>5

(* A match is an item of that name or number.                              *)
LEMMA MatchIs ==
  ASSUME NEW list \in Todo!Lists, NEW step, NEW m, m = Todo!MatchTodoStep(step, list)
  PROVE  \/ m = Todo!NoMatch
         \/ /\ m \in Matches /\ m.at \in Todo!Named(step, list)
            /\ m.text = list[m.at].text /\ m.status = list[m.at].status
<1> DEFINE byNumber == {i \in DOMAIN list : ToString(i) = step}
           hits == IF byNumber # {} THEN byNumber ELSE Todo!Named(step, list)
<1>1. PICK n \in Nat : list \in [1..n -> [text : Texts, status : Todo!Status]]
  BY ListOf
<1>2. hits \subseteq Todo!Named(step, list) /\ Todo!Named(step, list) \subseteq DOMAIN list
  BY DEF Todo!Named, Todo!ToString, ToString
<1>3. hits \subseteq Nat
  BY <1>1, <1>2
<1>4. m = IF hits = {} THEN Todo!NoMatch
          ELSE LET i == CHOOSE i \in hits : \A j \in hits : i <= j
               IN [found |-> TRUE, at |-> i, text |-> list[i].text, status |-> list[i].status]
  BY DEF Todo!MatchTodoStep, Todo!ToString, ToString
<1> HIDE DEF hits
<1>5. CASE hits # {}
  <2> DEFINE i == CHOOSE i \in hits : \A j \in hits : i <= j
  <2>1. i \in hits
    BY <1>3, <1>5, LeastExists
  <2>2. m = [found |-> TRUE, at |-> i, text |-> list[i].text, status |-> list[i].status]
    BY <1>4, <1>5
  <2>3. list[i] \in [text : Texts, status : Todo!Status] /\ i \in Nat /\ i \in Todo!Named(step, list)
    BY <1>1, <1>2, <1>3, <2>1
  <2> QED
    BY <2>2, <2>3 DEF Matches
<1> QED
  BY <1>4, <1>5

LEMMA NoMatchIs == Todo!NoMatch.at = 0 /\ ~Todo!NoMatch.found
BY DEF Todo!NoMatch

(* What a receipt that is added leaves as it was.                          *)
LEMMA Added ==
  ASSUME TodoTypes, NEW r \in Receipts, ledger' = Append(ledger, r)
  PROVE  /\ TodoTypes' /\ DOMAIN ledger = 1..Len(ledger) /\ Len(ledger) \in Nat
         /\ DOMAIN ledger' = 1..Len(ledger) + 1 /\ ledger'[Len(ledger) + 1] = r
         /\ \A k \in DOMAIN ledger : ledger'[k] = ledger[k]
BY DEF TodoTypes

LEMMA SignOffsKept ==
  ASSUME TodoTypes, Todo!SignOffsStay, NEW r \in Receipts, ledger' = Append(ledger, r),
         signedOff \subseteq signedOff',
         r.todo.found =>
           /\ r.todo.text \in signedOff'
           /\ \E j \in DOMAIN ledger : ledger[j].tool = "todo_write" /\ \E i \in DOMAIN ledger[j].list :
                ledger[j].list[i].text = r.todo.text /\ ledger[j].list[i].status # "pending"
  PROVE  Todo!SignOffsStay'
<1> SUFFICES ASSUME NEW k \in DOMAIN ledger', ledger'[k].todo.found
             PROVE  /\ ledger'[k].todo.text \in signedOff'
                    /\ \E j \in 1..k-1 : ledger'[j].tool = "todo_write" /\ \E i \in DOMAIN ledger'[j].list :
                         ledger'[j].list[i].text = ledger'[k].todo.text /\ ledger'[j].list[i].status # "pending"
  BY DEF Todo!SignOffsStay
<1>1. CASE k = Len(ledger) + 1
  BY <1>1, Added
<1>2. CASE k # Len(ledger) + 1
  <2>1. k \in DOMAIN ledger /\ ledger'[k] = ledger[k] /\ k \in 1..Len(ledger)
    BY <1>2, Added
  <2>2. PICK j \in 1..k-1 : ledger[j].tool = "todo_write" /\ \E i \in DOMAIN ledger[j].list :
          ledger[j].list[i].text = ledger[k].todo.text /\ ledger[j].list[i].status # "pending"
    BY <2>1 DEF Todo!SignOffsStay
  <2>3. ledger'[j] = ledger[j] /\ ledger[k].todo.text \in signedOff
    BY <2>1, <2>2, Added DEF Todo!SignOffsStay
  <2> QED
    BY <2>1, <2>2, <2>3
<1> QED
  BY <1>1, <1>2

LEMMA EarlyKept ==
  ASSUME TodoTypes, TodoEarly, NEW r \in Receipts, ledger' = Append(ledger, r), early \subseteq early',
         r.tool = "complete_step" /\ ~r.todo.found => r.step \in early'
  PROVE  TodoEarly'
<1> SUFFICES ASSUME NEW k \in DOMAIN ledger', ledger'[k].tool = "complete_step", ~ledger'[k].todo.found
             PROVE  ledger'[k].step \in early'
  BY DEF TodoEarly
<1>1. CASE k = Len(ledger) + 1
  BY <1>1, Added
<1>2. CASE k # Len(ledger) + 1
  <2>1. k \in DOMAIN ledger /\ ledger'[k] = ledger[k]
    BY <1>2, Added
  <2> QED
    BY <2>1 DEF TodoEarly
<1> QED
  BY <1>1, <1>2

(* What is found signed off has a sign-off: of its text while it was in a  *)
(* list, or of its text or number before there was one.                    *)
LEMMA SignedOffMeans ==
  ASSUME TodoTypes, TodoEarly, Todo!SignOffsStay, NEW list \in Todo!Lists, NEW i \in DOMAIN list,
         Todo!SignedOff(i, list)
  PROVE  list[i].text \in signedOff \/ early \cap {list[i].text, Todo!ToString(i)} # {}
<1>1. PICK k \in DOMAIN ledger :
        /\ ledger[k].tool = "complete_step"
        /\ IF ledger[k].todo.found
           THEN ledger[k].todo.text = list[i].text
           ELSE Todo!MatchTodoStep(ledger[k].step, list).at = i
  BY DEF Todo!SignedOff
<1>2. CASE ledger[k].todo.found
  BY <1>1, <1>2 DEF Todo!SignOffsStay
<1>3. CASE ~ledger[k].todo.found
  <2> DEFINE m == Todo!MatchTodoStep(ledger[k].step, list)
  <2>1. ledger[k].step \in early /\ m.at = i
    BY <1>1, <1>3 DEF TodoEarly
  <2>2. i # 0
    BY ListOf
  <2>3. i \in Todo!Named(ledger[k].step, list)
    <3>1. m # Todo!NoMatch
      BY <2>1, <2>2, NoMatchIs
    <3>2. m.at \in Todo!Named(ledger[k].step, list)
      BY <3>1, MatchIs
    <3> QED
      BY <2>1, <3>2
  <2>4. Todo!ToString(i) = ledger[k].step \/ list[i].text = ledger[k].step
    BY <2>3 DEF Todo!Named
  <2> QED
    BY <2>1, <2>4
<1> QED
  BY <1>2, <1>3

LEMMA TodoStep == TodoInv /\ [Todo!Next]_(Todo!vars) => TodoInv'
<1> SUFFICES ASSUME TodoInv, [Todo!Next]_(Todo!vars) PROVE TodoInv'
  OBVIOUS
<1>0. TodoTypes /\ TodoEarly /\ Todo!SignOffsStay /\ Todo!CompletedWasSigned
  BY DEF TodoInv
<1>1. ASSUME NEW list \in Todo!Lists, Todo!Write(list) PROVE TodoInv'
  <2>1. CASE Todo!HasList(ledger) /\ Todo!Unverified(list) # {}
    <3>1. UNCHANGED <<ledger, unproved, signedOff, early>>
      BY <1>1, <2>1 DEF Todo!Write
    <3> QED
      BY <1>0, <3>1 DEF TodoInv, TodoTypes, TodoEarly, Todo!SignOffsStay, Todo!CompletedWasSigned
  <2>2. CASE ~(Todo!HasList(ledger) /\ Todo!Unverified(list) # {})
    <3> DEFINE r == Todo!TodoWrite(list)
    <3>1. r \in Receipts /\ r.tool = "todo_write" /\ ~r.todo.found
      <4>1. r \in Receipts
        BY DEF Receipts
      <4> QED
        BY <4>1 DEF Todo!TodoWrite, Todo!NoMatch
    <3>2. ledger' = Append(ledger, r) /\ UNCHANGED <<signedOff, early>>
      BY <1>1, <2>2 DEF Todo!Write
    <3>3. TodoTypes' /\ TodoEarly' /\ Todo!SignOffsStay'
      BY <1>0, <3>1, <3>2, Added, EarlyKept, SignOffsKept
    <3>4. ASSUME Todo!HasList(ledger), NEW i \in DOMAIN list, list[i].status = "completed",
                 ~Todo!WasCompleted(list[i], Todo!Latest(ledger)), list[i].text \notin signedOff,
                 early \cap {list[i].text, Todo!ToString(i)} = {}
          PROVE  FALSE
      <4>1. Todo!SignedOff(i, list)
        BY <2>2, <3>4 DEF Todo!Unverified
      <4> QED
        BY <1>0, <3>4, <4>1, SignedOffMeans
    <3>5. unproved' = {}
      BY <1>0, <1>1, <2>2, <3>4 DEF Todo!Write, Todo!CompletedWasSigned
    <3> QED
      BY <3>3, <3>5 DEF TodoInv, Todo!CompletedWasSigned
  <2> QED
    BY <2>1, <2>2
<1>2. ASSUME NEW step \in Todo!Steps, Todo!CompleteStep(step) PROVE TodoInv'
  <2>1. CASE ~Todo!HasList(ledger)
    <3> DEFINE r == Todo!Sign(step, Todo!NoMatch)
    <3>1. r \in Receipts /\ r.step = step /\ ~r.todo.found
      <4>1. r \in Receipts
        BY <1>2 DEF Receipts
      <4> QED
        BY <4>1 DEF Todo!Sign, Todo!NoMatch
    <3>2. ledger' = Append(ledger, r) /\ early' = early \cup {step} /\ UNCHANGED <<signedOff, unproved>>
      BY <1>2, <2>1 DEF Todo!CompleteStep
    <3> QED
      BY <1>0, <3>1, <3>2, Added, EarlyKept, SignOffsKept DEF TodoInv, Todo!CompletedWasSigned
  <2>2. CASE Todo!HasList(ledger)
    <3> DEFINE m == Todo!MatchTodoStep(step, Todo!Latest(ledger))
               r == Todo!Sign(step, m)
    <3>0. UNCHANGED <<early, unproved>>
      BY <1>2, <2>2 DEF Todo!CompleteStep
    <3>1. PICK j \in DOMAIN ledger : /\ ledger[j].tool = "todo_write" /\ ledger[j].list = Todo!Latest(ledger)
                                     /\ ledger[j].list \in Todo!Lists
      BY <1>0, <2>2, LatestIs
    <3>2. CASE Todo!Signable(m)
      <4>1. ledger' = Append(ledger, r) /\ signedOff' = signedOff \cup {m.text}
        BY <1>2, <2>2, <3>2 DEF Todo!CompleteStep
      <4>2. /\ m \in Matches /\ m.at \in DOMAIN ledger[j].list /\ m.status # "pending"
            /\ m.text = ledger[j].list[m.at].text /\ m.status = ledger[j].list[m.at].status
        <5>1. m # Todo!NoMatch /\ m.status # "pending"
          BY <3>2, NoMatchIs DEF Todo!Signable
        <5>2. /\ m \in Matches /\ m.at \in Todo!Named(step, ledger[j].list)
              /\ m.text = ledger[j].list[m.at].text /\ m.status = ledger[j].list[m.at].status
          BY <3>1, <5>1, MatchIs
        <5> QED
          BY <5>1, <5>2 DEF Todo!Named
      <4>3. r \in Receipts /\ r.todo = m /\ m.found
        BY <1>2, <3>2, <4>2 DEF Receipts, Todo!Sign, Todo!Signable
      <4>4. Todo!SignOffsStay' /\ TodoTypes' /\ TodoEarly'
        BY <1>0, <3>0, <3>1, <4>1, <4>2, <4>3, Added, EarlyKept, SignOffsKept
      <4> QED
        BY <1>0, <3>0, <4>4 DEF TodoInv, Todo!CompletedWasSigned
    <3>3. CASE ~Todo!Signable(m)
      <4>1. UNCHANGED <<ledger, signedOff>>
        BY <1>2, <2>2, <3>3 DEF Todo!CompleteStep
      <4> QED
        BY <1>0, <3>0, <4>1 DEF TodoInv, TodoTypes, TodoEarly, Todo!SignOffsStay, Todo!CompletedWasSigned
    <3> QED
      BY <3>2, <3>3
  <2> QED
    BY <2>1, <2>2
<1>3. CASE Todo!NewTurn
  BY <1>3 DEF Todo!NewTurn, TodoInv, TodoTypes, TodoEarly, Todo!SignOffsStay, Todo!CompletedWasSigned
<1>4. CASE UNCHANGED Todo!vars
  BY <1>0, <1>4 DEF Todo!vars, TodoInv, TodoTypes, TodoEarly, Todo!SignOffsStay, Todo!CompletedWasSigned
<1> QED
  BY <1>1, <1>2, <1>3, <1>4 DEF Todo!Next

-----------------------------------------------------------------------------
(* A step around the model's answer is a step of one part, and the others  *)
(* stand.                                                                  *)
LEMMA ModelParts ==
  MCSpec => /\ Stream!Init /\ [][Stream!Next]_(Stream!vars)
            /\ Auth!Init /\ [][Auth!Next]_(Auth!vars)
            /\ Gates!Init /\ [][Gates!Next]_(Gates!vars)
            /\ Flow!Init /\ [][Flow!Next]_(Flow!vars)
            /\ Todo!Init /\ [][Todo!Next]_(Todo!vars)
<1>1. MCInit => Stream!Init /\ Auth!Init /\ Gates!Init /\ Flow!Init /\ Todo!Init
  BY DEF MCInit
<1>2. [MCNext]_mcVars => [Stream!Next]_(Stream!vars)
  BY DEF MCNext, mcVars, streamVars, Stream!vars, Stream!asked, Stream!request, Stream!server,
     Stream!reader
<1>3. [MCNext]_mcVars => [Auth!Next]_(Auth!vars)
  BY DEF MCNext, mcVars, authVars, Auth!vars
<1>4. [MCNext]_mcVars => [Gates!Next]_(Gates!vars)
  BY DEF MCNext, mcVars, hookVars, Gates!vars, Gates!settings
<1>5. [MCNext]_mcVars => [Flow!Next]_(Flow!vars)
  BY DEF MCNext, mcVars, flowVars, Flow!vars, Flow!counters
<1>6. [MCNext]_mcVars => [Todo!Next]_(Todo!vars)
  BY DEF MCNext, mcVars, todoVars, Todo!vars
<1> QED
  BY <1>1, <1>2, <1>3, <1>4, <1>5, <1>6, PTL DEF MCSpec

LEMMA ModelInvariant ==
  MCSpec => []StreamInv /\ []AuthInv /\ []GatesInv /\ []FlowInv /\ []TodoInv
BY ModelParts, StreamInit, StreamStep, AuthInit, AuthStep, GatesInit, GatesStep, FlowInit, FlowStep,
   TodoInit, TodoStep, PTL

(* No call runs but behind the rules, the user where they ask, and every   *)
(* hook that gates it (permission/permission.go Decide, agent/agent.go     *)
(* executeOne, hook/runner.go); no workflow exceeds its caps or has its    *)
(* sub-agents start others (workflow/engine.go); a step is completed with  *)
(* evidence (evidence/evidence.go); and one client spends its login once   *)
(* (provider/openairesponses/auth.go).                                     *)
THEOREM WorkIsLetIn == MCSpec => []WorkIsAllowed
<1>1. AuthInv /\ GatesInv /\ FlowInv /\ TodoInv => WorkIsAllowed
  BY AuthHolds, GateStands, HooksStand, FlowHolds DEF WorkIsAllowed, TodoInv
<1> QED
  BY <1>1, ModelInvariant, PTL

(* Of any vendor's stream, however its frames interleave and wherever it   *)
(* stops, the agent gets the calls the server finished, each once and with *)
(* all of its arguments, and nothing of an answer that failed; OpenAI's    *)
(* calls come in the order of their indices and only from a stream that    *)
(* was finished (provider/openai/openai.go readStream and the others';     *)
(* agent/agent.go stream); and signed reasoning is stored as it was given. *)
LEMMA AnswersAreWhole == MCSpec => []AnswerIsWhole
<1>1. StreamInv /\ GatesInv => AnswerIsWhole
  BY StreamSays DEF AnswerIsWhole, GatesInv
<1> QED
  BY <1>1, ModelInvariant, PTL

(* A request is sent again only after a failure that may pass, at most     *)
(* twice, and never once a chunk of an answer went out                     *)
(* (provider/openai/openai.go sendWithRetry).                              *)
LEMMA RetriesRepeatNothing == MCSpec => Stream!RetriesAreSafe
BY ModelParts, ModelInvariant, StreamStep, PTL DEF Stream!RetriesAreSafe

(* Of a request, over any number of attempts, the agent gets one answer,   *)
(* and what it gets of it is whole: both of the above                      *)
(* (provider/openai/openai.go Stream, agent/agent.go stream).              *)
THEOREM AnswersAreOneAndWhole == MCSpec => OneWholeAnswer
BY AnswersAreWhole, RetriesRepeatNothing, PTL DEF OneWholeAnswer


-----------------------------------------------------------------------------
(* A note is of a job past its record step, and says its status.           *)
NoteSound ==
  \A n \in completed \cup drained :
    pc[n[1]] \in {"close", "exit"} /\ status[n[1]] = n[2]

(* A job past its record step has a note.                                  *)
NoteComplete ==
  \A j \in JobIDs :
    pc[j] \in {"close", "exit"} => <<j, status[j]>> \in completed \cup drained

NoteOnce == completed \cap drained = {}

DoneAtExit == \A j \in JobIDs : j \in done <=> pc[j] = "exit"

NotesInv == NoteSound /\ NoteComplete /\ NoteOnce /\ DoneAtExit

Inv == TypeOK /\ NotesInv

(* What the invariant speaks of.                                           *)
core == <<seq, status, pc, done, completed, drained>>

USE DEF runVars, ctxVars, readVars, turnVars

(* Arithmetic on job ids and chunk counts.                                 *)
LEMMA NoneStarted == \A j \in JobIDs : seq = 0 => j \notin Started
  BY MaxJobsAssumption, MaxWritesAssumption DEF JobIDs, Started

LEMMA Zeros == 0 \in 0..MaxWrites /\ 0 \in 0..MaxJobs
  BY MaxJobsAssumption, MaxWritesAssumption

LEMMA NextStarted ==
  ASSUME seq \in 0..MaxJobs, seq < MaxJobs, seq' = seq + 1
  PROVE  /\ seq + 1 \in JobIDs /\ seq + 1 \notin Started
         /\ Started' = Started \cup {seq + 1}
         /\ seq' \in 0..MaxJobs
<1>1. /\ seq + 1 \in JobIDs /\ seq + 1 \notin Started
      /\ seq' \in 0..MaxJobs
  BY MaxJobsAssumption, MaxWritesAssumption DEF JobIDs, Started
<1>2. 1..(seq + 1) = 1..seq \cup {seq + 1}
  BY MaxJobsAssumption, MaxWritesAssumption
<1> QED
  BY <1>1, <1>2 DEF Started

LEMMA StartedIDs == ASSUME seq \in 0..MaxJobs PROVE Started \subseteq JobIDs
<1> QED
  BY MaxJobsAssumption DEF Started, JobIDs

LEMMA Chunks ==
  ASSUME NEW n \in 0..MaxWrites
  PROVE  /\ 0 \in 0..MaxWrites
         /\ n < MaxWrites => n + 1 \in 0..MaxWrites
         /\ \A m \in 0..MaxWrites : (m + 1)..n \subseteq 1..MaxWrites
<1> QED
  BY MaxJobsAssumption, MaxWritesAssumption

LEMMA InitInv == Init => Inv
<1> SUFFICES ASSUME Init PROVE Inv
  OBVIOUS
<1> USE DEF Init, Notes, Terminal
<1>1. TypeOK
  <2>0. 0 \in 0..MaxWrites /\ 0 \in 0..MaxJobs
    BY Zeros
  <2>1. /\ seq \in 0..MaxJobs
        /\ buf \in [JobIDs -> 0..MaxWrites]
        /\ readOffset \in [JobIDs -> 0..MaxWrites]
        /\ polled \in [JobIDs -> 0..MaxWrites]
    BY <2>0
  <2>2. /\ status \in [JobIDs -> {"none", "running"} \cup Terminal]
        /\ pc \in
             [JobIDs -> {"none", "launch", "run", "record", "close", "exit"}]
        /\ result \in [JobIDs -> {"", "answer", "error"}]
        /\ targets \in [Waiters -> SUBSET Started]
    OBVIOUS
  <2>3. \A j \in JobIDs : j \notin Started /\ pc[j] = "none" /\ status[j] = "none"
    BY NoneStarted
  <2> QED
    BY <2>1, <2>2, <2>3 DEF TypeOK
<1>2. NotesInv
  BY DEF NotesInv, NoteSound, NoteComplete, NoteOnce, DoneAtExit
<1> QED
  BY <1>1, <1>2 DEF Inv

LEMMA StepTypeOK == Inv /\ [Next]_vars => TypeOK'
<1> SUFFICES ASSUME Inv, [Next]_vars PROVE TypeOK'
  OBVIOUS
<1> USE DEF Inv, TypeOK, JobIDs, Started, Notes, Terminal
<1>1. ASSUME Start PROVE TypeOK'
  <2>1. /\ seq + 1 \in JobIDs /\ seq + 1 \notin Started
        /\ Started' = Started \cup {seq + 1}
        /\ seq' \in 0..MaxJobs
    <3>1. seq \in 0..MaxJobs /\ seq < MaxJobs /\ seq' = seq + 1
      BY <1>1 DEF Start
    <3> QED
      BY <3>1, NextStarted
  <2>2. /\ status' \in [JobIDs -> {"none", "running"} \cup Terminal]
        /\ pc' \in
             [JobIDs -> {"none", "launch", "run", "record", "close", "exit"}]
    BY <1>1 DEF Start
  <2>3. targets' \in [Waiters -> SUBSET Started']
    BY <1>1, <2>1 DEF Start
  <2>4. \A j \in JobIDs : /\ j \in Started' <=> pc'[j] # "none"
                          /\ status'[j] = "none" <=> pc'[j] = "none"
                          /\ pc'[j] \in {"record", "close", "exit"} =>
                               status'[j] \in Terminal
    <3> TAKE j \in JobIDs
    <3> HIDE DEF Started, JobIDs
    <3>2. CASE j = seq + 1
      <4>1. pc'[j] = "launch" /\ status'[j] = "running" /\ j \in Started'
        BY <1>1, <2>1, <3>2 DEF Start
      <4> QED
        BY <4>1
    <3>3. CASE j # seq + 1
      <4>1. /\ pc'[j] = pc[j] /\ status'[j] = status[j]
            /\ j \in Started' <=> j \in Started
        BY <1>1, <2>1, <3>3 DEF Start
      <4> QED
        BY <4>1
    <3> QED
      BY <3>2, <3>3
  <2>5. cancelled' \subseteq Started' /\ killing' \subseteq Started'
    BY <1>1, <2>1 DEF Start
  <2> QED
    BY <1>1, <2>1, <2>2, <2>3, <2>4, <2>5 DEF Start
<1>2. ASSUME Close PROVE TypeOK'
  BY <1>2 DEF Close, CloseReaches
<1>3. ASSUME NEW j \in JobIDs, Launch(j) PROVE TypeOK'
  BY <1>3 DEF Launch
<1>4. ASSUME NEW j \in JobIDs, Write(j) PROVE TypeOK'
  <2>1. buf' \in [JobIDs -> 0..MaxWrites]
    BY <1>4, Chunks DEF Write
  <2> QED
    BY <1>4, <2>1 DEF Write
<1>5. ASSUME NEW j \in JobIDs, NEW text \in {"", "answer"},
          NEW failed \in BOOLEAN,
          Return(j, text, failed) PROVE TypeOK'
  BY <1>5 DEF Return, Verdict
<1>6. ASSUME NEW j \in JobIDs, RecordCompletion(j) PROVE TypeOK'
  <2>1. <<j, status[j]>> \in Notes
    BY <1>6 DEF RecordCompletion
  <2>2. completed' \subseteq Notes
    BY <1>6, <2>1 DEF RecordCompletion
  <2> QED
    BY <1>6, <2>2 DEF RecordCompletion
<1>7. ASSUME NEW j \in JobIDs, CloseDone(j) PROVE TypeOK'
  BY <1>7 DEF CloseDone, Noted, Signal
<1>8. ASSUME NEW j \in JobIDs, KillFlip(j) PROVE TypeOK'
  BY <1>8 DEF KillFlip, Killable
<1>9. ASSUME NEW j \in JobIDs, KillCancel(j) PROVE TypeOK'
  BY <1>9 DEF KillCancel, CancelJob
<1>10. ASSUME NEW w \in Waiters, WaitDone(w) PROVE TypeOK'
  BY <1>10 DEF WaitDone
<1>11. ASSUME NEW w \in Waiters, WaitGiveUp(w) PROVE TypeOK'
  BY <1>11 DEF WaitGiveUp
<1>12. ASSUME NEW w \in Waiters, NEW S \in SUBSET JobIDs, Wait(w, S) PROVE TypeOK'
  BY <1>12 DEF Wait
<1>13. ASSUME NEW j \in JobIDs, NEW valid \in BOOLEAN,
          BashOutput(j, valid) PROVE TypeOK'
  <2>1. /\ readOffset' \in [JobIDs -> 0..MaxWrites]
        /\ polled' \in [JobIDs -> 0..MaxWrites]
        /\ resultRead' \subseteq Started
    BY <1>13 DEF BashOutput, Output, Advance, MarkRead
  <2>2. {j} \X New(j) \subseteq JobIDs \X (1..MaxWrites)
    BY Chunks DEF New
  <2>3. modelSaw' \subseteq JobIDs \X (1..MaxWrites)
    BY <1>13, <2>2 DEF BashOutput
  <2> QED
    BY <1>13, <2>1, <2>3 DEF BashOutput, Output
<1>14. ASSUME NEW j \in JobIDs, JobsText(j) PROVE TypeOK'
  BY <1>14 DEF JobsText, Output, Advance, ShowsResult, MarkRead, New
<1>15. ASSUME Compose PROVE TypeOK'
  BY <1>15 DEF Compose, DrainClears
<1>16. ASSUME SendMessage PROVE TypeOK'
  BY <1>16 DEF SendMessage
<1>17. ASSUME PromptBlocked PROVE TypeOK'
  BY <1>17 DEF PromptBlocked
<1>18. CASE UNCHANGED vars
  BY <1>18 DEF vars
<1> HIDE DEF Inv, TypeOK, JobIDs, Started, Notes, Terminal
<1> QED
  BY <1>1, <1>2, <1>3, <1>4, <1>5, <1>6, <1>7, <1>8, <1>9, <1>10, <1>11, <1>12, <1>13, <1>14, <1>15, <1>16, <1>17, <1>18 DEF Next, Goroutine

LEMMA StepNotesInv == Inv /\ [Next]_vars => NotesInv'
<1> SUFFICES ASSUME Inv, [Next]_vars PROVE NotesInv'
  OBVIOUS
<1> USE DEF Inv, TypeOK, NotesInv, NoteSound, NoteComplete,
         NoteOnce, DoneAtExit, Notes, Terminal
<1>1. ASSUME Start PROVE NotesInv'
  <2>1. seq + 1 \in JobIDs /\ pc[seq + 1] = "none"
    <3>1. seq \in 0..MaxJobs /\ seq < MaxJobs /\ seq' = seq + 1
      BY <1>1 DEF Start
    <3>2. seq + 1 \in JobIDs /\ seq + 1 \notin Started
      BY <3>1, NextStarted
    <3> QED
      BY <3>2
  <2>2. \A n \in completed \cup drained : n[1] # seq + 1
    BY <2>1
  <2>3. /\ pc' = [pc EXCEPT ![seq + 1] = "launch"]
        /\ status' = [status EXCEPT ![seq + 1] = "running"]
        /\ UNCHANGED <<completed, drained, done>>
    BY <1>1 DEF Start
  <2>4. NoteSound'
    BY <2>1, <2>2, <2>3
  <2>5. NoteComplete'
    BY <2>1, <2>3
  <2>6. NoteOnce' /\ DoneAtExit'
    BY <2>1, <2>3
  <2> QED
    BY <2>4, <2>5, <2>6
<1>2. ASSUME Close PROVE NotesInv'
  BY <1>2 DEF Close, CloseReaches
<1>3. ASSUME NEW j \in JobIDs, Launch(j) PROVE NotesInv'
  BY <1>3 DEF Launch
<1>4. ASSUME NEW j \in JobIDs, Write(j) PROVE NotesInv'
  BY <1>4 DEF Write
<1>5. ASSUME NEW j \in JobIDs, NEW text \in {"", "answer"},
          NEW failed \in BOOLEAN,
          Return(j, text, failed) PROVE NotesInv'
  BY <1>5 DEF Return, Verdict
<1>6. ASSUME NEW j \in JobIDs, RecordCompletion(j) PROVE NotesInv'
  <2>1. <<j, status[j]>> \notin completed \cup drained
    BY <1>6 DEF RecordCompletion
  <2>2. /\ completed' = completed \cup {<<j, status[j]>>}
        /\ pc' = [pc EXCEPT ![j] = "close"]
        /\ pc[j] = "record"
        /\ UNCHANGED <<status, drained, done>>
    BY <1>6 DEF RecordCompletion
  <2>3. NoteSound'
    <3> SUFFICES ASSUME NEW n \in completed' \cup drained'
                 PROVE  pc'[n[1]] \in {"close", "exit"} /\ status'[n[1]] = n[2]
      OBVIOUS
    <3>1. CASE n = <<j, status[j]>>
      BY <2>2, <3>1
    <3>2. CASE n \in completed \cup drained
      <4>1. n[1] # j /\ n[1] \in JobIDs
        BY <2>2, <3>2
      <4> QED
        BY <2>2, <3>2, <4>1
    <3> QED
      BY <2>2, <3>1, <3>2
  <2>4. NoteComplete'
    BY <2>2
  <2>5. NoteOnce'
    BY <2>1, <2>2
  <2>6. DoneAtExit'
    BY <2>2
  <2> QED
    BY <2>3, <2>4, <2>5, <2>6
<1>7. ASSUME NEW j \in JobIDs, CloseDone(j) PROVE NotesInv'
  BY <1>7 DEF CloseDone, Noted, Signal
<1>8. ASSUME NEW j \in JobIDs, KillFlip(j) PROVE NotesInv'
  BY <1>8 DEF KillFlip, Killable
<1>9. ASSUME NEW j \in JobIDs, KillCancel(j) PROVE NotesInv'
  BY <1>9 DEF KillCancel, CancelJob
<1>10. ASSUME NEW w \in Waiters, WaitDone(w) PROVE NotesInv'
  BY <1>10 DEF WaitDone
<1>11. ASSUME NEW w \in Waiters, WaitGiveUp(w) PROVE NotesInv'
  BY <1>11 DEF WaitGiveUp
<1>12. ASSUME NEW w \in Waiters, NEW S \in SUBSET JobIDs, Wait(w, S) PROVE NotesInv'
  BY <1>12 DEF Wait
<1>13. ASSUME NEW j \in JobIDs, NEW valid \in BOOLEAN,
          BashOutput(j, valid) PROVE NotesInv'
  BY <1>13 DEF BashOutput, Output, Advance, ShowsResult, MarkRead, New
<1>14. ASSUME NEW j \in JobIDs, JobsText(j) PROVE NotesInv'
  BY <1>14 DEF JobsText, Output, Advance, ShowsResult, MarkRead, New
<1>15. ASSUME Compose PROVE NotesInv'
  BY <1>15 DEF Compose, DrainClears
<1>16. ASSUME SendMessage PROVE NotesInv'
  BY <1>16 DEF SendMessage
<1>17. ASSUME PromptBlocked PROVE NotesInv'
  BY <1>17 DEF PromptBlocked
<1>18. CASE UNCHANGED vars
  BY <1>18 DEF vars
<1> HIDE DEF Inv, TypeOK, NotesInv, NoteSound, NoteComplete, NoteOnce,
             DoneAtExit, Notes, Terminal
<1> QED
  BY <1>1, <1>2, <1>3, <1>4, <1>5, <1>6, <1>7, <1>8, <1>9, <1>10, <1>11, <1>12, <1>13, <1>14, <1>15, <1>16, <1>17, <1>18 DEF Next, Goroutine

THEOREM Invariance == Spec => []Inv
<1>1. Inv /\ [Next]_vars => Inv'
  BY StepTypeOK, StepNotesInv DEF Inv
<1> QED
  BY <1>1, InitInv, PTL DEF Spec

(* The registry is well-typed in every reachable state.                    *)
THEOREM TypeCorrect == Spec => []TypeOK
<1>1. Inv => TypeOK
  BY DEF Inv
<1> QED
  BY <1>1, Invariance, PTL

(* recordCompletion before close(j.done): whoever a finished job wakes     *)
(* finds its completion queued.                                            *)
THEOREM NotedBeforeDone == Spec => []DoneImpliesNoted
<1>1. Inv => DoneImpliesNoted
  <2> SUFFICES ASSUME Inv, NEW j \in done
               PROVE  \E v \in Terminal : <<j, v>> \in completed \cup drained
    BY DEF DoneImpliesNoted
  <2>1. j \in JobIDs
    BY StartedIDs DEF Inv, TypeOK
  <2>2. pc[j] = "exit" /\ status[j] \in Terminal
    BY <2>1 DEF Inv, TypeOK, NotesInv, DoneAtExit
  <2>3. <<j, status[j]>> \in completed \cup drained
    BY <2>1, <2>2 DEF Inv, NotesInv, NoteComplete
  <2> QED
    BY <2>2, <2>3
<1> QED
  BY <1>1, Invariance, PTL

(* A completion is reported once, with the status the job keeps.           *)
THEOREM NotedOnce == Spec => []NoteOnceAndTrue
<1>1. Inv => NoteOnceAndTrue
  BY DEF Inv, NotesInv, NoteOnce, NoteSound, NoteOnceAndTrue
<1> QED
  BY <1>1, Invariance, PTL

(* Both: what waiters and turns are told of a completion is there and true.*)
THEOREM NotesStayTrue == Spec => []NotesAreTrue
<1>1. DoneImpliesNoted /\ NoteOnceAndTrue => NotesAreTrue
  BY DEF NotesAreTrue
<1> QED
  BY <1>1, NotedBeforeDone, NotedOnce, PTL

(* A finished job does not change: neither a late Kill nor the job itself  *)
(* touches its status, result or output after done is closed.              *)
THEOREM FinishedStays == Spec => FinishedIsFinal
<1>1. Inv /\ [Next]_vars =>
        [\A j \in done : /\ status'[j] = status[j]
                         /\ result'[j] = result[j]
                         /\ buf'[j] = buf[j]]_vars
  <2> SUFFICES ASSUME Inv, Next, NEW d \in done
               PROVE  /\ status'[d] = status[d]
                      /\ result'[d] = result[d]
                      /\ buf'[d] = buf[d]
    OBVIOUS
  <2>1. d \in JobIDs
    BY StartedIDs DEF Inv, TypeOK
  <2>2. pc[d] = "exit" /\ status[d] \in Terminal
    BY <2>1 DEF Inv, TypeOK, NotesInv, DoneAtExit
  <2> DEFINE Same == /\ status'[d] = status[d]
                     /\ result'[d] = result[d]
                     /\ buf'[d] = buf[d]
  <2>3. ASSUME Start PROVE Same
    <3>1. d # seq + 1
      BY <2>3, NextStarted DEF Start, Inv, TypeOK
    <3> QED
      BY <2>3, <2>1, <3>1 DEF Start
  <2>4. ASSUME Close PROVE Same
    BY <2>4, <2>1, <2>2 DEF Close
  <2>5. ASSUME NEW j \in JobIDs, Launch(j) PROVE Same
    BY <2>5, <2>1, <2>2 DEF Launch
  <2>6. ASSUME NEW j \in JobIDs, Write(j) PROVE Same
    BY <2>6, <2>1, <2>2 DEF Write
  <2>7. ASSUME NEW j \in JobIDs, NEW text \in {"", "answer"},
               NEW failed \in BOOLEAN, Return(j, text, failed) PROVE Same
    <3>1. j # d
      BY <2>7, <2>2 DEF Return
    <3> QED
      BY <2>7, <2>1, <3>1 DEF Return, Inv, TypeOK
  <2>8. ASSUME NEW j \in JobIDs, RecordCompletion(j) PROVE Same
    BY <2>8, <2>1, <2>2 DEF RecordCompletion
  <2>9. ASSUME NEW j \in JobIDs, CloseDone(j) PROVE Same
    BY <2>9, <2>1, <2>2 DEF CloseDone
  <2>10. ASSUME NEW j \in JobIDs, KillFlip(j) PROVE Same
    BY <2>10, <2>1, <2>2 DEF KillFlip, Killable, Terminal
  <2>11. ASSUME NEW j \in JobIDs, KillCancel(j) PROVE Same
    BY <2>11, <2>1, <2>2 DEF KillCancel
  <2>12. ASSUME NEW w \in Waiters, WaitDone(w) PROVE Same
    BY <2>12, <2>1, <2>2 DEF WaitDone
  <2>13. ASSUME NEW w \in Waiters, WaitGiveUp(w) PROVE Same
    BY <2>13, <2>1, <2>2 DEF WaitGiveUp
  <2>14. ASSUME NEW w \in Waiters, NEW S \in SUBSET JobIDs, Wait(w, S) PROVE Same
    BY <2>14, <2>1, <2>2 DEF Wait
  <2>15. ASSUME NEW j \in JobIDs, NEW valid \in BOOLEAN,
               BashOutput(j, valid) PROVE Same
    BY <2>15, <2>1, <2>2 DEF BashOutput, Output
  <2>16. ASSUME NEW j \in JobIDs, JobsText(j) PROVE Same
    BY <2>16, <2>1, <2>2 DEF JobsText, Output
  <2>17. ASSUME Compose PROVE Same
    BY <2>17, <2>1, <2>2 DEF Compose
  <2>18. ASSUME SendMessage PROVE Same
    BY <2>18, <2>1, <2>2 DEF SendMessage
  <2>19. ASSUME PromptBlocked PROVE Same
    BY <2>19, <2>1, <2>2 DEF PromptBlocked
  <2> QED
    BY <2>3, <2>4, <2>5, <2>6, <2>7, <2>8, <2>9, <2>10, <2>11, <2>12, <2>13, <2>14, <2>15, <2>16, <2>17, <2>18, <2>19
       DEF Next, Goroutine
<1> QED
  BY <1>1, Invariance, PTL DEF Spec, FinishedIsFinal

-----------------------------------------------------------------------------
(* Output.  What was read is a prefix of what was written; the result is   *)
(* there only once run returned, and it was shown only after every chunk.  *)
Read(n) == [i \in 1..n |-> i]

Shown == Nat \cup {ResultText}
OutputTyped == surfaced \in [JobIDs -> Seq(Shown)]

ResultInv ==
  \A j \in JobIDs :
    /\ result[j] # "" => pc[j] \in {"record", "close", "exit"}
    /\ j \in resultRead => /\ result[j] # ""
                           /\ readOffset[j] = buf[j]

SurfacedInv ==
  \A j \in JobIDs :
    /\ readOffset[j] <= buf[j]
    /\ surfaced[j] = IF j \in resultRead
                     THEN Append(Read(readOffset[j]), ResultText)
                     ELSE Read(readOffset[j])

OutputInv == OutputTyped /\ ResultInv /\ SurfacedInv

LEMMA ReadTyped == \A n \in Nat : Read(n) \in Seq(Shown) /\ Len(Read(n)) = n
  BY DEF Read, Shown

LEMMA Offsets ==
  ASSUME Inv, NEW j \in JobIDs
  PROVE  /\ readOffset[j] \in Nat /\ buf[j] \in Nat
         /\ readOffset[j] <= buf[j] => readOffset[j] <= buf[j] + 1
         /\ (readOffset[j] <= buf[j] /\ New(j) = {}) => readOffset[j] = buf[j]
<1>0. readOffset[j] \in 0..MaxWrites /\ buf[j] \in 0..MaxWrites
  BY DEF Inv, TypeOK
<1>1. readOffset[j] \in Nat /\ buf[j] \in Nat
  BY <1>0, MaxWritesAssumption
<1> QED
  BY <1>1 DEF New

(* The chunks one call of Output returns continue those returned before.   *)
LEMMA ReadOn ==
  ASSUME NEW m \in Nat, NEW n \in Nat, m <= n
  PROVE  Read(m) \o [i \in 1..(n - m) |-> m + i] = Read(n)
<1> DEFINE new == [i \in 1..(n - m) |-> m + i]
<1>1. Read(m) \in Seq(Nat) /\ Len(Read(m)) = m
  BY DEF Read
<1>2. new \in Seq(Nat) /\ Len(new) = n - m
  OBVIOUS
<1>3. Read(n) \in Seq(Nat) /\ Len(Read(n)) = n
  BY DEF Read
<1>4. /\ Read(m) \o new \in Seq(Nat)
      /\ Len(Read(m) \o new) = n
      /\ \A i \in 1..n : (Read(m) \o new)[i] =
                           IF i <= m THEN Read(m)[i] ELSE new[i - m]
  <2>1. m + (n - m) = n
    OBVIOUS
  <2> HIDE DEF new
  <2>2. /\ Read(m) \o new \in Seq(Nat)
        /\ Len(Read(m) \o new) = Len(Read(m)) + Len(new)
        /\ \A i \in 1..(Len(Read(m)) + Len(new)) : (Read(m) \o new)[i] =
              IF i <= Len(Read(m)) THEN Read(m)[i] ELSE new[i - Len(Read(m))]
    BY <1>1, <1>2, ConcatProperties
  <2> QED
    BY <1>1, <1>2, <2>1, <2>2
<1>5. \A i \in 1..n : (Read(m) \o new)[i] = Read(n)[i]
  <2> TAKE i \in 1..n
  <2>1. CASE i <= m
    BY <1>4, <2>1 DEF Read
  <2>2. CASE ~(i <= m)
    <3>1. i - m \in 1..(n - m) /\ m + (i - m) = i
      BY <2>2
    <3>2. new[i - m] = i
      BY <3>1
    <3> HIDE DEF new
    <3> QED
      BY <1>4, <2>2, <3>2 DEF Read
  <2> QED
    BY <2>1, <2>2
<1> HIDE DEF new
<1>6. Read(m) \o new = Read(n)
  BY <1>3, <1>4, <1>5, SeqEqual
<1> QED
  BY <1>6 DEF new

(* One call of Output, by whomever: the offset reaches the end, and what   *)
(* it returns continues what was returned before.                          *)
LEMMA OutputStep ==
  ASSUME Inv, OutputInv, NEW j \in JobIDs, Output(j)
  PROVE  OutputInv'
<1>1. /\ readOffset[j] \in Nat /\ buf[j] \in Nat /\ readOffset[j] <= buf[j]
      /\ surfaced[j] \in Seq(Shown)
  BY Offsets DEF OutputInv, OutputTyped, SurfacedInv
<1>2. /\ readOffset'[j] = buf[j]
      /\ \A k \in JobIDs : k # j => /\ readOffset'[k] = readOffset[k]
                                    /\ surfaced'[k] = surfaced[k]
                                    /\ k \in resultRead' <=> k \in resultRead
      /\ UNCHANGED <<pc, result, buf>>
  BY DEF Output, Advance, MarkRead, Inv, TypeOK, OutputInv, OutputTyped
<1>3. CASE ShowsResult(j)
  <2>1. readOffset[j] = buf[j]
    BY <1>1, <1>3, Offsets DEF ShowsResult
  <2>2. /\ surfaced' = [surfaced EXCEPT ![j] = Append(@, ResultText)]
        /\ j \in resultRead' /\ j \notin resultRead /\ result[j] # ""
    BY <1>3 DEF Output, ShowsResult, MarkRead
  <2>3. surfaced'[j] = Append(Read(buf[j]), ResultText)
    BY <2>1, <2>2 DEF OutputInv, OutputTyped, SurfacedInv
  <2>4. Append(surfaced[j], ResultText) \in Seq(Shown)
    BY <1>1, AppendProperties, ResultText \in Shown DEF Shown
  <2>5. OutputTyped'
    BY <2>2, <2>4 DEF OutputInv, OutputTyped
  <2>6. ResultInv'
    BY <1>2, <2>2 DEF OutputInv, ResultInv
  <2>7. SurfacedInv'
    <3>1. buf[j] <= buf[j]
      BY <1>1
    <3> QED
      BY <1>2, <2>2, <2>3, <3>1 DEF OutputInv, SurfacedInv
  <2> QED
    BY <2>5, <2>6, <2>7 DEF OutputInv
<1>4. CASE ~ShowsResult(j)
  <2> DEFINE new == [i \in 1..(buf[j] - readOffset[j]) |-> readOffset[j] + i]
  <2>1. /\ surfaced' = [surfaced EXCEPT ![j] = @ \o new]
        /\ resultRead' = resultRead
    BY <1>4 DEF Output
  <2>2. new \in Seq(Shown)
    <3>1. \A i \in 1..(buf[j] - readOffset[j]) : new[i] \in Shown
      BY <1>1 DEF Shown
    <3>2. buf[j] - readOffset[j] \in Nat
      BY <1>1
    <3> QED
      BY <3>1, <3>2, SeqDef
  <2>3. surfaced'[j] = surfaced[j] \o new
    BY <2>1 DEF OutputInv, OutputTyped
  <2>4. j \in resultRead => surfaced'[j] = surfaced[j]
    <3>1. SUFFICES ASSUME j \in resultRead PROVE new = <<>>
      BY <1>1, <2>3, ConcatEmptySeq
    <3>2. readOffset[j] = buf[j]
      BY <3>1 DEF OutputInv, ResultInv
    <3>3. 1..(buf[j] - readOffset[j]) = {}
      BY <1>1, <3>2
    <3> QED
      BY <3>3
  <2>5. j \notin resultRead => surfaced'[j] = Read(buf[j])
    BY <1>1, <2>3, ReadOn DEF OutputInv, SurfacedInv
  <2>6. OutputTyped'
    <3>1. surfaced[j] \o new \in Seq(Shown)
      <4> HIDE DEF new
      <4> QED
        BY <1>1, <2>2, ConcatProperties
    <3> HIDE DEF new
    <3> QED
      BY <2>1, <3>1 DEF OutputInv, OutputTyped
  <2>7. ResultInv'
    BY <1>2, <2>1 DEF OutputInv, ResultInv
  <2>8. SurfacedInv'
    <3>1. surfaced'[j] = IF j \in resultRead'
                         THEN Append(Read(readOffset'[j]), ResultText)
                         ELSE Read(readOffset'[j])
      <4> HIDE DEF new
      <4> QED
        BY <1>2, <2>1, <2>4, <2>5 DEF OutputInv, SurfacedInv, ResultInv
    <3> HIDE DEF new
    <3> QED
      BY <1>1, <1>2, <2>1, <3>1 DEF OutputInv, SurfacedInv
  <2> QED
    BY <2>6, <2>7, <2>8 DEF OutputInv
<1> QED
  BY <1>3, <1>4

LEMMA StepOutput == Inv /\ OutputInv /\ [Next]_vars => OutputInv'
<1> SUFFICES ASSUME Inv, OutputInv, [Next]_vars PROVE OutputInv'
  OBVIOUS
<1> USE MaxWritesAssumption
    DEF Inv, TypeOK, OutputInv, OutputTyped, ResultInv, SurfacedInv
<1>1. ASSUME Start PROVE OutputInv'
  <2>1. /\ seq + 1 \in JobIDs /\ pc[seq + 1] = "none"
        /\ pc' = [pc EXCEPT ![seq + 1] = "launch"]
        /\ UNCHANGED <<buf, result, readVars>>
    BY <1>1, NextStarted DEF Start
  <2> QED
    BY <2>1
<1>2. ASSUME NEW j \in JobIDs, Launch(j) PROVE OutputInv'
  BY <1>2 DEF Launch
<1>3. ASSUME NEW j \in JobIDs, Write(j) PROVE OutputInv'
  <2>1. /\ pc[j] = "run" /\ buf'[j] = buf[j] + 1
        /\ \A k \in JobIDs : k # j => buf'[k] = buf[k]
        /\ UNCHANGED <<pc, result, readVars>>
    BY <1>3 DEF Write
  <2>2. j \notin resultRead
    BY <2>1
  <2>3. readOffset[j] <= buf[j] + 1
    <3> HIDE DEF Inv
    <3> QED
      BY Offsets
  <2>4. OutputTyped' /\ ResultInv'
    BY <2>1, <2>2
  <2>5. SurfacedInv'
    BY <2>1, <2>3
  <2> QED
    BY <2>4, <2>5
<1>4. ASSUME NEW j \in JobIDs, NEW text \in {"", "answer"},
             NEW failed \in BOOLEAN, Return(j, text, failed)
      PROVE  OutputInv'
  BY <1>4 DEF Return
<1>5. ASSUME NEW j \in JobIDs, RecordCompletion(j) \/ CloseDone(j)
      PROVE  OutputInv'
  BY <1>5 DEF RecordCompletion, CloseDone, Noted
<1>6. ASSUME NEW j \in JobIDs, KillFlip(j) \/ KillCancel(j) PROVE OutputInv'
  BY <1>6 DEF KillFlip, KillCancel
<1>7. ASSUME NEW w \in Waiters, NEW S \in SUBSET JobIDs,
             WaitDone(w) \/ WaitGiveUp(w) \/ Wait(w, S)
      PROVE  OutputInv'
  BY <1>7 DEF WaitDone, WaitGiveUp, Wait
<1>8. ASSUME NEW j \in JobIDs, NEW valid \in BOOLEAN,
             BashOutput(j, valid) \/ JobsText(j)
      PROVE  OutputInv'
  BY <1>8, OutputStep DEF BashOutput, JobsText
<1>9. CASE Close \/ Compose \/ SendMessage \/ PromptBlocked \/ UNCHANGED vars
  BY <1>9 DEF Close, Compose, SendMessage, PromptBlocked, vars
<1> HIDE DEF Inv, TypeOK, OutputInv, OutputTyped, ResultInv, SurfacedInv
<1> QED
  BY <1>1, <1>2, <1>3, <1>4, <1>5, <1>6, <1>7, <1>8, <1>9 DEF Next, Goroutine

(* Whoever calls Output, and whenever a Kill flips the status, together    *)
(* the calls return every chunk once and in order, and the result once,    *)
(* after the last chunk.                                                   *)
THEOREM OutputInOrder == Spec => []OutputOnceInOrder
<1>1. Init => OutputInv
  <2> SUFFICES ASSUME Init PROVE OutputInv
    OBVIOUS
  <2>1. Read(0) = <<>> /\ <<>> \in Seq(Shown)
    BY DEF Read
  <2>2. OutputTyped /\ ResultInv
    BY <2>1 DEF Init, OutputTyped, ResultInv
  <2>3. SurfacedInv
    <3> SUFFICES ASSUME NEW j \in JobIDs
                 PROVE  /\ readOffset[j] <= buf[j]
                        /\ surfaced[j] = IF j \in resultRead
                                  THEN Append(Read(readOffset[j]), ResultText)
                                  ELSE Read(readOffset[j])
      BY DEF SurfacedInv
    <3>1. /\ readOffset[j] = 0 /\ buf[j] = 0
          /\ surfaced[j] = <<>> /\ resultRead = {}
      BY DEF Init
    <3> QED
      BY <2>1, <3>1
  <2> QED
    BY <2>2, <2>3 DEF OutputInv
<1>2. OutputInv => OutputOnceInOrder
  BY DEF OutputInv, ResultInv, SurfacedInv, OutputOnceInOrder, Read
<1> QED
  BY <1>1, <1>2, StepOutput, Invariance, PTL DEF Spec

-----------------------------------------------------------------------------
(* Refinement.  A step either moves the goroutine of one job along the     *)
(* phases of JobLifecycle, reaches contexts, drains, or leaves all of this *)
(* alone.                                                                  *)

Same == UNCHANGED <<Phase, Decided, completed, drained, cancelled>>

LEMMA SamePhase ==
  ASSUME UNCHANGED <<pc, status>>
  PROVE  UNCHANGED <<Phase, Decided>>
<1> QED
  BY DEF Phase, Decided

(* How the two mapped functions change when one goroutine moves.           *)
LEMMA MovePhase ==
  ASSUME TypeOK, NEW j \in JobIDs,
         \A k \in JobIDs \ {j} : pc'[k] = pc[k] /\ status'[k] = status[k]
  PROVE  /\ Phase' = [Phase EXCEPT ![j] = Phase'[j]]
         /\ Decided' = [Decided EXCEPT ![j] = Decided'[j]]
<1> QED
  BY DEF Phase, Decided

LEMMA RefInit == Init => Lifecycle!Init
  BY DEF Init, Lifecycle!Init, Lifecycle!Jobs, JobIDs, Phase, Decided

LEMMA RefStep ==
  Inv /\ [Next]_vars => [Lifecycle!Next]_<<Phase, Decided, completed, drained,
                                           cancelled>>
<1> SUFFICES ASSUME Inv, [Next]_vars
             PROVE  Lifecycle!Next \/ Same
  BY DEF Same
<1> DEFINE Goal == Lifecycle!Next \/ Same
<1>0. TypeOK /\ NotesInv /\ Lifecycle!Jobs = JobIDs
  BY DEF Inv, Lifecycle!Jobs, JobIDs
<1>1. ASSUME Start PROVE Goal
  <2>1. seq + 1 \in JobIDs /\ seq + 1 \notin Started
    BY <1>0, <1>1, NextStarted DEF Start, TypeOK
  <2>2. /\ pc[seq + 1] = "none" /\ pc'[seq + 1] = "launch"
        /\ \A k \in JobIDs \ {seq + 1} : pc'[k] = pc[k] /\ status'[k] = status[k]
        /\ cancelled' \in {cancelled, cancelled \cup {seq + 1}}
        /\ UNCHANGED <<completed, drained>>
    BY <1>0, <1>1, <2>1 DEF Start, TypeOK
  <2>3. /\ Phase[seq + 1] = "absent" /\ Phase'[seq + 1] = "live"
        /\ Decided[seq + 1] = "none" /\ Decided'[seq + 1] = "none"
    BY <2>1, <2>2 DEF Phase, Decided
  <2>4. Lifecycle!Start(seq + 1)
    BY <1>0, <2>1, <2>2, <2>3, MovePhase DEF Lifecycle!Start, Decided
  <2> QED
    BY <1>0, <2>1, <2>4 DEF Lifecycle!Next
<1>2. ASSUME Close PROVE Goal
  <2>1. /\ Started \subseteq JobIDs
        /\ \A k \in Started : Phase[k] # "absent"
    BY <1>0, StartedIDs DEF TypeOK, Phase
  <2>2. Lifecycle!Cancel(Started)
    BY <1>2, <2>1, SamePhase DEF Close, CloseReaches, Lifecycle!Cancel
  <2> QED
    BY <1>0, <2>1, <2>2 DEF Lifecycle!Next
<1>3. ASSUME NEW j \in JobIDs, Launch(j) PROVE Goal
  <2>1. pc' = [pc EXCEPT ![j] = "run"] /\ pc[j] = "launch" /\ status' = status
    BY <1>3 DEF Launch
  <2>2. Phase' = Phase /\ Decided' = Decided
    BY <1>0, <2>1 DEF TypeOK, Phase, Decided
  <2> QED
    BY <1>3, <2>2 DEF Launch, Same
<1>4. ASSUME NEW j \in JobIDs, Write(j) PROVE Goal
  BY <1>4, SamePhase DEF Write, Same
<1>5. ASSUME NEW j \in JobIDs, NEW text \in {"", "answer"},
             NEW failed \in BOOLEAN, Return(j, text, failed)
      PROVE  Goal
  <2>1. /\ pc[j] = "run" /\ pc'[j] = "record"
        /\ status'[j] = Verdict(j, failed)
        /\ \A k \in JobIDs \ {j} : pc'[k] = pc[k] /\ status'[k] = status[k]
        /\ UNCHANGED <<completed, drained, cancelled>>
    BY <1>0, <1>5 DEF Return, TypeOK
  <2>2. /\ Phase[j] = "live" /\ Phase'[j] = "decided"
        /\ Decided'[j] = Verdict(j, failed)
    BY <2>1 DEF Phase, Decided
  <2>3. /\ Verdict(j, failed) \in Lifecycle!Verdicts
        /\ (Verdict(j, failed) = "killed") <=> (j \in cancelled)
    BY DEF Verdict, Lifecycle!Verdicts
  <2>4. Lifecycle!Decide(j, Verdict(j, failed))
    BY <1>0, <2>1, <2>2, <2>3, MovePhase DEF Lifecycle!Decide
  <2> QED
    BY <1>0, <2>3, <2>4 DEF Lifecycle!Next
<1>6. ASSUME NEW j \in JobIDs, RecordCompletion(j) PROVE Goal
  <2>1. /\ pc[j] = "record" /\ pc'[j] = "close"
        /\ completed' = completed \cup {<<j, status[j]>>}
        /\ UNCHANGED <<status, drained, cancelled>>
        /\ \A k \in JobIDs \ {j} : pc'[k] = pc[k] /\ status'[k] = status[k]
    BY <1>0, <1>6 DEF RecordCompletion, TypeOK
  <2>2. /\ Phase[j] = "decided" /\ Phase'[j] = "noted"
        /\ Decided[j] = status[j] /\ Decided'[j] = status[j]
    BY <2>1 DEF Phase, Decided
  <2>3. Lifecycle!Note(j)
    BY <1>0, <2>1, <2>2, MovePhase DEF Lifecycle!Note, Decided
  <2> QED
    BY <1>0, <2>3 DEF Lifecycle!Next
<1>7. ASSUME NEW j \in JobIDs, CloseDone(j) PROVE Goal
  <2>1. /\ pc[j] = "close" /\ pc'[j] = "exit"
        /\ UNCHANGED <<status, completed, drained, cancelled>>
        /\ \A k \in JobIDs \ {j} : pc'[k] = pc[k] /\ status'[k] = status[k]
    BY <1>0, <1>7 DEF CloseDone, Noted, TypeOK
  <2>2. /\ Phase[j] = "noted" /\ Phase'[j] = "finished"
        /\ Decided[j] = status[j] /\ Decided'[j] = status[j]
    BY <2>1 DEF Phase, Decided
  <2>3. Lifecycle!Finish(j)
    BY <1>0, <2>1, <2>2, MovePhase DEF Lifecycle!Finish, Decided
  <2> QED
    BY <1>0, <2>3 DEF Lifecycle!Next
<1>8. ASSUME NEW j \in JobIDs, KillFlip(j) PROVE Goal
  <2>1. /\ status[j] = "running" /\ pc' = pc
        /\ status' = [status EXCEPT ![j] = "killed"]
        /\ UNCHANGED <<completed, drained, cancelled>>
    BY <1>8 DEF KillFlip, Killable
  <2>2. pc[j] \notin {"record", "close", "exit"}
    BY <1>0, <2>1 DEF TypeOK, Terminal
  <2>3. Phase' = Phase /\ Decided' = Decided
    BY <1>0, <2>1, <2>2 DEF TypeOK, Phase, Decided
  <2> QED
    BY <2>1, <2>3 DEF Same
<1>9. ASSUME NEW j \in JobIDs, KillCancel(j) PROVE Goal
  <2>1. Phase[j] # "absent"
    BY <1>0, <1>9 DEF KillCancel, TypeOK, Phase
  <2>2. Lifecycle!Cancel({j})
    BY <1>9, <2>1, SamePhase DEF KillCancel, CancelJob, Lifecycle!Cancel
  <2> QED
    BY <1>0, <2>2 DEF Lifecycle!Next
<1>10. ASSUME NEW w \in Waiters, WaitDone(w) PROVE Goal
  BY <1>10, SamePhase DEF WaitDone, Same
<1>11. ASSUME NEW w \in Waiters, WaitGiveUp(w) PROVE Goal
  BY <1>11, SamePhase DEF WaitGiveUp, Same
<1>12. ASSUME NEW w \in Waiters, NEW S \in SUBSET JobIDs, Wait(w, S) PROVE Goal
  BY <1>12, SamePhase DEF Wait, Same
<1>13. ASSUME NEW j \in JobIDs, NEW valid \in BOOLEAN, BashOutput(j, valid)
       PROVE  Goal
  BY <1>13, SamePhase DEF BashOutput, Output, Same
<1>14. ASSUME NEW j \in JobIDs, JobsText(j) PROVE Goal
  BY <1>14, SamePhase DEF JobsText, Output, Same
<1>15. ASSUME Compose PROVE Goal
  <2>1. Lifecycle!Drain
    BY <1>15, SamePhase DEF Compose, DrainClears, Lifecycle!Drain
  <2> QED
    BY <2>1 DEF Lifecycle!Next
<1>16. ASSUME SendMessage PROVE Goal
  BY <1>16, SamePhase DEF SendMessage, Same
<1>17. ASSUME PromptBlocked PROVE Goal
  BY <1>17, SamePhase DEF PromptBlocked, Same
<1>18. CASE UNCHANGED vars
  BY <1>18, SamePhase DEF vars, Same
<1> QED
  BY <1>1, <1>2, <1>3, <1>4, <1>5, <1>6, <1>7, <1>8, <1>9, <1>10, <1>11, <1>12,
     <1>13, <1>14, <1>15, <1>16, <1>17, <1>18 DEF Next, Goroutine

(* The locked, buffered, killable registry implements the plain lifecycle  *)
(* of JobLifecycle.                                                        *)
THEOREM Implements == Spec => ImplementsLifecycle
<1>1. Init => Lifecycle!Init
  BY RefInit
<1>2. Inv /\ [Next]_vars => [Lifecycle!Next]_<<Phase, Decided, completed,
                                               drained, cancelled>>
  BY RefStep
<1> QED
  BY <1>1, <1>2, Invariance, PTL
     DEF Spec, ImplementsLifecycle, Lifecycle!Spec, Lifecycle!vars
=============================================================================
