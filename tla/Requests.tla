------------------------------ MODULE Requests ------------------------------
(***************************************************************************)
(* What the three providers make of one history (buildRequest of           *)
(* provider/anthropic, provider/openairesponses and provider/openai): the  *)
(* same messages, repaired by ToolPairing, in three shapes on the wire.    *)
(* Texts are numbers, 0 for an empty one; an image can be used or not.     *)
(***************************************************************************)
EXTENDS ToolPairing, TLC

CONSTANTS MaxMessages, Thinking  \* c.thinking is set

VARIABLES history, request

Fresh == Len(history) + 1
Body(text, parts, sig) == [text |-> text, parts |-> parts, sig |-> sig]
Image(good) == [type |-> "image", good |-> good]

\* Messages as the agent stores them: parts have the text, then images.
UserMessages ==
  {Text("user") @@ Body(t, parts, FALSE) :
     t \in {0, Fresh}, parts \in {<<>>, <<[type |-> "text"]>>} \cup
       {<<[type |-> "text"], Image(g)>> : g \in BOOLEAN}}
AsstMessages ==
  {Calling([k \in 1 .. n |-> [id |-> 10 * Fresh + k, serial |-> 10 * Fresh + k, whole |-> w]])
     @@ Body(t, <<>>, sig) : n \in 0 .. 2, w \in BOOLEAN, t \in {0, Fresh}, sig \in BOOLEAN}
OpenCalls ==
  {c \in UNION {Range(history[i].calls) : i \in DOMAIN history} :
     ~\E i \in DOMAIN history : history[i].role = "tool" /\ history[i].id = c.id}
Messages ==
  UserMessages \cup AsstMessages \cup {Text("system") @@ Body(Fresh, <<>>, FALSE)}
  \cup {Result(c.id, c.serial) : c \in OpenCalls}

-----------------------------------------------------------------------------
(* The wire                                                                *)

Block(type, of) == [type |-> type, of |-> of]
If(cond, s) == IF cond THEN s ELSE <<>>
TextOf(m) == If(m.text # 0, <<Block("text", m.text)>>)

\* anthropicContentParts, responseContentParts, chatContent: parts are taken
\* alone, and the content stands in when nothing of them can be used.
Instead(m, used) == IF used = <<>> THEN TextOf(m) ELSE used
ContentParts(m, Usable(_)) ==
  IF m.parts = <<>> THEN TextOf(m)
  ELSE Instead(m, FlattenSeq([i \in DOMAIN m.parts |->
         IF m.parts[i].type = "text" THEN TextOf(m)
         ELSE If(Usable(m.parts[i].good), <<Block("image", 0)>>)]))
OnlyGood(good) == good
AnyUrl(good) == TRUE

Uses(m, type) == [k \in DOMAIN m.calls |-> Block(type, m.calls[k].id)]
Answers(m, type) == <<Block(type, m.id)>>

\* anthropic: the role and the blocks of one message.
AsstBlocks(m) ==
  If(Thinking /\ m.sig, <<Block("thinking", 0)>>) \o TextOf(m) \o Uses(m, "tool_use")
Blocks(m) == CASE m.role = "user" -> ContentParts(m, OnlyGood)
               [] m.role = "tool" -> Answers(m, "tool_result")
               [] m.role = "asst" -> AsstBlocks(m)
               [] OTHER -> <<>>
ClaudeRole(m) == IF m.role = "asst" THEN "assistant" ELSE "user"

\* appendBlocks: neighbours of one role become one message.
EachAlone(ps) == DOMAIN ps             \* mutant: neighbours of one role stay apart
Starts(ps) == {i \in DOMAIN ps : i = 1 \/ ps[i].role # ps[i - 1].role}
Pieces(sent) ==
  SelectSeq([i \in DOMAIN sent |-> [role |-> ClaudeRole(sent[i]), blocks |-> Blocks(sent[i])]],
            LAMBDA p : p.blocks # <<>>)
Merged(ps, starts) ==
  [n \in DOMAIN starts |->
     LET end == IF n = Len(starts) THEN Len(ps) ELSE starts[n + 1] - 1
         own == SubSeq(ps, starts[n], end)
     IN [role |-> own[1].role, blocks |-> FlattenSeq([i \in DOMAIN own |-> own[i].blocks])]]
Claude(sent) == LET ps == Pieces(sent) IN Merged(ps, SetToSortSeq(Starts(ps), <))

\* openairesponses: items, of which a message holds blocks.
Message(blocks) == [type |-> "message", of |-> blocks]
Items(m) ==
  CASE m.role = "user" -> <<Message(ContentParts(m, AnyUrl))>>
    [] m.role = "tool" -> Answers(m, "function_call_output")
    [] m.role = "asst" -> If(m.sig, <<Block("reasoning", 0)>>)
                          \o If(m.text # 0, <<Message(ContentParts(m, AnyUrl))>>)
                          \o Uses(m, "function_call")
    [] OTHER -> <<>>
Responses(sent) == FlattenSeq([i \in DOMAIN sent |-> Items(sent[i])])

\* openai: a message for each, its calls beside the content.
Chat(sent) == [i \in DOMAIN sent |->
  [role |-> sent[i].role, calls |-> [k \in DOMAIN sent[i].calls |-> sent[i].calls[k].id],
   id |-> sent[i].id,
   content |-> IF sent[i].role = "tool" THEN <<>> ELSE ContentParts(sent[i], AnyUrl)]]

Requests(sent) == [claude |-> Claude(sent), responses |-> Responses(sent), chat |-> Chat(sent)]
Init == history = <<>> /\ request = Requests(<<>>)
Next ==
  /\ Len(history) < MaxMessages
  /\ \E m \in Messages :
       /\ history' = Append(history, m)
       /\ request' = Requests(SanitizeToolPairing(Append(history, m)))
Spec == Init /\ [][Next]_<<history, request>>

-----------------------------------------------------------------------------
OfType(blocks, types) == SelectSeq(blocks, LAMBDA b : b.type \in types)
Ofs(blocks) == [i \in DOMAIN blocks |-> blocks[i].of]

(* What the Messages API demands of any history the agent can leave, cut   *)
(* short or not: roles alternate, calls are answered by the message that   *)
(* follows and at its head, thinking comes before the calls it led to.     *)
ClaudeTakesIt ==
  LET ms == request.claude
      Results(i) == IF i > Len(ms) THEN <<>> ELSE OfType(ms[i].blocks, {"tool_result"})
      CallsOf(i) == IF i = 0 THEN <<>> ELSE OfType(ms[i].blocks, {"tool_use"})
  IN /\ \A i \in DOMAIN ms : ms[i].blocks # <<>> /\ (i > 1 => ms[i].role # ms[i - 1].role)
     /\ \A i \in DOMAIN ms : /\ Range(Ofs(Results(i))) = Range(Ofs(CallsOf(i - 1)))
                             /\ Len(Results(i)) = Len(CallsOf(i - 1))
     /\ \A i \in DOMAIN ms : CallsOf(i) # <<>> => i < Len(ms)
     /\ \A i \in DOMAIN ms : IsPrefix(Results(i), ms[i].blocks)
     /\ \A i \in DOMAIN ms : \A j, k \in DOMAIN ms[i].blocks :
          ms[i].blocks[j].type = "tool_use" /\ ms[i].blocks[k].type = "thinking" =>
            k < j \/ \E t \in j .. k : ms[i].blocks[t].type = "tool_result"

(* Three providers are told the same: every text once and in order, and    *)
(* every call with its result.                                             *)
Spoken(blocks) == Ofs(OfType(blocks, {"text"}))
ClaudeBlocks == FlattenSeq([i \in DOMAIN request.claude |-> request.claude[i].blocks])
ResponseBlocks == FlattenSeq([i \in DOMAIN request.responses |->
  IF request.responses[i].type = "message" THEN request.responses[i].of ELSE <<request.responses[i]>>])
ChatBlocks == FlattenSeq([i \in DOMAIN request.chat |-> request.chat[i].content])
Told == SelectSeq([i \in DOMAIN history |->
          IF history[i].role \in {"user", "asst"} THEN history[i].text ELSE 0], LAMBDA t : t # 0)
ChatTold == SelectSeq([i \in DOMAIN request.chat |->
              IF request.chat[i].role \in {"user", "asst"} THEN Spoken(request.chat[i].content) ELSE <<>>],
              LAMBDA s : s # <<>>)
SameIsTold ==
  /\ Spoken(ClaudeBlocks) = Told /\ Spoken(ResponseBlocks) = Told /\ FlattenSeq(ChatTold) = Told
  /\ Ofs(OfType(ClaudeBlocks, {"tool_use"})) = Ofs(OfType(ResponseBlocks, {"function_call"}))
  /\ Ofs(OfType(ClaudeBlocks, {"tool_result"}))
       = Ofs(OfType(ResponseBlocks, {"function_call_output"}))
  /\ Ofs(OfType(ClaudeBlocks, {"tool_use"}))
       = FlattenSeq([i \in DOMAIN request.chat |-> request.chat[i].calls])

(* Promise the code breaks: "an empty content array is rejected"           *)
(* (responses.go:252), and the message of a user can have one.             *)
NoneIsEmpty == \A i \in DOMAIN request.responses :
  request.responses[i].type = "message" => request.responses[i].of # <<>>
=============================================================================
