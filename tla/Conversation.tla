----------------------------- MODULE Conversation -----------------------------
(***************************************************************************)
(* What one request of a conversation shares with the next: the chat       *)
(* template (rocml/src/chat/render.rs) makes a prompt of the messages, the *)
(* scanner of StreamScanner reads the answer, the client puts the answer   *)
(* and what it has to add behind its messages, and the template makes the  *)
(* next prompt of them (rocml-serve/src/routes.rs, handle_request).  The   *)
(* snapshots count on the two prompts to agree as far as the boundary.     *)
(*                                                                         *)
(* Abstractions.  A prompt is a sequence of special tokens and of the      *)
(* characters of StreamScanner, whose text is the answer; the white space  *)
(* the template writes between them is left out, but for the newline that  *)
(* ends a turn.  A parsed call is what follows its function tag, with its  *)
(* arguments as tojson spells them.  The answer to the second request is   *)
(* not generated.                                                          *)
(***************************************************************************)
EXTENDS StreamScanner

CONSTANTS
  Sessions,  \* messages, keep_history_reasoning, tools offered, possible answers
  Added      \* what a client sends after an answer, sequences of messages

MaxRequests == 2

Roles == {"system", "user", "assistant", "tool"}
Words == Characters \union Roles \union
         {"<|im_start|>", "<|im_end|>", "nl", "tools", "<tool_response>", "</tool_response>"}
Absent == <<"absent">>
Messages == [role : Roles, content : Seq(Words), reasoning : Seq(Words) \union {Absent},
             calls : Seq(Seq(Words))]

ASSUME SessionsAssumption == \A s \in Sessions : s.messages \in Seq(Messages)
ASSUME AddedAssumption == Added \subseteq Seq(Messages)

VARIABLES
  session,   \* the request options of this conversation
  messages,  \* what the client has
  prompts,   \* of the requests so far: text, boundary, how many messages
  reply      \* what became of the answer to the last request

conversation == <<session, messages, prompts, reply>>

Message(role, content) == [role |-> role, content |-> content, reasoning |-> Absent, calls |-> <<>>]
Assistant(content, reasoning, calls) ==
  [role |-> "assistant", content |-> content, reasoning |-> reasoning, calls |-> calls]

OpenTurn(role) == <<"<|im_start|>", role>>
CloseTurn == <<"<|im_end|>", "nl">>

-----------------------------------------------------------------------------
\* validate_user_query: a question that is not a tool's answer in disguise.
Wrapped(content) ==
  content # <<>> /\ Head(content) = "<tool_response>" /\ Last(content) = "</tool_response>"
Valid(ms) ==
  /\ \A i \in DOMAIN ms : ms[i].role = "system" => i = 1
  /\ \E i \in DOMAIN ms : ms[i].role = "user" /\ ~Wrapped(trim(ms[i].content))

AfterLast(tag, s) ==
  LET i == CHOOSE i \in 1..Len(s) :
             Occurs(tag, s, i) /\ \A j \in (i + 1)..Len(s) : ~Occurs(tag, s, j)
  IN  SubSeq(s, i + Len(tag), Len(s))

\* Reasoning: its own field, or what the tags in the content enclose.
Reasoning(m) ==
  LET base == trim(m.content)
      before == Before(CloseThink, base)
  IN  IF m.reasoning # Absent THEN m.reasoning
      ELSE IF ~Has(CloseThink, base) THEN <<>>
      ELSE IF Has(OpenThink, before) THEN AfterLast(OpenThink, before) ELSE before
Content(m) ==
  LET base == trim(m.content)
  IN  IF m.reasoning = Absent /\ Has(CloseThink, base)
      THEN trim(AfterLast(CloseThink, base)) ELSE base

\* The function tag and its call, anew.
render_tool_calls(m) ==
  FlattenSeq([k \in DOMAIN m.calls |-> OpenTool \o (<<"f">> \o m.calls[k]) \o CloseTool])

\* Mutant of KeptReasoning: an answer keeps it until the next question comes,
\* as in the template of the model family.
KeptUntilAsked(ms, i) ==
  IF session.keep \/ \A j \in i..Len(ms) : ms[j].role # "user" THEN Reasoning(ms[i]) ELSE <<>>
KeptReasoning(ms, i) == IF session.keep THEN Reasoning(ms[i]) ELSE <<>>

\* Mutant of render_assistant_turn: the calls come before the answer.
CallsFirst(ms, i) ==
  OpenTurn("assistant") \o OpenThink \o trim(KeptReasoning(ms, i)) \o CloseThink
    \o render_tool_calls(ms[i]) \o Content(ms[i]) \o CloseTurn
render_assistant_turn(ms, i) ==
  OpenTurn("assistant") \o OpenThink \o trim(KeptReasoning(ms, i)) \o CloseThink
    \o Content(ms[i]) \o render_tool_calls(ms[i]) \o CloseTurn

\* Mutant of OpensWrapper: every tool message opens a turn.
OpensAlways(ms, i) == i > 1
OpensWrapper(ms, i) == i > 1 /\ ms[i - 1].role # "tool"

\* The answers of the tools called together are one user turn.
render_tool_turn(ms, i) ==
  (IF OpensWrapper(ms, i) THEN OpenTurn("user") ELSE <<>>)
    \o <<"<tool_response>">> \o trim(ms[i].content) \o <<"</tool_response>">>
    \o (IF i = Len(ms) \/ ms[i + 1].role # "tool" THEN CloseTurn ELSE <<>>)

Rendered(ms, i) ==
  CASE ms[i].role = "system" -> <<>>
    [] ms[i].role = "user" -> OpenTurn("user") \o trim(ms[i].content) \o CloseTurn
    [] ms[i].role = "assistant" -> render_assistant_turn(ms, i)
    [] ms[i].role = "tool" -> render_tool_turn(ms, i)

Header(ms) ==
  LET said == IF ms[1].role = "system" THEN trim(ms[1].content) ELSE <<>>
  IN  IF session.tools THEN OpenTurn("system") \o <<"tools">> \o said \o CloseTurn
      ELSE IF ms[1].role = "system" THEN OpenTurn("system") \o said \o CloseTurn
      ELSE <<>>

History(ms) == Header(ms) \o FlattenSeq([i \in DOMAIN ms |-> Rendered(ms, i)])

\* The boundary stands between the last <|im_end|> and its newline.
render_with_boundary(ms) ==
  [text |-> History(ms) \o OpenTurn("assistant") \o OpenThink
              \o (IF primed THEN <<>> ELSE CloseThink),
   boundary |-> Len(History(ms)) - 1,
   count |-> Len(ms)]

-----------------------------------------------------------------------------
ConversationInit ==
  /\ Init
  /\ \E s \in Sessions :
       /\ text \in s.answers /\ messages = s.messages
       /\ session = [keep |-> s.keep, tools |-> s.tools]
  /\ prompts = <<>> /\ reply = "none"

\* handle_request, up to the dispatch.
Request ==
  /\ reply # "awaited" /\ Len(prompts) < MaxRequests
  /\ Valid(messages)
  /\ prompts' = Append(prompts, render_with_boundary(messages))
  /\ reply' = "awaited"
  /\ UNCHANGED <<vars, session, messages>>

Answer == Len(prompts) = 1 /\ reply = "awaited"

FeedAnswer == Answer /\ Feed /\ UNCHANGED conversation
FinishAnswer == Answer /\ Finish /\ UNCHANGED conversation

\* What is behind the function tag, wherever that stood, without the white space
\* around it, its JSON as it will be spelled again.
parse_one_tool_call_block(block) ==
  LET call == trim(Kept(block, SelectInSeq(block, LAMBDA c : c = "f")))
  IN  [k \in 1..Len(call) |-> IF call[k] = "j" THEN "J" ELSE call[k]]

\* message_out: no reasoning is no field.
reasoning_content == IF Accumulated.thinking = <<>> THEN Absent ELSE Accumulated.thinking
tool_calls ==
  [k \in 1..Len(Accumulated.calls) |-> parse_one_tool_call_block(Accumulated.calls[k])]

\* The message a client keeps: the fields of the response, those without the
\* reasoning, or its own copy of the whole text.
ReplyMessage(form) ==
  CASE form = "fields" -> Assistant(Accumulated.content, reasoning_content, tool_calls)
    [] form = "dropped" -> Assistant(Accumulated.content, Absent, tool_calls)
    [] form = "raw" -> Assistant((IF primed THEN OpenThink ELSE <<>>) \o text, Absent, <<>>)

KeepAnswer ==
  /\ Answer /\ ended
  /\ \E form \in {"fields", "dropped", "raw"} :
       reply' = form /\ messages' = Append(messages, ReplyMessage(form))
  /\ UNCHANGED <<vars, session, prompts>>

\* The client hung up: the scanner goes, the conversation goes on without it.
HangUp ==
  /\ Answer
  /\ reply' = "lost"
  /\ fed' = 0 /\ buffer' = <<>> /\ mode' = FirstMode /\ out' = <<>>
  /\ ended' = FALSE /\ failed' = FALSE
  /\ UNCHANGED <<text, primed, session, messages, prompts>>

ClientAdds ==
  /\ reply \notin {"none", "awaited"}
  /\ Len(messages) = prompts[1].count + (IF reply = "lost" THEN 0 ELSE 1)
  /\ \E batch \in Added : messages' = messages \o batch
  /\ UNCHANGED <<vars, session, prompts, reply>>

ConversationNext ==
  Request \/ FeedAnswer \/ FinishAnswer \/ KeepAnswer \/ HangUp \/ ClientAdds

ConversationSpec == ConversationInit /\ [][ConversationNext]_<<vars, conversation>>

-----------------------------------------------------------------------------
UpToBoundary(p) == SubSeq(p.text, 1, p.boundary)

\* Tools that answered after the client had hung up join the turn the first
\* prompt closed: the one way for a prompt to be cut elsewhere.
Rejoined(p) ==
  /\ Len(messages) > p.count
  /\ messages[p.count].role = "tool" /\ messages[p.count + 1].role = "tool"

\* render.rs, render_with_boundary: whatever was generated in between, and in
\* whichever form the client returns it, the next prompt reproduces this one up
\* to its boundary, so the snapshot taken there stays matchable.
BoundaryRerenders ==
  \A j, k \in DOMAIN prompts :
    j < k /\ ~Rejoined(prompts[j]) => IsPrefix(UpToBoundary(prompts[j]), prompts[k].text)

\* Where a turn opens or closes, and whether one is open in front of n.
Marks(s) == {n \in DOMAIN s : s[n] \in {"<|im_start|>", "<|im_end|>"}}
OpenBefore(s, n) ==
  \E m \in Marks(s) : /\ m < n /\ s[m] = "<|im_start|>"
                      /\ \A k \in Marks(s) : k <= m \/ n <= k

\* render.rs, render_tool_turn: turns open and close in turn, however tool
\* messages run together, and the boundary is right behind a closing; but a
\* tool message at the very start never opens the turn it closes.
TurnsBalanced ==
  messages[1].role # "tool" =>
  \A k \in DOMAIN prompts :
    LET cut == UpToBoundary(prompts[k])
    IN  /\ cut[Len(cut)] = "<|im_end|>"
        /\ \A n \in Marks(cut) : cut[n] = "<|im_end|>" <=> OpenBefore(cut, n)

\* Output in the shape the prompt asks for: one block of reasoning where it
\* is on, the answer, then the calls.
Shaped ==
  LET rest == IF primed /\ Has(CloseThink, text) THEN After(CloseThink, text) ELSE text
  IN  /\ ~Has(OpenThink, text) /\ ~Has(CloseThink, rest)
      /\ primed => Has(CloseThink, text)
      /\ Parsed(text) # Malformed
      /\ Parsed(text).content = IF Has(OpenTool, rest) THEN Before(OpenTool, rest) ELSE rest

\* An answer laid out as the template lays it out: no white space around content
\* and reasoning, and in each call nothing before the function tag, no white space
\* around the rest, JSON as tojson spells it.
AsTemplateWrites ==
  /\ trim(Accumulated.content) = Accumulated.content
  /\ trim(Accumulated.thinking) = Accumulated.thinking
  /\ \A k \in 1..Len(Accumulated.calls) : Accumulated.calls[k] = <<"f">> \o tool_calls[k]

\* forward/rewind.rs, RewindSlot::EndOfTurn: when an answer of the shape asked for
\* comes back as it was told, and its reasoning is kept or there was none, the next
\* prompt matches the point saved behind it if the model had laid it out as the
\* template does, and never otherwise: the "byte-for-byte" of rewind.rs:11-13 is
\* not so for {"a":1}, which is rendered again as {"a": 1}.
EndOfTurnRerenders ==
  Len(prompts) = 2 /\ reply = "awaited" /\ Shaped
    /\ Len(messages) > prompts[1].count
    /\ messages[prompts[1].count + 1] = ReplyMessage("fields")
    /\ (session.keep \/ Accumulated.thinking = <<>>)
  => (IsPrefix(prompts[1].text \o text \o <<"<|im_end|>">>, prompts[2].text)
        <=> AsTemplateWrites)
=============================================================================
