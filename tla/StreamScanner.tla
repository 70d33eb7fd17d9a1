---------------------------- MODULE StreamScanner ----------------------------
(***************************************************************************)
(* The scanner that turns decoded output into events while it arrives      *)
(* (rocml/src/chat/scanner.rs), fed by pump_stream and collect_response.   *)
(* What the model generates is one text; how it is cut into chunks is not  *)
(* known.  The parser of whole texts (rocml/src/chat/parser.rs) is here    *)
(* too, as what the scanner has to agree with.                             *)
(*                                                                         *)
(* Abstractions.  A character stands for every one that tells the tags     *)
(* apart, so the tags keep their common prefixes; " " is white space (new  *)
(* lines) that the chat template would not write there, and "j" and "J"    *)
(* are one JSON argument, as a model may spell it and as tojson does.  A   *)
(* delta is the sequence of its characters: clients append deltas.  A tool *)
(* call block parses when it holds the function character "f"; the event   *)
(* carries the block, and what it parses to is taken where a message is    *)
(* made of it (Conversation, parse_one_tool_call_block).                   *)
(***************************************************************************)
EXTENDS Naturals, Sequences, SequencesExt, FiniteSets

CONSTANTS
  Texts         \* what the model may generate, sequences of Characters

OpenThink  == <<"<", "t", "h">>
CloseThink == <<"<", "/", "t", "h">>
OpenTool   == <<"<", "t", "o">>
CloseTool  == <<"<", "/", "t", "o">>

Characters == {"<", "/", "t", "h", "o", "f", "x", " ", "j", "J"}

ASSUME TextsAssumption == Texts \subseteq Seq(Characters)

VARIABLES
  text,     \* what the model generates
  primed,   \* the prompt ends in an open <think>
  fed,      \* how much of it has been fed
  mode, buffer,   \* StreamScanner
  out,      \* the events so far
  ended,    \* finish was called
  failed    \* some feed returned an error

vars == <<text, primed, fed, mode, buffer, out, ended, failed>>

-----------------------------------------------------------------------------
\* str::find, and drain up to it and past it.
Occurs(tag, s, i) == i + Len(tag) - 1 <= Len(s) /\ SubSeq(s, i, i + Len(tag) - 1) = tag
Has(tag, s)    == \E i \in 1..Len(s) : Occurs(tag, s, i)
Find(tag, s)   == CHOOSE i \in 1..Len(s) :
                    Occurs(tag, s, i) /\ \A j \in 1..(i - 1) : ~Occurs(tag, s, j)
Before(tag, s) == SubSeq(s, 1, Find(tag, s) - 1)
After(tag, s)  == SubSeq(s, Find(tag, s) + Len(tag), Len(s))

\* str::trim.
Solid(s) == {i \in DOMAIN s : s[i] # " "}
trim(s) == IF Solid(s) = {} THEN <<>> ELSE SubSeq(s, Min(Solid(s)), Max(Solid(s)))

Parses(block) == Contains(block, "f")

\* Mutant of TagsOf: tool calls are looked for inside thinking as well.
TagsInThinking(m) == CASE m = "Text"     -> {OpenThink, OpenTool}
                       [] m = "Thinking" -> {CloseThink, OpenTool}
                       [] m = "ToolCall" -> {CloseTool}

\* The tags a mode looks for, and the mode each leads to.
TagsOf(m) == CASE m = "Text"     -> {OpenThink, OpenTool}
               [] m = "Thinking" -> {CloseThink}
               [] m = "ToolCall" -> {CloseTool}
ModeAfter(tag) == CASE tag = OpenThink -> "Thinking"
                    [] tag = OpenTool  -> "ToolCall"
                    [] OTHER           -> "Text"

Delta(m, s) == [k \in 1..Len(s) |-> <<m, s[k]>>]
Started == <<"Started">>
Call(block) == <<"Call", block>>
Opened(tag) == IF tag = OpenTool THEN <<Started>> ELSE <<>>

Earliest(tags, s) ==
  CHOOSE t \in tags : Has(t, s) /\ \A u \in tags : Has(u, s) => Find(t, s) <= Find(u, s)

\* Mutant of SafeFlushLen: nothing is held back.
FlushAll(s, tags) == Len(s)

\* All but the longest suffix that a tag could still grow from.
SafeFlushLen(s, tags) ==
  CHOOSE n \in 0..Len(s) :
    /\ n = Len(s) \/ \E t \in tags : IsStrictPrefix(SubSeq(s, n + 1, Len(s)), t)
    /\ \A k \in 0..(n - 1) : ~\E t \in tags : IsStrictPrefix(SubSeq(s, k + 1, Len(s)), t)

(***************************************************************************)
(* One turn of the loop of feed, on [buffer, mode, events, status].        *)
(***************************************************************************)
CloseCall(s) ==
  LET block == Before(CloseTool, s.buffer)
      rest  == After(CloseTool, s.buffer)
  IN  IF Parses(block)
      THEN [s EXCEPT !.buffer = rest, !.mode = "Text", !.events = Append(@, Call(block))]
      ELSE [s EXCEPT !.buffer = rest, !.status = "error"]

PassTag(s, tag) ==
  [s EXCEPT !.buffer = After(tag, s.buffer), !.mode = ModeAfter(tag),
            !.events = @ \o Delta(s.mode, Before(tag, s.buffer)) \o Opened(tag)]

Kept(b, n) == SubSeq(b, n + 1, Len(b))

Flush(s) ==
  LET n == IF s.mode = "ToolCall" THEN 0 ELSE SafeFlushLen(s.buffer, TagsOf(s.mode))
  IN  [s EXCEPT !.buffer = Kept(@, n), !.status = "break",
                !.events = @ \o Delta(s.mode, SubSeq(s.buffer, 1, n))]

Turn(s) ==
  IF s.status # "loop" THEN s
  ELSE IF \A t \in TagsOf(s.mode) : ~Has(t, s.buffer) THEN Flush(s)
  ELSE IF s.mode = "ToolCall" THEN CloseCall(s)
  ELSE PassTag(s, Earliest(TagsOf(s.mode), s.buffer))

\* Every turn but the last takes a tag out of the buffer.
Fed(b, m) ==
  LET turn[n \in 0..(Len(b) + 1)] ==
        IF n = 0 THEN [buffer |-> b, mode |-> m, events |-> <<>>, status |-> "loop"]
        ELSE Turn(turn[n - 1])
  IN  turn[Len(b) + 1]

-----------------------------------------------------------------------------
\* new_scanner: StreamScanner::new or new_primed_for_thinking.
Init ==
  /\ text \in Texts /\ primed \in BOOLEAN
  /\ fed = 0 /\ buffer = <<>> /\ out = <<>>
  /\ mode = IF primed THEN "Thinking" ELSE "Text"
  /\ ended = FALSE /\ failed = FALSE

\* feed, with the next chunk.  Its callers go on when it fails, without the
\* events it had found; the scanner is left past the block, in ToolCall mode.
Feed ==
  \E n \in (fed + 1)..Len(text) :
    LET r == Fed(buffer \o SubSeq(text, fed + 1, n), mode) IN
    /\ ~ended
    /\ fed' = n /\ buffer' = r.buffer /\ mode' = r.mode
    /\ out' = IF r.status = "error" THEN out ELSE out \o r.events
    /\ failed' = (failed \/ r.status = "error")
    /\ UNCHANGED <<text, primed, ended>>

LastEvents(m, b) == IF m = "ToolCall" THEN <<>> ELSE Delta(m, b)

\* finish, called when generation is done.
Finish ==
  /\ fed = Len(text) /\ ~ended
  /\ out' = out \o LastEvents(mode, buffer)
  /\ buffer' = <<>> /\ ended' = TRUE
  /\ UNCHANGED <<text, primed, fed, mode, failed>>

Next == Feed \/ Finish

Spec == Init /\ [][Next]_vars

-----------------------------------------------------------------------------
(* Properties *)

(***************************************************************************)
(* The events of a text read from left to right in one piece, with nothing *)
(* held back, in the mode m it starts in.                                  *)
(***************************************************************************)
Modes == {"Text", "Thinking", "ToolCall"}

Reading[s \in Seq(Characters)] ==
  [m \in Modes |->
     LET here == {t \in TagsOf(m) : Occurs(t, s, 1)}
     IN  IF s = <<>> \/ (m = "ToolCall" /\ ~Has(CloseTool, s)) THEN <<>>
         ELSE IF m = "ToolCall" THEN
           <<Call(Before(CloseTool, s))>> \o Reading[After(CloseTool, s)]["Text"]
         ELSE IF here = {} THEN <<<<m, s[1]>>>> \o Reading[Kept(s, 1)][m]
         ELSE LET t == CHOOSE t \in here : TRUE
              IN  Opened(t) \o Reading[Kept(s, Len(t))][ModeAfter(t)]]

Events(s, m) == Reading[s][m]
FirstMode == IF primed THEN "Thinking" ELSE "Text"

\* scanner.rs, feed, finish and safe_flush_len: whichever way a text was cut
\* into chunks, inside a tag too, the events so far and those finish would add
\* are at every moment the events of reading, in one piece, all that was fed;
\* and what is held back is a tool call under way or can still become a tag.
ChunksDontMatter ==
  ~failed =>
    /\ out \o LastEvents(mode, buffer) = Events(SubSeq(text, 1, fed), FirstMode)
    /\ mode = "ToolCall" \/ buffer = <<>> \/ \E t \in TagsOf(mode) : IsStrictPrefix(buffer, t)

(***************************************************************************)
(* parse_assistant_output.                                                 *)
(***************************************************************************)
Malformed == [content |-> <<"!">>, thinking |-> <<>>, calls |-> <<>>]

\* extract_tool_calls.
Calls(s) ==
  LET from[r \in {SubSeq(s, i, Len(s)) : i \in 1..(Len(s) + 1)}] ==
        IF ~Has(OpenTool, r) THEN [Malformed EXCEPT !.content = r]
        ELSE LET inner == After(OpenTool, r)
                 block == Before(CloseTool, inner)
             IN  IF ~Has(CloseTool, inner) \/ ~Parses(block) THEN Malformed
                 ELSE LET more == from[After(CloseTool, inner)]
                      IN  IF more = Malformed THEN Malformed
                          ELSE [more EXCEPT !.content = Before(OpenTool, r) \o @,
                                            !.calls = <<block>> \o @]
  IN  from[s]

\* extract_thinking, for a text with no open tag, and extract_tool_calls of the rest.
Parsed(s) ==
  IF ~Has(CloseThink, s) THEN Calls(s)
  ELSE LET r == Calls(After(CloseThink, s))
       IN  IF r = Malformed THEN r
           ELSE [r EXCEPT !.thinking = Before(CloseThink, s)]

Trimmed(output) == [output EXCEPT !.content = trim(@), !.thinking = trim(@)]
parse_assistant_output(s) == Trimmed(Parsed(s))

\* AssistantAccumulator::apply, event by event.
Folded(kind) ==
  LET upto[n \in 0..Len(out)] ==
        IF n = 0 THEN <<>>
        ELSE IF out[n][1] = kind THEN Append(upto[n - 1], out[n][2]) ELSE upto[n - 1]
  IN  upto[Len(out)]

Accumulated ==
  [content |-> Folded("Text"), thinking |-> Folded("Thinking"), calls |-> Folded("Call")]

\* scanner.rs, new_primed_for_thinking: for output in the shape the prompt
\* asks for (reasoning, one close tag, then the answer; or no reasoning at
\* all) that the whole-text parser accepts, the stream adds up to what the
\* parser returns, but for white space the parser trims.
AgreesWithParser ==
  /\ ended /\ ~Has(OpenThink, text) /\ (primed <=> Has(CloseThink, text))
  /\ Parsed(text) # Malformed
  => Trimmed(Accumulated) = parse_assistant_output(text)
=============================================================================
