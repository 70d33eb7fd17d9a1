---------------------------- MODULE MCConversation ----------------------------
(* Instance of Conversation: texts of up to MaxPieces pieces, each a whole  *)
(* tag, a broken one or plain text, after one question; shorter texts after *)
(* longer histories; and answers in the shape the prompt asks for, as the   *)
(* template would write them and otherwise.                                 *)
EXTENDS Conversation

CONSTANT MaxPieces

Pieces == {OpenThink, CloseThink, OpenTool, CloseTool,
           <<"<">>, <<"<", "/", "t">>, <<"f">>, <<"x">>}

TextsOf(n) == {FlattenSeq(s) : s \in BoundedSeq(Pieces, n)}

\* Reasoning, content and calls, with white space, a block before its function tag
\* and JSON of either spelling.
Thoughts == {<<>>, CloseThink, <<"x">> \o CloseThink, <<"x", " ">> \o CloseThink}
Contents == {<<>>, <<"x">>, <<" ", "x">>}
Blocks   == {<<"f", "J">>, <<"f", "j">>, <<"x", "f">>, <<"f", " ">>}
Calling  == {<<>>, <<<<"f", "J">>, <<"f">>>>} \union {<<b>> : b \in Blocks}
Answers ==
  {t \o c \o FlattenSeq([k \in DOMAIN b |-> OpenTool \o b[k] \o CloseTool]) :
     t \in Thoughts, c \in Contents, b \in Calling}

LongTexts == TextsOf(MaxPieces)
MCTexts == LongTexts \union Answers

Q == Message("user", <<"x">>)
S == Message("system", <<"x", " ">>)
T == Message("tool", <<"f">>)
Fields == Assistant(<<"x">>, <<"t">>, <<<<>>, <<"x", "J">>>>)
Raw == Assistant(<<" ">> \o OpenThink \o <<"t">> \o CloseThink \o <<"x">>, Absent, <<>>)
Disguised == Message("user", <<" ", "<tool_response>", "x", "</tool_response>">>)

Histories ==
  {<<Q>>, <<S, Q>>, <<Q, Fields, T, T>>, <<Q, Fields, T, Fields, T>>,
   <<S, Q, Raw, Q>>, <<Disguised>>, <<T, Q>>}
MCSessions ==
  [messages : {<<Q>>}, keep : {FALSE}, tools : {FALSE}, answers : {LongTexts}]
  \union
  [messages : {<<Q>>}, keep : {TRUE}, tools : {FALSE}, answers : {Answers}]
  \union
  [messages : Histories, keep : BOOLEAN, tools : BOOLEAN, answers : {TextsOf(MaxPieces - 2)}]
MCAdded == {<<Q>>, <<T>>, <<T, Q>>}
=============================================================================
