------------------------------- MODULE MCServe -------------------------------
\* Model-checking instance of Serve: a stream of two tokens with usage, a
\* reply of one token, a stream whose prompt fills the context, and a prompt
\* that does not fit.
EXTENDS Serve

MCShapes ==
  {[prompt |-> 1, max |-> 2, stream |-> TRUE,  usage |-> TRUE],
   [prompt |-> 1, max |-> 1, stream |-> FALSE, usage |-> FALSE],
   [prompt |-> 3, max |-> 2, stream |-> TRUE,  usage |-> FALSE],
   [prompt |-> 4, max |-> 1, stream |-> FALSE, usage |-> FALSE]}
=============================================================================
