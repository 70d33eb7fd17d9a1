-------------------------------- MODULE Serve --------------------------------
(***************************************************************************)
(* rocml-serve: request handlers, the one worker thread that owns the      *)
(* model, and the task that drains each job's events into an SSE stream or *)
(* one JSON reply (rocml-serve/src/{routes,worker,sse}.rs).  Handlers and  *)
(* drains run concurrently with the worker and each other; a job queue and *)
(* one event channel per job are all they share.                           *)
(*                                                                         *)
(* Abstractions.  A turn is its tokens: what run_turn does to the caches   *)
(* is SnapshotTurn.  A token's text is its number.  What the scanner does  *)
(* with text is StreamScanner; here it holds back any end of it.  The      *)
(* finish reason is left out, but for the end of a stream being one chunk. *)
(***************************************************************************)
EXTENDS Naturals, Sequences, SequencesExt

CONSTANTS
  MaxRequests,  \* bound: as many requests are made
  Shapes,       \* what a request may be: [prompt, max, stream, usage]
  Ctx,          \* --ctx
  MaxFaults     \* bound: failing turns and panics

ASSUME ServeAssumption ==
  /\ Ctx \in Nat \ {0} /\ MaxRequests \in Nat /\ MaxFaults \in Nat
  /\ Shapes \subseteq [prompt : Nat \ {0}, max : Nat, stream : BOOLEAN, usage : BOOLEAN]

VARIABLES
  shape,        \* of each request made
  connected,    \* the client is still there
  jobs,         \* the job channel, oldest first
  worker,       \* the worker loop and the turn it runs
  chan,         \* of each request: events, and whether either end is held
  drain,        \* of each request: collect_response or pump_stream
  log,          \* history: the text each job generated, and how it ended
  faults

vars == <<shape, connected, jobs, worker, chan, drain, log, faults>>

\* Requests are numbered as they come.
Requests == 1..MaxRequests

NoShape == [prompt |-> 0]
Idle    == [at |-> "idle"]
Dead    == [at |-> "dead"]
Made(r) == shape[r] # NoShape
New(r)  == ~Made(r) /\ \A q \in 1..(r - 1) : Made(q)
Running == worker.at \in {"prefill", "decode", "report"}

Chunk(t) == [kind |-> "Chunk", text |-> t]
Done     == [kind |-> "Done"]
Error    == [kind |-> "Error"]

Init ==
  /\ shape = [r \in Requests |-> NoShape]
  /\ connected = [r \in Requests |-> TRUE]
  /\ jobs = <<>> /\ worker = Idle
  /\ chan = [r \in Requests |-> [events |-> <<>>, tx |-> FALSE, rx |-> FALSE]]
  /\ drain = [r \in Requests |-> [at |-> "none", held |-> <<>>, told |-> <<>>,
                                  sse |-> <<>>, status |-> 0]]
  /\ log = [r \in Requests |-> [text |-> <<>>, outcome |-> "none"]]
  /\ faults = 0

-----------------------------------------------------------------------------
(***************************************************************************)
(* handle_request.                                                         *)
(***************************************************************************)
AtLeastOne(n) == IF n = 0 THEN 1 ELSE n
Smaller(a, b) == IF a < b THEN a ELSE b

\* The clamp: what fits, but one token in any case.
MaxNewTokens(s) == AtLeastOne(Smaller(AtLeastOne(s.max), Ctx - s.prompt))

\* A prompt that cannot fit is answered at once.
Reject(r) ==
  /\ New(r)
  /\ \E s \in {t \in Shapes : t.prompt > Ctx} : shape' = [shape EXCEPT ![r] = s]
  /\ drain' = [drain EXCEPT ![r].at = "closed", ![r].status = 400]
  /\ UNCHANGED <<connected, jobs, worker, chan, log, faults>>

\* The job is sent, and its events drained from then on.  A stream begins
\* with the assistant's role.
Accept(r) ==
  /\ New(r) /\ worker # Dead
  /\ \E s \in {t \in Shapes : t.prompt <= Ctx} :
       /\ shape' = [shape EXCEPT ![r] = s]
       /\ drain' = [drain EXCEPT ![r].at = "open",
                                 ![r].sse = IF s.stream THEN <<"role">> ELSE <<>>]
  /\ jobs' = Append(jobs, r)
  /\ chan' = [chan EXCEPT ![r] = [events |-> <<>>, tx |-> TRUE, rx |-> TRUE]]
  /\ log' = [log EXCEPT ![r].outcome = "waiting"]
  /\ UNCHANGED <<connected, worker, faults>>

\* job_tx.send fails: there is nobody to receive it.
NotRunning(r) ==
  /\ New(r) /\ worker = Dead
  /\ \E s \in {t \in Shapes : t.prompt <= Ctx} : shape' = [shape EXCEPT ![r] = s]
  /\ drain' = [drain EXCEPT ![r].at = "closed", ![r].status = 500]
  /\ log' = [log EXCEPT ![r].outcome = "lost"]
  /\ UNCHANGED <<connected, jobs, worker, chan, faults>>

\* The client goes away.  A handler waiting for the whole reply is dropped
\* with its receiver; a pump goes on, its sends ignored.
Disconnect(r) ==
  /\ drain[r].at = "open" /\ connected[r]
  /\ connected' = [connected EXCEPT ![r] = FALSE]
  /\ IF shape[r].stream THEN UNCHANGED <<chan, drain>>
     ELSE /\ drain' = [drain EXCEPT ![r].at = "closed"]
          /\ chan' = [chan EXCEPT ![r].rx = FALSE, ![r].events = <<>>]
  /\ UNCHANGED <<shape, jobs, worker, log, faults>>

-----------------------------------------------------------------------------
(***************************************************************************)
(* worker_loop and run_job.  A send nobody receives is ignored.            *)
(***************************************************************************)
Sent(c, e) == IF c.rx THEN [c EXCEPT !.events = Append(@, e)] ELSE c

\* Mutant of NextJob: the newest job first.
NewestJob == Last(jobs)
NextJob == Head(jobs)

Take ==
  /\ worker = Idle /\ jobs # <<>>
  /\ worker' = [at |-> "prefill", job |-> NextJob, gen |-> 0, pending |-> <<>>]
  /\ jobs' = RemoveFirst(jobs, NextJob)
  /\ UNCHANGED <<shape, connected, chan, drain, log, faults>>

Prefill ==
  /\ worker.at = "prefill"
  /\ worker' = [worker EXCEPT !.at = "decode"]
  /\ UNCHANGED <<shape, connected, jobs, chan, drain, log, faults>>

Position == shape[worker.job].prompt + worker.gen

\* Mutant of Refused: the bound is checked before the position moves.
RefusedLate == Position > Ctx

\* ContextOverflow: one more token than the cache has rows for.
Refused == Position + 1 > Ctx

\* The events of text t, pushed to the client of the running job.
Push(t) ==
  /\ chan' = [chan EXCEPT ![worker.job] = IF t = <<>> THEN @ ELSE Sent(@, Chunk(t))]
  /\ log' = [log EXCEPT ![worker.job].text = @ \o t]

\* The answer to the running job, after which the job, and its sender, are
\* dropped.
Ended(o) == log' = [log EXCEPT ![worker.job].outcome = o]

Report(e, o) ==
  /\ chan' = [chan EXCEPT ![worker.job] = [Sent(@, e) EXCEPT !.tx = FALSE]]
  /\ Ended(o)
  /\ worker' = Idle

\* One sampled token.  Its text is pushed with what was pending, unless it
\* ends inside a character; then the token goes through the model, unless
\* its text was a stop string.  The model refuses one past the context.
Sample ==
  /\ worker.at = "decode" /\ worker.gen < MaxNewTokens(shape[worker.job])
  /\ \E pushed \in BOOLEAN, stop \in BOOLEAN :
       LET t == Append(worker.pending, worker.gen + 1) IN
       /\ stop => pushed
       /\ Push(IF pushed THEN t ELSE <<>>)
       /\ worker' = [worker EXCEPT !.gen = @ + 1,
                                   !.pending = IF pushed THEN <<>> ELSE t,
                                   !.at = IF stop THEN "report"
                                          ELSE IF Refused THEN "overflow"
                                          ELSE "decode"]
  /\ UNCHANGED <<shape, connected, jobs, drain, faults>>

\* The end-of-sequence token, or as many tokens as were asked for.  What is
\* still pending is no whole character, and is dropped.
EndOfTurn ==
  /\ worker.at = "decode"
  /\ worker' = [worker EXCEPT !.at = "report", !.pending = <<>>]
  /\ UNCHANGED <<shape, connected, jobs, chan, drain, log, faults>>

ReportDone ==
  /\ worker.at = "report"
  /\ Report(Done, "done")
  /\ UNCHANGED <<shape, connected, jobs, drain, faults>>

ReportOverflow ==
  /\ worker.at = "overflow"
  /\ Report(Error, "error")
  /\ UNCHANGED <<shape, connected, jobs, drain, faults>>

\* A turn that returns an error, or panics: both are told to the client.
Fails ==
  /\ Running /\ faults < MaxFaults
  /\ faults' = faults + 1
  /\ Report(Error, "error")
  /\ UNCHANGED <<shape, connected, jobs, drain>>

\* Mutant of Dropped: the jobs in the channel outlive their receiver.
DroppedOne == {worker.job}

\* A panic outside catch_unwind takes the thread with it, the receiver of
\* the job channel, and the jobs in it.
Dropped == {worker.job} \cup ToSet(jobs)

Dies ==
  /\ Running /\ faults < MaxFaults
  /\ faults' = faults + 1
  /\ chan' = [r \in Requests |-> IF r \in Dropped THEN [chan[r] EXCEPT !.tx = FALSE]
                                 ELSE chan[r]]
  /\ log' = [r \in Requests |-> IF r \in Dropped THEN [log[r] EXCEPT !.outcome = "lost"]
                                ELSE log[r]]
  /\ worker' = Dead /\ jobs' = <<>>
  /\ UNCHANGED <<shape, connected, drain>>

WorkerStep ==
  Take \/ Prefill \/ Sample \/ EndOfTurn \/ ReportDone \/ ReportOverflow

-----------------------------------------------------------------------------
(***************************************************************************)
(* collect_response and pump_stream.                                       *)
(***************************************************************************)
Told(r, d, t) ==
  [d EXCEPT !.told = @ \o t,
            !.sse = IF shape[r].stream /\ connected[r] /\ t # <<>>
                    THEN Append(@, "delta") ELSE @]

\* Mutant of Closing: a stream that failed just stops.
ClosingIfDone(r, ok) == IF ok THEN <<"finish", "DONE">> ELSE <<>>

Closing(r, ok) ==
  <<"finish">> \o (IF shape[r].usage THEN <<"usage">> ELSE <<>>) \o <<"DONE">>

Closed(r, d, ok) ==
  [d EXCEPT !.at = "closed", !.held = <<>>,
            !.sse = IF shape[r].stream /\ connected[r] THEN @ \o Closing(r, ok) ELSE @,
            !.status = IF ok \/ shape[r].stream THEN 200 ELSE 500]

\* Some text: the scanner tells it up to some point, and holds the rest.
ReceiveChunk(r, e) ==
  LET text == drain[r].held \o e.text IN
  \E n \in 0..Len(text) :
    drain' = [drain EXCEPT ![r] = [Told(r, @, SubSeq(text, 1, n))
                                   EXCEPT !.held = SubSeq(text, n + 1, Len(text))]]

\* Mutant of AtEnd: finish is not called.
AtEndNothing(r) == <<>>

\* The scanner's finish tells what it held.
AtEnd(r) == drain[r].held

Receive(r) ==
  /\ drain[r].at = "open" /\ chan[r].events # <<>>
  /\ LET e == Head(chan[r].events) IN
       CASE e.kind = "Chunk" -> ReceiveChunk(r, e)
         [] e.kind = "Done"  -> drain' = [drain EXCEPT ![r] = Closed(r, Told(r, @, AtEnd(r)), TRUE)]
         [] e.kind = "Error" -> drain' = [drain EXCEPT ![r] = Closed(r, @, FALSE)]
  /\ chan' = [chan EXCEPT ![r].events = Tail(@)]
  /\ UNCHANGED <<shape, connected, jobs, worker, log, faults>>

\* Every sender is gone, and no answer came.
ReceiveNone(r) ==
  /\ drain[r].at = "open" /\ chan[r].events = <<>> /\ ~chan[r].tx
  /\ drain' = [drain EXCEPT ![r] = Closed(r, @, FALSE)]
  /\ UNCHANGED <<shape, connected, jobs, worker, chan, log, faults>>

DrainStep(r) == Receive(r) \/ ReceiveNone(r)

Next ==
  \/ \E r \in Requests : Reject(r) \/ Accept(r) \/ NotRunning(r) \/ Disconnect(r)
  \/ WorkerStep \/ Fails \/ Dies
  \/ \E r \in Requests : DrainStep(r)

\* The worker thread and every task get their turn, and a call to the model
\* returns.
Spec ==
  /\ Init /\ [][Next]_vars
  /\ WF_vars(WorkerStep) /\ \A r \in Requests : WF_vars(DrainStep(r))

-----------------------------------------------------------------------------
(* Properties *)

\* routes.rs, handle_request: whatever the clamp makes of max_tokens, a turn
\* generates no more than was asked for, and never has the model hold more
\* than the context, though a prompt that fills it is accepted.
ContextHolds ==
  Running =>
    /\ worker.gen <= MaxNewTokens(shape[worker.job])
    /\ worker.at \in {"prefill", "decode"} => Position <= Ctx

(***************************************************************************)
(* sse.rs, pump_stream ("never leaving the connection hanging even if      *)
(* generation errors out mid-stream"): a stream that has ended is a role,  *)
(* deltas, one finish, the usage if it was asked for, and [DONE] last,     *)
(* whichever way the turn ended; one that has not has none of the end.     *)
(***************************************************************************)
StreamShape ==
  \A r \in Requests :
    LET s == drain[r].sse
        end == IF shape[r].usage THEN <<"finish", "usage", "DONE">> ELSE <<"finish", "DONE">>
        deltas(t) == t # <<>> /\ t[1] = "role" /\ \A i \in 2..Len(t) : t[i] = "delta"
    IN  Made(r) /\ shape[r].stream /\ connected[r] /\ drain[r].status # 400 =>
          CASE drain[r].at = "open"   -> deltas(s)
            [] drain[r].at = "closed" ->
                 \/ drain[r].status = 500 /\ s = <<>>
                 \/ IsSuffix(end, s) /\ deltas(SubSeq(s, 1, Len(s) - Len(end)))

(***************************************************************************)
(* What a client has been told, what its scanner holds and what is on the  *)
(* way are at any time the text its own job has generated, in order; and a *)
(* turn that was done has been told whole.                                 *)
(***************************************************************************)
OnTheWay(r) == FlattenSeq([i \in 1..Len(chan[r].events) |->
                 IF chan[r].events[i].kind = "Chunk" THEN chan[r].events[i].text ELSE <<>>])

ToldInOrder ==
  \A r \in Requests :
    /\ drain[r].at = "open" => drain[r].told \o drain[r].held \o OnTheWay(r) = log[r].text
    /\ drain[r].at = "closed" /\ drain[r].status = 200 /\ log[r].outcome = "done" =>
         drain[r].told = log[r].text

\* worker.rs: to its clients the worker is a job queue: strictly in order,
\* one answer for each job, whoever goes away and whatever fails.
Queue == INSTANCE JobQueue WITH
  waiting <- (IF worker.at \in {"idle", "dead"} THEN <<>> ELSE <<worker.job>>) \o jobs,
  outcome <- [r \in Requests |-> log[r].outcome],
  alive   <- worker # Dead

WorkerIsAQueue == Queue!Spec

\* routes.rs, sse.rs: every request made is answered while its client is
\* there: no panic, failure, death of the worker or other client leaves one
\* waiting.
EveryRequestAnswered ==
  \A r \in Requests : Made(r) ~> drain[r].at = "closed"
=============================================================================
