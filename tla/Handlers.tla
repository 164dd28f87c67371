------------------------------- MODULE Handlers -------------------------------
(***************************************************************************)
(* HTTP requests and jobs as the server runs them: each handler goes from  *)
(* await to await, and at an await any other handler may go on.  op is     *)
(* what a request asks for; the modules that extend this one say which     *)
(* query a step name stands for.                                           *)
(***************************************************************************)
CONSTANTS
  Requests,
  Workloads   \* what the requests ask for: one function for each scenario

VARIABLES
  op,         \* [Requests -> operation]
  pc,         \* the query the request makes next
  overlap     \* history: the pairs of requests that ran at the same time

handlers == <<op, pc, overlap>>

HandlersInit ==
  /\ op \in Workloads
  /\ pc = [r \in Requests |-> "idle"]
  /\ overlap = {}

\* done and failed: an answer or an error; broken: a query failed, or the
\* process stopped.
Finished == {"done", "failed", "broken"}

Running(r) == pc[r] \notin Finished \cup {"idle"}

Goto(r, step) == pc' = [pc EXCEPT ![r] = step]

\* A request that starts meets those that run.
Meets(r) == overlap' = overlap \cup {{r, q} : q \in {p \in Requests : Running(p)}}

\* The first query of a request of this kind, with what it does next.
Starts(r, kind, step) ==
  /\ pc[r] = "idle" /\ op[r].kind = kind
  /\ Goto(r, step)
  /\ Meets(r)
  /\ UNCHANGED op

\* The next query of a request that is at one.
Steps(r, from, to) == pc[r] = from /\ Goto(r, to) /\ UNCHANGED <<op, overlap>>

\* The query a request is at fails.
Breaks(r) == Running(r) /\ Goto(r, "broken") /\ UNCHANGED <<op, overlap>>

\* The process stops: no request under way goes on.
BreakAll ==
  /\ pc' = [r \in Requests |-> IF Running(r) THEN "broken" ELSE pc[r]]
  /\ UNCHANGED <<op, overlap>>

Overlapped(r, q) == {r, q} \in overlap
=============================================================================
