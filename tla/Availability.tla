----------------------------- MODULE Availability -----------------------------
(***************************************************************************)
(* What a FedBOX server promises the clients of its HTTP interface while   *)
(* it starts, is paused, resumes, stops or dies.                           *)
(*                                                                         *)
(* The server is in one mode at a time and every request is answered for a *)
(* reason: a mode the server was in at some moment of the request's life.  *)
(* How the modes come about (two atomic flags, a storage that is closed    *)
(* and opened a step earlier or later, a signal handler) is left to        *)
(* Server.tla, which implements this module.                               *)
(***************************************************************************)
CONSTANTS
  Requests,
  SharedStorage    \* can the storage be opened by others than the server?

VARIABLES
  mode,     \* "down", "up", "degraded", "maintenance" or "stopping"
  state,    \* of each request: "idle", "open", "answered" or "dropped"
  answer,   \* "none", "served", "failed", "outOfOrder" or "shuttingDown"
  seen      \* the modes of the server since the request arrived

vars == <<mode, state, answer, seen>>

\* The changes of mode other than the end of the process.  A server leaves
\* maintenance, and enters the shutdown, through "degraded", in which it admits
\* requests that find its storage closed, unless somebody else has opened the
\* storage.
Changes ==
  { <<"down", "up">>, <<"down", "degraded">>,
    <<"up", "maintenance">>, <<"degraded", "maintenance">>,
    <<"up", "degraded">>, <<"degraded", "up">>, <<"maintenance", "degraded">>,
    <<"degraded", "stopping">>, <<"maintenance", "stopping">> }
  \cup IF SharedStorage THEN {<<"maintenance", "up">>, <<"up", "stopping">>} ELSE {}

\* The answers that the modes of a request's time justify.  It is served, or
\* fails, only if the server was letting requests through at some moment, and
\* a request that finds the server up all the time does not fail.
Justified(modes) ==
  {a \in {"served", "failed", "outOfOrder", "shuttingDown"} :
     /\ a \in {"served", "failed"} => modes \cap {"up", "degraded"} # {}
     /\ a = "failed" => modes # {"up"}
     /\ a = "outOfOrder" => "maintenance" \in modes
     /\ a = "shuttingDown" => "stopping" \in modes}

Init ==
  /\ mode = "down"
  /\ state = [r \in Requests |-> "idle"]
  /\ answer = [r \in Requests |-> "none"]
  /\ seen = [r \in Requests |-> {}]

Change ==
  /\ <<mode, mode'>> \in Changes
  /\ seen' = [r \in Requests |-> IF state[r] = "open" THEN seen[r] \cup {mode'} ELSE seen[r]]
  /\ UNCHANGED <<state, answer>>

End ==
  /\ mode' = "down"
  /\ state' = [r \in Requests |-> IF state[r] = "open" THEN "dropped" ELSE state[r]]
  /\ UNCHANGED <<answer, seen>>

Arrive(r) ==
  /\ mode # "down"
  /\ state[r] # "open"
  /\ state' = [state EXCEPT ![r] = "open"]
  /\ answer' = [answer EXCEPT ![r] = "none"]
  /\ seen' = [seen EXCEPT ![r] = {mode}]
  /\ UNCHANGED mode

Answer(r) ==
  /\ state[r] = "open"
  /\ \E a \in Justified(seen[r]) : answer' = [answer EXCEPT ![r] = a]
  /\ state' = [state EXCEPT ![r] = "answered"]
  /\ UNCHANGED <<mode, seen>>

Next ==
  \/ Change
  \/ End
  \/ \E r \in Requests : Arrive(r) \/ Answer(r)

Spec == Init /\ [][Next]_vars

=============================================================================
