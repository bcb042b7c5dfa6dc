---------------------------- MODULE RequestReply ----------------------------
(***************************************************************************)
(* What the bridge promises the application that makes a request, with     *)
(* the shared directory, the watcher and the handler threads hidden: a     *)
(* remote call that the target executes at most once, whose answer tells   *)
(* the truth about that execution, and which the caller may abandon.       *)
(***************************************************************************)
EXTENDS Naturals

CONSTANT Requests

VARIABLES
  call,      \* the caller's view of each request
  executed   \* how often the target has executed each request

vars == <<call, executed>>

\* "ok":       the target's own answer, whatever HTTP status it carries
\* "rejected": the bridge refused the request (status 400)
\* "failed":   the bridge could not complete the exchange (status 502)
Answers == {"ok", "rejected", "failed"}

TypeOK ==
  /\ call \in [Requests -> {"idle", "writing", "waiting", "abandoned"} \cup Answers]
  /\ executed \in [Requests -> Nat]

Init ==
  /\ call = [r \in Requests |-> "idle"]
  /\ executed = [r \in Requests |-> 0]

Prepare(r) ==
  /\ call[r] = "idle"
  /\ call' = [call EXCEPT ![r] = "writing"]
  /\ UNCHANGED executed

Submit(r) ==
  /\ call[r] = "writing"
  /\ call' = [call EXCEPT ![r] = "waiting"]
  /\ UNCHANGED executed

Abandon(r) ==
  /\ call[r] \in {"writing", "waiting"}
  /\ call' = [call EXCEPT ![r] = "abandoned"]
  /\ UNCHANGED executed

\* The target may still execute a request whose caller has stopped waiting,
\* but never one that was already answered, and never a second time.
Execute(r) ==
  /\ call[r] \in {"waiting", "abandoned"}
  /\ executed[r] = 0
  /\ executed' = [executed EXCEPT ![r] = 1]
  /\ UNCHANGED call

\* "ok" is only said of a request that was executed, "rejected" only of one
\* that was not; after "failed" the caller cannot tell.
Truthful(r, a) ==
  /\ a = "ok" => executed[r] = 1
  /\ a = "rejected" => executed[r] = 0

Answer(r, a) ==
  /\ call[r] = "waiting"
  /\ Truthful(r, a)
  /\ call' = [call EXCEPT ![r] = a]
  /\ UNCHANGED executed

Next ==
  \E r \in Requests :
    \/ Prepare(r)
    \/ Submit(r)
    \/ Abandon(r)
    \/ Execute(r)
    \/ \E a \in Answers : Answer(r, a)

Spec == Init /\ [][Next]_vars
=============================================================================
