--------------------------- MODULE HttpRelay_proofs ---------------------------
(***************************************************************************)
(* Theorems about HttpRelay, for every set of requests, any number of      *)
(* threads and every watcher, however reads and writes of files fail.      *)
(* Those that rest on SafetyInv assume one server process, that a mount    *)
(* that refuses unlink is not combined with server restarts and that the   *)
(* polling watcher can list the directory (SingleServer,                   *)
(* RestartsCanUnlink, ListingsSucceed).                                    *)
(***************************************************************************)
EXTENDS HttpRelay, TLAPS

USE DEF Answers, CallStates, Modes, PCs, targetVars

\* A thread at work has a request and a server.
JobsInv == \A w \in Workers : Live(w) => job[w] \in Requests /\ owner[w] \in Servers

\* Every variable of the relay keeps its type, with any number of servers.
THEOREM Typing == Spec => []TypeOK
<1>. DEFINE Inv == TypeOK /\ JobsInv
<1>1. Init => Inv
  BY RelayAssumption DEF Init, TypeOK, JobsInv, Live
<1>2. Inv /\ [Next]_vars => JobsInv'
  <2> SUFFICES ASSUME TypeOK, JobsInv, [Next]_vars PROVE JobsInv'
    OBVIOUS
  <2> USE DEF JobsInv, Live
  <2>0. CASE UNCHANGED vars
    BY <2>0 DEF vars
  <2>1. ASSUME NEW r \in Requests,
               WriteTmp(r) \/ Publish(r) \/ Receive(r) \/ GiveUp(r) \/ Cleanup(r)
        PROVE  JobsInv'
    BY <2>1 DEF WriteTmp, Publish, Receive, GiveUp, Cleanup, threadVars
  <2>2. ASSUME NEW s \in Servers, Start(s) \/ StartWatching(s) \/ Poll(s) PROVE JobsInv'
    BY <2>2 DEF Start, StartWatching, Poll, threadVars
  <2>3. ASSUME NEW s \in Servers, Crash(s) PROVE JobsInv'
    BY <2>3 DEF TypeOK, Crash
  <2>4. ASSUME NEW s \in Servers, NEW r \in Requests, DropDuplicate(s, r) PROVE JobsInv'
    BY <2>4 DEF DropDuplicate, threadVars
  <2>5. ASSUME NEW s \in Servers, NEW w \in Workers, NEW r \in Requests,
               ServeListed(s, w, r) \/ DeliverEvent(s, w, r)
        PROVE  JobsInv'
    BY <2>5 DEF TypeOK, ServeListed, DeliverEvent, Spawn
  <2>6. ASSUME NEW w \in Workers, HandlerStep(w) PROVE JobsInv'
    BY <2>6 DEF TypeOK, HandlerStep, HandlerRead, HandlerUnlink, LeaveUnread, Reject, Forward,
       Refused, Broken, Conclude, Reply, ReplyFails, Finish
  <2> QED
    BY <2>0, <2>1, <2>2, <2>3, <2>4, <2>5, <2>6 DEF Next
<1>3. Inv /\ [Next]_vars => TypeOK'
  <2> SUFFICES ASSUME TypeOK, JobsInv, [Next]_vars PROVE TypeOK'
    OBVIOUS
  <2>0. CASE UNCHANGED vars
    BY <2>0 DEF TypeOK, vars
  <2>1. ASSUME NEW r \in Requests, WriteTmp(r) PROVE TypeOK'
    BY <2>1 DEF TypeOK, WriteTmp, serverVars, threadVars, historyVars
  <2>2. ASSUME NEW r \in Requests, Publish(r) PROVE TypeOK'
    BY <2>2 DEF TypeOK, Publish, EventsPerFile, threadVars
  <2>3. ASSUME NEW r \in Requests, Receive(r) PROVE TypeOK'
    BY <2>3 DEF TypeOK, Receive, serverVars, threadVars, historyVars
  <2>4. ASSUME NEW r \in Requests, GiveUp(r) PROVE TypeOK'
    BY <2>4 DEF TypeOK, GiveUp, fileVars, serverVars, threadVars, historyVars
  <2>5. ASSUME NEW r \in Requests, Cleanup(r) PROVE TypeOK'
    BY <2>5 DEF TypeOK, Cleanup, RemoveOld, Ready, serverVars, threadVars
  <2>6. ASSUME NEW s \in Servers, Start(s) PROVE TypeOK'
    <3>1. /\ reqFile' \in [Requests -> {"none", "tmp", "ready"}]
          /\ respFile' \in [Requests -> {"none"} \cup Answers]
          /\ lost' \in SUBSET Requests
      BY <2>6 DEF TypeOK, Start, RemoveOld, Ready
    <3>2. /\ mode' \in [Servers -> Modes]
          /\ todo' \in [Servers -> SUBSET Requests]
          /\ owed' \in SUBSET Requests
          /\ unread' \in SUBSET Requests
      BY <2>6 DEF TypeOK, Start, Ready
    <3> QED
      BY <2>6, <3>1, <3>2 DEF TypeOK, Start, threadVars
  <2>7. ASSUME NEW s \in Servers, StartWatching(s) PROVE TypeOK'
    BY <2>7 DEF TypeOK, StartWatching, Listings, Ready, fileVars, threadVars, historyVars
  <2>8. ASSUME NEW s \in Servers, Poll(s) PROVE TypeOK'
    <3>1. \A l \in Listings(s) : l \subseteq Requests
      BY DEF Listings, Ready
    <3>2. faults' \in 0..MaxFaults
      BY <2>8, RelayAssumption DEF TypeOK, Poll
    <3> QED
      BY <2>8, <3>1, <3>2 DEF TypeOK, Poll, fileVars, threadVars, historyVars
  <2>9. ASSUME NEW s \in Servers, Crash(s) PROVE TypeOK'
    BY <2>9, RelayAssumption DEF TypeOK, Crash, Holding, fileVars
  <2>10. ASSUME NEW s \in Servers, NEW r \in Requests, DropDuplicate(s, r) PROVE TypeOK'
    BY <2>10 DEF TypeOK, DropDuplicate, fileVars, threadVars, historyVars
  <2>11. ASSUME NEW s \in Servers, NEW w \in Workers, NEW r \in Requests, ServeListed(s, w, r)
         PROVE TypeOK'
    BY <2>11 DEF TypeOK, ServeListed, Spawn, fileVars, historyVars
  <2>12. ASSUME NEW s \in Servers, NEW w \in Workers, NEW r \in Requests, DeliverEvent(s, w, r)
         PROVE TypeOK'
    BY <2>12 DEF TypeOK, DeliverEvent, Spawn, fileVars, historyVars
  <2>13. ASSUME NEW w \in Workers, HandlerRead(w) PROVE TypeOK'
    <3>1. CASE Finish(w)
      <4>1. unread' \in {unread, unread \cup {job[w]}} /\ job[w] \in Requests
        BY <2>13 DEF JobsInv, Live, HandlerRead, LeaveUnread
      <4>2. UNCHANGED <<call, fileVars, serverVars, targetVars, owed, lost, faults>>
        BY <2>13 DEF HandlerRead, LeaveUnread, fileVars
      <4> QED
        BY <3>1, <4>1, <4>2 DEF TypeOK, Finish, fileVars, serverVars, targetVars
    <3>2. CASE ~Finish(w)
      BY <2>13, <3>2 DEF TypeOK, HandlerRead, LeaveUnread, serverVars, targetVars
    <3> QED
      BY <3>1, <3>2
  <2>14. ASSUME NEW w \in Workers, HandlerUnlink(w) PROVE TypeOK'
    <3>1. CASE LeaveUnread(w)
      BY <2>14, <3>1 DEF TypeOK, JobsInv, Live, HandlerUnlink, LeaveUnread, Finish, serverVars
    <3>2. CASE ~LeaveUnread(w)
      BY <2>14, <3>2 DEF TypeOK, HandlerUnlink, serverVars
    <3> QED
      BY <3>1, <3>2
  <2>15. ASSUME NEW w \in Workers, NEW a \in Answers, NEW n \in {0, 1}, Conclude(w, a, n)
         PROVE TypeOK'
    <3>1. forwarded' \in [Requests -> Nat]
      <4>1. n \in Nat /\ forwarded \in [Requests -> Nat]
        BY DEF TypeOK
      <4>2. forwarded' = [r \in Requests |-> IF r = job[w] THEN forwarded[r] + n ELSE forwarded[r]]
        BY <2>15, <4>1 DEF Conclude
      <4>3. \A r \in Requests : forwarded[r] + n \in Nat
        BY <4>1
      <4> QED
        BY <4>1, <4>2, <4>3
    <3>2. sent' \in [Servers -> [Requests -> Nat]]
      <4>1. /\ sent \in [Servers -> [Requests -> Nat]]
            /\ owner[w] \in Servers /\ job[w] \in Requests
        BY <2>15 DEF TypeOK, JobsInv, Live, Conclude
      <4>2. sent[owner[w]][job[w]] + n \in Nat
        BY <4>1
      <4>3. sent' = [sent EXCEPT ![owner[w]][job[w]] = sent[owner[w]][job[w]] + n]
        BY <2>15 DEF Conclude
      <4> QED
        BY <4>1, <4>2, <4>3
    <3> QED
      BY <2>15, <3>1, <3>2 DEF TypeOK, Conclude, fileVars, serverVars, historyVars
  <2>16. ASSUME NEW w \in Workers, Reply(w) PROVE TypeOK'
    <3>1. PICK a \in {out[w]} \cup {b \in {"failed"} : job[w] \in Admissible} :
            respFile' = [respFile EXCEPT ![job[w]] = a]
      BY <2>16 DEF Reply
    <3>2. respFile' \in [Requests -> {"none"} \cup Answers]
      BY <3>1 DEF TypeOK
    <3> QED
      BY <2>16, <3>2 DEF TypeOK, Reply, Finish, serverVars, historyVars
  <2>17. ASSUME NEW w \in Workers, ReplyFails(w) PROVE TypeOK'
    BY <2>17 DEF TypeOK, JobsInv, Live, ReplyFails, Finish, fileVars, serverVars
  <2> QED
    BY <2>0, <2>1, <2>2, <2>3, <2>4, <2>5, <2>6, <2>7, <2>8, <2>9, <2>10, <2>11, <2>12,
       <2>13, <2>14, <2>15, <2>16, <2>17
    DEF Next, HandlerStep, Reject, Forward, Refused, Broken
<1> QED
  BY <1>1, <1>2, <1>3, PTL DEF Spec

-----------------------------------------------------------------------------
\* Only a thread with a response to write is about to reply.
RepliesInv == \A w \in Workers : pc[w] = "reply" => out[w] # "none"

\* No request that is waited for disappears, with any number of servers and
\* whether or not unlink works: a step that takes it from one place puts it
\* into another, a thread that cannot read it leaves it where it is, and what
\* drops it is a stopping server, a response that cannot be written or a cleanup.
THEOREM Accounting == Spec => []WaitingAccountedFor
<1> DEFINE Inv == WaitingAccountedFor /\ RepliesInv
<1>1. Init => Inv
  BY DEF Init, WaitingAccountedFor, RepliesInv
<1>2. TypeOK /\ Inv /\ [Next]_vars => Inv'
  <2> SUFFICES ASSUME TypeOK, Inv, [Next]_vars PROVE Inv'
    OBVIOUS
  <2> USE DEF WaitingAccountedFor, RepliesInv, Holding
  <2>0. CASE UNCHANGED vars
    BY <2>0 DEF vars
  <2>1. ASSUME NEW r \in Requests, WriteTmp(r) PROVE Inv'
    BY <2>1 DEF TypeOK, WriteTmp, threadVars, historyVars
  <2>2. ASSUME NEW r \in Requests, Publish(r) PROVE Inv'
    BY <2>2 DEF TypeOK, Publish, threadVars
  <2>3. ASSUME NEW r \in Requests, Receive(r) PROVE Inv'
    BY <2>3 DEF TypeOK, Receive, threadVars, historyVars
  <2>4. ASSUME NEW r \in Requests, GiveUp(r) PROVE Inv'
    BY <2>4 DEF TypeOK, GiveUp, fileVars, threadVars, historyVars
  <2>5. ASSUME NEW r \in Requests, Cleanup(r) PROVE Inv'
    BY <2>5 DEF TypeOK, Cleanup, RemoveOld, Ready, threadVars
  <2>6. ASSUME NEW s \in Servers, Start(s) PROVE Inv'
    BY <2>6 DEF TypeOK, Start, RemoveOld, Ready, threadVars
  <2>7. ASSUME NEW s \in Servers, StartWatching(s) PROVE Inv'
    BY <2>7 DEF StartWatching, fileVars, threadVars, historyVars
  <2>8. ASSUME NEW s \in Servers, Poll(s) PROVE Inv'
    BY <2>8 DEF Poll, fileVars, threadVars, historyVars
  <2>9. ASSUME NEW s \in Servers, Crash(s) PROVE Inv'
    BY <2>9 DEF TypeOK, Crash, fileVars
  <2>10. ASSUME NEW s \in Servers, NEW r \in Requests, DropDuplicate(s, r) PROVE Inv'
    BY <2>10 DEF DropDuplicate, fileVars, threadVars, historyVars
  <2>11. ASSUME NEW s \in Servers, NEW w \in Workers, NEW r \in Requests, ServeListed(s, w, r)
         PROVE Inv'
    BY <2>11 DEF TypeOK, ServeListed, Spawn, fileVars, historyVars
  <2>12. ASSUME NEW s \in Servers, NEW w \in Workers, NEW r \in Requests, DeliverEvent(s, w, r)
         PROVE Inv'
    BY <2>12 DEF TypeOK, DeliverEvent, Spawn, fileVars, historyVars
  <2>13. ASSUME NEW w \in Workers, HandlerRead(w) PROVE Inv'
    <3>1. \A v \in Workers : Holding(v) => Holding(v)' /\ job'[v] = job[v]
      BY <2>13 DEF TypeOK, HandlerRead, LeaveUnread, Finish
    <3>2. UNCHANGED <<call, reqFile, respFile, lost>>
      BY <2>13 DEF HandlerRead, LeaveUnread
    <3>3. WaitingAccountedFor'
      BY <3>1, <3>2
    <3>4. RepliesInv'
      BY <2>13 DEF TypeOK, HandlerRead, LeaveUnread, Finish
    <3> QED
      BY <3>3, <3>4
  <2>14. ASSUME NEW w \in Workers, HandlerUnlink(w) PROVE Inv'
    <3>1. CASE LeaveUnread(w)
      <4>1. \A v \in Workers : Holding(v) => Holding(v)' /\ job'[v] = job[v]
        BY <2>14, <3>1 DEF TypeOK, HandlerUnlink, LeaveUnread, Finish
      <4>2. UNCHANGED <<call, reqFile, respFile, lost>>
        BY <2>14, <3>1 DEF HandlerUnlink, LeaveUnread
      <4>3. RepliesInv'
        BY <2>14, <3>1 DEF TypeOK, LeaveUnread, Finish
      <4> QED
        BY <4>1, <4>2, <4>3
    <3>2. CASE ~LeaveUnread(w)
      BY <2>14, <3>2 DEF TypeOK, HandlerUnlink
    <3> QED
      BY <3>1, <3>2
  <2>15. ASSUME NEW w \in Workers, NEW a \in Answers, NEW n \in {0, 1}, Conclude(w, a, n) PROVE Inv'
    BY <2>15 DEF TypeOK, Conclude, fileVars, historyVars
  <2>16. ASSUME NEW w \in Workers, Reply(w) PROVE Inv'
    <3>1. PICK a \in {out[w]} \cup {b \in {"failed"} : job[w] \in Admissible} :
             respFile' = [respFile EXCEPT ![job[w]] = a]
      BY <2>16 DEF Reply
    <3>2. a # "none"
      BY <2>16 DEF Reply
    <3> QED
      BY <2>16, <3>1, <3>2 DEF TypeOK, Reply, Finish, historyVars
  <2>17. ASSUME NEW w \in Workers, ReplyFails(w) PROVE Inv'
    BY <2>17 DEF TypeOK, ReplyFails, Finish, fileVars
  <2> QED
    BY <2>0, <2>1, <2>2, <2>3, <2>4, <2>5, <2>6, <2>7, <2>8, <2>9, <2>10, <2>11, <2>12,
       <2>13, <2>14, <2>15, <2>16, <2>17
    DEF Next, HandlerStep, Reject, Forward, Refused, Broken
<1> QED
  BY <1>1, <1>2, Typing, PTL DEF Spec

-----------------------------------------------------------------------------
(* The inductive invariant.  It needs a single server, because two may read *)
(* a request before either unlinks it; either a mount that can unlink or no *)
(* restart, because a start lists every file that is still there; and       *)
(* listings that succeed, because a poll that finds nothing forgets what    *)
(* there was.                                                               *)

\* A server that is not yet watching has been told of no file.
LEMMA NothingTold ==
  ASSUME TypeOK, ServerInv, NEW s \in Servers, mode[s] = "starting", NEW r \in Requests
  PROVE  events[s][r] = 0
<1>1. events[s][r] \in 0..2
  BY DEF TypeOK
<1>2. ~(events[s][r] > 0)
  BY DEF ServerInv
<1> QED
  BY <1>1, <1>2

LEMMA SafetyInit == Init => SafetyInv
  BY DEF Init, SafetyInv, AtMostOnceForward, OneThreadPerRequest, ServerInv, ThreadInv,
     FirstInv, FileInv, OnceInv, TruthInv, Live, Holding, Published, Done, Begun, Spawnable,
     Service!Truthful

\* Every step keeps the invariant; for each action first the conjuncts that
\* follow from their own values before it, then those that need others.
LEMMA SafetyStep ==
  ASSUME SingleServer, RestartsCanUnlink, ListingsSucceed,
         TypeOK, TypeOK', SafetyInv, [Next]_vars
  PROVE  SafetyInv'
<1>0. CASE UNCHANGED vars
  BY <1>0 DEF vars, SafetyInv, AtMostOnceForward, OneThreadPerRequest, ServerInv,
     ThreadInv, FirstInv, FileInv, OnceInv, TruthInv, Live, Holding, Published, Done,
     Begun, Spawnable, Service!Truthful
<1>1. ASSUME NEW r \in Requests, WriteTmp(r) PROVE SafetyInv'
  <2>1. (AtMostOnceForward /\ OneThreadPerRequest /\ ServerInv /\ ThreadInv /\ FirstInv /\
         FileInv /\ OnceInv /\ TruthInv)'
    BY <1>1, SMTT(30) DEF TypeOK, SafetyInv, AtMostOnceForward, OneThreadPerRequest, ServerInv,
       ThreadInv, FirstInv, FileInv, OnceInv, TruthInv, Live, Holding, Published, Done,
       Begun, Spawnable, Service!Truthful, WriteTmp, serverVars, threadVars
  <2> QED
    BY <2>1 DEF SafetyInv
<1>2. ASSUME NEW r \in Requests, Publish(r) PROVE SafetyInv'
  <2>1. (AtMostOnceForward /\ OneThreadPerRequest /\ ServerInv /\ ThreadInv /\ FirstInv /\
         FileInv /\ TruthInv)'
    BY <1>2 DEF TypeOK, SafetyInv, AtMostOnceForward, OneThreadPerRequest, ServerInv,
       ThreadInv, FirstInv, FileInv, TruthInv, Live, Published, Service!Truthful,
       EventsPerFile, Publish, threadVars
  <2>2. OnceInv'
    <3>1. ~Begun(r)'
      BY <1>2 DEF TypeOK, SafetyInv, ThreadInv, FileInv, Live, Holding, Published, Done,
         Begun, Publish, threadVars
    <3>2. \A q \in Requests \ {r} :
            /\ Begun(q)' <=> Begun(q)
            /\ Done(q)' <=> Done(q)
            /\ \A s \in Servers : Spawnable(s, q)' <=> Spawnable(s, q)
      BY <1>2 DEF TypeOK, Live, Holding, Done, Begun, Spawnable, Publish, threadVars
    <3> QED
      <4>1. ASSUME NEW q \in Requests PROVE Begun(q)' => \A s \in Servers : ~Spawnable(s, q)'
        BY <3>1, <3>2 DEF SafetyInv, OnceInv
      <4>2. ASSUME NEW q \in Requests, Done(q)', reqFile'[q] = "ready"
            PROVE  UnlinkMayFail /\ \A s \in Servers : mode'[s] # "down"
        BY <1>2, <3>1, <3>2, <4>2 DEF TypeOK, SafetyInv, OnceInv, Begun, Publish
      <4> QED
        BY <4>1, <4>2 DEF OnceInv
  <2> QED
    BY <2>1, <2>2 DEF SafetyInv
<1>3. ASSUME NEW r \in Requests, Receive(r) PROVE SafetyInv'
  <2>1. (AtMostOnceForward /\ OneThreadPerRequest /\ FileInv /\ TruthInv)'
    BY <1>3 DEF TypeOK, SafetyInv, AtMostOnceForward, OneThreadPerRequest, FileInv,
       TruthInv, Live, Published, Service!Truthful, Receive, threadVars
  <2>5. OnceInv'
    <3>1. /\ UNCHANGED <<reqFile, mode, todo, seen, events, pc, job, forwarded>>
          /\ \A q \in Requests \ {r} : respFile'[q] = respFile[q] /\ call'[q] = call[q]
          /\ respFile[r] # "none"
      BY <1>3 DEF TypeOK, Receive, serverVars, threadVars
    <3>2. \A q \in Requests : Done(q)' => Done(q)
      BY <3>1 DEF Done, Holding
    <3> QED
      BY <3>1, <3>2 DEF SafetyInv, OnceInv, Begun, Live, Spawnable
  <2>2. ServerInv'
    BY <1>3 DEF TypeOK, SafetyInv, ServerInv, FileInv, Published, Receive, serverVars
  <2>3. ThreadInv'
    BY <1>3 DEF SafetyInv, ThreadInv, FirstInv, Live, Published, Receive, serverVars,
       threadVars
  <2>4. FirstInv'
    BY <1>3 DEF TypeOK, SafetyInv, ThreadInv, FirstInv, Live, Receive, threadVars
  <2> QED
    BY <2>1, <2>2, <2>3, <2>4, <2>5 DEF SafetyInv
<1>4. ASSUME NEW r \in Requests, GiveUp(r) PROVE SafetyInv'
  <2>1. (AtMostOnceForward /\ OneThreadPerRequest /\ ServerInv /\ ThreadInv /\ FirstInv /\
         FileInv /\ OnceInv /\ TruthInv)'
    BY <1>4 DEF SafetyInv, AtMostOnceForward, OneThreadPerRequest, ServerInv, ThreadInv,
       FirstInv, FileInv, OnceInv, TruthInv, Live, Holding, Published, Done, Begun,
       Spawnable, Service!Truthful, GiveUp, fileVars, serverVars, threadVars
  <2> QED
    BY <2>1 DEF SafetyInv
<1>5. ASSUME NEW r \in Requests, Cleanup(r) PROVE SafetyInv'
  <2>1. (AtMostOnceForward /\ OneThreadPerRequest /\ ServerInv /\ ThreadInv /\ FileInv /\
         OnceInv /\ TruthInv)'
    BY <1>5 DEF SafetyInv, AtMostOnceForward, OneThreadPerRequest, ServerInv, ThreadInv,
       FileInv, OnceInv, TruthInv, Live, Holding, Published, Done, Begun, Spawnable,
       Service!Truthful, Cleanup, RemoveOld, serverVars, threadVars
  <2>2. FirstInv'
    BY <1>5 DEF SafetyInv, ThreadInv, FirstInv, Live, Cleanup, RemoveOld, threadVars
  <2> QED
    BY <2>1, <2>2 DEF SafetyInv
<1>6. ASSUME NEW s \in Servers, Start(s) PROVE SafetyInv'
  <2>1. (AtMostOnceForward /\ OneThreadPerRequest /\ FileInv /\ TruthInv)'
    BY <1>6 DEF SafetyInv, AtMostOnceForward, OneThreadPerRequest, FileInv, TruthInv,
       Live, Published, Service!Truthful, RemoveOld, Start, threadVars
  <2>2. ServerInv'
    BY <1>6 DEF TypeOK, SafetyInv, ServerInv, FileInv, Published, Ready, RemoveOld,
       Start
  <2>3. ThreadInv'
    BY <1>6 DEF SafetyInv, ThreadInv, SingleServer, Live, Start, threadVars
  <2>4. FirstInv'
    BY <1>6 DEF SafetyInv, ThreadInv, FirstInv, SingleServer, Live, Start, threadVars
  <2>5. OnceInv'
    BY <1>6 DEF TypeOK, SafetyInv, ThreadInv, OnceInv, SingleServer, Live, Holding,
       Done, Begun, Spawnable, Ready, RemoveOld, Start, threadVars
  <2> QED
    BY <2>1, <2>2, <2>3, <2>4, <2>5 DEF SafetyInv
<1>7. ASSUME NEW s \in Servers, StartWatching(s) PROVE SafetyInv'
  <2>0. PICK b \in Watchers :
          /\ mode' = [mode EXCEPT ![s] = b]
          /\ seen' = [seen EXCEPT ![s] = IF b = "polling" THEN Ready ELSE {}]
    <3>1. Listings(s) = {Ready}
      BY DEF ListingsSucceed, Listings
    <3> QED
      BY <1>7, <3>1 DEF StartWatching
  <2>1. (AtMostOnceForward /\ OneThreadPerRequest /\ FirstInv /\ FileInv /\ TruthInv)'
    BY <1>7 DEF SafetyInv, AtMostOnceForward, OneThreadPerRequest, FirstInv, FileInv,
       TruthInv, Live, Published, Service!Truthful, StartWatching, fileVars, threadVars
  <2>2. ServerInv'
    <3>1. /\ mode[s] = "starting" /\ todo[s] = {}
          /\ UNCHANGED <<call, reqFile, todo, events>>
      BY <1>7 DEF StartWatching, fileVars
    <3>2. \A r \in Requests : /\ events[s][r] = 0
                              /\ r \in Ready => Published(r)
      BY <3>1, NothingTold DEF SafetyInv, FileInv, Ready
    <3> QED
      BY <2>0, <3>1, <3>2 DEF TypeOK, SafetyInv, ServerInv, Published
  <2>3. ThreadInv'
    BY <1>7, RelayAssumption DEF TypeOK, SafetyInv, ThreadInv, Live, Published,
       StartWatching, fileVars, threadVars
  <2>4. OnceInv'
    <3>1. /\ mode[s] = "starting" /\ todo[s] = {} /\ b # "down"
          /\ UNCHANGED <<call, reqFile, respFile, todo, events, pc, job, forwarded>>
      BY <1>7, RelayAssumption DEF StartWatching, fileVars, threadVars
    <3>2. \A r \in Requests : events[s][r] = 0
      BY <3>1, NothingTold DEF SafetyInv
    <3>3. \A t \in Servers, r \in Requests : Spawnable(t, r)' => Spawnable(t, r)
      BY <2>0, <3>1, <3>2 DEF TypeOK, Spawnable, Ready
    <3>4. \A t \in Servers : mode[t] # "down" => mode'[t] # "down"
      BY <2>0, <3>1 DEF TypeOK
    <3> QED
      BY <3>1, <3>3, <3>4 DEF SafetyInv, OnceInv, Live, Holding, Done, Begun
  <2> QED
    BY <2>1, <2>2, <2>3, <2>4 DEF SafetyInv
<1>8. ASSUME NEW s \in Servers, Poll(s) PROVE SafetyInv'
  <2>0. Listings(s) = {Ready}
    BY DEF ListingsSucceed, Listings
  <2>1. (AtMostOnceForward /\ OneThreadPerRequest /\ ThreadInv /\ FirstInv /\ FileInv /\
         OnceInv /\ TruthInv)'
    BY <1>8, <2>0 DEF SafetyInv, AtMostOnceForward, OneThreadPerRequest, ThreadInv, FirstInv,
       FileInv, OnceInv, TruthInv, Live, Holding, Published, Done, Begun, Spawnable,
       Service!Truthful, Poll, Ready, fileVars, threadVars
  <2>2. ServerInv'
    BY <1>8, <2>0 DEF TypeOK, SafetyInv, ServerInv, FileInv, Published, Poll, Ready, fileVars
  <2> QED
    BY <2>1, <2>2 DEF SafetyInv
<1>9. ASSUME NEW s \in Servers, Crash(s) PROVE SafetyInv'
  <2>1. (AtMostOnceForward /\ OneThreadPerRequest /\ FileInv /\ TruthInv)'
    BY <1>9 DEF SafetyInv, AtMostOnceForward, OneThreadPerRequest, FileInv, TruthInv,
       Live, Published, Service!Truthful, Crash, fileVars
  <2>2. ServerInv'
    BY <1>9 DEF TypeOK, ServerInv, SingleServer, Crash
  <2>3. ThreadInv'
    BY <1>9 DEF SafetyInv, ThreadInv, SingleServer, Live, Crash
  <2>4. FirstInv'
    BY <1>9 DEF SafetyInv, ThreadInv, FirstInv, SingleServer, Live, Crash
  <2>5. OnceInv'
    BY <1>9 DEF TypeOK, SafetyInv, OnceInv, SingleServer, RestartsCanUnlink, Holding,
       Done, Spawnable, Crash, fileVars
  <2> QED
    BY <2>1, <2>2, <2>3, <2>4, <2>5 DEF SafetyInv
<1>10. ASSUME NEW s \in Servers, NEW r \in Requests, DropDuplicate(s, r) PROVE SafetyInv'
  <2>1. (AtMostOnceForward /\ OneThreadPerRequest /\ ServerInv /\ ThreadInv /\ FirstInv /\
         FileInv /\ OnceInv /\ TruthInv)'
    BY <1>10 DEF SafetyInv, AtMostOnceForward, OneThreadPerRequest, ServerInv,
       ThreadInv, FirstInv, FileInv, OnceInv, TruthInv, Live, Holding, Published, Done,
       Begun, Spawnable, Service!Truthful, DropDuplicate, fileVars, threadVars
  <2> QED
    BY <2>1 DEF SafetyInv
<1>11. ASSUME NEW s \in Servers, NEW w \in Workers, NEW r \in Requests,
               ServeListed(s, w, r)
        PROVE  SafetyInv'
  <2>0. ~Begun(r)
    BY <1>11 DEF SafetyInv, OnceInv, Spawnable, ServeListed
  <2>1. (AtMostOnceForward /\ OneThreadPerRequest /\ ServerInv /\ FirstInv /\ FileInv)'
    BY <1>11, <2>0 DEF TypeOK, SafetyInv, AtMostOnceForward, OneThreadPerRequest, ServerInv,
       FirstInv, FileInv, Live, Published, Done, Begun, ServeListed, Spawn, fileVars
  <2>2. ThreadInv'
    BY <1>11 DEF TypeOK, SafetyInv, ServerInv, ThreadInv, Live, Published, ServeListed,
       Spawn, fileVars
  <2>3. OnceInv'
    BY <1>11, <2>0, SMTT(30) DEF TypeOK, SafetyInv, ServerInv, OnceInv, SingleServer, Live, Holding,
       Done, Begun, Spawnable, ServeListed, Spawn, fileVars
  <2>4. TruthInv'
    BY <1>11 DEF SafetyInv, ThreadInv, TruthInv, Service!Truthful, ServeListed, Spawn,
       fileVars
  <2> QED
    BY <2>1, <2>2, <2>3, <2>4 DEF SafetyInv
<1>12. ASSUME NEW s \in Servers, NEW w \in Workers, NEW r \in Requests,
               DeliverEvent(s, w, r)
        PROVE  SafetyInv'
  <2>0. ~Begun(r)
    BY <1>12 DEF SafetyInv, ServerInv, OnceInv, Spawnable, DeliverEvent
  <2>1. (AtMostOnceForward /\ OneThreadPerRequest /\ FirstInv /\ FileInv)'
    BY <1>12, <2>0 DEF TypeOK, SafetyInv, AtMostOnceForward, OneThreadPerRequest, FirstInv,
       FileInv, Live, Published, Done, Begun, DeliverEvent, Spawn, fileVars
  <2>2. ServerInv'
    BY <1>12 DEF TypeOK, SafetyInv, ServerInv, Published, DeliverEvent, fileVars
  <2>3. ThreadInv'
    BY <1>12 DEF TypeOK, SafetyInv, ServerInv, ThreadInv, Live, Published, DeliverEvent,
       Spawn, fileVars
  <2>4. OnceInv'
    BY <1>12, <2>0 DEF TypeOK, SafetyInv, ServerInv, OnceInv, SingleServer, Live, Holding,
       Done, Begun, Spawnable, DeliverEvent, Spawn, fileVars
  <2>5. TruthInv'
    BY <1>12 DEF SafetyInv, ThreadInv, TruthInv, Service!Truthful, DeliverEvent, Spawn,
       fileVars
  <2> QED
    BY <2>1, <2>2, <2>3, <2>4, <2>5 DEF SafetyInv
<1>13. ASSUME NEW w \in Workers, HandlerRead(w) \/ (HandlerUnlink(w) /\ LeaveUnread(w))
       PROVE SafetyInv'
  <2>1. /\ UNCHANGED <<call, reqFile, respFile, mode, todo, seen, events, forwarded>>
        /\ \A v \in Workers :
             /\ Live(v)' => Live(v) /\ job'[v] = job[v] /\ owner'[v] = owner[v]
                          /\ out'[v] = out[v] /\ (pc'[v] # "reply" <=> pc[v] # "reply")
             /\ Holding(v)' <=> Holding(v)
             /\ ~Live(v)' => job'[v] = None /\ owner'[v] = None /\ out'[v] = "none"
    BY <1>13 DEF TypeOK, SafetyInv, ThreadInv, Live, Holding, HandlerRead, HandlerUnlink,
       LeaveUnread, Finish, serverVars
  <2>2. (AtMostOnceForward /\ OneThreadPerRequest /\ ServerInv /\ FileInv)'
    BY <2>1 DEF SafetyInv, AtMostOnceForward, OneThreadPerRequest, ServerInv, FileInv, Published
  <2>3. ThreadInv'
    BY <2>1 DEF SafetyInv, ThreadInv, Live, Published
  <2>4. (FirstInv /\ TruthInv)'
    BY <2>1 DEF SafetyInv, FirstInv, TruthInv, Live, Service!Truthful
  <2>5. OnceInv'
    BY <2>1 DEF SafetyInv, OnceInv, Live, Holding, Done, Begun, Spawnable
  <2> QED
    BY <2>2, <2>3, <2>4, <2>5 DEF SafetyInv
<1>14. ASSUME NEW w \in Workers, HandlerUnlink(w), ~LeaveUnread(w) PROVE SafetyInv'
  <2>0. /\ pc[w] = "unlink" /\ pc' = [pc EXCEPT ![w] = "dispatch"]
        /\ \/ reqFile' = [reqFile EXCEPT ![job[w]] = "none"]
           \/ UnlinkMayFail /\ UNCHANGED reqFile
        /\ UNCHANGED <<call, respFile, mode, todo, seen, events, owner, job, out, forwarded>>
    BY <1>14 DEF HandlerUnlink, serverVars
  <2>1. (AtMostOnceForward /\ OneThreadPerRequest /\ ServerInv /\ ThreadInv /\ FirstInv /\
         TruthInv)'
    BY <2>0 DEF TypeOK, SafetyInv, AtMostOnceForward, OneThreadPerRequest, ServerInv,
       ThreadInv, FirstInv, TruthInv, Live, Published, Service!Truthful
  <2>2. FileInv'
    BY <2>0 DEF TypeOK, SafetyInv, ThreadInv, FileInv, Live, Published
  <2>3. OnceInv'
    BY <2>0, SMTT(30) DEF TypeOK, SafetyInv, ThreadInv, OnceInv, SingleServer, Live, Holding,
       Done, Begun, Spawnable
  <2> QED
    BY <2>1, <2>2, <2>3 DEF SafetyInv
<1>15. ASSUME NEW w \in Workers, NEW a \in Answers, NEW n \in {0, 1},
               a = "ok" => n = 1, a = "rejected" => n = 0, Conclude(w, a, n)
        PROVE  SafetyInv'
  <2>1. (OneThreadPerRequest /\ ServerInv /\ ThreadInv /\ OnceInv)'
    BY <1>15 DEF TypeOK, SafetyInv, OneThreadPerRequest, ServerInv, ThreadInv, OnceInv,
       Live, Holding, Published, Done, Begun, Spawnable, Conclude, fileVars, serverVars
  <2>2. AtMostOnceForward'
    BY <1>15 DEF SafetyInv, AtMostOnceForward, FirstInv, Live, Conclude
  <2>3. FirstInv'
    BY <1>15 DEF TypeOK, SafetyInv, OneThreadPerRequest, FirstInv, Live, Conclude,
       fileVars
  <2>4. FileInv'
    BY <1>15 DEF SafetyInv, ThreadInv, FileInv, Live, Published, Conclude, fileVars
  <2>5. TruthInv'
    BY <1>15 DEF TypeOK, SafetyInv, OneThreadPerRequest, ThreadInv, FirstInv, TruthInv,
       Live, Service!Truthful, Conclude, fileVars
  <2> QED
    BY <2>1, <2>2, <2>3, <2>4, <2>5 DEF SafetyInv
<1>16. ASSUME NEW w \in Workers, Reply(w) PROVE SafetyInv'
  <2>0. PICK a \in {out[w]} \cup {b \in {"failed"} : job[w] \in Admissible} :
          respFile' = [respFile EXCEPT ![job[w]] = a]
    BY <1>16 DEF Reply
  <2>1. (AtMostOnceForward /\ OneThreadPerRequest /\ ServerInv /\ ThreadInv)'
    BY <1>16 DEF TypeOK, SafetyInv, AtMostOnceForward, OneThreadPerRequest, ServerInv,
       ThreadInv, Live, Published, Finish, Reply, serverVars
  <2>5. OnceInv'
    <3>1. /\ UNCHANGED <<call, reqFile, mode, todo, seen, events, forwarded>>
          /\ \A q \in Requests : respFile'[q] # respFile[q] => q = job[w]
          /\ \A v \in Workers : Live(v)' => Live(v) /\ job'[v] = job[v] /\ pc'[v] = pc[v]
          /\ Live(w) /\ Holding(w)
      BY <1>16, <2>0 DEF TypeOK, Live, Holding, Finish, Reply, serverVars
    <3>2. \A q \in Requests : (Done(q)' => Done(q)) /\ (Begun(q)' => Begun(q))
      BY <3>1 DEF Done, Begun, Holding, Live
    <3> QED
      BY <3>1, <3>2 DEF SafetyInv, OnceInv, Spawnable
  <2>2. FirstInv'
    BY <1>16, <2>0 DEF TypeOK, SafetyInv, OneThreadPerRequest, FirstInv, Live, Finish, Reply
  <2>3. FileInv'
    BY <1>16, <2>0 DEF SafetyInv, ThreadInv, FileInv, Live, Published, Reply
  <2>4. TruthInv'
    <3>1. Service!Truthful(job[w], a)
      BY <1>16, <2>0 DEF SafetyInv, TruthInv, Live, Reply, Service!Truthful
    <3> QED
      BY <1>16, <2>0, <3>1 DEF TypeOK, SafetyInv, TruthInv, Live, Service!Truthful, Finish, Reply
  <2> QED
    BY <2>1, <2>2, <2>3, <2>4, <2>5 DEF SafetyInv
<1>17. ASSUME NEW w \in Workers, ReplyFails(w) PROVE SafetyInv'
  <2>1. /\ UNCHANGED <<call, reqFile, respFile, mode, todo, seen, events, forwarded>>
        /\ \A v \in Workers :
             /\ Live(v)' => Live(v) /\ job'[v] = job[v] /\ owner'[v] = owner[v]
                          /\ out'[v] = out[v] /\ pc'[v] = pc[v]
             /\ ~Live(v)' => job'[v] = None /\ owner'[v] = None /\ out'[v] = "none"
    BY <1>17 DEF TypeOK, SafetyInv, ThreadInv, Live, ReplyFails, Finish, fileVars, serverVars
  <2>2. (AtMostOnceForward /\ OneThreadPerRequest /\ ServerInv /\ FileInv)'
    BY <2>1 DEF SafetyInv, AtMostOnceForward, OneThreadPerRequest, ServerInv, FileInv, Published
  <2>3. ThreadInv'
    BY <2>1 DEF SafetyInv, ThreadInv, Live, Published
  <2>4. (FirstInv /\ TruthInv)'
    BY <2>1 DEF SafetyInv, FirstInv, TruthInv, Live, Service!Truthful
  <2>5. \A v \in Workers : Holding(v)' => Holding(v) /\ Live(v)'
    BY <2>1 DEF Holding, Live
  <2>6. OnceInv'
    BY <2>1, <2>5 DEF SafetyInv, OnceInv, Live, Done, Begun, Spawnable
  <2> QED
    BY <2>2, <2>3, <2>4, <2>6 DEF SafetyInv
<1> QED
    BY <1>0, <1>1, <1>2, <1>3, <1>4, <1>5, <1>6, <1>7, <1>8, <1>9, <1>10, <1>11, <1>12,
     <1>13, <1>14, <1>15, <1>16, <1>17
  DEF Next, HandlerStep, Reject, Forward, Refused, Broken

\* The inductive invariant holds in every run of one server.
THEOREM Safety ==
  ASSUME SingleServer, RestartsCanUnlink, ListingsSucceed
  PROVE  Spec => []SafetyInv
  BY Typing, SafetyInit, SafetyStep, PTL DEF Spec

\* One server forwards a request to its target at most once, through
\* duplicate events, repeated listings and restarts.
THEOREM AtMostOnce ==
  ASSUME SingleServer, RestartsCanUnlink, ListingsSucceed
  PROVE  Spec => []AtMostOnceForward
<1>1. SafetyInv => AtMostOnceForward
  BY DEF SafetyInv
<1> QED
  BY <1>1, Safety, PTL

\* One server never has two threads at work on a request.
THEOREM OneThread ==
  ASSUME SingleServer, RestartsCanUnlink, ListingsSucceed
  PROVE  Spec => []OneThreadPerRequest
<1>1. SafetyInv => OneThreadPerRequest
  BY DEF SafetyInv
<1> QED
  BY <1>1, Safety, PTL

-----------------------------------------------------------------------------
\* The relay implements RequestReply: a thread that concludes with the target
\* having received the request executes it, a client that receives a response
\* is answered, and every other step of server and threads is invisible.
THEOREM Refinement ==
  ASSUME SingleServer, RestartsCanUnlink, ListingsSucceed
  PROVE  Spec => ImplementsRequestReply
<1>1. Init => Service!Init
  BY DEF Init, Service!Init
<1>2. TypeOK /\ SafetyInv /\ [Next]_vars => [Service!Next]_Service!vars
  <2> SUFFICES ASSUME TypeOK, SafetyInv, [Next]_vars
               PROVE  Service!Next \/ UNCHANGED <<call, forwarded>>
    BY DEF Service!vars
  <2>0. CASE UNCHANGED vars
    BY <2>0 DEF vars
  <2>1. ASSUME NEW r \in Requests, WriteTmp(r) PROVE Service!Prepare(r)
    BY <2>1 DEF WriteTmp, Service!Prepare
  <2>2. ASSUME NEW r \in Requests, Publish(r) PROVE Service!Submit(r)
    BY <2>2 DEF Publish, Service!Submit
  <2>3. ASSUME NEW r \in Requests, Receive(r) PROVE \E a \in Answers : Service!Answer(r, a)
    <3>1. respFile[r] \in Answers /\ Service!Truthful(r, respFile[r])
      BY <2>3 DEF TypeOK, SafetyInv, TruthInv, Receive
    <3> QED
      BY <2>3, <3>1 DEF Receive, Service!Answer
  <2>4. ASSUME NEW r \in Requests, GiveUp(r) PROVE Service!Abandon(r)
    BY <2>4 DEF GiveUp, Service!Abandon
  <2>5. ASSUME NEW w \in Workers, NEW a \in Answers, NEW n \in {0, 1}, Conclude(w, a, n)
        PROVE  \/ Service!Execute(job[w]) /\ job[w] \in Requests
               \/ UNCHANGED <<call, forwarded>>
    <3>1. job[w] \in Requests /\ call[job[w]] \in {"waiting", "abandoned"} /\ forwarded[job[w]] = 0
      BY <2>5 DEF Conclude, TypeOK, SafetyInv, ThreadInv, FirstInv, Published, Live
    <3>2. CASE n = 0
      BY <2>5, <3>1, <3>2 DEF Conclude, TypeOK
    <3>3. CASE n = 1
      BY <2>5, <3>1, <3>3 DEF Conclude, TypeOK, Service!Execute
    <3> QED
      BY <3>2, <3>3
  <2>6. ASSUME NEW r \in Requests, Cleanup(r) PROVE UNCHANGED <<call, forwarded>>
    BY <2>6 DEF Cleanup
  <2>7. ASSUME NEW s \in Servers, Start(s) \/ StartWatching(s) \/ Poll(s) \/ Crash(s)
        PROVE UNCHANGED <<call, forwarded>>
    BY <2>7 DEF Start, StartWatching, Poll, Crash
  <2>8. ASSUME NEW s \in Servers, NEW r \in Requests, DropDuplicate(s, r)
        PROVE UNCHANGED <<call, forwarded>>
    BY <2>8 DEF DropDuplicate
  <2>9. ASSUME NEW s \in Servers, NEW w \in Workers, NEW r \in Requests,
               ServeListed(s, w, r) \/ DeliverEvent(s, w, r)
        PROVE UNCHANGED <<call, forwarded>>
    BY <2>9 DEF ServeListed, DeliverEvent
  <2>10. ASSUME NEW w \in Workers,
                HandlerRead(w) \/ HandlerUnlink(w) \/ Reply(w) \/ ReplyFails(w)
         PROVE UNCHANGED <<call, forwarded>>
    BY <2>10 DEF HandlerRead, HandlerUnlink, Reply, ReplyFails
  <2>11. ASSUME NEW w \in Workers, HandlerStep(w)
         PROVE Service!Next \/ UNCHANGED <<call, forwarded>>
    BY <2>5, <2>10, <2>11 DEF HandlerStep, Reject, Forward, Refused, Broken, Service!Next
  <2> QED
    BY <2>0, <2>1, <2>2, <2>3, <2>4, <2>6, <2>7, <2>8, <2>9, <2>11
    DEF Next, Service!Next, Service!Answers
<1> QED
  BY <1>1, <1>2, Typing, Safety, PTL DEF Spec, ImplementsRequestReply, Service!Spec

-----------------------------------------------------------------------------
\* Where unlink works, a response file means that the request file is gone and
\* that the client has not been answered: only Reply makes one, for a request
\* whose client was not answered, and only Receive, which removes it, answers.
THEOREM Files ==
  ASSUME SingleServer, RestartsCanUnlink, ListingsSucceed
  PROVE  Spec => []NoStrayFiles
<1>1. Init => NoStrayFiles
  BY DEF Init, NoStrayFiles
<1>2. TypeOK /\ TypeOK' /\ SafetyInv /\ SafetyInv' /\ NoStrayFiles /\ [Next]_vars => NoStrayFiles'
  <2> SUFFICES ASSUME TypeOK, TypeOK', SafetyInv, SafetyInv', NoStrayFiles, [Next]_vars,
                      ~UnlinkMayFail,
                      NEW q \in Requests, respFile'[q] # "none"
               PROVE  reqFile'[q] = "none" /\ call'[q] \in {"waiting", "abandoned"}
    BY DEF NoStrayFiles
  <2>1. reqFile'[q] = "none" /\ call'[q] \notin {"idle", "writing"}
    BY DEF TypeOK, SafetyInv, FileInv, OnceInv, Published, Done
  <2>2. respFile'[q] \in {respFile[q], "none"} \/ \E w \in Workers : Reply(w) /\ job[w] = q
    <3>1. ASSUME NEW r \in Requests,
                 WriteTmp(r) \/ Publish(r) \/ Receive(r) \/ GiveUp(r) \/ Cleanup(r)
          PROVE  respFile'[q] \in {respFile[q], "none"}
      BY <3>1 DEF TypeOK, WriteTmp, Publish, Receive, GiveUp, Cleanup, RemoveOld, fileVars
    <3>2. ASSUME NEW s \in Servers, Start(s) \/ StartWatching(s) \/ Poll(s) \/ Crash(s)
          PROVE  respFile'[q] \in {respFile[q], "none"}
      BY <3>2 DEF Start, RemoveOld, StartWatching, Poll, Crash, fileVars
    <3>3. ASSUME NEW s \in Servers, NEW r \in Requests, DropDuplicate(s, r)
          PROVE  respFile'[q] = respFile[q]
      BY <3>3 DEF DropDuplicate, fileVars
    <3>4. ASSUME NEW s \in Servers, NEW w \in Workers, NEW r \in Requests,
                 ServeListed(s, w, r) \/ DeliverEvent(s, w, r)
          PROVE  respFile'[q] = respFile[q]
      BY <3>4 DEF ServeListed, DeliverEvent, fileVars
    <3>5. ASSUME NEW w \in Workers, HandlerStep(w), ~(Reply(w) /\ job[w] = q)
          PROVE  respFile'[q] = respFile[q]
      BY <3>5 DEF TypeOK, HandlerStep, HandlerRead, HandlerUnlink, Reject, Forward, Refused, Broken,
                  Conclude, Reply, ReplyFails, fileVars
    <3> QED
      BY <3>1, <3>2, <3>3, <3>4, <3>5 DEF Next, vars
  <2>3. call'[q] \in Answers => call[q] \in Answers
    <3>1. ASSUME NEW r \in Requests, WriteTmp(r) \/ Publish(r) \/ GiveUp(r) \/ Cleanup(r)
          PROVE  call'[q] \in Answers => call[q] \in Answers
      BY <3>1 DEF TypeOK, WriteTmp, Publish, GiveUp, Cleanup
    <3>2. ASSUME NEW r \in Requests, Receive(r) PROVE call'[q] \in Answers => call[q] \in Answers
      BY <3>2 DEF TypeOK, Receive
    <3>3. ASSUME NEW s \in Servers, Start(s) \/ StartWatching(s) \/ Poll(s) \/ Crash(s)
          PROVE  call' = call
      BY <3>3 DEF Start, StartWatching, Poll, Crash
    <3>4. ASSUME NEW s \in Servers, NEW r \in Requests, DropDuplicate(s, r) PROVE call' = call
      BY <3>4 DEF DropDuplicate
    <3>5. ASSUME NEW s \in Servers, NEW w \in Workers, NEW r \in Requests,
                 ServeListed(s, w, r) \/ DeliverEvent(s, w, r)
          PROVE  call' = call
      BY <3>5 DEF ServeListed, DeliverEvent
    <3>6. ASSUME NEW w \in Workers, HandlerStep(w) PROVE call' = call
      BY <3>6 DEF HandlerStep, HandlerRead, HandlerUnlink, Reject, Forward, Refused, Broken,
                  Conclude, Reply, ReplyFails
    <3> QED
      BY <3>1, <3>2, <3>3, <3>4, <3>5, <3>6 DEF Next, vars
  <2>4. call[q] \notin Answers
    <3>1. CASE respFile'[q] \in {respFile[q], "none"}
      BY <3>1 DEF NoStrayFiles
    <3>2. CASE \E w \in Workers : Reply(w) /\ job[w] = q
      BY <3>2 DEF SafetyInv, FirstInv, Live, Reply
    <3> QED
      BY <2>2, <3>1, <3>2
  <2>5. call'[q] \in CallStates
    BY DEF TypeOK
  <2> QED
    BY <2>1, <2>3, <2>4, <2>5
<1> QED
  BY <1>1, <1>2, Typing, Safety, PTL DEF Spec

-----------------------------------------------------------------------------
(* Any number of servers, and a mount that may refuse unlink: every server *)
(* process has one turn with a request, from its start to the end of the   *)
(* thread it spawns for it.                                                *)

\* Server s, as it runs or is about to, may yet forward r.
MayForward(s, r) ==
  \/ mode[s] = "down"
  \/ ~Published(r)
  \/ Spawnable(s, r)
  \/ \E w \in Workers : Live(w) /\ pc[w] # "reply" /\ owner[w] = s /\ job[w] = r

\* No server that can list the directory spawns a second thread for a request,
\* before or after the first has ended; only a thread of another server may be
\* at work on it as well.
SpawnInv ==
  /\ \A w \in Workers : Live(w) /\ owner[w] \notin RefusedListings => ~Spawnable(owner[w], job[w])
  /\ \A v, w \in Workers :
       Live(v) /\ Live(w) /\ job[v] = job[w] /\ owner[v] = owner[w] /\ owner[v] \notin RefusedListings
         => v = w

PublishInv == \A r \in Requests : reqFile[r] = "ready" => Published(r)

\* A server process that has forwarded a request is through with it.
SentInv ==
  \A s \in Servers \ RefusedListings, r \in Requests :
    sent[s][r] = 0 \/ (sent[s][r] = 1 /\ ~MayForward(s, r))

ManyInv == ServerInv /\ ThreadInv /\ PublishInv /\ SpawnInv

LEMMA ManyInit == Init => ManyInv
  BY DEF Init, ManyInv, ServerInv, ThreadInv, PublishInv, SpawnInv, Live, Published, Spawnable

LEMMA ManyStep ==
  ASSUME TypeOK, ManyInv, [Next]_vars
  PROVE  ManyInv'
<1>. USE DEF ManyInv, Live, Published
<1>0. CASE UNCHANGED vars
  BY <1>0 DEF vars, ServerInv, ThreadInv, PublishInv, SpawnInv, Spawnable
<1>1. ASSUME NEW r \in Requests, WriteTmp(r) PROVE ManyInv'
  BY <1>1 DEF TypeOK, ServerInv, ThreadInv, PublishInv, SpawnInv, Spawnable, WriteTmp, serverVars,
     threadVars
<1>2. ASSUME NEW r \in Requests, Publish(r) PROVE ManyInv'
  <2>1. (ServerInv /\ ThreadInv /\ PublishInv)'
    BY <1>2 DEF TypeOK, ServerInv, ThreadInv, PublishInv, EventsPerFile, Publish, threadVars
  <2>2. SpawnInv'
    BY <1>2 DEF TypeOK, ThreadInv, PublishInv, SpawnInv, Spawnable, Publish, threadVars
  <2> QED
    BY <2>1, <2>2
<1>3. ASSUME NEW r \in Requests, Receive(r) \/ GiveUp(r) PROVE ManyInv'
  <2>1. /\ UNCHANGED <<reqFile, serverVars, threadVars>>
        /\ \A q \in Requests : Published(q) => Published(q)'
    BY <1>3 DEF TypeOK, Receive, GiveUp, fileVars
  <2> QED
    BY <2>1 DEF ServerInv, ThreadInv, PublishInv, SpawnInv, Spawnable, serverVars, threadVars
<1>4. ASSUME NEW r \in Requests, Cleanup(r) PROVE ManyInv'
  BY <1>4 DEF TypeOK, ServerInv, ThreadInv, PublishInv, SpawnInv, Spawnable, Cleanup, RemoveOld,
     serverVars, threadVars
<1>5. ASSUME NEW s \in Servers, Start(s) PROVE ManyInv'
  <2>1. PICK reqs \in SUBSET Requests, resps \in SUBSET Requests :
          /\ RemoveOld(reqs, resps)
          /\ todo' = [todo EXCEPT ![s] = Ready \ reqs] \/ todo' = [todo EXCEPT ![s] = {}]
    BY <1>5 DEF Start
  <2>2. /\ mode[s] = "down" /\ mode' = [mode EXCEPT ![s] = "starting"]
        /\ UNCHANGED <<call, seen, events, threadVars>>
    BY <1>5 DEF Start
  <2>3. \A q \in Requests : /\ reqFile'[q] = "ready" => reqFile[q] = "ready"
                            /\ Published(q) => Published(q)'
    BY <2>1, <2>2 DEF RemoveOld
  <2>4. ServerInv'
    BY <2>1, <2>2, <2>3 DEF TypeOK, ServerInv, PublishInv, Ready
  <2>5. ThreadInv'
    BY <2>2, <2>3 DEF TypeOK, ThreadInv, threadVars
  <2>6. PublishInv'
    BY <2>2, <2>3 DEF PublishInv
  <2>7. SpawnInv'
    BY <2>1, <2>2, <2>3 DEF TypeOK, ThreadInv, SpawnInv, Spawnable, threadVars
  <2> QED
    BY <2>4, <2>5, <2>6, <2>7
<1>6. ASSUME NEW s \in Servers, StartWatching(s) PROVE ManyInv'
  <2>0. /\ \A l \in Listings(s) : l \subseteq Ready
        /\ s \notin RefusedListings => Listings(s) = {Ready}
    BY DEF Listings
  <2>1. ServerInv'
    <3>1. PICK b \in Watchers, l \in SUBSET Ready :
            mode' = [mode EXCEPT ![s] = b] /\ seen' = [seen EXCEPT ![s] = l]
      <4>1. PICK b \in Watchers, l \in Listings(s) :
              /\ mode' = [mode EXCEPT ![s] = b]
              /\ seen' = [seen EXCEPT ![s] = IF b = "polling" THEN l ELSE {}]
        BY <1>6 DEF StartWatching
      <4>2. (IF b = "polling" THEN l ELSE {}) \in SUBSET Ready
        BY <2>0
      <4> QED
        BY <4>1, <4>2
    <3>2. /\ mode[s] = "starting" /\ todo[s] = {}
          /\ UNCHANGED <<call, reqFile, todo, events>>
      BY <1>6 DEF StartWatching, fileVars
    <3>3. \A r \in Requests : /\ events[s][r] = 0
                              /\ r \in l => Published(r)
      BY <3>2, NothingTold DEF PublishInv, Ready
    <3> QED
      BY <3>1, <3>2, <3>3 DEF TypeOK, ServerInv
  <2>2. (ThreadInv /\ PublishInv)'
    BY <1>6, RelayAssumption DEF TypeOK, ThreadInv, PublishInv, StartWatching, fileVars, threadVars
  <2>3. SpawnInv'
    BY <1>6, <2>0 DEF TypeOK, ServerInv, ThreadInv, SpawnInv, Spawnable, Ready, StartWatching,
       fileVars, threadVars
  <2> QED
    BY <2>1, <2>2, <2>3
<1>7. ASSUME NEW s \in Servers, Poll(s) PROVE ManyInv'
  <2>0. /\ \A l \in Listings(s) : l \subseteq Ready
        /\ s \notin RefusedListings => Listings(s) = {Ready}
    BY DEF Listings
  <2>1. (ServerInv /\ ThreadInv /\ PublishInv)'
    BY <1>7, <2>0 DEF TypeOK, ServerInv, ThreadInv, PublishInv, Poll, Ready, fileVars, threadVars
  <2>2. SpawnInv'
    BY <1>7, <2>0 DEF TypeOK, ThreadInv, SpawnInv, Spawnable, Poll, Ready, fileVars, threadVars
  <2> QED
    BY <2>1, <2>2
<1>8. ASSUME NEW s \in Servers, Crash(s) PROVE ManyInv'
  <2>1. (ServerInv /\ PublishInv)'
    BY <1>8 DEF TypeOK, ServerInv, PublishInv, Crash, fileVars
  <2>2. ThreadInv'
    BY <1>8, RelayAssumption DEF TypeOK, ThreadInv, Crash, fileVars
  <2>3. SpawnInv'
    BY <1>8 DEF TypeOK, ThreadInv, SpawnInv, Spawnable, Crash, fileVars
  <2> QED
    BY <2>1, <2>2, <2>3
<1>9. ASSUME NEW s \in Servers, NEW r \in Requests, DropDuplicate(s, r) PROVE ManyInv'
  BY <1>9 DEF TypeOK, ServerInv, ThreadInv, PublishInv, SpawnInv, Spawnable, DropDuplicate,
     fileVars, threadVars
<1>10. ASSUME NEW s \in Servers, NEW w \in Workers, NEW r \in Requests, Spawnable(s, r),
              UNCHANGED <<call, fileVars, mode>>, Spawn(s, w, r),
              \/ ServeListed(s, w, r)
              \/ DeliverEvent(s, w, r)
       PROVE  ManyInv'
  <2>1. Published(r) /\ mode[s] # "down"
    BY <1>10 DEF ServerInv, PublishInv, Spawnable
  <2>2. ServerInv'
    <3>1. UNCHANGED <<call, reqFile, mode>> /\ \A q \in Requests : Published(q)' <=> Published(q)
      BY <1>10 DEF fileVars
    <3>2. CASE ServeListed(s, w, r)
      <4>1. UNCHANGED <<seen, events>> /\ todo' = [todo EXCEPT ![s] = @ \ {r}]
        BY <3>2 DEF ServeListed
      <4> QED
        BY <3>1, <4>1 DEF TypeOK, ServerInv
    <3>3. CASE DeliverEvent(s, w, r)
      <4>1. /\ todo' = todo /\ events[s][r] > 0
            /\ \A t \in Servers, q \in Requests : events'[t][q] > 0 => events[t][q] > 0
            /\ \A t \in Servers, q \in Requests : events[t][q] <= 1 => events'[t][q] <= 1
            /\ seen' = IF mode[s] = "watchdog" THEN [seen EXCEPT ![s] = @ \cup {r}] ELSE seen
        <5>1. /\ events[s][r] > 0 /\ todo' = todo
              /\ events' = [events EXCEPT ![s][r] = events[s][r] - 1]
              /\ seen' = IF mode[s] = "watchdog" THEN [seen EXCEPT ![s] = @ \cup {r}] ELSE seen
          BY <3>3 DEF DeliverEvent
        <5>2. \A t \in Servers, q \in Requests :
                /\ events[t][q] \in 0..2
                /\ events'[t][q] = IF t = s /\ q = r THEN events[t][q] - 1 ELSE events[t][q]
          BY <5>1 DEF TypeOK
        <5> QED
          BY <5>1, <5>2
      <4>2. \A t \in Servers : /\ seen[t] \subseteq seen'[t] /\ seen'[t] \subseteq seen[t] \cup {r}
        BY <4>1 DEF TypeOK
      <4> QED
        BY <2>1, <3>1, <4>1, <4>2 DEF ServerInv
    <3> QED
      BY <1>10, <3>2, <3>3
  <2>3. ThreadInv'
    BY <1>10, <2>1 DEF TypeOK, ThreadInv, Spawn, fileVars
  <2>4. PublishInv'
    BY <1>10 DEF PublishInv, fileVars
  <2>5. \A t \in Servers, q \in Requests :
          Spawnable(t, q)' => Spawnable(t, q) /\ ~(t = s /\ q = r)
    <3>1. UNCHANGED <<reqFile, mode>>
      BY <1>10 DEF fileVars
    <3>2. CASE ServeListed(s, w, r)
      <4>1. UNCHANGED <<seen, events>> /\ todo' = [todo EXCEPT ![s] = @ \ {r}] /\ r \in todo[s]
        BY <3>2 DEF ServeListed
      <4> QED
        BY <3>1, <4>1 DEF TypeOK, ServerInv, Spawnable
    <3>3. CASE DeliverEvent(s, w, r)
      <4>1. /\ todo' = todo /\ events[s][r] > 0
            /\ events' = [events EXCEPT ![s][r] = events[s][r] - 1]
            /\ seen' = IF mode[s] = "watchdog" THEN [seen EXCEPT ![s] = @ \cup {r}] ELSE seen
        BY <3>3 DEF DeliverEvent
      <4>2. /\ mode[s] \in {"inotify", "watchdog"} /\ todo[s] = {}
            /\ mode[s] = "inotify" => events[s][r] = 1
        <5>1. events[s][r] \in 0..2
          BY DEF TypeOK
        <5>2. /\ mode[s] \in {"inotify", "watchdog"} /\ todo[s] = {}
              /\ mode[s] = "inotify" => events[s][r] <= 1
          BY <4>1 DEF ServerInv
        <5> QED
          BY <4>1, <5>1, <5>2
      <4>3. \A t \in Servers, q \in Requests :
                /\ events[t][q] \in 0..2
                /\ events'[t][q] = IF t = s /\ q = r THEN events[t][q] - 1 ELSE events[t][q]
                /\ q \in seen[t] => q \in seen'[t]
                /\ mode[s] = "watchdog" => r \in seen'[s]
        BY <4>1 DEF TypeOK
      <4> QED
        BY <3>1, <4>1, <4>2, <4>3 DEF Spawnable
    <3> QED
      BY <1>10, <3>2, <3>3
  <2>6. s \notin RefusedListings => \A v \in Workers : Live(v) => ~(owner[v] = s /\ job[v] = r)
    BY <1>10 DEF SpawnInv
  <2>7. SpawnInv'
    BY <1>10, <2>5, <2>6 DEF TypeOK, SpawnInv, ThreadInv, Spawn
  <2> QED
    BY <2>2, <2>3, <2>4, <2>7
<1>11. ASSUME NEW s \in Servers, NEW w \in Workers, NEW r \in Requests, ServeListed(s, w, r)
       PROVE  ManyInv'
  BY <1>10, <1>11 DEF Spawnable, ServeListed
<1>12. ASSUME NEW s \in Servers, NEW w \in Workers, NEW r \in Requests, DeliverEvent(s, w, r)
       PROVE  ManyInv'
  BY <1>10, <1>12 DEF ServerInv, Spawnable, DeliverEvent
<1>13. ASSUME NEW w \in Workers, HandlerStep(w) PROVE ManyInv'
  <2>1. /\ UNCHANGED <<call, serverVars>>
        /\ \A q \in Requests : /\ reqFile'[q] = reqFile[q] \/ reqFile'[q] = "none"
                               /\ reqFile'[q] # reqFile[q] => q = job[w] /\ pc[w] = "unlink"
    BY <1>13 DEF TypeOK, HandlerStep, HandlerRead, HandlerUnlink, LeaveUnread, Reject, Forward,
       Refused, Broken, Conclude, Reply, ReplyFails, fileVars
  <2>2. \A v \in Workers :
          IF Live(v)'
          THEN /\ Live(v) /\ job'[v] = job[v] /\ owner'[v] = owner[v]
               /\ out'[v] = "none" <=> pc'[v] # "reply"
          ELSE job'[v] = None /\ owner'[v] = None /\ out'[v] = "none"
    BY <1>13 DEF TypeOK, ThreadInv, HandlerStep, HandlerRead, HandlerUnlink, LeaveUnread, Reject,
       Forward, Refused, Broken, Conclude, Reply, ReplyFails, Finish
  <2>3. \A q \in Requests : Published(q) => Published(q)'
    BY <2>1
  <2>4. ServerInv'
    BY <2>1, <2>3 DEF ServerInv, serverVars
  <2>5. ThreadInv'
    BY <2>1, <2>2, <2>3 DEF ThreadInv, serverVars
  <2>6. PublishInv'
    BY <1>13, <2>1 DEF ThreadInv, PublishInv
  <2>7. SpawnInv'
    BY <2>1, <2>2 DEF ThreadInv, SpawnInv, Spawnable, serverVars
  <2> QED
    BY <2>4, <2>5, <2>6, <2>7
<1> QED
  BY <1>0, <1>1, <1>2, <1>3, <1>4, <1>5, <1>6, <1>7, <1>8, <1>9, <1>11, <1>12, <1>13 DEF Next

\* No step but a server's stop gives it a turn with a request, or makes it
\* forward one without having a turn or with keeping it.
LEMMA TurnStep ==
  ASSUME TypeOK, ManyInv, ManyInv', [Next]_vars,
         NEW t \in Servers \ RefusedListings, NEW q \in Requests
  PROVE  \/ (MayForward(t, q)' => MayForward(t, q)) /\ sent'[t][q] = sent[t][q]
         \/ MayForward(t, q) /\ ~MayForward(t, q)' /\ sent'[t][q] = sent[t][q] + 1
         \/ sent'[t][q] = 0
<1>. USE DEF Live, Published
<1>. DEFINE Kept == (MayForward(t, q)' => MayForward(t, q)) /\ sent'[t][q] = sent[t][q]
<1>0. CASE UNCHANGED vars
  BY <1>0 DEF vars, MayForward, Spawnable
<1>1. ASSUME NEW r \in Requests, WriteTmp(r) PROVE Kept
  BY <1>1 DEF TypeOK, MayForward, Spawnable, WriteTmp, serverVars, threadVars
<1>2. ASSUME NEW r \in Requests, Publish(r) PROVE Kept
  BY <1>2 DEF TypeOK, MayForward, Spawnable, Publish, threadVars
<1>3. ASSUME NEW r \in Requests, Receive(r) \/ GiveUp(r) PROVE Kept
  <2>1. /\ UNCHANGED <<reqFile, serverVars, threadVars, sent>>
        /\ Published(q) => Published(q)'
    BY <1>3 DEF TypeOK, Receive, GiveUp, fileVars
  <2> QED
    BY <2>1 DEF MayForward, Spawnable, serverVars, threadVars
<1>4. ASSUME NEW r \in Requests, Cleanup(r) PROVE Kept
  BY <1>4 DEF TypeOK, MayForward, Spawnable, Cleanup, RemoveOld, serverVars, threadVars
<1>5. ASSUME NEW s \in Servers, Start(s) PROVE Kept
  <2>1. PICK reqs \in SUBSET Requests, resps \in SUBSET Requests :
          /\ RemoveOld(reqs, resps)
          /\ todo' = [todo EXCEPT ![s] = Ready \ reqs] \/ todo' = [todo EXCEPT ![s] = {}]
    BY <1>5 DEF Start
  <2>2. /\ mode[s] = "down" /\ mode' = [mode EXCEPT ![s] = "starting"]
        /\ UNCHANGED <<call, seen, events, threadVars, sent>>
    BY <1>5 DEF Start
  <2>3. (reqFile'[q] = "ready" => reqFile[q] = "ready") /\ (Published(q) => Published(q)')
    BY <2>1, <2>2 DEF RemoveOld
  <2> QED
    BY <2>1, <2>2, <2>3 DEF TypeOK, MayForward, Spawnable, threadVars
<1>6. ASSUME NEW s \in Servers, StartWatching(s) PROVE Kept
  <2>1. Spawnable(t, q)' => Spawnable(t, q)
    BY <1>6 DEF TypeOK, ManyInv, ServerInv, Spawnable, Listings, Ready, StartWatching, fileVars
  <2>2. UNCHANGED <<call, fileVars, threadVars, sent>>
    BY <1>6 DEF StartWatching
  <2>3. mode'[t] = "down" => mode[t] = "down"
    BY <1>6, RelayAssumption DEF TypeOK, StartWatching
  <2> QED
    BY <2>1, <2>2, <2>3 DEF MayForward, fileVars, threadVars
<1>7. ASSUME NEW s \in Servers, Poll(s) PROVE Kept
  BY <1>7 DEF TypeOK, MayForward, Spawnable, Poll, Listings, Ready, fileVars, threadVars
<1>8. ASSUME NEW s \in Servers, Crash(s) PROVE Kept \/ sent'[t][q] = 0
  <2>1. CASE s = t
    BY <1>8, <2>1 DEF TypeOK, Crash
  <2>2. CASE s # t
    BY <1>8, <2>2 DEF TypeOK, MayForward, Spawnable, Crash, fileVars
  <2> QED
    BY <2>1, <2>2
<1>9. ASSUME NEW s \in Servers, NEW r \in Requests, DropDuplicate(s, r) PROVE Kept
  BY <1>9 DEF TypeOK, MayForward, Spawnable, DropDuplicate, fileVars, threadVars
<1>10. ASSUME NEW s \in Servers, NEW w \in Workers, NEW r \in Requests,
              ServeListed(s, w, r) \/ DeliverEvent(s, w, r)
       PROVE  Kept
  <2>1. /\ UNCHANGED <<call, fileVars, mode, sent>> /\ Spawn(s, w, r)
        /\ Spawnable(s, r)
    BY <1>10 DEF ManyInv, ServerInv, Spawnable, ServeListed, DeliverEvent
  <2>2. Spawnable(t, q)' => Spawnable(t, q)
    <3>1. UNCHANGED <<reqFile, mode>>
      BY <2>1 DEF fileVars
    <3>2. /\ q \in todo'[t] => q \in todo[t]
          /\ q \in seen[t] => q \in seen'[t]
          /\ events'[t][q] > 0 => events[t][q] > 0
      <4>1. CASE ServeListed(s, w, r)
        BY <4>1 DEF TypeOK, ServeListed
      <4>2. CASE DeliverEvent(s, w, r)
        BY <4>2 DEF TypeOK, DeliverEvent
      <4> QED
        BY <1>10, <4>1, <4>2
    <3> QED
      BY <3>1, <3>2 DEF Spawnable
  <2> QED
    BY <2>1, <2>2 DEF TypeOK, MayForward, Spawn, fileVars
<1>11. ASSUME NEW w \in Workers,
              HandlerRead(w) \/ HandlerUnlink(w) \/ Reply(w) \/ ReplyFails(w)
       PROVE  Kept
  <2>1. /\ UNCHANGED <<call, serverVars, sent>>
        /\ reqFile'[q] = reqFile[q] \/ reqFile'[q] = "none"
    BY <1>11 DEF TypeOK, HandlerRead, HandlerUnlink, LeaveUnread, Reply, ReplyFails, fileVars
  <2>2. \A v \in Workers : Live(v)' => /\ Live(v) /\ job'[v] = job[v] /\ owner'[v] = owner[v]
                                       /\ pc'[v] # "reply" => pc[v] # "reply"
    BY <1>11 DEF TypeOK, HandlerRead, HandlerUnlink, LeaveUnread, Reply, ReplyFails, Finish
  <2> QED
    BY <2>1, <2>2 DEF MayForward, Spawnable, serverVars
<1>12. ASSUME NEW w \in Workers, NEW a \in Answers, NEW n \in {0, 1}, Conclude(w, a, n)
       PROVE  Kept \/ (MayForward(t, q) /\ ~MayForward(t, q)' /\ sent'[t][q] = sent[t][q] + 1)
  <2>1. /\ UNCHANGED <<call, fileVars, serverVars, owner, job>>
        /\ pc[w] = "dispatch" /\ pc' = [pc EXCEPT ![w] = "reply"]
        /\ sent' = [sent EXCEPT ![owner[w]][job[w]] = @ + n]
    BY <1>12 DEF Conclude
  <2>2. /\ job[w] \in Requests /\ owner[w] \in Servers /\ mode[owner[w]] # "down"
        /\ Published(job[w])
    BY <2>1 DEF ManyInv, ThreadInv
  <2>3. MayForward(t, q)' => MayForward(t, q)
    BY <2>1 DEF TypeOK, MayForward, Spawnable, fileVars, serverVars
  <2>4. CASE q # job[w] \/ t # owner[w] \/ n = 0
    BY <2>1, <2>2, <2>3, <2>4 DEF TypeOK
  <2>5. CASE q = job[w] /\ t = owner[w] /\ n = 1
    <3>1. MayForward(t, q)
      BY <2>1, <2>2, <2>5 DEF MayForward
    <3>2. ~MayForward(t, q)'
      BY <2>1, <2>2, <2>5 DEF TypeOK, ManyInv, SpawnInv, MayForward, Spawnable, fileVars,
         serverVars
    <3>3. sent'[t][q] = sent[t][q] + 1
      BY <2>1, <2>2, <2>5 DEF TypeOK
    <3> QED
      BY <3>1, <3>2, <3>3
  <2> QED
    BY <2>4, <2>5
<1> QED
  BY <1>0, <1>1, <1>2, <1>3, <1>4, <1>5, <1>6, <1>7, <1>8, <1>9, <1>10, <1>11, <1>12
  DEF Next, HandlerStep, Reject, Forward, Refused, Broken

\* However many servers share the directory, and whether or not they can remove
\* what they have read: a server process that can list the directory forwards a
\* request at most once from its start to its stop, be it listed, polled and
\* notified of any number of times (consume_request,
\* _process_existing_requests, watcher.py).
THEOREM OncePerProcess == Spec => []AtMostOncePerProcess
<1>1. TypeOK /\ SentInv => AtMostOncePerProcess
  BY DEF SentInv, AtMostOncePerProcess
<1>2. Init => ManyInv /\ SentInv
  BY ManyInit DEF Init, SentInv
<1>3. TypeOK /\ ManyInv /\ SentInv /\ [Next]_vars => (ManyInv /\ SentInv)'
  <2>. SUFFICES ASSUME TypeOK, ManyInv, ManyInv', SentInv, [Next]_vars,
                       NEW s \in Servers \ RefusedListings, NEW r \in Requests
                PROVE  (sent[s][r] = 0 \/ (sent[s][r] = 1 /\ ~MayForward(s, r)))'
    BY ManyStep DEF SentInv
  <2>1. sent[s][r] = 0 \/ (sent[s][r] = 1 /\ ~MayForward(s, r))
    BY DEF SentInv
  <2>2. \/ (MayForward(s, r)' => MayForward(s, r)) /\ sent'[s][r] = sent[s][r]
        \/ MayForward(s, r) /\ ~MayForward(s, r)' /\ sent'[s][r] = sent[s][r] + 1
        \/ sent'[s][r] = 0
    BY TurnStep
  <2> QED
    BY <2>1, <2>2
<1> QED
  BY <1>1, <1>2, <1>3, Typing, PTL DEF Spec
=============================================================================
