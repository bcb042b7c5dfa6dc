--------------------------- MODULE ExecRelay_proofs ---------------------------
(***************************************************************************)
(* Theorems about ExecRelay, for any number of requests and restarts, any  *)
(* calls and any history of the policy file.                               *)
(***************************************************************************)
EXTENDS ExecRelay, SequenceLemmas

\* A thread before it has something to say.
Working == {"create", "begin", "load", "clear", "insert", "return", "resolve", "lookup",
            "confirm", "run"}

\* The entries of the versions that the file has held since the server started.
Readable == versions \ {Unreadable}
Loadable == UNION {ToSet(v) : v \in Readable}

\* The types of the variables; what the contents of objects, lists and plans
\* are made of is said by PolicyInv and OnlyPolicyRuns.
Types ==
  /\ call \in [Requests -> {"idle", "writing", "waiting", "abandoned", "ok", "failed", "rejected"}]
  /\ asked \in [Requests -> Calls \cup {None}]
  /\ reqFile \in [Requests -> {"none", "tmp", "ready"}]
  /\ respFile \in [Requests -> Replies \cup {"none"}]
  /\ future \in Seq(Versions) /\ future # <<>>
  /\ up \in BOOLEAN
  /\ current \in Requests \cup {None}
  /\ loaded \in [Requests -> BOOLEAN]
  /\ DOMAIN actions = Requests
  /\ pc \in [Requests -> PCs]
  /\ obj \in [Requests -> Requests \cup {None}]
  /\ then \in [Requests -> {"return", "lookup"}]
  /\ DOMAIN unread = Requests
  /\ DOMAIN plan = Requests
  /\ out \in [Requests -> Replies \cup {"none"}]
  /\ executed \in [Requests -> Nat]
  /\ approved \subseteq Requests
  /\ versions \subseteq Versions
  /\ clash \in BOOLEAN
  /\ lost \subseteq Requests
  /\ faults \in 0..MaxFaults

\* A request comes to the server by its file, after it was asked.
FileInv ==
  \A r \in Requests :
    /\ call[r] = "idle" => reqFile[r] = "none"
    /\ reqFile[r] = "tmp" => call[r] \in {"writing", "abandoned"}
    /\ reqFile[r] = "ready" => call[r] \notin {"idle", "writing"}
    /\ call[r] \in {"idle", "writing"} \/ reqFile[r] = "tmp" =>
         pc[r] = "none" /\ respFile[r] = "none" /\ executed[r] = 0

\* It is taken up by a thread, worked on and answered in this order, and executed
\* by the one thread that may then say so.  A file that stays behind once this
\* has begun is one that the server was refused to unlink.
Fresh(r) == call[r] \in {"waiting", "abandoned"} /\ respFile[r] = "none" /\ executed[r] = 0
Refused == UnlinkMayFail /\ faults # 0

OnceInv ==
  \A r \in Requests :
    /\ reqFile[r] = "ready" /\ pc[r] = "none" => Fresh(r)
    /\ reqFile[r] = "ready" => Refused \/ (pc[r] \in {"none", "dead"} /\ Fresh(r))
    /\ pc[r] \in Working \cup {"reply"} => call[r] \in {"waiting", "abandoned"} /\ respFile[r] = "none"
    /\ pc[r] \in Working => executed[r] = 0
    /\ executed[r] \in {0, 1}

\* What a response says of the execution is true, and so is what a thread is
\* about to write.
TruthInv ==
  \A r \in Requests :
    /\ respFile[r] = "exit" => executed[r] = 1
    /\ respFile[r] \in Refusals => executed[r] = 0
    /\ pc[r] = "reply" /\ out[r] = "exit" => executed[r] = 1
    /\ pc[r] = "reply" /\ out[r] \in Refusals => executed[r] = 0

\* A thread has the objects it needs.
ThreadInv ==
  \A r \in Requests :
    /\ pc[r] = "none" => plan[r] = None /\ out[r] = "none"
    /\ plan[r] # None => pc[r] \in {"confirm", "run", "reply", "done", "dead"}
    /\ pc[r] # "none" => up
    /\ pc[r] \in Working \ {"create"} => current # None
    /\ pc[r] \in {"load", "clear", "insert", "resolve", "lookup"} => obj[r] \in Requests
    /\ pc[r] = "lookup" => loaded[obj[r]]

\* An object holds entries of versions since the start, one for each name.
PolicyInv ==
  /\ up => PolicyFile \in versions
  /\ ~up => versions = {}
  /\ \A o \in Requests :
       /\ actions[o] \subseteq Loadable
       /\ \A e, f \in actions[o] : e.name = f.name => e = f
       /\ unread[o] \in Seq(Loadable)

\* As long as nobody emptied an object in use, a loaded object is a version,
\* and an object being loaded has one thread at it, which has yet to insert
\* what it lacks of a version.
LoadInv ==
  ~clash =>
    /\ \A o \in Requests : loaded[o] => \E v \in Readable : actions[o] = ToSet(v)
    /\ \A r \in Requests : pc[r] = "clear" => \E v \in Readable : ToSet(unread[r]) = ToSet(v)
    /\ \A r \in Requests : pc[r] = "insert" =>
         /\ ~loaded[obj[r]]
         /\ \E v \in Readable : actions[obj[r]] \cup ToSet(unread[r]) = ToSet(v)
         /\ \A q \in Requests : pc[q] = "insert" /\ obj[q] = obj[r] => q = r

ExecInv ==
  /\ Types /\ FileInv /\ ThreadInv /\ PolicyInv /\ LoadInv
  /\ OnlyPolicyRuns /\ RefusalsAreThePolicys

-----------------------------------------------------------------------------
\* A thread takes up its request and works on it, or ends.
Acting(r) ==
  \/ RefuseCwd(r) \/ GetPolicy(r) \/ CreatePolicy(r) \/ BeginLoad(r)
  \/ LoadFails(r) \/ LoadReads(r) \/ Clear(r) \/ Insert(r) \/ InsertFails(r) \/ Loaded(r)
  \/ ReturnPolicy(r) \/ Resolve(r) \/ Refuse(r) \/ Accept(r) \/ Approve(r) \/ Decline(r)
  \/ RunCommand(r)
Ending(r) == Reply(r) \/ ThreadFails(r)

\* The steps of the others that concern one request.
Others(r) == Prepare(r) \/ Submit(r) \/ Receive(r) \/ GiveUp(r) \/ Cleanup(r)

\* The thread's steps that load a policy, and those that go by it.
Loading(r) == LoadFails(r) \/ LoadReads(r) \/ Clear(r) \/ Insert(r) \/ InsertFails(r) \/ Loaded(r)
Deciding(r) ==
  \/ CreatePolicy(r) \/ BeginLoad(r) \/ ReturnPolicy(r) \/ Resolve(r)
  \/ Refuse(r) \/ Accept(r) \/ Approve(r) \/ Decline(r)

\* The call that the thread of r resolves, and what it makes of it.
Decided(r) == Decision(actions[obj[r]], asked[r])
Entry(r) == CHOOSE e \in actions[obj[r]] : e.name = asked[r].action
Command(r) == BuildCommand(Entry(r), asked[r].params)

\* What Accept does, without its local names.
LEMMA AcceptStep ==
  ASSUME NEW r, Accept(r)
  PROVE  /\ Decided(r) \in {"allow", "confirm"} /\ ~CannotBuild(Entry(r), asked[r].params)
         /\ \E there \in {"dead", "confirm", "run"} :
              /\ At(r, "lookup", there)
              /\ there = "run" => Decided(r) # "confirm"
         /\ plan' = [plan EXCEPT ![r] = [entry |-> Entry(r), cmd |-> Command(r)]]
         /\ obj' = [obj EXCEPT ![r] = None]
         /\ UNCHANGED <<objectVars, then, unread, out, executed, approved>>
<1>. DEFINE there == IF ~CanBeShown(Command(r)) THEN "dead"
                     ELSE IF Decided(r) = "confirm" THEN "confirm" ELSE "run"
<1>1. /\ Decided(r) \in {"allow", "confirm"} /\ At(r, "lookup", there)
      /\ ~CannotBuild(Entry(r), asked[r].params)
      /\ plan' = [plan EXCEPT ![r] = [entry |-> Entry(r), cmd |-> Command(r)]]
      /\ obj' = [obj EXCEPT ![r] = None]
      /\ UNCHANGED <<objectVars, then, unread, out, executed, approved>>
  BY Zenon DEF Accept, Decided, Entry, Command
<1>2. there \in {"dead", "confirm", "run"} /\ (there = "run" => Decided(r) # "confirm")
  OBVIOUS
<1> QED
  BY <1>1, <1>2, Zenon

\* They lead a thread that works on to further work, to a refusal or to its end.
LEMMA Works ==
  ASSUME Types, NEW r \in Requests, Loading(r) \/ Deciding(r)
  PROVE  /\ UNCHANGED <<call, asked, reqFile, respFile, future, up, versions, executed, faults, lost>>
         /\ pc[r] \in Working
         /\ \/ /\ out' = out
               /\ \E there \in Working \cup {"dead"} : pc' = [pc EXCEPT ![r] = there]
            \/ /\ pc' = [pc EXCEPT ![r] = "reply"]
               /\ \E reply \in Refusals : out' = [out EXCEPT ![r] = reply]
<1>. USE DEF At, clientVars, serverVars, Working, Say
<1>1. CASE LoadFails(r) \/ InsertFails(r)
  BY <1>1 DEF LoadFails, InsertFails, Refusals
<1>2. CASE LoadReads(r) \/ Clear(r) \/ Insert(r)
  BY <1>2 DEF LoadReads, Clear, Insert
<1>3. CASE Loaded(r)
  <2>1. then[r] \in Working \cup {"dead"}
    BY DEF Types
  <2> QED
    BY <1>3, <2>1 DEF Loaded
<1>4. CASE CreatePolicy(r) \/ BeginLoad(r) \/ ReturnPolicy(r)
  BY <1>4 DEF CreatePolicy, BeginLoad, ReturnPolicy
<1>5. CASE Resolve(r)
  BY <1>5 DEF Resolve
<1>6. CASE Refuse(r)
  BY <1>6 DEF Refuse, Refusals
<1>7. CASE Accept(r)
  <2>1. PICK there \in {"dead", "confirm", "run"} : At(r, "lookup", there)
    BY <1>7, AcceptStep
  <2> QED
    BY <1>7, <2>1, AcceptStep
<1>8. CASE Approve(r) \/ Decline(r)
  BY <1>8 DEF Approve, Decline, Refusals
<1> QED
  BY <1>1, <1>2, <1>3, <1>4, <1>5, <1>6, <1>7, <1>8 DEF Loading, Deciding

\* What a removal of old files leaves.
LEMMA Removal ==
  ASSUME Types, NEW reqs \in SUBSET Requests, NEW resps \in SUBSET Requests, RemoveOld(reqs, resps)
  PROVE  /\ reqFile' \in [Requests -> {"none", "tmp", "ready"}]
         /\ respFile' \in [Requests -> Replies \cup {"none"}]
         /\ lost' \subseteq Requests
         /\ \A q \in Requests : /\ reqFile'[q] \in {reqFile[q], "none"}
                                /\ respFile'[q] \in {respFile[q], "none"}
<1>1. lost' \subseteq Requests
  BY DEF RemoveOld, Loses, Types
<1> QED
  BY <1>1 DEF RemoveOld, Types

\* Where a request is, as far as FileInv, OnceInv and TruthInv see it.
Place(r) == <<call[r], reqFile[r], respFile[r], pc[r], out[r], executed[r]>>

\* What the client's steps do, and a cleanup.
LEMMA OthersDo ==
  ASSUME Types, NEW r \in Requests, Others(r)
  PROVE  /\ UNCHANGED <<future, up, current, versions, objectVars, threadVars, executed, approved>>
         /\ faults' \in 0..MaxFaults /\ faults' >= faults
         /\ lost' \subseteq Requests
         /\ call' \in [Requests -> {"idle", "writing", "waiting", "abandoned", "ok", "failed", "rejected"}]
         /\ asked' \in [Requests -> Calls \cup {None}]
         /\ reqFile' \in [Requests -> {"none", "tmp", "ready"}]
         /\ respFile' \in [Requests -> Replies \cup {"none"}]
<1>. USE DEF serverVars
<1>1. faults \in 0..MaxFaults /\ MaxFaults \in Nat
  BY ExecAssumption DEF Types
<1>2. CASE Prepare(r)
  <2>1. CallsOf[r] \subseteq Calls
    BY DEF Calls
  <2> QED
    BY <1>1, <1>2, <2>1 DEF Prepare, Types
<1>3. CASE Submit(r)
  BY <1>1, <1>3 DEF Submit, Types
<1>4. CASE Receive(r)
  <2>1. faults' \in 0..MaxFaults /\ faults' >= faults
    BY <1>1, <1>4 DEF Receive, Fault
  <2> QED
    BY <1>4, <2>1 DEF Receive, Types, Answer
<1>5. CASE GiveUp(r)
  BY <1>1, <1>5 DEF GiveUp, Types
<1>6. CASE Cleanup(r)
  <2>1. RemoveOld({r}, {}) \/ RemoveOld({}, {r})
    BY <1>6 DEF Cleanup
  <2>2. /\ reqFile' \in [Requests -> {"none", "tmp", "ready"}]
        /\ respFile' \in [Requests -> Replies \cup {"none"}]
        /\ lost' \subseteq Requests
    BY <2>1, Removal
  <2> QED
    BY <1>1, <1>6, <2>2 DEF Cleanup, Types, clientVars
<1> QED
  BY <1>2, <1>3, <1>4, <1>5, <1>6 DEF Others

\* What they do to the request.
LEMMA OthersPlace ==
  ASSUME Types, NEW r \in Requests, Others(r)
  PROVE  /\ \A q \in Requests \ {r} : Place(q)' = Place(q)
         /\ pc'[r] = pc[r] /\ out'[r] = out[r] /\ executed'[r] = executed[r]
         /\ \/ /\ call[r] = "idle" /\ call'[r] = "writing" /\ reqFile'[r] = "tmp"
               /\ respFile'[r] = respFile[r]
            \/ /\ call[r] = "writing" /\ reqFile[r] = "tmp"
               /\ call'[r] = "waiting" /\ reqFile'[r] = "ready" /\ respFile'[r] = respFile[r]
            \/ /\ call[r] = "waiting" /\ call'[r] \in {"ok", "failed", "rejected"}
               /\ respFile[r] # "none" /\ reqFile'[r] = reqFile[r]
               /\ respFile'[r] \in {respFile[r], "none"}
            \/ /\ call[r] \in {"writing", "waiting"} /\ call'[r] = "abandoned"
               /\ reqFile'[r] = reqFile[r] /\ respFile'[r] = respFile[r]
            \/ /\ call'[r] = call[r] /\ reqFile'[r] \in {reqFile[r], "none"}
               /\ respFile'[r] \in {respFile[r], "none"}
<1>1. /\ call \in [Requests -> {"idle", "writing", "waiting", "abandoned", "ok", "failed", "rejected"}]
      /\ reqFile \in [Requests -> {"none", "tmp", "ready"}]
      /\ respFile \in [Requests -> Replies \cup {"none"}]
  BY DEF Types
<1>2. UNCHANGED <<pc, out, executed>>
  BY OthersDo DEF threadVars
<1>3. CASE Prepare(r)
  BY <1>1, <1>2, <1>3 DEF Prepare, Place
<1>4. CASE Submit(r)
  BY <1>1, <1>2, <1>4 DEF Submit, Place
<1>5. CASE Receive(r)
  <2>1. respFile'[r] \in {respFile[r], "none"} /\ \A q \in Requests \ {r} : respFile'[q] = respFile[q]
    BY <1>1, <1>5 DEF Receive
  <2>2. Answer(respFile[r]) \in {"ok", "failed", "rejected"}
    BY DEF Answer
  <2>3. /\ call[r] = "waiting" /\ call'[r] = Answer(respFile[r]) /\ respFile[r] # "none"
        /\ reqFile' = reqFile
        /\ \A q \in Requests \ {r} : call'[q] = call[q]
    BY <1>1, <1>5 DEF Receive
  <2> QED
    BY <1>2, <2>1, <2>2, <2>3 DEF Place
<1>6. CASE GiveUp(r)
  BY <1>1, <1>2, <1>6 DEF GiveUp, Place
<1>7. CASE Cleanup(r)
  <2>1. call' = call
    BY <1>7 DEF Cleanup, clientVars
  <2>2. /\ reqFile'[r] \in {reqFile[r], "none"} /\ respFile'[r] \in {respFile[r], "none"}
        /\ \A q \in Requests \ {r} : reqFile'[q] = reqFile[q] /\ respFile'[q] = respFile[q]
    BY <1>7 DEF Cleanup, RemoveOld
  <2> QED
    BY <1>2, <2>1, <2>2 DEF Place
<1> QED
  BY <1>3, <1>4, <1>5, <1>6, <1>7 DEF Others

\* What the end of a thread does.
LEMMA Ends ==
  ASSUME Types, ThreadInv, NEW r \in Requests, Ending(r)
  PROVE  /\ UNCHANGED <<call, asked, future, up, current, versions, objectVars, executed, approved>>
         /\ up
         /\ faults' \in 0..MaxFaults /\ faults' >= faults
         /\ lost' \subseteq Requests
         /\ \E there \in {"done", "dead"} : pc' = [pc EXCEPT ![r] = there]
         /\ out' \in {out, [out EXCEPT ![r] = "none"]}
         /\ plan' \in {plan, [plan EXCEPT ![r] = None]}
         /\ obj' \in {obj, [obj EXCEPT ![r] = None]}
         /\ then' \in {then, [then EXCEPT ![r] = "return"]}
         /\ unread' \in {unread, [unread EXCEPT ![r] = <<>>]}
         /\ reqFile' \in {reqFile, [reqFile EXCEPT ![r] = "none"]}
         /\ respFile' \in {respFile, [respFile EXCEPT ![r] = out[r]]}
<1>. USE DEF serverVars, clientVars
<1>1. faults \in 0..MaxFaults /\ MaxFaults \in Nat /\ (pc[r] = "reply" => up)
  BY ExecAssumption DEF Types, ThreadInv
<1>2. CASE Reply(r)
  BY <1>1, <1>2 DEF Reply, Forget, Types
<1>3. CASE CannotTakeUp(r)
  BY <1>1, <1>3 DEF CannotTakeUp, Loses, Types
<1>4. CASE CannotLookAtCwd(r)
  <2>1. faults' \in 0..MaxFaults /\ faults' >= faults
    BY <1>1, <1>4 DEF CannotLookAtCwd, TakeUp, Fault
  <2> QED
    BY <1>4, <2>1 DEF CannotLookAtCwd, TakeUp, Loses, Types
<1>5. CASE ReplyFails(r)
  BY <1>1, <1>5 DEF ReplyFails, Loses, Forget, Types
<1> QED
  BY <1>2, <1>3, <1>4, <1>5 DEF Ending, ThreadFails

\* What the start of a thread does.
LEMMA Starts ==
  ASSUME Types, NEW r \in Requests, RefuseCwd(r) \/ GetPolicy(r)
  PROVE  /\ UNCHANGED <<call, asked, respFile, future, up, current, versions, objectVars, obj, then,
                        unread, plan, executed, approved>>
         /\ up /\ reqFile[r] = "ready" /\ pc[r] = "none"
         /\ \/ reqFile' = [reqFile EXCEPT ![r] = "none"]
            \/ UnlinkMayFail /\ faults' = faults + 1 /\ reqFile' = reqFile
         /\ faults' \in 0..MaxFaults /\ faults' >= faults
         /\ lost' = lost
         /\ \/ pc' = [pc EXCEPT ![r] = "reply"] /\ out' = [out EXCEPT ![r] = "bad cwd"]
            \/ \E there \in {"create", "return"} : pc' = [pc EXCEPT ![r] = there] /\ out' = out
<1>1. faults \in 0..MaxFaults /\ MaxFaults \in Nat
  BY ExecAssumption DEF Types
<1>2. PICK place : TakeUp(r, place, {})
  BY DEF RefuseCwd, GetPolicy
<1>3. faults' \in 0..MaxFaults /\ faults' >= faults
  BY <1>1, <1>2 DEF TakeUp, Fault
<1>4. lost' = lost
  BY <1>2 DEF TakeUp, Loses
<1>5. /\ UNCHANGED <<call, asked, respFile, future, up, current, versions, objectVars, obj, then,
                        unread, plan, executed, approved>>
      /\ up /\ reqFile[r] = "ready" /\ pc[r] = "none"
      /\ \/ reqFile' = [reqFile EXCEPT ![r] = "none"]
         \/ UnlinkMayFail /\ faults' = faults + 1 /\ reqFile' = reqFile
  BY <1>2 DEF TakeUp, Fault, clientVars
<1>6. \/ pc' = [pc EXCEPT ![r] = "reply"] /\ out' = [out EXCEPT ![r] = "bad cwd"]
      \/ \E there \in {"create", "return"} : pc' = [pc EXCEPT ![r] = there] /\ out' = out
  <2>1. CASE RefuseCwd(r)
    BY <2>1 DEF RefuseCwd, TakeUp, Say
  <2>2. CASE GetPolicy(r)
    BY <2>2 DEF GetPolicy, TakeUp
  <2> QED
    BY <2>1, <2>2
<1> QED
  BY <1>3, <1>4, <1>5, <1>6

\* The same, request by request.
LEMMA StartsOne ==
  ASSUME Types, NEW r \in Requests, RefuseCwd(r) \/ GetPolicy(r)
  PROVE  /\ pc' \in [Requests -> PCs] /\ out' \in [Requests -> Replies \cup {"none"}]
         /\ pc'[r] \in {"create", "return", "reply"}
         /\ pc'[r] = "reply" => out'[r] = "bad cwd"
         /\ reqFile'[r] = "ready" => UnlinkMayFail /\ faults' = faults + 1
         /\ \A q \in Requests \ {r} :
              pc'[q] = pc[q] /\ out'[q] = out[q] /\ reqFile'[q] = reqFile[q]
<1>1. /\ pc \in [Requests -> PCs] /\ out \in [Requests -> Replies \cup {"none"}]
      /\ reqFile \in [Requests -> {"none", "tmp", "ready"}]
  BY DEF Types
<1>2. "reply" \in PCs /\ "create" \in PCs /\ "return" \in PCs /\ "bad cwd" \in Replies
  BY DEF PCs, Replies, Refusals
<1>3. /\ reqFile'[r] = "ready" => UnlinkMayFail /\ faults' = faults + 1
      /\ \A q \in Requests \ {r} : reqFile'[q] = reqFile[q]
  <2>1. \/ reqFile' = [reqFile EXCEPT ![r] = "none"]
        \/ UnlinkMayFail /\ faults' = faults + 1 /\ reqFile' = reqFile
    BY Starts, Zenon
  <2> QED
    BY <1>1, <2>1
<1>4. CASE pc' = [pc EXCEPT ![r] = "reply"] /\ out' = [out EXCEPT ![r] = "bad cwd"]
  BY <1>1, <1>2, <1>3, <1>4
<1>5. CASE \E there \in {"create", "return"} : pc' = [pc EXCEPT ![r] = there] /\ out' = out
  <2>1. PICK there \in {"create", "return"} : pc' = [pc EXCEPT ![r] = there] /\ out' = out
    BY <1>5
  <2> QED
    BY <1>1, <1>2, <1>3, <2>1
<1>6. \/ pc' = [pc EXCEPT ![r] = "reply"] /\ out' = [out EXCEPT ![r] = "bad cwd"]
      \/ \E there \in {"create", "return"} : pc' = [pc EXCEPT ![r] = there] /\ out' = out
  BY Starts, Zenon
<1> QED
  BY <1>4, <1>5, <1>6

-----------------------------------------------------------------------------
\* Types are kept.
LEMMA OthersKeepTypes ==
  ASSUME Types, NEW r \in Requests, Others(r)
  PROVE  Types'
<1>1. /\ UNCHANGED <<future, up, current, versions, objectVars, threadVars, executed, approved>>
      /\ faults' \in 0..MaxFaults
      /\ lost' \subseteq Requests
      /\ call' \in [Requests -> {"idle", "writing", "waiting", "abandoned", "ok", "failed", "rejected"}]
      /\ asked' \in [Requests -> Calls \cup {None}]
      /\ reqFile' \in [Requests -> {"none", "tmp", "ready"}]
      /\ respFile' \in [Requests -> Replies \cup {"none"}]
  BY OthersDo
<1> QED
  BY <1>1 DEF Types, objectVars, threadVars, Calls, Versions

LEMMA ServerKeepsTypes ==
  ASSUME Types, StartServer \/ Crash \/ EditPolicy
  PROVE  Types'
<1>1. PolicyFile \in Versions
  BY HeadTailProperties DEF Types, PolicyFile
<1>2. CASE StartServer
  <2>1. PICK reqs, resps \in SUBSET Requests : RemoveOld(reqs, resps)
    BY <1>2 DEF StartServer
  <2>2. /\ reqFile' \in [Requests -> {"none", "tmp", "ready"}]
        /\ respFile' \in [Requests -> Replies \cup {"none"}]
        /\ lost' \subseteq Requests
    BY <2>1, Removal
  <2>3. /\ UNCHANGED <<clientVars, future, current, objectVars, threadVars, executed, approved, faults>>
        /\ up' = TRUE /\ versions' = {PolicyFile}
    BY <1>2 DEF StartServer
  <2> QED
    BY <1>1, <2>2, <2>3 DEF Types, clientVars, objectVars, threadVars, Calls, Versions
<1>3. CASE EditPolicy
  <2>1. Tail(future) \in Seq(Versions) /\ Tail(future) # <<>>
    <3>1. future \in Seq(Versions) /\ future # <<>> /\ Len(future) > 1
      BY <1>3 DEF EditPolicy, Types
    <3>2. Tail(future) \in Seq(Versions) /\ Len(Tail(future)) = Len(future) - 1 /\ Len(future) \in Nat
      BY <3>1, HeadTailProperties, LenProperties
    <3>3. Len(Tail(future)) # 0 /\ Len(<<>>) = 0
      BY <3>1, <3>2
    <3> QED
      BY <3>2, <3>3, Zenon
  <2>2. Head(Tail(future)) \in Versions
    BY <2>1, HeadTailProperties
  <2>3. future' = Tail(future) /\ versions' \subseteq Versions
    BY <1>3, <2>2 DEF EditPolicy, Types
  <2> QED
    BY <1>3, <2>1, <2>3 DEF EditPolicy, Types, clientVars, objectVars, threadVars, Calls, Versions
<1>4. CASE Crash
  <2>1. /\ faults' \in 0..MaxFaults
        /\ lost' \subseteq Requests
    BY <1>4, ExecAssumption DEF Crash, Fault, Loses, Types
  <2>2. /\ loaded' \in [Requests -> BOOLEAN]
        /\ DOMAIN actions' = Requests
        /\ pc' \in [Requests -> PCs]
        /\ obj' \in [Requests -> Requests \cup {None}]
        /\ then' \in [Requests -> {"return", "lookup"}]
        /\ DOMAIN unread' = Requests
        /\ DOMAIN plan' = Requests
        /\ out' \in [Requests -> Replies \cup {"none"}]
    BY <1>4 DEF Crash, PCs
  <2>3. UNCHANGED <<call, asked, reqFile, respFile, future, executed>> /\ approved' = {}
        /\ up' = FALSE /\ current' = None /\ versions' = {} /\ clash' = FALSE
    BY <1>4 DEF Crash, clientVars
  <2>4. /\ call' \in [Requests -> {"idle", "writing", "waiting", "abandoned", "ok", "failed", "rejected"}]
        /\ asked' \in [Requests -> Calls' \cup {None}]
        /\ reqFile' \in [Requests -> {"none", "tmp", "ready"}]
        /\ respFile' \in [Requests -> Replies \cup {"none"}]
        /\ future' \in Seq(Versions) /\ future' # <<>>
        /\ executed' \in [Requests -> Nat]
        /\ approved' \subseteq Requests
    BY <2>3 DEF Types, Calls
  <2>5. /\ up' \in BOOLEAN /\ clash' \in BOOLEAN /\ current' \in Requests \cup {None}
        /\ versions' \subseteq Versions
    BY <2>3
  <2> QED
    BY <2>1, <2>2, <2>4, <2>5, Zenon DEF Types
<1> QED
  BY <1>2, <1>3, <1>4

LEMMA ThreadKeepsTypes ==
  ASSUME Types, NEW r \in Requests, Acting(r)
  PROVE  Types'
<1>. USE DEF At, Say
<1>1. /\ UNCHANGED <<clientVars, future, up, versions>>
      /\ faults' \in 0..MaxFaults /\ lost' \subseteq Requests
      /\ reqFile' \in [Requests -> {"none", "tmp", "ready"}]
      /\ respFile' \in [Requests -> Replies \cup {"none"}]
      /\ pc' \in [Requests -> PCs]
      /\ out' \in [Requests -> Replies \cup {"none"}]
  <2>1. CASE RefuseCwd(r) \/ GetPolicy(r)
    <3>1. /\ pc \in [Requests -> PCs] /\ out \in [Requests -> Replies \cup {"none"}]
          /\ {"reply", "create", "return"} \subseteq PCs /\ "bad cwd" \in Replies
          /\ reqFile \in [Requests -> {"none", "tmp", "ready"}]
      BY DEF Types, PCs, Replies, Refusals
    <3>2. pc' \in [Requests -> PCs] /\ out' \in [Requests -> Replies \cup {"none"}]
      BY <2>1, StartsOne
    <3>3. reqFile' \in [Requests -> {"none", "tmp", "ready"}]
      BY <2>1, <3>1, Starts
    <3>4. /\ UNCHANGED <<clientVars, respFile, future, up, versions, lost>>
          /\ faults' \in 0..MaxFaults
      BY <2>1, Starts DEF clientVars
    <3> QED
      BY <3>2, <3>3, <3>4 DEF Types
  <2>2. CASE Loading(r) \/ Deciding(r)
    <3>1. UNCHANGED <<clientVars, reqFile, respFile, future, up, versions, lost, faults>>
      BY <2>2, Works DEF clientVars
    <3>2. /\ pc \in [Requests -> PCs] /\ out \in [Requests -> Replies \cup {"none"}]
          /\ Working \cup {"dead", "reply"} \subseteq PCs /\ Refusals \subseteq Replies
      BY DEF Types, Working, PCs, Replies
    <3>3. pc' \in [Requests -> PCs] /\ out' \in [Requests -> Replies \cup {"none"}]
      BY <2>2, <3>2, Works
    <3> QED
      BY <3>1, <3>3 DEF Types
  <2>3. CASE RunCommand(r)
    BY <2>3 DEF RunCommand, Types, PCs, Replies, serverVars
  <2> QED
    BY <2>1, <2>2, <2>3 DEF Acting, Loading, Deciding
<1>2. /\ current' \in Requests \cup {None}
      /\ obj' \in [Requests -> Requests \cup {None}]
      /\ then' \in [Requests -> {"return", "lookup"}]
      /\ executed' \in [Requests -> Nat]
      /\ approved' \subseteq Requests
  <2>1. CASE RefuseCwd(r) \/ GetPolicy(r)
    BY <2>1 DEF RefuseCwd, GetPolicy, TakeUp, Types, serverVars
  <2>2. CASE Loading(r)
    <3>1. UNCHANGED <<current, obj, then, executed, approved>>
      BY <2>2 DEF Loading, LoadFails, LoadReads, Clear, Insert, InsertFails, Loaded, serverVars
    <3> QED
      BY <3>1 DEF Types
  <2>3. CASE CreatePolicy(r) \/ BeginLoad(r) \/ ReturnPolicy(r) \/ Resolve(r)
    <3>1. CASE CreatePolicy(r)
      BY <3>1 DEF CreatePolicy, Types
    <3>2. CASE BeginLoad(r)
      BY <3>2 DEF BeginLoad, Types, serverVars
    <3>3. CASE ReturnPolicy(r)
      BY <3>3 DEF ReturnPolicy, Types, serverVars
    <3>4. CASE Resolve(r)
      BY <3>4 DEF Resolve, Types, serverVars
    <3> QED
      BY <2>3, <3>1, <3>2, <3>3, <3>4
  <2>4. CASE Refuse(r)
    <3>1. obj' = [obj EXCEPT ![r] = None] /\ UNCHANGED <<current, then, executed, approved>>
      BY <2>4 DEF Refuse, serverVars
    <3> QED
      BY <3>1 DEF Types
  <2>5. CASE Accept(r)
    BY <2>5, AcceptStep DEF Types, serverVars
  <2>6. CASE Approve(r) \/ Decline(r)
    BY <2>6 DEF Approve, Decline, Types, serverVars
  <2>8. CASE RunCommand(r)
    <3>1. UNCHANGED <<current, obj, then, approved>>
      BY <2>8 DEF RunCommand, serverVars
    <3>2. executed' = executed \/ executed' = [executed EXCEPT ![r] = @ + 1]
      BY <2>8 DEF RunCommand
    <3>3. executed \in [Requests -> Nat] /\ executed[r] + 1 \in Nat
      BY DEF Types
    <3>4. executed' \in [Requests -> Nat]
      BY <3>2, <3>3
    <3> QED
      BY <3>1, <3>4 DEF Types
  <2> QED
    BY <2>1, <2>2, <2>3, <2>4, <2>5, <2>6, <2>8 DEF Acting, Loading
<1>3. /\ loaded' \in [Requests -> BOOLEAN]
      /\ clash' \in BOOLEAN
  <2>1. CASE Clear(r)
    <3>1. InUse(obj[r], r) \in BOOLEAN
      BY DEF InUse, Types
    <3> QED
      BY <2>1, <3>1 DEF Clear, Types
  <2>2. CASE Loaded(r)
    BY <2>2 DEF Loaded, Types
  <2>3. CASE ~Clear(r) /\ ~Loaded(r)
    <3>1. CASE Accept(r)
      BY <3>1, AcceptStep DEF Types, objectVars
    <3>2. CASE ~Accept(r)
      <4>1. loaded' = loaded /\ clash' = clash
        BY <2>3, <3>2 DEF Acting, RefuseCwd, GetPolicy, TakeUp, CreatePolicy, BeginLoad,
           LoadFails,
           LoadReads, Insert, InsertFails, ReturnPolicy, Resolve, Refuse, Approve, Decline, RunCommand,
           objectVars
      <4> QED
        BY <4>1 DEF Types
    <3> QED
      BY <3>1, <3>2
  <2> QED
    BY <2>1, <2>2, <2>3
<1>4. /\ DOMAIN actions' = Requests
      /\ DOMAIN unread' = Requests
      /\ DOMAIN plan' = Requests
  <2>1. CASE Accept(r)
    BY <2>1, AcceptStep DEF Types, objectVars
  <2>2. CASE Loading(r)
    BY <2>2 DEF Loading, LoadFails, LoadReads, Clear, Insert, InsertFails, Loaded, Types, objectVars
  <2>3. CASE ~Accept(r) /\ ~Loading(r)
    <3>1. actions' = actions /\ unread' = unread /\ plan' = plan
      BY <2>3 DEF Acting, Loading, RefuseCwd, GetPolicy, TakeUp, CreatePolicy, BeginLoad,
         ReturnPolicy, Resolve, Refuse, Approve, Decline, RunCommand, objectVars
    <3> QED
      BY <3>1 DEF Types
  <2> QED
    BY <2>1, <2>2, <2>3
<1> QED
  BY <1>1, <1>2, <1>3, <1>4 DEF Types, clientVars, Calls, Versions

LEMMA EndKeepsTypes ==
  ASSUME Types, ThreadInv, NEW r \in Requests, Ending(r)
  PROVE  Types'
<1>1. /\ UNCHANGED <<call, asked, future, up, current, versions, objectVars, executed, approved>>
      /\ faults' \in 0..MaxFaults /\ lost' \subseteq Requests
  BY Ends, Zenon
<1>2. /\ reqFile' \in [Requests -> {"none", "tmp", "ready"}]
      /\ respFile' \in [Requests -> Replies \cup {"none"}]
  <2>1. /\ reqFile' \in {reqFile, [reqFile EXCEPT ![r] = "none"]}
        /\ respFile' \in {respFile, [respFile EXCEPT ![r] = out[r]]}
    BY Ends, Zenon
  <2>2. /\ reqFile \in [Requests -> {"none", "tmp", "ready"}]
        /\ respFile \in [Requests -> Replies \cup {"none"}]
        /\ out[r] \in Replies \cup {"none"}
    BY DEF Types
  <2> QED
    BY <2>1, <2>2
<1>3. /\ pc' \in [Requests -> PCs]
      /\ out' \in [Requests -> Replies \cup {"none"}]
      /\ obj' \in [Requests -> Requests \cup {None}]
      /\ then' \in [Requests -> {"return", "lookup"}]
  <2>1. {"done", "dead"} \subseteq PCs
    BY DEF PCs
  <2>2. pc \in [Requests -> PCs] /\ out \in [Requests -> Replies \cup {"none"}]
        /\ obj \in [Requests -> Requests \cup {None}] /\ then \in [Requests -> {"return", "lookup"}]
    BY DEF Types
  <2> QED
    BY <2>1, <2>2, Ends
<1>4. DOMAIN unread' = Requests /\ DOMAIN plan' = Requests
  BY Ends DEF Types
<1> QED
  BY <1>1, <1>2, <1>3, <1>4 DEF Types, objectVars, Calls, Versions

-----------------------------------------------------------------------------
\* What a thread has, as far as ThreadInv sees it.
Has(r) == <<pc[r], plan[r], out[r], obj[r]>>

\* A step of one thread keeps ThreadInv if it keeps it for that thread, and
\* unloads nothing.
LEMMA OneThread ==
  ASSUME ThreadInv, NEW r \in Requests,
         \A q \in Requests \ {r} : Has(q)' = Has(q),
         up' = up,
         current # None => current' # None,
         \A o \in Requests : loaded[o] => loaded'[o],
         /\ pc'[r] = "none" => plan'[r] = None /\ out'[r] = "none"
         /\ plan'[r] # None => pc'[r] \in {"confirm", "run", "reply", "done", "dead"}
         /\ pc'[r] # "none" => up
         /\ pc'[r] \in Working \ {"create"} => current' # None
         /\ pc'[r] \in {"load", "clear", "insert", "resolve", "lookup"} => obj'[r] \in Requests
         /\ pc'[r] = "lookup" => loaded'[obj'[r]]
  PROVE  ThreadInv'
<1>1. \A q \in Requests \ {r} :
        pc'[q] = pc[q] /\ plan'[q] = plan[q] /\ out'[q] = out[q] /\ obj'[q] = obj[q]
  BY DEF Has
<1> QED
  BY <1>1 DEF ThreadInv

\* A step changes only its own thread's state.
LEMMA OthersHave ==
  ASSUME Types, NEW r \in Requests, Acting(r)
  PROVE  \A q \in Requests \ {r} : Has(q)' = Has(q)
<1>. SUFFICES ASSUME NEW q \in Requests \ {r}
              PROVE  pc'[q] = pc[q] /\ plan'[q] = plan[q] /\ out'[q] = out[q] /\ obj'[q] = obj[q]
  BY DEF Has
<1>1. /\ pc \in [Requests -> PCs] /\ out \in [Requests -> Replies \cup {"none"}]
      /\ obj \in [Requests -> Requests \cup {None}] /\ DOMAIN plan = Requests
  BY DEF Types
<1>. USE DEF At, Say
<1>2. CASE RefuseCwd(r) \/ GetPolicy(r)
  BY <1>1, <1>2 DEF RefuseCwd, GetPolicy, TakeUp
<1>3. CASE LoadFails(r) \/ LoadReads(r) \/ Clear(r) \/ Insert(r)
  BY <1>1, <1>3 DEF LoadFails, LoadReads, Clear, Insert
<1>4. CASE InsertFails(r) \/ Loaded(r)
  BY <1>1, <1>4 DEF InsertFails, Loaded
<1>5. CASE CreatePolicy(r) \/ BeginLoad(r) \/ ReturnPolicy(r) \/ Resolve(r)
  BY <1>1, <1>5 DEF CreatePolicy, BeginLoad, ReturnPolicy, Resolve
<1>6. CASE Refuse(r)
  BY <1>1, <1>6 DEF Refuse
<1>7. CASE Accept(r)
  BY <1>1, <1>7, AcceptStep
<1>8. CASE Approve(r) \/ Decline(r) \/ RunCommand(r)
  BY <1>1, <1>8 DEF Approve, Decline, RunCommand
<1> QED
  BY <1>2, <1>3, <1>4, <1>5, <1>6, <1>7, <1>8 DEF Acting

\* The steps of the threads give each what it needs next.
LEMMA ThreadKeepsThread ==
  ASSUME Types, ThreadInv, NEW r \in Requests, Acting(r)
  PROVE  ThreadInv'
<1>1. /\ pc \in [Requests -> PCs] /\ out \in [Requests -> Replies \cup {"none"}]
      /\ obj \in [Requests -> Requests \cup {None}] /\ DOMAIN plan = Requests
      /\ loaded \in [Requests -> BOOLEAN] /\ then \in [Requests -> {"return", "lookup"}]
      /\ current \in Requests \cup {None} /\ None \notin Requests
  BY ExecAssumption DEF Types
<1>2. /\ pc[r] # "none" => up
      /\ pc[r] \notin {"confirm", "run", "reply", "done", "dead"} => plan[r] = None
      /\ pc[r] \in {"load", "clear", "insert", "resolve", "lookup"} => obj[r] \in Requests
      /\ pc[r] \in Working \ {"create"} => current # None
      /\ pc[r] = "lookup" => loaded[obj[r]]
  BY DEF ThreadInv
<1>3. \A q \in Requests \ {r} : Has(q)' = Has(q)
  BY OthersHave
<1>. USE DEF At, Say, Working
<1>4. CASE RefuseCwd(r) \/ GetPolicy(r)
  <2>1. /\ up /\ plan[r] = None /\ UNCHANGED <<up, current, loaded, plan>>
        /\ pc'[r] \in {"create", "return", "reply"}
        /\ pc'[r] = "return" => current # None
    BY <1>1, <1>2, <1>4 DEF RefuseCwd, GetPolicy, TakeUp, serverVars, objectVars
  <2> QED
    BY <1>3, <2>1, OneThread
<1>5. CASE CreatePolicy(r)
  BY <1>1, <1>2, <1>3, <1>5, OneThread DEF CreatePolicy, objectVars
<1>6. CASE BeginLoad(r)
  BY <1>1, <1>2, <1>3, <1>6, OneThread DEF BeginLoad, serverVars, objectVars
<1>7. CASE LoadFails(r) \/ InsertFails(r)
  BY <1>1, <1>2, <1>3, <1>7, OneThread DEF LoadFails, InsertFails, serverVars, objectVars
<1>8. CASE LoadReads(r) \/ Clear(r) \/ Insert(r)
  BY <1>1, <1>2, <1>3, <1>8, OneThread DEF LoadReads, Clear, Insert, serverVars, objectVars
<1>9. CASE Loaded(r)
  BY <1>1, <1>2, <1>3, <1>9, OneThread DEF Loaded, serverVars
<1>10. CASE ReturnPolicy(r)
  BY <1>1, <1>2, <1>3, <1>10, OneThread DEF ReturnPolicy, serverVars, objectVars
<1>11. CASE Resolve(r)
  BY <1>1, <1>2, <1>3, <1>11, OneThread DEF Resolve, serverVars, objectVars
<1>12. CASE Refuse(r)
  BY <1>1, <1>2, <1>3, <1>12, OneThread DEF Refuse, serverVars, objectVars
<1>13. CASE Accept(r)
  <2>1. PICK there \in {"dead", "confirm", "run"} : At(r, "lookup", there)
    BY <1>13, AcceptStep
  <2>2. UNCHANGED <<up, current, loaded>> /\ pc'[r] = there /\ up
    BY <1>1, <1>2, <1>13, <2>1, AcceptStep DEF serverVars, objectVars
  <2>3. there = "run" => current' # None
    BY <1>2, <2>1, <2>2
  <2>4. there = "confirm" => current' # None
    BY <1>2, <2>1, <2>2
  <2> QED
    BY <1>3, <2>2, <2>3, <2>4, OneThread
<1>14. CASE Approve(r) \/ Decline(r)
  BY <1>1, <1>2, <1>3, <1>14, OneThread DEF Approve, Decline, serverVars, objectVars
<1>15. CASE RunCommand(r)
  BY <1>1, <1>2, <1>3, <1>15, OneThread DEF RunCommand, serverVars, objectVars
<1> QED
  BY <1>4, <1>5, <1>6, <1>7, <1>8, <1>9, <1>10, <1>11, <1>12, <1>13, <1>14, <1>15
     DEF Acting

\* The others leave the threads and their objects as they are.
LEMMA OtherLeaves ==
  ASSUME Types, (\E r \in Requests : Others(r)) \/ StartServer \/ EditPolicy
  PROVE  UNCHANGED <<current, objectVars, threadVars, executed, approved>>
<1>1. CASE \E r \in Requests : Others(r)
  BY <1>1, OthersDo
<1>2. CASE StartServer \/ EditPolicy
  BY <1>2 DEF StartServer, EditPolicy
<1> QED
  BY <1>1, <1>2

\* What is asked for is asked for once.
LEMMA AskedOnce ==
  ASSUME Types, FileInv, ThreadInv,
         (\E r \in Requests : Others(r)) \/ StartServer \/ EditPolicy, NEW q \in Requests
  PROVE  asked'[q] = asked[q] \/ (pc[q] = "none" /\ plan[q] = None /\ out[q] = "none")
<1>1. CASE \E r \in Requests : Prepare(r)
  <2>1. PICK r \in Requests : Prepare(r)
    BY <1>1
  <2>2. CASE q = r
    <3>1. pc[q] = "none"
      BY <2>1, <2>2 DEF Prepare, FileInv
    <3> QED
      BY <3>1 DEF ThreadInv
  <2>3. CASE q # r
    BY <2>1, <2>3 DEF Prepare, Types
  <2> QED
    BY <2>2, <2>3
<1>2. CASE ~\E r \in Requests : Prepare(r)
  BY <1>2 DEF Others, Submit, Receive, GiveUp, Cleanup, StartServer, EditPolicy, clientVars
<1> QED
  BY <1>1, <1>2

\* So do those of the others.
LEMMA OtherKeepsThread ==
  ASSUME Types, ThreadInv,
         \/ \E r \in Requests : Others(r)
         \/ StartServer \/ Crash \/ EditPolicy
  PROVE  ThreadInv'
<1>1. CASE Crash
  <2>1. \A r \in Requests : pc'[r] = "none" /\ plan'[r] = None /\ out'[r] = "none"
    BY <1>1 DEF Crash
  <2> QED
    BY <2>1 DEF ThreadInv, Working
<1>2. CASE StartServer
  <2>1. up' = TRUE /\ UNCHANGED <<pc, plan, out, obj, current, loaded>>
    BY <1>2 DEF StartServer, threadVars, objectVars
  <2> QED
    BY <2>1 DEF ThreadInv
<1>3. CASE ~Crash /\ ~StartServer
  <2>1. UNCHANGED <<pc, plan, out, obj, current, loaded>>
    BY <1>3, OtherLeaves DEF threadVars, objectVars
  <2>2. up' = up
    BY <1>3, OthersDo DEF EditPolicy
  <2> QED
    BY <2>1, <2>2 DEF ThreadInv
<1> QED
  BY <1>1, <1>2, <1>3

\* And the end of a thread.
LEMMA EndKeepsThread ==
  ASSUME Types, ThreadInv, NEW r \in Requests, Ending(r)
  PROVE  ThreadInv'
<1>1. /\ pc \in [Requests -> PCs] /\ out \in [Requests -> Replies \cup {"none"}]
      /\ obj \in [Requests -> Requests \cup {None}] /\ DOMAIN plan = Requests
  BY DEF Types
<1>2. /\ UNCHANGED <<up, current, loaded>> /\ up
      /\ pc'[r] \in {"done", "dead"}
  BY <1>1, Ends DEF objectVars
<1>3. ASSUME NEW q \in Requests \ {r} PROVE Has(q)' = Has(q)
  <2>1. pc'[q] = pc[q]
    BY <1>1, Ends
  <2>2. out'[q] = out[q] /\ plan'[q] = plan[q] /\ obj'[q] = obj[q]
    BY <1>1, Ends
  <2> QED
    BY <2>1, <2>2 DEF Has
<1> QED
  BY <1>2, <1>3, OneThread DEF Working

-----------------------------------------------------------------------------
\* If names are distinct, the entry with the name decides, alone or among others.
LEMMA NamedEntryDecides ==
  ASSUME NEW entries, NEW c, \A e, f \in entries : e.name = f.name => e = f,
         \E e \in entries : e.name = c.action
  PROVE  LET e == CHOOSE x \in entries : x.name = c.action
         IN  /\ e \in entries /\ e.name = c.action
             /\ Decision(entries, c) = Decision({e}, c)
<1>. DEFINE found == {e \in entries : e.name = c.action}
            e == CHOOSE x \in entries : x.name = c.action
            first == CHOOSE x \in found : TRUE
<1>1. e \in entries /\ e.name = c.action
  OBVIOUS
<1>2. first = e /\ found # {}
  <2>1. first \in found
    BY <1>1
  <2> QED
    BY <1>1, <2>1
<1>3. {x \in {e} : x.name = c.action} = {e} /\ (CHOOSE x \in {e} : TRUE) = e /\ {e} # {}
  BY <1>1
<1>4. Decision(entries, c) =
        IF e.level = "deny" THEN "denied"
        ELSE IF c.cwd \in Dotted \/ (e.dirs # {} /\ c.cwd \notin e.dirs) THEN "elsewhere"
        ELSE IF ~ValidParams(e, c.params) THEN "params" ELSE e.level
  BY <1>2 DEF Decision
<1>5. Decision({e}, c) =
        IF e.level = "deny" THEN "denied"
        ELSE IF c.cwd \in Dotted \/ (e.dirs # {} /\ c.cwd \notin e.dirs) THEN "elsewhere"
        ELSE IF ~ValidParams(e, c.params) THEN "params" ELSE e.level
  BY <1>3 DEF Decision
<1> QED
  BY <1>1, <1>4, <1>5

\* Without an entry of the name, the action is unknown.
LEMMA UnknownDecision ==
  ASSUME NEW entries, NEW c, ~\E e \in entries : e.name = c.action
  PROVE  Decision(entries, c) = "unknown"
<1>1. {e \in entries : e.name = c.action} = {}
  OBVIOUS
<1> QED
  BY <1>1 DEF Decision

\* What is admitted is admitted with the level of the entry and has valid parameters.
LEMMA AdmittedLevel ==
  ASSUME NEW e, NEW c, e.name = c.action, Decision({e}, c) \in {"allow", "confirm"}
  PROVE  Decision({e}, c) = e.level /\ ValidParams(e, c.params)
<1>1. {x \in {e} : x.name = c.action} = {e} /\ (CHOOSE x \in {e} : TRUE) = e /\ {e} # {}
  OBVIOUS
<1>2. Decision({e}, c) =
        IF e.level = "deny" THEN "denied"
        ELSE IF c.cwd \in Dotted \/ (e.dirs # {} /\ c.cwd \notin e.dirs) THEN "elsewhere"
        ELSE IF ~ValidParams(e, c.params) THEN "params" ELSE e.level
  BY <1>1 DEF Decision
<1> QED
  BY <1>2

-----------------------------------------------------------------------------
\* A sequence is one of its own elements.
LEMMA SeqOfItsOwn ==
  ASSUME NEW S, NEW s \in Seq(S)
  PROVE  s \in Seq(ToSet(s)) /\ ToSet(s) \subseteq S
<1>1. Len(s) \in Nat /\ DOMAIN s = 1..Len(s) /\ \A i \in 1..Len(s) : s[i] \in S
  BY LenProperties, ElementOfSeq
<1>2. s = [i \in 1..Len(s) |-> s[i]]
  BY <1>1, LenProperties
<1>3. s \in [1..Len(s) -> ToSet(s)]
  BY <1>1, <1>2 DEF ToSet
<1>4. s \in Seq(ToSet(s))
  BY <1>1, <1>3, SeqDef
<1> QED
  BY <1>1, <1>4 DEF ToSet

\* What a longer history of the file holds.
LEMMA MoreVersions ==
  ASSUME versions \subseteq versions'
  PROVE  Readable \subseteq Readable' /\ Loadable \subseteq Loadable'
  BY DEF Readable, Loadable

\* The policy in the file can be loaded, once the server has seen it.
LEMMA PolicyIsLoadable ==
  ASSUME Types, PolicyInv, up, PolicyFile # Unreadable
  PROVE  PolicyFile \in Readable /\ PolicyFile \in Seq(Loadable)
<1>1. PolicyFile \in Readable
  BY DEF PolicyInv, Readable
<1>2. PolicyFile \in Seq(Entries)
  <2>1. PolicyFile \in Versions
    BY HeadTailProperties DEF Types, PolicyFile
  <2> QED
    BY <2>1, PolicyAssumption
<1>3. ToSet(PolicyFile) \subseteq Loadable
  BY <1>1 DEF Loadable
<1> QED
  BY <1>1, <1>2, <1>3, SeqOfItsOwn, SeqMonotonic

\* Objects change by the threads that load them only.
LEMMA ObjectsChange ==
  ASSUME NEW r, Acting(r), ~LoadReads(r), ~Clear(r), ~Insert(r)
  PROVE  actions' = actions /\ unread' = unread
<1>1. CASE Accept(r)
  BY <1>1, AcceptStep DEF objectVars
<1>2. CASE ~Accept(r)
  BY <1>2 DEF Acting, RefuseCwd, GetPolicy, TakeUp, CreatePolicy, BeginLoad, LoadFails,
     InsertFails,
     Loaded, ReturnPolicy, Resolve, Refuse, Approve, Decline, RunCommand, objectVars
<1> QED
  BY <1>1, <1>2

\* Nor do they touch the history of the file.
LEMMA ThreadsKeepVersions ==
  ASSUME Types, NEW r \in Requests, Acting(r)
  PROVE  UNCHANGED <<up, future, versions, asked>>
<1>1. CASE Loading(r) \/ Deciding(r)
  BY <1>1, Works
<1>2. CASE RefuseCwd(r) \/ GetPolicy(r) \/ RunCommand(r)
  BY <1>2 DEF RefuseCwd, GetPolicy, TakeUp, RunCommand, At, clientVars, serverVars
<1> QED
  BY <1>1, <1>2 DEF Acting, Loading, Deciding

\* Threads put entries of the file in objects, one for each name.
LEMMA ThreadKeepsPolicy ==
  ASSUME Types, ThreadInv, PolicyInv, NEW r \in Requests, Acting(r)
  PROVE  PolicyInv'
<1>1. UNCHANGED <<up, future, versions>>
  BY ThreadsKeepVersions
<1>2. Loadable' = Loadable /\ PolicyFile' = PolicyFile
  BY <1>1 DEF Loadable, Readable, PolicyFile
<1>3. DOMAIN actions = Requests /\ DOMAIN unread = Requests
  BY DEF Types
<1>. SUFFICES ASSUME NEW o \in Requests
              PROVE  /\ actions'[o] \subseteq Loadable
                     /\ \A e, f \in actions'[o] : e.name = f.name => e = f
                     /\ unread'[o] \in Seq(Loadable)
  BY <1>1, <1>2 DEF PolicyInv
<1>4. /\ actions[o] \subseteq Loadable
      /\ \A e, f \in actions[o] : e.name = f.name => e = f
      /\ unread[o] \in Seq(Loadable)
  BY DEF PolicyInv
<1>5. CASE LoadReads(r)
  <2>1. PolicyFile # Unreadable /\ actions' = actions /\ unread' = [unread EXCEPT ![r] = PolicyFile]
        /\ pc[r] = "load"
    BY <1>5 DEF LoadReads, At, objectVars
  <2>2. PolicyFile \in Seq(Loadable)
    BY <2>1, PolicyIsLoadable DEF ThreadInv
  <2>3. unread'[o] = PolicyFile \/ unread'[o] = unread[o]
    BY <1>3, <2>1
  <2> QED
    BY <1>4, <2>1, <2>2, <2>3
<1>6. CASE Clear(r)
  <2>1. actions' = [actions EXCEPT ![obj[r]] = {}] /\ unread' = unread
    BY <1>6 DEF Clear
  <2>2. actions'[o] = {} \/ actions'[o] = actions[o]
    BY <1>3, <2>1
  <2> QED
    BY <1>4, <2>1, <2>2
<1>7. CASE Insert(r)
  <2>. DEFINE new == Head(unread[r])
              old == actions[obj[r]]
              both == {e \in old : e.name # new.name} \cup {new}
  <2>1. /\ unread[r] # <<>> /\ pc[r] = "insert"
        /\ unread' = [unread EXCEPT ![r] = Tail(unread[r])]
        /\ actions' = [actions EXCEPT ![obj[r]] = both]
    BY <1>7 DEF Insert, At
  <2>2. obj[r] \in Requests /\ unread[r] \in Seq(Loadable)
    BY <2>1 DEF ThreadInv, PolicyInv
  <2>3. new \in Loadable /\ Tail(unread[r]) \in Seq(Loadable)
    BY <2>1, <2>2, HeadTailProperties
  <2>4. /\ old \subseteq Loadable
        /\ \A e, f \in old : e.name = f.name => e = f
    BY <2>2 DEF PolicyInv
  <2>. HIDE DEF new, old
  <2>5. /\ both \subseteq Loadable
        /\ \A e, f \in both : e.name = f.name => e = f
    BY <2>3, <2>4
  <2>. HIDE DEF both
  <2>6. actions'[o] = both \/ actions'[o] = actions[o]
    BY <1>3, <2>1
  <2>7. unread'[o] = Tail(unread[r]) \/ unread'[o] = unread[o]
    BY <1>3, <2>1
  <2>8. actions'[o] \subseteq Loadable /\ \A e, f \in actions'[o] : e.name = f.name => e = f
    BY <1>4, <2>5, <2>6
  <2>9. unread'[o] \in Seq(Loadable)
    BY <1>4, <2>3, <2>7
  <2> QED
    BY <2>8, <2>9
<1>8. CASE ~LoadReads(r) /\ ~Clear(r) /\ ~Insert(r)
  BY <1>4, <1>8, ObjectsChange
<1> QED
  BY <1>5, <1>6, <1>7, <1>8

\* The other steps only make the history longer, or end it.
LEMMA OtherKeepsPolicy ==
  ASSUME Types, PolicyInv,
         \/ \E r \in Requests : Others(r)
         \/ StartServer \/ Crash \/ EditPolicy
  PROVE  PolicyInv' /\ (~Crash => versions \subseteq versions')
<1>1. CASE Crash
  <2>1. /\ versions' = {} /\ up' = FALSE
        /\ \A o \in Requests : actions'[o] = {} /\ unread'[o] = <<>>
    BY <1>1 DEF Crash
  <2>2. <<>> \in Seq(Loadable')
    OBVIOUS
  <2> QED
    BY <1>1, <2>1, <2>2 DEF PolicyInv
<1>2. CASE ~Crash
  <2>1. UNCHANGED <<actions, unread>>
    BY <1>2, OtherLeaves DEF objectVars, threadVars
  <2>2. /\ versions \subseteq versions'
        /\ up' => PolicyFile' \in versions'
        /\ ~up' => versions' = {}
    <3>1. CASE StartServer
      BY <3>1 DEF StartServer, PolicyInv, PolicyFile
    <3>2. CASE EditPolicy
      BY <3>2 DEF EditPolicy, PolicyInv, PolicyFile
    <3>3. CASE ~StartServer /\ ~EditPolicy
      <4>1. UNCHANGED <<up, versions, future>>
        BY <1>2, <3>3, OthersDo
      <4> QED
        BY <4>1 DEF PolicyInv, PolicyFile
    <3> QED
      BY <3>1, <3>2, <3>3
  <2>3. Loadable \subseteq Loadable'
    BY <2>2, MoreVersions
  <2>4. ASSUME NEW o \in Requests PROVE unread'[o] \in Seq(Loadable')
    BY <2>1, <2>3, SeqMonotonic DEF PolicyInv
  <2> QED
    BY <2>1, <2>2, <2>3, <2>4 DEF PolicyInv
<1> QED
  BY <1>1, <1>2

\* A thread that ends has read all it will.
LEMMA EndKeepsPolicy ==
  ASSUME Types, ThreadInv, PolicyInv, NEW r \in Requests, Ending(r)
  PROVE  PolicyInv'
<1>1. UNCHANGED <<up, future, versions, actions>>
  BY Ends DEF objectVars
<1>2. Loadable' = Loadable /\ PolicyFile' = PolicyFile
  BY <1>1 DEF Loadable, Readable, PolicyFile
<1>3. ASSUME NEW o \in Requests PROVE unread'[o] \in Seq(Loadable)
  <2>1. unread'[o] = unread[o] \/ unread'[o] = <<>>
    BY Ends DEF Types
  <2> QED
    BY <2>1, EmptySeq DEF PolicyInv
<1> QED
  BY <1>1, <1>2, <1>3 DEF PolicyInv

-----------------------------------------------------------------------------
\* A plan is made by Accept; a command runs after it was admitted to, or allowed.
LEMMA ThreadKeepsPlans ==
  ASSUME Types, ThreadInv, PolicyInv, OnlyPolicyRuns, NEW r \in Requests, Acting(r)
  PROVE  OnlyPolicyRuns'
<1>1. UNCHANGED <<versions, asked>>
  BY ThreadsKeepVersions
<1>2. \A q \in Requests \ {r} : plan'[q] = plan[q] /\ pc'[q] = pc[q]
  BY OthersHave DEF Has
<1>3. approved \subseteq approved'
  <2>1. CASE Accept(r)
    BY <2>1, AcceptStep
  <2>2. CASE ~Accept(r)
    BY <2>2 DEF Acting, RefuseCwd, GetPolicy, TakeUp, CreatePolicy, BeginLoad, LoadFails,
       LoadReads,
       Clear, Insert, InsertFails, Loaded, ReturnPolicy, Resolve, Refuse, Approve, Decline,
       RunCommand
  <2> QED
    BY <2>1, <2>2
<1>4. plan'[r] # None =>
        /\ \E v \in Readable : plan'[r].entry \in ToSet(v)
        /\ Decision({plan'[r].entry}, asked[r]) = plan'[r].entry.level
        /\ pc'[r] = "run" /\ plan'[r].entry.level = "confirm" => r \in approved'
  <2>1. CASE Accept(r)
    <3>1. PICK there \in {"dead", "confirm", "run"} :
            At(r, "lookup", there) /\ (there = "run" => Decided(r) # "confirm")
      BY <2>1, AcceptStep
    <3>2. /\ plan'[r] = [entry |-> Entry(r), cmd |-> Command(r)]
          /\ Decided(r) \in {"allow", "confirm"}
          /\ pc[r] = "lookup" /\ pc'[r] = there
      <4>1. /\ plan' = [plan EXCEPT ![r] = [entry |-> Entry(r), cmd |-> Command(r)]]
            /\ Decided(r) \in {"allow", "confirm"}
        BY <2>1, AcceptStep
      <4>2. DOMAIN plan = Requests /\ pc \in [Requests -> PCs]
        BY DEF Types
      <4>3. plan'[r] = [entry |-> Entry(r), cmd |-> Command(r)]
        BY <4>1, <4>2
      <4> QED
        BY <3>1, <4>1, <4>2, <4>3 DEF At
    <3>3. /\ actions[obj[r]] \subseteq Loadable
          /\ \A e, f \in actions[obj[r]] : e.name = f.name => e = f
      BY <3>2 DEF ThreadInv, PolicyInv
    <3>4. \E e \in actions[obj[r]] : e.name = asked[r].action
      BY <3>2, UnknownDecision DEF Decided
    <3>5. /\ Entry(r) \in actions[obj[r]] /\ Entry(r).name = asked[r].action
          /\ Decided(r) = Decision({Entry(r)}, asked[r])
      BY <3>3, <3>4, NamedEntryDecides DEF Entry, Decided
    <3>6. Decision({Entry(r)}, asked[r]) = Entry(r).level
      BY <3>2, <3>5, AdmittedLevel
    <3>7. \E v \in Readable : Entry(r) \in ToSet(v)
      BY <3>3, <3>5 DEF Loadable
    <3>9. pc'[r] = "run" => Entry(r).level # "confirm"
      BY <3>1, <3>2, <3>5, <3>6
    <3>10. plan'[r].entry = Entry(r)
      BY <3>2
    <3> QED
      BY <3>6, <3>7, <3>9, <3>10
  <2>2. CASE Approve(r)
    <3>1. plan'[r] = plan[r] /\ r \in approved'
      BY <2>2 DEF Approve
    <3> QED
      BY <3>1 DEF OnlyPolicyRuns, Readable
  <2>3. CASE ~Accept(r) /\ ~Approve(r)
    <3>1. plan' = plan
      BY <2>3 DEF Acting, RefuseCwd, GetPolicy, TakeUp, CreatePolicy, BeginLoad, LoadFails,
         LoadReads, Clear, Insert, InsertFails, Loaded, ReturnPolicy, Resolve, Refuse, Decline,
         RunCommand
    <3>2. pc'[r] # "run"
      <4>1. pc \in [Requests -> PCs] /\ then[r] # "run"
        BY DEF Types
      <4>2. CASE Loading(r)
        BY <4>1, <4>2 DEF Loading, LoadFails, LoadReads, Clear, Insert, InsertFails, Loaded, At
      <4>3. CASE CreatePolicy(r) \/ BeginLoad(r) \/ ReturnPolicy(r) \/ Resolve(r)
        BY <4>1, <4>3 DEF CreatePolicy, BeginLoad, ReturnPolicy, Resolve, At
      <4>4. CASE Refuse(r)
        BY <4>1, <4>4 DEF Refuse, At
      <4>5. CASE RefuseCwd(r) \/ GetPolicy(r) \/ Decline(r) \/ RunCommand(r)
        BY <4>1, <4>5 DEF RefuseCwd, GetPolicy, TakeUp, Decline, RunCommand, At
      <4> QED
        BY <2>3, <4>2, <4>3, <4>4, <4>5 DEF Acting, Loading
    <3> QED
      BY <1>3, <3>1, <3>2 DEF OnlyPolicyRuns, Readable
  <2> QED
    BY <2>1, <2>2, <2>3
<1> QED
  BY <1>1, <1>2, <1>3, <1>4 DEF OnlyPolicyRuns, Readable

LEMMA OtherKeepsPlans ==
  ASSUME Types, FileInv, ThreadInv, PolicyInv, OnlyPolicyRuns,
         \/ \E r \in Requests : Others(r)
         \/ StartServer \/ Crash \/ EditPolicy
  PROVE  OnlyPolicyRuns'
<1>1. CASE Crash
  <2>1. \A r \in Requests : plan'[r] = None
    BY <1>1 DEF Crash
  <2> QED
    BY <2>1 DEF OnlyPolicyRuns
<1>2. CASE ~Crash
  <2>1. UNCHANGED <<plan, pc, approved>>
    BY <1>2, OtherLeaves DEF threadVars
  <2>2. versions \subseteq versions'
    BY <1>2, OtherKeepsPolicy
  <2>3. \A r \in Requests : plan[r] # None => asked'[r] = asked[r]
    BY <1>2, AskedOnce
  <2> QED
    BY <2>1, <2>2, <2>3 DEF OnlyPolicyRuns
<1> QED
  BY <1>1, <1>2

LEMMA EndKeepsPlans ==
  ASSUME Types, ThreadInv, OnlyPolicyRuns, NEW r \in Requests, Ending(r)
  PROVE  OnlyPolicyRuns'
<1>1. UNCHANGED <<versions, asked, approved>>
  BY Ends
<1>2. ASSUME NEW q \in Requests
      PROVE  (plan'[q] = plan[q] \/ plan'[q] = None) /\ (pc'[q] = "run" => pc[q] = "run")
  <2>1. pc'[q] = "run" => pc[q] = "run"
    BY Ends DEF Types
  <2>2. plan'[q] = plan[q] \/ plan'[q] = None
    BY Ends DEF Types
  <2> QED
    BY <2>1, <2>2
<1> QED
  BY <1>1, <1>2 DEF OnlyPolicyRuns

-----------------------------------------------------------------------------
\* A sequence has its head and what its tail has.
LEMMA SetOfHeadAndTail ==
  ASSUME NEW S, NEW s \in Seq(S), s # <<>>
  PROVE  ToSet(s) = {Head(s)} \cup ToSet(Tail(s))
<1>1. /\ Len(s) \in Nat \ {0} /\ DOMAIN s = 1..Len(s) /\ Head(s) = s[1]
      /\ Tail(s) \in Seq(S) /\ Len(Tail(s)) = Len(s) - 1
      /\ \A i \in 1..Len(Tail(s)) : Tail(s)[i] = s[i + 1]
  BY EmptySeq, LenProperties, HeadTailProperties
<1>2. DOMAIN Tail(s) = 1..Len(Tail(s))
  BY <1>1, LenProperties
<1>3. ASSUME NEW x \in ToSet(s) PROVE x \in {Head(s)} \cup ToSet(Tail(s))
  <2>1. PICK i \in 1..Len(s) : x = s[i]
    BY <1>1 DEF ToSet
  <2>2. CASE i = 1
    BY <1>1, <2>1, <2>2
  <2>3. CASE i # 1
    <3>1. i - 1 \in 1..Len(Tail(s)) /\ (i - 1) + 1 = i
      BY <1>1, <2>3
    <3>2. Tail(s)[i - 1] = x
      BY <1>1, <2>1, <3>1
    <3> QED
      BY <1>2, <3>1, <3>2 DEF ToSet
  <2> QED
    BY <2>2, <2>3
<1>4. ASSUME NEW x \in ToSet(Tail(s)) PROVE x \in ToSet(s)
  <2>1. PICK i \in 1..Len(Tail(s)) : x = Tail(s)[i]
    BY <1>2 DEF ToSet
  <2>2. i + 1 \in 1..Len(s) /\ x = s[i + 1]
    BY <1>1, <2>1
  <2> QED
    BY <1>1, <2>2 DEF ToSet
<1>5. Head(s) \in ToSet(s)
  <2>1. 1 \in DOMAIN s
    BY <1>1
  <2> QED
    BY <1>1, <2>1 DEF ToSet
<1> QED
  BY <1>3, <1>4, <1>5

\* Steps that do not load leave it; whoever loads goes on or stops.
LEMMA LoadFrame ==
  ASSUME LoadInv, ~clash' => ~clash, UNCHANGED <<loaded, actions>>,
         versions \subseteq versions',
         \A q \in Requests : pc'[q] \in {"clear", "insert"} =>
                               pc'[q] = pc[q] /\ obj'[q] = obj[q] /\ unread'[q] = unread[q]
  PROVE  LoadInv'
<1>1. Readable \subseteq Readable'
  BY MoreVersions
<1> QED
  BY <1>1 DEF LoadInv

\* A loading thread gets nearer to the version that it read.
LEMMA LoadKeepsLoad ==
  ASSUME Types, ThreadInv, PolicyInv, LoadInv, NEW r \in Requests,
         LoadReads(r) \/ Clear(r) \/ Insert(r) \/ Loaded(r)
  PROVE  LoadInv'
<1>1. /\ versions' = versions /\ obj' = obj
      /\ \A q \in Requests \ {r} : pc'[q] = pc[q]
      /\ pc \in [Requests -> PCs] /\ DOMAIN unread = Requests /\ DOMAIN actions = Requests
      /\ loaded \in [Requests -> BOOLEAN]
  <2>1. versions' = versions
    BY ThreadsKeepVersions DEF Acting
  <2>2. \A q \in Requests \ {r} : pc'[q] = pc[q]
    BY OthersHave DEF Acting, Has
  <2> QED
    BY <2>1, <2>2 DEF Types, LoadReads, Clear, Insert, Loaded
<1>2. Readable' = Readable
  BY <1>1 DEF Readable
<1>3. ~clash' => ~clash
  BY DEF LoadReads, Clear, Insert, Loaded, objectVars
<1>. SUFFICES ASSUME ~clash'
              PROVE  /\ \A o \in Requests : loaded'[o] => \E v \in Readable : actions'[o] = ToSet(v)
                     /\ \A q \in Requests : pc'[q] = "clear" => \E v \in Readable : ToSet(unread'[q]) = ToSet(v)
                     /\ \A q \in Requests : pc'[q] = "insert" =>
                          /\ ~loaded'[obj[q]]
                          /\ \E v \in Readable : actions'[obj[q]] \cup ToSet(unread'[q]) = ToSet(v)
                          /\ \A p \in Requests : pc'[p] = "insert" /\ obj[p] = obj[q] => p = q
  BY <1>1, <1>2 DEF LoadInv
<1>4. /\ \A o \in Requests : loaded[o] => \E v \in Readable : actions[o] = ToSet(v)
      /\ \A q \in Requests : pc[q] = "clear" => \E v \in Readable : ToSet(unread[q]) = ToSet(v)
      /\ \A q \in Requests : pc[q] = "insert" =>
           /\ ~loaded[obj[q]]
           /\ \E v \in Readable : actions[obj[q]] \cup ToSet(unread[q]) = ToSet(v)
           /\ \A p \in Requests : pc[p] = "insert" /\ obj[p] = obj[q] => p = q
  BY <1>3 DEF LoadInv
<1>5. \A q \in Requests : pc[q] \in {"load", "clear", "insert"} => obj[q] \in Requests
  BY DEF ThreadInv
<1>6. CASE LoadReads(r)
  <2>1. /\ PolicyFile # Unreadable /\ UNCHANGED <<loaded, actions>> /\ pc[r] = "load" /\ pc'[r] = "clear"
        /\ unread' = [unread EXCEPT ![r] = PolicyFile]
    BY <1>1, <1>6 DEF LoadReads, At, objectVars
  <2>2. PolicyFile \in Readable
    BY <2>1, PolicyIsLoadable DEF ThreadInv
  <2>3. unread'[r] = PolicyFile /\ \A q \in Requests \ {r} : unread'[q] = unread[q]
    BY <1>1, <2>1
  <2> QED
    BY <1>1, <1>4, <2>1, <2>2, <2>3
<1>7. CASE Clear(r)
  <2>. DEFINE o == obj[r]
  <2>1. /\ UNCHANGED <<loaded, unread>> /\ pc[r] = "clear" /\ pc'[r] = "insert"
        /\ actions' = [actions EXCEPT ![o] = {}]
        /\ ~InUse(o, r)
    BY <1>1, <1>7 DEF Clear, At
  <2>2. /\ o \in Requests /\ ~loaded[o]
        /\ \A q \in Requests \ {r} : ~(obj[q] = o /\ pc[q] = "insert")
    BY <1>5, <2>1 DEF InUse
  <2>3. actions'[o] = {} /\ \A p \in Requests \ {o} : actions'[p] = actions[p]
    BY <1>1, <2>1, <2>2
  <2>4. PICK v \in Readable : ToSet(unread[r]) = ToSet(v)
    BY <1>4, <2>1
  <2>5. actions'[o] \cup ToSet(unread'[r]) = ToSet(v)
    BY <2>1, <2>3, <2>4
  <2>. HIDE DEF o
  <2>6. ASSUME NEW q \in Requests, pc'[q] = "insert"
        PROVE  /\ ~loaded'[obj[q]]
               /\ \E w \in Readable : actions'[obj[q]] \cup ToSet(unread'[q]) = ToSet(w)
               /\ \A p \in Requests : pc'[p] = "insert" /\ obj[p] = obj[q] => p = q
    <3>1. CASE q = r
      BY <1>1, <2>1, <2>2, <2>5, <3>1 DEF o
    <3>2. CASE q # r
      <4>1. pc[q] = "insert" /\ obj[q] # o /\ obj[q] \in Requests
        BY <1>1, <1>5, <2>2, <2>6, <3>2
      <4>2. actions'[obj[q]] = actions[obj[q]] /\ unread'[q] = unread[q]
        BY <2>1, <2>3, <4>1
      <4> QED
        BY <1>1, <1>4, <2>1, <4>1, <4>2 DEF o
    <3> QED
      BY <3>1, <3>2
  <2> QED
    BY <1>1, <1>4, <2>1, <2>2, <2>3, <2>6
<1>8. CASE Insert(r)
  <2>. DEFINE o    == obj[r]
              new  == Head(unread[r])
              both == {e \in actions[o] : e.name # new.name} \cup {new}
  <2>1. /\ loaded' = loaded /\ pc[r] = "insert" /\ pc'[r] = "insert" /\ unread[r] # <<>>
        /\ unread' = [unread EXCEPT ![r] = Tail(unread[r])]
        /\ actions' = [actions EXCEPT ![o] = both]
    BY <1>1, <1>8 DEF Insert, At
  <2>2. /\ o \in Requests /\ ~loaded[o]
        /\ \A q \in Requests \ {r} : ~(obj[q] = o /\ pc[q] = "insert")
    BY <1>4, <1>5, <2>1
  <2>3. PICK v \in Readable : actions[o] \cup ToSet(unread[r]) = ToSet(v)
    BY <1>4, <2>1
  <2>4. \A e, f \in ToSet(v) : e.name = f.name => e = f
    <3>1. v \in Versions \ {Unreadable}
      BY <2>3 DEF Types, Readable
    <3> QED
      BY <3>1, PolicyAssumption
  <2>5. ToSet(unread[r]) = {new} \cup ToSet(Tail(unread[r]))
    BY <2>1, SetOfHeadAndTail DEF PolicyInv
  <2>. HIDE DEF new
  <2>6. both \cup ToSet(Tail(unread[r])) = ToSet(v)
    BY <2>3, <2>4, <2>5
  <2>. HIDE DEF o, both
  <2>7. /\ actions'[o] = both /\ \A p \in Requests \ {o} : actions'[p] = actions[p]
        /\ unread'[r] = Tail(unread[r]) /\ \A q \in Requests \ {r} : unread'[q] = unread[q]
    BY <1>1, <2>1, <2>2
  <2>8. ASSUME NEW q \in Requests, pc'[q] = "insert"
        PROVE  /\ ~loaded'[obj[q]]
               /\ \E w \in Readable : actions'[obj[q]] \cup ToSet(unread'[q]) = ToSet(w)
               /\ \A p \in Requests : pc'[p] = "insert" /\ obj[p] = obj[q] => p = q
    <3>1. CASE q = r
      BY <1>1, <2>1, <2>2, <2>3, <2>6, <2>7, <3>1 DEF o
    <3>2. CASE q # r
      <4>1. pc[q] = "insert" /\ obj[q] # o /\ obj[q] \in Requests
        BY <1>1, <1>5, <2>2, <2>8, <3>2
      <4>2. actions'[obj[q]] = actions[obj[q]] /\ unread'[q] = unread[q]
        BY <2>7, <3>2, <4>1
      <4> QED
        BY <1>1, <1>4, <2>1, <4>1, <4>2
    <3> QED
      BY <3>1, <3>2
  <2>9. ASSUME NEW q \in Requests, pc'[q] = "clear"
        PROVE  \E w \in Readable : ToSet(unread'[q]) = ToSet(w)
    <3>1. q # r /\ pc[q] = "clear"
      BY <1>1, <2>1, <2>9
    <3> QED
      BY <1>4, <2>7, <3>1
  <2> QED
    BY <1>4, <2>1, <2>2, <2>7, <2>8, <2>9
<1>9. CASE Loaded(r)
  <2>. DEFINE o == obj[r]
  <2>1. /\ UNCHANGED <<actions, unread>> /\ pc[r] = "insert" /\ pc'[r] \notin {"clear", "insert"}
        /\ unread[r] = <<>> /\ loaded' = [loaded EXCEPT ![o] = TRUE]
    BY <1>1, <1>9 DEF Loaded, At, Types
  <2>2. /\ o \in Requests
        /\ \A q \in Requests \ {r} : ~(obj[q] = o /\ pc[q] = "insert")
    BY <1>4, <1>5, <2>1
  <2>3. \E v \in Readable : actions[o] = ToSet(v)
    <3>1. ToSet(<<>>) = {}
      BY DEF ToSet
    <3> QED
      BY <1>4, <2>1, <3>1
  <2>4. \A p \in Requests : loaded'[p] => p = o \/ loaded[p]
    BY <1>1, <2>1
  <2>. HIDE DEF o
  <2>5. ASSUME NEW q \in Requests, pc'[q] = "insert" PROVE ~loaded'[obj[q]]
    <3>1. q # r /\ pc[q] = "insert" /\ obj[q] \in Requests /\ obj[q] # o
      BY <1>1, <1>5, <2>1, <2>2, <2>5
    <3> QED
      BY <1>4, <2>4, <3>1
  <2> QED
    BY <1>1, <1>4, <2>1, <2>3, <2>4, <2>5
<1> QED
  BY <1>6, <1>7, <1>8, <1>9

\* The other steps of the threads touch no object.
LEMMA ThreadKeepsLoad ==
  ASSUME Types, ThreadInv, PolicyInv, LoadInv, NEW r \in Requests, Acting(r)
  PROVE  LoadInv'
<1>1. CASE LoadReads(r) \/ Clear(r) \/ Insert(r) \/ Loaded(r)
  BY <1>1, LoadKeepsLoad
<1>2. CASE ~(LoadReads(r) \/ Clear(r) \/ Insert(r) \/ Loaded(r))
  <2>1. UNCHANGED <<loaded, clash, actions, unread>>
    <3>1. CASE Accept(r)
      BY <3>1, AcceptStep DEF objectVars
    <3>2. CASE ~Accept(r)
      BY <1>2, <3>2 DEF Acting, RefuseCwd, GetPolicy, TakeUp, CreatePolicy, BeginLoad,
         LoadFails,
         InsertFails, ReturnPolicy, Resolve, Refuse, Approve, Decline, RunCommand, objectVars
    <3> QED
      BY <3>1, <3>2
  <2>2. pc'[r] \notin {"clear", "insert"}
    <3>1. pc \in [Requests -> PCs]
      BY DEF Types
    <3>2. CASE LoadFails(r) \/ InsertFails(r) \/ CreatePolicy(r) \/ BeginLoad(r) \/ ReturnPolicy(r)
      BY <3>1, <3>2 DEF LoadFails, InsertFails, CreatePolicy, BeginLoad, ReturnPolicy, At
    <3>3. CASE Resolve(r)
      BY <3>1, <3>3 DEF Resolve, At
    <3>4. CASE Refuse(r)
      BY <3>1, <3>4 DEF Refuse, At
    <3>5. CASE Accept(r)
      BY <3>1, <3>5, AcceptStep DEF At
    <3>6. CASE RefuseCwd(r) \/ GetPolicy(r)
      BY <3>1, <3>6 DEF RefuseCwd, GetPolicy, TakeUp
    <3>7. CASE Approve(r) \/ Decline(r) \/ RunCommand(r)
      BY <3>1, <3>7 DEF Approve, Decline, RunCommand, At
    <3> QED
      BY <1>2, <3>2, <3>3, <3>4, <3>5, <3>6, <3>7 DEF Acting
  <2>3. \A q \in Requests \ {r} : pc'[q] = pc[q] /\ obj'[q] = obj[q]
    BY OthersHave DEF Has
  <2>4. versions' = versions
    BY ThreadsKeepVersions
  <2> QED
    BY <2>1, <2>2, <2>3, <2>4, LoadFrame
<1> QED
  BY <1>1, <1>2

LEMMA OtherKeepsLoad ==
  ASSUME Types, PolicyInv, LoadInv,
         \/ \E r \in Requests : Others(r)
         \/ StartServer \/ Crash \/ EditPolicy
  PROVE  LoadInv'
<1>1. CASE Crash
  <2>1. \A r \in Requests : pc'[r] = "none" /\ loaded'[r] = FALSE
    BY <1>1 DEF Crash
  <2> QED
    BY <2>1 DEF LoadInv
<1>2. CASE ~Crash
  <2>1. UNCHANGED <<loaded, clash, actions, unread, pc, obj>>
    BY <1>2, OtherLeaves DEF objectVars, threadVars
  <2>2. versions \subseteq versions'
    BY <1>2, OtherKeepsPolicy
  <2> QED
    BY <2>1, <2>2, LoadFrame
<1> QED
  BY <1>1, <1>2

LEMMA EndKeepsLoad ==
  ASSUME Types, ThreadInv, LoadInv, NEW r \in Requests, Ending(r)
  PROVE  LoadInv'
<1>1. UNCHANGED <<loaded, clash, actions, versions>>
  BY Ends DEF objectVars
<1>2. ASSUME NEW q \in Requests, pc'[q] \in {"clear", "insert"}
      PROVE  pc'[q] = pc[q] /\ obj'[q] = obj[q] /\ unread'[q] = unread[q]
  <2>1. q # r /\ pc'[q] = pc[q]
    BY <1>2, Ends DEF Types
  <2>2. obj'[q] = obj[q] /\ unread'[q] = unread[q]
    BY <2>1, Ends DEF Types
  <2> QED
    BY <2>1, <2>2
<1> QED
  BY <1>1, <1>2, LoadFrame

-----------------------------------------------------------------------------
\* A refusal is decided by an object that is a version of the file.
LEMMA ThreadKeepsRefusals ==
  ASSUME Types, ThreadInv, LoadInv, RefusalsAreThePolicys, NEW r \in Requests, Acting(r)
  PROVE  RefusalsAreThePolicys'
<1>. DEFINE Decided2(say) ==
              \E v \in Readable :
                \/ Decision(ToSet(v), asked[r]) = say
                \/ /\ say = "params"
                   /\ \E e \in ToSet(v) : e.name = asked[r].action /\ CannotBuild(e, asked[r].params)
            Silent == {"bad cwd", "no policy", "declined"}
<1>1. /\ UNCHANGED <<versions, asked>>
      /\ \A q \in Requests \ {r} : out'[q] = out[q]
      /\ out \in [Requests -> Replies \cup {"none"}]
  BY ThreadsKeepVersions, OthersHave DEF Has, Types
<1>2. ~clash' => ~clash
  <2>1. CASE Accept(r)
    BY <2>1, AcceptStep DEF objectVars
  <2>2. CASE ~Accept(r)
    BY <2>2 DEF Acting, RefuseCwd, GetPolicy, TakeUp, CreatePolicy, BeginLoad, LoadFails,
       LoadReads,
       Clear, Insert, InsertFails, Loaded, ReturnPolicy, Resolve, Refuse, Approve, Decline,
       RunCommand, objectVars
  <2> QED
    BY <2>1, <2>2
<1>3. ASSUME ~clash, out'[r] \in Refusals \ Silent PROVE Decided2(out'[r])
  <2>1. CASE Refuse(r)
    <3>1. /\ pc[r] = "lookup"
          /\ \/ Decided(r) \in Refusals /\ out'[r] = Decided(r)
             \/ /\ Decided(r) \notin Refusals /\ out'[r] = "params"
                /\ CannotBuild(Entry(r), asked[r].params)
      BY <1>1, <2>1 DEF Refuse, At, Say, Decided, Entry
    <3>2. PICK v \in Readable : actions[obj[r]] = ToSet(v)
      BY <1>3, <3>1 DEF ThreadInv, LoadInv
    <3>3. CASE Decided(r) \in Refusals /\ out'[r] = Decided(r)
      BY <3>2, <3>3 DEF Decided
    <3>4. CASE Decided(r) \notin Refusals /\ out'[r] = "params"
      <4>1. \E e \in ToSet(v) : e.name = asked[r].action
        BY <3>2, <3>4, UnknownDecision DEF Decided, Refusals
      <4>2. Entry(r) \in ToSet(v) /\ Entry(r).name = asked[r].action
        BY <3>2, <4>1 DEF Entry
      <4>3. CannotBuild(Entry(r), asked[r].params)
        BY <3>1, <3>4
      <4> QED
        BY <3>2, <3>4, <4>2, <4>3
    <3> QED
      BY <3>1, <3>3, <3>4
  <2>2. CASE ~Refuse(r)
    <3>1. out'[r] = out[r] \/ out'[r] \in Silent \cup {"exit", "error"}
      <4>1. CASE Accept(r)
        BY <4>1, AcceptStep
      <4>2. CASE ~Accept(r)
        BY <1>1, <2>2, <4>2 DEF Acting, RefuseCwd, GetPolicy, TakeUp, CreatePolicy, BeginLoad,
           LoadFails, LoadReads, Clear, Insert, InsertFails, Loaded, ReturnPolicy, Resolve, Approve,
           Decline, RunCommand, Say
      <4> QED
        BY <4>1, <4>2
    <3>2. out[r] \in Refusals \ Silent /\ out'[r] = out[r]
      BY <1>3, <3>1 DEF Refusals
    <3> QED
      BY <1>3, <3>2 DEF RefusalsAreThePolicys, Readable
  <2> QED
    BY <2>1, <2>2
<1>4. ASSUME ~clash', NEW q \in Requests, out'[q] \in Refusals \ Silent
      PROVE  \E v \in Readable :
               \/ Decision(ToSet(v), asked[q]) = out'[q]
               \/ /\ out'[q] = "params"
                  /\ \E e \in ToSet(v) : e.name = asked[q].action /\ CannotBuild(e, asked[q].params)
  <2>1. CASE q = r
    BY <1>2, <1>3, <1>4, <2>1
  <2>2. CASE q # r
    BY <1>1, <1>2, <1>4, <2>2 DEF RefusalsAreThePolicys, Readable
  <2> QED
    BY <2>1, <2>2
<1> QED
  BY <1>1, <1>4 DEF RefusalsAreThePolicys, Readable

LEMMA OtherKeepsRefusals ==
  ASSUME Types, FileInv, ThreadInv, PolicyInv, RefusalsAreThePolicys,
         \/ \E r \in Requests : Others(r)
         \/ StartServer \/ Crash \/ EditPolicy
  PROVE  RefusalsAreThePolicys'
<1>1. CASE Crash
  <2>1. \A r \in Requests : out'[r] = "none"
    BY <1>1 DEF Crash
  <2> QED
    BY <2>1 DEF RefusalsAreThePolicys, Refusals
<1>2. CASE ~Crash
  <2>1. UNCHANGED <<out, clash>>
    BY <1>2, OtherLeaves DEF objectVars, threadVars
  <2>2. versions \subseteq versions'
    BY <1>2, OtherKeepsPolicy
  <2>3. \A r \in Requests : out[r] \in Refusals => asked'[r] = asked[r]
    BY <1>2, AskedOnce DEF Refusals
  <2> QED
    BY <2>1, <2>2, <2>3 DEF RefusalsAreThePolicys
<1> QED
  BY <1>1, <1>2

LEMMA EndKeepsRefusals ==
  ASSUME Types, ThreadInv, RefusalsAreThePolicys, NEW r \in Requests, Ending(r)
  PROVE  RefusalsAreThePolicys'
<1>1. UNCHANGED <<versions, asked, clash>>
  BY Ends DEF objectVars
<1>2. \A q \in Requests : out'[q] = out[q] \/ out'[q] = "none"
  BY Ends, ZenonT(60) DEF Types
<1>3. "none" \notin Refusals
  BY DEF Refusals
<1> QED
  BY <1>1, <1>2, <1>3 DEF RefusalsAreThePolicys

-----------------------------------------------------------------------------
\* A thread has a published request.
LEMMA ThreadKeepsFiles ==
  ASSUME Types, FileInv, NEW r \in Requests, Acting(r)
  PROVE  FileInv'
<1>1. /\ pc \in [Requests -> PCs] /\ reqFile \in [Requests -> {"none", "tmp", "ready"}]
      /\ executed \in [Requests -> Nat]
  BY DEF Types
<1>2. CASE RefuseCwd(r) \/ GetPolicy(r)
  <2>1. /\ UNCHANGED <<call, respFile, executed>> /\ reqFile[r] = "ready"
        /\ reqFile'[r] \in {"ready", "none"}
        /\ \A q \in Requests \ {r} : reqFile'[q] = reqFile[q]
    BY <1>1, <1>2, Starts
  <2>2. \A q \in Requests \ {r} : pc'[q] = pc[q]
    BY <1>1, <1>2, Starts
  <2>3. call[r] \notin {"idle", "writing"}
    BY <2>1 DEF FileInv
  <2> QED
    BY <2>1, <2>2, <2>3 DEF FileInv
<1>3. CASE Loading(r) \/ Deciding(r) \/ RunCommand(r)
  <2>1. /\ UNCHANGED <<call, reqFile, respFile>> /\ pc[r] # "none"
    BY <1>3, Works DEF RunCommand, At, clientVars, Working
  <2>2. \A q \in Requests \ {r} : pc'[q] = pc[q] /\ executed'[q] = executed[q]
    <3>1. CASE RunCommand(r)
      BY <1>1, <3>1 DEF RunCommand, At
    <3>2. CASE Loading(r) \/ Deciding(r)
      BY <1>1, <3>2, Works
    <3> QED
      BY <1>3, <3>1, <3>2
  <2>3. call[r] \notin {"idle", "writing"} /\ reqFile[r] # "tmp"
    BY <2>1 DEF FileInv
  <2> QED
    BY <2>1, <2>2, <2>3 DEF FileInv
<1> QED
  BY <1>2, <1>3 DEF Acting, Loading, Deciding

LEMMA EndKeepsFiles ==
  ASSUME Types, FileInv, ThreadInv, NEW r \in Requests, Ending(r)
  PROVE  FileInv'
<1>1. /\ pc \in [Requests -> PCs] /\ reqFile \in [Requests -> {"none", "tmp", "ready"}]
      /\ respFile \in [Requests -> Replies \cup {"none"}]
  BY DEF Types
<1>2. UNCHANGED <<call, executed>> /\ \A q \in Requests \ {r} : pc'[q] = pc[q]
  BY <1>1, Ends
<1>3. /\ reqFile'[r] \in {reqFile[r], "none"}
      /\ \A q \in Requests \ {r} : reqFile'[q] = reqFile[q] /\ respFile'[q] = respFile[q]
  BY <1>1, Ends
<1>4. call[r] \notin {"idle", "writing"} /\ reqFile[r] # "tmp"
  <2>1. pc[r] = "reply" \/ reqFile[r] = "ready"
    BY DEF Ending, ThreadFails, Reply, CannotTakeUp, CannotLookAtCwd, TakeUp, ReplyFails
  <2> QED
    BY <2>1 DEF FileInv
<1> QED
  BY <1>2, <1>3, <1>4 DEF FileInv

LEMMA OtherKeepsFiles ==
  ASSUME Types, FileInv,
         \/ \E r \in Requests : Others(r)
         \/ StartServer \/ Crash \/ EditPolicy
  PROVE  FileInv'
<1>1. CASE \E r \in Requests : Others(r)
  <2>1. PICK r \in Requests : Others(r)
    BY <1>1
  <2>2. \A q \in Requests \ {r} : /\ call'[q] = call[q] /\ reqFile'[q] = reqFile[q]
                                  /\ respFile'[q] = respFile[q] /\ pc'[q] = pc[q]
                                  /\ executed'[q] = executed[q]
    BY <2>1, OthersPlace DEF Place
  <2> QED
    BY <2>1, <2>2, OthersPlace DEF FileInv
<1>2. CASE StartServer
  <2>1. UNCHANGED <<call, pc, executed>>
    BY <1>2 DEF StartServer, clientVars, threadVars
  <2>2. PICK reqs, resps \in SUBSET Requests : RemoveOld(reqs, resps)
    BY <1>2 DEF StartServer
  <2>3. \A q \in Requests : reqFile'[q] \in {reqFile[q], "none"} /\ respFile'[q] \in {respFile[q], "none"}
    BY <2>2, Removal
  <2> QED
    BY <2>1, <2>3 DEF FileInv
<1>3. CASE Crash
  <2>1. UNCHANGED <<call, reqFile, respFile, executed>> /\ \A q \in Requests : pc'[q] = "none"
    BY <1>3 DEF Crash, clientVars
  <2> QED
    BY <2>1 DEF FileInv
<1>4. CASE EditPolicy
  BY <1>4 DEF EditPolicy, clientVars, threadVars, FileInv
<1> QED
  BY <1>1, <1>2, <1>3, <1>4

-----------------------------------------------------------------------------
\* The steps, as they are told apart here.
LEMMA AnyStep ==
  ASSUME [Next]_vars
  PROVE  \/ \E r \in Requests : Acting(r) \/ Ending(r) \/ Others(r)
         \/ StartServer \/ Crash \/ EditPolicy \/ UNCHANGED vars
  BY DEF Next, ThreadStep, Acting, Ending, Others

\* At first there is nothing but a policy file.
LEMMA ExecInit == Init => ExecInv
<1>. SUFFICES ASSUME Init PROVE ExecInv
  OBVIOUS
<1>1. Types
  <2>1. future \in Seq(Versions) /\ future # <<>>
    BY ExecAssumption, PolicyAssumption DEF Init
  <2>2. /\ call \in [Requests -> {"idle", "writing", "waiting", "abandoned", "ok", "failed", "rejected"}]
        /\ asked \in [Requests -> Calls \cup {None}]
        /\ reqFile \in [Requests -> {"none", "tmp", "ready"}]
        /\ respFile \in [Requests -> Replies \cup {"none"}]
        /\ loaded \in [Requests -> BOOLEAN]
        /\ executed \in [Requests -> Nat]
    BY DEF Init
  <2>3. /\ DOMAIN actions = Requests
        /\ DOMAIN unread = Requests
        /\ DOMAIN plan = Requests
    BY DEF Init
  <2>4. /\ pc \in [Requests -> PCs]
        /\ obj \in [Requests -> Requests \cup {None}]
        /\ then \in [Requests -> {"return", "lookup"}]
        /\ out \in [Requests -> Replies \cup {"none"}]
    BY DEF Init, PCs
  <2>5. /\ up \in BOOLEAN /\ clash \in BOOLEAN /\ current \in Requests \cup {None}
        /\ approved \subseteq Requests /\ versions \subseteq Versions /\ lost \subseteq Requests
    BY DEF Init
  <2>6. faults \in 0..MaxFaults
    BY ExecAssumption DEF Init
  <2> QED
    BY <2>1, <2>2, <2>3, <2>4, <2>5, <2>6, Zenon DEF Types
<1>2. FileInv /\ ThreadInv
  BY DEF Init, FileInv, ThreadInv, Working
<1>3. PolicyInv
  <2>1. \A o \in Requests : actions[o] = {} /\ unread[o] = <<>>
    BY DEF Init
  <2> QED
    BY <2>1, EmptySeq DEF Init, PolicyInv
<1>4. LoadInv /\ OnlyPolicyRuns /\ RefusalsAreThePolicys
  BY DEF Init, LoadInv, OnlyPolicyRuns, RefusalsAreThePolicys, Refusals
<1> QED
  BY <1>1, <1>2, <1>3, <1>4 DEF ExecInv

\* The inductive invariant: what threads have read, inserted, planned and said
\* is of versions of the policy, whatever is refused, stopped or cleaned up.
THEOREM Invariant == Spec => []ExecInv
<1>1. ExecInv /\ [Next]_vars => ExecInv'
  <2>. SUFFICES ASSUME ExecInv, [Next]_vars PROVE ExecInv'
    OBVIOUS
  <2>1. /\ Types /\ FileInv /\ ThreadInv /\ PolicyInv /\ LoadInv
        /\ OnlyPolicyRuns /\ RefusalsAreThePolicys
    BY DEF ExecInv
  <2>2. ASSUME NEW r \in Requests, Acting(r) PROVE ExecInv'
    <3>1. Types' /\ FileInv' /\ ThreadInv' /\ PolicyInv'
      BY <2>1, <2>2, ThreadKeepsTypes, ThreadKeepsFiles, ThreadKeepsThread, ThreadKeepsPolicy
    <3>2. LoadInv' /\ OnlyPolicyRuns' /\ RefusalsAreThePolicys'
      BY <2>1, <2>2, ThreadKeepsLoad, ThreadKeepsPlans, ThreadKeepsRefusals
    <3> QED
      BY <3>1, <3>2 DEF ExecInv
  <2>3. ASSUME NEW r \in Requests, Ending(r) PROVE ExecInv'
    <3>1. Types' /\ FileInv' /\ ThreadInv' /\ PolicyInv'
      BY <2>1, <2>3, EndKeepsTypes, EndKeepsFiles, EndKeepsThread, EndKeepsPolicy
    <3>2. LoadInv' /\ OnlyPolicyRuns' /\ RefusalsAreThePolicys'
      BY <2>1, <2>3, EndKeepsLoad, EndKeepsPlans, EndKeepsRefusals
    <3> QED
      BY <3>1, <3>2 DEF ExecInv
  <2>4. ASSUME \/ \E r \in Requests : Others(r)
               \/ StartServer \/ Crash \/ EditPolicy
        PROVE  ExecInv'
    <3>1. Types'
      BY <2>1, <2>4, OthersKeepTypes, ServerKeepsTypes
    <3>2. FileInv' /\ ThreadInv' /\ PolicyInv' /\ LoadInv'
      BY <2>1, <2>4, OtherKeepsFiles, OtherKeepsThread, OtherKeepsPolicy, OtherKeepsLoad
    <3>3. OnlyPolicyRuns' /\ RefusalsAreThePolicys'
      BY <2>1, <2>4, OtherKeepsPlans, OtherKeepsRefusals
    <3> QED
      BY <3>1, <3>2, <3>3 DEF ExecInv
  <2>5. ASSUME UNCHANGED vars PROVE ExecInv'
    <3>1. Types'
      BY <2>1, <2>5 DEF Types, vars, Calls, Versions
    <3>2. FileInv' /\ ThreadInv'
      BY <2>1, <2>5 DEF FileInv, ThreadInv, vars
    <3>3. PolicyInv' /\ LoadInv'
      BY <2>1, <2>5 DEF PolicyInv, LoadInv, Loadable, Readable, PolicyFile, vars
    <3>4. OnlyPolicyRuns' /\ RefusalsAreThePolicys'
      BY <2>1, <2>5 DEF OnlyPolicyRuns, RefusalsAreThePolicys, vars
    <3> QED
      BY <3>1, <3>2, <3>3, <3>4 DEF ExecInv
  <2> QED
    BY <2>2, <2>3, <2>4, <2>5, AnyStep
<1> QED
  BY ExecInit, <1>1, PTL DEF Spec

\* What the objects hold is a function, whatever is inserted or emptied.
LEMMA ActionsAreAFunction == Spec => [](actions = [o \in DOMAIN actions |-> actions[o]])
<1>. DEFINE Fun == actions = [o \in DOMAIN actions |-> actions[o]]
<1>1. Init => Fun
  BY DEF Init
<1>2. ExecInv /\ Fun /\ [Next]_vars => Fun'
  <2>. SUFFICES ASSUME ExecInv, Fun, [Next]_vars PROVE Fun'
    OBVIOUS
  <2>1. CASE \E r \in Requests : Acting(r)
    <3>1. PICK r \in Requests : Acting(r)
      BY <2>1
    <3>2. actions' = actions \/ \E x : actions' = [actions EXCEPT ![obj[r]] = x]
      <4>1. CASE Clear(r)
        BY <4>1 DEF Clear
      <4>2. CASE Insert(r)
        BY <4>2, Zenon DEF Insert
      <4>3. CASE ~Clear(r) /\ ~Insert(r)
        <5>1. CASE LoadReads(r)
          BY <5>1 DEF LoadReads, objectVars
        <5> QED
          BY <3>1, <4>3, <5>1, ObjectsChange
      <4> QED
        BY <4>1, <4>2, <4>3
    <3> QED
      BY <3>2
  <2>2. CASE Crash
    BY <2>2 DEF Crash
  <2>3. CASE \/ \E r \in Requests : Ending(r) \/ Others(r)
             \/ StartServer \/ EditPolicy \/ UNCHANGED vars
    <3>1. actions' = actions
      BY <2>3, Ends, OtherLeaves DEF ExecInv, objectVars, vars
    <3> QED
      BY <3>1
  <2> QED
    BY <2>1, <2>2, <2>3, AnyStep
<1> QED
  BY <1>1, <1>2, Invariant, PTL DEF Spec

\* Every variable keeps its type: no thread works with a policy that is none,
\* and objects, lists and plans hold entries of the policy file.
THEOREM Typing == Spec => []TypeOK
<1>1. ASSUME ExecInv, actions = [o \in DOMAIN actions |-> actions[o]] PROVE TypeOK
  <2>1. Types /\ PolicyInv /\ OnlyPolicyRuns
    BY <1>1 DEF ExecInv
  <2>2. Loadable \subseteq Entries
    BY <2>1 DEF Types, Loadable, Readable, Entries
  <2>3. actions \in [Requests -> SUBSET Entries]
    <3>1. actions = [r \in Requests |-> actions[r]]
      BY <1>1, <2>1, Zenon DEF Types
    <3> QED
      BY <2>1, <2>2, <3>1 DEF PolicyInv
  <2>4. \A r \in Requests : ToSet(unread[r]) \subseteq Entries
    BY <2>1, <2>2, SeqOfItsOwn DEF PolicyInv
  <2>5. \A r \in Requests : plan[r] # None => plan[r].entry \in Entries
    BY <2>1 DEF OnlyPolicyRuns, Types, Entries
  <2>6. ToSet(future) \subseteq Versions
    BY <2>1, SeqOfItsOwn DEF Types
  <2> QED
    BY <2>1, <2>3, <2>4, <2>5, <2>6 DEF Types, TypeOK
<1> QED
  BY Invariant, ActionsAreAFunction, <1>1, PTL

\* Only what a version of the policy allows is run, and only as it allows it.
THEOREM PolicyRules == Spec => []OnlyPolicyRuns
<1>1. ExecInv => OnlyPolicyRuns
  BY DEF ExecInv
<1> QED
  BY Invariant, <1>1, PTL

\* Refusals are decisions of a version, as long as no object is reloaded in use.
THEOREM PolicyRefuses == Spec => []RefusalsAreThePolicys
<1>1. ExecInv => RefusalsAreThePolicys
  BY DEF ExecInv
<1> QED
  BY Invariant, <1>1, PTL

-----------------------------------------------------------------------------
(* Commands.  A template is filled as the reference says: both recursive   *)
(* functions, the one that flattens and the one that adds up, put every    *)
(* argument at the same place.                                             *)

\* Each sequence begins where the one before ends.
LEMMA OffsetsDef ==
  ASSUME NEW w \in Seq(Nat)
  PROVE  /\ Offsets(w) \in [1..(Len(w) + 1) -> Nat]
         /\ Offsets(w)[1] = 0
         /\ \A i \in 1..Len(w) : Offsets(w)[i + 1] = Offsets(w)[i] + w[i]
<1> DEFINE Def(g, n) == g = [i \in 1..(n + 1) |-> IF i = 1 THEN 0 ELSE g[i - 1] + w[i - 1]]
           Good == {n \in Nat : n <= Len(w) => \E g : Def(g, n)}
<1>1. Len(w) \in Nat /\ \A i \in 1..Len(w) : w[i] \in Nat
  OBVIOUS
<1>2. 0 \in Good
  <2>1. Def([i \in 1..1 |-> 0], 0)
    OBVIOUS
  <2> QED
    BY <2>1
<1>3. ASSUME NEW n \in Nat, n \in Good PROVE n + 1 \in Good
  <2> SUFFICES ASSUME n + 1 <= Len(w) PROVE \E g : Def(g, n + 1)
    OBVIOUS
  <2>1. PICK g : Def(g, n)
    BY <1>1, <1>3
  <2> DEFINE h == [i \in 1..(n + 2) |-> IF i = n + 2 THEN g[n + 1] + w[n + 1] ELSE g[i]]
  <2>2. DOMAIN g = 1..(n + 1) /\ \A i \in 1..(n + 1) : g[i] = IF i = 1 THEN 0 ELSE g[i - 1] + w[i - 1]
    BY <2>1
  <2>3. \A i \in 1..(n + 2) : h[i] = IF i = 1 THEN 0 ELSE h[i - 1] + w[i - 1]
    BY <2>2
  <2>4. Def(h, n + 1)
    BY <2>3
  <2> QED
    BY <2>4
<1>4. \E g : Def(g, Len(w))
  <2> HIDE DEF Good
  <2>1. Nat \subseteq Good
    BY <1>2, <1>3, Induction
  <2> QED
    BY <1>1, <2>1 DEF Good
<1>5. Def(Offsets(w), Len(w))
  BY <1>4 DEF Offsets
<1> HIDE DEF Good
<1>6. /\ DOMAIN Offsets(w) = 1..(Len(w) + 1) 
      /\ \A i \in 1..(Len(w) + 1) : Offsets(w)[i] = IF i = 1 THEN 0 ELSE Offsets(w)[i - 1] + w[i - 1]
  BY <1>5
<1>7. /\ Offsets(w)[1] = 0
      /\ \A i \in 1..Len(w) : Offsets(w)[i + 1] = Offsets(w)[i] + w[i]
  BY <1>1, <1>6
<1> DEFINE Typed == {n \in Nat : n <= Len(w) => Offsets(w)[n + 1] \in Nat}
<1>8. 0 \in Typed
  BY <1>7
<1>9. ASSUME NEW n \in Nat, n \in Typed PROVE n + 1 \in Typed
  <2> SUFFICES ASSUME n + 1 <= Len(w) PROVE Offsets(w)[n + 2] \in Nat
    OBVIOUS
  <2>1. n + 1 \in 1..Len(w) /\ Offsets(w)[n + 1] \in Nat
    BY <1>1, <1>9
  <2>2. Offsets(w)[n + 2] = Offsets(w)[n + 1] + w[n + 1]
    BY <1>7, <2>1
  <2> QED
    BY <1>1, <2>1, <2>2
<1>10. Nat \subseteq Typed
  <2> HIDE DEF Typed
  <2> QED
    BY <1>8, <1>9, Induction
<1>11. \A i \in 1..(Len(w) + 1) : Offsets(w)[i] \in Nat
  <2> TAKE i \in 1..(Len(w) + 1)
  <2>1. i - 1 \in Nat /\ i - 1 <= Len(w) /\ (i - 1) + 1 = i
    BY <1>1
  <2>2. i - 1 \in Typed
    <3> HIDE DEF Typed
    <3> QED
      BY <1>10, <2>1
  <2> QED
    BY <2>1, <2>2
<1> QED
  BY <1>5, <1>7, <1>11

\* The same, for a family of lengths.
LEMMA OffsetsOf ==
  ASSUME NEW n \in Nat, NEW w \in [1..n -> Nat]
  PROVE  /\ Offsets(w) \in [1..(n + 1) -> Nat] /\ Offsets(w)[1] = 0
         /\ \A i \in 1..n : Offsets(w)[i + 1] = Offsets(w)[i] + w[i]
<1>1. w \in Seq(Nat)
  BY SeqDef
<1>2. Len(w) = n
  BY <1>1, LenProperties
<1> QED
  BY <1>1, <1>2, OffsetsDef

\* The pieces of an element with placeholders inside.
LEMMA Substituted ==
  ASSUME NEW V, NEW part \in Seq(V), NEW params,
         \A n \in ToSet(part) \cap ParamNames : params[n] \in Seq(V)
  PROVE  Substitute(part, params) \in Seq(V) /\ HasPieces(Substitute(part, params), part, params)
<1> DEFINE value(k) == IF part[k] \in ParamNames THEN params[part[k]] ELSE <<part[k]>>
           values == [k \in DOMAIN part |-> value(k)]
           lengths == [k \in DOMAIN part |-> Len(value(k))]
           at == Offsets(lengths)
<1>1. Len(part) \in Nat /\ DOMAIN part = 1..Len(part)
  OBVIOUS
<1>2. ASSUME NEW k \in 1..Len(part) PROVE value(k) \in Seq(V) /\ Len(value(k)) \in Nat
  <2>1. part[k] \in V /\ part[k] \in ToSet(part)
    BY <1>1 DEF ToSet
  <2>2. CASE part[k] \in ParamNames
    BY <2>1, <2>2
  <2>3. CASE part[k] \notin ParamNames
    BY <2>1, <2>3
  <2> QED
    BY <2>2, <2>3
<1> HIDE DEF value
<1>3. values \in Seq(Seq(V)) /\ Len(values) = Len(part)
  <2>1. values \in [1..Len(part) -> Seq(V)]
    BY <1>1, <1>2
  <2>2. values \in Seq(Seq(V))
    BY <1>1, <2>1, SeqDef
  <2> QED
    BY <1>1, <2>1, <2>2, LenProperties
<1>4. lengths \in [1..Len(part) -> Nat]
  BY <1>1, <1>2
<1>5. /\ at \in [1..(Len(part) + 1) -> Nat] /\ at[1] = 0
      /\ \A k \in 1..Len(part) : at[k + 1] = at[k] + lengths[k]
  <2> HIDE DEF lengths
  <2> QED
    BY <1>1, <1>4, OffsetsOf
<1>6. \A k \in 1..Len(part) : lengths[k] = Len(values[k]) /\ values[k] = value(k)
  BY <1>1
<1>7. FlattenSeq(values) = Substitute(part, params)
  BY DEF Substitute, value
<1> HIDE DEF values, lengths
<1>8. Substitute(part, params) \in Seq(V) /\ Laid(Substitute(part, params), values, at, Len(part))
  <2> HIDE DEF at
  <2> QED
    BY <1>3, <1>5, <1>6, <1>7, Flattened
<1>9. /\ Len(Substitute(part, params)) = at[Len(part) + 1]
      /\ \A k \in 1..Len(part) : \A j \in 1..Len(value(k)) :
           Substitute(part, params)[at[k] + j] = value(k)[j]
  BY <1>6, <1>8 DEF Laid
<1>10. \A k \in 1..Len(part) : DOMAIN value(k) = 1..Len(value(k))
  BY <1>2
<1> QED
  BY <1>1, <1>8, <1>9, <1>10 DEF HasPieces, at, lengths, value

\* What the reference wants of the arguments an element of the template stands for.
Contributes(args, t, part, params) ==
  /\ IsWhole(part) /\ Demands(t, part[1]).split =>
       /\ DOMAIN params[part[1]] = 1..Len(args)
       /\ \A j \in 1..Len(args) : args[j] = <<params[part[1]][j]>>
  /\ IsWhole(part) /\ ~Demands(t, part[1]).split => Len(args) = 1 /\ args[1] = params[part[1]]
  /\ ~IsWhole(part) => Len(args) = 1 /\ HasPieces(args[1], part, params)

\* An element contributes that, and as many arguments as its width says.
LEMMA ArgumentsOf ==
  ASSUME NEW V, NEW t, NEW params, NEW part \in Seq(V), part \in ToSet(t.cmd), ~CannotBuild(t, params),
         \A n \in ToSet(part) \cap ParamNames : params[n] = NotText \/ params[n] \in Seq(V)
  PROVE  /\ Arguments(t, part, params) \in Seq(Seq(V) \cup {NotText})
         /\ Len(Arguments(t, part, params)) = Width(t, params, part)
         /\ Width(t, params, part) \in Nat
         /\ Contributes(Arguments(t, part, params), t, part, params)
<1> DEFINE args == Arguments(t, part, params)
           value == params[part[1]]
<1>1. \A n \in ToSet(part) \cap ParamNames :
        params[n] = NotText => IsWhole(part) /\ ~Demands(t, n).split
  BY DEF CannotBuild
<1>2. ASSUME IsWhole(part)
      PROVE  part[1] \in ToSet(part) \cap ParamNames /\ ToSet(part) = {part[1]}
  BY <1>2 DEF IsWhole, ToSet
<1>3. CASE IsWhole(part) /\ Demands(t, part[1]).split
  <2>1. value \in Seq(V)
    BY <1>1, <1>2, <1>3
  <2>2. args = [i \in DOMAIN value |-> <<value[i]>>]
    BY <1>3 DEF Arguments
  <2>3. Len(value) \in Nat /\ DOMAIN value = 1..Len(value) /\ \A i \in 1..Len(value) : value[i] \in V
    BY <2>1
  <2>4. Width(t, params, part) = Len(value)
    BY <1>3 DEF Width
  <2> HIDE DEF args, value
  <2>5. \A j \in 1..Len(value) : <<value[j]>> \in Seq(V)
    BY <2>3
  <2>6. args \in [1..Len(value) -> Seq(V) \cup {NotText}]
    <3> DEFINE X == Seq(V)
    <3>1. \A j \in 1..Len(value) : <<value[j]>> \in X
      BY <2>5
    <3> HIDE DEF X
    <3>2. args \in [1..Len(value) -> X \cup {NotText}]
      BY <2>2, <2>3, <3>1
    <3> QED
      BY <3>2 DEF X
  <2>7. args \in Seq(Seq(V) \cup {NotText}) /\ Len(args) = Len(value)
    BY <2>3, <2>6, FunctionIsSeq
  <2>8. \A j \in 1..Len(value) : args[j] = <<value[j]>>
    BY <2>2, <2>3
  <2> QED
    BY <1>3, <2>3, <2>4, <2>7, <2>8 DEF args, value, Contributes
<1>4. CASE IsWhole(part) /\ ~Demands(t, part[1]).split
  <2>1. value \in Seq(V) \cup {NotText}
    BY <1>2, <1>4
  <2>2. args = <<value>>
    BY <1>4 DEF Arguments
  <2>3. Width(t, params, part) = 1
    BY <1>4 DEF Width
  <2> HIDE DEF args, value
  <2>4. args \in Seq(Seq(V) \cup {NotText}) /\ Len(args) = 1 /\ args[1] = value
    BY <2>1, <2>2
  <2> QED
    BY <1>4, <2>3, <2>4 DEF args, value, Contributes
<1>5. CASE ~IsWhole(part)
  <2>1. \A n \in ToSet(part) \cap ParamNames : params[n] \in Seq(V)
    BY <1>1, <1>5
  <2>2. Substitute(part, params) \in Seq(V) /\ HasPieces(Substitute(part, params), part, params)
    BY <2>1, Substituted
  <2>3. args = <<Substitute(part, params)>>
    BY <1>5 DEF Arguments
  <2>4. Width(t, params, part) = 1
    BY <1>5 DEF Width
  <2> HIDE DEF args
  <2>5. args \in Seq(Seq(V) \cup {NotText}) /\ Len(args) = 1 /\ args[1] = Substitute(part, params)
    BY <2>2, <2>3
  <2> QED
    BY <1>5, <2>2, <2>4, <2>5 DEF args, Contributes
<1> QED
  BY <1>3, <1>4, <1>5

\* The command that build_command makes of a template and admitted parameters.
LEMMA BuildFills ==
  ASSUME NEW V, NEW t, NEW params, t.cmd \in Seq(Seq(V)), ~CannotBuild(t, params),
         \A n \in ReferencedParams(t) : params[n] = NotText \/ params[n] \in Seq(V)
  PROVE  Fills(BuildCommand(t, params), t, params)
<1> DEFINE cmd == t.cmd
           all == [i \in DOMAIN cmd |-> Arguments(t, cmd[i], params)]
           widths == [i \in DOMAIN cmd |-> Width(t, params, cmd[i])]
           at == Offsets(widths)
           X == Seq(V) \cup {NotText}
           built == BuildCommand(t, params)
<1>1. Len(cmd) \in Nat /\ DOMAIN cmd = 1..Len(cmd) /\ \A i \in 1..Len(cmd) : cmd[i] \in Seq(V)
  OBVIOUS
<1>2. ASSUME NEW i \in 1..Len(cmd)
      PROVE  /\ all[i] = Arguments(t, cmd[i], params)
             /\ widths[i] = Width(t, params, cmd[i])
             /\ cmd[i] \in ToSet(t.cmd)
             /\ \A n \in ToSet(cmd[i]) \cap ParamNames : params[n] = NotText \/ params[n] \in Seq(V)
  <2>1. cmd[i] \in ToSet(t.cmd)
    BY <1>1 DEF ToSet
  <2>2. \A n \in ToSet(cmd[i]) \cap ParamNames : n \in ReferencedParams(t)
    BY <2>1 DEF ReferencedParams, Pieces
  <2> QED
    BY <1>1, <2>1, <2>2
<1> HIDE DEF all, widths, X
<1>3. ASSUME NEW i \in 1..Len(cmd)
      PROVE  /\ all[i] \in Seq(X) /\ Len(all[i]) = widths[i] /\ widths[i] \in Nat
             /\ Contributes(all[i], t, cmd[i], params)
  <2> DEFINE part == cmd[i]
  <2>1. part \in Seq(V)
    BY <1>1
  <2>2. /\ all[i] = Arguments(t, part, params) /\ widths[i] = Width(t, params, part)
        /\ part \in ToSet(t.cmd)
        /\ \A n \in ToSet(part) \cap ParamNames : params[n] = NotText \/ params[n] \in Seq(V)
    BY <1>2
  <2> HIDE DEF part, cmd
  <2>3. /\ Arguments(t, part, params) \in Seq(Seq(V) \cup {NotText})
        /\ Len(Arguments(t, part, params)) = Width(t, params, part)
        /\ Width(t, params, part) \in Nat
        /\ Contributes(Arguments(t, part, params), t, part, params)
    BY <2>1, <2>2, ArgumentsOf
  <2> QED
    BY <2>2, <2>3 DEF part, X
<1>4. all \in Seq(Seq(X)) /\ Len(all) = Len(cmd)
  <2>1. all \in [1..Len(cmd) -> Seq(X)]
    BY <1>1, <1>3 DEF all
  <2> DEFINE n == Len(cmd)
             Y == Seq(X)
  <2>2. n \in Nat /\ all \in [1..n -> Y]
    BY <1>1, <2>1
  <2> HIDE DEF n, Y
  <2>3. all \in Seq(Y) /\ Len(all) = n
    BY <2>2, FunctionIsSeq
  <2> QED
    BY <2>3 DEF n, Y
<1>5. widths \in [1..Len(cmd) -> Nat]
  BY <1>1, <1>3 DEF widths
<1>6. /\ at \in [1..(Len(cmd) + 1) -> Nat] /\ at[1] = 0
      /\ \A i \in 1..Len(cmd) : at[i + 1] = at[i] + widths[i]
  BY <1>1, <1>5, OffsetsOf
<1>7. built = FlattenSeq(all)
  BY DEF BuildCommand, all
<1> HIDE DEF at, built
<1>8. Laid(built, all, at, Len(cmd))
  <2>1. at \in [1..(Len(all) + 1) -> Nat] /\ \A i \in 1..Len(all) : at[i + 1] = at[i] + Len(all[i])
    BY <1>3, <1>4, <1>6
  <2> QED
    BY <1>4, <1>6, <1>7, <2>1, Flattened
<1>9. /\ Len(built) = at[Len(cmd) + 1]
      /\ \A i \in 1..Len(cmd) : \A j \in 1..Len(all[i]) : built[at[i] + j] = all[i][j]
  BY <1>8 DEF Laid
<1>10. ASSUME NEW i \in 1..Len(cmd)
       PROVE  /\ IsWhole(cmd[i]) /\ Demands(t, cmd[i][1]).split =>
                   \A j \in DOMAIN params[cmd[i][1]] : built[at[i] + j] = <<params[cmd[i][1]][j]>>
              /\ IsWhole(cmd[i]) /\ ~Demands(t, cmd[i][1]).split => built[at[i] + 1] = params[cmd[i][1]]
              /\ ~IsWhole(cmd[i]) => HasPieces(built[at[i] + 1], cmd[i], params)
  <2> DEFINE part == cmd[i]
             args == all[i]
             from == at[i]
  <2>1. Contributes(args, t, part, params) /\ \A j \in 1..Len(args) : built[from + j] = args[j]
    BY <1>3, <1>9
  <2> HIDE DEF part, args, from, cmd
  <2>2. Len(args) = 1 => built[from + 1] = args[1]
    BY <2>1
  <2>3. IsWhole(part) /\ Demands(t, part[1]).split =>
          \A j \in DOMAIN params[part[1]] : built[from + j] = <<params[part[1]][j]>>
    BY <2>1 DEF Contributes
  <2>4. IsWhole(part) /\ ~Demands(t, part[1]).split => built[from + 1] = params[part[1]]
    BY <2>1, <2>2 DEF Contributes
  <2>5. ~IsWhole(part) => HasPieces(built[from + 1], part, params)
    BY <2>1, <2>2 DEF Contributes
  <2> QED
    BY <2>3, <2>4, <2>5 DEF part, from
<1> QED
  BY <1>1, <1>9, <1>10 DEF Fills, at, widths, built

\* No place is left between sequences that follow one another.
LEMMA Covered ==
  ASSUME NEW n \in Nat, NEW w \in [1..n -> Nat], NEW at \in [1..(n + 1) -> Nat], at[1] = 0,
         \A i \in 1..n : at[i + 1] = at[i] + w[i],
         NEW k \in 1..at[n + 1]
  PROVE  \E i \in 1..n : \E j \in 1..w[i] : k = at[i] + j
<1> DEFINE Good == {m \in Nat : m <= n => (k <= at[m + 1] => \E i \in 1..n : \E j \in 1..w[i] : k = at[i] + j)}
<1>1. 0 \in Good
  OBVIOUS
<1>2. ASSUME NEW m \in Nat, m \in Good PROVE m + 1 \in Good
  <2> SUFFICES ASSUME m + 1 <= n, k <= at[m + 2], ~(k <= at[m + 1])
               PROVE  \E i \in 1..n : \E j \in 1..w[i] : k = at[i] + j
    BY <1>2
  <2>1. m + 1 \in 1..n /\ at[m + 2] = at[m + 1] + w[m + 1] /\ at[m + 1] \in Nat /\ w[m + 1] \in Nat
    OBVIOUS
  <2>2. k - at[m + 1] \in 1..w[m + 1] /\ k = at[m + 1] + (k - at[m + 1])
    BY <2>1
  <2> QED
    BY <2>1, <2>2
<1>3. n \in Good
  <2> HIDE DEF Good
  <2> QED
    BY <1>1, <1>2, Induction
<1> QED
  BY <1>3

\* Two texts with the same pieces are the same.
LEMMA SameText ==
  ASSUME NEW V, NEW part \in Seq(V), NEW params,
         \A n \in ToSet(part) \cap ParamNames : params[n] \in Seq(V),
         NEW a \in Seq(V), NEW b \in Seq(V), HasPieces(a, part, params), HasPieces(b, part, params)
  PROVE  a = b
<1> DEFINE value(k) == IF part[k] \in ParamNames THEN params[part[k]] ELSE <<part[k]>>
           lengths == [k \in DOMAIN part |-> Len(value(k))]
           at == Offsets(lengths)
           n == Len(part)
<1>1. n \in Nat /\ DOMAIN part = 1..n
  OBVIOUS
<1>2. ASSUME NEW k \in 1..n PROVE Len(value(k)) \in Nat /\ DOMAIN value(k) = 1..Len(value(k))
  <2>1. part[k] \in V /\ part[k] \in ToSet(part)
    BY <1>1 DEF ToSet
  <2>2. CASE part[k] \in ParamNames
    BY <2>1, <2>2
  <2>3. CASE part[k] \notin ParamNames
    BY <2>1, <2>3
  <2> QED
    BY <2>2, <2>3
<1>3. /\ Len(a) = at[n + 1] /\ \A k \in 1..n : \A j \in DOMAIN value(k) : a[at[k] + j] = value(k)[j]
      /\ Len(b) = at[n + 1] /\ \A k \in 1..n : \A j \in DOMAIN value(k) : b[at[k] + j] = value(k)[j]
  BY <1>1 DEF HasPieces
<1> HIDE DEF value
<1>4. lengths \in [1..n -> Nat] /\ \A k \in 1..n : lengths[k] = Len(value(k))
  BY <1>1, <1>2
<1> HIDE DEF lengths, n
<1>5. at \in [1..(n + 1) -> Nat] /\ at[1] = 0 /\ \A k \in 1..n : at[k + 1] = at[k] + lengths[k]
  BY <1>1, <1>4, OffsetsOf
<1> HIDE DEF at
<1>6. ASSUME NEW m \in 1..at[n + 1] PROVE a[m] = b[m]
  <2>1. PICK k \in 1..n : \E j \in 1..lengths[k] : m = at[k] + j
    BY <1>1, <1>4, <1>5, Covered
  <2>2. PICK j \in 1..lengths[k] : m = at[k] + j
    BY <2>1
  <2>3. j \in DOMAIN value(k)
    BY <1>2, <1>4, <2>2
  <2> QED
    BY <1>3, <2>2, <2>3
<1> QED
  BY <1>3, <1>6

\* The reference leaves nothing open: of a template and parameters that build_command
\* accepts, at most one argument list of texts (what run_exec can log and run) is a
\* filling, so what BuildFills says of the command determines it.
THEOREM FillingIsUnique ==
  ASSUME NEW V, NEW t, NEW params, t.cmd \in Seq(Seq(V)), ~CannotBuild(t, params),
         \A n \in ReferencedParams(t) : params[n] = NotText \/ params[n] \in Seq(V),
         NEW a \in Seq(Seq(V)), NEW b \in Seq(Seq(V)), Fills(a, t, params), Fills(b, t, params)
  PROVE  a = b
<1> DEFINE cmd == t.cmd
           widths == [i \in DOMAIN cmd |-> Width(t, params, cmd[i])]
           at == Offsets(widths)
           n == Len(cmd)
<1>1. n \in Nat /\ DOMAIN cmd = 1..n /\ \A i \in 1..n : cmd[i] \in Seq(V)
  OBVIOUS
<1>2. ASSUME NEW i \in 1..n
      PROVE  /\ widths[i] = Width(t, params, cmd[i]) /\ widths[i] \in Nat
             /\ \A m \in ToSet(cmd[i]) \cap ParamNames : ~IsWhole(cmd[i]) => params[m] \in Seq(V)
             /\ IsWhole(cmd[i]) /\ Demands(t, cmd[i][1]).split =>
                  DOMAIN params[cmd[i][1]] = 1..widths[i]
             /\ ~(IsWhole(cmd[i]) /\ Demands(t, cmd[i][1]).split) => widths[i] = 1
  <2> DEFINE part == cmd[i]
  <2>1. part \in ToSet(t.cmd) /\ widths[i] = Width(t, params, part)
    BY <1>1 DEF ToSet
  <2> HIDE DEF part, widths, cmd
  <2>2. \A m \in ToSet(part) \cap ParamNames :
          /\ params[m] = NotText \/ params[m] \in Seq(V)
          /\ params[m] = NotText => IsWhole(part) /\ ~Demands(t, m).split
    BY <2>1 DEF ReferencedParams, Pieces, CannotBuild
  <2>3. IsWhole(part) => part[1] \in ToSet(part) \cap ParamNames
    BY DEF IsWhole, ToSet
  <2>4. IsWhole(part) /\ Demands(t, part[1]).split =>
          /\ params[part[1]] \in Seq(V)
          /\ widths[i] = Len(params[part[1]])
    BY <2>1, <2>2, <2>3 DEF Width
  <2>5. ~(IsWhole(part) /\ Demands(t, part[1]).split) => widths[i] = 1
    BY <2>1 DEF Width
  <2>6. widths[i] \in Nat
    BY <2>4, <2>5
  <2> QED
    BY <2>1, <2>2, <2>4, <2>5, <2>6 DEF part
<1>3. widths \in [1..n -> Nat]
  BY <1>1, <1>2
<1>4. at \in [1..(n + 1) -> Nat] /\ at[1] = 0 /\ \A i \in 1..n : at[i + 1] = at[i] + widths[i]
  <2> HIDE DEF widths, n
  <2> QED
    BY <1>1, <1>3, OffsetsOf
<1>5. ASSUME NEW c, Fills(c, t, params)
      PROVE  /\ Len(c) = at[n + 1]
             /\ \A i \in 1..n :
                  /\ IsWhole(cmd[i]) /\ Demands(t, cmd[i][1]).split =>
                       \A j \in DOMAIN params[cmd[i][1]] : c[at[i] + j] = <<params[cmd[i][1]][j]>>
                  /\ IsWhole(cmd[i]) /\ ~Demands(t, cmd[i][1]).split => c[at[i] + 1] = params[cmd[i][1]]
                  /\ ~IsWhole(cmd[i]) => HasPieces(c[at[i] + 1], cmd[i], params)
  BY <1>1, <1>5 DEF Fills
<1> HIDE DEF at, widths, n
<1>6. ASSUME NEW k \in 1..at[n + 1] PROVE a[k] = b[k]
  <2>1. PICK i \in 1..n : \E j \in 1..widths[i] : k = at[i] + j
    BY <1>1, <1>3, <1>4, Covered
  <2>2. PICK j \in 1..widths[i] : k = at[i] + j
    BY <2>1
  <2> DEFINE part == cmd[i]
  <2>3. /\ IsWhole(part) /\ Demands(t, part[1]).split => DOMAIN params[part[1]] = 1..widths[i]
        /\ ~(IsWhole(part) /\ Demands(t, part[1]).split) => widths[i] = 1
        /\ part \in Seq(V)
        /\ \A m \in ToSet(part) \cap ParamNames : ~IsWhole(part) => params[m] \in Seq(V)
    BY <1>1, <1>2
  <2>4. /\ IsWhole(part) /\ Demands(t, part[1]).split =>
             \A l \in DOMAIN params[part[1]] :
               a[at[i] + l] = <<params[part[1]][l]>> /\ b[at[i] + l] = <<params[part[1]][l]>>
        /\ IsWhole(part) /\ ~Demands(t, part[1]).split =>
             a[at[i] + 1] = params[part[1]] /\ b[at[i] + 1] = params[part[1]]
        /\ ~IsWhole(part) => HasPieces(a[at[i] + 1], part, params) /\ HasPieces(b[at[i] + 1], part, params)
    BY <1>5
  <2>5. a[k] \in Seq(V) /\ b[k] \in Seq(V)
    BY <1>5
  <2> HIDE DEF part
  <2>6. CASE IsWhole(part) /\ Demands(t, part[1]).split
    BY <2>2, <2>3, <2>4, <2>6
  <2>7. CASE IsWhole(part) /\ ~Demands(t, part[1]).split
    BY <2>2, <2>3, <2>4, <2>7
  <2>8. CASE ~IsWhole(part)
    <3>1. j = 1
      BY <2>2, <2>3, <2>8
    <3>2. HasPieces(a[k], part, params) /\ HasPieces(b[k], part, params)
      BY <2>2, <2>4, <2>8, <3>1
    <3> QED
      BY <2>3, <2>5, <2>8, <3>2, SameText
  <2> QED
    BY <2>6, <2>7, <2>8
<1>7. Len(a) = at[n + 1] /\ Len(b) = at[n + 1]
  BY <1>5
<1>8. \A k \in 1..Len(a) : a[k] = b[k]
  BY <1>6, <1>7
<1> QED
  BY <1>7, <1>8, SeqEqual

\* A call that an entry of the policy admits has words, or no string, for every
\* name in the template; so what is built of it fills the template.
LEMMA AdmittedFills ==
  ASSUME NEW e \in Entries, NEW c \in Calls, ValidParams(e, c.params), ~CannotBuild(e, c.params)
  PROVE  Fills(BuildCommand(e, c.params), e, c.params)
<1> DEFINE texts == {n \in DOMAIN c.params : c.params[n] # NotText}
           V == Pieces(e) \cup UNION {ToSet(c.params[n]) : n \in texts}
<1>1. e.cmd \in Seq(Seq(V))
  <2>1. Seq(Pieces(e)) \subseteq Seq(V)
    BY SeqMonotonic
  <2>2. Seq(Seq(Pieces(e))) \subseteq Seq(Seq(V))
    BY <2>1, SeqMonotonic
  <2> QED
    BY <2>2, TemplateAssumption
<1>2. ASSUME NEW n \in ReferencedParams(e)
      PROVE  c.params[n] = NotText \/ c.params[n] \in Seq(V)
  <2>1. n \in DOMAIN c.params
    BY DEF ValidParams
  <2>2. CASE c.params[n] # NotText
    <3>1. c.params[n] \in Seq(ToSet(c.params[n]))
      BY <2>1, <2>2, TemplateAssumption
    <3>2. ToSet(c.params[n]) \subseteq V
      BY <2>1, <2>2
    <3> QED
      BY <3>1, <3>2, SeqMonotonic
  <2> QED
    BY <2>2
<1> HIDE DEF V
<1> QED
  BY <1>1, <1>2, BuildFills

\* What a request asks for is one of its calls as soon as it has been asked, and
\* does not change; the plan made of it fills the template.
AskedInv == \A r \in Requests : call[r] # "idle" => asked[r] \in Calls
PlanInv == AskedInv /\ CommandFillsTemplate

\* The plan that Accept makes.
LEMMA AcceptFills ==
  ASSUME ExecInv, AskedInv, NEW r \in Requests, Accept(r)
  PROVE  /\ \A q \in Requests \ {r} : plan'[q] = plan[q]
         /\ plan'[r].entry = Entry(r) /\ plan'[r].cmd = Command(r)
         /\ Fills(Command(r), Entry(r), asked[r].params)
<1>1. Types /\ FileInv /\ ThreadInv /\ PolicyInv
  BY DEF ExecInv
<1>2. /\ Decided(r) \in {"allow", "confirm"} /\ ~CannotBuild(Entry(r), asked[r].params)
      /\ plan' = [plan EXCEPT ![r] = [entry |-> Entry(r), cmd |-> Command(r)]]
      /\ pc[r] = "lookup"
  BY AcceptStep DEF At
<1>3. asked[r] \in Calls
  BY <1>1, <1>2 DEF AskedInv, FileInv, Working
<1>4. /\ Entry(r) \in actions[obj[r]] /\ Entry(r).name = asked[r].action
      /\ Decided(r) = Decision({Entry(r)}, asked[r])
  <2>1. \A e, f \in actions[obj[r]] : e.name = f.name => e = f
    BY <1>1, <1>2 DEF ThreadInv, PolicyInv
  <2>2. \E e \in actions[obj[r]] : e.name = asked[r].action
    BY <1>2, UnknownDecision DEF Decided
  <2> QED
    BY <2>1, <2>2, NamedEntryDecides DEF Entry, Decided
<1>5. ValidParams(Entry(r), asked[r].params)
  BY <1>2, <1>4, AdmittedLevel
<1>6. Entry(r) \in Entries
  <2>1. actions[obj[r]] \subseteq Loadable
    BY <1>1, <1>2 DEF ThreadInv, PolicyInv
  <2>2. Loadable \subseteq Entries
    BY <1>1 DEF Types, Loadable, Readable, Entries
  <2> QED
    BY <1>4, <2>1, <2>2
<1>7. Fills(Command(r), Entry(r), asked[r].params)
  BY <1>2, <1>3, <1>5, <1>6, AdmittedFills DEF Command
<1>8. DOMAIN plan = Requests
  BY <1>1 DEF Types
<1>9. plan'[r] = [entry |-> Entry(r), cmd |-> Command(r)] /\ \A q \in Requests \ {r} : plan'[q] = plan[q]
  BY <1>2, <1>8
<1> QED
  BY <1>7, <1>9

\* Every argument of every command that is ever planned is the template's or the
\* call's, in its place, for templates and parameters of any length.
THEOREM TemplatesFilled == Spec => []CommandFillsTemplate
<1>1. Init => PlanInv
  BY DEF Init, PlanInv, AskedInv, CommandFillsTemplate
<1>2. ExecInv /\ PlanInv /\ [Next]_vars => PlanInv'
  <2> SUFFICES ASSUME ExecInv, AskedInv, CommandFillsTemplate, [Next]_vars
               PROVE  AskedInv' /\ CommandFillsTemplate'
    BY DEF PlanInv
  <2>1. Types /\ FileInv /\ ThreadInv
    BY DEF ExecInv
  <2>2. CASE \E r \in Requests : Acting(r)
    <3>1. PICK r \in Requests : Acting(r)
      BY <2>2
    <3>2. UNCHANGED <<call, asked>>
      BY <2>1, <3>1, Works, Starts DEF Acting, Loading, Deciding, RunCommand, At, clientVars
    <3>3. CASE Accept(r)
      BY <3>2, <3>3, AcceptFills DEF AskedInv, CommandFillsTemplate
    <3>4. CASE ~Accept(r)
      <4>1. plan' = plan
        BY <3>1, <3>4 DEF Acting, RefuseCwd, GetPolicy, TakeUp, CreatePolicy, BeginLoad,
           LoadFails, LoadReads, Clear, Insert, InsertFails, Loaded, ReturnPolicy, Resolve, Refuse,
           Approve, Decline, RunCommand
      <4> QED
        BY <3>2, <4>1 DEF AskedInv, CommandFillsTemplate
    <3> QED
      BY <3>3, <3>4
  <2>3. CASE \E r \in Requests : Ending(r)
    <3>1. UNCHANGED <<call, asked>>
      BY <2>1, <2>3, Ends
    <3>2. \A q \in Requests : plan'[q] = plan[q] \/ plan'[q] = None
      BY <2>1, <2>3, Ends DEF Types
    <3> QED
      BY <3>1, <3>2 DEF AskedInv, CommandFillsTemplate
  <2>4. CASE Crash
    <3>1. UNCHANGED <<call, asked>> /\ \A r \in Requests : plan'[r] = None
      BY <2>4 DEF Crash, clientVars
    <3> QED
      BY <3>1 DEF AskedInv, CommandFillsTemplate
  <2>5. CASE (\E r \in Requests : Others(r)) \/ StartServer \/ EditPolicy
    <3>1. plan' = plan
      BY <2>1, <2>5, OtherLeaves DEF threadVars
    <3>2. \A q \in Requests : plan[q] # None => asked'[q] = asked[q]
      BY <2>1, <2>5, AskedOnce
    <3>3. ASSUME NEW q \in Requests, call'[q] # "idle" PROVE asked'[q] \in Calls
      <4>1. CASE \E r \in Requests : Prepare(r)
        BY <2>1, <3>3, <4>1 DEF Prepare, Types, Calls, AskedInv
      <4>2. CASE ~\E r \in Requests : Prepare(r)
        <5>1. asked' = asked
          BY <2>5, <4>2 DEF Others, Submit, Receive, GiveUp, Cleanup, StartServer, EditPolicy, clientVars
        <5>2. call[q] # "idle"
          BY <2>1, <2>5, <3>3, <4>2 DEF Others, Submit, Receive, GiveUp, Cleanup, StartServer,
             EditPolicy, clientVars, Types
        <5> QED
          BY <5>1, <5>2 DEF AskedInv
      <4> QED
        BY <4>1, <4>2
    <3> QED
      BY <3>1, <3>2, <3>3 DEF AskedInv, CommandFillsTemplate
  <2>6. CASE UNCHANGED vars
    BY <2>6 DEF vars, AskedInv, CommandFillsTemplate
  <2> QED
    BY <2>2, <2>3, <2>4, <2>5, <2>6, AnyStep
<1>3. PlanInv => CommandFillsTemplate
  BY DEF PlanInv
<1> QED
  BY Invariant, <1>1, <1>2, <1>3, PTL DEF Spec

-----------------------------------------------------------------------------
(* Executed and told once, as long as no restart follows a refused unlink. *)

\* OnceInv and TruthInv for one request.
Once(r) ==
  /\ reqFile[r] = "ready" /\ pc[r] = "none" => Fresh(r)
  /\ reqFile[r] = "ready" => Refused \/ (pc[r] \in {"none", "dead"} /\ Fresh(r))
  /\ pc[r] \in Working \cup {"reply"} => call[r] \in {"waiting", "abandoned"} /\ respFile[r] = "none"
  /\ pc[r] \in Working => executed[r] = 0
  /\ executed[r] \in {0, 1}
  /\ respFile[r] = "exit" => executed[r] = 1
  /\ respFile[r] \in Refusals => executed[r] = 0
  /\ pc[r] = "reply" /\ out[r] = "exit" => executed[r] = 1
  /\ pc[r] = "reply" /\ out[r] \in Refusals => executed[r] = 0

\* A step on one request keeps them if it keeps them for that request; a
\* refusal is not forgotten.
LEMMA OneRequest ==
  ASSUME Types, OnceInv, TruthInv, NEW r \in Requests,
         \A q \in Requests \ {r} : Place(q)' = Place(q),
         faults' \in Nat, faults' >= faults,
         Once(r)'
  PROVE  OnceInv' /\ TruthInv'
<1>1. \A q \in Requests \ {r} :
        /\ call'[q] = call[q] /\ reqFile'[q] = reqFile[q] /\ respFile'[q] = respFile[q]
        /\ pc'[q] = pc[q] /\ out'[q] = out[q] /\ executed'[q] = executed[q]
  BY DEF Place
<1>2. Refused => Refused'
  BY DEF Refused, Types
<1>3. ASSUME NEW q \in Requests \ {r} PROVE Once(q)'
  BY <1>1, <1>2, <1>3 DEF OnceInv, TruthInv, Once, Fresh
<1>4. \A q \in Requests : Once(q)'
  BY <1>3
<1> QED
  BY <1>4 DEF Once, OnceInv, TruthInv

\* Loading and deciding.
LEMMA WorkKeepsOnce ==
  ASSUME Types, FileInv, OnceInv, TruthInv, NEW r \in Requests, Loading(r) \/ Deciding(r)
  PROVE  OnceInv' /\ TruthInv'
<1>1. /\ UNCHANGED <<call, reqFile, respFile, executed, faults>>
      /\ pc[r] \in Working
      /\ \/ /\ out' = out
            /\ \E there \in Working \cup {"dead"} : pc' = [pc EXCEPT ![r] = there]
         \/ /\ pc' = [pc EXCEPT ![r] = "reply"]
            /\ \E reply \in Refusals : out' = [out EXCEPT ![r] = reply]
  BY Works
<1>2. pc \in [Requests -> PCs] /\ out \in [Requests -> Replies \cup {"none"}] /\ faults \in Nat
  BY DEF Types
<1>3. \A q \in Requests \ {r} : Place(q)' = Place(q)
  <2>1. \A q \in Requests \ {r} : pc'[q] = pc[q] /\ out'[q] = out[q]
    BY <1>1, <1>2
  <2> QED
    BY <1>1, <2>1 DEF Place
<1>4. Once(r)'
  <2>1. /\ executed[r] = 0 /\ call[r] \in {"waiting", "abandoned"} /\ respFile[r] = "none"
        /\ reqFile[r] = "ready" => Refused
    BY <1>1 DEF OnceInv, Working
  <2>2. /\ pc'[r] \in Working \cup {"dead", "reply"} /\ "none" \notin Working \cup {"dead", "reply"}
        /\ pc'[r] = "reply" => out'[r] \in Refusals
    BY <1>1, <1>2 DEF Working
  <2>3. "exit" \notin Refusals /\ "none" \notin Refusals
    BY DEF Refusals
  <2> QED
    BY <1>1, <2>1, <2>2, <2>3 DEF Once, Refused
<1> QED
  BY <1>1, <1>2, <1>3, <1>4, OneRequest

\* A thread begins with a published request, and executes it.
LEMMA ThreadKeepsOnce ==
  ASSUME Types, FileInv, OnceInv, TruthInv, NEW r \in Requests,
         RefuseCwd(r) \/ GetPolicy(r) \/ RunCommand(r)
  PROVE  OnceInv' /\ TruthInv'
<1>1. /\ reqFile \in [Requests -> {"none", "tmp", "ready"}]
      /\ pc \in [Requests -> PCs]
      /\ out \in [Requests -> Replies \cup {"none"}]
      /\ executed \in [Requests -> Nat]
      /\ faults \in Nat
  BY DEF Types
<1>2. "exit" \notin Refusals /\ "error" \notin Refusals /\ "none" \notin Refusals
      /\ "reply" \notin Working /\ "none" \notin Working
  BY DEF Refusals, Working
<1>3. CASE RefuseCwd(r) \/ GetPolicy(r)
  <2>1. /\ UNCHANGED <<call, respFile, executed>>
        /\ reqFile[r] = "ready" /\ pc[r] = "none"
        /\ faults' \in Nat /\ faults' >= faults
    <3>1. UNCHANGED <<call, respFile, executed>> /\ reqFile[r] = "ready" /\ pc[r] = "none"
      BY <1>3, Starts, Zenon
    <3>2. faults' \in 0..MaxFaults /\ faults' >= faults
      BY <1>3, Starts, Zenon
    <3>3. faults' \in Nat
      BY <3>2, ExecAssumption
    <3> QED
      BY <3>1, <3>2, <3>3
  <2>2. /\ reqFile'[r] = "ready" => Refused'
        /\ \A q \in Requests \ {r} : reqFile'[q] = reqFile[q]
    <3>1. reqFile'[r] = "ready" => UnlinkMayFail /\ faults' = faults + 1
      BY <1>3, StartsOne
    <3>2. \A q \in Requests \ {r} : reqFile'[q] = reqFile[q]
      BY <1>3, StartsOne
    <3>3. reqFile'[r] = "ready" => Refused'
      BY <1>1, <3>1 DEF Refused
    <3> QED
      BY <3>2, <3>3
  <2>3. /\ pc'[r] \in {"create", "return", "reply"}
        /\ pc'[r] = "reply" => out'[r] = "bad cwd"
        /\ \A q \in Requests \ {r} : pc'[q] = pc[q] /\ out'[q] = out[q]
    BY <1>3, StartsOne
  <2>4. Fresh(r)
    BY <2>1 DEF OnceInv
  <2>5. Once(r)'
    BY <1>2, <2>1, <2>2, <2>3, <2>4 DEF Once, Fresh
  <2>6. \A q \in Requests \ {r} : Place(q)' = Place(q)
    BY <2>1, <2>2, <2>3 DEF Place
  <2> QED
    BY <2>1, <2>5, <2>6, OneRequest
<1>4. CASE RunCommand(r)
  <2>1. /\ pc[r] = "run" /\ pc'[r] = "reply" /\ UNCHANGED <<call, reqFile, respFile, faults>>
        /\ \/ out'[r] = "exit" /\ executed'[r] = executed[r] + 1
           \/ out'[r] = "error" /\ executed'[r] \in {executed[r], executed[r] + 1}
    BY <1>1, <1>4 DEF RunCommand, At, Say, clientVars
  <2>2. \A q \in Requests \ {r} : pc'[q] = pc[q] /\ out'[q] = out[q] /\ executed'[q] = executed[q]
    BY <1>1, <1>4 DEF RunCommand, At, Say
  <2>3. /\ call[r] \in {"waiting", "abandoned"} /\ respFile[r] = "none" /\ executed[r] = 0
        /\ reqFile[r] = "ready" => Refused
    BY <2>1 DEF OnceInv, Working
  <2>4. executed'[r] \in {0, 1} /\ (out'[r] = "exit" => executed'[r] = 1)
    BY <2>1, <2>3
  <2>5. Once(r)'
    BY <1>2, <2>1, <2>3, <2>4 DEF Once, Refused
  <2>6. \A q \in Requests \ {r} : Place(q)' = Place(q)
    BY <2>1, <2>2 DEF Place
  <2> QED
    BY <1>1, <2>1, <2>5, <2>6, OneRequest
<1> QED
  BY <1>3, <1>4

\* It ends with an answer, or without one.
LEMMA EndKeepsOnce ==
  ASSUME Types, FileInv, ThreadInv, OnceInv, TruthInv, NEW r \in Requests, Ending(r)
  PROVE  OnceInv' /\ TruthInv'
<1>1. /\ reqFile \in [Requests -> {"none", "tmp", "ready"}]
      /\ respFile \in [Requests -> Replies \cup {"none"}]
      /\ pc \in [Requests -> PCs]
      /\ out \in [Requests -> Replies \cup {"none"}]
  BY DEF Types
<1>2. /\ UNCHANGED <<call, executed>> /\ faults' \in Nat /\ faults' >= faults /\ faults \in Nat
      /\ pc'[r] \in {"done", "dead"}
      /\ \A q \in Requests \ {r} : pc'[q] = pc[q]
  BY <1>1, Ends DEF Types
<1>3. \A q \in Requests \ {r} : out'[q] = out[q] /\ reqFile'[q] = reqFile[q] /\ respFile'[q] = respFile[q]
  BY <1>1, Ends
<1>4. \A q \in Requests \ {r} : Place(q)' = Place(q)
  BY <1>2, <1>3 DEF Place
<1>5. {"done", "dead"} \cap (Working \cup {"reply", "none"}) = {} /\ executed[r] \in {0, 1}
  BY DEF Working, OnceInv
<1>6. Refused => Refused'
  BY <1>2 DEF Refused
<1>7. CASE Reply(r)
  <2>1. pc[r] = "reply" /\ reqFile' = reqFile /\ respFile'[r] = out[r]
    BY <1>1, <1>7 DEF Reply
  <2>2. reqFile[r] = "ready" => Refused
    BY <2>1 DEF OnceInv
  <2>3. Once(r)'
    BY <1>2, <1>5, <1>6, <2>1, <2>2 DEF Once, TruthInv
  <2> QED
    BY <1>2, <1>4, <2>3, OneRequest
<1>8. CASE ReplyFails(r)
  <2>1. pc[r] = "reply" /\ reqFile' = reqFile /\ respFile' = respFile
    BY <1>8 DEF ReplyFails
  <2>2. reqFile[r] = "ready" => Refused
    BY <2>1 DEF OnceInv
  <2>3. Once(r)'
    BY <1>2, <1>5, <1>6, <2>1, <2>2 DEF Once, TruthInv
  <2> QED
    BY <1>2, <1>4, <2>3, OneRequest
<1>9. CASE CannotTakeUp(r)
  <2>1. pc[r] = "none" /\ reqFile[r] = "ready" /\ pc'[r] = "dead" /\ UNCHANGED <<reqFile, respFile>>
    BY <1>1, <1>9 DEF CannotTakeUp
  <2>2. Fresh(r)
    BY <2>1 DEF OnceInv
  <2>3. Once(r)'
    BY <1>2, <1>5, <2>1, <2>2 DEF Once, Fresh, TruthInv
  <2> QED
    BY <1>2, <1>4, <2>3, OneRequest
<1>10. CASE CannotLookAtCwd(r)
  <2>1. /\ pc[r] = "none" /\ reqFile[r] = "ready" /\ respFile' = respFile
        /\ \/ reqFile'[r] = "none"
           \/ UnlinkMayFail /\ faults' = faults + 1
    BY <1>1, <1>10 DEF CannotLookAtCwd, TakeUp, Fault
  <2>2. Fresh(r)
    BY <2>1 DEF OnceInv
  <2>3. reqFile'[r] = "ready" => Refused'
    BY <1>2, <2>1 DEF Refused
  <2>4. Once(r)'
    BY <1>2, <1>5, <2>1, <2>2, <2>3 DEF Once, Fresh, TruthInv
  <2> QED
    BY <1>2, <1>4, <2>4, OneRequest
<1> QED
  BY <1>7, <1>8, <1>9, <1>10 DEF Ending, ThreadFails

\* The client's steps and a cleanup.
LEMMA OthersKeepOnce ==
  ASSUME Types, FileInv, OnceInv, TruthInv, NEW r \in Requests, Others(r)
  PROVE  OnceInv' /\ TruthInv'
<1>1. /\ \A q \in Requests \ {r} : Place(q)' = Place(q)
      /\ pc'[r] = pc[r] /\ out'[r] = out[r] /\ executed'[r] = executed[r]
  BY OthersPlace
<1>2. faults' \in Nat /\ faults' >= faults /\ faults \in Nat
  BY OthersDo DEF Types
<1>3. Refused => Refused'
  BY <1>2 DEF Refused
<1>4. Once(r) /\ "none" \notin Refusals \cup {"exit"}
  BY DEF OnceInv, TruthInv, Once, Refusals
<1>5. Once(r)'
  <2>. DEFINE Old == <<call[r], reqFile[r], respFile[r]>>
  <2>1. CASE call[r] = "idle" /\ call'[r] = "writing" /\ reqFile'[r] = "tmp" /\ respFile'[r] = respFile[r]
    BY <1>1, <1>4, <2>1 DEF FileInv, Once, Working
  <2>2. CASE /\ call[r] = "writing" /\ reqFile[r] = "tmp"
             /\ call'[r] = "waiting" /\ reqFile'[r] = "ready" /\ respFile'[r] = respFile[r]
    <3>1. pc[r] = "none" /\ respFile[r] = "none" /\ executed[r] = 0
      BY <2>2 DEF FileInv
    <3> QED
      BY <1>1, <1>4, <2>2, <3>1 DEF Once, Fresh, Working
  <2>3. CASE /\ call[r] = "waiting" /\ call'[r] \in {"ok", "failed", "rejected"}
             /\ respFile[r] # "none" /\ reqFile'[r] = reqFile[r]
             /\ respFile'[r] \in {respFile[r], "none"}
    <3>1. /\ reqFile[r] = "ready" => pc[r] # "none" /\ Refused
          /\ pc[r] \notin Working \cup {"reply"}
      BY <1>4, <2>3 DEF Once, Fresh
    <3> QED
      BY <1>1, <1>3, <1>4, <2>3, <3>1 DEF Once
  <2>4. CASE /\ call[r] \in {"writing", "waiting"} /\ call'[r] = "abandoned"
             /\ reqFile'[r] = reqFile[r] /\ respFile'[r] = respFile[r]
    BY <1>1, <1>3, <1>4, <2>4 DEF Once, Fresh
  <2>5. CASE /\ call'[r] = call[r] /\ reqFile'[r] \in {reqFile[r], "none"}
             /\ respFile'[r] \in {respFile[r], "none"}
    BY <1>1, <1>3, <1>4, <2>5 DEF Once, Fresh
  <2> QED
    BY <2>1, <2>2, <2>3, <2>4, <2>5, OthersPlace
<1> QED
  BY <1>1, <1>2, <1>5, OneRequest

\* The server starts and stops: a file that a thread has left behind is there
\* for the next server only if it stops after a refusal.
LEMMA ServerKeepsOnce ==
  ASSUME RestartsCanUnlink, Types, FileInv, OnceInv, TruthInv, StartServer \/ Crash \/ EditPolicy
  PROVE  OnceInv' /\ TruthInv'
<1>1. faults \in Nat /\ MaxFaults \in Nat /\ "none" \notin Refusals \cup {"exit"}
  BY ExecAssumption DEF Types, Refusals
<1>2. CASE Crash
  <2>1. UNCHANGED <<call, reqFile, respFile, executed>> /\ \A q \in Requests : pc'[q] = "none"
    BY <1>2 DEF Crash, clientVars
  <2>2. ~Refused
    BY <1>1, <1>2 DEF Crash, Fault, Refused, RestartsCanUnlink
  <2>3. \A q \in Requests : reqFile[q] = "ready" => Fresh(q)
    BY <2>2 DEF OnceInv
  <2>4. OnceInv'
    BY <2>1, <2>3 DEF OnceInv, Fresh, Working
  <2>5. TruthInv'
    BY <2>1 DEF TruthInv
  <2> QED
    BY <2>4, <2>5
<1>3. CASE StartServer
  <2>1. UNCHANGED <<call, pc, out, executed, faults>>
    BY <1>3 DEF StartServer, clientVars, threadVars
  <2>2. PICK reqs, resps \in SUBSET Requests : RemoveOld(reqs, resps)
    BY <1>3 DEF StartServer
  <2>3. \A q \in Requests : reqFile'[q] \in {reqFile[q], "none"} /\ respFile'[q] \in {respFile[q], "none"}
    BY <2>2, Removal
  <2>4. OnceInv'
    BY <2>1, <2>3 DEF OnceInv, Fresh, Refused
  <2>5. TruthInv'
    BY <1>1, <2>1, <2>3 DEF TruthInv
  <2> QED
    BY <2>4, <2>5
<1>4. CASE EditPolicy
  BY <1>4 DEF EditPolicy, clientVars, threadVars, OnceInv, Fresh, Refused, TruthInv
<1> QED
  BY <1>2, <1>3, <1>4

\* A request is executed at most once, and what its response says of that is
\* true, as long as no restart follows a refused unlink.
THEOREM ToldOnce ==
  ASSUME RestartsCanUnlink
  PROVE  Spec => [](OnceInv /\ TruthInv)
<1>1. Init => OnceInv /\ TruthInv
  BY DEF Init, OnceInv, TruthInv, Working, Refusals
<1>2. ExecInv /\ OnceInv /\ TruthInv /\ [Next]_vars => OnceInv' /\ TruthInv'
  <2>. SUFFICES ASSUME Types, FileInv, ThreadInv, OnceInv, TruthInv, [Next]_vars
                PROVE  OnceInv' /\ TruthInv'
    BY DEF ExecInv
  <2>1. ASSUME NEW r \in Requests, Acting(r) PROVE OnceInv' /\ TruthInv'
    BY <2>1, WorkKeepsOnce, ThreadKeepsOnce DEF Acting, Loading, Deciding
  <2>2. ASSUME NEW r \in Requests, Ending(r) PROVE OnceInv' /\ TruthInv'
    BY <2>2, EndKeepsOnce
  <2>3. ASSUME NEW r \in Requests, Others(r) PROVE OnceInv' /\ TruthInv'
    BY <2>3, OthersKeepOnce
  <2>4. ASSUME StartServer \/ Crash \/ EditPolicy PROVE OnceInv' /\ TruthInv'
    BY <2>4, ServerKeepsOnce
  <2>5. ASSUME UNCHANGED vars PROVE OnceInv' /\ TruthInv'
    BY <2>5 DEF vars, OnceInv, TruthInv, Fresh, Refused
  <2> QED
    BY <2>1, <2>2, <2>3, <2>4, <2>5, AnyStep
<1> QED
  BY Invariant, <1>1, <1>2, PTL DEF Spec

-----------------------------------------------------------------------------
\* A client's steps are those of a caller; a cleanup is no step of the service.
LEMMA OthersRefine ==
  ASSUME ExecInv, TruthInv, NEW r \in Requests, Others(r)
  PROVE  [Service!Next]_Service!vars
<1>1. executed' = executed
  BY OthersDo DEF ExecInv
<1>2. CASE Prepare(r)
  BY <1>1, <1>2 DEF Prepare, Service!Next, Service!Prepare
<1>3. CASE Submit(r)
  BY <1>1, <1>3 DEF Submit, Service!Next, Service!Submit
<1>4. CASE GiveUp(r)
  BY <1>1, <1>4 DEF GiveUp, Service!Next, Service!Abandon
<1>5. CASE Receive(r)
  <2>. DEFINE a == Answer(respFile[r])
  <2>1. call[r] = "waiting" /\ respFile[r] # "none" /\ call' = [call EXCEPT ![r] = a]
    BY <1>5 DEF Receive
  <2>2. /\ respFile[r] \in Replies
        /\ respFile[r] = "exit" => executed[r] = 1
        /\ respFile[r] \in Refusals => executed[r] = 0
    BY <2>1 DEF ExecInv, Types, TruthInv
  <2>3. /\ a \in Service!Answers /\ Service!Truthful(r, a)
    BY <2>2 DEF Answer, Replies, Service!Answers, Service!Truthful
  <2>. HIDE DEF a
  <2> QED
    BY <1>1, <2>1, <2>3 DEF Service!Next, Service!Answer
<1>6. CASE Cleanup(r)
  BY <1>1, <1>6 DEF Cleanup, clientVars, Service!vars
<1> QED
  BY <1>2, <1>3, <1>4, <1>5, <1>6 DEF Others

\* Of a thread's steps only running the command counts.
LEMMA ThreadRefines ==
  ASSUME ExecInv, OnceInv, NEW r \in Requests, Acting(r) \/ Ending(r)
  PROVE  [Service!Next]_Service!vars
<1>1. Types /\ ThreadInv
  BY DEF ExecInv
<1>2. CASE RunCommand(r)
  <2>1. /\ pc[r] = "run" /\ call' = call
        /\ executed' = executed \/ executed' = [executed EXCEPT ![r] = @ + 1]
    BY <1>2 DEF RunCommand, At, clientVars
  <2>2. call[r] \in {"waiting", "abandoned"} /\ executed[r] = 0
    BY <2>1 DEF OnceInv, Working
  <2>3. executed' = executed \/ executed' = [executed EXCEPT ![r] = 1]
    BY <2>1, <2>2
  <2> QED
    BY <2>1, <2>2, <2>3 DEF Service!Next, Service!Execute, Service!vars
<1>3. CASE ~RunCommand(r)
  <2>1. call' = call /\ executed' = executed
    BY <1>1, <1>3, Works, Starts, Ends DEF Acting, Loading, Deciding
  <2> QED
    BY <2>1 DEF Service!vars
<1> QED
  BY <1>2, <1>3

\* Exec implements the abstract remote call, as long as no restart follows a
\* refused unlink.
THEOREM Refinement ==
  ASSUME RestartsCanUnlink
  PROVE  Spec => ImplementsRequestReply
<1>1. Init => Service!Init
  BY DEF Init, Service!Init
<1>2. ExecInv /\ OnceInv /\ TruthInv /\ [Next]_vars => [Service!Next]_Service!vars
  <2>1. ASSUME ExecInv, StartServer \/ Crash \/ EditPolicy PROVE UNCHANGED Service!vars
    BY <2>1 DEF StartServer, Crash, EditPolicy, clientVars, Service!vars
  <2>2. ASSUME UNCHANGED vars PROVE UNCHANGED Service!vars
    BY <2>2 DEF vars, Service!vars
  <2> QED
    BY <2>1, <2>2, OthersRefine, ThreadRefines, AnyStep
<1> QED
  BY <1>1, <1>2, Invariant, ToldOnce, PTL DEF Spec, ImplementsRequestReply, Service!Spec
=============================================================================
