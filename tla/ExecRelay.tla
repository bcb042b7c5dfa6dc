------------------------------ MODULE ExecRelay ------------------------------
(***************************************************************************)
(* Predefined actions: a client asks for an action by name, the server     *)
(* looks it up in its policy, loaded from a file when first needed, has a  *)
(* human confirm it where the policy says so, runs the command and writes  *)
(* what came of it.                                                        *)
(*                                                                         *)
(* virtio_bridge/direct.py       DirectClient.exec                         *)
(* virtio_bridge/server.py       _get_exec_policy, _handle_exec            *)
(* virtio_bridge/exec_policy.py  ExecPolicy, osascript_confirm             *)
(* virtio_bridge/protocol.py     the exec request and response files       *)
(*                                                                         *)
(* How a request file reaches a thread, once in a server process and no    *)
(* matter which watcher is used, is module HttpRelay; here a running       *)
(* server may take it up, and the one thread that does is named after its  *)
(* request.  So is the ExecPolicy object that thread may create.           *)
(***************************************************************************)
EXTENDS ExecTemplate, FiniteSets

CONSTANTS
  Requests,     \* exec requests, by id
  CallsOf,      \* [Requests -> set of [action, params, cwd]] what each may ask
  Histories,    \* what the policy file may hold, one version after the other:
                \* sequences of entries, or Unreadable
  Dirs,         \* the directories that exist on the host
  Dotted,       \* those with ".." somewhere in their path
  Unreadable,   \* a policy file that is missing, a symlink or not JSON
  None,         \* nothing yet
  UnlinkMayFail,\* the mount may refuse to unlink a request file
  MaxFaults     \* bounds how often the server stops or is refused

ASSUME ExecAssumption ==
  /\ \A h \in Histories : h # <<>>
  /\ UnlinkMayFail \in BOOLEAN
  /\ MaxFaults \in Nat
  /\ None \notin Requests

VARIABLES
  call,      \* [Requests -> ...] the client's view of each request
  asked,     \* [Requests -> ...] what it asks for
  reqFile,   \* [Requests -> ...] the file in requests/
  respFile,  \* [Requests -> ...] the file in responses/, by what it says
  future,    \* the versions of the policy file, from the present one on
  up,        \* the server runs
  current,   \* its _exec_policy: None or an object, named by its creator
  loaded,    \* [Requests -> BOOLEAN] the object's _loaded
  actions,   \* [Requests -> SUBSET entries] the object's actions
  pc,        \* [Requests -> ...] where the request's thread is
  obj,       \* [Requests -> ...] the object the thread works with
  then,      \* [Requests -> ...] where load returns to
  unread,    \* [Requests -> Seq(entries)] entries load has still to insert
  plan,      \* [Requests -> ...] what resolve returned
  out,       \* [Requests -> ...] what the response will say
  executed,  \* [Requests -> Nat] how often a command was run for it
  approved,  \* history: requests a human has allowed since the server started
  versions,  \* history: what the policy file held since the server started
  clash,     \* history: a load emptied an object another thread was using
  lost,      \* history: requests that lost their thread, their file or their
             \* response to a failure while the client waited
  faults     \* against MaxFaults

clientVars == <<call, asked>>
serverVars == <<up, current, versions, lost>>
objectVars == <<loaded, actions, clash>>
threadVars == <<pc, obj, then, unread, plan, out>>
vars == <<call, asked, reqFile, respFile, future, up, current, loaded, actions, pc, obj, then,
          unread, plan, out, executed, approved, versions, clash, lost, faults>>

\* What an ExecResponse says: an exit code, an error after or instead of
\* running the command, or the reason for not running it.
Refusals == {"bad cwd", "no policy", "unknown", "denied", "elsewhere", "params", "declined"}
Replies == {"exit", "error"} \cup Refusals
Answer(reply) == IF reply = "exit" THEN "ok" ELSE IF reply = "error" THEN "failed" ELSE "rejected"

Versions == UNION {ToSet(h) : h \in Histories}
Entries == UNION {ToSet(v) : v \in Versions \ {Unreadable}}
PolicyFile == Head(future)

\* A policy that can be read is a JSON object: its entries have distinct names.
ASSUME PolicyAssumption ==
  /\ Histories \subseteq Seq(Versions)
  /\ \A v \in Versions \ {Unreadable} :
       /\ v \in Seq(Entries)
       /\ \A e, f \in ToSet(v) : e.name = f.name => e = f
Calls == UNION {CallsOf[r] : r \in Requests}

\* A command in the policy is a list of texts with placeholders, and a
\* parameter that is a string is a list of words.
ASSUME TemplateAssumption ==
  /\ \A e \in Entries : e.cmd \in Seq(Seq(Pieces(e)))
  /\ \A c \in Calls : \A n \in DOMAIN c.params :
       c.params[n] = NotText \/ c.params[n] \in Seq(ToSet(c.params[n]))

PCs == {"none", "create", "begin", "load", "clear", "insert", "return", "resolve",
        "lookup", "confirm", "run", "reply", "done", "dead"}
Ended == {"none", "done", "dead"}

TypeOK ==
  /\ call \in [Requests -> {"idle", "writing", "waiting", "abandoned", "ok", "failed", "rejected"}]
  /\ asked \in [Requests -> Calls \cup {None}]
  /\ reqFile \in [Requests -> {"none", "tmp", "ready"}]
  /\ respFile \in [Requests -> Replies \cup {"none"}]
  /\ future # <<>> /\ ToSet(future) \subseteq Versions
  /\ up \in BOOLEAN
  /\ current \in Requests \cup {None}
  /\ loaded \in [Requests -> BOOLEAN]
  /\ actions \in [Requests -> SUBSET Entries]
  /\ pc \in [Requests -> PCs]
  /\ obj \in [Requests -> Requests \cup {None}]
  /\ then \in [Requests -> {"return", "lookup"}]
  /\ \A r \in Requests : ToSet(unread[r]) \subseteq Entries
  /\ \A r \in Requests : plan[r] # None => plan[r].entry \in Entries
  /\ out \in [Requests -> Replies \cup {"none"}]
  /\ executed \in [Requests -> Nat]
  /\ approved \subseteq Requests
  /\ versions \subseteq Versions
  /\ clash \in BOOLEAN
  /\ lost \subseteq Requests
  /\ faults \in 0..MaxFaults

Init ==
  /\ call = [r \in Requests |-> "idle"]
  /\ asked = [r \in Requests |-> None]
  /\ reqFile = [r \in Requests |-> "none"]
  /\ respFile = [r \in Requests |-> "none"]
  /\ future \in Histories
  /\ up = FALSE
  /\ current = None
  /\ loaded = [r \in Requests |-> FALSE]
  /\ actions = [r \in Requests |-> {}]
  /\ pc = [r \in Requests |-> "none"]
  /\ obj = [r \in Requests |-> None]
  /\ then = [r \in Requests |-> "return"]
  /\ unread = [r \in Requests |-> <<>>]
  /\ plan = [r \in Requests |-> None]
  /\ out = [r \in Requests |-> "none"]
  /\ executed = [r \in Requests |-> 0]
  /\ approved = {}
  /\ versions = {}
  /\ clash = FALSE
  /\ lost = {}
  /\ faults = 0

\* A stop of the server or a refusal by the mount.
Fault == faults < MaxFaults /\ faults' = faults + 1

-----------------------------------------------------------------------------
(* The client: DirectClient.exec.                                          *)

\* write_request, up to the rename ...
Prepare(r) ==
  /\ call[r] = "idle"
  /\ call' = [call EXCEPT ![r] = "writing"]
  /\ \E c \in CallsOf[r] : asked' = [asked EXCEPT ![r] = c]
  /\ reqFile' = [reqFile EXCEPT ![r] = "tmp"]
  /\ UNCHANGED <<respFile, future, serverVars, objectVars, threadVars, executed, approved, faults>>

\* ... and the rename.
Submit(r) ==
  /\ call[r] = "writing"
  /\ reqFile[r] = "tmp"
  /\ call' = [call EXCEPT ![r] = "waiting"]
  /\ reqFile' = [reqFile EXCEPT ![r] = "ready"]
  /\ UNCHANGED <<asked, respFile, future, serverVars, objectVars, threadVars, executed, approved,
                 faults>>

\* Mutation: the client takes the response's text for its outcome.
ReceiveVerbatim(r) ==
  /\ call[r] = "waiting"
  /\ respFile[r] # "none"
  /\ call' = [call EXCEPT ![r] = respFile[r]]
  /\ respFile' = [respFile EXCEPT ![r] = "none"]
  /\ UNCHANGED <<asked, reqFile, future, serverVars, objectVars, threadVars, executed, approved,
                 faults>>

\* wait_exec_response finds the response, and removes it; that this is refused
\* is passed over.
Receive(r) ==
  /\ call[r] = "waiting"
  /\ respFile[r] # "none"
  /\ call' = [call EXCEPT ![r] = Answer(respFile[r])]
  /\ lost' = lost \ {r}
  /\ \/ respFile' = [respFile EXCEPT ![r] = "none"] /\ UNCHANGED faults
     \/ UnlinkMayFail /\ Fault /\ UNCHANGED respFile
  /\ UNCHANGED <<asked, reqFile, future, up, current, versions, objectVars, threadVars, executed,
                 approved>>

\* TimeoutError after the command's time-out and ten seconds, or the client
\* process ends.  The server does not hear of it: the dialog may stay open
\* for a minute, and the command has its time-out to itself.
GiveUp(r) ==
  /\ call[r] \in {"writing", "waiting"}
  /\ call' = [call EXCEPT ![r] = "abandoned"]
  /\ lost' = lost \ {r}
  /\ UNCHANGED <<asked, reqFile, respFile, future, up, current, versions, objectVars, threadVars,
                 executed, approved, faults>>

-----------------------------------------------------------------------------
(* The server process and the policy file.                                 *)

Loses(requests) == lost' = lost \cup {r \in requests : call[r] = "waiting"}

\* cleanup_stale looks at the age of a file and not at who waits for it.
RemoveOld(reqs, resps) ==
  /\ \A r \in reqs : reqFile[r] # "none"
  /\ \A r \in resps : respFile[r] # "none"
  /\ reqFile' = [r \in Requests |-> IF r \in reqs THEN "none" ELSE reqFile[r]]
  /\ respFile' = [r \in Requests |-> IF r \in resps THEN "none" ELSE respFile[r]]
  /\ Loses({r \in reqs : reqFile[r] = "ready" /\ pc[r] \in Ended} \cup resps)

\* BridgeServer.start: cleanup_stale, and the first look at the policy's file.
StartServer ==
  /\ ~up
  /\ up' = TRUE
  /\ versions' = {PolicyFile}
  /\ \E reqs, resps \in SUBSET Requests : RemoveOld(reqs, resps)
  /\ UNCHANGED <<clientVars, future, current, objectVars, threadVars, executed, approved, faults>>

\* The cleanup command, at any time, comes to one file after the other.
Cleanup(r) ==
  /\ RemoveOld({r}, {}) \/ RemoveOld({}, {r})
  /\ UNCHANGED <<clientVars, future, up, current, versions, objectVars, threadVars, executed,
                 approved, faults>>

\* The process ends, and with it its threads and the policy it had loaded.
Crash ==
  /\ up
  /\ Fault
  /\ up' = FALSE
  /\ current' = None
  /\ versions' = {}
  /\ Loses({r \in Requests : pc[r] \notin Ended})
  /\ loaded' = [r \in Requests |-> FALSE]
  /\ actions' = [r \in Requests |-> {}]
  /\ clash' = FALSE
  /\ pc' = [r \in Requests |-> "none"]
  /\ obj' = [r \in Requests |-> None]
  /\ then' = [r \in Requests |-> "return"]
  /\ unread' = [r \in Requests |-> <<>>]
  /\ plan' = [r \in Requests |-> None]
  /\ out' = [r \in Requests |-> "none"]
  /\ approved' = {}
  /\ UNCHANGED <<clientVars, reqFile, respFile, future, executed>>

\* Somebody on the host edits, breaks or creates the policy file.
EditPolicy ==
  /\ Len(future) > 1
  /\ future' = Tail(future)
  /\ versions' = IF up THEN versions \cup {Head(future')} ELSE versions
  /\ UNCHANGED <<clientVars, reqFile, respFile, up, current, lost, objectVars, threadVars,
                 executed, approved, faults>>

-----------------------------------------------------------------------------
(* A handler thread, _handle_exec.                                         *)

\* The thread goes from one place to another, touching only its own state.
At(r, here, there) ==
  /\ pc[r] = here
  /\ pc' = [pc EXCEPT ![r] = there]
  /\ UNCHANGED <<clientVars, reqFile, respFile, future, serverVars, faults>>

Say(r, reply) == out' = [out EXCEPT ![r] = reply]

\* peek_request_type and consume_exec_request, which also unlinks the file; a
\* refusal is passed over, and the file stays where it is.
TakeUp(r, there, gone) ==
  /\ up
  /\ reqFile[r] = "ready"
  /\ \/ reqFile' = [reqFile EXCEPT ![r] = "none"] /\ UNCHANGED faults
     \/ UnlinkMayFail /\ Fault /\ UNCHANGED reqFile
  /\ pc[r] = "none"
  /\ pc' = [pc EXCEPT ![r] = there]
  /\ Loses(gone)
  /\ UNCHANGED <<clientVars, respFile, future, up, current, versions, objectVars, obj, then, unread,
                 plan, executed, approved>>

\* The thread cannot read, decrypt or parse the file, or not unlink it for
\* another reason: it ends, and the file stays for the next server.
CannotTakeUp(r) ==
  /\ up
  /\ reqFile[r] = "ready"
  /\ pc[r] = "none"
  /\ pc' = [pc EXCEPT ![r] = "dead"]
  /\ Loses({r})
  /\ UNCHANGED <<clientVars, reqFile, respFile, future, up, current, versions, objectVars, obj, then,
                 unread, plan, out, executed, approved, faults>>

\* Path(cwd).expanduser().resolve() fails or is not a directory.
RefuseCwd(r) ==
  /\ TakeUp(r, "reply", {})
  /\ asked[r].cwd \notin Dirs
  /\ Say(r, "bad cwd")

\* is_dir raises, outside every try: the thread ends with the request consumed.
CannotLookAtCwd(r) ==
  /\ TakeUp(r, "dead", {r})
  /\ UNCHANGED out

\* _get_exec_policy looks whether there is a policy ...
GetPolicy(r) ==
  /\ TakeUp(r, IF current = None THEN "create" ELSE "return", {})
  /\ asked[r].cwd \in Dirs
  /\ UNCHANGED out

\* ... and makes one otherwise.
CreatePolicy(r) ==
  /\ pc[r] = "create"
  /\ pc' = [pc EXCEPT ![r] = "begin"]
  /\ current' = r
  /\ UNCHANGED <<clientVars, reqFile, respFile, future, up, versions, lost, objectVars, obj, then,
                 unread, plan, out, executed, approved, faults>>

\* self._exec_policy.load(), on whichever object is there by now.
BeginLoad(r) ==
  /\ At(r, "begin", "load")
  /\ obj' = [obj EXCEPT ![r] = current]
  /\ then' = [then EXCEPT ![r] = "return"]
  /\ UNCHANGED <<objectVars, unread, plan, out, executed, approved>>

\* Mutation: nobody catches what load raises.
LoadFailsUncaught(r) ==
  /\ PolicyFile = Unreadable
  /\ At(r, "load", "dead")
  /\ UNCHANGED <<objectVars, obj, then, unread, plan, out, executed, approved>>

\* load raises: FileNotFoundError, PermissionError or a ValueError.
LoadFails(r) ==
  /\ PolicyFile = Unreadable
  /\ At(r, "load", "reply")
  /\ Say(r, "no policy")
  /\ UNCHANGED <<objectVars, obj, then, unread, plan, executed, approved>>

LoadReads(r) ==
  /\ PolicyFile # Unreadable
  /\ At(r, "load", "clear")
  /\ unread' = [unread EXCEPT ![r] = PolicyFile]
  /\ UNCHANGED <<objectVars, obj, then, plan, out, executed, approved>>

InUse(o, r) == loaded[o] \/ \E q \in Requests \ {r} : obj[q] = o /\ pc[q] = "insert"

\* self.actions = {}
Clear(r) ==
  /\ At(r, "clear", "insert")
  /\ actions' = [actions EXCEPT ![obj[r]] = {}]
  /\ clash' = (clash \/ InUse(obj[r], r))
  /\ UNCHANGED <<loaded, obj, then, unread, plan, out, executed, approved>>

Valid(entry) == entry.level \in {"allow", "confirm", "deny"} /\ entry.cmd # <<>>

\* One round of load's loop over the entries of the file.
Insert(r) ==
  /\ unread[r] # <<>>
  /\ Valid(Head(unread[r]))
  /\ At(r, "insert", "insert")
  /\ unread' = [unread EXCEPT ![r] = Tail(@)]
  /\ actions' = [actions EXCEPT ![obj[r]] =
                   {e \in @ : e.name # Head(unread[r]).name} \cup {Head(unread[r])}]
  /\ UNCHANGED <<loaded, clash, obj, then, plan, out, executed, approved>>

\* An entry without a command or with another level: ValueError, and the
\* entries inserted so far stay.
InsertFails(r) ==
  /\ unread[r] # <<>>
  /\ ~Valid(Head(unread[r]))
  /\ At(r, "insert", "reply")
  /\ Say(r, "no policy")
  /\ UNCHANGED <<objectVars, obj, then, unread, plan, executed, approved>>

\* self._loaded = True
Loaded(r) ==
  /\ unread[r] = <<>>
  /\ At(r, "insert", then[r])
  /\ loaded' = [loaded EXCEPT ![obj[r]] = TRUE]
  /\ UNCHANGED <<actions, clash, obj, then, unread, plan, out, executed, approved>>

\* return self._exec_policy
ReturnPolicy(r) ==
  /\ At(r, "return", "resolve")
  /\ obj' = [obj EXCEPT ![r] = current]
  /\ UNCHANGED <<objectVars, then, unread, plan, out, executed, approved>>

\* Mutation: resolve does not ask whether the policy is loaded.
ResolveUnloaded(r) ==
  /\ At(r, "resolve", "lookup")
  /\ UNCHANGED <<objectVars, obj, then, unread, plan, out, executed, approved>>

\* resolve loads the policy if nobody has managed to yet.
Resolve(r) ==
  /\ At(r, "resolve", IF loaded[obj[r]] THEN "lookup" ELSE "load")
  /\ then' = [then EXCEPT ![r] = "lookup"]
  /\ UNCHANGED <<objectVars, obj, unread, plan, out, executed, approved>>

\* What resolve makes of a call, given the entries of a policy.
Decision(entries, c) ==
  LET found == {e \in entries : e.name = c.action}
      e == CHOOSE x \in found : TRUE
  IN IF found = {} THEN "unknown"
     ELSE IF e.level = "deny" THEN "denied"
     ELSE IF c.cwd \in Dotted \/ (e.dirs # {} /\ c.cwd \notin e.dirs) THEN "elsewhere"
     ELSE IF ~ValidParams(e, c.params) THEN "params"
     ELSE e.level

\* resolve from the lookup on; build_command's exceptions are caught in
\* _handle_exec as "Policy error".
Refuse(r) ==
  LET decision == Decision(actions[obj[r]], asked[r])
      entry == CHOOSE e \in actions[obj[r]] : e.name = asked[r].action
  IN /\ At(r, "lookup", "reply")
     /\ \/ decision \in Refusals /\ Say(r, decision)
        \/ /\ decision \notin Refusals
           /\ CannotBuild(entry, asked[r].params)
           /\ Say(r, "params")
     /\ obj' = [obj EXCEPT ![r] = None]
     /\ UNCHANGED <<objectVars, then, unread, plan, executed, approved>>

\* The command is built.  Logging it joins its arguments, outside every try:
\* an argument that is no string ends the thread without a response.
Accept(r) ==
  LET decision == Decision(actions[obj[r]], asked[r])
      entry == CHOOSE e \in actions[obj[r]] : e.name = asked[r].action
      cmd == BuildCommand(entry, asked[r].params)
  IN /\ pc[r] = "lookup"
     /\ decision \in {"allow", "confirm"}
     /\ ~CannotBuild(entry, asked[r].params)
     /\ At(r, "lookup", IF ~CanBeShown(cmd) THEN "dead"
                        ELSE IF decision = "confirm" THEN "confirm" ELSE "run")
     /\ plan' = [plan EXCEPT ![r] = [entry |-> entry, cmd |-> cmd]]
     /\ obj' = [obj EXCEPT ![r] = None]
     /\ UNCHANGED <<objectVars, then, unread, out, executed, approved>>

\* osascript_confirm: somebody clicks "Allow" within the minute.
Approve(r) ==
  /\ At(r, "confirm", "run")
  /\ approved' = approved \cup {r}
  /\ UNCHANGED <<objectVars, obj, then, unread, plan, out, executed>>

\* Mutation: a dialog that gives up counts as approval.
DeclineOrRun(r) ==
  /\ \/ At(r, "confirm", "run") /\ UNCHANGED out
     \/ At(r, "confirm", "reply") /\ Say(r, "declined")
  /\ UNCHANGED <<objectVars, obj, then, unread, plan, executed, approved>>

\* "Deny", the dialog gives up, osascript is missing or fails.
Decline(r) ==
  /\ At(r, "confirm", "reply")
  /\ Say(r, "declined")
  /\ UNCHANGED <<objectVars, obj, then, unread, plan, executed, approved>>

\* Mutation: a command that runs into its time-out is reported as not run.
RunCommandDisowned(r) ==
  /\ At(r, "run", "reply")
  /\ \/ Say(r, "exit") /\ executed' = [executed EXCEPT ![r] = @ + 1]
     \/ Say(r, "declined") /\ executed' = [executed EXCEPT ![r] = @ + 1]
     \/ Say(r, "error") /\ UNCHANGED executed
  /\ UNCHANGED <<objectVars, obj, then, unread, plan, approved>>

\* subprocess.run returns, runs into its time-out, or cannot start.
RunCommand(r) ==
  /\ At(r, "run", "reply")
  /\ \/ Say(r, "exit") /\ executed' = [executed EXCEPT ![r] = @ + 1]
     \/ Say(r, "error") /\ executed' = [executed EXCEPT ![r] = @ + 1]
     \/ Say(r, "error") /\ UNCHANGED executed
  /\ UNCHANGED <<objectVars, obj, then, unread, plan, approved>>

\* What a thread knows goes with it.
Forget(r) ==
  /\ obj' = [obj EXCEPT ![r] = None]
  /\ then' = [then EXCEPT ![r] = "return"]
  /\ unread' = [unread EXCEPT ![r] = <<>>]
  /\ plan' = [plan EXCEPT ![r] = None]
  /\ out' = [out EXCEPT ![r] = "none"]

\* write_exec_response.
Reply(r) ==
  /\ pc[r] = "reply"
  /\ pc' = [pc EXCEPT ![r] = "done"]
  /\ respFile' = [respFile EXCEPT ![r] = out[r]]
  /\ Forget(r)
  /\ UNCHANGED <<clientVars, reqFile, future, serverVars, objectVars, executed, approved, faults>>

\* It cannot be written: nobody catches that.
ReplyFails(r) ==
  /\ pc[r] = "reply"
  /\ pc' = [pc EXCEPT ![r] = "dead"]
  /\ Loses({r})
  /\ Forget(r)
  /\ UNCHANGED <<clientVars, reqFile, respFile, future, up, current, versions, objectVars,
                 executed, approved, faults>>

ThreadFails(r) == CannotTakeUp(r) \/ CannotLookAtCwd(r) \/ ReplyFails(r)

ThreadStep(r) ==
  \/ RefuseCwd(r) \/ GetPolicy(r) \/ CreatePolicy(r) \/ BeginLoad(r)
  \/ LoadFails(r) \/ LoadReads(r) \/ Clear(r) \/ Insert(r) \/ InsertFails(r) \/ Loaded(r)
  \/ ReturnPolicy(r) \/ Resolve(r) \/ Refuse(r) \/ Accept(r) \/ Approve(r) \/ Decline(r)
  \/ RunCommand(r) \/ Reply(r)

-----------------------------------------------------------------------------
Next ==
  \/ \E r \in Requests :
       \/ Prepare(r) \/ Submit(r) \/ Receive(r) \/ GiveUp(r)
       \/ ThreadStep(r) \/ ThreadFails(r) \/ Cleanup(r)
  \/ StartServer \/ Crash \/ EditPolicy

Spec == Init /\ [][Next]_vars

\* Threads run: one that has not ended can always step, a dialog ends within
\* 70 seconds and a command within its time-out.  A client polls; nothing
\* obliges a server to start or to take up a request.
Runs(r) == []<>(pc[r] \in Ended) \/ []<><<ThreadStep(r)>>_threadVars

FairSpec == Spec /\ \A r \in Requests : Runs(r) /\ WF_vars(Receive(r))

-----------------------------------------------------------------------------
(* What exec is checked for.                                               *)

\* Exec requests, too, are remote calls executed at most once and answered
\* truthfully, whatever the dialog, the time-outs and restarts do, as long as no
\* restart follows a refused unlink: a server finds the file again when it starts.
RestartsCanUnlink == UnlinkMayFail => MaxFaults <= 1
Service == INSTANCE RequestReply
ImplementsRequestReply == Service!Spec

\* Whatever the threads loading a policy do to one another, and however often
\* its file changes: the command a thread has resolved is that of an entry that
\* the file has held since the server started, for a call that the entry admits,
\* and it runs only if a human allowed it or none had to.
OnlyPolicyRuns ==
  \A r \in Requests : plan[r] # None =>
    /\ \E v \in versions \ {Unreadable} : plan[r].entry \in ToSet(v)
    /\ Decision({plan[r].entry}, asked[r]) = plan[r].entry.level
    /\ pc[r] = "run" /\ plan[r].entry.level = "confirm" => r \in approved

\* And the command has the parameters of the call where the template of its
\* entry has their names: no value is split, dropped or put elsewhere.
CommandFillsTemplate ==
  \A r \in Requests : plan[r] # None => Fills(plan[r].cmd, plan[r].entry, asked[r].params)

\* A refusal is a decision of a policy the file has held since the server
\* started, unless one thread reloads what another already works with: then
\* an action that every version lists may be called unknown.
RefusalsAreThePolicys ==
  ~clash => \A r \in Requests : out[r] \in Refusals \ {"bad cwd", "no policy", "declined"} =>
    \E v \in versions \ {Unreadable} :
      \/ Decision(ToSet(v), asked[r]) = out[r]
      \/ /\ out[r] = "params"
         /\ \E e \in ToSet(v) : e.name = asked[r].action /\ CannotBuild(e, asked[r].params)

\* A request for which a thread was started is answered or given up, but for
\* what a failure loses: one in a thread when the server stops, or whose file
\* cannot be taken, whose cwd cannot be looked at, whose response cannot be
\* written, or either of whose files a cleanup removes.  Not said of one with a
\* parameter that is no string, which may end the thread.
AnsweredUnlessLost ==
  \A r \in Requests :
    (call[r] = "waiting" /\ pc[r] # "none" /\ NotText \notin ToSet(asked[r].params))
      ~> (call[r] # "waiting" \/ r \in lost)
=============================================================================
