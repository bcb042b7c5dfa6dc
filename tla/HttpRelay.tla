------------------------------ MODULE HttpRelay ------------------------------
(***************************************************************************)
(* The regular (non-streaming) HTTP relay of virtio-bridge: clients in the *)
(* VM write request files into a shared directory, a server on the host    *)
(* notices them through a file watcher, hands each to a thread that        *)
(* consumes the file, forwards the request to its target and writes a      *)
(* response file, for which the client polls until its timeout.            *)
(*                                                                         *)
(* virtio_bridge/client.py, direct.py   the client side                    *)
(* virtio_bridge/server.py, watcher.py  the server side                    *)
(* virtio_bridge/protocol.py            the files both share               *)
(*                                                                         *)
(* A request stands for its unique id.  A file is absent, being written    *)
(* (.tmp) or complete; its contents are abstracted to what the answer is.  *)
(***************************************************************************)
EXTENDS Naturals

CONSTANTS
  Requests,        \* the requests clients will make, by id
  Servers,         \* server processes sharing the directory (one, normally)
  Workers,         \* identities for handler threads: bounds how many run at once
  Admissible,      \* requests whose path and target the server accepts
  Watchers,        \* the backends FileWatcher.create may find on this host
  UnlinkMayFail,   \* whether unlink may raise PermissionError on this mount
  RefusedListings, \* servers whose polls may find nothing, refused the directory
  None,            \* no job, no owner
  MaxFaults        \* how often a server may stop or its poll be refused

ASSUME RelayAssumption ==
  /\ Admissible \subseteq Requests
  /\ Watchers \subseteq {"inotify", "watchdog", "polling"}
  /\ UnlinkMayFail \in BOOLEAN
  /\ RefusedListings \subseteq Servers
  /\ MaxFaults \in Nat
  /\ None \notin Requests \cup Servers

VARIABLES
  call,      \* [Requests -> ...] the client's view of each request
  reqFile,   \* [Requests -> ...] the file in requests/
  respFile,  \* [Requests -> ...] the file in responses/, by the answer it holds
  mode,      \* [Servers -> ...]  how far BridgeServer.start has got
  todo,      \* [Servers -> SUBSET Requests] listed, callback not yet run
  seen,      \* [Servers -> SUBSET Requests] the watcher's set of known files
  events,    \* [Servers -> [Requests -> 0..2]] file events not yet delivered
  pc,        \* [Workers -> ...] where each handler thread is
  owner,     \* [Workers -> ...] the server process a thread belongs to
  job,       \* [Workers -> ...] the request a thread handles
  out,       \* [Workers -> ...] the response a thread will write
  forwarded, \* [Requests -> Nat] how often the target received the request
  sent,      \* [Servers -> [Requests -> Nat]] how often from this process
  owed,      \* history: requests a running server listed or was watching for
  unread,    \* history: requests a server could not list, read or take
  lost,      \* history: requests consumed and not answered, or cleaned away
  faults     \* how often that happened, against MaxFaults

fileVars == <<reqFile, respFile>>
serverVars == <<mode, todo, seen, events>>
threadVars == <<pc, owner, job, out>>
targetVars == <<forwarded, sent>>
historyVars == <<owed, unread, lost>>
vars == <<call, reqFile, respFile, mode, todo, seen, events,
          pc, owner, job, out, forwarded, sent, owed, unread, lost, faults>>

Answers == {"ok", "rejected", "failed"}
CallStates == {"idle", "writing", "waiting", "abandoned"} \cup Answers
Modes == {"down", "starting"} \cup Watchers   \* once it watches: with which backend
PCs == {"free", "read", "unlink", "dispatch", "reply"}

Ready == {r \in Requests : reqFile[r] = "ready"}
Watching(s) == mode[s] \in Watchers
Live(w) == pc[w] # "free"
Holding(w) == pc[w] \in {"dispatch", "reply"}   \* has consumed its request

TypeOK ==
  /\ call \in [Requests -> CallStates]
  /\ reqFile \in [Requests -> {"none", "tmp", "ready"}]
  /\ respFile \in [Requests -> {"none"} \cup Answers]
  /\ mode \in [Servers -> Modes]
  /\ todo \in [Servers -> SUBSET Requests]
  /\ seen \in [Servers -> SUBSET Requests]
  /\ events \in [Servers -> [Requests -> 0..2]]
  /\ pc \in [Workers -> PCs]
  /\ owner \in [Workers -> Servers \cup {None}]
  /\ job \in [Workers -> Requests \cup {None}]
  /\ out \in [Workers -> {"none"} \cup Answers]
  /\ forwarded \in [Requests -> Nat]
  /\ sent \in [Servers -> [Requests -> Nat]]
  /\ owed \in SUBSET Requests
  /\ unread \in SUBSET Requests
  /\ lost \in SUBSET Requests
  /\ faults \in 0..MaxFaults

Init ==
  /\ call = [r \in Requests |-> "idle"]
  /\ reqFile = [r \in Requests |-> "none"]
  /\ respFile = [r \in Requests |-> "none"]
  /\ mode = [s \in Servers |-> "down"]
  /\ todo = [s \in Servers |-> {}]
  /\ seen = [s \in Servers |-> {}]
  /\ events = [s \in Servers |-> [r \in Requests |-> 0]]
  /\ pc = [w \in Workers |-> "free"]
  /\ owner = [w \in Workers |-> None]
  /\ job = [w \in Workers |-> None]
  /\ out = [w \in Workers |-> "none"]
  /\ forwarded = [r \in Requests |-> 0]
  /\ sent = [s \in Servers |-> [r \in Requests |-> 0]]
  /\ owed = {}
  /\ unread = {}
  /\ lost = {}
  /\ faults = 0

-----------------------------------------------------------------------------
(* The client: BridgeProxyHandler or DirectClient, one call at a time each. *)

\* _safe_write_text creates the file under its .tmp name ...
WriteTmp(r) ==
  /\ call[r] = "idle"
  /\ call' = [call EXCEPT ![r] = "writing"]
  /\ reqFile' = [reqFile EXCEPT ![r] = "tmp"]
  /\ UNCHANGED <<respFile, serverVars, threadVars, targetVars, historyVars, faults>>

\* How many events a server gets for one file: inotify one IN_MOVED_TO;
\* watchdog a moved event, and on macOS often a created event as well.
EventsPerFile(s) ==
  CASE mode[s] = "inotify" -> {1}
    [] mode[s] = "watchdog" -> {1, 2}
    [] OTHER -> {0}

\* ... and renames it, which whoever is watching by then is told; if it has
\* been cleaned away, the rename raises and the client gives up.
Publish(r) ==
  /\ call[r] = "writing"
  /\ reqFile[r] = "tmp"
  /\ call' = [call EXCEPT ![r] = "waiting"]
  /\ reqFile' = [reqFile EXCEPT ![r] = "ready"]
  /\ \E n \in [Servers -> 0..2] :
       /\ \A s \in Servers : n[s] \in EventsPerFile(s)
       /\ events' = [s \in Servers |-> [events[s] EXCEPT ![r] = n[s]]]
  /\ owed' = IF \E s \in Servers : Watching(s) THEN owed \cup {r} ELSE owed
  /\ UNCHANGED <<respFile, mode, todo, seen, threadVars, targetVars, unread, lost, faults>>

\* Mutation: the client takes an absent response file for an answer.
ReceiveBlindly(r) ==
  /\ call[r] = "waiting"
  /\ call' = [call EXCEPT ![r] = respFile[r]]
  /\ respFile' = [respFile EXCEPT ![r] = "none"]
  /\ UNCHANGED <<reqFile, serverVars, threadVars, targetVars, historyVars, faults>>

\* Mutation: the client leaves the response it has read where it is.
ReceiveAndLeave(r) ==
  /\ call[r] = "waiting"
  /\ respFile[r] # "none"
  /\ call' = [call EXCEPT ![r] = respFile[r]]
  /\ UNCHANGED <<fileVars, serverVars, threadVars, targetVars, historyVars, faults>>

\* wait_response finds the response file, unlinks it and returns its contents.
Receive(r) ==
  /\ call[r] = "waiting"
  /\ respFile[r] # "none"
  /\ call' = [call EXCEPT ![r] = respFile[r]]
  /\ \/ respFile' = [respFile EXCEPT ![r] = "none"]
     \/ UnlinkMayFail /\ UNCHANGED respFile
  /\ UNCHANGED <<reqFile, serverVars, threadVars, targetVars, historyVars, faults>>

\* wait_response returns None at its deadline (504, TimeoutError), writing the
\* request or reading the response raises, or the client process ends; nothing
\* is removed.
GiveUp(r) ==
  /\ call[r] \in {"writing", "waiting"}
  /\ call' = [call EXCEPT ![r] = "abandoned"]
  /\ UNCHANGED <<fileVars, serverVars, threadVars, targetVars, historyVars, faults>>

-----------------------------------------------------------------------------
(* Starting, watching and stopping a server.                               *)

\* cleanup_stale removes the files older than max_age, whoever waits for them:
\* a client may wait longer than the 300s of start, and the cleanup command
\* takes any age.  So which request and response files go is open.
RemoveOld(reqs, resps) ==
  /\ reqFile' = [r \in Requests |-> IF r \in reqs THEN "none" ELSE reqFile[r]]
  /\ respFile' = [r \in Requests |-> IF r \in resps THEN "none" ELSE respFile[r]]
  /\ LET files == (reqs \cap Ready) \cup {r \in resps : respFile[r] # "none"}
     IN  lost' = lost \cup {r \in files : call[r] = "waiting"}

\* Mutation: the server starts to watch without looking at what is there.
StartWithoutListing(s) ==
  /\ mode[s] = "down"
  /\ mode' = [mode EXCEPT ![s] = "starting"]
  /\ owed' = owed \cup Ready
  /\ UNCHANGED <<call, fileVars, todo, seen, events, threadVars, targetVars, unread, lost, faults>>

\* BridgeServer.start up to the listing: init, cleanup_stale, and
\* list_request_ids, which returns [] on an OSError, as when a file is deleted
\* between its glob and its stat.
Start(s) ==
  /\ mode[s] = "down"
  /\ mode' = [mode EXCEPT ![s] = "starting"]
  /\ \E reqs, resps \in SUBSET Requests :
       /\ RemoveOld(reqs, resps)
       /\ \/ /\ todo' = [todo EXCEPT ![s] = Ready \ reqs]
             /\ owed' = owed \cup (Ready \ reqs)
             /\ UNCHANGED unread
          \/ /\ todo' = [todo EXCEPT ![s] = {}]
             /\ unread' = unread \cup (Ready \ reqs)
             /\ UNCHANGED owed
  /\ UNCHANGED <<call, seen, events, threadVars, targetVars, faults>>

\* The callback _on_request_file: one new thread per file.
Spawn(s, w, r) ==
  /\ pc[w] = "free"
  /\ pc' = [pc EXCEPT ![w] = "read"]
  /\ owner' = [owner EXCEPT ![w] = s]
  /\ job' = [job EXCEPT ![w] = r]
  /\ UNCHANGED out

\* The loop over the listed files, in _process_existing_requests at the
\* start and in PollingWatcher.watch after each listing.
ServeListed(s, w, r) ==
  /\ r \in todo[s]
  /\ todo' = [todo EXCEPT ![s] = @ \ {r}]
  /\ Spawn(s, w, r)
  /\ UNCHANGED <<call, fileVars, mode, seen, events, targetVars, historyVars, faults>>

\* Mutation: the polling watcher starts out knowing no files.
StartWatchingForgetful(s) ==
  /\ mode[s] = "starting"
  /\ todo[s] = {}
  /\ \E b \in Watchers : mode' = [mode EXCEPT ![s] = b]
  /\ seen' = [seen EXCEPT ![s] = {}]
  /\ UNCHANGED <<call, fileVars, todo, events, threadVars, targetVars, historyVars, faults>>

\* The files a poll's glob finds; it passes over a PermissionError in silence.
Listings(s) == {Ready} \cup {l \in {{}} : s \in RefusedListings}

\* FileWatcher.create(...).watch: events start from here; the polling
\* watcher takes the files it finds now as known.
StartWatching(s) ==
  /\ mode[s] = "starting"
  /\ todo[s] = {}
  /\ \E b \in Watchers, l \in Listings(s) :
       /\ mode' = [mode EXCEPT ![s] = b]
       /\ seen' = [seen EXCEPT ![s] = IF b = "polling" THEN l ELSE {}]
  /\ UNCHANGED <<call, fileVars, todo, events, threadVars, targetVars, historyVars, faults>>

\* Mutation: a poll remembers only the files that were new in it.
PollRemembersNew(s) ==
  /\ mode[s] = "polling"
  /\ todo[s] = {}
  /\ todo' = [todo EXCEPT ![s] = Ready \ seen[s]]
  /\ seen' = [seen EXCEPT ![s] = Ready \ seen[s]]
  /\ UNCHANGED <<call, fileVars, mode, events, threadVars, targetVars, historyVars, faults>>

\* One listing of PollingWatcher.watch; its loop body is ServeListed.
Poll(s) ==
  /\ mode[s] = "polling"
  /\ todo[s] = {}
  /\ \E l \in Listings(s) :
       /\ l # Ready => faults < MaxFaults
       /\ todo' = [todo EXCEPT ![s] = l \ seen[s]]
       /\ seen' = [seen EXCEPT ![s] = l]
       /\ faults' = IF l = Ready THEN faults ELSE faults + 1
  /\ UNCHANGED <<call, fileVars, mode, events, threadVars, targetVars, historyVars>>

\* Mutation: watchdog's handler does not ask whether it knows the file.
DeliverEveryEvent(s, w, r) ==
  /\ events[s][r] > 0
  /\ events' = [events EXCEPT ![s][r] = @ - 1]
  /\ seen' = [seen EXCEPT ![s] = @ \cup {r}]
  /\ Spawn(s, w, r)
  /\ UNCHANGED <<call, fileVars, mode, todo, targetVars, historyVars, faults>>

\* One event reaches the callback; watchdog's handler remembers the file.
DeliverEvent(s, w, r) ==
  /\ events[s][r] > 0
  /\ mode[s] = "watchdog" => r \notin seen[s]
  /\ events' = [events EXCEPT ![s][r] = @ - 1]
  /\ seen' = IF mode[s] = "watchdog" THEN [seen EXCEPT ![s] = @ \cup {r}] ELSE seen
  /\ Spawn(s, w, r)
  /\ UNCHANGED <<call, fileVars, mode, todo, targetVars, historyVars, faults>>

\* A second event for a file watchdog's handler already knows.
DropDuplicate(s, r) ==
  /\ events[s][r] > 0
  /\ mode[s] = "watchdog"
  /\ r \in seen[s]
  /\ events' = [events EXCEPT ![s][r] = @ - 1]
  /\ UNCHANGED <<call, fileVars, mode, todo, seen, threadVars, targetVars, historyVars, faults>>

\* The process ends (SIGTERM's sys.exit, or a crash): its daemon threads die
\* where they are, and what its watcher knew is gone.
Crash(s) ==
  /\ mode[s] # "down"
  /\ faults < MaxFaults
  /\ faults' = faults + 1
  /\ mode' = [mode EXCEPT ![s] = "down"]
  /\ todo' = [todo EXCEPT ![s] = {}]
  /\ seen' = [seen EXCEPT ![s] = {}]
  /\ events' = [events EXCEPT ![s] = [r \in Requests |-> 0]]
  /\ pc' = [w \in Workers |-> IF owner[w] = s THEN "free" ELSE pc[w]]
  /\ owner' = [w \in Workers |-> IF owner[w] = s THEN None ELSE owner[w]]
  /\ job' = [w \in Workers |-> IF owner[w] = s THEN None ELSE job[w]]
  /\ out' = [w \in Workers |-> IF owner[w] = s THEN "none" ELSE out[w]]
  /\ sent' = [sent EXCEPT ![s] = [r \in Requests |-> 0]]
  /\ owed' = {}
  /\ lost' = lost \cup {r \in Requests : \E w \in Workers : owner[w] = s /\ Holding(w) /\ job[w] = r}
  /\ UNCHANGED <<call, fileVars, forwarded, unread>>

\* The cleanup command, run by hand while everything else goes on: it comes
\* to one file after the other.
Cleanup(r) ==
  /\ RemoveOld({r}, {}) \/ RemoveOld({}, {r})
  /\ UNCHANGED <<call, serverVars, threadVars, targetVars, owed, unread, faults>>

-----------------------------------------------------------------------------
(* A handler thread: _handle_request and what it calls.                    *)

Finish(w) ==
  /\ pc' = [pc EXCEPT ![w] = "free"]
  /\ owner' = [owner EXCEPT ![w] = None]
  /\ job' = [job EXCEPT ![w] = None]
  /\ out' = [out EXCEPT ![w] = "none"]

\* The thread ends with the file where it is, which nobody looks at again
\* before a server starts.
LeaveUnread(w) ==
  /\ Finish(w)
  /\ unread' = unread \cup {job[w]}
  /\ UNCHANGED reqFile

\* Mutation: a file that cannot be read is thrown away.
HandlerReadDiscarding(w) ==
  /\ pc[w] = "read"
  /\ \/ /\ reqFile[job[w]] = "ready"
        /\ pc' = [pc EXCEPT ![w] = "unlink"]
        /\ UNCHANGED <<reqFile, owner, job, out>>
     \/ /\ Finish(w)
        /\ reqFile' = [reqFile EXCEPT ![job[w]] = "none"]
  /\ UNCHANGED <<call, respFile, serverVars, targetVars, historyVars, faults>>

\* peek_request_type and read_request.  A file that is gone ends the thread, and
\* so does one that may not be read or cannot be: a symlink, a text that does
\* not decrypt (both raise or return None), decode or parse.
HandlerRead(w) ==
  /\ pc[w] = "read"
  /\ \/ /\ reqFile[job[w]] = "ready"
        /\ pc' = [pc EXCEPT ![w] = "unlink"]
        /\ UNCHANGED <<reqFile, owner, job, out, unread>>
     \/ /\ reqFile[job[w]] = "ready"
        /\ LeaveUnread(w)
     \/ /\ reqFile[job[w]] # "ready"
        /\ Finish(w)
        /\ UNCHANGED <<reqFile, unread>>
  /\ UNCHANGED <<call, respFile, serverVars, targetVars, owed, lost, faults>>

\* Mutation: consuming a request leaves its file behind.
HandlerUnlinkForgotten(w) ==
  /\ pc[w] = "unlink"
  /\ pc' = [pc EXCEPT ![w] = "dispatch"]
  /\ UNCHANGED <<call, fileVars, serverVars, owner, job, out, targetVars, historyVars, faults>>

\* consume_request unlinks what it has read, and goes on whether or not the
\* file was still there and whether or not it may be removed; any other error
\* of unlink ends the thread.
HandlerUnlink(w) ==
  /\ pc[w] = "unlink"
  /\ \/ /\ pc' = [pc EXCEPT ![w] = "dispatch"]
        /\ \/ reqFile' = [reqFile EXCEPT ![job[w]] = "none"]
           \/ UnlinkMayFail /\ UNCHANGED reqFile
        /\ UNCHANGED <<owner, job, out, unread>>
     \/ /\ reqFile[job[w]] = "ready"
        /\ LeaveUnread(w)
  /\ UNCHANGED <<call, respFile, serverVars, targetVars, owed, lost, faults>>

\* The thread has decided on its response; n tells whether the target
\* received the request on the way.
Conclude(w, answer, n) ==
  /\ pc[w] = "dispatch"
  /\ pc' = [pc EXCEPT ![w] = "reply"]
  /\ out' = [out EXCEPT ![w] = answer]
  /\ forwarded' = [forwarded EXCEPT ![job[w]] = @ + n]
  /\ sent' = [sent EXCEPT ![owner[w]][job[w]] = @ + n]
  /\ UNCHANGED <<call, fileVars, serverVars, owner, job, historyVars, faults>>

\* An unsafe path, or a target that is missing or not allowed: status 400.
Reject(w) == job[w] \notin Admissible /\ Conclude(w, "rejected", 0)

\* The target answers, with success or an HTTPError.
Forward(w) == job[w] \in Admissible /\ Conclude(w, "ok", 1)

\* URLError before the target saw anything: status 502.
Refused(w) == job[w] \in Admissible /\ Conclude(w, "failed", 0)

\* The exchange breaks after the target saw the request: status 502 too.
Broken(w) == job[w] \in Admissible /\ Conclude(w, "failed", 1)

\* write_response renames the response into place, over any earlier one.  If
\* that raises for a request that was forwarded, _handle_http_request writes a
\* 502 instead.
Reply(w) ==
  /\ pc[w] = "reply"
  /\ \E a \in {out[w]} \cup {b \in {"failed"} : job[w] \in Admissible} :
       respFile' = [respFile EXCEPT ![job[w]] = a]
  /\ Finish(w)
  /\ UNCHANGED <<call, reqFile, serverVars, targetVars, historyVars, faults>>

\* No response can be written, and the thread ends.
ReplyFails(w) ==
  /\ pc[w] = "reply"
  /\ lost' = lost \cup {job[w]}
  /\ Finish(w)
  /\ UNCHANGED <<call, fileVars, serverVars, targetVars, owed, unread, faults>>

HandlerStep(w) ==
  \/ HandlerRead(w)
  \/ HandlerUnlink(w)
  \/ Reject(w)
  \/ Forward(w)
  \/ Refused(w)
  \/ Broken(w)
  \/ Reply(w)
  \/ ReplyFails(w)

-----------------------------------------------------------------------------
Next ==
  \/ \E r \in Requests : WriteTmp(r) \/ Publish(r) \/ Receive(r) \/ GiveUp(r) \/ Cleanup(r)
  \/ \E s \in Servers : Start(s) \/ StartWatching(s) \/ Poll(s) \/ Crash(s)
  \/ \E s \in Servers, r \in Requests : DropDuplicate(s, r)
  \/ \E s \in Servers, w \in Workers, r \in Requests :
       ServeListed(s, w, r) \/ DeliverEvent(s, w, r)
  \/ \E w \in Workers : HandlerStep(w)

Spec == Init /\ [][Next]_vars

\* What runs by itself: a started server's loops, its threads (urlopen has a
\* timeout of 60s), and a client that polls.  Clients need not make requests
\* nor give up, and nothing obliges anybody to start or stop a server.
Fairness ==
  /\ \A s \in Servers :
       /\ WF_vars(StartWatching(s))
       /\ WF_vars(Poll(s))
       /\ \A r \in Requests :
            /\ WF_vars(\E w \in Workers : ServeListed(s, w, r))
            /\ WF_vars(\E w \in Workers : DeliverEvent(s, w, r))
            /\ WF_vars(DropDuplicate(s, r))
  /\ \A w \in Workers : WF_vars(HandlerStep(w))
  /\ \A r \in Requests : WF_vars(Receive(r))

FairSpec == Spec /\ Fairness

\* ... unless an operator does start the server.
StartedSpec == FairSpec /\ \A s \in Servers : WF_vars(Start(s))

-----------------------------------------------------------------------------
(* What the relay is checked for.                                          *)

\* No sequence of events, listings, restarts and duplicate notifications
\* makes one server forward a request to its target twice (watcher.py,
\* consume_request, _process_existing_requests after a restart).
AtMostOnceForward == \A r \in Requests : forwarded[r] <= 1

\* Where unlink is refused or another server reads the file too, a request may
\* be forwarded again, for consume_request goes on in both cases: but no server
\* process, from its start to its stop, does so twice, however often its listing
\* and its watcher see the file.  A poll that may not list the directory forgets
\* every file it knew, so that of such a server this is not said.
AtMostOncePerProcess ==
  \A s \in Servers \ RefusedListings, r \in Requests : sent[s][r] <= 1

\* _on_request_file never has two threads at work on the same request, as the
\* start-up listing, the watcher and its duplicate events could each cause.
OneThreadPerRequest ==
  \A v, w \in Workers : Live(v) /\ Live(w) /\ job[v] = job[w] => v = w

\* A request whose client is still waiting is in the requests directory, in
\* a thread that has consumed it or in the responses directory, however its
\* files fail to be read, taken and written: what loses it is a server that
\* stops between its unlink and its write_response, a response that cannot be
\* written, and a cleanup that looks at the age of its file alone.
WaitingAccountedFor ==
  \A r \in Requests : call[r] = "waiting" =>
    \/ reqFile[r] = "ready"
    \/ \E w \in Workers : Holding(w) /\ job[w] = r
    \/ respFile[r] # "none"
    \/ r \in lost

\* Where unlink works, the request file is gone before its response file
\* exists, and a response file is left behind only by a client that gave up.
NoStrayFiles ==
  ~UnlinkMayFail =>
    \A r \in Requests : respFile[r] # "none" =>
      /\ reqFile[r] = "none"
      /\ call[r] \in {"waiting", "abandoned"}

\* The relay is a remote call executed at most once, answered truthfully and
\* never executed after its answer.
Service == INSTANCE RequestReply WITH executed <- forwarded
ImplementsRequestReply == Service!Spec

\* A request that a running server listed at its start, or that was published
\* while it was watching, is answered, unless its client gives up first, the
\* server stops, the file cannot be read or taken (then it waits, if its client
\* does, for a server to start), or it is one of the lost.
OwedIsServed ==
  \A r \in Requests :
    (call[r] = "waiting" /\ r \in owed)
      ~> (call[r] # "waiting" \/ r \notin owed \/ r \in unread \cup lost)

-----------------------------------------------------------------------------
(* Why it is right, where one server runs, a mount that refuses unlink is  *)
(* not combined with restarts and the directory can be listed: the         *)
(* inductive invariant.                                                    *)

SingleServer == \A s, t \in Servers : s = t
RestartsCanUnlink == UnlinkMayFail => MaxFaults = 0
ListingsSucceed == RefusedListings = {}

Published(r) == call[r] \notin {"idle", "writing"} /\ reqFile[r] # "tmp"

\* Server s may yet start a thread for r, without anything new happening.
Spawnable(s, r) ==
  \/ r \in todo[s]
  \/ mode[s] = "polling" /\ reqFile[r] = "ready" /\ r \notin seen[s]
  \/ mode[s] = "inotify" /\ events[s][r] > 0
  \/ mode[s] = "watchdog" /\ events[s][r] > 0 /\ r \notin seen[s]

\* Some thread has got past unlinking r, now or earlier.
Done(r) ==
  \/ forwarded[r] > 0
  \/ respFile[r] # "none"
  \/ call[r] \in Answers
  \/ \E w \in Workers : Holding(w) /\ job[w] = r

Begun(r) == Done(r) \/ \E w \in Workers : Live(w) /\ job[w] = r

\* What each mode leaves in a server's lists, and what may be in them.
ServerInv ==
  \A s \in Servers :
    /\ mode[s] = "down" => todo[s] = {}
    /\ mode[s] = "polling" => todo[s] \subseteq seen[s]
    /\ mode[s] \in {"inotify", "watchdog"} => todo[s] = {}
    /\ \A r \in Requests :
         /\ events[s][r] > 0 => mode[s] \in {"inotify", "watchdog"}
         /\ mode[s] = "inotify" => events[s][r] <= 1
         /\ r \in todo[s] \/ r \in seen[s] \/ events[s][r] > 0 => Published(r)

ThreadInv ==
  \A w \in Workers :
    IF Live(w)
    THEN /\ job[w] \in Requests
         /\ owner[w] \in Servers
         /\ mode[owner[w]] # "down"
         /\ Published(job[w])
         /\ out[w] = "none" <=> pc[w] # "reply"
    ELSE job[w] = None /\ owner[w] = None /\ out[w] = "none"

\* A thread that has not replied is the first to do anything about its request.
FirstInv ==
  \A w \in Workers : Live(w) =>
    /\ respFile[job[w]] = "none"
    /\ call[job[w]] \notin Answers
    /\ pc[w] # "reply" => forwarded[job[w]] = 0

FileInv ==
  \A r \in Requests :
    /\ ~Published(r) => forwarded[r] = 0 /\ respFile[r] = "none"
    /\ reqFile[r] = "ready" => Published(r)

\* Nothing is begun twice: what is begun is on nobody's list any more, and
\* the file of what is done can only be there because unlink failed.
OnceInv ==
  \A r \in Requests :
    /\ Begun(r) => \A s \in Servers : ~Spawnable(s, r)
    /\ Done(r) /\ reqFile[r] = "ready" => UnlinkMayFail /\ \A s \in Servers : mode[s] # "down"

\* Responses, written or about to be, say truly whether r was forwarded.
TruthInv ==
  /\ \A r \in Requests : Service!Truthful(r, respFile[r])
  /\ \A w \in Workers : Live(w) => Service!Truthful(job[w], out[w])

SafetyInv ==
  /\ AtMostOnceForward
  /\ OneThreadPerRequest
  /\ ServerInv
  /\ ThreadInv
  /\ FirstInv
  /\ FileInv
  /\ OnceInv
  /\ TruthInv

-----------------------------------------------------------------------------
(* What a comment says that the code does not do.                          *)

\* server.py says _process_existing_requests handles "any request files that
\* were written before the server started": every complete request file that
\* can be listed, read and removed is eventually taken out of the requests
\* directory by a server that starts.
WrittenBeforeStartIsProcessed ==
  \A r \in Requests : (reqFile[r] = "ready") ~> (reqFile[r] # "ready" \/ r \in unread)
=============================================================================
