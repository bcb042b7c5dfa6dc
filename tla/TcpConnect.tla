------------------------------ MODULE TcpConnect ------------------------------
(***************************************************************************)
(* How a tunnelled TCP connection is set up: the client makes a directory  *)
(* for it and writes connect.json; the relay on the host polls for such    *)
(* directories, hands each to a thread that opens the real connection and  *)
(* answers with an "established" or an "error.json" file; the client waits *)
(* for one of them and, behind SOCKS, removes the directory if it fails.   *)
(*                                                                         *)
(* virtio_bridge/tcp_protocol.py  the files                                *)
(* virtio_bridge/tcp_relay.py     TcpRelayServer                           *)
(* virtio_bridge/socks.py         SocksHandler, up to its _relay           *)
(* virtio_bridge/direct.py        DirectTcpClient.connect                  *)
(*                                                                         *)
(* What is relayed once the connection stands is module TcpPump.           *)
(***************************************************************************)
EXTENDS Naturals

CONSTANTS
  Conns,       \* connections clients will make, by id
  Workers,     \* identities for handler threads: bounds how many run at once
  Protected,   \* files the removal of which may be refused
  None,        \* no job
  MaxFaults    \* bounds the relay's stops and its passing failures

ASSUME ConnectAssumption ==
  /\ Protected \subseteq {"connect.json", "established", "error.json"}
  /\ None \notin Conns
  /\ MaxFaults \in Nat

VARIABLES
  socks,       \* connections made by the SOCKS proxy, the others by a
               \* DirectTcpClient; fixed
  allowed,     \* those to a host in the relay's allow list; fixed
  sound,       \* those whose files the relay can read and write, to a host whose
               \* name can be looked up or be found not to exist; fixed
  client,      \* [Conns -> ...] where the client is
  outcome,     \* [Conns -> ...] how the attempt ended for it
  sweep,       \* [Conns -> SUBSET Files] what its cleanup has still to unlink
  dir,         \* [Conns -> BOOLEAN] the directory exists
  connect,     \* [Conns -> BOOLEAN] connect.json is complete
  established, \* [Conns -> BOOLEAN] the established file exists
  error,       \* [Conns -> ...] error.json: absent, created, or written
  kept,        \* history: those whose connect.json somebody failed to remove
  mode,        \* how far TcpRelayServer.start has got
  list,        \* pending connections listed and not yet handled
  active,      \* the relay's _active_conns
  pc,          \* [Workers -> ...] where each handler thread is
  job,         \* [Workers -> ...] its connection
  sockets,     \* history: real connections opened for each; 2 stands for more
  refused,     \* history: connections the relay refused, or could not make
  faults       \* against MaxFaults

setup == <<socks, allowed, sound>>
clientVars == <<setup, client, outcome, sweep>>
fileVars == <<dir, connect, established, error, kept>>
relayVars == <<mode, list, active>>
threadVars == <<pc, job>>
historyVars == <<sockets, refused>>
vars == <<socks, allowed, sound, client, outcome, sweep, dir, connect, established, error,
          kept, mode, list, active, pc, job, sockets, refused, faults>>

Files == {"connect.json", "established", "error.json"}

TypeOK ==
  /\ socks \subseteq Conns
  /\ allowed \subseteq Conns
  /\ sound \subseteq Conns
  /\ client \in [Conns -> {"idle", "preparing", "waiting", "checking", "connected",
                           "failing", "clearing", "unlinking", "gone"}]
  /\ outcome \in [Conns -> {"none", "connected", "refused", "timeout"}]
  /\ sweep \in [Conns -> SUBSET Files]
  /\ dir \in [Conns -> BOOLEAN]
  /\ connect \in [Conns -> BOOLEAN]
  /\ established \in [Conns -> BOOLEAN]
  /\ error \in [Conns -> {"none", "empty", "written"}]
  /\ kept \subseteq Conns
  /\ mode \in {"down", "starting", "polling"}
  /\ list \subseteq Conns
  /\ active \subseteq Conns
  /\ pc \in [Workers -> {"free", "read", "connecting", "signalling", "refusing",
                         "writing", "relaying"}]
  /\ job \in [Workers -> Conns \cup {None}]
  /\ sockets \in [Conns -> 0..2]
  /\ refused \subseteq Conns
  /\ faults \in 0..MaxFaults

Init ==
  /\ socks \in SUBSET Conns
  /\ allowed \in SUBSET Conns
  /\ sound \in SUBSET Conns
  /\ client = [c \in Conns |-> "idle"]
  /\ outcome = [c \in Conns |-> "none"]
  /\ sweep = [c \in Conns |-> {}]
  /\ dir = [c \in Conns |-> FALSE]
  /\ connect = [c \in Conns |-> FALSE]
  /\ established = [c \in Conns |-> FALSE]
  /\ error = [c \in Conns |-> "none"]
  /\ kept = {}
  /\ mode = "down"
  /\ list = {}
  /\ active = {}
  /\ pc = [w \in Workers |-> "free"]
  /\ job = [w \in Workers |-> None]
  /\ sockets = [c \in Conns |-> 0]
  /\ refused = {}
  /\ faults = 0

Fault == faults < MaxFaults /\ faults' = faults + 1

-----------------------------------------------------------------------------
(* The client.                                                             *)

ClientAt(c, here, there) ==
  /\ client[c] = here
  /\ client' = [client EXCEPT ![c] = there]
  /\ UNCHANGED <<setup, relayVars, threadVars, historyVars, faults>>

\* create_connect_request: the directory, a .tmp file ...
MakeDirectory(c) ==
  /\ ClientAt(c, "idle", "preparing")
  /\ dir' = [dir EXCEPT ![c] = TRUE]
  /\ UNCHANGED <<outcome, sweep, connect, established, error, kept>>

\* ... and its renaming to connect.json, unless one of these fails.
PublishConnect(c) ==
  /\ dir[c]
  /\ ClientAt(c, "preparing", "waiting")
  /\ connect' = [connect EXCEPT ![c] = TRUE]
  /\ UNCHANGED <<outcome, sweep, dir, established, error, kept>>

PublishFails(c) ==
  /\ ClientAt(c, "preparing", "gone")
  /\ UNCHANGED <<outcome, sweep, fileVars>>

\* wait_established looks for "established", then for "error.json".
SeeEstablished(c) ==
  /\ established[c]
  /\ ClientAt(c, "waiting", "connected")
  /\ outcome' = [outcome EXCEPT ![c] = "connected"]
  /\ UNCHANGED <<sweep, fileVars>>

SeeNotEstablished(c) ==
  /\ ~established[c]
  /\ ClientAt(c, "waiting", "checking")
  /\ UNCHANGED <<outcome, sweep, fileVars>>

SeeError(c) ==
  /\ error[c] # "none"
  /\ ClientAt(c, "checking", "failing")
  /\ UNCHANGED <<outcome, sweep, fileVars>>

SeeNoError(c) ==
  /\ error[c] = "none"
  /\ ClientAt(c, "checking", "waiting")
  /\ UNCHANGED <<outcome, sweep, fileVars>>

TimeOut(c) ==
  /\ ClientAt(c, "waiting", "failing")
  /\ UNCHANGED <<outcome, sweep, fileVars>>

\* Mutation: the state of the file is taken for the outcome.
ReadErrorVerbatim(c) ==
  /\ ClientAt(c, "failing", IF c \in socks THEN "clearing" ELSE "gone")
  /\ outcome' = [outcome EXCEPT ![c] = error[c]]
  /\ UNCHANGED <<sweep, fileVars>>

\* get_error: None for a file that is absent or not JSON yet, which both
\* clients take for a timeout.  DirectTcpClient raises and leaves the
\* directory; the SOCKS handler goes on to cleanup.
ReadError(c) ==
  /\ ClientAt(c, "failing", IF c \in socks THEN "clearing" ELSE "gone")
  /\ outcome' = [outcome EXCEPT ![c] = IF error[c] = "written" THEN "refused" ELSE "timeout"]
  /\ UNCHANGED <<sweep, fileVars>>

FilesOf(c) ==
  {f \in Files : \/ f = "connect.json" /\ connect[c]
                 \/ f = "established" /\ established[c]
                 \/ f = "error.json" /\ error[c] # "none"}

\* cleanup lists the directory ...
ListFiles(c) ==
  /\ ClientAt(c, "clearing", "unlinking")
  /\ sweep' = [sweep EXCEPT ![c] = FilesOf(c)]
  /\ UNCHANGED <<outcome, fileVars>>

\* ... unlinks what it has listed, in whatever order that is; a PermissionError
\* is passed over ...
UnlinkFile(c) ==
  /\ ClientAt(c, "unlinking", "unlinking")
  /\ \E f \in sweep[c] :
       /\ sweep' = [sweep EXCEPT ![c] = @ \ {f}]
       /\ \/ /\ connect' = [connect EXCEPT ![c] = @ /\ f # "connect.json"]
             /\ established' = [established EXCEPT ![c] = @ /\ f # "established"]
             /\ error' = [error EXCEPT ![c] = IF f = "error.json" THEN "none" ELSE @]
             /\ UNCHANGED kept
          \/ /\ f \in Protected
             /\ kept' = IF f = "connect.json" THEN kept \cup {c} ELSE kept
             /\ UNCHANGED <<connect, established, error>>
  /\ UNCHANGED <<outcome, dir>>

\* ... and removes the directory if nothing is left or has been added: an
\* answer, or what a relay has sent on a connection it opened.
RemoveDirectory(c) ==
  /\ sweep[c] = {}
  /\ ClientAt(c, "unlinking", "gone")
  /\ \E data \in BOOLEAN :
       /\ data => sockets[c] > 0
       /\ dir' = [dir EXCEPT ![c] = FilesOf(c) # {} \/ data]
  /\ UNCHANGED <<outcome, sweep, connect, established, error, kept>>

ClientStep(c) ==
  \/ SeeEstablished(c) \/ SeeNotEstablished(c) \/ SeeError(c) \/ SeeNoError(c)
  \/ ReadError(c) \/ ListFiles(c) \/ UnlinkFile(c) \/ RemoveDirectory(c)

-----------------------------------------------------------------------------
(* The relay's main thread.                                                *)

\* Mutation: the listing asks for "established" only.
PendingUntilEstablished == {c \in Conns : connect[c] /\ ~established[c]}

\* list_pending_connections.
Pending == {c \in Conns : connect[c] /\ ~established[c] /\ error[c] = "none"}

\* An OSError ends a listing early.
List ==
  \/ list' = Pending' /\ UNCHANGED faults
  \/ list' \in SUBSET Pending' /\ Fault

\* cleanup_stale removes what it may of directories whose age is more than
\* max_age: how long their clients wait, and by which clock, it does not know.
CleanupStale ==
  \E old \in SUBSET {c \in Conns : dir[c]} : \E stay \in [old -> SUBSET Protected] :
    LET removed(c, f) == c \in old /\ f \notin stay[c]
    IN /\ dir' = [c \in Conns |-> dir[c] /\ (c \in old => FilesOf(c) \cap stay[c] # {})]
       /\ connect' = [c \in Conns |-> connect[c] /\ ~removed(c, "connect.json")]
       /\ established' = [c \in Conns |-> established[c] /\ ~removed(c, "established")]
       /\ error' = [c \in Conns |-> IF removed(c, "error.json") THEN "none" ELSE error[c]]
       /\ kept' = kept \cup {c \in old : "connect.json" \in stay[c]}

\* TcpRelayServer.start: init, cleanup_stale, and the first listing.
StartRelay ==
  /\ mode = "down"
  /\ mode' = "starting"
  /\ CleanupStale
  /\ List
  /\ UNCHANGED <<clientVars, active, threadVars, historyVars>>

\* _handle_connection: a new thread.  Only _process_pending, at the start,
\* asks _active_conns whether there is one already.
Handle(w, c) ==
  /\ c \in list
  /\ mode = "starting" => c \notin active
  /\ active' = IF mode = "starting" THEN active \cup {c} ELSE active
  /\ list' = list \ {c}
  /\ pc[w] = "free"
  /\ pc' = [pc EXCEPT ![w] = "read"]
  /\ job' = [job EXCEPT ![w] = c]
  /\ UNCHANGED <<clientVars, fileVars, mode, historyVars, faults>>

BeginPolling ==
  /\ mode = "starting"
  /\ list = {}
  /\ mode' = "polling"
  /\ UNCHANGED <<clientVars, fileVars, list, active, threadVars, historyVars, faults>>

\* _start_polling, every 50ms.
PollPending ==
  /\ mode = "polling"
  /\ list = {}
  /\ UNCHANGED <<clientVars, fileVars, mode, active, threadVars, historyVars>>
  /\ List

StopRelay ==
  /\ mode # "down"
  /\ Fault
  /\ mode' = "down"
  /\ list' = {}
  /\ active' = {}
  /\ pc' = [w \in Workers |-> "free"]
  /\ job' = [w \in Workers |-> None]
  /\ UNCHANGED <<clientVars, fileVars, historyVars>>

-----------------------------------------------------------------------------
(* A handler thread: _do_handle_connection.                                *)

HandlerAt(w, here, there) ==
  /\ pc[w] = here
  /\ pc' = [pc EXCEPT ![w] = there]
  /\ job' = [job EXCEPT ![w] = IF there = "free" THEN None ELSE @]
  /\ UNCHANGED <<clientVars, relayVars>>

\* Mutation: "established" is signalled before the connection is opened.
ReadConnectAndSignal(w) ==
  /\ HandlerAt(w, "read", "signalling")
  /\ connect[job[w]]
  /\ UNCHANGED <<fileVars, historyVars, faults>>

\* read_connect_request, and the allow list.
ReadConnect(w) ==
  /\ \/ HandlerAt(w, "read", "connecting") /\ connect[job[w]] /\ job[w] \in allowed
     \/ HandlerAt(w, "read", "refusing") /\ connect[job[w]] /\ job[w] \notin allowed
     \/ HandlerAt(w, "read", "free") /\ ~connect[job[w]]
  /\ UNCHANGED <<fileVars, historyVars, faults>>

ConnectSucceeds(w) ==
  /\ HandlerAt(w, "connecting", "signalling")
  /\ sockets' = [sockets EXCEPT ![job[w]] = IF @ = 0 THEN 1 ELSE 2]
  /\ UNCHANGED <<fileVars, refused, faults>>

\* Mutation: a failed connection attempt ends the thread without an answer.
ConnectFailsSilently(w) ==
  /\ HandlerAt(w, "connecting", "free")
  /\ UNCHANGED <<fileVars, historyVars, faults>>

ConnectFails(w) ==
  /\ HandlerAt(w, "connecting", "refusing")
  /\ UNCHANGED <<fileVars, historyVars, faults>>

\* Without the directory, touch and write_text raise FileNotFoundError,
\* which ends the thread (and with it the socket).
DirectoryGone(w) ==
  /\ HandlerAt(w, "signalling", "free") \/ HandlerAt(w, "refusing", "free")
  /\ ~dir[job[w]]
  /\ UNCHANGED <<fileVars, historyVars, faults>>

SignalEstablished(w) ==
  /\ HandlerAt(w, "signalling", "relaying")
  /\ dir[job[w]]
  /\ established' = [established EXCEPT ![job[w]] = TRUE]
  /\ UNCHANGED <<dir, connect, error, kept, historyVars, faults>>

\* signal_error writes in place: the file is there before its contents.
CreateError(w) ==
  /\ HandlerAt(w, "refusing", "writing")
  /\ dir[job[w]]
  /\ error' = [error EXCEPT ![job[w]] = "empty"]
  /\ refused' = refused \cup {job[w]}
  /\ UNCHANGED <<dir, connect, established, kept, sockets, faults>>

WriteError(w) ==
  /\ HandlerAt(w, "writing", "free")
  /\ error' = [error EXCEPT ![job[w]] = IF @ = "empty" THEN "written" ELSE @]
  /\ UNCHANGED <<dir, connect, established, kept, historyVars, faults>>

\* Any other exception ends the thread where it is, without an answer: a request
\* that cannot be read or decrypted (it is only logged as having disappeared), a
\* name that is none, a file that cannot be written.
HandlerFails(w) ==
  /\ \E here \in {"read", "connecting", "signalling", "refusing", "writing"} :
       HandlerAt(w, here, "free")
  /\ IF job[w] \in sound THEN Fault ELSE UNCHANGED faults
  /\ UNCHANGED <<fileVars, historyVars>>

\* TcpRelayHandler.relay returns: both pumps have ended, or its two joins
\* of 120s each have timed out.
RelayEnds(w) ==
  /\ HandlerAt(w, "relaying", "free")
  /\ UNCHANGED <<fileVars, historyVars, faults>>

HandlerStep(w) ==
  \/ ReadConnect(w) \/ ConnectSucceeds(w) \/ ConnectFails(w) \/ DirectoryGone(w)
  \/ SignalEstablished(w) \/ CreateError(w) \/ WriteError(w) \/ RelayEnds(w)

-----------------------------------------------------------------------------
Next ==
  \/ \E c \in Conns :
       MakeDirectory(c) \/ PublishConnect(c) \/ PublishFails(c) \/ TimeOut(c) \/ ClientStep(c)
  \/ StartRelay \/ BeginPolling \/ PollPending \/ StopRelay
  \/ \E w \in Workers, c \in Conns : Handle(w, c)
  \/ \E w \in Workers : HandlerStep(w) \/ HandlerFails(w)

Spec == Init /\ [][Next]_vars

\* The relay's main thread and its handlers run; a client need not.
FairSpec ==
  /\ Spec
  /\ WF_vars(BeginPolling \/ PollPending \/ \E w \in Workers, c \in Conns : Handle(w, c))
  /\ \A w \in Workers : WF_vars(HandlerStep(w))

-----------------------------------------------------------------------------
(* What connection set-up is checked for.                                  *)

\* Whatever duplicates, time-outs and restarts come between: a client that is
\* told the connection stands had one opened for it, and one that is told it
\* was refused had an attempt refused.
OutcomeIsTrue ==
  \A c \in Conns :
    /\ outcome[c] = "connected" => sockets[c] > 0
    /\ outcome[c] = "refused" => c \in refused

\* An attempt is over when its client has its outcome and the relay's answer is
\* there or the request is not, which a SOCKS client sees to by its cleanup; and
\* the relay is through with it if neither a listing nor a thread has it to open.
Over(c) ==
  /\ client[c] \in {"connected", "gone"}
  /\ c \in socks \/ established[c] \/ error[c] # "none" \/ ~connect[c]

Unattended(c) == c \notin list /\ \A w \in Workers : job[w] = c => pc[w] \notin {"read", "connecting"}

\* What is over stays over, whatever removes files of it, adds late answers or
\* restarts the relay, unless the removal of its connect.json was refused: no
\* listing finds it again, and once the relay is through with it no further
\* connection to its host is opened.
SettledForGood ==
  [][\A c \in Conns : Over(c) /\ c \notin kept' =>
       /\ Over(c)'
       /\ c \in list' => c \in list
       /\ Unattended(c) => Unattended(c)' /\ sockets'[c] = sockets[c]]_vars

\* A connection request is answered by a running relay, also one that was
\* published while the relay was starting: unlike a file watcher, polling
\* looks at what is there and not at what is new.  A failure that passes is made
\* up for by a later round; one that does not (sound) leaves it without answer.
PendingIsHandled ==
  \A c \in Conns : (c \in sound /\ c \in Pending /\ mode # "down") ~> (c \notin Pending \/ mode = "down")

(* What a comment says that the code does not do.                          *)

\* tcp_protocol.py: "Server detects connect.json, opens real TCP connection":
\* one connection directory, one real connection.
OneSocketPerConnection == \A c \in Conns : sockets[c] <= 1
=============================================================================
