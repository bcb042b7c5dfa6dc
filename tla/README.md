# A TLA+ model of virtio-bridge

virtio-bridge connects programs in a VM that has no network to services on its
host. The only thing both sides share is a directory (VirtioFS, NFS): every
message is a file, every notification is a poll or a file event, and no lock is
shared. This directory holds TLA+ modules for its protocols, the TLC
configurations that check them, and TLAPS proofs.

Contents: [inventory](#inventory), [modules](#modules-and-how-they-correspond-to-the-code),
[runs](#what-each-run-checks), [proofs](#what-is-proved),
[what is not modelled](#what-is-not-modelled), [plan](#plan).

To check: `tlc -config HttpOneServer.cfg MCHttpRelay` (each run's module and
configuration are in `PROJECT.json`) and `tlapm` on `SequenceLemmas.tla` and
each `*_proofs.tla`.

## Inventory

All paths are under `src/virtio_bridge/`.

| Component | State it keeps | Operations | Correct if |
|---|---|---|---|
| **Bridge directory** `protocol.py` | `requests/`, `responses/` with `{id}.json` or `.enc`, `{id}.stream`, `{id}.done` | write by tmp + rename, read, `consume_request` (read, then unlink), `list_request_ids`, `append_stream`, `finish_stream`, `read_stream`, `wait_response`, `cleanup_stale` | a message is seen whole or not at all; nothing anybody waits for is lost but by a stop, a failed write or a cleanup by age |
| **Bridge server** `server.py` | `_running`, the watcher, the lazily loaded exec policy; one daemon thread per request | `start` (cleanup, list, watch), `_on_request_file`, regular, streaming and exec handling, SIGTERM | each request is executed at most once and answered truthfully; what it saw it answers |
| **File watchers** `watcher.py` | polling: the set of known files; watchdog: the set of files seen | listing or event, callback | each new file is reported once |
| **HTTP proxy client** `client.py` | one connection at a time | write request, wait for the response or follow the stream, answer the application | the application gets the target's answer or learns that it did not come |
| **Direct clients** `direct.py` | none | `request`, `stream`, `exec`, `DirectTcpClient.connect` | as above, without a proxy process |
| **TCP connection set-up** `tcp_protocol.py`, `tcp_relay.py` | a directory per connection with `connect.json`, `established`, `error.json`; `_active_conns` | create, poll, connect, signal, wait, clean up | outcomes told to clients are true; every request is answered |
| **TCP data transfer** `tcp_protocol.py`, `tcp_relay.py`, `socks.py` | `upstream.bin`, `downstream.bin`, `close_up`, `close_down`, read positions and buffers | append, read on from the position, close, time out | bytes arrive in order, without gaps, and an end of file comes after all of them |
| **SOCKS5 proxy** `socks.py` | the socket, the bytes received so far, the connection directory | greeting, request, connect through the bridge, relay, close | the tunnel goes where the application asked, carries what follows the request from its first byte, and the reply is true |
| **Key exchange** `crypto.py` | `{host,vm}.pub` and `.tmp` in the bridge directory, shared by the processes of a side; each process's key pair and derived key | choose a mode, publish a key, wait for the peer's, rekey | both sides use the same key; who was told to encrypt does |
| **Exec policy** `exec_policy.py`, `server.py` | the policy file; one policy object, shared by the exec threads and loaded when first needed | load, resolve, validate parameters, build the command, confirm, run, answer | only commands the policy describes run, with the parameters it allows, once and after the approval it asks for |
| **Host allow list** `security.py` | a set of patterns | a predicate | |
| **Configuration, command line** `config.py`, `cli.py` | merged options | read, merge, start a component | an explicit option wins |

How they interact: clients and servers only through files. Within a server the
watcher calls back into the server on its own thread (or watchdog's), and each
callback starts a daemon thread that works on files, and, for exec, on the
server's one policy object. Within a client one thread does everything; a SOCKS
handler and the relay have one more for each direction. Otherwise threads share
no memory, so the interleavings that matter are those of file operations, and the
models' steps are the file operations, and in `ExecRelay` the accesses to the
policy object.

What is hard here, and hard to test:

* **Interleaving of file operations.** Listing, reading, unlinking and looking
  for a marker are separate system calls; what one side found out may be stale
  when it acts on it (start-up listing against the watcher's first listing; the
  read before and the look for `.done` after; `consume_request`).
* **Notification.** watchdog can announce a file twice, polling announces it
  again if it forgets it, and nobody announces what came before the watcher.
* **Stopping and restarting.** Files outlive processes; threads die anywhere.
* **Refusals of the mount.** Reads, unlinks and listings may be refused; the code
  passes over some of these in silence, and others end a thread.
* **Time-outs on both sides** that do not know of each other: a client gives up
  at 30 s, a forward takes up to 60 s; both sides of a TCP set-up wait 10 s.
* **Partial visibility** of data that is appended, not renamed, of encrypted
  chunks with a length prefix, and of a socket's bytes.
* **Shared names.** Both processes of a side publish their key under the same
  name by way of the same temporary name, and a key file outlives its process.
* **A shared object that is filled in place.** Threads load the policy while
  others look actions up in it, from a file somebody edits.

The `hazards` of `PROJECT.json` list these one by one with their lines and the
properties that address them.

## Modules, and how they correspond to the code

| Module | What it is |
|---|---|
| `RequestReply` | abstract: a remote call executed at most once and answered truthfully |
| `HttpRelay` | the regular HTTP path, client to server and back, with watchers and restarts |
| `MCHttpRelay` | symmetry of handler threads for TLC |
| `HttpRelay_proofs` | theorems about `HttpRelay` |
| `ByteStream` | abstract: a receiver gets a prefix of what is sent, and "complete" only with all of it |
| `StreamRelay` | one streaming response: server thread and following client |
| `TcpConnect` | setting up tunnelled connections |
| `TcpConnect_proofs` | theorems about `TcpConnect` |
| `TcpPump` | one direction of an established tunnel |
| `SequenceLemmas` | induction, flattening, what of a cut series of writes can be read and what of that is whole |
| `StreamRelay_proofs`, `TcpPump_proofs` | theorems about `StreamRelay` and `TcpPump`; both use `SequenceLemmas` |
| `ExecTemplate` | the templates of an exec policy: parameters admitted, arguments built, and a reference for both |
| `ExecRelay` | exec requests, from the client to the command and back, with loading and confirmation; uses `ExecTemplate` |
| `MCExecRelay` | a policy, its later versions and the calls, for TLC |
| `ExecRelay_proofs` | theorems about `ExecRelay` and `ExecTemplate`; uses `SequenceLemmas` |
| `KeyExchange` | how each process comes to its encryption: options, and key files of both sides |
| `MCKeyExchange` | the combinations of options, for TLC |
| `KeyExchange_proofs` | theorems about `KeyExchange` |
| `SocksHandshake` | the SOCKS handler, from the first byte to the relaying |
| `MCSocksHandshake` | what applications send, for TLC |
| `SocksHandshake_proofs` | theorems about `SocksHandshake` |

**HttpRelay.** `call`, `reqFile` and `respFile` are the client's view and the two
files of each request; `mode`, `todo`, `seen` and `events` are each server's
progress through `BridgeServer.start`, the listed ids not yet called back, the
watcher's set and the events in flight; `pc`, `owner`, `job` and `out` are the
handler threads. `WriteTmp` and `Publish` are the two halves of
`_safe_write_text`; `Start` is `start` up to its listing, which may come out empty
(protocol.py:319); `StartWatching` is `FileWatcher.create(...).watch` with any
backend the host offers, which `mode` then records; `Poll`, `ServeListed`,
`DeliverEvent`, `DropDuplicate` are the three watchers, and a `Poll` of a server in
`RefusedListings` may find nothing, as a glob passes over a PermissionError;
`HandlerRead` … `Reply` are `_handle_request` cut at every file operation. A file
that cannot be read (a symlink, refused, not decrypted, not JSON), or not unlinked
for a reason other than PermissionError, ends the thread and stays
(`LeaveUnread`); a refused unlink is passed over and the file stays
(`UnlinkMayFail`); a response that cannot be written becomes a 502 or, if that fails
too, ends the thread (`ReplyFails`). `RemoveOld` is `cleanup_stale`, at the start or by
hand (`Cleanup`): it asks for the age of a file only, and as neither `--max-age` nor
a client's timeout is bounded, it may remove any file. `Crash` kills a server with
all its threads. `forwarded`, `sent` (the same by server process), `owed`, `unread`
and `lost` are history for the properties. Contents are abstracted: a request is its
id, and its target's answer is one of *ok* (whatever HTTP status), *rejected*
(400) and *failed* (502), the last with and without the target having received
the request. Ids are uuids and are never reused, so a request is made once.

**StreamRelay** follows one streaming request after its publication: `sv` is the
server's thread in `_handle_streaming_request`, `rd` the reader in
`read_stream`. A chunk is a number of pieces that become visible one at a time.
Initial states cover the proxy and `DirectClient`, with and without encryption.
If the reader removes the `.stream` file while the server has it open, the
server's writes go to the removed file (`attached`), and its next append creates
a new one. The removal of either file may be refused, and so may the reading of an
error response (`refused`); an append or a look that raises ends the thread or the
reader (`RespondError`, `Leave`).

**TcpConnect** has the clients (SOCKS handler and `DirectTcpClient`, which differ
in cleaning up), the relay's main thread (`mode`, `list`, `active`) and its
handler threads. What kind each connection is, is fixed at the start and open:
`socks`, `allowed` (the allow list's verdict), `sound` (the relay can read its
request and write its answers, and its host name is one). `error.json` is *empty*
before it is *written* because `signal_error` writes in place. `cleanup` is
`ListFiles`, which fixes what will be unlinked (`sweep`), `UnlinkFile` for each of it
in the order the directory happens to have, and `RemoveDirectory`, which leaves a
directory that has got a file since; `Protected` are the files whose removal may be
refused, any of the three, and `kept` the connections whose `connect.json` was.
`CleanupStale` is `cleanup_stale` at the relay's start, which goes by age and so may
come to any directory; it is one step of `StartRelay`. `PublishFails` is
`create_connect_request` raising, and `HandlerFails` whatever ends a handler without
an answer: a request that is there and cannot be read or decrypted, a name the
codec refuses (tcp_relay.py:136 catches only OSError), an answer that cannot be
written. For a connection that is not `sound` this may happen each time, for the
others as often as `MaxFaults` allows, as may a listing that is cut short (`List`).
The three looks of `list_pending_connections` at one directory are one step: with a
cleanup between them they list a connection that one look would list a moment later,
or one whose `connect.json` has gone, which its handler does not find and leaves.
`sockets` and `refused` are history.

**TcpPump** is one direction; the other is the same code with the names
exchanged. Its file is append-only, so its contents are the number of pieces
written.

**ExecRelay** composes `_handle_exec`, `_get_exec_policy` and `ExecPolicy` with
the client's `exec`. `call`, `reqFile`, `respFile` are as in `HttpRelay`, whose
matter the notification of requests is: a running server takes each up in one
thread, named after it. `TakeUp` merges peeking, reading and unlinking. A refused
unlink is passed over (protocol.py:279), and the file stays for the next server, as
it does if it cannot be read (`CannotTakeUp`); `Path.is_dir` (server.py:259) may
raise outside every try (`CannotLookAtCwd`) and so may the writing of the response
(`ReplyFails`), after which the thread is gone and the request is in `lost`.
`RemoveOld` is `cleanup_stale`, at the start or by hand, as in `HttpRelay`. `Dotted`
are directories with ".." in their path, which `resolve` refuses. `current`
is `_exec_policy`; an object is named after the thread that made it (`CreatePolicy`
comes after the test for `None`, so there may be several), with `loaded` and
`actions`; `Clear`, `Insert`, `Loaded` are the steps of `load` that other threads
can see between. `future` is what the policy file holds now and will hold;
`approved`, `versions`, `clash`, `lost` are history. In **ExecTemplate** a value is
the sequence of its words and its length their number; `NotText` is a JSON value that is
no string; `dirs` is the set of directories an entry's `working_dirs` match.
`Fills` is the reference: it says at which places of the argument list each element of
the template is found, and at which places of an argument each piece of an element
with placeholders inside (`Offsets` adds up the lengths before it), without
following how the list is built.

**KeyExchange** has any number of processes on either side. `Start…` is
`_apply_config_if_present` and `_resolve_crypto`; `OpenTmp`, `WriteKey`, `Rename`
are `write_bytes` and `rename` of one publication; `handle` follows an open file
through somebody else's `rename`, so that a late `WriteKey` writes where the code
does; `SeePeer`, `TimeOut` are `negotiate`'s loop; `Rekey` is
`check_peer_key_changed`, which nothing in the source calls (`Rekeying` names
processes that would). A key pair is a process and a number, and a derived secret
the set of two public keys, which is what X25519 promises.

**SocksHandshake** is one handler and one application. `script` is all the
application may send, `arrived` and `taken` count its bytes in the socket; `_recv`
is `TakeChunk` repeated until `want` bytes are there. Each `Read…` action is what
the code does between two calls of `_recv`. `Open`, `Established` and
`NotEstablished` stand for `TcpConnect`, and `BridgeFails` for its operations raising.
`pump` is the thread of `upstream_pump`, `held` what it has received and not written:
`ReceiveUp` and `WriteUp` are its two calls, between which the process may stop.
`WriteUpFails` is a write that raises with some of `held` written; the pump then
closes upstream, so that the target sees a regular end after fewer bytes than the
application sent. `upstream` is what `TcpPump` takes from there; the other direction
is a reader of `TcpPump`.

**External** code (the HTTP library, the kernel, watchdog and inotify) appears as
the choices it leaves open: whether a forward succeeds, when an appended piece
becomes visible, whether an event comes once or twice.

## What each run checks

| Run | Shows | Bounds |
|---|---|---|
| `http_one_server` | at most one forward and one thread per request; nothing waited for disappears but by a stop, a failed write or a cleanup; no response stays but an abandoned one; the relay implements `RequestReply`; what a running server saw and can read is answered; `SafetyInv`, the invariant of the proofs | 2 requests (one to be rejected), 1 server, 2 threads, 3 watchers, 2 stops |
| `http_two_servers` | the same of what is waited for, and no server process that can list the directory forwards a request twice, even with two servers and failing unlinks | 1 request, 2 servers, one of them with failing polls, 2 threads, 1 stop or failed poll |
| `http_start_gap` | *violated*: a request published between the start-up listing and the watcher's own is never processed | 1 request |
| `stream` | both readers implement `ByteStream`, a complete stream is whole and leaves no files but what may not be removed, every reader ends | 4 chunks of 3 pieces, all four set-ups |
| `stream_lost_error` | *violated*: the proxy does not see an error response that comes after its only look | 2 chunks |
| `tcp_connect` | told outcomes are true; what is over is not opened again; pending requests that can be read are answered | 1 connection of every kind, 2 threads, 2 stops or passing failures, any file may not be unlinked |
| `tcp_duplicate_handlers` | *violated*: one connection directory, several real connections | 1 connection, 2 threads |
| `pump` | a gapless prefix is sent on; only part of one write is ever kept back; a pump ends | 4 writes of 3 pieces, both set-ups |
| `pump_lost_tail` | *violated*: an end of file that overtakes the last write | 2 writes |
| `exec_relay` | only what a version of the policy admits is run, after the approval it asks for (`OnlyPolicyRuns`) and with its arguments where the template has them (`CommandFillsTemplate`); refusals are decisions of the policy; exec implements `RequestReply`; a request is answered unless a failure loses it | 2 requests, six calls, three histories of policies of 2 entries (none, good, broken and repaired), 1 stop or refused unlink |
| `key_exchange` | a process goes by a whole key of the other side; undisturbed pairs agree; who was told to encrypt does; nobody waits for a peer that has published | 2 processes on the host, 1 in the VM, 2 key pairs each, 7 option combinations |
| `socks_handshake` | the tunnel goes to the address sent and carries what follows it, without a gap and with nothing missing unless a write fails; replies are true; the handshake ends | 11 byte sequences of up to 26 bytes in pieces of any size, cut anywhere |

Why the bounds are enough for the interesting cases. In `HttpRelay` two requests
compete for threads and are in different stages at a stop; a second notification
for a request needs a second thread; two stops let a request survive one restart
and be lost in the next. A second server, a mount that refuses unlinks and polls
that fail are the matter of `http_two_servers`. The inductive invariant relates one request to one
server and two threads, and its proof has no bound. In `StreamRelay` and
`TcpPump` three pieces let a chunk be cut twice, in the prefix and in the body,
and four chunks let the reader find none, one or several new ones. In
`TcpConnect` two threads suffice for a duplicate, two faults for a restart with
pending and with established connections and a failure besides; every set of files
may turn out not to be removable. Connections meet only in the relay's lists and
threads, and the proofs are for any number; the one connection of the run is of each
kind in turn. `sockets` counts to 2, which stands for more. All configurations allow a final state: clients need not call again.

In `ExecRelay` two threads load and resolve at once; the policy file cannot be read,
is good, or is broken after its first entry, which leaves an object half filled, and
repaired by an edit; the calls cover whole, split and embedded placeholders, a
maximum length, an enumeration, a value that is no string, a bad directory, and each
level; the one fault is a stop or a refused unlink, as a stop after a refused unlink
runs the command again (below). In `KeyExchange` two host
processes race for one file, the second key pair is a restart or a rekeying, and
the proofs have no bound. In `SocksHandshake` the scripts cover each address type,
several methods, data after the request, and each way of being no request; the
handler's loop is over bytes, of which the IPv6 script has the most.

`WaitingAccountedFor` and `AtMostOncePerProcess` are the safety properties of
`HttpRelay` that need neither a single server nor a working unlink, so they are
what `http_two_servers` asks. Together the servers can forward a request twice,
once each: `consume_request` (protocol.py:263, "atomic consume") reads, unlinks,
and goes on if the file was already gone. The same happens with one server on a
mount that refuses unlink if the server is restarted, since the start-up listing
finds the consumed file; or if one of its polls is refused the directory, since it
then forgets the files it knows. `SingleServer`, `RestartsCanUnlink` and
`ListingsSucceed` exclude exactly these three cases. `AtMostOncePerProcess` says
what is left in the first two: each process, from its start to its stop, forwards a
request at most once. For exec the second case is the same (protocol.py:279): a
restart runs the command again, and `RestartsCanUnlink` of `ExecRelay` excludes it.

What loses a request is in `lost`: a server that stops between its unlink and its
response, a response that cannot be written, and a cleanup by age, which does not
know how long clients wait. What a server could not list, read or take is in
`unread`: it is in the directory, but nobody looks at it again before a server
starts. `OwedIsServed` and `AnsweredUnlessLost` except these requests, and
`WaitingAccountedFor` says that nothing else disappears.

**Fairness.** Weak fairness for what runs by itself: the loops of a started
server or relay, each handler thread (urlopen and connect have time-outs), a
client that polls. No fairness for making a call, giving up, starting, stopping
or cleaning up. `StartedSpec`, used by `http_start_gap`, adds that an operator
starts the server, so that the violation is not a server that never runs. A
reader's time-out has strong fairness: it is enabled at every round without new
data, and time passes. In `ExecRelay` each thread goes on (a dialog ends within 70 s,
a command within its timeout), by other steps than its failures, and a client
polls; nobody need start a server or edit the policy. In `KeyExchange` a running process goes on, by other
steps than its time-out, so that `MeetsSolePeer` does not hold by giving up. In
`TcpConnect` the relay's one main thread goes on, by listing or by starting a handler,
and each handler does (connect has a time-out), by other steps than `HandlerFails`;
the clients are not obliged to anything,
as a connection that is cleaned up is not pending either. In
`SocksHandshake` the handler goes on whenever it can, which, with no timeout on the
accepted socket, it cannot while an open socket is silent; nothing makes the
application send or hang up. A handler for a listed request needs a free thread
identity; the code has no such limit, and with one server the invariant bounds
the threads by the requests.

**Found while modelling** (runs with a counterexample, in `PROJECT.json`
`findings`): the start-up gap (server.py:111), the error response the proxy does
not look for again (client.py:154), duplicate TCP handlers (tcp_relay.py:100),
the lost tail of a closed tunnel (tcp_protocol.py:265). The models also contain
these smaller differences, which no property states: the status of a streaming
response is always 200 for the application (client.py:169; the target's is in
`.done`, which nobody reads); with encryption the proxy unlinks the `.json` name
of an error response it read from `.enc` (client.py:163); a client that reads
`error.json` before it has contents reports a timeout instead of the refusal
(tcp_protocol.py:154); a directory whose cleanup is overtaken by a late
`established` stays (tcp_protocol.py:313); a cleanup that comes upon the relay's
answer before `connect.json` leaves a request without an answer for a moment, and a
relay that lists it then opens another connection for a client that has
gone (tcp_protocol.py:307); a refused unlink of `connect.json` does so for good
(tcp_protocol.py:311); a request file that cannot be read once is not tried again
before a restart (server.py:176); a poll that may not list the directory forgets
what it knew, and its next one starts a second thread for each file that is still
there (watcher.py:203); a write that fails upstream ends with a close file, so that
the target takes the truncated bytes for all (socks.py:138); responses to clients that gave up
stay until the next start or manual cleanup (server.py:105).

*Exec.* A policy that loaded is never read again, one that failed to is read
again by the next request (exec_policy.py:245), and the failed attempt leaves the
entries before the bad one in the object. Two threads that find the policy
missing may load the same object one after the other; between the second's
`actions = {}` and its last entry the first answers "Unknown action" to what both
versions list (server.py:225; `clash` in `RefusalsAreThePolicys`). A parameter that
need not be a string ends the thread in the log line's join, without a response
(server.py:284; the exception in `AnsweredUnlessLost`), and so does a directory that
cannot be looked at (server.py:259) or a response that cannot be written. The client waits its
timeout and 10 s (direct.py:174), the dialog up to 70 s: an approved command may
run when its caller has long had a TimeoutError, which is why an abandoned request may
still be executed in `RequestReply`. `list_actions` has no caller.

*Keys.* The README has a server and a TCP relay on one directory (README:198) and
encryption without configuration (README:233); together, they share `host.pub`, and
only the one whose key is there when the client looks agrees with it. A restart
leaves the peer with the old key; `check_peer_key_changed` would notice, but nothing
calls it, and if both sides did they would answer each other's new key without
end. `AgreeAtFirst` says when keys do agree. `auto_encrypt = true`
in the file (bridge.toml.example:10) has no effect, as the flag's absence is
`False` and not `None`; a flag given with its default value is overridden by the
file ("CLI flags always take precedence", config.py:110); a passphrase in the file
with `--auto-encrypt` is an error; `--secret ""` turns the file's passphrase off.

*SOCKS.* The accepted socket has no timeout, so a silent application holds a
thread; the version of the second message and the reserved byte are not looked at; no
methods, or an empty name, count as a closed socket; a name that is not ASCII gets
no reply.

## What is proved

By TLAPS, for every value of the constants that meets the assumptions of the
module (`RelayAssumption`, `ConnectAssumption`, `KeyAssumption`, `PumpAssumption`,
`StreamAssumption`, `ExecAssumption`, `PolicyAssumption` and `TemplateAssumption`,
`ScriptsAssumption`; TLC evaluates them in every run of those modules). They say what
kind of thing a constant is, that `None` is not one of the things it stands apart from,
that the names of a policy's entries are distinct, as the keys of a JSON object are
once it is read, and that templates are lists of lists of pieces and values lists of
words. All safety properties of the passing runs are proved.

**`HttpRelay_proofs`**, any number of requests and handler threads, every watcher:

| Theorem | Assumes | Shows |
|---|---|---|
| `Typing` | | every variable keeps its type, with any number of servers |
| `Accounting` | | `WaitingAccountedFor`: no request is lost but by a stopped server, a response that cannot be written or a cleanup, with any number of servers |
| `Safety` | `SingleServer`; `RestartsCanUnlink`: unlink works or nothing restarts; `ListingsSucceed`: polls can list the directory | the inductive invariant `SafetyInv` |
| `AtMostOnce`, `OneThread` | the same | `AtMostOnceForward`, `OneThreadPerRequest` |
| `Refinement` | the same | `HttpRelay` implements `RequestReply` |
| `Files` | the same | `NoStrayFiles` |
| `OncePerProcess` | | `AtMostOncePerProcess`: a server process that can list the directory forwards a request at most once, with any number of servers and whether or not unlink works |

`AtMostOnceForward` is not inductive: that a thread about to forward is the first
one depends on what the server may still start. `SafetyInv` therefore says that a
request somebody has begun (a thread, a forward, a response) is on no list,
unseen in no poll and in no undelivered event any more (`OnceInv`); that an idle
watcher's lists fit its back end (`ServerInv`); that a thread before its reply is
the first to act on its request (`FirstInv`); that only published requests are in
circulation (`FileInv`, `ThreadInv`); and that responses are truthful
(`TruthInv`). The assumptions are needed: two servers may both read a file
before either unlinks it, a restart lists again a file that could not be
unlinked, and a poll that was refused the directory takes files for new that have
a thread. A request may then be forwarded twice; these are configurations the code
runs in but makes no promise about. `SafetyStep` treats one action at a time. In
the refinement a thread that concludes after the target received the request is
`Execute`, and `TruthInv` is why the later `Receive` is an `Answer`.

`Accounting` has an invariant of its own: a thread at its reply has an answer to
write, so that `Reply` replaces what the thread held by a response file; a thread
that fails before leaves the request file, and what takes either file or the thread
away puts the request into `lost`.

`OncePerProcess` counts turns: a server has a turn with a request while it is
down, while the request is not published, while the request is on its list, unseen
in its poll or in an undelivered event, and while its thread has not concluded
(`MayForward`). `SentInv` says that a process has forwarded nothing, or once and has
no turn left. `TurnStep` shows that no step but a stop gives a turn, and that the step
which forwards takes one: its thread is the only one of that server (`SpawnInv`),
which will not spawn another, whatever the other servers do with the file meanwhile.

**`TcpConnect_proofs`**, any number of connections, of both kinds of client, of
handler threads, restarts and failures: `Typing`; `Outcome` (`OutcomeIsTrue`: a client that
takes its connection for established, or for refused, has had a socket, or a
refusal, at the target), because the files in a directory and the threads about to
make them stand for such an event (`EvidenceInv`) and nothing takes it back;
`OverIsFinal` (`SettledForGood`): an attempt that is over stays over, unless the
removal of its `connect.json` was refused, no listing finds it again, and once no listing and no thread has it, it is not opened again.
That does not follow from a step alone, since a cleanup may take the answer away
while `connect.json` is there: `FilesInv` says that it is then still among the files
its client is about to unlink, that a SOCKS client that has finished left none, and
that the request of a client told of its connection has its answer. Only a client
publishes a request, and only its own cleanup, or the relay's of old directories,
which takes the request too, removes an answer; so whoever has finished has left no
request without an answer (`OverNotPending`, `OverStays`), and a listing or a thread
gets a connection only from such a request (`ListedBefore`, `UnattendedStays`).

**`KeyExchange_proofs`**, any number of processes on either side, of options, of
restarts and of processes that rekey:

| Theorem | Shows |
|---|---|
| `Invariant` | the inductive invariant `KeyInv` |
| `Typing` | every variable keeps its type; no secret comes from a missing or cut file |
| `PeerKeys` | `PeerKeyIsPeers`: a key somebody goes by was made on the other side |
| `Agreement` | `AgreeAtFirst`: undisturbed pairs share a secret |
| `Encryption` | `FlagsEncrypt`: no combination of flags and passphrases ends unencrypted |

That a key is the peer's is not inductive: `FileInv` says that a side's two files hold
only keys its processes made, also when one writes into the file another has
renamed, and that what `.pub` holds is `published`; `PeerInv` that a process
that negotiates has a key pair and goes by a published key; `SecretInv` that what
it encrypts with is that key and its own. `Encryption` needs `ModeInv` besides: only
who has no passphrase negotiates.

**`TcpPump_proofs`** and **`StreamRelay_proofs`**, any number of writes or chunks, each
visible in any number of pieces, with and without encryption, for the proxy and a
`DirectClient`:

| Theorem | Shows |
|---|---|
| `Invariant` | the inductive invariants `PumpInv` and `StreamInv` |
| `Typing` | every variable keeps its type |
| `Gapless` | `NothingSkipped`: what was read was handed on or is kept, in order |
| `CompleteWhole`, `NothingLeft` | `CompleteIsWhole`, `CompleteLeavesNothing` (but for what may not be removed), for a stream |
| `Refinement` | one direction, and one stream, implement `ByteStream` |

What was handed on is a prefix because the file is a prefix of what was written, the
reader's position is within it, and what it hands on and keeps is the file up to
there; `SequenceLemmas` says that what is read next continues it. With encryption
only whole chunks are handed on, and a pump keeps less than one. For a stream the
reader's last look after `.done` is why complete means whole, and `StreamInv` says
who has removed what when the writer still writes.

**`ExecRelay_proofs`**, any number of requests, policies and edits, any stops, and
any order of the threads' steps on shared policy objects:

| Theorem | Shows |
|---|---|
| `Invariant` | the inductive invariant `ExecInv` |
| `ToldOnce` | at most one execution of a request, and responses that say truly whether there was one, if `RestartsCanUnlink`: unlink works, or there is one fault only |
| `Typing` | every variable keeps its type; no thread works with a policy that is none |
| `PolicyRules` | `OnlyPolicyRuns`: what runs was resolved from an entry of a version of the policy, and approved if that asks for it |
| `PolicyRefuses` | `RefusalsAreThePolicys`: unless an object is reloaded in use, refusals are a version's decisions |
| `TemplatesFilled` | `CommandFillsTemplate`: what runs has the template's elements, and what stands for their placeholders, where the template has them |
| `FillingIsUnique` | at most one argument list of texts does |
| `Refinement` | exec implements `RequestReply`, if `RestartsCanUnlink` |

That a plan is a version's is not inductive: `PolicyInv` says that whatever the
threads do to an object, it holds entries of versions, one for each name, so that
what is resolved from a half-filled object is still an entry of some version.
A refusal needs more, since what an object lacks is nobody's decision: `LoadInv`
says that, while no object was emptied in use, an object that counts as loaded is
a version, and one being loaded has a single thread at it, which has yet to
insert exactly what is missing. `OnceInv` and `TruthInv` (`ToldOnce`) carry the
refinement: as long as no file survives its thread into the next start, a request has
one thread, which executes it at most once and says whether it did.

`BuildCommand` flattens what the elements contribute, `Fills` adds up their lengths;
both are recursive functions over the template, and that they agree for every
template is an induction. The library's induction theorems cannot be used (their
property is an operator), but induction for a set can be proved from facts about
finite sets: if a set has 0 and the successors of its members and not some n, then
taking the predecessor maps the numbers up to n outside it into themselves, one to
one, hence onto, and yet never to n (`Induction`). By it a recursive function exists
up to each place (`FlattenDef`, `OffsetsDef`), each sequence is found in a flattened
one where the lengths before it say (`Flattened`), and these places leave no gap
(`Covered`). `Substituted` and `BuildFills` are this for the pieces of an argument
and for the arguments; a request that was accepted has texts for all names that need
one (`AdmittedFills`), and keeps them (`PlanInv`). `FillingIsUnique` shows that the
reference is no weaker than it looks: two fillings agree at every place, since every
place belongs to an element, and inside an argument to a piece (`SameText`).

**`SocksHandshake_proofs`**, for whatever bytes an application sends, however they are
cut into pieces and wherever they end:

| Theorem | Shows |
|---|---|
| `Invariant` | the inductive invariant `SocksInv` |
| `Typing` | every variable keeps its type; `_recv` never has more than it asks for |
| `DestinationRequested` | `DestinationIsRequested`: the bytes begin with a request for exactly the destination that is asked for |
| `PayloadWhole` | `PayloadIsWhole`: upstream is a gapless part of what follows the request, from its first byte on, and what was received beyond is with the pump, unless a write has failed |
| `TrueReplies` | `RepliesAreTrue` |

`ReadInv` gives the handler its place: what `_recv` has are the bytes of the script
between those before and those taken, and each state says which place of the
request that is, with the fields read on the way. At the port all of them are known,
and `ReadIsRequested` puts the request together from its places again: its bytes,
as an application would write them for this destination, are a prefix of the script.
In the other direction `WellFormedConnects` finds the command in a script that begins
with a request, which is why a rejected one is none. `DestInv` keeps the destination,
and upstream and what the pump holds as the bytes after the request; `ReplyInv` lists what may have been said and why.

Only model-checked: the liveness properties `OwedIsServed`, `ReaderEnds`, `PumpEnds`,
`PendingIsHandled`, `AnsweredUnlessLost`, `MeetsSolePeer` and `HandshakeEnds`, as
liveness under fairness is out of the proof system's reach, and the runs that end with
a counterexample.

## What is not modelled

* Contents and their formats: JSON, headers, base64, paths, ciphertexts. The
  verdicts of the allow list (`security.py`, a predicate without state) and of path
  checks are constants.
* Real time. A time-out may happen whenever the code may be waiting, and a cleanup
  by age may remove any file (`RemoveOld`, `CleanupStale`).
* NFS caching beyond appended data becoming visible late.
* A cleanup by age of the files of a stream that somebody still follows, by the
  command with a small `--max-age` or by a server that starts. The server's next
  append makes a new file, and the reader goes on at its old position in it: what
  `StreamRelay` shows is for a directory that nobody cleans meanwhile.
* What makes a read, a write or an unlink fail: that it may, and what the code does
  then, is modelled wherever the code goes on or ends a thread by it.
* The thread count: `workers` limits nothing in the server, and the models do not
  say what many threads cost.
* `stop` of servers, watchers and the relay: only the end of the process follows it.
* Of the configuration and the command line everything but the choice of
  encryption and the cleanup command: they carry values to a component.
* The ciphers, and that a wrong key is noticed: the library's.
* Logging, argument parsing, dialogs, packaging, tests and examples.

## Plan

Done: `RequestReply`, `HttpRelay`, `ByteStream`, `StreamRelay`, `TcpConnect`,
`TcpPump`, `ExecTemplate`, `ExecRelay`, `KeyExchange`, `SocksHandshake`, all
model-checked; proofs of every safety property the passing runs check, of the
refinements of `RequestReply` and `ByteStream`, and that an exec command is determined
by its template and parameters.

Left, in this order:

1. What of `TcpConnect` holds on the side of the relay: at most one thread with a
   connection for each time it was started or listed.
2. The two directions of a tunnel together, with the joins of `relay` (tcp_relay.py:66).
3. Fewer facts where a leaf of a proof cites whole definitions of actions.
