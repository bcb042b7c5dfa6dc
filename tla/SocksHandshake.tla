---------------------------- MODULE SocksHandshake ----------------------------
(***************************************************************************)
(* What the SOCKS5 proxy makes of the bytes an application sends it: the   *)
(* greeting, the request and its address, read from a socket that hands    *)
(* them over in pieces of any size, and may be closed at any byte; the     *)
(* connection through the bridge; and the first bytes of what follows.     *)
(*                                                                         *)
(* virtio_bridge/socks.py   SocksHandler                                   *)
(*                                                                         *)
(* What comes of the connection request is module TcpConnect, here the     *)
(* actions Open, Established and NotEstablished; the rest of the relaying  *)
(* is module TcpPump.  Every accepted socket has its handler and thread,   *)
(* which share nothing: one stands for all.  A host stays the bytes it was *)
(* sent as, with their type; the code goes on with their text.             *)
(***************************************************************************)
EXTENDS Integers, SequencesExt

CONSTANTS
  Scripts,   \* all that an application may send: sequences of bytes
  None       \* no destination

SOCKS_VERSION == 5
CMD_CONNECT == 1
ATYP_IPV4 == 1
ATYP_DOMAIN == 3
ATYP_IPV6 == 4

Types == {ATYP_IPV4, ATYP_DOMAIN, ATYP_IPV6}
Ports == 0..65535
Destinations == [type : Types, host : Seq(0..255), port : Ports]

ASSUME ScriptsAssumption == Scripts \subseteq Seq(0..255) /\ None \notin Destinations

VARIABLES
  script,    \* what the application sends, if it is not cut short
  arrived,   \* how much of it is in the proxy's socket, or was
  taken,     \* how much of that the proxy has received
  app,       \* the application's end of the socket: open, closed or reset
  pc,        \* where the handler is
  want,      \* the number of bytes its _recv asks for
  data,      \* those _recv has
  kind,      \* atyp, once it is read
  host,      \* the address
  dest,      \* what create_connect_request was given, or None
  conn,      \* the handler's conn: none, requested, or broken (disk error)
  opened,    \* the relay has signalled established
  replies,   \* what the application was sent, by meaning
  pump,      \* where the upstream pump, a thread of its own, is
  held,      \* what it has received and not yet written
  upstream,  \* what was written to the connection's upstream file
  upClosed   \* its close_up file exists

inVars == <<script, arrived, taken, app>>
recvVars == <<want, data>>
addrVars == <<kind, host, dest>>
pumpVars == <<pump, held, upstream>>
connVars == <<conn, opened, pumpVars, upClosed>>
vars == <<script, arrived, taken, app, pc, want, data, kind, host, dest, conn,
          opened, replies, pump, held, upstream, upClosed>>

Reading == {"header", "methods", "request", "address", "length", "port"}

TypeOK ==
  /\ script \in Scripts
  /\ taken \in 0..arrived /\ arrived \in 0..Len(script)
  /\ app \in {"open", "closed", "reset"}
  /\ pc \in Reading \cup {"creating", "waiting", "relaying", "closed", "dead"}
  /\ want \in 0..255
  /\ Len(data) <= want
  /\ kind \in 0..255
  /\ dest \in Destinations \cup {None}
  /\ conn \in {"none", "requested", "broken"}
  /\ pump \in {"off", "receiving", "writing", "ended", "failed"}
  /\ opened \in BOOLEAN /\ upClosed \in BOOLEAN
  /\ replies \in Seq({"method", "success", "failure", "refused"})

Init ==
  /\ script \in Scripts
  /\ arrived = 0 /\ taken = 0 /\ app = "open"
  /\ pc = "header" /\ want = 2 /\ data = <<>>
  /\ kind = 0 /\ host = <<>> /\ dest = None
  /\ conn = "none" /\ opened = FALSE
  /\ replies = <<>>
  /\ pump = "off" /\ held = <<>> /\ upstream = <<>> /\ upClosed = FALSE

-----------------------------------------------------------------------------
(* The application.                                                        *)

Send ==
  /\ app = "open"
  /\ arrived' \in arrived + 1 .. Len(script)
  /\ UNCHANGED <<script, taken, app, pc, recvVars, addrVars, connVars, replies>>

\* It closes its end, or the connection to it fails, which loses what is not
\* yet received.
HangUp ==
  /\ app = "open"
  /\ app' \in {"closed", "reset"}
  /\ UNCHANGED <<script, arrived, taken, pc, recvVars, addrVars, connVars, replies>>

-----------------------------------------------------------------------------
(* _recv and what follows it.                                              *)

Waiting == pc \in Reading /\ Len(data) < want

\* Mutation: every recv asks for as much as the first.
TakeChunkGreedily ==
  /\ Waiting
  /\ app # "reset"
  /\ \E k \in 1..want :
       /\ k <= arrived - taken
       /\ data' = data \o SubSeq(script, taken + 1, taken + k)
       /\ taken' = taken + k
  /\ UNCHANGED <<script, arrived, app, pc, want, addrVars, connVars, replies>>

\* recv returns at least one byte and at most what is still missing.
TakeChunk ==
  /\ Waiting
  /\ app # "reset"
  /\ \E k \in 1..(want - Len(data)) :
       /\ k <= arrived - taken
       /\ data' = data \o SubSeq(script, taken + 1, taken + k)
       /\ taken' = taken + k
  /\ UNCHANGED <<script, arrived, app, pc, want, addrVars, connVars, replies>>

\* _recv has its bytes; of none it makes b"", which its callers take for a
\* closed socket.
Complete == pc \in Reading /\ want > 0 /\ Len(data) >= want

\* Mutation: nothing there yet is taken for a closed socket.
RecvFailsEarly == Waiting /\ taken = arrived

\* Mutation: an empty chunk is no reason to leave the loop.
RecvFailsOnReset == \/ Waiting /\ app = "reset"
                    \/ pc \in Reading /\ want = 0

\* recv returns nothing or raises, or nothing was asked for.
RecvFails ==
  \/ Waiting /\ app = "closed" /\ taken = arrived
  \/ Waiting /\ app = "reset"
  \/ pc \in Reading /\ want = 0

\* The next _recv, of n bytes.
Recv(here, n) == pc' = here /\ want' = n /\ data' = <<>>

\* close_upstream raises when it cannot make the file, which nobody catches:
\* the thread was about to end anyway.
CloseUpstream == upClosed' \in {upClosed, TRUE}

\* handle's finally: the socket is closed and, if there is a connection, its
\* upstream.
Finally ==
  /\ pc' = "closed"
  /\ IF conn = "none" THEN UNCHANGED upClosed ELSE CloseUpstream

\* _send_reply ignores that nobody may be there to read it.
SendReply(rep) == replies' = Append(replies, rep)

\* Early, the handler just returns; within the address it answers first.
GiveUp ==
  /\ RecvFails
  /\ Finally
  /\ IF pc \in {"header", "methods", "request"} THEN UNCHANGED replies ELSE SendReply("failure")
  /\ UNCHANGED <<inVars, recvVars, addrVars, conn, opened, pumpVars>>

ReadHeader ==
  /\ pc = "header" /\ Complete
  /\ IF data[1] = SOCKS_VERSION
     THEN Recv("methods", data[2]) /\ UNCHANGED upClosed
     ELSE Finally /\ UNCHANGED recvVars
  /\ UNCHANGED <<inVars, addrVars, conn, opened, pumpVars, replies>>

\* Whatever the methods are, the answer is that no authentication is needed.
ReadMethods ==
  /\ pc = "methods" /\ Complete
  /\ Recv("request", 4)
  /\ SendReply("method")
  /\ UNCHANGED <<inVars, addrVars, connVars>>

\* This sendall is not guarded: it may raise when the application is gone.
MethodsUnsent ==
  /\ pc = "methods" /\ Complete
  /\ app # "open"
  /\ Finally
  /\ UNCHANGED <<inVars, recvVars, addrVars, conn, opened, pumpVars, replies>>

\* Mutation: every address has the length of an IPv4 one.
ReadRequestIpv4 ==
  /\ pc = "request" /\ Complete
  /\ data[2] = CMD_CONNECT
  /\ kind' = data[4]
  /\ data[4] \in {ATYP_IPV4, ATYP_IPV6}
  /\ Recv("address", 4)
  /\ UNCHANGED <<inVars, host, dest, connVars, replies>>

\* _do_handshake and _parse_address: neither the version nor the reserved
\* byte are looked at.
ReadRequest ==
  /\ pc = "request" /\ Complete
  /\ data[2] = CMD_CONNECT
  /\ kind' = data[4]
  /\ \/ data[4] = ATYP_IPV4 /\ Recv("address", 4)
     \/ data[4] = ATYP_DOMAIN /\ Recv("length", 1)
     \/ data[4] = ATYP_IPV6 /\ Recv("address", 16)
  /\ UNCHANGED <<inVars, host, dest, connVars, replies>>

RejectRequest ==
  /\ pc = "request" /\ Complete
  /\ data[2] # CMD_CONNECT \/ data[4] \notin Types
  /\ SendReply("failure")
  /\ Finally
  /\ UNCHANGED <<inVars, recvVars, addrVars, conn, opened, pumpVars>>

ReadLength ==
  /\ pc = "length" /\ Complete
  /\ Recv("address", data[1])
  /\ UNCHANGED <<inVars, addrVars, connVars, replies>>

Ascii(bytes) == \A i \in DOMAIN bytes : bytes[i] < 128

ReadAddress ==
  /\ pc = "address" /\ Complete
  /\ kind = ATYP_DOMAIN => Ascii(data)
  /\ host' = data
  /\ Recv("port", 2)
  /\ UNCHANGED <<inVars, kind, dest, connVars, replies>>

\* decode("ascii") raises: the handler ends without a reply.
AddressNotAscii ==
  /\ pc = "address" /\ Complete
  /\ kind = ATYP_DOMAIN /\ ~Ascii(data)
  /\ Finally
  /\ UNCHANGED <<inVars, recvVars, addrVars, conn, opened, pumpVars, replies>>

\* The port is in network order.
ReadPort ==
  /\ pc = "port" /\ Complete
  /\ dest' = [type |-> kind, host |-> host, port |-> 256 * data[1] + data[2]]
  /\ pc' = "creating"
  /\ UNCHANGED <<inVars, recvVars, kind, host, connVars, replies>>

-----------------------------------------------------------------------------
(* The connection.                                                         *)

\* Mutation: the application is told of its success at once.
CreateAndConfirm ==
  /\ pc = "creating"
  /\ conn' = "requested"
  /\ pc' = "relaying" /\ pump' = "receiving"
  /\ SendReply("success")
  /\ UNCHANGED <<inVars, recvVars, addrVars, opened, held, upstream, upClosed>>

Create ==
  /\ pc = "creating"
  /\ conn' = "requested"
  /\ pc' = "waiting"
  /\ UNCHANGED <<inVars, recvVars, addrVars, opened, pumpVars, upClosed, replies>>

\* The directory or connect.json cannot be written; or, while the handler waits,
\* it cannot look for the outcome or cannot read the error: without a reply.
BridgeFails ==
  /\ pc \in {"creating", "waiting"}
  /\ conn' = "broken"
  /\ pc' = "closed"
  /\ CloseUpstream
  /\ UNCHANGED <<inVars, recvVars, addrVars, opened, pumpVars, replies>>

\* The relay: it opens the connection.
Open ==
  /\ conn = "requested"
  /\ opened' = TRUE
  /\ UNCHANGED <<inVars, pc, recvVars, addrVars, conn, pumpVars, upClosed, replies>>

Established ==
  /\ pc = "waiting"
  /\ opened
  /\ SendReply("success")
  /\ pc' = "relaying" /\ pump' = "receiving"
  /\ UNCHANGED <<inVars, recvVars, addrVars, conn, opened, held, upstream, upClosed>>

\* An error or a time-out; the latter may come when the connection stands.
\* The directory is removed.
NotEstablished ==
  /\ pc = "waiting"
  /\ SendReply("refused")
  /\ conn' = "none"
  /\ pc' = "closed"
  /\ UNCHANGED <<inVars, recvVars, addrVars, opened, pumpVars, upClosed>>

\* Both pumps have ended, or have been waited for for 120s each.
RelayEnds ==
  /\ pc = "relaying"
  /\ Finally
  /\ UNCHANGED <<inVars, recvVars, addrVars, conn, opened, pumpVars, replies>>

\* The proxy's process ends.
Stop ==
  /\ pc # "dead"
  /\ pc' = "dead"
  /\ UNCHANGED <<inVars, recvVars, addrVars, connVars, replies>>

-----------------------------------------------------------------------------
(* upstream_pump.  The handler may have stopped waiting for it and closed  *)
(* the socket: a recv that had begun goes on, and the next one fails.      *)

ReceiveUp ==
  /\ pump = "receiving" /\ pc # "dead"
  /\ app # "reset" /\ taken < arrived
  /\ taken' \in taken + 1 .. arrived
  /\ held' = SubSeq(script, taken + 1, taken')
  /\ pump' = "writing"
  /\ UNCHANGED <<script, arrived, app, pc, recvVars, addrVars, conn, opened, upstream, upClosed,
                 replies>>

WriteUp ==
  /\ pump = "writing" /\ pc # "dead"
  /\ upstream' = upstream \o held
  /\ held' = <<>>
  /\ \/ pc = "relaying" /\ pump' = "receiving" /\ UNCHANGED upClosed
     \/ pc = "closed" /\ pump' = "ended" /\ CloseUpstream
  /\ UNCHANGED <<inVars, pc, recvVars, addrVars, conn, opened, replies>>

\* Mutation: a write that fails is treated like a recv that was interrupted.
WriteUpFailsOnce ==
  /\ pump = "writing" /\ pc # "dead"
  /\ \E k \in 0..Len(held) : upstream' = upstream \o SubSeq(held, 1, k)
  /\ held' = <<>>
  /\ pump' = "receiving"
  /\ UNCHANGED <<inVars, pc, recvVars, addrVars, conn, opened, upClosed, replies>>

\* write_upstream raises, with none, some or all of the bytes written, and
\* nobody catches that: what was received and not written is lost.
WriteUpFails ==
  /\ pump = "writing" /\ pc # "dead"
  /\ \E k \in 0..Len(held) : upstream' = upstream \o SubSeq(held, 1, k)
  /\ held' = <<>>
  /\ pump' = "failed"
  /\ CloseUpstream
  /\ UNCHANGED <<inVars, pc, recvVars, addrVars, conn, opened, replies>>

\* recv returns nothing or raises.
PumpEnds ==
  /\ pump = "receiving" /\ pc # "dead"
  /\ app = "reset" \/ (app = "closed" /\ taken = arrived) \/ pc = "closed"
  /\ pump' = "ended"
  /\ CloseUpstream
  /\ UNCHANGED <<inVars, pc, recvVars, addrVars, conn, opened, held, upstream, replies>>

-----------------------------------------------------------------------------
HandlerStep ==
  \/ TakeChunk \/ GiveUp
  \/ ReadHeader \/ ReadMethods \/ MethodsUnsent
  \/ ReadRequest \/ RejectRequest
  \/ ReadLength \/ ReadAddress \/ AddressNotAscii \/ ReadPort
  \/ Create \/ BridgeFails \/ Established \/ NotEstablished

Next ==
  \/ HandlerStep \/ RelayEnds
  \/ ReceiveUp \/ WriteUp \/ WriteUpFails \/ PumpEnds
  \/ Send \/ HangUp \/ Open \/ Stop

Spec == Init /\ [][Next]_vars

\* The handler's thread runs, its waits for the bridge and for its pumps are
\* bounded.  Nothing makes the application send on: its socket has no timeout.
FairSpec == Spec /\ WF_vars(HandlerStep) /\ WF_vars(RelayEnds)

-----------------------------------------------------------------------------
(* What the handshake is checked for: RFC 1928, as the module's docstring  *)
(* gives it, from the other end: what an application sends for a request.  *)

AddressBytes(d) == IF d.type = ATYP_DOMAIN THEN <<Len(d.host)>> \o d.host ELSE d.host

RequestBytes(d, methods, rest) ==
  <<SOCKS_VERSION, Len(methods)>> \o methods \o
  <<rest[1], CMD_CONNECT, rest[2], d.type>> \o AddressBytes(d) \o <<d.port \div 256, d.port % 256>>

\* s begins with a request for d, of whatever methods, version and reserved
\* byte; Handshake is its length.
Handshake(d, s) == 2 + s[2] + 4 + Len(AddressBytes(d)) + 2
Requests(d, s) ==
  LET n == s[2] IN
  /\ d.type = ATYP_IPV4 => Len(d.host) = 4
  /\ d.type = ATYP_IPV6 => Len(d.host) = 16
  /\ Len(s) >= Handshake(d, s)
  /\ IsPrefix(RequestBytes(d, SubSeq(s, 3, 2 + n), <<s[3 + n], s[5 + n]>>), s)

\* However the bytes arrive in pieces: a connection is asked for only to the
\* host and port that the application sent, and a request for such a
\* destination is all that is taken before the relaying.
DestinationIsRequested == dest # None => Requests(dest, script)

\* What follows the request goes into the tunnel from its first byte on,
\* although it may have arrived together with the request: upstream is a part of
\* it without a gap, and what the proxy received beyond that is with its pump,
\* unless a write has failed, after which nothing more is received or written.
PayloadIsWhole ==
  dest # None =>
    LET start == Handshake(dest, script)
        written == start + Len(upstream)
    IN /\ written <= taken /\ upstream = SubSeq(script, start + 1, written)
       /\ pump # "failed" => held = SubSeq(script, written + 1, taken)

\* The destination of a script, by the places of its parts; it is well-formed
\* if it begins with a request for it, of a type that the proxy knows and of a
\* name that is ASCII and not empty.
TypeOf(s) == s[6 + s[2]]
HostFrom(s) == IF TypeOf(s) = ATYP_DOMAIN THEN 8 + s[2] ELSE 7 + s[2]
HostSize(s) ==
  IF TypeOf(s) = ATYP_IPV4 THEN 4 ELSE IF TypeOf(s) = ATYP_IPV6 THEN 16 ELSE s[7 + s[2]]
HostTo(s) == HostFrom(s) + HostSize(s) - 1

Named(s) ==
  [type |-> TypeOf(s),
   host |-> SubSeq(s, HostFrom(s), HostTo(s)),
   port |-> 256 * s[HostTo(s) + 1] + s[HostTo(s) + 2]]

WellFormed(s) ==
  /\ Len(s) >= 8 /\ s[2] > 0 /\ Len(s) >= 8 + s[2]
  /\ TypeOf(s) \in Types
  /\ TypeOf(s) = ATYP_DOMAIN => s[7 + s[2]] > 0
  /\ Len(s) >= HostTo(s) + 2
  /\ Requests(Named(s), s)
  /\ Named(s).type = ATYP_DOMAIN => Ascii(Named(s).host)

\* An application is told, after the method and once, of success only when
\* its connection stands, of a refusal only when it asked for one, and of a
\* failure only when it hung up or what it sends is no request.
RepliesAreTrue ==
  /\ IsPrefix(<<"method">>, replies) \/ replies = <<>>
  /\ Len(replies) <= 2
  /\ Contains(replies, "success") => opened
  /\ Contains(replies, "refused") => dest # None
  /\ Contains(replies, "failure") => app # "open" \/ ~WellFormed(script)

\* An application that has sent a whole request and stays is told what came
\* of it, unless the bridge directory cannot be written or the proxy ends; and
\* a handler whose application hangs up ends, at whatever byte it does.
HandshakeEnds ==
  /\ (WellFormed(script) /\ arrived = Len(script)) ~>
       (Len(replies) = 2 \/ app # "open" \/ conn = "broken" \/ pc = "dead")
  /\ app # "open" ~> pc \in {"closed", "dead"}
=============================================================================
