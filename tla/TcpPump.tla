------------------------------- MODULE TcpPump -------------------------------
(***************************************************************************)
(* One direction of an established TCP tunnel, with one handler on each    *)
(* side: a pump reads from a socket and appends to upstream.bin (or        *)
(* downstream.bin), at the end of its input it touches close_up (or        *)
(* close_down); the pump on the other side follows the file, sends on what *)
(* it finds and shuts its socket down when its iteration ends.             *)
(*                                                                         *)
(* virtio_bridge/tcp_protocol.py  _write_stream, _read_incremental, iter_* *)
(* virtio_bridge/tcp_relay.py     TcpRelayHandler.relay                    *)
(* virtio_bridge/socks.py         SocksHandler._relay                      *)
(*                                                                         *)
(* Both directions run the same code.  A write is Units pieces long, which *)
(* become visible in order; with encryption its first piece holds the      *)
(* length prefix and only whole writes are sent on.                        *)
(***************************************************************************)
EXTENDS Integers, SequencesExt

CONSTANTS
  MaxWrites,   \* bound on the writes to the file
  Units        \* pieces in a write

ASSUME PumpAssumption ==
  /\ MaxWrites \in Nat
  /\ Units \in Nat \ {0}

VARIABLES
  encrypted, \* the bridge has a crypto instance; fixed
  writer,    \* "reading" its socket, "writing" to the file, "ended" or "stopped"
  writes,    \* writes begun
  unwritten, \* pieces of the last one not visible yet
  closed,    \* the close_up or close_down file exists
  reader,    \* "looking" at the file, "checking" for the close, "ended"
  pos,       \* how much of the file it has read
  buf,       \* read, but part of an incomplete encrypted write
  got,       \* the pieces sent on to its socket
  fresh,     \* its last look found something to send on
  end        \* how its iteration ended

writerVars == <<encrypted, writer, writes, unwritten, closed>>
readerVars == <<encrypted, reader, pos, buf, got, fresh, end>>
vars == <<encrypted, writer, writes, unwritten, closed, reader, pos, buf, got, fresh, end>>

Piece == 1..(MaxWrites * Units)
PiecesUpTo(n) == [k \in 1..n |-> k]

\* The length of the append-only file; its contents are PiecesUpTo(Written).
Written == writes * Units - unwritten

TypeOK ==
  /\ encrypted \in BOOLEAN
  /\ writer \in {"reading", "writing", "ended", "stopped"}
  /\ writes \in 0..MaxWrites
  /\ unwritten \in 0..Units
  /\ closed \in BOOLEAN
  /\ reader \in {"looking", "checking", "ended"}
  /\ pos \in 0..(MaxWrites * Units)
  /\ buf \in Seq(Piece)
  /\ got \in Seq(Piece)
  /\ fresh \in BOOLEAN
  /\ end \in {"open", "eof", "timeout", "broken"}

Init ==
  /\ encrypted \in BOOLEAN
  /\ writer = "reading"
  /\ writes = 0
  /\ unwritten = 0
  /\ closed = FALSE
  /\ reader = "looking"
  /\ pos = 0
  /\ buf = <<>>
  /\ got = <<>>
  /\ fresh = FALSE
  /\ end = "open"

-----------------------------------------------------------------------------
(* The pump that writes the file.                                          *)

\* recv returns data: _write_stream opens the file for appending.
BeginWrite ==
  /\ writer = "reading"
  /\ writes < MaxWrites
  /\ writer' = "writing"
  /\ writes' = writes + 1
  /\ unwritten' = Units
  /\ UNCHANGED <<closed, readerVars>>

\* Mutation: the end of a write is noticed one piece late.
WritePieceTooMany ==
  /\ writer = "writing"
  /\ unwritten' = unwritten - 1
  /\ writer' = IF unwritten = 0 THEN "reading" ELSE "writing"
  /\ UNCHANGED <<writes, closed, readerVars>>

WritePiece ==
  /\ writer = "writing"
  /\ unwritten' = unwritten - 1
  /\ writer' = IF unwritten = 1 THEN "reading" ELSE "writing"
  /\ UNCHANGED <<writes, closed, readerVars>>

\* recv returns b"" or fails: the finally clause touches the close file.
CloseFile ==
  /\ writer = "reading"
  /\ writer' = "ended"
  /\ closed' = TRUE
  /\ UNCHANGED <<writes, unwritten, readerVars>>

\* The process of this pump is killed: nobody touches the close file.
WriterStops ==
  /\ writer # "ended"
  /\ writer' = "stopped"
  /\ UNCHANGED <<writes, unwritten, closed, readerVars>>

-----------------------------------------------------------------------------
(* The pump that reads it: one round of iter_upstream or iter_downstream.  *)

EndWith(reason) ==
  /\ reader' = "ended"
  /\ end' = reason

Unread == SubSeq(PiecesUpTo(Written), pos + 1, Written)
Deliverable(b) == IF encrypted THEN (Len(b) \div Units) * Units ELSE Len(b)

\* Mutation: the position is not moved past what was read.
LookFromTheStart ==
  /\ reader = "looking"
  /\ got' = got \o Unread
  /\ fresh' = (Unread # <<>>)
  /\ reader' = IF Unread # <<>> THEN "looking" ELSE "checking"
  /\ UNCHANGED <<writerVars, pos, buf, end>>

\* Mutation: an incomplete encrypted write is dropped instead of kept.
LookDropping ==
  LET n == Deliverable(buf \o Unread)
  IN /\ reader = "looking"
     /\ pos' = Written
     /\ got' = got \o SubSeq(buf \o Unread, 1, n)
     /\ buf' = <<>>
     /\ fresh' = (n > 0)
     /\ reader' = IF n > 0 THEN "looking" ELSE "checking"
     /\ UNCHANGED <<writerVars, end>>

\* Read to the end of what is visible and send on what can be; sendall may
\* fail, which ends the iteration.  Only a look that yields nothing is
\* followed by a look for the close file.
Look ==
  LET b == buf \o Unread
      n == Deliverable(b)
  IN /\ reader = "looking"
     /\ pos' = Written
     /\ buf' = SubSeq(b, n + 1, Len(b))
     /\ fresh' = (n > 0)
     /\ \/ /\ got' = got \o SubSeq(b, 1, n)
           /\ reader' = IF n > 0 THEN "looking" ELSE "checking"
           /\ UNCHANGED end
        \/ /\ n > 0
           /\ EndWith("broken")
           /\ UNCHANGED got
     /\ UNCHANGED writerVars

CheckClosed ==
  /\ reader = "checking"
  /\ IF closed THEN EndWith("eof") ELSE reader' = "looking" /\ UNCHANGED end
  /\ UNCHANGED <<writerVars, pos, buf, got, fresh>>

\* Mutation: the deadline only counts once the writer has closed.
TimeOutOnceClosed ==
  /\ reader = "looking"
  /\ ~fresh
  /\ closed
  /\ EndWith("timeout")
  /\ UNCHANGED <<writerVars, pos, buf, got, fresh>>

\* 60s without anything to send on; the deadline is set anew after a yield.
TimeOut ==
  /\ reader = "looking"
  /\ ~fresh
  /\ EndWith("timeout")
  /\ UNCHANGED <<writerVars, pos, buf, got, fresh>>

-----------------------------------------------------------------------------
Next == BeginWrite \/ WritePiece \/ CloseFile \/ WriterStops \/ Look \/ CheckClosed \/ TimeOut

Spec == Init /\ [][Next]_vars

\* A pump that is writing goes on; a reading pump goes round, and its time
\* passes.  Its peer need not send nor close anything.
FairSpec ==
  /\ Spec
  /\ WF_vars(WritePiece)
  /\ WF_vars(Look \/ CheckClosed)
  /\ SF_vars(TimeOut)

-----------------------------------------------------------------------------
(* What the pumps are checked for.                                         *)

\* However reads and writes interleave and however a write becomes visible,
\* what is sent on is a gapless prefix of what was written.  An end of file
\* that comes too early counts as a cut here; see EofIsWhole.
Promise == INSTANCE ByteStream WITH
  Pieces <- Piece,
  sent <- PiecesUpTo(Written),
  fin <- closed,
  end <- CASE end = "open" -> "open"
           [] end = "eof" /\ got = PiecesUpTo(Written) -> "complete"
           [] OTHER -> "cut"
ImplementsByteStream == Promise!Spec

\* The bytes read are sent on or kept, and a part of an encrypted write that
\* is kept is never more than its rest can complete.
NothingSkipped ==
  end # "broken" =>
    /\ got \o buf = PiecesUpTo(pos)
    /\ Len(buf) < Units

\* An iteration ends, whatever the other side does.
PumpEnds == (reader # "ended") ~> (reader = "ended")

(* What comments say that the code does not do.                            *)

\* tcp_protocol.py: "Either side writes close_up/close_down to signal EOF",
\* after its last write: the other side passes on an end of file only after
\* all that was written.
EofIsWhole == end = "eof" => got = PiecesUpTo(Written)
=============================================================================
