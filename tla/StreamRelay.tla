----------------------------- MODULE StreamRelay -----------------------------
(***************************************************************************)
(* One streaming HTTP request after its request file was published: the    *)
(* server's handler thread appends what it reads from the target to a      *)
(* .stream file and marks the end with a .done file, while the client      *)
(* follows the growing file.  Nothing orders the two but the files.        *)
(*                                                                         *)
(* virtio_bridge/server.py    _handle_streaming_request                    *)
(* virtio_bridge/client.py    _handle_streaming_response ("proxy")         *)
(* virtio_bridge/direct.py    DirectClient.stream ("direct")               *)
(* virtio_bridge/protocol.py  append_stream, finish_stream, read_stream    *)
(*                                                                         *)
(* A chunk is written as Units pieces, which may become visible one by     *)
(* one.  With encryption the first piece of a chunk carries the length     *)
(* prefix, and the reader hands on whole chunks only.                      *)
(***************************************************************************)
EXTENDS Integers, SequencesExt

CONSTANTS
  MaxChunks,   \* bound on the chunks the target sends
  Units,       \* pieces a chunk is written in
  NoFile       \* the stream file does not exist

ASSUME StreamAssumption ==
  /\ MaxChunks \in Nat
  /\ Units \in Nat \ {0}
  /\ NoFile \notin Seq(1..(MaxChunks * Units))

VARIABLES
  encrypted, \* BridgeDirectory has a crypto instance; fixed
  proxy,     \* the proxy follows the stream, not a DirectClient; fixed
  sv,        \* where the server's handler thread is
  status,    \* the target's answer: "none", "ok" or an HTTP "error"
  chunks,    \* chunks read from the target so far
  unwritten, \* pieces of the last chunk that are not in the file yet
  attached,  \* the handle the server writes through is the file in the directory
  stream,    \* the pieces in the .stream file, or NoFile
  done,      \* the .done file exists
  errFile,   \* an error response (.json or .enc) exists
  rd,        \* where the reader is
  pos,       \* how much of the stream file it has read
  buf,       \* read but not handed on: an incomplete encrypted chunk
  got,       \* the pieces handed to the application
  quiet,     \* its last look at the file found nothing new
  told,      \* the status line the application was given
  refused,   \* history: files the reader was refused to read or to remove
  end        \* how the stream ended for the application

setup == <<encrypted, proxy>>
serverVars == <<setup, sv, status, chunks, unwritten>>
readerVars == <<setup, rd, pos, buf, got, quiet, told, refused, end>>
fileVars == <<attached, stream, done, errFile>>
vars == <<encrypted, proxy, sv, status, chunks, unwritten, attached, stream, done, errFile,
          rd, pos, buf, got, quiet, told, refused, end>>

Piece == 1..(MaxChunks * Units)
Exists == stream # NoFile

\* A piece is known by its place in what the target sends: the first n.
PiecesUpTo(n) == [k \in 1..n |-> k]
Written == chunks * Units - unwritten

TypeOK ==
  /\ encrypted \in BOOLEAN
  /\ proxy \in BOOLEAN
  /\ sv \in {"waiting", "opening", "copying", "writing", "finishing", "finished", "failed"}
  /\ status \in {"none", "ok", "error"}
  /\ chunks \in 0..MaxChunks
  /\ unwritten \in 0..Units
  /\ attached \in BOOLEAN
  /\ stream \in Seq(Piece) \cup {NoFile}
  /\ done \in BOOLEAN
  /\ errFile \in BOOLEAN
  /\ rd \in {"starting", "looking", "checking", "finishing", "ended"}
  /\ pos \in Nat
  /\ buf \in Seq(Piece)
  /\ got \in Seq(Piece)
  /\ quiet \in BOOLEAN
  /\ told \in {"nothing", "200", "error"}
  /\ refused \in SUBSET {"error", "stream", "done"}
  /\ end \in {"open", "complete", "timeout", "left", "error"}

Init ==
  /\ encrypted \in BOOLEAN
  /\ proxy \in BOOLEAN
  /\ sv = "waiting"
  /\ status = "none"
  /\ chunks = 0
  /\ unwritten = 0
  /\ attached = FALSE
  /\ stream = NoFile
  /\ done = FALSE
  /\ errFile = FALSE
  /\ rd = IF proxy THEN "starting" ELSE "looking"
  /\ pos = 0
  /\ buf = <<>>
  /\ got = <<>>
  /\ quiet = TRUE
  /\ told = "nothing"
  /\ refused = {}
  /\ end = "open"

-----------------------------------------------------------------------------
(* The server's handler thread.                                            *)

\* The request is consumed and admitted ...
Admit ==
  /\ sv = "waiting"
  /\ sv' = "opening"
  /\ UNCHANGED <<status, chunks, unwritten, fileVars, readerVars>>

\* ... or rejected (400); urlopen may fail (502), and so may a later read
\* from the target, an append or the writing of the .done file: each is
\* reported by a regular response with an error.
RespondError ==
  /\ sv \notin {"finished", "failed"}
  /\ sv' = "failed"
  /\ errFile' = TRUE
  /\ attached' = FALSE
  /\ UNCHANGED <<status, chunks, unwritten, stream, done, readerVars>>

\* append_stream opens the file for appending, creating it if need be.
OpenAppend ==
  /\ chunks < MaxChunks
  /\ chunks' = chunks + 1
  /\ unwritten' = Units
  /\ sv' = "writing"
  /\ stream' = IF Exists THEN stream ELSE <<>>
  /\ attached' = TRUE
  /\ UNCHANGED <<done, errFile, readerVars>>

\* urlopen returns: a success, or an HTTPError with or without a body.
TargetAnswers ==
  /\ sv = "opening"
  /\ \/ status' = "ok" /\ sv' = "copying" /\ UNCHANGED <<chunks, unwritten, fileVars, readerVars>>
     \/ status' = "error" /\ sv' = "finishing" /\ UNCHANGED <<chunks, unwritten, fileVars, readerVars>>
     \/ status' = "error" /\ OpenAppend

\* http_resp.read returns another chunk.
NextChunk ==
  /\ sv = "copying"
  /\ OpenAppend
  /\ UNCHANGED status

\* Mutation: the end of a chunk is noticed one piece late.
WritePieceTooMany ==
  /\ sv = "writing"
  /\ unwritten' = unwritten - 1
  /\ stream' = IF attached THEN Append(stream, Written + 1) ELSE stream
  /\ IF unwritten = 0
     THEN /\ sv' = IF status = "ok" THEN "copying" ELSE "finishing"
          /\ attached' = FALSE
     ELSE UNCHANGED <<sv, attached>>
  /\ UNCHANGED <<status, chunks, done, errFile, readerVars>>

\* A piece of the chunk becomes visible; the last one closes the file.  The
\* body of an HTTPError is one chunk, after which the stream is finished.
WritePiece ==
  /\ sv = "writing"
  /\ unwritten' = unwritten - 1
  /\ stream' = IF attached THEN Append(stream, Written + 1) ELSE stream
  /\ IF unwritten = 1
     THEN /\ sv' = IF status = "ok" THEN "copying" ELSE "finishing"
          /\ attached' = FALSE
     ELSE UNCHANGED <<sv, attached>>
  /\ UNCHANGED <<status, chunks, done, errFile, readerVars>>

\* http_resp.read returns b"": the target has sent everything.
TargetEnds ==
  /\ sv = "copying"
  /\ sv' = "finishing"
  /\ UNCHANGED <<status, chunks, unwritten, fileVars, readerVars>>

\* finish_stream; what the .done file contains is read by nobody.
FinishStream ==
  /\ sv = "finishing"
  /\ sv' = "finished"
  /\ done' = TRUE
  /\ UNCHANGED <<status, chunks, unwritten, attached, stream, errFile, readerVars>>

\* The server process stops with the thread anywhere, or the error response
\* cannot be written either.
ServerStops ==
  /\ sv \notin {"finished", "failed"}
  /\ sv' = "failed"
  /\ attached' = FALSE
  /\ UNCHANGED <<status, chunks, unwritten, stream, done, errFile, readerVars>>

ServerStep == Admit \/ RespondError \/ TargetAnswers \/ NextChunk \/ WritePiece \/ TargetEnds \/ FinishStream

-----------------------------------------------------------------------------
(* The reader.                                                             *)

\* Mutation: the .done file is not among those that are removed.
RemoveStreamFileOnly ==
  /\ stream' = NoFile
  /\ attached' = FALSE
  /\ UNCHANGED <<done, refused>>

\* _cleanup_stream_files: one file after the other, each of which may be refused
\* with a PermissionError that is passed over.
RemoveStreamFiles ==
  \E kept \in SUBSET {"stream", "done"} :
    /\ refused' = refused \cup kept
    /\ stream' = IF "stream" \in kept THEN stream ELSE NoFile
    /\ attached' = (attached /\ "stream" \in kept)
    /\ done' = (done /\ "done" \in kept)

\* The proxy looks once for an error response, 50ms after its request ...
FindError ==
  /\ rd = "starting"
  /\ errFile
  /\ told' = "error"
  /\ end' = "error"
  /\ rd' = "ended"
  /\ errFile' \in {encrypted, TRUE}   \* it unlinks {id}.json, whichever was read
  /\ UNCHANGED <<serverVars, attached, stream, done, pos, buf, got, quiet, refused>>

\* ... and otherwise, or if it may not read it, sends the headers of a 200
\* response.
SendHeaders ==
  /\ rd = "starting"
  /\ \/ ~errFile /\ UNCHANGED refused
     \/ errFile /\ refused' = refused \cup {"error"}
  /\ told' = "200"
  /\ rd' = "looking"
  /\ UNCHANGED <<serverVars, fileVars, pos, buf, got, quiet, end>>

Unread == IF Exists THEN SubSeq(stream, pos + 1, Len(stream)) ELSE <<>>

\* How many of the read pieces can be handed on: all of them, or with
\* encryption those of the chunks whose length prefix and body are there.
Deliverable(b) == IF encrypted THEN (Len(b) \div Units) * Units ELSE Len(b)

\* Mutation: the position is not moved past what was read.
ReadOnFromTheStart ==
  /\ pos' = pos
  /\ got' = got \o buf \o Unread
  /\ buf' = <<>>

\* Mutation: an incomplete chunk is dropped instead of kept.
ReadOnDropping ==
  LET b == buf \o Unread
  IN /\ pos' = pos + Len(Unread)
     /\ got' = got \o SubSeq(b, 1, Deliverable(b))
     /\ buf' = <<>>

\* f.seek(pos), f.read() to the end of what is visible, and the yields.
ReadOn ==
  LET b == buf \o Unread
      n == Deliverable(b)
  IN /\ pos' = pos + Len(Unread)
     /\ got' = got \o SubSeq(b, 1, n)
     /\ buf' = SubSeq(b, n + 1, Len(b))

Look ==
  /\ rd = "looking"
  /\ ReadOn
  /\ quiet' = (Unread = <<>>)
  /\ rd' = "checking"
  /\ UNCHANGED <<serverVars, fileVars, told, refused, end>>

CheckDone ==
  /\ rd = "checking"
  /\ rd' = IF done THEN "finishing" ELSE "looking"
  /\ UNCHANGED <<serverVars, fileVars, pos, buf, got, quiet, told, refused, end>>

\* Mutation: the reader stops at .done without reading the file again.
ReadRestSkipped ==
  /\ rd = "finishing"
  /\ RemoveStreamFiles
  /\ rd' = "ended"
  /\ end' = "complete"
  /\ UNCHANGED <<serverVars, errFile, pos, buf, got, quiet, told>>

\* The marker was there: what was written before it is read again.
ReadRest ==
  /\ rd = "finishing"
  /\ ReadOn
  /\ RemoveStreamFiles
  /\ rd' = "ended"
  /\ end' = "complete"
  /\ UNCHANGED <<serverVars, errFile, quiet, told>>

\* Mutation: the deadline only counts once the stream file exists.
TimeOutOnStreamOnly ==
  /\ rd = "looking"
  /\ Exists
  /\ quiet \/ encrypted
  /\ RemoveStreamFiles
  /\ rd' = "ended"
  /\ end' = "timeout"
  /\ UNCHANGED <<serverVars, errFile, pos, buf, got, quiet, told>>

\* The deadline passes.  Without encryption it is set anew after every yield;
\* with it, before: a slow application can let it pass on a busy stream.
TimeOut ==
  /\ rd = "looking"
  /\ quiet \/ encrypted
  /\ RemoveStreamFiles
  /\ rd' = "ended"
  /\ end' = "timeout"
  /\ UNCHANGED <<serverVars, errFile, pos, buf, got, quiet, told>>

\* The application goes away: the proxy notices when it writes to it, and
\* cleans up; a DirectClient's generator is just dropped.  The client process
\* ends, or opening or decrypting raises: nothing is cleaned up.
Leave ==
  /\ rd \notin {"starting", "ended"}
  /\ \/ UNCHANGED <<attached, stream, done, refused>>
     \/ /\ proxy
        /\ rd # "checking"
        /\ Deliverable(buf \o Unread) > 0
        /\ RemoveStreamFiles
  /\ rd' = "ended"
  /\ end' = "left"
  /\ UNCHANGED <<serverVars, errFile, pos, buf, got, quiet, told>>

ReaderStep == FindError \/ SendHeaders \/ Look \/ CheckDone \/ ReadRest

-----------------------------------------------------------------------------
Next == ServerStep \/ ServerStops \/ ReaderStep \/ TimeOut \/ Leave

Spec == Init /\ [][Next]_vars

\* Both processes run, and time passes.  A handler that was started goes on
\* (urlopen times out after 120s); a request need not be admitted.
FairSpec ==
  /\ Spec
  /\ WF_vars(ServerStep /\ sv # "waiting")
  /\ WF_vars(ReaderStep)
  /\ SF_vars(TimeOut /\ quiet)

-----------------------------------------------------------------------------
(* What the streaming relay is checked for.                                *)

\* The application gets the target's bytes in order and without gaps,
\* however the pieces became visible, and is told "complete" only with all of
\* them: a reader that sees .done has not missed the last append.
Promise == INSTANCE ByteStream WITH
  Pieces <- Piece,
  sent <- PiecesUpTo(Written),
  fin <- sv = "finished",
  end <- IF end \in {"open", "complete"} THEN end ELSE "cut"
ImplementsByteStream == Promise!Spec

\* read_stream reads the file again after it has seen .done: a stream that
\* ends for that reason was handed on to the last piece, none left in a buffer.
CompleteIsWhole ==
  end = "complete" => sv = "finished" /\ got = PiecesUpTo(Written) /\ buf = <<>>

\* A reader that saw the end leaves nothing in the responses directory but what
\* it was refused to remove, and no append of the server comes after it to leave
\* something again.
CompleteLeavesNothing ==
  end = "complete" =>
    /\ Exists => "stream" \in refused
    /\ done => "done" \in refused
    /\ ~errFile

\* A piece the reader passed over is never needed again: what it handed on
\* and what it keeps are exactly what it has read of the file.
NothingSkipped ==
  Len(got) + Len(buf) = pos /\ (Exists /\ rd # "ended" => pos <= Len(stream) /\ Len(stream) = Written)

\* Whatever the server and the target do, read_stream returns.
ReaderEnds == (rd # "ended") ~> (rd = "ended")

(* What comments say that the code does not do.                            *)

\* client.py: "First check if there's an error response"; server.py, on a
\* connection error: "write error as a regular response".  A proxy that is
\* still there when an error response is written, and may read it, tells the
\* application.
ErrorIsReported ==
  [][proxy /\ end = "open" /\ end' \in {"complete", "timeout"}
       => ~errFile \/ "error" \in refused]_vars
=============================================================================
