-------------------------- MODULE StreamRelay_proofs --------------------------
(***************************************************************************)
(* Theorems about StreamRelay, for any number of chunks and of pieces in a *)
(* chunk, for the proxy and a DirectClient, with and without encryption.   *)
(***************************************************************************)
EXTENDS StreamRelay, SequenceLemmas

\* The handler appends through a handle that is the file in the directory, or
\* was; it writes the .done file after its last append, or an error.
ServerInv ==
  /\ sv = "writing" => unwritten > 0
  /\ sv \notin {"writing", "failed"} => unwritten = 0
  /\ unwritten > 0 => chunks > 0
  /\ attached => sv = "writing" /\ Exists
  /\ errFile => sv = "failed"
  /\ done => sv = "finished"

\* As long as there is a reader the file is what was written: nobody else
\* removes it.
FileInv ==
  rd # "ended" =>
    /\ Exists => stream = PiecesUpTo(Written)
    /\ ~Exists => chunks = 0
    /\ sv = "writing" => attached

\* The types of what only the reader changes.
ReaderTypes ==
  /\ encrypted \in BOOLEAN /\ proxy \in BOOLEAN
  /\ rd \in {"starting", "looking", "checking", "finishing", "ended"}
  /\ pos \in Nat /\ buf \in Seq(Piece) /\ got \in Seq(Piece) /\ quiet \in BOOLEAN
  /\ told \in {"nothing", "200", "error"}
  /\ refused \in SUBSET {"error", "stream", "done"}
  /\ end \in {"open", "complete", "timeout", "left", "error"}

\* With encryption whole chunks are handed on.
Whole(s) == encrypted => \E k \in Nat : Len(s) = k * Units

ReaderInv ==
  /\ end = "open" <=> rd # "ended"
  /\ rd = "finishing" => done
  /\ rd # "ended" => pos <= Written
  /\ got \o buf = PiecesUpTo(pos)
  /\ Whole(got)

StreamInv ==
  TypeOK /\ ServerInv /\ FileInv /\ ReaderInv /\ CompleteIsWhole /\ CompleteLeavesNothing

-----------------------------------------------------------------------------
\* How much was written is a number, and within the bound.
LEMMA WrittenBounds ==
  ASSUME TypeOK, ServerInv
  PROVE  Written \in 0..(MaxChunks * Units) /\ MaxChunks * Units \in Nat
<1>1. /\ chunks \in Nat /\ MaxChunks \in Nat /\ Units \in Nat /\ chunks <= MaxChunks
      /\ unwritten \in 0..Units
  BY StreamAssumption DEF TypeOK
<1>2. /\ MaxChunks * Units \in Nat /\ chunks * Units \in Nat /\ chunks * Units <= MaxChunks * Units
      /\ chunks > 0 => Units <= chunks * Units
  BY <1>1, OneMoreChunk, MoreChunks
<1> QED
  BY <1>1, <1>2 DEF ServerInv, Written

\* What can be handed on is at most what there is; with encryption it is whole
\* chunks, and all of what consists of whole chunks.
LEMMA DeliverableBounds ==
  ASSUME encrypted \in BOOLEAN, NEW b \in Seq(Piece)
  PROVE  /\ Deliverable(b) \in 0..Len(b)
         /\ ~encrypted => Deliverable(b) = Len(b)
         /\ encrypted => \E k \in Nat : Deliverable(b) = k * Units
         /\ \A m \in Nat : Len(b) = m * Units => Deliverable(b) = Len(b)
<1>1. Len(b) \in Nat /\ Units \in Nat \ {0}
  BY LenProperties, StreamAssumption
<1>2. (Len(b) \div Units) * Units \in 0..Len(b) /\ Len(b) \div Units \in Nat
  BY <1>1, WholeChunks
<1>3. ASSUME NEW m \in Nat, Len(b) = m * Units PROVE Len(b) \div Units = m
  BY <1>1, <1>3, OnlyWholeChunks
<1>4. ASSUME NEW m \in Nat, Len(b) = m * Units PROVE Deliverable(b) = Len(b)
  BY <1>3, <1>4 DEF Deliverable
<1>5. ASSUME encrypted PROVE \E k \in Nat : Deliverable(b) = k * Units
  BY <1>2, <1>5 DEF Deliverable
<1>6. Deliverable(b) \in 0..Len(b) /\ (~encrypted => Deliverable(b) = Len(b))
  BY <1>1, <1>2 DEF Deliverable
<1> QED
  BY <1>4, <1>5, <1>6

\* The reader reads on from the position where it stopped.
LEMMA UnreadIsTheRest ==
  ASSUME StreamInv, rd # "ended"
  PROVE  /\ Unread \in Seq(Piece) /\ pos + Len(Unread) = Written
         /\ buf \o Unread \in Seq(Piece)
         /\ got \o (buf \o Unread) = PiecesUpTo(Written)
<1>. USE DEF StreamInv
<1>1. pos \in Nat /\ Written \in Nat /\ pos <= Written /\ Written <= MaxChunks * Units
  BY WrittenBounds DEF TypeOK, ReaderInv
<1>2. /\ Unread \in Seq(1..Written) /\ Len(Unread) = Written - pos
      /\ PiecesUpTo(pos) \o Unread = PiecesUpTo(Written)
  <2>1. CASE Exists
    <3>1. stream = PiecesUpTo(Written) /\ Len(stream) = Written
      BY <1>1, <2>1, FirstPieces DEF FileInv, PiecesUpTo
    <3>2. Unread = SubSeq(PiecesUpTo(Written), pos + 1, Written)
      BY <2>1, <3>1 DEF Unread
    <3> QED
      BY <1>1, <3>2, ReadOnFrom DEF PiecesUpTo
  <2>2. CASE ~Exists
    <3>1. chunks = 0 /\ unwritten = 0
      BY <2>2, StreamAssumption DEF FileInv, ServerInv, TypeOK
    <3>2. Written = 0 /\ pos = 0
      BY <1>1, <3>1, StreamAssumption, OneMoreChunk DEF Written
    <3>3. Unread = <<>>
      BY <2>2 DEF Unread
    <3>4. PiecesUpTo(0) \in Seq(Nat) /\ Len(PiecesUpTo(0)) = 0
      BY FirstPieces DEF PiecesUpTo
    <3>5. PiecesUpTo(0) = <<>>
      BY <3>4
    <3> QED
      BY <3>2, <3>3, <3>5
  <2> QED
    BY <2>1, <2>2
<1>3. Unread \in Seq(Piece) /\ buf \in Seq(Piece) /\ got \in Seq(Piece)
  <2>1. 1..Written \subseteq Piece
    BY <1>1, WrittenBounds DEF Piece
  <2> QED
    BY <1>2, <2>1, SeqMonotonic DEF TypeOK
<1>4. buf \o Unread \in Seq(Piece)
  BY <1>3, ConcatProperties
<1>5. got \o (buf \o Unread) = (got \o buf) \o Unread
  BY <1>3, ConcatAssociative
<1>6. pos + Len(Unread) = Written
  BY <1>1, <1>2
<1> QED
  BY <1>2, <1>3, <1>4, <1>5, <1>6 DEF ReaderInv

\* What is read on is handed on or kept; once the server has finished, all of
\* it is handed on.
LEMMA ReadOnKeepsAll ==
  ASSUME StreamInv, rd # "ended", ReadOn
  PROVE  /\ pos' = Written /\ got' \in Seq(Piece) /\ buf' \in Seq(Piece)
         /\ got' \o buf' = PiecesUpTo(Written)
         /\ Len(got) <= Len(got')
         /\ encrypted => \E k \in Nat : Len(got') = k * Units
         /\ sv = "finished" => got' = PiecesUpTo(Written) /\ buf' = <<>>
<1>. USE DEF StreamInv
<1>. DEFINE b    == buf \o Unread
            n    == Deliverable(b)
            on   == SubSeq(b, 1, n)
            kept == SubSeq(b, n + 1, Len(b))
<1>1. /\ Unread \in Seq(Piece) /\ pos + Len(Unread) = Written
      /\ b \in Seq(Piece) /\ got \o b = PiecesUpTo(Written)
  BY UnreadIsTheRest
<1>2. pos' = pos + Len(Unread) /\ got' = got \o on /\ buf' = kept
  BY DEF ReadOn
<1>3. encrypted \in BOOLEAN /\ got \in Seq(Piece) /\ Units \in Nat \ {0} /\ Written \in Nat
  BY StreamAssumption, WrittenBounds DEF TypeOK
<1>4. /\ n \in 0..Len(b)
      /\ ~encrypted => n = Len(b)
      /\ encrypted => \E k \in Nat : n = k * Units
      /\ \A m \in Nat : Len(b) = m * Units => n = Len(b)
  BY <1>1, <1>3, DeliverableBounds
<1>. HIDE DEF b, n
<1>5. /\ on \in Seq(Piece) /\ Len(on) = n
      /\ kept \in Seq(Piece) /\ Len(kept) = Len(b) - n
      /\ on \o kept = b
  BY <1>1, <1>4, CutInTwo
<1>. HIDE DEF on, kept
<1>6. got' \in Seq(Piece) /\ Len(got') = Len(got) + n
  BY <1>2, <1>3, <1>5, ConcatProperties
<1>7. got' \o buf' = PiecesUpTo(Written)
  <2>1. got \in Seq(Piece) /\ on \in Seq(Piece) /\ kept \in Seq(Piece)
    BY <1>3, <1>5
  <2>2. (got \o on) \o kept = got \o (on \o kept)
    BY <2>1, ConcatAssociative
  <2> QED
    BY <1>1, <1>2, <1>5, <2>2, Zenon
<1>8. Len(got) \in Nat /\ Len(b) \in Nat /\ Len(got) + Len(b) = Written
  <2>1. Len(got) \in Nat /\ Len(b) \in Nat /\ Len(got \o b) = Len(got) + Len(b)
    BY <1>1, <1>3, LenProperties, ConcatProperties
  <2>2. Len(PiecesUpTo(Written)) = Written
    BY <1>3, FirstPieces DEF PiecesUpTo
  <2> QED
    BY <1>1, <2>1, <2>2
<1>9. ASSUME encrypted PROVE \E k \in Nat : Len(got') = k * Units
  <2>1. PICK j \in Nat : Len(got) = j * Units
    BY <1>9 DEF ReaderInv, Whole
  <2>2. PICK m \in Nat : n = m * Units
    BY <1>4, <1>9
  <2>3. Len(got') = (j + m) * Units /\ j + m \in Nat
    <3>1. (j + m) * Units = j * Units + m * Units
      BY <1>3, MoreChunksAdd
    <3> QED
      BY <1>6, <2>1, <2>2, <3>1
  <2> QED
    BY <2>3
<1>10. ASSUME sv = "finished" PROVE got' = PiecesUpTo(Written) /\ buf' = <<>>
  <2>1. n = Len(b)
    <3>1. CASE ~encrypted
      BY <1>4, <3>1
    <3>2. CASE encrypted
      <4>1. PICK j \in Nat : Len(got) = j * Units
        BY <3>2 DEF ReaderInv, Whole
      <4>2. chunks \in Nat /\ Written = chunks * Units
        <5>1. chunks \in Nat /\ unwritten = 0
          BY <1>10 DEF ServerInv, TypeOK
        <5>2. chunks * Units \in Nat
          BY <1>3, <5>1, OneMoreChunk
        <5> QED
          BY <5>1, <5>2 DEF Written
      <4>3. j <= chunks
        BY <1>3, <1>8, <4>1, <4>2, FewerChunks
      <4>4. Len(b) = (chunks - j) * Units /\ chunks - j \in Nat
        <5>1. (chunks - j) * Units = chunks * Units - j * Units
          BY <1>3, <4>2, <4>3, MoreChunks
        <5> QED
          BY <1>3, <1>8, <4>1, <4>2, <4>3, <5>1
      <4> QED
        BY <1>4, <4>4
    <3> QED
      BY <1>3, <3>1, <3>2
  <2>2. Len(buf') = 0 /\ buf' \in Seq(Piece)
    BY <1>2, <1>5, <1>8, <2>1
  <2>3. buf' = <<>>
    BY <2>2
  <2> QED
    BY <1>6, <1>7, <2>3, ConcatEmptySeq
<1> QED
  BY <1>1, <1>2, <1>4, <1>5, <1>6, <1>7, <1>8, <1>9, <1>10

-----------------------------------------------------------------------------
\* At first nothing is written, read or there.
LEMMA StreamInit == Init => StreamInv
<1>. SUFFICES ASSUME Init PROVE StreamInv
  OBVIOUS
<1>1. 0 * Units = 0 /\ Units > 0
  BY StreamAssumption, OneMoreChunk
<1>2. PiecesUpTo(0) = <<>>
  <2>1. PiecesUpTo(0) \in Seq(Nat) /\ Len(PiecesUpTo(0)) = 0
    BY FirstPieces DEF PiecesUpTo
  <2> QED
    BY <2>1
<1>3. TypeOK
  <2>1. <<>> \in Seq(Piece) /\ 0 \in 0..MaxChunks /\ 0 \in 0..Units /\ 0 \in Nat
    BY StreamAssumption
  <2>2. stream \in Seq(Piece) \cup {NoFile}
    BY DEF Init
  <2>3. rd \in {"starting", "looking", "checking", "finishing", "ended"}
    BY DEF Init
  <2> QED
    BY <2>1, <2>2, <2>3, Zenon DEF Init, TypeOK
<1>4. Written = 0
  BY <1>1 DEF Init, Written
<1>5. ServerInv
  BY DEF Init, ServerInv, Exists
<1>6. FileInv
  BY DEF Init, FileInv, Exists
<1>7. ReaderInv
  <2>1. Whole(got)
    BY <1>1 DEF Init, Whole
  <2>2. got \o buf = PiecesUpTo(pos)
    BY <1>2 DEF Init
  <2> QED
    BY <1>4, <2>1, <2>2 DEF Init, ReaderInv
<1>8. CompleteIsWhole /\ CompleteLeavesNothing
  BY DEF Init, CompleteIsWhole, CompleteLeavesNothing
<1> QED
  BY <1>3, <1>5, <1>6, <1>7, <1>8 DEF StreamInv

\* Steps of the server that touch neither the stream nor what was written.
LEMMA QuietServerStep ==
  ASSUME StreamInv, Admit \/ RespondError \/ TargetEnds \/ FinishStream \/ ServerStops
  PROVE  StreamInv' /\ Written' = Written
<1>. USE DEF StreamInv
<1>1. /\ UNCHANGED <<readerVars, chunks, unwritten, stream>>
      /\ status' = status
      /\ sv \notin {"finished", "failed"}
      /\ sv' \in {"opening", "failed", "finishing", "finished"}
      /\ sv' # "failed" => sv # "writing"
      /\ errFile' = errFile \/ (errFile' = TRUE /\ sv' = "failed")
      /\ done' = done \/ (done' = TRUE /\ sv' = "finished")
      /\ attached' = attached \/ attached' = FALSE
      /\ attached' => sv # "writing"
  BY DEF Admit, RespondError, TargetEnds, FinishStream, ServerStops, fileVars
<1>2. Written' = Written
  BY <1>1 DEF Written
<1>3. TypeOK'
  <2>1. ReaderTypes'
    BY <1>1 DEF ReaderTypes, TypeOK, readerVars, setup, Piece
  <2>2. /\ sv' \in {"waiting", "opening", "copying", "writing", "finishing", "finished", "failed"}
        /\ done' \in BOOLEAN /\ errFile' \in BOOLEAN /\ attached' \in BOOLEAN
    BY <1>1 DEF TypeOK
  <2>3. /\ status' \in {"none", "ok", "error"} /\ chunks' \in 0..MaxChunks
        /\ unwritten' \in 0..Units /\ stream' \in Seq(Piece) \cup {NoFile}
    BY <1>1 DEF TypeOK
  <2> QED
    BY <2>1, <2>2, <2>3 DEF ReaderTypes, TypeOK, Piece
<1>4. ~attached'
  BY <1>1 DEF ServerInv
<1>5. ~errFile /\ ~done
  BY <1>1 DEF ServerInv
<1>6. ServerInv'
  BY <1>1, <1>4, <1>5 DEF ServerInv, Exists
<1>7. FileInv'
  BY <1>1, <1>2 DEF FileInv, Exists, readerVars, PiecesUpTo
<1>8. ReaderInv'
  <2>1. Whole(got)'
    BY <1>1 DEF ReaderInv, Whole, readerVars, setup
  <2> QED
    BY <1>1, <1>2, <1>5, <2>1 DEF ReaderInv, readerVars, PiecesUpTo
<1>9. end # "complete"
  BY <1>1 DEF CompleteIsWhole
<1>10. (CompleteIsWhole /\ CompleteLeavesNothing)'
  BY <1>1, <1>9 DEF CompleteIsWhole, CompleteLeavesNothing, readerVars
<1> QED
  BY <1>2, <1>3, <1>6, <1>7, <1>8, <1>10

\* The target answers; a chunk that begins creates the file, if need be, and
\* shows nothing yet.
LEMMA OpenStep ==
  ASSUME StreamInv, TargetAnswers \/ NextChunk
  PROVE  StreamInv' /\ Written' = Written
<1>. USE DEF StreamInv
<1>1. /\ UNCHANGED <<readerVars, done, errFile>>
      /\ sv \in {"opening", "copying"} /\ status' \in {"none", "ok", "error"}
      /\ \/ OpenAppend
         \/ sv' \in {"copying", "finishing"} /\ UNCHANGED <<chunks, unwritten, attached, stream>>
  BY DEF TargetAnswers, NextChunk, OpenAppend, fileVars, TypeOK
<1>2. unwritten = 0 /\ ~attached /\ ~errFile /\ ~done /\ chunks \in 0..MaxChunks
  BY <1>1 DEF ServerInv, TypeOK
<1>3. end # "complete" /\ end' # "complete"
  BY <1>1 DEF CompleteIsWhole, readerVars
<1>4. (CompleteIsWhole /\ CompleteLeavesNothing)'
  BY <1>3 DEF CompleteIsWhole, CompleteLeavesNothing
<1>5. ReaderTypes' /\ done' \in BOOLEAN /\ errFile' \in BOOLEAN /\ Whole(got)'
  BY <1>1 DEF ReaderTypes, TypeOK, Piece, readerVars, setup, ReaderInv, Whole
<1>6. CASE OpenAppend
  <2>1. /\ chunks' = chunks + 1 /\ chunks' \in 0..MaxChunks /\ unwritten' = Units /\ sv' = "writing"
        /\ unwritten' \in 0..Units /\ unwritten' > 0 /\ chunks' > 0 /\ attached' = TRUE
    BY <1>2, <1>6, StreamAssumption DEF OpenAppend
  <2>2. Written' = Written
    <3>1. (chunks + 1) * Units = chunks * Units + Units /\ chunks * Units \in Nat
      BY <1>2, StreamAssumption, OneMoreChunk
    <3> QED
      BY <1>2, <2>1, <3>1, StreamAssumption DEF Written
  <2>3. /\ Exists'
        /\ stream' \in Seq(Piece)
        /\ rd # "ended" => stream' = PiecesUpTo(Written)
    <3>1. CASE Exists
      BY <1>6, <3>1 DEF OpenAppend, Exists, TypeOK, FileInv
    <3>2. CASE ~Exists
      <4>1. stream' = <<>> /\ <<>> \in Seq(Piece) /\ NoFile \notin Seq(Piece)
        BY <1>6, <3>2, StreamAssumption DEF OpenAppend, Piece
      <4>2. ASSUME rd # "ended" PROVE PiecesUpTo(Written) = <<>>
        <5>1. chunks = 0
          BY <3>2, <4>2 DEF FileInv
        <5>2. Written = 0
          BY <1>2, <5>1, StreamAssumption, OneMoreChunk DEF Written
        <5>3. PiecesUpTo(Written) \in Seq(Nat) /\ Len(PiecesUpTo(Written)) = 0
          BY <5>2, FirstPieces DEF PiecesUpTo
        <5> QED
          BY <5>3
      <4>3. Exists'
        BY <4>1 DEF Exists
      <4> QED
        BY <4>1, <4>2, <4>3
    <3> QED
      BY <3>1, <3>2
  <2>4. TypeOK'
    BY <1>1, <1>5, <2>1, <2>3 DEF ReaderTypes, TypeOK, Piece
  <2>5. ServerInv'
    BY <1>1, <1>2, <2>1, <2>3 DEF ServerInv
  <2>6. FileInv'
    BY <1>1, <2>1, <2>2, <2>3 DEF FileInv, readerVars, PiecesUpTo
  <2>7. ReaderInv'
    BY <1>1, <1>5, <2>2 DEF ReaderInv, readerVars, PiecesUpTo
  <2> QED
    BY <1>4, <2>2, <2>4, <2>5, <2>6, <2>7
<1>7. CASE sv' \in {"copying", "finishing"} /\ UNCHANGED <<chunks, unwritten, attached, stream>>
  <2>1. Written' = Written
    BY <1>7 DEF Written
  <2>2. TypeOK'
    BY <1>1, <1>5, <1>7 DEF ReaderTypes, TypeOK, Piece
  <2>3. ServerInv'
    BY <1>1, <1>2, <1>7 DEF ServerInv
  <2>4. FileInv'
    BY <1>1, <1>7, <2>1 DEF FileInv, Exists, readerVars, PiecesUpTo
  <2>5. ReaderInv'
    BY <1>1, <1>5, <2>1 DEF ReaderInv, readerVars, PiecesUpTo
  <2> QED
    BY <1>4, <2>1, <2>2, <2>3, <2>4, <2>5
<1> QED
  BY <1>1, <1>6, <1>7

\* A piece becomes visible, unless the reader has removed the file.
LEMMA WriteStep ==
  ASSUME StreamInv, WritePiece
  PROVE  StreamInv' /\ Written' = Written + 1 /\ Written + 1 \in Piece
<1>. USE DEF StreamInv
<1>1. /\ UNCHANGED <<readerVars, status, chunks, done, errFile>>
      /\ sv = "writing" /\ sv' \in {"writing", "copying", "finishing"} /\ unwritten' = unwritten - 1
      /\ stream' = IF attached THEN Append(stream, Written + 1) ELSE stream
      /\ sv' = "writing" <=> unwritten # 1
      /\ attached' = attached \/ attached' = FALSE
      /\ sv' = "writing" => attached' = attached
      /\ sv' # "writing" => attached' = FALSE
  BY DEF WritePiece
<1>2. /\ unwritten \in 1..Units /\ unwritten' \in 0..Units /\ chunks > 0 /\ chunks \in 0..MaxChunks
      /\ sv' = "writing" => unwritten' > 0
      /\ sv' # "writing" => unwritten' = 0
  BY <1>1, StreamAssumption DEF ServerInv, TypeOK
<1>3. Written' = Written + 1 /\ Written \in Nat /\ Written + 1 \in Piece
  <2>1. chunks * Units \in Nat /\ chunks * Units <= MaxChunks * Units /\ Units <= chunks * Units
    BY <1>2, StreamAssumption, OneMoreChunk, MoreChunks
  <2>2. Written = chunks * Units - unwritten /\ Written' = chunks * Units - unwritten'
    BY <1>1 DEF Written
  <2>3. Written' = Written + 1 /\ Written \in Nat
    BY <1>1, <1>2, <2>1, <2>2, StreamAssumption
  <2>4. Written + 1 <= MaxChunks * Units
    BY <1>2, <2>1, <2>2, StreamAssumption, WrittenBounds
  <2> QED
    BY <2>3, <2>4, WrittenBounds DEF Piece
<1>4. /\ attached => stream \in Seq(Piece) /\ stream' \in Seq(Piece) /\ Exists /\ Exists'
      /\ ~attached => stream' = stream
  <2>1. ASSUME attached PROVE stream \in Seq(Piece) /\ stream' \in Seq(Piece) /\ Exists
    <3>1. stream \in Seq(Piece) /\ Exists
      BY <2>1 DEF ServerInv, TypeOK, Exists
    <3>2. Append(stream, Written + 1) \in Seq(Piece)
      BY <1>3, <3>1, AppendProperties
    <3> QED
      BY <1>1, <2>1, <3>1, <3>2
  <2>2. NoFile \notin Seq(Piece)
    BY StreamAssumption DEF Piece
  <2> QED
    BY <1>1, <2>1, <2>2 DEF Exists
<1>5. TypeOK'
  <2>1. stream' \in Seq(Piece) \cup {NoFile}
    BY <1>4 DEF TypeOK
  <2>2. ReaderTypes'
    BY <1>1 DEF ReaderTypes, TypeOK, readerVars, setup, Piece
  <2>3. /\ sv' \in {"waiting", "opening", "copying", "writing", "finishing", "finished", "failed"}
        /\ done' \in BOOLEAN /\ errFile' \in BOOLEAN /\ attached' \in BOOLEAN
        /\ status' \in {"none", "ok", "error"} /\ chunks' \in 0..MaxChunks
    BY <1>1, <1>2 DEF TypeOK
  <2> QED
    BY <1>2, <2>1, <2>2, <2>3 DEF ReaderTypes, TypeOK, Piece
<1>6. ServerInv'
  <2>1. attached' => sv' = "writing" /\ Exists'
    BY <1>1, <1>4
  <2> QED
    BY <1>1, <1>2, <2>1 DEF ServerInv
<1>7. FileInv'
  <2>. SUFFICES ASSUME rd' # "ended"
                PROVE  stream' = PiecesUpTo(Written + 1) /\ Exists' /\ (sv' = "writing" => attached')
    BY <1>3 DEF FileInv, PiecesUpTo
  <2>1. attached /\ stream = PiecesUpTo(Written)
    BY <1>1 DEF FileInv, readerVars, ServerInv
  <2>2. Append(PiecesUpTo(Written), Written + 1) = PiecesUpTo(Written + 1)
    BY <1>3, AppendPiece DEF PiecesUpTo
  <2> QED
    BY <1>1, <1>4, <2>1, <2>2
<1>8. ReaderInv'
  <2>1. Whole(got)' /\ got' \o buf' = PiecesUpTo(pos)'
    BY <1>1 DEF ReaderInv, Whole, readerVars, setup, PiecesUpTo
  <2>2. rd' # "ended" => pos' <= Written'
    BY <1>1, <1>3 DEF ReaderInv, readerVars, TypeOK
  <2> QED
    BY <1>1, <2>1, <2>2 DEF ReaderInv, readerVars
<1>9. (CompleteIsWhole /\ CompleteLeavesNothing)'
  BY <1>1 DEF CompleteIsWhole, CompleteLeavesNothing, readerVars
<1> QED
  BY <1>3, <1>5, <1>6, <1>7, <1>8, <1>9

\* What may stay after the removal is what the reader was refused to remove.
Removed ==
  /\ refused' \in SUBSET {"error", "stream", "done"}
  /\ stream' \in {stream, NoFile}
  /\ attached' \in BOOLEAN /\ (attached' => attached /\ stream' = stream)
  /\ done' \in BOOLEAN /\ (done' => done)
  /\ Exists' => "stream" \in refused'
  /\ done' => "done" \in refused'

LEMMA Removal == ASSUME TypeOK, RemoveStreamFiles PROVE Removed
<1>1. PICK kept \in SUBSET {"stream", "done"} :
        /\ refused' = refused \cup kept
        /\ stream' = IF "stream" \in kept THEN stream ELSE NoFile
        /\ attached' = (attached /\ "stream" \in kept)
        /\ done' = (done /\ "done" \in kept)
  BY DEF RemoveStreamFiles
<1>2. refused \in SUBSET {"error", "stream", "done"} /\ attached \in BOOLEAN /\ done \in BOOLEAN
  BY DEF TypeOK
<1>3. /\ refused' \in SUBSET {"error", "stream", "done"}
      /\ stream' \in {stream, NoFile} /\ (stream' # NoFile => "stream" \in refused')
  BY <1>1, <1>2
<1>4. attached' \in BOOLEAN /\ (attached' => attached /\ stream' = stream)
  BY <1>1, <1>2
<1>5. done' \in BOOLEAN /\ (done' => done) /\ (done' => "done" \in refused')
  BY <1>1, <1>2
<1> QED
  BY <1>3, <1>4, <1>5 DEF Removed, Exists

\* The reader reads on, and goes on looking or has read to the end.
LEMMA ReadStep == ASSUME StreamInv, Look \/ ReadRest PROVE StreamInv'
<1>. USE DEF StreamInv
<1>1. /\ UNCHANGED <<serverVars, errFile, told>> /\ ReadOn /\ rd # "ended"
      /\ \/ /\ UNCHANGED <<fileVars, refused, end>> /\ rd' = "checking" /\ quiet' \in BOOLEAN
         \/ /\ Removed /\ quiet' = quiet
            /\ rd' = "ended" /\ end' = "complete" /\ rd = "finishing"
  <2>1. CASE Look
    <3>1. quiet' \in BOOLEAN
      BY <2>1, Zenon DEF Look
    <3>2. /\ UNCHANGED <<serverVars, errFile, told>> /\ ReadOn /\ rd # "ended"
          /\ UNCHANGED <<fileVars, refused, end>> /\ rd' = "checking"
      BY <2>1 DEF Look, fileVars
    <3> QED
      BY <3>1, <3>2, Zenon
  <2>2. CASE ReadRest
    BY <2>2, Removal DEF ReadRest
  <2> QED
    BY <2>1, <2>2
<1>2. /\ pos' = Written /\ got' \in Seq(Piece) /\ buf' \in Seq(Piece)
      /\ got' \o buf' = PiecesUpTo(Written)
      /\ encrypted => \E k \in Nat : Len(got') = k * Units
      /\ sv = "finished" => got' = PiecesUpTo(Written) /\ buf' = <<>>
  BY <1>1, ReadOnKeepsAll
<1>3. Written' = Written /\ Written \in Nat
  BY <1>1, WrittenBounds DEF Written, serverVars
<1>4. TypeOK'
  <2>1. ReaderTypes'
    <3>1. refused' \in SUBSET {"error", "stream", "done"}
      BY <1>1 DEF TypeOK, Removed
    <3>2. quiet' \in BOOLEAN /\ rd' \in {"checking", "ended"} /\ (end' = end \/ end' = "complete")
      BY <1>1 DEF TypeOK
    <3> QED
      BY <1>1, <1>2, <1>3, <3>1, <3>2 DEF ReaderTypes, TypeOK, Piece, serverVars, setup
  <2>2. done' \in BOOLEAN /\ attached' \in BOOLEAN /\ stream' \in Seq(Piece) \cup {NoFile}
    BY <1>1 DEF TypeOK, fileVars, Removed
  <2>3. /\ sv' \in {"waiting", "opening", "copying", "writing", "finishing", "finished", "failed"}
        /\ status' \in {"none", "ok", "error"} /\ chunks' \in 0..MaxChunks
        /\ unwritten' \in 0..Units /\ errFile' \in BOOLEAN
    BY <1>1 DEF TypeOK, serverVars
  <2> QED
    BY <2>1, <2>2, <2>3 DEF ReaderTypes, TypeOK, Piece
<1>5. ServerInv'
  BY <1>1 DEF ServerInv, serverVars, fileVars, Exists, Removed
<1>6. FileInv'
  BY <1>1, <1>3 DEF FileInv, serverVars, fileVars, Exists, PiecesUpTo
<1>7. ReaderInv'
  <2>1. Whole(got)'
    BY <1>1, <1>2 DEF Whole, serverVars, setup
  <2>2. got' \o buf' = PiecesUpTo(pos)' /\ (rd' # "ended" => pos' <= Written')
    BY <1>2, <1>3 DEF PiecesUpTo
  <2>3. (end' = "open" <=> rd' # "ended") /\ rd' # "finishing"
    BY <1>1 DEF ReaderInv
  <2> QED
    BY <2>1, <2>2, <2>3 DEF ReaderInv
<1>8. (CompleteIsWhole /\ CompleteLeavesNothing)'
  <2>. SUFFICES ASSUME end' = "complete"
                PROVE  /\ sv' = "finished" /\ got' = PiecesUpTo(Written') /\ buf' = <<>>
                       /\ (Exists' => "stream" \in refused') /\ (done' => "done" \in refused')
                       /\ ~errFile'
    BY DEF CompleteIsWhole, CompleteLeavesNothing, PiecesUpTo
  <2>1. rd = "finishing" /\ Removed
    BY <1>1 DEF ReaderInv
  <2>2. sv = "finished" /\ ~errFile
    BY <2>1 DEF ReaderInv, ServerInv
  <2> QED
    BY <1>1, <1>2, <1>3, <2>1, <2>2 DEF serverVars, Removed
<1> QED
  BY <1>4, <1>5, <1>6, <1>7, <1>8

\* Steps of the reader that read nothing: it goes on or gives up, and removes
\* the files or leaves them.
LEMMA OtherReaderStep ==
  ASSUME StreamInv, FindError \/ SendHeaders \/ CheckDone \/ TimeOut \/ Leave
  PROVE  StreamInv'
<1>. USE DEF StreamInv
<1>1. /\ UNCHANGED <<serverVars, pos, buf, got, quiet>> /\ rd # "ended"
      /\ told' \in {"nothing", "200", "error"}
      /\ errFile' = errFile \/ (errFile /\ errFile' \in BOOLEAN)
      /\ refused' \in SUBSET {"error", "stream", "done"}
      /\ \/ UNCHANGED <<attached, stream, done>>
         \/ Removed /\ rd' = "ended"
      /\ \/ rd' \in {"looking", "finishing"} /\ end' = end /\ (rd' = "finishing" => done /\ done' = done)
         \/ rd' = "ended" /\ end' \in {"timeout", "left", "error"}
  <2>1. CASE FindError
    <3>1. errFile' \in BOOLEAN /\ errFile
      BY <2>1 DEF FindError, TypeOK
    <3> QED
      BY <2>1, <3>1 DEF FindError, TypeOK
  <2>2. CASE SendHeaders
    <3>1. refused' \in SUBSET {"error", "stream", "done"}
      BY <2>2 DEF SendHeaders, TypeOK
    <3> QED
      BY <2>2, <3>1 DEF SendHeaders, TypeOK, fileVars
  <2>3. CASE CheckDone
    BY <2>3 DEF CheckDone, TypeOK, fileVars
  <2>4. CASE TimeOut
    BY <2>4, Removal DEF TimeOut, Removed, TypeOK
  <2>5. CASE Leave
    <3>1. \/ UNCHANGED <<attached, stream, done, refused>>
          \/ Removed
      BY <2>5, Removal DEF Leave
    <3> QED
      BY <2>5, <3>1 DEF Leave, Removed, TypeOK
  <2> QED
    BY <2>1, <2>2, <2>3, <2>4, <2>5
<1>2. Written' = Written
  BY <1>1 DEF Written, serverVars
<1>3. TypeOK'
  <2>1. ReaderTypes'
    BY <1>1 DEF ReaderTypes, TypeOK, Piece, serverVars, setup
  <2>2. /\ done' \in BOOLEAN /\ attached' \in BOOLEAN /\ stream' \in Seq(Piece) \cup {NoFile}
        /\ errFile' \in BOOLEAN
    BY <1>1 DEF TypeOK, Removed
  <2>3. /\ sv' \in {"waiting", "opening", "copying", "writing", "finishing", "finished", "failed"}
        /\ status' \in {"none", "ok", "error"} /\ chunks' \in 0..MaxChunks
        /\ unwritten' \in 0..Units
    BY <1>1 DEF TypeOK, serverVars
  <2> QED
    BY <2>1, <2>2, <2>3 DEF ReaderTypes, TypeOK, Piece
<1>4. ServerInv'
  BY <1>1 DEF ServerInv, serverVars, Exists, Removed
<1>5. FileInv'
  BY <1>1, <1>2 DEF FileInv, serverVars, Exists, PiecesUpTo
<1>6. ReaderInv'
  <2>1. Whole(got)' /\ got' \o buf' = PiecesUpTo(pos)'
    BY <1>1 DEF ReaderInv, Whole, serverVars, setup, PiecesUpTo
  <2>2. rd' # "ended" => pos' <= Written'
    BY <1>1, <1>2 DEF ReaderInv
  <2>3. (end' = "open" <=> rd' # "ended") /\ (rd' = "finishing" => done')
    BY <1>1 DEF ReaderInv
  <2> QED
    BY <2>1, <2>2, <2>3 DEF ReaderInv
<1>7. end' # "complete"
  BY <1>1 DEF ReaderInv
<1> QED
  BY <1>3, <1>4, <1>5, <1>6, <1>7 DEF CompleteIsWhole, CompleteLeavesNothing

\* The inductive invariant: as long as there is a reader, the file is what was
\* written, and the reader has handed on or kept the first pos pieces of it.
THEOREM Invariant == Spec => []StreamInv
<1>1. StreamInv /\ [Next]_vars => StreamInv'
  <2>1. ASSUME StreamInv, UNCHANGED vars PROVE StreamInv'
    BY <2>1 DEF StreamInv, TypeOK, ServerInv, FileInv, ReaderInv, CompleteIsWhole,
       CompleteLeavesNothing, Whole, Exists, Written, PiecesUpTo, Piece, vars
  <2> QED
    BY <2>1, QuietServerStep, OpenStep, WriteStep, ReadStep, OtherReaderStep
       DEF Next, ServerStep, ReaderStep
<1> QED
  BY StreamInit, <1>1, PTL DEF Spec

\* Every variable keeps its type.
THEOREM Typing == Spec => []TypeOK
<1>1. StreamInv => TypeOK
  BY DEF StreamInv
<1> QED
  BY Invariant, <1>1, PTL

\* A stream that ends because of its .done file was handed on to the last piece.
THEOREM CompleteWhole == Spec => []CompleteIsWhole
<1>1. StreamInv => CompleteIsWhole
  BY DEF StreamInv
<1> QED
  BY Invariant, <1>1, PTL

\* A reader that saw the end leaves nothing but what it was refused to remove,
\* and the server adds nothing.
THEOREM NothingLeft == Spec => []CompleteLeavesNothing
<1>1. StreamInv => CompleteLeavesNothing
  BY DEF StreamInv
<1> QED
  BY Invariant, <1>1, PTL

\* What is handed on and what is kept is what was read of the file.
THEOREM Gapless == Spec => []NothingSkipped
<1>1. ASSUME StreamInv PROVE NothingSkipped
  <2>1. Len(got) + Len(buf) = pos
    <3>1. got \in Seq(Piece) /\ buf \in Seq(Piece) /\ pos \in Nat /\ got \o buf = PiecesUpTo(pos)
      BY <1>1 DEF StreamInv, TypeOK, ReaderInv
    <3>2. Len(got \o buf) = Len(got) + Len(buf)
      BY <3>1, ConcatProperties
    <3> QED
      BY <3>1, <3>2, FirstPieces DEF PiecesUpTo
  <2>2. ASSUME Exists, rd # "ended" PROVE pos <= Len(stream) /\ Len(stream) = Written
    <3>1. stream = PiecesUpTo(Written) /\ Written \in Nat /\ pos <= Written
      BY <1>1, <2>2, WrittenBounds DEF StreamInv, FileInv, ReaderInv
    <3> QED
      BY <3>1, FirstPieces DEF PiecesUpTo
  <2> QED
    BY <2>1, <2>2 DEF NothingSkipped
<1> QED
  BY Invariant, <1>1, PTL

-----------------------------------------------------------------------------
\* How the stream ended, as ByteStream sees it.
Ended == IF end \in {"open", "complete"} THEN end ELSE "cut"

\* Of the server's steps only a piece that becomes visible and the .done file
\* count.
LEMMA ServerRefines ==
  ASSUME StreamInv, ServerStep \/ ServerStops
  PROVE  [Promise!Next]_Promise!vars
<1>1. UNCHANGED <<got, end, Ended>>
  BY DEF ServerStep, ServerStops, Admit, RespondError, TargetAnswers, NextChunk, OpenAppend,
     WritePiece, TargetEnds, FinishStream, readerVars, Ended
<1>2. CASE WritePiece
  <2>1. Written' = Written + 1 /\ Written + 1 \in Piece /\ Written \in Nat
    BY <1>2, WriteStep, WrittenBounds DEF StreamInv
  <2>2. PiecesUpTo(Written)' = Append(PiecesUpTo(Written), Written + 1)
    BY <2>1, AppendPiece DEF PiecesUpTo
  <2>3. sv # "finished" /\ sv' # "finished"
    BY <1>2 DEF WritePiece
  <2>4. Promise!Write
    BY <1>1, <2>1, <2>2, <2>3 DEF Promise!Write, Ended
  <2> QED
    BY <2>4 DEF Promise!Next
<1>3. CASE ~WritePiece
  <2>1. Written' = Written
    BY <1>3, QuietServerStep, OpenStep DEF ServerStep
  <2>2. sv # "finished" /\ (sv' = "finished" \/ sv' # "finished")
    BY <1>3 DEF ServerStep, ServerStops, Admit, RespondError, TargetAnswers, NextChunk, OpenAppend,
       TargetEnds, FinishStream
  <2>3. PiecesUpTo(Written)' = PiecesUpTo(Written)
    BY <2>1 DEF PiecesUpTo
  <2> QED
    BY <1>1, <2>2, <2>3 DEF Promise!Next, Promise!Finish, Promise!vars, Ended
<1> QED
  BY <1>2, <1>3

\* Of the reader's steps a look delivers, the last one completes, and the ways
\* to give up cut the stream off.
LEMMA ReaderRefines ==
  ASSUME StreamInv, ReaderStep \/ TimeOut \/ Leave
  PROVE  [Promise!Next]_Promise!vars
<1>1. /\ UNCHANGED serverVars /\ rd # "ended" /\ end = "open"
  BY DEF ReaderStep, FindError, SendHeaders, Look, CheckDone, ReadRest, TimeOut, Leave, StreamInv,
     ReaderInv
<1>2. /\ Written' = Written /\ PiecesUpTo(Written)' = PiecesUpTo(Written) /\ sv' = sv
      /\ Ended = "open" /\ Written \in Nat
  BY <1>1, WrittenBounds DEF Written, PiecesUpTo, serverVars, Ended, StreamInv
<1>3. CASE Look
  <2>1. end' = end /\ Ended' = "open"
    BY <1>1, <1>3 DEF Look, Ended
  <2>2. /\ got' \in Seq(Piece) /\ buf' \in Seq(Piece) /\ Len(got) <= Len(got')
        /\ got' \o buf' = PiecesUpTo(Written)
    BY <1>1, <1>3, ReadOnKeepsAll DEF Look
  <2>3. got' \in Seq(Nat) /\ buf' \in Seq(Nat)
    <3>1. Piece \subseteq Nat
      BY DEF Piece
    <3> QED
      BY <2>2, <3>1, SeqMonotonic
  <2>4. Len(got') \in 0..Written /\ got' = SubSeq(PiecesUpTo(Written), 1, Len(got'))
    BY <1>2, <2>2, <2>3, PartIsPrefix DEF PiecesUpTo
  <2>5. Len(got') \in Len(got)..Len(PiecesUpTo(Written))
    <3>1. Len(PiecesUpTo(Written)) = Written
      BY <1>2, FirstPieces DEF PiecesUpTo
    <3>2. Len(got) \in Nat
      BY LenProperties DEF StreamInv, TypeOK
    <3> QED
      BY <2>2, <2>4, <3>1, <3>2
  <2> QED
    BY <1>2, <2>1, <2>4, <2>5 DEF Promise!Next, Promise!Deliver, Ended
<1>4. CASE ReadRest
  <2>1. end' = "complete" /\ Ended' = "complete"
    BY <1>4 DEF ReadRest, Ended
  <2>2. sv = "finished" /\ got' = PiecesUpTo(Written)
    <3>1. sv = "finished"
      BY <1>4 DEF ReadRest, StreamInv, ReaderInv, ServerInv
    <3> QED
      BY <1>1, <1>4, <3>1, ReadOnKeepsAll DEF ReadRest
  <2> QED
    BY <1>2, <2>1, <2>2 DEF Promise!Next, Promise!Complete, Ended
<1>5. CASE FindError \/ TimeOut \/ Leave
  <2>1. got' = got /\ Ended' = "cut"
    BY <1>5 DEF FindError, TimeOut, Leave, Ended
  <2> QED
    BY <1>2, <2>1 DEF Promise!Next, Promise!Cut, Ended
<1>6. CASE SendHeaders \/ CheckDone
  <2>1. got' = got /\ Ended' = Ended
    BY <1>6 DEF SendHeaders, CheckDone, Ended
  <2> QED
    BY <1>2, <2>1 DEF Promise!vars, Ended
<1> QED
  BY <1>3, <1>4, <1>5, <1>6 DEF ReaderStep

\* The streaming relay implements the abstract byte stream.
THEOREM Refinement == Spec => ImplementsByteStream
<1>1. Init => Promise!Init
  <2>. SUFFICES ASSUME Init PROVE Promise!Init
    OBVIOUS
  <2>1. Written = 0 /\ Len(PiecesUpTo(0)) = 0 /\ PiecesUpTo(0) \in Seq(Nat)
    BY StreamAssumption, FirstPieces, OneMoreChunk DEF Init, Written, PiecesUpTo
  <2>2. PiecesUpTo(Written) = <<>>
    BY <2>1
  <2> QED
    BY <2>2 DEF Init, Promise!Init
<1>2. StreamInv /\ [Next]_vars => [Promise!Next]_Promise!vars
  <2>1. ASSUME UNCHANGED vars PROVE UNCHANGED Promise!vars
    BY <2>1 DEF vars, Promise!vars, Written, PiecesUpTo
  <2> QED
    BY <2>1, ServerRefines, ReaderRefines DEF Next
<1> QED
  BY <1>1, <1>2, Invariant, PTL DEF Spec, ImplementsByteStream, Promise!Spec
=============================================================================
