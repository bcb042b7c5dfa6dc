---------------------------- MODULE TcpPump_proofs ----------------------------
(***************************************************************************)
(* Theorems about TcpPump, for any number of writes, of pieces in a write  *)
(* and of bytes in the tunnel, with and without encryption.                *)
(***************************************************************************)
EXTENDS TcpPump, SequenceLemmas

\* A write is unfinished only while it is made, or if the writer was stopped
\* in it; the close file is the writer's last act.
WriterInv ==
  /\ writer \in {"reading", "ended"} => unwritten = 0
  /\ writer = "writing" => unwritten > 0
  /\ unwritten > 0 => writes > 0
  /\ closed <=> writer = "ended"

\* The reader has not read past the end, and an end of file was signalled.
ReaderInv ==
  /\ reader = "ended" <=> end # "open"
  /\ end = "eof" => closed
  /\ pos <= Written

PumpInv == TypeOK /\ WriterInv /\ ReaderInv /\ NothingSkipped

-----------------------------------------------------------------------------
\* The file's length is a number, and within the bound.
LEMMA WrittenBounds ==
  ASSUME TypeOK, WriterInv
  PROVE  Written \in 0..(MaxWrites * Units) /\ MaxWrites * Units \in Nat
<1>1. /\ writes \in Nat /\ MaxWrites \in Nat /\ Units \in Nat /\ writes <= MaxWrites
      /\ unwritten \in 0..Units
  BY PumpAssumption DEF TypeOK
<1>2. /\ MaxWrites * Units \in Nat /\ writes * Units \in Nat /\ writes * Units <= MaxWrites * Units
      /\ writes > 0 => Units <= writes * Units
  BY <1>1, OneMoreChunk, MoreChunks
<1> QED
  BY <1>1, <1>2 DEF WriterInv, Written

\* What can be sent on is at most what there is, and what remains is less than
\* a write.
LEMMA DeliverableBounds ==
  ASSUME encrypted \in BOOLEAN, NEW b \in Seq(Piece)
  PROVE  Deliverable(b) \in 0..Len(b) /\ Len(b) - Deliverable(b) < Units
<1>1. Len(b) \in Nat /\ Units \in Nat \ {0}
  BY LenProperties, PumpAssumption
<1>2. /\ (Len(b) \div Units) * Units \in 0..Len(b)
      /\ Len(b) - (Len(b) \div Units) * Units < Units
  BY <1>1, WholeChunks
<1> QED
  BY <1>1, <1>2 DEF Deliverable

\* With what a look reads, the reader has all that is visible.
LEMMA LookReadsAll ==
  ASSUME PumpInv
  PROVE  /\ buf \o Unread \in Seq(Piece)
         /\ end # "broken" => got \o (buf \o Unread) = PiecesUpTo(Written)
<1>1. pos \in Nat /\ Written \in Nat /\ pos <= Written /\ Written <= MaxWrites * Units
  BY WrittenBounds DEF PumpInv, TypeOK, ReaderInv
<1>2. /\ Unread \in Seq(1..Written)
      /\ PiecesUpTo(pos) \o Unread = PiecesUpTo(Written)
  BY <1>1, ReadOnFrom DEF Unread, PiecesUpTo
<1>3. Unread \in Seq(Piece) /\ buf \in Seq(Piece) /\ got \in Seq(Piece)
  <2>1. 1..Written \subseteq Piece
    BY <1>1, WrittenBounds DEF Piece, PumpInv
  <2> QED
    BY <1>2, <2>1, SeqMonotonic DEF PumpInv, TypeOK
<1>4. buf \o Unread \in Seq(Piece)
  BY <1>3, ConcatProperties
<1>5. got \o (buf \o Unread) = (got \o buf) \o Unread
  BY <1>3, ConcatAssociative
<1> QED
  BY <1>2, <1>4, <1>5 DEF PumpInv, NothingSkipped

-----------------------------------------------------------------------------
\* At first nothing is written, read or kept.
LEMMA PumpInit == Init => PumpInv
<1>. SUFFICES ASSUME Init PROVE PumpInv
  OBVIOUS
<1>1. 0 * Units = 0 /\ MaxWrites * Units \in Nat /\ Units > 0
  BY PumpAssumption, OneMoreChunk
<1>2. TypeOK /\ WriterInv /\ ReaderInv
  <2>1. <<>> \in Seq(Piece) /\ 0 \in 0..(MaxWrites * Units)
    BY <1>1
  <2>2. TypeOK
    <3>1. 0 \in 0..MaxWrites /\ 0 \in 0..Units
      BY PumpAssumption
    <3> QED
      BY <2>1, <3>1, Zenon DEF Init, TypeOK
  <2>3. Written = 0
    BY <1>1 DEF Init, Written
  <2> QED
    BY <2>2, <2>3 DEF Init, WriterInv, ReaderInv
<1>3. PiecesUpTo(0) = <<>> /\ <<>> \o <<>> = <<>> /\ Len(<<>>) = 0
  <2>1. PiecesUpTo(0) \in Seq(Nat) /\ Len(PiecesUpTo(0)) = 0
    BY FirstPieces DEF PiecesUpTo
  <2> QED
    BY <2>1
<1>4. NothingSkipped
  BY <1>1, <1>3 DEF Init, NothingSkipped
<1> QED
  BY <1>2, <1>4 DEF PumpInv

\* The writer's steps.
LEMMA WriterStep ==
  ASSUME PumpInv, BeginWrite \/ WritePiece \/ CloseFile \/ WriterStops
  PROVE  /\ PumpInv'
         /\ Written' >= Written /\ Written' \in 0..(MaxWrites * Units)
<1>. USE DEF PumpInv
<1>1. UNCHANGED readerVars
  BY DEF BeginWrite, WritePiece, CloseFile, WriterStops
<1>2. TypeOK' /\ WriterInv'
  <2>1. /\ encrypted' \in BOOLEAN /\ reader' \in {"looking", "checking", "ended"}
        /\ pos' \in 0..(MaxWrites * Units) /\ buf' \in Seq(Piece) /\ got' \in Seq(Piece)
        /\ fresh' \in BOOLEAN /\ end' \in {"open", "eof", "timeout", "broken"}
    BY <1>1 DEF TypeOK, readerVars
  <2>2. /\ writer' \in {"reading", "writing", "ended", "stopped"} /\ closed' \in BOOLEAN
        /\ writes' \in 0..MaxWrites /\ unwritten' \in 0..Units
        /\ WriterInv'
    <3>1. CASE BeginWrite
      <4>1. /\ writer' = "writing" /\ writes' = writes + 1 /\ unwritten' = Units /\ closed' = closed
            /\ writes \in 0..MaxWrites /\ writes < MaxWrites /\ writer = "reading"
            /\ MaxWrites \in Nat /\ Units \in Nat \ {0}
        BY <3>1, PumpAssumption DEF BeginWrite, TypeOK
      <4> QED
        BY <4>1 DEF TypeOK, WriterInv
    <3>2. CASE WritePiece
      BY <3>2, PumpAssumption DEF WritePiece, TypeOK, WriterInv
    <3>3. CASE CloseFile
      BY <3>3 DEF CloseFile, TypeOK, WriterInv
    <3>4. CASE WriterStops
      BY <3>4 DEF WriterStops, TypeOK, WriterInv
    <3> QED
      BY <3>1, <3>2, <3>3, <3>4
  <2> QED
    BY <2>1, <2>2 DEF TypeOK
<1>3. Written' \in Nat /\ Written \in Nat
  <2>1. Written \in Nat
    BY WrittenBounds
  <2>2. (writes * Units)' \in Nat /\ (writes > 0 => Units <= writes * Units)'
    <3>1. writes' \in Nat /\ Units' = Units /\ Units \in Nat
      BY <1>2, PumpAssumption DEF TypeOK
    <3>2. writes' * Units \in Nat /\ (writes' > 0 => Units <= writes' * Units)
      BY <3>1, OneMoreChunk
    <3> QED
      BY <3>1, <3>2
  <2>3. unwritten' \in 0..Units /\ (unwritten' > 0 => writes' > 0) /\ Units \in Nat
    BY <1>2, PumpAssumption DEF TypeOK, WriterInv
  <2> QED
    BY <2>1, <2>2, <2>3 DEF Written
<1>4. Written' >= Written
  <2>1. CASE BeginWrite
    <3>1. writes' * Units = writes * Units + Units
      BY <2>1, PumpAssumption, OneMoreChunk DEF BeginWrite, TypeOK
    <3> QED
      BY <2>1, <3>1, PumpAssumption DEF BeginWrite, TypeOK, WriterInv, Written
  <2>2. CASE ~BeginWrite
    <3>1. writes' = writes /\ unwritten' <= unwritten /\ unwritten' \in Nat /\ unwritten \in Nat
      BY <1>2, <2>2, PumpAssumption DEF WritePiece, CloseFile, WriterStops, TypeOK
    <3>2. writes * Units \in Nat
      BY PumpAssumption, OneMoreChunk DEF TypeOK
    <3> QED
      BY <3>1, <3>2 DEF Written
  <2> QED
    BY <2>1, <2>2
<1>10. Written' <= MaxWrites * Units
  <2>1. writes' \in Nat /\ writes' <= MaxWrites /\ unwritten' \in Nat
    BY <1>2, PumpAssumption DEF TypeOK
  <2>2. writes' * Units \in Nat /\ writes' * Units <= MaxWrites * Units /\ MaxWrites * Units \in Nat
    BY <2>1, PumpAssumption, MoreChunks, OneMoreChunk
  <2> QED
    BY <2>1, <2>2 DEF Written
<1>11. Written' \in 0..(MaxWrites * Units)
  BY <1>3, <1>10, WrittenBounds
<1>5. ReaderInv'
  BY <1>1, <1>3, <1>4 DEF ReaderInv, readerVars, TypeOK, BeginWrite, WritePiece, CloseFile,
     WriterStops
<1>6. NothingSkipped'
  BY <1>1 DEF NothingSkipped, readerVars, PiecesUpTo
<1> QED
  BY <1>2, <1>4, <1>5, <1>6, <1>11

\* A look moves the position to the end of what is visible, and what it does
\* not send on it keeps.
LEMMA LookStep == ASSUME PumpInv, Look PROVE PumpInv'
<1>. USE DEF PumpInv
<1>. DEFINE b == buf \o Unread
            n == Deliverable(b)
<1>1. /\ b \in Seq(Piece) /\ n \in 0..Len(b) /\ Len(b) - n < Units
      /\ end # "broken" => got \o b = PiecesUpTo(Written)
  BY LookReadsAll, DeliverableBounds DEF TypeOK
<1>2. /\ SubSeq(b, 1, n) \in Seq(Piece)
      /\ SubSeq(b, n + 1, Len(b)) \in Seq(Piece) /\ Len(SubSeq(b, n + 1, Len(b))) = Len(b) - n
      /\ SubSeq(b, 1, n) \o SubSeq(b, n + 1, Len(b)) = b
  BY <1>1, CutInTwo
<1>3. /\ reader = "looking" /\ pos' = Written /\ buf' = SubSeq(b, n + 1, Len(b)) /\ fresh' = (n > 0)
      /\ \/ got' = got \o SubSeq(b, 1, n) /\ reader' \in {"looking", "checking"} /\ end' = end
         \/ got' = got /\ reader' = "ended" /\ end' = "broken"
      /\ UNCHANGED writerVars
  BY DEF Look, EndWith
<1>. HIDE DEF b, n
<1>4. got \in Seq(Piece) /\ got \o SubSeq(b, 1, n) \in Seq(Piece)
  BY <1>2, ConcatProperties DEF TypeOK
<1>5. Written' = Written /\ Written \in 0..(MaxWrites * Units)
  BY <1>3, WrittenBounds DEF Written, writerVars
<1>6. TypeOK'
  <2>1. /\ encrypted' \in BOOLEAN /\ writer' \in {"reading", "writing", "ended", "stopped"}
        /\ writes' \in 0..MaxWrites /\ unwritten' \in 0..Units /\ closed' \in BOOLEAN
    BY <1>3 DEF TypeOK, writerVars
  <2>2. /\ reader' \in {"looking", "checking", "ended"} /\ fresh' \in BOOLEAN
        /\ end' \in {"open", "eof", "timeout", "broken"}
    BY <1>3 DEF TypeOK
  <2>3. pos' \in 0..(MaxWrites * Units)
    BY <1>3, <1>5
  <2>4. got' \in Seq(Piece) /\ buf' \in Seq(Piece)
    BY <1>2, <1>3, <1>4
  <2> QED
    BY <2>1, <2>2, <2>3, <2>4 DEF TypeOK, Piece
<1>7. WriterInv'
  BY <1>3 DEF WriterInv, writerVars
<1>8. ReaderInv'
  BY <1>3, <1>5 DEF ReaderInv, writerVars
<1>9. NothingSkipped'
  <2>. SUFFICES ASSUME end' # "broken"
                PROVE  got' \o buf' = PiecesUpTo(Written) /\ Len(buf') < Units
    BY <1>3 DEF NothingSkipped, PiecesUpTo
  <2>1. got' = got \o SubSeq(b, 1, n) /\ end # "broken"
    BY <1>3
  <2>2. (got \o SubSeq(b, 1, n)) \o SubSeq(b, n + 1, Len(b))
        = got \o (SubSeq(b, 1, n) \o SubSeq(b, n + 1, Len(b)))
    <3>. DEFINE on   == SubSeq(b, 1, n)
                kept == SubSeq(b, n + 1, Len(b))
    <3>1. got \in Seq(Piece) /\ on \in Seq(Piece) /\ kept \in Seq(Piece)
      BY <1>2, <1>4
    <3>. HIDE DEF on, kept
    <3>2. (got \o on) \o kept = got \o (on \o kept)
      BY <3>1, ConcatAssociative
    <3> QED
      BY <3>2 DEF on, kept
  <2>3. got' \o buf' = PiecesUpTo(Written)
    BY <1>1, <1>2, <1>3, <2>1, <2>2, Zenon
  <2>4. Len(buf') < Units
    BY <1>1, <1>2, <1>3
  <2> QED
    BY <2>3, <2>4
<1> QED
  BY <1>6, <1>7, <1>8, <1>9

\* The look for the close file and the time-out end the iteration or not.
LEMMA CheckStep == ASSUME PumpInv, CheckClosed \/ TimeOut PROVE PumpInv'
<1>. USE DEF PumpInv
<1>1. /\ UNCHANGED <<writerVars, pos, buf, got, fresh>>
      /\ reader # "ended"
      /\ \/ reader' = "looking" /\ end' = end
         \/ reader' = "ended" /\ (end' = "timeout" \/ (end' = "eof" /\ closed))
  BY DEF CheckClosed, TimeOut, EndWith
<1>2. TypeOK'
  BY <1>1 DEF TypeOK, writerVars, Piece
<1>3. WriterInv'
  BY <1>1 DEF WriterInv, writerVars
<1>4. ReaderInv'
  BY <1>1 DEF ReaderInv, Written, writerVars
<1>5. end # "broken" /\ NothingSkipped'
  BY <1>1 DEF ReaderInv, NothingSkipped, PiecesUpTo
<1> QED
  BY <1>2, <1>3, <1>4, <1>5

\* The inductive invariant: the reader has sent on or kept the first pos pieces,
\* of a file that only grows.
THEOREM Invariant == Spec => []PumpInv
<1>1. PumpInv /\ [Next]_vars => PumpInv'
  <2>1. ASSUME PumpInv, UNCHANGED vars PROVE PumpInv'
    BY <2>1 DEF PumpInv, TypeOK, WriterInv, ReaderInv, NothingSkipped, vars, Written, PiecesUpTo,
       Piece
  <2> QED
    BY <2>1, WriterStep, LookStep, CheckStep DEF Next
<1> QED
  BY PumpInit, <1>1, PTL DEF Spec

\* Every variable keeps its type.
THEOREM Typing == Spec => []TypeOK
<1>1. PumpInv => TypeOK
  BY DEF PumpInv
<1> QED
  BY Invariant, <1>1, PTL

\* What is read is sent on or kept, and no more than part of a write is kept,
\* however reads cut the writes.
THEOREM Gapless == Spec => []NothingSkipped
<1>1. PumpInv => NothingSkipped
  BY DEF PumpInv
<1> QED
  BY Invariant, <1>1, PTL

-----------------------------------------------------------------------------
\* How the iteration ended, as ByteStream sees it.
Ended == CASE end = "open" -> "open"
           [] end = "eof" /\ got = PiecesUpTo(Written) -> "complete"
           [] OTHER -> "cut"

\* A piece that becomes visible is written; a write that begins is not seen.
LEMMA WriterRefines ==
  ASSUME PumpInv, BeginWrite \/ WritePiece \/ CloseFile \/ WriterStops
  PROVE  [Promise!Next]_Promise!vars
<1>. USE DEF PumpInv
<1>1. UNCHANGED readerVars
  BY DEF BeginWrite, WritePiece, CloseFile, WriterStops
<1>2. Written \in 0..(MaxWrites * Units) /\ Written' \in 0..(MaxWrites * Units)
  BY WriterStep, WrittenBounds, PumpAssumption
<1>3. CASE Written' = Written
  <2>1. UNCHANGED <<PiecesUpTo(Written), got, Ended>>
    BY <1>1, <1>3 DEF readerVars, Ended, PiecesUpTo
  <2>2. closed' = closed \/ (~closed /\ closed' = TRUE)
    BY DEF BeginWrite, WritePiece, CloseFile, WriterStops, WriterInv
  <2> QED
    BY <2>1, <2>2 DEF Promise!Next, Promise!Finish, Promise!vars, Ended
<1>4. CASE WritePiece
  <2>1. ~closed /\ closed' = closed /\ Written' = Written + 1
    <3>1. unwritten' = unwritten - 1 /\ writes' = writes /\ ~closed /\ closed' = closed
      BY <1>4 DEF WritePiece, WriterInv
    <3>2. writes * Units \in Nat /\ unwritten \in Nat
      BY PumpAssumption, OneMoreChunk DEF TypeOK
    <3> QED
      BY <3>1, <3>2 DEF Written
  <2>2. PiecesUpTo(Written)' = Append(PiecesUpTo(Written), Written + 1)
    BY <1>2, <2>1, AppendPiece DEF PiecesUpTo
  <2>3. Written + 1 \in Piece
    BY <1>2, <2>1, WrittenBounds DEF Piece
  <2>4. UNCHANGED <<got, Ended>>
    <3>1. end # "eof"
      BY <2>1 DEF ReaderInv
    <3> QED
      BY <1>1, <3>1 DEF readerVars, Ended
  <2>5. Promise!Write
    BY <2>1, <2>2, <2>3, <2>4 DEF Promise!Write, Ended
  <2> QED
    BY <2>5 DEF Promise!Next
<1>5. CASE BeginWrite
  <2>1. writes' * Units = writes * Units + Units /\ writes * Units \in Nat
    BY <1>5, PumpAssumption, OneMoreChunk DEF BeginWrite, TypeOK
  <2>2. Written' = Written
    BY <1>5, <2>1, PumpAssumption DEF BeginWrite, WriterInv, Written
  <2> QED
    BY <1>3, <2>2
<1>6. CASE CloseFile \/ WriterStops
  <2>1. Written' = Written
    BY <1>6 DEF CloseFile, WriterStops, Written
  <2> QED
    BY <1>3, <2>1
<1> QED
  BY <1>4, <1>5, <1>6

\* A look delivers, or breaks the stream off.
LEMMA LookRefines == ASSUME PumpInv, Look PROVE [Promise!Next]_Promise!vars
<1>. USE DEF PumpInv
<1>1. /\ end = "open" /\ UNCHANGED writerVars
      /\ end' = "open" \/ (end' = "broken" /\ got' = got)
  BY DEF Look, EndWith, ReaderInv
<1>2. Written' = Written /\ PiecesUpTo(Written)' = PiecesUpTo(Written) /\ closed' = closed
  BY <1>1 DEF Written, writerVars, PiecesUpTo
<1>3. CASE end' = "broken" /\ got' = got
  <2>1. Ended = "open" /\ Ended' = "cut"
    BY <1>1, <1>3 DEF Ended
  <2> QED
    BY <1>2, <1>3, <2>1 DEF Promise!Next, Promise!Cut, Ended
<1>4. CASE end' = "open"
  <2>1. Ended = "open" /\ Ended' = "open"
    BY <1>1, <1>4 DEF Ended
  <2>2. \E n \in Len(got)..Len(PiecesUpTo(Written)) : got' = SubSeq(PiecesUpTo(Written), 1, n)
    <3>1. Written \in Nat /\ Len(PiecesUpTo(Written)) = Written
      BY WrittenBounds, FirstPieces DEF PiecesUpTo
    <3>2. PumpInv' /\ pos' = Written
      BY LookStep DEF Look
    <3>3. /\ got' \in Seq(Nat) /\ buf' \in Seq(Nat)
          /\ got' \o buf' = PiecesUpTo(Written)
      <4>1. got' \in Seq(Piece) /\ buf' \in Seq(Piece) /\ Piece \subseteq Nat
        BY <3>2 DEF TypeOK, Piece
      <4> QED
        BY <1>4, <3>2, <4>1, SeqMonotonic DEF NothingSkipped, PiecesUpTo
    <3>4. Len(got') \in 0..Written /\ got' = SubSeq(PiecesUpTo(Written), 1, Len(got'))
      BY <3>1, <3>3, PartIsPrefix DEF PiecesUpTo
    <3>5. Len(got) <= Len(got')
      <4>1. buf \o Unread \in Seq(Piece) /\ got \in Seq(Piece)
        BY LookReadsAll DEF TypeOK
      <4>2. PICK n \in 0..Len(buf \o Unread) : got' = got \o SubSeq(buf \o Unread, 1, n)
        BY <1>4, <4>1, DeliverableBounds DEF Look, EndWith, TypeOK
      <4>3. SubSeq(buf \o Unread, 1, n) \in Seq(Piece)
        BY <4>1, CutInTwo
      <4>4. Len(got') = Len(got) + Len(SubSeq(buf \o Unread, 1, n))
        BY <4>1, <4>2, <4>3, ConcatProperties
      <4>5. Len(got) \in Nat /\ Len(SubSeq(buf \o Unread, 1, n)) \in Nat
        BY <4>1, <4>3, LenProperties
      <4> QED
        BY <4>4, <4>5
    <3>6. Len(got') \in Len(got)..Len(PiecesUpTo(Written))
      <4>1. Len(got) \in Nat
        BY LenProperties DEF TypeOK
      <4> QED
        BY <3>1, <3>4, <3>5, <4>1
    <3> QED
      BY <3>4, <3>6
  <2> QED
    BY <1>2, <2>1, <2>2 DEF Promise!Next, Promise!Deliver, Ended
<1> QED
  BY <1>1, <1>3, <1>4

\* An end of file is complete or a cut, a time-out is a cut.
LEMMA CheckRefines == ASSUME PumpInv, CheckClosed \/ TimeOut PROVE [Promise!Next]_Promise!vars
<1>. USE DEF PumpInv
<1>1. /\ UNCHANGED <<writerVars, got>>
      /\ end = "open"
      /\ end' = "open" \/ end' = "timeout" \/ (end' = "eof" /\ closed)
  BY DEF CheckClosed, TimeOut, EndWith, ReaderInv
<1>2. PiecesUpTo(Written)' = PiecesUpTo(Written) /\ closed' = closed
  BY <1>1 DEF Written, writerVars, PiecesUpTo
<1>3. Ended = "open"
  BY <1>1 DEF Ended
<1>4. CASE end' = "open"
  BY <1>1, <1>2, <1>3, <1>4 DEF Promise!vars, Ended
<1>5. CASE end' # "open"
  <2>1. \/ Ended' = "cut"
        \/ Ended' = "complete" /\ closed /\ got = PiecesUpTo(Written)
    BY <1>1, <1>2, <1>5 DEF Ended
  <2> QED
    BY <1>1, <1>2, <1>3, <2>1 DEF Promise!Next, Promise!Cut, Promise!Complete, Ended
<1> QED
  BY <1>4, <1>5

\* One direction of a tunnel implements the abstract byte stream.
THEOREM Refinement == Spec => ImplementsByteStream
<1>1. Init => Promise!Init
  <2>. SUFFICES ASSUME Init PROVE Promise!Init
    OBVIOUS
  <2>1. Written = 0 /\ Len(PiecesUpTo(0)) = 0 /\ PiecesUpTo(0) \in Seq(Nat)
    BY PumpAssumption, FirstPieces, OneMoreChunk DEF Init, Written, PiecesUpTo
  <2>2. PiecesUpTo(Written) = <<>>
    BY <2>1
  <2> QED
    BY <2>2 DEF Init, Promise!Init
<1>2. PumpInv /\ [Next]_vars => [Promise!Next]_Promise!vars
  <2>1. ASSUME UNCHANGED vars PROVE UNCHANGED Promise!vars
    BY <2>1 DEF vars, Promise!vars, Written, PiecesUpTo
  <2> QED
    BY <2>1, WriterRefines, LookRefines, CheckRefines DEF Next
<1> QED
  BY <1>1, <1>2, Invariant, PTL DEF Spec, ImplementsByteStream, Promise!Spec
=============================================================================
