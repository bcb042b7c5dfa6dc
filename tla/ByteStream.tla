----------------------------- MODULE ByteStream -----------------------------
(***************************************************************************)
(* What one direction of a relayed connection promises: the reader gets a  *)
(* prefix of what the writer wrote, in order and without gaps, and is told *)
(* "complete" only after the writer's end of stream and with all of it.    *)
(* A reader may also be cut off, by a timeout or by leaving.               *)
(***************************************************************************)
EXTENDS SequencesExt

CONSTANT Pieces   \* the pieces of data a stream is made of

VARIABLES
  sent,    \* what the writer has written
  fin,     \* the writer has signalled the end of the stream
  got,     \* what the reader has been given
  end      \* "open", "complete" or "cut": how the stream ended for the reader

vars == <<sent, fin, got, end>>

Init ==
  /\ sent = <<>>
  /\ fin = FALSE
  /\ got = <<>>
  /\ end = "open"

Write ==
  /\ ~fin
  /\ \E p \in Pieces : sent' = Append(sent, p)
  /\ UNCHANGED <<fin, got, end>>

Finish ==
  /\ ~fin
  /\ fin' = TRUE
  /\ UNCHANGED <<sent, got, end>>

Deliver ==
  /\ end = "open"
  /\ \E n \in Len(got)..Len(sent) : got' = SubSeq(sent, 1, n)
  /\ UNCHANGED <<sent, fin, end>>

\* Giving out the rest and reporting the end may be one step.
Complete ==
  /\ end = "open"
  /\ fin
  /\ got' = sent
  /\ end' = "complete"
  /\ UNCHANGED <<sent, fin>>

Cut ==
  /\ end = "open"
  /\ end' = "cut"
  /\ UNCHANGED <<sent, fin, got>>

Next == Write \/ Finish \/ Deliver \/ Complete \/ Cut

Spec == Init /\ [][Next]_vars
=============================================================================
