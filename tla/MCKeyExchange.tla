---------------------------- MODULE MCKeyExchange ----------------------------
(***************************************************************************)
(* Both processes of the host and one of the VM, for TLC; the server is    *)
(* started with every combination of flags and file entries that differ.   *)
(***************************************************************************)
EXTENDS KeyExchange, TLC

CONSTANTS server, relay, client, flagSecret, fileSecret

AutoFlag == [auto |-> TRUE, secret |-> Absent, fileAuto |-> Absent, fileSecret |-> Absent]

MCOptionsOf ==
  server :> {AutoFlag,
             [AutoFlag EXCEPT !.fileSecret = fileSecret],
             [AutoFlag EXCEPT !.auto = FALSE, !.fileAuto = TRUE],
             [AutoFlag EXCEPT !.auto = FALSE, !.secret = flagSecret, !.fileSecret = NoText],
             [AutoFlag EXCEPT !.auto = FALSE, !.secret = flagSecret, !.fileSecret = fileSecret],
             [AutoFlag EXCEPT !.auto = FALSE, !.secret = NoText, !.fileSecret = fileSecret],
             [AutoFlag EXCEPT !.auto = FALSE, !.fileSecret = fileSecret]} @@
  relay :> {AutoFlag} @@ client :> {AutoFlag}
=============================================================================
