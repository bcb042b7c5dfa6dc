----------------------------- MODULE KeyExchange -----------------------------
(***************************************************************************)
(* How the processes on a bridge directory come to their encryption: what  *)
(* command line and configuration file ask for, and, for --auto-encrypt,   *)
(* the exchange of public keys through files.  Processes start, stop and   *)
(* start again; their key files stay.  Both processes on the host write    *)
(* the same host.pub, by way of the same host.tmp, and likewise in the VM. *)
(*                                                                         *)
(* virtio_bridge/crypto.py  DHKeyExchange                                  *)
(* virtio_bridge/cli.py     _resolve_crypto, _apply_config_if_present      *)
(* virtio_bridge/config.py  apply_config                                   *)
(*                                                                         *)
(* A key pair is a process and a number; the secret two processes share is *)
(* the set of their public keys, each the pair's own with the one it read. *)
(***************************************************************************)
EXTENDS Naturals, FiniteSets

CONSTANTS
  Procs,      \* the processes: server, tcp-relay, client, socks
  Hosts,      \* those on the host; the others run in the VM
  Rekeying,   \* those that call check_peer_key_changed, as nothing in src/ does
  OptionsOf,  \* [Procs -> set of options], see Options
  Secrets,    \* passphrases
  NoText,     \* the empty one
  NoFile,     \* a key file that is not there
  Empty,      \* one that is shorter than a key
  Absent,     \* an option that is not given; no key, no encryption
  MaxKeys     \* how many key pairs one process makes

\* auto, secret: the command line's flags; fileAuto, fileSecret: the
\* configuration file's entries.  An empty passphrase is none.
Options == [auto : BOOLEAN, secret : Secrets \cup {NoText, Absent},
            fileAuto : BOOLEAN \cup {Absent}, fileSecret : Secrets \cup {NoText, Absent}]

Keys == Procs \X (1..MaxKeys)
Shared == {{k, l} : k, l \in Keys}

ASSUME KeyAssumption ==
  /\ Hosts \subseteq Procs
  /\ Rekeying \subseteq Procs
  /\ \A p \in Procs : OptionsOf[p] \subseteq Options
  /\ MaxKeys \in Nat
  /\ Absent \notin BOOLEAN \cup Secrets \cup Keys \cup Shared
  /\ NoText # Absent /\ NoText \notin Secrets
  /\ {NoFile, Empty} \cap Keys = {}

VARIABLES
  phase,     \* [Procs -> ...] how far each process has got
  told,      \* [Procs -> ...] the options it was started with
  made,      \* [Procs -> Nat] key pairs it has made
  peer,      \* [Procs -> ...] the peer's key it goes by
  crypto,    \* [Procs -> ...] what it encrypts with
  handle,    \* [Procs -> ...] which name the file it has open goes by now
  rekeying,  \* [Procs -> BOOLEAN] it is in check_peer_key_changed
  tmp,       \* [Sides -> ...] contents of host.tmp and vm.tmp
  pub,       \* [Sides -> ...] contents of host.pub and vm.pub
  published  \* [Sides -> SUBSET Keys] history: keys that .pub file has held

fileVars == <<tmp, pub, published>>
vars == <<phase, told, made, peer, crypto, handle, rekeying, tmp, pub, published>>

Sides == {"host", "vm"}
Side(p) == IF p \in Hosts THEN "host" ELSE "vm"
PeerSide(p) == IF p \in Hosts THEN "vm" ELSE "host"

KeyOf(p) == <<p, made[p]>>

TypeOK ==
  /\ phase \in [Procs -> {"off", "opening", "writing", "renaming", "waiting", "ready", "exited"}]
  /\ told \in [Procs -> Options \cup {Absent}]
  /\ made \in [Procs -> 0..MaxKeys]
  /\ peer \in [Procs -> Keys \cup {Absent}]
  /\ crypto \in [Procs -> Shared \cup Secrets \cup {Absent}]
  /\ handle \in [Procs -> {"none", "tmp", "pub", "gone"}]
  /\ rekeying \in [Procs -> BOOLEAN]
  /\ tmp \in [Sides -> Keys \cup {NoFile, Empty}]
  /\ pub \in [Sides -> Keys \cup {NoFile, Empty}]
  /\ published \in [Sides -> SUBSET Keys]

Init ==
  /\ phase = [p \in Procs |-> "off"]
  /\ told = [p \in Procs |-> Absent]
  /\ made = [p \in Procs |-> 0]
  /\ peer = [p \in Procs |-> Absent]
  /\ crypto = [p \in Procs |-> Absent]
  /\ handle = [p \in Procs |-> "none"]
  /\ rekeying = [p \in Procs |-> FALSE]
  /\ tmp = [s \in Sides |-> NoFile]
  /\ pub = [s \in Sides |-> NoFile]
  /\ published = [s \in Sides |-> {}]

-----------------------------------------------------------------------------
(* Starting: the options.                                                  *)

\* Mutation: what the file says counts, whatever the command line says.
FileWins(flag, default, entry) == IF entry # Absent THEN entry ELSE flag

\* apply_config sets an option that is None or equal to the default in its
\* caller's list.  No caller lists secret or auto_encrypt: their default is
\* None there, and auto_encrypt, which is False without its flag, stays so.
ApplyConfig(flag, default, entry) ==
  IF entry # Absent /\ (flag = default \/ flag = Absent) THEN entry ELSE flag

Secret(o) == ApplyConfig(o.secret, Absent, o.fileSecret)
AutoEncrypt(o) == ApplyConfig(o.auto, Absent, o.fileAuto)
HasSecret(o) == Secret(o) \notin {NoText, Absent}

Start(p, o, there) ==
  /\ phase[p] = "off"
  /\ phase' = [phase EXCEPT ![p] = there]
  /\ told' = [told EXCEPT ![p] = o]
  /\ UNCHANGED <<peer, handle, rekeying, fileVars>>

\* _resolve_crypto: both are an error, a passphrase is a key, neither is
\* no encryption ...
StartPlainly(p) ==
  \E o \in OptionsOf[p] :
    /\ Start(p, o, IF HasSecret(o) /\ AutoEncrypt(o) THEN "exited" ELSE "ready")
    /\ HasSecret(o) \/ ~AutoEncrypt(o)
    /\ crypto' = [crypto EXCEPT ![p] =
                    IF HasSecret(o) /\ ~AutoEncrypt(o) THEN Secret(o) ELSE Absent]
    /\ UNCHANGED made

\* ... and auto_encrypt makes a key pair and goes on to negotiate.
StartNegotiating(p) ==
  \E o \in OptionsOf[p] :
    /\ Start(p, o, "opening")
    /\ ~HasSecret(o) /\ AutoEncrypt(o)
    /\ made[p] < MaxKeys
    /\ made' = [made EXCEPT ![p] = @ + 1]
    /\ UNCHANGED crypto

\* The process ends, of itself or not; its files stay.
Stop(p) ==
  /\ phase[p] # "off"
  /\ phase' = [phase EXCEPT ![p] = "off"]
  /\ told' = [told EXCEPT ![p] = Absent]
  /\ peer' = [peer EXCEPT ![p] = Absent]
  /\ crypto' = [crypto EXCEPT ![p] = Absent]
  /\ handle' = [handle EXCEPT ![p] = "none"]
  /\ rekeying' = [rekeying EXCEPT ![p] = FALSE]
  /\ UNCHANGED <<made, fileVars>>

-----------------------------------------------------------------------------
(* Publishing a key: write_bytes to the .tmp name, then rename.            *)

Go(p, here, there) ==
  /\ phase[p] = here
  /\ phase' = [phase EXCEPT ![p] = there]
  /\ rekeying' = [rekeying EXCEPT ![p] = @ /\ there # "ready"]
  /\ UNCHANGED told

\* write_bytes opens the file, new or another's, and truncates it ...
OpenTmp(p) ==
  /\ Go(p, "opening", "writing")
  /\ tmp' = [tmp EXCEPT ![Side(p)] = Empty]
  /\ handle' = [handle EXCEPT ![p] = "tmp"]
  /\ UNCHANGED <<made, peer, crypto, pub, published>>

\* ... and writes, whatever the open file is called by then.
WriteKey(p) ==
  /\ Go(p, "writing", "renaming")
  /\ handle' = [handle EXCEPT ![p] = "none"]
  /\ tmp' = IF handle[p] = "tmp" THEN [tmp EXCEPT ![Side(p)] = KeyOf(p)] ELSE tmp
  /\ IF handle[p] = "pub"
     THEN /\ pub' = [pub EXCEPT ![Side(p)] = KeyOf(p)]
          /\ published' = [published EXCEPT ![Side(p)] = @ \cup {KeyOf(p)}]
     ELSE UNCHANGED <<pub, published>>
  /\ UNCHANGED <<made, peer, crypto>>

\* rename, which takes along whoever has the .tmp file open.  In
\* check_peer_key_changed the new key is derived right after it.
Rename(p) ==
  /\ Go(p, "renaming", IF rekeying[p] THEN "ready" ELSE "waiting")
  /\ tmp[Side(p)] # NoFile
  /\ pub' = [pub EXCEPT ![Side(p)] = tmp[Side(p)]]
  /\ tmp' = [tmp EXCEPT ![Side(p)] = NoFile]
  /\ published' = [published EXCEPT ![Side(p)] = @ \cup ({tmp[Side(p)]} \cap Keys)]
  /\ handle' = [q \in Procs |-> CASE Side(q) = Side(p) /\ handle[q] = "tmp" -> "pub"
                                  [] Side(q) = Side(p) /\ handle[q] = "pub" -> "gone"
                                  [] OTHER -> handle[q]]
  /\ crypto' = IF rekeying[p] THEN [crypto EXCEPT ![p] = {KeyOf(p), peer[p]}] ELSE crypto
  /\ UNCHANGED <<made, peer>>

\* Another process has renamed the file away: FileNotFoundError, which ends
\* the process.
RenameFails(p) ==
  /\ Go(p, "renaming", "exited")
  /\ tmp[Side(p)] = NoFile
  /\ UNCHANGED <<made, peer, crypto, handle, fileVars>>

-----------------------------------------------------------------------------
(* Reading the peer's key.                                                 *)

\* Mutation: the length of what is read is not looked at.
SeeAnything(p) ==
  /\ Go(p, "waiting", "ready")
  /\ pub[PeerSide(p)] # NoFile
  /\ peer' = [peer EXCEPT ![p] = pub[PeerSide(p)]]
  /\ crypto' = [crypto EXCEPT ![p] = {KeyOf(p), pub[PeerSide(p)]}]
  /\ UNCHANGED <<made, handle, fileVars>>

\* Mutation: the process reads the file of its own side.
SeeOwn(p) ==
  /\ Go(p, "waiting", "ready")
  /\ pub[Side(p)] \in Keys
  /\ peer' = [peer EXCEPT ![p] = pub[Side(p)]]
  /\ crypto' = [crypto EXCEPT ![p] = {KeyOf(p), pub[Side(p)]}]
  /\ UNCHANGED <<made, handle, fileVars>>

\* Mutation: a key that has been read is taken away.
SeePeerOnce(p) ==
  /\ Go(p, "waiting", "ready")
  /\ pub[PeerSide(p)] \in Keys
  /\ peer' = [peer EXCEPT ![p] = pub[PeerSide(p)]]
  /\ crypto' = [crypto EXCEPT ![p] = {KeyOf(p), pub[PeerSide(p)]}]
  /\ pub' = [pub EXCEPT ![PeerSide(p)] = NoFile]
  /\ UNCHANGED <<made, handle, tmp, published>>

\* negotiate finds a key of 32 bytes, this peer's or an earlier one's.
SeePeer(p) ==
  /\ Go(p, "waiting", "ready")
  /\ pub[PeerSide(p)] \in Keys
  /\ peer' = [peer EXCEPT ![p] = pub[PeerSide(p)]]
  /\ crypto' = [crypto EXCEPT ![p] = {KeyOf(p), pub[PeerSide(p)]}]
  /\ UNCHANGED <<made, handle, fileVars>>

\* Mutation: a wait that ends without a key goes on as if it had one.
TimeOutUnnoticed(p) ==
  /\ Go(p, "waiting", "ready")
  /\ crypto' = [crypto EXCEPT ![p] = {KeyOf(p), peer[p]}]
  /\ UNCHANGED <<made, peer, handle, fileVars>>

\* TimeoutError after 30s, which ends the process.
TimeOut(p) ==
  /\ Go(p, "waiting", "exited")
  /\ UNCHANGED <<made, peer, crypto, handle, fileVars>>

\* check_peer_key_changed: another key in the peer's file is taken over and
\* answered with a new key pair.
Rekey(p) ==
  /\ phase[p] = "ready" /\ peer[p] # Absent
  /\ p \in Rekeying
  /\ pub[PeerSide(p)] \in Keys \ {peer[p]}
  /\ made[p] < MaxKeys
  /\ made' = [made EXCEPT ![p] = @ + 1]
  /\ peer' = [peer EXCEPT ![p] = pub[PeerSide(p)]]
  /\ rekeying' = [rekeying EXCEPT ![p] = TRUE]
  /\ phase' = [phase EXCEPT ![p] = "opening"]
  /\ UNCHANGED <<told, crypto, handle, fileVars>>

-----------------------------------------------------------------------------
Step(p) ==
  \/ OpenTmp(p) \/ WriteKey(p) \/ Rename(p) \/ RenameFails(p) \/ SeePeer(p)

Next == \E p \in Procs :
  StartPlainly(p) \/ StartNegotiating(p) \/ Stop(p) \/ Step(p) \/ TimeOut(p) \/ Rekey(p)

Spec == Init /\ [][Next]_vars

\* A process that runs goes on; nobody need start one, stop one or rekey.
FairSpec == Spec /\ \A p \in Procs : WF_vars(Step(p))

-----------------------------------------------------------------------------
(* What the key exchange is checked for.                                   *)

Ready(p) == phase[p] = "ready" /\ peer[p] # Absent

\* Whatever the two processes of one side do to their common files: a key
\* that a process goes by is a whole key, made by a process of the other side.
PeerKeyIsPeers ==
  \A p \in Procs : peer[p] # Absent =>
    \E q \in Procs : /\ Side(q) = PeerSide(p)
                     /\ \E n \in 1..made[q] : peer[p] = <<q, n>>

\* Two processes whose keys are the only ones their files have ever held share
\* a secret as soon as both are ready, in whatever order they started.  (With
\* a third process, or after a restart, they need not.)
AgreeAtFirst ==
  \A p \in Hosts, q \in Procs \ Hosts :
    /\ Ready(p) /\ published["host"] = {KeyOf(p)}
    /\ Ready(q) /\ published["vm"] = {KeyOf(q)}
    => crypto[p] = crypto[q]

\* A process told by its flags, or of a passphrase by its file, to encrypt
\* does not run without; and a passphrase on its command line is the one it
\* uses.  (auto_encrypt in the file is never heeded, and an empty passphrase on
\* the command line turns the file's off.)
FlagsEncrypt ==
  \A p \in Procs : phase[p] = "ready" =>
    /\ (\/ told[p].auto
        \/ told[p].secret \in Secrets
        \/ told[p].secret = Absent /\ told[p].fileSecret \in Secrets) => crypto[p] # Absent
    /\ told[p].secret \in Secrets => crypto[p] = told[p].secret

\* A process that waits for its peer meets it, once the only process of the
\* other side has waited too, although that one stops or starts again.
MeetsSolePeer ==
  \A p, q \in Procs :
    (Side(q) = PeerSide(p) /\ {x \in Procs : Side(x) = Side(q)} = {q}) =>
      (phase[p] = "waiting" /\ phase[q] = "waiting") ~> phase[p] # "waiting"
=============================================================================
