-------------------------- MODULE KeyExchange_proofs --------------------------
(***************************************************************************)
(* Theorems about KeyExchange, for any number of processes on either side, *)
(* of options and of restarts.                                             *)
(***************************************************************************)
EXTENDS KeyExchange, TLAPS

Negotiating == {"opening", "writing", "renaming", "waiting"}

\* k is a whole key, made by a process of side s.
MadeBy(s, k) == \E q \in Procs : Side(q) = s /\ \E n \in 1..made[q] : k = <<q, n>>

\* The key files of a side hold its keys only, and .pub only published ones.
FileInv ==
  \A s \in Sides :
    /\ tmp[s] \in Keys => MadeBy(s, tmp[s])
    /\ pub[s] \in Keys => MadeBy(s, pub[s]) /\ pub[s] \in published[s]

\* A process that negotiates has a key pair, and one that has read a key goes
\* by a published one of the other side.
PeerInv ==
  \A p \in Procs :
    /\ phase[p] \in Negotiating => made[p] \in 1..MaxKeys
    /\ peer[p] # Absent => /\ made[p] \in 1..MaxKeys
                           /\ MadeBy(PeerSide(p), peer[p])
                           /\ peer[p] \in published[PeerSide(p)]
    /\ rekeying[p] => peer[p] # Absent
    /\ phase[p] = "off" => peer[p] = Absent

\* Whoever has read a key encrypts with the secret of that and its own.
SecretInv ==
  \A p \in Procs : phase[p] = "ready" /\ peer[p] # Absent => crypto[p] = {KeyOf(p), peer[p]}

KeyInv == TypeOK /\ FileInv /\ PeerInv /\ SecretInv

Acts(p) == StartPlainly(p) \/ StartNegotiating(p) \/ Stop(p) \/ Step(p) \/ TimeOut(p) \/ Rekey(p)

-----------------------------------------------------------------------------
LEMMA SidesOf == \A p \in Procs : Side(p) \in Sides /\ PeerSide(p) \in Sides
  BY DEF Side, PeerSide, Sides

\* A key that is made remains so, for nobody's count goes down.
LEMMA KeysStay ==
  ASSUME TypeOK, [Next]_vars
  PROVE  \A s, k : MadeBy(s, k) => MadeBy(s, k)'
<1>1. \A q \in Procs : made[q] \in Nat /\ made'[q] \in Nat /\ made[q] <= made'[q]
  <2>1. CASE UNCHANGED vars
    BY <2>1 DEF TypeOK, vars
  <2>2. ASSUME NEW p \in Procs, Acts(p)
        PROVE  made' = made \/ made' = [made EXCEPT ![p] = @ + 1]
    BY <2>2 DEF Acts, Step, StartPlainly, StartNegotiating, Stop, OpenTmp, WriteKey, Rename,
                RenameFails, SeePeer, TimeOut, Rekey
  <2> QED
    BY <2>1, <2>2 DEF TypeOK, Next, Acts
<1>2. \A q : Side(q)' = Side(q)
  BY DEF Side
<1> QED
  BY <1>1, <1>2, SMTT(30) DEF MadeBy

\* A process that has a key pair has made it.
LEMMA OwnKey ==
  ASSUME TypeOK, NEW p \in Procs, made[p] \in 1..MaxKeys
  PROVE  KeyOf(p) \in Keys /\ MadeBy(Side(p), KeyOf(p))
  BY KeyAssumption DEF TypeOK, KeyOf, Keys, MadeBy

-----------------------------------------------------------------------------
\* Every variable keeps its type.
LEMMA TypeStep == ASSUME KeyInv, [Next]_vars PROVE TypeOK'
<1>0. CASE UNCHANGED vars
  BY <1>0 DEF KeyInv, TypeOK, vars
<1>. USE SidesOf DEF KeyInv
<1>1. ASSUME NEW p \in Procs, StartPlainly(p) PROVE TypeOK'
  <2>1. PICK o \in OptionsOf[p] :
          /\ Start(p, o, IF HasSecret(o) /\ AutoEncrypt(o) THEN "exited" ELSE "ready")
          /\ crypto' = [crypto EXCEPT ![p] =
                          IF HasSecret(o) /\ ~AutoEncrypt(o) THEN Secret(o) ELSE Absent]
          /\ UNCHANGED made
    BY <1>1 DEF StartPlainly
  <2>2. o \in Options
    BY KeyAssumption
  <2>3. HasSecret(o) => Secret(o) \in Secrets
    BY <2>2 DEF HasSecret, Secret, ApplyConfig, Options
  <2>4. crypto' \in [Procs -> Shared \cup Secrets \cup {Absent}]
    BY <2>1, <2>3 DEF TypeOK
  <2> QED
    BY <2>1, <2>2, <2>4 DEF TypeOK, Start, fileVars
<1>2. ASSUME NEW p \in Procs, StartNegotiating(p) PROVE TypeOK'
  BY <1>2, KeyAssumption DEF TypeOK, StartNegotiating, Start, fileVars
<1>3. ASSUME NEW p \in Procs, Stop(p) PROVE TypeOK'
  BY <1>3 DEF TypeOK, Stop, fileVars
<1>4. ASSUME NEW p \in Procs, OpenTmp(p) PROVE TypeOK'
  BY <1>4 DEF TypeOK, OpenTmp, Go
<1>5. ASSUME NEW p \in Procs, WriteKey(p) PROVE TypeOK'
  <2>1. KeyOf(p) \in Keys
    BY <1>5, OwnKey DEF WriteKey, Go, PeerInv, Negotiating
  <2> QED
    BY <1>5, <2>1 DEF TypeOK, WriteKey, Go
<1>6. ASSUME NEW p \in Procs, Rename(p) PROVE TypeOK'
  <2>1. handle' \in [Procs -> {"none", "tmp", "pub", "gone"}]
    BY <1>6 DEF TypeOK, Rename
  <2>2. crypto' \in [Procs -> Shared \cup Secrets \cup {Absent}]
    <3>1. CASE rekeying[p]
      <4>1. KeyOf(p) \in Keys /\ peer[p] \in Keys
        BY <1>6, <3>1, OwnKey DEF Rename, Go, PeerInv, Negotiating, TypeOK
      <4>2. {KeyOf(p), peer[p]} \in Shared
        BY <4>1 DEF Shared
      <4> QED
        BY <1>6, <3>1, <4>2 DEF Rename, TypeOK
    <3> QED
      BY <1>6, <3>1 DEF Rename, TypeOK
  <2>3. /\ pub' \in [Sides -> Keys \cup {NoFile, Empty}]
        /\ tmp' \in [Sides -> Keys \cup {NoFile, Empty}]
        /\ published' \in [Sides -> SUBSET Keys]
    BY <1>6 DEF TypeOK, Rename
  <2> QED
    BY <1>6, <2>1, <2>2, <2>3 DEF TypeOK, Rename, Go
<1>7. ASSUME NEW p \in Procs, RenameFails(p) \/ TimeOut(p) PROVE TypeOK'
  BY <1>7 DEF TypeOK, RenameFails, TimeOut, Go, fileVars
<1>8. ASSUME NEW p \in Procs, SeePeer(p) PROVE TypeOK'
  <2>1. KeyOf(p) \in Keys /\ pub[PeerSide(p)] \in Keys
    BY <1>8, OwnKey DEF SeePeer, Go, PeerInv, Negotiating
  <2>2. {KeyOf(p), pub[PeerSide(p)]} \in Shared
    BY <2>1 DEF Shared
  <2> QED
    BY <1>8, <2>1, <2>2 DEF TypeOK, SeePeer, Go, fileVars
<1>9. ASSUME NEW p \in Procs, Rekey(p) PROVE TypeOK'
  BY <1>9, KeyAssumption DEF TypeOK, Rekey, fileVars
<1> QED
  BY <1>0, <1>1, <1>2, <1>3, <1>4, <1>5, <1>6, <1>7, <1>8, <1>9 DEF Next, Step

\* What a key file holds is put there by WriteKey, of its writer's key, or by
\* Rename, of what the other file held.
LEMMA FileStep == ASSUME KeyInv, [Next]_vars PROVE FileInv'
<1>. USE SidesOf DEF KeyInv
<1>0. \A s, k : MadeBy(s, k) => MadeBy(s, k)'
  BY KeysStay
<1>1. CASE UNCHANGED <<tmp, pub, published>>
  BY <1>0, <1>1 DEF FileInv
<1>2. ASSUME NEW p \in Procs, OpenTmp(p) PROVE FileInv'
  BY <1>0, <1>2, KeyAssumption DEF FileInv, OpenTmp, TypeOK
<1>3. ASSUME NEW p \in Procs, WriteKey(p) PROVE FileInv'
  <2>1. MadeBy(Side(p), KeyOf(p))'
    BY <1>0, <1>3, OwnKey DEF WriteKey, Go, PeerInv, Negotiating, KeyOf
  <2>. /\ tmp \in [Sides -> Keys \cup {NoFile, Empty}]
       /\ pub \in [Sides -> Keys \cup {NoFile, Empty}]
       /\ published \in [Sides -> SUBSET Keys]
       /\ Side(p) \in Sides
    BY DEF TypeOK
  <2>2. \A s \in Sides : tmp'[s] = tmp[s] \/ (s = Side(p) /\ tmp'[s] = KeyOf(p))
    BY <1>3 DEF WriteKey
  <2>3. \A s \in Sides :
          /\ \/ pub'[s] = pub[s]
             \/ s = Side(p) /\ pub'[s] = KeyOf(p) /\ KeyOf(p) \in published'[s]
          /\ published[s] \subseteq published'[s]
    <3>1. CASE handle[p] = "pub"
      <4>1. /\ pub' = [pub EXCEPT ![Side(p)] = KeyOf(p)]
            /\ published' = [published EXCEPT ![Side(p)] = @ \cup {KeyOf(p)}]
        BY <1>3, <3>1 DEF WriteKey
      <4> QED
        BY <4>1
    <3>2. CASE handle[p] # "pub"
      BY <1>3, <3>2 DEF WriteKey
    <3> QED
      BY <3>1, <3>2
  <2>4. KeyOf(p)' = KeyOf(p)
    BY <1>3 DEF WriteKey, KeyOf
  <2> QED
    BY <1>0, <2>1, <2>2, <2>3, <2>4 DEF FileInv
<1>4. ASSUME NEW p \in Procs, Rename(p) PROVE FileInv'
  <2>1. \A s \in Sides : tmp'[s] = tmp[s] \/ tmp'[s] = NoFile
    BY <1>4 DEF Rename, TypeOK
  <2>2. \A s \in Sides :
          /\ \/ pub'[s] = pub[s]
             \/ pub'[s] = tmp[s] /\ (tmp[s] \in Keys => tmp[s] \in published'[s])
          /\ published[s] \subseteq published'[s]
    BY <1>4 DEF Rename, TypeOK
  <2> QED
    BY <1>0, <2>1, <2>2, KeyAssumption DEF FileInv
<1>5. ASSUME NEW p \in Procs, ~OpenTmp(p), ~WriteKey(p), ~Rename(p), Acts(p)
      PROVE  UNCHANGED <<tmp, pub, published>>
  BY <1>5 DEF Acts, Step, StartPlainly, StartNegotiating, Start, Stop, RenameFails, SeePeer,
              TimeOut, Rekey, fileVars
<1> QED
  BY <1>1, <1>2, <1>3, <1>4, <1>5 DEF Next, Acts, vars

\* Published keys stay published.
LEMMA PublishedStay ==
  ASSUME KeyInv, [Next]_vars
  PROVE  \A s \in Sides : published[s] \subseteq published'[s]
<1>1. ASSUME NEW p \in Procs, WriteKey(p) \/ Rename(p)
      PROVE  \A s \in Sides : published[s] \subseteq published'[s]
  <2>1. published \in [Sides -> SUBSET Keys] /\ Side(p) \in Sides
    BY SidesOf DEF KeyInv, TypeOK
  <2>2. \/ published' = published
        \/ published' = [published EXCEPT ![Side(p)] = @ \cup {KeyOf(p)}]
        \/ published' = [published EXCEPT ![Side(p)] = @ \cup ({tmp[Side(p)]} \cap Keys)]
    BY <1>1 DEF WriteKey, Rename
  <2> QED
    BY <2>1, <2>2
<1>2. ASSUME NEW p \in Procs, Acts(p), ~WriteKey(p), ~Rename(p) PROVE published' = published
  BY <1>2 DEF Acts, Step, StartPlainly, StartNegotiating, Start, Stop, OpenTmp, RenameFails,
              SeePeer, TimeOut, Rekey, fileVars
<1> QED
  BY <1>1, <1>2 DEF Next, Acts, vars

\* What moves a process moves no other.
LEMMA OthersStay ==
  ASSUME KeyInv, NEW p \in Procs, Acts(p), NEW q \in Procs, q # p
  PROVE  UNCHANGED <<phase[q], told[q], made[q], peer[q], crypto[q], rekeying[q]>>
<1>1. UNCHANGED <<phase[q], told[q], made[q], peer[q]>>
  BY DEF KeyInv, TypeOK, Acts, Step, StartPlainly, StartNegotiating, Start, Stop, OpenTmp, WriteKey,
         Rename, RenameFails, SeePeer, TimeOut, Rekey, Go
<1>2. UNCHANGED <<crypto[q], rekeying[q]>>
  BY DEF KeyInv, TypeOK, Acts, Step, StartPlainly, StartNegotiating, Start, Stop, OpenTmp, WriteKey,
         Rename, RenameFails, SeePeer, TimeOut, Rekey, Go
<1> QED
  BY <1>1, <1>2

\* A process gets a key from the other side's .pub file, and loses it when it
\* stops; it has a key pair whenever it is about to need one.
LEMMA PeerStep == ASSUME KeyInv, [Next]_vars PROVE PeerInv'
<1>. USE SidesOf DEF KeyInv
<1>1. CASE UNCHANGED vars
  BY <1>1, KeysStay DEF PeerInv, vars
<1>2. ASSUME NEW p \in Procs, Acts(p) PROVE PeerInv'
  <2>0. TypeOK'
    BY TypeStep
  <2>1. /\ \A s, k : MadeBy(s, k) => MadeBy(s, k)'
        /\ \A s \in Sides : published[s] \subseteq published'[s]
    BY KeysStay, PublishedStay
  <2>2. \A q \in Procs : q # p => UNCHANGED <<phase[q], made[q], peer[q], rekeying[q]>>
    BY <1>2, OthersStay
  <2>3. phase'[p] \in Negotiating => made'[p] \in 1..MaxKeys
    BY <1>2, <2>0 DEF PeerInv, TypeOK, Negotiating, Acts, Step, StartPlainly, StartNegotiating, Start,
       Stop, OpenTmp, WriteKey, Rename, RenameFails, SeePeer, TimeOut, Rekey, Go
  <2>4. made'[p] \in 0..MaxKeys /\ made'[p] >= made[p]
    <3>1. CASE made' = made
      BY <3>1 DEF TypeOK
    <3>2. CASE made' = [made EXCEPT ![p] = @ + 1] /\ made[p] < MaxKeys
      BY <3>2, KeyAssumption DEF TypeOK
    <3> QED
      BY <1>2, <3>1, <3>2 DEF Acts, Step, StartPlainly, StartNegotiating, Stop, OpenTmp, WriteKey,
         Rename, RenameFails, SeePeer, TimeOut, Rekey
  <2>5. peer'[p] # Absent =>
          \/ peer'[p] = peer[p]
          \/ peer'[p] = pub[PeerSide(p)] /\ pub[PeerSide(p)] \in Keys /\ made'[p] > 0
    <3>1. CASE SeePeer(p)
      BY <3>1 DEF SeePeer, Go, PeerInv, Negotiating, TypeOK
    <3>2. CASE Rekey(p)
      BY <3>2, KeyAssumption DEF Rekey, TypeOK
    <3>3. CASE ~SeePeer(p) /\ ~Rekey(p)
      BY <1>2, <3>3 DEF Acts, Step, StartPlainly, StartNegotiating, Start, Stop, OpenTmp, WriteKey,
         Rename, RenameFails, TimeOut, TypeOK
    <3> QED
      BY <3>1, <3>2, <3>3
  <2>6. ASSUME NEW k, k = peer'[p], k # Absent
        PROVE  made'[p] \in 1..MaxKeys /\ MadeBy(PeerSide(p), k)' /\ k \in published'[PeerSide(p)]
    <3>1. MadeBy(PeerSide(p), k) /\ k \in published[PeerSide(p)] /\ made'[p] > 0
      <4>1. CASE k = peer[p]
        BY <2>4, <2>6, <4>1, KeyAssumption DEF PeerInv
      <4>2. CASE k = pub[PeerSide(p)] /\ pub[PeerSide(p)] \in Keys /\ made'[p] > 0
        BY <4>2 DEF FileInv
      <4> QED
        BY <2>5, <2>6, <4>1, <4>2
    <3>2. made'[p] \in 1..MaxKeys
      BY <2>4, <3>1, KeyAssumption
    <3>3. MadeBy(PeerSide(p), k)'
      BY <2>1, <3>1, SidesOf
    <3>4. k \in published'[PeerSide(p)]
      BY <2>1, <3>1, SidesOf
    <3> QED
      BY <3>2, <3>3, <3>4
  <2>7. /\ rekeying'[p] => peer'[p] # Absent
        /\ phase'[p] = "off" => peer'[p] = Absent
    BY <1>2, KeyAssumption DEF PeerInv, TypeOK, Negotiating, Acts, Step, StartPlainly,
       StartNegotiating, Start, Stop, OpenTmp, WriteKey, Rename, RenameFails, SeePeer, TimeOut,
       Rekey, Go
  <2>8. \A q \in Procs : \A k : peer'[q] = k /\ k # Absent =>
          made'[q] \in 1..MaxKeys /\ MadeBy(PeerSide(q), k)' /\ k \in published'[PeerSide(q)]
    <3>. SUFFICES ASSUME NEW q \in Procs, NEW k, peer'[q] = k, k # Absent
                  PROVE  /\ made'[q] \in 1..MaxKeys
                         /\ MadeBy(PeerSide(q), k)'
                         /\ k \in published'[PeerSide(q)]
      OBVIOUS
    <3>1. CASE q = p
      BY <2>6, <3>1
    <3>2. CASE q # p
      BY <2>1, <2>2, <3>2 DEF PeerInv
    <3> QED
      BY <3>1, <3>2
  <2>9. \A q \in Procs : /\ phase'[q] \in Negotiating => made'[q] \in 1..MaxKeys
                         /\ rekeying'[q] => peer'[q] # Absent
                         /\ phase'[q] = "off" => peer'[q] = Absent
    BY <2>2, <2>3, <2>7 DEF PeerInv
  <2> QED
    BY <2>8, <2>9 DEF PeerInv, MadeBy
<1> QED
  BY <1>1, <1>2 DEF Next, Acts

\* The secret is derived when the peer's key is read, or, in a rekeying, when
\* the new key is published; no key pair is made in between.
LEMMA SecretStep == ASSUME KeyInv, [Next]_vars PROVE SecretInv'
<1>. USE SidesOf DEF KeyInv
<1>1. CASE UNCHANGED vars
  BY <1>1 DEF SecretInv, KeyOf, vars
<1>2. ASSUME NEW p \in Procs, Acts(p) PROVE SecretInv'
  <2>1. \A q \in Procs : q # p => UNCHANGED <<phase[q], made[q], peer[q], crypto[q]>>
    BY <1>2, OthersStay
  <2>2. phase'[p] = "ready" /\ peer'[p] # Absent => crypto'[p] = {<<p, made'[p]>>, peer'[p]}
    <3>1. CASE SeePeer(p)
      BY <3>1 DEF SeePeer, Go, KeyOf, TypeOK
    <3>2. CASE Rename(p)
      BY <3>2 DEF Rename, Go, KeyOf, TypeOK
    <3>3. CASE StartPlainly(p)
      BY <3>3 DEF StartPlainly, Start, PeerInv, TypeOK
    <3>4. CASE ~SeePeer(p) /\ ~Rename(p) /\ ~StartPlainly(p)
      <4>1. phase'[p] # "ready"
        BY <1>2, <3>4 DEF TypeOK, Acts, Step, StartNegotiating, Start, Stop, OpenTmp, WriteKey,
           RenameFails, TimeOut, Rekey, Go
      <4> QED
        BY <4>1
    <3> QED
      BY <3>1, <3>2, <3>3, <3>4
  <2>3. \A q \in Procs : phase'[q] = "ready" /\ peer'[q] # Absent =>
          crypto'[q] = {<<q, made'[q]>>, peer'[q]}
    BY <2>1, <2>2 DEF SecretInv, KeyOf
  <2> QED
    BY <2>3 DEF SecretInv, KeyOf
<1> QED
  BY <1>1, <1>2 DEF Next, Acts

\* Before anything is started, nobody has a key.
LEMMA KeyInit == Init => KeyInv
<1>. SUFFICES ASSUME Init PROVE KeyInv
  OBVIOUS
<1>1. TypeOK
  BY KeyAssumption DEF Init, TypeOK
<1>2. FileInv
  BY KeyAssumption DEF Init, FileInv
<1>3. PeerInv /\ SecretInv
  BY DEF Init, PeerInv, SecretInv, Negotiating
<1> QED
  BY <1>1, <1>2, <1>3 DEF KeyInv

\* The inductive invariant: what the key files hold, whose key a process goes
\* by and which secret it derives from it, over all starts, stops and restarts
\* of any number of processes.
THEOREM Invariant == Spec => []KeyInv
<1>1. KeyInv /\ [Next]_vars => KeyInv'
  BY TypeStep, FileStep, PeerStep, SecretStep DEF KeyInv
<1> QED
  BY KeyInit, <1>1, PTL DEF Spec

\* Every variable keeps its type: among others, no process ever derives a secret
\* from a file that is missing or cut short.
THEOREM Typing == Spec => []TypeOK
<1>1. KeyInv => TypeOK
  BY DEF KeyInv
<1> QED
  BY Invariant, <1>1, PTL

\* A key that a process goes by was made by a process of the other side, even
\* though all the processes of a side write the same two files.
THEOREM PeerKeys == Spec => []PeerKeyIsPeers
<1>1. KeyInv => PeerKeyIsPeers
  BY DEF KeyInv, PeerInv, MadeBy, PeerKeyIsPeers
<1> QED
  BY Invariant, <1>1, PTL

\* Two ready processes whose keys are the only ones ever published share a
\* secret: each can only have read the other's key.
THEOREM Agreement == Spec => []AgreeAtFirst
<1>1. ASSUME KeyInv PROVE AgreeAtFirst
  <2>. SUFFICES ASSUME NEW p \in Hosts, NEW q \in Procs \ Hosts,
                       Ready(p), published["host"] = {KeyOf(p)},
                       Ready(q), published["vm"] = {KeyOf(q)}
                PROVE  crypto[p] = crypto[q]
    BY DEF AgreeAtFirst
  <2>1. p \in Procs /\ q \in Procs /\ PeerSide(p) = "vm" /\ PeerSide(q) = "host"
    BY KeyAssumption DEF PeerSide
  <2>2. peer[p] = KeyOf(q) /\ peer[q] = KeyOf(p)
    BY <1>1, <2>1 DEF KeyInv, PeerInv, Ready
  <2>3. crypto[p] = {KeyOf(p), peer[p]} /\ crypto[q] = {KeyOf(q), peer[q]}
    BY <1>1, <2>1 DEF KeyInv, SecretInv, Ready
  <2> QED
    BY <2>2, <2>3
<1> QED
  BY Invariant, <1>1, PTL

-----------------------------------------------------------------------------
(* What the options ask for.                                               *)

\* Who has started has options; who negotiates has no passphrase; who runs
\* without having read a key uses the passphrase, if any.
ModeInv ==
  \A p \in Procs :
    /\ phase[p] # "off" => told[p] \in Options
    /\ phase[p] \in Negotiating \/ peer[p] # Absent => ~HasSecret(told[p])
    /\ phase[p] = "ready" /\ peer[p] = Absent =>
         IF HasSecret(told[p]) THEN crypto[p] = Secret(told[p]) ELSE ~AutoEncrypt(told[p])

\* The options stay while the process runs, and so does the encryption of one
\* that does not negotiate.
LEMMA ModeStep == ASSUME KeyInv, ModeInv, [Next]_vars PROVE ModeInv'
<1>. USE SidesOf DEF KeyInv
<1>1. CASE UNCHANGED vars
  BY <1>1 DEF ModeInv, HasSecret, Secret, AutoEncrypt, ApplyConfig, vars
<1>2. ASSUME NEW p \in Procs, Acts(p) PROVE ModeInv'
  <2>. DEFINE Fits(q, ph, o, k, c) ==
         /\ ph # "off" => o \in Options
         /\ ph \in Negotiating \/ k # Absent => ~HasSecret(o)
         /\ ph = "ready" /\ k = Absent =>
              IF HasSecret(o) THEN c = Secret(o) ELSE ~AutoEncrypt(o)
  <2>1. \A q \in Procs : Fits(q, phase[q], told[q], peer[q], crypto[q])
    BY DEF ModeInv
  <2>2. \A q \in Procs : q # p => UNCHANGED <<phase[q], told[q], peer[q], crypto[q]>>
    BY <1>2, OthersStay
  <2>3. Fits(p, phase'[p], told'[p], peer'[p], crypto'[p])
    <3>1. CASE StartPlainly(p)
      <4>1. PICK o \in OptionsOf[p] :
              /\ Start(p, o, IF HasSecret(o) /\ AutoEncrypt(o) THEN "exited" ELSE "ready")
              /\ HasSecret(o) \/ ~AutoEncrypt(o)
              /\ crypto' = [crypto EXCEPT ![p] =
                              IF HasSecret(o) /\ ~AutoEncrypt(o) THEN Secret(o) ELSE Absent]
        BY <3>1 DEF StartPlainly
      <4>2. /\ phase'[p] = IF HasSecret(o) /\ AutoEncrypt(o) THEN "exited" ELSE "ready"
            /\ told'[p] = o
            /\ crypto'[p] = IF HasSecret(o) /\ ~AutoEncrypt(o) THEN Secret(o) ELSE Absent
        BY <4>1 DEF Start, TypeOK
      <4>3. peer'[p] = Absent /\ o \in Options
        BY <4>1, KeyAssumption DEF Start, PeerInv
      <4> QED
        BY <4>1, <4>2, <4>3 DEF Negotiating
    <3>2. CASE StartNegotiating(p)
      <4>1. PICK o \in OptionsOf[p] : Start(p, o, "opening") /\ ~HasSecret(o)
        BY <3>2 DEF StartNegotiating
      <4>2. phase'[p] = "opening" /\ told'[p] = o /\ o \in Options
        BY <4>1, KeyAssumption DEF Start, TypeOK
      <4> QED
        BY <4>1, <4>2
    <3>3. CASE Stop(p)
      <4>1. phase'[p] = "off" /\ peer'[p] = Absent
        BY <3>3 DEF Stop, TypeOK
      <4> QED
        BY <4>1 DEF Negotiating
    <3>4. CASE SeePeer(p)
      <4>1. phase[p] = "waiting" /\ told' = told /\ peer'[p] # Absent
        BY <3>4, KeyAssumption DEF SeePeer, Go, TypeOK
      <4> QED
        BY <2>1, <4>1 DEF Negotiating
    <3>5. CASE Rekey(p)
      <4>1. phase[p] = "ready" /\ peer[p] # Absent /\ told' = told /\ phase'[p] = "opening"
        BY <3>5 DEF Rekey, TypeOK
      <4> QED
        BY <2>1, <4>1
    <3>6. CASE OpenTmp(p) \/ WriteKey(p) \/ Rename(p) \/ RenameFails(p) \/ TimeOut(p)
      <4>1. told' = told /\ peer' = peer /\ phase[p] \in Negotiating
        BY <3>6 DEF OpenTmp, WriteKey, Rename, RenameFails, TimeOut, Go, Negotiating
      <4>2. phase'[p] = "ready" => peer[p] # Absent
        BY <3>6 DEF OpenTmp, WriteKey, Rename, RenameFails, TimeOut, Go, PeerInv, TypeOK
      <4> QED
        BY <2>1, <4>1, <4>2 DEF Negotiating
    <3> QED
      BY <1>2, <3>1, <3>2, <3>3, <3>4, <3>5, <3>6 DEF Acts, Step
  <2>4. \A q \in Procs : Fits(q, phase'[q], told'[q], peer'[q], crypto'[q])
    BY <2>1, <2>2, <2>3
  <2> QED
    BY <2>4 DEF ModeInv, HasSecret, Secret, AutoEncrypt, ApplyConfig
<1> QED
  BY <1>1, <1>2 DEF Next, Acts

\* A process that its command line tells to encrypt, or its file by a
\* passphrase, does not run without; and the command line's passphrase wins.
THEOREM Encryption == Spec => []FlagsEncrypt
<1>1. Init => ModeInv
  BY DEF Init, ModeInv, Negotiating
<1>2. KeyInv /\ ModeInv /\ [Next]_vars => ModeInv'
  BY ModeStep
<1>3. ASSUME KeyInv, ModeInv PROVE FlagsEncrypt
  <2>. SUFFICES ASSUME NEW p \in Procs, phase[p] = "ready"
                PROVE  /\ (\/ told[p].auto
                           \/ told[p].secret \in Secrets
                           \/ told[p].secret = Absent /\ told[p].fileSecret \in Secrets)
                             => crypto[p] # Absent
                       /\ told[p].secret \in Secrets => crypto[p] = told[p].secret
    BY DEF FlagsEncrypt
  <2>1. PICK o \in Options : o = told[p]
    BY <1>3 DEF ModeInv
  <2>2. o.secret \in Secrets => HasSecret(o) /\ Secret(o) = o.secret
    BY KeyAssumption DEF HasSecret, Secret, ApplyConfig
  <2>3. o.secret = Absent /\ o.fileSecret \in Secrets => HasSecret(o)
    BY KeyAssumption DEF HasSecret, Secret, ApplyConfig
  <2>4. o.auto => AutoEncrypt(o)
    BY <2>1, KeyAssumption DEF AutoEncrypt, ApplyConfig, Options
  <2>5. HasSecret(o) => Secret(o) # Absent
    BY DEF HasSecret
  <2>6. CASE peer[p] = Absent
    BY <1>3, <2>1, <2>2, <2>3, <2>4, <2>5, <2>6 DEF ModeInv
  <2>7. CASE peer[p] # Absent
    <3>1. crypto[p] = {KeyOf(p), peer[p]} /\ ~HasSecret(o)
      BY <1>3, <2>1, <2>7 DEF KeyInv, SecretInv, ModeInv
    <3>2. KeyOf(p) \in Keys /\ peer[p] \in Keys
      BY <1>3, <2>7, OwnKey DEF KeyInv, PeerInv, TypeOK
    <3>3. crypto[p] \in Shared
      BY <3>1, <3>2 DEF Shared
    <3> QED
      BY <2>1, <2>2, <3>1, <3>3, KeyAssumption
  <2> QED
    BY <2>6, <2>7
<1> QED
  BY Invariant, KeyInit, <1>1, <1>2, <1>3, PTL DEF Spec
=============================================================================
