--------------------------- MODULE TcpConnect_proofs ---------------------------
(***************************************************************************)
(* Theorems about TcpConnect, for any number of connections of either kind *)
(* of client, any number of handler threads, of restarts and of failures.  *)
(***************************************************************************)
EXTENDS TcpConnect, TLAPS

PCs == {"free", "read", "connecting", "signalling", "refusing", "writing", "relaying"}

\* A thread that is handling something has a connection.
JobInv == \A w \in Workers : pc[w] # "free" => job[w] \in Conns

\* What moving a handler thread on does to the threads.
LEMMA HandlerMoves ==
  ASSUME TypeOK, JobInv, NEW w \in Workers, NEW here \in PCs \ {"free"}, NEW there \in PCs,
         HandlerAt(w, here, there)
  PROVE  /\ pc' \in [Workers -> PCs]
         /\ job' \in [Workers -> Conns \cup {None}]
         /\ JobInv'
         /\ job[w] \in Conns
         /\ UNCHANGED <<clientVars, relayVars>>
<1>1. job[w] \in Conns
  BY DEF JobInv, HandlerAt, PCs
<1>2. pc' = [pc EXCEPT ![w] = there] /\ UNCHANGED <<clientVars, relayVars>>
  BY DEF HandlerAt
<1>3. CASE there = "free"
  <2>1. job' = [job EXCEPT ![w] = None]
    BY <1>3 DEF HandlerAt
  <2> QED
    BY <1>1, <1>2, <1>3, <2>1 DEF TypeOK, JobInv, PCs
<1>4. CASE there # "free"
  <2>1. job' = job
    BY <1>4 DEF HandlerAt, TypeOK
  <2> QED
    BY <1>1, <1>2, <1>4, <2>1 DEF TypeOK, JobInv, PCs
<1> QED
  BY <1>3, <1>4

\* What the relay's cleanup may leave of a connection: all of its files, or some
\* and, unless it was refused to remove it, not the request.
CleanedUp ==
  /\ dir' \in [Conns -> BOOLEAN] /\ connect' \in [Conns -> BOOLEAN]
  /\ established' \in [Conns -> BOOLEAN] /\ error' \in [Conns -> {"none", "empty", "written"}]
  /\ kept \subseteq kept' /\ kept' \subseteq Conns
  /\ \A c \in Conns :
       /\ connect'[c] => connect[c]
       /\ established'[c] => established[c]
       /\ error'[c] \in {error[c], "none"}
       /\ connect'[c] /\ c \notin kept' => established'[c] = established[c] /\ error'[c] = error[c]

LEMMA Cleaning == ASSUME TypeOK, CleanupStale PROVE CleanedUp
<1>. DEFINE Removed(old, stay, c, f) == c \in old /\ f \notin stay[c]
            Cleans(old, stay) ==
              /\ dir' = [c \in Conns |-> dir[c] /\ (c \in old => FilesOf(c) \cap stay[c] # {})]
              /\ connect' = [c \in Conns |-> connect[c] /\ ~Removed(old, stay, c, "connect.json")]
              /\ established' = [c \in Conns |-> established[c] /\ ~Removed(old, stay, c, "established")]
              /\ error' = [c \in Conns |-> IF Removed(old, stay, c, "error.json") THEN "none" ELSE error[c]]
              /\ kept' = kept \cup {c \in old : "connect.json" \in stay[c]}
<1>0. PICK old \in SUBSET {c \in Conns : dir[c]} : \E stay \in [old -> SUBSET Protected] : Cleans(old, stay)
  BY DEF CleanupStale
<1>1. PICK stay \in [old -> SUBSET Protected] : Cleans(old, stay)
  BY <1>0
<1>2. /\ dir' \in [Conns -> BOOLEAN] /\ connect' \in [Conns -> BOOLEAN]
      /\ established' \in [Conns -> BOOLEAN] /\ error' \in [Conns -> {"none", "empty", "written"}]
      /\ kept \subseteq kept' /\ kept' \subseteq Conns
  BY <1>1 DEF TypeOK
<1>3. ASSUME NEW c \in Conns
      PROVE  /\ connect'[c] => connect[c]
             /\ established'[c] => established[c]
             /\ error'[c] \in {error[c], "none"}
             /\ connect'[c] /\ c \notin kept' => established'[c] = established[c] /\ error'[c] = error[c]
  <2>1. CASE c \notin old
    BY <1>1, <2>1 DEF TypeOK
  <2>2. CASE c \in old
    BY <1>1, <2>2 DEF TypeOK
  <2> QED
    BY <2>1, <2>2
<1> QED
  BY <1>2, <1>3 DEF CleanedUp

\* A listing contains what is pending.
LEMMA Listing ==
  ASSUME List, faults \in 0..MaxFaults
  PROVE  list' \subseteq Pending' /\ faults' \in 0..MaxFaults
  BY ConnectAssumption DEF List, Fault

\* Every variable of connection set-up keeps its type.
THEOREM Typing == Spec => [](TypeOK /\ JobInv)
<1>1. Init => TypeOK /\ JobInv
  BY ConnectAssumption DEF Init, TypeOK, JobInv
<1>2. TypeOK /\ JobInv /\ [Next]_vars => TypeOK' /\ JobInv'
  <2> SUFFICES ASSUME TypeOK, JobInv, [Next]_vars PROVE TypeOK' /\ JobInv'
    OBVIOUS
  <2>0. CASE UNCHANGED vars
    BY <2>0 DEF TypeOK, JobInv, vars
  <2>1. ASSUME NEW c \in Conns, MakeDirectory(c) \/ PublishConnect(c) \/ PublishFails(c) PROVE TypeOK' /\ JobInv'
    BY <2>1 DEF TypeOK, JobInv, MakeDirectory, PublishConnect, PublishFails, ClientAt, setup, fileVars, relayVars, threadVars, historyVars
  <2>2. ASSUME NEW c \in Conns,
               SeeEstablished(c) \/ SeeNotEstablished(c) \/ SeeError(c) \/ SeeNoError(c) \/ TimeOut(c)
        PROVE  TypeOK' /\ JobInv'
    BY <2>2 DEF TypeOK, JobInv, SeeEstablished, SeeNotEstablished, SeeError, SeeNoError, TimeOut,
                ClientAt, setup, fileVars, relayVars, threadVars, historyVars
  <2>3. ASSUME NEW c \in Conns, ReadError(c) PROVE TypeOK' /\ JobInv'
    BY <2>3 DEF TypeOK, JobInv, ReadError, ClientAt, setup, fileVars, relayVars, threadVars, historyVars
  <2>4. ASSUME NEW c \in Conns, ListFiles(c) \/ RemoveDirectory(c) PROVE TypeOK' /\ JobInv'
    <3>1. FilesOf(c) \subseteq Files
      BY DEF FilesOf
    <3> QED
      BY <2>4, <3>1, ZenonT(60) DEF TypeOK, JobInv, ListFiles, RemoveDirectory, ClientAt, setup, fileVars,
                        relayVars, threadVars, historyVars
  <2>10. ASSUME NEW c \in Conns, UnlinkFile(c) PROVE TypeOK' /\ JobInv'
    BY <2>10 DEF TypeOK, JobInv, UnlinkFile, ClientAt, setup, relayVars, threadVars, historyVars
  <2>5. CASE StartRelay
    <3>1. CleanedUp /\ list' \subseteq Conns /\ faults' \in 0..MaxFaults
      BY <2>5, Cleaning, Listing DEF StartRelay, TypeOK, Pending
    <3>2. mode' = "starting" /\ UNCHANGED <<clientVars, active, threadVars, historyVars>>
      BY <2>5 DEF StartRelay
    <3> QED
      BY <3>1, <3>2 DEF TypeOK, JobInv, CleanedUp, setup, clientVars, threadVars, historyVars
  <2>6. CASE BeginPolling \/ PollPending
    <3>1. list' \subseteq Conns /\ faults' \in 0..MaxFaults
      BY <2>6, Listing DEF BeginPolling, PollPending, Pending, TypeOK
    <3> QED
      BY <2>6, <3>1 DEF TypeOK, JobInv, BeginPolling, PollPending,
                setup, clientVars, fileVars, threadVars, historyVars
  <2>7. CASE StopRelay
    BY <2>7, ConnectAssumption DEF TypeOK, JobInv, StopRelay, Fault, setup, clientVars, fileVars, historyVars
  <2>8. ASSUME NEW w \in Workers, NEW c \in Conns, Handle(w, c) PROVE TypeOK' /\ JobInv'
    BY <2>8 DEF TypeOK, JobInv, Handle, setup, clientVars, fileVars, historyVars
  <2>9. ASSUME NEW w \in Workers, HandlerStep(w) \/ HandlerFails(w) PROVE TypeOK' /\ JobInv'
    <3>1. /\ pc' \in [Workers -> PCs]
          /\ job' \in [Workers -> Conns \cup {None}]
          /\ JobInv'
          /\ job[w] \in Conns
          /\ UNCHANGED <<clientVars, relayVars>>
      BY <2>9, HandlerMoves DEF HandlerStep, ReadConnect, ConnectSucceeds, ConnectFails,
         DirectoryGone, SignalEstablished, CreateError, WriteError, RelayEnds, HandlerFails, PCs
    <3>2. CASE ReadConnect(w) \/ ConnectFails(w) \/ DirectoryGone(w) \/ RelayEnds(w) \/ HandlerFails(w)
      BY <3>1, <3>2, ConnectAssumption DEF Fault, ReadConnect, ConnectFails, DirectoryGone, RelayEnds, HandlerFails, TypeOK,
                        setup, clientVars, relayVars, fileVars, historyVars, PCs
    <3>3. CASE ConnectSucceeds(w)
      BY <3>1, <3>3 DEF ConnectSucceeds, TypeOK, setup, clientVars, relayVars, fileVars, PCs
    <3>4. CASE SignalEstablished(w) \/ CreateError(w)
      BY <3>1, <3>4, ZenonT(60) DEF SignalEstablished, CreateError, TypeOK, setup, clientVars, relayVars, historyVars, PCs
    <3>5. CASE WriteError(w)
      BY <3>1, <3>5 DEF WriteError, TypeOK, setup, clientVars, relayVars, historyVars, PCs
    <3> QED
      BY <2>9, <3>2, <3>3, <3>4, <3>5 DEF HandlerStep
  <2> QED
    BY <2>0, <2>1, <2>2, <2>3, <2>4, <2>5, <2>6, <2>7, <2>8, <2>9, <2>10 DEF Next, ClientStep
<1> QED
  BY <1>1, <1>2, PTL DEF Spec

-----------------------------------------------------------------------------
\* What a signal in the directory, or one about to be made, stands for.
EvidenceInv ==
  /\ \A c \in Conns :
       /\ established[c] => sockets[c] > 0
       /\ error[c] # "none" => c \in refused
  /\ \A w \in Workers : pc[w] = "signalling" => sockets[job[w]] > 0

\* A client is told the truth: by the relay's handlers, signals are made only
\* after the event they stand for, and neither clients nor restarts make one.
THEOREM Outcome == Spec => []OutcomeIsTrue
<1> DEFINE Inv == EvidenceInv /\ OutcomeIsTrue
<1>1. Init => Inv
  BY DEF Init, EvidenceInv, OutcomeIsTrue
<1>2. TypeOK /\ JobInv /\ Inv /\ [Next]_vars => Inv'
  <2> SUFFICES ASSUME TypeOK, JobInv, Inv, [Next]_vars PROVE Inv'
    OBVIOUS
  <2> USE DEF EvidenceInv, OutcomeIsTrue
  <2>0. CASE UNCHANGED vars
    BY <2>0 DEF vars
  <2>1. ASSUME NEW c \in Conns, MakeDirectory(c) \/ PublishConnect(c) \/ PublishFails(c) PROVE Inv'
    BY <2>1 DEF MakeDirectory, PublishConnect, PublishFails, ClientAt, fileVars, threadVars, historyVars
  <2>2. ASSUME NEW c \in Conns, SeeEstablished(c) PROVE Inv'
    BY <2>2 DEF TypeOK, SeeEstablished, ClientAt, fileVars, threadVars, historyVars
  <2>3. ASSUME NEW c \in Conns, SeeNotEstablished(c) \/ SeeError(c) \/ SeeNoError(c) \/ TimeOut(c)
        PROVE  Inv'
    BY <2>3 DEF SeeNotEstablished, SeeError, SeeNoError, TimeOut, ClientAt, fileVars, threadVars, historyVars
  <2>4. ASSUME NEW c \in Conns, ReadError(c) PROVE Inv'
    BY <2>4 DEF TypeOK, ReadError, ClientAt, fileVars, threadVars, historyVars
  <2>5. ASSUME NEW c \in Conns, ListFiles(c) \/ UnlinkFile(c) \/ RemoveDirectory(c) PROVE Inv'
    BY <2>5 DEF TypeOK, ListFiles, UnlinkFile, RemoveDirectory, ClientAt, fileVars, threadVars, historyVars
  <2>6. CASE StartRelay
    <3>1. CleanedUp /\ UNCHANGED <<clientVars, threadVars, historyVars>>
      BY <2>6, Cleaning DEF StartRelay
    <3> QED
      BY <3>1 DEF TypeOK, CleanedUp, clientVars, threadVars, historyVars
  <2>7. CASE BeginPolling \/ PollPending
    BY <2>7 DEF BeginPolling, PollPending, clientVars, fileVars, threadVars, historyVars
  <2>8. CASE StopRelay
    BY <2>8 DEF StopRelay, clientVars, fileVars, historyVars
  <2>9. ASSUME NEW w \in Workers, NEW c \in Conns, Handle(w, c) PROVE Inv'
    BY <2>9 DEF TypeOK, Handle, clientVars, fileVars, historyVars
  <2>10. ASSUME NEW w \in Workers, ReadConnect(w) \/ ConnectFails(w) \/ DirectoryGone(w) \/ RelayEnds(w) \/ HandlerFails(w)
         PROVE  Inv'
    BY <2>10 DEF TypeOK, ReadConnect, ConnectFails, DirectoryGone, RelayEnds, HandlerFails, HandlerAt,
                 clientVars, fileVars, historyVars
  <2>11. ASSUME NEW w \in Workers, ConnectSucceeds(w) PROVE Inv'
    <3>1. job[w] \in Conns
      BY <2>11 DEF JobInv, ConnectSucceeds, HandlerAt
    <3>2. /\ sockets'[job[w]] > 0
          /\ \A c \in Conns : sockets[c] > 0 => sockets'[c] > 0
      BY <2>11, <3>1 DEF TypeOK, ConnectSucceeds
    <3> QED
      BY <2>11, <3>1, <3>2 DEF TypeOK, JobInv, ConnectSucceeds, HandlerAt, clientVars, fileVars
  <2>12. ASSUME NEW w \in Workers, SignalEstablished(w) PROVE Inv'
    BY <2>12 DEF TypeOK, JobInv, SignalEstablished, HandlerAt, clientVars, historyVars
  <2>13. ASSUME NEW w \in Workers, CreateError(w) PROVE Inv'
    BY <2>13 DEF TypeOK, JobInv, CreateError, HandlerAt, clientVars
  <2>14. ASSUME NEW w \in Workers, WriteError(w) PROVE Inv'
    BY <2>14 DEF TypeOK, JobInv, WriteError, HandlerAt, clientVars, historyVars
  <2> QED
    BY <2>0, <2>1, <2>2, <2>3, <2>4, <2>5, <2>6, <2>7, <2>8, <2>9, <2>10, <2>11, <2>12, <2>13, <2>14
    DEF Next, ClientStep, HandlerStep
<1> QED
  BY <1>1, <1>2, Typing, PTL DEF Spec

-----------------------------------------------------------------------------
\* What keeps a connection off the relay's list: the answer that a client saw, or
\* that its SOCKS client is unlinking, or has unlinked, the request.
FilesInv ==
  \A c \in Conns : c \notin kept =>
    /\ client[c] = "connected" => established[c] \/ ~connect[c]
    /\ client[c] = "unlinking" /\ connect[c] => "connect.json" \in sweep[c]
    /\ client[c] \in {"idle", "preparing"} => ~connect[c]
    /\ c \in socks /\ client[c] = "gone" => ~connect[c]

\* What is over is not on the list.
LEMMA OverNotPending ==
  ASSUME FilesInv, NEW c \in Conns, Over(c), c \notin kept
  PROVE  c \notin Pending
  BY DEF FilesInv, Over, Pending

\* Only publishing makes a request, and a cleanup removes it before the directory.
LEMMA FilesKept ==
  ASSUME TypeOK, JobInv, FilesInv, [Next]_vars
  PROVE  FilesInv'
<1> USE DEF FilesInv
<1>1. CASE UNCHANGED vars
  BY <1>1 DEF vars
<1>2. ASSUME NEW c \in Conns, MakeDirectory(c) \/ PublishConnect(c) \/ PublishFails(c) PROVE FilesInv'
  BY <1>2 DEF TypeOK, MakeDirectory, PublishConnect, PublishFails, ClientAt, setup, fileVars
<1>3. ASSUME NEW c \in Conns, TimeOut(c) \/ SeeEstablished(c) \/ SeeNotEstablished(c) \/ SeeError(c) \/ SeeNoError(c)
      PROVE  FilesInv'
  BY <1>3 DEF TypeOK, TimeOut, SeeEstablished, SeeNotEstablished, SeeError, SeeNoError, ClientAt, setup, fileVars
<1>4. ASSUME NEW c \in Conns, ReadError(c) PROVE FilesInv'
  BY <1>4 DEF TypeOK, ReadError, ClientAt, setup, fileVars
<1>5. ASSUME NEW c \in Conns, ListFiles(c) PROVE FilesInv'
  BY <1>5 DEF TypeOK, ListFiles, FilesOf, Files, ClientAt, setup, fileVars
<1>6. ASSUME NEW c \in Conns, UnlinkFile(c) PROVE FilesInv'
  <2>1. PICK f \in sweep[c] :
          /\ sweep' = [sweep EXCEPT ![c] = @ \ {f}]
          /\ \/ /\ connect' = [connect EXCEPT ![c] = @ /\ f # "connect.json"]
                /\ established' = [established EXCEPT ![c] = @ /\ f # "established"]
                /\ kept' = kept
             \/ /\ kept' = IF f = "connect.json" THEN kept \cup {c} ELSE kept
                /\ UNCHANGED <<connect, established, error>>
    BY <1>6 DEF UnlinkFile
  <2>2. client[c] = "unlinking" /\ client' = [client EXCEPT ![c] = "unlinking"] /\ socks' = socks
    BY <1>6 DEF UnlinkFile, ClientAt, setup
  <2> QED
    BY <2>1, <2>2, ZenonT(60) DEF TypeOK
<1>7. ASSUME NEW c \in Conns, RemoveDirectory(c) PROVE FilesInv'
  BY <1>7 DEF TypeOK, RemoveDirectory, ClientAt, setup
<1>8. CASE StartRelay
  <2>1. CleanedUp /\ UNCHANGED clientVars
    BY <1>8, Cleaning DEF StartRelay
  <2> QED
    BY <2>1 DEF TypeOK, CleanedUp, setup, clientVars
<1>9. CASE BeginPolling \/ PollPending \/ StopRelay
  BY <1>9 DEF BeginPolling, PollPending, StopRelay, setup, clientVars, fileVars
<1>10. ASSUME NEW w \in Workers, NEW c \in Conns, Handle(w, c) PROVE FilesInv'
  BY <1>10 DEF Handle, setup, clientVars, fileVars
<1>11. ASSUME NEW w \in Workers, HandlerStep(w) \/ HandlerFails(w) PROVE FilesInv'
  BY <1>11 DEF TypeOK, HandlerStep, ReadConnect, ConnectSucceeds, ConnectFails, DirectoryGone,
     SignalEstablished, CreateError, WriteError, RelayEnds, HandlerFails, HandlerAt, setup, clientVars, fileVars
<1> QED
  BY <1>1, <1>2, <1>3, <1>4, <1>5, <1>6, <1>7, <1>8, <1>9, <1>10, <1>11 DEF Next, ClientStep

\* A client that has its outcome does nothing more, and of its connection's files
\* either all go or the request and the answers stay.
LEMMA OverStays ==
  ASSUME TypeOK, JobInv, [Next]_vars, NEW c \in Conns, Over(c), c \notin kept'
  PROVE  Over(c)'
<1>1. /\ client[c] \in {"connected", "gone"}
      /\ c \in socks \/ established[c] \/ error[c] # "none" \/ ~connect[c]
  BY DEF Over
<1> USE DEF Over
<1>2. CASE UNCHANGED vars
  BY <1>1, <1>2 DEF vars
<1>3. ASSUME NEW d \in Conns, MakeDirectory(d) \/ PublishConnect(d) \/ PublishFails(d) PROVE Over(c)'
  BY <1>1, <1>3 DEF TypeOK, MakeDirectory, PublishConnect, PublishFails, ClientAt, setup, fileVars
<1>4. ASSUME NEW d \in Conns,
             TimeOut(d) \/ SeeEstablished(d) \/ SeeNotEstablished(d) \/ SeeError(d) \/ SeeNoError(d) \/ ReadError(d)
      PROVE  Over(c)'
  BY <1>1, <1>4 DEF TypeOK, TimeOut, SeeEstablished, SeeNotEstablished, SeeError, SeeNoError, ReadError,
                    ClientAt, setup, fileVars
<1>5. ASSUME NEW d \in Conns, ListFiles(d) \/ RemoveDirectory(d)
      PROVE  Over(c)'
  BY <1>1, <1>5 DEF TypeOK, ListFiles, RemoveDirectory, ClientAt, setup, fileVars
<1>6. ASSUME NEW d \in Conns, UnlinkFile(d) PROVE Over(c)'
  <2>1. d # c
    BY <1>1, <1>6 DEF UnlinkFile, ClientAt, setup
  <2> QED
    BY <1>1, <1>6, <2>1 DEF TypeOK, UnlinkFile, ClientAt, setup
<1>7. CASE StartRelay
  <2>1. CleanedUp /\ UNCHANGED clientVars
    BY <1>7, Cleaning DEF StartRelay
  <2> QED
    BY <1>1, <2>1 DEF TypeOK, CleanedUp, setup, clientVars
<1>8. CASE BeginPolling \/ PollPending \/ StopRelay
  BY <1>1, <1>8 DEF BeginPolling, PollPending, StopRelay, setup, clientVars, fileVars
<1>9. ASSUME NEW w \in Workers, NEW d \in Conns, Handle(w, d) PROVE Over(c)'
  BY <1>1, <1>9 DEF Handle, setup, clientVars, fileVars
<1>10. ASSUME NEW w \in Workers, HandlerStep(w) \/ HandlerFails(w) PROVE Over(c)'
  BY <1>1, <1>10 DEF TypeOK, HandlerStep, ReadConnect, ConnectSucceeds, ConnectFails, DirectoryGone,
     SignalEstablished, CreateError, WriteError, RelayEnds, HandlerFails, HandlerAt, setup, clientVars, fileVars
<1> QED
  BY <1>2, <1>3, <1>4, <1>5, <1>6, <1>7, <1>8, <1>9, <1>10 DEF Next, ClientStep

\* A connection that is over and that neither a listing nor a thread has to open
\* gets to neither, and is not opened.
LEMMA UnattendedStays ==
  ASSUME TypeOK, JobInv, [Next]_vars, NEW c \in Conns, c \notin Pending', Unattended(c)
  PROVE  Unattended(c)' /\ sockets'[c] = sockets[c]
<1> USE DEF Unattended
<1>1. CASE UNCHANGED vars
  BY <1>1 DEF vars
<1>2. ASSUME NEW d \in Conns, MakeDirectory(d) \/ PublishConnect(d) \/ PublishFails(d) \/ TimeOut(d) \/ ClientStep(d)
      PROVE  Unattended(c)' /\ sockets'[c] = sockets[c]
  <2>1. UNCHANGED <<list, pc, job, sockets>>
    BY <1>2 DEF MakeDirectory, PublishConnect, PublishFails, TimeOut, ClientStep, SeeEstablished, SeeNotEstablished,
       SeeError, SeeNoError, ReadError, ListFiles, UnlinkFile, RemoveDirectory, ClientAt,
       relayVars, threadVars, historyVars
  <2> QED
    BY <2>1
<1>3. CASE StartRelay
  BY <1>3 DEF StartRelay, List, threadVars, historyVars
<1>4. CASE BeginPolling \/ PollPending
  BY <1>4 DEF BeginPolling, PollPending, List, threadVars, historyVars
<1>5. CASE StopRelay
  BY <1>5 DEF StopRelay, historyVars
<1>6. ASSUME NEW w \in Workers, NEW d \in Conns, Handle(w, d) PROVE Unattended(c)' /\ sockets'[c] = sockets[c]
  BY <1>6 DEF TypeOK, Handle, historyVars
<1>7. ASSUME NEW w \in Workers, HandlerStep(w) \/ HandlerFails(w) PROVE Unattended(c)' /\ sockets'[c] = sockets[c]
  <2>1. list' = list
    BY <1>7 DEF HandlerStep, ReadConnect, ConnectSucceeds, ConnectFails, DirectoryGone,
       SignalEstablished, CreateError, WriteError, RelayEnds, HandlerFails, HandlerAt, relayVars
  <2>2. job'[w] = c => pc'[w] \notin {"read", "connecting"}
    BY <1>7 DEF TypeOK, JobInv, HandlerStep, ReadConnect, ConnectSucceeds, ConnectFails, DirectoryGone,
       SignalEstablished, CreateError, WriteError, RelayEnds, HandlerFails, HandlerAt
  <2>3. \A v \in Workers \ {w} : job'[v] = job[v] /\ pc'[v] = pc[v]
    BY <1>7 DEF TypeOK, HandlerStep, ReadConnect, ConnectSucceeds, ConnectFails, DirectoryGone,
       SignalEstablished, CreateError, WriteError, RelayEnds, HandlerFails, HandlerAt
  <2>4. sockets'[c] = sockets[c]
    BY <1>7 DEF TypeOK, HandlerStep, ReadConnect, ConnectSucceeds, ConnectFails, DirectoryGone,
       SignalEstablished, CreateError, WriteError, RelayEnds, HandlerFails, HandlerAt, historyVars
  <2> QED
    BY <2>1, <2>2, <2>3, <2>4
<1> QED
  BY <1>1, <1>2, <1>3, <1>4, <1>5, <1>6, <1>7 DEF Next

\* Listings contain what is pending.
LEMMA ListedBefore ==
  ASSUME [Next]_vars, NEW c \in Conns, c \notin Pending', c \in list'
  PROVE  c \in list
<1>1. CASE UNCHANGED vars
  BY <1>1 DEF vars
<1>2. CASE \E d \in Conns : MakeDirectory(d) \/ PublishConnect(d) \/ PublishFails(d) \/ TimeOut(d) \/ ClientStep(d)
  BY <1>2 DEF MakeDirectory, PublishConnect, PublishFails, TimeOut, ClientStep, SeeEstablished, SeeNotEstablished,
     SeeError, SeeNoError, ReadError, ListFiles, UnlinkFile, RemoveDirectory, ClientAt, relayVars
<1>3. CASE StartRelay \/ BeginPolling \/ PollPending \/ StopRelay
  BY <1>3 DEF StartRelay, BeginPolling, PollPending, StopRelay, List
<1>4. CASE \E w \in Workers, d \in Conns : Handle(w, d)
  BY <1>4 DEF Handle
<1>5. CASE \E w \in Workers : HandlerStep(w) \/ HandlerFails(w)
  BY <1>5 DEF HandlerStep, ReadConnect, ConnectSucceeds, ConnectFails, DirectoryGone,
     SignalEstablished, CreateError, WriteError, RelayEnds, HandlerFails, HandlerAt, relayVars
<1> QED
  BY <1>1, <1>2, <1>3, <1>4, <1>5 DEF Next

\* An attempt that is over stays over: after its client has its outcome, nothing
\* makes the relay list it again, and nothing but what already had it opens it.
THEOREM OverIsFinal == Spec => SettledForGood
<1>1. Init => FilesInv
  BY DEF Init, FilesInv
<1>2. TypeOK /\ JobInv /\ FilesInv /\ [Next]_vars => FilesInv'
  BY FilesKept
<1>3. TypeOK /\ JobInv /\ FilesInv /\ [Next]_vars =>
        [\A c \in Conns : Over(c) /\ c \notin kept' =>
           /\ Over(c)'
           /\ c \in list' => c \in list
           /\ Unattended(c) => Unattended(c)' /\ sockets'[c] = sockets[c]]_vars
  <2> SUFFICES ASSUME TypeOK, JobInv, FilesInv, [Next]_vars, NEW c \in Conns, Over(c), c \notin kept'
               PROVE  /\ Over(c)'
                      /\ c \in list' => c \in list
                      /\ Unattended(c) => Unattended(c)' /\ sockets'[c] = sockets[c]
    OBVIOUS
  <2>1. Over(c)' /\ FilesInv'
    BY OverStays, FilesKept
  <2>2. c \notin Pending'
    BY <2>1 DEF FilesInv, Over, Pending
  <2> QED
    BY <2>1, <2>2, ListedBefore, UnattendedStays
<1> QED
  BY <1>1, <1>2, <1>3, Typing, PTL DEF Spec, SettledForGood
=============================================================================
